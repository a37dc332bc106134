-------------------------- MODULE GrassServiceProofs --------------------------
(* Theorems about GrassService, for any users, passwords and connections.  *)
EXTENDS GrassService, CommandsProofs, FiniteSetTheorems, SequenceTheorems, TLAPS

-------------------------------------------------------------------------------
(* What a run of replies justifies *)

(* A login line for u was accepted, and nothing but harmless lines since.  *)
Attempts(entries, u) ==
  \E i \in DOMAIN entries :
    /\ entries[i].line.cmd = "login"
    /\ entries[i].line.arg = u
    /\ entries[i].reply.text = ""
    /\ \A k \in DOMAIN entries : k > i => Harmless(entries[k].line)

LEMMA Appended ==
  ASSUME NEW entries \in Seq(Entry), NEW e \in Entry
  PROVE  /\ Append(entries, e) \in Seq(Entry)
         /\ DOMAIN entries = 1..Len(entries) /\ Len(entries) \in Nat
         /\ DOMAIN Append(entries, e) = 1..(Len(entries) + 1)
         /\ \A k \in 1..Len(entries) : Append(entries, e)[k] = entries[k]
         /\ Append(entries, e)[Len(entries) + 1] = e
         /\ \A n \in 1..(Len(entries) + 1) :
              SubSeq(Append(entries, e), 1, n - 1) = SubSeq(entries, 1, n - 1)
         /\ SubSeq(entries, 1, Len(entries)) = entries
<1>1. /\ Append(entries, e) \in Seq(Entry)
      /\ Len(Append(entries, e)) = Len(entries) + 1
      /\ DOMAIN entries = 1..Len(entries) /\ Len(entries) \in Nat
      /\ DOMAIN Append(entries, e) = 1..(Len(entries) + 1)
      /\ \A k \in 1..Len(entries) : Append(entries, e)[k] = entries[k]
      /\ Append(entries, e)[Len(entries) + 1] = e
  BY SMT
<1>2. ASSUME NEW n \in 1..(Len(entries) + 1)
      PROVE  SubSeq(Append(entries, e), 1, n - 1) = SubSeq(entries, 1, n - 1)
  <2>1. \A i \in 1..(n - 1) : /\ i \in 1..Len(entries)
                             /\ entries[i] \in Entry
                             /\ Append(entries, e)[i] = entries[i]
    BY <1>1, SMT
  <2>2. /\ SubSeq(entries, 1, n - 1) \in Seq(Entry)
        /\ Len(SubSeq(entries, 1, n - 1)) = n - 1
        /\ \A i \in 1..(n - 1) : SubSeq(entries, 1, n - 1)[i] = entries[i]
    BY <1>1, <2>1, SubSeqProperties, SMT
  <2>3. /\ SubSeq(Append(entries, e), 1, n - 1) \in Seq(Entry)
        /\ Len(SubSeq(Append(entries, e), 1, n - 1)) = n - 1
        /\ \A i \in 1..(n - 1) :
             SubSeq(Append(entries, e), 1, n - 1)[i] = Append(entries, e)[i]
    BY <1>1, <2>1, SubSeqProperties, SMT
  <2>4. QED  BY <2>1, <2>2, <2>3, SeqEqual
<1>3. SubSeq(entries, 1, Len(entries)) = entries  BY SubSeqFull
<1>4. QED  BY <1>1, <1>2, <1>3

(* new is old with one more entry, the n + 1st. *)
Extends(new, old, n, e) ==
  /\ n \in Nat
  /\ DOMAIN old = 1..n
  /\ DOMAIN new = 1..(n + 1)
  /\ \A k \in 1..n : new[k] = old[k]
  /\ new[n + 1] = e

LEMMA AppendExtends ==
  ASSUME NEW entries \in Seq(Entry), NEW e \in Entry
  PROVE  Extends(Append(entries, e), entries, Len(entries), e)
  BY Appended DEF Extends

(* The positions of the old entries and of the new one. *)
LEMMA Positions ==
  ASSUME NEW n \in Nat
  PROVE  /\ n + 1 \in 1..(n + 1)
         /\ \A k \in 1..n : k \in 1..(n + 1) /\ k < n + 1
         /\ \A k \in 1..(n + 1) : ~(k > n + 1) /\ (k # n + 1 => k \in 1..n)
         /\ \A i, j \in 1..n : \A k \in (i + 1)..(j - 1) : k \in 1..n
  BY SMT

(* Each kind of outcome preserves what the session claims. *)
LEMMA AttemptKept ==
  ASSUME NEW old, NEW new, NEW n, NEW e, Extends(new, old, n, e),
         NEW u, Attempts(old, u), Harmless(e.line)
  PROVE  Attempts(new, u)
<1>1. PICK i \in DOMAIN old :
        /\ old[i].line.cmd = "login" /\ old[i].line.arg = u
        /\ old[i].reply.text = ""
        /\ \A k \in DOMAIN old : k > i => Harmless(old[k].line)
  BY DEF Attempts
<1>2. ASSUME NEW k \in DOMAIN new, k > i
      PROVE  Harmless(new[k].line)
  <2>1. CASE k = n + 1  BY <2>1 DEF Extends
  <2>2. CASE k # n + 1
    <3>1. k \in 1..n  BY <1>2, <2>2, SMT DEF Extends
    <3>2. QED  BY <1>1, <1>2, <3>1 DEF Extends
  <2>3. QED  BY <2>1, <2>2
<1>3. i \in DOMAIN new /\ new[i] = old[i]  BY SMT DEF Extends
<1>4. QED  BY <1>1, <1>2, <1>3 DEF Attempts

LEMMA AttemptStarted ==
  ASSUME NEW old, NEW new, NEW n, NEW e, Extends(new, old, n, e),
         e.line.cmd = "login", e.reply.text = ""
  PROVE  Attempts(new, e.line.arg)
<1>1. /\ n + 1 \in DOMAIN new /\ new[n + 1] = e
      /\ \A k \in DOMAIN new : ~(k > n + 1)
  <2>1. n \in Nat  BY DEF Extends
  <2>2. n + 1 \in 1..(n + 1) /\ \A k \in 1..(n + 1) : ~(k > n + 1)
    BY <2>1, Positions
  <2>3. QED  BY <2>2 DEF Extends
<1>. DEFINE i == n + 1
<1>. HIDE DEF i
<1>2. /\ i \in DOMAIN new /\ new[i] = e
      /\ \A k \in DOMAIN new : ~(k > i)
  BY <1>1 DEF i
<1>3. QED  BY <1>2, Zenon DEF Attempts

LEMMA AttemptSucceeds ==
  ASSUME NEW old, NEW new, NEW n, NEW e, Extends(new, old, n, e),
         NEW u, Attempts(old, u), e.line.cmd = "pass", checkLogin(u, e.line.arg)
  PROVE  Justifies(new, u)
<1>1. PICK i \in DOMAIN old :
        /\ old[i].line.cmd = "login" /\ old[i].line.arg = u
        /\ old[i].reply.text = ""
        /\ \A k \in DOMAIN old : k > i => Harmless(old[k].line)
  BY DEF Attempts
<1>2. /\ i \in DOMAIN new /\ new[i] = old[i]
      /\ n + 1 \in DOMAIN new /\ new[n + 1] = e /\ i < n + 1
      /\ \A k \in DOMAIN new : ~(k > n + 1)
      /\ \A k \in (i + 1)..((n + 1) - 1) :
            k \in DOMAIN old /\ k > i /\ new[k] = old[k]
  BY SMT DEF Extends
<1>3. \A k \in (i + 1)..((n + 1) - 1) : Harmless(new[k].line)
  BY <1>1, <1>2
<1>. DEFINE j == n + 1
<1>. HIDE DEF j
<1>4. /\ i \in DOMAIN new /\ j \in DOMAIN new /\ i < j
      /\ new[i].line.cmd = "login" /\ new[i].line.arg = u
      /\ new[i].reply.text = ""
      /\ \A k \in (i + 1)..(j - 1) : Harmless(new[k].line)
      /\ new[j].line.cmd = "pass" /\ checkLogin(u, new[j].line.arg)
      /\ \A k \in DOMAIN new : ~(k > j)
  BY <1>1, <1>2, <1>3 DEF j
<1>5. QED  BY <1>4, Zenon DEF Justifies

LEMMA JustificationKept ==
  ASSUME NEW old, NEW new, NEW n, NEW e, Extends(new, old, n, e),
         NEW u, Justifies(old, u), e.line.cmd = "logout" => e.reply.text # ""
  PROVE  Justifies(new, u)
<1>1. PICK i \in DOMAIN old, j \in DOMAIN old :
        /\ i < j
        /\ old[i].line.cmd = "login"
        /\ old[i].line.arg = u
        /\ old[i].reply.text = ""
        /\ \A k \in (i + 1)..(j - 1) : Harmless(old[k].line)
        /\ old[j].line.cmd = "pass"
        /\ checkLogin(u, old[j].line.arg)
        /\ \A k \in DOMAIN old :
             k > j /\ old[k].line.cmd = "logout" => old[k].reply.text # ""
  BY Zenon DEF Justifies
<1>2. /\ i \in DOMAIN new /\ j \in DOMAIN new
      /\ new[i] = old[i] /\ new[j] = old[j]
      /\ \A k \in (i + 1)..(j - 1) : new[k] = old[k]
  <2>1. n \in Nat /\ i \in 1..n /\ j \in 1..n  BY DEF Extends
  <2>2. /\ i \in 1..(n + 1) /\ j \in 1..(n + 1)
        /\ \A k \in (i + 1)..(j - 1) : k \in 1..n
    BY <2>1, Positions
  <2>3. QED  BY <2>1, <2>2 DEF Extends
<1>3. ASSUME NEW k \in DOMAIN new, k > j, new[k].line.cmd = "logout"
      PROVE  new[k].reply.text # ""
  <2>1. CASE k = n + 1  BY <1>3, <2>1 DEF Extends
  <2>2. CASE k # n + 1
    <3>1. n \in Nat /\ k \in 1..(n + 1)  BY <1>3 DEF Extends
    <3>2. k \in 1..n  BY <2>2, <3>1, Positions
    <3>3. QED  BY <1>1, <1>3, <3>2 DEF Extends
  <2>3. QED  BY <2>1, <2>2
<1>4. /\ i < j
      /\ new[i].line.cmd = "login" /\ new[i].line.arg = u
      /\ new[i].reply.text = ""
      /\ \A k \in (i + 1)..(j - 1) : Harmless(new[k].line)
      /\ new[j].line.cmd = "pass" /\ checkLogin(u, new[j].line.arg)
  BY <1>1, <1>2
<1>5. QED  BY <1>2, <1>3, <1>4, Zenon DEF Justifies

-------------------------------------------------------------------------------
(* The inductive invariant *)

AnswersOf(entries) ==
  \A n \in DOMAIN entries :
    LET e == entries[n] IN
      /\ e.line.cmd \in PRIVILEGED_COMMANDS
      /\ e.reply.text \notin {"Access denied", "Login interrupted"}
      => \E u \in Text :
           /\ Justifies(SubSeq(entries, 1, n - 1), u)
           /\ e.line.cmd = "whoami" => e.reply.users[u] = 1

(* What a session's state claims of the lines executed so far: next to     *)
(* LoginJustified, that a pending login attempt is backed by a login line. *)
Claims(s, entries) ==
  /\ s.login_attempt # None => Attempts(entries, s.login_attempt)
  /\ s.username # None => Justifies(entries, s.username)
  /\ AnswersOf(entries)

IInv == TypeOK /\ \A c \in Conn : Claims(session[c], log[c])

LEMMA StateKept ==
  ASSUME NEW s \in State, NEW line \in Line, NEW o,
         NEW old, NEW new, NEW n,
         Extends(new, old, n, [line |-> line, reply |-> o.reply]),
         Claims(s, old),
         \/ Keeps(s, line, o)
         \/ EndsAttempt(s, line, o)
         \/ StartsAttempt(s, line, o)
         \/ LogsIn(s, line, o)
         \/ LogsOut(s, line, o)
  PROVE  /\ o.state.login_attempt # None => Attempts(new, o.state.login_attempt)
         /\ o.state.username # None => Justifies(new, o.state.username)
<1>. DEFINE e == [line |-> line, reply |-> o.reply]
<1>1. e.line = line /\ e.reply = o.reply  OBVIOUS
<1>2. Extends(new, old, n, e)  OBVIOUS
<1>. HIDE DEF e
<1>3. ASSUME s.username # None, line.cmd = "logout" => o.reply.text # ""
      PROVE  Justifies(new, s.username)
  <2>1. Justifies(old, s.username)  BY <1>3 DEF Claims
  <2>2. QED  BY <1>1, <1>2, <1>3, <2>1, JustificationKept
<1>4. CASE Keeps(s, line, o)
  <2>1. o.state = s  BY <1>4 DEF Keeps
  <2>2. ASSUME s.login_attempt # None  PROVE Attempts(new, s.login_attempt)
    <3>1. Attempts(old, s.login_attempt) /\ Harmless(e.line)
      BY <1>1, <1>4, <2>2 DEF Claims, Keeps
    <3>2. QED  BY <1>2, <3>1, AttemptKept
  <2>3. QED  BY <1>3, <1>4, <2>1, <2>2 DEF Keeps
<1>5. CASE EndsAttempt(s, line, o)
  <2>1. o.state.login_attempt = None /\ o.state.username = s.username
    BY <1>5 DEF EndsAttempt, State
  <2>2. QED  BY <1>3, <1>5, <2>1 DEF EndsAttempt
<1>6. CASE StartsAttempt(s, line, o)
  <2>1. /\ o.state.login_attempt = line.arg /\ o.state.username = s.username
        /\ line.cmd = "login" /\ o.reply.text = ""
    BY <1>6 DEF StartsAttempt, State
  <2>2. Attempts(new, e.line.arg)  BY <1>1, <1>2, <2>1, AttemptStarted
  <2>3. QED  BY <1>1, <1>3, <2>1, <2>2
<1>7. CASE LogsIn(s, line, o)
  <2>1. /\ s.login_attempt # None
        /\ line.cmd = "pass" /\ checkLogin(s.login_attempt, line.arg)
        /\ o.state.login_attempt = None
        /\ o.state.username = s.login_attempt
    BY <1>7 DEF LogsIn
  <2>2. Attempts(old, s.login_attempt)  BY <2>1 DEF Claims
  <2>3. Justifies(new, s.login_attempt)
    BY <1>1, <1>2, <2>1, <2>2, AttemptSucceeds
  <2>4. QED  BY <2>1, <2>3
<1>8. CASE LogsOut(s, line, o)
  <2>1. o.state.login_attempt = None /\ o.state.username = None
    BY <1>8 DEF LogsOut, State
  <2>2. QED  BY <2>1
<1>9. QED  BY <1>4, <1>5, <1>6, <1>7, <1>8

LEMMA AnswersKept ==
  ASSUME NEW s \in State, NEW line \in Line, NEW reply \in Reply,
         NEW o, o.reply = reply,
         NEW entries \in Seq(Entry), Claims(s, entries), Privileged(s, line, o)
  PROVE  AnswersOf(Append(entries, [line |-> line, reply |-> reply]))
<1>. DEFINE e == [line |-> line, reply |-> reply]
<1>1. e \in Entry /\ e.line = line /\ e.reply = reply  BY DEF Entry
<1>. HIDE DEF e
<1>. DEFINE new == Append(entries, e)
<1>. DEFINE N == Len(entries)
<1>2. /\ N \in Nat
      /\ DOMAIN entries = 1..N
      /\ DOMAIN new = 1..(N + 1)
      /\ \A k \in 1..N : new[k] = entries[k]
      /\ new[N + 1] = e
      /\ \A n \in 1..(N + 1) : SubSeq(new, 1, n - 1) = SubSeq(entries, 1, n - 1)
      /\ SubSeq(entries, 1, N) = entries
  BY <1>1, Appended
<1>. SUFFICES AnswersOf(new)
  BY DEF e
<1>. HIDE DEF new, N
<1>3. SUFFICES ASSUME NEW n \in 1..(N + 1),
                      new[n].line.cmd \in PRIVILEGED_COMMANDS,
                      new[n].reply.text
                        \notin {"Access denied", "Login interrupted"}
               PROVE  \E u \in Text :
                        /\ Justifies(SubSeq(entries, 1, n - 1), u)
                        /\ new[n].line.cmd = "whoami"
                             => new[n].reply.users[u] = 1
  BY <1>2, Zenon DEF AnswersOf
<1>4. CASE n = N + 1
  <2>1. new[n].line = line /\ new[n].reply = o.reply  BY <1>1, <1>2, <1>4
  <2>2. s.username \in Text
        /\ (line.cmd = "whoami" => o.reply.users[s.username] = 1)
    BY <1>3, <2>1 DEF Privileged
  <2>3. s.username # None  BY <2>2, NoneAssumption
  <2>4. Justifies(entries, s.username)  BY <2>3 DEF Claims
  <2>5. n - 1 = N  BY <1>2, <1>4, SMT
  <2>6. SubSeq(entries, 1, n - 1) = entries  BY <1>2, <2>5
  <2>7. QED  BY <2>1, <2>2, <2>4, <2>6
<1>5. CASE n # N + 1
  <2>1. n \in 1..N  BY <1>2, <1>3, <1>5, Positions
  <2>2. new[n] = entries[n] /\ n \in DOMAIN entries  BY <1>2, <2>1
  <2>3. AnswersOf(entries)  BY DEF Claims
  <2>4. QED  BY <1>3, <2>2, <2>3 DEF AnswersOf
<1>6. QED  BY <1>4, <1>5

LEMMA ClaimsKept ==
  ASSUME NEW s \in State, NEW line \in Line, line.cmd # "exit",
         NEW online \in Users, NEW o \in execute(s, line, online),
         NEW entries \in Seq(Entry), Claims(s, entries)
  PROVE  /\ o.state \in State
         /\ [line |-> line, reply |-> o.reply] \in Entry
         /\ Claims(o.state,
                   Append(entries, [line |-> line, reply |-> o.reply]))
<1>1. /\ o \in [state : State, reply : Reply]
      /\ \/ Keeps(s, line, o)
         \/ EndsAttempt(s, line, o)
         \/ StartsAttempt(s, line, o)
         \/ LogsIn(s, line, o)
         \/ LogsOut(s, line, o)
      /\ Privileged(s, line, o)
  BY ExecuteKinds
<1>2. o.state \in State /\ o.reply \in Reply  BY <1>1
<1>. DEFINE e == [line |-> line, reply |-> o.reply]
<1>3. e \in Entry  BY <1>2 DEF Entry
<1>4. Extends(Append(entries, e), entries, Len(entries), e)
  BY <1>3, AppendExtends
<1>5. /\ o.state.login_attempt # None
           => Attempts(Append(entries, e), o.state.login_attempt)
      /\ o.state.username # None
           => Justifies(Append(entries, e), o.state.username)
  BY <1>1, <1>4, StateKept
<1>6. AnswersOf(Append(entries, e))
  BY <1>1, <1>2, AnswersKept
<1>7. QED  BY <1>2, <1>3, <1>5, <1>6 DEF Claims

LEMMA OnlineType == Online \in Users
<1>1. ASSUME NEW u \in Text
      PROVE  Cardinality({c \in Conn :
                phase[c] = "open" /\ session[c].username = u}) \in Nat
  <2>. DEFINE S == {c \in Conn : phase[c] = "open" /\ session[c].username = u}
  <2>1. S \subseteq Conn  OBVIOUS
  <2>2. IsFiniteSet(S)  BY <2>1, ConnAssumption, FS_Subset
  <2>3. QED  BY <2>2, FS_CardinalityType
<1>2. QED  BY <1>1 DEF Online, Users

LEMMA Initially == Init => IInv
<1>. SUFFICES ASSUME Init  PROVE IInv
  OBVIOUS
<1>1. NewState \in State  BY DEF NewState, State
<1>2. << >> \in Seq(Line) /\ << >> \in Seq(Entry)  OBVIOUS
<1>3. TypeOK  BY <1>1, <1>2, Zenon DEF Init, TypeOK
<1>4. AnswersOf(<< >>)
  <2>1. DOMAIN << >> = {}  OBVIOUS
  <2>2. QED  BY <2>1, Zenon DEF AnswersOf
<1>5. Claims(NewState, << >>)  BY <1>4 DEF Claims, NewState
<1>6. ASSUME NEW c \in Conn  PROVE Claims(session[c], log[c])
  <2>1. session[c] = NewState /\ log[c] = << >>  BY Zenon DEF Init
  <2>2. QED  BY <1>5, <2>1
<1>7. QED  BY <1>3, <1>6 DEF IInv

LEMMA ServeStep ==
  ASSUME IInv, NEW c \in Conn, Serve(c)
  PROVE  IInv'
<1>. DEFINE line == sent[c][Len(log[c]) + 1]
<1>1. /\ session[c] \in State /\ log[c] \in Seq(Entry)
      /\ Claims(session[c], log[c])
  BY DEF IInv, TypeOK
<1>2. line \in Line
  <2>1. /\ sent[c] \in Seq(Line) /\ Len(log[c]) \in Nat
        /\ Len(log[c]) < Len(sent[c])
    BY <1>1 DEF IInv, TypeOK, Serve
  <2>2. QED  BY <2>1
<1>3. PICK o \in execute(session[c], line, Online) :
        /\ session' = [session EXCEPT ![c] = o.state]
        /\ log' = [log EXCEPT ![c] =
                     Append(@, [line |-> line, reply |-> o.reply])]
  BY Zenon DEF Serve
<1>4. line.cmd # "exit" /\ sent' = sent /\ phase' = phase
  BY DEF Serve
<1>. HIDE DEF line
<1>. DEFINE e == [line |-> line, reply |-> o.reply]
<1>5. o.state \in State /\ e \in Entry /\ Claims(o.state, Append(log[c], e))
  BY <1>1, <1>2, <1>4, OnlineType, ClaimsKept
<1>6. log' = [log EXCEPT ![c] = Append(log[c], e)]
  BY <1>3
<1>. HIDE DEF e
<1>7. Append(log[c], e) \in Seq(Entry)  BY <1>1, <1>5
<1>8. TypeOK'  BY <1>3, <1>4, <1>5, <1>6, <1>7 DEF IInv, TypeOK
<1>9. ASSUME NEW d \in Conn  PROVE Claims(session'[d], log'[d])
  <2>1. CASE d = c
    <3>1. session'[d] = o.state /\ log'[d] = Append(log[c], e)
      BY <1>3, <1>6, <2>1 DEF IInv, TypeOK
    <3>2. QED  BY <1>5, <3>1
  <2>2. CASE d # c
    <3>1. session'[d] = session[d] /\ log'[d] = log[d]
      BY <1>3, <1>6, <2>2 DEF IInv, TypeOK
    <3>2. QED  BY <3>1 DEF IInv
  <2>3. QED  BY <2>1, <2>2
<1>10. QED  BY <1>8, <1>9 DEF IInv

LEMMA CloseStep ==
  ASSUME IInv, NEW c \in Conn, Close(c)
  PROVE  IInv'
<1>1. NewState \in State  BY DEF NewState, State
<1>2. TypeOK'  BY <1>1 DEF IInv, TypeOK, Close
<1>3. ASSUME NEW d \in Conn  PROVE Claims(session'[d], log'[d])
  <2>1. log'[d] = log[d] /\ Claims(session[d], log[d])
    BY DEF Close, IInv
  <2>2. CASE d = c
    <3>1. session'[d] = NewState  BY <2>2 DEF Close, IInv, TypeOK
    <3>2. QED  BY <2>1, <3>1 DEF Claims, NewState
  <2>3. CASE d # c
    <3>1. session'[d] = session[d]  BY <2>3 DEF Close, IInv, TypeOK
    <3>2. QED  BY <2>1, <3>1
  <2>4. QED  BY <2>2, <2>3
<1>4. QED  BY <1>2, <1>3 DEF IInv

LEMMA Step == IInv /\ [Next]_vars => IInv'
<1>. SUFFICES ASSUME IInv, [Next]_vars  PROVE IInv'
  OBVIOUS
<1>1. ASSUME NEW c \in Conn, NEW line \in Input, Send(c, line)
      PROVE  IInv'
  <2>1. line \in Line  BY InputAssumption
  <2>2. Append(sent[c], line) \in Seq(Line)
    BY <2>1 DEF IInv, TypeOK
  <2>3. TypeOK'  BY <1>1, <2>2 DEF IInv, TypeOK, Send
  <2>4. QED  BY <1>1, <2>3 DEF IInv, Send
<1>2. ASSUME NEW c \in Conn, Open(c)  PROVE IInv'
  <2>1. TypeOK'  BY <1>2 DEF IInv, TypeOK, Open
  <2>2. QED  BY <1>2, <2>1 DEF IInv, Open
<1>3. ASSUME NEW c \in Conn, Serve(c)  PROVE IInv'
  BY <1>3, ServeStep
<1>4. ASSUME NEW c \in Conn, Close(c)  PROVE IInv'
  BY <1>4, CloseStep
<1>5. CASE UNCHANGED vars
  BY <1>5 DEF vars, IInv, TypeOK
<1>6. QED  BY <1>1, <1>2, <1>3, <1>4, <1>5 DEF Next

LEMMA Invariance == Spec => []IInv
  BY Initially, Step, PTL DEF Spec

-------------------------------------------------------------------------------
(* Theorems *)

(***************************************************************************)
(* Every connection always has a well-formed session and dialogue: each    *)
(* line, whatever its arguments and whatever the session's state, has an   *)
(* outcome that is a state and a reply of the kinds listed in Commands.    *)
(***************************************************************************)
THEOREM ServiceTypeCorrect == Spec => []TypeOK
<1>1. IInv => TypeOK  BY DEF IInv
<1>2. QED  BY <1>1, Invariance, PTL

(***************************************************************************)
(* For any users, passwords, lines and number of connections, nobody is    *)
(* ever logged in on a connection without a matching login and password on *)
(* that connection and no logout since (Session::execute, executePass).    *)
(***************************************************************************)
THEOREM LoginsJustified == Spec => []LoginJustified
<1>1. IInv => LoginJustified  BY DEF IInv, Claims, LoginJustified
<1>2. QED  BY <1>1, Invariance, PTL

(***************************************************************************)
(* For any users, passwords, lines and number of connections, every        *)
(* privileged command that was not refused was justified by the lines      *)
(* before it, and whoami named the user they justify.                      *)
(***************************************************************************)
THEOREM AnswersAreJustified == Spec => []AnswersJustified
<1>1. IInv => AnswersJustified
  BY DEF IInv, Claims, AnswersOf, AnswersJustified
<1>2. QED  BY <1>1, Invariance, PTL
===============================================================================
