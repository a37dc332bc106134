----------------------------- MODULE ServerProofs -----------------------------
(* Theorems about Server, for any users, passwords, connections, lines and *)
(* number of descriptors.                                                  *)
EXTENDS Server, CommandsProofs, FiniteSetTheorems, TLAPS

-------------------------------------------------------------------------------
(* The inductive invariant *)

(* The bit of fd in fds stands for a session with something to read. *)
Bit(fd) == fd \in DOMAIN owner /\ Readable(fd)

(* A connection waits at most once, and only after the client made it. *)
BacklogOK ==
  /\ \A i, j \in DOMAIN backlog : backlog[i] = backlog[j] => i = j
  /\ \A c \in Conn : peer[c] = "absent" => ~Alive(c)

(* Lines are executed after they are fetched, and fetched after they are   *)
(* sent.                                                                   *)
LinesOK ==
  \A c \in Conn : Len(log[c]) <= fetched[c] /\ fetched[c] <= Len(sent[c])

(* NoSpuriousCall, followed through the places of the loop: the bits that  *)
(* select() set are right while they wait in ready, and then in todo.      *)
LoopOK ==
  /\ pc = "accept" => backlog # << >> /\ \A fd \in ready : Bit(fd)
  /\ pc = "sessions" => \A fd \in todo : Bit(fd)
  /\ pc = "serving" => /\ current \in DOMAIN owner
                       /\ \A fd \in todo \ {current} : Bit(fd)

IInv == TypeOK /\ SessionPerSocket /\ BacklogOK /\ LinesOK /\ LoopOK

-------------------------------------------------------------------------------
(* The backlog and the descriptor table *)

LEMMA Appended ==
  ASSUME NEW s \in Seq(Conn), NEW c \in Conn
  PROVE  /\ Append(s, c) \in Seq(Conn)
         /\ \A d : (\E i \in DOMAIN Append(s, c) : Append(s, c)[i] = d)
                     <=> d = c \/ \E i \in DOMAIN s : s[i] = d
         /\ /\ \A i, j \in DOMAIN s : s[i] = s[j] => i = j
            /\ ~\E i \in DOMAIN s : s[i] = c
            => \A i, j \in DOMAIN Append(s, c) :
                 Append(s, c)[i] = Append(s, c)[j] => i = j
<1>. DEFINE t == Append(s, c)
<1>. DEFINE n == Len(s)
<1>1. /\ n \in Nat /\ DOMAIN s = 1..n
      /\ t \in Seq(Conn) /\ DOMAIN t = 1..(n + 1)
      /\ \A i \in 1..n : t[i] = s[i]
      /\ t[n + 1] = c
  OBVIOUS
<1>2. /\ n + 1 \in 1..(n + 1)
      /\ \A i \in 1..n : i \in 1..(n + 1)
      /\ \A i \in 1..(n + 1) : i # n + 1 => i \in 1..n
  BY <1>1
<1>. HIDE DEF t, n
<1>3. \A d : (\E i \in DOMAIN t : t[i] = d)
               <=> d = c \/ \E i \in DOMAIN s : s[i] = d
  BY <1>1, <1>2
<1>4. ASSUME \A i, j \in DOMAIN s : s[i] = s[j] => i = j,
             ~\E i \in DOMAIN s : s[i] = c,
             NEW i \in DOMAIN t, NEW j \in DOMAIN t, t[i] = t[j]
      PROVE  i = j
  BY <1>1, <1>2, <1>4
<1>5. QED  BY <1>1, <1>3, <1>4 DEF t

LEMMA Popped ==
  ASSUME NEW s \in Seq(Conn), s # << >>,
         \A i, j \in DOMAIN s : s[i] = s[j] => i = j
  PROVE  /\ Tail(s) \in Seq(Conn) /\ Head(s) \in Conn
         /\ \E i \in DOMAIN s : s[i] = Head(s)
         /\ \A d : (\E i \in DOMAIN Tail(s) : Tail(s)[i] = d)
                     <=> d # Head(s) /\ \E i \in DOMAIN s : s[i] = d
         /\ \A i, j \in DOMAIN Tail(s) : Tail(s)[i] = Tail(s)[j] => i = j
<1>. DEFINE t == Tail(s)
<1>. DEFINE n == Len(s)
<1>1. /\ n \in Nat \ {0} /\ DOMAIN s = 1..n
      /\ t \in Seq(Conn) /\ DOMAIN t = 1..(n - 1)
      /\ \A i \in 1..(n - 1) : t[i] = s[i + 1]
      /\ Head(s) = s[1] /\ Head(s) \in Conn
  OBVIOUS
<1>2. /\ 1 \in 1..n
      /\ \A i \in 1..(n - 1) : i + 1 \in 1..n /\ i + 1 # 1
      /\ \A i \in 1..n : i # 1 => i - 1 \in 1..(n - 1) /\ (i - 1) + 1 = i
  BY <1>1
<1>. HIDE DEF t, n
<1>3. ASSUME NEW d
      PROVE  (\E i \in DOMAIN t : t[i] = d)
               <=> d # Head(s) /\ \E i \in DOMAIN s : s[i] = d
  <2>1. ASSUME NEW i \in DOMAIN t, t[i] = d
        PROVE  d # Head(s) /\ \E k \in DOMAIN s : s[k] = d
    <3>1. i + 1 \in DOMAIN s /\ i + 1 # 1 /\ 1 \in DOMAIN s /\ s[i + 1] = d
      BY <1>1, <1>2, <2>1
    <3>2. d # s[1]  BY <3>1
    <3>3. QED  BY <1>1, <3>1, <3>2
  <2>2. ASSUME NEW i \in DOMAIN s, s[i] = d, d # Head(s)
        PROVE  \E k \in DOMAIN t : t[k] = d
    <3>1. i # 1  BY <1>1, <2>2
    <3>2. i - 1 \in 1..(n - 1) /\ (i - 1) + 1 = i  BY <1>1, <1>2, <3>1
    <3>3. t[i - 1] = d  BY <1>1, <2>2, <3>2
    <3>4. QED  BY <1>1, <3>2, <3>3
  <2>3. QED  BY <2>1, <2>2
<1>4. ASSUME NEW i \in DOMAIN t, NEW j \in DOMAIN t, t[i] = t[j]
      PROVE  i = j
  <2>1. i + 1 \in DOMAIN s /\ j + 1 \in DOMAIN s /\ s[i + 1] = s[j + 1]
    BY <1>1, <1>2, <1>4
  <2>2. i + 1 = j + 1  BY <2>1
  <2>3. QED  BY <1>1, <2>2
<1>5. QED  BY <1>1, <1>2, <1>3, <1>4 DEF t

(* What keeps a bit right. *)
LEMMA BitKept ==
  ASSUME TypeOK, TypeOK', NEW fd, Bit(fd),
         fd \in DOMAIN owner', owner'[fd] = owner[fd],
         fetched'[owner[fd]] = fetched[owner[fd]],
         Len(sent[owner[fd]]) <= Len(sent'[owner[fd]]),
         peer[owner[fd]] # "connected" => peer'[owner[fd]] # "connected"
  PROVE  Bit(fd)'
<1>. DEFINE c == owner[fd]
<1>1. c \in Conn  BY DEF Bit, TypeOK
<1>2. /\ Len(sent[c]) \in Nat /\ Len(sent'[c]) \in Nat
      /\ fetched[c] \in Nat
  BY <1>1 DEF TypeOK
<1>3. c = owner'[fd]  OBVIOUS
<1>4. fetched[c] < Len(sent[c]) \/ peer[c] # "connected"
  BY DEF Bit, Readable
<1>. HIDE DEF c
<1>5. fetched'[c] < Len(sent'[c]) \/ peer'[c] # "connected"
  BY <1>2, <1>4 DEF c
<1>6. QED  BY <1>3, <1>5 DEF Bit, Readable

-------------------------------------------------------------------------------
(* The steps of the clients *)

LEMMA Initially == Init => IInv
<1>. SUFFICES ASSUME Init  PROVE IInv
  OBVIOUS
<1>1. TypeOK  BY DEF Init, TypeOK, PeerStates, Locations
<1>2. DOMAIN << >> = {} /\ Len(<< >>) = 0  OBVIOUS
<1>3. SessionPerSocket /\ BacklogOK
  BY <1>2, Zenon DEF Init, SessionPerSocket, BacklogOK, Alive, Waiting, Open
<1>4. LinesOK  BY DEF Init, LinesOK
<1>5. LoopOK  BY DEF Init, LoopOK
<1>6. QED  BY <1>1, <1>3, <1>4, <1>5 DEF IInv

LEMMA ConnectStep ==
  ASSUME IInv, NEW c \in Conn, Connect(c)
  PROVE  IInv'
<1>. USE DEF IInv
<1>1. /\ UNCHANGED <<sent, owner, sessions, fetched, pc, ready, todo, current, log>>
      /\ peer' = [peer EXCEPT ![c] = "connected"]
      /\ backlog' = Append(backlog, c)
      /\ ~Waiting(c) /\ ~Open(c)
  BY DEF Connect, sessionVars, loopVars, BacklogOK, Alive
<1>2. /\ backlog' \in Seq(Conn)
      /\ \A d : Waiting(d)' <=> d = c \/ Waiting(d)
      /\ \A i, j \in DOMAIN backlog' : backlog'[i] = backlog'[j] => i = j
  <2>1. backlog \in Seq(Conn)  BY DEF TypeOK
  <2>2. \A i, j \in DOMAIN backlog : backlog[i] = backlog[j] => i = j
    BY DEF BacklogOK
  <2>3. ~\E i \in DOMAIN backlog : backlog[i] = c  BY <1>1 DEF Waiting
  <2>4. QED  BY <1>1, <2>1, <2>2, <2>3, Appended DEF Waiting
<1>3. TypeOK'  BY <1>1, <1>2 DEF TypeOK, PeerStates
<1>4. \A d : Open(d)' <=> Open(d)  BY <1>1 DEF Open
<1>5. SessionPerSocket'
  BY <1>1, <1>2 DEF SessionPerSocket, Open
<1>6. BacklogOK'
  <2>1. ASSUME NEW d \in Conn, peer'[d] = "absent"  PROVE ~Alive(d)'
    <3>1. d # c /\ peer[d] = "absent"  BY <1>1, <2>1 DEF TypeOK
    <3>2. QED  BY <1>2, <1>4, <3>1 DEF BacklogOK, Alive
  <2>2. QED  BY <1>2, <2>1 DEF BacklogOK
<1>7. LinesOK'  BY <1>1 DEF LinesOK
<1>8. ASSUME NEW fd, Bit(fd)  PROVE Bit(fd)'
  <2>1. owner[fd] \in Conn /\ owner[fd] # c
    BY <1>1, <1>8 DEF Bit, TypeOK, Open
  <2>2. peer'[owner[fd]] = peer[owner[fd]]  BY <1>1, <2>1 DEF TypeOK
  <2>3. Len(sent[owner[fd]]) \in Nat  BY <2>1 DEF TypeOK
  <2>4. QED  BY <1>1, <1>3, <1>8, <2>2, <2>3, BitKept DEF Bit
<1>9. backlog' # << >>
  <2>1. DOMAIN << >> = {}  OBVIOUS
  <2>2. QED  BY <1>2, <2>1, Zenon DEF Waiting
<1>10. LoopOK'  BY <1>1, <1>8, <1>9 DEF LoopOK
<1>11. QED  BY <1>3, <1>5, <1>6, <1>7, <1>10

(* The client of an open or waiting connection sends, hangs up or resets.  *)
LEMMA PeerStep ==
  ASSUME IInv, NEW c \in Conn,
         (\E line \in Input : Send(c, line)) \/ Hangup(c) \/ Reset(c)
  PROVE  IInv'
<1>. USE DEF IInv
<1>1. /\ UNCHANGED <<backlog, owner, sessions, fetched>>
      /\ UNCHANGED <<pc, ready, todo, current, log>>
  BY DEF Send, Hangup, Reset, sessionVars, loopVars, kernelVars
<1>2. /\ sent' \in [Conn -> Seq(Line)]
      /\ \A d \in Conn : Len(sent[d]) <= Len(sent'[d])
  <2>1. ASSUME NEW line \in Input, Send(c, line)
        PROVE  /\ sent' \in [Conn -> Seq(Line)]
               /\ \A d \in Conn : Len(sent[d]) <= Len(sent'[d])
    <3>1. line \in Line  BY InputAssumption
    <3>2. sent' = [sent EXCEPT ![c] = Append(sent[c], line)]
      BY <2>1 DEF Send
    <3>3. /\ sent[c] \in Seq(Line) /\ Append(sent[c], line) \in Seq(Line)
          /\ Len(Append(sent[c], line)) = Len(sent[c]) + 1
          /\ \A d \in Conn : Len(sent[d]) \in Nat
      BY <3>1 DEF TypeOK
    <3>4. QED  BY <3>2, <3>3 DEF TypeOK
  <2>2. CASE sent' = sent
    <3>1. \A d \in Conn : Len(sent[d]) \in Nat  BY DEF TypeOK
    <3>2. QED  BY <2>2, <3>1 DEF TypeOK
  <2>3. QED  BY <2>1, <2>2 DEF Hangup, Reset
<1>3. /\ peer' \in [Conn -> PeerStates]
      /\ \A d \in Conn : /\ peer[d] # "connected" => peer'[d] # "connected"
                         /\ peer'[d] = "absent" => peer[d] = "absent"
  <2>1. CASE peer' = peer  BY <2>1 DEF TypeOK
  <2>2. CASE \E p \in {"closed", "reset"} : peer' = [peer EXCEPT ![c] = p]
    BY <2>2 DEF TypeOK, PeerStates
  <2>3. QED  BY <2>1, <2>2 DEF Send, Hangup, Reset
<1>4. TypeOK'  BY <1>1, <1>2, <1>3 DEF TypeOK
<1>5. \A d : (Open(d)' <=> Open(d)) /\ (Waiting(d)' <=> Waiting(d))
  BY <1>1 DEF Open, Waiting
<1>6. SessionPerSocket'  BY <1>1, <1>5 DEF SessionPerSocket
<1>7. BacklogOK'  BY <1>1, <1>3, <1>5 DEF BacklogOK, Alive
<1>8. LinesOK'
  <2>1. \A d \in Conn : /\ Len(log[d]) \in Nat /\ fetched[d] \in Nat
                        /\ Len(sent[d]) \in Nat /\ Len(sent'[d]) \in Nat
    BY <1>2 DEF TypeOK
  <2>2. QED  BY <1>1, <1>2, <2>1 DEF LinesOK
<1>9. ASSUME NEW fd, Bit(fd)  PROVE Bit(fd)'
  <2>1. owner[fd] \in Conn  BY <1>9 DEF Bit, TypeOK
  <2>2. QED  BY <1>1, <1>2, <1>3, <1>4, <1>9, <2>1, BitKept DEF Bit
<1>10. LoopOK'  BY <1>1, <1>9 DEF LoopOK
<1>11. QED  BY <1>4, <1>6, <1>7, <1>8, <1>10

-------------------------------------------------------------------------------
(* The steps of the event loop *)

LEMMA SelectStep ==
  ASSUME IInv, Select
  PROVE  IInv'
<1>. USE DEF IInv
<1>1. /\ UNCHANGED <<sent, peer, backlog, owner, sessions, fetched, current, log>>
      /\ \/ pc' = "accept" /\ backlog # << >> /\ todo' = todo
            /\ ready' = {fd \in DOMAIN sessions : Readable(fd)}
         \/ pc' = "sessions" /\ ready' = ready
            /\ todo' = {fd \in DOMAIN sessions : Readable(fd)}
  BY DEF Select, clientVars, kernelVars, sessionVars
<1>2. TypeOK'  BY <1>1 DEF TypeOK, Locations
<1>3. SessionPerSocket'  BY <1>1 DEF SessionPerSocket, Waiting
<1>4. BacklogOK'  BY <1>1 DEF BacklogOK, Alive, Waiting, Open
<1>5. LinesOK'  BY <1>1 DEF LinesOK
<1>6. \A fd : (Bit(fd)' <=> Bit(fd))  BY <1>1 DEF Bit, Readable
<1>7. \A fd \in {f \in DOMAIN sessions : Readable(f)} : Bit(fd)
  BY DEF Bit, SessionPerSocket
<1>8. LoopOK'  BY <1>1, <1>6, <1>7 DEF LoopOK
<1>9. QED  BY <1>2, <1>3, <1>4, <1>5, <1>8

(* accept(2) hands the oldest waiting connection to a free descriptor.     *)
LEMMA Accepted ==
  ASSUME IInv, Accept
  PROVE  LET c == Head(backlog) IN
         /\ backlog # << >> /\ c \in Conn /\ Waiting(c) /\ ~Open(c)
         /\ backlog' \in Seq(Conn)
         /\ \A d : Waiting(d)' <=> d # c /\ Waiting(d)
         /\ \A i, j \in DOMAIN backlog' : backlog'[i] = backlog'[j] => i = j
         /\ \A d : Open(d)' <=> d = c \/ Open(d)
         /\ \E fd \in Fd \ DOMAIN owner :
              /\ owner' = With(owner, fd, c)
              /\ sessions' = With(sessions, fd, NewState)
<1>. USE DEF IInv
<1>. DEFINE c == Head(backlog)
<1>1. backlog # << >> /\ backlog' = Tail(backlog)
  BY DEF Accept, LoopOK
<1>2. /\ c \in Conn /\ Waiting(c) /\ backlog' \in Seq(Conn)
      /\ \A d : Waiting(d)' <=> d # c /\ Waiting(d)
      /\ \A i, j \in DOMAIN backlog' : backlog'[i] = backlog'[j] => i = j
  <2>1. backlog \in Seq(Conn)  BY DEF TypeOK
  <2>2. \A i, j \in DOMAIN backlog : backlog[i] = backlog[j] => i = j
    BY DEF BacklogOK
  <2>3. QED  BY <1>1, <2>1, <2>2, Popped DEF Waiting
<1>3. PICK fd \in Fd \ DOMAIN owner :
        /\ owner' = With(owner, fd, c)
        /\ sessions' = With(sessions, fd, NewState)
  BY DEF Accept
<1>. HIDE DEF c
<1>4. ~Open(c)  BY <1>2 DEF Open, SessionPerSocket
<1>5. ASSUME NEW d  PROVE Open(d)' <=> d = c \/ Open(d)
  <2>1. /\ DOMAIN owner' = DOMAIN owner \cup {fd} /\ owner'[fd] = c
        /\ \A f \in DOMAIN owner \ {fd} : owner'[f] = owner[f]
    BY <1>3 DEF With
  <2>2. \A f \in DOMAIN owner : owner'[f] = owner[f]  BY <2>1
  <2>3. QED  BY <2>1, <2>2 DEF Open
<1>6. QED  BY <1>1, <1>2, <1>3, <1>4, <1>5 DEF c

LEMMA AcceptStep ==
  ASSUME IInv, Accept
  PROVE  IInv'
<1>. USE DEF IInv
<1>. DEFINE c == Head(backlog)
<1>1. /\ UNCHANGED <<sent, peer, fetched, current, log>>
      /\ pc = "accept" /\ pc' = "sessions" /\ ready' = {}
      /\ todo' = DOMAIN sessions' \cap ready
  BY DEF Accept, clientVars
<1>2. /\ c \in Conn /\ Waiting(c) /\ ~Open(c)
      /\ backlog' \in Seq(Conn)
      /\ \A d : Waiting(d)' <=> d # c /\ Waiting(d)
      /\ \A i, j \in DOMAIN backlog' : backlog'[i] = backlog'[j] => i = j
      /\ \A d : Open(d)' <=> d = c \/ Open(d)
  BY Accepted
<1>3. PICK fd \in Fd \ DOMAIN owner :
        /\ owner' = With(owner, fd, c)
        /\ sessions' = With(sessions, fd, NewState)
  BY Accepted
<1>. HIDE DEF c
<1>4. /\ DOMAIN owner' = DOMAIN owner \cup {fd}
      /\ owner'[fd] = c
      /\ \A f \in DOMAIN owner : owner'[f] = owner[f]
      /\ owner' \in [DOMAIN owner' -> Conn]
  <2>1. owner \in [DOMAIN owner -> Conn]  BY DEF TypeOK
  <2>2. QED  BY <1>2, <1>3, <2>1 DEF With
<1>5. /\ DOMAIN sessions' = DOMAIN sessions \cup {fd}
      /\ sessions' \in [DOMAIN sessions' -> State]
  <2>1. sessions \in [DOMAIN sessions -> State]  BY DEF TypeOK
  <2>2. NewState \in State  BY DEF NewState, State
  <2>3. QED  BY <1>3, <2>1, <2>2 DEF With
<1>6. TypeOK'
  BY <1>1, <1>2, <1>3, <1>4, <1>5 DEF TypeOK, Locations
<1>7. SessionPerSocket'
  <2>1. DOMAIN sessions' = DOMAIN owner'
    BY <1>4, <1>5 DEF SessionPerSocket
  <2>2. \A f \in DOMAIN owner : owner[f] # c  BY <1>2 DEF Open
  <2>3. \A f, g \in DOMAIN owner' : owner'[f] = owner'[g] => f = g
    BY <1>4, <2>2 DEF SessionPerSocket
  <2>4. \A d : Open(d)' => ~Waiting(d)'
    BY <1>2 DEF SessionPerSocket, Open
  <2>5. QED  BY <2>1, <2>3, <2>4, Zenon DEF SessionPerSocket, Open, Waiting
<1>8. BacklogOK'
  BY <1>1, <1>2 DEF BacklogOK, Alive
<1>9. LinesOK'  BY <1>1 DEF LinesOK
<1>10. ASSUME NEW f \in todo'  PROVE Bit(f)'
  <2>1. Bit(f)  BY <1>1, <1>10 DEF LoopOK
  <2>2. /\ f \in DOMAIN owner' /\ owner'[f] = owner[f]
        /\ owner[f] \in Conn
    BY <1>4, <2>1 DEF Bit, TypeOK
  <2>3. Len(sent[owner[f]]) \in Nat  BY <2>2 DEF TypeOK
  <2>4. QED  BY <1>1, <1>6, <2>1, <2>2, <2>3, BitKept
<1>11. LoopOK'  BY <1>1, <1>10 DEF LoopOK
<1>12. QED  BY <1>6, <1>7, <1>8, <1>9, <1>11

(* The steps of the loop between the calls of onNewData. *)
LEMMA RoundStep ==
  ASSUME IInv, AcceptFails \/ Visit \/ EndRound
  PROVE  IInv'
<1>. USE DEF IInv
<1>1. /\ UNCHANGED <<sent, peer, backlog, owner, sessions, fetched>>
      /\ UNCHANGED <<ready, todo, log>>
      /\ \/ pc' \in {"terminated", "select"} /\ current' = current
         \/ pc = "sessions" /\ pc' = "serving" /\ current' \in todo
  BY DEF AcceptFails, Visit, EndRound, clientVars, kernelVars, sessionVars
<1>2. TypeOK'  BY <1>1 DEF TypeOK, Locations
<1>3. SessionPerSocket'  BY <1>1 DEF SessionPerSocket, Waiting
<1>4. BacklogOK'  BY <1>1 DEF BacklogOK, Alive, Waiting, Open
<1>5. LinesOK'  BY <1>1 DEF LinesOK
<1>6. \A fd : (Bit(fd)' <=> Bit(fd))  BY <1>1 DEF Bit, Readable
<1>7. LoopOK'  BY <1>1, <1>6 DEF LoopOK, Bit
<1>8. QED  BY <1>2, <1>3, <1>4, <1>5, <1>7

-------------------------------------------------------------------------------
(* The steps of onNewData *)

LEMMA LoggedType ==
  ASSUME TypeOK
  PROVE  loggedUsers \in Users
<1>1. ASSUME NEW u \in Text
      PROVE  Cardinality({fd \in DOMAIN sessions : sessions[fd].username = u})
               \in Nat
  <2>. DEFINE S == {fd \in DOMAIN sessions : sessions[fd].username = u}
  <2>1. S \subseteq Fd  BY DEF TypeOK
  <2>2. IsFiniteSet(S)  BY <2>1, FdAssumption, FS_Subset
  <2>3. QED  BY <2>2, FS_CardinalityType
<1>2. QED  BY <1>1 DEF loggedUsers, Users

(* The connection served, and what nextLine does to its counters. *)
LEMMA Serving ==
  ASSUME IInv, pc = "serving"
  PROVE  /\ current \in DOMAIN owner /\ current \in DOMAIN sessions
         /\ client = owner[current] /\ client \in Conn
         /\ sessions[current] \in State
         /\ Open(client) /\ ~Waiting(client) /\ peer[client] # "absent"
         /\ \A fd \in DOMAIN owner : owner[fd] = client <=> fd = current
         /\ Len(log[client]) \in Nat /\ fetched[client] \in Nat
         /\ Len(sent[client]) \in Nat
<1>. USE DEF IInv
<1>1. current \in DOMAIN owner /\ current \in DOMAIN sessions
  BY DEF LoopOK, SessionPerSocket
<1>2. client = owner[current] /\ client \in Conn /\ Open(client)
  BY <1>1 DEF client, TypeOK, Open
<1>3. ~Waiting(client)  BY <1>1, <1>2 DEF SessionPerSocket
<1>4. peer[client] # "absent"  BY <1>2 DEF BacklogOK, Alive
<1>5. sessions[current] \in State  BY <1>1 DEF TypeOK
<1>6. \A fd \in DOMAIN owner : owner[fd] = client <=> fd = current
  BY <1>1, <1>2 DEF SessionPerSocket
<1>7. /\ Len(log[client]) \in Nat /\ fetched[client] \in Nat
      /\ Len(sent[client]) \in Nat
  BY <1>2 DEF TypeOK
<1>8. QED  BY <1>1, <1>2, <1>3, <1>4, <1>5, <1>6, <1>7

LEMMA Fetched ==
  ASSUME IInv, pc = "serving", NEW line, NextLine(line)
  PROVE  /\ Len(log[client]) < Len(sent[client])
         /\ line = sent[client][Len(log[client]) + 1] /\ line \in Line
         /\ fetched' \in [Conn -> Nat]
         /\ \A c \in Conn : c # client => fetched'[c] = fetched[c]
         /\ Len(log[client]) + 1 <= fetched'[client]
         /\ fetched'[client] <= Len(sent[client])
<1>. DEFINE l == Len(log[client])
<1>. DEFINE s == Len(sent[client])
<1>1. /\ client \in Conn /\ l \in Nat /\ fetched[client] \in Nat /\ s \in Nat
      /\ fetched \in [Conn -> Nat] /\ sent[client] \in Seq(Line)
  BY Serving DEF IInv, TypeOK
<1>2. l <= fetched[client] /\ fetched[client] <= s
  BY <1>1 DEF IInv, LinesOK
<1>3. /\ l < s /\ line = sent[client][l + 1]
      /\ \/ l < fetched[client] /\ fetched' = fetched
         \/ \E n \in (l + 1)..s : fetched' = [fetched EXCEPT ![client] = n]
  BY DEF NextLine
<1>4. line \in Line  BY <1>1, <1>3
<1>. HIDE DEF l, s
<1>5. /\ fetched' \in [Conn -> Nat]
      /\ \A c \in Conn : c # client => fetched'[c] = fetched[c]
      /\ l + 1 <= fetched'[client] /\ fetched'[client] <= s
  <2>1. CASE l < fetched[client] /\ fetched' = fetched
    BY <1>1, <1>2, <2>1
  <2>2. ASSUME NEW n \in (l + 1)..s, fetched' = [fetched EXCEPT ![client] = n]
        PROVE  /\ fetched' \in [Conn -> Nat]
               /\ \A c \in Conn : c # client => fetched'[c] = fetched[c]
               /\ l + 1 <= fetched'[client] /\ fetched'[client] <= s
    <3>1. n \in Nat /\ l + 1 <= n /\ n <= s  BY <1>1
    <3>2. fetched'[client] = n  BY <1>1, <2>2
    <3>3. QED  BY <1>1, <2>2, <3>1, <3>2
  <2>3. QED  BY <1>3, <2>1, <2>2
<1>6. QED  BY <1>3, <1>4, <1>5 DEF l, s

LEMMA ExecuteStep ==
  ASSUME IInv, Execute
  PROVE  IInv'
<1>. USE DEF IInv
<1>1. /\ pc = "serving"
      /\ UNCHANGED <<sent, peer, backlog, owner, pc, ready, todo, current>>
  BY DEF Execute, clientVars, kernelVars, loopVars
<1>2. PICK line \in Line :
        /\ NextLine(line)
        /\ line.cmd # "exit"
        /\ \E o \in execute(sessions[current], line, loggedUsers) :
             /\ sessions' = [sessions EXCEPT ![current] = o.state]
             /\ log' = [log EXCEPT ![client] =
                          Append(@, [line |-> line, reply |-> o.reply])]
  BY Zenon DEF Execute
<1>3. PICK o \in execute(sessions[current], line, loggedUsers) :
        /\ sessions' = [sessions EXCEPT ![current] = o.state]
        /\ log' = [log EXCEPT ![client] =
                     Append(@, [line |-> line, reply |-> o.reply])]
  BY <1>2, Zenon
<1>4. /\ current \in DOMAIN owner /\ current \in DOMAIN sessions
      /\ client = owner[current] /\ client \in Conn
      /\ sessions[current] \in State
      /\ \A fd \in DOMAIN owner : owner[fd] = client <=> fd = current
  BY <1>1, Serving
<1>5. /\ fetched' \in [Conn -> Nat]
      /\ \A c \in Conn : c # client => fetched'[c] = fetched[c]
      /\ Len(log[client]) + 1 <= fetched'[client]
      /\ fetched'[client] <= Len(sent[client])
  BY <1>1, <1>2, Fetched
<1>6. loggedUsers \in Users
  BY LoggedType
<1>7. o.state \in State /\ [line |-> line, reply |-> o.reply] \in Entry
  <2>1. o \in [state : State, reply : Reply]
    BY <1>2, <1>4, <1>6, ExecuteKinds
  <2>2. QED  BY <2>1 DEF Entry
<1>. DEFINE e == [line |-> line, reply |-> o.reply]
<1>8. /\ log[client] \in Seq(Entry) /\ log' = [log EXCEPT ![client] = Append(log[client], e)]
  BY <1>3, <1>4 DEF TypeOK
<1>9. e \in Entry  BY <1>7
<1>. HIDE DEF e
<1>10. /\ Append(log[client], e) \in Seq(Entry)
       /\ Len(Append(log[client], e)) = Len(log[client]) + 1
  BY <1>8, <1>9
<1>11. /\ log' \in [Conn -> Seq(Entry)]
       /\ Len(log'[client]) = Len(log[client]) + 1
       /\ \A c \in Conn : c # client => log'[c] = log[c]
  BY <1>4, <1>8, <1>10 DEF TypeOK
<1>12. /\ DOMAIN sessions' = DOMAIN sessions
       /\ sessions' \in [DOMAIN sessions' -> State]
  BY <1>3, <1>4, <1>7 DEF TypeOK
<1>13. TypeOK'  BY <1>1, <1>5, <1>11, <1>12 DEF TypeOK
<1>14. SessionPerSocket'
  BY <1>1, <1>12 DEF SessionPerSocket, Waiting
<1>15. BacklogOK'  BY <1>1 DEF BacklogOK, Alive, Waiting, Open
<1>16. LinesOK'
  BY <1>1, <1>4, <1>5, <1>11 DEF LinesOK
<1>17. ASSUME NEW fd \in todo \ {current}  PROVE Bit(fd)'
  <2>1. Bit(fd)  BY <1>1, <1>17 DEF LoopOK
  <2>2. owner[fd] \in Conn /\ owner[fd] # client
    BY <1>4, <1>17, <2>1 DEF Bit, TypeOK
  <2>3. Len(sent[owner[fd]]) \in Nat  BY <2>2 DEF TypeOK
  <2>4. QED  BY <1>1, <1>5, <1>13, <2>1, <2>2, <2>3, BitKept DEF Bit
<1>18. LoopOK'  BY <1>1, <1>4, <1>17 DEF LoopOK
<1>19. QED  BY <1>13, <1>14, <1>15, <1>16, <1>18

(* onNewData returns, with the session erased or kept. *)
LEMMA Returned ==
  ASSUME IInv, pc = "serving", Return,
         UNCHANGED <<sent, backlog, ready, log>>,
         Erase \/ UNCHANGED <<owner, sessions>>,
         fetched' = fetched \/ \E line : NextLine(line),
         \/ peer' = peer
         \/ /\ peer[client] # "absent"
            /\ peer' = [peer EXCEPT ![client] = "dead"]
  PROVE  IInv'
<1>. USE DEF IInv
<1>1. /\ current \in DOMAIN owner /\ current \in DOMAIN sessions
      /\ client = owner[current] /\ client \in Conn
      /\ \A fd \in DOMAIN owner : owner[fd] = client <=> fd = current
  BY Serving
<1>2. /\ fetched' \in [Conn -> Nat]
      /\ \A c \in Conn : c # client => fetched'[c] = fetched[c]
      /\ Len(log[client]) <= fetched'[client]
      /\ fetched'[client] <= Len(sent[client])
  <2>1. CASE fetched' = fetched
    BY <1>1, <2>1 DEF TypeOK, LinesOK
  <2>2. ASSUME NEW line, NextLine(line)
        PROVE  /\ fetched' \in [Conn -> Nat]
               /\ \A c \in Conn : c # client => fetched'[c] = fetched[c]
               /\ Len(log[client]) <= fetched'[client]
               /\ fetched'[client] <= Len(sent[client])
    <3>1. /\ fetched' \in [Conn -> Nat]
          /\ \A c \in Conn : c # client => fetched'[c] = fetched[c]
          /\ Len(log[client]) + 1 <= fetched'[client]
          /\ fetched'[client] <= Len(sent[client])
      BY <2>2, Fetched
    <3>2. Len(log[client]) \in Nat /\ fetched'[client] \in Nat
      BY <1>1, <3>1 DEF TypeOK
    <3>3. Len(log[client]) <= fetched'[client]  BY <3>1, <3>2
    <3>4. QED  BY <3>1, <3>3
  <2>3. QED  BY <2>1, <2>2
<1>3. /\ DOMAIN owner' \subseteq DOMAIN owner
      /\ DOMAIN owner \ {current} \subseteq DOMAIN owner'
      /\ \A fd \in DOMAIN owner' : owner'[fd] = owner[fd]
      /\ DOMAIN sessions' = DOMAIN owner'
      /\ owner' \in [DOMAIN owner' -> Conn]
      /\ sessions' \in [DOMAIN sessions' -> State]
  <2>1. CASE UNCHANGED <<owner, sessions>>
    BY <2>1 DEF TypeOK, SessionPerSocket
  <2>2. CASE Erase
    <3>1. owner' = Without(owner, current)
      /\ sessions' = Without(sessions, current)
      BY <2>2 DEF Erase
    <3>2. /\ owner \in [DOMAIN owner -> Conn]
          /\ sessions \in [DOMAIN sessions -> State]
          /\ DOMAIN sessions = DOMAIN owner
      BY DEF TypeOK, SessionPerSocket
    <3>3. QED  BY <3>1, <3>2 DEF Without
  <2>3. QED  BY <2>1, <2>2
<1>4. /\ peer' \in [Conn -> PeerStates]
      /\ \A c \in Conn : /\ c # client => peer'[c] = peer[c]
                         /\ peer'[c] = "absent" => peer[c] = "absent"
  BY <1>1 DEF TypeOK, PeerStates
<1>5. pc' = "sessions" /\ todo' = todo \ {current} /\ current' = None
  BY DEF Return
<1>6. TypeOK'
  BY <1>2, <1>3, <1>4, <1>5 DEF TypeOK, Locations
<1>7. SessionPerSocket'
  BY <1>3 DEF SessionPerSocket, Waiting
<1>8. \A c : (Open(c)' => Open(c)) /\ (Waiting(c)' <=> Waiting(c))
  BY <1>3 DEF Open, Waiting
<1>9. BacklogOK'  BY <1>4, <1>8 DEF BacklogOK, Alive
<1>10. LinesOK'  BY <1>2 DEF LinesOK
<1>11. ASSUME NEW fd \in todo'  PROVE Bit(fd)'
  <2>1. Bit(fd) /\ fd # current  BY <1>5, <1>11 DEF LoopOK
  <2>2. owner[fd] \in Conn /\ owner[fd] # client
    BY <1>1, <2>1 DEF Bit, TypeOK
  <2>3. Len(sent[owner[fd]]) \in Nat  BY <2>2 DEF TypeOK
  <2>4. fd \in DOMAIN owner' /\ owner'[fd] = owner[fd]
    BY <1>3, <2>1 DEF Bit
  <2>5. QED  BY <1>2, <1>4, <1>6, <2>1, <2>2, <2>3, <2>4, BitKept
<1>12. LoopOK'  BY <1>5, <1>11 DEF LoopOK
<1>13. QED  BY <1>6, <1>7, <1>9, <1>10, <1>12

LEMMA ReturnStep ==
  ASSUME IInv, Exit \/ Drained \/ Closed \/ ReadFails
  PROVE  IInv'
<1>1. /\ pc = "serving" /\ Return /\ UNCHANGED <<sent, backlog, ready, log>>
      /\ Erase \/ UNCHANGED <<owner, sessions>>
      /\ fetched' = fetched \/ \E line : NextLine(line)
      /\ \/ peer' = peer
         \/ /\ peer[client] # "absent"
            /\ peer' = [peer EXCEPT ![client] = "dead"]
  BY DEF Exit, Drained, Closed, ReadFails, NoLine, clientVars, kernelVars
<1>2. QED  BY <1>1, Returned

LEMMA Step == IInv /\ [Next]_vars => IInv'
<1>. SUFFICES ASSUME IInv, [Next]_vars  PROVE IInv'
  OBVIOUS
<1>1. CASE checkForEvents
  BY <1>1, SelectStep, AcceptStep, RoundStep, ExecuteStep, ReturnStep
  DEF checkForEvents, onNewData
<1>2. ASSUME NEW c \in Conn,
             Connect(c) \/ (\E line \in Input : Send(c, line))
               \/ Hangup(c) \/ Reset(c)
      PROVE  IInv'
  BY <1>2, ConnectStep, PeerStep
<1>3. CASE UNCHANGED vars
  BY <1>3 DEF vars, IInv, TypeOK, SessionPerSocket, BacklogOK, LinesOK, LoopOK,
              Bit, Readable, Alive, Waiting, Open
<1>4. QED  BY <1>1, <1>2, <1>3, Zenon DEF Next

LEMMA Invariance == Spec => []IInv
  BY Initially, Step, PTL DEF Spec

-------------------------------------------------------------------------------
(* The refinement mapping *)

(* The service executes lines as the server does: both extend Commands.    *)
LEMMA SameExecute ==
  ASSUME NEW s, NEW line, NEW online
  PROVE  GS!execute(s, line, online) = execute(s, line, online)
  BY DEF GS!execute, GS!executeDuringLogin, GS!executeCommand,
         GS!executePrivileged, GS!executePass, GS!executePing,
         GS!executeFiles, GS!executeTransfer, GS!checkLogin, GS!Outcome,
         GS!Says, GS!Names, GS!Nobody, GS!PRIVILEGED_COMMANDS,
         execute, executeDuringLogin, executeCommand,
         executePrivileged, executePass, executePing,
         executeFiles, executeTransfer, checkLogin, Outcome,
         Says, Names, Nobody, PRIVILEGED_COMMANDS

LEMMA SameCardinality ==
  ASSUME NEW S
  PROVE  GS!Cardinality(S) = Cardinality(S)
  BY DEF GS!Cardinality, Cardinality

LEMMA PhaseValues ==
  ASSUME NEW c
  PROVE  Phase(c) = "open" <=> Open(c)
  BY DEF Phase

LEMMA ChosenDescriptor ==
  ASSUME NEW own, NEW fd \in DOMAIN own,
         \A f, g \in DOMAIN own : own[f] = own[g] => f = g
  PROVE  (CHOOSE f \in DOMAIN own : own[f] = own[fd]) = fd
  OBVIOUS

LEMMA SessionOfOpen ==
  ASSUME SessionPerSocket, NEW fd \in DOMAIN owner, NEW c, c = owner[fd]
  PROVE  SessionOf(c) = sessions[fd]
<1>1. (CHOOSE f \in DOMAIN owner : owner[f] = c) = fd
  BY ChosenDescriptor DEF SessionPerSocket
<1>2. QED  BY <1>1 DEF SessionOf, Open

LEMMA SessionOfOpenNext ==
  ASSUME SessionPerSocket', NEW fd \in DOMAIN owner', NEW c, c = owner'[fd]
  PROVE  SessionOf(c)' = sessions'[fd]
<1>1. (CHOOSE f \in DOMAIN owner' : owner'[f] = c) = fd
  BY ChosenDescriptor DEF SessionPerSocket
<1>2. QED  BY <1>1 DEF SessionOf, Open

(* w shows the users of the open connections: descriptors and open         *)
(* connections correspond one to one.                                      *)
LEMMA LoggedUsersAreOnline ==
  ASSUME TypeOK, SessionPerSocket
  PROVE  loggedUsers = GS!Online
<1>. DEFINE F(u) == {fd \in DOMAIN sessions : sessions[fd].username = u}
<1>. DEFINE C(u) == {c \in Conn : /\ [d \in Conn |-> Phase(d)][c] = "open"
                                 /\ [d \in Conn |-> SessionOf(d)][c].username = u}
<1>1. ASSUME NEW u \in Text
      PROVE  Cardinality(F(u)) = Cardinality(C(u))
  <2>. DEFINE m == [fd \in F(u) |-> owner[fd]]
  <2>1. F(u) \subseteq Fd /\ F(u) \subseteq DOMAIN owner
    BY DEF TypeOK, SessionPerSocket
  <2>2. IsFiniteSet(F(u))  BY <2>1, FdAssumption, FS_Subset
  <2>3. ASSUME NEW fd \in F(u)  PROVE m[fd] \in C(u)
    <3>1. owner[fd] \in Conn /\ Open(owner[fd])
      BY <2>1 DEF TypeOK, Open
    <3>2. SessionOf(owner[fd]) = sessions[fd]  BY <2>1, SessionOfOpen
    <3>3. QED  BY <3>1, <3>2, PhaseValues
  <2>4. \A f, g \in F(u) : m[f] = m[g] => f = g
    BY <2>1 DEF SessionPerSocket
  <2>5. ASSUME NEW c \in C(u)  PROVE \E fd \in F(u) : m[fd] = c
    <3>1. c \in Conn /\ Open(c) /\ SessionOf(c).username = u
      BY PhaseValues
    <3>2. PICK fd \in DOMAIN owner : owner[fd] = c  BY <3>1 DEF Open
    <3>3. SessionOf(c) = sessions[fd]  BY <3>2, SessionOfOpen
    <3>4. fd \in F(u)  BY <3>1, <3>3 DEF SessionPerSocket
    <3>5. QED  BY <3>2, <3>4
  <2>. HIDE DEF F, C
  <2>6. m \in [F(u) -> C(u)]  BY <2>3
  <2>7. m \in Bijection(F(u), C(u))
    BY <2>4, <2>5, <2>6, Zenon
    DEF Bijection, Injection, Surjection, IsInjective
  <2>8. ExistsBijection(F(u), C(u))  BY <2>7 DEF ExistsBijection
  <2>9. QED  BY <2>2, <2>8, FS_Bijection
<1>2. loggedUsers = [u \in Text |-> Cardinality(F(u))]  BY DEF loggedUsers
<1>3. GS!Online = [u \in Text |-> Cardinality(C(u))]
  <2>1. GS!Online = [u \in Text |-> GS!Cardinality(C(u))]  BY DEF GS!Online
  <2>. HIDE DEF C
  <2>2. QED  BY <2>1, SameCardinality
<1>. HIDE DEF F, C
<1>4. QED  BY <1>1, <1>2, <1>3

(* A step that opens or closes no connection and executes nothing.         *)
LEMMA PhaseKept ==
  ASSUME NEW c, Open(c)' <=> Open(c),
         ~Open(c) => /\ peer'[c] = peer[c] \/ Waiting(c)'
                     /\ Waiting(c) => Waiting(c)'
                     /\ Waiting(c)' => Waiting(c) \/ peer[c] = "absent"
  PROVE  Phase(c)' = Phase(c)
  BY DEF Phase

LEMMA SessionKept ==
  ASSUME NEW c, owner' = owner, sessions' = sessions
  PROVE  SessionOf(c)' = SessionOf(c)
  BY DEF SessionOf, Open

LEMMA Stutters ==
  ASSUME sent' = sent, log' = log,
         \A c \in Conn : Phase(c)' = Phase(c) /\ SessionOf(c)' = SessionOf(c)
  PROVE  UNCHANGED GS!vars
  BY DEF GS!vars

LEMMA MapsInit == Init => GS!Init
<1>. SUFFICES ASSUME Init  PROVE GS!Init
  OBVIOUS
<1>1. DOMAIN << >> = {}  OBVIOUS
<1>2. \A c \in Conn : Phase(c) = "absent" /\ SessionOf(c) = NewState
  BY <1>1 DEF Init, Phase, SessionOf, Open
<1>3. GS!NewState = NewState  BY DEF GS!NewState, NewState
<1>4. QED  BY <1>2, <1>3, Zenon DEF Init, GS!Init

LEMMA MapsConnect ==
  ASSUME IInv, NEW c \in Conn, Connect(c)
  PROVE  UNCHANGED GS!vars
<1>1. /\ UNCHANGED <<sent, owner, sessions, log>>
      /\ peer' = [peer EXCEPT ![c] = "connected"] /\ peer[c] = "absent"
      /\ backlog' = Append(backlog, c) /\ backlog \in Seq(Conn)
      /\ peer \in [Conn -> PeerStates]
  BY DEF Connect, sessionVars, IInv, TypeOK
<1>2. \A d : Waiting(d)' <=> d = c \/ Waiting(d)
  BY <1>1, Appended DEF Waiting
<1>3. ASSUME NEW d \in Conn  PROVE Phase(d)' = Phase(d)
  <2>1. Open(d)' <=> Open(d)  BY <1>1 DEF Open
  <2>2. peer'[d] = peer[d] \/ Waiting(d)'  BY <1>1, <1>2
  <2>3. QED  BY <1>1, <1>2, <2>1, <2>2, PhaseKept
<1>4. QED  BY <1>1, <1>3, SessionKept, Stutters

LEMMA MapsPeer ==
  ASSUME IInv, NEW c \in Conn, Hangup(c) \/ Reset(c)
  PROVE  UNCHANGED GS!vars
<1>1. /\ UNCHANGED <<sent, backlog, owner, sessions, log>>
      /\ peer \in [Conn -> PeerStates]
      /\ Alive(c) /\ \E p : peer' = [peer EXCEPT ![c] = p]
  BY DEF Hangup, Reset, sessionVars, kernelVars, IInv, TypeOK
<1>2. ASSUME NEW d \in Conn  PROVE Phase(d)' = Phase(d)
  <2>1. (Open(d)' <=> Open(d)) /\ (Waiting(d)' <=> Waiting(d))
    BY <1>1 DEF Open, Waiting
  <2>2. d = c => Open(d) \/ Waiting(d)  BY <1>1 DEF Alive
  <2>3. d # c => peer'[d] = peer[d]  BY <1>1
  <2>4. QED  BY <2>1, <2>2, <2>3, PhaseKept
<1>3. QED  BY <1>1, <1>2, SessionKept, Stutters

LEMMA MapsSend ==
  ASSUME IInv, NEW c \in Conn, NEW line \in Input, Send(c, line)
  PROVE  GS!Send(c, line)
<1>1. /\ UNCHANGED <<peer, backlog, owner, sessions, log>>
      /\ Len(sent[c]) < MaxLines[c]
      /\ sent' = [sent EXCEPT ![c] = Append(@, line)]
  BY DEF Send, sessionVars, kernelVars
<1>2. ASSUME NEW d \in Conn
      PROVE  Phase(d)' = Phase(d) /\ SessionOf(d)' = SessionOf(d)
  BY <1>1, SessionKept DEF Phase, Open, Waiting
<1>3. QED  BY <1>1, <1>2 DEF GS!Send

(* select(), the steps of the loop and the calls of onNewData that execute *)
(* no line.                                                                *)
LEMMA MapsLoop ==
  ASSUME IInv,
         Select \/ AcceptFails \/ Visit \/ EndRound \/ Drained \/ ReadFails
  PROVE  UNCHANGED GS!vars
<1>1. /\ UNCHANGED <<sent, backlog, owner, sessions, log>>
      /\ \/ peer' = peer
         \/ pc = "serving" /\ peer' = [peer EXCEPT ![client] = "dead"]
  BY DEF Select, AcceptFails, Visit, EndRound, Drained, ReadFails,
         clientVars, kernelVars, sessionVars
<1>2. ASSUME NEW d \in Conn  PROVE Phase(d)' = Phase(d)
  <2>1. (Open(d)' <=> Open(d)) /\ (Waiting(d)' <=> Waiting(d))
    BY <1>1 DEF Open, Waiting
  <2>2. peer \in [Conn -> PeerStates]  BY DEF IInv, TypeOK
  <2>3. peer'[d] = peer[d] \/ Open(d)
    <3>1. CASE peer' = peer  BY <3>1
    <3>2. CASE pc = "serving" /\ peer' = [peer EXCEPT ![client] = "dead"]
      <4>1. Open(client)  BY <3>2, Serving
      <4>2. QED  BY <2>2, <3>2, <4>1
    <3>3. QED  BY <1>1, <3>1, <3>2
  <2>4. QED  BY <2>1, <2>3, PhaseKept
<1>3. QED  BY <1>1, <1>2, SessionKept, Stutters

LEMMA MapsAccept ==
  ASSUME IInv, IInv', Accept
  PROVE  \E c \in Conn : GS!Open(c)
<1>0. PICK c \in Conn : c = Head(backlog)  BY Accepted
<1>1. /\ Waiting(c) /\ ~Open(c)
      /\ \A d : Waiting(d)' <=> d # c /\ Waiting(d)
      /\ \A d : Open(d)' <=> d = c \/ Open(d)
  BY <1>0, Accepted
<1>2. PICK fd \in Fd \ DOMAIN owner :
        /\ owner' = With(owner, fd, c)
        /\ sessions' = With(sessions, fd, NewState)
  BY <1>0, Accepted
<1>3. UNCHANGED <<sent, peer, log>>
  BY DEF Accept, clientVars
<1>4. Phase(c) = "absent" /\ Phase(c)' = "open"  BY <1>1 DEF Phase
<1>5. ASSUME NEW d \in Conn, d # c  PROVE Phase(d)' = Phase(d)
  BY <1>1, <1>3, <1>5, PhaseKept
<1>6. ASSUME NEW d \in Conn  PROVE SessionOf(d)' = SessionOf(d)
  <2>1. /\ DOMAIN owner' = DOMAIN owner \cup {fd} /\ owner'[fd] = c
        /\ \A f \in DOMAIN owner : owner'[f] = owner[f]
        /\ sessions'[fd] = NewState
        /\ \A f \in DOMAIN sessions : f # fd => sessions'[f] = sessions[f]
    BY <1>2 DEF With
  <2>2. SessionPerSocket /\ SessionPerSocket'  BY DEF IInv
  <2>3. CASE d = c
    <3>1. SessionOf(d)' = NewState  BY <2>1, <2>2, <2>3, SessionOfOpenNext
    <3>2. SessionOf(d) = NewState  BY <1>1, <2>3 DEF SessionOf
    <3>3. QED  BY <3>1, <3>2
  <2>4. CASE Open(d)
    <3>1. PICK f \in DOMAIN owner : owner[f] = d  BY <2>4 DEF Open
    <3>2. /\ f \in DOMAIN owner' /\ owner'[f] = d /\ f # fd
          /\ f \in DOMAIN sessions
      BY <2>1, <2>2, <3>1 DEF SessionPerSocket
    <3>3. SessionOf(d) = sessions[f]  BY <2>2, <3>1, SessionOfOpen
    <3>4. SessionOf(d)' = sessions'[f]  BY <2>2, <3>2, SessionOfOpenNext
    <3>5. QED  BY <2>1, <3>2, <3>3, <3>4
  <2>5. CASE d # c /\ ~Open(d)
    <3>1. ~Open(d)'  BY <1>1, <2>5
    <3>2. QED  BY <2>5, <3>1 DEF SessionOf
  <2>6. QED  BY <2>3, <2>4, <2>5
<1>7. GS!Open(c)
  BY <1>1, <1>3, <1>4, <1>5, <1>6 DEF GS!Open
<1>8. QED  BY <1>1, <1>7

LEMMA MapsExecute ==
  ASSUME IInv, IInv', Execute
  PROVE  \E c \in Conn : GS!Serve(c)
<1>1. /\ pc = "serving"
      /\ UNCHANGED <<sent, peer, backlog, owner>>
  BY DEF Execute, clientVars, kernelVars
<1>2. PICK line \in Line :
        /\ NextLine(line)
        /\ line.cmd # "exit"
        /\ \E o \in execute(sessions[current], line, loggedUsers) :
             /\ sessions' = [sessions EXCEPT ![current] = o.state]
             /\ log' = [log EXCEPT ![client] =
                          Append(@, [line |-> line, reply |-> o.reply])]
  BY Zenon DEF Execute
<1>3. PICK o \in execute(sessions[current], line, loggedUsers) :
        /\ sessions' = [sessions EXCEPT ![current] = o.state]
        /\ log' = [log EXCEPT ![client] =
                     Append(@, [line |-> line, reply |-> o.reply])]
  BY <1>2, Zenon
<1>4. /\ current \in DOMAIN owner /\ current \in DOMAIN sessions
      /\ client = owner[current] /\ client \in Conn /\ Open(client)
      /\ \A fd \in DOMAIN owner : owner[fd] = client <=> fd = current
  BY <1>1, Serving
<1>5. /\ Len(log[client]) < Len(sent[client])
      /\ line = sent[client][Len(log[client]) + 1]
  BY <1>1, <1>2, Fetched
<1>c. PICK c \in Conn : c = client  BY <1>4
<1>6. SessionPerSocket /\ SessionPerSocket'  BY DEF IInv
<1>7. SessionOf(c) = sessions[current]  BY <1>4, <1>6, <1>c, SessionOfOpen
<1>8. o \in GS!execute(SessionOf(c), line, GS!Online)
  <2>1. loggedUsers = GS!Online  BY LoggedUsersAreOnline DEF IInv
  <2>2. QED  BY <1>7, <2>1, SameExecute
<1>9. \A d \in Conn : Phase(d)' = Phase(d)
  BY <1>1 DEF Phase, Open, Waiting
<1>10. SessionOf(c)' = o.state
  <2>1. SessionOf(c)' = sessions'[current]
    BY <1>1, <1>4, <1>6, <1>c, SessionOfOpenNext
  <2>2. QED  BY <1>3, <1>4, <2>1
<1>11. ASSUME NEW d \in Conn, d # c  PROVE SessionOf(d)' = SessionOf(d)
  <2>1. CASE Open(d)
    <3>1. PICK f \in DOMAIN owner : owner[f] = d  BY <2>1 DEF Open
    <3>2. f # current /\ f \in DOMAIN owner' /\ owner'[f] = d
      BY <1>1, <1>4, <1>11, <1>c, <3>1
    <3>3. SessionOf(d) = sessions[f]  BY <1>6, <3>1, SessionOfOpen
    <3>4. SessionOf(d)' = sessions'[f]  BY <1>6, <3>2, SessionOfOpenNext
    <3>5. sessions'[f] = sessions[f]
      BY <1>3, <1>6, <3>1, <3>2 DEF SessionPerSocket
    <3>6. QED  BY <3>3, <3>4, <3>5
  <2>2. CASE ~Open(d)
    BY <1>1, <2>2 DEF SessionOf, Open
  <2>3. QED  BY <2>1, <2>2
<1>12. Phase(c) = "open"  BY <1>4, <1>c, PhaseValues
<1>13. [d \in Conn |-> SessionOf(d)]'
         = [[d \in Conn |-> SessionOf(d)] EXCEPT ![c] = o.state]
  BY <1>4, <1>10, <1>11, <1>c
<1>14. [d \in Conn |-> Phase(d)]' = [d \in Conn |-> Phase(d)]
  BY <1>9
<1>15. /\ [d \in Conn |-> Phase(d)][c] = "open"
       /\ [d \in Conn |-> SessionOf(d)][c] = SessionOf(c)
  BY <1>4, <1>12, <1>c
<1>16. GS!Serve(c)
  BY <1>1, <1>2, <1>3, <1>5, <1>8, <1>c, <1>13, <1>14, <1>15, Zenon DEF GS!Serve
<1>17. QED  BY <1>4, <1>c, <1>16

LEMMA MapsErase ==
  ASSUME IInv, IInv', Exit \/ Closed
  PROVE  \E c \in Conn : GS!Close(c)
<1>1. /\ pc = "serving" /\ Erase
      /\ UNCHANGED <<sent, peer, backlog, log>>
  BY DEF Exit, Closed, clientVars
<1>2. /\ current \in DOMAIN owner /\ current \in DOMAIN sessions
      /\ client = owner[current] /\ client \in Conn /\ Open(client)
      /\ ~Waiting(client) /\ peer[client] # "absent"
      /\ \A fd \in DOMAIN owner : owner[fd] = client <=> fd = current
  BY <1>1, Serving
<1>3. PICK c \in Conn : c = client  BY <1>2
<1>4. /\ DOMAIN owner' = DOMAIN owner \ {current}
      /\ \A f \in DOMAIN owner \ {current} : owner'[f] = owner[f]
      /\ \A f \in DOMAIN sessions \ {current} : sessions'[f] = sessions[f]
  BY <1>1 DEF Erase, Without
<1>5. \A d : Open(d)' <=> Open(d) /\ d # c
  BY <1>2, <1>3, <1>4 DEF Open
<1>6. \A d : Waiting(d)' <=> Waiting(d)  BY <1>1 DEF Waiting
<1>7. Phase(c) = "open" /\ Phase(c)' = "closed"
  BY <1>1, <1>2, <1>3, <1>5, <1>6 DEF Phase
<1>8. ASSUME NEW d \in Conn, d # c  PROVE Phase(d)' = Phase(d)
  BY <1>1, <1>5, <1>6, <1>8, PhaseKept
<1>9. SessionOf(c)' = GS!NewState
  BY <1>5 DEF SessionOf, NewState, GS!NewState
<1>10. SessionPerSocket /\ SessionPerSocket'  BY DEF IInv
<1>11. ASSUME NEW d \in Conn, d # c  PROVE SessionOf(d)' = SessionOf(d)
  <2>1. CASE Open(d)
    <3>1. PICK f \in DOMAIN owner : owner[f] = d  BY <2>1 DEF Open
    <3>2. f # current /\ f \in DOMAIN owner' /\ owner'[f] = d
      BY <1>2, <1>3, <1>4, <1>11, <3>1
    <3>3. SessionOf(d) = sessions[f]  BY <1>10, <3>1, SessionOfOpen
    <3>4. SessionOf(d)' = sessions'[f]  BY <1>10, <3>2, SessionOfOpenNext
    <3>5. sessions'[f] = sessions[f]
      BY <1>4, <1>10, <3>1, <3>2 DEF SessionPerSocket
    <3>6. QED  BY <3>3, <3>4, <3>5
  <2>2. CASE ~Open(d)
    BY <1>5, <2>2 DEF SessionOf
  <2>3. QED  BY <2>1, <2>2
<1>12. GS!Close(c)
  BY <1>1, <1>3, <1>7, <1>8, <1>9, <1>11 DEF GS!Close
<1>13. QED  BY <1>3, <1>12

LEMMA MapsNext == IInv /\ IInv' /\ [Next]_vars => [GS!Next]_GS!vars
<1>. SUFFICES ASSUME IInv, IInv', [Next]_vars  PROVE GS!Next \/ UNCHANGED GS!vars
  OBVIOUS
<1>1. CASE checkForEvents
  BY <1>1, MapsLoop, MapsAccept, MapsExecute, MapsErase, Zenon
  DEF checkForEvents, onNewData, GS!Next
<1>2. ASSUME NEW c \in Conn, Connect(c) \/ Hangup(c) \/ Reset(c)
      PROVE  UNCHANGED GS!vars
  BY <1>2, MapsConnect, MapsPeer
<1>3. ASSUME NEW c \in Conn, NEW line \in Input, Send(c, line)
      PROVE  GS!Next
  BY <1>3, MapsSend, Zenon DEF GS!Next
<1>4. CASE UNCHANGED vars
  BY <1>4 DEF vars, GS!vars, Phase, SessionOf, Open, Waiting
<1>5. QED  BY <1>1, <1>2, <1>3, <1>4, Zenon DEF Next

-------------------------------------------------------------------------------
(* Theorems *)

(***************************************************************************)
(* The descriptors, the sessions in the map, the counters of fetched lines *)
(* and the places of the loop are always of their types: every line that a *)
(* client can send has an outcome that is a session state and a reply.     *)
(***************************************************************************)
THEOREM ServerTypeCorrect == Spec => []TypeOK
<1>1. IInv => TypeOK  BY DEF IInv
<1>2. QED  BY <1>1, Invariance, PTL

(***************************************************************************)
(* For any number of connections and descriptors, in any order of accepts, *)
(* hang-ups and iteration: one session per open descriptor, one descriptor *)
(* per connection, none for a connection still in the backlog              *)
(* (handleNewConnection, the erase in checkForEvents, Session's destructor *)
(* and move constructor).                                                  *)
(***************************************************************************)
THEOREM SessionsMatchSockets == Spec => []SessionPerSocket
<1>1. IInv => SessionPerSocket  BY DEF IInv
<1>2. QED  BY <1>1, Invariance, PTL

(***************************************************************************)
(* For any number of connections and descriptors, the loop over _sessions  *)
(* calls onNewData only for a connection that has something to read, also  *)
(* when other sessions have ended and descriptors were handed out again    *)
(* since select() (checkForEvents).                                        *)
(***************************************************************************)
THEOREM CallsAreForData == Spec => []NoSpuriousCall
<1>1. IInv => NoSpuriousCall  BY DEF IInv, LoopOK, Bit, NoSpuriousCall
<1>2. QED  BY <1>1, Invariance, PTL

(***************************************************************************)
(* The server implements independent login sessions: every behaviour of    *)
(* the event loop, its descriptors and its backlog is, connection by       *)
(* connection, a behaviour of GrassService.  Executing a line is Serve,    *)
(* accepting is Open, erasing a session is Close, and the users that w     *)
(* lists by descriptor are those of the open connections.                  *)
(***************************************************************************)
THEOREM ServerImplementsService == Spec => SessionsAreIndependent
<1>1. Init => GS!Init  BY MapsInit
<1>2. IInv /\ IInv' /\ [Next]_vars => [GS!Next]_GS!vars  BY MapsNext
<1>3. QED
  BY <1>1, <1>2, Invariance, PTL DEF Spec, SessionsAreIndependent, GS!Spec

-------------------------------------------------------------------------------
(* What GrassServiceProofs proves of the service holds of the server       *)

Service == INSTANCE GrassServiceProofs
             WITH phase <- [c \in Conn |-> Phase(c)],
                  session <- [c \in Conn |-> SessionOf(c)]

LEMMA ServiceAssumptions == Service!IsFiniteSet(Conn) /\ Input \subseteq Service!Line
  BY ConnAssumption, InputAssumption
  DEF Service!IsFiniteSet, IsFiniteSet, Service!Line, Line, Service!Word, Word,
      Service!PRIVILEGED_COMMANDS, PRIVILEGED_COMMANDS

LEMMA ServiceExecute ==
  ASSUME NEW s, NEW line, NEW online
  PROVE  Service!execute(s, line, online) = GS!execute(s, line, online)
  BY DEF GS!execute, GS!executeDuringLogin, GS!executeCommand,
         GS!executePrivileged, GS!executePass, GS!executePing,
         GS!executeFiles, GS!executeTransfer, GS!checkLogin, GS!Outcome,
         GS!Says, GS!Names, GS!Nobody, GS!PRIVILEGED_COMMANDS,
         Service!execute, Service!executeDuringLogin, Service!executeCommand,
         Service!executePrivileged, Service!executePass, Service!executePing,
         Service!executeFiles, Service!executeTransfer, Service!checkLogin,
         Service!Outcome, Service!Says, Service!Names, Service!Nobody,
         Service!PRIVILEGED_COMMANDS

LEMMA ServiceOnline == Service!Online = GS!Online
  BY DEF Service!Online, GS!Online, Service!Cardinality, GS!Cardinality

LEMMA ServiceInit == GS!Init => Service!Init
  BY DEF GS!Init, Service!Init, GS!NewState, Service!NewState

LEMMA ServiceNext == [GS!Next]_GS!vars => [Service!Next]_Service!vars
<1>1. ASSUME NEW c \in Conn, GS!Serve(c)  PROVE Service!Serve(c)
  BY <1>1, ServiceExecute, ServiceOnline, Zenon DEF GS!Serve, Service!Serve
<1>2. ASSUME NEW c \in Conn, NEW line \in Input, GS!Send(c, line)
      PROVE  Service!Send(c, line)
  BY <1>2 DEF GS!Send, Service!Send
<1>3. ASSUME NEW c \in Conn, GS!Open(c)  PROVE Service!Open(c)
  BY <1>3 DEF GS!Open, Service!Open
<1>4. ASSUME NEW c \in Conn, GS!Close(c)  PROVE Service!Close(c)
  BY <1>4 DEF GS!Close, Service!Close, GS!NewState, Service!NewState
<1>5. GS!Next => Service!Next
  BY <1>1, <1>2, <1>3, <1>4, Zenon DEF GS!Next, Service!Next
<1>6. UNCHANGED GS!vars => UNCHANGED Service!vars
  BY DEF GS!vars, Service!vars
<1>7. QED  BY <1>5, <1>6

LEMMA ServiceProperties ==
  /\ Service!LoginJustified => GS!LoginJustified
  /\ Service!AnswersJustified => GS!AnswersJustified
<1>1. ASSUME NEW entries, NEW u
      PROVE  Service!Justifies(entries, u) = GS!Justifies(entries, u)
  BY DEF Service!Justifies, GS!Justifies, Service!Harmless, GS!Harmless,
         Service!checkLogin, GS!checkLogin
<1>2. Service!LoginJustified => GS!LoginJustified
  BY <1>1, Zenon DEF Service!LoginJustified, GS!LoginJustified
<1>3. Service!AnswersJustified => GS!AnswersJustified
  BY <1>1, Zenon DEF Service!AnswersJustified, GS!AnswersJustified,
     Service!PRIVILEGED_COMMANDS, GS!PRIVILEGED_COMMANDS
<1>4. QED  BY <1>2, <1>3

(***************************************************************************)
(* Over the whole server, whichever descriptors its connections get and    *)
(* whatever happens on the others: the session of an open connection is    *)
(* logged in only as justified by the lines executed on that connection,   *)
(* and a privileged command was answered only to a user so logged in.      *)
(* Server implements GrassService (ServerImplementsService), whose         *)
(* theorems LoginsJustified and AnswersAreJustified carry over.            *)
(***************************************************************************)
THEOREM ServerLoginsJustified ==
  Spec => [](GS!LoginJustified /\ GS!AnswersJustified)
<1>1. Spec => GS!Spec
  BY ServerImplementsService DEF SessionsAreIndependent
<1>2. GS!Spec => Service!Spec
  BY ServiceInit, ServiceNext, PTL DEF GS!Spec, Service!Spec
<1>3. Service!Spec => []Service!LoginJustified
  BY ServiceAssumptions, Service!LoginsJustified,
     CredentialsAssumption, NoneAssumption, MaxLinesAssumption
<1>4. Service!Spec => []Service!AnswersJustified
  BY ServiceAssumptions, Service!AnswersAreJustified,
     CredentialsAssumption, NoneAssumption, MaxLinesAssumption
<1>5. QED  BY <1>1, <1>2, <1>3, <1>4, ServiceProperties, PTL
===============================================================================
