----------------------------- MODULE GrassService -----------------------------
(***************************************************************************)
(* What the GRASS server promises its clients: every connection is a login *)
(* session of its own, its lines are executed once each, in the order they *)
(* were sent, one line at a time over all connections.  There are no       *)
(* descriptors, no event loop and no buffers here; Server implements this. *)
(***************************************************************************)
EXTENDS Commands, Sequences, FiniteSets

CONSTANTS
  Conn,      \* the connections made to the server during its life
  Input,     \* bound: the lines the clients send
  MaxLines   \* bound: the number of lines sent on each connection

ASSUME ConnAssumption == IsFiniteSet(Conn)
ASSUME InputAssumption == Input \subseteq Line
ASSUME MaxLinesAssumption == MaxLines \in [Conn -> Nat]

VARIABLES
  sent,     \* the lines sent on each connection
  phase,    \* whether a connection is "absent", "open" or "closed"
  session,  \* the login state of each connection
  log       \* the lines executed on each connection, with their replies

vars == <<sent, phase, session, log>>

Entry == [line : Line, reply : Reply]

TypeOK ==
  /\ sent \in [Conn -> Seq(Line)]
  /\ phase \in [Conn -> {"absent", "open", "closed"}]
  /\ session \in [Conn -> State]
  /\ log \in [Conn -> Seq(Entry)]

\* The users logged in, over all open connections.
Online ==
  [u \in Text |->
     Cardinality({c \in Conn : phase[c] = "open" /\ session[c].username = u})]

Init ==
  /\ sent = [c \in Conn |-> << >>]
  /\ phase = [c \in Conn |-> "absent"]
  /\ session = [c \in Conn |-> NewState]
  /\ log = [c \in Conn |-> << >>]

Send(c, line) ==
  /\ Len(sent[c]) < MaxLines[c]
  /\ sent' = [sent EXCEPT ![c] = Append(@, line)]
  /\ UNCHANGED <<phase, session, log>>

Open(c) ==
  /\ phase[c] = "absent"
  /\ phase' = [phase EXCEPT ![c] = "open"]
  /\ UNCHANGED <<sent, session, log>>

\* The next line of c, unless it is "exit", is executed and answered.
Serve(c) ==
  /\ phase[c] = "open"
  /\ Len(log[c]) < Len(sent[c])
  /\ LET line == sent[c][Len(log[c]) + 1]
     IN  /\ line.cmd # "exit"
         /\ \E o \in execute(session[c], line, Online) :
              /\ session' = [session EXCEPT ![c] = o.state]
              /\ log' = [log EXCEPT ![c] =
                           Append(@, [line |-> line, reply |-> o.reply])]
  /\ UNCHANGED <<sent, phase>>

\* "exit", or the client hung up; nobody is logged in any more.
Close(c) ==
  /\ phase[c] = "open"
  /\ phase' = [phase EXCEPT ![c] = "closed"]
  /\ session' = [session EXCEPT ![c] = NewState]
  /\ UNCHANGED <<sent, log>>

Next ==
  \E c \in Conn :
    \/ \E line \in Input : Send(c, line)
    \/ Open(c)
    \/ Serve(c)
    \/ Close(c)

Spec == Init /\ [][Next]_vars

-------------------------------------------------------------------------------
(* Properties *)

(***************************************************************************)
(* A run of replies justifies that u is logged in: a login line of u that  *)
(* was accepted, u's own password as the next line that counts, and no     *)
(* logout that took effect after it.                                       *)
(***************************************************************************)
Justifies(entries, u) ==
  \E i, j \in DOMAIN entries :
    /\ i < j
    /\ entries[i].line.cmd = "login"
    /\ entries[i].line.arg = u
    /\ entries[i].reply.text = ""
    /\ \A k \in (i + 1)..(j - 1) : Harmless(entries[k].line)
    /\ entries[j].line.cmd = "pass"
    /\ checkLogin(u, entries[j].line.arg)
    /\ \A k \in DOMAIN entries :
         k > j /\ entries[k].line.cmd = "logout" => entries[k].reply.text # ""

(***************************************************************************)
(* Nobody is logged in on a connection unless the client of that very      *)
(* connection gave that user's password right after naming that user, and  *)
(* did not log out since: the login state machine of execute and           *)
(* executePass, whatever lines are mixed in between.                       *)
(***************************************************************************)
LoginJustified ==
  \A c \in Conn :
    session[c].username # None => Justifies(log[c], session[c].username)

(***************************************************************************)
(* A privileged command gets past "Access denied" and "Login interrupted"  *)
(* only on a connection whose client was logged in at that point, and      *)
(* whoami then names the user whose login the earlier lines justify: the   *)
(* check in execute before executePrivileged.                              *)
(***************************************************************************)
AnswersJustified ==
  \A c \in Conn : \A n \in DOMAIN log[c] :
    LET e == log[c][n] IN
      /\ e.line.cmd \in PRIVILEGED_COMMANDS
      /\ e.reply.text \notin {"Access denied", "Login interrupted"}
      => \E u \in Text :
           /\ Justifies(SubSeq(log[c], 1, n - 1), u)
           /\ e.line.cmd = "whoami" => e.reply.users[u] = 1
===============================================================================
