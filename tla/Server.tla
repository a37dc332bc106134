-------------------------------- MODULE Server --------------------------------
(***************************************************************************)
(* The GRASS server: ServerManager's event loop (src/server_manager.cpp)   *)
(* over the sessions, keyed by file descriptor, and Session::onNewData     *)
(* (src/session.cpp:72-113), with the part of the kernel they depend on:   *)
(* the accept queue, the descriptor table, select() and the readiness of a *)
(* connection.  A connection's bytes are seen as lines; how a RingBuffer   *)
(* turns one into the other is the subject of RingBuffer and LineReader.   *)
(*                                                                         *)
(* The server has one thread for all of this.  Its steps are the places    *)
(* where clients can do something in between: select, accept, the choice   *)
(* of the next session, and each call of nextLine.                         *)
(***************************************************************************)
EXTENDS Commands, Sequences, FiniteSets

CONSTANTS
  Conn,      \* the connections clients make during the life of the server
  Fd,        \* the descriptors left for connections (the process's limit)
  Input,     \* bound: the lines the clients send
  MaxLines   \* bound: the number of lines sent on each connection

ASSUME ConnAssumption == IsFiniteSet(Conn)
ASSUME FdAssumption == IsFiniteSet(Fd)
ASSUME InputAssumption == Input \subseteq Line
ASSUME MaxLinesAssumption == MaxLines \in [Conn -> Nat]

VARIABLES
  sent,      \* environment: the lines sent on each connection
  peer,      \* environment: what the client did to each connection
  backlog,   \* kernel: connections waiting to be accepted, oldest first
  owner,     \* kernel: the connection behind each open descriptor
  sessions,  \* _sessions, from descriptor to the session's _state
  fetched,   \* lines of each connection moved from the kernel to _buffer
  pc,        \* where the event loop is
  ready,     \* fds as select() filled it in, until the loop over _sessions
  todo,      \* sessions of this round whose bit is set and not visited yet
  current,   \* the descriptor whose onNewData runs
  log        \* history: the lines executed on each connection, and replies

clientVars == <<sent, peer>>
kernelVars == <<backlog, owner>>
loopVars == <<pc, ready, todo, current>>
sessionVars == <<sessions, fetched>>
vars == <<sent, peer, backlog, owner, sessions, fetched,
          pc, ready, todo, current, log>>

(***************************************************************************)
(* "absent"  not connected yet       "connected"  the client keeps it open *)
(* "closed"  closed or half-closed   "reset"      reset, not yet reported  *)
(* "dead"    reset, and read(2) has reported it: only EOF from now on      *)
(***************************************************************************)
PeerStates == {"absent", "connected", "closed", "reset", "dead"}

(***************************************************************************)
(* "select"      blocked in select()                                       *)
(* "accept"      the listening socket's bit is set, in handleNewConnection *)
(* "sessions"    in the loop over _sessions                                *)
(* "serving"     in onNewData of the session on descriptor current         *)
(* "terminated"  an exception left run(), and main with it                 *)
(***************************************************************************)
Locations == {"select", "accept", "sessions", "serving", "terminated"}

Entry == [line : Line, reply : Reply]

TypeOK ==
  /\ sent \in [Conn -> Seq(Line)]
  /\ peer \in [Conn -> PeerStates]
  /\ backlog \in Seq(Conn)
  /\ DOMAIN owner \subseteq Fd /\ owner \in [DOMAIN owner -> Conn]
  /\ DOMAIN sessions \subseteq Fd /\ sessions \in [DOMAIN sessions -> State]
  /\ fetched \in [Conn -> Nat]
  /\ pc \in Locations
  /\ ready \subseteq Fd
  /\ todo \subseteq Fd
  /\ current \in Fd \cup {None}
  /\ log \in [Conn -> Seq(Entry)]

-------------------------------------------------------------------------------
(* Partial functions *)

With(f, x, y) == [z \in DOMAIN f \cup {x} |-> IF z = x THEN y ELSE f[z]]

Without(f, x) == [z \in DOMAIN f \ {x} |-> f[z]]

-------------------------------------------------------------------------------
(* The clients *)

Waiting(c) == \E i \in DOMAIN backlog : backlog[i] = c

\* A connection the server holds a descriptor for.
Open(c) == \E fd \in DOMAIN owner : owner[fd] = c

\* What a client does after that reaches nobody, and is left out.
Alive(c) == Waiting(c) \/ Open(c)

Connect(c) ==
  /\ peer[c] = "absent"
  /\ peer' = [peer EXCEPT ![c] = "connected"]
  /\ backlog' = Append(backlog, c)
  /\ UNCHANGED <<sent, owner, sessionVars, loopVars, log>>

Send(c, line) ==
  /\ peer[c] = "connected" /\ Alive(c)
  /\ Len(sent[c]) < MaxLines[c]
  /\ sent' = [sent EXCEPT ![c] = Append(@, line)]
  /\ UNCHANGED <<peer, kernelVars, sessionVars, loopVars, log>>

Hangup(c) ==
  /\ peer[c] = "connected" /\ Alive(c)
  /\ peer' = [peer EXCEPT ![c] = "closed"]
  /\ UNCHANGED <<sent, kernelVars, sessionVars, loopVars, log>>

\* The client aborts, or its host answers a reply on a closed connection.
Reset(c) ==
  /\ peer[c] \in {"connected", "closed"} /\ Alive(c)
  /\ peer' = [peer EXCEPT ![c] = "reset"]
  /\ UNCHANGED <<sent, kernelVars, sessionVars, loopVars, log>>

-------------------------------------------------------------------------------
(* The event loop *)

Init ==
  /\ sent = [c \in Conn |-> << >>]
  /\ peer = [c \in Conn |-> "absent"]
  /\ backlog = << >>
  /\ owner = << >>
  /\ sessions = << >>
  /\ fetched = [c \in Conn |-> 0]
  /\ pc = "select"
  /\ ready = {}
  /\ todo = {}
  /\ current = None
  /\ log = [c \in Conn |-> << >>]

\* A read(2) on fd would not block.
Readable(fd) ==
  LET c == owner[fd] IN fetched[c] < Len(sent[c]) \/ peer[c] # "connected"

\* The descriptors with something to read, of those asked about: the bits of
\* fds.  When there is no new connection the loop over _sessions begins.
Select ==
  /\ pc = "select"
  /\ LET fds == {fd \in DOMAIN sessions : Readable(fd)} IN
       IF backlog # << >>
         THEN pc' = "accept" /\ ready' = fds /\ UNCHANGED todo
         ELSE pc' = "sessions" /\ fds # {} /\ todo' = fds /\ UNCHANGED ready
  /\ UNCHANGED <<clientVars, kernelVars, sessionVars, current, log>>

\* Mutants: the moved-from Session still owns the descriptor, and closes it;
\* the new session is called at once.
AcceptMovedFrom ==
  /\ pc = "accept"
  /\ \E fd \in Fd \ DOMAIN owner : sessions' = With(sessions, fd, NewState)
  /\ backlog' = Tail(backlog)
  /\ pc' = "sessions"
  /\ todo' = DOMAIN sessions' \cap ready
  /\ ready' = {}
  /\ UNCHANGED <<clientVars, owner, fetched, current, log>>

AcceptAndCall ==
  /\ pc = "accept"
  /\ \E fd \in Fd \ DOMAIN owner :
       /\ owner' = With(owner, fd, Head(backlog))
       /\ sessions' = With(sessions, fd, NewState)
  /\ backlog' = Tail(backlog)
  /\ pc' = "sessions"
  /\ todo' = ready \cup (DOMAIN sessions' \ DOMAIN sessions)
  /\ ready' = {}
  /\ UNCHANGED <<clientVars, fetched, current, log>>

\* handleNewConnection: the kernel picks a free descriptor, the session is
\* inserted under it, and the loop over _sessions begins.
Accept ==
  /\ pc = "accept"
  /\ \E fd \in Fd \ DOMAIN owner :
       /\ owner' = With(owner, fd, Head(backlog))
       /\ sessions' = With(sessions, fd, NewState)
  /\ backlog' = Tail(backlog)
  /\ pc' = "sessions"
  /\ todo' = DOMAIN sessions' \cap ready
  /\ ready' = {}
  /\ UNCHANGED <<clientVars, fetched, current, log>>

\* accept(2) fails for want of a descriptor; nothing up to main catches the
\* GrassException.
AcceptFails ==
  /\ pc = "accept"
  /\ Fd \subseteq DOMAIN owner
  /\ pc' = "terminated"
  /\ UNCHANGED <<clientVars, kernelVars, sessionVars, ready, todo, current, log>>

\* The iteration order of an unordered_map is any order.
Visit ==
  /\ pc = "sessions"
  /\ current' \in todo
  /\ pc' = "serving"
  /\ UNCHANGED <<clientVars, kernelVars, sessionVars, ready, todo, log>>

EndRound ==
  /\ pc = "sessions"
  /\ todo = {}
  /\ pc' = "select"
  /\ UNCHANGED <<clientVars, kernelVars, sessionVars, ready, todo, current, log>>

-------------------------------------------------------------------------------
(* Session::onNewData of the session on current *)

client == owner[current]

\* Mutant: the session that asks is left out.
loggedOthers ==
  [u \in Text |-> Cardinality({fd \in DOMAIN sessions \ {current} :
                                 sessions[fd].username = u})]

\* ServerManager::loggedUsers
loggedUsers ==
  [u \in Text |-> Cardinality({fd \in DOMAIN sessions : sessions[fd].username = u})]

\* nextLine returns a line: one that is in _buffer already or, if there is
\* none, the first of those the read(2) it makes brings in.
NextLine(line) ==
  LET handled == Len(log[client]) IN
    /\ handled < Len(sent[client])
    /\ line = sent[client][handled + 1]
    /\ IF handled < fetched[client]
         THEN UNCHANGED fetched
         ELSE \E n \in (handled + 1)..Len(sent[client]) :
                fetched' = [fetched EXCEPT ![client] = n]

\* nextLine returns nothing: neither _buffer nor the kernel has a line.
NoLine ==
  /\ Len(log[client]) = Len(sent[client])
  /\ UNCHANGED fetched

\* Mutant: onNewData executes one line and returns.
ExecuteOne ==
  /\ pc = "serving"
  /\ \E line \in Line :
       /\ NextLine(line)
       /\ line.cmd # "exit"
       /\ \E o \in execute(sessions[current], line, loggedUsers) :
            /\ sessions' = [sessions EXCEPT ![current] = o.state]
            /\ log' = [log EXCEPT ![client] =
                         Append(@, [line |-> line, reply |-> o.reply])]
  /\ pc' = "sessions"
  /\ todo' = todo \ {current}
  /\ current' = None
  /\ UNCHANGED <<clientVars, kernelVars, ready>>

Execute ==
  /\ pc = "serving"
  /\ \E line \in Line :
       /\ NextLine(line)
       /\ line.cmd # "exit"
       /\ \E o \in execute(sessions[current], line, loggedUsers) :
            /\ sessions' = [sessions EXCEPT ![current] = o.state]
            /\ log' = [log EXCEPT ![client] =
                         Append(@, [line |-> line, reply |-> o.reply])]
  /\ UNCHANGED <<clientVars, kernelVars, loopVars>>

\* onNewData returns; the loop goes on with another session.
Return ==
  /\ pc' = "sessions"
  /\ todo' = todo \ {current}
  /\ current' = None

\* onNewData returned true: erase the session, whose destructor closes the
\* descriptor.
Erase ==
  /\ sessions' = Without(sessions, current)
  /\ owner' = Without(owner, current)

Exit ==
  /\ pc = "serving"
  /\ \E line \in Line : NextLine(line) /\ line.cmd = "exit"
  /\ Erase
  /\ Return
  /\ UNCHANGED <<clientVars, backlog, ready, log>>

\* No line is left, and the socket has no more data for now.
Drained ==
  /\ pc = "serving"
  /\ NoLine
  /\ peer[client] = "connected"
  /\ Return
  /\ UNCHANGED <<clientVars, kernelVars, sessions, ready, log>>

\* Mutant: the session is kept when the stream has ended.
ClosedIgnored ==
  /\ pc = "serving"
  /\ NoLine
  /\ peer[client] \in {"closed", "dead"}
  /\ Return
  /\ UNCHANGED <<clientVars, kernelVars, sessions, ready, log>>

\* No line is left, and read(2) found the end of the stream.
Closed ==
  /\ pc = "serving"
  /\ NoLine
  /\ peer[client] \in {"closed", "dead"}
  /\ Erase
  /\ Return
  /\ UNCHANGED <<clientVars, backlog, ready, log>>

\* read(2) reports the reset, once; checkForEvents catches the exception and
\* keeps the session.
ReadFails ==
  /\ pc = "serving"
  /\ NoLine
  /\ peer[client] = "reset"
  /\ peer' = [peer EXCEPT ![client] = "dead"]
  /\ Return
  /\ UNCHANGED <<sent, kernelVars, sessions, ready, log>>

onNewData == Execute \/ Exit \/ Drained \/ Closed \/ ReadFails

checkForEvents ==
  Select \/ Accept \/ AcceptFails \/ Visit \/ EndRound \/ onNewData

Next ==
  \/ checkForEvents
  \/ \E c \in Conn :
       \/ Connect(c)
       \/ \E line \in Input : Send(c, line)
       \/ Hangup(c)
       \/ Reset(c)

Spec == Init /\ [][Next]_vars

\* run() calls checkForEvents forever; clients may stop at any point.
FairSpec == Spec /\ WF_vars(checkForEvents)

-------------------------------------------------------------------------------
(* Properties *)

(***************************************************************************)
(* Every open descriptor has exactly the session of the connection behind  *)
(* it: no descriptor outlives its session, no session outlives its         *)
(* descriptor, no connection is served twice, and none is still waiting to *)
(* be accepted.  insert and erase in ServerManager, Session's move         *)
(* constructor and destructor.                                             *)
(***************************************************************************)
SessionPerSocket ==
  /\ DOMAIN sessions = DOMAIN owner
  /\ \A f, g \in DOMAIN owner : owner[f] = owner[g] => f = g
  /\ \A f \in DOMAIN owner : ~Waiting(owner[f])

(***************************************************************************)
(* onNewData is only called for a connection with something to read,       *)
(* although sessions come and go, and descriptors are used again, between  *)
(* select() and the call: fds never holds the bit of an earlier connection *)
(* on the same descriptor.                                                 *)
(***************************************************************************)
NoSpuriousCall ==
  pc = "sessions" => \A fd \in todo : fd \in DOMAIN owner /\ Readable(fd)

Phase(c) ==
  IF Open(c) THEN "open"
    ELSE IF peer[c] = "absent" \/ Waiting(c) THEN "absent" ELSE "closed"

(***************************************************************************)
(* Every line a client sends is executed, or its connection ends first (by *)
(* "exit"), whatever the other connections do, unless the server ends when *)
(* accept fails for want of a descriptor: the event loop forgets no        *)
(* session and onNewData leaves no line behind for which select() would    *)
(* not wake it.                                                            *)
(***************************************************************************)
EveryLineServed ==
  \A c \in Conn : \A n \in 1..MaxLines[c] :
    Len(sent[c]) >= n ~>
      Len(log[c]) >= n \/ Phase(c) = "closed" \/ pc = "terminated"

(***************************************************************************)
(* When a client is gone, by closing or by resetting the connection and at *)
(* any point of the dialogue, the server eventually gives up its session   *)
(* and descriptor, although a read error keeps the session at first.  Or   *)
(* the server has ended.                                                   *)
(***************************************************************************)
HangupsReaped ==
  \A c \in Conn :
    peer[c] \in {"closed", "reset", "dead"} ~>
      Phase(c) = "closed" \/ pc = "terminated"

SessionOf(c) ==
  IF Open(c) THEN sessions[CHOOSE fd \in DOMAIN owner : owner[fd] = c]
             ELSE NewState

GS == INSTANCE GrassService
        WITH phase <- [c \in Conn |-> Phase(c)],
             session <- [c \in Conn |-> SessionOf(c)]

(***************************************************************************)
(* The server is a set of independent login sessions, one per connection:  *)
(* no state passes from one connection to another, not even to the next    *)
(* one on the same descriptor, and w sees exactly the open connections.    *)
(***************************************************************************)
SessionsAreIndependent == GS!Spec
===============================================================================
