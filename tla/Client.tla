-------------------------------- MODULE Client --------------------------------
(***************************************************************************)
(* The GRASS client (src/client_manager.cpp) in dialogue with the service: *)
(* the event loop over stdin and the socket, the requests it makes of the  *)
(* lines it is given, and what it does with the replies.  Requests and     *)
(* replies are matched by position only: the client queues a file name     *)
(* when it sends a get or a put, and takes one out when a reply looks like *)
(* the answer to one.                                                      *)
(*                                                                         *)
(* The service is GrassService for this one connection.  What its log has  *)
(* beyond what the client has handled is waiting in the client's socket.   *)
(***************************************************************************)
EXTENDS Commands, Sequences, FiniteSets

CONSTANTS
  me,        \* the connection
  Input,     \* bound: the lines given to the client
  MaxLines,  \* bound: how many of them
  MaxTyped   \* bound: how many of them to an interactive client

(***************************************************************************)
(* A path is the sequence of its components.  A line given to the client   *)
(* may be indented: the service does not care, the client's comparison     *)
(* with "get" and "put" fails, and so does the service's error text.       *)
(***************************************************************************)
InputLine == [indented : BOOLEAN, line : Line]

Transfers == {"get", "put"}

Path == {p \in Text : p \in Seq(Text) \ {<< >>}}

FileName == {p \in Path : Len(p) = 1}

ASSUME InputAssumption ==
  \A i \in Input :
    /\ i \in InputLine
    /\ i.line.cmd \in Transfers => i.line.arg \in Path \cup {None}
ASSUME NamesAssumption == \A p \in Path : <<p[Len(p)]>> \in Path
ASSUME BoundAssumption == MaxLines \in Nat /\ MaxTyped \in 0..MaxLines

VARIABLES
  sent, phase, session, log,  \* the service: see GrassService
  indented,          \* the numbers of the sent lines that were indented
  socket,            \* the socket, as far as the client can tell
  interactive,       \* _interactive
  typed,             \* environment: the lines given on stdin
  eof,               \* environment: nothing follows them
  pc,                \* where the client is
  handled,           \* how many of typed it has handled
  shown,             \* how many replies it has handled
  input_closed,
  files_to_receive,  \* _files_to_receive, oldest first
  files_to_send,     \* _files_to_send, oldest first
  transfers          \* history: the transfers started, and by which reply

Service == INSTANCE GrassService
             WITH Conn <- {me},
                  Input <- {i.line : i \in Input},
                  MaxLines <- [c \in {me} |-> MaxLines]

serviceVars == <<sent, phase, session, log>>
userVars == <<interactive, typed, eof>>
outputVars == <<shown, transfers>>
queueVars == <<files_to_receive, files_to_send>>
vars == <<serviceVars, indented, socket, userVars, pc, handled, outputVars,
          input_closed, queueVars>>

requests == sent[me]
replies == log[me]

(***************************************************************************)
(* "select"     at the head of run()'s loop     "left"  run() has returned *)
(* "input"      in the loop of handleInput                                 *)
(* "output"     in the loop of handleOutput                                *)
(* "killed"     by SIGPIPE                                                 *)
(* "crashed"    an exception left run(), and main with it                  *)
(* "undefined"  front() of an empty queue was used                         *)
(***************************************************************************)
Ended == {"left", "killed", "crashed", "undefined"}

TypeOK ==
  /\ Service!TypeOK
  /\ indented \subseteq 1..MaxLines
  /\ socket \in {"open", "closed", "reset"}
  /\ interactive \in BOOLEAN
  /\ typed \in Seq(Input)
  /\ eof \in BOOLEAN
  /\ pc \in {"select", "input", "output"} \cup Ended
  /\ handled \in 0..Len(typed)
  /\ shown \in 0..Len(replies)
  /\ input_closed \in BOOLEAN
  /\ files_to_receive \in Seq(FileName)
  /\ files_to_send \in Seq(Path)
  /\ \A t \in DOMAIN transfers : transfers[t].reply \in 1..shown

-------------------------------------------------------------------------------
(* The user and the service *)

\* Interactive, or with the whole input in a file.
Init ==
  /\ Service!Init
  /\ indented = {}
  /\ socket = "open"
  /\ \/ interactive = TRUE /\ typed = << >> /\ eof = FALSE
     \/ /\ interactive = FALSE /\ eof = TRUE
        /\ typed \in UNION {[1..n -> Input] : n \in 0..MaxLines}
  /\ pc = "select"
  /\ handled = 0
  /\ shown = 0
  /\ input_closed = FALSE
  /\ files_to_receive = << >>
  /\ files_to_send = << >>
  /\ transfers = << >>

Type(i) ==
  /\ ~eof
  /\ Len(typed) < MaxTyped
  /\ typed' = Append(typed, i)
  /\ UNCHANGED <<serviceVars, indented, socket, interactive, eof, pc, handled,
                 outputVars, input_closed, queueVars>>

EndInput ==
  /\ ~eof
  /\ eof' = TRUE
  /\ UNCHANGED <<serviceVars, indented, socket, interactive, typed, pc, handled,
                 outputVars, input_closed, queueVars>>

ServiceRuns ==
  /\ Service!Open(me) \/ Service!Serve(me)
  /\ UNCHANGED <<indented, socket, userVars, pc, handled, outputVars,
                 input_closed, queueVars>>

\* For "exit", or at any time because the server has ended.  Lines that the
\* server has not read make its kernel reset the connection.
ServiceCloses ==
  /\ Service!Close(me)
  /\ socket' \in IF Len(replies) = Len(requests) THEN {"closed"}
                                                 ELSE {"closed", "reset"}
  /\ UNCHANGED <<indented, userVars, pc, handled, outputVars, input_closed,
                 queueVars>>

-------------------------------------------------------------------------------
(* run() *)

\* Mutant: stdin is asked about when it has ended, too.
InputReadyAlways == handled < Len(typed) \/ eof

InputReady == ~input_closed /\ (handled < Len(typed) \/ eof)

OutputReady == shown < Len(replies) \/ socket # "open"

\* The end of a round: the loop's condition.
Proceed(inputClosed, connectionClosed) ==
  pc' = IF connectionClosed \/ (interactive /\ inputClosed) THEN "left"
                                                            ELSE "select"

\* select() finds stdin ready, which comes first; IsClosed(0) ends the input.
SelectInput ==
  /\ pc = "select"
  /\ InputReady
  /\ input_closed' = (handled = Len(typed))
  /\ IF handled = Len(typed) THEN Proceed(TRUE, FALSE) ELSE pc' = "input"
  /\ UNCHANGED <<serviceVars, indented, socket, userVars, handled, outputVars,
                 queueVars>>

\* Mutant: the end of the stream counts before the bytes in front of it.
SelectOutputEager ==
  /\ pc = "select"
  /\ ~InputReady
  /\ OutputReady
  /\ IF socket # "open" THEN Proceed(input_closed, TRUE) ELSE pc' = "output"
  /\ UNCHANGED <<serviceVars, indented, socket, userVars, handled, outputVars,
                 input_closed, queueVars>>

\* Only the socket is ready; IsClosed(_socket) counts the bytes in it.
SelectOutput ==
  /\ pc = "select"
  /\ ~InputReady
  /\ OutputReady
  /\ IF shown = Len(replies) THEN Proceed(input_closed, TRUE) ELSE pc' = "output"
  /\ UNCHANGED <<serviceVars, indented, socket, userVars, handled, outputVars,
                 input_closed, queueVars>>

-------------------------------------------------------------------------------
(* handleInput *)

\* write(2) of a line.  After the server's close the first one is answered
\* with a reset, sooner or later; after the reset a write raises SIGPIPE.
Write(i) ==
  IF socket = "reset"
    THEN pc' = "killed" /\ UNCHANGED <<serviceVars, indented, socket>>
    ELSE /\ sent' = [sent EXCEPT ![me] = Append(@, i.line)]
         /\ indented' = IF i.indented THEN indented \cup {Len(requests) + 1}
                                      ELSE indented
         /\ socket' \in IF socket = "open" THEN {"open"} ELSE {"closed", "reset"}
         /\ UNCHANGED <<phase, session, log, pc>>

\* Files are saved in the directory the client was started in.
ExtractFilename(path) == <<path[Len(path)]>>

\* Mutant: the path on the server is kept.
sendGetRequestPath(i) ==
  /\ i.line.arg # None
  /\ files_to_receive' = Append(files_to_receive, i.line.arg)
  /\ Write(i)
  /\ UNCHANGED files_to_send

sendGetRequest(i) ==
  /\ i.line.arg # None
  /\ files_to_receive' = Append(files_to_receive, ExtractFilename(i.line.arg))
  /\ Write(i)
  /\ UNCHANGED files_to_send

sendPutRequest(i) ==
  /\ i.line.arg # None
  /\ files_to_send' = Append(files_to_send, i.line.arg)
  /\ Write(i)
  /\ UNCHANGED files_to_receive

\* No argument; or a put without a size, or not of a regular file.
refuseRequest(i) ==
  /\ i.line.cmd = "put" \/ i.line.arg = None
  /\ UNCHANGED <<serviceVars, indented, socket, pc, queueVars>>

HandleInput ==
  /\ pc = "input"
  /\ handled < Len(typed)
  /\ LET i == typed[handled + 1] IN
       \/ /\ i.line.cmd = "get" /\ ~i.indented
          /\ sendGetRequest(i) \/ refuseRequest(i)
       \/ /\ i.line.cmd = "put" /\ ~i.indented
          /\ sendPutRequest(i) \/ refuseRequest(i)
       \/ /\ i.line.cmd \notin Transfers \/ i.indented
          /\ Write(i)
          /\ UNCHANGED queueVars
  /\ handled' = handled + 1
  /\ UNCHANGED <<userVars, outputVars, input_closed>>

\* nextLine returns no more lines, and says whether stdin has ended.
HandleInputReturns ==
  /\ pc = "input"
  /\ handled = Len(typed)
  /\ input_closed' = eof
  /\ Proceed(eof, FALSE)
  /\ UNCHANGED <<serviceVars, indented, socket, userVars, handled, outputVars,
                 queueVars>>

-------------------------------------------------------------------------------
(* handleOutput *)

\* What the client tells a reply by: "get port: ...", "Error: get...", others.
IsPort(n, cmd) == requests[n].cmd = cmd /\ replies[n].reply.text = "output"

IsError(n, cmd) ==
  /\ requests[n].cmd = cmd /\ n \notin indented
  /\ replies[n].reply.text \in {"failed", "Access denied"}

\* Opening the local file may fail, when its name is out of the queue.
Start(n, file) ==
  \/ transfers' = Append(transfers, [reply |-> n, file |-> file])
  \/ UNCHANGED transfers

receiveFile(n) ==
  IF files_to_receive = << >>
    THEN pc' = "undefined" /\ UNCHANGED <<queueVars, transfers>>
    ELSE /\ Start(n, Head(files_to_receive))
         /\ files_to_receive' = Tail(files_to_receive)
         /\ UNCHANGED <<pc, files_to_send>>

sendFile(n) ==
  IF files_to_send = << >>
    THEN pc' = "undefined" /\ UNCHANGED <<queueVars, transfers>>
    ELSE /\ Start(n, Head(files_to_send))
         /\ files_to_send' = Tail(files_to_send)
         /\ UNCHANGED <<pc, files_to_receive>>

\* Mutant: an error leaves the name in the queue.
keepFileToReceive ==
  IF files_to_receive = << >>
    THEN pc' = "undefined" /\ UNCHANGED queueVars
    ELSE UNCHANGED <<pc, queueVars>>

dropFileToReceive ==
  IF files_to_receive = << >>
    THEN pc' = "undefined" /\ UNCHANGED queueVars
    ELSE /\ files_to_receive' = Tail(files_to_receive)
         /\ UNCHANGED <<pc, files_to_send>>

dropFileToSend ==
  IF files_to_send = << >>
    THEN pc' = "undefined" /\ UNCHANGED queueVars
    ELSE /\ files_to_send' = Tail(files_to_send)
         /\ UNCHANGED <<pc, files_to_receive>>

\* A reply "exit" sets the flag closed, which the next call of nextLine
\* overwrites: it is a reply like any other.
HandleOutput ==
  /\ pc = "output"
  /\ shown < Len(replies)
  /\ LET n == shown + 1 IN
       \/ IsPort(n, "get") /\ receiveFile(n)
       \/ IsPort(n, "put") /\ sendFile(n)
       \/ IsError(n, "get") /\ dropFileToReceive /\ UNCHANGED transfers
       \/ IsError(n, "put") /\ dropFileToSend /\ UNCHANGED transfers
       \/ /\ \A cmd \in Transfers : ~IsPort(n, cmd) /\ ~IsError(n, cmd)
          /\ UNCHANGED <<pc, queueVars, transfers>>
  /\ shown' = shown + 1
  /\ UNCHANGED <<serviceVars, indented, socket, userVars, handled, input_closed>>

\* No reply is left.  A reset makes read(2) fail, and nothing catches the
\* exception of nextLine.
HandleOutputReturns ==
  /\ pc = "output"
  /\ shown = Len(replies)
  /\ IF socket = "reset" THEN pc' = "crashed"
                         ELSE Proceed(input_closed, socket = "closed")
  /\ UNCHANGED <<serviceVars, indented, socket, userVars, handled, outputVars,
                 input_closed, queueVars>>

run ==
  \/ SelectInput \/ HandleInput \/ HandleInputReturns
  \/ SelectOutput \/ HandleOutput \/ HandleOutputReturns

Next ==
  \/ \E i \in Input : Type(i)
  \/ EndInput
  \/ ServiceRuns
  \/ ServiceCloses
  \/ run

Spec == Init /\ [][Next]_vars

\* The client's loop goes on; neither user nor server need to.
FairSpec == Spec /\ WF_vars(run)

-------------------------------------------------------------------------------
(* Properties *)

\* The numbers of the requests of one kind that the client has had no reply to.
Outstanding(cmd) == {n \in (shown + 1)..Len(requests) : requests[n].cmd = cmd}

\* The file that a request is about, on the client's side.
FileOf(line) ==
  IF line.cmd = "get" THEN ExtractFilename(line.arg) ELSE line.arg

\* The queue has the file of each of them, in the order of the requests.
Matches(queue, cmd) ==
  \E number \in [DOMAIN queue -> Outstanding(cmd)] :
    /\ \A j, k \in DOMAIN queue : j < k => number[j] < number[k]
    /\ \A n \in Outstanding(cmd) : \E k \in DOMAIN queue : number[k] = n
    /\ \A k \in DOMAIN queue : queue[k] = FileOf(requests[number[k]])

(***************************************************************************)
(* src/client_manager.cpp:203, of sendGetRequest: "Save the filename we       *)
(* requested for later".  Each transfer uses the file of the request that  *)
(* the server's reply answers.                                             *)
(***************************************************************************)
RightFile ==
  \A t \in DOMAIN transfers :
    transfers[t].file = FileOf(requests[transfers[t].reply])

\* No transfer was asked for behind the client's back, by an indented line,
\* or used up as the interruption of a login.
Orderly ==
  /\ \A n \in indented : requests[n].cmd \notin Transfers
  /\ \A n \in DOMAIN replies :
       requests[n].cmd \in Transfers => replies[n].reply.text # "Login interrupted"

(***************************************************************************)
(* The queues hold exactly the files of the requests that have not been    *)
(* answered, in the order of the requests, however many are under way and  *)
(* whichever of them fail; so each transfer uses the right file, and no    *)
(* queue is empty when a name is needed.  Only an interrupted login or an  *)
(* indented request can break this.                                        *)
(***************************************************************************)
QueuesMatchRequests ==
  Orderly /\ pc # "killed" =>
    /\ Matches(files_to_receive, "get")
    /\ Matches(files_to_send, "put")
    /\ RightFile
    /\ pc # "undefined"

(***************************************************************************)
(* What a client can leave behind.  Replies it has not handled: only when  *)
(* it is interactive and its input has ended.  Input it has not handled:   *)
(* only when it is interactive and the connection has closed, what the     *)
(* user typed since the last select().  Otherwise it takes neither the end *)
(* of the stream for the end of the replies nor pending input for less     *)
(* urgent.                                                                 *)
(***************************************************************************)
LeavesNothingBehind ==
  pc = "left" =>
    /\ \/ interactive /\ input_closed
       \/ socket # "open" /\ shown = Len(replies)
    /\ \/ interactive /\ ~input_closed
       \/ handled = Len(typed)

(***************************************************************************)
(* The client ends when the server closes the connection and, if it is     *)
(* interactive, when its input ends, whichever of stdin and the socket is  *)
(* ready at the same time.                                                 *)
(***************************************************************************)
ClientEnds ==
  /\ socket # "open" ~> pc \in Ended
  /\ interactive /\ eof ~> pc \in Ended
===============================================================================
