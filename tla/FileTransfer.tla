----------------------------- MODULE FileTransfer -----------------------------
(***************************************************************************)
(* The server's side of get and put: FileTransfer (src/filetransfer.cpp),  *)
(* as Session::executeGet and executePut use it, next to Session::         *)
(* executeRm.  The session's thread opens the file and a listening socket  *)
(* and answers with its port; a detached worker thread then accepts one    *)
(* data connection and moves the file.  Workers run concurrently with each *)
(* other and with the session thread, and share the directory tree and the *)
(* descriptor table of the process.                                        *)
(*                                                                         *)
(* A file is an inode with a sequence of blocks; a name leads to an inode, *)
(* and remove(3) takes the name away while open descriptors keep theirs.   *)
(* Block k of the data that the client of transfer t sends is <<t, k>>.    *)
(***************************************************************************)
EXTENDS Integers, Sequences, FiniteSets

CONSTANTS
  Transfer,  \* the transfers requested during the life of the server
  Path,      \* the names files can have; each has a file at the start
  MaxFds,    \* the descriptors the process has left for transfers
  MaxSize,   \* bound: the largest size in blocks, of a file or of a put
  None

ASSUME TransferAssumption == IsFiniteSet(Transfer)
ASSUME PathAssumption == Path \cap Transfer = {}
ASSUME NoneAssumption == None \notin Path \cup Transfer
ASSUME BoundAssumption == {MaxFds, MaxSize} \subseteq Nat

VARIABLES
  job,         \* what FileTransfer holds: kind, path, size; and its inode
  pc,          \* where each worker is
  open,        \* the descriptors in use: <<"file" | "listen" | "data", t>>
  dir,         \* the inode behind each name
  content,     \* the blocks of each inode
  moved,       \* blocks each worker has sent, or received and written
  client,      \* environment: what each transfer's client has done
  sent,        \* environment: blocks the client of a put has sent
  got,         \* environment: blocks the client of a get was sent
  last,        \* history: the put that opened each inode most recently
  overlapped   \* history: transfers that shared an inode with a writer

fileVars == <<dir, content>>
clientVars == <<client, sent>>
historyVars == <<last, overlapped>>
vars == <<job, pc, open, dir, content, moved, client, sent, got,
          last, overlapped>>

\* The inode of the file that is there at the start carries its name, the
\* inode that a put creates carries the transfer's.
Inode == Path \cup Transfer

Hole == <<None, 0>>

Block == {Hole} \cup {<<i, k>> : i \in Inode, k \in 1..(MaxSize + 1)}

Job == [kind : {"get", "put"}, path : Path, size : 0..(MaxSize + 1), inode : Inode]

ASSUME JobAssumption == None \notin Job

(***************************************************************************)
(* "none"       not requested           "refused"    run() failed          *)
(* "accepting"  in AcceptFromSocket     "sending"    in sendfile           *)
(* "receiving"  in the loop of a put    "closing"    about to close, ok    *)
(* "failing"    in the catch block      "removing"   file closed there     *)
(* "finishing"  behind the catch block  "done"       the thread has ended  *)
(***************************************************************************)
Locations == {"none", "refused", "accepting", "sending", "receiving",
              "closing", "failing", "removing", "finishing", "done"}

TypeOK ==
  /\ job \in [Transfer -> Job \cup {None}]
  /\ pc \in [Transfer -> Locations]
  /\ open \subseteq {"file", "listen", "data"} \X Transfer
  /\ Cardinality(open) <= MaxFds
  /\ dir \in [Path -> Inode \cup {None}]
  /\ content \in [Inode -> Seq(Block)]
  /\ moved \in [Transfer -> 0..(MaxSize + 1)]
  /\ client \in [Transfer -> {"absent", "connected", "closed"}]
  /\ sent \in [Transfer -> 0..(MaxSize + 1)]
  /\ got \in [Transfer -> Seq(Block)]
  /\ last \in [Inode -> Transfer \cup {None}]
  /\ overlapped \subseteq Transfer

Goto(t, location) == pc' = [pc EXCEPT ![t] = location]

-------------------------------------------------------------------------------
(* The session's thread *)

Init ==
  /\ job = [t \in Transfer |-> None]
  /\ pc = [t \in Transfer |-> "none"]
  /\ open = {}
  /\ dir = [p \in Path |-> p]
  /\ content = [i \in Inode |-> IF i \in Path
                                  THEN [k \in 1..MaxSize |-> <<i, k>>]
                                  ELSE << >>]
  /\ moved = [t \in Transfer |-> 0]
  /\ client = [t \in Transfer |-> "absent"]
  /\ sent = [t \in Transfer |-> 0]
  /\ got = [t \in Transfer |-> << >>]
  /\ last = [i \in Inode |-> None]
  /\ overlapped = {}

\* The transfers, of some kinds, that have inode i open.
Holding(i, kinds) ==
  {s \in Transfer : /\ <<"file", s>> \in open
                    /\ job[s].kind \in kinds
                    /\ job[s].inode = i}

Free == MaxFds - Cardinality(open)

\* Stat() does not throw.
Exists(p) == dir[p] # None

\* The FileTransfer constructor for get: the size is what fstat says now.
OpenForGet(t, p) ==
  LET i == dir[p] IN
    /\ Exists(p)
    /\ job' = [job EXCEPT ![t] = [kind |-> "get", path |-> p,
                                  size |-> Len(content[i]), inode |-> i]]
    /\ overlapped' = IF Holding(i, {"put"}) # {} THEN overlapped \cup {t}
                                                 ELSE overlapped
    /\ UNCHANGED <<fileVars, last>>

\* Mutant: the constructor for put does not keep the path.
OpenForPutNameless(t, p, size) ==
  LET i == IF dir[p] = None THEN t ELSE dir[p] IN
    /\ job' = [job EXCEPT ![t] = [kind |-> "put", path |-> None,
                                  size |-> size, inode |-> i]]
    /\ dir' = [dir EXCEPT ![p] = i]
    /\ content' = [content EXCEPT ![i] = << >>]
    /\ last' = [last EXCEPT ![i] = t]
    /\ overlapped' = overlapped \cup Holding(i, {"get", "put"})
                       \cup (IF Holding(i, {"put"}) # {} THEN {t} ELSE {})

\* The constructor for put: create the file, or truncate it whoever uses it.
OpenForPut(t, p, size) ==
  LET i == IF dir[p] = None THEN t ELSE dir[p] IN
    /\ job' = [job EXCEPT ![t] = [kind |-> "put", path |-> p,
                                  size |-> size, inode |-> i]]
    /\ dir' = [dir EXCEPT ![p] = i]
    /\ content' = [content EXCEPT ![i] = << >>]
    /\ last' = [last EXCEPT ![i] = t]
    /\ overlapped' = overlapped \cup Holding(i, {"get", "put"})
                       \cup (IF Holding(i, {"put"}) # {} THEN {t} ELSE {})

OpenFile(t, p) == OpenForGet(t, p) \/ \E n \in 1..MaxSize : OpenForPut(t, p, n)

\* run(): a listening socket, and a thread that works on it.
Start(t, p) ==
  /\ pc[t] = "none"
  /\ Free >= 2
  /\ OpenFile(t, p)
  /\ open' = open \cup {<<"file", t>>, <<"listen", t>>}
  /\ Goto(t, "accepting")
  /\ UNCHANGED <<moved, clientVars, got>>

\* run() throws: there is no descriptor for the socket, or it cannot be bound
\* and stays open.  The file is closed, and stays as the constructor left it.
StartFails(t, p) ==
  /\ pc[t] = "none"
  /\ Free >= 1
  /\ OpenFile(t, p)
  /\ open' \in {open} \cup (IF Free >= 2 THEN {open \cup {<<"listen", t>>}} ELSE {})
  /\ open' = open => Free = 1
  /\ Goto(t, "refused")
  /\ UNCHANGED <<moved, clientVars, got>>

\* Session::executeRm.
Rm(p) ==
  /\ Exists(p)
  /\ dir' = [dir EXCEPT ![p] = None]
  /\ UNCHANGED <<job, pc, open, content, moved, clientVars, got, historyVars>>

-------------------------------------------------------------------------------
(* The worker thread: transferWorker *)

Accept(t) ==
  /\ pc[t] = "accepting"
  /\ client[t] # "absent"
  /\ Free >= 1
  /\ open' = open \cup {<<"data", t>>}
  /\ Goto(t, IF job[t].kind = "get" THEN "sending" ELSE "receiving")
  /\ UNCHANGED <<job, fileVars, moved, clientVars, got, historyVars>>

AcceptFails(t) ==
  /\ pc[t] = "accepting"
  /\ Free = 0
  /\ Goto(t, "failing")
  /\ UNCHANGED <<job, open, fileVars, moved, clientVars, got, historyVars>>

\* sendfile sends the next block of the file as it is now.
SendBlock(t) ==
  /\ pc[t] = "sending"
  /\ client[t] = "connected"
  /\ moved[t] < job[t].size
  /\ moved[t] < Len(content[job[t].inode])
  /\ got' = [got EXCEPT ![t] = Append(@, content[job[t].inode][moved[t] + 1])]
  /\ moved' = [moved EXCEPT ![t] = @ + 1]
  /\ UNCHANGED <<job, pc, open, fileVars, clientVars, historyVars>>

\* Mutant: sendfile is asked for one block too few.
EndSendEarly(t) ==
  /\ pc[t] = "sending"
  /\ \/ moved[t] >= job[t].size - 1
     \/ client[t] = "closed"
  /\ Goto(t, "closing")
  /\ UNCHANGED <<job, open, fileVars, moved, clientVars, got, historyVars>>

\* sendfile returns: all is sent, the file ends here, or the client is gone;
\* the code does not ask which.
EndSend(t) ==
  /\ pc[t] = "sending"
  /\ \/ moved[t] >= job[t].size
     \/ moved[t] >= Len(content[job[t].inode])
     \/ client[t] = "closed"
  /\ Goto(t, "closing")
  /\ UNCHANGED <<job, open, fileVars, moved, clientVars, got, historyVars>>

\* n blocks of t written at its file offset; a gap reads as a hole.
Written(old, t, n) ==
  [k \in 1..(IF Len(old) > moved[t] + n THEN Len(old) ELSE moved[t] + n) |->
     IF k \in (moved[t] + 1)..(moved[t] + n) THEN <<t, k>>
       ELSE IF k <= Len(old) THEN old[k] ELSE Hole]

\* Mutant: a file that has grown to the size announced counts as too long.
ReceiveTooStrict(t) ==
  /\ pc[t] = "receiving"
  /\ \E n \in 1..(sent[t] - moved[t]) :
       /\ content' = [content EXCEPT ![job[t].inode] = Written(@, t, n)]
       /\ moved' = [moved EXCEPT ![t] = @ + n]
  /\ IF moved'[t] >= job[t].size THEN Goto(t, "failing") ELSE UNCHANGED pc
  /\ UNCHANGED <<job, open, dir, clientVars, got, historyVars>>

\* One turn of the loop: read, write, and check against the size announced.
Receive(t) ==
  /\ pc[t] = "receiving"
  /\ \E n \in 1..(sent[t] - moved[t]) :
       /\ content' = [content EXCEPT ![job[t].inode] = Written(@, t, n)]
       /\ moved' = [moved EXCEPT ![t] = @ + n]
  /\ IF moved'[t] > job[t].size THEN Goto(t, "failing") ELSE UNCHANGED pc
  /\ UNCHANGED <<job, open, dir, clientVars, got, historyVars>>

\* Mutant: an upload that was cut short is kept.
EndReceiveUnchecked(t) ==
  /\ pc[t] = "receiving"
  /\ client[t] = "closed"
  /\ moved[t] = sent[t]
  /\ Goto(t, "closing")
  /\ UNCHANGED <<job, open, fileVars, moved, clientVars, got, historyVars>>

\* read(2) returns 0, or an error: the loop ends either way.
EndReceive(t) ==
  /\ pc[t] = "receiving"
  /\ client[t] = "closed"
  /\ moved[t] = sent[t]
  /\ Goto(t, IF moved[t] < job[t].size THEN "failing" ELSE "closing")
  /\ UNCHANGED <<job, open, fileVars, moved, clientVars, got, historyVars>>

\* Mutant: the catch block forgets the file's descriptor.
CloseFileUnlessFailing(t) ==
  /\ pc[t] \in {"closing", "failing"}
  /\ open' = IF pc[t] = "closing" THEN open \ {<<"file", t>>} ELSE open
  /\ Goto(t, IF pc[t] = "closing" THEN "finishing" ELSE "removing")
  /\ UNCHANGED <<job, fileVars, moved, clientVars, got, historyVars>>

CloseFile(t) ==
  /\ pc[t] \in {"closing", "failing"}
  /\ open' = open \ {<<"file", t>>}
  /\ Goto(t, IF pc[t] = "closing" THEN "finishing" ELSE "removing")
  /\ UNCHANGED <<job, fileVars, moved, clientVars, got, historyVars>>

\* remove(filename): whatever has the name by now.
Remove(t) ==
  /\ pc[t] = "removing"
  /\ dir' = [dir EXCEPT ![job[t].path] = None]
  /\ Goto(t, "finishing")
  /\ UNCHANGED <<job, open, content, moved, clientVars, got, historyVars>>

\* The listening socket is closed; the data socket never is.
Finish(t) ==
  /\ pc[t] = "finishing"
  /\ open' = open \ {<<"listen", t>>}
  /\ Goto(t, "done")
  /\ UNCHANGED <<job, fileVars, moved, clientVars, got, historyVars>>

transferWorker(t) ==
  \/ Accept(t) \/ AcceptFails(t)
  \/ SendBlock(t) \/ EndSend(t)
  \/ Receive(t) \/ EndReceive(t)
  \/ CloseFile(t) \/ Remove(t) \/ Finish(t)

-------------------------------------------------------------------------------
(* The clients *)

\* To the port that run() returned, while the worker listens on it.
ClientConnect(t) ==
  /\ client[t] = "absent"
  /\ <<"listen", t>> \in open /\ pc[t] # "refused"
  /\ client' = [client EXCEPT ![t] = "connected"]
  /\ UNCHANGED <<job, pc, open, fileVars, moved, sent, got, historyVars>>

\* A client may send more than it announced, or less, before it closes.
ClientSend(t) ==
  /\ client[t] = "connected"
  /\ job[t].kind = "put"
  /\ sent[t] < MaxSize + 1
  /\ sent' = [sent EXCEPT ![t] = @ + 1]
  /\ UNCHANGED <<job, pc, open, fileVars, moved, client, got, historyVars>>

ClientClose(t) ==
  /\ client[t] = "connected"
  /\ client' = [client EXCEPT ![t] = "closed"]
  /\ UNCHANGED <<job, pc, open, fileVars, moved, sent, got, historyVars>>

Client(t) == ClientConnect(t) \/ ClientSend(t) \/ ClientClose(t)

Next ==
  \/ \E t \in Transfer, p \in Path : Start(t, p) \/ StartFails(t, p)
  \/ \E p \in Path : Rm(p)
  \/ \E t \in Transfer : transferWorker(t) \/ Client(t)

Spec == Init /\ [][Next]_vars

\* Every worker thread is scheduled; clients and sessions may stop.
FairSpec == Spec /\ \A t \in Transfer : WF_vars(transferWorker(t))

-------------------------------------------------------------------------------
(* Properties *)

Upload(t) == [k \in 1..job[t].size |-> <<t, k>>]

(***************************************************************************)
(* What a put leaves behind under a name is the whole upload, of exactly   *)
(* the size announced: one that was cut short or ran over is not visible   *)
(* once its worker is past the catch block.  Other workers and rm may work *)
(* on the same name meanwhile, only not write the same inode.              *)
(***************************************************************************)
VisibleUploadIsWhole ==
  \A p \in Path : \A t \in Transfer :
    /\ Exists(p) /\ last[dir[p]] = t
    /\ pc[t] \in {"finishing", "done"}
    /\ t \notin overlapped
    => content[dir[p]] = Upload(t)

(***************************************************************************)
(* The other direction: once a worker has its data connection, it takes    *)
(* the catch block, and with it the file's name, only if the client of a   *)
(* put has sent another number of bytes than it announced.  However the    *)
(* bytes arrive, an upload of just that size is kept, and no get removes   *)
(* the file it was to send.                                                *)
(***************************************************************************)
WholeUploadIsKept ==
  \A t \in Transfer :
    pc[t] \in {"failing", "removing"} /\ <<"data", t>> \in open =>
      job[t].kind = "put" /\ sent[t] # job[t].size

(***************************************************************************)
(* A client that keeps the connection of a get open is sent the file as it *)
(* is, and as much of it as the reply announced, unless a put wrote to the *)
(* file meanwhile, whatever happens to its name.                           *)
(***************************************************************************)
DownloadIsWhole ==
  \A t \in Transfer :
    /\ pc[t] = "closing" /\ job[t].kind = "get"
    /\ client[t] = "connected"
    /\ t \notin overlapped
    => got[t] = content[job[t].inode] /\ Len(got[t]) = job[t].size

(***************************************************************************)
(* Once the client of a transfer has closed its connection the worker runs *)
(* to its end and gives back the file and the listening socket, in every   *)
(* case: too few bytes, too many, a get that was interrupted, or no        *)
(* descriptor for the data connection.                                     *)
(***************************************************************************)
TransferEnds ==
  \A t \in Transfer :
    client[t] = "closed" ~>
      pc[t] = "done" /\ {<<"file", t>>, <<"listen", t>>} \cap open = {}

(***************************************************************************)
(* include/grass/filetransfer.h:24-25, of the worker thread: "This thread  *)
(* is responsible for closing the file descriptors".                       *)
(***************************************************************************)
DescriptorsClosed ==
  \A t \in Transfer :
    pc[t] = "done" => \A d \in open : d[2] # t
===============================================================================
