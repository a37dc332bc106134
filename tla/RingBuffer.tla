------------------------------ MODULE RingBuffer ------------------------------
(***************************************************************************)
(* The ring buffer through which the server (Session::onNewData) and the   *)
(* client (ClientManager::handleInput, handleOutput) read a connection one *)
(* line at a time: src/ring_buffer.cpp.                                    *)
(*                                                                         *)
(* Every caller drains the buffer in the same way: woken by select() it    *)
(* clears a local "closed" flag, calls nextLine until it returns nothing,  *)
(* and gives up the connection when the flag is set.  Each call of read(2) *)
(* is a step of its own, so the peer can write, close or reset the         *)
(* connection between any two of them.                                     *)
(***************************************************************************)
EXTENDS Integers, Sequences

CONSTANTS
  SIZE,     \* bytes in the array _buf (4096 in the code)
  Byte,     \* the values of a byte
  NL,       \* the newline byte '\n'
  Window,   \* bound: bytes the peer writes ahead of the lines returned to it
  MaxLine,  \* bound: bytes the peer writes between two newlines
  MaxSent   \* bound: bytes the peer writes on the connection

ASSUME SizeAssumption == SIZE \in Nat \ {0}
ASSUME ByteAssumption == NL \in Byte
ASSUME BoundAssumption == {Window, MaxLine, MaxSent} \subseteq Nat

VARIABLES
  buf,            \* _buf
  read_idx,       \* _read_idx
  write_idx,      \* _write_idx
  socket_closed,  \* the caller's flag, passed by reference to nextLine
  pc,             \* where the caller and nextLine are
  line,           \* the line returned last
  sent,           \* environment: every byte the peer has written
  nread,          \* environment: how many of them read(2) has returned
  peer,           \* environment: "open", "closed" or "reset"
  taken           \* history: bytes removed from the buffer by consume()

bufferVars == <<buf, read_idx, write_idx>>
streamVars == <<sent, nread, peer>>
vars == <<buf, read_idx, write_idx, socket_closed, pc, line,
          sent, nread, peer, taken>>

Indices == 0..(SIZE - 1)

(***************************************************************************)
(* "idle"       blocked in select()                                        *)
(* "calling"    about to call nextLine                                     *)
(* "receiving"  at the entry of receiveFromSocket                          *)
(* "scanning"   back in nextLine, about to search for a newline again      *)
(* "closed"     the caller gave up the connection                          *)
(***************************************************************************)
Locations == {"idle", "calling", "receiving", "scanning", "closed"}

TypeOK ==
  /\ buf \in [Indices -> Byte]
  /\ read_idx \in Indices
  /\ write_idx \in Indices
  /\ socket_closed \in BOOLEAN
  /\ pc \in Locations
  /\ line \in Seq(Byte)
  /\ sent \in Seq(Byte)
  /\ nread \in 0..Len(sent)
  /\ peer \in {"open", "closed", "reset"}
  /\ taken \in 0..nread

-------------------------------------------------------------------------------
(* The indices *)

\* How many bytes the two indices say are waiting to be consumed.
Used == (write_idx - read_idx) % SIZE

Full == read_idx = (write_idx + 1) % SIZE

\* The k-th waiting byte, counting from 0.
At(k) == buf[(read_idx + k) % SIZE]

\* k is what the loop of findNewline stops at.
FirstNewline(k) ==
  /\ k \in 0..(Used - 1)
  /\ At(k) = NL
  /\ \A j \in 0..(k - 1) : At(j) # NL

NoNewline == \A k \in 0..(Used - 1) : At(k) # NL

-------------------------------------------------------------------------------
(* The peer *)

Available == Len(sent) - nread

\* The peer ends the line before it grows past MaxLine bytes.
LineMayGrow ==
  \/ Len(sent) < MaxLine
  \/ \E i \in 1..Len(sent) : i > Len(sent) - MaxLine /\ sent[i] = NL

PeerSend(b) ==
  /\ peer = "open"
  /\ Len(sent) < MaxSent
  /\ Len(sent) - taken < Window
  /\ b = NL \/ LineMayGrow
  /\ sent' = Append(sent, b)
  /\ UNCHANGED <<bufferVars, socket_closed, pc, line, nread, peer, taken>>

\* An orderly shutdown, or a reset of the connection.
PeerLeave ==
  /\ peer = "open"
  /\ peer' \in {"closed", "reset"}
  /\ UNCHANGED <<bufferVars, socket_closed, pc, line, sent, nread, taken>>

-------------------------------------------------------------------------------
(* The caller and nextLine *)

Init ==
  /\ buf \in [Indices -> Byte]    \* the array is not initialised
  /\ read_idx = 0
  /\ write_idx = 0
  /\ socket_closed = FALSE
  /\ pc = "idle"
  /\ line = << >>
  /\ sent = << >>
  /\ nread = 0
  /\ peer = "open"
  /\ taken = 0

\* select() reports the descriptor readable: there are bytes, EOF or an error.
Wake ==
  /\ pc = "idle"
  /\ Available > 0 \/ peer # "open"
  /\ pc' = "calling"
  /\ socket_closed' = FALSE
  /\ UNCHANGED <<bufferVars, line, streamVars, taken>>

\* Mutants of consume(): the index is not taken modulo SIZE; the second part
\* of a wrapped line is not consumed; the newline is part of the line.
ConsumeUnwrapped(k) ==
  /\ line' = [i \in 1..k |-> At(i - 1)]
  /\ read_idx' = read_idx + k + 1
  /\ taken' = taken + k + 1

ConsumeFirstPart(k) ==
  /\ line' = [i \in 1..k |-> At(i - 1)]
  /\ read_idx' = IF read_idx + k >= SIZE THEN 0 ELSE (read_idx + k + 1) % SIZE
  /\ taken' = taken + k + 1

ConsumeNewline(k) ==
  /\ line' = [i \in 1..(k + 1) |-> At(i - 1)]
  /\ read_idx' = (read_idx + k + 1) % SIZE
  /\ taken' = taken + k + 1

\* consume(): copy the bytes before the newline out, skip the newline.
Consume(k) ==
  /\ line' = [i \in 1..k |-> At(i - 1)]
  /\ read_idx' = (read_idx + k + 1) % SIZE
  /\ taken' = taken + k + 1

\* Mutants of the callers' loop: it ends as soon as the flag is set; it
\* handles one line each time select() wakes it.
ReturnLastLine ==
  /\ pc \in {"calling", "scanning"}
  /\ \E k \in 0..(Used - 1) : FirstNewline(k) /\ Consume(k)
  /\ pc' = IF socket_closed THEN "closed" ELSE "calling"
  /\ UNCHANGED <<buf, write_idx, socket_closed, streamVars>>

ReturnOneLine ==
  /\ pc \in {"calling", "scanning"}
  /\ \E k \in 0..(Used - 1) : FirstNewline(k) /\ Consume(k)
  /\ pc' = "idle"
  /\ UNCHANGED <<buf, write_idx, socket_closed, streamVars>>

\* nextLine finds a newline, before or after it has received; the caller
\* handles the line and calls again.
ReturnLine ==
  /\ pc \in {"calling", "scanning"}
  /\ \E k \in 0..(Used - 1) : FirstNewline(k) /\ Consume(k)
  /\ pc' = "calling"
  /\ UNCHANGED <<buf, write_idx, socket_closed, streamVars>>

BeginReceive ==
  /\ pc = "calling"
  /\ NoNewline
  /\ pc' = "receiving"
  /\ UNCHANGED <<bufferVars, socket_closed, line, streamVars, taken>>

\* nextLine returns nothing; the caller leaves its loop.
ReturnNothing ==
  /\ pc = "scanning"
  /\ NoNewline
  /\ pc' = IF socket_closed THEN "closed" ELSE "idle"
  /\ UNCHANGED <<bufferVars, socket_closed, line, streamVars, taken>>

-------------------------------------------------------------------------------
(* receiveFromSocket *)

\* A full buffer: return at once, the flag keeps its value.
ReceiveFull ==
  /\ pc = "receiving"
  /\ Full
  /\ pc' = "scanning"
  /\ UNCHANGED <<bufferVars, socket_closed, line, streamVars, taken>>

\* read(2) stores k bytes from write_idx on.
Store(k) ==
  /\ k <= Available
  /\ buf' = [i \in Indices |->
               IF i \in write_idx..(write_idx + k - 1)
                 THEN sent[nread + 1 + (i - write_idx)]
                 ELSE buf[i]]
  /\ nread' = nread + k
  /\ socket_closed' = FALSE
  /\ UNCHANGED <<read_idx, line, sent, peer, taken>>

\* The free space does not wrap: one read, up to one byte before read_idx.
ReceiveStraight ==
  /\ pc = "receiving"
  /\ ~Full
  /\ write_idx < read_idx
  /\ \E k \in 1..(read_idx - write_idx - 1) :
       /\ Store(k)
       /\ write_idx' = write_idx + k
  /\ pc' = "scanning"

\* The free space wraps: read up to the end of the array and, when the read
\* returned all it was asked for, call receiveFromSocket again.
ReceiveWrapping ==
  /\ pc = "receiving"
  /\ ~Full
  /\ write_idx >= read_idx
  /\ \E k \in 1..(SIZE - write_idx) :
       /\ Store(k)
       /\ write_idx' = (write_idx + k) % SIZE
       /\ pc' = IF k = SIZE - write_idx THEN "receiving" ELSE "scanning"

\* Mutant: end of file is taken for EAGAIN.
ReceiveNoEof ==
  /\ pc = "receiving"
  /\ ~Full
  /\ Available = 0
  /\ socket_closed' = FALSE
  /\ pc' = IF peer = "reset" THEN "idle" ELSE "scanning"
  /\ peer' = IF peer = "reset" THEN "closed" ELSE peer
  /\ UNCHANGED <<bufferVars, line, sent, nread, taken>>

\* read(2) has no bytes to return: EAGAIN, end of file, or a reset, for which
\* receiveFromSocket throws and the caller's loop ends.  The kernel reports a
\* reset once; later reads see end of file.
ReceiveNoData ==
  /\ pc = "receiving"
  /\ ~Full
  /\ Available = 0
  /\ socket_closed' = (peer = "closed")
  /\ pc' = IF peer = "reset" THEN "idle" ELSE "scanning"
  /\ peer' = IF peer = "reset" THEN "closed" ELSE peer
  /\ UNCHANGED <<bufferVars, line, sent, nread, taken>>

Reader ==
  \/ Wake
  \/ ReturnLine
  \/ BeginReceive
  \/ ReturnNothing
  \/ ReceiveFull
  \/ ReceiveStraight
  \/ ReceiveWrapping
  \/ ReceiveNoData

Next ==
  \/ Reader
  \/ PeerLeave
  \/ \E b \in Byte : PeerSend(b)

Spec == Init /\ [][Next]_vars

\* The reading thread is scheduled and select() wakes it; the peer may stop.
FairSpec == Spec /\ WF_vars(Reader)

-------------------------------------------------------------------------------
(* Properties *)

(***************************************************************************)
(* The bytes between the two indices are exactly the bytes received and    *)
(* not yet returned, in the order the peer wrote them.                     *)
(***************************************************************************)
UnreadIntact ==
  /\ Used = nread - taken
  /\ \A k \in 0..(Used - 1) : At(k) = sent[taken + k + 1]

(***************************************************************************)
(* No byte is lost, duplicated, reordered or overwritten by receiving and  *)
(* consuming around the end of the array, as long as fewer than SIZE bytes *)
(* are in the buffer: receiveFromSocket and consume, whatever sizes read   *)
(* returns.                                                                *)
(***************************************************************************)
LossOnlyByOverrun == nread - taken < SIZE => UnreadIntact

(***************************************************************************)
(* include/grass/ring_buffer.h:42-44: "The amount of data in the buffer at *)
(* any time will be at most 1 byte less than this" (than SIZE).            *)
(***************************************************************************)
AtMostOneLess == nread - taken <= SIZE - 1

(***************************************************************************)
(* A connection is given up only once every complete line the peer wrote   *)
(* before it left has been returned to the caller: the flag set by         *)
(* receiveFromSocket never overtakes data still waiting in the buffer.     *)
(***************************************************************************)
NoLineDropped ==
  pc = "closed" => \A i \in (taken + 1)..Len(sent) : sent[i] # NL

(***************************************************************************)
(* Every complete line is eventually returned by nextLine, although a      *)
(* single read may return any part of a line or several lines.             *)
(***************************************************************************)
EveryLineReturned ==
  \A n \in 1..MaxSent :
    (n <= Len(sent) /\ sent[n] = NL) ~> taken >= n

(***************************************************************************)
(* include/grass/ring_buffer.h:35-36: nextLine "Sets socket_closed to true *)
(* if the other side has closed the socket", upon which every caller gives *)
(* the connection up.                                                      *)
(***************************************************************************)
CloseNoticed == peer # "open" ~> pc = "closed"

LR == INSTANCE LineReader

(***************************************************************************)
(* Seen from its callers the buffer is the byte stream itself: the lines   *)
(* nextLine returns are the lines of the stream, each once and in order.   *)
(***************************************************************************)
LinesOfTheStream == LR!Spec
===============================================================================
