------------------------------ MODULE LineReader ------------------------------
(***************************************************************************)
(* What grass::RingBuffer promises to its callers (include/grass/          *)
(* ring_buffer.h): the byte stream of a connection, one line at a time.    *)
(* The peer's bytes form one growing sequence; each call of nextLine that  *)
(* returns a line returns exactly the bytes up to the next newline, and    *)
(* the following call starts right behind that newline.  There is no       *)
(* buffer here: RingBuffer is the implementation, and implements this      *)
(* specification under the identity refinement mapping.                    *)
(***************************************************************************)
EXTENDS Integers, Sequences

CONSTANTS
  Byte,   \* the values of a byte
  NL      \* the newline byte '\n'

VARIABLES
  sent,   \* every byte the peer has written so far
  taken,  \* how many of them the lines returned so far account for
  line    \* the line returned last

vars == <<sent, taken, line>>

Init ==
  /\ sent = << >>
  /\ taken = 0
  /\ line = << >>

PeerSend(b) ==
  /\ sent' = Append(sent, b)
  /\ UNCHANGED <<taken, line>>

\* The bytes behind the last newline returned, up to the next newline.
ReturnLine ==
  \E end \in (taken + 1)..Len(sent) :
    /\ sent[end] = NL
    /\ \A i \in (taken + 1)..(end - 1) : sent[i] # NL
    /\ line' = SubSeq(sent, taken + 1, end - 1)
    /\ taken' = end
    /\ UNCHANGED sent

Next == ReturnLine \/ \E b \in Byte : PeerSend(b)

Spec == Init /\ [][Next]_vars
===============================================================================
