--------------------------- MODULE RingBufferProofs ---------------------------
(* Theorems about RingBuffer, for every size of the array and every bound. *)
EXTENDS RingBuffer, SequenceTheorems, TLAPS

-------------------------------------------------------------------------------
(* Arithmetic of the indices *)

(* Reducing a sum of two indices modulo SIZE subtracts SIZE at most once. *)
LEMMA Wrap ==
  ASSUME NEW a \in 0..(2 * SIZE - 1)
  PROVE  a % SIZE = IF a < SIZE THEN a ELSE a - SIZE
<1>1. CASE a < SIZE  BY <1>1, SizeAssumption, SMT
<1>2. CASE ~(a < SIZE)  BY <1>2, SizeAssumption, SMT
<1>3. QED  BY <1>1, <1>2

(* What Used and Full compute, without the modulus. *)
LEMMA IndexArithmetic ==
  ASSUME read_idx \in Indices, write_idx \in Indices
  PROVE  /\ Used = IF read_idx <= write_idx
                     THEN write_idx - read_idx
                     ELSE write_idx - read_idx + SIZE
         /\ Used \in 0..(SIZE - 1)
         /\ Full <=> Used = SIZE - 1
<1>. USE SizeAssumption DEF Indices
<1>1. CASE read_idx <= write_idx
  <2>1. Used = write_idx - read_idx  BY <1>1, SMT DEF Used
  <2>2. (write_idx + 1) % SIZE
          = IF write_idx + 1 < SIZE THEN write_idx + 1 ELSE 0
    BY Wrap, SMT
  <2>3. QED  BY <1>1, <2>1, <2>2, SMT DEF Full
<1>2. CASE ~(read_idx <= write_idx)
  <2>1. Used = write_idx - read_idx + SIZE  BY <1>2, SMT DEF Used
  <2>2. (write_idx + 1) % SIZE = write_idx + 1  BY <1>2, SMT
  <2>3. QED  BY <1>2, <2>1, <2>2, SMT DEF Full
<1>3. QED  BY <1>1, <1>2

(* The position in the array of the k-th waiting byte. *)
LEMMA Position ==
  ASSUME read_idx \in Indices, NEW k \in 0..(SIZE - 1)
  PROVE  /\ (read_idx + k) % SIZE \in Indices
         /\ (read_idx + k) % SIZE = IF read_idx + k < SIZE
                                      THEN read_idx + k
                                      ELSE read_idx + k - SIZE
<1>1. read_idx + k \in 0..(2 * SIZE - 1)  BY SizeAssumption, SMT DEF Indices
<1>2. QED  BY <1>1, Wrap, SizeAssumption, SMT DEF Indices

-------------------------------------------------------------------------------
(* Type correctness *)

(* The indices stay inside the array, no read returns more bytes than the  *)
(* peer wrote, and consume() never takes bytes that were not received.     *)
(* taken <= nread needs that the indices never claim more than was read.   *)
ClaimedBytesExist == Used <= nread - taken

LEMMA TypeStep ==
  ASSUME TypeOK, ClaimedBytesExist, [Next]_vars
  PROVE  TypeOK'
<1>. USE SizeAssumption, ByteAssumption
<1>1. CASE Wake  BY <1>1 DEF Wake, TypeOK, Locations, bufferVars, streamVars
<1>2. CASE ReturnLine
  <2>1. PICK k \in 0..(Used - 1) : Consume(k)
    BY <1>2, SMT DEF ReturnLine
  <2>2. k \in 0..(SIZE - 2) /\ Used \in 0..(SIZE - 1)
    BY IndexArithmetic, SMT DEF TypeOK
  <2>3. \A i \in 1..k : At(i - 1) \in Byte
    BY <2>2, Position, SMT DEF At, TypeOK
  <2>4. line' \in Seq(Byte)
    BY <2>1, <2>2, <2>3, SMT DEF Consume
  <2>5. read_idx' \in Indices
    BY <2>1, <2>2, Position, SMT DEF Consume, TypeOK, Indices
  <2>6. taken' \in 0..nread
    BY <2>1, <2>2, SMT DEF Consume, TypeOK, ClaimedBytesExist
  <2>7. QED
    BY <1>2, <2>4, <2>5, <2>6, SMT DEF ReturnLine, TypeOK, Locations, streamVars
<1>3. CASE BeginReceive
  BY <1>3 DEF BeginReceive, TypeOK, Locations, bufferVars, streamVars
<1>4. CASE ReturnNothing
  BY <1>4 DEF ReturnNothing, TypeOK, Locations, bufferVars, streamVars
<1>5. CASE ReceiveFull
  BY <1>5 DEF ReceiveFull, TypeOK, Locations, bufferVars, streamVars
<1>6. ASSUME NEW k \in Nat, Store(k), write_idx + k <= SIZE
      PROVE  /\ buf' \in [Indices -> Byte]
             /\ nread' \in 0..Len(sent)
             /\ taken' \in 0..nread'
             /\ socket_closed' = FALSE
             /\ UNCHANGED <<read_idx, line, sent, peer>>
  <2>1. \A i \in write_idx..(write_idx + k - 1) :
           sent[nread + 1 + (i - write_idx)] \in Byte
    BY <1>6, SMT DEF Store, Available, TypeOK, Indices
  <2>2. QED  BY <1>6, <2>1, SMT DEF Store, Available, TypeOK, Indices
<1>7. CASE ReceiveStraight
  <2>1. PICK k \in 1..(read_idx - write_idx - 1) :
          Store(k) /\ write_idx' = write_idx + k
    BY <1>7 DEF ReceiveStraight
  <2>2. k \in Nat /\ write_idx + k <= SIZE /\ write_idx' \in Indices
    BY <2>1, SMT DEF TypeOK, Indices
  <2>3. /\ buf' \in [Indices -> Byte]
        /\ nread' \in 0..Len(sent)
        /\ taken' \in 0..nread'
        /\ socket_closed' = FALSE
        /\ UNCHANGED <<read_idx, line, sent, peer>>
    BY <1>6, <2>1, <2>2
  <2>4. pc' \in Locations  BY <1>7 DEF ReceiveStraight, Locations
  <2>5. QED  BY <2>2, <2>3, <2>4 DEF TypeOK
<1>8. CASE ReceiveWrapping
  <2>1. PICK k \in 1..(SIZE - write_idx) :
          /\ Store(k)
          /\ write_idx' = (write_idx + k) % SIZE
          /\ pc' = IF k = SIZE - write_idx THEN "receiving" ELSE "scanning"
    BY <1>8 DEF ReceiveWrapping
  <2>2. k \in Nat /\ write_idx + k <= SIZE
    BY <2>1, SMT DEF TypeOK, Indices
  <2>3. write_idx' \in Indices
    BY <2>1, SMT DEF TypeOK, Indices
  <2>4. /\ buf' \in [Indices -> Byte]
        /\ nread' \in 0..Len(sent)
        /\ taken' \in 0..nread'
        /\ socket_closed' = FALSE
        /\ UNCHANGED <<read_idx, line, sent, peer>>
    BY <1>6, <2>1, <2>2
  <2>5. pc' \in Locations  BY <2>1 DEF Locations
  <2>6. QED  BY <2>3, <2>4, <2>5 DEF TypeOK
<1>9. CASE ReceiveNoData
  BY <1>9 DEF ReceiveNoData, TypeOK, Locations, bufferVars
<1>10. CASE PeerLeave  BY <1>10 DEF PeerLeave, TypeOK, bufferVars
<1>11. ASSUME NEW b \in Byte, PeerSend(b)
       PROVE  TypeOK'
  BY <1>11, SMT DEF PeerSend, TypeOK, bufferVars
<1>12. CASE UNCHANGED vars
  BY <1>12 DEF vars, TypeOK
<1>13. QED
  BY <1>1, <1>2, <1>3, <1>4, <1>5, <1>7, <1>8, <1>9, <1>10, <1>11, <1>12
  DEF Next, Reader

-------------------------------------------------------------------------------
(* The bytes waiting in the buffer *)

Unread == nread - taken

(* Once the buffer has been overrun, the indices are a whole round of the  *)
(* array behind what was received: Used stays the number of unread bytes   *)
(* modulo SIZE.  Without this conjunct an overrun state could claim bytes  *)
(* that nobody sent, and consume() would take them.                        *)
OverrunLeavesGap == Unread >= SIZE => Unread >= SIZE + Used

IInv == TypeOK /\ LossOnlyByOverrun /\ OverrunLeavesGap

LEMMA IInvImpliesClaimed == IInv => ClaimedBytesExist
  BY IndexArithmetic, SizeAssumption, SMT
  DEF IInv, TypeOK, LossOnlyByOverrun, OverrunLeavesGap, UnreadIntact,
      ClaimedBytesExist, Unread

(* Receiving k bytes at write_idx, without passing the end of the array    *)
(* and without reaching read_idx from below, keeps the waiting bytes.      *)
LEMMA StoreStep ==
  ASSUME IInv,
         NEW k \in 1..(SIZE - write_idx),
         write_idx < read_idx => write_idx + k < read_idx,
         Store(k),
         write_idx' = IF write_idx + k < SIZE THEN write_idx + k ELSE 0
  PROVE  (LossOnlyByOverrun /\ OverrunLeavesGap)'
<1>. USE SizeAssumption
<1>1. /\ read_idx \in Indices /\ write_idx \in Indices
      /\ taken \in Nat /\ nread \in Nat
      /\ read_idx' = read_idx /\ taken' = taken /\ sent' = sent
      /\ nread' = nread + k
  BY SMT DEF IInv, TypeOK, Store
<1>2. write_idx' \in Indices /\ read_idx' \in Indices
  BY <1>1, SMT DEF Indices
<1>3. Used' = IF write_idx >= read_idx /\ write_idx + k - read_idx = SIZE
                THEN 0 ELSE Used + k
  <2>1. Used' = IF read_idx' <= write_idx'
                  THEN write_idx' - read_idx'
                  ELSE write_idx' - read_idx' + SIZE
    <3>1. \A r, w \in Indices :
            (w - r) % SIZE = IF r <= w THEN w - r ELSE w - r + SIZE
      BY SMT DEF Indices
    <3>2. QED  BY <1>2, <3>1 DEF Used
  <2>2. QED  BY <1>1, <2>1, IndexArithmetic, SMT DEF Indices
<1>4. ASSUME nread' - taken' < SIZE
      PROVE  UnreadIntact'
  <2>1. UnreadIntact /\ Used + k = nread' - taken'
    BY <1>1, <1>4, SMT DEF IInv, LossOnlyByOverrun, UnreadIntact
  <2>2. Used' = Used + k /\ Used \in 0..(SIZE - 1)
    BY <1>1, <1>3, <1>4, <2>1, IndexArithmetic, SMT DEF Indices
  <2>3. ASSUME NEW j \in 0..(Used' - 1)
        PROVE  At(j)' = sent'[taken' + j + 1]
    <3>1. j \in 0..(SIZE - 1)  BY <1>1, <1>4, <2>1, <2>2, SMT
    <3>. DEFINE p == (read_idx + j) % SIZE
    <3>2. /\ p \in Indices
          /\ p = IF read_idx + j < SIZE THEN read_idx + j
                                        ELSE read_idx + j - SIZE
      BY <1>1, <3>1, Position
    <3>3. At(j)' = IF p \in write_idx..(write_idx + k - 1)
                     THEN sent[nread + 1 + (p - write_idx)]
                     ELSE buf[p]
      BY <1>1, <3>2 DEF At, Store
    <3>. HIDE DEF p
    <3>4. CASE j < Used
      <4>1. p \notin write_idx..(write_idx + k - 1)
        BY <1>1, <3>1, <3>2, <3>4, <2>2, <1>4, <2>1, IndexArithmetic, SMT
        DEF Indices
      <4>2. At(j) = buf[p]  BY DEF At, p
      <4>3. j \in 0..(Used - 1)  BY <3>1, <3>4, <2>2, SMT
      <4>4. At(j) = sent[taken + j + 1]  BY <2>1, <4>3 DEF UnreadIntact
      <4>5. QED  BY <1>1, <3>3, <4>1, <4>2, <4>4
    <3>5. CASE ~(j < Used)
      <4>1. p = write_idx + (j - Used)
        BY <1>1, <3>1, <3>2, <3>5, <2>2, <1>4, <2>1, IndexArithmetic, SMT
        DEF Indices
      <4>2. p \in write_idx..(write_idx + k - 1)
        BY <1>1, <4>1, <3>1, <3>5, <2>2, SMT DEF Indices
      <4>3. nread + 1 + (p - write_idx) = taken + j + 1
        BY <1>1, <4>1, <2>1, <2>2, <3>1, SMT DEF Indices
      <4>4. QED  BY <1>1, <3>3, <4>2, <4>3
    <3>6. QED  BY <3>4, <3>5
  <2>4. QED  BY <1>1, <2>1, <2>2, <2>3 DEF UnreadIntact
<1>5. OverrunLeavesGap'
  <2>1. Unread' = Unread + k /\ Unread \in Int
    BY <1>1, SMT DEF Unread
  <2>2. Unread < SIZE => Used = Unread
    BY DEF IInv, LossOnlyByOverrun, UnreadIntact, Unread
  <2>3. QED
    BY <1>1, <1>3, <2>1, <2>2, IndexArithmetic, SMT
    DEF IInv, OverrunLeavesGap, Indices
<1>6. QED  BY <1>4, <1>5 DEF LossOnlyByOverrun

(* consume() skips the first k + 1 waiting bytes and leaves the others.    *)
LEMMA ConsumeStep ==
  ASSUME IInv,
         NEW k \in 0..(Used - 1),
         Consume(k),
         UNCHANGED <<buf, write_idx, sent, nread>>
  PROVE  (LossOnlyByOverrun /\ OverrunLeavesGap)'
<1>. USE SizeAssumption
<1>1. /\ read_idx \in Indices /\ write_idx \in Indices
      /\ taken \in Nat /\ nread \in Nat
      /\ taken' = taken + k + 1
      /\ read_idx' = (read_idx + k + 1) % SIZE
      /\ k \in Nat /\ k + 1 <= Used
      /\ Used \in 0..(SIZE - 1)
  BY IndexArithmetic, SMT DEF IInv, TypeOK, Consume
<1>2. /\ read_idx' = IF read_idx + k + 1 < SIZE THEN read_idx + k + 1
                                               ELSE read_idx + k + 1 - SIZE
      /\ read_idx' \in Indices
  <2>1. \A i \in 0..(2 * SIZE - 1) :
          i % SIZE = IF i < SIZE THEN i ELSE i - SIZE
    BY Wrap
  <2>2. read_idx + k + 1 \in 0..(2 * SIZE - 1)  BY <1>1, SMT DEF Indices
  <2>3. QED  BY <1>1, <2>1, <2>2, SMT DEF Indices
<1>3. Used' = Used - k - 1
  <2>1. \A r, w \in Indices :
          (w - r) % SIZE = IF r <= w THEN w - r ELSE w - r + SIZE
    BY SMT DEF Indices
  <2>2. Used' = IF read_idx' <= write_idx
                  THEN write_idx - read_idx'
                  ELSE write_idx - read_idx' + SIZE
    BY <1>1, <1>2, <2>1 DEF Used
  <2>3. QED  BY <1>1, <1>2, <2>2, IndexArithmetic, SMT DEF Indices
<1>4. Unread' = Unread - k - 1
  BY <1>1, SMT DEF Unread
<1>5. ASSUME Unread' < SIZE
      PROVE  UnreadIntact'
  <2>1. UnreadIntact
    BY <1>1, <1>3, <1>4, <1>5, SMT
    DEF IInv, LossOnlyByOverrun, OverrunLeavesGap, Unread
  <2>2. Used' = Unread'
    BY <1>3, <1>4, <2>1 DEF UnreadIntact, Unread
  <2>3. ASSUME NEW j \in 0..(Used' - 1)
        PROVE  At(j)' = sent'[taken' + j + 1]
    <3>1. /\ j + k + 1 \in 0..(Used - 1)
          /\ j + k + 1 \in 0..(SIZE - 1)
          /\ j \in 0..(SIZE - 1)
      BY <1>1, <1>3, SMT
    <3>2. (read_idx' + j) % SIZE = (read_idx + (j + k + 1)) % SIZE
      <4>1. (read_idx + (j + k + 1)) % SIZE
              = IF read_idx + (j + k + 1) < SIZE
                  THEN read_idx + (j + k + 1)
                  ELSE read_idx + (j + k + 1) - SIZE
        BY <1>1, <3>1, Position
      <4>2. \A r \in Indices :
              (r + j) % SIZE = IF r + j < SIZE THEN r + j ELSE r + j - SIZE
        BY <3>1, SMT DEF Indices
      <4>3. QED  BY <1>1, <1>2, <3>1, <4>1, <4>2, SMT DEF Indices
    <3>3. At(j)' = At(j + k + 1)  BY <3>2 DEF At
    <3>4. At(j + k + 1) = sent[taken + (j + k + 1) + 1]
      BY <2>1, <3>1 DEF UnreadIntact
    <3>5. taken + (j + k + 1) + 1 = taken' + j + 1  BY <1>1, <3>1, SMT
    <3>6. QED  BY <3>3, <3>4, <3>5
  <2>4. QED  BY <2>2, <2>3 DEF UnreadIntact, Unread
<1>6. OverrunLeavesGap'
  BY <1>1, <1>3, <1>4, SMT
  DEF IInv, OverrunLeavesGap, LossOnlyByOverrun, UnreadIntact, Unread
<1>7. QED  BY <1>5, <1>6 DEF LossOnlyByOverrun, Unread

(* A step that touches neither the indices, the array nor the counters     *)
(* leaves the waiting bytes alone, and so does one by which the peer       *)
(* appends to its stream.                                                  *)
LEMMA UntouchedStep ==
  ASSUME IInv, UNCHANGED <<bufferVars, nread, taken>>,
         \A i \in 1..nread : sent'[i] = sent[i]
  PROVE  (LossOnlyByOverrun /\ OverrunLeavesGap)'
<1>1. Used' = Used /\ Unread' = Unread /\ \A k : At(k)' = At(k)
  BY DEF bufferVars, Used, Unread, At
<1>2. OverrunLeavesGap'  BY <1>1 DEF IInv, OverrunLeavesGap
<1>3. ASSUME UnreadIntact  PROVE UnreadIntact'
  <2>1. \A k \in 0..(Used - 1) : taken + k + 1 \in 1..nread
    BY <1>3, SMT DEF IInv, TypeOK, UnreadIntact
  <2>2. QED  BY <1>1, <1>3, <2>1 DEF UnreadIntact, Unread
<1>4. LossOnlyByOverrun'
  BY <1>3 DEF IInv, LossOnlyByOverrun
<1>5. QED  BY <1>2, <1>4

LEMMA IInvInit == Init => IInv
<1>. SUFFICES ASSUME Init PROVE IInv  OBVIOUS
<1>. USE SizeAssumption, ByteAssumption
<1>1. TypeOK
  <2>1. << >> \in Seq(Byte) /\ Len(<< >>) = 0  OBVIOUS
  <2>2. 0 \in Indices  BY SMT DEF Indices
  <2>3. QED  BY <2>1, <2>2, SMT DEF Init, TypeOK, Locations
<1>2. Used = 0  BY SMT DEF Init, Used
<1>3. QED
  BY <1>1, <1>2, SMT
  DEF Init, IInv, LossOnlyByOverrun, UnreadIntact, OverrunLeavesGap, Unread

LEMMA IInvStep == IInv /\ [Next]_vars => IInv'
<1>. SUFFICES ASSUME IInv, [Next]_vars PROVE IInv'  OBVIOUS
<1>. USE SizeAssumption
<1>1. SUFFICES (LossOnlyByOverrun /\ OverrunLeavesGap)'
  BY TypeStep, IInvImpliesClaimed DEF IInv
<1>2. ASSUME UNCHANGED <<bufferVars, nread, taken, sent>>
      PROVE  (LossOnlyByOverrun /\ OverrunLeavesGap)'
  BY <1>2, UntouchedStep
<1>3. CASE Wake  BY <1>2, <1>3 DEF Wake, streamVars
<1>4. CASE ReturnLine
  BY <1>4, ConsumeStep DEF ReturnLine, streamVars
<1>5. CASE BeginReceive  BY <1>2, <1>5 DEF BeginReceive, streamVars
<1>6. CASE ReturnNothing  BY <1>2, <1>6 DEF ReturnNothing, streamVars
<1>7. CASE ReceiveFull  BY <1>2, <1>7 DEF ReceiveFull, streamVars
<1>8. CASE ReceiveStraight
  <2>1. write_idx < read_idx /\ read_idx \in Indices /\ write_idx \in Indices
    BY <1>8 DEF ReceiveStraight, IInv, TypeOK
  <2>2. PICK k \in 1..(read_idx - write_idx - 1) :
          Store(k) /\ write_idx' = write_idx + k
    BY <1>8 DEF ReceiveStraight
  <2>3. /\ k \in 1..(SIZE - write_idx)
        /\ write_idx + k < read_idx
        /\ write_idx' = IF write_idx + k < SIZE THEN write_idx + k ELSE 0
    BY <2>1, <2>2, SMT DEF Indices
  <2>4. QED  BY <2>2, <2>3, StoreStep
<1>9. CASE ReceiveWrapping
  <2>1. ~(write_idx < read_idx) /\ read_idx \in Indices /\ write_idx \in Indices
    BY <1>9, SMT DEF ReceiveWrapping, IInv, TypeOK, Indices
  <2>2. PICK k \in 1..(SIZE - write_idx) :
          Store(k) /\ write_idx' = (write_idx + k) % SIZE
    BY <1>9 DEF ReceiveWrapping
  <2>3. write_idx' = IF write_idx + k < SIZE THEN write_idx + k ELSE 0
    BY <2>1, <2>2, SMT DEF Indices
  <2>4. QED  BY <2>1, <2>2, <2>3, StoreStep
<1>10. CASE ReceiveNoData  BY <1>2, <1>10 DEF ReceiveNoData
<1>11. CASE PeerLeave  BY <1>2, <1>11 DEF PeerLeave
<1>12. ASSUME NEW b \in Byte, PeerSend(b)
       PROVE  (LossOnlyByOverrun /\ OverrunLeavesGap)'
  <2>1. \A i \in 1..nread : sent'[i] = sent[i]
    BY <1>12, SMT DEF PeerSend, IInv, TypeOK
  <2>2. QED  BY <1>12, <2>1, UntouchedStep DEF PeerSend
<1>13. CASE UNCHANGED vars
  BY <1>2, <1>13 DEF vars, bufferVars
<1>14. QED
  BY <1>3, <1>4, <1>5, <1>6, <1>7, <1>8, <1>9, <1>10, <1>11, <1>12, <1>13
  DEF Next, Reader

-------------------------------------------------------------------------------
(* Theorems *)

THEOREM Invariance == Spec => []IInv
  BY IInvInit, IInvStep, PTL DEF Spec

(* The indices never leave the array and nextLine never returns bytes that *)
(* were not received, for every SIZE and also after an overrun.            *)
THEOREM TypeCorrect == Spec => []TypeOK
<1>1. IInv => TypeOK  BY DEF IInv
<1>2. QED  BY <1>1, Invariance, PTL

(* The bytes waiting between the indices are the unread bytes of the       *)
(* stream, in order, whatever read(2) returns and wherever the array       *)
(* wraps, unless receiveFromSocket has overrun the buffer.                 *)
THEOREM UnreadBytesIntact == Spec => []LossOnlyByOverrun
<1>1. IInv => LossOnlyByOverrun  BY DEF IInv
<1>2. QED  BY <1>1, Invariance, PTL

-------------------------------------------------------------------------------
(* A peer that stays less than SIZE bytes ahead *)

(* Bytes ahead of the lines returned: the bound of PeerSend. *)
WindowInv == Len(sent) - taken <= Window

(* Giving the connection up: the flag says that all bytes were received,   *)
(* and the caller acts on it only after a search that found no newline.    *)
ClosedInv ==
  /\ socket_closed => peer = "closed" /\ nread = Len(sent)
  /\ pc = "closed" => socket_closed /\ NoNewline

LEMMA WindowInvariance == Spec => []WindowInv
<1>1. Init => WindowInv
  BY BoundAssumption, SMT DEF Init, WindowInv
<1>2. IInv /\ IInv' /\ WindowInv /\ [Next]_vars => WindowInv'
  <2>. SUFFICES ASSUME IInv, IInv', WindowInv, [Next]_vars PROVE WindowInv'
    OBVIOUS
  <2>1. ASSUME sent' = sent, taken' >= taken  PROVE WindowInv'
    BY <2>1, BoundAssumption, SMT DEF WindowInv, IInv, TypeOK
  <2>2. CASE ReturnLine
    <3>1. PICK k \in 0..(Used - 1) : taken' = taken + k + 1
      BY <2>2 DEF ReturnLine, Consume
    <3>2. taken \in Nat /\ Used \in Nat
      BY IndexArithmetic, SMT DEF IInv, TypeOK
    <3>3. taken' >= taken  BY <3>1, <3>2, SMT
    <3>4. QED  BY <2>1, <2>2, <3>3 DEF ReturnLine, streamVars
  <2>3. ASSUME NEW b \in Byte, PeerSend(b)  PROVE WindowInv'
    BY <2>3, BoundAssumption, SMT DEF PeerSend, WindowInv, IInv, TypeOK
  <2>4. ASSUME sent' = sent, taken' = taken  PROVE WindowInv'
    BY <2>4 DEF WindowInv
  <2>5. QED
    BY <2>2, <2>3, <2>4
    DEF Next, Reader, Wake, BeginReceive, ReturnNothing, ReceiveFull,
        ReceiveStraight, ReceiveWrapping, ReceiveNoData, Store, PeerLeave,
        streamVars, vars
<1>3. QED  BY <1>1, <1>2, Invariance, PTL DEF Spec

LEMMA ClosedInvariance == Spec => []ClosedInv
<1>1. Init => ClosedInv  BY DEF Init, ClosedInv
<1>2. IInv /\ ClosedInv /\ [Next]_vars => ClosedInv'
  <2>. SUFFICES ASSUME IInv, ClosedInv, [Next]_vars PROVE ClosedInv'
    OBVIOUS
  <2>1. ASSUME UNCHANGED bufferVars  PROVE NoNewline' <=> NoNewline
    BY <2>1 DEF bufferVars, NoNewline, Used, At
  <2>2. CASE Wake  BY <2>2 DEF Wake, ClosedInv
  <2>3. CASE ReturnLine
    BY <2>3 DEF ReturnLine, ClosedInv, streamVars
  <2>4. CASE BeginReceive
    BY <2>4 DEF BeginReceive, ClosedInv, streamVars
  <2>5. CASE ReturnNothing
    BY <2>1, <2>5 DEF ReturnNothing, ClosedInv, streamVars
  <2>6. CASE ReceiveFull
    BY <2>6 DEF ReceiveFull, ClosedInv, streamVars
  <2>7. CASE ReceiveStraight
    BY <2>7 DEF ReceiveStraight, Store, ClosedInv
  <2>8. CASE ReceiveWrapping
    BY <2>8 DEF ReceiveWrapping, Store, ClosedInv
  <2>9. CASE ReceiveNoData
    <3>1. Available = 0 => nread = Len(sent)
      BY SMT DEF Available, IInv, TypeOK
    <3>2. QED  BY <2>9, <3>1 DEF ReceiveNoData, ClosedInv
  <2>10. CASE PeerLeave
    BY <2>1, <2>10 DEF PeerLeave, ClosedInv
  <2>11. ASSUME NEW b \in Byte, PeerSend(b)  PROVE ClosedInv'
    BY <2>1, <2>11 DEF PeerSend, ClosedInv
  <2>12. CASE UNCHANGED vars
    BY <2>1, <2>12 DEF vars, bufferVars, ClosedInv
  <2>13. QED
    BY <2>2, <2>3, <2>4, <2>5, <2>6, <2>7, <2>8, <2>9, <2>10, <2>11, <2>12
    DEF Next, Reader
<1>3. QED  BY <1>1, <1>2, Invariance, PTL DEF Spec

LEMMA NeverOverrun ==
  ASSUME Window < SIZE, IInv, WindowInv
  PROVE  AtMostOneLess /\ UnreadIntact
<1>1. AtMostOneLess
  BY SizeAssumption, BoundAssumption, SMT
  DEF IInv, TypeOK, WindowInv, AtMostOneLess
<1>2. QED
  BY <1>1, SizeAssumption, SMT DEF IInv, TypeOK, LossOnlyByOverrun, AtMostOneLess

(* A peer that never has SIZE unanswered bytes in flight cannot overrun    *)
(* the buffer: the promise of ring_buffer.h then holds.                    *)
THEOREM WindowPreventsOverrun ==
  ASSUME Window < SIZE
  PROVE  Spec => []AtMostOneLess
<1>1. IInv /\ WindowInv => AtMostOneLess  BY NeverOverrun
<1>2. QED  BY <1>1, Invariance, WindowInvariance, PTL

(* Under the same condition a connection is given up only after its last   *)
(* complete line was returned.                                             *)
THEOREM CompleteLinesSurviveClose ==
  ASSUME Window < SIZE
  PROVE  Spec => []NoLineDropped
<1>1. IInv /\ WindowInv /\ ClosedInv => NoLineDropped
  <2>. SUFFICES ASSUME IInv, WindowInv, ClosedInv, pc = "closed",
                       NEW i \in (taken + 1)..Len(sent)
                PROVE  sent[i] # NL
    BY DEF NoLineDropped
  <2>1. UnreadIntact /\ NoNewline /\ nread = Len(sent)
    BY NeverOverrun DEF ClosedInv
  <2>2. i - taken - 1 \in 0..(Used - 1) /\ taken + (i - taken - 1) + 1 = i
    BY <2>1, SMT DEF UnreadIntact, IInv, TypeOK
  <2>3. At(i - taken - 1) = sent[i]  BY <2>1, <2>2 DEF UnreadIntact
  <2>4. QED  BY <2>1, <2>2, <2>3 DEF NoNewline
<1>2. QED
  BY <1>1, Invariance, WindowInvariance, ClosedInvariance, PTL

(* The bytes up to the first newline of the buffer are those up to the     *)
(* next newline of the stream.                                             *)
LEMMA ReturnLineImplements ==
  ASSUME Window < SIZE, IInv, WindowInv, ReturnLine
  PROVE  LR!ReturnLine
<1>1. PICK k \in 0..(Used - 1) : FirstNewline(k) /\ Consume(k)
  BY DEF ReturnLine
<1>2. UnreadIntact  BY NeverOverrun
<1>3. /\ taken \in Nat /\ nread \in Nat /\ Used \in Nat
      /\ sent \in Seq(Byte) /\ nread <= Len(sent) /\ k \in Nat
      /\ taken + k + 1 <= nread
  BY <1>1, <1>2, IndexArithmetic, SMT DEF IInv, TypeOK, UnreadIntact
<1>. DEFINE end == taken + k + 1
<1>4. end \in (taken + 1)..Len(sent)  BY <1>3, SMT
<1>5. \A j \in 0..k : At(j) = sent[taken + j + 1]
  BY <1>1, <1>2, <1>3, SMT DEF UnreadIntact
<1>6. sent[end] = NL  BY <1>1, <1>3, <1>5 DEF FirstNewline
<1>7. \A i \in (taken + 1)..(end - 1) : sent[i] # NL
  <2>. SUFFICES ASSUME NEW i \in (taken + 1)..(end - 1) PROVE sent[i] # NL
    OBVIOUS
  <2>1. i - taken - 1 \in 0..(k - 1) /\ taken + (i - taken - 1) + 1 = i
    BY <1>3, SMT
  <2>2. At(i - taken - 1) # NL  BY <1>1, <2>1 DEF FirstNewline
  <2>3. i - taken - 1 \in 0..k  BY <1>3, <2>1, SMT
  <2>4. QED  BY <1>5, <2>1, <2>2, <2>3
<1>8. line' = SubSeq(sent, taken + 1, end - 1)
  <2>1. line' = [i \in 1..k |-> At(i - 1)]  BY <1>1 DEF Consume
  <2>2. \A i \in 1..k : At(i - 1) = sent[taken + i]
    <3>. SUFFICES ASSUME NEW i \in 1..k PROVE At(i - 1) = sent[taken + i]
      OBVIOUS
    <3>1. i - 1 \in 0..k /\ taken + (i - 1) + 1 = taken + i  BY <1>3, SMT
    <3>2. QED  BY <1>5, <3>1
  <2>3. \A i \in (taken + 1)..(end - 1) : sent[i] \in Byte
    BY <1>3, <1>4, SMT
  <2>4. /\ SubSeq(sent, taken + 1, end - 1) \in Seq(Byte)
        /\ Len(SubSeq(sent, taken + 1, end - 1)) = k
        /\ \A i \in 1..k :
              SubSeq(sent, taken + 1, end - 1)[i] = sent[taken + i]
    BY <1>3, <2>3, SubSeqProperties, SMT
  <2>5. /\ line' \in Seq(Byte)
        /\ Len(line') = k
        /\ \A i \in 1..k : line'[i] = sent[taken + i]
    <3>1. \A i \in 1..k : At(i - 1) \in Byte  BY <1>3, <2>2, SMT
    <3>2. QED  BY <1>3, <2>1, <2>2, <3>1, SMT
  <2>. HIDE DEF end
  <2>6. QED  BY <2>4, <2>5, SeqEqual
<1>9. taken' = end /\ UNCHANGED sent
  BY <1>1 DEF Consume, ReturnLine, streamVars
<1>10. QED
  BY <1>4, <1>6, <1>7, <1>8, <1>9 DEF LR!ReturnLine

(* RingBuffer implements LineReader: to its callers the buffer is the      *)
(* peer's stream, one line at a time, none lost, split, merged or          *)
(* repeated.                                                               *)
THEOREM RingBufferImplementsLineReader ==
  ASSUME Window < SIZE
  PROVE  Spec => LinesOfTheStream
<1>1. Init => LR!Init  BY DEF Init, LR!Init
<1>2. IInv /\ WindowInv /\ [Next]_vars => [LR!Next]_(LR!vars)
  <2>. SUFFICES ASSUME IInv, WindowInv, [Next]_vars
                PROVE  LR!Next \/ UNCHANGED LR!vars
    OBVIOUS
  <2>1. CASE ReturnLine  BY <2>1, ReturnLineImplements DEF LR!Next
  <2>2. ASSUME NEW b \in Byte, PeerSend(b)  PROVE LR!Next
    BY <2>2 DEF PeerSend, LR!Next, LR!PeerSend
  <2>3. QED
    BY <2>1, <2>2
    DEF Next, Reader, Wake, BeginReceive, ReturnNothing, ReceiveFull,
        ReceiveStraight, ReceiveWrapping, ReceiveNoData, Store, PeerLeave,
        streamVars, vars, LR!vars
<1>3. QED
  BY <1>1, <1>2, Invariance, WindowInvariance, PTL
  DEF Spec, LinesOfTheStream, LR!Spec
===============================================================================
