------------------------- MODULE NodeMemory_proofs --------------------------
(***************************************************************************)
(* Proofs about a node's shared memory: the ring of LockFreeQueue.h that   *)
(* each of its queues is (SpscRing), for every buffer size, every maximal  *)
(* message size and every sequence of calls, and the life of the memory    *)
(* itself (NodeMemory), for any number of processes, peers and slots.  The *)
(* two specifications share no variable.                                   *)
(***************************************************************************)
EXTENDS SpscRing, NodeMemory, SequenceTheorems, FiniteSetTheorems, WellFoundedInduction, TLAPS

\* Leaves go to Zenon unless they name another prover.
USE Zenon
-----------------------------------------------------------------------------
(* The ring of a queue *)

\* A frame occupies at least its header, and a frame of a message that is not
\* empty at least one more word.
LEMMA NeededBounds ==
  ASSUME NEW s \in Nat
  PROVE  Needed(s) \in Nat /\ Needed(s) >= 1 /\ (s > 0 => Needed(s) >= 2)
BY SMTT(30) DEF Needed

\* The kinds of cells that the reader tells apart.
LEMMA CellKinds ==
  /\ Padding \in Cells /\ Zero \in Cells /\ Torn \in Cells /\ Foreign \in Cells
  /\ \A n \in Nat : Valid(n) \in Cells /\ Valid(n).tag = "valid" /\ Valid(n).x = n
  /\ \A i, k \in Nat : Data(i, k) \in Cells
  /\ Padding.tag = "padding"
  /\ Foreign.tag = "foreign"
BY DEF Padding, Zero, Torn, Foreign, Valid, Data, Cell, Cells

\* A published frame has a place in the buffer and at least two words.
LEMMA FrameBounds ==
  ASSUME TypeOK, NEW i \in 1 .. Len(sent)
  PROVE  /\ sent[i] \in FrameRecords
         /\ sent[i].at \in Nat /\ sent[i].at < BufWords
         /\ Needed(sent[i].size) \in Nat /\ Needed(sent[i].size) >= 2
         /\ EndOf(i) \in Nat /\ EndOf(i) >= sent[i].at + 2
<1> USE RingAssumption
<1>1. sent[i] \in FrameRecords
  BY SMTT(30) DEF TypeOK
<1>2. sent[i].size \in Nat /\ sent[i].size > 0 /\ sent[i].at \in Nat /\ sent[i].at < BufWords
  BY SMTT(30), <1>1 DEF FrameRecords, Offsets
<1>3. Needed(sent[i].size) \in Nat /\ Needed(sent[i].size) >= 2
  BY <1>2, NeededBounds
<1> QED
  BY SMTT(30), <1>1, <1>2, <1>3 DEF EndOf

\* An empty ring satisfies the inductive invariant.
LEMMA InitIInv == Init => IInv
<1> SUFFICES ASSUME Init PROVE IInv
  OBVIOUS
<1> USE RingAssumption DEF Init
<1>1. TypeOK
  BY SMTT(30), CellKinds DEF TypeOK, NoMsg, Offsets
<1>2. Unread = {}
  BY SMTT(30) DEF Unread
<1>3. InOrderIntact
  BY SMTT(30) DEF InOrderIntact
<1>4. Frames
  BY <1>2 DEF Frames, FramesPlaced, FramesOrdered, FramesChained, FramesIntact
<1>5. WriterView /\ ReaderView
  BY DEF WriterView, ReaderView
<1> QED
  BY <1>1, <1>3, <1>4, <1>5 DEF IInv
-----------------------------------------------------------------------------
(* Steps that leave the ring as it is.                                     *)

\* What the frames satisfy depends on the ring and the two histories only.
LEMMA FramesKept ==
  ASSUME Frames, InOrderIntact, UNCHANGED <<head, tail, buffer, sent, delivered>>
  PROVE  Frames' /\ InOrderIntact'
BY SMTT(30) DEF Frames, FramesPlaced, FramesOrdered, FramesChained, FramesIntact, InOrderIntact,
       Unread, EndOf, Leads, Holds, Payload, Data, Valid, Padding, Cell

\* The consumer's view depends on tail_, the published frames and its own variables.
LEMMA ReaderKept ==
  ASSUME ReaderView, UNCHANGED <<tail, sent, consumerVars>>
  PROVE  ReaderView'
BY DEF ReaderView, consumerVars, Unread, Payload, Data, Cell

\* The producer's view survives a move of tail_ that agrees with its wtail.
LEMMA WriterKept ==
  ASSUME WriterView, UNCHANGED <<head, buffer, wpc, wmsg, wtail>>,
         \/ tail' = tail
         \/ wpc # "idle" => IF wtail <= head THEN wtail <= tail' /\ tail' <= head
                                             ELSE tail' >= wtail \/ tail' <= head
  PROVE  WriterView'
BY DEF WriterView, Room, FitsAtEnd, FitsAtStart, FitsBetween, Holds, FrameAt, PadCells,
       Data, Valid, Padding, Cell

\* A message that tryWrite rejects for its size changes nothing the invariant speaks of.
LEMMA RejectIInv ==
  ASSUME IInv, NEW size \in Sizes, TryWriteReject(size)
  PROVE  IInv'
<1> USE RingAssumption DEF IInv, TryWriteReject
<1>1. TypeOK'
  BY SMTT(30) DEF TypeOK, consumerVars
<1>2. Frames' /\ InOrderIntact'
  BY FramesKept DEF consumerVars
<1>3. WriterView' /\ ReaderView'
  BY ReaderKept, WriterKept
<1> QED
  BY <1>1, <1>2, <1>3

\* tryWrite loads head_ and tail_: its copy of tail_ is exact at first.
LEMMA WriteLoadIInv ==
  ASSUME IInv, NEW size \in Sizes, TryWriteLoad(size)
  PROVE  IInv'
<1> USE RingAssumption DEF IInv, TryWriteLoad
<1>1. TypeOK'
  BY SMTT(30) DEF TypeOK, consumerVars
<1>2. Frames' /\ InOrderIntact'
  BY FramesKept DEF consumerVars
<1>3. ReaderView'
  BY ReaderKept
<1>4. WriterView'
  BY SMTT(30) DEF WriterView, TypeOK
<1> QED
  BY <1>1, <1>2, <1>3, <1>4

\* tryWrite finds no room and gives up.
LEMMA FullIInv ==
  ASSUME IInv, TryWriteFull
  PROVE  IInv'
<1> USE RingAssumption DEF IInv, TryWriteFull
<1>1. TypeOK'
  BY DEF TypeOK, consumerVars
<1>2. Frames' /\ InOrderIntact'
  BY FramesKept DEF consumerVars
<1>3. ReaderView'
  BY ReaderKept
<1>4. WriterView'
  BY DEF WriterView, TypeOK
<1> QED
  BY <1>1, <1>2, <1>3, <1>4

\* tryRead finds the ring empty and returns.
LEMMA EmptyIInv ==
  ASSUME IInv, TryReadEmpty
  PROVE  IInv'
<1> USE RingAssumption DEF IInv, TryReadEmpty
<1>1. TypeOK'
  BY DEF TypeOK, producerVars
<1>2. Frames' /\ InOrderIntact'
  BY FramesKept
<1>3. WriterView'
  BY WriterKept DEF producerVars
<1>4. ReaderView'
  BY DEF ReaderView
<1> QED
  BY <1>1, <1>2, <1>3, <1>4

\* tryRead loads the indices of a ring that is not empty.
LEMMA ReadLoadIInv ==
  ASSUME IInv, TryReadLoad
  PROVE  IInv'
<1> USE RingAssumption DEF IInv, TryReadLoad
<1>1. TypeOK'
  BY DEF TypeOK, producerVars
<1>2. Frames' /\ InOrderIntact'
  BY FramesKept
<1>3. WriterView'
  BY WriterKept DEF producerVars
<1>4. Unread # {}
  BY DEF Frames, FramesChained
<1>5. head > 0
  <2>1. sent # << >> /\ Len(sent) \in 1 .. Len(sent)
    BY SMTT(30), <1>4 DEF TypeOK, Unread
  <2>2. /\ sent[Len(sent)].at \in Nat
        /\ EndOf(Len(sent)) \in Nat /\ EndOf(Len(sent)) >= sent[Len(sent)].at + 2
    BY <2>1, FrameBounds
  <2> QED
    BY SMTT(30), <2>1, <2>2 DEF Frames, FramesChained
<1>6. ReaderView'
  BY <1>4, <1>5 DEF ReaderView, Unread
<1> QED
  BY <1>1, <1>2, <1>3, <1>6

\* tryRead gives up on a header that is neither valid nor padding.
LEMMA CorruptIInv ==
  ASSUME IInv, TryReadCorrupt
  PROVE  IInv'
<1> USE RingAssumption DEF IInv, TryReadCorrupt
<1>1. TypeOK'
  BY DEF TypeOK, producerVars
<1>2. Frames' /\ InOrderIntact'
  BY FramesKept
<1>3. WriterView'
  BY WriterKept DEF producerVars
<1>4. ReaderView'
  BY DEF ReaderView
<1> QED
  BY <1>1, <1>2, <1>3, <1>4
-----------------------------------------------------------------------------
(* The reader's steps.                                                     *)

\* What the reader finds when the ring is not empty.
LEMMA OldestFrame ==
  ASSUME IInv, Unread # {}
  PROVE  LET i == Len(delivered) + 1
         IN /\ i \in Nat /\ i \in Unread /\ i \in 1 .. Len(sent)
            /\ sent[i].at \in Nat /\ sent[i].at < BufWords
            /\ sent[i].size \in 1 .. MaxSize
            /\ EndOf(i) \in Nat /\ EndOf(i) >= sent[i].at + 2 /\ EndOf(i) <= BufWords
            /\ Leads(tail, sent[i].at)
            /\ Holds(sent[i].at, sent[i])
<1> DEFINE i == Len(delivered) + 1
<1> HIDE DEF i
<1>0. TypeOK
  BY DEF IInv
<1>1. i \in Nat /\ i \in Unread /\ i \in 1 .. Len(sent)
  BY SMTT(30), <1>0 DEF i, TypeOK, Unread
<1>2. /\ sent[i] \in FrameRecords
      /\ sent[i].at \in Nat /\ sent[i].at < BufWords
      /\ EndOf(i) \in Nat /\ EndOf(i) >= sent[i].at + 2
  BY <1>0, <1>1, FrameBounds
<1>3. sent[i].size \in 1 .. MaxSize
  BY <1>2 DEF FrameRecords
<1>4. EndOf(i) <= BufWords
  <2>1. head \in 0 .. BufWords /\ tail \in 0 .. BufWords
    BY <1>0 DEF TypeOK
  <2>2. EndOf(i) <= head \/ EndOf(i) <= BufWords
    BY <1>1 DEF IInv, Frames, FramesPlaced
  <2> QED
    BY SMTT(30), <1>2, <2>1, <2>2, RingAssumption
<1>5. Leads(tail, sent[i].at) /\ Holds(sent[i].at, sent[i])
  BY <1>1 DEF i, IInv, Frames, FramesChained, FramesIntact
<1> QED
  BY <1>1, <1>2, <1>3, <1>4, <1>5 DEF i

\* A header that passes the checks is that of the oldest unread frame.
LEMMA HeaderFound ==
  ASSUME IInv, AtFrameHeader, Readable(ReadCell(tail))
  PROVE  /\ Unread # {}
         /\ sent[Len(delivered) + 1].at = tail
         /\ ReadCell(tail).x = sent[Len(delivered) + 1].size
<1> DEFINE i == Len(delivered) + 1
<1> HIDE DEF i
<1>1. Unread # {} /\ TypeOK
  BY DEF IInv, ReaderView, AtFrameHeader
<1>2. /\ sent[i].at \in Nat /\ sent[i].at < BufWords
      /\ sent[i].size \in 1 .. MaxSize
      /\ Leads(tail, sent[i].at)
      /\ Holds(sent[i].at, sent[i])
  BY <1>1, OldestFrame DEF i
<1>3. sent[i].at = tail
  <2>1. CASE rpc = "wrapped"
    BY <2>1 DEF IInv, ReaderView, i
  <2>2. CASE rpc = "header" /\ sent[i].at # tail
    <3>1. tail = BufWords \/ buffer[tail] = Padding
      BY <1>2, <2>2 DEF Leads
    <3>2. tail \in 0 .. BufWords
      BY <1>1 DEF TypeOK
    <3>3. ReadCell(tail) = Padding \/ ReadCell(tail) = Foreign
      BY SMTT(30), <3>1, <3>2, RingAssumption DEF ReadCell, Offsets
    <3> QED
      BY <3>3, <2>2, CellKinds DEF AtFrameHeader, Readable
  <2> QED
    BY <2>1, <2>2 DEF AtFrameHeader
<1>4. ReadCell(tail) = Valid(sent[i].size)
  BY SMTT(30), <1>2, <1>3, RingAssumption DEF ReadCell, Offsets, Holds
<1>5. sent[i].size \in Nat
  BY SMTT(30), <1>2, RingAssumption
<1> QED
  BY <1>1, <1>3, <1>4, <1>5, CellKinds DEF i

\* tryRead accepts a header: it is that of the oldest unread frame, with its length.
LEMMA HeaderIInv ==
  ASSUME IInv, TryReadHeader
  PROVE  IInv'
<1> USE RingAssumption
<1>1. /\ Unread # {}
      /\ sent[Len(delivered) + 1].at = tail
      /\ ReadCell(tail).x = sent[Len(delivered) + 1].size
  BY HeaderFound DEF TryReadHeader
<1>2. rlen' \in 1 .. MaxSize
  BY <1>1, OldestFrame DEF TryReadHeader
<1>3. TypeOK'
  BY SMTT(30), <1>2 DEF IInv, TypeOK, producerVars, TryReadHeader
<1>4. Frames' /\ InOrderIntact'
  BY FramesKept DEF IInv, TryReadHeader
<1>5. WriterView'
  BY WriterKept DEF IInv, producerVars, TryReadHeader
<1>6. rhead > 0
  BY DEF IInv, ReaderView, TryReadHeader, AtFrameHeader
<1>7. ReaderView'
  BY <1>1, <1>6 DEF ReaderView, Unread, TryReadHeader
<1> QED
  BY <1>3, <1>4, <1>5, <1>7 DEF IInv

\* tryRead copies the data of the oldest unread frame.
LEMMA ReadCopyIInv ==
  ASSUME IInv, TryReadCopy
  PROVE  IInv'
<1> DEFINE i == Len(delivered) + 1
<1> HIDE DEF i
<1> USE RingAssumption
<1>1. /\ Unread # {} /\ rhead > 0
      /\ sent[i].at = tail
      /\ rlen = sent[i].size
  BY DEF IInv, ReaderView, TryReadCopy, i
<1>2. /\ i \in 1 .. Len(sent)
      /\ sent[i].at \in Nat
      /\ EndOf(i) \in Nat /\ EndOf(i) <= BufWords
      /\ Holds(sent[i].at, sent[i])
  BY <1>1, OldestFrame DEF i
<1>3. Needed(rlen) \in Nat /\ Needed(rlen) >= 2 /\ tail + Needed(rlen) <= BufWords
  BY <1>1, <1>2, FrameBounds DEF IInv, EndOf
<1>4. \A k \in 1 .. Needed(rlen) - 1 : ReadCell(tail + k) = Data(sent[i].id, k)
  BY SMTT(30), <1>1, <1>2, <1>3 DEF ReadCell, Offsets, Holds
<1>5. out' = Payload(sent[i])
  BY <1>1, <1>4 DEF Payload, TryReadCopy
<1>6. out' \in Seq(Cells)
  <2>1. sent[i].id \in Nat
    BY SMTT(30), <1>2, FrameBounds DEF IInv, FrameRecords
  <2>2. \A k \in 1 .. Needed(rlen) - 1 : Data(sent[i].id, k) \in Cells
    BY SMTT(30), <2>1, CellKinds, <1>3
  <2> QED
    BY SMTT(30), <1>1, <1>3, <1>5, <2>2 DEF Payload
<1>7. TypeOK'
  BY <1>6 DEF IInv, TypeOK, producerVars, TryReadCopy
<1>8. Frames' /\ InOrderIntact'
  BY FramesKept DEF IInv, TryReadCopy
<1>9. WriterView'
  BY WriterKept DEF IInv, producerVars, TryReadCopy
<1>10. ReaderView'
  BY <1>1, <1>5 DEF ReaderView, Unread, TryReadCopy, i, Payload, Data, Cell
<1> QED
  BY <1>7, <1>8, <1>9, <1>10 DEF IInv

\* tryRead skips padding: tail_ goes to 0, where the oldest unread frame begins.
LEMMA WrapIInv ==
  ASSUME IInv, TryReadWrap
  PROVE  IInv'
<1> USE RingAssumption
<1> DEFINE i == Len(delivered) + 1
<1> HIDE DEF i
<1>0. TypeOK /\ head \in 0 .. BufWords /\ tail \in 0 .. BufWords
  BY DEF IInv, TypeOK
<1>1. Unread # {} /\ rhead > 0
  BY DEF IInv, ReaderView, TryReadWrap
<1>2. /\ i \in Unread /\ i \in Nat
      /\ sent[i].at \in Nat /\ sent[i].at < BufWords
      /\ EndOf(i) \in Nat /\ EndOf(i) >= sent[i].at + 2
      /\ sent[i].size \in 1 .. MaxSize
      /\ Leads(tail, sent[i].at)
      /\ Holds(sent[i].at, sent[i])
  BY <1>1, OldestFrame DEF i
<1>3. sent[i].at = 0 /\ head < tail
  <2> SUFFICES ASSUME sent[i].at = tail PROVE FALSE
    BY <1>2 DEF Leads
  <2>1. ReadCell(tail) = Valid(sent[i].size)
    BY SMTT(30), <1>2 DEF Holds, ReadCell, Offsets
  <2> QED
    BY SMTT(30), <2>1, <1>2, CellKinds DEF TryReadWrap
<1>4. ASSUME NEW j \in Unread
      PROVE  /\ j \in 1 .. Len(sent) /\ j \in Nat /\ (j # i => i < j)
             /\ sent[j].at \in Nat
             /\ EndOf(j) \in Nat /\ EndOf(j) >= sent[j].at + 2
  BY SMTT(60), <1>0, FrameBounds DEF Unread, i, TypeOK
<1>5. ASSUME NEW j \in Unread PROVE EndOf(j) <= head
  <2>1. EndOf(j) <= head \/ tail <= sent[j].at
    BY <1>0, <1>3 DEF IInv, Frames, FramesPlaced
  <2>2. CASE j = i
    BY SMTT(30), <1>0, <1>2, <1>3, <2>1, <2>2
  <2>3. CASE j # i
    <3>1. \/ tail <= sent[j].at => tail <= sent[i].at
          \/ EndOf(j) <= head
      BY <1>2, <1>4, <2>3 DEF IInv, Frames, FramesOrdered
    <3> QED
      BY SMTT(30), <3>1, <2>1, <1>0, <1>2, <1>3
  <2> QED
    BY <2>2, <2>3
<1>6. UNCHANGED <<head, buffer, sent, delivered>> /\ tail' = 0
  BY DEF TryReadWrap
<1>7. TypeOK'
  BY SMTT(30), <1>0 DEF TypeOK, producerVars, TryReadWrap
<1>8. Unread' = Unread /\ \A j \in Unread : EndOf(j)' = EndOf(j)
  BY <1>6 DEF Unread, EndOf
<1>9. InOrderIntact'
  BY SMTT(30), <1>6 DEF IInv, InOrderIntact, Payload, Data, Cell
<1>10. FramesPlaced'
  BY SMTT(30), <1>0, <1>4, <1>5, <1>6, <1>8 DEF FramesPlaced
<1>11. FramesOrdered'
  <2> SUFFICES ASSUME NEW j \in Unread, NEW k \in Unread, j < k
               PROVE  EndOf(j) <= sent[k].at
    BY SMTT(30), <1>0, <1>4, <1>6, <1>8 DEF FramesOrdered
  <2>1. \/ EndOf(j) <= sent[k].at
        \/ tail <= sent[j].at
    BY DEF IInv, Frames, FramesOrdered
  <2> QED
    BY SMTT(30), <2>1, <1>0, <1>3, <1>4, <1>5
<1>12. FramesChained'
  <2>1. Leads(0, sent[i].at)'
    BY <1>3, <1>6 DEF Leads, i
  <2>2. ASSUME NEW j \in Unread, j + 1 \in Unread
        PROVE  Leads(EndOf(j), sent[j + 1].at)'
    <3>1. EndOf(j) < tail
      BY SMTT(30), <1>0, <1>3, <1>4, <1>5
    <3>2. sent[j + 1].at = EndOf(j)
      BY SMTT(30), <1>0, <1>4, <2>2, <3>1 DEF IInv, Frames, FramesChained, Leads
    <3> QED
      BY <3>2, <1>6, <1>8 DEF Leads
  <2> QED
    BY <1>1, <1>6, <1>8, <2>1, <2>2 DEF IInv, Frames, FramesChained, i, EndOf
<1>13. FramesIntact'
  BY <1>6, <1>8 DEF IInv, Frames, FramesIntact, Holds, Valid, Data, Cell
<1>14. WriterView'
  <2>1. wtail \in 0 .. BufWords
    BY <1>0 DEF TypeOK
  <2>2. wpc # "idle" => IF wtail <= head THEN wtail <= tail' /\ tail' <= head
                                         ELSE tail' >= wtail \/ tail' <= head
    BY SMTT(30), <2>1, <1>0, <1>3, <1>6 DEF IInv, WriterView
  <2> QED
    BY <2>2, <1>6, WriterKept DEF IInv, producerVars, TryReadWrap
<1>15. ReaderView'
  BY <1>1, <1>3, <1>6, <1>8 DEF ReaderView, TryReadWrap, i
<1> QED
  BY <1>7, <1>9, <1>10, <1>11, <1>12, <1>13, <1>14, <1>15 DEF IInv, Frames

\* tryRead stores tail_ behind the frame it has read, where the next one, or padding, begins.
LEMMA AdvanceIInv ==
  ASSUME IInv, TryReadAdvance
  PROVE  IInv'
<1> USE RingAssumption
<1>0. /\ TypeOK /\ head \in 0 .. BufWords /\ tail \in 0 .. BufWords /\ wtail \in 0 .. BufWords
      /\ Len(sent) \in Nat /\ Len(delivered) \in Nat
  BY SMTT(30) DEF IInv, TypeOK
<1>i. PICK i \in Nat : i = Len(delivered) + 1
  BY SMTT(30), <1>0
<1>1. /\ Unread # {}
      /\ sent[i].at = tail
      /\ rlen = sent[i].size
      /\ out = Payload(sent[i])
  BY <1>i DEF IInv, ReaderView, TryReadAdvance
<1>2. /\ i \in Unread /\ i \in Nat /\ i \in 1 .. Len(sent)
      /\ EndOf(i) \in Nat /\ EndOf(i) >= sent[i].at + 2 /\ EndOf(i) <= BufWords
  BY <1>i, <1>1, OldestFrame
<1>3. UNCHANGED <<head, buffer, sent>> /\ tail' = EndOf(i)
  BY <1>1 DEF TryReadAdvance, EndOf
<1>4. /\ delivered' \in Seq(Seq(Cells)) /\ Len(delivered') = i
      /\ \A k \in 1 .. Len(delivered) : delivered'[k] = delivered[k]
      /\ delivered'[i] = out
  BY SMTT(30), <1>i, <1>0 DEF TypeOK, TryReadAdvance
<1>5. Unread' = Unread \ {i} /\ Unread' = i + 1 .. Len(sent)
  BY SMTT(30), <1>i, <1>0, <1>2, <1>3, <1>4 DEF Unread
<1>6. ASSUME NEW j \in Unread'
      PROVE  /\ j \in Unread /\ j \in 1 .. Len(sent) /\ j \in Nat /\ i < j
             /\ sent[j].at \in Nat
             /\ EndOf(j) \in Nat /\ EndOf(j) >= sent[j].at + 2
  <2>1. j \in Unread /\ j \in 1 .. Len(sent) /\ j \in Nat /\ i < j
    BY SMTT(30), <1>i, <1>0, <1>2, <1>5 DEF Unread
  <2> QED
    BY <2>1, <1>0, FrameBounds
<1>7. \A j \in Unread' : EndOf(j)' = EndOf(j)
  BY <1>3 DEF EndOf
<1>8. ASSUME NEW j \in Unread'
      PROVE  IF tail <= head THEN EndOf(i) <= sent[j].at /\ EndOf(j) <= head
             ELSE \/ EndOf(j) <= head
                  \/ EndOf(i) <= sent[j].at /\ tail <= sent[j].at /\ EndOf(j) <= BufWords
  <2>1. IF tail <= head THEN tail <= sent[j].at /\ EndOf(j) <= head
        ELSE EndOf(j) <= head \/ (tail <= sent[j].at /\ EndOf(j) <= BufWords)
    BY <1>6 DEF IInv, Frames, FramesPlaced
  <2>2. \/ EndOf(i) <= sent[j].at
        \/ head < tail /\ EndOf(j) <= head
    BY <1>2, <1>6 DEF IInv, Frames, FramesOrdered
  <2> QED
    BY SMTT(30), <2>1, <2>2, <1>0, <1>1, <1>2, <1>6
<1>9. EndOf(i) <= head \/ head < tail
  BY SMTT(30), <1>0, <1>2 DEF IInv, Frames, FramesPlaced
<1>10. tail' \in 0 .. BufWords /\ tail < tail' /\ (tail' <= head <=> tail <= head)
  BY SMTT(30), <1>0, <1>1, <1>2, <1>3, <1>9
<1>11. TypeOK'
  BY <1>0, <1>4, <1>10 DEF TypeOK, producerVars, TryReadAdvance
<1>12. InOrderIntact'
  <2>1. Len(delivered') <= Len(sent')
    BY SMTT(30), <1>2, <1>3, <1>4
  <2>2. ASSUME NEW k \in 1 .. Len(delivered') PROVE delivered'[k] = Payload(sent[k])
    <3>1. CASE k = i
      BY <3>1, <1>1, <1>4
    <3>2. CASE k # i
      <4>1. k \in 1 .. Len(delivered)
        BY SMTT(30), <3>2, <1>i, <1>0, <1>4
      <4> QED
        BY <4>1, <1>4 DEF IInv, InOrderIntact
    <3> QED
      BY <3>1, <3>2
  <2> QED
    BY ZenonT(40), <2>1, <2>2, <1>3 DEF InOrderIntact, Payload, Data, Cell
<1>13. FramesPlaced'
  BY <1>0, <1>3, <1>6, <1>7, <1>8, <1>10 DEF FramesPlaced
<1>14. FramesOrdered'
  <2> SUFFICES ASSUME NEW j \in Unread', NEW k \in Unread', j < k
               PROVE  \/ EndOf(j) <= sent[k].at /\ (tail' <= sent[k].at => tail' <= sent[j].at)
                      \/ head < tail' /\ tail' <= sent[j].at /\ EndOf(k) <= head
    BY <1>3, <1>7 DEF FramesOrdered
  <2>1. \/ EndOf(j) <= sent[k].at /\ (tail <= sent[k].at => tail <= sent[j].at)
        \/ head < tail /\ tail <= sent[j].at /\ EndOf(k) <= head
    BY <1>6 DEF IInv, Frames, FramesOrdered
  <2>2. EndOf(i) <= sent[j].at \/ (head < tail /\ EndOf(j) <= head)
    BY SMTT(30), <1>0, <1>8
  <2>3. /\ sent[j].at \in Nat /\ EndOf(j) \in Nat /\ EndOf(j) >= sent[j].at + 2
        /\ sent[k].at \in Nat /\ EndOf(k) \in Nat
    BY <1>6
  <2>4. tail <= sent[j].at => tail' <= sent[j].at
    <3>1. tail <= sent[j].at => ~(head < tail /\ EndOf(j) <= head)
      BY SMTT(30), <2>3, <1>0
    <3> QED
      BY <3>1, <2>2, <1>3
  <2>5. tail' <= sent[k].at => tail <= sent[k].at
    BY SMTT(30), <2>3, <1>0, <1>10
  <2>6. head < tail => head < tail'
    BY SMTT(30), <1>0, <1>10
  <2> QED
    BY <2>1, <2>4, <2>5, <2>6
<1>15. FramesChained'
  <2>1. ASSUME Unread' # {} PROVE Leads(EndOf(i), sent[i + 1].at)'
    <3>1. i + 1 \in Unread'
      BY SMTT(30), <2>1, <1>0, <1>2, <1>5
    <3>2. Leads(EndOf(i), sent[i + 1].at)
      BY <3>1, <1>2, <1>6 DEF IInv, Frames, FramesChained
    <3>3. EndOf(i)' = EndOf(i) /\ sent[i + 1]' = sent[i + 1]
      BY <1>3, <1>4 DEF EndOf
    <3> QED
      BY SMTT(30), <3>2, <3>3, <1>0, <1>3, <1>10 DEF Leads, Padding, Cell
  <2>2. ASSUME NEW j \in Unread', j + 1 \in Unread'
        PROVE  Leads(EndOf(j), sent[j + 1].at)'
    <3>1. Leads(EndOf(j), sent[j + 1].at)
      BY <2>2, <1>6 DEF IInv, Frames, FramesChained
    <3>2. head < tail /\ tail <= EndOf(j) => head < tail' /\ tail' <= EndOf(j)
      BY SMTT(60), <1>0, <1>2, <1>3, <1>6, <1>8, <1>10
    <3> QED
      BY <3>1, <3>2, <1>3, <1>7 DEF Leads, Padding, Cell
  <2>3. ASSUME Unread' = {} PROVE tail' = head'
    <3>1. i = Len(sent) /\ sent # << >>
      BY SMTT(30), <2>3, <1>0, <1>2, <1>5
    <3> QED
      BY <3>1, <1>3 DEF IInv, Frames, FramesChained
  <2>4. tail' = EndOf(i)' /\ Len(delivered') = i /\ EndOf(Len(sent))' = EndOf(Len(sent))
    BY <1>3, <1>4 DEF EndOf
  <2>5. (sent # << >> => head = EndOf(Len(sent))) /\ (sent = << >> => head = 0)
    BY DEF IInv, Frames, FramesChained
  <2> QED
    BY <2>1, <2>2, <2>3, <2>4, <2>5, <1>3 DEF FramesChained
<1>16. FramesIntact'
  BY <1>3, <1>6 DEF IInv, Frames, FramesIntact, Holds, Valid, Data, Cell
<1>17. WriterView'
  <2>1. wpc # "idle" => IF wtail <= head THEN wtail <= tail' /\ tail' <= head
                                         ELSE tail' >= wtail \/ tail' <= head
    BY SMTT(30), <1>0, <1>10 DEF IInv, WriterView
  <2> QED
    BY <2>1, <1>3, WriterKept DEF IInv, producerVars, TryReadAdvance
<1>18. ReaderView'
  BY DEF ReaderView, TryReadAdvance
<1> QED
  BY ZenonT(40), <1>11, <1>12, <1>13, <1>14, <1>15, <1>16, <1>17, <1>18 DEF IInv, Frames
-----------------------------------------------------------------------------
(* The writer's steps.                                                     *)

\* The words tryWrite stores to, and why no unread frame or padding has them.
LEMMA WriteDisjoint ==
  ASSUME IInv, wpc # "idle", Room(head, wtail, Needed(wmsg.size))
  PROVE  LET n == Needed(wmsg.size)
         IN /\ \A i \in Unread : CellsOf(i) \cap WriteCells(head, wtail, n) = {}
            /\ \A e \in Offsets : head < tail /\ tail <= e => e \notin WriteCells(head, wtail, n)
<1> USE RingAssumption
<1>n. PICK n \in Nat : n = Needed(wmsg.size) /\ n >= 2
  <2>1. wmsg.size \in Nat /\ wmsg.size > 0
    BY SMTT(30) DEF IInv, TypeOK, WriterView
  <2> QED
    BY <2>1, NeededBounds
<1>0. TypeOK /\ head \in 0 .. BufWords /\ tail \in 0 .. BufWords /\ wtail \in 0 .. BufWords
  BY DEF IInv, TypeOK
<1>1. IF wtail <= head THEN wtail <= tail /\ tail <= head ELSE tail >= wtail \/ tail <= head
  BY DEF IInv, WriterView
<1>2. ASSUME NEW i \in Unread, NEW w \in CellsOf(i)
      PROVE  /\ w \in Nat /\ sent[i].at <= w /\ w < EndOf(i)
             /\ sent[i].at \in Nat /\ EndOf(i) \in Nat
             /\ IF tail <= head THEN tail <= w /\ w < head ELSE w < head \/ tail <= w
  <2>1. i \in 1 .. Len(sent)
    BY SMTT(30), <1>0 DEF Unread, TypeOK
  <2>2. sent[i].at \in Nat /\ EndOf(i) \in Nat /\ Needed(sent[i].size) \in Nat
    BY <2>1, <1>0, FrameBounds
  <2>3. w \in Nat /\ sent[i].at <= w /\ w < EndOf(i)
    BY SMTT(30), <2>2 DEF CellsOf, FrameCells, EndOf
  <2>4. IF tail <= head THEN tail <= sent[i].at /\ EndOf(i) <= head
        ELSE EndOf(i) <= head \/ tail <= sent[i].at
    BY DEF IInv, Frames, FramesPlaced
  <2> QED
    BY SMTT(30), <2>2, <2>3, <2>4, <1>0
<1>3. CASE FitsAtEnd(head, wtail, n)
  <2>1. WriteCells(head, wtail, n) = head .. head + n - 1
    BY SMTT(30), <1>3, <1>0, <1>n DEF WriteCells, PadCells, FrameCells, FrameAt, FitsAtEnd, FitsAtStart
  <2>2. wtail <= tail /\ tail <= head
    BY <1>1, <1>3 DEF FitsAtEnd
  <2>3. ASSUME NEW i \in Unread, NEW w \in CellsOf(i) PROVE w \notin head .. head + n - 1
    BY SMTT(30), <1>0, <1>2, <2>2
  <2> QED
    BY SMTT(30), <2>1, <2>2, <2>3, <1>0, <1>n
<1>4. CASE FitsAtStart(head, wtail, n)
  <2>1. WriteCells(head, wtail, n) \subseteq {head} \cup 0 .. n - 1
    BY SMTT(30), <1>4, <1>0, <1>n DEF WriteCells, PadCells, FrameCells, FrameAt
  <2>2. wtail <= tail /\ tail <= head /\ n < wtail
    BY <1>1, <1>4 DEF FitsAtStart
  <2>3. ASSUME NEW i \in Unread, NEW w \in CellsOf(i) PROVE w \notin {head} \cup 0 .. n - 1
    BY SMTT(30), <1>0, <1>2, <2>2
  <2> QED
    BY SMTT(30), <2>1, <2>2, <2>3, <1>0, <1>n
<1>5. CASE FitsBetween(head, wtail, n)
  <2>1. WriteCells(head, wtail, n) = head .. head + n - 1
    BY SMTT(30), <1>5, <1>0, <1>n DEF WriteCells, PadCells, FrameCells, FrameAt, FitsBetween, FitsAtStart
  <2>2. head + n < wtail /\ (tail >= wtail \/ tail <= head)
    BY <1>0, <1>1, <1>5 DEF FitsBetween
  <2>3. ASSUME NEW i \in Unread, NEW w \in CellsOf(i) PROVE w \notin head .. head + n - 1
    BY SMTT(30), <1>0, <1>2, <2>2
  <2>4. ASSUME NEW e \in Offsets, head < tail, tail <= e PROVE e \notin head .. head + n - 1
    BY SMTT(30), <1>0, <2>2, <2>4 DEF Offsets
  <2> QED
    BY <2>1, <2>3, <2>4, <1>n
<1> QED
  BY <1>n, <1>3, <1>4, <1>5 DEF Room

\* So the frames survive whatever the writer stores to those words.
LEMMA FramesKeptByWriter ==
  ASSUME IInv, wpc # "idle", Room(head, wtail, Needed(wmsg.size)),
         UNCHANGED <<head, tail, sent, delivered>>,
         \A w \in Offsets \ WriteCells(head, wtail, Needed(wmsg.size)) : buffer'[w] = buffer[w]
  PROVE  /\ Frames' /\ InOrderIntact'
         /\ \A i \in Unread : \A w \in CellsOf(i) : buffer'[w] = buffer[w]
<1> USE RingAssumption
<1>0. TypeOK /\ head \in 0 .. BufWords /\ tail \in 0 .. BufWords
  BY DEF IInv, TypeOK
<1>1. ASSUME NEW i \in Unread
      PROVE  /\ sent[i].at \in Nat /\ EndOf(i) \in Nat /\ EndOf(i) <= BufWords
             /\ Needed(sent[i].size) \in Nat /\ Needed(sent[i].size) >= 2
  <2>1. i \in 1 .. Len(sent)
    BY SMTT(30), <1>0 DEF Unread, TypeOK
  <2>2. /\ sent[i].at \in Nat /\ EndOf(i) \in Nat
        /\ Needed(sent[i].size) \in Nat /\ Needed(sent[i].size) >= 2
    BY <2>1, <1>0, FrameBounds
  <2>3. EndOf(i) <= head \/ EndOf(i) <= BufWords
    BY DEF IInv, Frames, FramesPlaced
  <2> QED
    BY SMTT(30), <2>2, <2>3, <1>0
<1>2. ASSUME NEW i \in Unread, NEW w \in CellsOf(i)
      PROVE  buffer'[w] = buffer[w]
  <2>1. w \in Offsets
    BY SMTT(30), <1>1 DEF CellsOf, FrameCells, EndOf, Offsets
  <2> QED
    BY <2>1, WriteDisjoint
<1>3. UNCHANGED <<Unread>> /\ \A i : EndOf(i)' = EndOf(i)
  BY DEF Unread, EndOf
<1>4. FramesPlaced' /\ FramesOrdered'
  BY <1>3 DEF IInv, Frames, FramesPlaced, FramesOrdered
<1>5. ASSUME NEW e, NEW at, Leads(e, at), e \in 0 .. BufWords
      PROVE  at = e \/ (at = 0 /\ head < tail /\ tail <= e /\ (e = BufWords \/ buffer'[e] = Padding))
  <2>1. CASE at = 0 /\ head < tail /\ tail <= e /\ e # BufWords /\ buffer[e] = Padding
    BY SMTT(30), <2>1, <1>0, <1>5, WriteDisjoint DEF Offsets
  <2> QED
    BY <2>1, <1>5 DEF Leads
<1>6. FramesChained'
  <2>1. Unread # {} => Leads(tail, sent[Len(delivered) + 1].at)'
    BY <1>0, <1>5 DEF IInv, Frames, FramesChained, Leads, Padding, Cell
  <2>2. ASSUME NEW i \in Unread, i + 1 \in Unread PROVE Leads(EndOf(i), sent[i + 1].at)'
    <3>1. Leads(EndOf(i), sent[i + 1].at)
      BY <2>2 DEF IInv, Frames, FramesChained
    <3>2. EndOf(i) \in 0 .. BufWords
      BY SMTT(30), <1>1
    <3> QED
      BY <3>1, <3>2, <1>3, <1>5 DEF Leads, Padding, Cell
  <2> QED
    BY <2>1, <2>2, <1>3 DEF IInv, Frames, FramesChained
<1>7. FramesIntact'
  <2> SUFFICES ASSUME NEW i \in Unread PROVE Holds(sent[i].at, sent[i])'
    BY <1>3 DEF FramesIntact
  <2>1. Holds(sent[i].at, sent[i])
    BY DEF IInv, Frames, FramesIntact
  <2>2. /\ sent[i].at \in CellsOf(i)
        /\ \A k \in 1 .. Needed(sent[i].size) - 1 : sent[i].at + k \in CellsOf(i)
    BY SMTT(30), <1>1 DEF CellsOf, FrameCells
  <2> QED
    BY <2>1, <2>2, <1>2 DEF Holds, Valid, Data, Cell
<1>8. InOrderIntact'
  BY SMTT(30) DEF IInv, InOrderIntact, Payload, Data, Cell
<1> QED
  BY <1>2, <1>4, <1>6, <1>7, <1>8 DEF Frames

\* Where a frame for which there is room goes.
LEMMA FramePlace ==
  ASSUME IInv, wpc # "idle", Room(head, wtail, Needed(wmsg.size))
  PROVE  LET n  == Needed(wmsg.size)
             at == FrameAt(head, wtail, n)
         IN /\ n \in Nat /\ n >= 2 /\ at \in Nat /\ at + n <= BufWords
            /\ \/ FitsAtEnd(head, wtail, n) /\ at = head /\ PadCells(head, wtail, n) = {}
               \/ FitsAtStart(head, wtail, n) /\ at = 0
               \/ FitsBetween(head, wtail, n) /\ at = head /\ PadCells(head, wtail, n) = {}
            /\ PadCells(head, wtail, n) \subseteq {head}
            /\ PadCells(head, wtail, n) \cap FrameCells(at, n) = {}
<1> USE RingAssumption
<1>n. PICK n \in Nat : n = Needed(wmsg.size) /\ n >= 2
  <2>1. wmsg.size \in Nat /\ wmsg.size > 0
    BY SMTT(30) DEF IInv, TypeOK, WriterView
  <2> QED
    BY <2>1, NeededBounds
<1>0. head \in 0 .. BufWords /\ tail \in 0 .. BufWords /\ wtail \in 0 .. BufWords
  BY DEF IInv, TypeOK
<1>1. CASE FitsAtEnd(head, wtail, n)
  BY SMTT(30), <1>0, <1>1, <1>n DEF FitsAtEnd, FitsAtStart, FrameAt, PadCells
<1>2. CASE FitsAtStart(head, wtail, n)
  BY SMTT(30), <1>0, <1>2, <1>n DEF FitsAtStart, FrameAt, PadCells, FrameCells
<1>3. CASE FitsBetween(head, wtail, n)
  BY SMTT(30), <1>0, <1>3, <1>n DEF FitsBetween, FitsAtStart, FrameAt, PadCells
<1> QED
  BY <1>n, <1>1, <1>2, <1>3 DEF Room

\* tryWrite finds room and begins to copy.
LEMMA StartIInv ==
  ASSUME IInv, TryWriteStart
  PROVE  /\ IInv'
         /\ \A i \in Unread : \A w \in CellsOf(i) : buffer'[w] = buffer[w]
<1> USE RingAssumption
<1>1. /\ wpc # "idle" /\ Room(head, wtail, Needed(wmsg.size))
      /\ UNCHANGED <<head, tail, sent, delivered, wmsg, wtail>>
  BY DEF TryWriteStart, consumerVars
<1>2. \A w \in Offsets \ WriteCells(head, wtail, Needed(wmsg.size)) : buffer'[w] = buffer[w]
  BY DEF TryWriteStart
<1>3. buffer' \in [Offsets -> Cells]
  BY CellKinds DEF IInv, TypeOK, TryWriteStart
<1>4. TypeOK'
  BY <1>3 DEF IInv, TypeOK, TryWriteStart, consumerVars
<1>5. /\ Frames' /\ InOrderIntact'
      /\ \A i \in Unread : \A w \in CellsOf(i) : buffer'[w] = buffer[w]
  BY <1>1, <1>2, FramesKeptByWriter
<1>6. WriterView'
  BY <1>1 DEF IInv, WriterView, TryWriteStart, Room, FitsAtEnd, FitsAtStart, FitsBetween
<1>7. ReaderView'
  BY ReaderKept DEF IInv, TryWriteStart
<1> QED
  BY <1>4, <1>5, <1>6, <1>7 DEF IInv

\* tryWrite copies frame and padding into words that hold nothing unread.
LEMMA WriteCopyIInv ==
  ASSUME IInv, TryWriteCopy
  PROVE  /\ IInv'
         /\ \A i \in Unread : \A w \in CellsOf(i) : buffer'[w] = buffer[w]
<1> USE RingAssumption
<1>1. /\ wpc # "idle" /\ Room(head, wtail, Needed(wmsg.size))
      /\ UNCHANGED <<head, tail, sent, delivered, wmsg, wtail>>
  BY DEF IInv, WriterView, TryWriteCopy, consumerVars
<1>n. PICK n \in Nat : n = Needed(wmsg.size)
  BY <1>1, FramePlace
<1>at. PICK at \in Nat : at = FrameAt(head, wtail, n)
  BY <1>1, <1>n, FramePlace
<1>2. /\ n >= 2 /\ at + n <= BufWords
      /\ PadCells(head, wtail, n) \cap FrameCells(at, n) = {}
      /\ PadCells(head, wtail, n) \subseteq {head}
  BY <1>1, <1>n, <1>at, FramePlace
<1>3. buffer' = [w \in Offsets |->
                   IF w \in FrameCells(at, n)
                   THEN IF w = at THEN Valid(wmsg.size) ELSE Data(wmsg.id, w - at)
                   ELSE IF w \in PadCells(head, wtail, n) THEN Padding
                   ELSE buffer[w]]
  BY <1>n, <1>at DEF TryWriteCopy, FrameImage
<1>4. \A w \in Offsets \ WriteCells(head, wtail, n) : buffer'[w] = buffer[w]
  BY <1>3, <1>at DEF WriteCells
<1>5. wmsg.size \in Nat /\ wmsg.id \in Nat
  BY SMTT(30) DEF IInv, TypeOK
<1>6. buffer' \in [Offsets -> Cells]
  <2>1. \A w \in FrameCells(at, n) : w # at => w - at \in Nat
    BY SMTT(30), <1>2 DEF FrameCells
  <2>2. buffer \in [Offsets -> Cells]
    BY DEF IInv, TypeOK
  <2>3. ASSUME NEW w \in Offsets PROVE buffer'[w] \in Cells
    BY <1>3, <1>5, <2>1, <2>2, CellKinds
  <2> QED
    BY <1>3, <2>3
<1>7. TypeOK'
  BY <1>6 DEF IInv, TypeOK, TryWriteCopy, consumerVars
<1>8. /\ Frames' /\ InOrderIntact'
      /\ \A i \in Unread : \A w \in CellsOf(i) : buffer'[w] = buffer[w]
  BY <1>1, <1>4, <1>n, FramesKeptByWriter
<1>9. /\ buffer'[at] = Valid(wmsg.size)
      /\ \A k \in 1 .. n - 1 : buffer'[at + k] = Data(wmsg.id, k)
      /\ \A w \in PadCells(head, wtail, n) : buffer'[w] = Padding
  <2>1. at \in FrameCells(at, n) /\ at \in Offsets
    BY SMTT(30), <1>2 DEF FrameCells, Offsets
  <2>2. ASSUME NEW k \in 1 .. n - 1 PROVE buffer'[at + k] = Data(wmsg.id, k)
    <3>1. at + k \in FrameCells(at, n) /\ at + k \in Offsets /\ at + k # at /\ (at + k) - at = k
      BY SMTT(30), <1>2 DEF FrameCells, Offsets
    <3> QED
      BY <3>1, <1>3
  <2>3. ASSUME NEW w \in PadCells(head, wtail, n) PROVE buffer'[w] = Padding
    <3>1. w \in Offsets
      BY SMTT(30) DEF IInv, TypeOK, PadCells, Offsets
    <3> QED
      BY <3>1, <1>2, <1>3
  <2> QED
    BY <2>1, <2>2, <2>3, <1>3
<1>10. WriterView'
  <2>1. /\ wpc' = "publish" /\ Room(head, wtail, n)'
        /\ wmsg.size > 0 /\ wmsg.id > 0
        /\ IF wtail <= head THEN wtail <= tail /\ tail <= head ELSE tail >= wtail \/ tail <= head
    BY <1>1, <1>n DEF IInv, WriterView, TryWriteCopy, Room, FitsAtEnd, FitsAtStart, FitsBetween
  <2>2. Holds(at, wmsg)'
    BY <1>1, <1>9, <1>n DEF Holds, Valid, Data, Cell
  <2>3. \A w \in PadCells(head, wtail, n)' : buffer'[w] = Padding'
    BY <1>1, <1>9 DEF PadCells, FitsAtStart, Padding, Cell
  <2>4. n = Needed(wmsg.size)' /\ at = FrameAt(head, wtail, n)'
    BY <1>1, <1>n, <1>at DEF FrameAt, FitsAtStart
  <2> QED
    BY <2>1, <2>2, <2>3, <2>4, <1>1 DEF WriterView
<1>11. ReaderView'
  <2>1. ReaderView
    BY DEF IInv
  <2>2. UNCHANGED <<tail, sent, consumerVars>>
    BY DEF TryWriteCopy
  <2> QED
    BY <2>1, <2>2, ReaderKept
<1> QED
  BY <1>7, <1>8, <1>10, <1>11 DEF IInv

\* tryWrite stores head_: the new frame is the youngest, placed and chained like the others.
LEMMA PublishIInv ==
  ASSUME IInv, TryWritePublish
  PROVE  IInv'
<1> USE RingAssumption
<1>0. /\ TypeOK /\ head \in 0 .. BufWords /\ tail \in 0 .. BufWords /\ wtail \in 0 .. BufWords
      /\ Len(sent) \in Nat /\ Len(delivered) \in Nat /\ Len(delivered) <= Len(sent)
  BY SMTT(30) DEF IInv, TypeOK, InOrderIntact
<1>1. wpc = "publish" /\ Room(head, wtail, Needed(wmsg.size))
  BY DEF IInv, WriterView, TryWritePublish
<1>n. PICK n \in Nat : n = Needed(wmsg.size)
  BY <1>1, FramePlace
<1>at. PICK at \in Nat : at = FrameAt(head, wtail, n)
  BY <1>1, <1>n, FramePlace
<1>N. PICK N \in Nat : N = Len(sent) + 1
  BY SMTT(30), <1>0
<1>2. /\ n >= 2 /\ at + n <= BufWords
      /\ \/ FitsAtEnd(head, wtail, n) /\ at = head
         \/ FitsAtStart(head, wtail, n) /\ at = 0
         \/ FitsBetween(head, wtail, n) /\ at = head
  BY <1>1, <1>n, <1>at, FramePlace
<1>3. IF wtail <= head THEN wtail <= tail /\ tail <= head ELSE tail >= wtail \/ tail <= head
  BY <1>1 DEF IInv, WriterView
\* The three ways the new frame can lie with respect to tail and the old head.
<1>4. \/ tail <= head /\ at = head /\ head + n <= BufWords
      \/ tail <= head /\ at = 0 /\ n < tail /\ FitsAtStart(head, wtail, n)
      \/ head < tail /\ at = head /\ head + n < tail
  BY SMTT(30), <1>0, <1>2, <1>3 DEF FitsAtEnd, FitsAtStart, FitsBetween
<1>5. UNCHANGED <<tail, buffer, delivered>> /\ head' = at + n
  BY <1>n, <1>at DEF TryWritePublish, consumerVars
<1>6. wmsg.id \in 1 .. MaxCalls /\ wmsg.size \in 1 .. MaxSize
  BY SMTT(30), <1>0, <1>1 DEF IInv, TypeOK, WriterView
<1>7. [id |-> wmsg.id, size |-> wmsg.size, at |-> at] \in FrameRecords
  BY SMTT(30), <1>2, <1>6 DEF FrameRecords, Offsets
<1>8. /\ sent' \in Seq(FrameRecords) /\ Len(sent') = N
      /\ \A i \in 1 .. Len(sent) : sent'[i] = sent[i]
      /\ sent'[N] = [id |-> wmsg.id, size |-> wmsg.size, at |-> at]
  <2>1. sent' = Append(sent, [id |-> wmsg.id, size |-> wmsg.size, at |-> at])
    BY <1>n, <1>at DEF TryWritePublish
  <2> HIDE DEF FrameRecords
  <2> QED
    BY SMTT(30), <2>1, <1>0, <1>7, <1>N DEF TypeOK
<1>9. Unread' = Unread \cup {N} /\ N \notin Unread
  BY SMTT(30), <1>0, <1>5, <1>8, <1>N DEF Unread
<1>10. ASSUME NEW i \in Unread
       PROVE  /\ i \in 1 .. Len(sent) /\ i \in Nat /\ i < N /\ sent'[i] = sent[i]
              /\ sent[i].at \in Nat /\ EndOf(i) \in Nat /\ EndOf(i) >= sent[i].at + 2
              /\ EndOf(i)' = EndOf(i)
  <2>1. i \in 1 .. Len(sent) /\ i \in Nat /\ i < N
    BY SMTT(30), <1>0, <1>N DEF Unread
  <2>2. sent'[i] = sent[i]
    BY <2>1, <1>8
  <2>3. EndOf(i)' = EndOf(i)
    BY <2>2 DEF EndOf
  <2> QED
    BY <2>1, <2>2, <2>3, <1>0, FrameBounds
<1>11. sent'[N].at = at /\ EndOf(N)' = at + n
  BY SMTT(30), <1>8, <1>n, <1>5 DEF EndOf
<1>12. at + n \in 0 .. BufWords
  BY SMTT(30), <1>2
<1>13. TypeOK'
  BY <1>0, <1>5, <1>8, <1>12 DEF TypeOK, TryWritePublish, consumerVars
<1>14. InOrderIntact'
  <2>1. ASSUME NEW i \in 1 .. Len(delivered)
        PROVE  delivered[i] = Payload(sent'[i])
    <3>1. i \in 1 .. Len(sent) /\ delivered[i] = Payload(sent[i])
      BY SMTT(30), <1>0 DEF IInv, InOrderIntact
    <3> QED
      BY <3>1, <1>8
  <2>2. delivered' = delivered /\ Len(delivered) <= Len(sent')
    BY SMTT(30), <1>0, <1>5, <1>8, <1>N
  <2> QED
    BY <2>1, <2>2 DEF InOrderIntact, Payload, Data, Cell
<1>15. ASSUME NEW i \in Unread
       PROVE  IF tail <= head THEN tail <= sent[i].at /\ EndOf(i) <= head
              ELSE EndOf(i) <= head \/ (tail <= sent[i].at /\ EndOf(i) <= BufWords)
  BY DEF IInv, Frames, FramesPlaced
<1>16. FramesPlaced'
  <2>1. ASSUME NEW i \in Unread
        PROVE  IF tail <= at + n THEN tail <= sent[i].at /\ EndOf(i) <= at + n
               ELSE EndOf(i) <= at + n \/ (tail <= sent[i].at /\ EndOf(i) <= BufWords)
    BY SMTT(30), <1>0, <1>2, <1>4, <1>10, <1>15
  <2>2. IF tail <= at + n THEN tail <= at /\ at + n <= at + n
        ELSE at + n <= at + n \/ (tail <= at /\ at + n <= BufWords)
    BY SMTT(30), <1>0, <1>2, <1>4
  <2> QED
    BY <2>1, <2>2, <1>5, <1>9, <1>10, <1>11 DEF FramesPlaced
<1>17. FramesOrdered'
  <2>1. ASSUME NEW i \in Unread, NEW j \in Unread, i < j
        PROVE  \/ EndOf(i) <= sent[j].at /\ (tail <= sent[j].at => tail <= sent[i].at)
               \/ at + n < tail /\ tail <= sent[i].at /\ EndOf(j) <= at + n
    <3>1. \/ EndOf(i) <= sent[j].at /\ (tail <= sent[j].at => tail <= sent[i].at)
          \/ head < tail /\ tail <= sent[i].at /\ EndOf(j) <= head
      BY <2>1 DEF IInv, Frames, FramesOrdered
    <3>2. EndOf(j) \in Nat
      BY <1>10
    <3>3. head < tail /\ EndOf(j) <= head => at + n < tail /\ EndOf(j) <= at + n
      BY SMTT(30), <3>2, <1>0, <1>2, <1>4
    <3> QED
      BY <3>1, <3>3
  <2>2. ASSUME NEW i \in Unread
        PROVE  \/ EndOf(i) <= at /\ (tail <= at => tail <= sent[i].at)
               \/ at + n < tail /\ tail <= sent[i].at /\ at + n <= at + n
    BY SMTT(30), <1>0, <1>2, <1>4, <1>10, <1>15
  <2>3. ASSUME NEW i \in Unread PROVE ~(N < i) /\ ~(N < N)
    BY SMTT(30), <1>10
  <2> SUFFICES ASSUME NEW i \in Unread', NEW j \in Unread', i < j
               PROVE  (\/ EndOf(i) <= sent[j].at /\ (tail <= sent[j].at => tail <= sent[i].at)
                       \/ head < tail /\ tail <= sent[i].at /\ EndOf(j) <= head)'
    BY DEF FramesOrdered
  <2>4. CASE i \in Unread /\ j \in Unread
    BY <2>1, <2>4, <1>5, <1>10
  <2>5. CASE i \in Unread /\ j = N
    BY <2>2, <2>5, <1>5, <1>10, <1>11
  <2> QED
    BY SMTT(30), <2>3, <2>4, <2>5, <1>9
<1>18. FramesChained'
  <2>1. \A e, a : Leads(e, a) => Leads(e, a)'
    <3>1. head < tail => head' < tail'
      BY SMTT(30), <1>0, <1>2, <1>4, <1>5
    <3> QED
      BY <3>1, <1>5 DEF Leads, Padding, Cell
  <2>h. PICK h : h = head
    OBVIOUS
  <2>2. Leads(h, at)'
    <3>1. CASE FitsAtStart(head, wtail, n) /\ at = 0 /\ n < tail /\ tail <= head
      <4>1. head \in PadCells(head, wtail, n) \/ head = BufWords
        BY SMTT(30), <3>1, <1>0 DEF PadCells
      <4>2. buffer[head] = Padding \/ head = BufWords
        BY <4>1, <1>1, <1>n DEF IInv, WriterView
      <4>3. head' < tail' /\ tail' <= h
        BY SMTT(30), <3>1, <2>h, <1>5
      <4> QED
        BY <4>2, <4>3, <3>1, <2>h, <1>5 DEF Leads, Padding, Cell
    <3>2. CASE at = head
      BY <3>2, <2>h DEF Leads
    <3> QED
      BY <3>1, <3>2, <1>4
  <2>3. Leads(tail, sent[Len(delivered) + 1].at)'
    <3>1. CASE Unread = {}
      <4>1. tail = h /\ Len(delivered) + 1 = N
        BY SMTT(30), <3>1, <2>h, <1>0, <1>N DEF IInv, Frames, FramesChained, Unread
      <4> QED
        BY <4>1, <2>2, <1>5, <1>11
    <3>2. CASE Unread # {}
      <4>1. Leads(tail, sent[Len(delivered) + 1].at) /\ Len(delivered) + 1 \in Unread
        BY SMTT(30), <3>2, <1>0 DEF IInv, Frames, FramesChained, Unread
      <4>2. sent'[Len(delivered) + 1] = sent[Len(delivered) + 1]
        BY <4>1, <1>10
      <4> QED
        BY <4>1, <4>2, <2>1, <1>5
    <3> QED
      BY <3>1, <3>2
  <2>4. ASSUME NEW i \in Unread', i + 1 \in Unread'
        PROVE  Leads(EndOf(i), sent[i + 1].at)'
    <3>1. i \in Unread
      BY SMTT(30), <2>4, <1>0, <1>8, <1>9, <1>N DEF Unread
    <3>2. CASE i + 1 \in Unread
      <4>1. Leads(EndOf(i), sent[i + 1].at)
        BY <3>1, <3>2 DEF IInv, Frames, FramesChained
      <4> QED
        BY <4>1, <3>1, <3>2, <2>1, <1>10
    <3>3. CASE i + 1 = N
      <4>1. i = Len(sent) /\ sent # << >>
        BY SMTT(30), <3>1, <3>3, <1>0, <1>10, <1>N
      <4>2. EndOf(i) = h
        BY <4>1, <2>h DEF IInv, Frames, FramesChained
      <4> QED
        BY <4>2, <3>1, <3>3, <2>2, <1>10, <1>11
    <3> QED
      BY <3>2, <3>3, <2>4, <1>9
  <2>5. head' = EndOf(Len(sent))' /\ sent' # << >> /\ Unread' # {}
    BY SMTT(30), <1>5, <1>8, <1>9, <1>11, <1>N
  <2> QED
    BY <2>3, <2>4, <2>5 DEF FramesChained
<1>19. FramesIntact'
  <2>1. ASSUME NEW i \in Unread PROVE Holds(sent[i].at, sent[i])'
    <3>1. Holds(sent[i].at, sent[i])
      BY DEF IInv, Frames, FramesIntact
    <3> QED
      BY <3>1, <1>5, <1>10 DEF Holds, Valid, Data, Cell
  <2>2. Holds(sent[N].at, sent[N])'
    <3>1. Holds(at, wmsg)
      BY <1>1, <1>n, <1>at DEF IInv, WriterView
    <3> QED
      BY SMTT(30), <3>1, <1>5, <1>8 DEF Holds, Valid, Data, Cell
  <2> QED
    BY <2>1, <2>2, <1>9 DEF FramesIntact
<1>20. WriterView'
  BY DEF WriterView, TryWritePublish
<1>21. ReaderView'
  <2>1. ASSUME Unread # {}
        PROVE  sent'[Len(delivered) + 1] = sent[Len(delivered) + 1] /\ Unread' # {}
    BY SMTT(30), <2>1, <1>0, <1>9, <1>10 DEF Unread
  <2>2. UNCHANGED <<tail, rpc, rhead, rlen, out, delivered>>
    BY DEF TryWritePublish, consumerVars
  <2> QED
    BY <2>1, <2>2 DEF IInv, ReaderView, Payload, Data, Cell
<1> QED
  BY ZenonT(40), <1>13, <1>14, <1>16, <1>17, <1>18, <1>19, <1>20, <1>21 DEF IInv, Frames
-----------------------------------------------------------------------------
(* The theorems.                                                           *)

\* A step that changes no variable keeps the invariant.
LEMMA StutterIInv ==
  ASSUME IInv, UNCHANGED vars
  PROVE  IInv'
<1> USE DEF vars, producerVars, consumerVars
<1>1. TypeOK'
  BY DEF IInv, TypeOK
<1>2. Frames' /\ InOrderIntact'
  BY FramesKept DEF IInv
<1>3. WriterView'
  BY WriterKept DEF IInv
<1>4. ReaderView'
  BY ReaderKept DEF IInv
<1> QED
  BY <1>1, <1>2, <1>3, <1>4 DEF IInv

\* Every step of tryWrite and of tryRead keeps the invariant: it is inductive.
LEMMA NextIInv ==
  ASSUME IInv, [Next]_vars
  PROVE  IInv'
<1>1. CASE Producer
  BY <1>1, RejectIInv, WriteLoadIInv, FullIInv, StartIInv, WriteCopyIInv, PublishIInv DEF Producer
<1>2. CASE Consumer
  BY <1>2, EmptyIInv, ReadLoadIInv, WrapIInv, HeaderIInv, CorruptIInv, ReadCopyIInv, AdvanceIInv
     DEF Consumer
<1>3. CASE UNCHANGED vars
  BY <1>3, StutterIInv
<1> QED
  BY <1>1, <1>2, <1>3 DEF Next

\* The inductive invariant holds in every state the ring can be in.
THEOREM RingInvariant == Spec => []IInv
<1>1. Init => IInv
  BY InitIInv
<1>2. IInv /\ [Next]_vars => IInv'
  BY NextIInv
<1> QED
  BY <1>1, <1>2, PTL DEF Spec

\* head_ and tail_ never leave 0 .. BUFFER_SIZE and no frame is placed outside
\* the buffer, for every buffer size and every sequence of tryWrite and tryRead.
THEOREM TypeCorrect == Spec => []TypeOK
<1>1. IInv => TypeOK
  BY DEF IInv
<1> QED
  BY <1>1, RingInvariant, PTL

\* tryRead returns what tryWrite accepted, whole and in order.
THEOREM ReadsInOrderIntact == Spec => []InOrderIntact
<1>1. IInv => InOrderIntact
  BY DEF IInv
<1> QED
  BY <1>1, RingInvariant, PTL

\* tryRead always finds the next header where it looks for it, but for the
\* exact fit.
THEOREM HeaderAlwaysAtTail == Spec => []HeaderAtTail
<1>1. IInv => HeaderAtTail
  <2> SUFFICES ASSUME IInv PROVE HeaderAtTail
    OBVIOUS
  <2> DEFINE i == Len(delivered) + 1
  <2> HIDE DEF i
  <2>1. rpc = "wrapped" => rhead # 0
    BY SMTT(30) DEF IInv, ReaderView, TypeOK
  <2>2. ASSUME Unread # {}
        PROVE  \/ ReadCell(tail) = Valid(sent[i].size)
               \/ ReadCell(tail) = Padding /\ buffer[0] = Valid(sent[i].size)
               \/ tail = BufWords
    <3>1. /\ sent[i].at \in Nat /\ sent[i].at < BufWords
          /\ Leads(tail, sent[i].at) /\ Holds(sent[i].at, sent[i])
      BY <2>2, OldestFrame DEF i
    <3>2. tail \in 0 .. BufWords
      BY DEF IInv, TypeOK
    <3>3. tail # BufWords => ReadCell(tail) = buffer[tail]
      BY SMTT(30), <3>2, RingAssumption DEF ReadCell, Offsets
    <3> QED
      BY <3>1, <3>3 DEF Leads, Holds
  <2> QED
    BY <2>1, <2>2 DEF HeaderAtTail, i
<1> QED
  BY <1>1, RingInvariant, PTL

\* A tryWrite that reports a full ring was short of less than two frames.
THEOREM RefusesOnlyNearlyFull == Spec => []RefusalMeansNearlyFull
<1>1. IInv => RefusalMeansNearlyFull
  <2> SUFFICES ASSUME IInv, wpc = "place", ~Room(head, wtail, Needed(wmsg.size))
               PROVE  RingSize(head, wtail) + 2 * Needed(wmsg.size) > BufWords
    BY DEF RefusalMeansNearlyFull
  <2>n. PICK n \in Nat : n = Needed(wmsg.size)
    <3>1. wmsg.size \in Nat
      BY SMTT(30) DEF IInv, TypeOK
    <3> QED
      BY <3>1, NeededBounds
  <2>1. head \in 0 .. BufWords /\ wtail \in 0 .. BufWords
    BY DEF IInv, TypeOK
  <2> QED
    BY SMTT(30), <2>n, <2>1, RingAssumption DEF Room, FitsAtEnd, FitsAtStart, FitsBetween, RingSize
<1> QED
  BY <1>1, RingInvariant, PTL

\* The producer never touches a word of an unread frame, however old the tail_
\* is that it works with.
THEOREM UnreadNeverOverwritten == Spec => UnreadStable
<1>1. IInv /\ [Next]_vars => [\A i \in Unread : \A w \in CellsOf(i) : buffer'[w] = buffer[w]]_vars
  <2> SUFFICES ASSUME IInv, Next
               PROVE  \A i \in Unread : \A w \in CellsOf(i) : buffer'[w] = buffer[w]
    OBVIOUS
  <2>1. CASE TryWriteStart
    BY <2>1, StartIInv
  <2>2. CASE TryWriteCopy
    BY <2>2, WriteCopyIInv
  <2>3. CASE ~TryWriteStart /\ ~TryWriteCopy
    <3>1. buffer' = buffer
      BY <2>3 DEF Next, Producer, Consumer, TryWriteReject, TryWriteLoad, TryWriteFull,
         TryWritePublish, TryReadEmpty, TryReadLoad, TryReadWrap, TryReadHeader, TryReadCorrupt,
         TryReadCopy, TryReadAdvance
    <3> QED
      BY <3>1
  <2> QED
    BY <2>1, <2>2, <2>3
<1> QED
  BY <1>1, RingInvariant, PTL DEF Spec, UnreadStable
-----------------------------------------------------------------------------
(* The ring implements FifoChannel.                                        *)

\* A function on 1 .. n is a sequence of length n.
LEMMA FunctionIsSeq ==
  ASSUME NEW S, NEW n \in Nat, NEW f \in [1 .. n -> S]
  PROVE  f \in Seq(S) /\ Len(f) = n
<1>1. f \in Seq(S)
  BY SeqDef
<1>2. DOMAIN f = 1 .. n /\ DOMAIN f = 1 .. Len(f) /\ Len(f) \in Nat
  BY <1>1, LenProperties
<1> QED
  BY SMTT(30), <1>1, <1>2

\* The messages of the frames after the d-th.
Payloads(fs, d) == [i \in 1 .. Len(fs) - d |-> Payload(fs[d + i])]

\* The payload of a frame is a sequence of words.
LEMMA PayloadType ==
  ASSUME NEW r \in FrameRecords
  PROVE  Payload(r) \in Seq(Cells)
<1>1. r.id \in Nat /\ r.size \in Nat
  BY SMTT(30), RingAssumption DEF FrameRecords
<1>2. Needed(r.size) \in Nat /\ Needed(r.size) >= 1
  BY <1>1, NeededBounds
<1>3. \A k \in 1 .. Needed(r.size) - 1 : Data(r.id, k) \in Cells
  BY SMTT(30), <1>1, <1>2, CellKinds
<1> QED
  BY SMTT(30), <1>2, <1>3 DEF Payload

\* The payloads of the frames after the first d, as a sequence.
LEMMA PayloadsSeq ==
  ASSUME NEW fs \in Seq(FrameRecords), NEW d \in Nat, d <= Len(fs)
  PROVE  /\ Payloads(fs, d) \in Seq(Seq(Cells))
         /\ Len(Payloads(fs, d)) = Len(fs) - d
         /\ \A i \in 1 .. Len(fs) - d : Payloads(fs, d)[i] = Payload(fs[d + i])
<1>1. Len(fs) \in Nat /\ Len(fs) - d \in Nat
  BY SMTT(30)
<1>2. ASSUME NEW i \in 1 .. Len(fs) - d PROVE Payload(fs[d + i]) \in Seq(Cells)
  <2>1. fs[d + i] \in FrameRecords
    BY SMTT(30), <1>1
  <2> QED
    BY <2>1, PayloadType
<1>3. Payloads(fs, d) \in [1 .. Len(fs) - d -> Seq(Cells)]
  BY <1>2 DEF Payloads
<1>4. Payloads(fs, d) \in Seq(Seq(Cells)) /\ Len(Payloads(fs, d)) = Len(fs) - d
  BY <1>1, <1>3, FunctionIsSeq
<1> QED
  BY <1>4 DEF Payloads

\* Publishing a frame appends its payload to those that wait.
LEMMA PayloadsAppend ==
  ASSUME NEW fs \in Seq(FrameRecords), NEW d \in Nat, d <= Len(fs), NEW r \in FrameRecords
  PROVE  Payloads(Append(fs, r), d) = Append(Payloads(fs, d), Payload(r))
<1> DEFINE gs == Append(fs, r)
           p  == Payloads(fs, d)
           q  == Payloads(gs, d)
<1>1. /\ gs \in Seq(FrameRecords) /\ Len(gs) = Len(fs) + 1 /\ Len(fs) \in Nat
      /\ \A i \in 1 .. Len(fs) : gs[i] = fs[i]
      /\ gs[Len(fs) + 1] = r
  BY SMTT(30)
<1> HIDE DEF gs
<1>2. /\ p \in Seq(Seq(Cells)) /\ Len(p) = Len(fs) - d
      /\ \A i \in 1 .. Len(fs) - d : p[i] = Payload(fs[d + i])
  BY PayloadsSeq
<1>3. /\ q \in Seq(Seq(Cells)) /\ Len(q) = Len(fs) - d + 1
      /\ \A i \in 1 .. Len(fs) - d + 1 : q[i] = Payload(gs[d + i])
  <2>1. d <= Len(gs) /\ Len(gs) - d = Len(fs) - d + 1
    BY SMTT(30), <1>1
  <2> QED
    BY <1>1, <2>1, PayloadsSeq
<1> HIDE DEF p, q
<1>4. Payload(r) \in Seq(Cells)
  BY PayloadType
<1>n. PICK n \in Nat : n = Len(fs) - d
  BY SMTT(30), <1>1
<1>5. Len(p) = n /\ Len(q) = n + 1 /\ d + n = Len(fs)
  BY SMTT(30), <1>1, <1>2, <1>3, <1>n
<1>6. /\ Append(p, Payload(r)) \in Seq(Seq(Cells)) /\ Len(Append(p, Payload(r))) = n + 1
      /\ \A i \in 1 .. n : Append(p, Payload(r))[i] = p[i]
      /\ Append(p, Payload(r))[n + 1] = Payload(r)
  BY SMTT(30), <1>2, <1>4, <1>5, AppendProperties
<1>7. ASSUME NEW i \in 1 .. n + 1 PROVE q[i] = Append(p, Payload(r))[i]
  <2>1. CASE i = n + 1
    <3>1. d + i = Len(fs) + 1
      BY SMTT(30), <2>1, <1>1, <1>5
    <3> QED
      BY <2>1, <3>1, <1>1, <1>3, <1>6, <1>n
  <2>2. CASE i # n + 1
    <3>1. i \in 1 .. n /\ d + i \in 1 .. Len(fs)
      BY SMTT(30), <2>2, <1>1, <1>5
    <3> QED
      BY <3>1, <1>1, <1>2, <1>3, <1>6, <1>n
  <2> QED
    BY <2>1, <2>2
<1>8. q = Append(p, Payload(r))
  BY <1>3, <1>5, <1>6, <1>7, SeqEqual
<1> QED
  BY <1>8 DEF p, q, gs

\* Delivering a frame takes the first of the payloads that wait.
LEMMA PayloadsTail ==
  ASSUME NEW fs \in Seq(FrameRecords), NEW d \in Nat, d < Len(fs)
  PROVE  /\ Payloads(fs, d) # << >>
         /\ Head(Payloads(fs, d)) = Payload(fs[d + 1])
         /\ Tail(Payloads(fs, d)) = Payloads(fs, d + 1)
<1> DEFINE p == Payloads(fs, d)
           q == Payloads(fs, d + 1)
<1>1. Len(fs) \in Nat /\ d <= Len(fs) /\ d + 1 <= Len(fs) /\ d + 1 \in Nat
  BY SMTT(30)
<1>2. /\ p \in Seq(Seq(Cells)) /\ Len(p) = Len(fs) - d
      /\ \A i \in 1 .. Len(fs) - d : p[i] = Payload(fs[d + i])
  BY <1>1, PayloadsSeq
<1>3. /\ q \in Seq(Seq(Cells)) /\ Len(q) = Len(fs) - (d + 1)
      /\ \A i \in 1 .. Len(fs) - (d + 1) : q[i] = Payload(fs[(d + 1) + i])
  BY <1>1, PayloadsSeq
<1> HIDE DEF p, q
<1>4. p # << >> /\ Head(p) = Payload(fs[d + 1])
  BY SMTT(30), <1>1, <1>2
<1>5. /\ Tail(p) \in Seq(Seq(Cells)) /\ Len(Tail(p)) = Len(q)
      /\ \A i \in 1 .. Len(q) : Tail(p)[i] = p[i + 1]
  BY SMTT(30), <1>1, <1>2, <1>3, <1>4
<1>6. ASSUME NEW i \in 1 .. Len(q) PROVE Tail(p)[i] = q[i]
  <2>1. i + 1 \in 1 .. Len(fs) - d /\ d + (i + 1) = (d + 1) + i
    BY SMTT(30), <1>1, <1>3
  <2> QED
    BY <2>1, <1>2, <1>3, <1>5
<1>7. Tail(p) = q
  BY <1>3, <1>5, <1>6, SeqEqual
<1> QED
  BY <1>4, <1>7 DEF p, q

\* An empty ring is an empty FIFO channel.
LEMMA InitFifo == Init => Fifo!Init
<1> SUFFICES ASSUME Init PROVE Waiting = << >> /\ delivered = << >>
  BY DEF Fifo!Init
<1>1. sent \in Seq(FrameRecords) /\ Len(sent) = 0 /\ Len(delivered) = 0
  BY SMTT(30) DEF Init
<1>2. Waiting \in Seq(Seq(Cells)) /\ Len(Waiting) = 0
  BY SMTT(30), <1>1, PayloadsSeq DEF Waiting, Payloads
<1> QED
  BY <1>2, EmptySeq DEF Init

\* Publishing a frame is accepting its message.
LEMMA PublishFifo ==
  ASSUME IInv, TryWritePublish
  PROVE  \E m \in Messages : Fifo!Accept(m)
<1>r. PICK r : r = [id |-> wmsg.id, size |-> wmsg.size,
                    at |-> FrameAt(head, wtail, Needed(wmsg.size))]
  OBVIOUS
<1>0. TypeOK /\ InOrderIntact
  BY DEF IInv
<1>1. sent \in Seq(FrameRecords) /\ Len(delivered) \in Nat /\ Len(delivered) <= Len(sent)
  BY SMTT(30), <1>0 DEF TypeOK, InOrderIntact
<1>2. wmsg \in [id : 1 .. MaxCalls, size : 1 .. MaxSize]
  BY SMTT(30), RingAssumption DEF IInv, TypeOK, WriterView, TryWritePublish
<1>3. r \in FrameRecords
  <2>1. /\ FrameAt(head, wtail, Needed(wmsg.size)) \in Nat
        /\ Needed(wmsg.size) \in Nat /\ Needed(wmsg.size) >= 2
        /\ FrameAt(head, wtail, Needed(wmsg.size)) + Needed(wmsg.size) <= BufWords
    BY FramePlace DEF IInv, WriterView, TryWritePublish
  <2>2. FrameAt(head, wtail, Needed(wmsg.size)) \in Offsets
    BY SMTT(30), <2>1, RingAssumption DEF Offsets
  <2> QED
    BY <2>2, <1>2, <1>r DEF FrameRecords
<1>4. sent' = Append(sent, r) /\ delivered' = delivered
  BY <1>r DEF TryWritePublish, consumerVars
<1>5. Payload(r) = Payload(wmsg) /\ Payload(wmsg) \in Messages
  BY <1>r, <1>2 DEF Payload, Messages
<1>6. Waiting' = Append(Waiting, Payload(r))
  <2>1. Waiting = Payloads(sent, Len(delivered))
    BY DEF Waiting, Payloads
  <2>2. Waiting' = Payloads(Append(sent, r), Len(delivered))
    BY <1>4 DEF Waiting, Payloads, Payload, Data, Cell
  <2> QED
    BY <2>1, <2>2, <1>1, <1>3, PayloadsAppend
<1> QED
  BY <1>4, <1>5, <1>6 DEF Fifo!Accept

\* Moving tail_ past a frame is delivering the oldest message.
LEMMA AdvanceFifo ==
  ASSUME IInv, TryReadAdvance
  PROVE  Fifo!Deliver
<1>0. TypeOK
  BY DEF IInv
<1>1. /\ sent \in Seq(FrameRecords) /\ Len(delivered) \in Nat /\ delivered \in Seq(Seq(Cells))
      /\ Unread # {} /\ out = Payload(sent[Len(delivered) + 1])
  BY SMTT(30), <1>0 DEF TypeOK, IInv, ReaderView, TryReadAdvance
<1>2. Len(delivered) < Len(sent)
  BY SMTT(30), <1>1 DEF Unread
<1>3. delivered' = Append(delivered, out) /\ sent' = sent /\ Len(delivered') = Len(delivered) + 1
  BY SMTT(30), <1>1 DEF TryReadAdvance
<1>4. Waiting = Payloads(sent, Len(delivered)) /\ Waiting' = Payloads(sent, Len(delivered) + 1)
  BY <1>3 DEF Waiting, Payloads, Payload, Data, Cell
<1> QED
  BY <1>1, <1>2, <1>3, <1>4, PayloadsTail DEF Fifo!Deliver

\* The ring implements a FIFO channel: for every buffer size, message size and
\* interleaving, tryWrite and tryRead behave as Accept and Deliver.
THEOREM RingImplementsFifo == Spec => ImplementsFifo
<1>1. Init => Fifo!Init
  BY InitFifo
<1>2. IInv /\ [Next]_vars => [Fifo!Next]_<<Waiting, delivered>>
  <2> SUFFICES ASSUME IInv, [Next]_vars PROVE [Fifo!Next]_<<Waiting, delivered>>
    OBVIOUS
  <2>1. CASE TryWritePublish
    BY <2>1, PublishFifo DEF Fifo!Next
  <2>2. CASE TryReadAdvance
    BY <2>2, AdvanceFifo DEF Fifo!Next
  <2>3. CASE ~TryWritePublish /\ ~TryReadAdvance
    <3>1. sent' = sent /\ delivered' = delivered
      BY <2>3 DEF Next, Producer, Consumer, TryWriteReject, TryWriteLoad, TryWriteFull,
         TryWriteStart, TryWriteCopy, TryReadEmpty, TryReadLoad, TryReadWrap, TryReadHeader,
         TryReadCorrupt, TryReadCopy, vars, consumerVars
    <3> QED
      BY <3>1 DEF Waiting, Payload, Data, Cell
  <2> QED
    BY <2>1, <2>2, <2>3
<1> QED
  BY <1>1, <1>2, RingInvariant, PTL DEF Spec, ImplementsFifo, Fifo!Spec
-----------------------------------------------------------------------------
(* The life of the memory *)

\* A non-empty set of slots has a first one.
LEMMA FirstSlot ==
  ASSUME MemoryAssumption, NEW Q \in SUBSET Slots, Q # {}
  PROVE  Min(Q) \in Q
<1>1. Q \in SUBSET Nat
  BY SMTT(30) DEF MemoryAssumption, Slots
<1>2. PICK x \in Q : \A y \in Q : ~(<<y, x>> \in OpToRel(<, Nat))
  BY <1>1, NatLessThanWellFounded, WFMin
<1>3. OpToRel(<, Nat) = {ss \in Nat \X Nat : ss[1] < ss[2]}
  BY DEF OpToRel
<1>4. \A y \in Q : x \in Nat /\ y \in Nat /\ ~(y < x)
  BY <1>1, <1>2, <1>3
<1>5. \A j, k \in Nat : ~(k < j) => j <= k
  BY SMTT(30)
<1>6. \E z \in Q : \A y \in Q : z <= y
  BY <1>4, <1>5
<1> QED
  BY <1>6 DEF Min

\* The sets that are counted are finite.
LEMMA MemorySets ==
  ASSUME MemoryAssumption
  PROVE  /\ \A Q \in SUBSET Slots : IsFiniteSet(Q) /\ Cardinality(Q) \in Nat
         /\ \A Q \in SUBSET Peers : IsFiniteSet(Q) /\ Cardinality(Q) \in Nat
<1>1. IsFiniteSet(Slots)
  BY SMTT(30), FS_Interval DEF MemoryAssumption, Slots
<1>2. IsFiniteSet(Peers)
  BY DEF MemoryAssumption
<1>3. \A Q \in SUBSET Slots : IsFiniteSet(Q)
  BY <1>1, FS_Subset
<1>4. \A Q \in SUBSET Peers : IsFiniteSet(Q)
  BY <1>2, FS_Subset
<1> QED
  BY <1>3, <1>4, FS_CardinalityType

\* A store into the list puts the slot into the set of the new value and takes it
\* from that of the old one.
LEMMA StoreMoves ==
  ASSUME pids \in [Slots -> Processes \cup {None}], NEW i \in Slots, NEW v,
         pids' = [pids EXCEPT ![i] = v]
  PROVE  \A p : SlotsOf(p)' = IF p = v THEN SlotsOf(p) \cup {i} ELSE SlotsOf(p) \ {i}
BY SMTT(30) DEF SlotsOf

\* A peer that goes on leaves the set of peers where it was and enters another.
LEMMA PeerMoves ==
  ASSUME MemoryTypeOK, NEW n \in Peers, NEW l, PeerGoto(n, l)
  PROVE  \A k : PeersAt(k)' = IF k = l THEN PeersAt(k) \cup {n} ELSE PeersAt(k) \ {n}
BY ZenonT(40) DEF PeersAt, PeerGoto, MemoryTypeOK

\* The types in parts.
SetTypes == process \in Placements /\ unlisted \subseteq Processes /\ dead \subseteq Processes
FlagTypes ==
  /\ linked \in BOOLEAN /\ sized \in BOOLEAN /\ magic \in BOOLEAN
  /\ owned \in BOOLEAN /\ ready \in BOOLEAN /\ listed \in BOOLEAN
OwnerType ==
  owner \in {"new", "size", "fill", "own", "register", "ready", "running", "uncount",
             "unregister", "grace", "unlink", "gone"}
MasterType == master \in {"idle", "unlink", "unlink leftover", "empty fault", "write fault"}
ListTypes == pids \in [Slots -> Processes \cup {None}] /\ count \in Int
PeerTypes ==
  /\ peer \in [Peers -> {"idle", "open", "verify", "list", "count", "queue", "connected", "unlist", "uncount"}]
  /\ added \in [Peers -> BOOLEAN] /\ connects \in [Peers -> 0 .. MaxConnects]

\* They make up TypeOK.
LEMMA MemoryTypeParts ==
  /\ MemoryTypeOK <=> SetTypes /\ FlagTypes /\ OwnerType /\ MasterType /\ ListTypes /\ PeerTypes
  /\ MemoryTypeOK' <=> SetTypes' /\ FlagTypes' /\ OwnerType' /\ MasterType' /\ ListTypes' /\ PeerTypes'
BY DEF MemoryTypeOK, SetTypes, FlagTypes, OwnerType, MasterType, ListTypes, PeerTypes

\* Memory that nobody uses satisfies the invariant.
LEMMA MemoryStarts == ASSUME MemoryAssumption, MemoryInit PROVE MemoryIInv
<1>1. MemoryTypeOK
  <2>1. SetTypes /\ FlagTypes /\ OwnerType /\ MasterType
    BY DEF MemoryInit, SetTypes, FlagTypes, OwnerType, MasterType
  <2>2. ListTypes
    BY SMTT(30) DEF MemoryInit, ListTypes
  <2>3. PeerTypes
    <3>1. 0 \in 0 .. MaxConnects
      BY SMTT(30) DEF MemoryAssumption
    <3> QED
      BY <3>1 DEF MemoryInit, PeerTypes
  <2> QED
    BY <2>1, <2>2, <2>3, MemoryTypeParts
<1>2. \A p \in Processes : SlotsOf(p) = {} /\ Holders(p) = {}
  BY SMTT(30) DEF MemoryAssumption, MemoryInit, SlotsOf, Holders, HoldsSlot
<1>3. Recorded
  BY <1>2 DEF Recorded
<1>4. Occupied = {} /\ PeersAt("count") = {} /\ PeersAt("uncount") = {}
  BY SMTT(30) DEF MemoryInit, Occupied, SlotsOf, PeersAt
<1>5. Cardinality(Occupied) = 0 /\ Cardinality(PeersAt("count")) = 0 /\ Cardinality(PeersAt("uncount")) = 0
  BY <1>4, FS_EmptySet
<1>6. Counted
  BY SMTT(30), <1>5 DEF Counted, MemoryInit
<1>7. NotAdded /\ Verified
  BY SMTT(30) DEF NotAdded, Verified, MemoryInit
<1> QED
  BY <1>1, <1>3, <1>6, <1>7 DEF MemoryIInv, AccessorsRecorded

\* The steps after which list, counter, and who is where between two stores are as
\* they were.
Elsewhere ==
  /\ UNCHANGED <<process, pids, count>> /\ dead \subseteq dead' /\ unlisted \subseteq unlisted'
  /\ owner = "uncount" <=> owner' = "uncount"
  /\ \A n \in Peers : /\ peer[n] = "count" <=> peer'[n] = "count"
                      /\ peer[n] = "uncount" <=> peer'[n] = "uncount"
                      /\ HoldsSlot(n) <=> HoldsSlot(n)'

\* They keep the list and the counter right.
LEMMA ElsewhereKeeps ==
  ASSUME MemoryIInv, Elsewhere
  PROVE  Recorded' /\ Counted'
<1>1. \A p : SlotsOf(p)' = SlotsOf(p)
  BY DEF Elsewhere, SlotsOf
<1>2. \A p : Holders(p)' = Holders(p)
  BY DEF Elsewhere, Holders
<1>3. Recorded'
  BY <1>1, <1>2 DEF MemoryIInv, AccessorsRecorded, Recorded, Elsewhere
<1>4. Occupied' = Occupied
  BY <1>1 DEF Occupied
<1>5. PeersAt("count")' = PeersAt("count") /\ PeersAt("uncount")' = PeersAt("uncount")
  BY DEF Elsewhere, PeersAt
<1>6. Counted'
  BY <1>4, <1>5 DEF MemoryIInv, AccessorsRecorded, Counted, Elsewhere
<1> QED
  BY <1>3, <1>6

\* addAccessorToNode keeps the list and the counter right.
LEMMA AddPidKeeps ==
  ASSUME MemoryAssumption, MemoryIInv, NEW n \in Peers, AddPid(n)
  PROVE  Recorded' /\ Counted'
<1> USE DEF MemoryIInv, AccessorsRecorded
<1>1. PICK q : q = process[n]
  OBVIOUS
<1>2. q \in Processes /\ q # None /\ peer[n] = "list" /\ process' = process /\ count' = count /\ owner' = owner
      /\ dead' = dead
  <2>1. process \in [Peers -> Processes] /\ None \notin Processes
    BY DEF MemoryAssumption, MemoryTypeOK
  <2> QED
    BY <1>1, <2>1 DEF AddPid, PeerAt
<1>3. CASE SlotsOf(None) # {}
  <2>1. PICK i : i = Min(SlotsOf(None))
    OBVIOUS
  <2>2. i \in Slots /\ pids[i] = None
    <3>1. SlotsOf(None) \in SUBSET Slots
      BY DEF SlotsOf
    <3>2. i \in SlotsOf(None)
      BY <1>3, <2>1, <3>1, FirstSlot
    <3> QED
      BY <3>2 DEF SlotsOf
  <2>3. /\ pids' = [pids EXCEPT ![i] = q] /\ added' = [added EXCEPT ![n] = TRUE]
        /\ PeerGoto(n, "count") /\ unlisted' = unlisted
    BY <1>1, <1>3, <2>1 DEF AddPid
  <2>4. \A p : SlotsOf(p)' = IF p = q THEN SlotsOf(p) \cup {i} ELSE SlotsOf(p) \ {i}
    BY <2>2, <2>3, StoreMoves DEF MemoryTypeOK
  <2>5. \A k : PeersAt(k)' = IF k = "count" THEN PeersAt(k) \cup {n} ELSE PeersAt(k) \ {n}
    BY <2>3, PeerMoves
  <2>6. Counted'
    <3>1. Occupied' = Occupied \cup {i} /\ i \notin Occupied /\ Occupied \subseteq Slots
      <4>1. SlotsOf(None)' = SlotsOf(None) \ {i}
        BY <1>2, <2>4
      <4>2. i \in SlotsOf(None)
        BY <2>2 DEF SlotsOf
      <4> QED
        BY <2>2, <4>1, <4>2 DEF Occupied
    <3>2. n \notin PeersAt("count") /\ n \notin PeersAt("uncount")
      BY <1>2 DEF PeersAt
    <3>3. PeersAt("count")' = PeersAt("count") \cup {n} /\ PeersAt("uncount")' = PeersAt("uncount")
      <4>1. PeersAt("count")' = PeersAt("count") \cup {n} /\ PeersAt("uncount")' = PeersAt("uncount") \ {n}
        BY <2>5
      <4> QED
        BY <3>2, <4>1
    <3>4. Cardinality(Occupied') = Cardinality(Occupied) + 1 /\ Cardinality(Occupied) \in Nat
      BY <3>1, MemorySets, FS_AddElement
    <3>5. Cardinality(PeersAt("count")') = Cardinality(PeersAt("count")) + 1
          /\ Cardinality(PeersAt("count")) \in Nat
      <4>1. PeersAt("count") \in SUBSET Peers
        BY DEF PeersAt
      <4> QED
        BY <3>2, <3>3, <4>1, MemorySets, FS_AddElement
    <3>6. Cardinality(PeersAt("uncount")) \in Nat
      BY MemorySets DEF PeersAt
    <3> QED
      <4>1. PICK e \in {0, 1} : e = IF owner = "uncount" THEN 1 ELSE 0
        OBVIOUS
      <4>2. count = Cardinality(Occupied) - Cardinality(PeersAt("count")) + Cardinality(PeersAt("uncount")) + e
        BY <4>1 DEF Counted
      <4>3. count = (Cardinality(Occupied) + 1) - (Cardinality(PeersAt("count")) + 1) + Cardinality(PeersAt("uncount"))
                    + e
        BY SMTT(30), <3>4, <3>5, <3>6, <4>2
      <4>4. count = Cardinality(Occupied') - Cardinality(PeersAt("count")') + Cardinality(PeersAt("uncount")') + e
        BY <3>3, <3>4, <3>5, <4>3
      <4> QED
        BY <1>2, <4>1, <4>4 DEF Counted
  <2>7. Recorded'
    <3>1. SUFFICES ASSUME NEW p \in Processes \ (dead \cup unlisted \cup {OwnerProcess})
                   PROVE  Cardinality(SlotsOf(p)') = Cardinality(Holders(p)')
      BY <1>2, <2>3 DEF Recorded
    <3>2. Cardinality(SlotsOf(p)) = Cardinality(Holders(p))
      BY DEF Recorded
    <3>3. i \notin SlotsOf(p) /\ n \notin Holders(p) /\ SlotsOf(p) \in SUBSET Slots
          /\ Holders(p) \in SUBSET Peers
      <4>1. i \notin SlotsOf(p)
        BY <2>2 DEF SlotsOf, MemoryAssumption
      <4>2. n \notin Holders(p)
        BY <1>2 DEF Holders, HoldsSlot
      <4> QED
        BY <4>1, <4>2 DEF SlotsOf, Holders
    <3>4. CASE p = q
      <4>1. SlotsOf(p)' = SlotsOf(p) \cup {i}
        BY <2>4, <3>4
      <4>2. Holders(p)' = Holders(p) \cup {n}
        BY ZenonT(40), <1>1, <1>2, <2>3, <3>4 DEF Holders, HoldsSlot, PeerGoto, MemoryTypeOK
      <4> QED
        BY SMTT(30), <3>2, <3>3, <4>1, <4>2, MemorySets, FS_AddElement
    <3>5. CASE p # q
      <4>1. SlotsOf(p)' = SlotsOf(p)
        <5>1. SlotsOf(p)' = SlotsOf(p) \ {i}
          BY <2>4, <3>5
        <5> QED
          BY <3>3, <5>1
      <4>2. Holders(p)' = Holders(p)
        BY ZenonT(40), <1>1, <1>2, <2>3, <3>5 DEF Holders, HoldsSlot, PeerGoto, MemoryTypeOK
      <4> QED
        BY <3>2, <4>1, <4>2
    <3> QED
      BY <3>4, <3>5
  <2> QED
    BY <2>6, <2>7
<1>4. CASE SlotsOf(None) = {}
  <2>1. Elsewhere
    BY ZenonT(40), <1>2, <1>4 DEF Elsewhere, AddPid, PeerGoto, MemoryTypeOK, HoldsSlot
  <2> QED
    BY <2>1, ElsewhereKeeps
<1> QED
  BY <1>3, <1>4

\* removeAccessorFromNode keeps the list and the counter right.
LEMMA RemovePidKeeps ==
  ASSUME MemoryAssumption, MemoryIInv, NEW n \in Peers, RemovePid(n)
  PROVE  Recorded' /\ Counted'
<1> USE DEF MemoryIInv, AccessorsRecorded
<1>1. PICK q : q = process[n]
  OBVIOUS
<1>2. /\ q \in Processes /\ q # None /\ peer[n] = "unlist" /\ process' = process /\ count' = count
      /\ owner' = owner /\ dead' = dead /\ unlisted' = unlisted /\ added' = added
  <2>1. process \in [Peers -> Processes] /\ None \notin Processes
    BY DEF MemoryAssumption, MemoryTypeOK
  <2> QED
    BY <1>1, <2>1 DEF RemovePid, PeerAt
<1>3. q \notin unlisted => n \in Holders(q)
  BY <1>1, <1>2 DEF NotAdded, Holders, HoldsSlot
<1>4. CASE SlotsOf(q) # {}
  <2>1. PICK i : i = Min(SlotsOf(q))
    OBVIOUS
  <2>2. i \in Slots /\ pids[i] = q
    <3>1. SlotsOf(q) \in SUBSET Slots
      BY DEF SlotsOf
    <3>2. i \in SlotsOf(q)
      BY <1>4, <2>1, <3>1, FirstSlot
    <3> QED
      BY <3>2 DEF SlotsOf
  <2>3. pids' = [pids EXCEPT ![i] = None] /\ PeerGoto(n, "uncount")
    BY <1>1, <1>4, <2>1 DEF RemovePid
  <2>4. \A p : SlotsOf(p)' = IF p = None THEN SlotsOf(p) \cup {i} ELSE SlotsOf(p) \ {i}
    BY <2>2, <2>3, StoreMoves DEF MemoryTypeOK
  <2>5. \A k : PeersAt(k)' = IF k = "uncount" THEN PeersAt(k) \cup {n} ELSE PeersAt(k) \ {n}
    BY <2>3, PeerMoves
  <2>6. Counted'
    <3>1. Occupied' = Occupied \ {i} /\ i \in Occupied /\ Occupied \subseteq Slots
      <4>1. SlotsOf(None)' = SlotsOf(None) \cup {i}
        BY <2>4
      <4>2. i \notin SlotsOf(None)
        BY <1>2, <2>2 DEF SlotsOf
      <4> QED
        BY <2>2, <4>1, <4>2 DEF Occupied
    <3>2. n \notin PeersAt("count") /\ n \notin PeersAt("uncount")
      BY <1>2 DEF PeersAt
    <3>3. PeersAt("uncount")' = PeersAt("uncount") \cup {n} /\ PeersAt("count")' = PeersAt("count")
      <4>1. PeersAt("uncount")' = PeersAt("uncount") \cup {n} /\ PeersAt("count")' = PeersAt("count") \ {n}
        BY <2>5
      <4> QED
        BY <3>2, <4>1
    <3>4. Cardinality(Occupied') = Cardinality(Occupied) - 1 /\ Cardinality(Occupied) \in Nat
      BY <3>1, MemorySets, FS_RemoveElement
    <3>5. Cardinality(PeersAt("uncount")') = Cardinality(PeersAt("uncount")) + 1
          /\ Cardinality(PeersAt("uncount")) \in Nat
      <4>1. PeersAt("uncount") \in SUBSET Peers
        BY DEF PeersAt
      <4> QED
        BY <3>2, <3>3, <4>1, MemorySets, FS_AddElement
    <3>6. Cardinality(PeersAt("count")) \in Nat
      BY MemorySets DEF PeersAt
    <3> QED
      <4>1. PICK e \in {0, 1} : e = IF owner = "uncount" THEN 1 ELSE 0
        OBVIOUS
      <4>2. count = Cardinality(Occupied) - Cardinality(PeersAt("count")) + Cardinality(PeersAt("uncount")) + e
        BY <4>1 DEF Counted
      <4>3. count = (Cardinality(Occupied) - 1) - Cardinality(PeersAt("count")) + (Cardinality(PeersAt("uncount")) + 1)
                    + e
        BY SMTT(30), <3>4, <3>5, <3>6, <4>2
      <4>4. count = Cardinality(Occupied') - Cardinality(PeersAt("count")') + Cardinality(PeersAt("uncount")') + e
        BY <3>3, <3>4, <3>5, <4>3
      <4> QED
        BY <1>2, <4>1, <4>4 DEF Counted
  <2>7. Recorded'
    <3>1. SUFFICES ASSUME NEW p \in Processes \ (dead \cup unlisted \cup {OwnerProcess})
                   PROVE  Cardinality(SlotsOf(p)') = Cardinality(Holders(p)')
      BY <1>2 DEF Recorded
    <3>2. Cardinality(SlotsOf(p)) = Cardinality(Holders(p)) /\ p # None
      BY DEF Recorded, MemoryAssumption
    <3>3. SlotsOf(p) \in SUBSET Slots /\ Holders(p) \in SUBSET Peers /\ SlotsOf(p)' = SlotsOf(p) \ {i}
      BY ZenonT(40), <2>4, <3>2 DEF SlotsOf, Holders
    <3>4. CASE p = q
      <4>1. i \in SlotsOf(p) /\ n \in Holders(p)
        BY <1>3, <2>2, <3>4 DEF SlotsOf
      <4>2. Holders(p)' = Holders(p) \ {n}
        BY ZenonT(40), <1>1, <1>2, <2>3, <3>4 DEF Holders, HoldsSlot, PeerGoto, MemoryTypeOK
      <4> QED
        BY SMTT(30), <3>2, <3>3, <4>1, <4>2, MemorySets, FS_RemoveElement
    <3>5. CASE p # q
      <4>1. i \notin SlotsOf(p)
        BY <2>2, <3>5 DEF SlotsOf
      <4>2. SlotsOf(p)' = SlotsOf(p)
        BY <3>3, <4>1
      <4>3. Holders(p)' = Holders(p)
        BY ZenonT(40), <1>1, <1>2, <2>3, <3>5 DEF Holders, HoldsSlot, PeerGoto, MemoryTypeOK
      <4> QED
        BY <3>2, <4>2, <4>3
    <3> QED
      BY <3>4, <3>5
  <2> QED
    BY <2>6, <2>7
<1>5. CASE SlotsOf(q) = {}
  <2>1. PeerGoto(n, "idle") /\ pids' = pids
    BY <1>1, <1>5 DEF RemovePid
  <2>2. \A p : SlotsOf(p)' = SlotsOf(p)
    BY <2>1 DEF SlotsOf
  <2>3. PeersAt("count")' = PeersAt("count") /\ PeersAt("uncount")' = PeersAt("uncount")
    <3>1. n \notin PeersAt("count") /\ n \notin PeersAt("uncount")
      BY <1>2 DEF PeersAt
    <3>2. MemoryTypeOK
      OBVIOUS
    <3>3. \A k : PeersAt(k)' = IF k = "idle" THEN PeersAt(k) \cup {n} ELSE PeersAt(k) \ {n}
      BY <2>1, <3>2, PeerMoves
    <3>4. PeersAt("count")' = PeersAt("count") \ {n} /\ PeersAt("uncount")' = PeersAt("uncount") \ {n}
      BY <3>3
    <3> QED
      BY <3>1, <3>4
  <2>4. Counted'
    BY <1>2, <2>2, <2>3 DEF Counted, Occupied
  <2>5. Recorded'
    <3>1. SUFFICES ASSUME NEW p \in Processes \ (dead \cup unlisted \cup {OwnerProcess})
                   PROVE  Cardinality(SlotsOf(p)') = Cardinality(Holders(p)')
      BY <1>2 DEF Recorded
    <3>2. Cardinality(SlotsOf(p)) = Cardinality(Holders(p))
      BY DEF Recorded
    <3>3. p # q
      <4>1. SUFFICES ASSUME p = q PROVE FALSE
        OBVIOUS
      <4>2. n \in Holders(p) /\ Holders(p) \in SUBSET Peers
        BY <1>3, <4>1 DEF Holders
      <4>3. IsFiniteSet(Holders(p))
        BY <4>2, MemorySets
      <4>4. Cardinality(Holders(p)) = 0
        BY <1>5, <3>2, <4>1, FS_EmptySet
      <4> QED
        BY <4>2, <4>3, <4>4, FS_EmptySet
    <3>4. Holders(p)' = Holders(p)
      BY ZenonT(40), <1>1, <1>2, <2>1, <3>3 DEF Holders, HoldsSlot, PeerGoto, MemoryTypeOK
    <3> QED
      BY <2>2, <3>2, <3>4
  <2> QED
    BY <2>4, <2>5
<1> QED
  BY <1>4, <1>5

\* So do the stores into the counter.
LEMMA CountKeeps ==
  ASSUME MemoryAssumption, MemoryIInv, NEW n \in Peers, AddCount(n) \/ RemoveCount(n)
  PROVE  Recorded' /\ Counted'
<1> USE DEF MemoryIInv, AccessorsRecorded
<1>1. /\ process' = process /\ pids' = pids /\ owner' = owner /\ dead' = dead /\ unlisted' = unlisted
      /\ added' = added
      /\ \/ peer[n] = "count" /\ PeerGoto(n, "queue") /\ count' = count + 1
         \/ peer[n] = "uncount" /\ PeerGoto(n, "idle") /\ count' = count - 1
  BY DEF AddCount, RemoveCount, PeerAt
<1>2. \A p : SlotsOf(p)' = SlotsOf(p)
  BY <1>1 DEF SlotsOf
<1>3. \A p : Holders(p)' = Holders(p)
  BY ZenonT(40), <1>1 DEF Holders, HoldsSlot, PeerGoto, MemoryTypeOK
<1>4. Recorded'
  BY <1>1, <1>2, <1>3 DEF Recorded
<1>5. /\ Occupied' = Occupied /\ Occupied \in SUBSET Slots
      /\ PeersAt("count") \in SUBSET Peers /\ PeersAt("uncount") \in SUBSET Peers
  BY <1>2 DEF Occupied, PeersAt
<1>6. Cardinality(Occupied) \in Nat /\ Cardinality(PeersAt("count")) \in Nat
      /\ Cardinality(PeersAt("uncount")) \in Nat
  BY <1>5, MemorySets
<1>7. CASE peer[n] = "count"
  <2>1. PeersAt("count")' = PeersAt("count") \ {n} /\ PeersAt("uncount")' = PeersAt("uncount")
        /\ count' = count + 1
    <3>1. PeerGoto(n, "queue") /\ count' = count + 1
      BY <1>1, <1>7
    <3>2. MemoryTypeOK
      OBVIOUS
    <3>3. \A k : PeersAt(k)' = IF k = "queue" THEN PeersAt(k) \cup {n} ELSE PeersAt(k) \ {n}
      BY <3>1, <3>2, PeerMoves
    <3>4. PeersAt("count")' = PeersAt("count") \ {n} /\ PeersAt("uncount")' = PeersAt("uncount") \ {n}
      BY <3>3
    <3>5. n \notin PeersAt("uncount")
      BY <1>7 DEF PeersAt
    <3> QED
      BY <3>1, <3>4, <3>5
  <2>2. n \in PeersAt("count")
    BY <1>7 DEF PeersAt
  <2>3. Cardinality(PeersAt("count")') = Cardinality(PeersAt("count")) - 1
    BY SMTT(30), <1>5, <2>1, <2>2, MemorySets, FS_RemoveElement
  <2>9. count \in Int
    BY DEF MemoryTypeOK
  <2> QED
    BY SMTT(60), <1>1, <1>4, <1>5, <1>6, <2>1, <2>3, <2>9 DEF Counted
<1>8. CASE peer[n] = "uncount"
  <2>1. PeersAt("uncount")' = PeersAt("uncount") \ {n} /\ PeersAt("count")' = PeersAt("count")
        /\ count' = count - 1
    <3>1. PeerGoto(n, "idle") /\ count' = count - 1
      BY <1>1, <1>8
    <3>2. MemoryTypeOK
      OBVIOUS
    <3>3. \A k : PeersAt(k)' = IF k = "idle" THEN PeersAt(k) \cup {n} ELSE PeersAt(k) \ {n}
      BY <3>1, <3>2, PeerMoves
    <3>4. PeersAt("uncount")' = PeersAt("uncount") \ {n} /\ PeersAt("count")' = PeersAt("count") \ {n}
      BY <3>3
    <3>5. n \notin PeersAt("count")
      BY <1>8 DEF PeersAt
    <3> QED
      BY <3>1, <3>4, <3>5
  <2>2. n \in PeersAt("uncount")
    BY <1>8 DEF PeersAt
  <2>3. Cardinality(PeersAt("uncount")') = Cardinality(PeersAt("uncount")) - 1
    BY SMTT(30), <1>5, <2>1, <2>2, MemorySets, FS_RemoveElement
  <2>9. count \in Int
    BY DEF MemoryTypeOK
  <2> QED
    BY SMTT(30), <1>1, <1>4, <1>5, <1>6, <2>1, <2>3, <2>9 DEF Counted
<1> QED
  BY <1>1, <1>7, <1>8

\* The owner's removeAccessor takes no entry of another process.
LEMMA DropOwnKeeps ==
  ASSUME MemoryAssumption, MemoryIInv, DropOwnPid \/ DropOwnCount
  PROVE  Recorded' /\ Counted'
<1> USE DEF MemoryIInv, AccessorsRecorded
<1>1. /\ process' = process /\ peer' = peer /\ dead' = dead /\ unlisted' = unlisted /\ added' = added
      /\ OwnerProcess \in Processes /\ None \notin Processes
  BY DEF DropOwnPid, DropOwnCount, MemoryAssumption
<1>2. \A p : Holders(p)' = Holders(p) /\ PeersAt(p)' = PeersAt(p)
  BY <1>1 DEF Holders, HoldsSlot, PeersAt
<1>3. Occupied \in SUBSET Slots /\ PeersAt("count") \in SUBSET Peers /\ PeersAt("uncount") \in SUBSET Peers
  BY DEF Occupied, PeersAt
<1>4. Cardinality(Occupied) \in Nat /\ Cardinality(PeersAt("count")) \in Nat
      /\ Cardinality(PeersAt("uncount")) \in Nat
  BY <1>3, MemorySets
<1>5. CASE DropOwnPid /\ SlotsOf(OwnerProcess) # {}
  <2>1. PICK i : i = Min(SlotsOf(OwnerProcess))
    OBVIOUS
  <2>2. i \in Slots /\ pids[i] = OwnerProcess
    <3>1. SlotsOf(OwnerProcess) \in SUBSET Slots
      BY DEF SlotsOf
    <3>2. i \in SlotsOf(OwnerProcess)
      BY <1>5, <2>1, <3>1, FirstSlot
    <3> QED
      BY <3>2 DEF SlotsOf
  <2>3. pids' = [pids EXCEPT ![i] = None] /\ owner = "running" /\ owner' = "uncount" /\ count' = count
    BY <1>5, <2>1 DEF DropOwnPid, OwnerAt
  <2>4. \A p : SlotsOf(p)' = IF p = None THEN SlotsOf(p) \cup {i} ELSE SlotsOf(p) \ {i}
    BY <2>2, <2>3, StoreMoves DEF MemoryTypeOK
  <2>5. \A p \in Processes \ {OwnerProcess} : SlotsOf(p)' = SlotsOf(p)
    <3>1. SUFFICES ASSUME NEW p \in Processes \ {OwnerProcess} PROVE SlotsOf(p)' = SlotsOf(p)
      OBVIOUS
    <3>2. SlotsOf(p)' = SlotsOf(p) \ {i}
      BY <2>4 DEF MemoryAssumption
    <3>3. i \notin SlotsOf(p)
      BY <2>2 DEF SlotsOf
    <3> QED
      BY <3>2, <3>3
  <2>6. Recorded'
    BY ZenonT(40), <1>1, <1>2, <2>5 DEF Recorded
  <2>7. Occupied' = Occupied \ {i} /\ i \in Occupied
    BY SMTT(30), <1>1, <2>2, <2>4 DEF Occupied, SlotsOf
  <2>8. Cardinality(Occupied') = Cardinality(Occupied) - 1
    BY <1>3, <2>7, MemorySets, FS_RemoveElement
  <2> QED
    BY SMTT(30), <1>2, <1>4, <2>3, <2>6, <2>8 DEF Counted
<1>6. CASE DropOwnPid /\ SlotsOf(OwnerProcess) = {}
  <2>1. Elsewhere
    BY <1>1, <1>6 DEF DropOwnPid, OwnerAt, Elsewhere, HoldsSlot
  <2> QED
    BY <2>1, ElsewhereKeeps
<1>7. CASE DropOwnCount
  <2>1. pids' = pids /\ owner = "uncount" /\ owner' = "unregister" /\ count' = count - 1
    BY <1>7 DEF DropOwnCount, OwnerAt
  <2>2. \A p : SlotsOf(p)' = SlotsOf(p)
    BY <2>1 DEF SlotsOf
  <2>3. Recorded'
    BY <1>1, <1>2, <2>2 DEF Recorded
  <2>4. Occupied' = Occupied
    BY <2>2 DEF Occupied
  <2>9. count \in Int
    BY DEF MemoryTypeOK
  <2> QED
    BY SMTT(90), <1>2, <1>4, <2>1, <2>3, <2>4, <2>9 DEF Counted
<1> QED
  BY <1>5, <1>6, <1>7

\* hasActiveAccessors takes the entries of dead processes only, and counts them off.
LEMMA SweepKeeps ==
  ASSUME MemoryAssumption, MemoryIInv, CheckAccessors
  PROVE  Recorded' /\ Counted'
<1> USE DEF MemoryIInv, AccessorsRecorded
<1>1. /\ process' = process /\ peer' = peer /\ dead' = dead /\ unlisted' = unlisted /\ added' = added
      /\ owner # "uncount" /\ owner' # "uncount" /\ None \notin dead /\ dead \subseteq Processes
  BY DEF CheckAccessors, OwnerAt, MemoryAssumption, MemoryTypeOK
<1>2. \A p : Holders(p)' = Holders(p) /\ PeersAt(p)' = PeersAt(p)
  BY <1>1 DEF Holders, HoldsSlot, PeersAt
<1>3. /\ Occupied \in SUBSET Slots /\ Dead \in SUBSET Slots
      /\ PeersAt("count") \in SUBSET Peers /\ PeersAt("uncount") \in SUBSET Peers
  BY DEF Occupied, PeersAt, Dead
<1>4. /\ Cardinality(Occupied) \in Nat /\ Cardinality(Dead) \in Nat
      /\ Cardinality(PeersAt("count")) \in Nat /\ Cardinality(PeersAt("uncount")) \in Nat
  BY <1>3, MemorySets
<1>5. CASE Swept
  <2>1. pids' = [i \in Slots |-> IF i \in Dead THEN None ELSE pids[i]] /\ count' = count - Cardinality(Dead)
    BY <1>5 DEF CheckAccessors, DropDead
  <2>2. \A p \in Processes \ dead : SlotsOf(p)' = SlotsOf(p)
    BY ZenonT(40), <2>1 DEF SlotsOf, Dead, MemoryAssumption, MemoryTypeOK
  <2>3. Recorded'
    BY <1>1, <1>2, <2>2 DEF Recorded
  <2>4. Occupied' = Occupied \ Dead /\ Occupied \cap Dead = Dead
    BY ZenonT(40), <1>1, <2>1 DEF Occupied, SlotsOf, Dead, MemoryTypeOK
  <2>5. Cardinality(Occupied') = Cardinality(Occupied) - Cardinality(Dead)
    BY <1>3, <2>4, MemorySets, FS_Difference
  <2>9. count \in Int
    BY DEF MemoryTypeOK
  <2> QED
    BY SMTT(30), <1>1, <1>2, <1>4, <2>1, <2>3, <2>5, <2>9 DEF Counted
<1>6. CASE ~Swept
  <2>1. Elsewhere
    BY <1>1, <1>6 DEF CheckAccessors, DropDead, Elsewhere, HoldsSlot
  <2> QED
    BY <2>1, ElsewhereKeeps
<1> QED
  BY <1>5, <1>6

\* Every step keeps the types.
LEMMA MemoryType ==
  ASSUME MemoryAssumption, MemoryTypeOK, [MemoryNext]_memoryVars
  PROVE  MemoryTypeOK'
<1>1. SetTypes /\ FlagTypes /\ OwnerType /\ MasterType /\ ListTypes /\ PeerTypes
  BY MemoryTypeParts
<1>2. process \in [Peers -> Processes] /\ None \notin Processes
  BY <1>1 DEF MemoryAssumption, SetTypes
<1>3. ASSUME NEW n \in Peers, PeerStep(n) PROVE MemoryTypeOK'
  <2>1. SetTypes' /\ FlagTypes' /\ OwnerType' /\ MasterType'
    <3>1. /\ UNCHANGED <<process, linked, sized, magic, owned, ready, listed, owner, master, dead>>
          /\ unlisted' = unlisted \/ unlisted' = unlisted \cup {process[n]}
      BY ZenonT(40), <1>3 DEF PeerStep, Lookup, Open, Verify, AddPid, AddCount, Connected, QueueFails,
         Disconnect, RemovePid, RemoveCount, memory
    <3>2. SetTypes'
      BY <1>1, <1>2, <3>1 DEF SetTypes
    <3>3. FlagTypes' /\ OwnerType' /\ MasterType'
      BY ZenonT(40), <1>1, <3>1 DEF FlagTypes, OwnerType, MasterType
    <3> QED
      BY <3>2, <3>3
  <2>2. ListTypes'
    <3>1. CASE AddPid(n)
      BY <1>1, <1>2, <3>1 DEF AddPid, ListTypes
    <3>2. CASE RemovePid(n)
      BY <1>1, <3>2 DEF RemovePid, ListTypes
    <3>3. CASE AddCount(n) \/ RemoveCount(n)
      BY SMTT(30), <1>1, <3>3 DEF AddCount, RemoveCount, ListTypes
    <3>4. CASE Lookup(n) \/ Open(n) \/ Verify(n) \/ Connected(n) \/ QueueFails(n) \/ Disconnect(n)
      BY <1>1, <3>4 DEF Lookup, Open, Verify, Connected, QueueFails, Disconnect, memory, ListTypes
    <3> QED
      BY <1>3, <3>1, <3>2, <3>3, <3>4 DEF PeerStep
  <2>3. PeerTypes'
    <3>1. CASE Lookup(n)
      <4>1. connects[n] \in 0 .. MaxConnects /\ connects[n] < MaxConnects
        BY <1>1, <3>1 DEF Lookup, PeerTypes
      <4>2. connects[n] + 1 \in 0 .. MaxConnects
        BY SMTT(30), <4>1 DEF MemoryAssumption
      <4> QED
        BY <1>1, <3>1, <4>2 DEF Lookup, PeerGoto, PeerTypes
    <3>2. CASE AddPid(n)
      BY <1>1, <3>2 DEF AddPid, PeerGoto, PeerTypes
    <3>3. CASE RemovePid(n)
      BY <1>1, <3>3 DEF RemovePid, PeerGoto, PeerTypes
    <3>4. CASE AddCount(n) \/ RemoveCount(n) \/ Connected(n) \/ Disconnect(n)
      BY <1>1, <3>4 DEF AddCount, RemoveCount, Connected, Disconnect, PeerGoto, PeerTypes
    <3>5. CASE Open(n) \/ Verify(n) \/ QueueFails(n)
      BY <1>1, <3>5 DEF Open, Verify, QueueFails, PeerGoto, PeerTypes
    <3> QED
      BY <1>3, <3>1, <3>2, <3>3, <3>4, <3>5 DEF PeerStep
  <2> QED
    BY <2>1, <2>2, <2>3, MemoryTypeParts
<1>4. CASE OwnerStep
  <2>1. SetTypes' /\ FlagTypes' /\ OwnerType' /\ MasterType'
    <3>1. UNCHANGED <<process, unlisted, dead, master>>
      BY <1>4 DEF OwnerStep, Create, Size, Fill, Own, Register, Ready, InitializeFails, DropOwnPid,
         DropOwnCount, Unregister, CheckAccessors, Unlink
    <3>2. SetTypes' /\ MasterType'
      BY <1>1, <3>1 DEF SetTypes, MasterType
    <3>3. OwnerType'
      BY <1>4 DEF OwnerStep, Create, Size, Fill, Own, Register, Ready, InitializeFails, DropOwnPid,
         DropOwnCount, Unregister, CheckAccessors, Unlink, OwnerType
    <3>4. FlagTypes'
      BY <1>1, <1>4 DEF OwnerStep, Create, Size, Fill, Own, Register, Ready, InitializeFails, DropOwnPid,
         DropOwnCount, Unregister, CheckAccessors, Unlink, FlagTypes
    <3> QED
      BY <3>2, <3>3, <3>4
  <2>2. ListTypes'
    <3>1. CASE DropOwnPid
      BY <1>1, <3>1 DEF DropOwnPid, ListTypes
    <3>2. CASE DropOwnCount
      BY SMTT(30), <1>1, <3>2 DEF DropOwnCount, ListTypes
    <3>3. CASE CheckAccessors
      <4>1. Cardinality(Dead) \in Nat
        BY MemorySets DEF Dead
      <4>2. CASE Swept
        <5>1. pids' = [i \in Slots |-> IF i \in Dead THEN None ELSE pids[i]]
              /\ count' = count - Cardinality(Dead)
          BY <3>3, <4>2 DEF CheckAccessors, DropDead
        <5>2. count' \in Int
          BY SMTT(30), <1>1, <4>1, <5>1 DEF ListTypes
        <5> QED
          BY <1>1, <5>1, <5>2 DEF ListTypes
      <4>3. CASE ~Swept
        BY <1>1, <3>3, <4>3 DEF CheckAccessors, DropDead, ListTypes
      <4> QED
        BY <4>2, <4>3
    <3>4. CASE Create \/ Size \/ Fill \/ Own \/ Register \/ Ready \/ InitializeFails \/ Unregister \/ Unlink
      BY <1>1, <3>4 DEF Create, Size, Fill, Own, Register, Ready, InitializeFails, Unregister, Unlink, ListTypes
    <3> QED
      BY <1>4, <3>1, <3>2, <3>3, <3>4 DEF OwnerStep
  <2>3. PeerTypes'
    BY <1>1, <1>4 DEF OwnerStep, Create, Size, Fill, Own, Register, Ready, InitializeFails, DropOwnPid,
       DropOwnCount, Unregister, CheckAccessors, Unlink, PeerTypes
  <2> QED
    BY <2>1, <2>2, <2>3, MemoryTypeParts
<1>5. CASE MasterStep \/ Expire \/ (\E p \in Processes : Die(p)) \/ UNCHANGED memoryVars
  <2>1. SetTypes' /\ FlagTypes' /\ OwnerType' /\ MasterType'
    <3>1. SetTypes'
      BY <1>1, <1>5 DEF MasterStep, MasterFaults, NewMaster, MasterJudges, MasterUnlinks, Expire, Die,
         memoryVars, memory, SetTypes
    <3>2. owner' = owner
      BY <1>5 DEF MasterStep, MasterFaults, NewMaster, MasterJudges, MasterUnlinks, Expire, Die, memoryVars,
         memory
    <3>3. MasterType'
      BY <1>1, <1>5 DEF MasterStep, MasterFaults, NewMaster, MasterJudges, MasterUnlinks, Expire, Die,
         memoryVars, memory, MasterType
    <3>4. FlagTypes'
      BY <1>1, <1>5 DEF MasterStep, MasterFaults, NewMaster, MasterJudges, MasterUnlinks, Expire, Die,
         memoryVars, memory, FlagTypes
    <3>5. OwnerType'
      BY <1>1, <3>2 DEF OwnerType
    <3> QED
      BY <3>1, <3>3, <3>4, <3>5
  <2>2. ListTypes' /\ PeerTypes'
    BY <1>1, <1>5 DEF MasterStep, MasterFaults, NewMaster, MasterJudges, MasterUnlinks, Expire, Die, memoryVars,
       memory, ListTypes, PeerTypes
  <2> QED
    BY <2>1, <2>2, MemoryTypeParts
<1> QED
  BY <1>3, <1>4, <1>5 DEF MemoryNext

\* A step keeps the list, the counter, and what they rest on.
LEMMA MemoryGoesOn == ASSUME MemoryAssumption, MemoryIInv, [MemoryNext]_memoryVars PROVE MemoryIInv'
<1>1. MemoryTypeOK'
  BY MemoryType DEF MemoryIInv, AccessorsRecorded
<1>2. MemoryTypeOK
  BY DEF MemoryIInv, AccessorsRecorded
<1>3. Recorded' /\ Counted'
  <2>1. ASSUME NEW n \in Peers, PeerStep(n) PROVE Recorded' /\ Counted'
    <3>1. CASE Lookup(n) \/ Open(n) \/ Verify(n) \/ Connected(n) \/ QueueFails(n) \/ Disconnect(n)
      <4>1. Elsewhere
        BY ZenonT(40), <1>2, <3>1 DEF Lookup, Open, Verify, Connected, QueueFails, Disconnect, PeerAt, PeerGoto,
           memory, Elsewhere, HoldsSlot, MemoryTypeOK
      <4> QED
        BY <4>1, ElsewhereKeeps
    <3> QED
      BY <2>1, <3>1, AddPidKeeps, RemovePidKeeps, CountKeeps DEF PeerStep
  <2>2. CASE OwnerStep
    <3>1. CASE Create \/ Size \/ Fill \/ Own \/ Register \/ Ready \/ InitializeFails \/ Unregister \/ Unlink
      <4>1. Elsewhere
        BY <3>1 DEF Create, Size, Fill, Own, Register, Ready, InitializeFails, Unregister, Unlink, OwnerAt,
           Elsewhere, HoldsSlot
      <4> QED
        BY <4>1, ElsewhereKeeps
    <3> QED
      BY <2>2, <3>1, DropOwnKeeps, SweepKeeps DEF OwnerStep
  <2>3. CASE MasterStep \/ Expire \/ (\E p \in Processes : Die(p)) \/ UNCHANGED memoryVars
    <3>1. Elsewhere
      BY <2>3 DEF MasterStep, MasterFaults, NewMaster, MasterJudges, MasterUnlinks, Expire, Die, memoryVars,
         memory, Elsewhere, HoldsSlot
    <3> QED
      BY <3>1, ElsewhereKeeps
  <2> QED
    BY <2>1, <2>2, <2>3 DEF MemoryNext
<1>4. NotAdded'
  <2>1. NotAdded
    BY DEF MemoryIInv
  <2>2. ASSUME NEW n \in Peers, PeerStep(n) PROVE NotAdded'
    <3>1. CASE AddPid(n)
      BY ZenonT(40), <1>2, <2>1, <3>1 DEF AddPid, PeerAt, PeerGoto, NotAdded, MemoryTypeOK
    <3>2. CASE ~AddPid(n)
      BY ZenonT(40), <1>2, <2>1, <2>2, <3>2 DEF PeerStep, Lookup, Open, Verify, AddCount, Connected, QueueFails,
         Disconnect, RemovePid, RemoveCount, PeerAt, PeerGoto, memory, NotAdded, MemoryTypeOK
    <3> QED
      BY <3>1, <3>2
  <2>3. CASE UNCHANGED <<peer, added, process, unlisted>>
    BY <2>1, <2>3 DEF NotAdded
  <2>4. CASE OwnerStep
    BY <2>3, <2>4 DEF OwnerStep, Create, Size, Fill, Own, Register, Ready, InitializeFails, DropOwnPid,
       DropOwnCount, Unregister, CheckAccessors, Unlink
  <2>5. CASE MasterStep \/ Expire \/ (\E p \in Processes : Die(p)) \/ UNCHANGED memoryVars
    BY <2>3, <2>5 DEF MasterStep, MasterFaults, NewMaster, MasterJudges, MasterUnlinks, Expire, Die, memoryVars,
       memory
  <2> QED
    BY <2>2, <2>4, <2>5 DEF MemoryNext
<1>5. Verified'
  <2>1. Verified
    BY DEF MemoryIInv
  <2>2. magic => magic'
    BY <1>2 DEF MemoryNext, OwnerStep, Create, Size, Fill, Own, Register, Ready, InitializeFails, DropOwnPid,
       DropOwnCount, Unregister, CheckAccessors, Unlink, PeerStep, Lookup, Open, Verify, AddPid, AddCount,
       Connected, QueueFails, Disconnect, RemovePid, RemoveCount, MasterStep, MasterFaults, NewMaster,
       MasterJudges, MasterUnlinks, Expire, Die, memory, memoryVars
  <2>3. ASSUME NEW n \in Peers, PeerStep(n) PROVE Verified'
    <3>1. CASE magic
      BY <2>2, <3>1 DEF Verified
    <3>2. CASE ~magic
      <4>1. \A m \in Peers : peer[m] \notin {"list", "count", "queue", "connected", "unlist", "uncount"}
        BY <2>1, <3>2 DEF Verified
      <4>2. Lookup(n) \/ Open(n) \/ Verify(n)
        BY <2>3, <4>1 DEF PeerStep, AddPid, AddCount, Connected, QueueFails, Disconnect, RemovePid, RemoveCount, PeerAt
      <4>3. PICK l \in {"idle", "open", "verify"} : PeerGoto(n, l)
        BY <3>2, <4>2 DEF Lookup, Open, Verify, Usable
      <4>4. \A m \in Peers : peer'[m] \in {peer[m], l}
        BY <1>2, <4>3 DEF PeerGoto, MemoryTypeOK
      <4> QED
        BY <4>1, <4>4 DEF Verified
    <3> QED
      BY <3>1, <3>2
  <2>4. CASE peer' = peer
    BY <2>1, <2>2, <2>4 DEF Verified
  <2>5. CASE OwnerStep
    BY <2>4, <2>5 DEF OwnerStep, Create, Size, Fill, Own, Register, Ready, InitializeFails, DropOwnPid,
       DropOwnCount, Unregister, CheckAccessors, Unlink
  <2>6. CASE MasterStep \/ Expire \/ (\E p \in Processes : Die(p)) \/ UNCHANGED memoryVars
    BY <2>4, <2>6 DEF MasterStep, MasterFaults, NewMaster, MasterJudges, MasterUnlinks, Expire, Die, memoryVars
  <2> QED
    BY <2>3, <2>5, <2>6 DEF MemoryNext
<1> QED
  BY <1>1, <1>3, <1>4, <1>5 DEF MemoryIInv, AccessorsRecorded

\* The accessor list and its counter are right, for any number of peers, processes
\* and entries.
THEOREM MemoryInvariant == MemorySpec => []MemoryIInv
<1>1. MemoryInit => MemoryIInv
  BY MemoryStarts, MemoryAssumption
<1>2. MemoryIInv /\ [MemoryNext]_memoryVars => MemoryIInv'
  BY MemoryGoesOn, MemoryAssumption
<1> QED
  BY <1>1, <1>2, PTL DEF MemorySpec

\* A live user of the memory stays listed, and the counter follows the list.
THEOREM AccessorsKept == MemorySpec => []AccessorsRecorded
<1>1. MemoryIInv => AccessorsRecorded
  BY DEF MemoryIInv
<1> QED
  BY <1>1, MemoryInvariant, PTL

\* While somebody uses the memory and nobody is between taking its slot and counting
\* it, hasActiveAccessors finds the user.
LEMMA UserIsActive ==
  ASSUME MemoryAssumption, MemoryIInv, NEW n \in Users, PeersAt("count") = {}
  PROVE  Active
<1> DEFINE p == process[n]
<1>1. p \in Processes \ (dead \cup unlisted \cup {OwnerProcess}) /\ n \in Holders(p) /\ p # None
  <2>1. n \in Peers /\ p \notin dead \cup unlisted \cup {OwnerProcess} /\ HoldsSlot(n)
    BY DEF Users, Live
  <2>2. process \in [Peers -> Processes]
    BY DEF MemoryIInv, AccessorsRecorded, MemoryTypeOK, MemoryAssumption
  <2>3. p \in Processes
    BY <2>1, <2>2
  <2> QED
    BY <2>1, <2>3 DEF Holders, MemoryAssumption
<1>2. Cardinality(SlotsOf(p)) = Cardinality(Holders(p))
  BY <1>1 DEF MemoryIInv, AccessorsRecorded, Recorded
<1>3. IsFiniteSet(Holders(p)) /\ Cardinality(Holders(p)) # 0
  <2>1. Holders(p) \in SUBSET Peers
    BY DEF Holders
  <2> QED
    BY <1>1, <2>1, MemorySets, FS_EmptySet
<1>4. PICK i \in Slots : pids[i] = p
  <2>1. SlotsOf(p) # {}
    BY <1>2, <1>3, FS_EmptySet
  <2> QED
    BY <2>1 DEF SlotsOf
<1>5. i \in Occupied /\ Occupied \in SUBSET Slots
  BY <1>1, <1>4 DEF Occupied, SlotsOf
<1>6. Cardinality(Occupied) \in Nat \ {0}
  BY <1>5, MemorySets, FS_EmptySet
<1>7. Cardinality(PeersAt("count")) = 0
  BY FS_EmptySet
<1>8. Cardinality(PeersAt("uncount")) \in Nat
  BY MemorySets DEF PeersAt
<1>9. count # 0
  BY SMTT(30), <1>6, <1>7, <1>8 DEF MemoryIInv, AccessorsRecorded, Counted
<1> QED
  BY <1>1, <1>4, <1>9 DEF Active

\* Neither ~SharedMemoryTransportV3 nor cleanupOrphanedMemory decides to remove memory
\* that a live process other than the owner's is connected to, unless somebody is
\* between taking its slot and counting it.
THEOREM UsersKeepMemory == MemorySpec => UsedMemoryKept
<1>1. ASSUME MemoryIInv, (CheckAccessors /\ owner' = "unlink") \/ MasterJudges, PeersAt("count") = {}
      PROVE  Users = {}
  <2> SUFFICES ASSUME NEW n \in Users PROVE FALSE
    OBVIOUS
  <2>1. Active
    BY <1>1, UserIsActive, MemoryAssumption
  <2>2. CASE CheckAccessors /\ owner' = "unlink"
    BY <2>1, <2>2 DEF CheckAccessors
  <2>3. CASE MasterJudges
    <3>1. magic
      BY <1>1 DEF Users, HoldsSlot, MemoryIInv, Verified
    <3> QED
      BY <2>1, <2>3, <3>1 DEF MasterJudges, Orphaned
  <2> QED
    BY <1>1, <2>2, <2>3
<1>2. MemoryIInv => [(CheckAccessors /\ owner' = "unlink") \/ MasterJudges
                       => PeersAt("count") # {} \/ Users = {}]_memoryVars
  BY <1>1
<1> QED
  BY <1>2, MemoryInvariant, PTL DEF UsedMemoryKept
=============================================================================
