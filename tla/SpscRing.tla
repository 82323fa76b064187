------------------------------ MODULE SpscRing ------------------------------
(***************************************************************************)
(* LockFreeRingBuffer (include/nexus/transport/LockFreeQueue.h): the       *)
(* single-producer single-consumer byte ring that every InboundQueue holds *)
(* twice, once for control and once for data messages.                     *)
(*                                                                         *)
(* Offsets are counted in words of 8 bytes, the alignment of every frame.  *)
(* tryWrite and tryRead are split at the points where the other side can   *)
(* be seen or can see a change: the load of the other side's index, the    *)
(* copy into or out of the buffer, and the store of one's own index.  A    *)
(* copy into the buffer is two steps: the words it covers are first "torn" *)
(* and then hold their values, so a read that overlaps it is visible.      *)
(*                                                                         *)
(* head_ is only stored by the producer and tail_ only by the consumer, so *)
(* the local copies a side makes of its own index always equal it.  The    *)
(* relaxed statistics counters are left out.                               *)
(***************************************************************************)
EXTENDS Integers, Sequences

CONSTANTS
  BufWords,  \* BUFFER_SIZE / 8
  MaxSize,   \* MAX_MSG_SIZE, in bytes
  Sizes,     \* the sizes callers pass to tryWrite, in bytes
  MaxCalls   \* bound on the number of tryWrite calls

ASSUME RingAssumption ==
  /\ BufWords \in Nat \ {0}
  /\ MaxSize \in Nat \ {0}
  /\ Sizes \subseteq Nat
  /\ MaxCalls \in Nat

VARIABLES
  head,       \* head_, in words
  tail,       \* tail_, in words
  buffer,     \* buffer_, one cell per word
  wpc,        \* where the producer is in tryWrite
  wmsg,       \* the message tryWrite was called with
  wtail,      \* the producer's copy of tail_
  wret,       \* what the last tryWrite returned
  rpc,        \* where the consumer is in tryRead
  rhead,      \* the consumer's copy of head_
  rlen,       \* header.length as read, in bytes
  out,        \* out_data
  rret,       \* what the last tryRead returned
  calls,      \* history: tryWrite calls made; a message is named by its call
  sent,       \* history: the published frames [id, size, at], oldest first
  delivered   \* history: what tryRead returned true with, oldest first

producerVars == <<wpc, wmsg, wtail, wret, calls>>
consumerVars == <<rpc, rhead, rlen, out, rret, delivered>>
vars == <<head, tail, buffer, sent, producerVars, consumerVars>>
-----------------------------------------------------------------------------
(* Cells.  A data word carries the message and its index in it, so that a  *)
(* wrong or a stale word is told apart from the right one.                 *)

Cell(tag, x, y) == [tag |-> tag, x |-> x, y |-> y]
Zero     == Cell("zero", 0, 0)
Torn     == Cell("torn", 0, 0)
Padding  == Cell("padding", 0, 0)
Valid(size)    == Cell("valid", size, 0)
Data(id, k)    == Cell("data", id, k)

\* The word after the buffer.  In InboundQueue it holds a 32-bit counter
\* followed by four bytes of struct padding, which are zero: its "magic" is
\* neither MAGIC_VALID nor MAGIC_PADDING.
Foreign  == Cell("foreign", 0, 0)

Offsets == 0 .. BufWords - 1

\* (sizeof(FrameHeader) + size + 7) & ~7, in words
Needed(size) == (8 + size + 7) \div 8

\* A caller's message as the words it occupies after the header.
Payload(m) == [k \in 1 .. Needed(m.size) - 1 |-> Data(m.id, k)]

\* buffer_[off] as the consumer's memcpy sees it
ReadCell(off) == IF off \in Offsets THEN buffer[off] ELSE Foreign
-----------------------------------------------------------------------------
(* Where a frame of n words goes, given head h and a loaded tail t.        *)

FitsAtEnd(h, t, n) == h >= t /\ h + n <= BufWords

FitsAtStart_Inclusive(h, t, n) == h >= t /\ h + n > BufWords /\ n <= t
FitsAtStart(h, t, n) == h >= t /\ h + n > BufWords /\ n < t

FitsBetween_Inclusive(h, t, n) == h < t /\ h + n <= t
FitsBetween(h, t, n) == h < t /\ h + n < t

Room(h, t, n) == FitsAtEnd(h, t, n) \/ FitsAtStart(h, t, n) \/ FitsBetween(h, t, n)

FrameAt(h, t, n) == IF FitsAtStart(h, t, n) THEN 0 ELSE h

\* The words tryWrite stores to: the frame, and the padding header.
PadCells(h, t, n) == IF FitsAtStart(h, t, n) /\ h < BufWords THEN {h} ELSE {}
FrameCells(at, n) == at .. at + n - 1
WriteCells(h, t, n) == PadCells(h, t, n) \cup FrameCells(FrameAt(h, t, n), n)

\* size(): the words in use, skipped ones included
RingSize(h, t) == IF h >= t THEN h - t ELSE BufWords - (t - h)
-----------------------------------------------------------------------------
NoMsg == [id |-> 0, size |-> 0]

Init ==
  /\ head = 0
  /\ tail = 0
  /\ buffer = [w \in Offsets |-> Zero]
  /\ wpc = "idle"
  /\ wmsg = NoMsg
  /\ wtail = 0
  /\ wret = "none"
  /\ rpc = "idle"
  /\ rhead = 0
  /\ rlen = 0
  /\ out = << >>
  /\ rret = "none"
  /\ calls = 0
  /\ sent = << >>
  /\ delivered = << >>
-----------------------------------------------------------------------------
(* tryWrite *)

TryWriteReject(size) ==
  /\ wpc = "idle"
  /\ calls < MaxCalls
  /\ size > MaxSize \/ size = 0
  /\ calls' = calls + 1
  /\ wret' = "rejected"
  /\ UNCHANGED <<head, tail, buffer, sent, wpc, wmsg, wtail, consumerVars>>

TryWriteLoad(size) ==
  /\ wpc = "idle"
  /\ calls < MaxCalls
  /\ size <= MaxSize /\ size # 0
  /\ calls' = calls + 1
  /\ wmsg' = [id |-> calls + 1, size |-> size]
  /\ wtail' = tail
  /\ wpc' = "place"
  /\ UNCHANGED <<head, tail, buffer, sent, wret, consumerVars>>

TryWriteFull ==
  /\ wpc = "place"
  /\ ~Room(head, wtail, Needed(wmsg.size))
  /\ wret' = "full"
  /\ wpc' = "idle"
  /\ UNCHANGED <<head, tail, buffer, sent, wmsg, wtail, calls, consumerVars>>

\* writeFrame and the padding memcpy begin ...
TryWriteStart ==
  /\ wpc = "place"
  /\ Room(head, wtail, Needed(wmsg.size))
  /\ buffer' = [w \in Offsets |-> IF w \in WriteCells(head, wtail, Needed(wmsg.size))
                                  THEN Torn ELSE buffer[w]]
  /\ wpc' = "copy"
  /\ UNCHANGED <<head, tail, sent, wmsg, wtail, wret, calls, consumerVars>>

\* ... and are complete.
FrameImage(at) ==
  [w \in FrameCells(at, Needed(wmsg.size)) |->
     IF w = at THEN Valid(wmsg.size) ELSE Data(wmsg.id, w - at)]

TryWriteCopy_NoPadding ==
  LET n  == Needed(wmsg.size)
      at == FrameAt(head, wtail, n)
  IN /\ wpc = "copy"
     /\ buffer' = [w \in Offsets |->
                     IF w \in FrameCells(at, n) THEN FrameImage(at)[w] ELSE buffer[w]]
     /\ wpc' = "publish"
     /\ UNCHANGED <<head, tail, sent, wmsg, wtail, wret, calls, consumerVars>>

TryWriteCopy ==
  LET n  == Needed(wmsg.size)
      at == FrameAt(head, wtail, n)
  IN /\ wpc = "copy"
     /\ buffer' = [w \in Offsets |->
                     IF w \in FrameCells(at, n) THEN FrameImage(at)[w]
                     ELSE IF w \in PadCells(head, wtail, n) THEN Padding
                     ELSE buffer[w]]
     /\ wpc' = "publish"
     /\ UNCHANGED <<head, tail, sent, wmsg, wtail, wret, calls, consumerVars>>

\* head_.store(..., release)
TryWritePublish ==
  LET n  == Needed(wmsg.size)
      at == FrameAt(head, wtail, n)
  IN /\ wpc = "publish"
     /\ head' = at + n
     /\ sent' = Append(sent, [id |-> wmsg.id, size |-> wmsg.size, at |-> at])
     /\ wret' = "written"
     /\ wpc' = "idle"
     /\ UNCHANGED <<tail, buffer, wmsg, wtail, calls, consumerVars>>

Producer ==
  \/ \E size \in Sizes : TryWriteReject(size) \/ TryWriteLoad(size)
  \/ TryWriteFull
  \/ TryWriteStart
  \/ TryWriteCopy
  \/ TryWritePublish
-----------------------------------------------------------------------------
(* tryRead *)

\* tail == head, as loaded or (the second check) after the padding was skipped
EmptySeen ==
  \/ rpc = "idle" /\ tail = head
  \/ rpc = "wrapped" /\ rhead = 0

TryReadEmpty ==
  /\ EmptySeen
  /\ rret' = "empty"
  /\ rpc' = "idle"
  /\ UNCHANGED <<head, tail, buffer, sent, producerVars, rhead, rlen, out, delivered>>

TryReadLoad ==
  /\ rpc = "idle"
  /\ tail # head
  /\ rhead' = head
  /\ rpc' = "header"
  /\ UNCHANGED <<head, tail, buffer, sent, producerVars, rlen, out, rret, delivered>>

\* A padding header: tail_.store(0), and the header at 0 is read next.
TryReadWrap ==
  /\ rpc = "header"
  /\ ReadCell(tail).tag = "padding"
  /\ tail' = 0
  /\ rpc' = "wrapped"
  /\ UNCHANGED <<head, buffer, sent, producerVars, rhead, rlen, out, rret, delivered>>

\* The header that counts: at tail, or at 0 after padding.
AtFrameHeader ==
  \/ rpc = "header" /\ ReadCell(tail).tag # "padding"
  \/ rpc = "wrapped" /\ rhead # 0

Readable(cell) == cell.tag = "valid" /\ cell.x <= MaxSize

TryReadHeader ==
  /\ AtFrameHeader
  /\ Readable(ReadCell(tail))
  /\ rlen' = ReadCell(tail).x
  /\ rpc' = "copy"
  /\ UNCHANGED <<head, tail, buffer, sent, producerVars, rhead, out, rret, delivered>>

TryReadCorrupt ==
  /\ AtFrameHeader
  /\ ~Readable(ReadCell(tail))
  /\ rret' = "corrupt"
  /\ rpc' = "idle"
  /\ UNCHANGED <<head, tail, buffer, sent, producerVars, rhead, rlen, out, delivered>>

TryReadCopy ==
  /\ rpc = "copy"
  /\ out' = [k \in 1 .. Needed(rlen) - 1 |-> ReadCell(tail + k)]
  /\ rpc' = "advance"
  /\ UNCHANGED <<head, tail, buffer, sent, producerVars, rhead, rlen, rret, delivered>>

\* tail_.store(..., release)
TryReadAdvance ==
  /\ rpc = "advance"
  /\ tail' = tail + Needed(rlen)
  /\ delivered' = Append(delivered, out)
  /\ rret' = "read"
  /\ rpc' = "idle"
  /\ UNCHANGED <<head, buffer, sent, producerVars, rhead, rlen, out>>

Consumer ==
  \/ TryReadEmpty
  \/ TryReadLoad
  \/ TryReadWrap
  \/ TryReadHeader
  \/ TryReadCorrupt
  \/ TryReadCopy
  \/ TryReadAdvance

Next == Producer \/ Consumer

Spec == Init /\ [][Next]_vars

\* A thread that is inside tryRead finishes it, and the receive loops call it
\* again and again; nobody is bound to call tryWrite.
FairSpec == Spec /\ WF_vars(Consumer)
-----------------------------------------------------------------------------
(* Properties *)

Cells == [tag : {"zero", "torn", "padding", "valid", "data", "foreign"}, x : Nat, y : Nat]
FrameRecords == [id : 1 .. MaxCalls, size : 1 .. MaxSize, at : Offsets]

\* Every variable holds a value of its type; head_ and tail_ stay within
\* 0 .. BUFFER_SIZE (either may equal BUFFER_SIZE after an exact fit).
TypeOK ==
  /\ head \in 0 .. BufWords
  /\ tail \in 0 .. BufWords
  /\ buffer \in [Offsets -> Cells]
  /\ wpc \in {"idle", "place", "copy", "publish"}
  /\ wmsg \in [id : 0 .. MaxCalls, size : 0 .. MaxSize]
  /\ wtail \in 0 .. BufWords
  /\ wret \in {"none", "rejected", "full", "written"}
  /\ rpc \in {"idle", "header", "wrapped", "copy", "advance"}
  /\ rhead \in 0 .. BufWords
  /\ rlen \in 0 .. MaxSize
  /\ out \in Seq(Cells)
  /\ rret \in {"none", "empty", "corrupt", "read"}
  /\ calls \in 0 .. MaxCalls
  /\ sent \in Seq(FrameRecords)
  /\ delivered \in Seq(Seq(Cells))

\* The frames published and not yet passed by tail_.
Unread == Len(delivered) + 1 .. Len(sent)

\* The words of published frame i, and the offset after it.
CellsOf(i) == FrameCells(sent[i].at, Needed(sent[i].size))
EndOf(i)   == sent[i].at + Needed(sent[i].size)

\* What tryRead has returned is, message by message and word by word, what
\* tryWrite accepted, in the same order and with nothing left out in between:
\* no torn, stale or foreign word ever reaches out_data.
InOrderIntact ==
  /\ Len(delivered) <= Len(sent)
  /\ \A i \in 1 .. Len(delivered) : delivered[i] = Payload(sent[i])

\* The word at tail_ is the header of the oldest unread frame or the padding
\* in front of it, unless the previous lap ended exactly at BUFFER_SIZE; and
\* when padding is found, the frame behind it is already published (the
\* "should not happen if padding exists" branch of tryRead is dead).
HeaderAtTail ==
  /\ Unread # {} =>
       \/ ReadCell(tail) = Valid(sent[Len(delivered) + 1].size)
       \/ ReadCell(tail) = Padding /\ buffer[0] = Valid(sent[Len(delivered) + 1].size)
       \/ tail = BufWords
  /\ rpc = "wrapped" => rhead # 0

\* A tryWrite that reports "full" found fewer than two frames' worth of free
\* space: at most one frame of room is lost to the wrap, so an empty ring of at
\* least two frames accepts every message of a legal size.
RefusalMeansNearlyFull ==
  LET n == Needed(wmsg.size)
  IN wpc = "place" /\ ~Room(head, wtail, n) => RingSize(head, wtail) + 2 * n > BufWords

\* No step of the producer stores to a word of a frame that is published and
\* unread, however stale the tail_ it works with.
UnreadStable ==
  [][\A i \in Unread : \A w \in CellsOf(i) : buffer'[w] = buffer[w]]_vars

\* A published message is eventually read, or the ring is stuck with tail_ at
\* BUFFER_SIZE.
EveryMessageRead ==
  \A n \in 1 .. MaxCalls : Len(sent) >= n ~> (Len(delivered) >= n \/ tail = BufWords)

\* "@return true if read successfully, false if queue is empty": tryRead does
\* not give up on a ring that holds a message.
FalseMeansEmpty == rret # "corrupt"
-----------------------------------------------------------------------------
(* The inductive invariant behind the safety properties.                   *)

\* Where the unread frames are: between tail and head, or, when head has
\* wrapped, the older ones behind tail and the newer ones before head.
FramesPlaced ==
  \A i \in Unread :
    IF tail <= head THEN tail <= sent[i].at /\ EndOf(i) <= head
    ELSE EndOf(i) <= head \/ (tail <= sent[i].at /\ EndOf(i) <= BufWords)

\* A later frame lies behind an earlier one, or has wrapped.
FramesOrdered ==
  \A i, j \in Unread : i < j =>
    \/ EndOf(i) <= sent[j].at /\ (tail <= sent[j].at => tail <= sent[i].at)
    \/ head < tail /\ tail <= sent[i].at /\ EndOf(j) <= head

\* How the reader gets from offset e to a frame at offset at: the frame is
\* there, or padding says to go on at 0, or the exact fit left no room for it.
Leads(e, at) ==
  \/ at = e
  \/ at = 0 /\ head < tail /\ tail <= e /\ (e = BufWords \/ buffer[e] = Padding)

FramesChained ==
  /\ Unread # {} => Leads(tail, sent[Len(delivered) + 1].at)
  /\ \A i \in Unread : i + 1 \in Unread => Leads(EndOf(i), sent[i + 1].at)
  /\ Unread = {} => tail = head
  /\ sent # << >> => head = EndOf(Len(sent))
  /\ sent = << >> => head = 0

\* The words of a frame of message m at offset at.
Holds(at, m) ==
  /\ buffer[at] = Valid(m.size)
  /\ \A k \in 1 .. Needed(m.size) - 1 : buffer[at + k] = Data(m.id, k)

FramesIntact == \A i \in Unread : Holds(sent[i].at, sent[i])

\* What the producer's copy of tail_ still says about tail_: it only errs on
\* the side of less room.
WriterView ==
  /\ wpc # "idle" =>
       /\ wmsg.size > 0
       /\ wmsg.id > 0
       /\ IF wtail <= head THEN wtail <= tail /\ tail <= head
                           ELSE tail >= wtail \/ tail <= head
  /\ wpc \in {"copy", "publish"} => Room(head, wtail, Needed(wmsg.size))
  /\ wpc = "publish" =>
       /\ Holds(FrameAt(head, wtail, Needed(wmsg.size)), wmsg)
       /\ \A w \in PadCells(head, wtail, Needed(wmsg.size)) : buffer[w] = Padding

ReaderView ==
  /\ rpc # "idle" => Unread # {} /\ rhead > 0
  /\ rpc = "wrapped" => tail = 0
  /\ rpc \in {"wrapped", "copy", "advance"} => sent[Len(delivered) + 1].at = tail
  /\ rpc \in {"copy", "advance"} => rlen = sent[Len(delivered) + 1].size
  /\ rpc = "advance" => out = Payload(sent[Len(delivered) + 1])

Frames == FramesPlaced /\ FramesOrdered /\ FramesChained /\ FramesIntact

IInv == TypeOK /\ InOrderIntact /\ Frames /\ WriterView /\ ReaderView
-----------------------------------------------------------------------------
(* The ring implements a FIFO channel: publishing is the store of head_,   *)
(* delivery the store of tail_.                                            *)

\* What tryWrite was asked to send, and what it has accepted and tryRead has not
\* returned yet.
Messages == {Payload(m) : m \in [id : 1 .. MaxCalls, size : 1 .. MaxSize]}
Waiting  == [i \in 1 .. Len(sent) - Len(delivered) |-> Payload(sent[Len(delivered) + i])]

Fifo == INSTANCE FifoChannel WITH Msgs <- Messages, queue <- Waiting, taken <- delivered

\* Seen from outside, the ring is a FIFO channel: what tryRead hands out is
\* always the oldest accepted message, and each message is handed out once.
ImplementsFifo == Fifo!Spec
=============================================================================
