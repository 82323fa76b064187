---------------------------- MODULE FifoChannel -----------------------------
(***************************************************************************)
(* What one direction of an InboundQueue promises: messages the sender got *)
(* "true" for are handed to the receiver once each and in order.  A        *)
(* message the channel turns away leaves no trace.                         *)
(***************************************************************************)
EXTENDS Sequences

CONSTANT Msgs

VARIABLES
  queue,  \* accepted and not yet handed over
  taken   \* handed over, oldest first

Init == queue = << >> /\ taken = << >>

Accept(m) == queue' = Append(queue, m) /\ UNCHANGED taken

Deliver ==
  /\ queue # << >>
  /\ taken' = Append(taken, Head(queue))
  /\ queue' = Tail(queue)

Next == (\E m \in Msgs : Accept(m)) \/ Deliver

Spec == Init /\ [][Next]_<<queue, taken>>
=============================================================================
