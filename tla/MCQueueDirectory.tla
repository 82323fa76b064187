-------------------------- MODULE MCQueueDirectory --------------------------
(* Instances of QueueDirectory: three senders, of which some may be killed. *)
EXTENDS QueueDirectory, TLC

CONSTANTS a, b, c

AllSenders == {a, b, c}
SomeMortal == {a, b}
Symmetric  == Permutations({a, b})
=============================================================================
