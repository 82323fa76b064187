-------------------------- MODULE MCInboundQueues ---------------------------
(* Instances of InboundQueues with two senders.                            *)
EXTENDS InboundQueues, TLC

CONSTANTS a, b

TwoSenders == {a, b}
Slots      == (a :> 0) @@ (b :> 1)

Amounts(control, data) == ("control" :> control) @@ ("data" :> data)

\* One sender of both kinds that may die, under the condition-variable loop.
Alone == [mechanism |-> "cv", mortal |-> {a}, foreign |-> FALSE,
          sends |-> (a :> Amounts(1, 1)) @@ (b :> Amounts(0, 0))]

\* The same with a ring that fills up.
Full == [Alone EXCEPT !.sends = (a :> Amounts(0, 2)) @@ (b :> Amounts(0, 0))]

\* Two senders, one of which may die, under the condition-variable loop.
Pair == [mechanism |-> "cv", mortal |-> {a}, foreign |-> FALSE,
         sends |-> (a :> Amounts(0, 1)) @@ (b :> Amounts(0, 1))]

\* One sender of both kinds, under the semaphore loop.
AloneSem == [Alone EXCEPT !.mechanism = "semaphore", !.mortal = {}, !.foreign = TRUE]

\* A process died with the global_mutex of a node the heartbeat thread connects to.
Foreign == [Alone EXCEPT !.mortal = {}, !.sends = (a :> Amounts(0, 1)) @@ (b :> Amounts(0, 0)), !.foreign = TRUE]

AllSetups == {Alone, Full, Pair, AloneSem, Foreign}
=============================================================================
