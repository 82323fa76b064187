----------------------------- MODULE MCNodeMemory -----------------------------
(* Instances of NodeMemory: three peers in up to three processes.             *)
EXTENDS NodeMemory, TLC

CONSTANTS a, b, c, p, q, r

ThreePeers   == {a, b, c}
AllProcesses == {p, q, r}

\* One peer in the owner's process and two that share another; no two alike.
Inside       == (a :> p) @@ (b :> q) @@ (c :> q)
Outside      == (a :> r) @@ (b :> q) @@ (c :> q)
Spread       == {Inside, Outside}
TwoMortal    == {p, q}
==============================================================================
