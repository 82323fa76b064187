--------------------------- MODULE MCRegistryTable ---------------------------
(* Instances of RegistryTable with two nodes.                               *)
EXTENDS RegistryTable, TLC

CONSTANTS a, b

TwoNodes == {a, b}

\* Two lives: one node late, the other killed anywhere
Twice  == [starts |-> 2, mortal |-> {b}, late |-> {a}, brief |-> FALSE]
\* Three short lives of each node
Thrice == [starts |-> 3, mortal |-> TwoNodes, late |-> {}, brief |-> TRUE]
AllScenarios == {Twice, Thrice}
==============================================================================
