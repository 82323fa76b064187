--------------------------- MODULE MCLargeDataRing ---------------------------
(* Instances of LargeDataRing: one or two readers, a ring of a few units.    *)
EXTENDS LargeDataRing

CONSTANTS a, b

TwoReaders == {a, b}

\* One reader, and blocks of two or three units, which fit exactly or not.
Solid == [readers |-> {a}, frail |-> {}, late |-> {}, sizes |-> {1, 2}, writes |-> 6]
Frail == [readers |-> {b}, frail |-> {b}, late |-> {b}, sizes |-> {1, 2}, writes |-> 4]

\* Two readers, and blocks that divide the ring.
Pair  == [readers |-> {a, b}, frail |-> {}, late |-> {}, sizes |-> {1}, writes |-> 3]
Bereft == [readers |-> {a, b}, frail |-> {b}, late |-> {}, sizes |-> {1}, writes |-> 2]

AllSetups == {Solid, Frail, Pair, Bereft}

\* One reader, and blocks that do not divide a ring of five units.
Uneven == {[readers |-> {a}, frail |-> {}, late |-> {}, sizes |-> {1}, writes |-> 4]}
==============================================================================
