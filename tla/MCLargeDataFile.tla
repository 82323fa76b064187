--------------------------- MODULE MCLargeDataFile ---------------------------
(* Instances of LargeDataFile: three users, and a node that only sweeps.      *)
EXTENDS LargeDataFile, TLC

CONSTANTS p, q, r, j

AllProcesses == {p, q, r, j}

Opens(x, y, z) == (p :> x) @@ (q :> y) @@ (r :> z) @@ (j :> 0)

Nothing == [opens |-> Opens(0, 0, 0), started |-> {}, readers |-> {}, writers |-> {}, sweepers |-> {},
            mortal |-> {}, idle |-> FALSE, mayFail |-> FALSE, found |-> TRUE]

\* Two processes that open and close the channel again and again
Again   == [Nothing EXCEPT !.opens = Opens(2, 2, 0)]
\* Three that start together
Crowd   == [Nothing EXCEPT !.opens = Opens(1, 1, 1)]
\* A creator and a reader, either of which may be killed
Crashes == [Nothing EXCEPT !.opens = Opens(1, 1, 0), !.readers = {q}, !.writers = {p}, !.sweepers = {j}, !.mortal = {p, q}]
\* A writer that also reads, and cleans up after the other reader
Shared  == [Nothing EXCEPT !.opens = Opens(1, 1, 0), !.started = {p, q}, !.readers = {p, q}, !.writers = {p}, !.mortal = {q}]
\* Processes that are silent for more than a minute
Lazy    == [Nothing EXCEPT !.opens = Opens(1, 1, 0), !.readers = {q}, !.writers = {p}, !.sweepers = {j}, !.idle = TRUE]
\* Failing system calls
Failing == [Nothing EXCEPT !.opens = Opens(2, 1, 0), !.sweepers = {j}, !.mayFail = TRUE]

\* Two readers that come and go
Readers == [Nothing EXCEPT !.opens = Opens(1, 1, 1), !.started = {p, q, r}, !.readers = {q, r}]

\* A channel whose name no sweep looks at
Hidden  == [Crashes EXCEPT !.found = FALSE, !.readers = {}, !.mortal = {p}]

AllScenarios == {Again, Crowd, Crashes, Shared, Lazy, Failing, Readers, Hidden}
==============================================================================
