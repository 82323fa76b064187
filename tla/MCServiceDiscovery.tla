-------------------------- MODULE MCServiceDiscovery --------------------------
(* Instances of ServiceDiscovery: three nodes in two or three processes.      *)
EXTENDS ServiceDiscovery, TLC

CONSTANTS a, b, c, p, q, r

ThreeNodes     == {a, b, c}
ThreeProcesses == {p, q, r}

Places(x, y, z)  == (a :> x) @@ (b :> y) @@ (c :> z)

Nothing == [process |-> Places(p, q, r), early |-> {}, offering |-> {}, newcomers |-> {},
            toggles |-> Places(0, 0, 0), leavers |-> {}, publishers |-> {}, late |-> {}, mortal |-> {},
            ringSize |-> 3, systemSize |-> 3]

\* Two processes that start together and subscribe
Together == [Nothing EXCEPT !.newcomers = {a, b}, !.toggles = Places(2, 1, 0)]
\* A node that unsubscribes, a sibling in its process, and a newcomer
Siblings == [Nothing EXCEPT !.process = Places(p, p, q), !.early = {a, b}, !.offering = {a},
             !.newcomers = {c}, !.toggles = Places(1, 0, 0)]
\* A node that leaves while another arrives
Farewell == [Nothing EXCEPT !.early = {a, b}, !.offering = {a}, !.newcomers = {c}, !.leavers = {a}]
\* A process that is killed, with two left to notice
Killed   == [Nothing EXCEPT !.early = {a, b, c}, !.offering = {b}, !.toggles = Places(1, 0, 0), !.mortal = {p, q}]
\* A node whose heartbeat is late
Slow     == [Nothing EXCEPT !.early = {a, b}, !.offering = {b}, !.toggles = Places(1, 0, 0), !.late = {a}]
\* A node that is killed as it arrives
Fleeting == [Nothing EXCEPT !.early = {a}, !.newcomers = {b}, !.mortal = {q}]
\* A publish while a node of the process leaves and another one joins
Talk     == [Nothing EXCEPT !.process = Places(p, p, q), !.early = {a, b, c}, !.offering = {b, c},
             !.leavers = {b}, !.publishers = {a}]
\* Rings and system queues of one message
Tight    == [Nothing EXCEPT !.early = {a, b}, !.toggles = Places(2, 2, 0), !.ringSize = 1, !.systemSize = 1]

AllScenarios == {Together, Siblings, Farewell, Killed, Slow, Fleeting, Talk, Tight}
==============================================================================
