-------------------------- MODULE MCMessageDispatch --------------------------
(* Instances of MessageDispatch: one publisher and the receive thread.        *)
EXTENDS MessageDispatch, TLC

CONSTANTS p, t, u

OnePublisher == {p}
TwoTopics    == {t, u}
Hash         == (t :> 1) @@ (u :> 2)
OneThread    == (t :> 1) @@ (u :> 1)

Sends(n, m)  == (p :> n) @@ (Receiver :> m)

\* Queues that overflow under policies that change
Floods  == [publishes |-> FALSE, greets |-> FALSE, policies |-> {"DROP_NEWEST", "BLOCK"}, topics |-> {t},
            sends |-> Sends(0, 3), subscribes |-> 1]
\* A callback that is replaced while messages wait
Renews  == [publishes |-> FALSE, greets |-> FALSE, policies |-> {}, topics |-> {t},
            sends |-> Sends(2, 0), subscribes |-> 2]
\* A callback that publishes
Talks   == [publishes |-> TRUE, greets |-> FALSE, policies |-> {}, topics |-> {t},
            sends |-> Sends(1, 0), subscribes |-> 1]
\* Two topics, and a discovery callback that publishes
Greets  == [publishes |-> FALSE, greets |-> TRUE, policies |-> {}, topics |-> TwoTopics,
            sends |-> Sends(1, 0), subscribes |-> 1]
AllUsers == {Floods, Renews, Talks, Greets}
==============================================================================
