---------------------------- MODULE MCRegistryFile ----------------------------
(* An instance of RegistryFile: three instances in two processes. *)
EXTENDS RegistryFile, TLC

CONSTANTS i, j, k, p, q

ThreeInstances == {i, j, k}
TwoProcesses   == {p, q}
TwoAndOne      == (i :> p) @@ (j :> p) @@ (k :> q)
==============================================================================
