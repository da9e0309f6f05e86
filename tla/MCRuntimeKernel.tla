-------------------------- MODULE MCRuntimeKernel --------------------------
(***************************************************************************)
(* RuntimeKernel for TLC: two interchangeable callers on one workspace,    *)
(* interchangeable ports and snapshots.                                      *)
(***************************************************************************)
EXTENDS RuntimeKernel, TLC

CallersAndPorts ==
    Permutations(Callers) \cup Permutations(Ports) \cup Permutations(Snapshots)
=============================================================================
