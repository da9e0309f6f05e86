---------------------------- MODULE MCAgentServer ------------------------------
(***************************************************************************)
(* Three requests of the host at the agent, in the mixes that the pools    *)
(* and the registry tell apart, while the main thread attaches, detaches   *)
(* or stops.                                                               *)
(***************************************************************************)
EXTENDS AgentServer, TLC

CONSTANTS r1, r2, r3

MCRequests == {r1, r2, r3}
Symmetry == Permutations(MCRequests)

\* Every assignment of the methods that has so many of each.
Mix(snapshots, actions, screenshots) ==
    {f \in [MCRequests -> Methods] :
        /\ Cardinality({r \in MCRequests : f[r] = "snapshot"}) = snapshots
        /\ Cardinality({r \in MCRequests : f[r] = "action"}) = actions
        /\ Cardinality({r \in MCRequests : f[r] = "screenshot"}) = screenshots}

MCWorkloads ==
         [method : Mix(3, 0, 0), main : {{"attach", "detach"}}]
    \cup [method : Mix(2, 1, 0), main : {{"stop", "attach", "detach"}}]
    \cup [method : Mix(1, 0, 2), main : {{"stop"}}]
    \cup [method : Mix(0, 0, 3), main : {{"stop"}}]
=============================================================================
