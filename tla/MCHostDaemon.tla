---------------------------- MODULE MCHostDaemon ----------------------------
(***************************************************************************)
(* HostDaemon for TLC: interchangeable handler threads, ports and         *)
(* devices.                                                                *)
(***************************************************************************)
EXTENDS HostDaemon, TLC

Interchangeable ==
    Permutations(Callers) \cup Permutations(Ports) \cup Permutations(Devices)
=============================================================================
