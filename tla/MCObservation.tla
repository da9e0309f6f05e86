--------------------------- MODULE MCObservation ----------------------------
(***************************************************************************)
(* ObservationLoop for TLC: the policies with 100 ms and more to a tick,   *)
(* in the proportions of runtime_policy.py.                                *)
(***************************************************************************)
EXTENDS ObservationLoop

Ticks ==
    [k \in Loops |->
        IF k = "settle"
        THEN [grace |-> 1, interval |-> 2, window |-> 2, total |-> 3, slice |-> 1]
        ELSE [grace |-> 0, interval |-> 2, window |-> 2, total |-> 3, slice |-> 1]]
=============================================================================
