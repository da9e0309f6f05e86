---------------------------- MODULE MCActiveSlot ----------------------------
(***************************************************************************)
(* ActiveSlot for TLC: interchangeable processes and owners.               *)
(***************************************************************************)
EXTENDS ActiveSlot, TLC

Interchangeable == Permutations(Daemons) \cup Permutations(Owners)
=============================================================================
