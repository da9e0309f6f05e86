---------------------------- MODULE ScreenLedger ----------------------------
(***************************************************************************)
(* What the daemon promises a client about screens: every screen it hands  *)
(* out has a sequence of its own, larger than all before it, also after    *)
(* crashes and failed writes; at any time either the last one handed out   *)
(* is the current truth, or there is none.                                 *)
(***************************************************************************)
EXTENDS Integers

VARIABLES
    issued,     \* sequence of the last screen handed out, 0 before the first
    current     \* the screen that is the current truth, 0 if there is none

ledger == <<issued, current>>

Init == issued = 0 /\ current = 0

\* A refresh hands out a new screen; no earlier sequence is used again.
Issue ==
    /\ issued' \in Nat
    /\ issued' > issued
    /\ current' = issued'

\* Authority is dropped: an action, a new connection, a close, a crash.
Lose ==
    /\ current' = 0
    /\ UNCHANGED issued

Next == Issue \/ Lose

Spec == Init /\ [][Next]_ledger
=============================================================================
