----------------------------- MODULE Discovery ------------------------------
(***************************************************************************)
(* The androidctl CLI in front of the daemons of a workspace: a command    *)
(* looks for the daemon that active.json names, asks for its health, and   *)
(* launches one when nobody answers.  A client stands for a shell or an    *)
(* agent that repeats its command, and owns the daemons that it launches.  *)
(***************************************************************************)
EXTENDS ActiveSlot

CONSTANT
    MaxTroubles     \* bound: stops, crashes and timeouts together

ASSUME TroubleAssumption == MaxTroubles \in Nat

VARIABLES
    cli,        \* where the command of each client is
    found       \* the daemon whose record it read

Clients == Owners
cliVars == <<cli, found>>
vars == <<slotVars, cliVars>>

Becomes(c, state) == cli' = [cli EXCEPT ![c] = state]
Finds(c, d) == found' = [found EXCEPT ![c] = d]

DiscoveryInit ==
    /\ Init
    /\ cli = [c \in Clients |-> "idle"]
    /\ found = [c \in Clients |-> None]

\* The first look, and each look of _wait_for_healthy_client.
Look(c) ==
    /\ \/ cli[c] = "idle" /\ Becomes(c, IF active = None THEN "launch" ELSE "ask")
       \/ cli[c] = "wait" /\ active # None /\ Becomes(c, "askAgain")
    /\ Finds(c, active)
    /\ UNCHANGED slotVars

\* Without an answer the first look leads to a launch, a later one to the next.
Unanswered(c) == Becomes(c, IF cli[c] = "ask" THEN "launch" ELSE "wait") /\ Finds(c, None)

\* Mutant of Ask: a daemon of another owner counts as none.
AskOwn(c) ==
    /\ cli[c] \in {"ask", "askAgain"}
    /\ IF found[c] \in listening /\ ownerOf[found[c]] = c
       THEN Becomes(c, "served") /\ Finds(c, None)
       ELSE Unanswered(c)
    /\ UNCHANGED slotVars

\* _healthy_client_from_record: a daemon of another owner answers that the
\* workspace is busy, one that does not answer counts as none.
Ask(c) ==
    /\ cli[c] \in {"ask", "askAgain"}
    /\ IF found[c] \in listening
       THEN Becomes(c, IF ownerOf[found[c]] = c THEN "served" ELSE "busy") /\ Finds(c, None)
       ELSE Unanswered(c)
    /\ UNCHANGED slotVars

\* The request for its health times out, though the daemon listens.
AskTimesOut(c) ==
    /\ cli[c] \in {"ask", "askAgain"} /\ found[c] \in listening
    /\ timeouts < MaxTimeouts /\ timeouts' = timeouts + 1
    /\ Unanswered(c)
    /\ UNCHANGED <<local, ownerOf, listening, files, failures, stops, crashes, overlooked>>

\* _launch_daemon_process.  Identities that nothing names are interchangeable,
\* so one stands for all; when the bound leaves none, the launch comes to nothing.
Start(c) ==
    /\ cli[c] = "launch"
    /\ LET free == {d \in Daemons : MayLaunch(d) /\ \A e \in Clients : found[e] # d}
       IN IF free = {}
          THEN Becomes(c, "idle") /\ UNCHANGED slotVars
          ELSE Becomes(c, "wait") /\ Launch(CHOOSE d \in free : TRUE, c)
    /\ UNCHANGED found

\* The 5 s are over and the command fails; its client will repeat it.
GiveUp(c) ==
    /\ cli[c] = "wait"
    /\ Becomes(c, "idle")
    /\ UNCHANGED <<slotVars, found>>

\* The command is over.
Return(c) ==
    /\ cli[c] \in {"served", "busy"}
    /\ Becomes(c, "idle")
    /\ UNCHANGED <<slotVars, found>>

ClientStep(c) == Look(c) \/ Ask(c) \/ Start(c) \/ GiveUp(c) \/ Return(c)

WithinBound == stops + crashes + timeouts <= MaxTroubles

DiscoveryNext ==
    \/ \E c \in Clients : ClientStep(c) \/ (AskTimesOut(c) /\ WithinBound')
    \/ \E d \in Daemons : Step(d) /\ UNCHANGED cliVars
    \/ \E d \in Daemons : Trouble(d) /\ WithinBound' /\ UNCHANGED cliVars
    \/ (AgeOwner \/ AgeLock) /\ UNCHANGED cliVars

\* Processes and clients that are not killed go on, and time passes: the locks
\* age, and the 5 s end, however often the client looked before.
DiscoverySpec ==
    /\ DiscoveryInit /\ [][DiscoveryNext]_vars
    /\ \A c \in Clients : WF_vars(ClientStep(c)) /\ SF_vars(GiveUp(c))
    /\ \A d \in Daemons : WF_vars(Step(d) /\ UNCHANGED cliVars)
    /\ WF_vars(AgeOwner /\ UNCHANGED cliVars) /\ WF_vars(AgeLock /\ UNCHANGED cliVars)

-----------------------------------------------------------------------------
\* Neither what a daemon leaves behind by dying, stopping or failing at any point
\* nor a daemon that answers too late locks the workspace up: a client that
\* repeats its command finds, again and again, a daemon that serves it or that is
\* busy for another owner (_recover_stale_owner_lock, _recover_stale_lock,
\* _active_record_conflicts).
NeverLockedOut == \A c \in Clients : []<>(cli[c] \in {"served", "busy"})
=============================================================================
