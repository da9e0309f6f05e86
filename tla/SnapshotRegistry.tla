--------------------------- MODULE SnapshotRegistry ----------------------------
(***************************************************************************)
(* The snapshots that the agent keeps for the actions that will name them  *)
(* (agent/snapshot/SnapshotRegistry.kt): every operation is one            *)
(* synchronized section, and so one operator here.  Publications carry the *)
(* generation they were collected in; a reset starts a new one, waits for  *)
(* the publications in flight, and forgets all snapshots.  The store is a  *)
(* LinkedHashMap: `retained` gives each id in it its place in the order of *)
(* insertion, and `inserted` is the last place taken.                      *)
(***************************************************************************)
EXTENDS Integers, FiniteSets, Functions

CONSTANT Limit      \* RETAINED_SNAPSHOT_LIMIT

ASSUME LimitAssumption == Limit \in Nat \ {0}

NewRegistry ==
    [sequence |-> 0, generation |-> 0, resetting |-> FALSE, inFlight |-> {},
     retained |-> [s \in {} |-> 0], inserted |-> 0]

RegistryOK(reg) ==
    /\ DOMAIN reg = {"sequence", "generation", "resetting", "inFlight", "retained", "inserted"}
    /\ reg.sequence \in Nat /\ reg.generation \in Nat /\ reg.inserted \in Nat

\* Those of `ids` that are not newer than s.
Older(retained, ids, s) == {e \in ids : retained[e] <= retained[s]}

\* The oldest of `ids`, for as long as there are more than Limit.
Victims(retained, ids) ==
    {s \in ids : Cardinality(Older(retained, ids, s)) <= Cardinality(DOMAIN retained) - Limit}

\* Mutation: the oldest go, in flight or not.
TrimmedByAge(retained, kept) ==
    Restrict(retained, DOMAIN retained \ Victims(retained, DOMAIN retained))

\* RetainedSnapshotStore.trim: the oldest go first, never one in flight.
Trimmed(retained, kept) ==
    Restrict(retained, DOMAIN retained \ Victims(retained, DOMAIN retained \ kept))

CanPublish(reg, generation) == ~reg.resetting /\ generation = reg.generation

\* beginPublicationIfCurrent, which puts the snapshot last in the store, and the
\* release of its guard
Stored(reg, id) ==
    [s \in DOMAIN reg.retained \cup {id} |->
        IF s = id THEN reg.inserted + 1 ELSE reg.retained[s]]
Published(reg, id) ==
    [reg EXCEPT !.retained = Trimmed(Stored(reg, id), reg.inFlight \cup {id}),
                !.inserted = @ + 1,
                !.inFlight = @ \cup {id}]
Completed(reg, id) == [reg EXCEPT !.inFlight = @ \ {id}]

Findable(reg, id) ==
    /\ reg.resetting => id \in reg.inFlight
    /\ id \in DOMAIN reg.retained

\* resetSessionState holds the lock except while it waits; publications that
\* are still in flight when it gives up are abandoned.
BeginReset(reg) == [reg EXCEPT !.generation = @ + 1, !.resetting = TRUE]
FinishReset(reg) ==
    [reg EXCEPT !.inFlight = {}, !.retained = NewRegistry.retained, !.inserted = 0,
                !.resetting = FALSE]
=============================================================================
