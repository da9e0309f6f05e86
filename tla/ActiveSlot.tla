----------------------------- MODULE ActiveSlot -----------------------------
(***************************************************************************)
(* How the daemons of one workspace compete to be its only one.  They      *)
(* share three files and nothing else:                                     *)
(*                                                                         *)
(*   owner.lock   created exclusively by a daemon that starts, rewritten   *)
(*                with its record once it is published, unlinked when it   *)
(*                stops, and by anyone who finds it stale                  *)
(*   active.json  the record by which clients find the daemon              *)
(*   active.lock  held while active.json is published, cleared, restored   *)
(*                                                                         *)
(* An action is one read or change of a file, one probe, or one judgement  *)
(* of a lock, so that every check can be stale when it is acted upon.      *)
(***************************************************************************)
EXTENDS Naturals, FiniteSets

CONSTANTS
    Daemons,        \* process identities (pid and start time)
    Owners,         \* shells and agents that launch daemons
    None,
    MaxProcesses,   \* daemons that run at a time
    MaxFailures,    \* starts and publications that fail for a reason outside
    MaxStops,       \* daemons told to stop
    MaxCrashes,     \* processes killed
    MaxTimeouts,    \* probes that a daemon does not answer within 0.15 s
    QuietExits      \* no process ends between a read of its pid in a lock
                    \* file and the look at the process table that follows

VARIABLES
    pc,         \* what each daemon does next; "absent" when it is no process
    task,       \* why it takes active.lock
    seen,       \* the daemon whose pid or record it read in a file
    target,     \* the daemon whose record it is to restore
    aged,       \* whether the owner lock it judges was older than 2 s
    ownerOf,    \* on whose behalf it runs
    listening,  \* the daemons whose HTTP server answers
    owner,      \* owner.lock
    active,     \* active.json: the daemon it names
    lock,       \* active.lock
    failures, stops, crashes, timeouts,  \* what went wrong so far
    overlooked  \* history: a publication took the daemon that ran for gone

local == <<pc, task, seen, target, aged>>
files == <<owner, active, lock>>
budget == <<failures, stops, crashes, timeouts, overlooked>>
slotVars == <<local, ownerOf, listening, files, budget>>

Maybe(S) == S \cup {None}
Stages == {"absent", "acquire", "stamp", "stat", "inspect", "probeOwner", "readPid",
           "checkPid", "evict", "recall", "probeRecall", "listen", "ready", "lock",
           "stampLock", "readLock", "checkLock", "breakLock", "waitLock", "readActive",
           "probeActive", "write", "unlock", "mark", "serving", "hush", "release", "exit"}
Tasks == {"none", "publish", "lose", "fail", "stop", "restore"}

\* "lose" is a publication that found a conflict, "fail" the cleanup of a start
\* that failed.  A record in owner.lock names a published daemon.
OwnerLocks == [by : Daemons, body : {"empty", "pid", "record"}, old : BOOLEAN]
ActiveLocks == [by : Daemons, stamped : BOOLEAN, old : BOOLEAN]

ASSUME SlotAssumption ==
    /\ None \notin Daemons \cup Owners \cup OwnerLocks \cup ActiveLocks
    /\ MaxProcesses \in Nat
    /\ MaxFailures \in Nat /\ MaxStops \in Nat
    /\ MaxCrashes \in Nat /\ MaxTimeouts \in Nat
    /\ QuietExits \in BOOLEAN

Alive(d) == pc[d] # "absent"
At(d, stage) == pc[d] = stage
Goes(d, stage) == pc' = [pc EXCEPT ![d] = stage]
Sees(d, e) == seen' = [seen EXCEPT ![d] = e]
Locks(d, why) == Goes(d, "lock") /\ task' = [task EXCEPT ![d] = why]

\* A daemon runs the workspace from the write of its record until it stops,
\* dies, or starts to take the record back.
Runs(d) ==
    \/ pc[d] \in {"mark", "serving"}
    \/ At(d, "unlock") /\ task[d] = "publish"

Init ==
    /\ pc = [d \in Daemons |-> "absent"]
    /\ task = [d \in Daemons |-> "none"]
    /\ seen = [d \in Daemons |-> None]
    /\ target = [d \in Daemons |-> None]
    /\ aged = [d \in Daemons |-> FALSE]
    /\ ownerOf = [d \in Daemons |-> None]
    /\ listening = {}
    /\ owner = None /\ active = None /\ lock = None
    /\ failures = 0 /\ stops = 0 /\ crashes = 0 /\ timeouts = 0
    /\ overlooked = FALSE

-----------------------------------------------------------------------------
(* Processes begin and end.                                                *)

\* A pid and start time never come back while something still names them.
Forgotten(d) ==
    /\ ~Alive(d) /\ active # d /\ \A e \in Daemons : d \notin {seen[e], target[e]}
    /\ \A file \in {owner, lock} : file # None => file.by # d

MayLaunch(d) == Forgotten(d) /\ Cardinality({e \in Daemons : Alive(e)}) < MaxProcesses

Launch(d, o) ==
    /\ MayLaunch(d)
    /\ Goes(d, "acquire")
    /\ ownerOf' = [ownerOf EXCEPT ![d] = o]
    /\ UNCHANGED <<task, seen, target, aged, listening, files, budget>>

\* The process leaves the process table; its files stay as they are.
Ends(d) ==
    /\ QuietExits => \A e \in Daemons : seen[e] = d => pc[e] \notin {"checkPid", "checkLock"}
    /\ Goes(d, "absent")
    /\ task' = [task EXCEPT ![d] = "none"]
    /\ Sees(d, None)
    /\ target' = [target EXCEPT ![d] = None]
    /\ aged' = [aged EXCEPT ![d] = FALSE]
    /\ ownerOf' = [ownerOf EXCEPT ![d] = None]
    /\ listening' = listening \ {d}
    /\ UNCHANGED files

Exit(d) == At(d, "exit") /\ Ends(d) /\ UNCHANGED budget

Crash(d) ==
    /\ Alive(d) /\ ~At(d, "exit")
    /\ crashes < MaxCrashes /\ crashes' = crashes + 1
    /\ Ends(d)
    /\ UNCHANGED <<failures, stops, timeouts, overlooked>>

-----------------------------------------------------------------------------
(* ActiveSlotCoordinator.acquire: create owner.lock, or judge the one that *)
(* is there.                                                               *)

TakeOwner(d) ==
    /\ At(d, "acquire")
    /\ \/ /\ owner = None
          /\ Goes(d, "stamp") /\ owner' = [by |-> d, body |-> "empty", old |-> FALSE]
       \/ owner # None /\ Goes(d, "stat") /\ UNCHANGED owner
    /\ UNCHANGED <<task, seen, target, aged, ownerOf, listening, active, lock, budget>>

\* The pid goes to the file that was created, even if it was unlinked since.
StampOwner(d) ==
    /\ At(d, "stamp")
    /\ Goes(d, "listen")
    /\ owner' = IF owner # None /\ owner.by = d
                THEN [by |-> d, body |-> "pid", old |-> FALSE] ELSE owner
    /\ UNCHANGED <<task, seen, target, aged, ownerOf, listening, active, lock, budget>>

\* A lock that is gone by now counts as not recovered, and the start is refused.
StatOwner(d) ==
    /\ At(d, "stat")
    /\ IF owner = None
       THEN Goes(d, "recall") /\ UNCHANGED aged
       ELSE Goes(d, "inspect") /\ aged' = [aged EXCEPT ![d] = owner.old]
    /\ UNCHANGED <<task, seen, target, ownerOf, listening, files, budget>>

\* Without live evidence, an old lock is stale; a young one if its pid is dead.
NoEvidence(d) == Goes(d, IF aged[d] THEN "evict" ELSE "readPid") /\ Sees(d, None)

InspectOwner(d) ==
    /\ At(d, "inspect")
    /\ IF owner # None /\ owner.body = "record"
       THEN Goes(d, "probeOwner") /\ Sees(d, owner.by)
       ELSE NoEvidence(d)
    /\ UNCHANGED <<task, target, aged, ownerOf, listening, files, budget>>

\* A daemon that listens answers: here in time, in ProbeTimesOut too late.
ProbeOwner(d) ==
    /\ At(d, "probeOwner")
    /\ IF seen[d] \in listening THEN Goes(d, "recall") /\ Sees(d, None) ELSE NoEvidence(d)
    /\ UNCHANGED <<task, target, aged, ownerOf, listening, files, budget>>

ReadOwnerPid(d) ==
    /\ At(d, "readPid")
    /\ IF owner # None /\ owner.body # "empty"
       THEN Goes(d, "checkPid") /\ Sees(d, owner.by)
       ELSE Goes(d, "recall") /\ UNCHANGED seen
    /\ UNCHANGED <<task, target, aged, ownerOf, listening, files, budget>>

CheckOwnerPid(d) ==
    /\ At(d, "checkPid")
    /\ Goes(d, IF Alive(seen[d]) THEN "recall" ELSE "evict")
    /\ Sees(d, None)
    /\ UNCHANGED <<task, target, aged, ownerOf, listening, files, budget>>

\* The unlink is by name: it removes whatever lock is there now.
EvictOwner(d) ==
    /\ At(d, "evict")
    /\ Goes(d, "acquire")
    /\ owner' = None
    /\ aged' = [aged EXCEPT ![d] = FALSE]
    /\ UNCHANGED <<task, seen, target, ownerOf, listening, active, lock, budget>>

-----------------------------------------------------------------------------
(* A start that is refused first makes the live daemon findable again:     *)
(* _restore_active_record_from_owner_lock.                                 *)

Recall(d) ==
    /\ At(d, "recall")
    /\ IF owner # None /\ owner.body = "record"
       THEN Goes(d, "probeRecall") /\ Sees(d, owner.by)
       ELSE Goes(d, "exit") /\ UNCHANGED seen
    /\ UNCHANGED <<task, target, aged, ownerOf, listening, files, budget>>

\* Only the answer of a daemon that runs for the same owner is a LIVE_MATCH.
ProbeRecall(d) ==
    /\ At(d, "probeRecall")
    /\ Sees(d, None)
    /\ IF seen[d] \in listening /\ ownerOf[seen[d]] = ownerOf[d]
       THEN Locks(d, "restore") /\ target' = [target EXCEPT ![d] = seen[d]]
       ELSE Goes(d, "exit") /\ UNCHANGED <<task, target>>
    /\ UNCHANGED <<aged, ownerOf, listening, files, budget>>

-----------------------------------------------------------------------------
(* AndroidctldHttpServer.start, after the owner lock.                      *)

Listen(d) ==
    /\ At(d, "listen")
    /\ Goes(d, "ready")
    /\ listening' = listening \cup {d}
    /\ UNCHANGED <<task, seen, target, aged, ownerOf, files, budget>>

Ready(d) ==
    /\ At(d, "ready")
    /\ Locks(d, "publish")
    /\ UNCHANGED <<seen, target, aged, ownerOf, listening, files, budget>>

Fails ==
    /\ failures < MaxFailures /\ failures' = failures + 1
    /\ UNCHANGED <<stops, crashes, timeouts, overlooked>>

\* The port cannot be bound: no record was prepared, so none is cleared.
ListenFails(d) ==
    /\ At(d, "listen") /\ Fails
    /\ Goes(d, "release")
    /\ UNCHANGED <<task, seen, target, aged, ownerOf, listening, files>>

\* The health check stays unanswered, or owner.lock cannot be written.
StartFails(d) ==
    /\ pc[d] \in {"ready", "mark"} /\ Fails
    /\ Locks(d, "fail")
    /\ UNCHANGED <<seen, target, aged, ownerOf, listening, files>>

-----------------------------------------------------------------------------
(* ActiveDaemonRegistry._active_lock.                                      *)

TakeLock(d) ==
    /\ At(d, "lock")
    /\ \/ /\ lock = None
          /\ Goes(d, "stampLock") /\ lock' = [by |-> d, stamped |-> FALSE, old |-> FALSE]
       \/ lock # None /\ Goes(d, "readLock") /\ UNCHANGED lock
    /\ UNCHANGED <<task, seen, target, aged, ownerOf, listening, owner, active, budget>>

StampLock(d) ==
    /\ At(d, "stampLock")
    /\ Goes(d, IF task[d] = "restore" THEN "write" ELSE "readActive")
    /\ lock' = IF lock # None /\ lock.by = d
               THEN [by |-> d, stamped |-> TRUE, old |-> FALSE] ELSE lock
    /\ UNCHANGED <<task, seen, target, aged, ownerOf, listening, owner, active, budget>>

ReadLock(d) ==
    /\ At(d, "readLock")
    /\ Goes(d, "checkLock")
    /\ Sees(d, IF lock # None /\ lock.stamped THEN lock.by ELSE None)
    /\ UNCHANGED <<task, target, aged, ownerOf, listening, files, budget>>

\* Mutant of CheckLock: a lock without a pid is stale at once.
CheckLockHasty(d) ==
    /\ At(d, "checkLock")
    /\ Goes(d, IF lock # None /\ (seen[d] = None \/ ~Alive(seen[d])) THEN "breakLock"
               ELSE "waitLock")
    /\ Sees(d, None)
    /\ UNCHANGED <<task, target, aged, ownerOf, listening, files, budget>>

\* A lock is stale when its pid is dead, or when it has none and is 30 s old.
\* One that is gone by now counts as not recovered.
CheckLock(d) ==
    /\ At(d, "checkLock")
    /\ LET dead  == seen[d] # None /\ ~Alive(seen[d])
           blank == seen[d] = None /\ lock # None /\ lock.old
       IN Goes(d, IF lock # None /\ (dead \/ blank) THEN "breakLock" ELSE "waitLock")
    /\ Sees(d, None)
    /\ UNCHANGED <<task, target, aged, ownerOf, listening, files, budget>>

\* The unlink is by name: it removes whatever lock is there now.
BreakLock(d) ==
    /\ At(d, "breakLock")
    /\ Goes(d, "lock")
    /\ lock' = None
    /\ UNCHANGED <<task, seen, target, aged, ownerOf, listening, owner, active, budget>>

RetryLock(d) ==
    /\ At(d, "waitLock")
    /\ Goes(d, "lock")
    /\ UNCHANGED <<task, seen, target, aged, ownerOf, listening, files, budget>>

\* The 2 s are over.  A publication that timed out is cleaned up, which takes
\* the lock again; any other error leaves start or stop, and main with it.
TimesOut(d) ==
    /\ At(d, "waitLock")
    /\ IF task[d] = "publish" THEN Locks(d, "fail") ELSE Goes(d, "exit") /\ UNCHANGED task
    /\ UNCHANGED <<seen, target, aged, ownerOf, listening, files>>

LeftBehind == lock # None /\ ~Alive(lock.by)
TimeOutLock(d) == LeftBehind /\ TimesOut(d) /\ UNCHANGED budget

\* Live processes keep active.lock for a fraction of a second: a wait of 2 s
\* behind them counts as a failure.
Starves(d) == ~LeftBehind /\ TimesOut(d) /\ Fails

\* Mutant of ReadActive: clear does not ask whose record it unlinks.
ReadActiveCareless(d) ==
    /\ At(d, "readActive")
    /\ IF task[d] = "publish" /\ active \notin {None, d}
       THEN Goes(d, "probeActive") /\ Sees(d, active)
       ELSE Goes(d, "write") /\ UNCHANGED seen
    /\ UNCHANGED <<task, target, aged, ownerOf, listening, files, budget>>

\* publish reads the record it would replace, clear the one it would remove.
ReadActive(d) ==
    /\ At(d, "readActive")
    /\ IF task[d] = "publish" /\ active \notin {None, d}
       THEN Goes(d, "probeActive") /\ Sees(d, active)
       ELSE /\ Goes(d, IF task[d] = "publish" \/ active = d THEN "write" ELSE "unlock")
            /\ UNCHANGED seen
    /\ UNCHANGED <<task, target, aged, ownerOf, listening, files, budget>>

\* Mutant of ProbeActive: only a daemon of another owner conflicts.
ProbeActiveForeign(d) ==
    /\ At(d, "probeActive")
    /\ Sees(d, None)
    /\ IF seen[d] \in listening /\ ownerOf[seen[d]] # ownerOf[d]
       THEN Goes(d, "unlock") /\ task' = [task EXCEPT ![d] = "lose"]
       ELSE Goes(d, "write") /\ UNCHANGED task
    /\ UNCHANGED <<target, aged, ownerOf, listening, files, budget>>

\* Mutant of ProbeActive: a record conflicts even when its daemon is gone.
ProbeActiveStrict(d) ==
    /\ At(d, "probeActive")
    /\ Sees(d, None)
    /\ Goes(d, "unlock") /\ task' = [task EXCEPT ![d] = "lose"]
    /\ UNCHANGED <<target, aged, ownerOf, listening, files, budget>>

\* A record whose daemon does not answer does not conflict, whatever its pid:
\* not one that is gone, and not one that is slow (ProbeTimesOut).
ProbeActive(d) ==
    /\ At(d, "probeActive")
    /\ Sees(d, None)
    /\ IF seen[d] \in listening
       THEN Goes(d, "unlock") /\ task' = [task EXCEPT ![d] = "lose"]
       ELSE Goes(d, "write") /\ UNCHANGED task
    /\ UNCHANGED <<target, aged, ownerOf, listening, files, budget>>

\* Mutant of WriteActive: a restore copies owner.lock, which has no token.
WriteActiveCopy(d) ==
    /\ At(d, "write")
    /\ Goes(d, "unlock")
    /\ active' = IF task[d] = "publish" THEN d
                 ELSE IF task[d] = "restore" THEN owner ELSE None
    /\ UNCHANGED <<task, seen, target, aged, ownerOf, listening, owner, lock, budget>>

\* Written by an atomic replace, or unlinked.
WriteActive(d) ==
    /\ At(d, "write")
    /\ Goes(d, "unlock")
    /\ active' = IF task[d] = "publish" THEN d
                 ELSE IF task[d] = "restore" THEN target[d] ELSE None
    /\ UNCHANGED <<task, seen, target, aged, ownerOf, listening, owner, lock, budget>>

\* OwnershipHealthProbe.probe gives up after 0.15 s, and UNREACHABLE is what it
\* says of a slow daemon, too: no live evidence to a starter that judges
\* owner.lock, no conflict to one that publishes, no match to one that restores.
ProbeTimesOut(d) ==
    /\ seen[d] \in listening
    /\ timeouts < MaxTimeouts /\ timeouts' = timeouts + 1
    /\ \/ At(d, "probeOwner") /\ NoEvidence(d)
       \/ At(d, "probeActive") /\ Goes(d, "write") /\ Sees(d, None)
       \/ At(d, "probeRecall") /\ Goes(d, "exit") /\ Sees(d, None)
    /\ overlooked' = (overlooked \/ (At(d, "probeActive") /\ Runs(seen[d])))
    /\ UNCHANGED <<task, target, aged, ownerOf, listening, files, failures, stops, crashes>>

\* A lost publication still goes through the cleanup of a failed start.
Unlock(d) ==
    /\ At(d, "unlock")
    /\ lock' = None
    /\ \/ task[d] = "publish" /\ Goes(d, "mark") /\ UNCHANGED task
       \/ task[d] = "lose" /\ Locks(d, "fail")
       \/ task[d] = "fail" /\ Goes(d, "hush") /\ UNCHANGED task
       \/ task[d] = "stop" /\ Goes(d, "release") /\ UNCHANGED task
       \/ task[d] = "restore" /\ Goes(d, "exit") /\ UNCHANGED task
    /\ UNCHANGED <<seen, target, aged, ownerOf, listening, owner, active, budget>>

-----------------------------------------------------------------------------
(* A published daemon, and the end of one.                                 *)

\* _publish_owner_lock_record replaces owner.lock, whoever created it.
MarkOwner(d) ==
    /\ At(d, "mark")
    /\ Goes(d, "serving")
    /\ task' = [task EXCEPT ![d] = "none"]
    /\ owner' = [by |-> d, body |-> "record", old |-> FALSE]
    /\ UNCHANGED <<seen, target, aged, ownerOf, listening, active, lock, budget>>

\* AndroidctldHttpServer.stop silences the server before it clears the record.
Stop(d) ==
    /\ At(d, "serving")
    /\ stops < MaxStops /\ stops' = stops + 1
    /\ Locks(d, "stop")
    /\ listening' = listening \ {d}
    /\ UNCHANGED <<seen, target, aged, ownerOf, files,
                   failures, crashes, timeouts, overlooked>>

\* The cleanup of a failed start clears the record first.
Hush(d) ==
    /\ At(d, "hush")
    /\ Goes(d, "release")
    /\ listening' = listening \ {d}
    /\ UNCHANGED <<task, seen, target, aged, ownerOf, files, budget>>

\* release_owner unlinks by name, too, even a lock that another daemon took.
ReleaseOwner(d) ==
    /\ At(d, "release")
    /\ Goes(d, "exit")
    /\ owner' = None
    /\ UNCHANGED <<task, seen, target, aged, ownerOf, listening, active, lock, budget>>

-----------------------------------------------------------------------------
(* Time: owner.lock is 2 s old, an active.lock without a pid is 30 s old.  *)

AgeOwner ==
    /\ owner # None /\ ~owner.old
    /\ owner' = [owner EXCEPT !.old = TRUE]
    /\ UNCHANGED <<local, ownerOf, listening, active, lock, budget>>

\* A live process does not pause 30 s between two system calls.
AgeLock ==
    /\ lock # None /\ ~lock.old /\ ~lock.stamped /\ ~Alive(lock.by)
    /\ lock' = [lock EXCEPT !.old = TRUE]
    /\ UNCHANGED <<local, ownerOf, listening, owner, active, budget>>

-----------------------------------------------------------------------------
Acquire(d) ==
    \/ TakeOwner(d) \/ StampOwner(d) \/ StatOwner(d) \/ InspectOwner(d) \/ ProbeOwner(d)
    \/ ReadOwnerPid(d) \/ CheckOwnerPid(d) \/ EvictOwner(d) \/ Recall(d) \/ ProbeRecall(d)

UseLock(d) ==
    \/ TakeLock(d) \/ StampLock(d) \/ ReadLock(d) \/ CheckLock(d) \/ BreakLock(d)
    \/ RetryLock(d) \/ TimeOutLock(d)
    \/ ReadActive(d) \/ ProbeActive(d) \/ WriteActive(d) \/ Unlock(d)

\* What a daemon does of its own accord, and so what fairness is about.
Step(d) ==
    \/ Acquire(d) \/ Listen(d) \/ Ready(d) \/ UseLock(d)
    \/ MarkOwner(d) \/ Hush(d) \/ ReleaseOwner(d) \/ Exit(d)

Trouble(d) ==
    \/ ListenFails(d) \/ StartFails(d) \/ Starves(d) \/ ProbeTimesOut(d)
    \/ Stop(d) \/ Crash(d)

SlotNext ==
    \/ \E d \in Daemons : Step(d) \/ Trouble(d)
    \/ \E d \in Daemons, o \in Owners : Launch(d, o)
    \/ AgeOwner \/ AgeLock

SlotSpec == Init /\ [][SlotNext]_slotVars

-----------------------------------------------------------------------------
(* Properties.                                                             *)

TypeOK ==
    /\ pc \in [Daemons -> Stages]
    /\ task \in [Daemons -> Tasks]
    /\ seen \in [Daemons -> Maybe(Daemons)]
    /\ target \in [Daemons -> Maybe(Daemons)]
    /\ aged \in [Daemons -> BOOLEAN]
    /\ ownerOf \in [Daemons -> Maybe(Owners)]
    /\ listening \subseteq Daemons
    /\ owner \in Maybe(OwnerLocks)
    /\ active \in Maybe(Daemons)
    /\ lock \in Maybe(ActiveLocks)
    /\ failures \in 0..MaxFailures /\ stops \in 0..MaxStops
    /\ crashes \in 0..MaxCrashes /\ timeouts \in 0..MaxTimeouts
    /\ overlooked \in BOOLEAN

InSection(d) == pc[d] \in {"stampLock", "readActive", "probeActive", "write", "unlock"}

\* active.lock excludes: as long as nobody dies, one daemon at a time publishes,
\* clears or restores, although whoever finds the lock judges it, and each lock
\* is without a pid for a moment (_active_lock, _recover_stale_lock).
OneInSection == \A d, e \in Daemons : InSection(d) /\ InSection(e) => d = e

\* One daemon at a time runs the workspace, as the documentation has it
\* (skills/androidctl/references/setup-and-workspace.md:78).  Not so in the code:
\* a daemon that takes 0.15 s to answer is overlooked by the next publication
\* (_active_record_conflicts), and both run.
OneRunsAlways == \A d, e \in Daemons : Runs(d) /\ Runs(e) => d = e

\* That is the only way to a second daemon.  Until a publication overlooks the
\* one that runs, one at a time runs the workspace, whoever evicts whose lock:
\* a starter that judges a slow daemon's owner.lock stale gets that lock, but
\* still loses the publication (acquire, ActiveDaemonRegistry.publish).
OneRuntime == ~overlooked => OneRunsAlways

\* Until then active.json names the daemon that runs the workspace from the
\* moment it is published: no starter that loses, fails, waits in vain, evicts
\* its owner.lock or gets no answer from it takes the record away or puts another
\* in its place (publish, clear, restore).
RuntimeIsFound == ~overlooked => \A d \in Daemons : Runs(d) => active = d

\* When nothing else goes on, active.json names the daemon that runs, so that a
\* session that looks learns of it, and one with another owner that the
\* workspace is busy (restore; setup-and-workspace.md:83).
RestingRuntimeIsFound ==
    \A d \in Daemons :
        At(d, "serving") /\ (\A e \in Daemons \ {d} : ~Alive(e)) => active = d

-----------------------------------------------------------------------------
(* The inductive invariant behind OneRuntime and RuntimeIsFound, while     *)
(* daemons neither stop nor die and QuietExits holds.  Probes may time     *)
(* out; what it says of records ends when one overlooks who runs.          *)

\* A live daemon in its critical section holds active.lock, and nobody else
\* does; whoever judges the lock finds its holder alive.
LockInv ==
    /\ \A d \in Daemons : InSection(d) => lock # None /\ lock.by = d
    /\ lock # None => InSection(lock.by) /\ ~lock.old
    /\ \A d \in Daemons : At(d, "checkLock") /\ seen[d] # None => Alive(seen[d])
    /\ \A d \in Daemons : ~At(d, "breakLock")

\* The daemon that runs answers, and active.json names it.
FoundInv == \A d \in Daemons : Runs(d) => active = d /\ d \in listening

\* Records name daemons that serve: those that owner.lock has, that a refused
\* starter read there, and that it is about to restore.
Serves(d) == At(d, "serving")
RecordInv ==
    /\ owner # None /\ owner.body = "record" => Serves(owner.by)
    /\ \A d \in Daemons : At(d, "probeRecall") => seen[d] \in Daemons /\ Serves(seen[d])
    /\ \A d \in Daemons : task[d] = "restore" => target[d] \in Daemons /\ Serves(target[d])

\* What a critical section has read in active.json is still there, and what it
\* writes replaces the record of no daemon that runs.
SectionInv ==
    \A d \in Daemons :
        /\ At(d, "probeActive") => task[d] = "publish" /\ seen[d] = active
        /\ At(d, "write") /\ task[d] = "publish" => \A e \in Daemons : ~Runs(e)
        /\ At(d, "write") /\ task[d] = "fail" => active = d
        /\ task[d] # "stop"

\* A critical section is entered for a reason, and by a daemon that answers
\* when it is to publish its record.
TaskInv ==
    \A d \in Daemons :
        /\ InSection(d) \/ pc[d] \in {"lock", "readLock", "checkLock", "breakLock", "waitLock"}
           => task[d] # "none"
        /\ task[d] = "lose" => At(d, "unlock")
        /\ At(d, "hush") => task[d] = "fail"
        /\ ~Alive(d) => task[d] = "none"
        /\ At(d, "ready") \/ task[d] = "publish" => d \in listening

RuntimeInv == FoundInv /\ RecordInv /\ SectionInv /\ TaskInv

SlotInv == TypeOK /\ LockInv /\ (~overlooked => RuntimeInv)
=============================================================================
