---------------------------- MODULE RuntimeKernel ----------------------------
(***************************************************************************)
(* The workspace runtime of the host daemon and the operations of          *)
(* RuntimeKernel on it: connect, transport rebuild, screen refresh,        *)
(* screenshot attachment, loss of authority, close, and the runtime.json   *)
(* and screen artifact files they leave on disk.                           *)
(*                                                                         *)
(* The kernel promises to be safe for any threads that call it, each       *)
(* holding a lifecycle lease; a caller is such a thread.  One action is    *)
(* one critical section of runtime.lock, except that the refresh commit,   *)
(* which keeps the lock over several file operations, is one action per    *)
(* file operation with "lock" naming the holder.                           *)
(***************************************************************************)
EXTENDS Integers, FiniteSets

CONSTANTS
    Callers,            \* threads inside a kernel operation
    Devices,            \* Android devices a connection can name
    Ports,              \* local endpoints a transport can be given (adb forward)
    Snapshots,          \* what a device can show, up to equality
    None,               \* Python's None
    MaxSequence,        \* bound: screen sequences explored
    MaxRevision,        \* bound: lifecycle revisions explored
    MaxFaults,          \* bound: failing writes explored
    MaxCrashes          \* bound: daemon crashes explored

Statuses == {"new", "bootstrapping", "connected", "ready", "broken", "closed"}
ArtifactKinds == {"json", "xml"}

Sequences == 1..MaxSequence
Revisions == 0..MaxRevision

Transports  == [port : Ports, device : Devices]
Captures    == [device : Devices, snapshot : Snapshots]
\* lease is auxiliary: the lifecycle revision of the caller that installed it.
Connections == [device : Devices, lease : Revisions]
Attachments == [device : Devices, lease : Revisions]
\* A connect attempt before and after begin_connect, or a transport rebuild.
Targets     == [device : Devices, attempt : {"connect", "begun", "rebootstrap"}]
Screens     == [sequence : Sequences, device : Devices,
                snapshot : Snapshots, lease : Revisions]

Maybe(S) == S \cup {None}

Runtimes ==
    [status : Statuses, connection : Maybe(Connections), token : Maybe(Devices),
     capabilities : Maybe(Devices), transport : Maybe(Transports),
     sequence : 0..MaxSequence, screen : Maybe(Screens),
     attached : Maybe(Attachments), revision : Revisions]

RuntimeFiles == [status : Statuses \ {"ready"}, sequence : 0..MaxSequence]
ArtifactFiles == [ArtifactKinds -> [Sequences -> Maybe(Screens)]]

Refreshes ==
    [phase : {"staged", "json", "xml", "persist"}, screen : Screens,
     saved : Maybe(Runtimes), backup : [ArtifactKinds -> Maybe(Screens)]]

ASSUME NoneAssumption ==
    /\ None \notin Callers \cup Devices \cup Transports \cup Captures
    /\ None \notin Connections \cup Attachments \cup Screens \cup Targets
    /\ None \notin Runtimes \cup RuntimeFiles \cup Refreshes
    /\ None \notin Int

ASSUME BoundAssumption ==
    /\ MaxSequence \in Nat
    /\ MaxRevision \in Nat
    /\ MaxFaults \in Nat
    /\ MaxCrashes \in Nat

VARIABLES
    rt,         \* the WorkspaceRuntime object
    disk,       \* runtime.json
    files,      \* published obs-NNNNN.json and obs-NNNNN.xml, by kind and sequence
    open,       \* transports that are established and not closed
    lock,       \* caller inside a refresh commit, holding runtime.lock
    lease,      \* each caller's lifecycle lease
    target,     \* the device a caller connects to, and how far the attempt is
    held,       \* ConnectorHandle a caller still answers for
    client,     \* endpoint of the caller's DeviceRpcClient
    fetched,    \* snapshot or screenshot a device call returned to the caller
    txn,        \* a caller's refresh: its basis, staged files and commit progress
    issued,     \* auxiliary: sequence of the last refresh reported to a client
    faults,     \* writes that failed so far
    crashes     \* crashes so far

runtimeVars == <<rt, disk, files, open>>
callVars    == <<lease, target, held, client, fetched, txn>>
kernelVars  == <<runtimeVars, lock, callVars, issued, faults, crashes>>

-----------------------------------------------------------------------------
(* The runtime object *)

\* Mutant of Loaded: a restart begins its sequences anew.
LoadedAfresh(d) ==
    [status       |-> IF d = None THEN "new" ELSE d.status,
     connection   |-> None, token |-> None, capabilities |-> None,
     transport    |-> None, sequence |-> 0,
     screen       |-> None, attached |-> None, revision |-> 0]

\* RuntimeStore.get_runtime over RuntimeStateRepository.load
Loaded(d) ==
    [status       |-> IF d = None THEN "new" ELSE d.status,
     connection   |-> None, token |-> None, capabilities |-> None,
     transport    |-> None,
     sequence     |-> IF d = None THEN 0 ELSE d.sequence,
     screen       |-> None, attached |-> None, revision |-> 0]

\* What is screen truth: ids, snapshots, screen_state and ref_registry go together.
WithoutScreen(r) == [r EXCEPT !.screen = None, !.attached = None]

WithoutDevice(r) ==
    [r EXCEPT !.transport = None, !.connection = None, !.token = None,
              !.capabilities = None]

Cleared(r) == WithoutDevice(WithoutScreen(r))

HasAuthoritativeScreen(r) ==
    /\ r.status = "ready"
    /\ r.screen # None
    /\ r.screen.sequence = r.sequence

HasDevice(r) == r.transport # None /\ r.connection # None /\ r.token # None

StaleReady(r) == r.status = "ready" /\ ~(HasDevice(r) /\ HasAuthoritativeScreen(r))

Normalized(r) ==
    IF HasDevice(r)
    THEN [WithoutScreen(r) EXCEPT !.status = "connected"]
    ELSE [Cleared(r) EXCEPT !.status = "broken"]

\* Mutant of WithoutAuthority: the runtime goes on calling itself ready.
StillReady(r, discardTransport) ==
    IF r.connection # None /\ r.token # None
    THEN [WithoutScreen(r) EXCEPT
            !.transport    = IF discardTransport THEN None ELSE @,
            !.capabilities = IF discardTransport THEN None ELSE @]
    ELSE [Cleared(r) EXCEPT !.status = "broken"]

WithoutAuthority(r, discardTransport) ==
    IF r.connection # None /\ r.token # None
    THEN [WithoutScreen(r) EXCEPT
            !.transport    = IF discardTransport THEN None ELSE @,
            !.capabilities = IF discardTransport THEN None ELSE @,
            !.status       = "connected"]
    ELSE [Cleared(r) EXCEPT !.status = "broken"]

WithScreen(r, s) ==
    [r EXCEPT !.sequence = s.sequence, !.status = "ready", !.screen = s,
              !.attached = None]

-----------------------------------------------------------------------------
(* Persistence and transports *)

\* Mutant of Persisted: the status is written as it is.
PersistedReady(r) == [status |-> r.status, sequence |-> r.sequence]

\* RuntimeStateRepository.persist: a ready runtime has no screen to come back to.
Persisted(r) ==
    [status   |-> IF r.status = "ready" THEN "broken" ELSE r.status,
     sequence |-> r.sequence]

\* commit_runtime either replaces runtime.json or raises and leaves it alone.
Persist(r, ok) ==
    \/ /\ ok
       /\ disk' = Persisted(r)
       /\ UNCHANGED faults
    \/ /\ ~ok
       /\ faults < MaxFaults
       /\ faults' = faults + 1
       /\ UNCHANGED disk

\* Closing goes by endpoint (adb forward --remove): a handle that is closed twice
\* takes down whatever the device has forwarded there by then.
CloseTransport(t) == open' = open \ {t}

\* Mutant of Become: the transport is forgotten and not closed.
Leak(r) == rt' = r /\ UNCHANGED open

\* rt becomes r, and the transport it gives up is closed.
Become(r) ==
    /\ rt' = r
    /\ CloseTransport(IF r.transport = rt.transport THEN None ELSE rt.transport)

FreePorts == Ports \ {t.port : t \in open}

LockFree == lock = None
\* Mutant of LeaseCurrent: any lease will do.
LeaseTaken(c) == lease[c] # None
LeaseCurrent(c) == lease[c] # None /\ lease[c] = rt.revision
InCall(c) == lease[c] # None
\* A handler does one thing at a time.
Ready(c) ==
    /\ InCall(c)
    /\ target[c] = None
    /\ client[c] = None
    /\ fetched[c] = None
    /\ txn[c] = None

Set(f, c, value) == f' = [f EXCEPT ![c] = value]

-----------------------------------------------------------------------------
(* Calls *)

\* A command handler enters and captures its lifecycle lease.
CaptureLease(c) ==
    /\ LockFree
    /\ ~InCall(c)
    /\ Set(lease, c, rt.revision)
    /\ UNCHANGED <<runtimeVars, lock, target, held, client, fetched, txn,
                   issued, faults, crashes>>

\* A handler returns or raises; a refresh it staged and did not start is discarded.
EndCall(c) ==
    /\ InCall(c)
    /\ lock # c
    /\ held[c] = None
    /\ Set(lease, c, None)
    /\ Set(target, c, None)
    /\ Set(client, c, None)
    /\ Set(fetched, c, None)
    /\ Set(txn, c, None)
    /\ UNCHANGED <<runtimeVars, lock, held, issued, faults, crashes>>

NormalizeStaleReady(ok) ==
    /\ LockFree
    /\ StaleReady(rt)
    /\ Become(Normalized(rt))
    /\ Persist(Normalized(rt), ok)
    /\ UNCHANGED <<files, lock, callVars, issued, crashes>>

-----------------------------------------------------------------------------
(* Connecting *)

\* The connect command names the device.
ChooseDevice(c, d) ==
    /\ Ready(c)
    /\ Set(target, c, [device |-> d, attempt |-> "connect"])
    /\ UNCHANGED <<runtimeVars, lock, lease, held, client, fetched, txn,
                   issued, faults, crashes>>

\* DeviceBootstrapper.establish_transport
EstablishTransport(c, p) ==
    /\ InCall(c)
    /\ target[c] # None
    /\ held[c] = None
    /\ p \in FreePorts
    /\ target[c].attempt # "begun"
    /\ LET t == [port |-> p, device |-> target[c].device] IN
       /\ Set(held, c, t)
       /\ open' = open \cup {t}
    /\ UNCHANGED <<rt, disk, files, lock, lease, target, client, fetched,
                   txn, issued, faults, crashes>>

\* handle.close(): a failed bootstrap, a failed connect, or a rejected result.
DiscardHandle(c) ==
    /\ held[c] # None
    /\ target[c].attempt # "begun" \/ ~LeaseCurrent(c)
    /\ CloseTransport(held[c])
    /\ Set(held, c, None)
    /\ Set(target, c, None)
    /\ UNCHANGED <<rt, disk, files, lock, lease, client, fetched, txn,
                   issued, faults, crashes>>

Attempting(c, attempt) == target[c] # None /\ target[c].attempt = attempt

\* Mutant of Connecting: the runtime of the device before is not cleared.
ConnectingOver(c) == [rt EXCEPT !.transport = held[c], !.status = "bootstrapping"]

Connecting(c) ==
    [Cleared(rt) EXCEPT !.transport = held[c], !.status = "bootstrapping"]

BeginConnect(c, ok) ==
    /\ LockFree
    /\ held[c] # None
    /\ Attempting(c, "connect")
    /\ LeaseCurrent(c)
    /\ rt' = Connecting(c)
    /\ CloseTransport(rt.transport)
    /\ Persist(Connecting(c), ok)
    /\ target' = IF ok THEN [target EXCEPT ![c].attempt = "begun"] ELSE target
    /\ UNCHANGED <<files, lock, lease, held, client, fetched, txn, issued,
                   crashes>>

Activated(c) ==
    [rt EXCEPT !.connection = [device |-> held[c].device, lease |-> lease[c]],
               !.transport = held[c],
               !.token = held[c].device,
               !.capabilities = held[c].device,
               !.status = "connected"]

\* The runtime answers for the transport from here on, whether or not the write fails.
ActivateConnect(c, ok) ==
    /\ LockFree
    /\ Attempting(c, "begun")
    /\ LeaseCurrent(c)
    /\ rt' = Activated(c)
    /\ Persist(Activated(c), ok)
    /\ Set(held, c, None)
    /\ Set(target, c, None)
    /\ UNCHANGED <<files, open, lock, lease, client, fetched, txn, issued,
                   crashes>>

\* fail_connect and invalidate_device_credentials: both forget the device.
Break(c, ok) ==
    /\ LockFree
    /\ LeaseCurrent(c)
    /\ LET r == [Cleared(rt) EXCEPT !.status = "broken"] IN
       Become(r) /\ Persist(r, ok)

FailConnect(c, ok) ==
    /\ target[c] # None => Attempting(c, "begun")
    /\ txn[c] = None
    /\ Break(c, ok)
    /\ Set(held, c, None)
    /\ Set(target, c, None)
    /\ Set(client, c, None)
    /\ Set(fetched, c, None)
    /\ UNCHANGED <<files, lock, lease, txn, issued, crashes>>

InvalidateCredentials(c, ok) ==
    /\ Ready(c)
    /\ Break(c, ok)
    /\ UNCHANGED <<files, lock, callVars, issued, crashes>>

-----------------------------------------------------------------------------
(* Talking to the device *)

\* rebootstrap_transport, first critical section, when a transport is there.
ReuseTransport(c) ==
    /\ LockFree
    /\ Ready(c)
    /\ LeaseCurrent(c)
    /\ rt.transport # None
    /\ Set(client, c, rt.transport)
    /\ UNCHANGED <<runtimeVars, lock, lease, target, held, fetched, txn,
                   issued, faults, crashes>>

\* The same section when there is none: the device is bootstrapped outside the lock.
StartRebootstrap(c) ==
    /\ LockFree
    /\ Ready(c)
    /\ LeaseCurrent(c)
    /\ rt.transport = None
    /\ rt.connection # None
    /\ rt.token # None
    /\ Set(target, c, [device |-> rt.connection.device, attempt |-> "rebootstrap"])
    /\ UNCHANGED <<runtimeVars, lock, lease, held, client, fetched, txn,
                   issued, faults, crashes>>

Rebootstrapped(c) ==
    [rt EXCEPT !.connection = [device |-> held[c].device, lease |-> lease[c]],
               !.transport = held[c],
               !.capabilities = held[c].device]

\* commit_transport_rebootstrap when the runtime still has no transport
CommitRebootstrap(c, ok) ==
    /\ LockFree
    /\ held[c] # None
    /\ Attempting(c, "rebootstrap")
    /\ LeaseCurrent(c)
    /\ rt.transport = None
    /\ rt' = Rebootstrapped(c)
    /\ Persist(Rebootstrapped(c), ok)
    /\ Set(client, c, IF ok THEN held[c] ELSE None)
    /\ Set(held, c, None)
    /\ Set(target, c, None)
    /\ UNCHANGED <<files, open, lock, lease, fetched, txn, issued, crashes>>

\* Somebody else installed a transport meanwhile: the loser's is closed.
LoseRebootstrap(c) ==
    /\ LockFree
    /\ held[c] # None
    /\ Attempting(c, "rebootstrap")
    /\ LeaseCurrent(c)
    /\ rt.transport # None
    /\ CloseTransport(held[c])
    /\ Set(client, c, rt.transport)
    /\ Set(held, c, None)
    /\ Set(target, c, None)
    /\ UNCHANGED <<rt, disk, files, lock, lease, fetched, txn, issued,
                   faults, crashes>>

\* A snapshot or screenshot call answers; a closed transport never does.
Fetch(c, s) ==
    /\ client[c] # None
    /\ client[c] \in open
    /\ Set(fetched, c, [device |-> client[c].device, snapshot |-> s])
    /\ Set(client, c, None)
    /\ UNCHANGED <<runtimeVars, lock, lease, target, held, txn, issued, faults,
                   crashes>>

\* A device call that fails, or whose answer the runtime does not keep.
CallDevice(c) ==
    /\ client[c] # None
    /\ Set(client, c, None)
    /\ UNCHANGED <<runtimeVars, lock, lease, target, held, fetched, txn, issued,
                   faults, crashes>>

-----------------------------------------------------------------------------
(* Screen refresh *)

\* _capture_refresh_basis, then compile and stage_screen outside the lock.
CaptureBasis(c) ==
    /\ LockFree
    /\ LeaseCurrent(c)
    /\ fetched[c] # None
    /\ rt.sequence < MaxSequence
    /\ Set(txn, c,
           [phase  |-> "staged",
            screen |-> [sequence |-> rt.sequence + 1,
                        device   |-> fetched[c].device,
                        snapshot |-> fetched[c].snapshot,
                        lease    |-> lease[c]],
            saved  |-> None,
            backup |-> [k \in ArtifactKinds |-> None]])
    /\ Set(fetched, c, None)
    /\ UNCHANGED <<runtimeVars, lock, lease, target, held, client, issued,
                   faults, crashes>>

\* A stale lease, a rejecting candidate_validator, or a failing compile or stage.
DiscardRefresh(c) ==
    /\ txn[c] # None
    /\ txn[c].phase = "staged"
    /\ Set(txn, c, None)
    /\ UNCHANGED <<runtimeVars, lock, lease, target, held, client, fetched,
                   issued, faults, crashes>>

\* commit_screen_refresh takes the lock, passes pre_commit and saves the old state.
StartCommit(c) ==
    /\ LockFree
    /\ txn[c] # None
    /\ txn[c].phase = "staged"
    /\ LeaseCurrent(c)
    /\ lock' = c
    /\ txn' = [txn EXCEPT ![c].phase = "json", ![c].saved = rt]
    /\ UNCHANGED <<runtimeVars, lease, target, held, client, fetched, issued,
                   faults, crashes>>

\* One StagedFileUpdate.commit: back the published file up, put the staged one there.
Publish(c, kind, nextPhase) ==
    LET s == txn[c].screen IN
    /\ files' = [files EXCEPT ![kind][s.sequence] = s]
    /\ txn' = [txn EXCEPT ![c].phase = nextPhase,
                          ![c].backup[kind] = files[kind][s.sequence]]

PublishJson(c) ==
    /\ lock = c
    /\ txn[c].phase = "json"
    /\ Publish(c, "json", "xml")
    /\ UNCHANGED <<rt, disk, open, lock, lease, target, held, client, fetched,
                   issued, faults, crashes>>

\* The second file, and then _commit_screen_refresh_locked.
PublishXml(c) ==
    /\ lock = c
    /\ txn[c].phase = "xml"
    /\ Publish(c, "xml", "persist")
    /\ rt' = WithScreen(rt, txn[c].screen)
    /\ UNCHANGED <<disk, open, lock, lease, target, held, client, fetched,
                   issued, faults, crashes>>

PersistRefresh(c) ==
    /\ lock = c
    /\ txn[c].phase = "persist"
    /\ Persist(rt, TRUE)
    /\ lock' = None
    /\ issued' = txn[c].screen.sequence
    /\ Set(txn, c, None)
    /\ UNCHANGED <<rt, files, open, lease, target, held, client, fetched,
                   crashes>>

\* The files that were replaced so far: final_replaced in StagedFileUpdate.
Replaced(phase) ==
    CASE phase = "persist" -> ArtifactKinds
      [] phase = "xml"     -> {"json"}
      [] OTHER             -> {}

\* Mutant of RolledBack: only the json file gets its backup back.
HalfRolledBack(t) ==
    [k \in ArtifactKinds |->
        IF k = "json" /\ k \in Replaced(t.phase)
        THEN [files[k] EXCEPT ![t.screen.sequence] = t.backup[k]]
        ELSE files[k]]

\* StagedArtifactWrite.rollback
RolledBack(t) ==
    [k \in ArtifactKinds |->
        IF k \in Replaced(t.phase)
        THEN [files[k] EXCEPT ![t.screen.sequence] = t.backup[k]]
        ELSE files[k]]

\* Any of the writes of the commit fails: rollback_refresh.
RollbackRefresh(c) ==
    /\ lock = c
    /\ faults < MaxFaults
    /\ faults' = faults + 1
    /\ rt' = txn[c].saved
    /\ files' = RolledBack(txn[c])
    /\ lock' = None
    /\ Set(txn, c, None)
    /\ UNCHANGED <<disk, open, lease, target, held, client, fetched, issued,
                   crashes>>

-----------------------------------------------------------------------------
(* Screenshots, lost authority and the end of a runtime *)

AttachScreenshot(c) ==
    /\ LockFree
    /\ LeaseCurrent(c)
    /\ fetched[c] # None
    /\ rt' = [rt EXCEPT !.attached =
                [device |-> fetched[c].device, lease |-> lease[c]]]
    /\ Set(fetched, c, None)
    /\ UNCHANGED <<disk, files, open, lock, lease, target, held, client, txn,
                   issued, faults, crashes>>

DropScreenAuthority(c, discardTransport, ok) ==
    /\ LockFree
    /\ Ready(c)
    /\ LeaseCurrent(c)
    /\ Become(WithoutAuthority(rt, discardTransport))
    /\ Persist(WithoutAuthority(rt, discardTransport), ok)
    /\ UNCHANGED <<files, lock, callVars, issued, crashes>>

Closed(r) == [Cleared(r) EXCEPT !.revision = @ + 1, !.status = "closed"]

\* Runs under no lease.
CloseRuntime(ok) ==
    /\ LockFree
    /\ rt.revision < MaxRevision
    /\ Become(Closed(rt))
    /\ Persist(Closed(rt), ok)
    /\ UNCHANGED <<files, lock, callVars, issued, crashes>>

\* Forgets everything in memory, keeps the status and writes nothing.
InvalidateRuntime ==
    /\ LockFree
    /\ rt.revision < MaxRevision
    /\ Become([Cleared(rt) EXCEPT !.revision = @ + 1])
    /\ UNCHANGED <<disk, files, lock, callVars, issued, faults, crashes>>

NoneEach == [c \in Callers |-> None]

\* The process dies anywhere and a new one loads the workspace.
Restart ==
    /\ rt' = Loaded(disk)
    /\ open' = {}
    /\ lock' = None
    /\ lease' = NoneEach
    /\ target' = NoneEach
    /\ held' = NoneEach
    /\ client' = NoneEach
    /\ fetched' = NoneEach
    /\ txn' = NoneEach
    /\ UNCHANGED <<disk, files, issued, faults>>

Crash ==
    /\ crashes < MaxCrashes
    /\ crashes' = crashes + 1
    /\ Restart

-----------------------------------------------------------------------------
Init ==
    /\ rt = Loaded(None)
    /\ disk = None
    /\ files = [k \in ArtifactKinds |-> [n \in Sequences |-> None]]
    /\ open = {}
    /\ lock = None
    /\ lease = NoneEach
    /\ target = NoneEach
    /\ held = NoneEach
    /\ client = NoneEach
    /\ fetched = NoneEach
    /\ txn = NoneEach
    /\ issued = 0
    /\ faults = 0
    /\ crashes = 0

Call(c) ==
    \/ CaptureLease(c)
    \/ EndCall(c)
    \/ \E d \in Devices : ChooseDevice(c, d)
    \/ \E p \in Ports : EstablishTransport(c, p)
    \/ DiscardHandle(c)
    \/ \E ok \in BOOLEAN : BeginConnect(c, ok)
    \/ \E ok \in BOOLEAN : ActivateConnect(c, ok)
    \/ \E ok \in BOOLEAN : FailConnect(c, ok)
    \/ \E ok \in BOOLEAN : InvalidateCredentials(c, ok)
    \/ ReuseTransport(c)
    \/ StartRebootstrap(c)
    \/ \E ok \in BOOLEAN : CommitRebootstrap(c, ok)
    \/ LoseRebootstrap(c)
    \/ \E s \in Snapshots : Fetch(c, s)
    \/ CallDevice(c)
    \/ AttachScreenshot(c)
    \/ \E discard, ok \in BOOLEAN : DropScreenAuthority(c, discard, ok)

Refresh(c) ==
    \/ CaptureBasis(c)
    \/ DiscardRefresh(c)
    \/ StartCommit(c)
    \/ PublishJson(c)
    \/ PublishXml(c)
    \/ PersistRefresh(c)
    \/ RollbackRefresh(c)

Lifecycle ==
    \/ \E ok \in BOOLEAN : NormalizeStaleReady(ok)
    \/ \E ok \in BOOLEAN : CloseRuntime(ok)
    \/ InvalidateRuntime
    \/ Crash

Next ==
    \/ \E c \in Callers : Call(c) \/ Refresh(c)
    \/ Lifecycle

Spec == Init /\ [][Next]_kernelVars

-----------------------------------------------------------------------------
(* Properties *)

\* Every variable keeps to its domain.
TypeOK ==
    /\ rt \in Runtimes
    /\ disk \in Maybe(RuntimeFiles)
    /\ files \in ArtifactFiles
    /\ open \subseteq Transports
    /\ lock \in Maybe(Callers)
    /\ lease \in [Callers -> Maybe(Revisions)]
    /\ target \in [Callers -> Maybe(Targets)]
    /\ held \in [Callers -> Maybe(Transports)]
    /\ client \in [Callers -> Maybe(Transports)]
    /\ fetched \in [Callers -> Maybe(Captures)]
    /\ txn \in [Callers -> Maybe(Refreshes)]
    /\ issued \in 0..MaxSequence
    /\ faults \in 0..MaxFaults
    /\ crashes \in 0..MaxCrashes

\* close_runtime and invalidate_runtime fence off the callers that came before:
\* whatever late callers bring back (a bootstrapped transport, a compiled screen,
\* a screenshot), the runtime only ever holds what was obtained under its current
\* lifecycle revision.
NothingOutlivesItsLifecycle ==
    \A item \in {rt.connection, rt.screen, rt.attached} :
        item # None => item.lease = rt.revision

\* get_authoritative_current_basis hands out a screen together with the paths of its
\* artifacts: while nobody is inside a commit, both files of an authoritative screen
\* are there and hold that screen, whichever refreshes overlapped with it, failed
\* halfway and were rolled back, or died with the process.
AuthoritativeScreenIsPublished ==
    LockFree /\ HasAuthoritativeScreen(rt) =>
        \A k \in ArtifactKinds : files[k][rt.sequence] = rt.screen

\* A restart must not hand out a sequence again that this process used: while nobody
\* is inside a commit, runtime.json is at the sequence the runtime is at, also after
\* writes that failed.
SequenceIsPersisted ==
    LockFree => rt.sequence = (IF disk = None THEN 0 ELSE disk.sequence)

\* normalize_stale_ready_runtime has a branch that turns a ready runtime with a
\* device into a connected one.  A ready runtime that lost its screen never has one:
\* a refresh that fails halfway gives its screen back, and who drops the screen of a
\* connected runtime also takes ready away.
StaleReadyHasNoDevice ==
    LockFree /\ rt.status = "ready" /\ ~HasAuthoritativeScreen(rt) => ~HasDevice(rt)

-----------------------------------------------------------------------------
(* The inductive invariant                                                 *)

\* What the runtime and the files go back to if the commit under way fails.
Settled == IF LockFree THEN rt ELSE txn[lock].saved
SettledFiles == IF LockFree THEN files ELSE RolledBack(txn[lock])

\* Attempts are made inside a call; one that has begun still answers for its handle.
AttemptOK ==
    \A c \in Callers :
        /\ target[c] # None => InCall(c)
        /\ Attempting(c, "begun") => held[c] # None

\* A refresh is past staging exactly while its caller holds the lock, and the lock
\* is only ever held by a caller in the middle of a commit.
LockOK ==
    /\ \A c \in Callers :
          txn[c] # None => (txn[c].phase = "staged" <=> lock # c)
    /\ lock # None => txn[lock] # None

\* A commit runs under a current lease, and knows the way back.
CommitOK ==
    lock # None =>
        LET t == txn[lock] IN
        /\ lease[lock] = rt.revision
        /\ t.saved \in Runtimes
        /\ rt = IF t.phase = "persist" THEN WithScreen(t.saved, t.screen) ELSE t.saved
        /\ \A k \in Replaced(t.phase) : files[k][t.screen.sequence] = t.screen

\* Leases are of the past or the present, and a refresh carries its caller's.
LeaseOK ==
    \A c \in Callers :
        /\ InCall(c) => lease[c] <= rt.revision
        /\ txn[c] # None => InCall(c) /\ txn[c].screen.lease = lease[c]

\* A runtime that is ready without a screen was invalidated: it has no device, and
\* nobody whose lease is current is about to give it one.
ReadyOK ==
    Settled.status = "ready" /\ ~HasAuthoritativeScreen(Settled) =>
        /\ Settled.connection = None
        /\ Settled.token = None
        /\ \A c \in Callers : Attempting(c, "rebootstrap") => ~LeaseCurrent(c)

SettledOK ==
    /\ \A item \in {Settled.connection, Settled.screen, Settled.attached} :
          item # None => item.lease = Settled.revision
    /\ Settled.sequence = (IF disk = None THEN 0 ELSE disk.sequence)
    /\ HasAuthoritativeScreen(Settled) =>
          \A k \in ArtifactKinds :
              SettledFiles[k][Settled.sequence] = Settled.screen

KernelInv ==
    /\ TypeOK
    /\ AttemptOK
    /\ LockOK
    /\ CommitOK
    /\ LeaseOK
    /\ ReadyOK
    /\ SettledOK
=============================================================================
