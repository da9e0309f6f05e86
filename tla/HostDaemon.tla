----------------------------- MODULE HostDaemon -----------------------------
(***************************************************************************)
(* The host daemon around the runtime kernel: HTTP handler threads take    *)
(* requests concurrently, serial admission lets one command at a time      *)
(* through to its handler, runtime/get reads beside it, and a successful   *)
(* close shuts the process down.                                           *)
(*                                                                         *)
(* A caller of the kernel is a handler thread.  pc says where its handler  *)
(* is; within a stage that talks to the device, the thread's kernel        *)
(* variables (target, held, client, fetched, txn) say what comes next.     *)
(***************************************************************************)
EXTENDS RuntimeKernel

CONSTANT Requests           \* the kinds of request that clients send

Actions == {"refAction", "open", "global"}
Commands == {"connect", "observe", "screenshot", "listApps", "wait"} \cup Actions
Kinds == Commands \cup {"close", "get"}

ASSUME RequestsAssumption == Requests \subseteq Kinds

VARIABLES
    pc,         \* where each handler thread is
    kind,       \* the request it serves
    phase,      \* how far an action or a wait has come
    payload,    \* what runtime/get has read so far
    active,     \* RuntimeStore._active_command: the thread that was admitted
    lane,       \* WorkspaceRuntime.progress_lock: the thread that holds it
    closing,    \* AndroidctldHttpServer._closing
    stopping    \* the main loop's should_stop event

request    == <<kind, phase, payload>>
admission  == <<active, lane, closing, stopping>>
hostVars   == <<pc, request, admission>>
vars       == <<kernelVars, hostVars>>

\* Stages that talk to the device.
DeviceStages == {"screen", "shot", "list", "wait", "rescan", "repair", "dispatch"}
\* Those among them that refresh the screen.
RefreshStages == {"screen", "repair", "rescan"}
Stages == {"idle", "admit", "enter", "lease", "lane", "connect", "discard",
           "bootstrap", "activate", "fail", "drop", "lost", "unauthorized",
           "return", "release", "close", "closed", "gate", "respond", "basis",
           "status", "answer"} \cup DeviceStages
Phases == {"fresh", "repaired", "dispatched", "expired"}
Payloads == [screen : BOOLEAN, status : Maybe(Statuses)]

At(t, stages) == pc[t] \in stages
Go(t, stage) == Set(pc, t, stage) /\ UNCHANGED <<request, admission>>

\* The response is written and the thread waits for the next request.
Answered(t) ==
    /\ Set(pc, t, "idle")
    /\ Set(kind, t, None)
    /\ Set(phase, t, "fresh")
    /\ Set(payload, t, None)

NotConnected == rt.connection = None \/ rt.token = None

-----------------------------------------------------------------------------
(* Requests come in *)

\* handle() reads _closing once; nothing looks at it again.
Arrive(t, k) ==
    /\ At(t, {"idle"})
    /\ ~closing
    /\ Set(pc, t, IF k = "get" THEN "enter" ELSE "admit")
    /\ Set(kind, t, k)
    /\ UNCHANGED <<kernelVars, phase, payload, admission>>

\* Mutant of Admit: the slot is taken whoever has it.
AdmitAnyway(t) ==
    /\ At(t, {"admit"})
    /\ active' = t
    /\ Set(pc, t, IF kind[t] = "close" THEN "close" ELSE "enter")
    /\ UNCHANGED <<kernelVars, request, lane, closing, stopping>>

\* begin_serial_command
Admit(t) ==
    /\ At(t, {"admit"})
    /\ active = None
    /\ active' = t
    /\ Set(pc, t, IF kind[t] = "close" THEN "close" ELSE "enter")
    /\ UNCHANGED <<kernelVars, request, lane, closing, stopping>>

RejectBusy(t) ==
    /\ At(t, {"admit"})
    /\ active # None
    /\ Answered(t)
    /\ UNCHANGED <<kernelVars, admission>>

\* Every handler starts with ensure_runtime, which normalizes a stale ready runtime.
Enter(t, ok) ==
    /\ At(t, {"enter"})
    /\ LockFree
    /\ IF StaleReady(rt) THEN NormalizeStaleReady(ok) ELSE ok /\ UNCHANGED kernelVars
    /\ Go(t, IF ~ok THEN "return" ELSE IF kind[t] = "get" THEN "basis" ELSE "lease")

\* The first thing each handler does under its lifecycle lease.
FirstStage(t) ==
    CASE kind[t] = "connect" -> "connect"
      [] kind[t] \in {"observe", "screenshot", "listApps"} -> "lane"
      [] kind[t] = "wait" -> "wait"
      [] OTHER -> "dispatch"

\* An action on a ref needs a screen to find the ref on.
Begin(t) ==
    /\ At(t, {"lease"})
    /\ CaptureLease(t)
    /\ Go(t, IF kind[t] = "refAction" /\ rt.screen = None
             THEN "return" ELSE FirstStage(t))

LaneStage(t) ==
    CASE kind[t] = "observe"    -> "screen"
      [] kind[t] = "screenshot" -> "shot"
      [] OTHER -> "list"

\* acquire_progress_lane and acquire_query_lane (whose retries end in the same error)
TakeLane(t) ==
    /\ At(t, {"lane"})
    /\ LockFree
    /\ lane' = IF lane = None THEN t ELSE lane
    /\ Set(pc, t, IF lane = None THEN LaneStage(t) ELSE "return")
    /\ UNCHANGED <<kernelVars, request, active, closing, stopping>>

\* The handler's finally, then begin_serial_command's.
Return(t) ==
    /\ At(t, {"return"})
    /\ IF InCall(t) THEN EndCall(t) ELSE UNCHANGED kernelVars
    /\ lane' = IF lane = t THEN None ELSE lane
    /\ Set(pc, t, "release")
    /\ UNCHANGED <<request, active, closing, stopping>>

ReleaseSlot(t) ==
    /\ At(t, {"release", "closed"})
    /\ active' = IF active = t THEN None ELSE active
    /\ IF pc[t] = "closed"
       THEN Set(pc, t, "gate") /\ UNCHANGED request
       ELSE Answered(t)
    /\ UNCHANGED <<kernelVars, lane, closing, stopping>>

-----------------------------------------------------------------------------
(* connect *)

Choose(t, d) ==
    /\ At(t, {"connect"})
    /\ held[t] = None
    /\ ChooseDevice(t, d)
    /\ UNCHANGED hostVars

Establish(t, p) ==
    /\ At(t, {"connect"} \cup DeviceStages)
    /\ EstablishTransport(t, p)
    /\ UNCHANGED hostVars

\* The connector fails, or the bootstrap of a transport rebuild does.
FailEstablish(t) ==
    /\ At(t, {"connect"} \cup DeviceStages)
    /\ target[t] # None
    /\ held[t] = None
    /\ Go(t, "return")
    /\ UNCHANGED kernelVars

StartConnect(t, ok) ==
    /\ At(t, {"connect"})
    /\ BeginConnect(t, ok)
    /\ Go(t, IF ok THEN "bootstrap" ELSE "discard")

\* begin_connect raised or refused: the handler closes the handle.
DiscardConnect(t) ==
    /\ At(t, {"discard", "connect"})
    /\ At(t, {"connect"}) => ~LeaseCurrent(t)
    /\ DiscardHandle(t)
    /\ Go(t, "return")

\* bootstrap_runtime: meta, capabilities and readiness come over the new transport.
Bootstrap(t, ok) ==
    /\ At(t, {"bootstrap"})
    /\ ok => held[t] \in open
    /\ Go(t, IF ok THEN "activate" ELSE "fail")
    /\ UNCHANGED kernelVars

FinishConnect(t, ok) ==
    /\ At(t, {"activate"})
    /\ ActivateConnect(t, ok)
    /\ Go(t, IF ok THEN "screen" ELSE "fail")

Fail(t, ok) ==
    /\ At(t, {"fail"})
    /\ FailConnect(t, ok)
    /\ Go(t, "return")

-----------------------------------------------------------------------------
(* Talking to the device *)

\* SnapshotService.device_client and ListAppsCommandHandler._client_without_readiness
Access(t) ==
    /\ At(t, DeviceStages)
    /\ ~NotConnected
    /\ ReuseTransport(t) \/ StartRebootstrap(t)
    /\ UNCHANGED hostVars

\* What a thread goes on to when an exception that is not a DaemonError ends its stage.
AfterException(t) == IF kind[t] = "connect" THEN "fail" ELSE "return"

\* What it may go on to after a DaemonError, by the error's code.
AfterError(t) ==
    IF At(t, {"screen"}) /\ kind[t] \in Actions
    THEN {"lost", "unauthorized", "return"}
    ELSE {AfterException(t)}

Rebuild(t, ok) ==
    /\ At(t, DeviceStages)
    /\ CommitRebootstrap(t, ok)
    /\ IF ok THEN UNCHANGED hostVars ELSE Go(t, AfterException(t))

\* Under serial admission no rebuild ever loses; one whose bootstrap failed is closed.
AbandonRebuild(t) ==
    /\ At(t, DeviceStages)
    /\ \/ LoseRebootstrap(t) /\ UNCHANGED hostVars
       \/ DiscardHandle(t) /\ \E s \in AfterError(t) : Go(t, s)

\* No call is made: not connected, the command is unsupported or its target invalid,
\* or the screen of the iteration before is what the wait was for.
GiveUp(t) ==
    /\ At(t, DeviceStages)
    /\ Ready(t)
    /\ NotConnected \/ At(t, {"shot", "wait", "dispatch"})
    /\ \E s \in AfterError(t) : Go(t, s)
    /\ UNCHANGED kernelVars

\* Bound: the device answers with screens as long as there are sequences for them.
Answer(t, s) ==
    /\ At(t, RefreshStages \cup {"shot"})
    /\ ~At(t, {"shot"}) => rt.sequence < MaxSequence
    /\ Fetch(t, s)
    /\ UNCHANGED hostVars

FailCall(t) ==
    /\ At(t, DeviceStages)
    /\ CallDevice(t)
    /\ \E s \in AfterError(t) : Go(t, s)

\* Mutant of NextIteration: nobody looks at the deadline.
NoDeadline(t) == "wait"

\* The deadline is looked at between iterations; the one it passes in is finished.
NextIteration(t) == IF phase[t] = "expired" THEN "return" ELSE "wait"

\* An iteration starts with a poll, for which there is no time left when the deadline
\* has passed, and goes on to a refresh if there is reason to.
Poll(t) ==
    /\ At(t, {"wait"})
    /\ \/ client[t] \in open /\ CallDevice(t)
       \/ phase[t] = "expired" /\ Ready(t) /\ UNCHANGED kernelVars
    /\ \E s \in {"rescan", NextIteration(t)} : Go(t, s)

Deadline(t) ==
    /\ pc[t] # "idle"
    /\ kind[t] = "wait"
    /\ phase[t] # "expired"
    /\ Set(phase, t, "expired")
    /\ UNCHANGED <<kernelVars, pc, kind, payload, admission>>

ListApps(t) ==
    /\ At(t, {"list"})
    /\ client[t] \in open
    /\ CallDevice(t)
    /\ Go(t, "return")

Attach(t) ==
    /\ At(t, {"shot"})
    /\ AttachScreenshot(t)
    /\ Go(t, "return")

\* The screenshot does not decode, or its file cannot be written.
RejectScreenshot(t) ==
    /\ At(t, {"shot"})
    /\ fetched[t] # None
    /\ Go(t, "return")
    /\ UNCHANGED kernelVars

-----------------------------------------------------------------------------
(* Refreshing the screen *)

\* What a refreshed screen is followed by.
AfterRefresh(t) ==
    CASE pc[t] = "repair" -> "dispatch"
      [] pc[t] = "rescan" -> NextIteration(t)
      [] OTHER            -> "return"

PrepareScreen(t) ==
    /\ At(t, RefreshStages)
    /\ CaptureBasis(t) \/ StartCommit(t) \/ PublishJson(t) \/ PublishXml(t)
    /\ UNCHANGED hostVars

FinishScreen(t) ==
    /\ At(t, RefreshStages)
    /\ PersistRefresh(t)
    /\ Go(t, AfterRefresh(t))

\* A compile, staging or validation error, some of them DaemonErrors.
RejectScreen(t) ==
    /\ At(t, RefreshStages)
    /\ DiscardRefresh(t)
    /\ \E s \in AfterError(t) : Go(t, s)

FailScreen(t) ==
    /\ At(t, RefreshStages)
    /\ RollbackRefresh(t)
    /\ Go(t, AfterException(t))

-----------------------------------------------------------------------------
(* Actions: ActionExecutor.execute *)

\* The ref comes from another screen than the current one: find it again first.
\* The client made before the repair is of the transport that serves it after, too.
RepairFirst(t) ==
    /\ At(t, {"dispatch"})
    /\ kind[t] = "refAction"
    /\ phase[t] = "fresh"
    /\ Ready(t)
    /\ rt.transport # None
    /\ Set(pc, t, "repair")
    /\ Set(phase, t, "repaired")
    /\ UNCHANGED <<kernelVars, kind, payload, admission>>

\* The device answers STALE_TARGET: find the ref again and retry, once.
RepairStale(t) ==
    /\ At(t, {"dispatch"})
    /\ kind[t] = "refAction"
    /\ phase[t] = "fresh"
    /\ client[t] \in open
    /\ CallDevice(t)
    /\ Set(pc, t, "repair")
    /\ Set(phase, t, "repaired")
    /\ UNCHANGED <<kind, payload, admission>>

\* The device performed the action.
Dispatch(t) ==
    /\ At(t, {"dispatch"})
    /\ client[t] \in open
    /\ CallDevice(t)
    /\ Set(pc, t, IF kind[t] = "global" THEN "drop" ELSE "screen")
    /\ Set(phase, t, "dispatched")
    /\ UNCHANGED <<kind, payload, admission>>

DropBeforeSettle(t, ok) ==
    /\ At(t, {"drop"})
    /\ DropScreenAuthority(t, FALSE, ok)
    /\ Go(t, IF ok THEN "screen" ELSE "return")

\* The device is unavailable after it performed the action.
LoseTruth(t, discard, ok) ==
    /\ At(t, {"lost"})
    /\ DropScreenAuthority(t, discard, ok)
    /\ Go(t, "return")

Unauthorized(t, ok) ==
    /\ At(t, {"unauthorized"})
    /\ InvalidateCredentials(t, ok)
    /\ Go(t, "return")

-----------------------------------------------------------------------------
(* runtime/get, close and the end of the process *)

\* get_authoritative_current_basis reads under the lock...
ReadBasis(t) ==
    /\ At(t, {"basis"})
    /\ LockFree
    /\ Set(pc, t, "status")
    /\ Set(payload, t, [screen |-> HasAuthoritativeScreen(rt), status |-> None])
    /\ UNCHANGED <<kernelVars, kind, phase, admission>>

\* ...and the status is read after it, without.
ReadStatus(t) ==
    /\ At(t, {"status"})
    /\ Set(pc, t, "answer")
    /\ payload' = [payload EXCEPT ![t].status = rt.status]
    /\ UNCHANGED <<kernelVars, kind, phase, admission>>

AnswerGet(t) ==
    /\ At(t, {"answer"})
    /\ Answered(t)
    /\ UNCHANGED <<kernelVars, admission>>

Close(t, ok) ==
    /\ At(t, {"close"})
    /\ CloseRuntime(ok)
    /\ Go(t, IF ok THEN "closed" ELSE "release")

\* _enter_closing_gate, after serial admission has been left
EnterGate(t) ==
    /\ At(t, {"gate"})
    /\ closing' = TRUE
    /\ Set(pc, t, "respond")
    /\ UNCHANGED <<kernelVars, request, active, lane, stopping>>

\* Mutant of Respond: there is no shutdown when the response cannot be written.
RespondOnly(t) ==
    /\ At(t, {"respond"})
    /\ stopping' \in {stopping, TRUE}
    /\ Answered(t)
    /\ UNCHANGED <<kernelVars, active, lane, closing>>

\* Written or not, the response is followed by the request to shut down.
Respond(t) ==
    /\ At(t, {"respond"})
    /\ stopping' = TRUE
    /\ Answered(t)
    /\ UNCHANGED <<kernelVars, active, lane, closing>>

Everyone(value) == [t \in Callers |-> value]

\* The process ends, because it was asked to or not, and the next one starts.
Stop ==
    /\ Crash
    /\ pc' = Everyone("idle")
    /\ kind' = Everyone(None)
    /\ phase' = Everyone("fresh")
    /\ payload' = Everyone(None)
    /\ active' = None
    /\ lane' = None
    /\ closing' = FALSE
    /\ stopping' = FALSE

-----------------------------------------------------------------------------
HostInit ==
    /\ Init
    /\ pc = Everyone("idle")
    /\ kind = Everyone(None)
    /\ phase = Everyone("fresh")
    /\ payload = Everyone(None)
    /\ active = None
    /\ lane = None
    /\ closing = FALSE
    /\ stopping = FALSE

Admission(t) ==
    \/ Admit(t)
    \/ RejectBusy(t)
    \/ \E ok \in BOOLEAN : Enter(t, ok)
    \/ Begin(t)
    \/ TakeLane(t)
    \/ Return(t)
    \/ ReleaseSlot(t)

Connect(t) ==
    \/ \E d \in Devices : Choose(t, d)
    \/ \E p \in Ports : Establish(t, p)
    \/ FailEstablish(t)
    \/ \E ok \in BOOLEAN : StartConnect(t, ok)
    \/ DiscardConnect(t)
    \/ \E ok \in BOOLEAN : Bootstrap(t, ok)
    \/ \E ok \in BOOLEAN : FinishConnect(t, ok)
    \/ \E ok \in BOOLEAN : Fail(t, ok)

Device(t) ==
    \/ Access(t)
    \/ \E ok \in BOOLEAN : Rebuild(t, ok)
    \/ AbandonRebuild(t)
    \/ GiveUp(t)
    \/ \E s \in Snapshots : Answer(t, s)
    \/ FailCall(t)
    \/ Poll(t)
    \/ ListApps(t)
    \/ Attach(t)
    \/ RejectScreenshot(t)

Screen(t) ==
    \/ PrepareScreen(t)
    \/ FinishScreen(t)
    \/ RejectScreen(t)
    \/ FailScreen(t)

Action(t) ==
    \/ RepairFirst(t)
    \/ RepairStale(t)
    \/ Dispatch(t)
    \/ \E ok \in BOOLEAN : DropBeforeSettle(t, ok)
    \/ \E discard, ok \in BOOLEAN : LoseTruth(t, discard, ok)
    \/ \E ok \in BOOLEAN : Unauthorized(t, ok)

Boundary(t) ==
    \/ ReadBasis(t)
    \/ ReadStatus(t)
    \/ AnswerGet(t)
    \/ \E ok \in BOOLEAN : Close(t, ok)
    \/ EnterGate(t)
    \/ Respond(t)

Step(t) ==
    \/ Admission(t)
    \/ Connect(t)
    \/ Device(t)
    \/ Screen(t)
    \/ Action(t)
    \/ Boundary(t)

HostNext ==
    \/ \E t \in Callers : Step(t) \/ Deadline(t) \/ \E k \in Requests : Arrive(t, k)
    \/ Stop

HostSpec == HostInit /\ [][HostNext]_vars

\* A handler thread runs on, and time passes; clients owe nothing, nor does the
\* device, whose calls time out.
Fairness ==
    \A t \in Callers :
        /\ WF_vars(Step(t))
        /\ WF_vars(Deadline(t))

FairHostSpec == HostSpec /\ Fairness

-----------------------------------------------------------------------------
(* Properties *)

\* Every variable of the daemon keeps to its domain.
HostTypeOK ==
    /\ TypeOK
    /\ pc \in [Callers -> Stages]
    /\ kind \in [Callers -> Maybe(Kinds)]
    /\ phase \in [Callers -> Phases]
    /\ payload \in [Callers -> Maybe(Payloads)]
    /\ active \in Maybe(Callers)
    /\ lane \in Maybe(Callers)
    /\ closing \in BOOLEAN
    /\ stopping \in BOOLEAN

\* begin_serial_command lets one command at a time work on the runtime: whoever has a
\* lifecycle lease, the progress lane, the lock of a commit or a transport of its own
\* is the admitted thread, and nobody closes the runtime under its lease.
OneCommandAtATime ==
    /\ \A t \in Callers : InCall(t) \/ held[t] # None => active = t /\ LeaseCurrent(t)
    /\ \A t \in {lane, lock} : t # None => t = active

\* A reconnect to another device, a transport rebuild or a lost connection never
\* leaves the runtime with the connection, credentials, transport, capabilities, screen
\* or screenshot of two different devices: an action would go to the wrong one.
OneDevice ==
    LET parts == {rt.connection, rt.transport, rt.screen, rt.attached} \ {None}
        devices == ({rt.token, rt.capabilities} \ {None}) \cup {p.device : p \in parts}
    IN Cardinality(devices) <= 1

\* A transport that nobody will close is an adb forward that stays on the device:
\* every open one is the runtime's or that of a handler still at work on it.
TransportsAccountedFor ==
    \A t \in open : t = rt.transport \/ \E c \in Callers : held[c] = t

\* What clients take ready for: the screen is the authoritative one and commands can
\* reach its device, over a transport that nobody closed, whatever failed in between.
ReadyIsLive ==
    LockFree /\ rt.status = "ready" =>
        HasDevice(rt) /\ HasAuthoritativeScreen(rt) /\ rt.transport \in open

Ledger == INSTANCE ScreenLedger WITH
    current <- IF HasAuthoritativeScreen(Settled) THEN Settled.sequence ELSE 0

\* Clients see the ledger of ScreenLedger: sequences are never handed out twice, and
\* the authoritative screen is the last one handed out.  Callers that refresh at the
\* same time could break this; serial admission is what keeps it.
LedgerSpec == Ledger!Spec

\* Every request is answered: no path through a handler, failing writes, silent devices
\* and lost transports included, leaves its thread, the admission or the lane behind.
EveryRequestAnswered == \A t \in Callers : pc[t] # "idle" ~> pc[t] = "idle"

\* A successful close ends the daemon whatever other requests are doing, if the
\* process does not end before: it does not need the slot or the lock any more.
CloseShutsDown ==
    \A t \in Callers, n \in 0..MaxCrashes :
        At(t, {"closed"}) /\ crashes = n ~> stopping \/ crashes # n

\* "commands/run should not dispatch after close" (androidctld's test_runtime_api.py):
\* when a close has been successful, no handler starts on a command any more.
NoDispatchAfterClose ==
    (closing \/ \E t \in Callers : At(t, {"gate", "respond"})) =>
        ~\E t \in Callers : InCall(t)

\* "runtime_get_connected_state_omits_non_authoritative_current_id"
\* (test_runtime_normalization.py): a payload only names a current screen when its
\* status is that of a runtime that has one.
RuntimeGetIsConsistent ==
    \A t \in Callers :
        At(t, {"answer"}) /\ payload[t].screen => payload[t].status = "ready"

-----------------------------------------------------------------------------
(* The inductive invariant                                                 *)

\* Stages of a thread that has no lifecycle lease (yet, or any more).
Outside == {"idle", "admit", "enter", "lease", "release", "close", "closed", "gate",
            "respond", "basis", "status", "answer"}
\* runtime/get is not a command and needs no admission.
GetStages == {"idle", "enter", "return", "release", "basis", "status", "answer"}
NeedsNoAdmission(t) == At(t, {"idle", "admit", "gate", "respond"}) \/ kind[t] = "get"

\* Whoever has something of the runtime's is inside a call, who is inside a call was
\* admitted and has the lease of the lifecycle of now, and so has whoever gets there.
AdmissionOK ==
    \A t \in Callers :
        /\ InCall(t) => active = t /\ LeaseCurrent(t)
        /\ held[t] # None \/ lane = t \/ At(t, {"lane"}) => InCall(t)
        /\ At(t, Outside) => ~InCall(t)
        /\ kind[t] = "get" => At(t, GetStages)
        /\ NeedsNoAdmission(t) \/ active = t
        /\ At(t, {"status"}) => payload[t] \in Payloads

\* A refresh is one after what is settled, which no screen handed out is beyond.
SequenceOK ==
    /\ issued <= Settled.sequence
    /\ \A c \in Callers :
          txn[c] # None => txn[c].screen.sequence = Settled.sequence + 1

HostInv ==
    /\ KernelInv
    /\ HostTypeOK
    /\ AdmissionOK
    /\ SequenceOK
\* A runtime without a connection has nothing of a device but, at most, the transport of
\* a connect attempt; one with a connection has nothing of another device.
OfOneDevice(r) ==
    IF r.connection = None
    THEN \A part \in {r.token, r.capabilities, r.screen, r.attached} : part = None
    ELSE LET d == r.connection.device IN
         /\ r.token = d
         /\ r.capabilities \in {None, d}
         /\ \A p \in {r.transport, r.screen, r.attached} : p # None => p.device = d

\* A ready runtime has all that ready stands for, also once a commit under way fails,
\* and no transport with a device behind it is closed.
RuntimeServes ==
    /\ OfOneDevice(Settled)
    /\ Settled.status = "ready" => HasDevice(Settled) /\ HasAuthoritativeScreen(Settled)
    /\ HasDevice(rt) => rt.transport \in open

\* What a thread has got from the device, down to the draft of a screen, is from the
\* device of the runtime, which stays there for as long as the thread has it.
ServedByRuntime(c) ==
    /\ client[c] # None \/ fetched[c] # None \/ txn[c] # None =>
           InCall(c) /\ target[c] = None /\ HasDevice(rt)
    /\ client[c] # None => client[c] = rt.transport
    /\ fetched[c] # None => fetched[c].device = rt.connection.device
    /\ txn[c] # None => txn[c].screen.device = rt.connection.device

\* A handle is that of an attempt, and what becomes of it depends on how far that is: a
\* runtime with a device does not have it yet, one being connected has, and one whose
\* transport is rebuilt waits for it.
AttemptServes(c) ==
    /\ held[c] # None => target[c] # None /\ held[c].device = target[c].device
    /\ Attempting(c, "connect") /\ HasDevice(rt) => held[c] # rt.transport
    /\ Attempting(c, "begun") => rt.connection = None /\ rt.transport = held[c]
    /\ Attempting(c, "rebootstrap") =>
           /\ rt.transport = None
           /\ rt.connection # None
           /\ rt.connection.device = target[c].device
           /\ held[c] # None => held[c] \in open
    /\ At(c, {"activate"}) => held[c] \in open

DeviceOK ==
    /\ RuntimeServes
    /\ \A c \in Callers : ServedByRuntime(c) /\ AttemptServes(c)
    /\ TransportsAccountedFor
=============================================================================
