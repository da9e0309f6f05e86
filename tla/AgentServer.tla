----------------------------- MODULE AgentServer -------------------------------
(***************************************************************************)
(* The RPC server of the agent on the device: an HTTP thread per request,  *)
(* the pool that runs the methods, the thread that encodes screenshots,    *)
(* and the main thread of the app, which attaches and detaches the         *)
(* accessibility service, stops the server, and hands over screenshots.    *)
(*                                                                         *)
(* A request is decoded and bound to the service that is attached          *)
(* (Dispatch), runs on a thread of the pool (Begin and what follows), and  *)
(* is answered when its future completes or its time is over (TimeOut),    *)
(* whatever its thread does then.  Each wait has a timeout, and a timeout  *)
(* may fire at any moment: the budgets are not related to each other here. *)
(***************************************************************************)
EXTENDS SnapshotRegistry, ThreadPool

CONSTANTS
    Requests,
    Workloads,          \* what the requests call, and what the main thread is told to do
    Core, MaxThreads, QueueCapacity, ScreenCapacity,   \* RequestBudgets.kt
    MaxAttachments      \* bound: how often the attachment handle changes

Methods == {"snapshot", "action", "screenshot"}

ASSUME ServerAssumption ==
    /\ Workloads \subseteq [method : [Requests -> Methods],
                            main : SUBSET {"stop", "attach", "detach"}]
    /\ Core \in Nat /\ MaxThreads \in Nat \ {0} /\ Core <= MaxThreads
    /\ QueueCapacity \in Nat /\ ScreenCapacity \in Nat /\ MaxAttachments \in Nat

VARIABLES
    workload,   \* one of Workloads
    handle,     \* the attachment: its generation, and whether it is revoked
    reg,        \* SnapshotRegistry
    published,  \* history: the snapshots published since the last reset began
    phase,      \* ServerPhase
    gate,       \* RpcRequestAdmissionGate
    methods,    \* the pool of the methods
    screens,    \* the pool of the screenshot processor
    call,       \* the HTTP thread of a request, and what it was told
    task,       \* the task of a request in the pool of the methods
    shot,       \* the screenshot of a request
    main        \* the main thread

vars == <<workload, handle, reg, published, phase, gate, methods, screens, call,
          task, shot, main>>

method == workload.method

NoTask == [at |-> "none", bound |-> 0, generation |-> 0, id |-> 0,
           interrupted |-> FALSE, outcome |-> "none"]
NoShot == [callback |-> "none", result |-> "none", abandoned |-> FALSE,
           buffer |-> "none", proc |-> "none"]

Stages == {"none", "submitted", "cancelled", "bound", "collected", "encoding", "found",
           "awaiting", "abandoning", "captured", "processing", "cancelling", "done"}

Outcomes == {"none", "ok", "failed", "stale", "raced", "notReady"}
Answers == Outcomes \cup {"stopping", "busy", "timeout"}

Handles == [generation : Nat, revoked : BOOLEAN]
Gates == [quiescing : BOOLEAN, active : Nat]
Calls == [at : {"out", "inside", "waiting", "left"}, told : Answers]
Tasks == [at : Stages, bound : Nat, generation : Nat, id : Nat,
          interrupted : BOOLEAN, outcome : Outcomes]
Shots == [callback : {"none", "pending", "over"}, result : {"none", "stored", "failed"},
          abandoned : BOOLEAN, buffer : {"none", "open", "closed"},
          proc : {"none", "submitted", "cancelled", "entered", "encoding", "done"}]
MainStates == [at : {"idle", "stopping", "draining", "finishing", "firstGrace", "second",
                     "secondGrace", "closing", "resetting", "waiting", "registering"},
               attaching : BOOLEAN, force : BOOLEAN]

TypeOK ==
    /\ handle \in Handles
    /\ RegistryOK(reg)
    /\ phase \in {"running", "stopping", "stopped"}
    /\ gate \in Gates
    /\ methods \in PoolOf(Requests) /\ screens \in PoolOf(Requests)
    /\ call \in [Requests -> Calls]
    /\ task \in [Requests -> Tasks]
    /\ shot \in [Requests -> Shots]
    /\ main \in MainStates

\* The server runs and the service is attached; nothing was asked yet.
Init ==
    /\ workload \in Workloads
    /\ handle = [generation |-> 1, revoked |-> FALSE]
    /\ reg = NewRegistry /\ published = <<>>
    /\ phase = "running"
    /\ gate = [quiescing |-> FALSE, active |-> 0]
    /\ methods = Pool(Core, MaxThreads, QueueCapacity)
    /\ screens = Pool(0, 1, ScreenCapacity)
    /\ call = [r \in Requests |-> [at |-> "out", told |-> "none"]]
    /\ task = [r \in Requests |-> NoTask]
    /\ shot = [r \in Requests |-> NoShot]
    /\ main = [at |-> "idle", attaching |-> FALSE, force |-> FALSE]

-----------------------------------------------------------------------------
(* The HTTP thread of a request                                            *)

\* What a client may name in an action: the snapshots it was answered with.
Known == {task[q].id : q \in {p \in Requests : method[p] = "snapshot" /\ call[p].told = "ok"}}

\* Mutation: the gate lets requests in although it is quiescing.
EnterAnyway(r) ==
    /\ call[r].at = "out"
    /\ method[r] = "action" => Known # {}
    /\ call' = [call EXCEPT ![r].at = "inside"]
    /\ gate' = [gate EXCEPT !.active = @ + 1]
    /\ UNCHANGED <<workload, handle, reg, published, phase, methods, screens, task, shot, main>>

\* RpcHttpServer.serve up to the gate; a client acts on a snapshot it has
Enter(r) ==
    /\ call[r].at = "out"
    /\ method[r] = "action" => Known # {}
    /\ IF gate.quiescing
       THEN /\ call' = [call EXCEPT ![r] = [at |-> "left", told |-> "stopping"]]
            /\ UNCHANGED gate
       ELSE /\ call' = [call EXCEPT ![r].at = "inside"]
            /\ gate' = [gate EXCEPT !.active = @ + 1]
    /\ UNCHANGED <<workload, handle, reg, published, phase, methods, screens, task, shot, main>>

\* The answer, and RpcRequestAdmissionGate.leave, which never counts below zero.
Leave(r, told) ==
    /\ call' = [call EXCEPT ![r] = [at |-> "left", told |-> told]]
    /\ gate' = [gate EXCEPT !.active = IF @ = 0 THEN 0 ELSE @ - 1]

\* RuntimeReadiness.blockingError and the handle that the request is bound to
Ready == phase = "running" /\ ~handle.revoked

\* RpcDispatcher.dispatch: readiness, prepare, submit
Dispatch(r) ==
    /\ call[r].at = "inside"
    /\ \/ /\ ~Ready
          /\ Leave(r, "notReady")
          /\ UNCHANGED <<methods, task>>
       \/ /\ Ready /\ ~Accepts(methods)
          /\ Leave(r, "busy")
          /\ UNCHANGED <<methods, task>>
       \/ /\ Ready /\ Accepts(methods)
          /\ methods' = Submitted(methods, r)
          /\ \E id \in IF method[r] = "action" THEN Known ELSE {0} :
                task' = [task EXCEPT ![r].at = "submitted", ![r].id = id,
                                     ![r].bound = handle.generation]
          /\ call' = [call EXCEPT ![r].at = "waiting"]
          /\ UNCHANGED gate
    /\ UNCHANGED <<workload, handle, reg, published, phase, screens, shot, main>>

\* awaitFuture: the future completed
Answer(r) ==
    /\ call[r].at = "waiting" /\ task[r].at = "done"
    /\ Leave(r, task[r].outcome)
    /\ UNCHANGED <<workload, handle, reg, published, phase, methods, screens, task, shot, main>>

\* awaitFuture: the time is over.  future.cancel(true) keeps a task that has not
\* begun from running, though not from its place in the queue; one that runs is
\* interrupted and goes on.
TimeOut(r) ==
    /\ call[r].at = "waiting" /\ task[r].at # "done"
    /\ Leave(r, "timeout")
    /\ task' = [task EXCEPT ![r].at = IF @ = "submitted" THEN "cancelled" ELSE @,
                            ![r].interrupted = TRUE]
    /\ UNCHANGED <<workload, handle, reg, published, phase, methods, screens, shot, main>>

-----------------------------------------------------------------------------
(* A thread of the pool                                                    *)

Goes(r, at) == task' = [task EXCEPT ![r].at = at] /\ UNCHANGED methods

\* The task is over.  A future that was cancelled keeps no outcome.
Finish(r, outcome) ==
    /\ task' = [task EXCEPT ![r].at = "done",
                            ![r].outcome = IF call[r].at = "left" THEN "none" ELSE outcome]
    /\ methods' = Finished(methods, r)

Take ==
    /\ HasWork(methods)
    /\ methods' = Taken(methods)
    /\ UNCHANGED <<workload, handle, reg, published, phase, gate, screens, call, task, shot, main>>

\* requireBoundAccessibilityService; a cancelled task does nothing
Begin(r) ==
    /\ r \in methods.running
    /\ \/ task[r].at = "cancelled" /\ Finish(r, "none")
       \/ /\ task[r].at = "submitted"
          /\ IF ~handle.revoked /\ handle.generation = task[r].bound
             THEN Goes(r, "bound")
             ELSE Finish(r, "notReady")
    /\ UNCHANGED <<workload, handle, reg, published, phase, gate, screens, call, shot, main>>

\* SnapshotCollector.collect reads the generation, then the windows, and numbers
\* the snapshot; there may be no window, or no interactive screen.
Collect(r) ==
    /\ task[r].at = "bound" /\ method[r] = "snapshot"
    /\ \/ Finish(r, "failed") /\ UNCHANGED reg
       \/ /\ reg' = [reg EXCEPT !.sequence = @ + 1]
          /\ task' = [task EXCEPT ![r].at = "collected", ![r].id = reg.sequence + 1,
                                  ![r].generation = reg.generation]
          /\ UNCHANGED methods
    /\ UNCHANGED <<workload, handle, published, phase, gate, screens, call, shot, main>>

\* collectPublication
Publish(r) ==
    /\ task[r].at = "collected"
    /\ IF CanPublish(reg, task[r].generation)
       THEN /\ reg' = Published(reg, task[r].id)
            /\ published' = Append(published, task[r].id)
            /\ Goes(r, "encoding")
       ELSE Finish(r, "raced") /\ UNCHANGED <<reg, published>>
    /\ UNCHANGED <<workload, handle, phase, gate, screens, call, shot, main>>

\* encodePublishedResponse releases the guard, also when encoding fails
Encode(r) ==
    /\ task[r].at = "encoding"
    /\ reg' = Completed(reg, task[r].id)
    /\ \E outcome \in {"ok", "failed"} : Finish(r, outcome)
    /\ UNCHANGED <<workload, handle, published, phase, gate, screens, call, shot, main>>

\* withResolvedNode (actions without a node are not modelled): the snapshot is
\* looked up, then its node in the live tree
Find(r) ==
    /\ task[r].at = "bound" /\ method[r] = "action"
    /\ IF Findable(reg, task[r].id) THEN Goes(r, "found") ELSE Finish(r, "stale")
    /\ UNCHANGED <<workload, handle, reg, published, phase, gate, screens, call, shot, main>>

Act(r) ==
    /\ task[r].at = "found"
    /\ \E outcome \in {"ok", "stale", "failed"} : Finish(r, outcome)
    /\ UNCHANGED <<workload, handle, reg, published, phase, gate, screens, call, shot, main>>

-----------------------------------------------------------------------------
(* A screenshot: its session with the system, and its encoding on a thread *)
(* of its own                                                              *)

Shot(r, field, value) == shot' = [shot EXCEPT ![r][field] = value]
Close(r) == shot' = [shot EXCEPT ![r].buffer = "closed"]

\* takeScreenshot may throw at once
TakeScreenshot(r) ==
    /\ task[r].at = "bound" /\ method[r] = "screenshot"
    /\ \/ Finish(r, "failed") /\ UNCHANGED shot
       \/ Shot(r, "callback", "pending") /\ Goes(r, "awaiting")
    /\ UNCHANGED <<workload, handle, reg, published, phase, gate, screens, call, main>>

\* Mutation: a screenshot that comes in late is stored, for nobody.
CallbackForNobody(r) ==
    /\ shot[r].callback = "pending" /\ main.at = "idle"
    /\ \/ shot' = [shot EXCEPT ![r].callback = "over", ![r].buffer = "open",
                               ![r].result = "stored"]
       \/ shot' = [shot EXCEPT ![r].callback = "over", ![r].result = "failed"]
    /\ UNCHANGED <<workload, handle, reg, published, phase, gate, methods, screens, call, task, main>>

\* onSuccess and onFailure, on the main executor, once it is free
Callback(r) ==
    /\ shot[r].callback = "pending" /\ main.at = "idle"
    /\ \/ shot' = [shot EXCEPT ![r].callback = "over",
                               ![r].buffer = IF shot[r].abandoned THEN "closed" ELSE "open",
                               ![r].result = IF shot[r].abandoned THEN @ ELSE "stored"]
       \/ shot' = [shot EXCEPT ![r].callback = "over",
                               ![r].result = IF shot[r].abandoned THEN @ ELSE "failed"]
    /\ UNCHANGED <<workload, handle, reg, published, phase, gate, methods, screens, call, task, main>>

\* awaitResult
Await(r) ==
    /\ task[r].at = "awaiting"
    /\ \/ /\ shot[r].result = "stored"
          /\ Shot(r, "result", "none") /\ Goes(r, "captured")
       \/ /\ shot[r].result = "failed"
          /\ Finish(r, "failed") /\ UNCHANGED shot
       \* timed out, or interrupted, whatever has come in
       \/ /\ shot[r].result = "none" \/ task[r].interrupted
          /\ Goes(r, "abandoning") /\ UNCHANGED shot
    /\ UNCHANGED <<workload, handle, reg, published, phase, gate, screens, call, main>>

\* abandonAndDetachScreenshot
Abandon(r) ==
    /\ task[r].at = "abandoning"
    /\ shot' = [shot EXCEPT ![r].abandoned = TRUE, ![r].result = "none",
                            ![r].buffer = IF shot[r].result = "stored" THEN "closed" ELSE @]
    /\ Finish(r, "failed")
    /\ UNCHANGED <<workload, handle, reg, published, phase, gate, screens, call, main>>

\* ScreenshotTaskRunner.submit; onRejected closes the screenshot
Process(r) ==
    /\ task[r].at = "captured"
    /\ IF Accepts(screens)
       THEN /\ screens' = Submitted(screens, r)
            /\ Shot(r, "proc", "submitted") /\ Goes(r, "processing")
       ELSE Close(r) /\ Finish(r, "failed") /\ UNCHANGED screens
    /\ UNCHANGED <<workload, handle, reg, published, phase, gate, call, main>>

\* ScreenshotTaskRunner.run waits for the encoded screenshot, for so long
Encoded(r) ==
    /\ task[r].at = "processing"
    /\ \/ /\ shot[r].proc = "done"
          /\ \E outcome \in {"ok", "failed"} : Finish(r, outcome)
          /\ UNCHANGED shot
       \/ /\ shot[r].proc # "done"
          /\ shot' = [shot EXCEPT ![r].proc = IF @ = "submitted" THEN "cancelled" ELSE @]
          /\ Goes(r, "cancelling")
    /\ UNCHANGED <<workload, handle, reg, published, phase, gate, screens, call, main>>

\* notifyCancellationBeforeStart: who has not begun to encode will not close
Notify(r) ==
    /\ task[r].at = "cancelling"
    /\ IF shot[r].proc \in {"encoding", "done"} THEN UNCHANGED shot ELSE Close(r)
    /\ Finish(r, "failed")
    /\ UNCHANGED <<workload, handle, reg, published, phase, gate, screens, call, main>>

\* The processor: it takes a task, enters it, marks it as started, encodes and
\* closes.  A cancelled task is not entered.
TakeShot ==
    /\ HasWork(screens)
    /\ screens' = Taken(screens)
    /\ UNCHANGED <<workload, handle, reg, published, phase, gate, methods, call, task, shot, main>>

RunProcessor(r) ==
    /\ r \in screens.running
    /\ \/ /\ shot[r].proc = "submitted"
          /\ Shot(r, "proc", "entered") /\ UNCHANGED screens
       \/ /\ shot[r].proc = "entered"
          /\ Shot(r, "proc", "encoding") /\ UNCHANGED screens
       \/ /\ shot[r].proc = "encoding"
          /\ shot' = [shot EXCEPT ![r].proc = "done", ![r].buffer = "closed"]
          /\ screens' = Finished(screens, r)
       \/ /\ shot[r].proc = "cancelled"
          /\ screens' = Finished(screens, r) /\ UNCHANGED shot
    /\ UNCHANGED <<workload, handle, reg, published, phase, gate, methods, call, task, main>>

-----------------------------------------------------------------------------
(* The main thread                                                         *)

MainGoes(from, to) == main.at = from /\ main' = [main EXCEPT !.at = to]

\* AgentServerController.stopServer
Stop ==
    /\ "stop" \in workload.main /\ phase = "running" /\ MainGoes("idle", "stopping")
    /\ phase' = "stopping"
    /\ UNCHANGED <<workload, handle, reg, published, gate, methods, screens, call, task, shot>>

BeginShutdown ==
    /\ MainGoes("stopping", "draining")
    /\ gate' = [gate EXCEPT !.quiescing = TRUE]
    /\ UNCHANGED <<workload, handle, reg, published, phase, methods, screens, call, task, shot>>

\* awaitQuiescence: nobody is inside, or the second is over
Drain ==
    /\ main.at = "draining"
    /\ main' = [main EXCEPT !.at = "finishing", !.force = gate.active > 0]
    /\ UNCHANGED <<workload, handle, reg, published, phase, gate, methods, screens, call, task, shot>>

\* RpcRequestHandler.shutdown: the screenshots first if it is forced, else the
\* methods first.
ShutDownFirst ==
    /\ MainGoes("finishing", "firstGrace")
    /\ IF main.force
       THEN screens' = ShutDown(screens) /\ UNCHANGED methods
       ELSE methods' = ShutDown(methods) /\ UNCHANGED screens
    /\ UNCHANGED <<workload, handle, reg, published, phase, gate, call, task, shot>>

\* What has not ended within the grace time is interrupted, if it is forced.
FirstGrace ==
    /\ MainGoes("firstGrace", "second")
    /\ screens' = IF main.force /\ ~Terminated(screens) THEN ShutDownNow(screens) ELSE screens
    /\ UNCHANGED <<workload, handle, reg, published, phase, gate, methods, call, task, shot>>

ShutDownSecond ==
    /\ MainGoes("second", "secondGrace")
    /\ IF main.force
       THEN methods' = ShutDown(methods) /\ UNCHANGED screens
       ELSE screens' = ShutDown(screens) /\ UNCHANGED methods
    /\ UNCHANGED <<workload, handle, reg, published, phase, gate, call, task, shot>>

SecondGrace ==
    /\ MainGoes("secondGrace", "closing")
    /\ IF main.force /\ ~Terminated(methods)
       THEN /\ methods' = ShutDownNow(methods)
            /\ task' = [r \in Requests |->
                          [task[r] EXCEPT !.interrupted = @ \/ r \in methods.running]]
       ELSE UNCHANGED <<methods, task>>
    /\ UNCHANGED <<workload, handle, reg, published, phase, gate, screens, call, shot>>

\* RpcRequestAdmissionGate.finishShutdown, and markServerStopped
FinishShutdown ==
    /\ MainGoes("closing", "idle")
    /\ gate' = [gate EXCEPT !.active = 0]
    /\ phase' = "stopped"
    /\ UNCHANGED <<workload, handle, reg, published, methods, screens, call, task, shot>>

Revoked == [generation |-> handle.generation + 1, revoked |-> TRUE]

\* AccessibilityAttachmentCoordinator.attach and detach; a handle that is still
\* valid is revoked first.
Attach ==
    /\ "attach" \in workload.main /\ main.at = "idle" /\ handle.generation < MaxAttachments
    /\ handle' = IF handle.revoked THEN handle ELSE Revoked
    /\ main' = [main EXCEPT !.at = "resetting", !.attaching = TRUE]
    /\ UNCHANGED <<workload, reg, published, phase, gate, methods, screens, call, task, shot>>

Detach ==
    /\ "detach" \in workload.main /\ main.at = "idle" /\ ~handle.revoked
    /\ handle.generation < MaxAttachments
    /\ handle' = Revoked
    /\ main' = [main EXCEPT !.at = "resetting", !.attaching = FALSE]
    /\ UNCHANGED <<workload, reg, published, phase, gate, methods, screens, call, task, shot>>

\* resetSessionState, before and after it waits for the publications in flight
ResetBegins ==
    /\ MainGoes("resetting", "waiting")
    /\ reg' = BeginReset(reg) /\ published' = <<>>
    /\ UNCHANGED <<workload, handle, phase, gate, methods, screens, call, task, shot>>

ResetEnds ==
    /\ main.at = "waiting"
    /\ reg' = FinishReset(reg)
    /\ main' = [main EXCEPT !.at = IF main.attaching THEN "registering" ELSE "idle"]
    /\ UNCHANGED <<workload, handle, published, phase, gate, methods, screens, call, task, shot>>

Register ==
    /\ MainGoes("registering", "idle")
    /\ handle' = [generation |-> handle.generation + 1, revoked |-> FALSE]
    /\ UNCHANGED <<workload, reg, published, phase, gate, methods, screens, call, task, shot>>

-----------------------------------------------------------------------------
Http(r) == Enter(r) \/ Dispatch(r) \/ Answer(r) \/ TimeOut(r)
Worker(r) ==
    \/ Begin(r) \/ Collect(r) \/ Publish(r) \/ Encode(r) \/ Find(r) \/ Act(r)
    \/ TakeScreenshot(r) \/ Await(r) \/ Abandon(r) \/ Process(r) \/ Encoded(r) \/ Notify(r)
Main ==
    \/ Stop \/ BeginShutdown \/ Drain \/ ShutDownFirst \/ FirstGrace
    \/ ShutDownSecond \/ SecondGrace \/ FinishShutdown
    \/ Attach \/ Detach \/ ResetBegins \/ ResetEnds \/ Register

Next ==
    \/ \E r \in Requests : Http(r) \/ Worker(r) \/ Callback(r) \/ RunProcessor(r)
    \/ Take \/ TakeShot \/ Main

Spec == Init /\ [][Next]_vars

-----------------------------------------------------------------------------
(* What may not go wrong                                                   *)

\* A snapshot that is being answered is there to be acted on, nothing of before
\* a reset is, and of what was published since only a snapshot that enough newer
\* ones have displaced is gone: a slow answer costs the others at most its place
\* (RetainedSnapshotStore.trim, SnapshotRegistry.resetSessionState).
SnapshotsUsable ==
    /\ reg.inFlight \subseteq DOMAIN reg.retained
    /\ ~reg.resetting =>
          /\ DOMAIN reg.retained \subseteq Range(published)
          /\ \A i \in DOMAIN published :
                published[i] \notin DOMAIN reg.retained =>
                    Len(published) - i + MaxThreads - 1 >= Limit

\* The gate counts who is inside, however requests end, and a stop that says it
\* was drained leaves no request that was let in, also none that came while it
\* began (RpcRequestAdmissionGate.awaitQuiescence, AgentServerController:128).
DrainedMeansDone ==
    LET inside == {r \in Requests : call[r].at \in {"inside", "waiting"}}
    IN  /\ phase # "stopped" => gate.active = Cardinality(inside)
        /\ ~main.force /\ (main.at \in {"finishing", "firstGrace", "second", "secondGrace", "closing"}
                           \/ phase = "stopped") => inside = {}

\* Once the method is over and the processor is not encoding it, the hardware
\* buffer of a screenshot is closed: rejected, cancelled, timed out at any point,
\* dropped by a stop, or delivered after nobody waits (ScreenshotCaptureSession,
\* ScreenshotTaskRunner).
ScreenshotsClosed ==
    \A r \in Requests :
        shot[r].buffer = "open" => task[r].at # "done" \/ r \in screens.running

\* An action runs through the service that its snapshot was taken through.
ActsThroughItsService ==
    \A r, q \in Requests :
        task[r].at = "found" /\ method[q] = "snapshot" /\ task[q].id = task[r].id
            => task[q].bound = task[r].bound
=============================================================================
