------------------------- MODULE HostDaemon_proofs -------------------------
(***************************************************************************)
(* The daemon uses the kernel as the kernel expects to be used: whatever   *)
(* its handler threads do is a behaviour of RuntimeKernel, so that all     *)
(* theorems about the kernel hold for the daemon.  Serial admission adds   *)
(* to them that one command at a time works on the runtime, and with that  *)
(* the daemon implements ScreenLedger.  The last sections are about what   *)
(* the runtime, the open transports and what a handler thread has in hand  *)
(* have to do with each other: one device, no transport forgotten, and a   *)
(* ready runtime that commands can reach.                                  *)
(***************************************************************************)
EXTENDS HostDaemon, RuntimeKernel_proofs, FiniteSetTheorems

-----------------------------------------------------------------------------
(* Steps of the daemon are steps of the kernel *)

\* Kernel steps are what a caller does, or what needs no caller.
LEMMA KernelSteps ==
    /\ \A c \in Callers : Call(c) \/ Refresh(c) => Next
    /\ Lifecycle => Next
BY DEF Next

\* Requests, admission and the ends of handlers.
LEMMA AdmissionStep ==
    ASSUME NEW t \in Callers, Admission(t)
    PROVE  Next \/ UNCHANGED kernelVars
<1>1. CASE Admit(t) \/ RejectBusy(t) \/ TakeLane(t) \/ ReleaseSlot(t)
  BY <1>1 DEF Admit, RejectBusy, TakeLane, ReleaseSlot
<1>2. ASSUME NEW ok \in BOOLEAN, Enter(t, ok) PROVE Next \/ UNCHANGED kernelVars
  BY <1>2 DEF Enter, Next, Lifecycle
<1>3. CASE Begin(t)
  BY <1>3 DEF Begin, Next, Call
<1>4. CASE Return(t)
  BY <1>4 DEF Return, Next, Call
<1> QED
  BY <1>1, <1>2, <1>3, <1>4 DEF Admission

\* Connecting.
LEMMA ConnectStep ==
    ASSUME NEW t \in Callers, Connect(t)
    PROVE  Next \/ UNCHANGED kernelVars
<1>1. ASSUME NEW d \in Devices, Choose(t, d) PROVE Next
  BY <1>1 DEF Choose, Next, Call
<1>2. ASSUME NEW p \in Ports, Establish(t, p) PROVE Next
  BY <1>2 DEF Establish, Next, Call
<1>3. CASE FailEstablish(t)
  BY <1>3 DEF FailEstablish
<1>4. ASSUME NEW ok \in BOOLEAN, StartConnect(t, ok) PROVE Next
  BY <1>4 DEF StartConnect, Next, Call
<1>5. CASE DiscardConnect(t)
  BY <1>5 DEF DiscardConnect, Next, Call
<1>6. ASSUME NEW ok \in BOOLEAN, Bootstrap(t, ok) PROVE UNCHANGED kernelVars
  BY <1>6 DEF Bootstrap
<1>7. ASSUME NEW ok \in BOOLEAN, FinishConnect(t, ok) PROVE Next
  BY <1>7 DEF FinishConnect, Next, Call
<1>8. ASSUME NEW ok \in BOOLEAN, Fail(t, ok) PROVE Next
  BY <1>8 DEF Fail, Next, Call
<1> QED
  BY <1>1, <1>2, <1>3, <1>4, <1>5, <1>6, <1>7, <1>8 DEF Connect

\* Talking to the device.
LEMMA DeviceStep ==
    ASSUME NEW t \in Callers, Device(t)
    PROVE  Next \/ UNCHANGED kernelVars
<1>1. CASE Access(t)
  BY <1>1 DEF Access, Next, Call
<1>2. ASSUME NEW ok \in BOOLEAN, Rebuild(t, ok) PROVE Next
  BY <1>2 DEF Rebuild, Next, Call
<1>3. CASE AbandonRebuild(t)
  BY <1>3 DEF AbandonRebuild, Next, Call
<1>4. ASSUME NEW s \in Snapshots, Answer(t, s) PROVE Next
  BY <1>4 DEF Answer, Next, Call
<1>5. CASE FailCall(t) \/ Poll(t) \/ ListApps(t)
  BY <1>5 DEF FailCall, Poll, ListApps, Next, Call
<1>6. CASE Attach(t)
  BY <1>6 DEF Attach, Next, Call
<1>7. CASE GiveUp(t) \/ RejectScreenshot(t)
  BY <1>7 DEF GiveUp, RejectScreenshot
<1> QED
  BY <1>1, <1>2, <1>3, <1>4, <1>5, <1>6, <1>7 DEF Device

\* Refreshing the screen.
LEMMA ScreenStep ==
    ASSUME NEW t \in Callers, Screen(t)
    PROVE  Next
<1>1. Refresh(t)
  BY DEF Screen, PrepareScreen, FinishScreen, RejectScreen, FailScreen, Refresh
<1> QED
  BY <1>1, KernelSteps

\* Actions.
LEMMA ActionStep ==
    ASSUME NEW t \in Callers, Action(t)
    PROVE  Next \/ UNCHANGED kernelVars
<1>1. CASE RepairFirst(t)
  BY <1>1 DEF RepairFirst
<1>2. CASE RepairStale(t) \/ Dispatch(t)
  BY <1>2 DEF RepairStale, Dispatch, Next, Call
<1>3. ASSUME NEW ok \in BOOLEAN, DropBeforeSettle(t, ok) PROVE Next
  BY <1>3 DEF DropBeforeSettle, Next, Call
<1>4. ASSUME NEW discard \in BOOLEAN, NEW ok \in BOOLEAN, LoseTruth(t, discard, ok)
      PROVE  Next
  BY <1>4 DEF LoseTruth, Next, Call
<1>5. ASSUME NEW ok \in BOOLEAN, Unauthorized(t, ok) PROVE Next
  BY <1>5 DEF Unauthorized, Next, Call
<1> QED
  BY <1>1, <1>2, <1>3, <1>4, <1>5 DEF Action

\* runtime/get, close and the gate.
LEMMA BoundaryStep ==
    ASSUME NEW t \in Callers, Boundary(t)
    PROVE  Next \/ UNCHANGED kernelVars
<1>1. CASE ReadBasis(t) \/ ReadStatus(t) \/ AnswerGet(t) \/ EnterGate(t) \/ Respond(t)
  BY <1>1 DEF ReadBasis, ReadStatus, AnswerGet, EnterGate, Respond
<1>2. ASSUME NEW ok \in BOOLEAN, Close(t, ok) PROVE Next
  BY <1>2 DEF Close, Next, Lifecycle
<1> QED
  BY <1>1, <1>2 DEF Boundary

\* Whatever the daemon does, the kernel knows it or does not see it.
LEMMA DaemonStep == HostNext => Next \/ UNCHANGED kernelVars
<1> SUFFICES ASSUME HostNext PROVE Next \/ UNCHANGED kernelVars
  OBVIOUS
<1>1. ASSUME NEW t \in Callers, Step(t) PROVE Next \/ UNCHANGED kernelVars
  BY <1>1, AdmissionStep, ConnectStep, DeviceStep, ScreenStep, ActionStep, BoundaryStep
     DEF Step
<1>2. ASSUME NEW t \in Callers, NEW k \in Requests, Arrive(t, k)
      PROVE  UNCHANGED kernelVars
  BY <1>2 DEF Arrive
<1>3. ASSUME NEW t \in Callers, Deadline(t) PROVE UNCHANGED kernelVars
  BY <1>3 DEF Deadline
<1>4. CASE Stop
  BY <1>4 DEF Stop, Next, Lifecycle
<1> QED
  BY <1>1, <1>2, <1>3, <1>4 DEF HostNext

\* The daemon is one of the programs that RuntimeKernel speaks of.
THEOREM DaemonUsesKernel == HostSpec => Spec
<1>1. HostInit => Init
  BY DEF HostInit
<1>2. [HostNext]_vars => [Next]_kernelVars
  BY DaemonStep DEF vars
<1> QED
  BY <1>1, <1>2, PTL DEF HostSpec, Spec

\* What the daemon inherits: late handler threads are fenced off, and an authoritative
\* screen has its files, with any number of threads.
THEOREM DaemonKeepsKernelInvariants ==
    HostSpec => [](NothingOutlivesItsLifecycle /\ AuthoritativeScreenIsPublished
                    /\ SequenceIsPersisted /\ StaleReadyHasNoDevice)
BY DaemonUsesKernel, LifecycleFence, PublishedScreens, PersistedSequence,
   StaleReadyIsBare, PTL

-----------------------------------------------------------------------------
(* One command at a time *)

WorkStages == DeviceStages \cup {"connect", "discard", "bootstrap", "activate", "fail",
                                 "drop", "lost", "unauthorized"}

\* What a thread does inside its call, seen from the admission: it goes on or returns,
\* and takes nothing that it is not in a call for.
Works(t) ==
    /\ At(t, WorkStages)
    /\ \E s \in WorkStages \cup {"return"} : pc' = [pc EXCEPT ![t] = s]
    /\ phase' \in [Callers -> Phases]
    /\ UNCHANGED <<kind, payload, admission, lease>>
    /\ rt'.revision = rt.revision
    /\ \A c \in Callers : held'[c] # None => held[c] # None \/ InCall(c)

\* Kernel steps that do not end a lifecycle keep its revision.
LEMMA RevisionKept ==
    ASSUME KernelInv, NEW c \in Callers
    PROVE  /\ Call(c) \/ Refresh(c) => rt'.revision = rt.revision
           /\ \A ok \in BOOLEAN : NormalizeStaleReady(ok) => rt'.revision = rt.revision
<1>1. /\ rt \in Runtimes /\ Cleared(rt) \in Runtimes
      /\ Cleared(rt).revision = rt.revision /\ Normalized(rt).revision = rt.revision
      /\ \A discard \in BOOLEAN : WithoutAuthority(rt, discard).revision = rt.revision
  BY RuntimeParts, RuntimeFields DEF KernelInv, TypeOK
<1>2. ASSUME NEW ok \in BOOLEAN, BeginConnect(c, ok) PROVE rt'.revision = rt.revision
  BY <1>1, <1>2 DEF BeginConnect, Connecting, Runtimes
<1>3. ASSUME NEW ok \in BOOLEAN, FailConnect(c, ok) \/ InvalidateCredentials(c, ok)
      PROVE  rt'.revision = rt.revision
  BY <1>1, <1>3 DEF FailConnect, InvalidateCredentials, Break, Become, Runtimes
<1>4. ASSUME NEW ok \in BOOLEAN,
             ActivateConnect(c, ok) \/ CommitRebootstrap(c, ok) \/ AttachScreenshot(c)
      PROVE  rt'.revision = rt.revision
  BY <1>1, <1>4 DEF ActivateConnect, Activated, CommitRebootstrap, Rebootstrapped,
                    AttachScreenshot, Runtimes
<1>5. ASSUME NEW ok \in BOOLEAN, NEW discard \in BOOLEAN,
             DropScreenAuthority(c, discard, ok)
      PROVE  rt'.revision = rt.revision
  BY <1>1, <1>5 DEF DropScreenAuthority, Become
<1>6. ASSUME Call(c) PROVE rt'.revision = rt.revision
  BY <1>2, <1>3, <1>4, <1>5, <1>6
     DEF Call, CaptureLease, EndCall, ChooseDevice, EstablishTransport, DiscardHandle,
         ReuseTransport, StartRebootstrap, LoseRebootstrap, Fetch, CallDevice, runtimeVars
<1>7. ASSUME PublishXml(c) PROVE rt'.revision = rt.revision
  BY <1>1, <1>7 DEF PublishXml, WithScreen, Runtimes
<1>8. ASSUME RollbackRefresh(c) PROVE rt'.revision = rt.revision
  BY <1>8, CommittingRuntime, NoneAssumption DEF RollbackRefresh, Settled, LockFree
<1>9. ASSUME Refresh(c) PROVE rt'.revision = rt.revision
  BY <1>7, <1>8, <1>9 DEF Refresh, CaptureBasis, DiscardRefresh, StartCommit, PublishJson,
                          PersistRefresh, runtimeVars
<1>10. ASSUME NEW ok \in BOOLEAN, NormalizeStaleReady(ok) PROVE rt'.revision = rt.revision
  BY <1>1, <1>10 DEF NormalizeStaleReady, Become
<1> QED
  BY <1>6, <1>9, <1>10

\* Connecting is work inside the call.
LEMMA ConnectWorks ==
    ASSUME KernelInv, HostTypeOK, NEW t \in Callers, Connect(t)
    PROVE  Works(t)
<1> USE DEF Works, At, WorkStages, DeviceStages, Go, Set, hostVars, request, admission,
            callVars, HostTypeOK, TypeOK
<1>r. Call(t) => rt'.revision = rt.revision
  BY RevisionKept
<1>1. ASSUME NEW d \in Devices, Choose(t, d) PROVE Works(t)
  BY <1>1, <1>r DEF Choose, ChooseDevice, Call
<1>2. ASSUME NEW p \in Ports, Establish(t, p) PROVE Works(t)
  BY <1>2, <1>r DEF Establish, EstablishTransport, Call
<1>3. CASE FailEstablish(t)
  BY <1>3 DEF FailEstablish, kernelVars, runtimeVars
<1>4. ASSUME NEW ok \in BOOLEAN, StartConnect(t, ok) PROVE Works(t)
  BY <1>4, <1>r DEF StartConnect, BeginConnect, Call
<1>5. CASE DiscardConnect(t)
  BY <1>5, <1>r DEF DiscardConnect, DiscardHandle, Call
<1>6. ASSUME NEW ok \in BOOLEAN, Bootstrap(t, ok) PROVE Works(t)
  BY <1>6 DEF Bootstrap, kernelVars, runtimeVars
<1>7. ASSUME NEW ok \in BOOLEAN, FinishConnect(t, ok) PROVE Works(t)
  BY <1>7, <1>r DEF FinishConnect, ActivateConnect, Call
<1>8. ASSUME NEW ok \in BOOLEAN, Fail(t, ok) PROVE Works(t)
  BY <1>8, <1>r DEF Fail, FailConnect, Break, Call
<1> QED
  BY <1>1, <1>2, <1>3, <1>4, <1>5, <1>6, <1>7, <1>8 DEF Connect

\* Talking to the device is work inside the call.
LEMMA DeviceWorks ==
    ASSUME KernelInv, HostTypeOK, NEW t \in Callers, Device(t)
    PROVE  Works(t)
<1> USE DEF Works, At, WorkStages, DeviceStages, RefreshStages, Go, Set, hostVars, request,
            admission, callVars, runtimeVars, HostTypeOK, TypeOK
<1>r. Call(t) => rt'.revision = rt.revision
  BY RevisionKept
<1>e. /\ AfterException(t) \in {"fail", "return"}
      /\ AfterError(t) \subseteq {"lost", "unauthorized", "return", "fail"}
      /\ NextIteration(t) \in {"return", "wait"}
  BY DEF AfterException, AfterError, NextIteration
<1>1. CASE Access(t)
  BY <1>1, <1>r DEF Access, ReuseTransport, StartRebootstrap, Call
<1>2. ASSUME NEW ok \in BOOLEAN, Rebuild(t, ok) PROVE Works(t)
  BY <1>2, <1>r, <1>e DEF Rebuild, CommitRebootstrap, Call
<1>3. CASE AbandonRebuild(t)
  BY <1>3, <1>r, <1>e DEF AbandonRebuild, LoseRebootstrap, DiscardHandle, Call
<1>4. ASSUME NEW s \in Snapshots, Answer(t, s) PROVE Works(t)
  BY <1>4, <1>r DEF Answer, Fetch, Call
<1>5. CASE FailCall(t) \/ ListApps(t)
  BY <1>5, <1>r, <1>e DEF FailCall, ListApps, CallDevice, Call
<1>6. CASE Attach(t)
  BY <1>6, <1>r DEF Attach, AttachScreenshot, Call
<1>7. CASE GiveUp(t) \/ RejectScreenshot(t)
  BY <1>7, <1>e DEF GiveUp, RejectScreenshot, kernelVars
<1>8. CASE Poll(t)
  BY <1>8, <1>r, <1>e DEF Poll, CallDevice, Call, kernelVars
<1> QED
  BY <1>1, <1>2, <1>3, <1>4, <1>5, <1>6, <1>7, <1>8 DEF Device

\* Refreshing the screen is work inside the call.
LEMMA ScreenWorks ==
    ASSUME KernelInv, HostTypeOK, NEW t \in Callers, Screen(t)
    PROVE  Works(t)
<1> USE DEF Works, At, WorkStages, DeviceStages, RefreshStages, Go, Set, hostVars, request,
            admission, HostTypeOK, TypeOK
<1>r. rt'.revision = rt.revision
  BY RevisionKept DEF Screen, PrepareScreen, FinishScreen, RejectScreen, FailScreen, Refresh
<1>e. /\ AfterException(t) \in {"fail", "return"}
      /\ AfterError(t) \subseteq {"lost", "unauthorized", "return", "fail"}
      /\ AfterRefresh(t) \in {"dispatch", "return", "wait"}
  BY DEF AfterException, AfterError, AfterRefresh, NextIteration
<1>1. CASE PrepareScreen(t)
  BY <1>1, <1>r DEF PrepareScreen, CaptureBasis, StartCommit, PublishJson, PublishXml
<1>2. CASE FinishScreen(t)
  BY <1>2, <1>r, <1>e DEF FinishScreen, PersistRefresh
<1>3. CASE RejectScreen(t)
  BY <1>3, <1>r, <1>e DEF RejectScreen, DiscardRefresh
<1>4. CASE FailScreen(t)
  BY <1>4, <1>r, <1>e DEF FailScreen, RollbackRefresh
<1> QED
  BY <1>1, <1>2, <1>3, <1>4 DEF Screen

\* Repairing, dispatching and giving truth up are work inside the call.
LEMMA ActionWorks ==
    ASSUME KernelInv, HostTypeOK, NEW t \in Callers, Action(t)
    PROVE  Works(t)
<1> USE DEF Works, At, WorkStages, DeviceStages, Go, Set, request, admission, callVars,
            HostTypeOK, TypeOK, Phases
<1>r. Call(t) => rt'.revision = rt.revision
  BY RevisionKept
<1>1. CASE RepairFirst(t)
  BY <1>1 DEF RepairFirst, kernelVars, runtimeVars
<1>2. CASE RepairStale(t)
  BY <1>2, <1>r DEF RepairStale, CallDevice, Call
<1>3. CASE Dispatch(t)
  BY <1>3, <1>r DEF Dispatch, CallDevice, Call
<1>4. ASSUME NEW ok \in BOOLEAN, DropBeforeSettle(t, ok) PROVE Works(t)
  BY <1>4, <1>r DEF DropBeforeSettle, DropScreenAuthority, Call
<1>5. ASSUME NEW discard \in BOOLEAN, NEW ok \in BOOLEAN, LoseTruth(t, discard, ok)
      PROVE  Works(t)
  BY <1>5, <1>r DEF LoseTruth, DropScreenAuthority, Call
<1>6. ASSUME NEW ok \in BOOLEAN, Unauthorized(t, ok) PROVE Works(t)
  BY <1>6, <1>r DEF Unauthorized, InvalidateCredentials, Break, Call
<1> QED
  BY <1>1, <1>2, <1>3, <1>4, <1>5, <1>6 DEF Action

\* Whoever is at work was admitted, and stays so.
LEMMA WorkKeepsAdmission ==
    ASSUME HostTypeOK, TypeOK', AdmissionOK, NEW t \in Callers, Works(t)
    PROVE  HostTypeOK' /\ AdmissionOK'
<1> USE DEF Works, WorkStages, DeviceStages, admission
<1>1. HostTypeOK'
  BY DEF HostTypeOK, Stages
<1>2. \A c \in Callers : InCall(c)' = InCall(c) /\ LeaseCurrent(c)' = LeaseCurrent(c)
  BY DEF InCall, LeaseCurrent
<1>3. PICK s \in WorkStages \cup {"return"} : pc' = [pc EXCEPT ![t] = s]
  OBVIOUS
<1>4. pc[t] \in WorkStages /\ pc'[t] \in WorkStages \cup {"return"}
      /\ \A c \in Callers : c # t => pc'[c] = pc[c]
  BY <1>3 DEF At, HostTypeOK
<1>5. kind[t] # "get" /\ active = t
  BY <1>4 DEF AdmissionOK, At, NeedsNoAdmission, GetStages
<1> HIDE DEF Works
<1>6. kind' = kind /\ active' = active /\ lane' = lane /\ payload' = payload
      /\ \A c \in Callers : held'[c] # None => held[c] # None \/ InCall(c)
  BY DEF Works
<1>7. ASSUME NEW c \in Callers, c # t
      PROVE  AdmissionOK!(c)'
  BY <1>2, <1>4, <1>6, <1>7 DEF AdmissionOK, At, NeedsNoAdmission
<1>8. AdmissionOK!(t)'
  BY <1>2, <1>4, <1>5, <1>6 DEF AdmissionOK, At, NeedsNoAdmission, Outside
<1> QED
  BY <1>1, <1>7, <1>8 DEF AdmissionOK

\* What is between two works: requests, admission, entering and leaving the call, the
\* lane, runtime/get, close and the gate.
LEMMA BoundaryKeepsAdmission ==
    ASSUME KernelInv, HostTypeOK, TypeOK', AdmissionOK, NEW t \in Callers,
           \/ Admission(t)
           \/ Boundary(t)
           \/ Deadline(t)
           \/ \E k \in Requests : Arrive(t, k)
    PROVE  HostTypeOK' /\ AdmissionOK'
<1> USE DEF At, Go, Set, request, admission, callVars, InCall, LeaseCurrent
<1>n. None \notin Callers
  BY NoneAssumption
<1>t. /\ pc \in [Callers -> Stages] /\ kind \in [Callers -> Maybe(Kinds)]
      /\ phase \in [Callers -> Phases] /\ payload \in [Callers -> Maybe(Payloads)]
      /\ active \in Maybe(Callers) /\ lane \in Maybe(Callers)
      /\ closing \in BOOLEAN /\ stopping \in BOOLEAN
      /\ lease \in [Callers -> Maybe(Revisions)] /\ rt \in Runtimes
      /\ None \notin Revisions /\ rt.revision \in Revisions
  BY NoneAssumption DEF HostTypeOK, TypeOK, Runtimes, Revisions
<1>1. CASE Admit(t)
  BY <1>1, <1>n, <1>t DEF Admit, kernelVars, runtimeVars, HostTypeOK, AdmissionOK, NeedsNoAdmission,
                          Outside, GetStages, Stages, Maybe
<1>2. CASE RejectBusy(t)
  BY <1>2, <1>n, <1>t DEF RejectBusy, Answered, kernelVars, runtimeVars, HostTypeOK, AdmissionOK,
                          NeedsNoAdmission, Outside, GetStages, Stages, Maybe, Phases
<1>3. ASSUME NEW ok \in BOOLEAN, Enter(t, ok) PROVE HostTypeOK' /\ AdmissionOK'
  <2>1. lease' = lease /\ held' = held /\ rt'.revision = rt.revision
    BY <1>3, RevisionKept DEF Enter, NormalizeStaleReady, kernelVars, runtimeVars
  <2>2. pc' = [pc EXCEPT ![t] = IF ~ok THEN "return"
                                ELSE IF kind[t] = "get" THEN "basis" ELSE "lease"]
    BY <1>3 DEF Enter
  <2>3. pc[t] = "enter" /\ UNCHANGED <<kind, phase, payload, active, lane, closing, stopping>>
    BY <1>3 DEF Enter
  <2> QED
    BY <1>t, <2>1, <2>2, <2>3 DEF HostTypeOK, AdmissionOK, NeedsNoAdmission,
                                  Outside, GetStages, Stages
<1>4. CASE Begin(t)
  <2>1. FirstStage(t) \in {"connect", "lane", "wait", "dispatch"}
    BY DEF FirstStage
  <2>2. PICK s \in {"connect", "lane", "wait", "dispatch", "return"} :
            pc' = [pc EXCEPT ![t] = s]
    BY <1>4, <2>1 DEF Begin
  <2>3. /\ pc[t] = "lease" /\ lease' = [lease EXCEPT ![t] = rt.revision]
        /\ UNCHANGED <<rt, held, kind, phase, payload, active, lane, closing, stopping>>
    BY <1>4 DEF Begin, CaptureLease, runtimeVars
  <2> QED
    BY <1>t, <2>2, <2>3 DEF HostTypeOK, AdmissionOK, NeedsNoAdmission, Outside, GetStages,
                            Stages, DeviceStages
<1>5. CASE TakeLane(t)
  <2>1. LaneStage(t) \in {"screen", "shot", "list"}
    BY DEF LaneStage
  <2>2. PICK s \in {"return", "screen", "shot", "list"} : pc' = [pc EXCEPT ![t] = s]
    BY <1>5, <2>1 DEF TakeLane
  <2>3. /\ pc[t] = "lane" /\ lane' = IF lane = None THEN t ELSE lane
        /\ UNCHANGED <<rt, lease, held, kind, phase, payload, active, closing, stopping>>
    BY <1>5 DEF TakeLane, kernelVars, runtimeVars
  <2> QED
    BY <1>n, <1>t, <2>2, <2>3 DEF HostTypeOK, AdmissionOK, NeedsNoAdmission, Outside,
                                  GetStages, Stages, DeviceStages, Maybe
<1>6. CASE Return(t)
  BY <1>6, <1>n, <1>t DEF Return, EndCall, kernelVars, runtimeVars, HostTypeOK, AdmissionOK,
                          NeedsNoAdmission, Outside, GetStages, Stages, Maybe
<1>7. CASE ReleaseSlot(t)
  BY <1>7, <1>n, <1>t DEF ReleaseSlot, Answered, kernelVars, runtimeVars, HostTypeOK, AdmissionOK,
                          NeedsNoAdmission, Outside, GetStages, Stages, Maybe, Phases
<1>8. CASE ReadBasis(t)
  BY <1>8, <1>t DEF ReadBasis, kernelVars, runtimeVars, HostTypeOK, AdmissionOK,
                    NeedsNoAdmission, Outside, GetStages, Stages, Maybe, Payloads,
                    HasAuthoritativeScreen
<1>9. CASE ReadStatus(t)
  <2>1. payload[t] \in Payloads /\ rt.status \in Statuses
    BY <1>9, <1>t DEF ReadStatus, AdmissionOK, Runtimes
  <2>2. [payload[t] EXCEPT !.status = rt.status] \in Payloads
    BY <2>1 DEF Payloads, Maybe
  <2>3. payload' = [payload EXCEPT ![t] = [payload[t] EXCEPT !.status = rt.status]]
    BY <1>9, <1>t DEF ReadStatus
  <2>4. payload' \in [Callers -> Maybe(Payloads)]
    BY <1>t, <2>2, <2>3 DEF Maybe
  <2> QED
    BY <1>9, <1>t, <2>4 DEF ReadStatus, kernelVars, runtimeVars, HostTypeOK, AdmissionOK,
                      NeedsNoAdmission, Outside, GetStages, Stages
<1>10. CASE AnswerGet(t)
  BY <1>10, <1>n, <1>t DEF AnswerGet, Answered, kernelVars, runtimeVars, HostTypeOK, AdmissionOK,
                    NeedsNoAdmission, Outside, GetStages, Stages, Maybe, Phases
<1>11. ASSUME NEW ok \in BOOLEAN, Close(t, ok) PROVE HostTypeOK' /\ AdmissionOK'
  BY <1>11, <1>t DEF Close, CloseRuntime, HostTypeOK, AdmissionOK, NeedsNoAdmission,
                     Outside, GetStages, Stages
<1>12. CASE EnterGate(t)
  BY <1>12, <1>t DEF EnterGate, kernelVars, runtimeVars, HostTypeOK, AdmissionOK,
                     NeedsNoAdmission, Outside, GetStages, Stages
<1>13. CASE Respond(t)
  BY <1>13, <1>t DEF Respond, Answered, kernelVars, runtimeVars, HostTypeOK, AdmissionOK,
                     NeedsNoAdmission, Outside, GetStages, Stages, Maybe, Phases
<1>14. CASE Deadline(t)
  BY <1>14, <1>t DEF Deadline, kernelVars, runtimeVars, HostTypeOK, AdmissionOK,
                     NeedsNoAdmission, Phases
<1>15. ASSUME NEW k \in Requests, Arrive(t, k) PROVE HostTypeOK' /\ AdmissionOK'
  BY <1>15, <1>t, RequestsAssumption
     DEF Arrive, kernelVars, runtimeVars, HostTypeOK, AdmissionOK, NeedsNoAdmission,
         Outside, GetStages, Stages, Maybe
<1> QED
  BY <1>1, <1>2, <1>3, <1>4, <1>5, <1>6, <1>7, <1>8, <1>9, <1>10, <1>11, <1>12, <1>13,
     <1>14, <1>15 DEF Admission, Boundary

-----------------------------------------------------------------------------
(* Sequences and the ledger *)

\* A step that hands out no screen: what is settled stays at its sequence, and does not
\* become authoritative.
HandsOutNothing ==
    /\ issued' = issued
    /\ Settled'.sequence = Settled.sequence
    /\ HasAuthoritativeScreen(Settled') => HasAuthoritativeScreen(Settled)

\* Only the last step of a refresh commit hands out a screen.
LEMMA OnlyCommitsHandOut ==
    ASSUME KernelInv, Next
    PROVE  HandsOutNothing \/ \E c \in Callers : PersistRefresh(c)
<1> USE DEF KernelInv, HandsOutNothing
<1>n. None \notin Callers
  BY NoneAssumption
<1>t. rt \in Runtimes /\ Cleared(rt) \in Runtimes /\ Cleared(rt).sequence = rt.sequence
  BY RuntimeParts, RuntimeFields DEF TypeOK
<1>1. ASSUME UNCHANGED <<rt, lock, issued>>, LockFree \/ txn'[lock] = txn[lock]
      PROVE  HandsOutNothing
  BY <1>1 DEF Settled, LockFree
<1>2. ASSUME NEW c \in Callers, lock # c, NEW v, txn' = [txn EXCEPT ![c] = v],
             UNCHANGED <<rt, lock, issued>>
      PROVE  HandsOutNothing
  <2>1. LockFree \/ txn'[lock] = txn[lock]
    BY <1>2 DEF TypeOK, Maybe, LockFree
  <2> QED
    BY <1>1, <1>2, <2>1
<1>3. ASSUME LockFree, UNCHANGED <<lock, issued>>, rt'.sequence = rt.sequence,
             \/ rt'.status # "ready"
             \/ rt'.status = rt.status /\ rt'.screen = rt.screen
             \/ rt'.screen = None
      PROVE  HandsOutNothing
  BY <1>3 DEF Settled, LockFree, HasAuthoritativeScreen
<1>4. ASSUME NEW c \in Callers, NEW ok \in BOOLEAN, BeginConnect(c, ok)
      PROVE  HandsOutNothing
  <2>1. Connecting(c).status = "bootstrapping" /\ Connecting(c).sequence = rt.sequence
    BY <1>t DEF Connecting, Runtimes
  <2> QED
    BY <1>3, <1>4, <2>1 DEF BeginConnect
<1>5. ASSUME NEW c \in Callers, NEW ok \in BOOLEAN,
             ActivateConnect(c, ok) \/ CommitRebootstrap(c, ok) \/ AttachScreenshot(c)
      PROVE  HandsOutNothing
  <2>1. /\ rt'.sequence = rt.sequence
        /\ rt'.status = "connected" \/ (rt'.status = rt.status /\ rt'.screen = rt.screen)
    BY <1>5, <1>t DEF ActivateConnect, Activated, CommitRebootstrap, Rebootstrapped,
                      AttachScreenshot, Runtimes
  <2> QED
    BY <1>3, <1>5, <2>1 DEF ActivateConnect, CommitRebootstrap, AttachScreenshot
<1>6. ASSUME NEW c \in Callers, NEW ok \in BOOLEAN,
             FailConnect(c, ok) \/ InvalidateCredentials(c, ok)
      PROVE  HandsOutNothing
  <2>1. LockFree /\ UNCHANGED <<lock, issued>> /\ rt' = [Cleared(rt) EXCEPT !.status = "broken"]
    BY <1>6 DEF FailConnect, InvalidateCredentials, Break, Become
  <2> QED
    BY <1>3, <1>t, <2>1 DEF Runtimes
<1>7. ASSUME NEW c \in Callers, NEW discard \in BOOLEAN, NEW ok \in BOOLEAN,
             DropScreenAuthority(c, discard, ok)
      PROVE  HandsOutNothing
  <2>1. rt'.status # "ready" /\ rt'.sequence = rt.sequence
    BY <1>7, <1>t, RuntimeFields DEF DropScreenAuthority, Become
  <2> QED
    BY <1>3, <1>7, <2>1 DEF DropScreenAuthority
<1>8. ASSUME NEW c \in Callers, StartCommit(c) PROVE HandsOutNothing
  <2>1. lock = None /\ lock' = c /\ issued' = issued /\ txn[c] \in Refreshes
    BY <1>8, <1>n DEF StartCommit, LockFree, TypeOK, Maybe
  <2>2. txn'[c].saved = rt
    BY <1>8, <2>1 DEF StartCommit, TypeOK, Refreshes
  <2> QED
    BY <1>n, <2>1, <2>2 DEF Settled, LockFree
<1>9. ASSUME NEW c \in Callers, PublishJson(c) \/ PublishXml(c) PROVE HandsOutNothing
  <2>1. /\ Replaced("json") = {} /\ Replaced("xml") = {"json"}
        /\ Replaced("persist") = {"json", "xml"}
    BY DEF Replaced, ArtifactKinds
  <2> QED
    BY <1>9, <2>1, SettledPublish DEF PublishJson, PublishXml, ArtifactKinds
<1>10. ASSUME NEW c \in Callers, RollbackRefresh(c) PROVE HandsOutNothing
  BY <1>10, <1>n DEF RollbackRefresh, Settled, LockFree
<1>11. ASSUME NEW c \in Callers, Call(c) PROVE HandsOutNothing
  <2>1. ASSUME \/ CaptureLease(c)
               \/ \E d \in Devices : ChooseDevice(c, d)
               \/ \E p \in Ports : EstablishTransport(c, p)
               \/ DiscardHandle(c)
               \/ ReuseTransport(c)
               \/ StartRebootstrap(c)
               \/ LoseRebootstrap(c)
               \/ \E s \in Snapshots : Fetch(c, s)
               \/ CallDevice(c)
        PROVE  HandsOutNothing
    BY <1>1, <2>1
       DEF CaptureLease, ChooseDevice, EstablishTransport, DiscardHandle, ReuseTransport,
           StartRebootstrap, LoseRebootstrap, Fetch, CallDevice, runtimeVars
  <2>2. ASSUME EndCall(c) PROVE HandsOutNothing
    BY <1>2, <2>2 DEF EndCall, Set, runtimeVars
  <2> QED
    BY <1>4, <1>5, <1>6, <1>7, <1>11, <2>1, <2>2 DEF Call
<1>12. ASSUME NEW c \in Callers, Refresh(c) PROVE HandsOutNothing \/ PersistRefresh(c)
  <2>1. ASSUME CaptureBasis(c) PROVE HandsOutNothing
    BY <1>2, <1>n, <2>1 DEF CaptureBasis, LockFree, Set, runtimeVars
  <2>2. ASSUME DiscardRefresh(c) PROVE HandsOutNothing
    <3>1. lock # c
      BY <2>2 DEF DiscardRefresh, LockOK
    <3> QED
      BY <1>2, <2>2, <3>1 DEF DiscardRefresh, Set, runtimeVars
  <2> QED
    BY <1>8, <1>9, <1>10, <1>12, <2>1, <2>2 DEF Refresh
<1>13. ASSUME NEW ok \in BOOLEAN, NormalizeStaleReady(ok) PROVE HandsOutNothing
  <2>1. rt'.status # "ready" /\ rt'.sequence = rt.sequence
    BY <1>13, <1>t, RuntimeFields DEF NormalizeStaleReady, Become
  <2> QED
    BY <1>3, <1>13, <2>1 DEF NormalizeStaleReady
<1>14. ASSUME NEW ok \in BOOLEAN, CloseRuntime(ok) PROVE HandsOutNothing
  <2>1. Closed(rt).status = "closed" /\ Closed(rt).sequence = rt.sequence
    BY <1>t DEF Closed, Runtimes
  <2> QED
    BY <1>3, <1>14, <2>1 DEF CloseRuntime, Become
<1>15. ASSUME InvalidateRuntime PROVE HandsOutNothing
  <2>1. rt' = [Cleared(rt) EXCEPT !.revision = @ + 1]
    BY <1>15 DEF InvalidateRuntime, Become
  <2>2. rt'.sequence = rt.sequence /\ rt'.screen = Cleared(rt).screen
    BY <1>t, <2>1 DEF Runtimes
  <2> QED
    BY <1>3, <1>15, <1>t, <2>2, RuntimeFields DEF InvalidateRuntime
<1>16. ASSUME Crash PROVE HandsOutNothing
  <2>1. lock' = None /\ rt' = Loaded(disk) /\ issued' = issued
    BY <1>16 DEF Crash, Restart
  <2>2. /\ Loaded(disk).status # "ready"
        /\ Loaded(disk).sequence = (IF disk = None THEN 0 ELSE disk.sequence)
    BY DEF Loaded, TypeOK, Maybe, RuntimeFiles
  <2> QED
    BY <2>1, <2>2 DEF SettledOK, Settled, LockFree, HasAuthoritativeScreen
<1>17. ASSUME Lifecycle PROVE HandsOutNothing
  BY <1>13, <1>14, <1>15, <1>16, <1>17 DEF Lifecycle
<1> QED
  BY <1>11, <1>12, <1>17 DEF Next

\* A refresh has the screen it had, or is new and one after what is settled.
DraftsFollow ==
    \A c \in Callers :
        txn'[c] # None =>
            \/ txn[c] # None /\ txn'[c].screen = txn[c].screen
            \/ txn'[c].screen.sequence = Settled.sequence + 1

\* Every step leaves refreshes as they are, ends them, or starts one.
LEMMA DraftsAreNext ==
    ASSUME KernelInv, Next
    PROVE  DraftsFollow
<1> USE DEF KernelInv, DraftsFollow
<1>n. None \notin Callers
  BY NoneAssumption
<1>t. txn \in [Callers -> Maybe(Refreshes)]
  BY DEF TypeOK
<1>1. ASSUME NEW c \in Callers, NEW v, txn' = [txn EXCEPT ![c] = v],
             v # None => \/ txn[c] # None /\ v.screen = txn[c].screen
                         \/ v.screen.sequence = Settled.sequence + 1
      PROVE  DraftsFollow
  BY <1>1, <1>t
<1>2. ASSUME NEW c \in Callers, Call(c) PROVE DraftsFollow
  <2>1. txn' = txn \/ txn' = [txn EXCEPT ![c] = None]
    BY <1>2 DEF Call, CaptureLease, EndCall, ChooseDevice, EstablishTransport, DiscardHandle,
                BeginConnect, ActivateConnect, FailConnect, InvalidateCredentials,
                ReuseTransport, StartRebootstrap, CommitRebootstrap, LoseRebootstrap, Fetch,
                CallDevice, AttachScreenshot, DropScreenAuthority, callVars, Set
  <2> QED
    BY <1>1, <2>1
<1>3. ASSUME NEW c \in Callers, CaptureBasis(c) PROVE DraftsFollow
  <2> DEFINE v == [phase  |-> "staged",
                   screen |-> [sequence |-> rt.sequence + 1,
                               device   |-> fetched[c].device,
                               snapshot |-> fetched[c].snapshot,
                               lease    |-> lease[c]],
                   saved  |-> None,
                   backup |-> [k \in ArtifactKinds |-> None]]
  <2>1. txn' = [txn EXCEPT ![c] = v] /\ Settled = rt
    BY <1>3 DEF CaptureBasis, Set, Settled
  <2>2. v.screen.sequence = rt.sequence + 1
    OBVIOUS
  <2> HIDE DEF v
  <2> QED
    BY <1>1, <2>1, <2>2
<1>4. ASSUME NEW c \in Callers, NEW p, StartCommit(c) \/ Publish(c, p, "xml")
                                        \/ Publish(c, p, "persist"),
             txn[c] \in Refreshes
      PROVE  DraftsFollow
  <2>1. txn'[c].screen = txn[c].screen /\ \A d \in Callers : d # c => txn'[d] = txn[d]
    BY <1>4, <1>t DEF StartCommit, Publish, Refreshes
  <2>2. txn[c] # None
    BY <1>4, NoneAssumption
  <2> QED
    BY <2>1, <2>2
<1>5. ASSUME NEW c \in Callers, Refresh(c) PROVE DraftsFollow
  <2>1. ASSUME StartCommit(c) PROVE DraftsFollow
    BY <1>4, <1>t, <2>1 DEF StartCommit, Maybe
  <2>2. ASSUME PublishJson(c) \/ PublishXml(c) PROVE DraftsFollow
    BY <1>4, <1>n, <1>t, <2>2 DEF PublishJson, PublishXml, LockOK, Maybe
  <2>3. ASSUME DiscardRefresh(c) \/ PersistRefresh(c) \/ RollbackRefresh(c)
        PROVE  DraftsFollow
    BY <1>1, <2>3 DEF DiscardRefresh, PersistRefresh, RollbackRefresh, Set
  <2> QED
    BY <1>3, <1>5, <2>1, <2>2, <2>3 DEF Refresh
<1>6. ASSUME Lifecycle PROVE DraftsFollow
  BY <1>6 DEF Lifecycle, NormalizeStaleReady, CloseRuntime, InvalidateRuntime, Crash, Restart,
              NoneEach, callVars
<1> QED
  BY <1>2, <1>5, <1>6 DEF Next

\* What the last step of a commit hands out, when only one thread is at it.
LEMMA CommitHandsOut ==
    ASSUME KernelInv, AdmissionOK, SequenceOK, NEW c \in Callers, PersistRefresh(c)
    PROVE  /\ issued' = Settled.sequence + 1
           /\ Settled' = rt /\ rt.sequence = issued' /\ HasAuthoritativeScreen(rt)
           /\ \A d \in Callers : txn'[d] = None
<1> USE DEF KernelInv
<1>n. None \notin Callers
  BY NoneAssumption
<1> DEFINE s == txn[c].screen
           b == txn[c].saved
<1>1. /\ lock = c /\ lock' = None /\ rt' = rt /\ issued' = s.sequence
      /\ txn' = [txn EXCEPT ![c] = None] /\ txn[c].phase = "persist"
  BY DEF PersistRefresh, Set
<1>2. txn[c] # None /\ rt = WithScreen(b, s) /\ b \in Runtimes
  BY <1>1, <1>n DEF LockOK, CommitOK
<1>3. WithScreen(b, s).sequence = s.sequence /\ HasAuthoritativeScreen(WithScreen(b, s))
  <2>1. /\ WithScreen(b, s).sequence = s.sequence /\ WithScreen(b, s).screen = s
        /\ WithScreen(b, s).status = "ready"
    BY <1>2 DEF WithScreen, Runtimes
  <2>2. s # None
    <3>1. txn[c] \in Refreshes
      BY <1>2 DEF TypeOK, Maybe
    <3>2. s \in Screens
      BY <3>1 DEF Refreshes
    <3> QED
      BY <3>2, NoneAssumption
  <2> QED
    BY <2>1, <2>2 DEF HasAuthoritativeScreen
<1>4. s.sequence = Settled.sequence + 1
  BY <1>2 DEF SequenceOK
<1>5. \A d \in Callers : txn[d] # None => d = c
  BY <1>2 DEF LeaseOK, AdmissionOK
<1> HIDE DEF s, b
<1>6. Settled' = rt
  BY <1>1 DEF Settled, LockFree
<1>7. \A d \in Callers : txn'[d] = None
  BY <1>1, <1>5 DEF TypeOK
<1> QED
  BY <1>1, <1>2, <1>3, <1>4, <1>6, <1>7

\* Sequences of refreshes under way, and of screens handed out, keep in step with what
\* is settled.
LEMMA SequenceStep ==
    ASSUME KernelInv, AdmissionOK, SequenceOK, Next
    PROVE  SequenceOK'
<1>t. Settled.sequence \in Nat
  <2>1. Settled \in Runtimes
    BY CommittingRuntime
  <2> QED
    BY <2>1, BoundAssumption DEF Runtimes
<1>1. CASE HandsOutNothing
  BY <1>1, DraftsAreNext DEF HandsOutNothing, DraftsFollow, SequenceOK
<1>2. ASSUME NEW c \in Callers, PersistRefresh(c) PROVE SequenceOK'
  BY <1>t, <1>2, CommitHandsOut DEF SequenceOK
<1> QED
  BY <1>1, <1>2, OnlyCommitsHandOut

-----------------------------------------------------------------------------
(* The invariants of the daemon *)

\* A new process has no calls, no lane and no slot.
LEMMA FreshHost ==
    ASSUME TypeOK, lease = NoneEach, held = NoneEach,
           pc = Everyone("idle"), kind = Everyone(None), phase = Everyone("fresh"),
           payload = Everyone(None), active = None, lane = None,
           closing = FALSE, stopping = FALSE
    PROVE  HostTypeOK /\ AdmissionOK
<1>1. HostTypeOK
  BY DEF HostTypeOK, Everyone, Stages, Phases, Maybe
<1>2. AdmissionOK
  BY NoneAssumption
     DEF AdmissionOK, InCall, At, Outside, GetStages, NeedsNoAdmission, NoneEach, Everyone
<1> QED
  BY <1>1, <1>2

\* The daemon starts with nobody admitted and nothing handed out.
LEMMA HostInitially == HostInit => HostInv
<1> SUFFICES ASSUME HostInit PROVE HostInv
  OBVIOUS
<1>1. KernelInv
  BY KernelInit DEF HostInit
<1>2. HostTypeOK /\ AdmissionOK
  BY <1>1, FreshHost DEF HostInit, Init, KernelInv
<1>3. SequenceOK
  <2>1. Settled = Loaded(None) /\ issued = 0 /\ \A c \in Callers : txn[c] = None
    BY DEF HostInit, Init, Settled, LockFree, NoneEach
  <2>2. Loaded(None).sequence = 0
    BY DEF Loaded
  <2> QED
    BY <2>1, <2>2 DEF SequenceOK
<1> QED
  BY <1>1, <1>2, <1>3 DEF HostInv

\* Every step of the daemon preserves its invariant: work inside the call, what is between
\* two works, and the end of the process.
LEMMA HostStep == HostInv /\ [HostNext]_vars => HostInv'
<1>1. ASSUME HostInv, HostNext PROVE HostInv'
  <2> USE <1>1 DEF HostInv
  <2>1. Next \/ UNCHANGED kernelVars
    BY DaemonStep
  <2>2. KernelInv' /\ TypeOK'
    BY <2>1, KernelStep DEF KernelInv
  <2>3. SequenceOK'
    <3>1. CASE Next
      BY <3>1, SequenceStep
    <3>2. CASE UNCHANGED kernelVars
      BY <3>2 DEF SequenceOK, Settled, LockFree, kernelVars, runtimeVars, callVars
    <3> QED
      BY <2>1, <3>1, <3>2
  <2>4. HostTypeOK' /\ AdmissionOK'
    <3>1. ASSUME NEW t \in Callers, Connect(t) \/ Device(t) \/ Screen(t) \/ Action(t)
          PROVE  HostTypeOK' /\ AdmissionOK'
      <4>1. Works(t)
        BY <3>1, ConnectWorks, DeviceWorks, ScreenWorks, ActionWorks
      <4> QED
        BY <2>2, <4>1, WorkKeepsAdmission
    <3>2. ASSUME NEW t \in Callers,
                 Admission(t) \/ Boundary(t) \/ Deadline(t) \/ \E k \in Requests : Arrive(t, k)
          PROVE  HostTypeOK' /\ AdmissionOK'
      BY <2>2, <3>2, BoundaryKeepsAdmission
    <3>3. CASE Stop
      <4>1. /\ lease' = NoneEach /\ held' = NoneEach
            /\ pc' = Everyone("idle") /\ kind' = Everyone(None)
            /\ phase' = Everyone("fresh") /\ payload' = Everyone(None)
            /\ active' = None /\ lane' = None /\ closing' = FALSE /\ stopping' = FALSE
        BY <3>3 DEF Stop, Crash, Restart
      <4>2. HostTypeOK'
        BY <2>2, <4>1 DEF HostTypeOK, Everyone, Stages, Phases, Maybe
      <4>3. AdmissionOK'
        BY <4>1, NoneAssumption
           DEF AdmissionOK, InCall, At, Outside, GetStages, NeedsNoAdmission, NoneEach,
               Everyone
      <4> QED
        BY <4>2, <4>3
    <3> QED
      BY <3>1, <3>2, <3>3 DEF HostNext, Step
  <2> QED
    BY <2>2, <2>3, <2>4
<1>2. ASSUME HostInv, UNCHANGED vars PROVE HostInv'
  <2> USE <1>2 DEF HostInv, vars, hostVars, request, admission
  <2>1. KernelInv'
    BY KernelStep
  <2>2. HostTypeOK'
    BY <2>1 DEF HostTypeOK, KernelInv
  <2>3. AdmissionOK'
    BY DEF AdmissionOK, InCall, LeaseCurrent, At, NeedsNoAdmission, kernelVars, runtimeVars,
           callVars
  <2>4. SequenceOK'
    BY DEF SequenceOK, Settled, LockFree, kernelVars, runtimeVars, callVars
  <2> QED
    BY <2>1, <2>2, <2>3, <2>4
<1> QED
  BY <1>1, <1>2

\* The inductive invariant of the daemon, with any number of handler threads.
THEOREM HostInvariance == HostSpec => []HostInv
BY HostInitially, HostStep, PTL DEF HostSpec

\* Every variable of the daemon keeps to its domain.
THEOREM HostTypes == HostSpec => []HostTypeOK
<1>1. HostInv => HostTypeOK
  BY DEF HostInv
<1> QED
  BY <1>1, HostInvariance, PTL

\* Serial admission: one command at a time works on the runtime, under the lease of the
\* lifecycle of now, whatever times out, fails or is busy.
THEOREM SerialAdmission == HostSpec => []OneCommandAtATime
<1>1. HostInv => OneCommandAtATime
  <2> SUFFICES ASSUME HostInv PROVE OneCommandAtATime
    OBVIOUS
  <2>1. \A t \in Callers : InCall(t) \/ held[t] # None => active = t /\ LeaseCurrent(t)
    BY DEF HostInv, AdmissionOK
  <2>2. lane # None => lane = active
    BY DEF HostInv, HostTypeOK, AdmissionOK, Maybe
  <2>3. ASSUME lock # None PROVE lock = active
    <3>1. lock \in Callers /\ InCall(lock)
      BY <2>3 DEF HostInv, KernelInv, TypeOK, LockOK, LeaseOK, Maybe
    <3> QED
      BY <2>1, <3>1
  <2> QED
    BY <2>1, <2>2, <2>3 DEF OneCommandAtATime
<1> QED
  BY <1>1, HostInvariance, PTL

\* Clients see the ledger: no sequence is handed out twice, after crashes and failed
\* writes neither, and what is authoritative is the last screen handed out or nothing.
THEOREM ScreensAreLedger == HostSpec => LedgerSpec
<1> DEFINE current == IF HasAuthoritativeScreen(Settled) THEN Settled.sequence ELSE 0
<1>1. HostInit => Ledger!Init
  <2> SUFFICES ASSUME HostInit PROVE Ledger!Init
    OBVIOUS
  <2>1. Settled = Loaded(None) /\ issued = 0
    BY DEF HostInit, Init, Settled, LockFree
  <2>2. Loaded(None).status = "new"
    BY DEF Loaded
  <2> QED
    BY <2>1, <2>2 DEF Ledger!Init, HasAuthoritativeScreen
<1>2. HostInv /\ [HostNext]_vars => [Ledger!Next]_(Ledger!ledger)
  <2> SUFFICES ASSUME HostInv, [HostNext]_vars PROVE [Ledger!Next]_(Ledger!ledger)
    OBVIOUS
  <2>0. Settled.sequence \in Nat /\ issued \in Nat
    <3>1. Settled \in Runtimes
      BY CommittingRuntime DEF HostInv
    <3>2. Settled.sequence \in Nat
      BY <3>1, BoundAssumption DEF Runtimes
    <3>3. issued \in Nat
      BY BoundAssumption DEF HostInv, KernelInv, TypeOK
    <3> QED
      BY <3>2, <3>3
  <2>1. CASE HandsOutNothing
    BY <2>1 DEF HandsOutNothing, Ledger!Next, Ledger!Lose, Ledger!ledger
  <2>2. ASSUME NEW c \in Callers, PersistRefresh(c) PROVE Ledger!Issue
    <3>1. /\ issued' = Settled.sequence + 1 /\ issued <= Settled.sequence
          /\ Settled' = rt /\ rt.sequence = issued' /\ HasAuthoritativeScreen(rt)
      BY <2>2, CommitHandsOut DEF HostInv, SequenceOK
    <3> QED
      BY <2>0, <3>1 DEF Ledger!Issue
  <2>3. CASE UNCHANGED kernelVars
    BY <2>3 DEF Ledger!ledger, Settled, LockFree, HasAuthoritativeScreen, kernelVars,
                runtimeVars, callVars
  <2>4. Next \/ UNCHANGED kernelVars
    BY DaemonStep DEF vars
  <2> QED
    BY <2>1, <2>2, <2>3, <2>4, OnlyCommitsHandOut DEF HostInv, Ledger!Next
<1> QED
  BY <1>1, <1>2, HostInvariance, PTL DEF HostSpec, LedgerSpec, Ledger!Spec

-----------------------------------------------------------------------------
(* One thread has everything *)

\* Outside of a call a thread has nothing.
Bare(c) ==
    /\ target[c] = None /\ held[c] = None
    /\ client[c] = None /\ fetched[c] = None /\ txn[c] = None

\* The lock of a commit is that of a thread in a call.
LEMMA LockInCall ==
    ASSUME KernelInv, lock # None
    PROVE  lock \in Callers /\ InCall(lock) /\ txn[lock] # None
<1>1. lock \in Callers /\ lease[lock] = rt.revision /\ rt.revision \in Revisions
  BY DEF KernelInv, TypeOK, CommitOK, Maybe, Runtimes
<1> QED
  BY <1>1, NoneAssumption DEF InCall, KernelInv, LockOK, Revisions

\* While a thread has the admission all others are outside of a call.
LEMMA OthersAreBare ==
    ASSUME HostInv, DeviceOK, NEW t \in Callers, active = t, NEW c \in Callers,
           c # t \/ ~InCall(c)
    PROVE  ~InCall(c) /\ Bare(c) /\ lock # c /\ (c # t => pc[c] # "activate")
<1>1. ~InCall(c)
  BY DEF HostInv, AdmissionOK
<1>2. Bare(c)
  BY <1>1 DEF HostInv, KernelInv, AdmissionOK, AttemptOK, LeaseOK, DeviceOK, ServedByRuntime, Bare
<1>3. lock # c
  BY <1>1, LockInCall, NoneAssumption DEF HostInv
<1>4. c # t => pc[c] # "activate"
  BY DEF HostInv, AdmissionOK, NeedsNoAdmission, At, GetStages
<1> QED
  BY <1>1, <1>2, <1>3, <1>4

\* Who has nothing has nothing that could be another device's.
LEMMA BareServes ==
    ASSUME NEW c \in Callers, Bare(c), pc[c] # "activate"
    PROVE  ServedByRuntime(c) /\ AttemptServes(c)
BY DEF Bare, ServedByRuntime, AttemptServes, Attempting, At

\* An operation of the kernel is the caller's own business, or the runtime's.
Own(t) ==
    \A c \in Callers : c # t =>
        /\ target'[c] = target[c] /\ held'[c] = held[c] /\ client'[c] = client[c]
        /\ fetched'[c] = fetched[c] /\ txn'[c] = txn[c]

\* So what a step does to the invariant shows at the thread that makes it.
LEMMA OnlyOwn ==
    ASSUME HostInv, DeviceOK, NEW t \in Callers, active = t, Own(t),
           \A c \in Callers : c # t => pc'[c] = pc[c],
           RuntimeServes', ServedByRuntime(t)', AttemptServes(t)', TransportsAccountedFor'
    PROVE  DeviceOK'
<1>1. ASSUME NEW c \in Callers, c # t
      PROVE  ServedByRuntime(c)' /\ AttemptServes(c)'
  <2>1. Bare(c) /\ pc[c] # "activate"
    BY <1>1, OthersAreBare
  <2>2. Bare(c)' /\ pc'[c] # "activate"
    BY <1>1, <2>1 DEF Own, Bare
  <2> QED
    BY <2>2 DEF Bare, ServedByRuntime, AttemptServes, Attempting, At
<1> QED
  BY <1>1 DEF DeviceOK

\* A runtime with a device is reached over a transport to that device, commit or not.
LEMMA RuntimeInHand ==
    ASSUME HostInv, DeviceOK
    PROVE  /\ rt.connection = None => rt.token = None
           /\ HasDevice(rt) => /\ rt.transport \in open
                               /\ rt.transport.device = rt.connection.device
                               /\ rt.token = rt.connection.device
<1>1. OfOneDevice(Settled) /\ Settled.transport = rt.transport /\ Settled.token = rt.token
      /\ Settled.connection = rt.connection
  BY CommittingRuntime DEF HostInv, DeviceOK, RuntimeServes
<1> QED
  BY <1>1 DEF OfOneDevice, HasDevice, DeviceOK, RuntimeServes

-----------------------------------------------------------------------------
(* What each operation of the kernel does to it *)

\* A thread that has the admission does an operation of the kernel, and what there is
\* of devices and transports still belongs together.
Serves(t) ==
    /\ Own(t)
    /\ RuntimeServes'
    /\ ServedByRuntime(t)'
    /\ AttemptServes(t)'
    /\ TransportsAccountedFor'

\* Nothing but bootstrap_runtime gets a thread to the activation of its transport.
NotActivating(t) == pc'[t] # "activate"

\* The types the proofs of this section use, and what they say of None.
LEMMA HostTyping ==
    ASSUME HostInv
    PROVE  /\ target \in [Callers -> Maybe(Targets)] /\ held \in [Callers -> Maybe(Transports)]
           /\ client \in [Callers -> Maybe(Transports)]
           /\ fetched \in [Callers -> Maybe(Captures)] /\ txn \in [Callers -> Maybe(Refreshes)]
           /\ lease \in [Callers -> Maybe(Revisions)] /\ open \subseteq Transports
           /\ rt \in Runtimes /\ Settled \in Runtimes /\ lock \in Maybe(Callers)
           /\ None \notin Callers /\ None \notin Transports /\ None \notin Targets
           /\ None \notin Captures /\ None \notin Refreshes /\ None \notin Devices
           /\ None \notin Connections /\ None \notin Screens /\ None \notin Attachments
BY CommittingRuntime, NoneAssumption DEF HostInv, KernelInv, TypeOK

\* What a runtime goes back to does not change while its commit leaves it alone.
LEMMA SettledKept ==
    ASSUME rt' = rt, lock' = lock, lock # None => txn'[lock] = txn[lock]
    PROVE  Settled' = Settled
BY DEF Settled, LockFree

\* Choosing a device and looking for a transport change nothing that serves.
LEMMA TargetServes ==
    ASSUME HostInv, DeviceOK, NEW t \in Callers, active = t, NotActivating(t),
           \/ \E d \in Devices : ChooseDevice(t, d)
           \/ StartRebootstrap(t)
           \/ ReuseTransport(t) /\ ~NotConnected
    PROVE  Serves(t)
<1> USE HostTyping DEF Set, runtimeVars
<1>1. /\ UNCHANGED <<rt, open, lock, txn, held, fetched, lease>>
      /\ Ready(t) /\ held[t] = None => held'[t] = None
      /\ Ready(t)
  BY DEF ChooseDevice, StartRebootstrap, ReuseTransport
<1>2. Settled' = Settled
  BY <1>1, SettledKept
<1>3. RuntimeServes' /\ TransportsAccountedFor'
  BY <1>1, <1>2 DEF DeviceOK, RuntimeServes, TransportsAccountedFor, HasAuthoritativeScreen
<1>4. held[t] = None
  BY <1>1 DEF Ready, DeviceOK, AttemptServes
<1>5. ASSUME NEW d \in Devices, ChooseDevice(t, d) PROVE Serves(t)
  <2>1. target' = [target EXCEPT ![t] = [device |-> d, attempt |-> "connect"]] /\ client' = client
    BY <1>5 DEF ChooseDevice
  <2>2. target'[t] = [device |-> d, attempt |-> "connect"] /\ client'[t] = None /\ txn'[t] = None
        /\ fetched'[t] = None /\ held'[t] = None
    BY <1>1, <1>4, <2>1 DEF Ready
  <2> QED
    BY <1>1, <1>3, <2>1, <2>2 DEF Serves, Own, ServedByRuntime, AttemptServes, Attempting, At,
                             NotActivating, HasDevice
<1>6. CASE StartRebootstrap(t)
  <2>1. /\ target' = [target EXCEPT ![t] = [device  |-> rt.connection.device,
                                           attempt |-> "rebootstrap"]]
        /\ client' = client /\ rt.transport = None /\ rt.connection # None
    BY <1>6 DEF StartRebootstrap
  <2>2. /\ target'[t] = [device |-> rt.connection.device, attempt |-> "rebootstrap"]
        /\ client'[t] = None /\ txn'[t] = None /\ fetched'[t] = None /\ held'[t] = None
    BY <1>1, <1>4, <2>1 DEF Ready
  <2> QED
    BY <1>1, <1>3, <2>1, <2>2 DEF Serves, Own, ServedByRuntime, AttemptServes, Attempting,
                                  At, NotActivating, HasDevice
<1>7. CASE ReuseTransport(t) /\ ~NotConnected
  <2>1. client' = [client EXCEPT ![t] = rt.transport] /\ target' = target /\ rt.transport # None
    BY <1>7 DEF ReuseTransport
  <2>2. client'[t] = rt.transport /\ target'[t] = None /\ fetched'[t] = None /\ held'[t] = None
        /\ txn'[t] = None /\ InCall(t)'
    BY <1>1, <1>4, <2>1 DEF Ready, InCall
  <2> QED
    BY <1>1, <1>3, <1>7, <2>1, <2>2 DEF Serves, Own, ServedByRuntime, AttemptServes, Attempting, At,
                             NotActivating, HasDevice, NotConnected
<1> QED
  BY <1>5, <1>6, <1>7
\* What the device answers comes from the device of the runtime, and so does the screen
\* that is made of it.
LEMMA AnswerServes ==
    ASSUME HostInv, DeviceOK, NEW t \in Callers, active = t, NotActivating(t),
           \/ \E s \in Snapshots : Fetch(t, s)
           \/ CallDevice(t)
           \/ CaptureBasis(t)
           \/ DiscardRefresh(t)
    PROVE  Serves(t)
<1> USE HostTyping DEF Set, runtimeVars
<1>1. UNCHANGED <<rt, open, lock, target, held, lease>>
  BY DEF Fetch, CallDevice, CaptureBasis, DiscardRefresh
<1>2. lock # None => txn'[lock] = txn[lock]
  <2>1. \/ txn' = txn \/ lock = None
        \/ txn' = [txn EXCEPT ![t] = None] /\ lock # t
    BY DEF Fetch, CallDevice, CaptureBasis, DiscardRefresh, LockFree, HostInv, KernelInv, LockOK
  <2> QED
    BY <2>1 DEF Maybe
<1>3. RuntimeServes' /\ TransportsAccountedFor'
  BY <1>1, <1>2, SettledKept
     DEF DeviceOK, RuntimeServes, TransportsAccountedFor, HasAuthoritativeScreen
<1>4. AttemptServes(t)'
  BY <1>1 DEF DeviceOK, AttemptServes, Attempting, At, NotActivating, HasDevice
<1>5. ServedByRuntime(t)
  BY DEF DeviceOK
<1>6. ASSUME NEW s \in Snapshots, Fetch(t, s) PROVE Serves(t)
  <2>1. /\ fetched' = [fetched EXCEPT ![t] = [device |-> client[t].device, snapshot |-> s]]
        /\ client' = [client EXCEPT ![t] = None] /\ client[t] # None /\ txn' = txn
    BY <1>6 DEF Fetch
  <2>2. HasDevice(rt) /\ InCall(t) /\ target[t] = None /\ client[t] = rt.transport
    BY <1>5, <2>1 DEF ServedByRuntime
  <2>3. rt.transport.device = rt.connection.device
    BY <2>2, RuntimeInHand
  <2> QED
    BY <1>1, <1>3, <1>4, <1>5, <2>1, <2>2, <2>3
       DEF Serves, Own, ServedByRuntime, HasDevice, InCall
<1>7. CASE CallDevice(t)
  BY <1>1, <1>3, <1>4, <1>5, <1>7
     DEF CallDevice, Serves, Own, ServedByRuntime, HasDevice, InCall
<1>8. CASE CaptureBasis(t)
  BY <1>1, <1>3, <1>4, <1>5, <1>8
     DEF CaptureBasis, Serves, Own, ServedByRuntime, HasDevice, InCall
<1>9. CASE DiscardRefresh(t)
  BY <1>1, <1>3, <1>4, <1>5, <1>9
     DEF DiscardRefresh, Serves, Own, ServedByRuntime, HasDevice, InCall
<1> QED
  BY <1>6, <1>7, <1>8, <1>9
\* With a screen of its own device a runtime is still of one device.
LEMMA ScreenOfDevice ==
    ASSUME NEW r \in Runtimes, OfOneDevice(r), HasDevice(r),
           NEW s \in Screens, s.device = r.connection.device,
           NEW q, q = WithScreen(r, s)
    PROVE  OfOneDevice(q) /\ HasDevice(q) /\ HasAuthoritativeScreen(q)
<1>1. /\ q.connection = r.connection /\ q.token = r.token /\ q.transport = r.transport
      /\ q.capabilities = r.capabilities /\ q.screen = s /\ q.attached = None
      /\ q.status = "ready" /\ q.sequence = s.sequence
  BY DEF WithScreen, Runtimes
<1>2. s # None
  BY NoneAssumption
<1> QED
  BY <1>1, <1>2 DEF OfOneDevice, HasDevice, HasAuthoritativeScreen

\* A refresh commit, and its way back, leave the device of the runtime alone.
LEMMA CommitServes ==
    ASSUME HostInv, DeviceOK, NEW t \in Callers, active = t, NotActivating(t),
           \/ StartCommit(t)
           \/ PublishJson(t)
           \/ PublishXml(t)
           \/ PersistRefresh(t)
           \/ RollbackRefresh(t)
    PROVE  Serves(t)
<1> USE HostTyping DEF Set
<1>1. /\ UNCHANGED <<open, target, held, client, fetched, lease>>
      /\ txn[t] # None
  BY DEF StartCommit, PublishJson, PublishXml, PersistRefresh, RollbackRefresh, runtimeVars,
         HostInv, KernelInv, LockOK
<1>2. /\ InCall(t) /\ target[t] = None /\ HasDevice(rt)
      /\ txn[t].screen.device = rt.connection.device
  BY <1>1 DEF DeviceOK, ServedByRuntime
<1>3. txn[t] \in Refreshes /\ txn[t].screen \in Screens
  BY <1>1 DEF Refreshes, Maybe
<1>s. /\ OfOneDevice(Settled) /\ Settled.connection = rt.connection
      /\ Settled.token = rt.token /\ Settled.transport = rt.transport
      /\ Settled.status = "ready" => HasDevice(Settled) /\ HasAuthoritativeScreen(Settled)
  BY CommittingRuntime DEF HostInv, DeviceOK, RuntimeServes
<1>4. /\ \/ Settled' = Settled
         \/ Settled' = rt /\ rt = WithScreen(Settled, txn[t].screen)
      /\ rt' \in {rt, Settled, WithScreen(rt, txn[t].screen)}
  <2>1. CASE StartCommit(t)
    <3>1. txn' = [txn EXCEPT ![t] = [txn[t] EXCEPT !.phase = "json", !.saved = rt]]
      BY <2>1, <1>3 DEF StartCommit
    <3>2. txn'[t].saved = rt
      BY <1>3, <3>1 DEF Refreshes
    <3> QED
      BY <2>1, <3>2 DEF StartCommit, Settled, LockFree, runtimeVars
  <2>2. CASE PublishJson(t) \/ PublishXml(t)
    <3>1. /\ Replaced("xml") = Replaced("json") \cup {"json"} /\ "json" \notin Replaced("json")
          /\ Replaced("persist") = Replaced("xml") \cup {"xml"} /\ "xml" \notin Replaced("xml")
      BY DEF Replaced, ArtifactKinds
    <3>2. Settled' = Settled
      BY <2>2, <3>1, SettledPublish DEF PublishJson, PublishXml, ArtifactKinds, HostInv
    <3> QED
      BY <2>2, <3>2 DEF PublishJson, PublishXml
  <2>3. CASE PersistRefresh(t)
    <3>1. /\ lock = t /\ lock' = None /\ rt' = rt /\ txn[t].phase = "persist"
      BY <2>3 DEF PersistRefresh
    <3>2. rt = WithScreen(txn[t].saved, txn[t].screen)
      BY <3>1 DEF HostInv, KernelInv, CommitOK
    <3> QED
      BY <3>1, <3>2 DEF Settled, LockFree
  <2>4. CASE RollbackRefresh(t)
    BY <2>4 DEF RollbackRefresh, Settled, LockFree
  <2> QED
    BY <2>1, <2>2, <2>3, <2>4
<1>5. /\ rt'.connection = rt.connection /\ rt'.token = rt.token
      /\ rt'.transport = rt.transport
  BY <1>3, <1>4, <1>s DEF WithScreen, Runtimes
<1>6. /\ Own(t)
      /\ txn'[t] # None => txn'[t].screen = txn[t].screen
  <2>1. CASE PersistRefresh(t) \/ RollbackRefresh(t)
    BY <2>1 DEF PersistRefresh, RollbackRefresh, Own
  <2>2. CASE StartCommit(t)
    <3>1. txn' = [txn EXCEPT ![t] = [txn[t] EXCEPT !.phase = "json", !.saved = rt]]
      BY <2>2, <1>3 DEF StartCommit
    <3> QED
      BY <1>1, <1>3, <3>1 DEF Refreshes, Own
  <2>3. ASSUME NEW k \in ArtifactKinds, NEW n \in {"xml", "persist"}, Publish(t, k, n)
        PROVE  Own(t) /\ txn'[t].screen = txn[t].screen
    <3> DEFINE b == [txn[t].backup EXCEPT ![k] = files[k][txn[t].screen.sequence]]
    <3>1. txn' = [txn EXCEPT ![t] = [txn[t] EXCEPT !.phase = n, !.backup = b]]
      BY <2>3, <1>3 DEF Publish, Refreshes
    <3> HIDE DEF b
    <3> QED
      BY <1>1, <1>3, <3>1 DEF Refreshes, Own
  <2>4. CASE PublishJson(t) \/ PublishXml(t)
    BY <2>3, <2>4 DEF PublishJson, PublishXml, ArtifactKinds
  <2> QED
    BY <2>1, <2>2, <2>4
<1>7. RuntimeServes'
  <2>1. HasDevice(rt) /\ HasDevice(rt') /\ rt'.transport \in open' /\ HasDevice(Settled)
    BY <1>1, <1>2, <1>5, <1>s DEF HasDevice, DeviceOK, RuntimeServes
  <2>2. CASE Settled' = Settled
    BY <1>s, <2>1, <2>2 DEF RuntimeServes, HasDevice, HasAuthoritativeScreen
  <2>3. CASE Settled' = rt /\ rt = WithScreen(Settled, txn[t].screen)
    BY <1>2, <1>3, <1>s, <2>1, <2>3, ScreenOfDevice
       DEF RuntimeServes, HasDevice, HasAuthoritativeScreen
  <2> QED
    BY <1>4, <2>2, <2>3
<1>8. ServedByRuntime(t)'
  BY <1>1, <1>2, <1>5, <1>6 DEF DeviceOK, ServedByRuntime, HasDevice, InCall
<1>9. AttemptServes(t)' /\ TransportsAccountedFor'
  BY <1>1, <1>2, <1>5
     DEF DeviceOK, AttemptServes, Attempting, At, NotActivating, TransportsAccountedFor
<1> QED
  BY <1>6, <1>7, <1>8, <1>9 DEF Serves

-----------------------------------------------------------------------------
(* Transports come and go *)

\* What is left of a runtime that forgets its device, whatever becomes of its status.
LEMMA ClearedFields ==
    ASSUME NEW r \in Runtimes
    PROVE  LET q == Cleared(r) IN
           /\ q \in Runtimes
           /\ q.connection = None /\ q.token = None /\ q.capabilities = None
           /\ q.transport = None /\ q.screen = None /\ q.attached = None
BY RuntimeParts DEF Cleared, WithoutDevice, WithoutScreen, Runtimes

\* A runtime without a connection serves nobody, and is not asked for more.
LEMMA WithoutConnection ==
    ASSUME lock' = None, rt'.connection = None, rt'.token = None, rt'.capabilities = None,
           rt'.screen = None, rt'.attached = None, rt'.status # "ready"
    PROVE  RuntimeServes' /\ ~HasDevice(rt')
BY DEF RuntimeServes, Settled, LockFree, OfOneDevice, HasDevice

\* A new transport, over a port that was free, is not the runtime's.
LEMMA EstablishServes ==
    ASSUME HostInv, DeviceOK, NEW t \in Callers, active = t, NotActivating(t),
           NEW p \in Ports, EstablishTransport(t, p)
    PROVE  Serves(t)
<1> USE HostTyping DEF Set
<1> DEFINE h == [port |-> p, device |-> target[t].device]
<1>1. /\ UNCHANGED <<rt, lock, target, client, fetched, txn, lease>>
      /\ held' = [held EXCEPT ![t] = h] /\ open' = open \cup {h}
      /\ target[t] # None /\ held[t] = None /\ target[t].attempt # "begun"
      /\ p \notin {x.port : x \in open}
  BY DEF EstablishTransport, FreePorts
<1>2. h.device = target[t].device /\ h \notin open
  BY <1>1
<1> HIDE DEF h
<1>3. held'[t] = h /\ Own(t)
  BY <1>1 DEF Own
<1>4. RuntimeServes'
  <2>1. Settled' = Settled
    BY <1>1, SettledKept
  <2> QED
    BY <1>1, <2>1 DEF DeviceOK, RuntimeServes, HasDevice, HasAuthoritativeScreen
<1>5. ServedByRuntime(t)'
  BY <1>1 DEF DeviceOK, ServedByRuntime, HasDevice, InCall
<1>6. AttemptServes(t)'
  BY <1>1, <1>2, <1>3
     DEF DeviceOK, RuntimeServes, AttemptServes, Attempting, At, NotActivating, HasDevice
<1>7. TransportsAccountedFor'
  BY <1>1, <1>3 DEF DeviceOK, TransportsAccountedFor, Own
<1> QED
  BY <1>3, <1>4, <1>5, <1>6, <1>7 DEF Serves

\* A handle that is closed was not the runtime's, or the runtime has no device.
LEMMA DiscardServes ==
    ASSUME HostInv, DeviceOK, NEW t \in Callers, active = t, NotActivating(t),
           DiscardHandle(t)
    PROVE  Serves(t)
<1> USE HostTyping DEF Set
<1>1. /\ UNCHANGED <<rt, lock, client, fetched, txn, lease>>
      /\ held' = [held EXCEPT ![t] = None] /\ open' = open \ {held[t]}
      /\ target' = [target EXCEPT ![t] = None] /\ held[t] # None
      /\ Own(t)
  BY DEF DiscardHandle, CloseTransport, Own
<1>2. target[t] # None /\ (Attempting(t, "connect") \/ Attempting(t, "rebootstrap"))
  <2>1. InCall(t) /\ LeaseCurrent(t) /\ target[t] # None
    BY <1>1 DEF HostInv, AdmissionOK, DeviceOK, AttemptServes
  <2>2. target[t].attempt \in {"connect", "rebootstrap"}
    BY <2>1 DEF DiscardHandle, Targets, Maybe
  <2> QED
    BY <2>1, <2>2 DEF Attempting
<1>3. HasDevice(rt) => held[t] # rt.transport
  BY <1>1, <1>2 DEF DeviceOK, AttemptServes, HasDevice
<1>4. RuntimeServes'
  <2>1. Settled' = Settled
    BY <1>1, SettledKept
  <2> QED
    BY <1>1, <1>3, <2>1 DEF DeviceOK, RuntimeServes, HasDevice, HasAuthoritativeScreen
<1>5. ServedByRuntime(t)'
  BY <1>1, <1>2 DEF DeviceOK, ServedByRuntime, HasDevice, InCall
<1>6. AttemptServes(t)'
  BY <1>1 DEF AttemptServes, Attempting, At, NotActivating
<1>7. TransportsAccountedFor'
  BY <1>1 DEF DeviceOK, TransportsAccountedFor, Own
<1> QED
  BY <1>1, <1>4, <1>5, <1>6, <1>7 DEF Serves
\* begin_connect starts over with the new transport alone.
LEMMA BeginServes ==
    ASSUME HostInv, DeviceOK, NEW t \in Callers, active = t, NotActivating(t),
           NEW ok \in BOOLEAN, BeginConnect(t, ok)
    PROVE  Serves(t)
<1> USE HostTyping DEF Set
<1>1. /\ UNCHANGED <<lock, held, client, fetched, txn, lease>>
      /\ rt' = [Cleared(rt) EXCEPT !.transport = held[t], !.status = "bootstrapping"]
      /\ open' = open \ {rt.transport} /\ lock = None
      /\ target' = IF ok THEN [target EXCEPT ![t].attempt = "begun"] ELSE target
      /\ held[t] # None /\ target[t] # None /\ target[t].attempt = "connect"
  BY DEF BeginConnect, Connecting, CloseTransport, LockFree, Attempting
<1>2. /\ rt'.connection = None /\ rt'.token = None /\ rt'.capabilities = None
      /\ rt'.transport = held[t] /\ rt'.screen = None /\ rt'.attached = None
      /\ rt'.status = "bootstrapping"
  BY <1>1, ClearedFields DEF Runtimes
<1>3. RuntimeServes' /\ ~HasDevice(rt')
  BY <1>1, <1>2, WithoutConnection
<1>4. /\ target'[t] # None /\ target'[t].attempt \in {"connect", "begun"} /\ Own(t)
      /\ target'[t].device = target[t].device
  <2>1. target[t] \in Targets
    BY <1>1 DEF Maybe
  <2>2. [target[t] EXCEPT !.attempt = "begun"] \in Targets
    BY <2>1 DEF Targets
  <2>3. CASE target' = [target EXCEPT ![t] = [target[t] EXCEPT !.attempt = "begun"]]
    BY <1>1, <2>1, <2>2, <2>3 DEF Targets, Own
  <2>4. CASE target' = target
    BY <1>1, <2>4 DEF Own
  <2> QED
    BY <1>1, <2>3, <2>4
<1>5. ServedByRuntime(t)'
  BY <1>1 DEF DeviceOK, ServedByRuntime
<1>6. AttemptServes(t)'
  BY <1>1, <1>2, <1>3, <1>4 DEF DeviceOK, AttemptServes, Attempting, At, NotActivating
<1>7. TransportsAccountedFor'
  BY <1>1 DEF DeviceOK, TransportsAccountedFor
<1> QED
  BY <1>3, <1>4, <1>5, <1>6, <1>7 DEF Serves

\* activate_connect gives the runtime the device of the transport it began with.
LEMMA ActivateServes ==
    ASSUME HostInv, DeviceOK, NEW t \in Callers, active = t, NotActivating(t),
           At(t, {"activate"}), NEW ok \in BOOLEAN, ActivateConnect(t, ok)
    PROVE  Serves(t)
<1> USE HostTyping DEF Set
<1>1. /\ UNCHANGED <<lock, open, client, fetched, txn, lease>>
      /\ rt' = Activated(t) /\ lock = None /\ Own(t)
      /\ target' = [target EXCEPT ![t] = None] /\ held' = [held EXCEPT ![t] = None]
      /\ target[t] # None
  BY DEF ActivateConnect, LockFree, Attempting, Own
<1>2. /\ rt.connection = None /\ rt.transport = held[t] /\ held[t] \in open
      /\ rt.screen = None /\ rt.attached = None
  <2>1. /\ rt.connection = None /\ rt.transport = held[t] /\ held[t] \in open
    BY DEF ActivateConnect, DeviceOK, AttemptServes
  <2> QED
    BY <1>1, <2>1 DEF DeviceOK, RuntimeServes, Settled, LockFree, OfOneDevice
<1>3. /\ rt'.connection = [device |-> held[t].device, lease |-> lease[t]]
      /\ rt'.token = held[t].device /\ rt'.capabilities = held[t].device
      /\ rt'.transport = held[t] /\ rt'.screen = None /\ rt'.attached = None
      /\ rt'.status = "connected"
  BY <1>1, <1>2 DEF Activated, Runtimes
<1>4. rt'.connection # None
  <2>1. held[t].device \in Devices /\ lease[t] \in Revisions
    BY <1>2 DEF Transports, ActivateConnect, LeaseCurrent, Maybe
  <2>2. rt'.connection \in Connections
    BY <1>3, <2>1 DEF Connections
  <2> QED
    BY <2>2
<1>5. RuntimeServes'
  BY <1>1, <1>2, <1>3, <1>4 DEF RuntimeServes, Settled, LockFree, OfOneDevice, HasDevice
<1>6. ServedByRuntime(t)' /\ AttemptServes(t)'
  BY <1>1 DEF DeviceOK, ServedByRuntime, AttemptServes, Attempting, At, NotActivating
<1>7. TransportsAccountedFor'
  BY <1>1, <1>2, <1>3 DEF DeviceOK, TransportsAccountedFor, Own
<1> QED
  BY <1>1, <1>5, <1>6, <1>7 DEF Serves

\* Who forgets the device of the runtime closes its transport, and holds none itself.
LEMMA BreakServes ==
    ASSUME HostInv, DeviceOK, NEW t \in Callers, active = t, NotActivating(t),
           NEW ok \in BOOLEAN, FailConnect(t, ok) \/ InvalidateCredentials(t, ok)
    PROVE  Serves(t)
<1> USE HostTyping DEF Set
<1>1. /\ rt' = [Cleared(rt) EXCEPT !.status = "broken"] /\ lock = None /\ lock' = None
      /\ open' = open \ {IF rt'.transport = rt.transport THEN None ELSE rt.transport}
  BY DEF FailConnect, InvalidateCredentials, Break, Become, CloseTransport, LockFree
<1>2. /\ rt'.connection = None /\ rt'.token = None /\ rt'.capabilities = None
      /\ rt'.transport = None /\ rt'.screen = None /\ rt'.attached = None
      /\ rt'.status = "broken"
  BY <1>1, ClearedFields DEF Runtimes
<1>3. RuntimeServes' /\ ~HasDevice(rt')
  BY <1>1, <1>2, WithoutConnection
<1>4. held[t] = None \/ held[t] = rt.transport
  BY DEF FailConnect, InvalidateCredentials, Ready, DeviceOK, AttemptServes
<1>5. /\ Own(t) /\ target'[t] = None /\ held'[t] = None /\ client'[t] = None
      /\ fetched'[t] = None /\ txn'[t] = None
  <2>1. CASE FailConnect(t, ok)
    BY <2>1 DEF FailConnect, Own
  <2>2. CASE InvalidateCredentials(t, ok)
    BY <2>2 DEF InvalidateCredentials, Ready, Own, callVars, DeviceOK, AttemptServes
  <2> QED
    BY <2>1, <2>2
<1>6. ServedByRuntime(t)' /\ AttemptServes(t)'
  BY <1>5 DEF ServedByRuntime, AttemptServes, Attempting, At, NotActivating
<1>7. TransportsAccountedFor'
  BY <1>1, <1>2, <1>4, <1>5 DEF DeviceOK, TransportsAccountedFor, Own
<1> QED
  BY <1>3, <1>5, <1>6, <1>7 DEF Serves
\* A transport that is rebuilt is one to the device of the connection.
LEMMA RebootstrapServes ==
    ASSUME HostInv, DeviceOK, NEW t \in Callers, active = t, NotActivating(t),
           NEW ok \in BOOLEAN, CommitRebootstrap(t, ok)
    PROVE  Serves(t)
<1> USE HostTyping DEF Set
<1>1. /\ UNCHANGED <<lock, open, fetched, txn, lease>>
      /\ rt' = Rebootstrapped(t) /\ lock = None
      /\ client' = [client EXCEPT ![t] = IF ok THEN held[t] ELSE None]
      /\ target' = [target EXCEPT ![t] = None] /\ held' = [held EXCEPT ![t] = None]
      /\ target[t] # None /\ held[t] # None /\ rt.transport = None /\ Own(t)
      /\ InCall(t)
  BY DEF CommitRebootstrap, LockFree, Attempting, Own, LeaseCurrent, InCall
<1>2. /\ rt.connection # None /\ held[t].device = rt.connection.device /\ held[t] \in open
      /\ fetched[t] = None /\ txn[t] = None
  BY <1>1 DEF CommitRebootstrap, DeviceOK, AttemptServes, ServedByRuntime
<1>3. OfOneDevice(rt) /\ rt.status # "ready"
  BY <1>1 DEF DeviceOK, RuntimeServes, Settled, LockFree, HasDevice
<1>4. /\ rt'.connection = [device |-> held[t].device, lease |-> lease[t]]
      /\ rt'.token = rt.token /\ rt'.capabilities = held[t].device
      /\ rt'.transport = held[t] /\ rt'.screen = rt.screen /\ rt'.attached = rt.attached
      /\ rt'.status = rt.status
  BY <1>1 DEF Rebootstrapped, Runtimes
<1>5. rt'.connection # None /\ rt.token = held[t].device /\ rt.token # None
  <2>1. held[t].device \in Devices /\ lease[t] \in Revisions
    BY <1>1, <1>2 DEF Transports, InCall, Maybe
  <2>2. rt'.connection \in Connections
    BY <1>4, <2>1 DEF Connections
  <2> QED
    BY <1>2, <1>3, <2>1, <2>2 DEF OfOneDevice
<1>6. RuntimeServes' /\ HasDevice(rt')
  BY <1>1, <1>2, <1>3, <1>4, <1>5 DEF RuntimeServes, Settled, LockFree, OfOneDevice, HasDevice
<1>7. ServedByRuntime(t)' /\ AttemptServes(t)'
  BY <1>1, <1>2, <1>4, <1>6
     DEF ServedByRuntime, AttemptServes, Attempting, At, NotActivating, InCall
<1>8. TransportsAccountedFor'
  BY <1>1, <1>4 DEF DeviceOK, TransportsAccountedFor, Own
<1> QED
  BY <1>1, <1>6, <1>7, <1>8 DEF Serves

\* Under serial admission no transport appears while one is rebuilt.
LEMMA NobodyLoses ==
    ASSUME DeviceOK, NEW t \in Callers, LoseRebootstrap(t)
    PROVE  FALSE
BY DEF LoseRebootstrap, DeviceOK, AttemptServes

\* A screenshot is of the device of the runtime.
LEMMA AttachServes ==
    ASSUME HostInv, DeviceOK, NEW t \in Callers, active = t, NotActivating(t),
           AttachScreenshot(t)
    PROVE  Serves(t)
<1> USE HostTyping DEF Set
<1> DEFINE a == [device |-> fetched[t].device, lease |-> lease[t]]
<1>1. /\ UNCHANGED <<lock, open, target, held, client, txn, lease>> /\ lock = None
      /\ rt' = [rt EXCEPT !.attached = a]
      /\ fetched' = [fetched EXCEPT ![t] = None] /\ fetched[t] # None /\ Own(t)
  BY DEF AttachScreenshot, LockFree, Own
<1>2. a.device = rt.connection.device /\ HasDevice(rt)
  BY <1>1 DEF DeviceOK, ServedByRuntime
<1> HIDE DEF a
<1>3. /\ rt'.connection = rt.connection /\ rt'.token = rt.token
      /\ rt'.capabilities = rt.capabilities /\ rt'.transport = rt.transport
      /\ rt'.screen = rt.screen /\ rt'.attached = a /\ rt'.status = rt.status
      /\ rt'.sequence = rt.sequence
  BY <1>1 DEF Runtimes
<1>4. RuntimeServes'
  BY <1>1, <1>2, <1>3 DEF DeviceOK, RuntimeServes, Settled, LockFree, OfOneDevice, HasDevice,
                          HasAuthoritativeScreen
<1>5. ServedByRuntime(t)' /\ AttemptServes(t)'
  BY <1>1, <1>3 DEF DeviceOK, ServedByRuntime, AttemptServes, Attempting, At, NotActivating,
                    InCall, HasDevice
<1>6. TransportsAccountedFor'
  BY <1>1, <1>3 DEF DeviceOK, TransportsAccountedFor
<1> QED
  BY <1>1, <1>4, <1>5, <1>6 DEF Serves

\* Dropping the screen takes ready away, and the transport along or not.
LEMMA DropServes ==
    ASSUME HostInv, DeviceOK, NEW t \in Callers, active = t, NotActivating(t),
           NEW discard \in BOOLEAN, NEW ok \in BOOLEAN, DropScreenAuthority(t, discard, ok)
    PROVE  Serves(t)
<1> USE HostTyping DEF Set
<1> DEFINE q == WithoutAuthority(rt, discard)
<1>1. /\ rt' = q /\ lock = None /\ lock' = None /\ lease' = lease
      /\ open' = open \ {IF rt'.transport = rt.transport THEN None ELSE rt.transport}
      /\ Own(t) /\ Ready(t) /\ UNCHANGED <<target, held, client, fetched, txn>>
  BY DEF DropScreenAuthority, Become, CloseTransport, LockFree, callVars, Own
<1>2. /\ q.screen = None /\ q.attached = None /\ q.status # "ready"
      /\ \/ /\ q.connection = rt.connection /\ q.token = rt.token
            /\ q.capabilities \in {None, rt.capabilities}
            /\ q.transport \in {None, rt.transport}
         \/ /\ q.connection = None /\ q.token = None /\ q.capabilities = None
            /\ q.transport = None
  BY DEF WithoutAuthority, Cleared, WithoutDevice, WithoutScreen, Runtimes
<1> HIDE DEF q
<1>3. OfOneDevice(q)
  BY <1>1, <1>2 DEF DeviceOK, RuntimeServes, Settled, LockFree, OfOneDevice
<1>4. RuntimeServes'
  BY <1>1, <1>2, <1>3 DEF DeviceOK, RuntimeServes, Settled, LockFree, HasDevice
<1>5. ServedByRuntime(t)' /\ AttemptServes(t)'
  BY <1>1 DEF DeviceOK, ServedByRuntime, AttemptServes, Attempting, At, NotActivating, Ready
<1>6. TransportsAccountedFor'
  BY <1>1, <1>2 DEF DeviceOK, TransportsAccountedFor
<1> QED
  BY <1>1, <1>4, <1>5, <1>6 DEF Serves

\* Entering and leaving a call: nothing in hand before, nothing after.
LEMMA CallServes ==
    ASSUME HostInv, DeviceOK, NEW t \in Callers, active = t, NotActivating(t),
           CaptureLease(t) \/ EndCall(t)
    PROVE  Serves(t)
<1> USE HostTyping DEF Set, runtimeVars
<1>1. /\ UNCHANGED <<rt, lock, open, held>> /\ Own(t)
      /\ lock # None => txn'[lock] = txn[lock]
  BY DEF CaptureLease, EndCall, Own, Maybe
<1>2. Bare(t)'
  <2>1. CASE CaptureLease(t)
    BY <2>1, OthersAreBare DEF CaptureLease, Bare
  <2>2. CASE EndCall(t)
    BY <2>2 DEF EndCall, Bare
  <2> QED
    BY <2>1, <2>2
<1>3. RuntimeServes' /\ TransportsAccountedFor'
  BY <1>1, SettledKept
     DEF DeviceOK, RuntimeServes, TransportsAccountedFor, HasAuthoritativeScreen
<1>4. ServedByRuntime(t)' /\ AttemptServes(t)'
  BY <1>2 DEF Bare, ServedByRuntime, AttemptServes, Attempting, At, NotActivating
<1> QED
  BY <1>1, <1>3, <1>4 DEF Serves

-----------------------------------------------------------------------------
(* Steps of the daemon *)

\* Who works on the runtime has the admission.
LEMMA WorkersAreAdmitted ==
    ASSUME HostInv, NEW t \in Callers, At(t, WorkStages \cup {"lease", "close"}) \/ InCall(t)
    PROVE  active = t
BY DEF HostInv, AdmissionOK, At, NeedsNoAdmission, GetStages, WorkStages, DeviceStages

\* What the kernel does not see leaves devices and transports where they are.
LEMMA HiddenStep ==
    ASSUME DeviceOK, UNCHANGED kernelVars,
           \A c \in Callers : pc'[c] = "activate" => pc[c] = "activate" \/ held[c] \in open
    PROVE  DeviceOK'
<1> USE DEF kernelVars, runtimeVars, callVars
<1>1. Settled' = Settled
  BY DEF Settled, LockFree
<1>2. RuntimeServes' /\ TransportsAccountedFor'
  BY <1>1 DEF DeviceOK, RuntimeServes, TransportsAccountedFor, HasDevice,
              HasAuthoritativeScreen
<1>3. ASSUME NEW c \in Callers PROVE ServedByRuntime(c)' /\ AttemptServes(c)'
  BY DEF DeviceOK, ServedByRuntime, AttemptServes, Attempting, At, InCall, HasDevice
<1> QED
  BY <1>2, <1>3 DEF DeviceOK

\* What a thread with the admission does by an operation of the kernel.
LEMMA ServingStep ==
    ASSUME HostInv, DeviceOK, NEW t \in Callers, active = t, Serves(t),
           \A c \in Callers : c # t => pc'[c] = pc[c]
    PROVE  DeviceOK'
BY OnlyOwn DEF Serves

\* Connecting keeps devices and transports together.
LEMMA ConnectKeepsDevice ==
    ASSUME HostInv, DeviceOK, NEW t \in Callers, Connect(t)
    PROVE  DeviceOK'
<1>a. /\ active = t /\ pc \in [Callers -> Stages]
      /\ \A c \in Callers : c # t => pc'[c] = pc[c]
  BY ConnectWorks, WorkersAreAdmitted DEF Works, At, HostInv, HostTypeOK
<1> USE DEF NotActivating, At, Go, Set, hostVars, DeviceStages
<1>1. ASSUME NEW d \in Devices, Choose(t, d) PROVE DeviceOK'
  <2>1. ChooseDevice(t, d) /\ NotActivating(t)
    BY <1>1 DEF Choose
  <2> QED
    BY <1>a, <2>1, TargetServes, ServingStep
<1>2. ASSUME NEW p \in Ports, Establish(t, p) PROVE DeviceOK'
  <2>1. EstablishTransport(t, p) /\ NotActivating(t)
    BY <1>2 DEF Establish
  <2> QED
    BY <1>a, <2>1, EstablishServes, ServingStep
<1>3. CASE FailEstablish(t)
  BY <1>a, <1>3, HiddenStep DEF FailEstablish
<1>4. ASSUME NEW ok \in BOOLEAN, StartConnect(t, ok) PROVE DeviceOK'
  <2>1. BeginConnect(t, ok) /\ NotActivating(t)
    BY <1>a, <1>4 DEF StartConnect
  <2> QED
    BY <1>a, <2>1, BeginServes, ServingStep
<1>5. CASE DiscardConnect(t)
  <2>1. DiscardHandle(t) /\ NotActivating(t)
    BY <1>a, <1>5 DEF DiscardConnect
  <2> QED
    BY <1>a, <2>1, DiscardServes, ServingStep
<1>6. ASSUME NEW ok \in BOOLEAN, Bootstrap(t, ok) PROVE DeviceOK'
  <2>1. \A c \in Callers : pc'[c] = "activate" => pc[c] = "activate" \/ held[c] \in open
    BY <1>a, <1>6 DEF Bootstrap
  <2> QED
    BY <1>6, <2>1, HiddenStep DEF Bootstrap
<1>7. ASSUME NEW ok \in BOOLEAN, FinishConnect(t, ok) PROVE DeviceOK'
  <2>1. ActivateConnect(t, ok) /\ NotActivating(t) /\ At(t, {"activate"})
    BY <1>a, <1>7 DEF FinishConnect
  <2> QED
    BY <1>a, <2>1, ActivateServes, ServingStep
<1>8. ASSUME NEW ok \in BOOLEAN, Fail(t, ok) PROVE DeviceOK'
  <2>1. FailConnect(t, ok) /\ NotActivating(t)
    BY <1>a, <1>8 DEF Fail
  <2> QED
    BY <1>a, <2>1, BreakServes, ServingStep
<1> QED
  BY <1>1, <1>2, <1>3, <1>4, <1>5, <1>6, <1>7, <1>8 DEF Connect
\* Talking to the device does.
LEMMA DeviceKeepsDevice ==
    ASSUME HostInv, DeviceOK, NEW t \in Callers, Device(t)
    PROVE  DeviceOK'
<1>a. /\ active = t /\ pc \in [Callers -> Stages]
      /\ \A c \in Callers : c # t => pc'[c] = pc[c]
  BY DeviceWorks, WorkersAreAdmitted DEF Works, At, HostInv, HostTypeOK
<1>e. /\ AfterException(t) \in {"fail", "return"}
      /\ AfterError(t) \subseteq {"lost", "unauthorized", "return", "fail"}
      /\ NextIteration(t) \in {"return", "wait"}
  BY DEF AfterException, AfterError, NextIteration
<1>n. NotActivating(t)
  <2>1. pc[t] \in DeviceStages
    BY DEF Device, Access, Rebuild, AbandonRebuild, GiveUp, Answer, FailCall, Poll, ListApps,
           Attach, RejectScreenshot, At, RefreshStages, DeviceStages
  <2>2. \/ pc' = pc
        \/ \E s \in {"fail", "return", "lost", "unauthorized", "rescan", "wait"} :
              pc' = [pc EXCEPT ![t] = s]
    BY <1>e DEF Device, Access, Rebuild, AbandonRebuild, GiveUp, Answer, FailCall, Poll,
                ListApps, Attach, RejectScreenshot, Go, Set, hostVars
  <2> QED
    BY <1>a, <2>1, <2>2 DEF NotActivating, DeviceStages
<1>h. UNCHANGED kernelVars => DeviceOK'
  BY <1>a, <1>n, HiddenStep DEF NotActivating
<1>1. CASE Access(t)
  BY <1>a, <1>n, <1>1, TargetServes, ServingStep DEF Access
<1>2. ASSUME NEW ok \in BOOLEAN, Rebuild(t, ok) PROVE DeviceOK'
  BY <1>a, <1>n, <1>2, RebootstrapServes, ServingStep DEF Rebuild
<1>3. CASE AbandonRebuild(t)
  BY <1>a, <1>n, <1>3, DiscardServes, NobodyLoses, ServingStep DEF AbandonRebuild
<1>4. ASSUME NEW s \in Snapshots, Answer(t, s) PROVE DeviceOK'
  BY <1>a, <1>n, <1>4, AnswerServes, ServingStep DEF Answer
<1>5. CASE FailCall(t) \/ ListApps(t)
  BY <1>a, <1>n, <1>5, AnswerServes, ServingStep DEF FailCall, ListApps
<1>6. CASE Attach(t)
  BY <1>a, <1>n, <1>6, AttachServes, ServingStep DEF Attach
<1>7. CASE GiveUp(t) \/ RejectScreenshot(t)
  BY <1>h, <1>7 DEF GiveUp, RejectScreenshot
<1>8. CASE Poll(t)
  BY <1>a, <1>h, <1>n, <1>8, AnswerServes, ServingStep DEF Poll
<1> QED
  BY <1>1, <1>2, <1>3, <1>4, <1>5, <1>6, <1>7, <1>8 DEF Device

\* Refreshing the screen does.
LEMMA ScreenKeepsDevice ==
    ASSUME HostInv, DeviceOK, NEW t \in Callers, Screen(t)
    PROVE  DeviceOK'
<1>a. /\ active = t /\ pc \in [Callers -> Stages]
      /\ \A c \in Callers : c # t => pc'[c] = pc[c]
  BY ScreenWorks, WorkersAreAdmitted DEF Works, At, HostInv, HostTypeOK
<1>n. NotActivating(t)
  <2>1. pc[t] \in RefreshStages
    BY DEF Screen, PrepareScreen, FinishScreen, RejectScreen, FailScreen, At
  <2>2. \/ pc' = pc
        \/ \E s \in {"fail", "return", "lost", "unauthorized", "dispatch", "wait"} :
              pc' = [pc EXCEPT ![t] = s]
    BY DEF Screen, PrepareScreen, FinishScreen, RejectScreen, FailScreen, Go, Set, hostVars,
           AfterException, AfterError, AfterRefresh, NextIteration
  <2> QED
    BY <1>a, <2>1, <2>2 DEF NotActivating, RefreshStages
<1>1. CASE PrepareScreen(t)
  BY <1>a, <1>n, <1>1, AnswerServes, CommitServes, ServingStep DEF PrepareScreen
<1>2. CASE FinishScreen(t) \/ FailScreen(t)
  BY <1>a, <1>n, <1>2, CommitServes, ServingStep DEF FinishScreen, FailScreen
<1>3. CASE RejectScreen(t)
  BY <1>a, <1>n, <1>3, AnswerServes, ServingStep DEF RejectScreen
<1> QED
  BY <1>1, <1>2, <1>3 DEF Screen

\* And so does an action, whichever way its truth is lost.
LEMMA ActionKeepsDevice ==
    ASSUME HostInv, DeviceOK, NEW t \in Callers, Action(t)
    PROVE  DeviceOK'
<1>a. /\ active = t /\ pc \in [Callers -> Stages]
      /\ \A c \in Callers : c # t => pc'[c] = pc[c]
  BY ActionWorks, WorkersAreAdmitted DEF Works, At, HostInv, HostTypeOK
<1>n. NotActivating(t)
  BY <1>a DEF Action, RepairFirst, RepairStale, Dispatch, DropBeforeSettle, LoseTruth,
              Unauthorized, Go, Set, NotActivating
<1>1. CASE RepairFirst(t)
  BY <1>a, <1>n, <1>1, HiddenStep DEF RepairFirst, NotActivating
<1>2. CASE RepairStale(t) \/ Dispatch(t)
  BY <1>a, <1>n, <1>2, AnswerServes, ServingStep DEF RepairStale, Dispatch
<1>3. ASSUME NEW ok \in BOOLEAN, DropBeforeSettle(t, ok) PROVE DeviceOK'
  BY <1>a, <1>n, <1>3, DropServes, ServingStep DEF DropBeforeSettle
<1>4. ASSUME NEW discard \in BOOLEAN, NEW ok \in BOOLEAN, LoseTruth(t, discard, ok)
      PROVE  DeviceOK'
  BY <1>a, <1>n, <1>4, DropServes, ServingStep DEF LoseTruth
<1>5. ASSUME NEW ok \in BOOLEAN, Unauthorized(t, ok) PROVE DeviceOK'
  BY <1>a, <1>n, <1>5, BreakServes, ServingStep DEF Unauthorized
<1> QED
  BY <1>1, <1>2, <1>3, <1>4, <1>5 DEF Action

\* A runtime that serves is never stale: normalize_stale_ready_runtime finds nothing to do.
LEMMA ServingIsFresh ==
    ASSUME DeviceOK, LockFree
    PROVE  ~StaleReady(rt)
BY DEF DeviceOK, RuntimeServes, Settled, StaleReady

\* A close comes when nobody has anything, and leaves a runtime without a device.
LEMMA CloseKeepsDevice ==
    ASSUME HostInv, DeviceOK, NEW t \in Callers, NEW ok \in BOOLEAN, Close(t, ok)
    PROVE  DeviceOK'
<1> USE HostTyping
<1>1. /\ active = t /\ ~InCall(t)
      /\ \A c \in Callers : pc'[c] = "activate" => pc[c] = "activate"
  <2>1. /\ active = t /\ pc[t] = "close" /\ pc \in [Callers -> Stages]
        /\ pc' = [pc EXCEPT ![t] = IF ok THEN "closed" ELSE "release"]
    BY WorkersAreAdmitted DEF Close, At, Go, Set, HostInv, HostTypeOK
  <2> QED
    BY <2>1 DEF HostInv, AdmissionOK, At, Outside
<1>2. \A c \in Callers : Bare(c) /\ pc[c] # "activate"
  <2>1. pc[t] # "activate"
    BY DEF Close, At
  <2> QED
    BY <1>1, <2>1, OthersAreBare
<1>3. /\ rt' = Closed(rt) /\ lock' = None /\ UNCHANGED callVars
      /\ open' = open \ {IF rt'.transport = rt.transport THEN None ELSE rt.transport}
  BY DEF Close, CloseRuntime, Become, CloseTransport, LockFree
<1>4. /\ rt'.connection = None /\ rt'.token = None /\ rt'.capabilities = None
      /\ rt'.transport = None /\ rt'.screen = None /\ rt'.attached = None
      /\ rt'.status = "closed"
  BY <1>3, ClearedFields DEF Closed, Runtimes
<1>5. RuntimeServes'
  BY <1>3, <1>4, WithoutConnection
<1>6. ASSUME NEW c \in Callers PROVE ServedByRuntime(c)' /\ AttemptServes(c)'
  BY <1>1, <1>2, <1>3 DEF Bare, ServedByRuntime, AttemptServes, Attempting, At, callVars
<1>7. TransportsAccountedFor'
  BY <1>2, <1>3, <1>4 DEF DeviceOK, TransportsAccountedFor, Bare
<1> QED
  BY <1>5, <1>6, <1>7 DEF DeviceOK
\* Requests, admission, entering and leaving a call, runtime/get and the gate.
LEMMA BoundaryKeepsDevice ==
    ASSUME HostInv, DeviceOK, NEW t \in Callers,
           \/ Admission(t)
           \/ Boundary(t)
           \/ Deadline(t)
           \/ \E k \in Requests : Arrive(t, k)
    PROVE  DeviceOK'
<1> USE DEF At, Go, Set
<1>t. pc \in [Callers -> Stages]
  BY DEF HostInv, HostTypeOK
<1>1. CASE \/ Admit(t) \/ RejectBusy(t) \/ TakeLane(t) \/ ReleaseSlot(t)
           \/ ReadBasis(t) \/ ReadStatus(t) \/ AnswerGet(t) \/ EnterGate(t) \/ Respond(t)
           \/ Deadline(t) \/ \E k \in Requests : Arrive(t, k)
  <2>1. UNCHANGED kernelVars
    BY <1>1 DEF Admit, RejectBusy, TakeLane, ReleaseSlot, ReadBasis, ReadStatus, AnswerGet,
                EnterGate, Respond, Deadline, Arrive
  <2>2. \/ pc' = pc
        \/ \E s \in Stages \ {"activate"} : pc' = [pc EXCEPT ![t] = s]
    BY <1>1 DEF Admit, RejectBusy, TakeLane, LaneStage, ReleaseSlot, ReadBasis, ReadStatus,
                AnswerGet, EnterGate, Respond, Deadline, Arrive, Answered, Stages, DeviceStages
  <2>3. \A c \in Callers : pc'[c] = "activate" => pc[c] = "activate"
    BY <1>t, <2>2
  <2> QED
    BY <2>1, <2>3, HiddenStep
<1>2. ASSUME NEW ok \in BOOLEAN, Enter(t, ok) PROVE DeviceOK'
  <2>1. UNCHANGED kernelVars
    BY <1>2, ServingIsFresh DEF Enter
  <2>2. \A c \in Callers : pc'[c] = "activate" => pc[c] = "activate"
    BY <1>t, <1>2 DEF Enter
  <2> QED
    BY <2>1, <2>2, HiddenStep
<1>3. CASE Begin(t)
  <2>1. FirstStage(t) # "activate"
    BY DEF FirstStage
  <2>2. /\ CaptureLease(t) /\ NotActivating(t) /\ active = t
        /\ \A c \in Callers : c # t => pc'[c] = pc[c]
    BY <1>t, <1>3, <2>1, WorkersAreAdmitted DEF Begin, NotActivating
  <2> QED
    BY <2>2, CallServes, ServingStep
<1>4. CASE Return(t)
  <2>1. /\ pc' = [pc EXCEPT ![t] = "release"]
        /\ IF InCall(t) THEN EndCall(t) ELSE UNCHANGED kernelVars
    BY <1>4 DEF Return
  <2>2. /\ NotActivating(t) /\ \A c \in Callers : c # t => pc'[c] = pc[c]
    BY <1>t, <2>1 DEF NotActivating
  <2>3. CASE InCall(t)
    BY <2>1, <2>2, <2>3, CallServes, ServingStep, WorkersAreAdmitted
  <2>4. CASE ~InCall(t)
    BY <2>1, <2>2, <2>4, HiddenStep DEF NotActivating
  <2> QED
    BY <2>3, <2>4
<1>5. ASSUME NEW ok \in BOOLEAN, Close(t, ok) PROVE DeviceOK'
  BY <1>5, CloseKeepsDevice
<1> QED
  BY <1>1, <1>2, <1>3, <1>4, <1>5 DEF Admission, Boundary

\* A new process has no transports and nobody at work.
LEMMA DeviceInitially == HostInit => DeviceOK
<1> SUFFICES ASSUME HostInit PROVE DeviceOK
  OBVIOUS
<1>1. /\ rt = Loaded(None) /\ open = {} /\ lock = None /\ target = NoneEach
      /\ held = NoneEach /\ client = NoneEach /\ fetched = NoneEach /\ txn = NoneEach
      /\ pc = Everyone("idle")
  BY DEF HostInit, Init
<1>2. RuntimeServes
  BY <1>1 DEF Loaded, RuntimeServes, Settled, LockFree, OfOneDevice, HasDevice
<1>3. ASSUME NEW c \in Callers PROVE ServedByRuntime(c) /\ AttemptServes(c)
  BY <1>1 DEF NoneEach, Everyone, ServedByRuntime, AttemptServes, Attempting, At
<1> QED
  BY <1>1, <1>2, <1>3 DEF DeviceOK, TransportsAccountedFor

\* Every step of the daemon keeps devices, transports and threads together.
LEMMA DeviceStepOK == HostInv /\ HostInv' /\ DeviceOK /\ [HostNext]_vars => DeviceOK'
<1> SUFFICES ASSUME HostInv, HostInv', DeviceOK, [HostNext]_vars PROVE DeviceOK'
  OBVIOUS
<1>1. ASSUME NEW t \in Callers, Step(t) PROVE DeviceOK'
  BY <1>1, ConnectKeepsDevice, DeviceKeepsDevice, ScreenKeepsDevice, ActionKeepsDevice,
     BoundaryKeepsDevice DEF Step
<1>2. ASSUME NEW t \in Callers, Deadline(t) \/ \E k \in Requests : Arrive(t, k)
      PROVE  DeviceOK'
  BY <1>2, BoundaryKeepsDevice
<1>3. CASE Stop
  <2>1. TypeOK'
    BY DEF HostInv, KernelInv
  <2>2. /\ rt' = Loaded(disk) /\ disk' = disk /\ open' = {} /\ lock' = None
        /\ target' = NoneEach /\ held' = NoneEach /\ client' = NoneEach
        /\ fetched' = NoneEach /\ txn' = NoneEach /\ pc' = Everyone("idle")
    BY <1>3 DEF Stop, Crash, Restart
  <2>3. /\ rt'.connection = None /\ rt'.token = None /\ rt'.capabilities = None
        /\ rt'.transport = None /\ rt'.screen = None /\ rt'.attached = None
        /\ rt'.status # "ready"
    BY <2>1, <2>2 DEF Loaded, TypeOK, RuntimeFiles, Maybe
  <2>4. RuntimeServes'
    BY <2>2, <2>3, WithoutConnection
  <2>5. ASSUME NEW c \in Callers PROVE ServedByRuntime(c)' /\ AttemptServes(c)'
    BY <2>2 DEF NoneEach, Everyone, ServedByRuntime, AttemptServes, Attempting, At
  <2> QED
    BY <2>2, <2>4, <2>5 DEF DeviceOK, TransportsAccountedFor
<1>4. CASE UNCHANGED vars
  BY <1>4, HiddenStep DEF vars, hostVars
<1> QED
  BY <1>1, <1>2, <1>3, <1>4 DEF HostNext

\* The inductive invariant: what the runtime serves, what the threads have got from it,
\* and how far their attempts to connect it are.
THEOREM DeviceInvariance == HostSpec => [](HostInv /\ DeviceOK)
<1>1. HostInit => HostInv /\ DeviceOK
  BY HostInitially, DeviceInitially
<1>2. HostInv /\ DeviceOK /\ [HostNext]_vars => HostInv' /\ DeviceOK'
  BY HostStep, DeviceStepOK
<1> QED
  BY <1>1, <1>2, PTL DEF HostSpec

\* No adb forward is forgotten: every open transport is the runtime's or that of a
\* thread that will close it or hand it over.
THEOREM NoForwardForgotten == HostSpec => []TransportsAccountedFor
<1>1. DeviceOK => TransportsAccountedFor
  BY DEF DeviceOK
<1> QED
  BY <1>1, DeviceInvariance, PTL

\* A ready runtime is one that clients can work with: it has its screen and a device
\* behind a transport that is open.
THEOREM ReadyServes == HostSpec => []ReadyIsLive
<1>1. DeviceOK => ReadyIsLive
  BY DEF DeviceOK, RuntimeServes, Settled, ReadyIsLive
<1> QED
  BY <1>1, DeviceInvariance, PTL
\* What is of the runtime is of the device of its connection, or there is none.
LEMMA PartsOfOneDevice ==
    ASSUME HostInv, DeviceOK
    PROVE  \E d : /\ \A p \in {rt.connection, rt.transport, rt.screen, rt.attached} \ {None} :
                        p.device = d
                  /\ {rt.token, rt.capabilities} \ {None} \subseteq {d}
<1> USE HostTyping
<1>1. OfOneDevice(rt)
  <2>1. CASE LockFree
    BY <2>1 DEF DeviceOK, RuntimeServes, Settled
  <2>2. CASE ~LockFree
    <3>1. /\ lock \in Callers /\ txn[lock] # None /\ txn[lock] \in Refreshes
          /\ rt = IF txn[lock].phase = "persist" THEN WithScreen(Settled, txn[lock].screen)
                  ELSE Settled
      BY <2>2, LockInCall DEF HostInv, KernelInv, CommitOK, Settled, LockFree, Maybe
    <3>2. /\ HasDevice(rt) /\ txn[lock].screen.device = rt.connection.device
          /\ OfOneDevice(Settled)
      BY <3>1 DEF DeviceOK, ServedByRuntime, RuntimeServes
    <3>3. /\ HasDevice(Settled) /\ txn[lock].screen.device = Settled.connection.device
      BY <3>2, CommittingRuntime DEF HostInv, HasDevice
    <3>4. txn[lock].screen \in Screens
      BY <3>1 DEF Refreshes
    <3> QED
      BY <3>1, <3>2, <3>3, <3>4, ScreenOfDevice
  <2> QED
    BY <2>1, <2>2
<1>2. CASE rt.connection = None
  <2>1. rt.token = None /\ rt.capabilities = None /\ rt.screen = None /\ rt.attached = None
    BY <1>1, <1>2 DEF OfOneDevice
  <2> QED
    BY <1>2, <2>1
<1>3. CASE rt.connection # None
  BY <1>1, <1>3 DEF OfOneDevice
<1> QED
  BY <1>2, <1>3
\* Nothing of the runtime is of another device than the rest: an action never goes to a
\* device other than the one whose screen it was chosen on.
THEOREM RuntimeOfOneDevice == HostSpec => []OneDevice
<1>1. HostInv /\ DeviceOK => OneDevice
  <2> SUFFICES ASSUME HostInv, DeviceOK PROVE OneDevice
    OBVIOUS
  <2> DEFINE parts == {rt.connection, rt.transport, rt.screen, rt.attached} \ {None}
             devices == ({rt.token, rt.capabilities} \ {None}) \cup {p.device : p \in parts}
  <2>1. PICK d : devices \subseteq {d}
    BY PartsOfOneDevice
  <2>2. IsFiniteSet({d}) /\ Cardinality({d}) = 1
    BY FS_Singleton
  <2> HIDE DEF devices
  <2>3. Cardinality(devices) <= Cardinality({d})
    BY <2>1, <2>2, FS_Subset
  <2>4. Cardinality(devices) <= 1
    BY <2>2, <2>3
  <2> QED
    BY <2>4 DEF OneDevice, devices
<1> QED
  BY <1>1, DeviceInvariance, PTL

\* normalize_stale_ready_runtime is a guard that the daemon never needs: no interleaving,
\* failed write or lost transport leaves it a runtime that is ready without being it.
THEOREM NeverStale == HostSpec => [](LockFree => ~StaleReady(rt))
<1>1. DeviceOK => (LockFree => ~StaleReady(rt))
  BY ServingIsFresh
<1> QED
  BY <1>1, DeviceInvariance, PTL
=============================================================================
