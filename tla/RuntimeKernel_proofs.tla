------------------------ MODULE RuntimeKernel_proofs ------------------------
(***************************************************************************)
(* Proofs about RuntimeKernel for any number of callers, devices, ports    *)
(* and snapshots, and any bounds.                                          *)
(*                                                                         *)
(* The invariants of the model hold between commits; they become inductive *)
(* when they are stated about what the runtime and the files go back to if *)
(* the commit under way fails (Settled, SettledFiles).  KernelInv puts     *)
(* them together with what makes a commit undoable.                        *)
(***************************************************************************)
EXTENDS RuntimeKernel, TLAPS

-----------------------------------------------------------------------------
(* What the operators on runtimes return *)

\* Forgetting parts of a runtime leaves a runtime.
LEMMA RuntimeParts ==
    ASSUME NEW r \in Runtimes
    PROVE  /\ WithoutScreen(r) \in Runtimes
           /\ WithoutDevice(r) \in Runtimes
           /\ Cleared(r) \in Runtimes
           /\ Normalized(r) \in Runtimes
           /\ \A discard \in BOOLEAN : WithoutAuthority(r, discard) \in Runtimes
<1>1. WithoutScreen(r) \in Runtimes
  BY DEF WithoutScreen, Runtimes, Maybe
<1>2. \A q \in Runtimes : WithoutDevice(q) \in Runtimes
  BY DEF WithoutDevice, Runtimes, Maybe
<1>3. Cleared(r) \in Runtimes
  BY <1>1, <1>2 DEF Cleared
<1>4. \A q \in Runtimes, s \in Statuses : [q EXCEPT !.status = s] \in Runtimes
  BY DEF Runtimes
<1>5. Normalized(r) \in Runtimes
  BY <1>1, <1>3, <1>4 DEF Normalized, Statuses
<1>6. ASSUME NEW discard \in BOOLEAN
      PROVE  WithoutAuthority(r, discard) \in Runtimes
  <2> DEFINE q == WithoutScreen(r)
  <2>1. \A t \in Maybe(Transports), k \in Maybe(Devices) :
          [q EXCEPT !.transport = t, !.capabilities = k, !.status = "connected"]
            \in Runtimes
    BY <1>1 DEF Runtimes, Statuses
  <2>2. q.transport \in Maybe(Transports) /\ q.capabilities \in Maybe(Devices)
    BY <1>1 DEF Runtimes
  <2>3. None \in Maybe(Transports) /\ None \in Maybe(Devices)
    BY DEF Maybe
  <2>4. [Cleared(r) EXCEPT !.status = "broken"] \in Runtimes
    BY <1>3, <1>4 DEF Statuses
  <2> HIDE DEF q
  <2>5. CASE discard
    BY <2>1, <2>3, <2>4, <2>5 DEF WithoutAuthority, q
  <2>6. CASE ~discard
    BY <2>1, <2>2, <2>4, <2>6 DEF WithoutAuthority, q
  <2> QED
    BY <2>5, <2>6
<1> QED
  BY <1>1, <1>2, <1>3, <1>5, <1>6

\* A refreshed runtime is a runtime, and what is persisted is a runtime file that
\* loads into a runtime.
LEMMA RuntimeRoundTrip ==
    ASSUME NEW r \in Runtimes
    PROVE  /\ \A s \in Screens : WithScreen(r, s) \in Runtimes
           /\ Persisted(r) \in RuntimeFiles
           /\ \A d \in Maybe(RuntimeFiles) : Loaded(d) \in Runtimes
<1>1. ASSUME NEW s \in Screens
      PROVE  WithScreen(r, s) \in Runtimes
  <2>1. s.sequence \in 0..MaxSequence
    BY BoundAssumption DEF Screens, Sequences
  <2>2. s \in Maybe(Screens) /\ None \in Maybe(Attachments)
    BY DEF Maybe
  <2> QED
    BY <2>1, <2>2 DEF WithScreen, Runtimes, Statuses
<1>2. Persisted(r) \in RuntimeFiles
  BY DEF Persisted, RuntimeFiles, Runtimes, Statuses
<1>3. ASSUME NEW d \in Maybe(RuntimeFiles)
      PROVE  Loaded(d) \in Runtimes
  BY BoundAssumption DEF Loaded, RuntimeFiles, Runtimes, Revisions, Statuses, Maybe
<1> QED
  BY <1>1, <1>2, <1>3
-----------------------------------------------------------------------------
(* Types *)

\* Writing runtime.json, or failing to, keeps the file and the fault count typed.
LEMMA PersistType ==
    ASSUME TypeOK, NEW r \in Runtimes, NEW ok \in BOOLEAN, Persist(r, ok)
    PROVE  disk' \in Maybe(RuntimeFiles) /\ faults' \in 0..MaxFaults
<1>1. Persisted(r) \in RuntimeFiles
  BY RuntimeRoundTrip
<1> QED
  BY <1>1, BoundAssumption DEF Persist, TypeOK, Maybe

\* The runtime can become any runtime; what is closed was a transport.
LEMMA BecomeType ==
    ASSUME TypeOK, NEW r \in Runtimes, Become(r)
    PROVE  rt' \in Runtimes /\ open' \subseteq Transports
BY DEF Become, CloseTransport, TypeOK

\* Every step keeps every variable in its domain.
LEMMA TypeStep ==
    ASSUME KernelInv, Next
    PROVE  TypeOK'
<1> USE DEF KernelInv
<1>n. None \in Maybe(Revisions) /\ None \in Maybe(Targets) /\ None \in Maybe(Transports)
      /\ None \in Maybe(Captures) /\ None \in Maybe(Refreshes) /\ None \in Maybe(Callers)
      /\ None \in Maybe(Screens)
  BY DEF Maybe
<1>r. rt.revision \in Revisions /\ rt.transport \in Maybe(Transports)
      /\ rt.connection \in Maybe(Connections) /\ rt.sequence \in 0..MaxSequence
  BY DEF TypeOK, Runtimes
<1>1. ASSUME NEW c \in Callers, CaptureLease(c) PROVE TypeOK'
  BY <1>1, <1>r DEF CaptureLease, Set, TypeOK, runtimeVars, Maybe
<1>2. ASSUME NEW c \in Callers, EndCall(c) PROVE TypeOK'
  BY <1>2, <1>n DEF EndCall, Set, TypeOK, runtimeVars
<1>3. ASSUME NEW c \in Callers, NEW d \in Devices, ChooseDevice(c, d) PROVE TypeOK'
  <2>1. [device |-> d, attempt |-> "connect"] \in Maybe(Targets)
    BY DEF Targets, Maybe
  <2> QED
    BY <1>3, <2>1 DEF ChooseDevice, Set, TypeOK, runtimeVars
<1>4. ASSUME NEW c \in Callers, NEW p \in Ports, EstablishTransport(c, p) PROVE TypeOK'
  <2> DEFINE t == [port |-> p, device |-> target[c].device]
  <2>1. target[c] \in Targets
    BY <1>4 DEF EstablishTransport, TypeOK, Maybe
  <2>2. t \in Transports /\ t \in Maybe(Transports)
    BY <2>1 DEF Targets, Transports, Maybe
  <2> HIDE DEF t
  <2>3. held' = [held EXCEPT ![c] = t] /\ open' = open \cup {t}
    BY <1>4 DEF EstablishTransport, Set, t
  <2> QED
    BY <1>4, <2>2, <2>3 DEF EstablishTransport, TypeOK
<1>5. ASSUME NEW c \in Callers, DiscardHandle(c) PROVE TypeOK'
  BY <1>5, <1>n DEF DiscardHandle, CloseTransport, Set, TypeOK
<1>6. ASSUME NEW c \in Callers, NEW ok \in BOOLEAN, BeginConnect(c, ok) PROVE TypeOK'
  <2>1. Cleared(rt) \in Runtimes /\ held[c] \in Maybe(Transports)
    BY RuntimeParts DEF TypeOK
  <2>2. Connecting(c) \in Runtimes
    BY <2>1 DEF Connecting, Runtimes, Statuses
  <2>3. target[c] \in Targets
    BY <1>6 DEF BeginConnect, Attempting, TypeOK, Maybe
  <2>4. [target[c] EXCEPT !.attempt = "begun"] \in Maybe(Targets)
    BY <2>3 DEF Targets, Maybe
  <2>5. target' \in [Callers -> Maybe(Targets)]
    BY <1>6, <2>4 DEF BeginConnect, TypeOK
  <2>6. disk' \in Maybe(RuntimeFiles) /\ faults' \in 0..MaxFaults
    BY <1>6, <2>2, PersistType DEF BeginConnect
  <2> QED
    BY <1>6, <2>2, <2>5, <2>6 DEF BeginConnect, CloseTransport, TypeOK
<1>7. ASSUME NEW c \in Callers, NEW ok \in BOOLEAN, ActivateConnect(c, ok) PROVE TypeOK'
  <2>1. held[c] \in Transports /\ lease[c] \in Revisions
    BY <1>7 DEF ActivateConnect, LeaseCurrent, AttemptOK, TypeOK, Maybe
  <2>2. /\ held[c] \in Maybe(Transports) /\ held[c].device \in Maybe(Devices)
        /\ [device |-> held[c].device, lease |-> lease[c]] \in Maybe(Connections)
    BY <2>1 DEF Transports, Connections, Maybe
  <2>3. Activated(c) \in Runtimes
    BY <2>2 DEF Activated, TypeOK, Runtimes, Statuses
  <2>4. disk' \in Maybe(RuntimeFiles) /\ faults' \in 0..MaxFaults
    BY <1>7, <2>3, PersistType DEF ActivateConnect
  <2> QED
    BY <1>7, <2>3, <2>4, <1>n DEF ActivateConnect, Set, TypeOK
<1>b. ASSUME NEW c \in Callers, NEW ok \in BOOLEAN, Break(c, ok)
      PROVE  /\ rt' \in Runtimes /\ open' \subseteq Transports
             /\ disk' \in Maybe(RuntimeFiles) /\ faults' \in 0..MaxFaults
  <2> DEFINE r == [Cleared(rt) EXCEPT !.status = "broken"]
  <2>1. Cleared(rt) \in Runtimes
    BY RuntimeParts DEF TypeOK
  <2>2. r \in Runtimes
    BY <2>1 DEF Runtimes, Statuses
  <2>3. Become(r) /\ Persist(r, ok)
    BY <1>b DEF Break
  <2> HIDE DEF r
  <2> QED
    BY <2>2, <2>3, BecomeType, PersistType
<1>8. ASSUME NEW c \in Callers, NEW ok \in BOOLEAN, FailConnect(c, ok) PROVE TypeOK'
  BY <1>8, <1>b, <1>n DEF FailConnect, Set, TypeOK
<1>9. ASSUME NEW c \in Callers, NEW ok \in BOOLEAN, InvalidateCredentials(c, ok) PROVE TypeOK'
  BY <1>9, <1>b DEF InvalidateCredentials, TypeOK, callVars
<1>10. ASSUME NEW c \in Callers, ReuseTransport(c) PROVE TypeOK'
  BY <1>10, <1>r DEF ReuseTransport, Set, TypeOK, runtimeVars
<1>11. ASSUME NEW c \in Callers, StartRebootstrap(c) PROVE TypeOK'
  <2>1. rt.connection \in Connections
    BY <1>11, <1>r DEF StartRebootstrap, Maybe
  <2>2. [device |-> rt.connection.device, attempt |-> "rebootstrap"] \in Maybe(Targets)
    BY <2>1 DEF Connections, Targets, Maybe
  <2> QED
    BY <1>11, <2>2 DEF StartRebootstrap, Set, TypeOK, runtimeVars
<1>12. ASSUME NEW c \in Callers, NEW ok \in BOOLEAN, CommitRebootstrap(c, ok) PROVE TypeOK'
  <2>1. held[c] \in Transports /\ lease[c] \in Revisions
    BY <1>12 DEF CommitRebootstrap, LeaseCurrent, TypeOK, Maybe
  <2>2. /\ held[c] \in Maybe(Transports) /\ held[c].device \in Maybe(Devices)
        /\ [device |-> held[c].device, lease |-> lease[c]] \in Maybe(Connections)
    BY <2>1 DEF Transports, Connections, Maybe
  <2>3. Rebootstrapped(c) \in Runtimes
    BY <2>2 DEF Rebootstrapped, TypeOK, Runtimes
  <2>4. disk' \in Maybe(RuntimeFiles) /\ faults' \in 0..MaxFaults
    BY <1>12, <2>3, PersistType DEF CommitRebootstrap
  <2>5. client' \in [Callers -> Maybe(Transports)]
    BY <1>12, <2>2, <1>n DEF CommitRebootstrap, Set, TypeOK
  <2> QED
    BY <1>12, <2>3, <2>4, <2>5, <1>n DEF CommitRebootstrap, Set, TypeOK
<1>13. ASSUME NEW c \in Callers, LoseRebootstrap(c) PROVE TypeOK'
  BY <1>13, <1>n, <1>r DEF LoseRebootstrap, CloseTransport, Set, TypeOK
<1>14. ASSUME NEW c \in Callers, NEW s \in Snapshots, Fetch(c, s) PROVE TypeOK'
  <2>1. client[c] \in Transports
    BY <1>14 DEF Fetch, TypeOK, Maybe
  <2>2. [device |-> client[c].device, snapshot |-> s] \in Maybe(Captures)
    BY <2>1 DEF Transports, Captures, Maybe
  <2> QED
    BY <1>14, <2>2, <1>n DEF Fetch, Set, TypeOK, runtimeVars
<1>15. ASSUME NEW c \in Callers, CallDevice(c) PROVE TypeOK'
  BY <1>15, <1>n DEF CallDevice, Set, TypeOK, runtimeVars
<1>16. ASSUME NEW c \in Callers, AttachScreenshot(c) PROVE TypeOK'
  <2>1. fetched[c] \in Captures /\ lease[c] \in Revisions
    BY <1>16 DEF AttachScreenshot, LeaseCurrent, TypeOK, Maybe
  <2>2. [device |-> fetched[c].device, lease |-> lease[c]] \in Maybe(Attachments)
    BY <2>1 DEF Captures, Attachments, Maybe
  <2>3. rt' \in Runtimes
    BY <1>16, <2>2 DEF AttachScreenshot, TypeOK, Runtimes
  <2> QED
    BY <1>16, <2>3, <1>n DEF AttachScreenshot, Set, TypeOK
<1>17. ASSUME NEW c \in Callers, NEW discard \in BOOLEAN, NEW ok \in BOOLEAN,
              DropScreenAuthority(c, discard, ok)
       PROVE  TypeOK'
  <2>1. WithoutAuthority(rt, discard) \in Runtimes
    BY RuntimeParts DEF TypeOK
  <2>2. Become(WithoutAuthority(rt, discard)) /\ Persist(WithoutAuthority(rt, discard), ok)
    BY <1>17 DEF DropScreenAuthority
  <2>3. /\ rt' \in Runtimes /\ open' \subseteq Transports
        /\ disk' \in Maybe(RuntimeFiles) /\ faults' \in 0..MaxFaults
    BY <2>1, <2>2, BecomeType, PersistType
  <2> QED
    BY <1>17, <2>3 DEF DropScreenAuthority, TypeOK, callVars
<1>18. ASSUME NEW c \in Callers, CaptureBasis(c) PROVE TypeOK'
  <2> DEFINE s == [sequence |-> rt.sequence + 1, device |-> fetched[c].device,
                   snapshot |-> fetched[c].snapshot, lease |-> lease[c]]
             t == [phase |-> "staged", screen |-> s, saved |-> None,
                   backup |-> [k \in ArtifactKinds |-> None]]
  <2>1. fetched[c] \in Captures /\ lease[c] \in Revisions
    BY <1>18 DEF CaptureBasis, LeaseCurrent, TypeOK, Maybe
  <2>2. rt.sequence + 1 \in Sequences
    BY <1>18, <1>r, BoundAssumption DEF CaptureBasis, Sequences
  <2>3. s \in Screens
    BY <2>1, <2>2 DEF Captures, Screens
  <2>4. t.backup \in [ArtifactKinds -> Maybe(Screens)]
    BY <1>n
  <2>5. t.saved \in Maybe(Runtimes)
    BY DEF Maybe
  <2> HIDE DEF s
  <2>6. t \in Refreshes
    BY <2>3, <2>4, <2>5 DEF Refreshes
  <2>7. t \in Maybe(Refreshes)
    BY <2>6 DEF Maybe
  <2>8. txn' = [txn EXCEPT ![c] = t]
    BY <1>18 DEF CaptureBasis, Set, s
  <2> HIDE DEF t
  <2> QED
    BY <1>18, <2>7, <2>8, <1>n DEF CaptureBasis, Set, TypeOK, runtimeVars
<1>19. ASSUME NEW c \in Callers, DiscardRefresh(c) PROVE TypeOK'
  BY <1>19, <1>n DEF DiscardRefresh, Set, TypeOK, runtimeVars
<1>20. ASSUME NEW c \in Callers, StartCommit(c) PROVE TypeOK'
  <2>1. txn[c] \in Refreshes /\ rt \in Maybe(Runtimes)
    BY <1>20 DEF StartCommit, TypeOK, Maybe
  <2>2. [txn[c] EXCEPT !.phase = "json", !.saved = rt] \in Maybe(Refreshes)
    BY <2>1 DEF Refreshes, Maybe
  <2>3. txn' = [txn EXCEPT ![c] = [txn[c] EXCEPT !.phase = "json", !.saved = rt]]
    BY <1>20 DEF StartCommit, TypeOK
  <2>4. lock' \in Maybe(Callers)
    BY <1>20 DEF StartCommit, Maybe
  <2> QED
    BY <1>20, <2>2, <2>3, <2>4 DEF StartCommit, TypeOK, runtimeVars
<1>p. ASSUME NEW c \in Callers, NEW kind \in ArtifactKinds, NEW next \in {"xml", "persist"},
             lock = c, Publish(c, kind, next)
      PROVE  /\ txn[c].screen \in Screens
             /\ files' \in ArtifactFiles
             /\ txn' \in [Callers -> Maybe(Refreshes)]
  <2>1. txn[c] \in Refreshes
    BY <1>p, NoneAssumption DEF LockOK, TypeOK, Maybe
  <2> DEFINE s == txn[c].screen
             b == files[kind][s.sequence]
  <2>2. s \in Screens /\ s \in Maybe(Screens) /\ s.sequence \in Sequences
    BY <2>1 DEF Refreshes, Screens, Maybe
  <2>3. b \in Maybe(Screens)
    BY <2>2 DEF TypeOK, ArtifactFiles
  <2> HIDE DEF s, b
  <2>4. files' = [files EXCEPT ![kind] = [files[kind] EXCEPT ![s.sequence] = s]]
    BY <1>p DEF Publish, TypeOK, ArtifactFiles, s
  <2>5. files' \in ArtifactFiles
    BY <2>2, <2>4 DEF TypeOK, ArtifactFiles
  <2>6. txn' = [txn EXCEPT ![c] = [txn[c] EXCEPT
                  !.phase = next, !.backup = [txn[c].backup EXCEPT ![kind] = b]]]
    BY <1>p, <2>1 DEF Publish, TypeOK, Refreshes, s, b
  <2>7. [txn[c].backup EXCEPT ![kind] = b] \in [ArtifactKinds -> Maybe(Screens)]
    BY <2>1, <2>3 DEF Refreshes
  <2>8. [txn[c] EXCEPT !.phase = next,
                       !.backup = [txn[c].backup EXCEPT ![kind] = b]] \in Maybe(Refreshes)
    BY <2>1, <2>7 DEF Refreshes, Maybe
  <2> QED
    BY <2>2, <2>5, <2>6, <2>8 DEF TypeOK, s
<1>21. ASSUME NEW c \in Callers, PublishJson(c) PROVE TypeOK'
  BY <1>21, <1>p DEF PublishJson, TypeOK, ArtifactKinds
<1>22. ASSUME NEW c \in Callers, PublishXml(c) PROVE TypeOK'
  <2>1. /\ txn[c].screen \in Screens
        /\ files' \in ArtifactFiles
        /\ txn' \in [Callers -> Maybe(Refreshes)]
    BY <1>22, <1>p DEF PublishXml, ArtifactKinds
  <2>2. WithScreen(rt, txn[c].screen) \in Runtimes
    BY <2>1, RuntimeRoundTrip DEF TypeOK
  <2> QED
    BY <1>22, <2>1, <2>2 DEF PublishXml, TypeOK
<1>l. ASSUME NEW c \in Callers, lock = c
      PROVE  txn[c] \in Refreshes /\ txn[c].saved \in Runtimes
  BY <1>l, NoneAssumption DEF LockOK, CommitOK, TypeOK, Maybe
<1>23. ASSUME NEW c \in Callers, PersistRefresh(c) PROVE TypeOK'
  <2>1. txn[c].screen.sequence \in 0..MaxSequence
    BY <1>23, <1>l, BoundAssumption DEF PersistRefresh, Refreshes, Screens, Sequences
  <2>2. disk' \in Maybe(RuntimeFiles) /\ faults' \in 0..MaxFaults
    BY <1>23, PersistType DEF PersistRefresh, TypeOK
  <2> QED
    BY <1>23, <2>1, <2>2, <1>n DEF PersistRefresh, Set, TypeOK
<1>24. ASSUME NEW c \in Callers, RollbackRefresh(c) PROVE TypeOK'
  <2> DEFINE t == txn[c]
  <2>1. t \in Refreshes /\ t.saved \in Runtimes
    BY <1>24, <1>l DEF RollbackRefresh
  <2>2. RolledBack(t) \in ArtifactFiles
    BY <2>1 DEF RolledBack, ArtifactFiles, Refreshes, Screens, TypeOK
  <2>3. faults' \in 0..MaxFaults
    BY <1>24, BoundAssumption DEF RollbackRefresh, TypeOK
  <2> QED
    BY <1>24, <2>1, <2>2, <2>3, <1>n DEF RollbackRefresh, Set, TypeOK
<1>25. ASSUME NEW ok \in BOOLEAN, NormalizeStaleReady(ok) PROVE TypeOK'
  <2>1. Normalized(rt) \in Runtimes
    BY RuntimeParts DEF TypeOK
  <2>2. Become(Normalized(rt)) /\ Persist(Normalized(rt), ok)
    BY <1>25 DEF NormalizeStaleReady
  <2>3. /\ rt' \in Runtimes /\ open' \subseteq Transports
        /\ disk' \in Maybe(RuntimeFiles) /\ faults' \in 0..MaxFaults
    BY <2>1, <2>2, BecomeType, PersistType
  <2> QED
    BY <1>25, <2>3 DEF NormalizeStaleReady, TypeOK, callVars
<1>v. ASSUME rt.revision < MaxRevision
      PROVE  /\ Closed(rt) \in Runtimes
             /\ [Cleared(rt) EXCEPT !.revision = @ + 1] \in Runtimes
  <2>1. Cleared(rt) \in Runtimes /\ Cleared(rt).revision = rt.revision
    BY RuntimeParts DEF TypeOK, Cleared, WithoutDevice, WithoutScreen, Runtimes
  <2>2. Cleared(rt).revision + 1 \in Revisions
    BY <1>v, <2>1, BoundAssumption DEF Runtimes, Revisions
  <2> QED
    BY <2>1, <2>2 DEF Closed, Runtimes, Statuses
<1>26. ASSUME NEW ok \in BOOLEAN, CloseRuntime(ok) PROVE TypeOK'
  <2>1. Closed(rt) \in Runtimes
    BY <1>26, <1>v DEF CloseRuntime
  <2>2. /\ rt' \in Runtimes /\ open' \subseteq Transports
        /\ disk' \in Maybe(RuntimeFiles) /\ faults' \in 0..MaxFaults
    BY <1>26, <2>1, BecomeType, PersistType DEF CloseRuntime
  <2> QED
    BY <1>26, <2>2 DEF CloseRuntime, TypeOK, callVars
<1>27. ASSUME InvalidateRuntime PROVE TypeOK'
  <2>1. rt' \in Runtimes /\ open' \subseteq Transports
    BY <1>27, <1>v, BecomeType DEF InvalidateRuntime
  <2> QED
    BY <1>27, <2>1 DEF InvalidateRuntime, TypeOK, callVars
<1>28. ASSUME Crash PROVE TypeOK'
  <2>1. Loaded(disk) \in Runtimes
    BY RuntimeRoundTrip DEF TypeOK
  <2>2. crashes' \in 0..MaxCrashes
    BY <1>28, BoundAssumption DEF Crash, TypeOK
  <2> QED
    BY <1>28, <2>1, <2>2, <1>n DEF Crash, Restart, NoneEach, TypeOK
<1> QED
  BY <1>1, <1>2, <1>3, <1>4, <1>5, <1>6, <1>7, <1>8, <1>9, <1>10, <1>11, <1>12,
     <1>13, <1>14, <1>15, <1>16, <1>17, <1>18, <1>19, <1>20, <1>21, <1>22, <1>23,
     <1>24, <1>25, <1>26, <1>27, <1>28 DEF Next, Call, Refresh, Lifecycle

-----------------------------------------------------------------------------
(* Calls, the lock and leases *)

\* Steps that leave targets, handles and leases alone, and steps that change them for
\* one caller.
LEMMA AttemptStep ==
    ASSUME KernelInv, Next
    PROVE  AttemptOK'
<1> USE DEF KernelInv, AttemptOK, Attempting, InCall, TypeOK
<1>1. ASSUME UNCHANGED <<lease, target, held>> PROVE AttemptOK'
  BY <1>1
<1>2. ASSUME NEW c \in Callers, CaptureLease(c) PROVE AttemptOK'
  <2>1. rt.revision # None
    BY NoneAssumption DEF Runtimes, Revisions
  <2> QED
    BY <1>2, <2>1 DEF CaptureLease, Set
<1>3. ASSUME NEW c \in Callers, EndCall(c) PROVE AttemptOK'
  BY <1>3 DEF EndCall, Set
<1>4. ASSUME NEW c \in Callers, NEW d \in Devices, ChooseDevice(c, d) PROVE AttemptOK'
  BY <1>4 DEF ChooseDevice, Ready, Set
<1>5. ASSUME NEW c \in Callers, NEW p \in Ports, EstablishTransport(c, p) PROVE AttemptOK'
  <2>1. target' = target /\ lease' = lease /\ target[c] # None /\ target[c].attempt # "begun"
    BY <1>5 DEF EstablishTransport
  <2>2. \A b \in Callers \ {c} : held'[b] = held[b]
    BY <1>5 DEF EstablishTransport, Set
  <2> QED
    BY <2>1, <2>2
<1>6. ASSUME NEW c \in Callers, DiscardHandle(c) PROVE AttemptOK'
  BY <1>6 DEF DiscardHandle, Set
<1>7. ASSUME NEW c \in Callers, NEW ok \in BOOLEAN, BeginConnect(c, ok) PROVE AttemptOK'
  <2>1. held' = held /\ lease' = lease /\ held[c] # None /\ target[c] # None
    BY <1>7 DEF BeginConnect
  <2>2. \A b \in Callers \ {c} : target'[b] = target[b]
    BY <1>7 DEF BeginConnect
  <2> QED
    BY <2>1, <2>2
<1>8. ASSUME NEW c \in Callers, NEW ok \in BOOLEAN,
             \/ ActivateConnect(c, ok)
             \/ FailConnect(c, ok)
             \/ CommitRebootstrap(c, ok)
             \/ LoseRebootstrap(c)
      PROVE  AttemptOK'
  BY <1>8 DEF ActivateConnect, FailConnect, CommitRebootstrap, LoseRebootstrap, Set
<1>9. ASSUME NEW c \in Callers, StartRebootstrap(c) PROVE AttemptOK'
  BY <1>9 DEF StartRebootstrap, Ready, Set
<1>10. ASSUME Crash PROVE AttemptOK'
  BY <1>10 DEF Crash, Restart, NoneEach
<1>11. ASSUME NEW c \in Callers, Call(c) PROVE AttemptOK'
  BY <1>1, <1>2, <1>3, <1>4, <1>5, <1>6, <1>7, <1>8, <1>9, <1>11
     DEF Call, InvalidateCredentials, ReuseTransport, Fetch, CallDevice,
         AttachScreenshot, DropScreenAuthority, callVars
<1>12. ASSUME NEW c \in Callers, Refresh(c) PROVE AttemptOK'
  BY <1>1, <1>12
     DEF Refresh, CaptureBasis, DiscardRefresh, StartCommit, PublishJson, PublishXml,
         PersistRefresh, RollbackRefresh
<1>13. ASSUME Lifecycle PROVE AttemptOK'
  BY <1>1, <1>10, <1>13
     DEF Lifecycle, NormalizeStaleReady, CloseRuntime, InvalidateRuntime, callVars
<1> QED
  BY <1>11, <1>12, <1>13 DEF Next

\* A commit starts with the runtime it saved, and each of its steps goes on from what
\* the one before left; nobody else touches the runtime, the files or the lease.
LEMMA CommitStep ==
    ASSUME KernelInv, Next
    PROVE  LockOK' /\ CommitOK'
<1> USE DEF KernelInv
<1>n. None \notin Callers
  BY NoneAssumption
<1>1. ASSUME LockFree, UNCHANGED <<lock, txn>> PROVE LockOK' /\ CommitOK'
  BY <1>1 DEF LockFree, LockOK, CommitOK
<1>2. ASSUME UNCHANGED <<rt, files, lock, lease, txn>> PROVE LockOK' /\ CommitOK'
  BY <1>2 DEF LockOK, CommitOK, Replaced
<1>3. ASSUME NEW c \in Callers, lock # c, NEW v,
             \/ lease' = lease
             \/ lease' = [lease EXCEPT ![c] = None],
             txn' = [txn EXCEPT ![c] = v],
             v # None => v.phase = "staged",
             UNCHANGED <<rt, files, lock>>
      PROVE  LockOK' /\ CommitOK'
  <2>1. \A b \in Callers \ {c} : txn'[b] = txn[b] /\ lease'[b] = lease[b]
    BY <1>3 DEF TypeOK
  <2>2. txn'[c] = v
    BY <1>3 DEF TypeOK
  <2>3. lock # None => lock \in Callers \ {c}
    BY <1>3 DEF TypeOK, Maybe
  <2>4. LockOK'
    BY <1>3, <2>1, <2>2, <2>3 DEF LockOK
  <2>5. CommitOK'
    BY <1>3, <2>1, <2>3 DEF CommitOK, Replaced
  <2> QED
    BY <2>4, <2>5
<1>4. ASSUME NEW c \in Callers, EndCall(c) PROVE LockOK' /\ CommitOK'
  BY <1>3, <1>4 DEF EndCall, Set, runtimeVars
<1>5. ASSUME NEW c \in Callers, CaptureBasis(c) PROVE LockOK' /\ CommitOK'
  BY <1>3, <1>5, <1>n DEF CaptureBasis, Set, runtimeVars, LockFree
<1>6. ASSUME NEW c \in Callers, DiscardRefresh(c) PROVE LockOK' /\ CommitOK'
  <2>1. lock # c
    BY <1>6 DEF DiscardRefresh, LockOK
  <2> QED
    BY <1>3, <1>6, <2>1 DEF DiscardRefresh, Set, runtimeVars
<1>7. ASSUME NEW c \in Callers, StartCommit(c) PROVE LockOK' /\ CommitOK'
  <2> DEFINE t == [txn[c] EXCEPT !.phase = "json", !.saved = rt]
  <2>1. txn[c] \in Refreshes /\ txn[c] # None /\ rt \in Runtimes
    BY <1>7 DEF StartCommit, TypeOK, Maybe
  <2>2. t.phase = "json" /\ t.saved = rt /\ t.screen = txn[c].screen
    BY <2>1 DEF Refreshes
  <2>3. t # None
    <3>1. t \in Refreshes
      BY <2>1 DEF Refreshes, Maybe
    <3> QED
      BY <3>1, NoneAssumption
  <2> HIDE DEF t
  <2>4. txn' = [txn EXCEPT ![c] = t] /\ lock' = c /\ lock = None
    BY <1>7 DEF StartCommit, TypeOK, LockFree, t
  <2>5. txn'[c] = t /\ \A b \in Callers \ {c} : txn'[b] = txn[b]
    BY <2>4 DEF TypeOK
  <2>6. LockOK'
    BY <1>n, <2>2, <2>3, <2>4, <2>5 DEF LockOK
  <2>7. lease'[c] = rt'.revision /\ rt' = rt
    BY <1>7 DEF StartCommit, LeaseCurrent, runtimeVars
  <2>8. Replaced("json") = {}
    BY DEF Replaced
  <2>9. CommitOK'
    BY <2>1, <2>2, <2>4, <2>5, <2>7, <2>8 DEF CommitOK
  <2> QED
    BY <2>6, <2>9
<1>l. ASSUME NEW c \in Callers, lock = c
      PROVE  /\ txn[c] \in Refreshes
             /\ lease[c] = rt.revision
             /\ txn[c].saved \in Runtimes
             /\ \A k \in Replaced(txn[c].phase) :
                  files[k][txn[c].screen.sequence] = txn[c].screen
             /\ rt = IF txn[c].phase = "persist"
                     THEN WithScreen(txn[c].saved, txn[c].screen) ELSE txn[c].saved
  BY <1>l, <1>n DEF LockOK, CommitOK, TypeOK, Maybe
<1>8. ASSUME NEW c \in Callers, NEW kind \in ArtifactKinds, NEW next \in {"xml", "persist"},
             lock = c, lock' = lock, lease' = lease, Publish(c, kind, next),
             Replaced(next) \subseteq Replaced(txn[c].phase) \cup {kind},
             rt' = IF next = "persist" THEN WithScreen(txn[c].saved, txn[c].screen)
                                       ELSE txn[c].saved,
             rt'.revision = rt.revision
      PROVE  LockOK' /\ CommitOK'
  <2>1. txn[c] \in Refreshes
    BY <1>8, <1>l
  <2> DEFINE s == txn[c].screen
             t == [txn[c] EXCEPT
                     !.phase = next,
                     !.backup = [txn[c].backup EXCEPT ![kind] = files[kind][s.sequence]]]
  <2>2. s \in Screens /\ s.sequence \in Sequences
    BY <2>1 DEF Refreshes, Screens
  <2>3. /\ t.phase = next /\ t.screen = s /\ t.saved = txn[c].saved
        /\ t # None
    <3>1. files[kind][s.sequence] \in Maybe(Screens)
      BY <2>2 DEF TypeOK, ArtifactFiles
    <3>2. t \in Refreshes
      BY <2>1, <3>1 DEF Refreshes
    <3> QED
      BY <2>1, <3>2, NoneAssumption DEF Refreshes
  <2>4. txn' = [txn EXCEPT ![c] = t]
    BY <1>8, <2>1 DEF Publish, TypeOK, Refreshes
  <2> HIDE DEF s, t
  <2>5. txn'[c] = t /\ \A b \in Callers \ {c} : txn'[b] = txn[b]
    BY <2>4 DEF TypeOK
  <2>6. LockOK'
    BY <1>n, <1>8, <2>3, <2>5 DEF LockOK
  <2>7. files' = [files EXCEPT ![kind] = [files[kind] EXCEPT ![s.sequence] = s]]
    BY <1>8 DEF Publish, TypeOK, ArtifactFiles, s
  <2>8. files'[kind][s.sequence] = s
    BY <2>2, <2>7 DEF TypeOK, ArtifactFiles
  <2>9. \A k \in ArtifactKinds \ {kind} : files'[k] = files[k]
    BY <2>7 DEF TypeOK, ArtifactFiles
  <2>10. \A k \in Replaced(next) : files'[k][s.sequence] = s
    BY <1>8, <1>l, <2>8, <2>9 DEF Replaced, ArtifactKinds, s
  <2>11. lock' = c /\ lease'[c] = rt'.revision /\ t.saved \in Runtimes
    BY <1>8, <1>l, <2>3
  <2>12. CommitOK'
    BY <1>8, <2>3, <2>5, <2>10, <2>11 DEF CommitOK, s
  <2> QED
    BY <2>6, <2>12
<1>9. ASSUME NEW c \in Callers, PublishJson(c) PROVE LockOK' /\ CommitOK'
  <2>1. Replaced("xml") = {"json"}
    BY DEF Replaced
  <2>2. rt = txn[c].saved
    BY <1>9, <1>l DEF PublishJson
  <2> QED
    BY <1>8, <1>9, <2>1, <2>2 DEF PublishJson, ArtifactKinds
<1>10. ASSUME NEW c \in Callers, PublishXml(c) PROVE LockOK' /\ CommitOK'
  <2>1. Replaced("persist") = {"json", "xml"} /\ Replaced("xml") = {"json"}
    BY DEF Replaced, ArtifactKinds
  <2>2. rt = txn[c].saved
    BY <1>10, <1>l DEF PublishXml
  <2>3. rt' = WithScreen(rt, txn[c].screen) /\ rt'.revision = rt.revision
    BY <1>10 DEF PublishXml, WithScreen, TypeOK, Runtimes
  <2> QED
    BY <1>8, <1>10, <2>1, <2>2, <2>3 DEF PublishXml, ArtifactKinds
<1>11. ASSUME NEW c \in Callers, PersistRefresh(c) \/ RollbackRefresh(c)
       PROVE  LockOK' /\ CommitOK'
  <2>1. lock = c /\ lock' = None /\ txn' = [txn EXCEPT ![c] = None]
    BY <1>11 DEF PersistRefresh, RollbackRefresh, Set
  <2>2. LockOK'
    BY <1>n, <2>1 DEF LockOK, TypeOK
  <2> QED
    BY <2>1, <2>2 DEF CommitOK
<1>12. ASSUME Crash PROVE LockOK' /\ CommitOK'
  BY <1>12 DEF Crash, Restart, NoneEach, LockOK, CommitOK
<1>13. ASSUME NEW c \in Callers, Call(c) PROVE LockOK' /\ CommitOK'
  BY <1>1, <1>2, <1>4, <1>13
     DEF Call, CaptureLease, ChooseDevice, EstablishTransport, DiscardHandle,
         BeginConnect, ActivateConnect, FailConnect, Break, InvalidateCredentials,
         ReuseTransport, StartRebootstrap, CommitRebootstrap, LoseRebootstrap, Fetch,
         CallDevice, AttachScreenshot, DropScreenAuthority, callVars, runtimeVars
<1>14. ASSUME NEW c \in Callers, Refresh(c) PROVE LockOK' /\ CommitOK'
  BY <1>5, <1>6, <1>7, <1>9, <1>10, <1>11, <1>14 DEF Refresh
<1>15. ASSUME Lifecycle PROVE LockOK' /\ CommitOK'
  BY <1>1, <1>12, <1>15
     DEF Lifecycle, NormalizeStaleReady, CloseRuntime, InvalidateRuntime, callVars
<1> QED
  BY <1>13, <1>14, <1>15 DEF Next

\* What the operators on runtimes keep: none of them touches the sequence or the
\* lifecycle revision, and those that drop the screen leave a runtime that is not ready
\* and holds nothing new.
LEMMA RuntimeFields ==
    ASSUME NEW r \in Runtimes
    PROVE  /\ \A q \in {WithoutScreen(r), Cleared(r), Normalized(r)}
                 \cup {WithoutAuthority(r, discard) : discard \in BOOLEAN} :
                /\ q.sequence = r.sequence /\ q.revision = r.revision
                /\ q.screen = None /\ q.attached = None
                /\ q.connection \in {None, r.connection}
           /\ \A q \in {Normalized(r)}
                 \cup {WithoutAuthority(r, discard) : discard \in BOOLEAN} :
                q.status # "ready"
           /\ Cleared(r).connection = None /\ Cleared(r).token = None
           /\ Cleared(r).status = r.status
<1>1. /\ WithoutScreen(r).sequence = r.sequence /\ WithoutScreen(r).revision = r.revision
      /\ WithoutScreen(r).screen = None /\ WithoutScreen(r).attached = None
      /\ WithoutScreen(r).connection = r.connection /\ WithoutScreen(r).status = r.status
  BY DEF WithoutScreen, Runtimes
<1>2. \A q \in Runtimes :
        /\ WithoutDevice(q).sequence = q.sequence /\ WithoutDevice(q).revision = q.revision
        /\ WithoutDevice(q).screen = q.screen /\ WithoutDevice(q).attached = q.attached
        /\ WithoutDevice(q).connection = None /\ WithoutDevice(q).token = None
        /\ WithoutDevice(q).status = q.status
  BY DEF WithoutDevice, Runtimes
<1>3. WithoutScreen(r) \in Runtimes /\ Cleared(r) \in Runtimes
  BY RuntimeParts
<1>4. /\ Cleared(r).sequence = r.sequence /\ Cleared(r).revision = r.revision
      /\ Cleared(r).screen = None /\ Cleared(r).attached = None
      /\ Cleared(r).connection = None /\ Cleared(r).token = None
      /\ Cleared(r).status = r.status
  BY <1>1, <1>2, <1>3 DEF Cleared
<1>5. ASSUME NEW q \in Runtimes, NEW s \in Statuses
      PROVE  LET u == [q EXCEPT !.status = s] IN
             /\ u.sequence = q.sequence /\ u.revision = q.revision
             /\ u.screen = q.screen /\ u.attached = q.attached
             /\ u.connection = q.connection /\ u.status = s
  BY DEF Runtimes
<1>6. /\ Normalized(r).sequence = r.sequence /\ Normalized(r).revision = r.revision
      /\ Normalized(r).screen = None /\ Normalized(r).attached = None
      /\ Normalized(r).connection \in {None, r.connection}
      /\ Normalized(r).status # "ready"
  BY <1>1, <1>3, <1>4, <1>5 DEF Normalized, Statuses
<1>7. ASSUME NEW discard \in BOOLEAN
      PROVE  LET u == WithoutAuthority(r, discard) IN
             /\ u.sequence = r.sequence /\ u.revision = r.revision
             /\ u.screen = None /\ u.attached = None
             /\ u.connection \in {None, r.connection} /\ u.status # "ready"
  <2>1. ASSUME NEW t, NEW k
        PROVE  LET u == [WithoutScreen(r) EXCEPT
                           !.transport = t, !.capabilities = k, !.status = "connected"] IN
               /\ u.sequence = r.sequence /\ u.revision = r.revision
               /\ u.screen = None /\ u.attached = None
               /\ u.connection = r.connection /\ u.status = "connected"
    BY <1>1, <1>3 DEF Runtimes
  <2>2. CASE discard
    BY <2>1, <2>2, <1>3, <1>4, <1>5 DEF WithoutAuthority, Statuses
  <2>3. CASE ~discard
    BY <2>1, <2>3, <1>3, <1>4, <1>5 DEF WithoutAuthority, Statuses
  <2> QED
    BY <2>2, <2>3
<1> QED
  BY <1>1, <1>4, <1>6, <1>7

\* The runtime under a commit is the one that was saved, up to its screen.
LEMMA CommittingRuntime ==
    ASSUME KernelInv
    PROVE  /\ Settled \in Runtimes
           /\ Settled.revision = rt.revision
           /\ Settled.connection = rt.connection
           /\ Settled.token = rt.token
           /\ Settled.transport = rt.transport
           /\ Settled.capabilities = rt.capabilities
<1>1. CASE LockFree
  BY <1>1 DEF Settled, KernelInv, TypeOK
<1>2. CASE ~LockFree
  <2>1. /\ txn[lock] \in Refreshes /\ txn[lock].saved \in Runtimes
        /\ \/ rt = txn[lock].saved
           \/ rt = WithScreen(txn[lock].saved, txn[lock].screen)
    BY <1>2 DEF LockFree, KernelInv, TypeOK, LockOK, CommitOK, Maybe
  <2>2. \A r \in Runtimes : \A q :
          /\ WithScreen(r, q).revision = r.revision
          /\ WithScreen(r, q).connection = r.connection
          /\ WithScreen(r, q).token = r.token
          /\ WithScreen(r, q).transport = r.transport
          /\ WithScreen(r, q).capabilities = r.capabilities
    BY DEF WithScreen, Runtimes
  <2> QED
    BY <1>2, <2>1, <2>2 DEF Settled
<1> QED
  BY <1>1, <1>2

\* Nobody holds a lease of the future, and refreshes keep the lease of their caller.
LEMMA LeaseStep ==
    ASSUME KernelInv, Next
    PROVE  LeaseOK'
<1> USE DEF KernelInv, LeaseOK, InCall
<1>t. /\ rt \in Runtimes /\ rt.revision \in Revisions
      /\ lease \in [Callers -> Maybe(Revisions)] /\ txn \in [Callers -> Maybe(Refreshes)]
  BY DEF TypeOK, Runtimes
<1>1. ASSUME UNCHANGED <<lease, txn>>, rt'.revision = rt.revision PROVE LeaseOK'
  BY <1>1
<1>2. ASSUME NEW c \in Callers, CaptureLease(c) PROVE LeaseOK'
  <2>1. rt' = rt /\ txn' = txn /\ lease' = [lease EXCEPT ![c] = rt.revision] /\ lease[c] = None
    BY <1>2 DEF CaptureLease, Set, runtimeVars
  <2>2. txn[c] = None
    BY <2>1
  <2>3. rt.revision <= rt.revision
    BY <1>t DEF Revisions
  <2> QED
    BY <1>t, <2>1, <2>2, <2>3
<1>3. ASSUME NEW c \in Callers, EndCall(c) PROVE LeaseOK'
  BY <1>t, <1>3 DEF EndCall, Set, runtimeVars
<1>4. ASSUME NEW c \in Callers, NEW v, txn' = [txn EXCEPT ![c] = v],
             v # None => InCall(c) /\ v.screen.lease = lease[c],
             lease' = lease, rt'.revision = rt.revision
      PROVE  LeaseOK'
  BY <1>t, <1>4
<1>5. ASSUME NEW c \in Callers, CaptureBasis(c) PROVE LeaseOK'
  BY <1>4, <1>5 DEF CaptureBasis, LeaseCurrent, Set, runtimeVars
<1>6. ASSUME NEW c \in Callers, DiscardRefresh(c) PROVE LeaseOK'
  BY <1>4, <1>6 DEF DiscardRefresh, Set, runtimeVars
<1>7. ASSUME NEW c \in Callers, StartCommit(c) PROVE LeaseOK'
  <2>1. txn[c] \in Refreshes /\ txn[c] # None
    BY <1>t, <1>7 DEF StartCommit, Maybe
  <2> DEFINE t == [txn[c] EXCEPT !.phase = "json", !.saved = rt]
  <2>2. txn' = [txn EXCEPT ![c] = t]
    BY <1>t, <1>7 DEF StartCommit
  <2>3. t.screen = txn[c].screen
    BY <2>1 DEF Refreshes
  <2> HIDE DEF t
  <2>4. lease' = lease /\ rt' = rt
    BY <1>7 DEF StartCommit, runtimeVars
  <2> QED
    BY <1>4, <2>1, <2>2, <2>3, <2>4
<1>l. ASSUME NEW c \in Callers, lock = c
      PROVE  txn[c] \in Refreshes /\ txn[c] # None
  BY <1>l, <1>t, NoneAssumption DEF LockOK, Maybe
<1>8. ASSUME NEW c \in Callers, NEW kind \in ArtifactKinds, NEW next \in {"xml", "persist"},
             lock = c, Publish(c, kind, next), lease' = lease, rt'.revision = rt.revision
      PROVE  LeaseOK'
  <2> DEFINE t == [txn[c] EXCEPT !.phase = next,
                     !.backup[kind] = files[kind][txn[c].screen.sequence]]
  <2>1. txn' = [txn EXCEPT ![c] = t]
    BY <1>t, <1>8 DEF Publish
  <2>2. t.screen = txn[c].screen
    BY <1>8, <1>l DEF Refreshes
  <2> HIDE DEF t
  <2> QED
    BY <1>4, <1>8, <1>l, <2>1, <2>2
<1>9. ASSUME NEW c \in Callers, PublishJson(c) \/ PublishXml(c) PROVE LeaseOK'
  <2>1. \A q : WithScreen(rt, q).revision = rt.revision
    BY <1>t DEF WithScreen, Runtimes
  <2> QED
    BY <1>8, <1>9, <2>1 DEF PublishJson, PublishXml, ArtifactKinds
<1>10. ASSUME NEW c \in Callers, PersistRefresh(c) \/ RollbackRefresh(c) PROVE LeaseOK'
  <2>1. lock = c => txn[c].saved.revision = rt.revision
    BY CommittingRuntime, NoneAssumption DEF Settled, LockFree
  <2> QED
    BY <1>4, <1>10, <2>1 DEF PersistRefresh, RollbackRefresh, Set
<1>11. ASSUME UNCHANGED <<lease, txn>>, rt'.revision = rt.revision + 1 PROVE LeaseOK'
  BY <1>t, <1>11 DEF Revisions, Maybe
<1>12. ASSUME Crash PROVE LeaseOK'
  BY <1>12 DEF Crash, Restart, NoneEach
<1>13. ASSUME NEW c \in Callers, NEW ok \in BOOLEAN,
              \/ BeginConnect(c, ok)
              \/ ActivateConnect(c, ok)
              \/ FailConnect(c, ok)
              \/ InvalidateCredentials(c, ok)
              \/ CommitRebootstrap(c, ok)
              \/ AttachScreenshot(c)
              \/ \E discard \in BOOLEAN : DropScreenAuthority(c, discard, ok)
       PROVE  LeaseOK'
  <2>1. /\ Cleared(rt) \in Runtimes /\ Cleared(rt).revision = rt.revision
        /\ \A discard \in BOOLEAN : WithoutAuthority(rt, discard).revision = rt.revision
    BY <1>t, RuntimeParts, RuntimeFields
  <2>2. rt'.revision = rt.revision
    <3>1. ASSUME BeginConnect(c, ok) PROVE rt'.revision = rt.revision
      BY <2>1, <3>1 DEF BeginConnect, Connecting, Runtimes
    <3>2. ASSUME FailConnect(c, ok) \/ InvalidateCredentials(c, ok)
          PROVE  rt'.revision = rt.revision
      BY <2>1, <3>2 DEF FailConnect, InvalidateCredentials, Break, Become, Runtimes
    <3>3. ASSUME \/ ActivateConnect(c, ok)
                 \/ CommitRebootstrap(c, ok)
                 \/ AttachScreenshot(c)
          PROVE  rt'.revision = rt.revision
      BY <1>t, <3>3 DEF ActivateConnect, Activated, CommitRebootstrap, Rebootstrapped,
                        AttachScreenshot, Runtimes
    <3>4. ASSUME NEW discard \in BOOLEAN, DropScreenAuthority(c, discard, ok)
          PROVE  rt'.revision = rt.revision
      BY <2>1, <3>4 DEF DropScreenAuthority, Become
    <3> QED
      BY <1>13, <3>1, <3>2, <3>3, <3>4
  <2> QED
    BY <1>1, <1>13, <2>2
       DEF BeginConnect, ActivateConnect, FailConnect, InvalidateCredentials,
           CommitRebootstrap, AttachScreenshot, DropScreenAuthority, callVars
<1>14. ASSUME NEW c \in Callers, Call(c) PROVE LeaseOK'
  BY <1>1, <1>2, <1>3, <1>13, <1>14
     DEF Call, ChooseDevice, EstablishTransport, DiscardHandle, ReuseTransport,
         StartRebootstrap, LoseRebootstrap, Fetch, CallDevice, runtimeVars
<1>15. ASSUME NEW c \in Callers, Refresh(c) PROVE LeaseOK'
  BY <1>5, <1>6, <1>7, <1>9, <1>10, <1>15 DEF Refresh
<1>16. ASSUME Lifecycle PROVE LeaseOK'
  <2>1. /\ Cleared(rt) \in Runtimes /\ Cleared(rt).revision = rt.revision
        /\ Normalized(rt).revision = rt.revision
    BY <1>t, RuntimeParts, RuntimeFields
  <2>2. /\ Closed(rt).revision = rt.revision + 1
        /\ [Cleared(rt) EXCEPT !.revision = @ + 1].revision = rt.revision + 1
    BY <2>1 DEF Closed, Runtimes
  <2>3. ASSUME NEW ok \in BOOLEAN, NormalizeStaleReady(ok) PROVE LeaseOK'
    BY <1>1, <2>1, <2>3 DEF NormalizeStaleReady, Become, callVars
  <2>4. ASSUME NEW ok \in BOOLEAN, CloseRuntime(ok) PROVE LeaseOK'
    BY <1>11, <2>2, <2>4 DEF CloseRuntime, Become, callVars
  <2>5. ASSUME InvalidateRuntime PROVE LeaseOK'
    BY <1>11, <2>2, <2>5 DEF InvalidateRuntime, Become, callVars
  <2> QED
    BY <1>12, <1>16, <2>3, <2>4, <2>5 DEF Lifecycle
<1> QED
  BY <1>14, <1>15, <1>16 DEF Next

-----------------------------------------------------------------------------
(* What the runtime and the files settle to *)

\* What a step that runs outside any commit may leave behind.
LEMMA SettledOutsideCommit ==
    ASSUME KernelInv, LockFree, lock' = lock, files' = files,
           NEW r \in Runtimes, rt' = r,
           r.sequence = rt.sequence,
           disk' \in {disk, Persisted(r)},
           \A item \in {r.connection, r.screen, r.attached} :
               item # None => item.lease = r.revision,
           HasAuthoritativeScreen(r) =>
               HasAuthoritativeScreen(rt) /\ r.screen = rt.screen
    PROVE  SettledOK'
<1>1. Settled = rt /\ SettledFiles = files /\ Settled' = r /\ SettledFiles' = files
  BY DEF Settled, SettledFiles, LockFree
<1>2. Persisted(r).sequence = r.sequence /\ Persisted(r) # None
  <2>1. Persisted(r) \in RuntimeFiles
    BY RuntimeRoundTrip
  <2> QED
    BY <2>1, NoneAssumption DEF Persisted
<1>3. r.sequence = (IF disk' = None THEN 0 ELSE disk'.sequence)
  BY <1>1, <1>2 DEF KernelInv, SettledOK
<1>4. HasAuthoritativeScreen(r) => \A k \in ArtifactKinds : files[k][r.sequence] = r.screen
  BY <1>1 DEF KernelInv, SettledOK
<1> QED
  BY <1>1, <1>3, <1>4 DEF SettledOK

\* The first file operations of a commit do not change what a rollback goes back to.
LEMMA SettledPublish ==
    ASSUME KernelInv, NEW c \in Callers, lock = c, lock' = lock,
           NEW kind \in ArtifactKinds, NEW next \in {"xml", "persist"},
           Publish(c, kind, next), kind \notin Replaced(txn[c].phase),
           Replaced(next) = Replaced(txn[c].phase) \cup {kind}
    PROVE  Settled' = Settled /\ SettledFiles' = SettledFiles
<1> DEFINE s == txn[c].screen
           b == files[kind][s.sequence]
           backup == [txn[c].backup EXCEPT ![kind] = b]
           t == [txn[c] EXCEPT !.phase = next, !.backup = backup]
<1>0. None \notin Callers
  BY NoneAssumption
<1>1. txn[c] \in Refreshes /\ s \in Screens /\ s.sequence \in Sequences
  <2>1. txn[c] \in Refreshes
    BY <1>0 DEF KernelInv, LockOK, TypeOK, Maybe
  <2> QED
    BY <2>1 DEF Refreshes, Screens
<1>2. txn'[c] = t
  BY <1>1 DEF Publish, KernelInv, TypeOK, Refreshes
<1>3. /\ t.phase = next /\ t.screen = s /\ t.saved = txn[c].saved
      /\ t.backup = backup /\ backup[kind] = b
      /\ \A k \in ArtifactKinds \ {kind} : backup[k] = txn[c].backup[k]
  BY <1>1 DEF Refreshes
<1>4. files' = [files EXCEPT ![kind] = [files[kind] EXCEPT ![s.sequence] = s]]
  BY DEF Publish, KernelInv, TypeOK, ArtifactFiles
<1>5. \A k \in ArtifactKinds \ {kind} : files'[k] = files[k]
  BY <1>4 DEF KernelInv, TypeOK, ArtifactFiles
<1>6. [files'[kind] EXCEPT ![s.sequence] = b] = files[kind]
  <2>1. files[kind] \in [Sequences -> Maybe(Screens)]
    BY DEF KernelInv, TypeOK, ArtifactFiles
  <2>2. files'[kind] = [files[kind] EXCEPT ![s.sequence] = s]
    BY <1>4 DEF KernelInv, TypeOK, ArtifactFiles
  <2> QED
    BY <1>1, <2>1, <2>2
<1> HIDE DEF s, b, backup, t
<1> DEFINE before == [k \in ArtifactKinds |->
                        IF k \in Replaced(txn[c].phase)
                        THEN [files[k] EXCEPT ![s.sequence] = txn[c].backup[k]]
                        ELSE files[k]]
           after == [k \in ArtifactKinds |->
                       IF k \in Replaced(next)
                       THEN [files'[k] EXCEPT ![s.sequence] = backup[k]]
                       ELSE files'[k]]
<1>7. SettledFiles = before
  BY <1>0 DEF SettledFiles, RolledBack, LockFree, s
<1>8. SettledFiles' = after
  BY <1>0, <1>2, <1>3 DEF SettledFiles, RolledBack, LockFree
<1>9. before[kind] = files[kind] /\ after[kind] = files[kind]
  BY <1>3, <1>6
<1>10. ASSUME NEW k \in ArtifactKinds \ {kind}
       PROVE  before[k] = after[k]
  BY <1>3, <1>5
<1>11. before = after
  BY <1>9, <1>10
<1>12. Settled' = Settled
  BY <1>0, <1>2, <1>3 DEF Settled, LockFree
<1> QED
  BY <1>7, <1>8, <1>11, <1>12

\* Whatever a step does, what the runtime settles to is current, at the sequence of
\* runtime.json, and published if it is authoritative.
LEMMA SettledStep ==
    ASSUME KernelInv, Next
    PROVE  SettledOK'
<1> USE DEF KernelInv
<1>n. None \notin Callers
  BY NoneAssumption
<1>t. /\ rt \in Runtimes /\ Cleared(rt) \in Runtimes
      /\ Settled \in Runtimes /\ Settled.revision = rt.revision
  BY CommittingRuntime, RuntimeParts DEF TypeOK
<1>s. LockFree =>
        \A item \in {rt.connection, rt.screen, rt.attached} :
            item # None => item.lease = rt.revision
  BY DEF Settled, SettledOK
<1>1. ASSUME UNCHANGED <<rt, disk, files, lock>>,
             LockFree \/ txn'[lock] = txn[lock]
      PROVE  SettledOK'
  BY <1>1 DEF SettledOK, Settled, SettledFiles, RolledBack, Replaced, LockFree
<1>2. ASSUME NEW c \in Callers, lock # c, NEW v, txn' = [txn EXCEPT ![c] = v],
             UNCHANGED <<rt, disk, files, lock>>
      PROVE  SettledOK'
  <2>1. LockFree \/ txn'[lock] = txn[lock]
    BY <1>2 DEF TypeOK, Maybe, LockFree
  <2> QED
    BY <1>1, <1>2, <2>1
<1>3. ASSUME LockFree, lock' = lock, files' = files, NEW ok \in BOOLEAN,
             NEW r \in Runtimes, rt' = r, Persist(r, ok), r.status # "ready",
             r.sequence = rt.sequence, r.screen = None, r.attached = None,
             r.connection = None \/ (r.connection = rt.connection /\ r.revision = rt.revision)
      PROVE  SettledOK'
  <2>1. ~HasAuthoritativeScreen(r)
    BY <1>3 DEF HasAuthoritativeScreen
  <2>2. disk' \in {disk, Persisted(r)}
    BY <1>3 DEF Persist
  <2> QED
    BY <1>3, <1>s, <2>1, <2>2, SettledOutsideCommit
<1>4. ASSUME NEW c \in Callers, NEW ok \in BOOLEAN, BeginConnect(c, ok) PROVE SettledOK'
  <2>1. Connecting(c) \in Runtimes
    <3>1. held[c] \in Maybe(Transports)
      BY DEF TypeOK
    <3> QED
      BY <1>t, <3>1 DEF Connecting, Runtimes, Statuses
  <2>2. /\ Connecting(c).status # "ready" /\ Connecting(c).sequence = rt.sequence
        /\ Connecting(c).screen = None /\ Connecting(c).attached = None
        /\ Connecting(c).connection = None
    <3>1. /\ Connecting(c).status = "bootstrapping"
          /\ Connecting(c).sequence = Cleared(rt).sequence
          /\ Connecting(c).screen = Cleared(rt).screen
          /\ Connecting(c).attached = Cleared(rt).attached
          /\ Connecting(c).connection = Cleared(rt).connection
      BY <1>t DEF Connecting, Runtimes
    <3> QED
      BY <1>t, <3>1, RuntimeFields
  <2> QED
    BY <1>3, <1>4, <2>1, <2>2 DEF BeginConnect
<1>5. ASSUME NEW c \in Callers, NEW ok \in BOOLEAN,
             ActivateConnect(c, ok) \/ CommitRebootstrap(c, ok)
      PROVE  SettledOK'
  <2> DEFINE r == IF ActivateConnect(c, ok) THEN Activated(c) ELSE Rebootstrapped(c)
  <2>1. /\ LockFree /\ lock' = lock /\ files' = files /\ rt' = r /\ Persist(r, ok)
        /\ lease[c] = rt.revision
    BY <1>5 DEF ActivateConnect, CommitRebootstrap, LeaseCurrent
  <2>2. r \in Runtimes
    BY <2>1, TypeStep DEF TypeOK
  <2>3. /\ r.sequence = rt.sequence /\ r.revision = rt.revision
        /\ r.screen = rt.screen /\ r.attached = rt.attached
        /\ r.connection.lease = rt.revision
        /\ r.status = rt.status \/ r.status = "connected"
    BY <1>t, <2>1 DEF Activated, Rebootstrapped, Runtimes
  <2>4. disk' \in {disk, Persisted(r)}
    BY <2>1 DEF Persist
  <2>5. HasAuthoritativeScreen(r) => HasAuthoritativeScreen(rt) /\ r.screen = rt.screen
    BY <2>3 DEF HasAuthoritativeScreen
  <2>6. \A item \in {r.connection, r.screen, r.attached} :
          item # None => item.lease = r.revision
    BY <1>s, <2>1, <2>3
  <2> HIDE DEF r
  <2> QED
    BY <2>1, <2>2, <2>3, <2>4, <2>5, <2>6, SettledOutsideCommit
<1>6. ASSUME NEW c \in Callers, NEW ok \in BOOLEAN,
             FailConnect(c, ok) \/ InvalidateCredentials(c, ok)
      PROVE  SettledOK'
  <2> DEFINE r == [Cleared(rt) EXCEPT !.status = "broken"]
  <2>1. LockFree /\ lock' = lock /\ files' = files /\ rt' = r /\ Persist(r, ok)
    BY <1>6 DEF FailConnect, InvalidateCredentials, Break, Become
  <2>2. r \in Runtimes
    BY <2>1, TypeStep DEF TypeOK
  <2>3. /\ r.status # "ready" /\ r.sequence = Cleared(rt).sequence
        /\ r.screen = Cleared(rt).screen /\ r.attached = Cleared(rt).attached
        /\ r.connection = Cleared(rt).connection
    BY <1>t DEF Runtimes
  <2> HIDE DEF r
  <2> QED
    BY <1>3, <1>t, <2>1, <2>2, <2>3, RuntimeFields
<1>7. ASSUME NEW c \in Callers, AttachScreenshot(c) PROVE SettledOK'
  <2>1. /\ LockFree /\ lock' = lock /\ files' = files /\ disk' = disk
        /\ lease[c] = rt.revision /\ rt' \in Runtimes
    BY <1>7, TypeStep DEF AttachScreenshot, LeaseCurrent, TypeOK
  <2>2. /\ rt'.sequence = rt.sequence /\ rt'.revision = rt.revision
        /\ rt'.screen = rt.screen /\ rt'.connection = rt.connection
        /\ rt'.attached.lease = rt.revision /\ rt'.status = rt.status
    BY <1>t, <1>7, <2>1 DEF AttachScreenshot, Runtimes
  <2>3. HasAuthoritativeScreen(rt') => HasAuthoritativeScreen(rt)
    BY <2>2 DEF HasAuthoritativeScreen
  <2>4. \A item \in {rt'.connection, rt'.screen, rt'.attached} :
          item # None => item.lease = rt'.revision
    BY <1>s, <2>1, <2>2
  <2> QED
    BY <2>1, <2>2, <2>3, <2>4, SettledOutsideCommit
<1>8. ASSUME NEW c \in Callers, NEW discard \in BOOLEAN, NEW ok \in BOOLEAN,
             DropScreenAuthority(c, discard, ok)
      PROVE  SettledOK'
  <2> DEFINE r == WithoutAuthority(rt, discard)
  <2>1. LockFree /\ lock' = lock /\ files' = files /\ rt' = r /\ Persist(r, ok)
    BY <1>8 DEF DropScreenAuthority, Become
  <2>2. /\ r \in Runtimes /\ r.status # "ready" /\ r.sequence = rt.sequence
        /\ r.revision = rt.revision /\ r.screen = None /\ r.attached = None
        /\ r.connection \in {None, rt.connection}
    <3>1. r \in {WithoutAuthority(rt, d) : d \in BOOLEAN}
      OBVIOUS
    <3>2. r \in Runtimes
      BY <1>t, RuntimeParts
    <3> HIDE DEF r
    <3> QED
      BY <1>t, <3>1, <3>2, RuntimeFields
  <2> HIDE DEF r
  <2> QED
    BY <1>3, <2>1, <2>2
<1>9. ASSUME NEW c \in Callers, StartCommit(c) PROVE SettledOK'
  <2>1. /\ lock = None /\ lock' = c /\ UNCHANGED <<rt, disk, files>> /\ c # None
        /\ txn[c] \in Refreshes
    BY <1>9, <1>n DEF StartCommit, LockFree, runtimeVars, TypeOK, Maybe
  <2>2. txn'[c].saved = rt /\ txn'[c].phase = "json"
    BY <1>9, <2>1 DEF StartCommit, TypeOK, Refreshes
  <2>3. Settled' = Settled
    BY <2>1, <2>2 DEF Settled, LockFree
  <2>4. SettledFiles' = SettledFiles
    <3>1. Replaced(txn'[c].phase) = {}
      BY <2>2 DEF Replaced
    <3>2. SettledFiles' = [k \in ArtifactKinds |-> files[k]]
      BY <2>1, <3>1 DEF SettledFiles, LockFree, RolledBack
    <3> QED
      BY <2>1, <3>2 DEF SettledFiles, LockFree, TypeOK, ArtifactFiles
  <2> QED
    BY <2>1, <2>3, <2>4 DEF SettledOK
<1>10. ASSUME NEW c \in Callers, PublishJson(c) \/ PublishXml(c) PROVE SettledOK'
  <2>1. /\ Replaced("json") = {} /\ Replaced("xml") = {"json"}
        /\ Replaced("persist") = {"json", "xml"}
    BY DEF Replaced, ArtifactKinds
  <2>2. Settled' = Settled /\ SettledFiles' = SettledFiles
    BY <1>10, <2>1, SettledPublish DEF PublishJson, PublishXml, ArtifactKinds
  <2>3. disk' = disk
    BY <1>10 DEF PublishJson, PublishXml
  <2> QED
    BY <2>2, <2>3 DEF SettledOK
<1>11. ASSUME NEW c \in Callers, PersistRefresh(c) PROVE SettledOK'
  <2> DEFINE s == txn[c].screen
             b == txn[c].saved
  <2>1. /\ lock = c /\ lock' = None /\ txn[c] \in Refreshes /\ txn[c].phase = "persist"
        /\ rt' = rt /\ files' = files /\ disk' = Persisted(rt)
    BY <1>11, <1>n DEF PersistRefresh, Persist, LockOK, TypeOK, Maybe
  <2>2. /\ rt = WithScreen(b, s) /\ b \in Runtimes /\ s \in Screens
        /\ lease[c] = rt.revision /\ s.lease = lease[c]
        /\ \A k \in Replaced("persist") : files[k][s.sequence] = s
    BY <2>1, <1>n DEF CommitOK, LeaseOK, LockOK, Refreshes
  <2>3. /\ rt.sequence = s.sequence /\ rt.screen = s /\ rt.attached = None
        /\ rt.connection = b.connection /\ rt.revision = b.revision
    BY <2>2 DEF WithScreen, Runtimes
  <2>4. b.connection # None => b.connection.lease = b.revision
    BY <2>1, <1>n DEF SettledOK, Settled, LockFree
  <2>5. Persisted(rt).sequence = rt.sequence /\ Persisted(rt) # None
    BY <1>t, RuntimeRoundTrip, NoneAssumption DEF Persisted
  <2>6. Replaced("persist") = ArtifactKinds
    BY DEF Replaced
  <2> HIDE DEF s, b
  <2>7. Settled' = rt /\ SettledFiles' = files
    BY <2>1 DEF Settled, SettledFiles, LockFree
  <2>8. \A item \in {rt.connection, rt.screen, rt.attached} :
          item # None => item.lease = rt.revision
    BY <2>2, <2>3, <2>4
  <2>9. \A k \in ArtifactKinds : files[k][rt.sequence] = rt.screen
    BY <2>2, <2>3, <2>6
  <2> QED
    BY <2>1, <2>5, <2>7, <2>8, <2>9 DEF SettledOK
<1>12. ASSUME NEW c \in Callers, RollbackRefresh(c) PROVE SettledOK'
  <2>1. /\ lock = c /\ lock' = None /\ rt' = txn[c].saved /\ files' = RolledBack(txn[c])
        /\ disk' = disk
    BY <1>12 DEF RollbackRefresh
  <2>2. Settled' = Settled /\ SettledFiles' = SettledFiles
    BY <1>n, <2>1 DEF Settled, SettledFiles, LockFree
  <2> QED
    BY <2>1, <2>2 DEF SettledOK
<1>13. ASSUME NEW ok \in BOOLEAN, NormalizeStaleReady(ok) PROVE SettledOK'
  <2> DEFINE r == Normalized(rt)
  <2>1. LockFree /\ lock' = lock /\ files' = files /\ rt' = r /\ Persist(r, ok)
    BY <1>13 DEF NormalizeStaleReady, Become
  <2>2. /\ r \in Runtimes /\ r.status # "ready" /\ r.sequence = rt.sequence
        /\ r.revision = rt.revision /\ r.screen = None /\ r.attached = None
        /\ r.connection \in {None, rt.connection}
    BY <1>t, RuntimeParts, RuntimeFields
  <2> HIDE DEF r
  <2> QED
    BY <1>3, <2>1, <2>2
<1>14. ASSUME NEW ok \in BOOLEAN, CloseRuntime(ok) PROVE SettledOK'
  <2> DEFINE r == Closed(rt)
  <2>1. LockFree /\ lock' = lock /\ files' = files /\ rt' = r /\ Persist(r, ok)
    BY <1>14 DEF CloseRuntime, Become
  <2>2. r \in Runtimes
    BY <2>1, TypeStep DEF TypeOK
  <2>3. /\ r.status # "ready" /\ r.sequence = Cleared(rt).sequence
        /\ r.screen = Cleared(rt).screen /\ r.attached = Cleared(rt).attached
        /\ r.connection = Cleared(rt).connection
    BY <1>t DEF Closed, Runtimes
  <2> HIDE DEF r
  <2> QED
    BY <1>3, <1>t, <2>1, <2>2, <2>3, RuntimeFields
<1>15. ASSUME InvalidateRuntime PROVE SettledOK'
  <2> DEFINE r == [Cleared(rt) EXCEPT !.revision = @ + 1]
  <2>1. LockFree /\ lock' = lock /\ files' = files /\ rt' = r /\ disk' = disk
    BY <1>15 DEF InvalidateRuntime, Become
  <2>2. r \in Runtimes
    BY <2>1, TypeStep DEF TypeOK
  <2>3. /\ r.sequence = rt.sequence /\ r.screen = None /\ r.attached = None
        /\ r.connection = None
    <3>1. /\ r.sequence = Cleared(rt).sequence /\ r.screen = Cleared(rt).screen
          /\ r.attached = Cleared(rt).attached /\ r.connection = Cleared(rt).connection
      BY <1>t DEF Runtimes
    <3> QED
      BY <1>t, <3>1, RuntimeFields
  <2> HIDE DEF r
  <2> QED
    BY <2>1, <2>2, <2>3, SettledOutsideCommit DEF HasAuthoritativeScreen
<1>16. ASSUME Crash PROVE SettledOK'
  <2>1. lock' = None /\ rt' = Loaded(disk) /\ disk' = disk
    BY <1>16 DEF Crash, Restart
  <2>2. /\ Loaded(disk).status # "ready" /\ Loaded(disk).connection = None
        /\ Loaded(disk).screen = None /\ Loaded(disk).attached = None
        /\ Loaded(disk).sequence = (IF disk = None THEN 0 ELSE disk.sequence)
    BY DEF Loaded, TypeOK, Maybe, RuntimeFiles
  <2> QED
    BY <2>1, <2>2 DEF SettledOK, Settled, LockFree, HasAuthoritativeScreen
<1>17. ASSUME NEW c \in Callers, Call(c) PROVE SettledOK'
  <2>1. ASSUME \/ CaptureLease(c)
               \/ \E d \in Devices : ChooseDevice(c, d)
               \/ \E p \in Ports : EstablishTransport(c, p)
               \/ DiscardHandle(c)
               \/ ReuseTransport(c)
               \/ StartRebootstrap(c)
               \/ LoseRebootstrap(c)
               \/ \E s \in Snapshots : Fetch(c, s)
               \/ CallDevice(c)
        PROVE  SettledOK'
    BY <1>1, <2>1
       DEF CaptureLease, ChooseDevice, EstablishTransport, DiscardHandle, ReuseTransport,
           StartRebootstrap, LoseRebootstrap, Fetch, CallDevice, runtimeVars
  <2>2. ASSUME EndCall(c) PROVE SettledOK'
    BY <1>2, <2>2 DEF EndCall, Set, runtimeVars
  <2> QED
    BY <1>4, <1>5, <1>6, <1>7, <1>8, <1>17, <2>1, <2>2 DEF Call
<1>18. ASSUME NEW c \in Callers, Refresh(c) PROVE SettledOK'
  <2>1. ASSUME CaptureBasis(c) PROVE SettledOK'
    BY <1>2, <1>n, <2>1 DEF CaptureBasis, LockFree, Set, runtimeVars
  <2>2. ASSUME DiscardRefresh(c) PROVE SettledOK'
    <3>1. lock # c
      BY <2>2 DEF DiscardRefresh, LockOK
    <3> QED
      BY <1>2, <2>2, <3>1 DEF DiscardRefresh, Set, runtimeVars
  <2> QED
    BY <1>9, <1>10, <1>11, <1>12, <1>18, <2>1, <2>2 DEF Refresh
<1>19. ASSUME Lifecycle PROVE SettledOK'
  BY <1>13, <1>14, <1>15, <1>16, <1>19 DEF Lifecycle
<1> QED
  BY <1>17, <1>18, <1>19 DEF Next

\* A runtime that is ready without a screen stays without a device until a connect
\* attempt takes ready away.
LEMMA ReadyStep ==
    ASSUME KernelInv, Next
    PROVE  ReadyOK'
<1> USE DEF KernelInv
<1> DEFINE Bare(r) == r.status = "ready" /\ ~HasAuthoritativeScreen(r)
           Rebuilds(c) == Attempting(c, "rebootstrap") /\ LeaseCurrent(c)
<1>n. None \notin Callers
  BY NoneAssumption
<1>t. /\ rt \in Runtimes /\ Cleared(rt) \in Runtimes
      /\ Settled \in Runtimes /\ Settled.revision = rt.revision
      /\ Settled.connection = rt.connection /\ Settled.token = rt.token
  BY CommittingRuntime, RuntimeParts DEF TypeOK
<1>s. Bare(Settled) => /\ rt.connection = None /\ rt.token = None
                       /\ \A c \in Callers : ~Rebuilds(c)
  BY <1>t DEF ReadyOK
<1>1. ASSUME ~Bare(Settled') PROVE ReadyOK'
  BY <1>1 DEF ReadyOK
<1>2. ASSUME Settled' = Settled, rt'.revision = rt.revision,
             \A c \in Callers : Rebuilds(c)' => Rebuilds(c)
      PROVE  ReadyOK'
  BY <1>2 DEF ReadyOK
<1>3. ASSUME UNCHANGED <<rt, lock>>, LockFree \/ txn'[lock].saved = txn[lock].saved
      PROVE  Settled' = Settled
  BY <1>3 DEF Settled, LockFree
<1>4. ASSUME UNCHANGED <<rt, lock, txn>>,
             \A c \in Callers : Rebuilds(c)' => Rebuilds(c)
      PROVE  ReadyOK'
  BY <1>2, <1>3, <1>4 DEF Settled, LockFree
<1>5. ASSUME UNCHANGED <<target, lease, rt>> PROVE \A c \in Callers : Rebuilds(c)' => Rebuilds(c)
  BY <1>5 DEF Attempting, LeaseCurrent
<1>6. ASSUME NEW c \in Callers, NEW v, target' = [target EXCEPT ![c] = v],
             v # None => v.attempt # "rebootstrap", UNCHANGED <<lease, rt>>
      PROVE  \A b \in Callers : Rebuilds(b)' => Rebuilds(b)
  BY <1>6 DEF Attempting, LeaseCurrent, TypeOK
<1>7. ASSUME NEW c \in Callers, CaptureLease(c) PROVE ReadyOK'
  <2>1. target' = target /\ rt' = rt /\ target[c] = None
    BY <1>7 DEF CaptureLease, AttemptOK, runtimeVars
  <2>2. \A b \in Callers \ {c} : lease'[b] = lease[b]
    BY <1>7 DEF CaptureLease, Set, TypeOK
  <2>3. \A b \in Callers : Rebuilds(b)' => Rebuilds(b)
    BY <2>1, <2>2 DEF Attempting, LeaseCurrent
  <2> QED
    BY <1>4, <1>7, <2>3 DEF CaptureLease, runtimeVars
<1>8. ASSUME NEW c \in Callers, EndCall(c) PROVE ReadyOK'
  <2>1. /\ UNCHANGED <<rt, lock>> /\ lock # c /\ txn' = [txn EXCEPT ![c] = None]
        /\ target' = [target EXCEPT ![c] = None] /\ lease' = [lease EXCEPT ![c] = None]
    BY <1>8 DEF EndCall, Set, runtimeVars
  <2>2. LockFree \/ txn'[lock].saved = txn[lock].saved
    BY <2>1 DEF LockFree, TypeOK, Maybe
  <2>3. \A b \in Callers : Rebuilds(b)' => Rebuilds(b)
    BY <2>1 DEF Attempting, LeaseCurrent, TypeOK
  <2>4. Settled' = Settled
    BY <1>3, <2>1, <2>2
  <2> QED
    BY <1>2, <2>1, <2>3, <2>4
<1>9. ASSUME NEW c \in Callers, NEW d \in Devices, ChooseDevice(c, d) PROVE ReadyOK'
  BY <1>4, <1>6, <1>9 DEF ChooseDevice, Set, runtimeVars
<1>10. ASSUME NEW c \in Callers, DiscardHandle(c) \/ LoseRebootstrap(c) PROVE ReadyOK'
  BY <1>4, <1>6, <1>10 DEF DiscardHandle, LoseRebootstrap, Set
<1>11. ASSUME NEW c \in Callers, StartRebootstrap(c) PROVE ReadyOK'
  <2>1. rt.connection # None /\ LockFree /\ lock' = lock /\ rt' = rt
    BY <1>11 DEF StartRebootstrap, runtimeVars
  <2>2. Settled = rt /\ Settled' = rt
    BY <2>1 DEF Settled, LockFree
  <2>3. ~Bare(Settled')
    BY <1>s, <2>1, <2>2
  <2> HIDE DEF Bare
  <2> QED
    BY <1>1, <2>3
<1>12. ASSUME LockFree, lock' = lock, rt'.status # "ready" PROVE ReadyOK'
  BY <1>1, <1>12 DEF Settled, LockFree
<1>13. ASSUME NEW c \in Callers, NEW ok \in BOOLEAN,
              BeginConnect(c, ok) \/ ActivateConnect(c, ok)
       PROVE  ReadyOK'
  <2>1. Connecting(c).status = "bootstrapping" /\ Activated(c).status = "connected"
    BY <1>t DEF Connecting, Activated, Runtimes
  <2> QED
    BY <1>12, <1>13, <2>1 DEF BeginConnect, ActivateConnect
<1>14. ASSUME NEW c \in Callers, NEW ok \in BOOLEAN,
              FailConnect(c, ok) \/ InvalidateCredentials(c, ok)
       PROVE  ReadyOK'
  <2>1. [Cleared(rt) EXCEPT !.status = "broken"].status = "broken"
    BY <1>t DEF Runtimes
  <2> QED
    BY <1>12, <1>14, <2>1 DEF FailConnect, InvalidateCredentials, Break, Become
<1>15. ASSUME NEW c \in Callers, NEW ok \in BOOLEAN, CommitRebootstrap(c, ok) PROVE ReadyOK'
  <2>1. LockFree /\ lock' = lock /\ rt' = Rebootstrapped(c) /\ Rebuilds(c)
    BY <1>15 DEF CommitRebootstrap
  <2>2. Settled = rt /\ Settled' = rt'
    BY <2>1 DEF Settled, LockFree
  <2>3. /\ rt'.status = rt.status /\ rt'.screen = rt.screen
        /\ rt'.sequence = rt.sequence
    BY <1>t, <2>1 DEF Rebootstrapped, Runtimes
  <2>4. ~Bare(rt)
    BY <1>s, <2>1, <2>2
  <2>5. ~Bare(rt')
    BY <2>3, <2>4 DEF HasAuthoritativeScreen
  <2> QED
    BY <1>1, <2>2, <2>5
<1>16. ASSUME NEW c \in Callers, AttachScreenshot(c) PROVE ReadyOK'
  <2>1. /\ LockFree /\ lock' = lock /\ target' = target /\ lease' = lease
        /\ rt' = [rt EXCEPT !.attached =
                     [device |-> fetched[c].device, lease |-> lease[c]]]
    BY <1>16 DEF AttachScreenshot
  <2>2. /\ rt'.status = rt.status /\ rt'.screen = rt.screen /\ rt'.sequence = rt.sequence
        /\ rt'.connection = rt.connection /\ rt'.token = rt.token
        /\ rt'.revision = rt.revision
    BY <1>t, <2>1 DEF Runtimes
  <2>3. Settled = rt /\ Settled' = rt'
    BY <2>1 DEF Settled, LockFree
  <2>4. \A b \in Callers : Rebuilds(b)' => Rebuilds(b)
    BY <2>1, <2>2 DEF Attempting, LeaseCurrent
  <2>5. Bare(rt') => Bare(rt)
    BY <2>2 DEF HasAuthoritativeScreen
  <2> QED
    BY <1>s, <2>2, <2>3, <2>4, <2>5 DEF ReadyOK
<1>17. ASSUME NEW c \in Callers, NEW discard \in BOOLEAN, NEW ok \in BOOLEAN,
              DropScreenAuthority(c, discard, ok)
       PROVE  ReadyOK'
  <2>1. WithoutAuthority(rt, discard).status # "ready"
    BY <1>t, RuntimeFields
  <2> QED
    BY <1>12, <1>17, <2>1 DEF DropScreenAuthority, Become
<1>18. ASSUME NEW c \in Callers, CaptureBasis(c) \/ DiscardRefresh(c) PROVE ReadyOK'
  <2>1. UNCHANGED <<rt, lock, target, lease>> /\ (LockFree \/ txn'[lock] = txn[lock])
    <3>1. CASE CaptureBasis(c)
      BY <3>1 DEF CaptureBasis, runtimeVars
    <3>2. CASE DiscardRefresh(c)
      BY <3>2 DEF DiscardRefresh, runtimeVars, LockOK, LockFree, Set, TypeOK, Maybe
    <3> QED
      BY <1>18, <3>1, <3>2
  <2>2. Settled' = Settled
    BY <1>3, <2>1
  <2> QED
    BY <1>2, <1>5, <2>1, <2>2
<1>19. ASSUME NEW c \in Callers, StartCommit(c) PROVE ReadyOK'
  <2>1. /\ lock = None /\ lock' = c /\ UNCHANGED <<rt, target, lease>> /\ c # None
        /\ txn[c] \in Refreshes
    BY <1>19, <1>n DEF StartCommit, LockFree, runtimeVars, TypeOK, Maybe
  <2>2. txn'[c].saved = rt
    BY <1>19, <2>1 DEF StartCommit, TypeOK, Refreshes
  <2>3. Settled' = Settled
    BY <2>1, <2>2 DEF Settled, LockFree
  <2> QED
    BY <1>2, <1>5, <2>1, <2>3
<1>20. ASSUME NEW c \in Callers, PublishJson(c) \/ PublishXml(c) PROVE ReadyOK'
  <2>1. /\ Replaced("json") = {} /\ Replaced("xml") = {"json"}
        /\ Replaced("persist") = {"json", "xml"}
    BY DEF Replaced, ArtifactKinds
  <2>2. Settled' = Settled
    BY <1>20, <2>1, SettledPublish DEF PublishJson, PublishXml, ArtifactKinds
  <2>3. rt'.revision = rt.revision
    BY <1>t, <1>20 DEF PublishJson, PublishXml, WithScreen, Runtimes
  <2>4. \A b \in Callers : Rebuilds(b)' => Rebuilds(b)
    BY <1>20, <2>3 DEF PublishJson, PublishXml, Attempting, LeaseCurrent
  <2> QED
    BY <1>2, <2>2, <2>3, <2>4
<1>21. ASSUME NEW c \in Callers, PersistRefresh(c) PROVE ReadyOK'
  <2>1. /\ lock = c /\ lock' = None /\ txn[c] \in Refreshes /\ rt' = rt
        /\ txn[c].phase = "persist"
    BY <1>21, <1>n DEF PersistRefresh, LockOK, TypeOK, Maybe
  <2>2. rt = WithScreen(txn[c].saved, txn[c].screen) /\ txn[c].saved \in Runtimes
    BY <2>1, <1>n DEF CommitOK
  <2>3. HasAuthoritativeScreen(rt)
    <3>1. txn[c].screen # None
      BY <2>1, NoneAssumption DEF Refreshes
    <3> QED
      BY <2>2, <3>1 DEF WithScreen, Runtimes, HasAuthoritativeScreen
  <2>4. Settled' = rt
    BY <2>1 DEF Settled, LockFree
  <2> QED
    BY <1>1, <2>3, <2>4
<1>22. ASSUME NEW c \in Callers, RollbackRefresh(c) PROVE ReadyOK'
  <2>1. /\ lock = c /\ lock' = None /\ rt' = txn[c].saved
        /\ UNCHANGED <<target, lease>>
    BY <1>22 DEF RollbackRefresh
  <2>2. Settled' = Settled /\ rt' = Settled
    BY <1>n, <2>1 DEF Settled, LockFree
  <2>3. rt'.revision = rt.revision
    BY <1>t, <2>2
  <2>4. \A b \in Callers : Rebuilds(b)' => Rebuilds(b)
    BY <2>1, <2>3 DEF Attempting, LeaseCurrent
  <2> QED
    BY <1>2, <2>2, <2>3, <2>4
<1>23. ASSUME NEW ok \in BOOLEAN, NormalizeStaleReady(ok) PROVE ReadyOK'
  <2>1. Normalized(rt).status # "ready"
    BY <1>t, RuntimeFields
  <2> QED
    BY <1>12, <1>23, <2>1 DEF NormalizeStaleReady, Become
<1>24. ASSUME NEW ok \in BOOLEAN, CloseRuntime(ok) PROVE ReadyOK'
  <2>1. Closed(rt).status = "closed"
    BY <1>t DEF Closed, Runtimes
  <2> QED
    BY <1>12, <1>24, <2>1 DEF CloseRuntime, Become
<1>25. ASSUME InvalidateRuntime PROVE ReadyOK'
  <2>1. /\ LockFree /\ lock' = lock /\ rt' = [Cleared(rt) EXCEPT !.revision = @ + 1]
        /\ lease' = lease
    BY <1>25 DEF InvalidateRuntime, Become, callVars
  <2>2. /\ rt'.connection = None /\ rt'.token = None
        /\ rt'.revision = rt.revision + 1
    <3>1. /\ rt'.connection = Cleared(rt).connection /\ rt'.token = Cleared(rt).token
          /\ rt'.revision = Cleared(rt).revision + 1
      BY <1>t, <2>1 DEF Runtimes
    <3> QED
      BY <1>t, <3>1, RuntimeFields
  <2>3. \A c \in Callers : ~LeaseCurrent(c)'
    <3>1. rt.revision \in Nat /\ lease \in [Callers -> Maybe(Revisions)]
      BY <1>t DEF Runtimes, Revisions, TypeOK
    <3>2. ASSUME NEW c \in Callers, lease[c] # None
          PROVE  lease[c] \in Nat /\ lease[c] <= rt.revision
      BY <3>1, <3>2 DEF LeaseOK, InCall, Maybe, Revisions
    <3>3. ASSUME NEW c \in Callers, lease[c] # None
          PROVE  lease[c] # rt.revision + 1
      BY <3>1, <3>2, <3>3
    <3> QED
      BY <2>1, <2>2, <3>3 DEF LeaseCurrent
  <2>4. Settled' = rt'
    BY <2>1 DEF Settled, LockFree
  <2> QED
    BY <2>2, <2>3, <2>4 DEF ReadyOK
<1>26. ASSUME Crash PROVE ReadyOK'
  <2>1. lock' = None /\ rt' = Loaded(disk)
    BY <1>26 DEF Crash, Restart
  <2>2. Loaded(disk).status # "ready"
    BY DEF Loaded, TypeOK, Maybe, RuntimeFiles
  <2> QED
    BY <1>1, <2>1, <2>2 DEF Settled, LockFree
<1>27. ASSUME NEW c \in Callers, Call(c) PROVE ReadyOK'
  <2>1. ASSUME \/ \E p \in Ports : EstablishTransport(c, p)
               \/ ReuseTransport(c)
               \/ \E s \in Snapshots : Fetch(c, s)
               \/ CallDevice(c)
        PROVE  ReadyOK'
    BY <1>4, <1>5, <2>1
       DEF EstablishTransport, ReuseTransport, Fetch, CallDevice, runtimeVars
  <2> QED
    BY <1>7, <1>8, <1>9, <1>10, <1>11, <1>13, <1>14, <1>15, <1>16, <1>17, <1>27, <2>1
       DEF Call
<1>28. ASSUME NEW c \in Callers, Refresh(c) PROVE ReadyOK'
  BY <1>18, <1>19, <1>20, <1>21, <1>22, <1>28 DEF Refresh
<1>29. ASSUME Lifecycle PROVE ReadyOK'
  BY <1>23, <1>24, <1>25, <1>26, <1>29 DEF Lifecycle
<1> QED
  BY <1>27, <1>28, <1>29 DEF Next

-----------------------------------------------------------------------------
(* The theorems *)

\* A daemon starts in a state that satisfies the inductive invariant...
LEMMA KernelInit == Init => KernelInv
<1> SUFFICES ASSUME Init PROVE KernelInv
  OBVIOUS
<1>1. TypeOK
  <2>1. Loaded(None) \in Runtimes
    BY BoundAssumption
       DEF Loaded, Runtimes, Revisions, Statuses, Maybe
  <2> QED
    BY <2>1, BoundAssumption DEF Init, TypeOK, NoneEach, ArtifactFiles, Maybe
<1>2. AttemptOK /\ LockOK /\ CommitOK
  BY NoneAssumption DEF Init, NoneEach, AttemptOK, Attempting, LockOK, CommitOK
<1>3. LeaseOK
  BY DEF Init, NoneEach, LeaseOK, InCall
<1>4. Settled = Loaded(None)
  BY DEF Init, Settled, LockFree
<1>5. ReadyOK /\ SettledOK
  BY <1>4 DEF Init, ReadyOK, SettledOK, HasAuthoritativeScreen, Loaded
<1> QED
  BY <1>1, <1>2, <1>3, <1>5 DEF KernelInv

\* ...and no critical section, crash or failing write of the kernel breaks it.
LEMMA KernelStep == KernelInv /\ [Next]_kernelVars => KernelInv'
<1>1. ASSUME KernelInv, Next PROVE KernelInv'
  BY <1>1, TypeStep, AttemptStep, CommitStep, LeaseStep, ReadyStep, SettledStep
     DEF KernelInv
<1>2. ASSUME KernelInv, UNCHANGED kernelVars PROVE KernelInv'
  <2> USE <1>2 DEF KernelInv, kernelVars, runtimeVars, callVars
  <2>1. TypeOK'
    BY DEF TypeOK
  <2>2. AttemptOK' /\ LockOK' /\ CommitOK' /\ LeaseOK'
    BY DEF AttemptOK, Attempting, InCall, LockOK, CommitOK, Replaced, LeaseOK
  <2>3. Settled' = Settled /\ SettledFiles' = SettledFiles
    BY DEF Settled, SettledFiles, LockFree, RolledBack, Replaced
  <2>4. ReadyOK' /\ SettledOK'
    BY <2>3 DEF ReadyOK, SettledOK, Attempting, LeaseCurrent
  <2> QED
    BY <2>1, <2>2, <2>4
<1> QED
  BY <1>1, <1>2

\* Whatever threads do inside the kernel, in any number, and wherever writes fail or the
\* process dies, the inductive invariant holds.
THEOREM KernelInvariance == Spec => []KernelInv
BY KernelInit, KernelStep, PTL DEF Spec

\* Every variable keeps to its domain.
THEOREM KernelTypes == Spec => []TypeOK
<1>1. KernelInv => TypeOK
  BY DEF KernelInv
<1> QED
  BY <1>1, KernelInvariance, PTL

\* The runtime settles to itself once nobody is in a commit.
LEMMA SettledWhenFree ==
    KernelInv /\ LockFree => Settled = rt /\ SettledFiles = files
BY DEF Settled, SettledFiles

\* lifecycle_revision fences off all earlier callers, whatever they bring back late.
THEOREM LifecycleFence == Spec => []NothingOutlivesItsLifecycle
<1>1. KernelInv => NothingOutlivesItsLifecycle
  <2> SUFFICES ASSUME KernelInv PROVE NothingOutlivesItsLifecycle
    OBVIOUS
  <2>1. CASE LockFree
    BY <2>1, SettledWhenFree DEF KernelInv, SettledOK, NothingOutlivesItsLifecycle
  <2>2. CASE ~LockFree
    <3> DEFINE t == txn[lock]
    <3>1. /\ t \in Refreshes /\ t.saved \in Runtimes /\ lock \in Callers
          /\ t.screen.lease = lease[lock] /\ lease[lock] = rt.revision
          /\ rt = t.saved \/ rt = WithScreen(t.saved, t.screen)
      BY <2>2 DEF KernelInv, LockFree, TypeOK, LockOK, CommitOK, LeaseOK, Maybe
    <3>2. Settled = t.saved /\ t.saved.revision = rt.revision
      BY <2>2, CommittingRuntime DEF Settled
    <3>3. \A item \in {t.saved.connection, t.saved.screen, t.saved.attached} :
            item # None => item.lease = rt.revision
      BY <3>2 DEF KernelInv, SettledOK
    <3> HIDE DEF t
    <3>4. CASE rt = t.saved
      BY <3>3, <3>4 DEF NothingOutlivesItsLifecycle
    <3>5. CASE rt = WithScreen(t.saved, t.screen)
      <4>1. /\ rt.connection = t.saved.connection /\ rt.screen = t.screen
            /\ rt.attached = None
        BY <3>1, <3>5 DEF WithScreen, Runtimes
      <4> QED
        BY <3>1, <3>3, <4>1 DEF NothingOutlivesItsLifecycle
    <3> QED
      BY <3>1, <3>4, <3>5
  <2> QED
    BY <2>1, <2>2
<1> QED
  BY <1>1, KernelInvariance, PTL

\* Refreshes that overlap, fail halfway or die with the process never leave the current
\* screen without its artifacts.
THEOREM PublishedScreens == Spec => []AuthoritativeScreenIsPublished
<1>1. KernelInv => AuthoritativeScreenIsPublished
  BY SettledWhenFree DEF KernelInv, SettledOK, AuthoritativeScreenIsPublished
<1> QED
  BY <1>1, KernelInvariance, PTL

\* runtime.json is at the sequence of the runtime whenever the lock is free.
THEOREM PersistedSequence == Spec => []SequenceIsPersisted
<1>1. KernelInv => SequenceIsPersisted
  BY SettledWhenFree DEF KernelInv, SettledOK, SequenceIsPersisted
<1> QED
  BY <1>1, KernelInvariance, PTL

\* The stale-ready branch of normalize_stale_ready_runtime that keeps the device is
\* never taken.
THEOREM StaleReadyIsBare == Spec => []StaleReadyHasNoDevice
<1>1. KernelInv => StaleReadyHasNoDevice
  BY SettledWhenFree DEF KernelInv, ReadyOK, StaleReadyHasNoDevice, HasDevice
<1> QED
  BY <1>1, KernelInvariance, PTL
=============================================================================
