-------------------------- MODULE ActiveSlot_proofs --------------------------
(***************************************************************************)
(* active.lock excludes while nobody dies, even while others stop.  While  *)
(* none is told to stop either, one daemon at a time runs the workspace    *)
(* and active.json names it, until a publication whose probe times out     *)
(* overlooks it: however many start at once, whichever of them evicts      *)
(* whose lock, and however many other probes time out.                     *)
(***************************************************************************)
EXTENDS ActiveSlot, TLAPS

\* No daemon is killed, and a process that ends does so while nobody looks at its
\* pid.  Starts may fail, starters may starve, probes may time out, and daemons
\* may stop.
NobodyDies == MaxCrashes = 0 /\ QuietExits

\* Nor is one told to stop.
Undisturbed == NobodyDies /\ MaxStops = 0

-----------------------------------------------------------------------------
(* New lock files *)

\* A lock file that was just written is one.
LEMMA NewLocks ==
    ASSUME NEW d \in Daemons
    PROVE  /\ \A b \in {"empty", "pid", "record"} :
                 [by |-> d, body |-> b, old |-> FALSE] \in OwnerLocks
           /\ \A b \in BOOLEAN : [by |-> d, stamped |-> b, old |-> FALSE] \in ActiveLocks
BY DEF OwnerLocks, ActiveLocks

-----------------------------------------------------------------------------
(* One conjunct of the invariant at a time *)

\* Every step keeps the types, with or without stops and crashes.
LEMMA TypeStep ==
    ASSUME TypeOK, [SlotNext]_slotVars
    PROVE  TypeOK'
<1>1. ASSUME NEW d \in Daemons,
             Acquire(d)
      PROVE  TypeOK'
  <2>1. CASE TakeOwner(d)
    BY NewLocks, <2>1 DEF TakeOwner, Goes, At, TypeOK, Maybe, Stages, Tasks, budget
  <2>2. CASE StampOwner(d)
    BY <2>2 DEF StampOwner, Goes, At, TypeOK, Maybe, Stages, Tasks, OwnerLocks,
             ActiveLocks, budget
  <2>3. CASE StatOwner(d)
    BY <2>3 DEF StatOwner, Goes, At, TypeOK, Maybe, Stages, Tasks, OwnerLocks,
             ActiveLocks, files, budget
  <2>4. CASE InspectOwner(d)
    BY <2>4 DEF InspectOwner, NoEvidence, Goes, Sees, At, TypeOK, Maybe, Stages,
             Tasks, OwnerLocks, ActiveLocks, files, budget
  <2>5. CASE ProbeOwner(d)
    BY <2>5 DEF ProbeOwner, NoEvidence, Goes, Sees, At, TypeOK, Maybe, Stages,
             Tasks, OwnerLocks, ActiveLocks, files, budget
  <2>6. CASE ReadOwnerPid(d)
    BY <2>6 DEF ReadOwnerPid, Goes, Sees, At, TypeOK, Maybe, Stages, Tasks,
             OwnerLocks, ActiveLocks, files, budget
  <2>7. CASE CheckOwnerPid(d)
    BY <2>7 DEF CheckOwnerPid, Goes, Sees, At, TypeOK, Maybe, Stages, Tasks,
             OwnerLocks, ActiveLocks, Alive, files, budget
  <2>8. CASE EvictOwner(d)
    BY <2>8 DEF EvictOwner, Goes, At, TypeOK, Maybe, Stages, Tasks, OwnerLocks,
             ActiveLocks, budget
  <2>9. CASE Recall(d)
    BY <2>9 DEF Recall, Goes, Sees, At, TypeOK, Maybe, Stages, Tasks, OwnerLocks,
             ActiveLocks, files, budget
  <2>10. CASE ProbeRecall(d)
    BY <2>10 DEF ProbeRecall, Locks, Goes, Sees, At, TypeOK, Maybe, Stages, Tasks,
             OwnerLocks, ActiveLocks, files, budget
  <2> QED
    BY <1>1, <2>1, <2>2, <2>3, <2>4, <2>5, <2>6, <2>7, <2>8, <2>9, <2>10 DEF Acquire
<1>2. ASSUME NEW d \in Daemons,
             UseLock(d)
      PROVE  TypeOK'
  <2>1. CASE TakeLock(d)
    BY NewLocks, <2>1 DEF TakeLock, Goes, At, TypeOK, Maybe, Stages, Tasks, budget
  <2>2. CASE StampLock(d)
    BY <2>2 DEF StampLock, Goes, At, TypeOK, Maybe, Stages, Tasks, OwnerLocks,
             ActiveLocks, budget
  <2>3. CASE ReadLock(d)
    BY <2>3 DEF ReadLock, Goes, Sees, At, TypeOK, Maybe, Stages, Tasks, OwnerLocks,
             ActiveLocks, files, budget
  <2>4. CASE CheckLock(d)
    BY <2>4 DEF CheckLock, Goes, Sees, At, TypeOK, Maybe, Stages, Tasks, OwnerLocks,
             ActiveLocks, Alive, files, budget
  <2>5. CASE BreakLock(d)
    BY <2>5 DEF BreakLock, Goes, At, TypeOK, Maybe, Stages, Tasks, OwnerLocks,
             ActiveLocks, budget
  <2>6. CASE RetryLock(d)
    BY <2>6 DEF RetryLock, Goes, At, TypeOK, Maybe, Stages, Tasks, OwnerLocks,
             ActiveLocks, files, budget
  <2>7. CASE TimeOutLock(d)
    BY <2>7 DEF TimeOutLock, TimesOut, Locks, LeftBehind, Goes, At, TypeOK, Maybe,
             Stages, Tasks, OwnerLocks, ActiveLocks, Alive, files, budget
  <2>8. CASE ReadActive(d)
    BY <2>8 DEF ReadActive, Goes, Sees, At, TypeOK, Maybe, Stages, Tasks,
             OwnerLocks, ActiveLocks, files, budget
  <2>9. CASE ProbeActive(d)
    BY <2>9 DEF ProbeActive, Goes, Sees, At, TypeOK, Maybe, Stages, Tasks,
             OwnerLocks, ActiveLocks, files, budget
  <2>10. CASE WriteActive(d)
    BY <2>10 DEF WriteActive, Goes, At, TypeOK, Maybe, Stages, Tasks, OwnerLocks,
             ActiveLocks, budget
  <2>11. CASE Unlock(d)
    BY <2>11 DEF Unlock, Locks, Goes, At, TypeOK, Maybe, Stages, Tasks, OwnerLocks,
             ActiveLocks, budget
  <2> QED
    BY <1>2, <2>1, <2>2, <2>3, <2>4, <2>5, <2>6, <2>7, <2>8, <2>9, <2>10, <2>11 DEF UseLock
<1>3. ASSUME NEW d \in Daemons,
             Listen(d) \/ Ready(d) \/ MarkOwner(d) \/ Hush(d) \/ ReleaseOwner(d) \/ Exit(d)
      PROVE  TypeOK'
  <2>1. CASE Listen(d)
    BY <2>1 DEF Listen, Goes, At, TypeOK, Maybe, Stages, Tasks, OwnerLocks,
             ActiveLocks, files, budget
  <2>2. CASE Ready(d)
    BY <2>2 DEF Ready, Locks, Goes, At, TypeOK, Maybe, Stages, Tasks, OwnerLocks,
             ActiveLocks, files, budget
  <2>3. CASE MarkOwner(d)
    BY NewLocks, <2>3 DEF MarkOwner, Goes, At, TypeOK, Maybe, Stages, Tasks, budget
  <2>4. CASE Hush(d)
    BY <2>4 DEF Hush, Goes, At, TypeOK, Maybe, Stages, Tasks, OwnerLocks,
             ActiveLocks, files, budget
  <2>5. CASE ReleaseOwner(d)
    BY <2>5 DEF ReleaseOwner, Goes, At, TypeOK, Maybe, Stages, Tasks, OwnerLocks,
             ActiveLocks, budget
  <2>6. CASE Exit(d)
    BY <2>6 DEF Exit, Ends, Goes, Sees, At, TypeOK, Maybe, Stages, Tasks,
             OwnerLocks, ActiveLocks, files, budget
  <2> QED
    BY <1>3, <2>1, <2>2, <2>3, <2>4, <2>5, <2>6
<1>4. ASSUME NEW d \in Daemons,
             Trouble(d)
      PROVE  TypeOK'
  <2>1. CASE ListenFails(d)
    BY SlotAssumption, <2>1 DEF SlotAssumption, ListenFails, Fails, Goes, At,
             TypeOK, Maybe, Stages, Tasks, OwnerLocks, ActiveLocks, files
  <2>2. CASE StartFails(d)
    BY SlotAssumption, <2>2 DEF SlotAssumption, StartFails, Fails, Locks, Goes,
             TypeOK, Maybe, Stages, Tasks, OwnerLocks, ActiveLocks, files
  <2>3. CASE Starves(d)
    BY SlotAssumption, <2>3 DEF SlotAssumption, Starves, TimesOut, Locks,
             LeftBehind, Fails, Goes, At, TypeOK, Maybe, Stages, Tasks, OwnerLocks,
             ActiveLocks, Alive, files
  <2>4. CASE Stop(d)
    BY SlotAssumption, <2>4 DEF SlotAssumption, Stop, Locks, Goes, At, TypeOK,
             Maybe, Stages, Tasks, OwnerLocks, ActiveLocks, files
  <2>5. CASE Crash(d)
    BY SlotAssumption, <2>5 DEF SlotAssumption, Crash, Ends, Goes, Sees, At, TypeOK,
             Maybe, Stages, Tasks, OwnerLocks, ActiveLocks, Alive, files
  <2>6. CASE ProbeTimesOut(d)
    BY SlotAssumption, <2>6 DEF SlotAssumption, ProbeTimesOut, NoEvidence, Goes,
             Sees, At, TypeOK, Maybe, Stages, Tasks, OwnerLocks, ActiveLocks,
             files
  <2> QED
    BY <1>4, <2>1, <2>2, <2>3, <2>4, <2>5, <2>6 DEF Trouble
<1>5. ASSUME NEW d \in Daemons, NEW o \in Owners, Launch(d, o)
      PROVE  TypeOK'
  BY <1>5 DEF Launch, MayLaunch, Forgotten, Goes, TypeOK, Maybe, Stages, Tasks,
           OwnerLocks, ActiveLocks, Alive, files, budget
<1>6. CASE AgeOwner \/ AgeLock
  BY SlotAssumption, <1>6 DEF SlotAssumption, AgeOwner, AgeLock, TypeOK, Maybe,
           Stages, Tasks, OwnerLocks, ActiveLocks, Alive, local, budget
<1>7. CASE UNCHANGED slotVars
  BY <1>7 DEF TypeOK, Maybe, Stages, Tasks, OwnerLocks, ActiveLocks, slotVars,
           local, files, budget
<1> QED
  BY <1>1, <1>2, <1>3, <1>4, <1>5, <1>6, <1>7 DEF SlotNext, Step

\* One live daemon has active.lock, and nobody judges it stale, even while others
\* stop.
LEMMA LockStep ==
    ASSUME NobodyDies, TypeOK, LockInv, [SlotNext]_slotVars
    PROVE  LockInv'
<1>1. ASSUME NEW d \in Daemons,
             Acquire(d)
      PROVE  LockInv'
  <2>1. CASE TakeOwner(d)
    BY <2>1 DEF TakeOwner, Goes, At, LockInv, InSection, NobodyDies, Alive, TypeOK,
             Maybe, Stages, Tasks, OwnerLocks, ActiveLocks, budget
  <2>2. CASE StampOwner(d)
    BY <2>2 DEF StampOwner, Goes, At, LockInv, InSection, NobodyDies, Alive, TypeOK,
             Maybe, Stages, Tasks, OwnerLocks, ActiveLocks, budget
  <2>3. CASE StatOwner(d)
    BY <2>3 DEF StatOwner, Goes, At, LockInv, InSection, NobodyDies, Alive, TypeOK,
             Maybe, Stages, Tasks, OwnerLocks, ActiveLocks, files, budget
  <2>4. CASE InspectOwner(d)
    BY <2>4 DEF InspectOwner, NoEvidence, Goes, Sees, At, LockInv, InSection,
             NobodyDies, Alive, TypeOK, Maybe, Stages, Tasks, OwnerLocks,
             ActiveLocks, files, budget
  <2>5. CASE ProbeOwner(d)
    BY <2>5 DEF ProbeOwner, NoEvidence, Goes, Sees, At, LockInv, InSection,
             NobodyDies, Alive, TypeOK, Maybe, Stages, Tasks, OwnerLocks,
             ActiveLocks, files, budget
  <2>6. CASE ReadOwnerPid(d)
    BY <2>6 DEF ReadOwnerPid, Goes, Sees, At, LockInv, InSection, NobodyDies, Alive,
             TypeOK, Maybe, Stages, Tasks, OwnerLocks, ActiveLocks, files, budget
  <2>7. CASE CheckOwnerPid(d)
    BY <2>7 DEF CheckOwnerPid, Goes, Sees, At, LockInv, InSection, NobodyDies,
             Alive, TypeOK, Maybe, Stages, Tasks, OwnerLocks, ActiveLocks, files,
             budget
  <2>8. CASE EvictOwner(d)
    BY <2>8 DEF EvictOwner, Goes, At, LockInv, InSection, NobodyDies, Alive, TypeOK,
             Maybe, Stages, Tasks, OwnerLocks, ActiveLocks, budget
  <2>9. CASE Recall(d)
    BY <2>9 DEF Recall, Goes, Sees, At, LockInv, InSection, NobodyDies, Alive,
             TypeOK, Maybe, Stages, Tasks, OwnerLocks, ActiveLocks, files, budget
  <2>10. CASE ProbeRecall(d)
    BY <2>10 DEF ProbeRecall, Locks, Goes, Sees, At, LockInv, InSection, NobodyDies,
             Alive, TypeOK, Maybe, Stages, Tasks, OwnerLocks, ActiveLocks, files,
             budget
  <2> QED
    BY <1>1, <2>1, <2>2, <2>3, <2>4, <2>5, <2>6, <2>7, <2>8, <2>9, <2>10 DEF Acquire
<1>2. ASSUME NEW d \in Daemons,
             UseLock(d)
      PROVE  LockInv'
  <2>1. CASE TakeLock(d)
    <3>1. CASE lock # None
      BY <2>1, <3>1 DEF TakeLock, Goes, At, LockInv, InSection, TypeOK, Stages,
               Alive, Maybe, ActiveLocks
    <3>2. CASE lock = None
      <4>1. /\ lock' = [by |-> d, stamped |-> FALSE, old |-> FALSE]
            /\ pc' = [pc EXCEPT ![d] = "stampLock"]
            /\ pc \in [Daemons -> Stages] /\ UNCHANGED seen
        BY <2>1, <3>2 DEF TakeLock, Goes, TypeOK
      <4>2. lock' # None
        BY <4>1, NewLocks, SlotAssumption DEF SlotAssumption
      <4>3. \A e \in Daemons : InSection(e)' => lock'.by = e
        BY <3>2, <4>1 DEF LockInv, InSection
      <4>4. InSection(lock.by)' /\ ~lock'.old
        BY <4>1 DEF InSection
      <4> QED
        BY <4>1, <4>2, <4>3, <4>4 DEF LockInv, At, Alive, Stages, TypeOK, Maybe
    <3> QED
      BY <3>1, <3>2
  <2>2. CASE StampLock(d)
    <3>1. /\ lock' = [by |-> d, stamped |-> TRUE, old |-> FALSE]
          /\ \E stage \in {"write", "readActive"} : pc' = [pc EXCEPT ![d] = stage]
          /\ At(d, "stampLock") /\ lock # None /\ lock.by = d
          /\ pc \in [Daemons -> Stages] /\ UNCHANGED seen
      BY <2>2 DEF StampLock, Goes, At, LockInv, InSection, TypeOK
    <3>2. lock' # None
      BY <3>1, NewLocks, SlotAssumption DEF SlotAssumption
    <3>3. \A e \in Daemons : InSection(e)' => lock'.by = e
      BY <3>1 DEF LockInv, InSection
    <3>4. InSection(lock.by)' /\ ~lock'.old
      BY <3>1 DEF InSection
    <3> QED
      BY <3>1, <3>2, <3>3, <3>4 DEF LockInv, At, Alive
  <2>3. CASE ReadLock(d)
    BY <2>3 DEF ReadLock, Goes, Sees, At, LockInv, InSection, NobodyDies, Alive,
             TypeOK, Maybe, Stages, Tasks, OwnerLocks, ActiveLocks, files, budget
  <2>4. CASE CheckLock(d)
    BY <2>4 DEF CheckLock, Goes, Sees, At, LockInv, InSection, NobodyDies, Alive,
             TypeOK, Maybe, Stages, Tasks, OwnerLocks, ActiveLocks, files, budget
  <2>5. CASE BreakLock(d)
    BY <2>5 DEF BreakLock, Goes, At, LockInv, InSection, NobodyDies, Alive, TypeOK,
             Maybe, Stages, Tasks, OwnerLocks, ActiveLocks, budget
  <2>6. CASE RetryLock(d)
    BY <2>6 DEF RetryLock, Goes, At, LockInv, InSection, NobodyDies, Alive, TypeOK,
             Maybe, Stages, Tasks, OwnerLocks, ActiveLocks, files, budget
  <2>7. CASE TimeOutLock(d)
    BY <2>7 DEF TimeOutLock, TimesOut, Locks, LeftBehind, Goes, At, LockInv,
             InSection, NobodyDies, Alive, TypeOK, Maybe, Stages, Tasks, OwnerLocks,
             ActiveLocks, files, budget
  <2>8. CASE ReadActive(d)
    BY <2>8 DEF ReadActive, Goes, Sees, At, LockInv, InSection, NobodyDies, Alive,
             TypeOK, Maybe, Stages, Tasks, OwnerLocks, ActiveLocks, files, budget
  <2>9. CASE ProbeActive(d)
    BY <2>9 DEF ProbeActive, Goes, Sees, At, LockInv, InSection, NobodyDies, Alive,
             TypeOK, Maybe, Stages, Tasks, OwnerLocks, ActiveLocks, files, budget
  <2>10. CASE WriteActive(d)
    BY <2>10 DEF WriteActive, Goes, At, LockInv, InSection, NobodyDies, Alive,
             TypeOK, Maybe, Stages, Tasks, OwnerLocks, ActiveLocks, budget
  <2>11. CASE Unlock(d)
    BY <2>11 DEF Unlock, Locks, Goes, At, LockInv, InSection, NobodyDies, Alive,
             TypeOK, Maybe, Stages, Tasks, OwnerLocks, ActiveLocks, budget
  <2> QED
    BY <1>2, <2>1, <2>2, <2>3, <2>4, <2>5, <2>6, <2>7, <2>8, <2>9, <2>10, <2>11 DEF UseLock
<1>3. ASSUME NEW d \in Daemons,
             Listen(d) \/ Ready(d) \/ MarkOwner(d) \/ Hush(d) \/ ReleaseOwner(d) \/ Exit(d)
      PROVE  LockInv'
  <2>1. CASE Listen(d)
    BY <2>1 DEF Listen, Goes, At, LockInv, InSection, NobodyDies, Alive, TypeOK,
             Maybe, Stages, Tasks, OwnerLocks, ActiveLocks, files, budget
  <2>2. CASE Ready(d)
    BY <2>2 DEF Ready, Locks, Goes, At, LockInv, InSection, NobodyDies, Alive,
             TypeOK, Maybe, Stages, Tasks, OwnerLocks, ActiveLocks, files, budget
  <2>3. CASE MarkOwner(d)
    BY <2>3 DEF MarkOwner, Goes, At, LockInv, InSection, NobodyDies, Alive, TypeOK,
             Maybe, Stages, Tasks, OwnerLocks, ActiveLocks, budget
  <2>4. CASE Hush(d)
    BY <2>4 DEF Hush, Goes, At, LockInv, InSection, NobodyDies, Alive, TypeOK,
             Maybe, Stages, Tasks, OwnerLocks, ActiveLocks, files, budget
  <2>5. CASE ReleaseOwner(d)
    BY <2>5 DEF ReleaseOwner, Goes, At, LockInv, InSection, NobodyDies, Alive,
             TypeOK, Maybe, Stages, Tasks, OwnerLocks, ActiveLocks, budget
  <2>6. CASE Exit(d)
    BY <2>6 DEF Exit, Ends, Goes, Sees, At, LockInv, InSection, NobodyDies, Alive,
             TypeOK, Maybe, Stages, Tasks, OwnerLocks, ActiveLocks, files, budget
  <2> QED
    BY <1>3, <2>1, <2>2, <2>3, <2>4, <2>5, <2>6
<1>4. ASSUME NEW d \in Daemons,
             Trouble(d)
      PROVE  LockInv'
  <2>1. CASE ListenFails(d)
    BY <2>1 DEF ListenFails, Fails, Goes, At, LockInv, InSection, NobodyDies, Alive,
             TypeOK, Maybe, Stages, Tasks, OwnerLocks, ActiveLocks, files
  <2>2. CASE StartFails(d)
    BY <2>2 DEF StartFails, Fails, Locks, Goes, At, LockInv, InSection, NobodyDies,
             Alive, TypeOK, Maybe, Stages, Tasks, OwnerLocks, ActiveLocks, files
  <2>3. CASE Starves(d)
    BY <2>3 DEF Starves, TimesOut, Locks, LeftBehind, Fails, Goes, At, LockInv,
             InSection, NobodyDies, Alive, TypeOK, Maybe, Stages, Tasks, OwnerLocks,
             ActiveLocks, files
  <2>4. CASE Stop(d)
    BY <2>4 DEF Stop, Locks, Goes, At, LockInv, InSection, NobodyDies, Alive,
             TypeOK, Maybe, Stages, Tasks, OwnerLocks, ActiveLocks, files
  <2>5. CASE Crash(d)
    BY <2>5 DEF Crash, Ends, Goes, Sees, At, LockInv, InSection, NobodyDies, Alive,
             TypeOK, Maybe, Stages, Tasks, OwnerLocks, ActiveLocks, files
  <2>6. CASE ProbeTimesOut(d)
    BY <2>6 DEF ProbeTimesOut, NoEvidence, Goes, Sees, At, LockInv, InSection,
             NobodyDies, Alive, TypeOK, Maybe, Stages, Tasks, OwnerLocks,
             ActiveLocks, files
  <2> QED
    BY <1>4, <2>1, <2>2, <2>3, <2>4, <2>5, <2>6 DEF Trouble
<1>5. ASSUME NEW d \in Daemons, NEW o \in Owners, Launch(d, o)
      PROVE  LockInv'
  BY <1>5 DEF Launch, MayLaunch, Forgotten, Goes, At, LockInv, InSection,
           NobodyDies, Alive, TypeOK, Maybe, Stages, Tasks, OwnerLocks, ActiveLocks,
           files, budget
<1>6. CASE AgeOwner \/ AgeLock
  BY <1>6 DEF AgeOwner, AgeLock, At, LockInv, InSection, NobodyDies, Alive, TypeOK,
           Maybe, Stages, Tasks, OwnerLocks, ActiveLocks, local, budget
<1>7. CASE UNCHANGED slotVars
  BY <1>7 DEF At, LockInv, InSection, NobodyDies, Alive, TypeOK, Maybe, Stages,
           Tasks, OwnerLocks, ActiveLocks, slotVars, local, files, budget
<1> QED
  BY <1>1, <1>2, <1>3, <1>4, <1>5, <1>6, <1>7 DEF SlotNext, Step

\* A daemon that runs goes on to be the one that active.json names.
LEMMA FoundStep ==
    ASSUME Undisturbed, TypeOK, LockInv, RuntimeInv, [SlotNext]_slotVars
    PROVE  FoundInv'
<1>1. ASSUME NEW d \in Daemons,
             Acquire(d)
      PROVE  FoundInv'
  <2>1. CASE TakeOwner(d)
    BY <2>1 DEF TakeOwner, Goes, At, FoundInv, SectionInv, RecordInv, TaskInv, Runs,
             Serves, RuntimeInv, Undisturbed, NobodyDies, Alive, TypeOK, Maybe, Stages,
             Tasks, OwnerLocks, ActiveLocks, budget
  <2>2. CASE StampOwner(d)
    BY <2>2 DEF StampOwner, Goes, At, FoundInv, SectionInv, RecordInv, TaskInv,
             Runs, Serves, RuntimeInv, Undisturbed, NobodyDies, Alive, TypeOK, Maybe,
             Stages, Tasks, OwnerLocks, ActiveLocks, budget
  <2>3. CASE StatOwner(d)
    BY <2>3 DEF StatOwner, Goes, At, FoundInv, SectionInv, RecordInv, TaskInv, Runs,
             Serves, RuntimeInv, Undisturbed, NobodyDies, Alive, TypeOK, Maybe, Stages,
             Tasks, OwnerLocks, ActiveLocks, files, budget
  <2>4. CASE InspectOwner(d)
    BY <2>4 DEF InspectOwner, NoEvidence, Goes, Sees, At, FoundInv, SectionInv,
             RecordInv, TaskInv, Runs, Serves, RuntimeInv, Undisturbed, NobodyDies,
             Alive, TypeOK, Maybe, Stages, Tasks, OwnerLocks, ActiveLocks, files,
             budget
  <2>5. CASE ProbeOwner(d)
    BY <2>5 DEF ProbeOwner, NoEvidence, Goes, Sees, At, FoundInv, SectionInv,
             RecordInv, TaskInv, Runs, Serves, RuntimeInv, Undisturbed, NobodyDies,
             Alive, TypeOK, Maybe, Stages, Tasks, OwnerLocks, ActiveLocks, files,
             budget
  <2>6. CASE ReadOwnerPid(d)
    BY <2>6 DEF ReadOwnerPid, Goes, Sees, At, FoundInv, SectionInv, RecordInv,
             TaskInv, Runs, Serves, RuntimeInv, Undisturbed, NobodyDies, Alive, TypeOK,
             Maybe, Stages, Tasks, OwnerLocks, ActiveLocks, files, budget
  <2>7. CASE CheckOwnerPid(d)
    BY <2>7 DEF CheckOwnerPid, Goes, Sees, At, FoundInv, SectionInv, RecordInv,
             TaskInv, Runs, Serves, RuntimeInv, Undisturbed, NobodyDies, Alive, TypeOK,
             Maybe, Stages, Tasks, OwnerLocks, ActiveLocks, files, budget
  <2>8. CASE EvictOwner(d)
    BY <2>8 DEF EvictOwner, Goes, At, FoundInv, SectionInv, RecordInv, TaskInv,
             Runs, Serves, RuntimeInv, Undisturbed, NobodyDies, Alive, TypeOK, Maybe,
             Stages, Tasks, OwnerLocks, ActiveLocks, budget
  <2>9. CASE Recall(d)
    BY <2>9 DEF Recall, Goes, Sees, At, FoundInv, SectionInv, RecordInv, TaskInv,
             Runs, Serves, RuntimeInv, Undisturbed, NobodyDies, Alive, TypeOK, Maybe,
             Stages, Tasks, OwnerLocks, ActiveLocks, files, budget
  <2>10. CASE ProbeRecall(d)
    BY <2>10 DEF ProbeRecall, Locks, Goes, Sees, At, FoundInv, SectionInv,
             RecordInv, TaskInv, Runs, Serves, RuntimeInv, Undisturbed, NobodyDies,
             Alive, TypeOK, Maybe, Stages, Tasks, OwnerLocks, ActiveLocks, files,
             budget
  <2> QED
    BY <1>1, <2>1, <2>2, <2>3, <2>4, <2>5, <2>6, <2>7, <2>8, <2>9, <2>10 DEF Acquire
<1>2. ASSUME NEW d \in Daemons,
             UseLock(d)
      PROVE  FoundInv'
  <2>1. CASE TakeLock(d)
    BY <2>1 DEF TakeLock, Goes, At, FoundInv, SectionInv, RecordInv, TaskInv, Runs,
             Serves, RuntimeInv, Undisturbed, NobodyDies, Alive, TypeOK, Maybe, Stages,
             Tasks, OwnerLocks, ActiveLocks, budget
  <2>2. CASE StampLock(d)
    BY <2>2 DEF StampLock, Goes, At, FoundInv, SectionInv, RecordInv, TaskInv, Runs,
             Serves, RuntimeInv, Undisturbed, NobodyDies, Alive, TypeOK, Maybe, Stages,
             Tasks, OwnerLocks, ActiveLocks, budget
  <2>3. CASE ReadLock(d)
    BY <2>3 DEF ReadLock, Goes, Sees, At, FoundInv, SectionInv, RecordInv, TaskInv,
             Runs, Serves, RuntimeInv, Undisturbed, NobodyDies, Alive, TypeOK, Maybe,
             Stages, Tasks, OwnerLocks, ActiveLocks, files, budget
  <2>4. CASE CheckLock(d)
    BY <2>4 DEF CheckLock, Goes, Sees, At, FoundInv, SectionInv, RecordInv, TaskInv,
             Runs, Serves, RuntimeInv, Undisturbed, NobodyDies, Alive, TypeOK, Maybe,
             Stages, Tasks, OwnerLocks, ActiveLocks, files, budget
  <2>5. CASE BreakLock(d)
    BY <2>5 DEF BreakLock, Goes, At, FoundInv, SectionInv, RecordInv, TaskInv, Runs,
             Serves, RuntimeInv, Undisturbed, NobodyDies, Alive, TypeOK, Maybe, Stages,
             Tasks, OwnerLocks, ActiveLocks, budget
  <2>6. CASE RetryLock(d)
    BY <2>6 DEF RetryLock, Goes, At, FoundInv, SectionInv, RecordInv, TaskInv, Runs,
             Serves, RuntimeInv, Undisturbed, NobodyDies, Alive, TypeOK, Maybe, Stages,
             Tasks, OwnerLocks, ActiveLocks, files, budget
  <2>7. CASE TimeOutLock(d)
    BY <2>7 DEF TimeOutLock, TimesOut, Locks, LeftBehind, Goes, At, FoundInv,
             SectionInv, RecordInv, TaskInv, Runs, Serves, RuntimeInv, Undisturbed,
             NobodyDies, Alive, TypeOK, Maybe, Stages, Tasks, OwnerLocks,
             ActiveLocks, files, budget
  <2>8. CASE ReadActive(d)
    BY <2>8 DEF ReadActive, Goes, Sees, At, FoundInv, SectionInv, RecordInv,
             TaskInv, Runs, Serves, RuntimeInv, Undisturbed, NobodyDies, Alive, TypeOK,
             Maybe, Stages, Tasks, OwnerLocks, ActiveLocks, files, budget
  <2>9. CASE ProbeActive(d)
    BY <2>9 DEF ProbeActive, Goes, Sees, At, FoundInv, SectionInv, RecordInv,
             TaskInv, Runs, Serves, RuntimeInv, Undisturbed, NobodyDies, Alive, TypeOK,
             Maybe, Stages, Tasks, OwnerLocks, ActiveLocks, files, budget
  <2>10. CASE WriteActive(d)
    <3>1. CASE task[d] = "publish"
      BY <2>10, <3>1 DEF WriteActive, Goes, At, RuntimeInv, FoundInv, SectionInv, TaskInv, Runs,
               TypeOK
    <3>2. CASE task[d] = "restore"
      <4>1. /\ Runs(target[d]) /\ active' = target[d]
            /\ pc' = [pc EXCEPT ![d] = "unlock"] /\ UNCHANGED <<task, listening>>
        BY <2>10, <3>2 DEF WriteActive, Goes, RuntimeInv, RecordInv, Serves, Runs, At
      <4> QED
        BY <3>2, <4>1 DEF RuntimeInv, FoundInv, RecordInv, Runs, At, TypeOK
    <3>3. CASE task[d] \notin {"publish", "restore"}
      BY <2>10, <3>3 DEF WriteActive, Goes, At, RuntimeInv, FoundInv, SectionInv, TaskInv,
               InSection, Runs, TypeOK, Tasks
    <3> QED
      BY <3>1, <3>2, <3>3
  <2>11. CASE Unlock(d)
    BY <2>11 DEF Unlock, Locks, Goes, At, FoundInv, SectionInv, RecordInv, TaskInv,
             Runs, Serves, RuntimeInv, Undisturbed, NobodyDies, Alive, TypeOK, Maybe,
             Stages, Tasks, OwnerLocks, ActiveLocks, budget
  <2> QED
    BY <1>2, <2>1, <2>2, <2>3, <2>4, <2>5, <2>6, <2>7, <2>8, <2>9, <2>10, <2>11 DEF UseLock
<1>3. ASSUME NEW d \in Daemons,
             Listen(d) \/ Ready(d) \/ MarkOwner(d) \/ Hush(d) \/ ReleaseOwner(d) \/ Exit(d)
      PROVE  FoundInv'
  <2>1. CASE Listen(d)
    BY <2>1 DEF Listen, Goes, At, FoundInv, SectionInv, RecordInv, TaskInv, Runs,
             Serves, RuntimeInv, Undisturbed, NobodyDies, Alive, TypeOK, Maybe, Stages,
             Tasks, OwnerLocks, ActiveLocks, files, budget
  <2>2. CASE Ready(d)
    BY <2>2 DEF Ready, Locks, Goes, At, FoundInv, SectionInv, RecordInv, TaskInv,
             Runs, Serves, RuntimeInv, Undisturbed, NobodyDies, Alive, TypeOK, Maybe,
             Stages, Tasks, OwnerLocks, ActiveLocks, files, budget
  <2>3. CASE MarkOwner(d)
    BY <2>3 DEF MarkOwner, Goes, At, FoundInv, SectionInv, RecordInv, TaskInv, Runs,
             Serves, RuntimeInv, Undisturbed, NobodyDies, Alive, TypeOK, Maybe, Stages,
             Tasks, OwnerLocks, ActiveLocks, budget
  <2>4. CASE Hush(d)
    BY <2>4 DEF Hush, Goes, At, FoundInv, SectionInv, RecordInv, TaskInv, Runs,
             Serves, RuntimeInv, Undisturbed, NobodyDies, Alive, TypeOK, Maybe, Stages,
             Tasks, OwnerLocks, ActiveLocks, files, budget
  <2>5. CASE ReleaseOwner(d)
    BY <2>5 DEF ReleaseOwner, Goes, At, FoundInv, SectionInv, RecordInv, TaskInv,
             Runs, Serves, RuntimeInv, Undisturbed, NobodyDies, Alive, TypeOK, Maybe,
             Stages, Tasks, OwnerLocks, ActiveLocks, budget
  <2>6. CASE Exit(d)
    BY <2>6 DEF Exit, Ends, Goes, Sees, At, FoundInv, SectionInv, RecordInv,
             TaskInv, Runs, Serves, RuntimeInv, Undisturbed, NobodyDies, Alive, TypeOK,
             Maybe, Stages, Tasks, OwnerLocks, ActiveLocks, files, budget
  <2> QED
    BY <1>3, <2>1, <2>2, <2>3, <2>4, <2>5, <2>6
<1>4. ASSUME NEW d \in Daemons,
             Trouble(d)
      PROVE  FoundInv'
  <2>1. CASE ListenFails(d)
    BY <2>1 DEF ListenFails, Fails, Goes, At, FoundInv, SectionInv, RecordInv,
             TaskInv, Runs, Serves, RuntimeInv, Undisturbed, NobodyDies, Alive, TypeOK,
             Maybe, Stages, Tasks, OwnerLocks, ActiveLocks, files
  <2>2. CASE StartFails(d)
    BY <2>2 DEF StartFails, Fails, Locks, Goes, At, FoundInv, SectionInv, RecordInv,
             TaskInv, Runs, Serves, RuntimeInv, Undisturbed, NobodyDies, Alive, TypeOK,
             Maybe, Stages, Tasks, OwnerLocks, ActiveLocks, files
  <2>3. CASE Starves(d)
    BY <2>3 DEF Starves, TimesOut, Locks, LeftBehind, Fails, Goes, At, FoundInv,
             SectionInv, RecordInv, TaskInv, Runs, Serves, RuntimeInv, Undisturbed,
             NobodyDies, Alive, TypeOK, Maybe, Stages, Tasks, OwnerLocks,
             ActiveLocks, files
  <2>4. CASE Stop(d)
    BY <2>4 DEF Stop, Locks, Goes, At, FoundInv, SectionInv, RecordInv, TaskInv,
             Runs, Serves, RuntimeInv, Undisturbed, NobodyDies, Alive, TypeOK, Maybe,
             Stages, Tasks, OwnerLocks, ActiveLocks, files
  <2>5. CASE Crash(d)
    BY <2>5 DEF Crash, Ends, Goes, Sees, At, FoundInv, SectionInv, RecordInv,
             TaskInv, Runs, Serves, RuntimeInv, Undisturbed, NobodyDies, Alive, TypeOK,
             Maybe, Stages, Tasks, OwnerLocks, ActiveLocks, files
  <2>6. CASE ProbeTimesOut(d)
    BY <2>6 DEF ProbeTimesOut, NoEvidence, Goes, Sees, At, FoundInv, SectionInv,
             RecordInv, TaskInv, Runs, Serves, RuntimeInv, Undisturbed,
             NobodyDies, Alive, TypeOK, Maybe, Stages, Tasks, OwnerLocks,
             ActiveLocks, files
  <2> QED
    BY <1>4, <2>1, <2>2, <2>3, <2>4, <2>5, <2>6 DEF Trouble
<1>5. ASSUME NEW d \in Daemons, NEW o \in Owners, Launch(d, o)
      PROVE  FoundInv'
  BY <1>5 DEF Launch, MayLaunch, Forgotten, Goes, At, FoundInv, SectionInv,
           RecordInv, TaskInv, Runs, Serves, RuntimeInv, Undisturbed, NobodyDies,
           Alive, TypeOK, Maybe, Stages, Tasks, OwnerLocks, ActiveLocks, files,
           budget
<1>6. CASE AgeOwner \/ AgeLock
  BY <1>6 DEF AgeOwner, AgeLock, At, FoundInv, SectionInv, RecordInv, TaskInv, Runs,
           Serves, RuntimeInv, Undisturbed, NobodyDies, Alive, TypeOK, Maybe, Stages,
           Tasks, OwnerLocks, ActiveLocks, local, budget
<1>7. CASE UNCHANGED slotVars
  BY <1>7 DEF At, FoundInv, SectionInv, RecordInv, TaskInv, Runs, Serves, RuntimeInv,
           Undisturbed, NobodyDies, Alive, TypeOK, Maybe, Stages, Tasks, OwnerLocks,
           ActiveLocks, slotVars, local, files, budget
<1> QED
  BY <1>1, <1>2, <1>3, <1>4, <1>5, <1>6, <1>7 DEF SlotNext, Step

\* Records name daemons that serve.
LEMMA RecordStep ==
    ASSUME Undisturbed, TypeOK, LockInv, RuntimeInv, [SlotNext]_slotVars
    PROVE  RecordInv'
<1>1. ASSUME NEW d \in Daemons,
             Acquire(d)
      PROVE  RecordInv'
  <2>1. CASE TakeOwner(d)
    BY <2>1 DEF TakeOwner, Goes, At, RecordInv, TaskInv, Serves, InSection, RuntimeInv,
             Undisturbed, NobodyDies, Alive, TypeOK, Maybe, Stages, Tasks,
             OwnerLocks, ActiveLocks, budget
  <2>2. CASE StampOwner(d)
    BY <2>2 DEF StampOwner, Goes, At, RecordInv, TaskInv, Serves, InSection,
             RuntimeInv, Undisturbed, NobodyDies, Alive, TypeOK, Maybe, Stages, Tasks,
             OwnerLocks, ActiveLocks, budget
  <2>3. CASE StatOwner(d)
    BY <2>3 DEF StatOwner, Goes, At, RecordInv, TaskInv, Serves, InSection, RuntimeInv,
             Undisturbed, NobodyDies, Alive, TypeOK, Maybe, Stages, Tasks,
             OwnerLocks, ActiveLocks, files, budget
  <2>4. CASE InspectOwner(d)
    BY <2>4 DEF InspectOwner, NoEvidence, Goes, Sees, At, RecordInv, TaskInv,
             Serves, InSection, RuntimeInv, Undisturbed, NobodyDies, Alive, TypeOK,
             Maybe, Stages, Tasks, OwnerLocks, ActiveLocks, files, budget
  <2>5. CASE ProbeOwner(d)
    BY <2>5 DEF ProbeOwner, NoEvidence, Goes, Sees, At, RecordInv, TaskInv, Serves,
             InSection, RuntimeInv, Undisturbed, NobodyDies, Alive, TypeOK, Maybe,
             Stages, Tasks, OwnerLocks, ActiveLocks, files, budget
  <2>6. CASE ReadOwnerPid(d)
    BY <2>6 DEF ReadOwnerPid, Goes, Sees, At, RecordInv, TaskInv, Serves, InSection,
             RuntimeInv, Undisturbed, NobodyDies, Alive, TypeOK, Maybe, Stages, Tasks,
             OwnerLocks, ActiveLocks, files, budget
  <2>7. CASE CheckOwnerPid(d)
    BY <2>7 DEF CheckOwnerPid, Goes, Sees, At, RecordInv, TaskInv, Serves,
             InSection, RuntimeInv, Undisturbed, NobodyDies, Alive, TypeOK, Maybe,
             Stages, Tasks, OwnerLocks, ActiveLocks, files, budget
  <2>8. CASE EvictOwner(d)
    BY <2>8 DEF EvictOwner, Goes, At, RecordInv, TaskInv, Serves, InSection,
             RuntimeInv, Undisturbed, NobodyDies, Alive, TypeOK, Maybe, Stages, Tasks,
             OwnerLocks, ActiveLocks, budget
  <2>9. CASE Recall(d)
    BY <2>9 DEF Recall, Goes, Sees, At, RecordInv, TaskInv, Serves, InSection,
             RuntimeInv, Undisturbed, NobodyDies, Alive, TypeOK, Maybe, Stages, Tasks,
             OwnerLocks, ActiveLocks, files, budget
  <2>10. CASE ProbeRecall(d)
    BY <2>10 DEF ProbeRecall, Locks, Goes, Sees, At, RecordInv, TaskInv, Serves,
             InSection, RuntimeInv, Undisturbed, NobodyDies, Alive, TypeOK, Maybe,
             Stages, Tasks, OwnerLocks, ActiveLocks, files, budget
  <2> QED
    BY <1>1, <2>1, <2>2, <2>3, <2>4, <2>5, <2>6, <2>7, <2>8, <2>9, <2>10 DEF Acquire
<1>2. ASSUME NEW d \in Daemons,
             UseLock(d)
      PROVE  RecordInv'
  <2>1. CASE TakeLock(d)
    BY <2>1 DEF TakeLock, Goes, At, RecordInv, TaskInv, Serves, InSection, RuntimeInv,
             Undisturbed, NobodyDies, Alive, TypeOK, Maybe, Stages, Tasks,
             OwnerLocks, ActiveLocks, budget
  <2>2. CASE StampLock(d)
    BY <2>2 DEF StampLock, Goes, At, RecordInv, TaskInv, Serves, InSection, RuntimeInv,
             Undisturbed, NobodyDies, Alive, TypeOK, Maybe, Stages, Tasks,
             OwnerLocks, ActiveLocks, budget
  <2>3. CASE ReadLock(d)
    BY <2>3 DEF ReadLock, Goes, Sees, At, RecordInv, TaskInv, Serves, InSection,
             RuntimeInv, Undisturbed, NobodyDies, Alive, TypeOK, Maybe, Stages, Tasks,
             OwnerLocks, ActiveLocks, files, budget
  <2>4. CASE CheckLock(d)
    BY <2>4 DEF CheckLock, Goes, Sees, At, RecordInv, TaskInv, Serves, InSection,
             RuntimeInv, Undisturbed, NobodyDies, Alive, TypeOK, Maybe, Stages, Tasks,
             OwnerLocks, ActiveLocks, files, budget
  <2>5. CASE BreakLock(d)
    BY <2>5 DEF BreakLock, Goes, At, RecordInv, TaskInv, Serves, InSection, RuntimeInv,
             Undisturbed, NobodyDies, Alive, TypeOK, Maybe, Stages, Tasks,
             OwnerLocks, ActiveLocks, budget
  <2>6. CASE RetryLock(d)
    BY <2>6 DEF RetryLock, Goes, At, RecordInv, TaskInv, Serves, InSection, RuntimeInv,
             Undisturbed, NobodyDies, Alive, TypeOK, Maybe, Stages, Tasks,
             OwnerLocks, ActiveLocks, files, budget
  <2>7. CASE TimeOutLock(d)
    BY <2>7 DEF TimeOutLock, TimesOut, Locks, LeftBehind, Goes, At, RecordInv,
             TaskInv, Serves, InSection, RuntimeInv, Undisturbed, NobodyDies, Alive,
             TypeOK, Maybe, Stages, Tasks, OwnerLocks, ActiveLocks, files, budget
  <2>8. CASE ReadActive(d)
    BY <2>8 DEF ReadActive, Goes, Sees, At, RecordInv, TaskInv, Serves, InSection,
             RuntimeInv, Undisturbed, NobodyDies, Alive, TypeOK, Maybe, Stages, Tasks,
             OwnerLocks, ActiveLocks, files, budget
  <2>9. CASE ProbeActive(d)
    BY <2>9 DEF ProbeActive, Goes, Sees, At, RecordInv, TaskInv, Serves, InSection,
             RuntimeInv, Undisturbed, NobodyDies, Alive, TypeOK, Maybe, Stages, Tasks,
             OwnerLocks, ActiveLocks, files, budget
  <2>10. CASE WriteActive(d)
    BY <2>10 DEF WriteActive, Goes, At, RecordInv, TaskInv, Serves, InSection,
             RuntimeInv, Undisturbed, NobodyDies, Alive, TypeOK, Maybe, Stages, Tasks,
             OwnerLocks, ActiveLocks, budget
  <2>11. CASE Unlock(d)
    BY <2>11 DEF Unlock, Locks, Goes, At, RecordInv, TaskInv, Serves, InSection,
             RuntimeInv, Undisturbed, NobodyDies, Alive, TypeOK, Maybe, Stages, Tasks,
             OwnerLocks, ActiveLocks, budget
  <2> QED
    BY <1>2, <2>1, <2>2, <2>3, <2>4, <2>5, <2>6, <2>7, <2>8, <2>9, <2>10, <2>11 DEF UseLock
<1>3. ASSUME NEW d \in Daemons,
             Listen(d) \/ Ready(d) \/ MarkOwner(d) \/ Hush(d) \/ ReleaseOwner(d) \/ Exit(d)
      PROVE  RecordInv'
  <2>1. CASE Listen(d)
    BY <2>1 DEF Listen, Goes, At, RecordInv, TaskInv, Serves, InSection, RuntimeInv,
             Undisturbed, NobodyDies, Alive, TypeOK, Maybe, Stages, Tasks,
             OwnerLocks, ActiveLocks, files, budget
  <2>2. CASE Ready(d)
    BY <2>2 DEF Ready, Locks, Goes, At, RecordInv, TaskInv, Serves, InSection,
             RuntimeInv, Undisturbed, NobodyDies, Alive, TypeOK, Maybe, Stages, Tasks,
             OwnerLocks, ActiveLocks, files, budget
  <2>3. CASE MarkOwner(d)
    BY <2>3 DEF MarkOwner, Goes, At, RecordInv, TaskInv, Serves, InSection, RuntimeInv,
             Undisturbed, NobodyDies, Alive, TypeOK, Maybe, Stages, Tasks,
             OwnerLocks, ActiveLocks, budget
  <2>4. CASE Hush(d)
    BY <2>4 DEF Hush, Goes, At, RecordInv, TaskInv, Serves, InSection, RuntimeInv,
             Undisturbed, NobodyDies, Alive, TypeOK, Maybe, Stages, Tasks,
             OwnerLocks, ActiveLocks, files, budget
  <2>5. CASE ReleaseOwner(d)
    BY <2>5 DEF ReleaseOwner, Goes, At, RecordInv, TaskInv, Serves, InSection,
             RuntimeInv, Undisturbed, NobodyDies, Alive, TypeOK, Maybe, Stages, Tasks,
             OwnerLocks, ActiveLocks, budget
  <2>6. CASE Exit(d)
    BY <2>6 DEF Exit, Ends, Goes, Sees, At, RecordInv, TaskInv, Serves, InSection,
             RuntimeInv, Undisturbed, NobodyDies, Alive, TypeOK, Maybe, Stages, Tasks,
             OwnerLocks, ActiveLocks, files, budget
  <2> QED
    BY <1>3, <2>1, <2>2, <2>3, <2>4, <2>5, <2>6
<1>4. ASSUME NEW d \in Daemons,
             Trouble(d)
      PROVE  RecordInv'
  <2>1. CASE ListenFails(d)
    BY <2>1 DEF ListenFails, Fails, Goes, At, RecordInv, TaskInv, Serves, InSection,
             RuntimeInv, Undisturbed, NobodyDies, Alive, TypeOK, Maybe, Stages, Tasks,
             OwnerLocks, ActiveLocks, files
  <2>2. CASE StartFails(d)
    BY <2>2 DEF StartFails, Fails, Locks, Goes, At, RecordInv, TaskInv, Serves,
             InSection, RuntimeInv, Undisturbed, NobodyDies, Alive, TypeOK, Maybe,
             Stages, Tasks, OwnerLocks, ActiveLocks, files
  <2>3. CASE Starves(d)
    BY <2>3 DEF Starves, TimesOut, Locks, LeftBehind, Fails, Goes, At, RecordInv,
             TaskInv, Serves, InSection, RuntimeInv, Undisturbed, NobodyDies, Alive,
             TypeOK, Maybe, Stages, Tasks, OwnerLocks, ActiveLocks, files
  <2>4. CASE Stop(d)
    BY <2>4 DEF Stop, Locks, Goes, At, RecordInv, TaskInv, Serves, InSection,
             RuntimeInv, Undisturbed, NobodyDies, Alive, TypeOK, Maybe, Stages, Tasks,
             OwnerLocks, ActiveLocks, files
  <2>5. CASE Crash(d)
    BY <2>5 DEF Crash, Ends, Goes, Sees, At, RecordInv, TaskInv, Serves, InSection,
             RuntimeInv, Undisturbed, NobodyDies, Alive, TypeOK, Maybe, Stages, Tasks,
             OwnerLocks, ActiveLocks, files
  <2>6. CASE ProbeTimesOut(d)
    BY <2>6 DEF ProbeTimesOut, NoEvidence, Goes, Sees, At, RecordInv, TaskInv,
             Serves, InSection, RuntimeInv, Undisturbed, NobodyDies, Alive,
             TypeOK, Maybe, Stages, Tasks, OwnerLocks, ActiveLocks, files
  <2> QED
    BY <1>4, <2>1, <2>2, <2>3, <2>4, <2>5, <2>6 DEF Trouble
<1>5. ASSUME NEW d \in Daemons, NEW o \in Owners, Launch(d, o)
      PROVE  RecordInv'
  BY <1>5 DEF Launch, MayLaunch, Forgotten, Goes, At, RecordInv, TaskInv, Serves,
           InSection, RuntimeInv, Undisturbed, NobodyDies, Alive, TypeOK, Maybe,
           Stages, Tasks, OwnerLocks, ActiveLocks, files, budget
<1>6. CASE AgeOwner \/ AgeLock
  BY <1>6 DEF AgeOwner, AgeLock, At, RecordInv, TaskInv, Serves, InSection, RuntimeInv,
           Undisturbed, NobodyDies, Alive, TypeOK, Maybe, Stages, Tasks, OwnerLocks,
           ActiveLocks, local, budget
<1>7. CASE UNCHANGED slotVars
  BY <1>7 DEF At, RecordInv, TaskInv, Serves, InSection, RuntimeInv, Undisturbed,
           NobodyDies, Alive, TypeOK, Maybe, Stages, Tasks, OwnerLocks, ActiveLocks,
           slotVars, local, files, budget
<1> QED
  BY <1>1, <1>2, <1>3, <1>4, <1>5, <1>6, <1>7 DEF SlotNext, Step

\* What a section has read stays true until it writes.
LEMMA SectionStep ==
    ASSUME Undisturbed, TypeOK, LockInv, RuntimeInv, [SlotNext]_slotVars,
           ~overlooked'
    PROVE  SectionInv'
<1>1. ASSUME NEW d \in Daemons,
             Acquire(d)
      PROVE  SectionInv'
  <2>1. CASE TakeOwner(d)
    BY <2>1 DEF TakeOwner, Goes, At, SectionInv, LockInv, FoundInv, TaskInv, Runs,
             Serves, InSection, RuntimeInv, Undisturbed, NobodyDies, Alive, TypeOK,
             Maybe, Stages, Tasks, OwnerLocks, ActiveLocks, budget
  <2>2. CASE StampOwner(d)
    BY <2>2 DEF StampOwner, Goes, At, SectionInv, LockInv, FoundInv, TaskInv, Runs,
             Serves, InSection, RuntimeInv, Undisturbed, NobodyDies, Alive, TypeOK,
             Maybe, Stages, Tasks, OwnerLocks, ActiveLocks, budget
  <2>3. CASE StatOwner(d)
    BY <2>3 DEF StatOwner, Goes, At, SectionInv, LockInv, FoundInv, TaskInv, Runs,
             Serves, InSection, RuntimeInv, Undisturbed, NobodyDies, Alive, TypeOK,
             Maybe, Stages, Tasks, OwnerLocks, ActiveLocks, files, budget
  <2>4. CASE InspectOwner(d)
    BY <2>4 DEF InspectOwner, NoEvidence, Goes, Sees, At, SectionInv, LockInv,
             FoundInv, TaskInv, Runs, Serves, InSection, RuntimeInv, Undisturbed,
             NobodyDies, Alive, TypeOK, Maybe, Stages, Tasks, OwnerLocks,
             ActiveLocks, files, budget
  <2>5. CASE ProbeOwner(d)
    BY <2>5 DEF ProbeOwner, NoEvidence, Goes, Sees, At, SectionInv, LockInv,
             FoundInv, TaskInv, Runs, Serves, InSection, RuntimeInv, Undisturbed,
             NobodyDies, Alive, TypeOK, Maybe, Stages, Tasks, OwnerLocks,
             ActiveLocks, files, budget
  <2>6. CASE ReadOwnerPid(d)
    BY <2>6 DEF ReadOwnerPid, Goes, Sees, At, SectionInv, LockInv, FoundInv,
             TaskInv, Runs, Serves, InSection, RuntimeInv, Undisturbed, NobodyDies,
             Alive, TypeOK, Maybe, Stages, Tasks, OwnerLocks, ActiveLocks, files,
             budget
  <2>7. CASE CheckOwnerPid(d)
    BY <2>7 DEF CheckOwnerPid, Goes, Sees, At, SectionInv, LockInv, FoundInv,
             TaskInv, Runs, Serves, InSection, RuntimeInv, Undisturbed, NobodyDies,
             Alive, TypeOK, Maybe, Stages, Tasks, OwnerLocks, ActiveLocks, files,
             budget
  <2>8. CASE EvictOwner(d)
    BY <2>8 DEF EvictOwner, Goes, At, SectionInv, LockInv, FoundInv, TaskInv, Runs,
             Serves, InSection, RuntimeInv, Undisturbed, NobodyDies, Alive, TypeOK,
             Maybe, Stages, Tasks, OwnerLocks, ActiveLocks, budget
  <2>9. CASE Recall(d)
    BY <2>9 DEF Recall, Goes, Sees, At, SectionInv, LockInv, FoundInv, TaskInv,
             Runs, Serves, InSection, RuntimeInv, Undisturbed, NobodyDies, Alive,
             TypeOK, Maybe, Stages, Tasks, OwnerLocks, ActiveLocks, files, budget
  <2>10. CASE ProbeRecall(d)
    BY <2>10 DEF ProbeRecall, Locks, Goes, Sees, At, SectionInv, LockInv, FoundInv,
             TaskInv, Runs, Serves, InSection, RuntimeInv, Undisturbed, NobodyDies,
             Alive, TypeOK, Maybe, Stages, Tasks, OwnerLocks, ActiveLocks, files,
             budget
  <2> QED
    BY <1>1, <2>1, <2>2, <2>3, <2>4, <2>5, <2>6, <2>7, <2>8, <2>9, <2>10 DEF Acquire
<1>2. ASSUME NEW d \in Daemons,
             UseLock(d)
      PROVE  SectionInv'
  <2>1. CASE TakeLock(d)
    BY <2>1 DEF TakeLock, Goes, At, SectionInv, LockInv, FoundInv, TaskInv, Runs,
             Serves, InSection, RuntimeInv, Undisturbed, NobodyDies, Alive, TypeOK,
             Maybe, Stages, Tasks, OwnerLocks, ActiveLocks, budget
  <2>2. CASE StampLock(d)
    BY <2>2 DEF StampLock, Goes, At, SectionInv, LockInv, FoundInv, TaskInv, Runs,
             Serves, InSection, RuntimeInv, Undisturbed, NobodyDies, Alive, TypeOK,
             Maybe, Stages, Tasks, OwnerLocks, ActiveLocks, budget
  <2>3. CASE ReadLock(d)
    BY <2>3 DEF ReadLock, Goes, Sees, At, SectionInv, LockInv, FoundInv, TaskInv,
             Runs, Serves, InSection, RuntimeInv, Undisturbed, NobodyDies, Alive,
             TypeOK, Maybe, Stages, Tasks, OwnerLocks, ActiveLocks, files, budget
  <2>4. CASE CheckLock(d)
    BY <2>4 DEF CheckLock, Goes, Sees, At, SectionInv, LockInv, FoundInv, TaskInv,
             Runs, Serves, InSection, RuntimeInv, Undisturbed, NobodyDies, Alive,
             TypeOK, Maybe, Stages, Tasks, OwnerLocks, ActiveLocks, files, budget
  <2>5. CASE BreakLock(d)
    BY <2>5 DEF BreakLock, Goes, At, SectionInv, LockInv, FoundInv, TaskInv, Runs,
             Serves, InSection, RuntimeInv, Undisturbed, NobodyDies, Alive, TypeOK,
             Maybe, Stages, Tasks, OwnerLocks, ActiveLocks, budget
  <2>6. CASE RetryLock(d)
    BY <2>6 DEF RetryLock, Goes, At, SectionInv, LockInv, FoundInv, TaskInv, Runs,
             Serves, InSection, RuntimeInv, Undisturbed, NobodyDies, Alive, TypeOK,
             Maybe, Stages, Tasks, OwnerLocks, ActiveLocks, files, budget
  <2>7. CASE TimeOutLock(d)
    BY <2>7 DEF TimeOutLock, TimesOut, Locks, LeftBehind, Goes, At, SectionInv,
             LockInv, FoundInv, TaskInv, Runs, Serves, InSection, RuntimeInv,
             Undisturbed, NobodyDies, Alive, TypeOK, Maybe, Stages, Tasks,
             OwnerLocks, ActiveLocks, files, budget
  <2>8. CASE ReadActive(d)
    BY SlotAssumption, <2>8 DEF SlotAssumption, ReadActive, Goes, Sees, At,
             SectionInv, LockInv, FoundInv, TaskInv, Runs, Serves, InSection,
             RuntimeInv, Undisturbed, NobodyDies, Alive, TypeOK, Maybe, Stages, Tasks,
             OwnerLocks, ActiveLocks, files, budget
  <2>9. CASE ProbeActive(d)
    BY <2>9 DEF ProbeActive, Goes, Sees, At, SectionInv, LockInv, FoundInv, TaskInv,
             Runs, Serves, InSection, RuntimeInv, Undisturbed, NobodyDies, Alive,
             TypeOK, Maybe, Stages, Tasks, OwnerLocks, ActiveLocks, files, budget
  <2>10. CASE WriteActive(d)
    BY <2>10 DEF WriteActive, Goes, At, SectionInv, LockInv, FoundInv, TaskInv,
             Runs, Serves, InSection, RuntimeInv, Undisturbed, NobodyDies, Alive,
             TypeOK, Maybe, Stages, Tasks, OwnerLocks, ActiveLocks, budget
  <2>11. CASE Unlock(d)
    BY <2>11 DEF Unlock, Locks, Goes, At, SectionInv, LockInv, FoundInv, TaskInv,
             Runs, Serves, InSection, RuntimeInv, Undisturbed, NobodyDies, Alive,
             TypeOK, Maybe, Stages, Tasks, OwnerLocks, ActiveLocks, budget
  <2> QED
    BY <1>2, <2>1, <2>2, <2>3, <2>4, <2>5, <2>6, <2>7, <2>8, <2>9, <2>10, <2>11 DEF UseLock
<1>3. ASSUME NEW d \in Daemons,
             Listen(d) \/ Ready(d) \/ MarkOwner(d) \/ Hush(d) \/ ReleaseOwner(d) \/ Exit(d)
      PROVE  SectionInv'
  <2>1. CASE Listen(d)
    BY <2>1 DEF Listen, Goes, At, SectionInv, LockInv, FoundInv, TaskInv, Runs,
             Serves, InSection, RuntimeInv, Undisturbed, NobodyDies, Alive, TypeOK,
             Maybe, Stages, Tasks, OwnerLocks, ActiveLocks, files, budget
  <2>2. CASE Ready(d)
    BY <2>2 DEF Ready, Locks, Goes, At, SectionInv, LockInv, FoundInv, TaskInv,
             Runs, Serves, InSection, RuntimeInv, Undisturbed, NobodyDies, Alive,
             TypeOK, Maybe, Stages, Tasks, OwnerLocks, ActiveLocks, files, budget
  <2>3. CASE MarkOwner(d)
    BY <2>3 DEF MarkOwner, Goes, At, SectionInv, LockInv, FoundInv, TaskInv, Runs,
             Serves, InSection, RuntimeInv, Undisturbed, NobodyDies, Alive, TypeOK,
             Maybe, Stages, Tasks, OwnerLocks, ActiveLocks, budget
  <2>4. CASE Hush(d)
    BY <2>4 DEF Hush, Goes, At, SectionInv, LockInv, FoundInv, TaskInv, Runs,
             Serves, InSection, RuntimeInv, Undisturbed, NobodyDies, Alive, TypeOK,
             Maybe, Stages, Tasks, OwnerLocks, ActiveLocks, files, budget
  <2>5. CASE ReleaseOwner(d)
    BY <2>5 DEF ReleaseOwner, Goes, At, SectionInv, LockInv, FoundInv, TaskInv,
             Runs, Serves, InSection, RuntimeInv, Undisturbed, NobodyDies, Alive,
             TypeOK, Maybe, Stages, Tasks, OwnerLocks, ActiveLocks, budget
  <2>6. CASE Exit(d)
    BY <2>6 DEF Exit, Ends, Goes, Sees, At, SectionInv, LockInv, FoundInv, TaskInv,
             Runs, Serves, InSection, RuntimeInv, Undisturbed, NobodyDies, Alive,
             TypeOK, Maybe, Stages, Tasks, OwnerLocks, ActiveLocks, files, budget
  <2> QED
    BY <1>3, <2>1, <2>2, <2>3, <2>4, <2>5, <2>6
<1>4. ASSUME NEW d \in Daemons,
             Trouble(d)
      PROVE  SectionInv'
  <2>1. CASE ListenFails(d)
    BY <2>1 DEF ListenFails, Fails, Goes, At, SectionInv, LockInv, FoundInv,
             TaskInv, Runs, Serves, InSection, RuntimeInv, Undisturbed, NobodyDies,
             Alive, TypeOK, Maybe, Stages, Tasks, OwnerLocks, ActiveLocks, files
  <2>2. CASE StartFails(d)
    BY <2>2 DEF StartFails, Fails, Locks, Goes, At, SectionInv, LockInv, FoundInv,
             TaskInv, Runs, Serves, InSection, RuntimeInv, Undisturbed, NobodyDies,
             Alive, TypeOK, Maybe, Stages, Tasks, OwnerLocks, ActiveLocks, files
  <2>3. CASE Starves(d)
    BY <2>3 DEF Starves, TimesOut, Locks, LeftBehind, Fails, Goes, At, SectionInv,
             LockInv, FoundInv, TaskInv, Runs, Serves, InSection, RuntimeInv,
             Undisturbed, NobodyDies, Alive, TypeOK, Maybe, Stages, Tasks,
             OwnerLocks, ActiveLocks, files
  <2>4. CASE Stop(d)
    BY <2>4 DEF Stop, Locks, Goes, At, SectionInv, LockInv, FoundInv, TaskInv, Runs,
             Serves, InSection, RuntimeInv, Undisturbed, NobodyDies, Alive, TypeOK,
             Maybe, Stages, Tasks, OwnerLocks, ActiveLocks, files
  <2>5. CASE Crash(d)
    BY <2>5 DEF Crash, Ends, Goes, Sees, At, SectionInv, LockInv, FoundInv, TaskInv,
             Runs, Serves, InSection, RuntimeInv, Undisturbed, NobodyDies, Alive,
             TypeOK, Maybe, Stages, Tasks, OwnerLocks, ActiveLocks, files
  <2>6. CASE ProbeTimesOut(d)
    <3>1. CASE At(d, "probeActive")
      <4>1. /\ pc' = [pc EXCEPT ![d] = "write"] /\ seen' = [seen EXCEPT ![d] = None]
            /\ task[d] = "publish" /\ UNCHANGED <<task, active>>
        BY <2>6, <3>1 DEF ProbeTimesOut, Goes, Sees, At, files, RuntimeInv, SectionInv
      <4>2. \A e \in Daemons : ~Runs(e)
        BY <2>6, <3>1 DEF ProbeTimesOut, RuntimeInv, SectionInv, FoundInv
      <4>3. \A e \in Daemons : ~Runs(e)'
        BY <4>1, <4>2 DEF Runs, At, TypeOK
      <4> QED
        BY <4>1, <4>3 DEF RuntimeInv, SectionInv, At, TypeOK
    <3>2. CASE ~At(d, "probeActive")
      <4>1. /\ \E stage \in {"evict", "readPid", "exit"} : pc' = [pc EXCEPT ![d] = stage]
            /\ seen' = [seen EXCEPT ![d] = None] /\ UNCHANGED <<task, active>>
        BY <2>6, <3>2 DEF ProbeTimesOut, NoEvidence, Goes, Sees, files
      <4>2. \A e \in Daemons : Runs(e)' => Runs(e)
        BY <4>1 DEF Runs, At, TypeOK
      <4> QED
        BY <4>1, <4>2 DEF RuntimeInv, SectionInv, At, TypeOK
    <3> QED
      BY <3>1, <3>2
  <2> QED
    BY <1>4, <2>1, <2>2, <2>3, <2>4, <2>5, <2>6 DEF Trouble
<1>5. ASSUME NEW d \in Daemons, NEW o \in Owners, Launch(d, o)
      PROVE  SectionInv'
  BY <1>5 DEF Launch, MayLaunch, Forgotten, Goes, At, SectionInv, LockInv, FoundInv,
           TaskInv, Runs, Serves, InSection, RuntimeInv, Undisturbed, NobodyDies,
           Alive, TypeOK, Maybe, Stages, Tasks, OwnerLocks, ActiveLocks, files,
           budget
<1>6. CASE AgeOwner \/ AgeLock
  BY <1>6 DEF AgeOwner, AgeLock, At, SectionInv, LockInv, FoundInv, TaskInv, Runs,
           Serves, InSection, RuntimeInv, Undisturbed, NobodyDies, Alive, TypeOK,
           Maybe, Stages, Tasks, OwnerLocks, ActiveLocks, local, budget
<1>7. CASE UNCHANGED slotVars
  BY <1>7 DEF At, SectionInv, LockInv, FoundInv, TaskInv, Runs, Serves, InSection,
           RuntimeInv, Undisturbed, NobodyDies, Alive, TypeOK, Maybe, Stages, Tasks,
           OwnerLocks, ActiveLocks, slotVars, local, files, budget
<1> QED
  BY <1>1, <1>2, <1>3, <1>4, <1>5, <1>6, <1>7 DEF SlotNext, Step

\* A section has a task, which it keeps.
LEMMA TaskStep ==
    ASSUME Undisturbed, TypeOK, LockInv, RuntimeInv, [SlotNext]_slotVars
    PROVE  TaskInv'
<1>1. ASSUME NEW d \in Daemons,
             Acquire(d)
      PROVE  TaskInv'
  <2>1. CASE TakeOwner(d)
    BY <2>1 DEF TakeOwner, Goes, At, TaskInv, SectionInv, InSection, RuntimeInv,
             Undisturbed, NobodyDies, Alive, TypeOK, Maybe, Stages, Tasks,
             OwnerLocks, ActiveLocks, budget
  <2>2. CASE StampOwner(d)
    BY <2>2 DEF StampOwner, Goes, At, TaskInv, SectionInv, InSection, RuntimeInv,
             Undisturbed, NobodyDies, Alive, TypeOK, Maybe, Stages, Tasks,
             OwnerLocks, ActiveLocks, budget
  <2>3. CASE StatOwner(d)
    BY <2>3 DEF StatOwner, Goes, At, TaskInv, SectionInv, InSection, RuntimeInv,
             Undisturbed, NobodyDies, Alive, TypeOK, Maybe, Stages, Tasks,
             OwnerLocks, ActiveLocks, files, budget
  <2>4. CASE InspectOwner(d)
    BY <2>4 DEF InspectOwner, NoEvidence, Goes, Sees, At, TaskInv, SectionInv,
             InSection, RuntimeInv, Undisturbed, NobodyDies, Alive, TypeOK, Maybe,
             Stages, Tasks, OwnerLocks, ActiveLocks, files, budget
  <2>5. CASE ProbeOwner(d)
    BY <2>5 DEF ProbeOwner, NoEvidence, Goes, Sees, At, TaskInv, SectionInv,
             InSection, RuntimeInv, Undisturbed, NobodyDies, Alive, TypeOK, Maybe,
             Stages, Tasks, OwnerLocks, ActiveLocks, files, budget
  <2>6. CASE ReadOwnerPid(d)
    BY <2>6 DEF ReadOwnerPid, Goes, Sees, At, TaskInv, SectionInv, InSection,
             RuntimeInv, Undisturbed, NobodyDies, Alive, TypeOK, Maybe, Stages, Tasks,
             OwnerLocks, ActiveLocks, files, budget
  <2>7. CASE CheckOwnerPid(d)
    BY <2>7 DEF CheckOwnerPid, Goes, Sees, At, TaskInv, SectionInv, InSection,
             RuntimeInv, Undisturbed, NobodyDies, Alive, TypeOK, Maybe, Stages, Tasks,
             OwnerLocks, ActiveLocks, files, budget
  <2>8. CASE EvictOwner(d)
    BY <2>8 DEF EvictOwner, Goes, At, TaskInv, SectionInv, InSection, RuntimeInv,
             Undisturbed, NobodyDies, Alive, TypeOK, Maybe, Stages, Tasks,
             OwnerLocks, ActiveLocks, budget
  <2>9. CASE Recall(d)
    BY <2>9 DEF Recall, Goes, Sees, At, TaskInv, SectionInv, InSection, RuntimeInv,
             Undisturbed, NobodyDies, Alive, TypeOK, Maybe, Stages, Tasks,
             OwnerLocks, ActiveLocks, files, budget
  <2>10. CASE ProbeRecall(d)
    BY <2>10 DEF ProbeRecall, Locks, Goes, Sees, At, TaskInv, SectionInv, InSection,
             RuntimeInv, Undisturbed, NobodyDies, Alive, TypeOK, Maybe, Stages, Tasks,
             OwnerLocks, ActiveLocks, files, budget
  <2> QED
    BY <1>1, <2>1, <2>2, <2>3, <2>4, <2>5, <2>6, <2>7, <2>8, <2>9, <2>10 DEF Acquire
<1>2. ASSUME NEW d \in Daemons,
             UseLock(d)
      PROVE  TaskInv'
  <2>1. CASE TakeLock(d)
    BY <2>1 DEF TakeLock, Goes, At, TaskInv, SectionInv, InSection, RuntimeInv,
             Undisturbed, NobodyDies, Alive, TypeOK, Maybe, Stages, Tasks,
             OwnerLocks, ActiveLocks, budget
  <2>2. CASE StampLock(d)
    BY <2>2 DEF StampLock, Goes, At, TaskInv, SectionInv, InSection, RuntimeInv,
             Undisturbed, NobodyDies, Alive, TypeOK, Maybe, Stages, Tasks,
             OwnerLocks, ActiveLocks, budget
  <2>3. CASE ReadLock(d)
    BY <2>3 DEF ReadLock, Goes, Sees, At, TaskInv, SectionInv, InSection, RuntimeInv,
             Undisturbed, NobodyDies, Alive, TypeOK, Maybe, Stages, Tasks,
             OwnerLocks, ActiveLocks, files, budget
  <2>4. CASE CheckLock(d)
    BY <2>4 DEF CheckLock, Goes, Sees, At, TaskInv, SectionInv, InSection, RuntimeInv,
             Undisturbed, NobodyDies, Alive, TypeOK, Maybe, Stages, Tasks,
             OwnerLocks, ActiveLocks, files, budget
  <2>5. CASE BreakLock(d)
    BY <2>5 DEF BreakLock, Goes, At, TaskInv, SectionInv, InSection, RuntimeInv,
             Undisturbed, NobodyDies, Alive, TypeOK, Maybe, Stages, Tasks,
             OwnerLocks, ActiveLocks, budget
  <2>6. CASE RetryLock(d)
    BY <2>6 DEF RetryLock, Goes, At, TaskInv, SectionInv, InSection, RuntimeInv,
             Undisturbed, NobodyDies, Alive, TypeOK, Maybe, Stages, Tasks,
             OwnerLocks, ActiveLocks, files, budget
  <2>7. CASE TimeOutLock(d)
    BY <2>7 DEF TimeOutLock, TimesOut, Locks, LeftBehind, Goes, At, TaskInv,
             SectionInv, InSection, RuntimeInv, Undisturbed, NobodyDies, Alive, TypeOK,
             Maybe, Stages, Tasks, OwnerLocks, ActiveLocks, files, budget
  <2>8. CASE ReadActive(d)
    BY <2>8 DEF ReadActive, Goes, Sees, At, TaskInv, SectionInv, InSection, RuntimeInv,
             Undisturbed, NobodyDies, Alive, TypeOK, Maybe, Stages, Tasks,
             OwnerLocks, ActiveLocks, files, budget
  <2>9. CASE ProbeActive(d)
    BY <2>9 DEF ProbeActive, Goes, Sees, At, TaskInv, SectionInv, InSection,
             RuntimeInv, Undisturbed, NobodyDies, Alive, TypeOK, Maybe, Stages, Tasks,
             OwnerLocks, ActiveLocks, files, budget
  <2>10. CASE WriteActive(d)
    BY <2>10 DEF WriteActive, Goes, At, TaskInv, SectionInv, InSection, RuntimeInv,
             Undisturbed, NobodyDies, Alive, TypeOK, Maybe, Stages, Tasks,
             OwnerLocks, ActiveLocks, budget
  <2>11. CASE Unlock(d)
    BY <2>11 DEF Unlock, Locks, Goes, At, TaskInv, SectionInv, InSection, RuntimeInv,
             Undisturbed, NobodyDies, Alive, TypeOK, Maybe, Stages, Tasks,
             OwnerLocks, ActiveLocks, budget
  <2> QED
    BY <1>2, <2>1, <2>2, <2>3, <2>4, <2>5, <2>6, <2>7, <2>8, <2>9, <2>10, <2>11 DEF UseLock
<1>3. ASSUME NEW d \in Daemons,
             Listen(d) \/ Ready(d) \/ MarkOwner(d) \/ Hush(d) \/ ReleaseOwner(d) \/ Exit(d)
      PROVE  TaskInv'
  <2>1. CASE Listen(d)
    BY <2>1 DEF Listen, Goes, At, TaskInv, SectionInv, InSection, RuntimeInv,
             Undisturbed, NobodyDies, Alive, TypeOK, Maybe, Stages, Tasks,
             OwnerLocks, ActiveLocks, files, budget
  <2>2. CASE Ready(d)
    BY <2>2 DEF Ready, Locks, Goes, At, TaskInv, SectionInv, InSection, RuntimeInv,
             Undisturbed, NobodyDies, Alive, TypeOK, Maybe, Stages, Tasks,
             OwnerLocks, ActiveLocks, files, budget
  <2>3. CASE MarkOwner(d)
    BY <2>3 DEF MarkOwner, Goes, At, TaskInv, SectionInv, InSection, RuntimeInv,
             Undisturbed, NobodyDies, Alive, TypeOK, Maybe, Stages, Tasks,
             OwnerLocks, ActiveLocks, budget
  <2>4. CASE Hush(d)
    BY <2>4 DEF Hush, Goes, At, TaskInv, SectionInv, InSection, RuntimeInv,
             Undisturbed, NobodyDies, Alive, TypeOK, Maybe, Stages, Tasks,
             OwnerLocks, ActiveLocks, files, budget
  <2>5. CASE ReleaseOwner(d)
    BY <2>5 DEF ReleaseOwner, Goes, At, TaskInv, SectionInv, InSection, RuntimeInv,
             Undisturbed, NobodyDies, Alive, TypeOK, Maybe, Stages, Tasks,
             OwnerLocks, ActiveLocks, budget
  <2>6. CASE Exit(d)
    BY <2>6 DEF Exit, Ends, Goes, Sees, At, TaskInv, SectionInv, InSection, RuntimeInv,
             Undisturbed, NobodyDies, Alive, TypeOK, Maybe, Stages, Tasks,
             OwnerLocks, ActiveLocks, files, budget
  <2> QED
    BY <1>3, <2>1, <2>2, <2>3, <2>4, <2>5, <2>6
<1>4. ASSUME NEW d \in Daemons,
             Trouble(d)
      PROVE  TaskInv'
  <2>1. CASE ListenFails(d)
    BY <2>1 DEF ListenFails, Fails, Goes, At, TaskInv, SectionInv, InSection,
             RuntimeInv, Undisturbed, NobodyDies, Alive, TypeOK, Maybe, Stages, Tasks,
             OwnerLocks, ActiveLocks, files
  <2>2. CASE StartFails(d)
    BY <2>2 DEF StartFails, Fails, Locks, Goes, At, TaskInv, SectionInv, InSection,
             RuntimeInv, Undisturbed, NobodyDies, Alive, TypeOK, Maybe, Stages, Tasks,
             OwnerLocks, ActiveLocks, files
  <2>3. CASE Starves(d)
    BY <2>3 DEF Starves, TimesOut, Locks, LeftBehind, Fails, Goes, At, TaskInv,
             SectionInv, InSection, RuntimeInv, Undisturbed, NobodyDies, Alive, TypeOK,
             Maybe, Stages, Tasks, OwnerLocks, ActiveLocks, files
  <2>4. CASE Stop(d)
    BY <2>4 DEF Stop, Locks, Goes, At, TaskInv, SectionInv, InSection, RuntimeInv,
             Undisturbed, NobodyDies, Alive, TypeOK, Maybe, Stages, Tasks,
             OwnerLocks, ActiveLocks, files
  <2>5. CASE Crash(d)
    BY <2>5 DEF Crash, Ends, Goes, Sees, At, TaskInv, SectionInv, InSection,
             RuntimeInv, Undisturbed, NobodyDies, Alive, TypeOK, Maybe, Stages, Tasks,
             OwnerLocks, ActiveLocks, files
  <2>6. CASE ProbeTimesOut(d)
    BY <2>6 DEF ProbeTimesOut, NoEvidence, Goes, Sees, At, TaskInv, SectionInv,
             InSection, RuntimeInv, Undisturbed, NobodyDies, Alive, TypeOK, Maybe,
             Stages, Tasks, OwnerLocks, ActiveLocks, files
  <2> QED
    BY <1>4, <2>1, <2>2, <2>3, <2>4, <2>5, <2>6 DEF Trouble
<1>5. ASSUME NEW d \in Daemons, NEW o \in Owners, Launch(d, o)
      PROVE  TaskInv'
  BY <1>5 DEF Launch, MayLaunch, Forgotten, Goes, At, TaskInv, SectionInv,
           InSection, RuntimeInv, Undisturbed, NobodyDies, Alive, TypeOK, Maybe,
           Stages, Tasks, OwnerLocks, ActiveLocks, files, budget
<1>6. CASE AgeOwner \/ AgeLock
  BY <1>6 DEF AgeOwner, AgeLock, At, TaskInv, SectionInv, InSection, RuntimeInv,
           Undisturbed, NobodyDies, Alive, TypeOK, Maybe, Stages, Tasks, OwnerLocks,
           ActiveLocks, local, budget
<1>7. CASE UNCHANGED slotVars
  BY <1>7 DEF At, TaskInv, SectionInv, InSection, RuntimeInv, Undisturbed, NobodyDies,
           Alive, TypeOK, Maybe, Stages, Tasks, OwnerLocks, ActiveLocks, slotVars,
           local, files, budget
<1> QED
  BY <1>1, <1>2, <1>3, <1>4, <1>5, <1>6, <1>7 DEF SlotNext, Step

\* Only a probe that times out sets the flag, and nothing resets it.
LEMMA OverlookedForGood ==
    ASSUME overlooked, [SlotNext]_slotVars
    PROVE  overlooked'
<1>1. ASSUME NEW d \in Daemons, Step(d)
      PROVE  overlooked'
  <2>1. CASE Acquire(d)
    BY <2>1 DEF Acquire, TakeOwner, StampOwner, StatOwner, InspectOwner, ProbeOwner,
             ReadOwnerPid, CheckOwnerPid, EvictOwner, Recall, ProbeRecall, budget
  <2>2. CASE UseLock(d)
    BY <2>2 DEF UseLock, TakeLock, StampLock, ReadLock, CheckLock, BreakLock,
             RetryLock, TimeOutLock, ReadActive, ProbeActive, WriteActive, Unlock, budget
  <2>3. CASE Listen(d) \/ Ready(d) \/ MarkOwner(d) \/ Hush(d) \/ ReleaseOwner(d) \/ Exit(d)
    BY <2>3 DEF Listen, Ready, MarkOwner, Hush, ReleaseOwner, Exit, budget
  <2> QED
    BY <1>1, <2>1, <2>2, <2>3 DEF Step
<1>2. ASSUME NEW d \in Daemons, Trouble(d)
      PROVE  overlooked'
  BY <1>2 DEF Trouble, ListenFails, StartFails, Starves, Fails, ProbeTimesOut, Stop, Crash
<1>3. CASE (\E d \in Daemons, o \in Owners : Launch(d, o)) \/ AgeOwner \/ AgeLock
  BY <1>3 DEF Launch, AgeOwner, AgeLock, budget
<1>4. CASE UNCHANGED slotVars
  BY <1>4 DEF slotVars, budget
<1> QED
  BY <1>1, <1>2, <1>3, <1>4 DEF SlotNext

-----------------------------------------------------------------------------
(* The theorems *)

\* A workspace without daemons satisfies the invariant.
LEMMA SlotInitially ==
    Init => SlotInv
<1> SUFFICES ASSUME Init PROVE SlotInv
  OBVIOUS
<1>1. TypeOK
  <2>1. /\ failures \in 0..MaxFailures /\ stops \in 0..MaxStops
        /\ crashes \in 0..MaxCrashes /\ timeouts \in 0..MaxTimeouts
    BY SlotAssumption DEF SlotAssumption, Init
  <2>2. overlooked \in BOOLEAN
    BY Zenon DEF Init
  <2> QED
    BY <2>1, <2>2 DEF Init, TypeOK, Maybe, Stages, Tasks
<1>2. LockInv /\ FoundInv /\ RecordInv
  BY DEF Init, LockInv, FoundInv, RecordInv, InSection, Runs, At
<1>3. SectionInv /\ TaskInv
  BY DEF Init, SectionInv, TaskInv, InSection, At, Alive
<1> QED
  BY <1>1, <1>2, <1>3 DEF SlotInv, RuntimeInv

\* Every step of undisturbed daemons keeps the invariant.
LEMMA SlotStep ==
    ASSUME Undisturbed, SlotInv, [SlotNext]_slotVars
    PROVE  SlotInv'
<1>1. TypeOK' /\ LockInv'
  BY TypeStep, LockStep DEF SlotInv, Undisturbed
<1>2. ASSUME ~overlooked' PROVE RuntimeInv'
  <2>1. TypeOK /\ LockInv /\ RuntimeInv
    BY <1>2, OverlookedForGood DEF SlotInv
  <2>2. FoundInv' /\ RecordInv'
    BY <2>1, FoundStep, RecordStep
  <2>3. SectionInv' /\ TaskInv'
    BY <1>2, <2>1, SectionStep, TaskStep
  <2> QED
    BY <2>2, <2>3 DEF RuntimeInv
<1> QED
  BY <1>1, <1>2 DEF SlotInv

\* The state of the daemons and of their three files is typed, whatever stops,
\* dies or fails.
THEOREM SlotTypes ==
    SlotSpec => []TypeOK
<1>1. Init => TypeOK
  BY SlotInitially DEF SlotInv
<1>2. TypeOK /\ [SlotNext]_slotVars => TypeOK'
  BY TypeStep
<1> QED
  BY <1>1, <1>2, PTL DEF SlotSpec

\* However many daemons start and stop, active.lock excludes while nobody dies,
\* although whoever finds the lock judges it (ActiveDaemonRegistry._active_lock).
THEOREM LockExcludes ==
    ASSUME NobodyDies
    PROVE  SlotSpec => []OneInSection
<1>1. Init => TypeOK /\ LockInv
  BY SlotInitially DEF SlotInv
<1>2. TypeOK /\ LockInv /\ [SlotNext]_slotVars => TypeOK' /\ LockInv'
  BY TypeStep, LockStep
<1>3. LockInv => OneInSection
  BY DEF LockInv, OneInSection
<1> QED
  BY <1>1, <1>2, <1>3, PTL DEF SlotSpec

\* However many daemons start at once and however many probes time out, the
\* invariant holds while none is told to stop and none dies half-way; its part on
\* who runs, until a publication overlooks a running daemon that is slow
\* (OwnershipHealthProbe.probe, _active_record_conflicts).
THEOREM SlotInvariance ==
    ASSUME Undisturbed
    PROVE  SlotSpec => []SlotInv
<1>1. Init => SlotInv
  BY SlotInitially
<1>2. SlotInv /\ [SlotNext]_slotVars => SlotInv'
  BY SlotStep
<1> QED
  BY <1>1, <1>2, PTL DEF SlotSpec

\* However many daemons start at once, a second one runs the workspace only after
\* a publication got no answer in time from the first: a slow answer to the probe
\* of owner.lock, which gives the second one that lock, is not enough
\* (acquire, _recover_stale_owner_lock, ActiveDaemonRegistry.publish).
THEOREM OneDaemonRuns ==
    ASSUME Undisturbed
    PROVE  SlotSpec => []OneRuntime
<1>1. SlotInv => OneRuntime
  BY DEF SlotInv, RuntimeInv, FoundInv, OneRuntime, OneRunsAlways
<1> QED
  BY <1>1, SlotInvariance, PTL

\* Until a publication overlooks it, no starter that loses, fails, waits in vain,
\* evicts its lock or restores a record hides the daemon that runs
\* (ActiveDaemonRegistry.publish, clear and restore).
THEOREM PublishedDaemonIsFound ==
    ASSUME Undisturbed
    PROVE  SlotSpec => []RuntimeIsFound
<1>1. SlotInv => RuntimeIsFound
  BY DEF SlotInv, RuntimeInv, FoundInv, RuntimeIsFound
<1> QED
  BY <1>1, SlotInvariance, PTL

=============================================================================
