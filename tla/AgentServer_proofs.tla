-------------------------- MODULE AgentServer_proofs ---------------------------
(***************************************************************************)
(* Proofs about the RPC server of the agent, for any number of requests,   *)
(* any sizes of the pools and any history of the main thread.              *)
(*                                                                         *)
(* ShotOK says for each point of the method who will close an open         *)
(* screenshot: the session that stores it, the method that took it, or the *)
(* processor that encodes it.  GateOK counts the requests inside and fixes *)
(* from which step of a stop on the gate lets nobody in.  RegistryInv has  *)
(* the places of the snapshots in the store, and what pins one there: a    *)
(* thread of the pool, so that one displaced early has seen nearly Limit   *)
(* newer ones.                                                             *)
(***************************************************************************)
EXTENDS AgentServer, FiniteSetTheorems, SequenceTheorems, TLAPS

-----------------------------------------------------------------------------
(* Pools and the registry                                                  *)

\* A pool keeps its type whatever is done with it, and a task that is taken in
\* or taken up ends no other's run.
LEMMA PoolTypes ==
    ASSUME NEW T, NEW pool \in PoolOf(T), NEW t \in T
    PROVE  /\ Submitted(pool, t) \in PoolOf(T)
           /\ pool.running \subseteq Submitted(pool, t).running
           /\ Finished(pool, t) \in PoolOf(T)
           /\ Finished(pool, t).running = pool.running \ {t}
<1>1. /\ pool.threads \in Nat /\ pool.threads + 1 \in Nat
      /\ pool.running \cup {t} \in SUBSET T /\ pool.running \ {t} \in SUBSET T
  BY DEF PoolOf
<1>2. Append(pool.queue, t) \in Seq(T)
  BY AppendProperties DEF PoolOf
<1>3. /\ Submitted(pool, t) \in PoolOf(T)
      /\ pool.running \subseteq Submitted(pool, t).running
  <2>1. CASE pool.threads < pool.core \/ Len(pool.queue) = pool.capacity
    BY <1>1, <2>1 DEF Submitted, PoolOf
  <2>2. CASE ~(pool.threads < pool.core \/ Len(pool.queue) = pool.capacity)
    <3>1. (IF pool.threads = 0 THEN 1 ELSE pool.threads) \in Nat
      BY <1>1
    <3> QED BY <1>2, <2>2, <3>1 DEF Submitted, PoolOf
  <2> QED BY <2>1, <2>2
<1>4. Finished(pool, t) \in PoolOf(T) /\ Finished(pool, t).running = pool.running \ {t}
  BY <1>1 DEF Finished, PoolOf
<1> QED
  BY <1>3, <1>4

\* So does a pool whose queue is taken from, closed, or dropped.
LEMMA PoolQueueTypes ==
    ASSUME NEW T, NEW pool \in PoolOf(T)
    PROVE  /\ HasWork(pool) => /\ Taken(pool) \in PoolOf(T)
                               /\ pool.running \subseteq Taken(pool).running
           /\ ShutDown(pool) \in PoolOf(T) /\ ShutDown(pool).running = pool.running
           /\ ShutDownNow(pool) \in PoolOf(T) /\ ShutDownNow(pool).running = pool.running
<1>1. ASSUME HasWork(pool)
      PROVE  /\ Taken(pool) \in PoolOf(T)
             /\ pool.running \subseteq Taken(pool).running
  <2>1. pool.queue \in Seq(T) /\ pool.queue # <<>>
    BY <1>1 DEF PoolOf, HasWork
  <2>2. Head(pool.queue) \in T /\ Tail(pool.queue) \in Seq(T)
    BY <2>1, HeadTailProperties
  <2>3. pool.running \cup {Head(pool.queue)} \in SUBSET T
    BY <2>2 DEF PoolOf
  <2> QED BY <2>2, <2>3 DEF Taken, PoolOf
<1>2. ShutDown(pool) \in PoolOf(T) /\ ShutDown(pool).running = pool.running
  BY DEF ShutDown, PoolOf
<1>3. <<>> \in Seq(T)
  BY EmptySeq
<1>4. ShutDownNow(pool) \in PoolOf(T) /\ ShutDownNow(pool).running = pool.running
  BY <1>3 DEF ShutDownNow, PoolOf
<1> QED
  BY <1>1, <1>2, <1>4

\* A new pool has its type.
LEMMA NewPool ==
    ASSUME NEW T, NEW core \in Nat, NEW max \in Nat, NEW capacity \in Nat
    PROVE  Pool(core, max, capacity) \in PoolOf(T)
<1>1. <<>> \in Seq(T)
  BY EmptySeq
<1> QED
  BY <1>1 DEF Pool, PoolOf

\* The numbers of a registry stay numbers.
LEMMA RegistryTypes ==
    /\ RegistryOK(NewRegistry)
    /\ \A r, id : RegistryOK(r) =>
          /\ RegistryOK([r EXCEPT !.sequence = @ + 1])
          /\ RegistryOK(Published(r, id)) /\ RegistryOK(Completed(r, id))
          /\ RegistryOK(BeginReset(r)) /\ RegistryOK(FinishReset(r))
  BY DEF RegistryOK, NewRegistry, Published, Completed, BeginReset, FinishReset

-----------------------------------------------------------------------------
(* Types                                                                   *)

\* The server starts in its types.
LEMMA InitTypes == Init => TypeOK
<1> SUFFICES ASSUME Init PROVE TypeOK
  OBVIOUS
<1>1. methods \in PoolOf(Requests) /\ screens \in PoolOf(Requests)
  BY NewPool, ServerAssumption DEF Init
<1>2. NoTask \in Tasks
  BY DEF NoTask, Tasks, Stages, Outcomes
<1>3. NoShot \in Shots
  BY DEF NoShot, Shots
<1>4. [at |-> "out", told |-> "none"] \in Calls
  BY DEF Calls, Answers, Outcomes
<1>5. [generation |-> 1, revoked |-> FALSE] \in Handles
  BY DEF Handles
<1>6. [quiescing |-> FALSE, active |-> 0] \in Gates
  BY DEF Gates
<1>7. [at |-> "idle", attaching |-> FALSE, force |-> FALSE] \in MainStates
  BY DEF MainStates
<1> QED
  BY <1>1, <1>2, <1>3, <1>4, <1>5, <1>6, <1>7, RegistryTypes DEF Init, TypeOK

\* A method that goes on, or is over: its stage, and nobody else's.
LEMMA TaskMoves ==
    ASSUME TypeOK, NEW r \in Requests
    PROVE  /\ \A at \in Stages : Goes(r, at) =>
                 /\ task' \in [Requests -> Tasks] /\ methods' \in PoolOf(Requests)
                 /\ task'[r].at = at /\ \A q \in Requests \ {r} : task'[q] = task[q]
           /\ \A outcome \in Outcomes : Finish(r, outcome) =>
                 /\ task' \in [Requests -> Tasks] /\ methods' \in PoolOf(Requests)
                 /\ task'[r].at = "done" /\ \A q \in Requests \ {r} : task'[q] = task[q]
<1>1. ASSUME NEW at \in Stages, Goes(r, at)
      PROVE  /\ task' \in [Requests -> Tasks] /\ methods' \in PoolOf(Requests)
             /\ task'[r].at = at /\ \A q \in Requests \ {r} : task'[q] = task[q]
  BY <1>1 DEF Goes, TypeOK, Tasks
<1>2. ASSUME NEW outcome \in Outcomes, Finish(r, outcome)
      PROVE  /\ task' \in [Requests -> Tasks] /\ methods' \in PoolOf(Requests)
             /\ task'[r].at = "done" /\ \A q \in Requests \ {r} : task'[q] = task[q]
  <2>1. methods' \in PoolOf(Requests)
    BY <1>2, PoolTypes DEF Finish, TypeOK
  <2> DEFINE kept == IF call[r].at = "left" THEN "none" ELSE outcome
  <2>2. kept \in Outcomes /\ "done" \in Stages
    BY DEF Stages, Outcomes
  <2>3. task' = [task EXCEPT ![r].at = "done", ![r].outcome = kept]
    BY <1>2 DEF Finish
  <2> HIDE DEF kept
  <2>4. /\ task' \in [Requests -> Tasks]
        /\ task'[r].at = "done" /\ \A q \in Requests \ {r} : task'[q] = task[q]
    BY <2>2, <2>3 DEF TypeOK, Tasks
  <2> QED BY <2>1, <2>4
<1> QED
  BY <1>1, <1>2

\* An answer keeps the types of the request and of the gate.
LEMMA LeaveTypes ==
    ASSUME TypeOK, NEW r \in Requests, NEW told \in Answers, Leave(r, told)
    PROVE  /\ call' \in [Requests -> Calls] /\ gate' \in Gates
           /\ call'[r].at = "left" /\ \A q \in Requests \ {r} : call'[q] = call[q]
<1>1. [at |-> "left", told |-> told] \in Calls
  BY DEF Calls
<1>2. gate.active \in Nat /\ (IF gate.active = 0 THEN 0 ELSE gate.active - 1) \in Nat
  BY DEF TypeOK, Gates
<1>3. gate' \in Gates
  BY <1>2 DEF Leave, TypeOK, Gates
<1> QED
  BY <1>1, <1>3 DEF Leave, TypeOK

\* The HTTP threads keep the types.
LEMMA HttpTypes ==
    ASSUME TypeOK, NEW r \in Requests, Http(r) PROVE TypeOK'
<1>0. \A at \in {"inside", "waiting"} : [call EXCEPT ![r].at = at] \in [Requests -> Calls]
  BY DEF TypeOK, Calls
<1>1. CASE Enter(r)
  <2>1. CASE gate.quiescing
    <3>1. [at |-> "left", told |-> "stopping"] \in Calls
      BY DEF Calls, Answers
    <3> QED BY <1>1, <2>1, <3>1 DEF Enter, TypeOK
  <2>2. CASE ~gate.quiescing
    <3>1. [gate EXCEPT !.active = @ + 1] \in Gates
      BY DEF TypeOK, Gates
    <3> QED BY <1>0, <1>1, <2>2, <3>1 DEF Enter, TypeOK
  <2> QED BY <2>1, <2>2
<1>2. CASE Dispatch(r)
  <2>1. ASSUME NEW told \in {"notReady", "busy"}, Leave(r, told), UNCHANGED <<methods, task>>
        PROVE  TypeOK'
    <3>1. told \in Answers
      BY DEF Answers, Outcomes
    <3> QED BY <1>2, <2>1, <3>1, LeaveTypes DEF Dispatch, TypeOK
  <2>2. ASSUME NEW id \in IF method[r] = "action" THEN Known ELSE {0},
               task' = [task EXCEPT ![r].at = "submitted", ![r].id = id,
                                    ![r].bound = handle.generation],
               methods' = Submitted(methods, r), UNCHANGED gate,
               call' = [call EXCEPT ![r].at = "waiting"]
        PROVE  TypeOK'
    <3>1. id \in Nat /\ handle.generation \in Nat /\ "submitted" \in Stages
      BY DEF Known, TypeOK, Tasks, Handles, Stages
    <3>2. task' \in [Requests -> Tasks]
      BY <2>2, <3>1 DEF TypeOK, Tasks
    <3>3. methods' \in PoolOf(Requests)
      BY <2>2, PoolTypes DEF TypeOK
    <3> QED BY <1>0, <1>2, <2>2, <3>2, <3>3 DEF Dispatch, TypeOK
  <2> QED BY <1>2, <2>1, <2>2 DEF Dispatch
<1>3. CASE Answer(r)
  <2>1. task[r].outcome \in Answers
    BY DEF TypeOK, Tasks, Answers
  <2> QED BY <1>3, <2>1, LeaveTypes DEF Answer, TypeOK
<1>4. CASE TimeOut(r)
  <2> DEFINE at == IF task[r].at = "submitted" THEN "cancelled" ELSE task[r].at
  <2>1. at \in Stages
    BY DEF TypeOK, Tasks, Stages
  <2>2. task' = [task EXCEPT ![r].at = at, ![r].interrupted = TRUE]
    BY <1>4 DEF TimeOut
  <2> HIDE DEF at
  <2>3. task' \in [Requests -> Tasks]
    BY <2>1, <2>2 DEF TypeOK, Tasks
  <2>4. "timeout" \in Answers
    BY DEF Answers
  <2> QED BY <1>4, <2>3, <2>4, LeaveTypes DEF TimeOut, TypeOK
<1> QED
  BY <1>1, <1>2, <1>3, <1>4 DEF Http

\* The threads that run the methods keep the types.
LEMMA WorkerTypes ==
    ASSUME TypeOK, NEW r \in Requests, Worker(r) PROVE TypeOK'
<1>0. /\ {"bound", "encoding", "found", "awaiting", "abandoning", "captured", "processing",
          "cancelling", "collected"} \subseteq Stages
      /\ {"none", "notReady", "failed", "ok", "raced", "stale"} \subseteq Outcomes
  BY DEF Stages, Outcomes
<1>1. CASE Begin(r)
  BY <1>0, <1>1, TaskMoves DEF Begin, TypeOK
<1>2. CASE Collect(r)
  <2>1. CASE Finish(r, "failed") /\ UNCHANGED reg
    BY <1>0, <1>2, <2>1, TaskMoves DEF Collect, TypeOK
  <2>2. CASE /\ reg' = [reg EXCEPT !.sequence = @ + 1]
             /\ task' = [task EXCEPT ![r].at = "collected", ![r].id = reg.sequence + 1,
                                     ![r].generation = reg.generation]
             /\ UNCHANGED methods
    <3>1. reg.sequence + 1 \in Nat /\ reg.generation \in Nat
      BY DEF TypeOK, RegistryOK
    <3>2. task' \in [Requests -> Tasks]
      BY <1>0, <2>2, <3>1 DEF TypeOK, Tasks
    <3>3. RegistryOK(reg')
      BY <2>2, RegistryTypes DEF TypeOK
    <3> QED BY <1>2, <2>2, <3>2, <3>3 DEF Collect, TypeOK
  <2> QED BY <1>2, <2>1, <2>2 DEF Collect
<1>3. CASE Publish(r)
  <2>1. RegistryOK(reg')
    BY <1>3, RegistryTypes DEF Publish, TypeOK
  <2> QED BY <1>0, <1>3, <2>1, TaskMoves DEF Publish, TypeOK
<1>4. CASE Encode(r)
  <2>1. RegistryOK(reg')
    BY <1>4, RegistryTypes DEF Encode, TypeOK
  <2> QED BY <1>0, <1>4, <2>1, TaskMoves DEF Encode, TypeOK
<1>5. CASE Find(r) \/ Act(r)
  BY <1>0, <1>5, TaskMoves DEF Find, Act, TypeOK
<1>6. CASE TakeScreenshot(r)
  <2>1. shot' \in [Requests -> Shots]
    BY <1>6 DEF TakeScreenshot, Shot, TypeOK, Shots
  <2> QED BY <1>0, <1>6, <2>1, TaskMoves DEF TakeScreenshot, TypeOK
<1>7. CASE Await(r)
  <2>1. shot' \in [Requests -> Shots]
    BY <1>7 DEF Await, Shot, TypeOK, Shots
  <2> QED BY <1>0, <1>7, <2>1, TaskMoves DEF Await, TypeOK
<1>8. CASE Abandon(r)
  <2> DEFINE b == IF shot[r].result = "stored" THEN "closed" ELSE shot[r].buffer
  <2>1. b \in {"none", "open", "closed"}
    BY DEF TypeOK, Shots
  <2>2. shot' = [shot EXCEPT ![r].abandoned = TRUE, ![r].result = "none", ![r].buffer = b]
    BY <1>8 DEF Abandon
  <2> HIDE DEF b
  <2>3. [shot[r] EXCEPT !.abandoned = TRUE, !.result = "none", !.buffer = b] \in Shots
    BY <2>1 DEF TypeOK, Shots
  <2>4. shot' = [shot EXCEPT ![r] = [shot[r] EXCEPT !.abandoned = TRUE, !.result = "none",
                                                    !.buffer = b]]
    BY <2>2 DEF TypeOK
  <2>5. shot' \in [Requests -> Shots]
    BY <2>3, <2>4 DEF TypeOK
  <2> QED BY <1>0, <1>8, <2>5, TaskMoves DEF Abandon, TypeOK
<1>9. CASE Process(r)
  <2>1. shot' \in [Requests -> Shots]
    BY <1>9 DEF Process, Shot, Close, TypeOK, Shots
  <2>2. screens' \in PoolOf(Requests)
    BY <1>9, PoolTypes DEF Process, TypeOK
  <2> QED BY <1>0, <1>9, <2>1, <2>2, TaskMoves DEF Process, TypeOK
<1>10. CASE Encoded(r)
  <2> DEFINE p == IF shot[r].proc = "submitted" THEN "cancelled" ELSE shot[r].proc
  <2>1. p \in {"none", "submitted", "cancelled", "entered", "encoding", "done"}
    BY DEF TypeOK, Shots
  <2>2. shot' = shot \/ shot' = [shot EXCEPT ![r].proc = p]
    BY <1>10 DEF Encoded
  <2> HIDE DEF p
  <2>3. shot' \in [Requests -> Shots]
    <3>1. [shot EXCEPT ![r].proc = p] \in [Requests -> Shots]
      BY <2>1 DEF TypeOK, Shots
    <3> QED BY <2>2, <3>1 DEF TypeOK
  <2> QED BY <1>0, <1>10, <2>3, TaskMoves DEF Encoded, TypeOK
<1>11. CASE Notify(r)
  <2>1. shot' \in [Requests -> Shots]
    BY <1>11 DEF Notify, Close, TypeOK, Shots
  <2> QED BY <1>0, <1>11, <2>1, TaskMoves DEF Notify, TypeOK
<1> QED
  BY <1>1, <1>2, <1>3, <1>4, <1>5, <1>6, <1>7, <1>8, <1>9, <1>10, <1>11 DEF Worker

\* The callback of a screenshot keeps the types.
LEMMA CallbackTypes ==
    ASSUME TypeOK, NEW r \in Requests, Callback(r) PROVE TypeOK'
<1> DEFINE b == IF shot[r].abandoned THEN "closed" ELSE "open"
           s == IF shot[r].abandoned THEN shot[r].result ELSE "stored"
           f == IF shot[r].abandoned THEN shot[r].result ELSE "failed"
<1>1. /\ b \in {"none", "open", "closed"}
      /\ s \in {"none", "stored", "failed"} /\ f \in {"none", "stored", "failed"}
  BY DEF TypeOK, Shots
<1>2. \/ shot' = [shot EXCEPT ![r].callback = "over", ![r].buffer = b, ![r].result = s]
      \/ shot' = [shot EXCEPT ![r].callback = "over", ![r].result = f]
  BY DEF Callback
<1> HIDE DEF b, s, f
<1>3. /\ [shot[r] EXCEPT !.callback = "over", !.buffer = b, !.result = s] \in Shots
      /\ [shot[r] EXCEPT !.callback = "over", !.result = f] \in Shots
  BY <1>1 DEF TypeOK, Shots
<1>4. \/ shot' = [shot EXCEPT ![r] = [shot[r] EXCEPT !.callback = "over", !.buffer = b,
                                                    !.result = s]]
      \/ shot' = [shot EXCEPT ![r] = [shot[r] EXCEPT !.callback = "over", !.result = f]]
  BY <1>2 DEF TypeOK
<1> QED
  BY <1>3, <1>4 DEF Callback, TypeOK

\* The processor of screenshots keeps the types.
LEMMA ProcessorTypes ==
    ASSUME TypeOK, NEW r \in Requests, RunProcessor(r) PROVE TypeOK'
<1>1. shot' \in [Requests -> Shots]
  <2>1. /\ \A p \in {"entered", "encoding"} : [shot EXCEPT ![r].proc = p] \in [Requests -> Shots]
        /\ [shot EXCEPT ![r].proc = "done", ![r].buffer = "closed"] \in [Requests -> Shots]
    BY DEF TypeOK, Shots
  <2>2. \/ \E p \in {"entered", "encoding"} : shot' = [shot EXCEPT ![r]["proc"] = p]
        \/ shot' = [shot EXCEPT ![r].proc = "done", ![r].buffer = "closed"]
        \/ shot' = shot
    BY DEF RunProcessor, Shot
  <2> QED BY <2>1, <2>2 DEF TypeOK
<1>2. screens' \in PoolOf(Requests)
  BY PoolTypes DEF RunProcessor, TypeOK
<1> QED
  BY <1>1, <1>2 DEF RunProcessor, TypeOK

\* The main thread keeps the types.
LEMMA MainTypes ==
    ASSUME TypeOK, Main PROVE TypeOK'
<1>1. \A pool \in PoolOf(Requests) :
         ShutDown(pool) \in PoolOf(Requests) /\ ShutDownNow(pool) \in PoolOf(Requests)
  BY PoolQueueTypes
<1>2. \A at \in {"idle", "stopping", "draining", "finishing", "firstGrace", "second",
               "secondGrace", "closing", "resetting", "waiting", "registering"} :
         [main EXCEPT !.at = at] \in MainStates
  BY DEF TypeOK, MainStates
<1>3. Revoked \in Handles /\ [generation |-> handle.generation + 1, revoked |-> FALSE] \in Handles
  BY DEF Revoked, TypeOK, Handles
<1>4. CASE Stop
  BY <1>2, <1>4 DEF Stop, MainGoes, TypeOK
<1>5. CASE BeginShutdown
  <2>1. [gate EXCEPT !.quiescing = TRUE] \in Gates
    BY DEF TypeOK, Gates
  <2> QED BY <1>2, <1>5, <2>1 DEF BeginShutdown, MainGoes, TypeOK
<1>6. CASE Drain
  <2> DEFINE busy == gate.active > 0
  <2>1. busy \in BOOLEAN
    OBVIOUS
  <2>2. main' = [main EXCEPT !.at = "finishing", !.force = busy]
    BY <1>6 DEF Drain
  <2> HIDE DEF busy
  <2>3. main' \in MainStates
    BY <2>1, <2>2 DEF TypeOK, MainStates
  <2> QED BY <1>6, <2>3 DEF Drain, TypeOK
<1>7. CASE ShutDownFirst
  BY <1>1, <1>2, <1>7 DEF ShutDownFirst, MainGoes, TypeOK
<1>8. CASE FirstGrace
  BY <1>1, <1>2, <1>8 DEF FirstGrace, MainGoes, TypeOK
<1>9. CASE ShutDownSecond
  BY <1>1, <1>2, <1>9 DEF ShutDownSecond, MainGoes, TypeOK
<1>10. CASE SecondGrace
  <2>1. task' \in [Requests -> Tasks]
    <3>1. \A q \in Requests :
             [task[q] EXCEPT !.interrupted = @ \/ q \in methods.running] \in Tasks
      BY DEF TypeOK, Tasks
    <3> QED BY <1>10, <3>1 DEF SecondGrace, TypeOK
  <2> QED BY <1>1, <1>2, <1>10, <2>1 DEF SecondGrace, MainGoes, TypeOK
<1>11. CASE FinishShutdown
  <2>1. [gate EXCEPT !.active = 0] \in Gates
    BY DEF TypeOK, Gates
  <2> QED BY <1>2, <1>11, <2>1 DEF FinishShutdown, MainGoes, TypeOK
<1>12. CASE Attach \/ Detach
  <2>1. \A attaching \in BOOLEAN :
           [main EXCEPT !.at = "resetting", !.attaching = attaching] \in MainStates
    BY DEF TypeOK, MainStates
  <2> QED BY <1>3, <1>12, <2>1 DEF Attach, Detach, TypeOK
<1>13. CASE ResetBegins \/ ResetEnds
  BY <1>2, <1>13, RegistryTypes DEF ResetBegins, ResetEnds, MainGoes, TypeOK
<1>14. CASE Register
  BY <1>2, <1>3, <1>14 DEF Register, MainGoes, TypeOK
<1> QED
  BY <1>4, <1>5, <1>6, <1>7, <1>8, <1>9, <1>10, <1>11, <1>12, <1>13, <1>14 DEF Main

\* No step leaves the types.
LEMMA NextTypes == TypeOK /\ [Next]_vars => TypeOK'
<1> SUFFICES ASSUME TypeOK, [Next]_vars PROVE TypeOK'
  OBVIOUS
<1>1. CASE Take \/ TakeShot
  <2>1. \A pool \in PoolOf(Requests) : HasWork(pool) => Taken(pool) \in PoolOf(Requests)
    BY PoolQueueTypes
  <2> QED BY <1>1, <2>1 DEF Take, TakeShot, TypeOK
<1>2. CASE UNCHANGED vars
  BY <1>2 DEF vars, TypeOK
<1> QED
  BY <1>1, <1>2, HttpTypes, WorkerTypes, CallbackTypes, ProcessorTypes, MainTypes DEF Next

\* Every variable of the server keeps to its domain.
THEOREM AgentTypes == Spec => []TypeOK
<1>1. Init => TypeOK
  BY InitTypes
<1> QED
  BY <1>1, NextTypes, PTL DEF Spec

-----------------------------------------------------------------------------
(* The invariants                                                          *)

\* A request has no task while its HTTP thread has not submitted one.
TaskFollows(r) == call[r].at \in {"out", "inside"} => task[r].at = "none"

Waits == {"awaiting", "abandoning"}
Holds == {"captured", "processing", "cancelling"}

\* Who closes the screenshot of r: whoever waits for it takes it out of the
\* session, whoever holds it passes it on or closes it, the processor closes it.
ShotOK(r) ==
    LET s == shot[r]
        at == task[r].at
    IN  /\ s.buffer = "open" => \/ at \in Waits /\ s.result = "stored"
                                \/ at \in Holds
                                \/ s.proc \in {"entered", "encoding"}
        /\ s.proc \in {"entered", "encoding"} => r \in screens.running
        /\ s.proc # "none" => at \in {"processing", "cancelling", "done"}
        /\ s.proc = "done" => s.buffer # "open"
        /\ s.callback = "pending" => /\ s.buffer = "none"
                                     /\ s.abandoned \/ at \in Waits
        /\ s.result = "stored" => at \in Waits
        /\ s.result # "none" => s.callback = "over"
        /\ s.abandoned => at = "done"
        /\ at \notin Waits \cup Holds \cup {"done"} => s.callback = "none" /\ s.buffer = "none"

Inside == {r \in Requests : call[r].at \in {"inside", "waiting"}}
Drained == {"finishing", "firstGrace", "second", "secondGrace", "closing"}

\* The gate counts; from the second step of a stop on it lets nobody in.
GateOK ==
    /\ IsFiniteSet(Inside)
    /\ phase # "stopped" => gate.active = Cardinality(Inside)
    /\ main.at \in {"stopping", "draining"} \cup Drained => phase = "stopping"
    /\ main.at \in {"draining"} \cup Drained \/ phase = "stopped" => gate.quiescing
    /\ ~main.force /\ (main.at \in Drained \/ phase = "stopped") => Inside = {}

ServerInv == GateOK /\ \A r \in Requests : TaskFollows(r) /\ ShotOK(r)

\* A pool of the methods has no more threads than it may, and no thread has two.
PoolSize(pool) ==
    /\ pool.core = Core /\ pool.max = MaxThreads
    /\ pool.threads <= MaxThreads
    /\ IsFiniteSet(pool.running) /\ Cardinality(pool.running) <= pool.threads

\* Up to the end of its publication a request has a thread of the pool.
Runs(q) == task[q].at \in {"bound", "collected", "encoding"} => q \in methods.running

\* A snapshot that is collected is not published, and no other has its id.
IdOK(q) ==
    task[q].at = "collected" =>
        /\ task[q].id \in 1..reg.sequence /\ task[q].id \notin Range(published)
        /\ \A p \in Requests \ {q} : task[p].at = "collected" => task[p].id # task[q].id

Encoding == {q \in Requests : task[q].at = "encoding"}

\* What is in flight is in the store, and being encoded.
InFlightOK ==
    /\ reg.inFlight \subseteq DOMAIN reg.retained
    /\ reg.inFlight \subseteq {task[q].id : q \in Encoding}

\* The snapshot published at place i may be gone by now.
MayBeGone(i) == Len(published) - i + MaxThreads - 1 >= Limit

\* The store has the snapshots published since the reset at their places, but
\* for those that may be gone.
StoreOK ==
    /\ reg.inserted = Len(published)
    /\ \A s \in DOMAIN reg.retained :
          /\ reg.retained[s] \in 1..Len(published)
          /\ published[reg.retained[s]] = s
    /\ \A i \in 1..Len(published) :
          /\ published[i] \in DOMAIN reg.retained => reg.retained[published[i]] = i
          /\ published[i] \notin DOMAIN reg.retained => MayBeGone(i)

RegistryInv ==
    /\ PoolSize(methods)
    /\ \A q \in Requests : Runs(q) /\ IdOK(q)
    /\ published \in Seq(1..reg.sequence)
    /\ InFlightOK /\ IsFiniteSet(DOMAIN reg.retained)
    /\ IF reg.resetting THEN published = <<>> ELSE StoreOK
    /\ main.at = "waiting" => reg.resetting

-----------------------------------------------------------------------------
(* Who closes a screenshot                                                 *)

\* A request whose screenshot nobody touches keeps its closer.
LEMMA ShotFrame ==
    ASSUME NEW q \in Requests, ShotOK(q), task'[q].at = task[q].at, shot'[q] = shot[q],
           q \in screens.running => q \in screens'.running
    PROVE  ShotOK(q)'
  BY DEF ShotOK

\* The HTTP threads leave every screenshot its closer.
LEMMA HttpShots ==
    ASSUME TypeOK, \A q \in Requests : TaskFollows(q) /\ ShotOK(q), NEW r \in Requests, Http(r)
    PROVE  \A q \in Requests : TaskFollows(q)' /\ ShotOK(q)'
<1>0. UNCHANGED shot /\ UNCHANGED screens
  BY DEF Http, Enter, Dispatch, Answer, TimeOut
<1>1. CASE UNCHANGED task /\ \A q \in Requests : call'[q].at \in {"out", "inside"}
                                                 => call[q].at \in {"out", "inside"}
  BY <1>0, <1>1, ShotFrame DEF TaskFollows
<1>2. CASE Enter(r)
  <2>1. \A q \in Requests \ {r} : call'[q] = call[q]
    BY <1>2 DEF Enter, TypeOK
  <2>2. call[r].at = "out" /\ UNCHANGED task
    BY <1>2 DEF Enter
  <2> QED BY <1>1, <2>1, <2>2
<1>3. CASE Answer(r)
  <2>1. task[r].outcome \in Answers
    BY DEF TypeOK, Tasks, Answers
  <2> QED BY <1>1, <1>3, <2>1, LeaveTypes DEF Answer
<1>4. CASE TimeOut(r)
  <2>1. "timeout" \in Answers
    BY DEF Answers
  <2>2. call'[r].at = "left" /\ \A q \in Requests \ {r} : call'[q] = call[q]
    BY <1>4, <2>1, LeaveTypes DEF TimeOut
  <2>3. \A q \in Requests \ {r} : task'[q] = task[q]
    BY <1>4 DEF TimeOut, TypeOK
  <2>4. task'[r].at = IF task[r].at = "submitted" THEN "cancelled" ELSE task[r].at
    BY <1>4 DEF TimeOut, TypeOK, Tasks
  <2>5. ShotOK(r)'
    BY <1>0, <2>4 DEF ShotOK, Waits, Holds
  <2> QED BY <1>0, <2>2, <2>3, <2>5, ShotFrame DEF TaskFollows
<1>5. CASE Dispatch(r)
  <2>1. ASSUME NEW told \in {"notReady", "busy"}, Leave(r, told), UNCHANGED task
        PROVE  \A q \in Requests : TaskFollows(q)' /\ ShotOK(q)'
    <3>1. told \in Answers
      BY DEF Answers, Outcomes
    <3> QED BY <1>1, <2>1, <3>1, LeaveTypes
  <2>2. ASSUME NEW id,
               task' = [task EXCEPT ![r].at = "submitted", ![r].id = id,
                                    ![r].bound = handle.generation],
               call' = [call EXCEPT ![r].at = "waiting"]
        PROVE  \A q \in Requests : TaskFollows(q)' /\ ShotOK(q)'
    <3>1. \A q \in Requests \ {r} : task'[q] = task[q] /\ call'[q] = call[q]
      BY <2>2 DEF TypeOK
    <3>2. task'[r].at = "submitted" /\ call'[r].at = "waiting"
      BY <2>2 DEF TypeOK, Tasks, Calls
    <3>3. task[r].at = "none"
      BY <1>5 DEF Dispatch, TaskFollows
    <3>4. ShotOK(r)'
      BY <1>0, <3>2, <3>3 DEF ShotOK, Waits, Holds
    <3> QED BY <1>0, <3>1, <3>2, <3>4, ShotFrame DEF TaskFollows
  <2> QED BY <1>5, <2>1, <2>2 DEF Dispatch
<1> QED
  BY <1>2, <1>3, <1>4, <1>5 DEF Http

\* The threads that run the methods leave every screenshot its closer.
LEMMA WorkerShots ==
    ASSUME TypeOK, \A q \in Requests : TaskFollows(q) /\ ShotOK(q), NEW r \in Requests, Worker(r)
    PROVE  \A q \in Requests : TaskFollows(q)' /\ ShotOK(q)'
<1>0. /\ {"bound", "encoding", "found", "awaiting", "abandoning", "captured", "processing",
          "cancelling", "collected"} \subseteq Stages
      /\ {"none", "notReady", "failed", "ok", "raced", "stale"} \subseteq Outcomes
  BY DEF Stages, Outcomes
<1>1. /\ UNCHANGED call /\ task[r].at \notin {"none", "done"}
      /\ \A q \in Requests \ {r} : task'[q] = task[q] /\ shot'[q] = shot[q]
      /\ \A q \in Requests : q \in screens.running => q \in screens'.running
  <2>1. UNCHANGED call /\ task[r].at \notin {"none", "done"}
    BY DEF Worker, Begin, Collect, Publish, Encode, Find, Act, TakeScreenshot, Await, Abandon,
           Process, Encoded, Notify
  <2>2. \A q \in Requests \ {r} : task'[q] = task[q]
    BY DEF Worker, Begin, Collect, Publish, Encode, Find, Act, TakeScreenshot, Await, Abandon,
           Process, Encoded, Notify, Goes, Finish, TypeOK
  <2>3. \A q \in Requests \ {r} : shot'[q] = shot[q]
    BY DEF Worker, Begin, Collect, Publish, Encode, Find, Act, TakeScreenshot, Await, Abandon,
           Process, Encoded, Notify, Shot, Close, TypeOK
  <2>4. \A q \in Requests : q \in screens.running => q \in screens'.running
    <3>1. screens' = screens \/ screens' = Submitted(screens, r)
      BY DEF Worker, Begin, Collect, Publish, Encode, Find, Act, TakeScreenshot, Await, Abandon,
             Process, Encoded, Notify
    <3> QED BY <3>1, PoolTypes DEF TypeOK
  <2> QED BY <2>1, <2>2, <2>3, <2>4
<1> SUFFICES ShotOK(r)'
  BY <1>1, ShotFrame DEF TaskFollows
<1>2. ASSUME UNCHANGED shot,
             task[r].at \in {"submitted", "cancelled", "bound", "collected", "encoding", "found"},
             task'[r].at \in {"bound", "collected", "encoding", "found", "done"}
      PROVE  ShotOK(r)'
  BY <1>1, <1>2 DEF ShotOK, Waits, Holds
<1>3. CASE Begin(r) \/ Publish(r) \/ Encode(r) \/ Find(r) \/ Act(r)
  <2>1. /\ UNCHANGED shot
        /\ task[r].at \in {"submitted", "cancelled", "bound", "collected", "encoding", "found"}
    BY <1>3 DEF Begin, Publish, Encode, Find, Act
  <2>2. \/ \E at \in {"bound", "encoding", "found"} : Goes(r, at)
        \/ \E outcome \in Outcomes : Finish(r, outcome)
    BY <1>0, <1>3 DEF Begin, Publish, Encode, Find, Act
  <2>3. task'[r].at \in {"bound", "encoding", "found", "done"}
    BY <1>0, <2>2, TaskMoves
  <2> QED BY <1>2, <2>1, <2>3
<1>4. CASE Collect(r)
  <2>1. task'[r].at \in {"collected", "done"}
    BY <1>0, <1>4, TaskMoves DEF Collect, TypeOK, Tasks
  <2>2. UNCHANGED shot /\ task[r].at = "bound"
    BY <1>4 DEF Collect
  <2> QED BY <1>2, <2>1, <2>2
<1>7. CASE TakeScreenshot(r)
  <2>1. CASE Finish(r, "failed") /\ UNCHANGED shot
    <3>1. task[r].at = "bound" /\ task'[r].at = "done"
      BY <1>0, <1>7, <2>1, TaskMoves DEF TakeScreenshot
    <3> QED BY <1>2, <2>1, <3>1
  <2>2. CASE Shot(r, "callback", "pending") /\ Goes(r, "awaiting")
    <3>1. shot'[r] = [shot[r] EXCEPT !.callback = "pending"] /\ task'[r].at = "awaiting"
      BY <1>0, <2>2, TaskMoves DEF Shot, TypeOK
    <3>2. /\ shot'[r].callback = "pending" /\ shot'[r].result = shot[r].result
          /\ shot'[r].abandoned = shot[r].abandoned
          /\ shot'[r].buffer = shot[r].buffer /\ shot'[r].proc = shot[r].proc
      BY <3>1 DEF TypeOK, Shots
    <3>3. task[r].at = "bound"
      BY <1>7 DEF TakeScreenshot
    <3> QED BY <1>1, <3>1, <3>2, <3>3 DEF ShotOK, Waits, Holds, TypeOK, Shots
  <2> QED BY <1>7, <2>1, <2>2 DEF TakeScreenshot
<1>8. CASE Await(r)
  <2>1. CASE /\ shot[r].result = "stored"
             /\ Shot(r, "result", "none") /\ Goes(r, "captured")
    <3>1. shot'[r] = [shot[r] EXCEPT !.result = "none"] /\ task'[r].at = "captured"
      BY <1>0, <2>1, TaskMoves DEF Shot, TypeOK
    <3> QED BY <1>1, <1>8, <2>1, <3>1 DEF Await, ShotOK, Waits, Holds, TypeOK, Shots
  <2>2. CASE shot[r].result = "failed" /\ Finish(r, "failed") /\ UNCHANGED shot
    <3>1. task'[r].at = "done"
      BY <1>0, <2>2, TaskMoves
    <3> QED BY <1>1, <1>8, <2>2, <3>1 DEF Await, ShotOK, Waits, Holds, TypeOK, Shots
  <2>3. CASE Goes(r, "abandoning") /\ UNCHANGED shot
    <3>1. task'[r].at = "abandoning"
      BY <1>0, <2>3, TaskMoves
    <3> QED BY <1>1, <1>8, <2>3, <3>1 DEF Await, ShotOK, Waits, Holds
  <2> QED BY <1>8, <2>1, <2>2, <2>3 DEF Await
<1>9. CASE Abandon(r)
  <2>1. task'[r].at = "done"
    BY <1>0, <1>9, TaskMoves DEF Abandon
  <2>2. /\ shot'[r].abandoned /\ shot'[r].result = "none"
        /\ shot'[r].callback = shot[r].callback /\ shot'[r].proc = shot[r].proc
        /\ shot'[r].buffer = IF shot[r].result = "stored" THEN "closed" ELSE shot[r].buffer
    BY <1>9 DEF Abandon, TypeOK, Shots
  <2> QED BY <1>1, <1>9, <2>1, <2>2 DEF Abandon, ShotOK, Waits, Holds, TypeOK, Shots
<1>10. CASE Process(r)
  <2>1. CASE /\ screens' = Submitted(screens, r)
             /\ Shot(r, "proc", "submitted") /\ Goes(r, "processing")
    <3>1. shot'[r] = [shot[r] EXCEPT !.proc = "submitted"] /\ task'[r].at = "processing"
      BY <1>0, <2>1, TaskMoves DEF Shot, TypeOK
    <3> QED BY <1>1, <1>10, <3>1 DEF Process, ShotOK, Waits, Holds, TypeOK, Shots
  <2>2. CASE Close(r) /\ Finish(r, "failed")
    <3>1. shot'[r] = [shot[r] EXCEPT !.buffer = "closed"] /\ task'[r].at = "done"
      BY <1>0, <2>2, TaskMoves DEF Close, TypeOK
    <3> QED BY <1>1, <1>10, <3>1 DEF Process, ShotOK, Waits, Holds, TypeOK, Shots
  <2> QED BY <1>10, <2>1, <2>2 DEF Process
<1>11. CASE Encoded(r)
  <2>1. CASE /\ shot[r].proc = "done" /\ UNCHANGED shot
             /\ \E outcome \in {"ok", "failed"} : Finish(r, outcome)
    <3>1. task'[r].at = "done"
      BY <1>0, <2>1, TaskMoves
    <3> QED BY <1>1, <1>11, <2>1, <3>1 DEF Encoded, ShotOK, Waits, Holds
  <2>2. CASE /\ shot' = [shot EXCEPT ![r].proc = IF @ = "submitted" THEN "cancelled" ELSE @]
             /\ Goes(r, "cancelling")
    <3>1. task'[r].at = "cancelling"
      BY <1>0, <2>2, TaskMoves
    <3>2. shot'[r] = [shot[r] EXCEPT !.proc = IF @ = "submitted" THEN "cancelled" ELSE @]
      BY <2>2 DEF TypeOK
    <3> QED BY <1>1, <1>11, <3>1, <3>2 DEF Encoded, ShotOK, Waits, Holds, TypeOK, Shots
  <2> QED BY <1>11, <2>1, <2>2 DEF Encoded
<1>12. CASE Notify(r)
  <2>1. task'[r].at = "done"
    BY <1>0, <1>12, TaskMoves DEF Notify
  <2>2. CASE shot[r].proc \in {"encoding", "done"} /\ UNCHANGED shot
    BY <1>1, <1>12, <2>1, <2>2 DEF Notify, ShotOK, Waits, Holds
  <2>3. CASE Close(r)
    <3>1. shot'[r] = [shot[r] EXCEPT !.buffer = "closed"]
      BY <2>3 DEF Close, TypeOK
    <3> QED BY <1>1, <1>12, <2>1, <3>1 DEF Notify, ShotOK, Waits, Holds, TypeOK, Shots
  <2> QED BY <1>12, <2>2, <2>3 DEF Notify
<1> QED
  BY <1>3, <1>4, <1>7, <1>8, <1>9, <1>10, <1>11, <1>12 DEF Worker

\* A screenshot that comes in is stored for whoever waits, or closed.
LEMMA CallbackShots ==
    ASSUME TypeOK, \A q \in Requests : TaskFollows(q) /\ ShotOK(q), NEW r \in Requests, Callback(r)
    PROVE  \A q \in Requests : TaskFollows(q)' /\ ShotOK(q)'
<1>1. /\ UNCHANGED <<call, task, screens>> /\ shot[r].callback = "pending"
      /\ \A q \in Requests \ {r} : shot'[q] = shot[q]
  BY DEF Callback, TypeOK
<1> SUFFICES ShotOK(r)'
  BY <1>1, ShotFrame DEF TaskFollows
<1>2. /\ shot'[r].callback = "over" /\ shot'[r].proc = shot[r].proc
      /\ shot'[r].abandoned = shot[r].abandoned
      /\ \/ /\ shot'[r].buffer = IF shot[r].abandoned THEN "closed" ELSE "open"
            /\ shot'[r].result = IF shot[r].abandoned THEN shot[r].result ELSE "stored"
         \/ /\ shot'[r].buffer = shot[r].buffer
            /\ shot'[r].result = IF shot[r].abandoned THEN shot[r].result ELSE "failed"
  BY DEF Callback, TypeOK, Shots
<1> QED
  BY <1>1, <1>2 DEF ShotOK, Waits, Holds, TypeOK, Shots

\* The processor closes what it has encoded before it ends.
LEMMA ProcessorShots ==
    ASSUME TypeOK, \A q \in Requests : TaskFollows(q) /\ ShotOK(q), NEW r \in Requests,
           RunProcessor(r)
    PROVE  \A q \in Requests : TaskFollows(q)' /\ ShotOK(q)'
<1>1. /\ UNCHANGED <<call, task>> /\ r \in screens.running
      /\ \A q \in Requests \ {r} : shot'[q] = shot[q]
  BY DEF RunProcessor, Shot, TypeOK
<1>2. \A q \in Requests \ {r} : q \in screens.running => q \in screens'.running
  <2>1. screens' = screens \/ screens' = Finished(screens, r)
    BY DEF RunProcessor
  <2> QED BY <2>1, PoolTypes DEF TypeOK
<1> SUFFICES ShotOK(r)'
  BY <1>1, <1>2, ShotFrame DEF TaskFollows
<1>3. CASE /\ shot[r].proc \in {"submitted", "entered"} /\ UNCHANGED screens
           /\ \E p \in {"entered", "encoding"} : shot' = [shot EXCEPT ![r].proc = p]
  <2>1. PICK p \in {"entered", "encoding"} : shot' = [shot EXCEPT ![r].proc = p]
    BY <1>3
  <2>2. shot'[r] = [shot[r] EXCEPT !.proc = p]
    BY <2>1 DEF TypeOK
  <2> QED BY <1>1, <1>3, <2>2 DEF ShotOK, Waits, Holds, TypeOK, Shots
<1>4. CASE shot' = [shot EXCEPT ![r].proc = "done", ![r].buffer = "closed"]
           /\ shot[r].proc = "encoding"
  <2>1. shot'[r] = [shot[r] EXCEPT !.proc = "done", !.buffer = "closed"]
    BY <1>4 DEF TypeOK
  <2> QED BY <1>1, <1>4, <2>1 DEF ShotOK, Waits, Holds, TypeOK, Shots
<1>5. CASE shot[r].proc = "cancelled" /\ UNCHANGED shot
  BY <1>1, <1>5 DEF ShotOK, Waits, Holds
<1>6. \/ /\ shot[r].proc \in {"submitted", "entered"} /\ UNCHANGED screens
         /\ \E p \in {"entered", "encoding"} : shot' = [shot EXCEPT ![r]["proc"] = p]
      \/ shot' = [shot EXCEPT ![r].proc = "done", ![r].buffer = "closed"]
         /\ shot[r].proc = "encoding"
      \/ shot[r].proc = "cancelled" /\ UNCHANGED shot
  BY DEF RunProcessor, Shot
<1> QED
  BY <1>3, <1>4, <1>5, <1>6

\* The main thread touches no screenshot, and no thread of the processor ends.
LEMMA MainShots ==
    ASSUME TypeOK, \A q \in Requests : TaskFollows(q) /\ ShotOK(q), Main \/ Take \/ TakeShot
    PROVE  \A q \in Requests : TaskFollows(q)' /\ ShotOK(q)'
<1>1. UNCHANGED <<call, shot>>
  BY DEF Main, Stop, BeginShutdown, Drain, ShutDownFirst, FirstGrace, ShutDownSecond, SecondGrace,
         FinishShutdown, Attach, Detach, ResetBegins, ResetEnds, Register, Take, TakeShot
<1>2. \A q \in Requests : task'[q].at = task[q].at
  <2>1. CASE SecondGrace
    <3>1. \A q \in Requests :
             [task[q] EXCEPT !.interrupted = @ \/ q \in methods.running].at = task[q].at
      BY DEF TypeOK, Tasks
    <3> QED BY <2>1, <3>1 DEF SecondGrace
  <2>2. CASE ~SecondGrace
    BY <2>2 DEF Main, Stop, BeginShutdown, Drain, ShutDownFirst, FirstGrace, ShutDownSecond,
                FinishShutdown, Attach, Detach, ResetBegins, ResetEnds, Register, Take, TakeShot
  <2> QED BY <2>1, <2>2
<1>3. screens.running \subseteq screens'.running
  <2>1. \/ screens' = screens \/ screens' = ShutDown(screens) \/ screens' = ShutDownNow(screens)
        \/ HasWork(screens) /\ screens' = Taken(screens)
    BY DEF Main, Stop, BeginShutdown, Drain, ShutDownFirst, FirstGrace, ShutDownSecond, SecondGrace,
           FinishShutdown, Attach, Detach, ResetBegins, ResetEnds, Register, Take, TakeShot
  <2> QED BY <2>1, PoolQueueTypes DEF TypeOK
<1> QED
  BY <1>1, <1>2, <1>3, ShotFrame DEF TaskFollows

-----------------------------------------------------------------------------
(* Who is inside                                                           *)

\* A step that lets nobody in and nobody out, and does not stop the server.
LEMMA GateFrame ==
    ASSUME GateOK, UNCHANGED <<gate, phase, main>>,
           \A q \in Requests : call'[q].at \in {"inside", "waiting"}
                               <=> call[q].at \in {"inside", "waiting"}
    PROVE  GateOK'
<1>1. Inside' = Inside
  BY DEF Inside
<1> QED
  BY <1>1 DEF GateOK

\* An answer leaves one less inside, and the gate counts one less.
LEMMA GateLeaves ==
    ASSUME TypeOK, GateOK, NEW r \in Requests, call[r].at \in {"inside", "waiting"},
           NEW told \in Answers, Leave(r, told), UNCHANGED <<phase, main>>
    PROVE  GateOK'
<1>1. r \in Inside /\ Inside' = Inside \ {r}
  BY LeaveTypes DEF Inside
<1>2. /\ IsFiniteSet(Inside') /\ Cardinality(Inside') = Cardinality(Inside) - 1
      /\ Cardinality(Inside) \in Nat /\ Cardinality(Inside') \in Nat
  BY <1>1, FS_RemoveElement, FS_CardinalityType DEF GateOK
<1>3. /\ gate'.quiescing = gate.quiescing
      /\ gate'.active = IF gate.active = 0 THEN 0 ELSE gate.active - 1
  BY DEF Leave, TypeOK, Gates
<1>4. phase # "stopped" => gate'.active = Cardinality(Inside')
  BY <1>2, <1>3 DEF GateOK
<1> QED
  BY <1>1, <1>2, <1>3, <1>4 DEF GateOK

\* The HTTP threads keep the count.
LEMMA HttpGate ==
    ASSUME TypeOK, GateOK, NEW r \in Requests, Http(r) PROVE GateOK'
<1>0. UNCHANGED <<phase, main>>
  BY DEF Http, Enter, Dispatch, Answer, TimeOut
<1>1. CASE Enter(r)
  <2>1. CASE gate.quiescing
    <3>1. UNCHANGED gate /\ call[r].at = "out" /\ call'[r].at = "left"
          /\ \A q \in Requests \ {r} : call'[q] = call[q]
      BY <1>1, <2>1 DEF Enter, TypeOK
    <3> QED BY <1>0, <3>1, GateFrame
  <2>2. CASE ~gate.quiescing
    <3>1. call[r].at = "out" /\ call'[r].at = "inside"
          /\ \A q \in Requests \ {r} : call'[q] = call[q]
      BY <1>1, <2>2 DEF Enter, TypeOK, Calls
    <3>2. r \notin Inside /\ Inside' = Inside \cup {r}
      BY <3>1 DEF Inside
    <3>3. IsFiniteSet(Inside') /\ Cardinality(Inside') = Cardinality(Inside) + 1
      BY <3>2, FS_AddElement DEF GateOK
    <3>4. gate'.quiescing = gate.quiescing /\ gate'.active = gate.active + 1
      BY <1>1, <2>2 DEF Enter, TypeOK, Gates
    <3> QED BY <1>0, <2>2, <3>3, <3>4 DEF GateOK
  <2> QED BY <2>1, <2>2
<1>2. CASE Dispatch(r)
  <2>1. ASSUME NEW told \in {"notReady", "busy"}, Leave(r, told) PROVE GateOK'
    <3>1. told \in Answers /\ call[r].at = "inside"
      BY <1>2 DEF Dispatch, Answers, Outcomes
    <3> QED BY <1>0, <2>1, <3>1, GateLeaves
  <2>2. CASE call' = [call EXCEPT ![r].at = "waiting"] /\ UNCHANGED gate
    <3>1. call[r].at = "inside" /\ call'[r].at = "waiting"
          /\ \A q \in Requests \ {r} : call'[q] = call[q]
      BY <1>2, <2>2 DEF Dispatch, TypeOK, Calls
    <3> QED BY <1>0, <2>2, <3>1, GateFrame
  <2> QED BY <1>2, <2>1, <2>2 DEF Dispatch
<1>3. CASE Answer(r)
  <2>1. task[r].outcome \in Answers
    BY DEF TypeOK, Tasks, Answers
  <2> QED BY <1>0, <1>3, <2>1, GateLeaves DEF Answer
<1>4. CASE TimeOut(r)
  <2>1. "timeout" \in Answers
    BY DEF Answers
  <2> QED BY <1>0, <1>4, <2>1, GateLeaves DEF TimeOut
<1> QED
  BY <1>1, <1>2, <1>3, <1>4 DEF Http

\* The main thread closes the gate before it waits for it to be empty.
LEMMA MainGate ==
    ASSUME TypeOK, GateOK, Main PROVE GateOK'
<1>0. UNCHANGED call
  BY DEF Main, Stop, BeginShutdown, Drain, ShutDownFirst, FirstGrace, ShutDownSecond, SecondGrace,
         FinishShutdown, Attach, Detach, ResetBegins, ResetEnds, Register
<1>1. Inside' = Inside
  BY <1>0 DEF Inside
<1>2. \A at : main' = [main EXCEPT !.at = at] => main'.at = at /\ main'.force = main.force
  BY DEF TypeOK, MainStates
<1>3. CASE Stop
  BY <1>1, <1>2, <1>3 DEF Stop, MainGoes, GateOK, Drained
<1>4. CASE BeginShutdown
  <2>1. gate'.quiescing /\ gate'.active = gate.active
    BY <1>4 DEF BeginShutdown, TypeOK, Gates
  <2> QED BY <1>1, <1>2, <1>4, <2>1 DEF BeginShutdown, MainGoes, GateOK, Drained
<1>5. CASE Drain
  <2>1. main'.at = "finishing" /\ (main'.force <=> gate.active > 0)
    BY <1>5 DEF Drain, TypeOK, MainStates
  <2>2. phase = "stopping" /\ UNCHANGED <<phase, gate>> /\ main.at = "draining"
    BY <1>5 DEF Drain, GateOK
  <2>3. ~main'.force => Inside = {}
    BY <2>1, <2>2, FS_EmptySet, FS_CardinalityType DEF GateOK, TypeOK, Gates
  <2> QED BY <1>1, <2>1, <2>2, <2>3 DEF GateOK, Drained
<1>6. CASE ShutDownFirst \/ FirstGrace \/ ShutDownSecond \/ SecondGrace
  <2>1. /\ UNCHANGED <<gate, phase>>
        /\ main.at \in Drained /\ main'.at \in Drained /\ main'.force = main.force
    BY <1>2, <1>6 DEF ShutDownFirst, FirstGrace, ShutDownSecond, SecondGrace, MainGoes, Drained
  <2> QED BY <1>1, <2>1 DEF GateOK
<1>7. CASE FinishShutdown
  <2>1. gate'.quiescing = gate.quiescing /\ phase' = "stopped" /\ main'.at = "idle"
        /\ main'.force = main.force /\ main.at = "closing"
    BY <1>2, <1>7 DEF FinishShutdown, MainGoes, TypeOK, Gates
  <2> QED BY <1>1, <2>1 DEF GateOK, Drained
<1>8. CASE Attach \/ Detach \/ ResetBegins \/ ResetEnds \/ Register
  <2>1. /\ UNCHANGED <<gate, phase>> /\ main'.force = main.force
        /\ main'.at \in {"idle", "resetting", "waiting", "registering"}
    BY <1>8 DEF Attach, Detach, ResetBegins, ResetEnds, Register, MainGoes, TypeOK, MainStates
  <2> QED BY <1>1, <2>1 DEF GateOK, Drained
<1> QED
  BY <1>3, <1>4, <1>5, <1>6, <1>7, <1>8 DEF Main

-----------------------------------------------------------------------------
(* The snapshots that are kept                                             *)

\* A union has at most as many elements as its parts.
LEMMA UnionSize ==
    ASSUME NEW A, NEW B, IsFiniteSet(A), IsFiniteSet(B)
    PROVE  /\ IsFiniteSet(A \cup B) /\ Cardinality(A \cup B) \in Nat
           /\ Cardinality(A \cup B) <= Cardinality(A) + Cardinality(B)
<1>1. /\ IsFiniteSet(A \cup B)
      /\ Cardinality(A \cup B) = Cardinality(A) + Cardinality(B) - Cardinality(A \cap B)
  BY FS_Union
<1>2. IsFiniteSet(A \cap B)
  BY FS_Subset
<1> QED
  BY <1>1, <1>2, FS_CardinalityType

\* A victim of the trimming has been displaced: at most as many as are in
\* flight are older and stay, so the others that make the store too full are
\* newer, and newer ones have later places.
LEMMA EnoughNewer ==
    ASSUME NEW n \in Nat, NEW ids, IsFiniteSet(ids), NEW store \in [ids -> 1..n],
           \A s, t \in ids : store[s] = store[t] => s = t,
           NEW kept, NEW flying, IsFiniteSet(flying),
           NEW v \in Victims(store, ids \ kept),
           \A s \in kept \cap ids : s \in flying \/ store[s] > store[v]
    PROVE  n - store[v] + Cardinality(flying) >= Limit
<1> DEFINE older == Older(store, ids \ kept, v)
           newer == {s \in ids : store[s] > store[v]}
           places == (store[v] + 1)..n
<1>1. /\ v \in ids /\ store[v] \in 1..n /\ Limit \in Nat
      /\ Cardinality(older) <= Cardinality(ids) - Limit
  BY LimitAssumption DEF Victims
<1>2. older \in SUBSET ids /\ newer \in SUBSET ids
  BY DEF Older
<1>3. /\ IsFiniteSet(older) /\ IsFiniteSet(newer)
      /\ Cardinality(older) \in Nat /\ Cardinality(newer) \in Nat
      /\ Cardinality(ids) \in Nat /\ Cardinality(flying) \in Nat
  BY <1>2, FS_Subset, FS_CardinalityType
<1>4. ids \subseteq (older \cup flying) \cup newer
  <2> SUFFICES ASSUME NEW s \in ids, s \notin newer, s \notin flying PROVE s \in older
    OBVIOUS
  <2>1. s \notin kept
    OBVIOUS
  <2>2. store[s] \in Int /\ store[v] \in Int /\ ~(store[s] > store[v])
    BY <1>1
  <2> QED BY <2>1, <2>2 DEF Older
<1> HIDE DEF older
<1>5. Cardinality(ids) <= Cardinality(older) + Cardinality(flying) + Cardinality(newer)
  <2>1. /\ IsFiniteSet(older \cup flying) /\ Cardinality(older \cup flying) \in Nat
        /\ Cardinality(older \cup flying) <= Cardinality(older) + Cardinality(flying)
    BY <1>3, UnionSize
  <2>2. /\ IsFiniteSet((older \cup flying) \cup newer)
        /\ Cardinality((older \cup flying) \cup newer) \in Nat
        /\ Cardinality((older \cup flying) \cup newer)
             <= Cardinality(older \cup flying) + Cardinality(newer)
    BY <1>3, <2>1, UnionSize
  <2>3. Cardinality(ids) <= Cardinality((older \cup flying) \cup newer)
    BY <1>4, <2>2, FS_Subset
  <2> QED BY <1>3, <2>1, <2>2, <2>3
<1>6. Cardinality(newer) <= n - store[v]
  <2> DEFINE f == [s \in newer |-> store[s]]
  <2>1. f \in Injection(newer, places)
    <3>1. \A s \in newer : f[s] \in places
      BY <1>1
    <3>2. f \in [newer -> places]
      BY <3>1
    <3>3. \A s, t \in newer : f[s] = f[t] => s = t
      OBVIOUS
    <3> QED BY <3>2, <3>3 DEF Injection, IsInjective
  <2>2. IsFiniteSet(places) /\ Cardinality(places) = n - store[v]
    <3>1. PICK p \in 1..n : p = store[v]
      BY <1>1
    <3> DEFINE q == p + 1
    <3>0. q \in Int /\ n \in Int
      BY <3>1
    <3> HIDE DEF q
    <3>2. /\ IsFiniteSet(q..n)
          /\ Cardinality(q..n) = IF q > n THEN 0 ELSE n - q + 1
      BY <3>0, FS_Interval
    <3> QED BY <3>1, <3>2 DEF q
  <2> QED BY <2>1, <2>2, FS_Injection
<1> HIDE DEF newer
<1> QED
  BY <1>1, <1>3, <1>5, <1>6

\* The pool of the methods keeps within its size whatever is done with it.
LEMMA PoolSizeKept ==
    ASSUME NEW pool \in PoolOf(Requests), PoolSize(pool)
    PROVE  /\ \A t \in Requests : Accepts(pool) => PoolSize(Submitted(pool, t))
           /\ HasWork(pool) => PoolSize(Taken(pool))
           /\ \A t \in Requests : PoolSize(Finished(pool, t))
           /\ PoolSize(ShutDown(pool)) /\ PoolSize(ShutDownNow(pool))
<1>1. /\ pool.threads \in Nat /\ Cardinality(pool.running) \in Nat
      /\ MaxThreads \in Nat \ {0} /\ Core \in Nat /\ Core <= MaxThreads
      /\ Len(pool.queue) \in Nat /\ pool.capacity \in Nat
  BY FS_CardinalityType, LenProperties, ServerAssumption DEF PoolOf, PoolSize
<1>2. ASSUME NEW t
      PROVE  /\ IsFiniteSet(pool.running \cup {t}) /\ IsFiniteSet(pool.running \ {t})
             /\ Cardinality(pool.running \cup {t}) <= Cardinality(pool.running) + 1
             /\ Cardinality(pool.running \ {t}) <= Cardinality(pool.running)
  <2>1. IsFiniteSet(pool.running)
    BY DEF PoolSize
  <2>2. /\ IsFiniteSet(pool.running \cup {t}) /\ IsFiniteSet(pool.running \ {t})
        /\ Cardinality(pool.running \cup {t})
             = IF t \in pool.running THEN Cardinality(pool.running)
                                     ELSE Cardinality(pool.running) + 1
        /\ Cardinality(pool.running \ {t})
             = IF t \in pool.running THEN Cardinality(pool.running) - 1
                                     ELSE Cardinality(pool.running)
    BY <2>1, FS_AddElement, FS_RemoveElement
  <2> QED BY <1>1, <2>2
<1>3. ASSUME NEW t \in Requests, Accepts(pool) PROVE PoolSize(Submitted(pool, t))
  <2>1. CASE pool.threads < pool.core \/ Len(pool.queue) = pool.capacity
    <3>1. pool.threads + 1 <= MaxThreads
      BY <1>1, <1>3, <2>1 DEF Accepts, PoolSize
    <3>2. /\ Submitted(pool, t).threads = pool.threads + 1
          /\ Submitted(pool, t).running = pool.running \cup {t}
          /\ Submitted(pool, t).core = pool.core /\ Submitted(pool, t).max = pool.max
      BY <2>1 DEF Submitted, PoolOf
    <3>3. /\ IsFiniteSet(Submitted(pool, t).running)
          /\ Cardinality(Submitted(pool, t).running) \in Nat
          /\ Cardinality(Submitted(pool, t).running) <= Cardinality(pool.running) + 1
      BY <1>2, <3>2, FS_CardinalityType
    <3>4. Cardinality(pool.running) <= pool.threads
      BY DEF PoolSize
    <3> QED BY <1>1, <3>1, <3>2, <3>3, <3>4 DEF PoolSize
  <2>2. CASE ~(pool.threads < pool.core \/ Len(pool.queue) = pool.capacity)
    <3> DEFINE threads == IF pool.threads = 0 THEN 1 ELSE pool.threads
    <3>1. /\ threads \in Nat /\ threads <= MaxThreads
          /\ Cardinality(pool.running) <= threads
      BY <1>1 DEF PoolSize
    <3>2. /\ Submitted(pool, t).threads = threads /\ Submitted(pool, t).running = pool.running
          /\ Submitted(pool, t).core = pool.core /\ Submitted(pool, t).max = pool.max
      BY <2>2 DEF Submitted, PoolOf
    <3> HIDE DEF threads
    <3> QED BY <3>1, <3>2 DEF PoolSize
  <2> QED BY <2>1, <2>2
<1>4. ASSUME HasWork(pool) PROVE PoolSize(Taken(pool))
  <2>1. /\ Taken(pool).running = pool.running \cup {Head(pool.queue)}
        /\ Taken(pool).threads = pool.threads
        /\ Taken(pool).core = pool.core /\ Taken(pool).max = pool.max
    BY DEF Taken, PoolOf
  <2>2. Cardinality(pool.running) + 1 <= pool.threads
    BY <1>1, <1>4 DEF HasWork
  <2>3. /\ IsFiniteSet(Taken(pool).running) /\ Cardinality(Taken(pool).running) \in Nat
        /\ Cardinality(Taken(pool).running) <= Cardinality(pool.running) + 1
    BY <1>2, <2>1, FS_CardinalityType
  <2> QED BY <1>1, <2>1, <2>2, <2>3 DEF PoolSize
<1>5. ASSUME NEW t \in Requests PROVE PoolSize(Finished(pool, t))
  <2>1. /\ Finished(pool, t).running = pool.running \ {t}
        /\ Finished(pool, t).threads = pool.threads
        /\ Finished(pool, t).core = pool.core /\ Finished(pool, t).max = pool.max
    BY DEF Finished, PoolOf
  <2>2. /\ IsFiniteSet(Finished(pool, t).running) /\ Cardinality(Finished(pool, t).running) \in Nat
        /\ Cardinality(Finished(pool, t).running) <= Cardinality(pool.running)
    BY <1>2, <2>1, FS_CardinalityType
  <2>3. Cardinality(pool.running) <= pool.threads
    BY DEF PoolSize
  <2> QED BY <1>1, <2>1, <2>2, <2>3 DEF PoolSize
<1>6. PoolSize(ShutDown(pool)) /\ PoolSize(ShutDownNow(pool))
  BY DEF ShutDown, ShutDownNow, PoolSize, PoolOf
<1> QED
  BY <1>3, <1>4, <1>5, <1>6

\* While one thread publishes, the others have less than MaxThreads in flight.
LEMMA FewInFlight ==
    ASSUME TypeOK, RegistryInv, NEW r \in Requests, task[r].at = "collected"
    PROVE  /\ IsFiniteSet(reg.inFlight) /\ Cardinality(reg.inFlight) \in Nat
           /\ Cardinality(reg.inFlight) <= MaxThreads - 1
<1> DEFINE others == methods.running \ {r}
           id == [q \in Encoding |-> task[q].id]
           ids == {task[q].id : q \in Encoding}
<1>1. /\ IsFiniteSet(others) /\ Cardinality(others) \in Nat
      /\ Cardinality(others) <= MaxThreads - 1
  <2>1. /\ r \in methods.running /\ IsFiniteSet(methods.running)
        /\ Cardinality(methods.running) <= methods.threads /\ methods.threads <= MaxThreads
    BY DEF RegistryInv, Runs, PoolSize
  <2>2. /\ IsFiniteSet(others) /\ Cardinality(others) = Cardinality(methods.running) - 1
        /\ Cardinality(others) \in Nat /\ Cardinality(methods.running) \in Nat
    BY <2>1, FS_RemoveElement, FS_CardinalityType
  <2>3. methods.threads \in Nat /\ MaxThreads \in Nat
    BY ServerAssumption DEF TypeOK, PoolOf
  <2> QED BY <2>1, <2>2, <2>3
<1>2. Encoding \in SUBSET others
  BY DEF Encoding, RegistryInv, Runs
<1>3. /\ IsFiniteSet(Encoding) /\ Cardinality(Encoding) \in Nat
      /\ Cardinality(Encoding) <= Cardinality(others)
  BY <1>1, <1>2, FS_Subset, FS_CardinalityType
<1>4. id \in Surjection(Encoding, ids)
  BY DEF Surjection
<1>5. /\ IsFiniteSet(ids) /\ Cardinality(ids) \in Nat
      /\ Cardinality(ids) <= Cardinality(Encoding)
  BY <1>3, <1>4, FS_Surjection, FS_CardinalityType
<1>6. reg.inFlight \in SUBSET ids
  BY DEF RegistryInv, InFlightOK
<1>7. /\ IsFiniteSet(reg.inFlight) /\ Cardinality(reg.inFlight) \in Nat
      /\ Cardinality(reg.inFlight) <= Cardinality(ids)
  BY <1>5, <1>6, FS_Subset, FS_CardinalityType
<1>8. MaxThreads \in Nat
  BY ServerAssumption
<1> HIDE DEF others, ids
<1> QED
  BY <1>1, <1>3, <1>5, <1>7, <1>8

\* A publication puts its snapshot last, drops only what may be gone, and
\* nothing that is in flight.
LEMMA PublicationStored ==
    ASSUME TypeOK, RegistryInv, ~reg.resetting, NEW r \in Requests, task[r].at = "collected",
           reg' = Published(reg, task[r].id), published' = Append(published, task[r].id)
    PROVE  /\ reg'.sequence = reg.sequence /\ reg'.resetting = reg.resetting
           /\ reg'.inFlight = reg.inFlight \cup {task[r].id}
           /\ reg'.inFlight \subseteq DOMAIN reg'.retained
           /\ IsFiniteSet(DOMAIN reg'.retained)
           /\ StoreOK'
<1> DEFINE id == task[r].id
           n == Len(published)
           store == Stored(reg, id)
           ids == DOMAIN reg.retained \cup {id}
           kept == reg.inFlight \cup {id}
           out == Victims(store, ids \ kept)
<1>1. /\ n \in Nat /\ published \in Seq(1..reg.sequence) /\ id \in 1..reg.sequence
      /\ \A i \in 1..n : published[i] # id
  BY LenProperties DEF RegistryInv, IdOK, Range
<1>2. /\ Len(published') = n + 1 /\ published'[n + 1] = id
      /\ \A i \in 1..n : published'[i] = published[i]
  BY <1>1, AppendProperties
<1>3. /\ reg.inserted = n
      /\ \A s \in DOMAIN reg.retained : /\ reg.retained[s] \in 1..n
                                        /\ published[reg.retained[s]] = s
  BY DEF RegistryInv, StoreOK
<1>4. id \notin DOMAIN reg.retained
  BY <1>1, <1>3
<1>5. /\ store \in [ids -> 1..(n + 1)] /\ store[id] = n + 1
      /\ \A s \in DOMAIN reg.retained : store[s] = reg.retained[s]
  BY <1>1, <1>3, <1>4 DEF Stored
<1>6. IsFiniteSet(ids)
  BY FS_AddElement DEF RegistryInv
<1>7. \A s, t \in ids : store[s] = store[t] => s = t
  BY <1>1, <1>3, <1>5
<1>8. out \subseteq ids /\ out \cap kept = {}
  BY DEF Victims
<1>9. /\ reg'.sequence = reg.sequence /\ reg'.resetting = reg.resetting
      /\ reg'.inFlight = kept /\ reg'.inserted = n + 1
      /\ reg'.retained = Restrict(store, ids \ out)
  <2>1. DOMAIN store = ids
    BY DEF Stored
  <2> QED BY <1>3, <2>1 DEF Published, Trimmed, TypeOK, RegistryOK
<1>10. \A v \in out : (n + 1) - store[v] + MaxThreads - 1 >= Limit
  <2> SUFFICES ASSUME NEW v \in out PROVE (n + 1) - store[v] + MaxThreads - 1 >= Limit
    OBVIOUS
  <2>1. v \in DOMAIN reg.retained /\ store[v] \in 1..n
    BY <1>3, <1>5, <1>8
  <2>2. \A s \in kept \cap ids : s \in reg.inFlight \/ store[s] > store[v]
    BY <1>1, <1>5, <2>1
  <2>3. /\ IsFiniteSet(reg.inFlight) /\ Cardinality(reg.inFlight) \in Nat
        /\ Cardinality(reg.inFlight) <= MaxThreads - 1
    BY FewInFlight
  <2>4. n + 1 \in Nat
    BY <1>1
  <2> HIDE DEF id, n, store, ids, kept
  <2>5. (n + 1) - store[v] + Cardinality(reg.inFlight) >= Limit
    BY <1>5, <1>6, <1>7, <2>2, <2>3, <2>4, EnoughNewer
  <2>6. MaxThreads \in Nat /\ Limit \in Nat
    BY ServerAssumption, LimitAssumption
  <2> QED BY <2>1, <2>3, <2>4, <2>5, <2>6, <1>1
<1>11. DOMAIN reg'.retained = ids \ out /\ \A s \in ids \ out : reg'.retained[s] = store[s]
  BY <1>9 DEF Restrict
<1>12. reg.inFlight \subseteq ids
  BY DEF RegistryInv, InFlightOK
<1>13. IsFiniteSet(DOMAIN reg'.retained)
  BY <1>6, <1>11, FS_Subset
<1>14. StoreOK'
  <2>1. \A s \in DOMAIN reg'.retained :
           reg'.retained[s] \in 1..(n + 1) /\ published'[reg'.retained[s]] = s
    BY <1>1, <1>2, <1>3, <1>5, <1>11
  <2>2. ASSUME NEW i \in 1..n
        PROVE  /\ published'[i] \in DOMAIN reg'.retained => reg'.retained[published'[i]] = i
               /\ published'[i] \notin DOMAIN reg'.retained =>
                     (n + 1) - i + MaxThreads - 1 >= Limit
    <3>1. published'[i] = published[i] /\ published[i] # id /\ MaxThreads \in Nat /\ Limit \in Nat
      BY <1>1, <1>2, ServerAssumption, LimitAssumption
    <3>2. CASE published[i] \in DOMAIN reg.retained
      <4>1. store[published[i]] = i
        BY <1>5, <3>2 DEF RegistryInv, StoreOK
      <4> QED BY <1>10, <1>11, <3>1, <3>2, <4>1
    <3>3. CASE published[i] \notin DOMAIN reg.retained
      <4>1. n - i + MaxThreads - 1 >= Limit
        BY <3>3 DEF RegistryInv, StoreOK, MayBeGone
      <4>2. published'[i] \notin DOMAIN reg'.retained
        BY <1>11, <3>1, <3>3
      <4> QED BY <1>1, <3>1, <4>1, <4>2
    <3> QED BY <3>2, <3>3
  <2>3. published'[n + 1] \in DOMAIN reg'.retained /\ reg'.retained[published'[n + 1]] = n + 1
    BY <1>2, <1>5, <1>8, <1>11
  <2>4. 1..(n + 1) = 1..n \cup {n + 1}
    BY <1>1
  <2>5. \A i : MayBeGone(i)' <=> Len(published') - i + MaxThreads - 1 >= Limit
    BY DEF MayBeGone
  <2>6. Len(published') = n + 1 /\ reg'.inserted = n + 1
    BY <1>2, <1>9
  <2> HIDE DEF id, n, store, ids, kept, out
  <2>7. \A i \in 1..(n + 1) :
           /\ published'[i] \in DOMAIN reg'.retained => reg'.retained[published'[i]] = i
           /\ published'[i] \notin DOMAIN reg'.retained => MayBeGone(i)'
    BY <2>2, <2>3, <2>4, <2>5, <2>6
  <2> QED BY <2>1, <2>6, <2>7 DEF StoreOK
<1> QED
  BY <1>8, <1>9, <1>11, <1>12, <1>13, <1>14

\* A step that publishes nothing and resets nothing, in which no request but one
\* with a thread goes on towards its publication, and none leaves it half done.
LEMMA RegistryFrame ==
    ASSUME RegistryInv, UNCHANGED <<reg, published>>, PoolSize(methods'),
           main'.at = "waiting" => main.at = "waiting",
           \A q \in Requests :
              /\ Runs(q)'
              /\ task'[q].at = "collected" =>
                    task[q].at = "collected" /\ task'[q].id = task[q].id
              /\ task[q].at = "encoding" =>
                    task'[q].at = "encoding" /\ task'[q].id = task[q].id
    PROVE  RegistryInv'
<1>1. \A q \in Requests : IdOK(q)'
  BY DEF RegistryInv, IdOK
<1>2. InFlightOK'
  BY DEF RegistryInv, InFlightOK, Encoding
<1>3. ~reg.resetting => StoreOK'
  BY DEF RegistryInv, StoreOK, MayBeGone
<1> QED
  BY <1>1, <1>2, <1>3 DEF RegistryInv

\* The HTTP threads hand tasks in, or give them up before they run.
LEMMA HttpRegistry ==
    ASSUME TypeOK, RegistryInv, NEW r \in Requests, TaskFollows(r), Http(r)
    PROVE  RegistryInv'
<1>0. UNCHANGED <<reg, published, main>>
  BY DEF Http, Enter, Dispatch, Answer, TimeOut
<1>1. CASE UNCHANGED <<task, methods>>
  BY <1>0, <1>1, RegistryFrame DEF RegistryInv, Runs
<1>2. CASE Dispatch(r) /\ ~UNCHANGED <<task, methods>>
  <2>1. PICK id : task' = [task EXCEPT ![r].at = "submitted", ![r].id = id,
                                       ![r].bound = handle.generation]
    BY <1>2 DEF Dispatch
  <2>2. Accepts(methods) /\ methods' = Submitted(methods, r) /\ task[r].at = "none"
    BY <1>2 DEF Dispatch, TaskFollows
  <2>3. task'[r].at = "submitted" /\ \A q \in Requests \ {r} : task'[q] = task[q]
    BY <2>1 DEF TypeOK, Tasks
  <2>4. PoolSize(methods') /\ methods.running \subseteq methods'.running
    BY <2>2, PoolTypes, PoolSizeKept DEF RegistryInv, TypeOK
  <2> QED BY <1>0, <2>2, <2>3, <2>4, RegistryFrame DEF RegistryInv, Runs
<1>3. CASE TimeOut(r)
  <2>1. /\ task'[r].at = IF task[r].at = "submitted" THEN "cancelled" ELSE task[r].at
        /\ task'[r].id = task[r].id
        /\ \A q \in Requests \ {r} : task'[q] = task[q]
    BY <1>3 DEF TimeOut, TypeOK, Tasks
  <2>2. UNCHANGED methods
    BY <1>3 DEF TimeOut
  <2> QED BY <1>0, <2>1, <2>2, RegistryFrame DEF RegistryInv, Runs
<1> QED
  BY <1>1, <1>2, <1>3 DEF Http, Enter, Answer

\* A method that goes on, short of a publication, or is over without one.
LEMMA TaskRegistry ==
    ASSUME TypeOK, RegistryInv, NEW r \in Requests, task[r].at # "encoding",
           UNCHANGED <<reg, published, main>>,
           \/ \E outcome \in Outcomes : Finish(r, outcome)
           \/ Goes(r, "bound") /\ r \in methods.running
           \/ \E at \in {"found", "awaiting", "abandoning", "captured", "processing",
                         "cancelling"} : Goes(r, at)
    PROVE  RegistryInv'
<1>1. \A q \in Requests \ {r} : task'[q] = task[q]
  BY DEF Finish, Goes, TypeOK
<1>2. CASE \E outcome \in Outcomes : Finish(r, outcome)
  <2>1. task'[r].at = "done" /\ methods' = Finished(methods, r)
    BY <1>2, TaskMoves DEF Finish
  <2>2. PoolSize(methods') /\ methods'.running = methods.running \ {r}
    BY <2>1, PoolTypes, PoolSizeKept DEF RegistryInv, TypeOK
  <2> QED BY <1>1, <2>1, <2>2, RegistryFrame DEF RegistryInv, Runs
<1>3. CASE Goes(r, "bound") /\ r \in methods.running
  <2>1. task'[r].at = "bound" /\ UNCHANGED methods
    BY <1>3 DEF Goes, TypeOK, Tasks
  <2> QED BY <1>1, <1>3, <2>1, RegistryFrame DEF RegistryInv, Runs
<1>4. CASE \E at \in {"found", "awaiting", "abandoning", "captured", "processing",
                      "cancelling"} : Goes(r, at)
  <2>1. /\ UNCHANGED methods
        /\ task'[r].at \in {"found", "awaiting", "abandoning", "captured", "processing",
                            "cancelling"}
    BY <1>4 DEF Goes, TypeOK, Tasks
  <2> QED BY <1>1, <2>1, RegistryFrame DEF RegistryInv, Runs
<1> QED
  BY <1>2, <1>3, <1>4

\* A snapshot is collected under an id that nobody has had.
LEMMA CollectRegistry ==
    ASSUME TypeOK, RegistryInv, NEW r \in Requests, task[r].at = "bound",
           reg' = [reg EXCEPT !.sequence = @ + 1],
           task' = [task EXCEPT ![r].at = "collected", ![r].id = reg.sequence + 1,
                                ![r].generation = reg.generation],
           UNCHANGED <<methods, published, main>>
    PROVE  RegistryInv'
<1>1. /\ reg'.sequence = reg.sequence + 1 /\ reg.sequence \in Nat
      /\ reg'.resetting = reg.resetting /\ reg'.inFlight = reg.inFlight
      /\ reg'.retained = reg.retained /\ reg'.inserted = reg.inserted
  BY DEF TypeOK, RegistryOK
<1>2. /\ task'[r].at = "collected" /\ task'[r].id = reg.sequence + 1
      /\ \A q \in Requests \ {r} : task'[q] = task[q]
  BY DEF TypeOK, Tasks
<1>3. published' = published /\ published \in Seq(1..reg.sequence)
      /\ published \in Seq(1..(reg.sequence + 1))
  <2>1. published \in Seq(1..reg.sequence)
    BY DEF RegistryInv
  <2>2. \A i \in 1..Len(published) : published[i] \in 1..(reg.sequence + 1)
    BY <1>1, <2>1, ElementOfSeq
  <2>3. published = [i \in 1..Len(published) |-> published[i]] /\ Len(published) \in Nat
    BY <2>1, LenProperties
  <2>4. published \in [1..Len(published) -> 1..(reg.sequence + 1)]
    BY <2>2, <2>3
  <2>5. published \in Seq(1..(reg.sequence + 1))
    BY <2>3, <2>4, SeqDef
  <2> QED BY <2>1, <2>5
<1>4. Range(published) \subseteq 1..reg.sequence
  BY <1>3, RangeOfSeq
<1>5. ASSUME NEW q \in Requests PROVE IdOK(q)'
  <2>1. \A p \in Requests \ {r} :
           task'[p].at = "collected" =>
              task'[p].id \in 1..reg.sequence /\ task'[p].id # reg.sequence + 1
    <3> SUFFICES ASSUME NEW p \in Requests \ {r}, task'[p].at = "collected"
                 PROVE  task'[p].id \in 1..reg.sequence /\ task'[p].id # reg.sequence + 1
      OBVIOUS
    <3>1. task'[p] = task[p] /\ IdOK(p)
      BY <1>2 DEF RegistryInv
    <3>2. task'[p].id \in 1..reg.sequence
      BY <3>1 DEF IdOK
    <3> QED BY <1>1, <3>2
  <2>2. reg.sequence + 1 \notin 1..reg.sequence /\ 1..reg.sequence \subseteq 1..(reg.sequence + 1)
        /\ reg.sequence + 1 \in 1..(reg.sequence + 1)
    BY <1>1
  <2>3. reg'.sequence = reg.sequence + 1 /\ Range(published)' = Range(published)
    BY <1>1, <1>3
  <2>4. CASE q = r
    BY <1>2, <1>4, <2>1, <2>2, <2>3, <2>4 DEF IdOK
  <2>5. CASE q # r
    <3>1. ASSUME task'[q].at = "collected"
          PROVE  /\ task'[q].id \in 1..reg.sequence /\ task'[q].id \notin Range(published)
                 /\ \A p \in Requests \ {q, r} :
                       task'[p].at = "collected" => task'[p].id # task'[q].id
      <4>1. task'[q] = task[q] /\ IdOK(q)
        BY <1>2, <2>5 DEF RegistryInv
      <4>2. \A p \in Requests \ {q, r} : task'[p] = task[p]
        BY <1>2
      <4> QED BY <3>1, <4>1, <4>2 DEF IdOK
    <3>2. task'[q].at = "collected" => task'[r].id # task'[q].id
      BY <1>2, <2>1, <2>5
    <3> QED BY <2>2, <2>3, <3>1, <3>2 DEF IdOK
  <2> QED BY <2>4, <2>5
<1>6. \A q \in Requests : Runs(q)'
  BY <1>2 DEF RegistryInv, Runs
<1>7. InFlightOK'
  <2>1. r \notin Encoding /\ r \notin Encoding'
    BY <1>2 DEF Encoding
  <2>2. \A q \in Encoding : q \in Encoding' /\ task'[q].id = task[q].id
    BY <1>2, <2>1 DEF Encoding
  <2>3. {task[q].id : q \in Encoding} \subseteq {task'[q].id : q \in Encoding'}
    BY <2>2
  <2> QED BY <1>1, <2>3 DEF RegistryInv, InFlightOK
<1>8. ~reg.resetting => StoreOK'
  BY <1>1 DEF RegistryInv, StoreOK, MayBeGone
<1> QED
  BY <1>1, <1>3, <1>5, <1>6, <1>7, <1>8 DEF RegistryInv

\* A publication keeps the invariant.
LEMMA PublishRegistry ==
    ASSUME TypeOK, RegistryInv, NEW r \in Requests, Publish(r)
    PROVE  RegistryInv'
<1>1. CASE ~CanPublish(reg, task[r].generation)
  <2>1. "raced" \in Outcomes
    BY DEF Outcomes
  <2> QED BY <1>1, <2>1, TaskRegistry DEF Publish
<1>2. CASE CanPublish(reg, task[r].generation)
  <2>1. /\ ~reg.resetting /\ task[r].at = "collected"
        /\ reg' = Published(reg, task[r].id) /\ published' = Append(published, task[r].id)
        /\ UNCHANGED <<methods, main>>
    BY <1>2 DEF Publish, CanPublish, Goes
  <2>2. /\ task'[r].at = "encoding" /\ task'[r].id = task[r].id
        /\ \A q \in Requests \ {r} : task'[q] = task[q]
    BY <1>2 DEF Publish, Goes, TypeOK, Tasks
  <2>3. /\ reg'.sequence = reg.sequence /\ reg'.resetting = reg.resetting
        /\ reg'.inFlight = reg.inFlight \cup {task[r].id}
        /\ reg'.inFlight \subseteq DOMAIN reg'.retained
        /\ IsFiniteSet(DOMAIN reg'.retained)
        /\ StoreOK'
    BY <2>1, PublicationStored
  <2>4. /\ published \in Seq(1..reg.sequence) /\ task[r].id \in 1..reg.sequence
        /\ task[r].id \notin Range(published)
    BY <2>1 DEF RegistryInv, IdOK
  <2>5. published' \in Seq(1..reg.sequence)
    BY <2>1, <2>4, AppendProperties
  <2>6. Range(published') = Range(published) \cup {task[r].id}
    BY <2>1, <2>4, RangeOfSeq, AppendProperties DEF Range
  <2>7. ASSUME NEW q \in Requests PROVE IdOK(q)'
    <3>1. CASE q = r
      BY <2>2, <3>1 DEF IdOK
    <3>2. CASE q # r
      BY <2>1, <2>2, <2>3, <2>6, <3>2 DEF IdOK, RegistryInv
    <3> QED BY <3>1, <3>2
  <2>8. \A q \in Requests : Runs(q)'
    BY <2>1, <2>2 DEF RegistryInv, Runs
  <2>9. InFlightOK'
    BY <2>2, <2>3 DEF RegistryInv, InFlightOK, Encoding
  <2> QED BY <2>1, <2>3, <2>5, <2>7, <2>8, <2>9 DEF RegistryInv
<1> QED
  BY <1>1, <1>2

\* When the encoding is over, however it ends, the snapshot is no longer in flight.
LEMMA EncodeRegistry ==
    ASSUME TypeOK, RegistryInv, NEW r \in Requests, Encode(r)
    PROVE  RegistryInv'
<1>1. /\ reg'.sequence = reg.sequence /\ reg'.resetting = reg.resetting
      /\ reg'.inFlight = reg.inFlight \ {task[r].id}
      /\ reg'.retained = reg.retained /\ reg'.inserted = reg.inserted
  BY DEF Encode, Completed, TypeOK, RegistryOK
<1>2. task[r].at = "encoding" /\ UNCHANGED <<published, main>>
  BY DEF Encode
<1>3. PICK outcome \in {"ok", "failed"} : Finish(r, outcome)
  BY DEF Encode
<1>4. /\ task'[r].at = "done" /\ methods' = Finished(methods, r)
      /\ \A q \in Requests \ {r} : task'[q] = task[q]
  <2>1. outcome \in Outcomes
    BY DEF Outcomes
  <2> QED BY <1>3, <2>1, TaskMoves DEF Finish
<1>5. PoolSize(methods') /\ methods'.running = methods.running \ {r}
  BY <1>4, PoolTypes, PoolSizeKept DEF RegistryInv, TypeOK
<1>6. \A q \in Requests : IdOK(q)' /\ Runs(q)'
  BY <1>1, <1>2, <1>4, <1>5 DEF RegistryInv, IdOK, Runs
<1>7. InFlightOK'
  BY <1>1, <1>2, <1>4 DEF RegistryInv, InFlightOK, Encoding
<1>8. ~reg.resetting => StoreOK'
  BY <1>1, <1>2 DEF RegistryInv, StoreOK, MayBeGone
<1> QED
  BY <1>1, <1>2, <1>5, <1>6, <1>7, <1>8 DEF RegistryInv

\* The threads that run the methods keep the invariant.
LEMMA WorkerRegistry ==
    ASSUME TypeOK, RegistryInv, NEW r \in Requests, Worker(r)
    PROVE  RegistryInv'
<1>0. {"none", "notReady", "failed", "ok", "raced", "stale"} \subseteq Outcomes
  BY DEF Outcomes
<1>1. CASE Begin(r)
  <2>1. UNCHANGED <<reg, published, main>> /\ task[r].at # "encoding"
    BY <1>1 DEF Begin
  <2> QED BY <1>0, <1>1, <2>1, TaskRegistry DEF Begin
<1>2. CASE Collect(r)
  <2>1. UNCHANGED <<published, main>> /\ task[r].at = "bound"
    BY <1>2 DEF Collect
  <2> QED BY <1>0, <1>2, <2>1, TaskRegistry, CollectRegistry DEF Collect
<1>3. CASE Find(r) \/ Act(r) \/ TakeScreenshot(r) \/ Await(r) \/ Abandon(r) \/ Process(r)
           \/ Encoded(r) \/ Notify(r)
  <2>1. UNCHANGED <<reg, published, main>> /\ task[r].at # "encoding"
    BY <1>3 DEF Find, Act, TakeScreenshot, Await, Abandon, Process, Encoded, Notify
  <2>2. \/ \E outcome \in Outcomes : Finish(r, outcome)
        \/ \E at \in {"found", "awaiting", "abandoning", "captured", "processing",
                      "cancelling"} : Goes(r, at)
    BY <1>0, <1>3 DEF Find, Act, TakeScreenshot, Await, Abandon, Process, Encoded, Notify
  <2> QED BY <2>1, <2>2, TaskRegistry
<1> QED
  BY <1>1, <1>2, <1>3, PublishRegistry, EncodeRegistry DEF Worker

\* The main thread forgets everything at once, and only when it resets; the
\* pools take up and drop tasks.
LEMMA MainRegistry ==
    ASSUME TypeOK, RegistryInv, Main \/ Take
    PROVE  RegistryInv'
<1>1. \A q \in Requests : task'[q].at = task[q].at /\ task'[q].id = task[q].id
  <2>1. CASE SecondGrace
    <3>1. \A q \in Requests :
             LET t == [task[q] EXCEPT !.interrupted = @ \/ q \in methods.running]
             IN  t.at = task[q].at /\ t.id = task[q].id
      BY DEF TypeOK, Tasks
    <3> QED BY <2>1, <3>1 DEF SecondGrace
  <2>2. CASE ~SecondGrace
    BY <2>2 DEF Main, Stop, BeginShutdown, Drain, ShutDownFirst, FirstGrace, ShutDownSecond,
                FinishShutdown, Attach, Detach, ResetBegins, ResetEnds, Register, Take
  <2> QED BY <2>1, <2>2
<1>2. PoolSize(methods') /\ methods.running \subseteq methods'.running
  <2>1. \/ methods' = methods \/ methods' = ShutDown(methods) \/ methods' = ShutDownNow(methods)
        \/ HasWork(methods) /\ methods' = Taken(methods)
    BY DEF Main, Stop, BeginShutdown, Drain, ShutDownFirst, FirstGrace, ShutDownSecond, SecondGrace,
           FinishShutdown, Attach, Detach, ResetBegins, ResetEnds, Register, Take
  <2> QED BY <2>1, PoolSizeKept, PoolQueueTypes DEF TypeOK, RegistryInv
<1>3. \A q \in Requests : Runs(q)'
  BY <1>1, <1>2 DEF RegistryInv, Runs
<1>4. \A at : main' = [main EXCEPT !.at = at] => main'.at = at
  BY DEF TypeOK, MainStates
<1>5. CASE ResetBegins
  <2>1. /\ reg'.sequence = reg.sequence /\ reg'.resetting /\ reg'.inFlight = reg.inFlight
        /\ reg'.retained = reg.retained /\ published' = <<>>
    BY <1>5 DEF ResetBegins, BeginReset, TypeOK, RegistryOK
  <2>2. published' \in Seq(1..reg'.sequence) /\ Range(published') = {}
    BY <2>1, EmptySeq DEF Range
  <2>3. \A q \in Requests : IdOK(q)'
    BY <1>1, <2>1, <2>2 DEF RegistryInv, IdOK
  <2>4. InFlightOK'
    BY <1>1, <2>1 DEF RegistryInv, InFlightOK, Encoding
  <2> QED BY <1>2, <1>3, <2>1, <2>2, <2>3, <2>4 DEF RegistryInv
<1>6. CASE ResetEnds
  <2>1. /\ reg'.sequence = reg.sequence /\ ~reg'.resetting /\ reg'.inFlight = {}
        /\ reg'.retained = [s \in {} |-> 0] /\ reg'.inserted = 0
        /\ UNCHANGED published
    BY <1>6 DEF ResetEnds, FinishReset, NewRegistry, TypeOK, RegistryOK
  <2>2. published = <<>> /\ DOMAIN reg'.retained = {}
    BY <1>6, <2>1 DEF ResetEnds, RegistryInv
  <2>3. \A q \in Requests : IdOK(q)'
    BY <1>1, <2>1 DEF RegistryInv, IdOK
  <2>4. InFlightOK' /\ StoreOK'
    BY <2>1, <2>2 DEF InFlightOK, StoreOK
  <2>5. IsFiniteSet(DOMAIN reg'.retained)
    BY <2>2, FS_EmptySet
  <2>6. main'.at # "waiting"
    BY <1>6 DEF ResetEnds, TypeOK, MainStates
  <2> QED BY <1>2, <1>3, <2>1, <2>3, <2>4, <2>5, <2>6 DEF RegistryInv
<1>7. CASE ~ResetBegins /\ ~ResetEnds
  <2>1. UNCHANGED <<reg, published>>
    BY <1>7 DEF Main, Stop, BeginShutdown, Drain, ShutDownFirst, FirstGrace, ShutDownSecond,
                SecondGrace, FinishShutdown, Attach, Detach, Register, Take
  <2>2. main'.at = "waiting" => main.at = "waiting"
    BY <1>4, <1>7 DEF Main, Stop, BeginShutdown, Drain, ShutDownFirst, FirstGrace,
                ShutDownSecond, SecondGrace, FinishShutdown, Attach, Detach, Register, Take,
                MainGoes, TypeOK, MainStates
  <2> QED BY <1>1, <1>2, <1>3, <2>1, <2>2, RegistryFrame
<1> QED
  BY <1>5, <1>6, <1>7

\* The server starts with nothing published.
LEMMA InitRegistry == Init => RegistryInv
<1> SUFFICES ASSUME Init PROVE RegistryInv
  OBVIOUS
<1>1. PoolSize(methods)
  BY FS_EmptySet, ServerAssumption DEF Init, Pool, PoolSize
<1>2. \A q \in Requests : Runs(q) /\ IdOK(q)
  BY DEF Init, NoTask, Runs, IdOK
<1>3. /\ reg.sequence = 0 /\ ~reg.resetting /\ reg.inFlight = {} /\ reg.inserted = 0
      /\ DOMAIN reg.retained = {} /\ published = <<>> /\ main.at = "idle"
  BY DEF Init, NewRegistry
<1>4. published \in Seq(1..reg.sequence)
  BY <1>3, EmptySeq
<1>5. InFlightOK /\ StoreOK
  BY <1>3 DEF InFlightOK, StoreOK
<1> QED
  BY <1>1, <1>2, <1>3, <1>4, <1>5, FS_EmptySet DEF RegistryInv

\* No step breaks it.
LEMMA NextRegistry == TypeOK /\ ServerInv /\ RegistryInv /\ [Next]_vars => RegistryInv'
<1> SUFFICES ASSUME TypeOK, ServerInv, RegistryInv, [Next]_vars PROVE RegistryInv'
  OBVIOUS
<1>1. ASSUME NEW r \in Requests, Http(r) PROVE RegistryInv'
  BY <1>1, HttpRegistry DEF ServerInv
<1>2. ASSUME NEW r \in Requests, Worker(r) PROVE RegistryInv'
  BY <1>2, WorkerRegistry
<1>3. CASE \/ \E r \in Requests : Callback(r) \/ RunProcessor(r)
           \/ TakeShot \/ UNCHANGED vars
  <2>1. UNCHANGED <<reg, published, methods, task, main>>
    BY <1>3 DEF Callback, RunProcessor, TakeShot, vars
  <2> QED BY <2>1, RegistryFrame DEF RegistryInv, Runs
<1> QED
  BY <1>1, <1>2, <1>3, MainRegistry DEF Next

-----------------------------------------------------------------------------
(* The theorems                                                            *)

\* The server starts with nobody inside and no screenshot.
LEMMA InitInv == Init => ServerInv
<1> SUFFICES ASSUME Init PROVE ServerInv
  OBVIOUS
<1>1. Inside = {}
  BY DEF Init, Inside
<1>2. GateOK
  BY <1>1, FS_EmptySet DEF Init, GateOK, Drained
<1>3. \A r \in Requests : TaskFollows(r) /\ ShotOK(r)
  BY DEF Init, NoTask, NoShot, TaskFollows, ShotOK, Waits, Holds
<1> QED
  BY <1>2, <1>3 DEF ServerInv

\* No step breaks the invariant.
LEMMA NextInv == TypeOK /\ ServerInv /\ [Next]_vars => ServerInv'
<1> SUFFICES ASSUME TypeOK, ServerInv, [Next]_vars PROVE ServerInv'
  OBVIOUS
<1>1. GateOK /\ \A q \in Requests : TaskFollows(q) /\ ShotOK(q)
  BY DEF ServerInv
<1>2. ASSUME NEW r \in Requests, Http(r) PROVE ServerInv'
  BY <1>1, <1>2, HttpGate, HttpShots DEF ServerInv
<1>3. ASSUME NEW r \in Requests, Worker(r) \/ Callback(r) \/ RunProcessor(r) PROVE ServerInv'
  <2>1. UNCHANGED <<gate, phase, main, call>>
    BY <1>3 DEF Worker, Begin, Collect, Publish, Encode, Find, Act, TakeScreenshot, Await, Abandon,
                Process, Encoded, Notify, Callback, RunProcessor
  <2>2. GateOK'
    BY <1>1, <2>1, GateFrame
  <2> QED BY <1>1, <1>3, <2>2, WorkerShots, CallbackShots, ProcessorShots DEF ServerInv
<1>4. CASE Main
  BY <1>1, <1>4, MainGate, MainShots DEF ServerInv
<1>5. CASE Take \/ TakeShot
  <2>1. GateOK'
    BY <1>1, <1>5, GateFrame DEF Take, TakeShot
  <2> QED BY <1>1, <1>5, <2>1, MainShots DEF ServerInv
<1>6. CASE UNCHANGED vars
  <2>1. GateOK'
    BY <1>1, <1>6, GateFrame DEF vars
  <2> QED BY <1>1, <1>6, <2>1, ShotFrame DEF ServerInv, vars, TaskFollows
<1> QED
  BY <1>2, <1>3, <1>4, <1>5, <1>6 DEF Next

\* The strengthening of the two theorems below holds in every behaviour.
THEOREM ServerInvariant == Spec => []ServerInv
<1> QED
  BY InitTypes, InitInv, NextTypes, NextInv, PTL DEF Spec

\* The gate counts who is inside however requests end, and a stop that was not
\* forced leaves nobody inside (AgentServerController.stopServer).
THEOREM DrainedMeansDoneCorrect == Spec => []DrainedMeansDone
<1>1. ServerInv => DrainedMeansDone
  BY DEF ServerInv, GateOK, DrainedMeansDone, Inside, Drained
<1> QED
  BY <1>1, ServerInvariant, PTL

\* A screenshot whose method is over is closed, or is being encoded and will be.
THEOREM ScreenshotsClosedCorrect == Spec => []ScreenshotsClosed
<1>1. ServerInv => ScreenshotsClosed
  BY DEF ServerInv, ShotOK, ScreenshotsClosed, Waits, Holds
<1> QED
  BY <1>1, ServerInvariant, PTL

\* A snapshot that is being answered is there to be acted on, nothing of before a
\* reset is, and enough newer ones have displaced whatever is gone
\* (RetainedSnapshotStore.trim, SnapshotRegistry.resetSessionState).
THEOREM SnapshotsUsableCorrect == Spec => []SnapshotsUsable
<1>1. RegistryInv => SnapshotsUsable
  <2> SUFFICES ASSUME RegistryInv PROVE SnapshotsUsable
    OBVIOUS
  <2>1. reg.inFlight \subseteq DOMAIN reg.retained
    BY DEF RegistryInv, InFlightOK
  <2>2. ASSUME ~reg.resetting
        PROVE  /\ DOMAIN reg.retained \subseteq Range(published)
               /\ \A i \in DOMAIN published :
                     published[i] \notin DOMAIN reg.retained => MayBeGone(i)
    <3>1. DOMAIN published = 1..Len(published)
      BY LenProperties DEF RegistryInv
    <3> QED BY <2>2, <3>1 DEF RegistryInv, StoreOK, Range
  <2> QED BY <2>1, <2>2 DEF SnapshotsUsable, MayBeGone
<1> QED
  BY <1>1, InitRegistry, NextRegistry, AgentTypes, ServerInvariant, PTL DEF Spec
=============================================================================
