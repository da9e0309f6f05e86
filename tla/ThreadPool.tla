------------------------------ MODULE ThreadPool -------------------------------
(***************************************************************************)
(* java.util.concurrent.ThreadPoolExecutor as the agent uses it            *)
(* (RpcRequestHandler.newMethodExecutor, ScreenshotTaskRunner): a bounded  *)
(* queue, at most `max` threads, and AbortPolicy.  The values are those of *)
(* RequestBudgets.kt; threads that stay idle are kept.                     *)
(***************************************************************************)
EXTENDS Naturals, Sequences, FiniteSets

Pool(core, max, capacity) ==
    [core |-> core, max |-> max, capacity |-> capacity,
     threads |-> 0, queue |-> <<>>, running |-> {}, open |-> TRUE]

PoolOf(T) ==
    [core : Nat, max : Nat, capacity : Nat, threads : Nat, queue : Seq(T),
     running : SUBSET T, open : BOOLEAN]

\* submit throws RejectedExecutionException otherwise
Accepts(pool) ==
    /\ pool.open
    /\ \/ pool.threads < pool.core
       \/ Len(pool.queue) < pool.capacity
       \/ pool.threads < pool.max

Submitted(pool, t) ==
    IF pool.threads < pool.core \/ Len(pool.queue) = pool.capacity
    THEN [pool EXCEPT !.threads = @ + 1, !.running = @ \cup {t}]
    ELSE [pool EXCEPT !.queue = Append(@, t),
                      !.threads = IF @ = 0 THEN 1 ELSE @]

\* An idle thread takes the oldest task.
HasWork(pool) == pool.queue # <<>> /\ Cardinality(pool.running) < pool.threads
Taken(pool) == [pool EXCEPT !.queue = Tail(@), !.running = @ \cup {Head(pool.queue)}]
Finished(pool, t) == [pool EXCEPT !.running = @ \ {t}]

\* shutdown() lets the queue run empty; shutdownNow() drops it, and interrupts
\* whoever is running.  The futures of dropped tasks never complete.
ShutDown(pool) == [pool EXCEPT !.open = FALSE]
ShutDownNow(pool) == [pool EXCEPT !.open = FALSE, !.queue = <<>>]
Terminated(pool) == ~pool.open /\ pool.queue = <<>> /\ pool.running = {}
=============================================================================
