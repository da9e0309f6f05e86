------------------------ MODULE ObservationLoop_proofs -------------------------
(***************************************************************************)
(* Proofs about the event buffer of the agent and the cursors that the     *)
(* loops of the host read it with, for any capacity, cooldown, policy and  *)
(* any number of changes, attachments and lives of the service.            *)
(*                                                                         *)
(* The events of a buffer are the last numbers that were given, without a  *)
(* gap, since its boundary (BufferOK).  Every step of the agent lets a     *)
(* buffer only grow (Grows), which is why a poll that was told of nothing  *)
(* new may sleep until it is signalled, and why a cursor from before a     *)
(* reset lies below the boundary (CursorOK).                               *)
(***************************************************************************)
EXTENDS ObservationLoop, SequenceTheorems, TLAPS

BufferOK(b) ==
    /\ b = [latest |-> b.latest, boundary |-> b.boundary, events |-> b.events, told |-> b.told]
    /\ b.latest \in Nat /\ b.boundary \in Nat
    /\ b.events \in Seq(Nat)
    /\ b.boundary + Len(b.events) <= b.latest
    /\ \A i \in 1..Len(b.events) : b.events[i] = b.latest - Len(b.events) + i
    /\ b.events = <<>> => b.boundary = b.latest

Grows(b, next) ==
    /\ BufferOK(next)
    /\ next.latest >= b.latest /\ next.boundary >= b.boundary
    /\ next.latest = b.latest => next = b

BuffersOK ==
    /\ life \in Lives /\ resets \in Nat
    /\ buffers = [l \in Lives |-> buffers[l]]
    /\ \A l \in Lives : BufferOK(buffers[l])

\* What a step of the agent or the device does to buffers, lives and resets.
Progress ==
    /\ life' \in Lives /\ life' >= life
    /\ buffers' = [l \in Lives |-> buffers'[l]]
    /\ \A l \in Lives : Grows(buffers[l], buffers'[l])
    /\ \/ resets' = resets
       \/ /\ resets' = resets + 1 /\ life' = life
          /\ buffers'[life].boundary > buffers[life].latest

-----------------------------------------------------------------------------
(* The buffer                                                              *)

\* A buffer grows to itself.
LEMMA GrowsReflexive ==
    ASSUME NEW b, BufferOK(b) PROVE Grows(b, b)
<1>1. b.latest \in Nat /\ b.boundary \in Nat
  BY DEF BufferOK
<1> QED
  BY <1>1 DEF Grows

\* Growing is transitive: a step may publish and then reset.
LEMMA GrowsTransitive ==
    ASSUME NEW a, NEW b, NEW c, BufferOK(a), Grows(a, b), Grows(b, c) PROVE Grows(a, c)
<1>1. /\ a.latest \in Nat /\ b.latest \in Nat /\ c.latest \in Nat
      /\ a.boundary \in Nat /\ b.boundary \in Nat /\ c.boundary \in Nat
  BY DEF Grows, BufferOK
<1> QED
  BY <1>1 DEF Grows

\* What remains of a full buffer is still without a gap.
LEMMA TailOfBuffer ==
    ASSUME NEW b, BufferOK(b), Len(b.events) = Capacity
    PROVE  LET kept == Tail(b.events)
           IN  /\ kept \in Seq(Nat) /\ Len(kept) = Len(b.events) - 1
               /\ \A i \in 1..Len(kept) : kept[i] = b.latest - Len(kept) + i
<1> DEFINE events == b.events
<1>1. events \in Seq(Nat) /\ b.latest \in Nat /\ Len(events) \in Nat \ {0}
  BY BufferAssumption DEF BufferOK
<1>2. \A i \in 1..Len(events) : events[i] = b.latest - Len(events) + i
  BY DEF BufferOK
<1> HIDE DEF events
<1>3. events # <<>>
  BY <1>1
<1>4. /\ Tail(events) \in Seq(Nat) /\ Len(Tail(events)) = Len(events) - 1
      /\ \A i \in 1..Len(Tail(events)) : Tail(events)[i] = events[i + 1]
  BY <1>1, <1>3, HeadTailProperties
<1>5. ASSUME NEW i \in 1..Len(Tail(events))
      PROVE  Tail(events)[i] = b.latest - Len(Tail(events)) + i
  <2>1. i \in Int /\ i + 1 \in 1..Len(events)
    BY <1>1, <1>4
  <2> DEFINE latest == b.latest
             n == Len(events)
             k == Len(Tail(events))
             x == Tail(events)[i]
  <2>2. x = latest - n + (i + 1)
    BY <1>2, <1>4, <2>1
  <2>3. latest \in Nat /\ n \in Nat /\ k = n - 1
    BY <1>1, <1>4
  <2> HIDE DEF latest, n, k, x
  <2>4. x = latest - k + i
    BY <2>1, <2>2, <2>3
  <2> QED BY <2>4 DEF latest, k, x
<1> QED
  BY <1>4, <1>5 DEF events

\* Publishing keeps the numbers without a gap, whether or not the oldest has to go.
LEMMA PublishGrows ==
    ASSUME NEW b, BufferOK(b), NEW version
    PROVE Grows(b, Publish(b, version)) /\ Publish(b, version).boundary = b.boundary
<1> DEFINE kept == IF Len(b.events) = Capacity THEN Tail(b.events) ELSE b.events
           published == [latest |-> b.latest + 1, boundary |-> b.boundary,
                         events |-> Append(kept, b.latest + 1),
                         told |-> Append(b.told, version)]
<1>1. Publish(b, version) = published
  BY DEF Publish
<1>2. /\ kept \in Seq(Nat) /\ Len(kept) \in Nat /\ Len(kept) <= Len(b.events)
      /\ \A i \in 1..Len(kept) : kept[i] = b.latest - Len(kept) + i
  <2>1. CASE Len(b.events) = Capacity
    <3>1. kept = Tail(b.events)
      BY <2>1
    <3>2. Len(b.events) \in Nat
      BY DEF BufferOK
    <3> HIDE DEF kept
    <3> QED BY <2>1, <3>1, <3>2, TailOfBuffer
  <2>2. CASE Len(b.events) # Capacity
    <3>1. kept = b.events
      BY <2>2
    <3> HIDE DEF kept
    <3> QED BY <3>1 DEF BufferOK
  <2> QED BY <2>1, <2>2
<1> HIDE DEF kept
<1>3. b.latest \in Nat /\ b.boundary \in Nat /\ b.boundary + Len(kept) <= b.latest
  BY <1>2 DEF BufferOK
<1>4. /\ published.events = Append(kept, b.latest + 1)
      /\ published.latest = b.latest + 1 /\ published.boundary = b.boundary
      /\ published.told = Append(b.told, version)
  OBVIOUS
<1>5. /\ published.events \in Seq(Nat) /\ Len(published.events) = Len(kept) + 1
      /\ \A i \in 1..Len(kept) : published.events[i] = kept[i]
      /\ published.events[Len(kept) + 1] = b.latest + 1
  BY <1>2, <1>3, <1>4, AppendProperties
<1>6. published = [latest |-> published.latest, boundary |-> published.boundary,
                   events |-> published.events, told |-> published.told]
  OBVIOUS
<1> HIDE DEF published
<1>7. ASSUME NEW i \in 1..Len(published.events)
      PROVE  published.events[i] = published.latest - Len(published.events) + i
  <2> DEFINE n == Len(kept)
             latest == b.latest
             m == Len(published.events)
             last1 == published.latest
             x == published.events[i]
  <2>1. n \in Nat /\ latest \in Nat /\ m = n + 1 /\ last1 = latest + 1 /\ i \in 1..m
    BY <1>2, <1>3, <1>4, <1>5
  <2>2. CASE i = n + 1
    <3>1. x = latest + 1
      BY <1>5, <2>2
    <3> HIDE DEF n, latest, m, last1, x
    <3>2. x = last1 - m + i
      BY <2>1, <2>2, <3>1
    <3> QED BY <3>2 DEF m, last1, x
  <2>3. CASE i # n + 1
    <3>1. i \in 1..n
      <4> HIDE DEF n, latest, m
      <4> QED BY <2>1, <2>3
    <3>2. x = latest - n + i
      BY <1>2, <1>5, <3>1
    <3> HIDE DEF n, latest, m, last1, x
    <3>3. x = last1 - m + i
      BY <2>1, <3>1, <3>2
    <3> QED BY <3>3 DEF m, last1, x
  <2> QED BY <2>2, <2>3
<1>8. published.events # <<>>
  BY <1>2, <1>5
<1>9. /\ published.latest \in Nat /\ published.boundary \in Nat
      /\ published.boundary + Len(published.events) <= published.latest
  BY <1>2, <1>3, <1>4, <1>5
<1>10. BufferOK(published)
  BY <1>5, <1>6, <1>7, <1>8, <1>9 DEF BufferOK
<1> QED
  BY <1>1, <1>3, <1>4, <1>10 DEF Grows

\* A reset leaves no event, and a boundary above every number given before.
LEMMA ResetGrows ==
    ASSUME NEW b, BufferOK(b), NEW version
    PROVE Grows(b, Reset(b, version)) /\ Reset(b, version).boundary > b.latest
<1>1. BufferOK(Reset(b, version))
  BY DEF Reset, BufferOK
<1> QED
  BY <1>1 DEF Grows, BufferOK, Reset

\* Who stands at any number that was given misses nothing after it unawares.
LEMMA BufferHasNoSilentGap ==
    ASSUME NEW b, BufferOK(b), NEW from \in 1..b.latest
    PROVE NeedResync(b, from) \/ (from + 1)..b.latest = After(b, from)
<1>1. CASE b.events = <<>>
  <2>1. Len(b.events) = 0 /\ b.boundary = b.latest
    BY <1>1 DEF BufferOK
  <2>2. CASE from < b.latest
    BY <2>1, <2>2 DEF NeedResync, BufferOK
  <2>3. CASE ~(from < b.latest)
    <3>1. After(b, from) = {}
      BY <2>1 DEF After
    <3> QED BY <2>3, <3>1 DEF BufferOK
  <2> QED BY <2>2, <2>3
<1>2. CASE b.events # <<>>
  <2>1. Len(b.events) \in Nat \ {0} /\ b.latest \in Nat
    BY <1>2 DEF BufferOK
  <2>2. b.events[1] = b.latest - Len(b.events) + 1
    <3>1. 1 \in 1..Len(b.events)
      BY <2>1
    <3> QED BY <3>1, Zenon DEF BufferOK
  <2>3. CASE from < b.events[1] - 1
    <3>1. from > 0
      BY <2>1
    <3> QED BY <1>2, <2>3, <3>1 DEF NeedResync
  <2>4. CASE ~(from < b.events[1] - 1)
    <3>1. ASSUME NEW n \in (from + 1)..b.latest PROVE n \in After(b, from)
      <4>1. n - (b.latest - Len(b.events)) \in 1..Len(b.events)
        BY <2>1, <2>2, <2>4
      <4>2. b.events[n - (b.latest - Len(b.events))] = n
        BY <2>1, <4>1 DEF BufferOK
      <4> QED BY <4>1, <4>2 DEF After
    <3>2. ASSUME NEW n \in After(b, from) PROVE n \in (from + 1)..b.latest
      <4>1. PICK i \in 1..Len(b.events) : n = b.events[i]
        BY DEF After
      <4>2. n \in Nat /\ n >= 1 /\ n <= b.latest
        BY <2>1, <4>1 DEF BufferOK
      <4> QED BY <4>2, <2>1 DEF After
    <3> QED BY <3>1, <3>2
  <2> QED BY <2>3, <2>4
<1> QED BY <1>1, <1>2

-----------------------------------------------------------------------------
(* The cooldown: whatever it publishes, the buffer of the pipe only grows  *)

\* Telling of an invalidation publishes at most one event.
LEMMA AnnounceGrows ==
    ASSUME NEW b, NEW p, BufferOK(b), Grows(b, p.buffer), NEW context, NEW version
    PROVE Grows(b, Announce(p, context, version).buffer)
<1>1. BufferOK(p.buffer)
  BY DEF Grows
<1>2. Announce(p, context, version).buffer = Publish(p.buffer, version)
  BY DEF Announce, Pipe
<1> QED
  BY <1>1, <1>2, PublishGrows, GrowsTransitive

\* Neither scheduling nor cancelling a task touches the buffer.
LEMMA TasksLeaveTheBuffer ==
    ASSUME NEW p, NEW flag
    PROVE /\ Cancelled(p).buffer = p.buffer
          /\ Scheduled(p).buffer = p.buffer
          /\ Pending(p, flag).buffer = p.buffer
BY DEF Cancelled, Scheduled, Pending, Pipe

\* Releasing a held-back invalidation publishes it, or leaves the buffer.
LEMMA ReleasedGrows ==
    ASSUME NEW b, NEW p, BufferOK(b), Grows(b, p.buffer), NEW version
    PROVE Grows(b, Released(p, version).buffer)
<1>1. Grows(b, Pending(Cancelled(p), FALSE).buffer)
  BY TasksLeaveTheBuffer
<1>2. Grows(b, Announce(Pending(Cancelled(p), FALSE), p.cool.context, version).buffer)
  BY <1>1, AnnounceGrows
<1> QED
  BY <1>2 DEF Released

\* So does flushing it before another event.
LEMMA FlushedGrows ==
    ASSUME NEW b, NEW p, BufferOK(b), Grows(b, p.buffer), NEW context, NEW version
    PROVE Grows(b, Flushed(p, context, version).buffer)
<1>1. Grows(b, Released(Cancelled(p), version).buffer)
  BY TasksLeaveTheBuffer, ReleasedGrows
<1> QED
  BY <1>1 DEF Flushed, Pipe

\* An invalidation is told, held back with a timer, or merged into what is held back.
LEMMA InvalidatedGrows ==
    ASSUME NEW b, NEW p, BufferOK(b), Grows(b, p.buffer),
           NEW context, NEW before, NEW version
    PROVE Grows(b, Invalidated(p, context, before, version).buffer)
<1> DEFINE q == Flushed(p, context, before)
<1>1. Grows(b, q.buffer)
  BY FlushedGrows
<1>2. Grows(b, Announce(Released(q, before), context, version).buffer)
  BY <1>1, ReleasedGrows, AnnounceGrows
<1>3. Grows(b, Scheduled(Pending(q, TRUE)).buffer)
  BY <1>1, TasksLeaveTheBuffer
<1> QED
  BY <1>2, <1>3 DEF Invalidated

-----------------------------------------------------------------------------
(* The steps of the agent and of the device                                *)

\* A step that puts a grown buffer in the place of the current one.
LEMMA BecomesProgress ==
    ASSUME BuffersOK, NEW b, Grows(buf, b), Becomes(b), UNCHANGED life,
           \/ resets' = resets
           \/ resets' = resets + 1 /\ b.boundary > buf.latest
    PROVE Progress
<1>1. life \in Lives /\ life \in Nat
  BY LivesAssumption DEF BuffersOK, Lives
<1>2. buffers' = [l \in Lives |-> IF l = life THEN b ELSE buffers[l]]
  BY <1>1 DEF BuffersOK, Becomes
<1>3. \A l \in Lives : Grows(buffers[l], buffers'[l])
  BY <1>2, GrowsReflexive DEF BuffersOK, buf
<1>4. buffers'[life] = b
  BY <1>1, <1>2
<1> QED
  BY <1>1, <1>2, <1>3, <1>4 DEF Progress, buf

\* A step that leaves the buffers alone.
LEMMA QuietProgress ==
    ASSUME BuffersOK, UNCHANGED <<buffers, resets>>, life' \in Lives, life' >= life
    PROVE Progress
BY GrowsReflexive DEF BuffersOK, Progress

\* The current pipeline is one of the lives, so its buffer is in order.
LEMMA CurrentBuffer ==
    ASSUME BuffersOK PROVE BufferOK(buf) /\ Grows(buf, buf) /\ life \in Lives /\ life >= life
BY GrowsReflexive, LivesAssumption DEF BuffersOK, buf, Lives

\* An event the deduplicator drops changes no buffer.
LEMMA PublishIfNewGrows ==
    ASSUME BuffersOK, NEW b, Grows(buf, b), NEW key, NEW old
    PROVE Grows(buf, PublishIfNew(b, key, old))
<1>1. BufferOK(buf) /\ BufferOK(b)
  BY CurrentBuffer DEF Grows
<1>2. Grows(buf, Publish(b, screen))
  BY <1>1, PublishGrows, GrowsTransitive
<1> QED
  BY <1>2 DEF PublishIfNew

\* DeviceEventAggregator.record, for every kind of accessibility event.
LEMMA RecordProgress ==
    ASSUME BuffersOK, Record PROVE Progress
<1> DEFINE e == raw[1]
           keyed == PublishIfNew(buf, e.context, last.context)
           told == CASE e.kind = "window" -> PublishIfNew(keyed, e.context, last.window)
                     [] e.kind = "focus" -> PublishIfNew(keyed, e.context, last.focus)
                     [] OTHER -> keyed
           p == Pipe(cool, timers, told)
           q == IF e.kind = "focus" THEN p ELSE Invalidated(p, e.context, recorded, screen)
<1>1. BufferOK(buf) /\ Grows(buf, buf)
  BY CurrentBuffer
<1>2. Grows(buf, keyed)
  BY <1>1, PublishIfNewGrows
<1>3. Grows(buf, told)
  <2> HIDE DEF keyed
  <2>1. /\ Grows(buf, PublishIfNew(keyed, e.context, last.window))
        /\ Grows(buf, PublishIfNew(keyed, e.context, last.focus))
    BY <1>2, PublishIfNewGrows
  <2> QED BY <1>2, <2>1
<1>4. Grows(buf, p.buffer)
  BY <1>3 DEF Pipe
<1>5. Grows(buf, Invalidated(p, e.context, recorded, screen).buffer)
  <2> HIDE DEF p
  <2> QED BY <1>1, <1>4, InvalidatedGrows
<1>6. Grows(buf, q.buffer)
  BY <1>4, <1>5
<1>7. Becomes(q.buffer) /\ UNCHANGED life /\ resets' = resets
  BY DEF Record, Installs
<1> HIDE DEF q
<1> QED
  BY <1>6, <1>7, BecomesProgress

\* The cooldown timer, whether its task was cancelled or not.
LEMMA RunTimerProgress ==
    ASSUME BuffersOK, NEW t, RunTimer(t) PROVE Progress
<1> DEFINE p == Pipe(cool, timers \ {t}, buf)
           done == Pipe([cool EXCEPT !.active = 0], p.timers, buf)
           q == IF ~IsActive(t) THEN p
                ELSE IF ~cool.pending THEN done
                ELSE IF clock < cool.until THEN Scheduled(done)
                ELSE Announce(Pending(done, FALSE), cool.context, recorded)
<1>1. BufferOK(buf) /\ Grows(buf, buf)
  BY CurrentBuffer
<1>2. p.buffer = buf /\ done.buffer = buf
  BY DEF Pipe
<1>3. Becomes(q.buffer) /\ UNCHANGED life /\ resets' = resets
  BY DEF RunTimer, Installs
<1> HIDE DEF p, done
<1>4. Grows(buf, Scheduled(done).buffer)
  BY <1>1, <1>2, TasksLeaveTheBuffer
<1>5. Grows(buf, Announce(Pending(done, FALSE), cool.context, recorded).buffer)
  BY <1>1, <1>2, TasksLeaveTheBuffer, AnnounceGrows
<1>6. Grows(buf, q.buffer)
  BY <1>1, <1>2, <1>4, <1>5
<1> HIDE DEF q
<1> QED
  BY <1>3, <1>6, BecomesProgress

\* A reset of the pipeline: the buffer is emptied and a resync boundary set.
LEMMA ResetPipelineProgress ==
    ASSUME BuffersOK, ResetPipeline, UNCHANGED life PROVE Progress
<1> DEFINE b == Reset(buf, recorded)
<1>1. Becomes(b) /\ resets' = resets + 1
  BY DEF ResetPipeline, Installs, Pipe
<1>2. Grows(buf, b) /\ b.boundary > buf.latest
  BY CurrentBuffer, ResetGrows
<1> HIDE DEF b
<1> QED
  BY <1>1, <1>2, BecomesProgress

\* The connection status of the service, told as an event.
LEMMA RecordStatusProgress ==
    ASSUME BuffersOK, NEW status, NEW version, RecordStatus(status, version),
           UNCHANGED life, resets' = resets
    PROVE Progress
<1> DEFINE b == IF last.status = status THEN buf ELSE Publish(buf, version)
<1>1. Becomes(b)
  BY DEF RecordStatus
<1>2. Grows(buf, b)
  BY CurrentBuffer, PublishGrows
<1> HIDE DEF b
<1> QED
  BY <1>1, <1>2, BecomesProgress

\* Every step beside the loop lets the buffers grow, or leaves them.
LEMMA DeviceProgress ==
    ASSUME BuffersOK, AgentStep \/ DeviceStep PROVE Progress
<1>0. life \in Lives /\ life >= life
  BY CurrentBuffer
<1>1. CASE Record
  BY <1>1, RecordProgress
<1>2. CASE Ignore
  BY <1>0, <1>2, QuietProgress DEF Ignore
<1>3. CASE Register
  BY <1>3, RecordStatusProgress DEF Register
<1>4. CASE DetachReset
  BY <1>4, ResetPipelineProgress DEF DetachReset
<1>5. CASE Reconcile
  BY <1>5, RecordStatusProgress DEF Reconcile
<1>6. ASSUME NEW t \in timers, StartTimer(t) PROVE Progress
  BY <1>0, <1>6, QuietProgress DEF StartTimer
<1>7. ASSUME NEW t \in timers, RunTimer(t) PROVE Progress
  BY <1>7, RunTimerProgress
<1>8. ASSUME NEW k \in Kinds, NEW context \in Contexts, Change(k, context) PROVE Progress
  BY <1>0, <1>8, QuietProgress DEF Change
<1>9. CASE Attach
  BY <1>9, ResetPipelineProgress DEF Attach
<1>10. CASE Unregister
  BY <1>10, RecordStatusProgress DEF Unregister
<1>11. CASE Shutdown
  <2>1. life' \in Lives /\ life' >= life
    BY <1>0, <1>11, LivesAssumption DEF Shutdown, Lives
  <2> QED BY <1>11, <2>1, QuietProgress DEF Shutdown
<1> QED
  BY <1>1, <1>2, <1>3, <1>4, <1>5, <1>6, <1>7, <1>8, <1>9, <1>10, <1>11
     DEF AgentStep, DeviceStep

\* The rest leaves the pipeline alone: a step of the loop, a lost poll, a tick.
LEMMA LoopLeavesThePipeline ==
    ASSUME LoopStep \/ LosePoll \/ Tick
    PROVE  UNCHANGED <<life, resets, buffers>>
BY DEF LoopStep, LosePoll, Tick, Ask, Answer, Wake, Decide, Fetch, FetchAgain, FetchFails,
       JudgeSettle, JudgeIdle, JudgeChange, eventVars

\* Every step of the system lets the buffers grow, or starts a new life.
LEMMA NextProgress ==
    ASSUME BuffersOK, [ObservationNext]_allVars PROVE Progress
<1>0. life \in Lives /\ life >= life
  BY CurrentBuffer
<1>1. CASE LoopStep \/ LosePoll \/ Tick
  <2>1. UNCHANGED <<life, resets, buffers>>
    BY <1>1, LoopLeavesThePipeline
  <2> QED BY <1>0, <2>1, QuietProgress
<1>2. CASE AgentStep \/ DeviceStep
  BY <1>2, DeviceProgress
<1>3. CASE UNCHANGED allVars
  BY <1>0, <1>3, QuietProgress DEF allVars, eventVars
<1> QED
  BY <1>1, <1>2, <1>3 DEF ObservationNext

\* The first pipeline has an empty buffer.
LEMMA InitBuffers == LoopInit => BuffersOK
<1> SUFFICES ASSUME LoopInit PROVE BuffersOK
  OBVIOUS
<1>1. BufferOK(Fresh)
  BY DEF BufferOK, Fresh
<1>2. BufferOK(Publish(Reset(Fresh, 0), 0))
  BY <1>1, ResetGrows, PublishGrows DEF Grows
<1>3. buffers = [l \in Lives |-> IF l = 0 THEN Publish(Reset(Fresh, 0), 0) ELSE Fresh]
  BY DEF LoopInit, EventInit
<1>4. life \in Lives /\ resets \in Nat
  BY LivesAssumption DEF LoopInit, EventInit, Lives
<1> QED
  BY <1>1, <1>2, <1>3, <1>4 DEF BuffersOK

\* No step puts a buffer out of order.
LEMMA NextBuffers ==
    ASSUME BuffersOK, [ObservationNext]_allVars PROVE BuffersOK'
<1>1. Progress
  BY NextProgress
<1>2. resets' \in Nat
  BY <1>1 DEF Progress, BuffersOK
<1>3. \A l \in Lives : BufferOK(buffers'[l])
  BY <1>1 DEF Progress, Grows
<1> QED
  BY <1>1, <1>2, <1>3 DEF Progress, BuffersOK

\* The buffers of the agent are always in order.
THEOREM BuffersCorrect == ObservationSpec => []BuffersOK
<1>1. LoopInit => BuffersOK
  BY InitBuffers
<1>2. BuffersOK /\ [ObservationNext]_allVars => BuffersOK'
  BY NextBuffers
<1> QED
  BY <1>1, <1>2, PTL DEF ObservationSpec

\* Every poller, whatever its cursor, finds all events after it or is told to
\* start over, for any capacity and any history of publishing and resets.
THEOREM NoSilentGapCorrect == ObservationSpec => []NoSilentGap
<1>1. BuffersOK => NoSilentGap
  BY CurrentBuffer, BufferHasNoSilentGap DEF NoSilentGap
<1> QED
  BY <1>1, BuffersCorrect, PTL

-----------------------------------------------------------------------------
(* The poll that sleeps                                                    *)

PollOK ==
    /\ poll = [from |-> poll.from, until |-> poll.until, life |-> poll.life,
               asked |-> poll.asked, parked |-> poll.parked]
    /\ poll.parked \in BOOLEAN
    /\ poll.life \in Lives
    /\ NoSleeperWithNews

\* Nobody polls in the beginning.
LEMMA InitPoll == LoopInit => PollOK
BY LivesAssumption DEF LoopInit, NoPoll, PollOK, NoSleeperWithNews, Lives

\* A buffer in which nothing new was numbered is the same buffer.
LEMMA SignalledKeepsPoll ==
    ASSUME BuffersOK, PollOK, Progress, Signalled PROVE PollOK'
<1> DEFINE l == poll.life
<1>1. /\ poll' = [from |-> poll.from, until |-> poll.until, life |-> l, asked |-> poll.asked,
                  parked |-> poll.parked /\ buffers'[l].latest = buffers[l].latest]
      /\ l \in Lives
  BY DEF PollOK, Signalled
<1>2. poll'.parked => poll.parked /\ buffers'[l] = buffers[l]
  BY <1>1 DEF Progress, Grows
<1>3. poll'.parked => ~HasNews(buffers'[l], poll.from)
  BY <1>2 DEF PollOK, NoSleeperWithNews
<1>4. poll'.life = l /\ poll'.from = poll.from /\ poll'.parked \in BOOLEAN
  BY <1>1
<1>5. NoSleeperWithNews'
  BY <1>3, <1>4 DEF NoSleeperWithNews
<1> QED
  BY <1>1, <1>4, <1>5 DEF PollOK

\* Who sleeps in a long poll was told of everything numbered since.
LEMMA NextPoll ==
    ASSUME BuffersOK, PollOK, [ObservationNext]_allVars PROVE PollOK'
<1> USE LivesAssumption
<1>1. CASE Ask
  <2>1. CASE PollWait = 0
    <3>1. UNCHANGED <<poll, buffers>>
      BY <1>1, <2>1 DEF Ask, eventVars
    <3> QED BY <3>1 DEF PollOK, NoSleeperWithNews
  <2>2. CASE PollWait # 0
    <3>1. /\ poll' = [from |-> cursor, until |-> clock + PollWait, life |-> life,
                      asked |-> clock, parked |-> Waits(buf, cursor)]
          /\ UNCHANGED buffers /\ life \in Lives
      BY <1>1, <2>2 DEF Ask, eventVars, BuffersOK
    <3>2. /\ poll'.parked = ~HasNews(buffers[life], cursor)
          /\ poll'.life = life /\ poll'.from = cursor
      BY <3>1 DEF Waits, buf
    <3> QED BY <3>1, <3>2 DEF PollOK, NoSleeperWithNews, HasNews
  <2> QED BY <2>1, <2>2
<1>2. CASE Answer \/ LosePoll
  <2>1. poll' = NoPoll
    BY <1>2 DEF Answer, LosePoll
  <2> QED BY <2>1 DEF NoPoll, PollOK, NoSleeperWithNews, Lives
<1>3. CASE \/ Wake \/ Decide \/ Fetch \/ FetchAgain \/ FetchFails
           \/ JudgeSettle \/ JudgeIdle \/ JudgeChange \/ Tick \/ UNCHANGED allVars
  <2>1. UNCHANGED <<poll, buffers>>
    BY <1>3 DEF Wake, Decide, Fetch, FetchAgain, FetchFails, JudgeSettle, JudgeIdle,
                JudgeChange, Tick, allVars, eventVars, loopVars
  <2> QED BY <2>1 DEF PollOK, NoSleeperWithNews
<1>4. CASE (AgentStep \/ DeviceStep) /\ Beside
  BY <1>4, DeviceProgress, SignalledKeepsPoll DEF Beside
<1> QED
  BY <1>1, <1>2, <1>3, <1>4 DEF ObservationNext, LoopStep

\* No poll sleeps on news: what is published or reset wakes it, and what was there
\* before is looked at first.
THEOREM NoSleeperWithNewsCorrect == ObservationSpec => []NoSleeperWithNews
<1>1. LoopInit => PollOK
  BY InitPoll
<1>2. BuffersOK /\ PollOK /\ [ObservationNext]_allVars => PollOK'
  BY NextPoll
<1>3. PollOK => NoSleeperWithNews
  BY DEF PollOK
<1> QED
  BY <1>1, <1>2, <1>3, BuffersCorrect, PTL DEF ObservationSpec

-----------------------------------------------------------------------------
(* The cursor of the loop                                                  *)

\* What was heard last is no newer than what there is; a cursor is the number
\* heard last or zero; a reset since then put the boundary above it.
CursorOK ==
    /\ heard = [life |-> heard.life, seq |-> heard.seq, resets |-> heard.resets,
                blind |-> heard.blind]
    /\ heard.life \in Lives /\ heard.life <= life
    /\ heard.seq \in Nat /\ heard.seq <= buffers[heard.life].latest
    /\ heard.resets \in Nat /\ heard.resets <= resets
    /\ cursor \in {0, heard.seq}
    /\ heard.life = life /\ heard.resets < resets => heard.seq < buf.boundary
    /\ pc = "polling" =>
          poll.from = cursor /\ poll.life \in Lives /\ heard.life <= poll.life /\ poll.life <= life

\* What a step that leaves the loop alone has to keep.
LEMMA ProgressKeepsCursor ==
    ASSUME BuffersOK, CursorOK, Progress, UNCHANGED <<heard, cursor>>,
           pc' = "polling" =>
               pc = "polling" /\ poll'.from = poll.from /\ poll'.life = poll.life
    PROVE  CursorOK'
<1>1. /\ life \in Nat /\ life' \in Nat /\ resets \in Nat /\ heard.life \in Nat
      /\ life' >= life /\ resets' >= resets /\ resets' \in Nat
  BY LivesAssumption DEF BuffersOK, CursorOK, Progress, Lives
<1>2. \A l \in Lives : buffers[l].latest \in Nat /\ buffers'[l].latest \in Nat
                       /\ buffers[l].boundary \in Nat /\ buffers'[l].boundary \in Nat
                       /\ buffers'[l].latest >= buffers[l].latest
                       /\ buffers'[l].boundary >= buffers[l].boundary
  BY DEF BuffersOK, Progress, Grows, BufferOK
<1>3. heard.seq <= buffers'[heard.life].latest
  BY <1>2 DEF CursorOK
<1>4. heard.life <= life' /\ heard.resets <= resets'
  BY <1>1 DEF CursorOK
<1>5. ASSUME heard.life = life', heard.resets < resets' PROVE heard.seq < buffers'[life'].boundary
  <2>1. life' = life /\ heard.life = life /\ life \in Lives
    BY <1>1, <1>5 DEF CursorOK
  <2>2. CASE resets' = resets
    BY <1>2, <1>5, <2>1, <2>2 DEF CursorOK, buf
  <2>3. CASE resets' # resets
    <3>1. buffers'[life].boundary > buffers[life].latest
      BY <2>3 DEF Progress
    <3> QED BY <1>2, <2>1, <3>1 DEF CursorOK
  <2> QED BY <2>2, <2>3
<1>6. pc' = "polling" =>
          /\ poll'.from = cursor /\ poll'.life \in Lives
          /\ heard.life <= poll'.life /\ poll'.life <= life'
  <2> SUFFICES ASSUME pc' = "polling" PROVE poll.from = cursor /\ poll.life \in Lives
                       /\ heard.life <= poll.life /\ poll.life <= life'
    OBVIOUS
  <2>1. poll.life \in Nat /\ poll.life <= life /\ heard.life <= poll.life
        /\ poll.from = cursor /\ poll.life \in Lives
    BY LivesAssumption DEF CursorOK, Lives
  <2> QED BY <1>1, <2>1
<1> QED
  BY <1>3, <1>4, <1>5, <1>6 DEF CursorOK, buf

\* The loop begins without a cursor.
LEMMA InitCursor == LoopInit => CursorOK
<1> SUFFICES ASSUME LoopInit PROVE CursorOK
  OBVIOUS
<1>1. /\ heard = [life |-> 0, seq |-> 0, resets |-> 0, blind |-> FALSE]
      /\ cursor = 0 /\ pc = "poll" /\ life = 0 /\ resets = 1
  BY DEF LoopInit, EventInit
<1>2. 0 \in Lives
  BY LivesAssumption DEF Lives
<1>3. buffers[0] = Publish(Reset(Fresh, 0), 0)
  BY <1>2 DEF LoopInit, EventInit
<1>4. buffers[0].boundary = 1 /\ buffers[0].latest = 2
  BY <1>3 DEF Publish, Reset, Fresh
<1> QED
  BY <1>1, <1>2, <1>4 DEF CursorOK, buf

\* The cursor of the loop stays within the numbers of the pipeline it was given by.
LEMMA NextCursor ==
    ASSUME BuffersOK, CursorOK, PollOK, [ObservationNext]_allVars PROVE CursorOK'
<1>0. Progress
  BY NextProgress
<1>1. CASE Ask
  <2>1. /\ UNCHANGED <<heard, cursor, life, resets, buffers>>
        /\ pc' = "polling" => poll'.from = cursor /\ poll'.life = life
    BY <1>1 DEF Ask, eventVars
  <2>2. life \in Lives /\ life <= life
    BY CurrentBuffer
  <2> QED BY <2>1, <2>2 DEF CursorOK, buf
<1>2. CASE Answer
  <2> DEFINE b == buffers[poll.life]
  <2>1. /\ pc = "polling" /\ pc' # "polling"
        /\ heard'.life = poll.life /\ heard'.seq = b.latest /\ heard'.resets = resets
        /\ heard' = [life |-> heard'.life, seq |-> heard'.seq, resets |-> heard'.resets,
                     blind |-> heard'.blind]
        /\ cursor' = 0 \/ cursor' = b.latest
        /\ UNCHANGED <<life, resets, buffers>>
    BY <1>2 DEF Answer, eventVars
  <2>2. poll.life \in Lives /\ poll.life <= life /\ b.latest \in Nat /\ resets \in Nat
    BY <2>1 DEF CursorOK, BuffersOK, BufferOK
  <2> HIDE DEF b
  <2>3. b = buffers'[heard'.life]
    BY <2>1 DEF b
  <2> QED BY <2>1, <2>2, <2>3 DEF CursorOK, buf
<1>3. CASE LosePoll \/ Wake \/ Decide \/ FetchAgain \/ FetchFails
           \/ JudgeSettle \/ JudgeIdle \/ JudgeChange \/ Tick
  <2>1. UNCHANGED <<heard, cursor>>
    BY <1>3 DEF LosePoll, Wake, Decide, FetchAgain, FetchFails, JudgeSettle, JudgeIdle,
                JudgeChange, Tick, loopVars
  <2>2. pc' = "polling" => pc = "polling" /\ UNCHANGED poll
    BY <1>3 DEF LosePoll, Wake, Decide, FetchAgain, FetchFails, JudgeSettle, JudgeIdle,
                JudgeChange, Tick, loopVars, Pauses
  <2> QED BY <1>0, <2>1, <2>2, ProgressKeepsCursor
<1>4. CASE Fetch
  <2>1. /\ heard' = [heard EXCEPT !.blind = FALSE] /\ pc' = "judge"
        /\ UNCHANGED <<cursor, life, resets, buffers>>
    BY <1>4 DEF Fetch, eventVars
  <2>2. /\ heard'.life = heard.life /\ heard'.seq = heard.seq /\ heard'.resets = heard.resets
        /\ heard' = [life |-> heard'.life, seq |-> heard'.seq, resets |-> heard'.resets,
                     blind |-> heard'.blind]
    BY <2>1 DEF CursorOK
  <2> QED BY <2>1, <2>2 DEF CursorOK, buf
<1>5. CASE (AgentStep \/ DeviceStep) /\ Beside
  <2>1. UNCHANGED <<heard, cursor, pc>> /\ poll'.from = poll.from /\ poll'.life = poll.life
    BY <1>5 DEF Beside, Signalled, PollOK
  <2> QED BY <1>0, <2>1, ProgressKeepsCursor
<1>6. CASE UNCHANGED allVars
  BY <1>0, <1>6, ProgressKeepsCursor DEF allVars, loopVars
<1> QED
  BY <1>1, <1>2, <1>3, <1>4, <1>5, <1>6 DEF ObservationNext, LoopStep

\* A cursor from before an attachment change is always told to start over, while
\* the pipeline is the same one.
THEOREM CursorHearsResetCorrect == ObservationSpec => CursorHearsReset
<1> DEFINE Hears == Answer /\ poll.from > 0 /\ heard.life = life /\ heard.resets < resets
                        => saw'.resync
<1>1. LoopInit => CursorOK /\ PollOK
  BY InitCursor, InitPoll
<1>2. BuffersOK /\ CursorOK /\ PollOK /\ [ObservationNext]_allVars => (CursorOK /\ PollOK)'
  BY NextCursor, NextPoll
<1>3. BuffersOK /\ CursorOK /\ [ObservationNext]_allVars => [Hears]_allVars
  <2> SUFFICES ASSUME BuffersOK, CursorOK, Answer, poll.from > 0, heard.life = life,
                      heard.resets < resets
               PROVE  saw'.resync
    OBVIOUS
  <2>1. saw'.resync = NeedResync(buffers[poll.life], poll.from)
    BY DEF Answer
  <2>2. /\ poll.from = cursor /\ heard.life <= poll.life /\ poll.life <= life
        /\ poll.life \in Nat /\ life \in Nat
    BY LivesAssumption DEF Answer, CursorOK, BuffersOK, Lives
  <2>3. poll.life = life
    BY <2>2
  <2>4. poll.from = heard.seq /\ heard.seq \in Nat /\ heard.seq < buffers[life].boundary
    BY <2>2 DEF CursorOK, buf
  <2>5. buffers[life].boundary \in Nat
    BY DEF BuffersOK, BufferOK
  <2> QED BY <2>1, <2>3, <2>4, <2>5 DEF NeedResync
<1> QED
  BY <1>1, <1>2, <1>3, BuffersCorrect, PTL DEF ObservationSpec, CursorHearsReset

================================================================================
