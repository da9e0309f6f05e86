---------------------------- MODULE DeviceEvents ----------------------------
(***************************************************************************)
(* The event pipeline of the device agent: accessibility events are        *)
(* aggregated, content changes are throttled by a cooldown, and what       *)
(* remains is numbered in a bounded buffer that pollers read with a        *)
(* cursor.  An attachment of the accessibility service resets it all and   *)
(* its destruction replaces it by a new pipeline.                          *)
(*                                                                         *)
(* The screen is its version, and recorded the version of the last change  *)
(* that the agent was told of.  An event of the buffer is its number; told *)
(* is a history of the version that was announced with each number.        *)
(***************************************************************************)
EXTENDS Integers, Sequences, FiniteSets

CONSTANTS
    Capacity,       \* events that the buffer holds
    Cooldown,       \* ticks between two published invalidations
    Contexts,       \* foreground contexts: package, activity, generation
    Kinds,          \* accessibility events: "content", "window", "focus"
    None,
    MaxClock,       \* bounds of the instance
    MaxChanges,
    MaxResets,
    MaxLives

ASSUME BufferAssumption == Capacity \in Nat \ {0} /\ Cooldown \in Nat
ASSUME LivesAssumption == MaxLives \in Nat
ASSUME BoundsAssumption == MaxClock \in Nat /\ MaxChanges \in Nat /\ MaxResets \in Nat
ASSUME EventNoneAssumption == None \notin Int \cup BOOLEAN \cup Contexts

VARIABLES
    clock,
    screen,     \* version of what the device shows
    recorded,   \* version that the agent was told of
    raw,        \* the accessibility event on its way: a sequence of at most one
    attached,   \* the accessibility service is registered
    main,       \* where the main thread is in an attach or a detach
    resets,     \* attachment changes so far
    life,       \* number of the event pipeline in use
    buffers,    \* the event buffer of each pipeline
    last,       \* what the aggregator remembers to leave out repetitions
    cool,       \* the invalidation cooldown
    timers      \* its tasks with the scheduler: due ones may be running already

eventVars == <<clock, screen, recorded, raw, attached, main, resets, life, buffers, last, cool, timers>>

Versions == 0..MaxChanges
Lives == 0..MaxLives

Buffer == [latest : Nat, boundary : Nat, events : Seq(Nat), told : Seq(Versions)]
Fresh == [latest |-> 0, boundary |-> 0, events |-> <<>>, told |-> <<>>]
Nothing == [context |-> None, window |-> None, focus |-> None, status |-> None]
Idle == [pending |-> FALSE, context |-> None, until |-> 0, active |-> 0, next |-> 0]

After(b, cursor) == {b.events[i] : i \in 1..Len(b.events)} \ 1..cursor

-----------------------------------------------------------------------------
(* DeviceEventBuffer                                                       *)

Publish(b, version) ==
    LET kept == IF Len(b.events) = Capacity THEN Tail(b.events) ELSE b.events
    IN [latest |-> b.latest + 1, boundary |-> b.boundary, events |-> Append(kept, b.latest + 1),
        told |-> Append(b.told, version)]

\* A reset is numbered like an event and is the boundary of old cursors.
Reset(b, version) ==
    [latest |-> b.latest + 1, boundary |-> b.latest + 1, events |-> <<>>,
     told |-> Append(b.told, version)]

\* Mutant of NeedResync: one event too late.
NeedResyncLate(b, cursor) ==
    /\ cursor > 0
    /\ \/ b.boundary > 0 /\ cursor < b.boundary
       \/ b.events # <<>> /\ cursor + 1 < b.events[1] - 1

\* Mutant of NeedResync: an empty buffer has no gap.
NeedResyncByEvents(b, cursor) ==
    /\ cursor > 0 /\ b.events # <<>>
    /\ cursor < b.events[1] - 1

NeedResync(b, cursor) ==
    /\ cursor > 0
    /\ \/ b.boundary > 0 /\ cursor < b.boundary
       \/ b.events # <<>> /\ cursor < b.events[1] - 1

\* A poll has something to say at once.
HasNews(b, cursor) == After(b, cursor) # {} \/ NeedResync(b, cursor)

-----------------------------------------------------------------------------
(* InvalidationCooldown: p holds its state, the timers and the buffer.     *)

Pipe(c, t, b) == [cool |-> c, timers |-> t, buffer |-> b]

\* publishInvalidation
Announce(p, context, version) ==
    Pipe([p.cool EXCEPT !.context = context, !.until = clock + Cooldown], p.timers,
         Publish(p.buffer, version))

\* cancelPendingInvalidationTaskLocked: a task that runs already stays.
Cancelled(p) == Pipe([p.cool EXCEPT !.active = 0], {t \in p.timers : t.running}, p.buffer)

\* schedulePendingInvalidationIfNeededLocked
Scheduled(p) ==
    IF p.cool.active # 0 THEN p
    ELSE LET id == p.cool.next + 1
         IN Pipe([p.cool EXCEPT !.active = id, !.next = id],
                 p.timers \cup {[id |-> id, due |-> p.cool.until, running |-> FALSE]}, p.buffer)

\* pendingInvalidation = flag
Pending(p, flag) == Pipe([p.cool EXCEPT !.pending = flag], p.timers, p.buffer)

\* The pending invalidation is published, with the version of the event before.
Released(p, version) ==
    IF p.cool.pending
    THEN Announce(Pending(Cancelled(p), FALSE), p.cool.context, version)
    ELSE p

\* flushPendingInvalidationLocked when the foreground is another one
Flushed(p, context, version) ==
    IF p.cool.context \in {None, context} THEN p
    ELSE LET released == Released(Cancelled(p), version)
         IN Pipe([released.cool EXCEPT !.context = None, !.until = 0], released.timers,
                 released.buffer)

\* Mutant of Invalidated: what comes during a cooldown is dropped.
InvalidatedDropping(p0, context, before, version) ==
    LET p == Flushed(p0, context, before)
    IN IF p.cool.context = None \/ clock >= p.cool.until
       THEN Announce(Released(p, before), context, version)
       ELSE p

\* recordInvalidation
Invalidated(p0, context, before, version) ==
    LET p == Flushed(p0, context, before)
    IN IF p.cool.context = None \/ clock >= p.cool.until
       THEN Announce(Released(p, before), context, version)
       ELSE Scheduled(Pending(p, TRUE))

-----------------------------------------------------------------------------
\* The service is attached: Attach and Register have been taken once.
EventInit ==
    /\ clock = 0
    /\ screen = 0 /\ recorded = 0
    /\ raw = <<>>
    /\ attached = TRUE /\ main = "idle" /\ resets = 1
    /\ life = 0
    /\ buffers = [l \in Lives |-> IF l = 0 THEN Publish(Reset(Fresh, 0), 0) ELSE Fresh]
    /\ last = [Nothing EXCEPT !.status = TRUE]
    /\ cool = Idle
    /\ timers = {}

buf == buffers[life]
Becomes(b) == buffers' = [buffers EXCEPT ![life] = b]

\* Something happens on the screen and an accessibility event is sent; a moved
\* focus is no new version.
Change(kind, context) ==
    /\ raw = <<>> /\ screen < MaxChanges
    /\ screen' = IF kind = "focus" THEN screen ELSE screen + 1
    /\ raw' = <<[kind |-> kind, context |-> context]>>
    /\ UNCHANGED <<clock, recorded, attached, main, resets, life, buffers, last, cool, timers>>

\* The pipeline becomes p.
Installs(p) == cool' = p.cool /\ timers' = p.timers /\ Becomes(p.buffer)

\* publishWindowChangedIfNeeded and its like: an event when the key is new.
PublishIfNew(b, key, old) == IF key = old THEN b ELSE Publish(b, screen)

\* recordAccessibilityEvent of the attached service, recordObservation.
Record ==
    /\ raw # <<>> /\ attached /\ main = "idle"
    /\ LET e == raw[1]
           keyed == PublishIfNew(buf, e.context, last.context)
           told == CASE e.kind = "window" -> PublishIfNew(keyed, e.context, last.window)
                     [] e.kind = "focus" -> PublishIfNew(keyed, e.context, last.focus)
                     [] OTHER -> keyed
       IN /\ Installs(IF e.kind = "focus" THEN Pipe(cool, timers, told)
                      ELSE Invalidated(Pipe(cool, timers, told), e.context, recorded, screen))
          /\ last' = [last EXCEPT !.context = e.context,
                                  !.window = IF e.kind = "window" THEN e.context ELSE @,
                                  !.focus = IF e.kind = "focus" THEN e.context ELSE @]
    /\ recorded' = screen
    /\ raw' = <<>>
    /\ UNCHANGED <<clock, screen, attached, main, resets, life>>

\* isCurrentLiveAttachment: no service is attached, the event is not looked at.
Ignore ==
    /\ raw # <<>> /\ ~attached
    /\ raw' = <<>>
    /\ UNCHANGED <<clock, screen, recorded, attached, main, resets, life, buffers, last, cool, timers>>

\* The scheduler starts a task: from here a cancel comes too late.
StartTimer(t) ==
    /\ ~t.running /\ t.due <= clock
    /\ timers' = (timers \ {t}) \cup {[t EXCEPT !.running = TRUE]}
    /\ UNCHANGED <<clock, screen, recorded, raw, attached, main, resets, life, buffers, last, cool>>

\* activeInvalidationTaskId == taskId
IsActive(t) == cool.active = t.id

\* publishPendingInvalidationIfDue
RunTimer(t) ==
    /\ t.running
    /\ LET p == Pipe(cool, timers \ {t}, buf)
           done == Pipe([cool EXCEPT !.active = 0], p.timers, buf)
       IN Installs(IF ~IsActive(t) THEN p
                   ELSE IF ~cool.pending THEN done
                   ELSE IF clock < cool.until THEN Scheduled(done)
                   ELSE Announce(Pending(done, FALSE), cool.context, recorded))
    /\ UNCHANGED <<clock, screen, recorded, raw, attached, main, resets, life, last>>

\* Mutant of Cleared: the pending invalidation of the old attachment stays.
ClearedButPending ==
    [cool EXCEPT !.context = None, !.until = 0, !.active = 0]

\* cancelPendingWork
Cleared == [Idle EXCEPT !.next = cool.next]

\* resetForAttachmentChange of the processor: buffer, aggregator and cooldown.
ResetPipeline ==
    /\ Installs(Pipe(Cleared, Cancelled(Pipe(cool, timers, buf)).timers, Reset(buf, recorded)))
    /\ last' = Nothing
    /\ resets' = resets + 1

\* recordRuntimeStatus
RecordStatus(status, version) ==
    /\ Becomes(IF last.status = status THEN buf ELSE Publish(buf, version))
    /\ last' = [last EXCEPT !.status = status]

\* attach: the reset, then the registration, which publishes the status.
Attach ==
    /\ ~attached /\ main = "idle" /\ resets < MaxResets
    /\ ResetPipeline
    /\ main' = "register"
    /\ UNCHANGED <<clock, screen, recorded, raw, attached, life>>

Register ==
    /\ main = "register"
    /\ RecordStatus(TRUE, screen)
    /\ attached' = TRUE /\ main' = "idle"
    /\ recorded' = screen
    /\ UNCHANGED <<clock, screen, raw, resets, life, cool, timers>>

\* detach: unregistration, the reset, reconcileRuntimeState.
Unregister ==
    /\ attached /\ main = "idle" /\ resets < MaxResets
    /\ RecordStatus(FALSE, recorded)
    /\ attached' = FALSE /\ main' = "reset"
    /\ UNCHANGED <<clock, screen, recorded, raw, resets, life, cool, timers>>

DetachReset ==
    /\ main = "reset"
    /\ ResetPipeline
    /\ main' = "reconcile"
    /\ UNCHANGED <<clock, screen, recorded, raw, attached, life>>

Reconcile ==
    /\ main = "reconcile"
    /\ RecordStatus(FALSE, recorded)
    /\ main' = "idle"
    /\ UNCHANGED <<clock, screen, recorded, raw, attached, resets, life, cool, timers>>

\* onDestroy ends with DeviceEventHub.shutdown; the next use makes a new pipeline.
Shutdown ==
    /\ ~attached /\ main = "idle" /\ buf.latest > 0 /\ life < MaxLives
    /\ life' = life + 1
    /\ last' = Nothing /\ cool' = Idle /\ timers' = {}
    /\ UNCHANGED <<clock, screen, recorded, raw, attached, main, resets, buffers>>

\* What the agent owes, and what happens to it.
AgentStep ==
    \/ Record \/ Ignore \/ Register \/ DetachReset \/ Reconcile
    \/ \E t \in timers : StartTimer(t) \/ RunTimer(t)

DeviceStep ==
    \/ \E kind \in Kinds, context \in Contexts : Change(kind, context)
    \/ Attach \/ Unregister \/ Shutdown

-----------------------------------------------------------------------------
EventTypeOK ==
    /\ clock \in 0..MaxClock
    /\ screen \in Versions /\ recorded \in Versions
    /\ raw \in Seq([kind : Kinds, context : Contexts]) /\ Len(raw) <= 1
    /\ attached \in BOOLEAN /\ main \in {"idle", "register", "reset", "reconcile"}
    /\ resets \in Nat /\ life \in Lives
    /\ buffers \in [Lives -> Buffer]
    /\ last \in [context : Contexts \cup {None}, window : Contexts \cup {None},
                 focus : Contexts \cup {None}, status : BOOLEAN \cup {None}]
    /\ cool \in [pending : BOOLEAN, context : Contexts \cup {None}, until : Nat,
                 active : Nat, next : Nat]
    /\ timers \subseteq [id : Nat, due : Nat, running : BOOLEAN]

\* Whatever its cursor, a poller of the buffer either finds every event after it
\* or is told to start over (DeviceEventBuffer.snapshotLocked, publishLocked,
\* reset): eviction and reset never open a gap nobody hears of.
NoSilentGap ==
    \A cursor \in 1..buf.latest :
        NeedResync(buf, cursor) \/ (cursor + 1)..buf.latest = After(buf, cursor)

\* A change that the agent was told of is announced already, or a task is on its
\* way that will announce it (InvalidationCooldown): throttling delays a change
\* and forgets none, however cancels, late tasks and resets meet.
NoChangeForgotten ==
    \/ buf.told # <<>> /\ buf.told[buf.latest] = recorded
    \/ cool.pending /\ \E t \in timers : t.id = cool.active
    \/ ~attached

\* There is one task at most that may still publish, and none of an attachment
\* that is gone (cancelPendingInvalidationTaskLocked, activeInvalidationTaskId).
OneTimer ==
    /\ Cardinality({t \in timers : ~t.running \/ t.id = cool.active}) <= 1
    /\ ~attached /\ main = "idle" => ~cool.pending
=============================================================================
