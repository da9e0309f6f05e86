----------------------- MODULE ObservationScreens_proofs ------------------------
(***************************************************************************)
(* Proofs about the screens that the agent announces and that the loops of *)
(* the host judge, for any capacity, cooldown, policy and any number of    *)
(* changes, attachments and lives of the service.                          *)
(*                                                                         *)
(* The agent: whatever the order of cancels, late tasks and resets, what   *)
(* it was told of is announced or held back with a task that will announce *)
(* it (TasksOK, Announced).  The loop: what was told stays told (Tells),   *)
(* so that a cursor that passes a number without a snapshot passes nothing *)
(* (SeenOK), and the looks it compares are those of its last snapshots     *)
(* (QuietOK).                                                              *)
(***************************************************************************)
EXTENDS ObservationLoop_proofs, FiniteSetTheorems

Cools == [pending : BOOLEAN, context : Contexts \cup {None}, until : Nat, active : Nat, next : Nat]
Tasks == [id : Nat, due : Nat, running : BOOLEAN]
Posts == [kind : Kinds, context : Contexts]
Memories == [context : Contexts \cup {None}, window : Contexts \cup {None},
             focus : Contexts \cup {None}, status : BOOLEAN \cup {None}]

\* The tasks of the cooldown: their numbers are given once, one that does not run
\* yet is the active one, and the active one is there.
TasksOK(c, ts) ==
    /\ c \in Cools /\ ts \subseteq Tasks
    /\ c.active <= c.next
    /\ \A x \in ts : x.id \in 1..c.next
    /\ \A x, y \in ts : x.id = y.id => x = y
    /\ \A x \in ts : ~x.running => x.id = c.active
    /\ c.active # 0 => \E x \in ts : x.id = c.active

\* What is pending has a task.
Held(c) == c.pending => c.active # 0

\* The buffer has told one version with each number, and none that is yet to come.
ToldOK(b, s) ==
    /\ b.told \in Seq(Nat) /\ Len(b.told) = b.latest
    /\ \A i \in 1..b.latest : b.told[i] \in 0..s

\* What was told stays told.
Tells(b, next, s) ==
    /\ ToldOK(next, s)
    /\ next.latest >= b.latest
    /\ \A i \in 1..b.latest : next.told[i] = b.told[i]

\* The version that was told last.
Latest(b) == b.told[b.latest]

ServiceOK ==
    /\ clock \in 0..MaxClock
    /\ screen \in Versions /\ recorded \in 0..screen
    /\ raw \in Seq(Posts) /\ Len(raw) <= 1
    /\ attached \in BOOLEAN /\ main \in {"idle", "register", "reset", "reconcile"}
    /\ last \in Memories
    /\ attached => main = "idle"
    /\ main = "register" => last.status = None

\* While the service is attached, the agent has told of what it was told of or
\* holds it back, and it was told of all but what is on its way.
Announced ==
    attached =>
        /\ cool.pending \/ (buf.latest > 0 /\ Latest(buf) = recorded)
        /\ raw = <<>> \/ raw[1].kind = "focus" => screen = recorded

EventsOK ==
    /\ ServiceOK
    /\ TasksOK(cool, timers) /\ Held(cool)
    /\ cool.pending => attached \/ main = "reset"
    /\ \A l \in Lives : ToldOK(buffers[l], screen)
    /\ Announced

\* What a step of the system does to what the buffers told.
AllTell == \A l \in Lives : Tells(buffers[l], buffers'[l], screen')
EventStep == AllTell /\ EventsOK'

\* A pipe in order, with nothing of b taken back.
PipeOK(b, p, s) == TasksOK(p.cool, p.timers) /\ Tells(b, p.buffer, s)

-----------------------------------------------------------------------------
(* What a buffer tells                                                     *)

\* The last number of a buffer is a natural number.
LEMMA ToldLatest ==
    ASSUME NEW b, NEW s, ToldOK(b, s) PROVE b.latest \in Nat
BY DEF ToldOK

\* Nothing is taken back when nothing is done.
LEMMA TellsReflexive ==
    ASSUME NEW b, NEW s, ToldOK(b, s) PROVE Tells(b, b, s)
BY ToldLatest DEF Tells

\* What stays told after two steps.
LEMMA TellsTransitive ==
    ASSUME NEW a, NEW b, NEW c, NEW s, ToldOK(a, s), Tells(a, b, s), Tells(b, c, s)
    PROVE  Tells(a, c, s)
<1>1. a.latest \in Nat /\ b.latest \in Nat /\ c.latest \in Nat
      /\ a.latest <= b.latest /\ b.latest <= c.latest
  BY ToldLatest DEF Tells
<1>2. \A i \in 1..a.latest : i \in 1..b.latest
  BY <1>1
<1> QED
  BY <1>1, <1>2 DEF Tells

\* One version more is told, with the next number.
LEMMA AppendTells ==
    ASSUME NEW b, NEW s \in Nat, ToldOK(b, s), NEW version \in 0..s, NEW next,
           next.latest = b.latest + 1, next.told = Append(b.told, version)
    PROVE  Tells(b, next, s) /\ next.latest > 0 /\ Latest(next) = version
<1>1. b.told \in Seq(Nat) /\ Len(b.told) = b.latest /\ b.latest \in Nat /\ version \in Nat
  BY ToldLatest DEF ToldOK
<1>2. /\ next.told \in Seq(Nat) /\ Len(next.told) = b.latest + 1
      /\ \A i \in 1..b.latest : next.told[i] = b.told[i]
      /\ next.told[b.latest + 1] = version
  BY <1>1, AppendProperties
<1>3. ASSUME NEW i \in 1..next.latest PROVE next.told[i] \in 0..s
  <2>1. CASE i = b.latest + 1
    BY <1>2, <2>1
  <2>2. CASE i # b.latest + 1
    <3>1. i \in 1..b.latest
      BY <1>1, <2>2
    <3>2. b.told[i] \in 0..s
      BY <3>1 DEF ToldOK
    <3> QED BY <1>2, <3>1, <3>2
  <2> QED BY <2>1, <2>2
<1> QED
  BY <1>1, <1>2, <1>3 DEF Tells, ToldOK, Latest

\* An event tells of a version.
LEMMA PublishTells ==
    ASSUME NEW b, NEW s \in Nat, ToldOK(b, s), NEW version \in 0..s
    PROVE  /\ Tells(b, Publish(b, version), s)
           /\ Publish(b, version).latest > 0 /\ Latest(Publish(b, version)) = version
<1> DEFINE next == Publish(b, version)
<1>1. next.latest = b.latest + 1 /\ next.told = Append(b.told, version)
  BY DEF Publish
<1> HIDE DEF next
<1>2. Tells(b, next, s) /\ next.latest > 0 /\ Latest(next) = version
  BY <1>1, AppendTells
<1> QED BY <1>2 DEF next

\* So does a reset.
LEMMA ResetTells ==
    ASSUME NEW b, NEW s \in Nat, ToldOK(b, s), NEW version \in 0..s
    PROVE  Tells(b, Reset(b, version), s)
<1> DEFINE next == Reset(b, version)
<1>1. next.latest = b.latest + 1 /\ next.told = Append(b.told, version)
  BY DEF Reset
<1> HIDE DEF next
<1>2. Tells(b, next, s)
  BY <1>1, AppendTells
<1> QED BY <1>2 DEF next

\* With time the screen only gets newer versions.
LEMMA ToldLater ==
    ASSUME NEW b, NEW s \in Nat, NEW s2 \in Nat, s <= s2, ToldOK(b, s) PROVE ToldOK(b, s2)
<1>1. \A n \in 0..s : n \in 0..s2
  OBVIOUS
<1> QED
  BY <1>1 DEF ToldOK

-----------------------------------------------------------------------------
(* The cooldown                                                            *)

\* publishInvalidation tells of the version, and the tasks stay.
LEMMA AnnouncePipe ==
    ASSUME NEW b, NEW p, NEW s \in Nat, ToldOK(b, s), PipeOK(b, p, s),
           NEW context \in Contexts \cup {None}, NEW version \in 0..s, clock \in Nat
    PROVE  LET q == Announce(p, context, version)
           IN  /\ PipeOK(b, q, s)
               /\ q.cool.pending = p.cool.pending /\ q.cool.active = p.cool.active
               /\ q.buffer.latest > 0 /\ Latest(q.buffer) = version
<1> DEFINE q == Announce(p, context, version)
           c == p.cool
<1>1. /\ q.cool = [c EXCEPT !.context = context, !.until = clock + Cooldown]
      /\ q.timers = p.timers /\ q.buffer = Publish(p.buffer, version)
  BY DEF Announce, Pipe
<1> HIDE DEF q, c
<1>2. c \in Cools /\ TasksOK(c, p.timers) /\ ToldOK(p.buffer, s)
  BY DEF PipeOK, TasksOK, Tells, c
<1>3. clock + Cooldown \in Nat
  BY BufferAssumption
<1>4. /\ q.cool \in Cools /\ q.cool.active = c.active /\ q.cool.next = c.next
      /\ q.cool.pending = c.pending
  BY <1>1, <1>2, <1>3 DEF Cools
<1>5. TasksOK(q.cool, q.timers)
  BY <1>1, <1>2, <1>4 DEF TasksOK
<1>6. /\ Tells(p.buffer, q.buffer, s)
      /\ q.buffer.latest > 0 /\ Latest(q.buffer) = version
  BY <1>1, <1>2, PublishTells
<1>7. Tells(b, q.buffer, s)
  BY <1>6, TellsTransitive DEF PipeOK
<1> QED BY <1>4, <1>5, <1>6, <1>7 DEF PipeOK, q, c

\* Only tasks that run already are left, and none of them is active.
LEMMA CancelledPipe ==
    ASSUME NEW b, NEW p, NEW s, PipeOK(b, p, s)
    PROVE  LET q == Cancelled(p)
           IN  /\ PipeOK(b, q, s) /\ q.buffer = p.buffer
               /\ q.cool.pending = p.cool.pending /\ q.cool.active = 0
               /\ q.cool.context = p.cool.context
<1> DEFINE q == Cancelled(p)
           c == p.cool
           ts == p.timers
<1>1. /\ q.cool = [c EXCEPT !.active = 0] /\ q.timers = {t \in ts : t.running}
      /\ q.buffer = p.buffer
  BY DEF Cancelled, Pipe
<1> HIDE DEF q
<1>2. c \in Cools /\ TasksOK(c, ts)
  BY DEF PipeOK, TasksOK
<1> HIDE DEF c, ts
<1>3. /\ q.cool \in Cools /\ q.cool.active = 0 /\ q.cool.next = c.next
      /\ q.cool.pending = c.pending /\ q.cool.context = c.context
  BY <1>1, <1>2 DEF Cools
<1>4. q.timers \subseteq ts /\ \A x \in q.timers : x.running
  BY <1>1
<1>5. c.next \in Nat
  BY <1>2 DEF Cools
<1>6. TasksOK(q.cool, q.timers)
  BY <1>2, <1>3, <1>4, <1>5 DEF TasksOK
<1> QED BY <1>1, <1>3, <1>6 DEF PipeOK, c, q

\* A new task gets a number of its own and is the active one.
LEMMA ScheduledPipe ==
    ASSUME NEW b, NEW p, NEW s, PipeOK(b, p, s)
    PROVE  LET q == Scheduled(p)
           IN  /\ PipeOK(b, q, s) /\ q.buffer = p.buffer
               /\ q.cool.pending = p.cool.pending /\ q.cool.active # 0
<1> DEFINE q == Scheduled(p)
           c == p.cool
           ts == p.timers
           id == c.next + 1
           new == [id |-> id, due |-> c.until, running |-> FALSE]
<1>1. c \in Cools /\ TasksOK(c, ts)
  BY DEF PipeOK, TasksOK
<1>2. CASE c.active # 0
  <2>1. q = p
    BY <1>2 DEF Scheduled
  <2> QED BY <1>2, <2>1
<1>3. CASE c.active = 0
  <2>1. /\ q.cool = [c EXCEPT !.active = id, !.next = id] /\ q.timers = ts \cup {new}
        /\ q.buffer = p.buffer
    BY <1>3 DEF Scheduled, Pipe
  <2> HIDE DEF q, c, ts
  <2>2. c.next \in Nat /\ c.until \in Nat /\ id \in Nat /\ id > c.next
    BY <1>1 DEF Cools
  <2>3. /\ q.cool \in Cools /\ q.cool.active = id /\ q.cool.next = id
        /\ q.cool.pending = c.pending
    BY <1>1, <2>1, <2>2 DEF Cools
  <2>4. new \in Tasks /\ new.id = id /\ ~new.running
    BY <2>2 DEF Tasks
  <2> HIDE DEF new, id
  <2>5. \A x \in ts : x.id \in 1..c.next /\ x.id # id /\ x.running /\ x.id \in 1..id
    <3> TAKE x \in ts
    <3>1. x.id \in 1..c.next /\ (~x.running => x.id = 0) /\ x.running \in BOOLEAN
      BY <1>1, <1>3 DEF TasksOK, Tasks
    <3> QED BY <2>2, <3>1
  <2>6. \A x, y \in ts : x.id = y.id => x = y
    BY <1>1 DEF TasksOK
  <2>7. \A x, y \in q.timers : x.id = y.id => x = y
    BY <2>1, <2>4, <2>5, <2>6
  <2>8. id \in 1..id
    BY <2>2
  <2>9. \A x \in q.timers : x.id \in 1..id /\ (~x.running => x.id = id)
    BY <2>1, <2>4, <2>5, <2>8
  <2>10. q.timers \subseteq Tasks
    BY <1>1, <2>1, <2>4 DEF TasksOK
  <2>11. new \in q.timers
    BY <2>1
  <2>12. TasksOK(q.cool, q.timers)
    BY <2>2, <2>3, <2>4, <2>7, <2>9, <2>10, <2>11 DEF TasksOK
  <2>13. q.cool.active # 0
    BY <2>2, <2>3
  <2> QED BY <2>1, <2>3, <2>12, <2>13 DEF PipeOK, q, c
<1> QED BY <1>2, <1>3

\* The flag alone changes no task.
LEMMA PendingPipe ==
    ASSUME NEW b, NEW p, NEW s, PipeOK(b, p, s), NEW flag \in BOOLEAN
    PROVE  LET q == Pending(p, flag)
           IN  /\ PipeOK(b, q, s) /\ q.buffer = p.buffer
               /\ q.cool.pending = flag /\ q.cool.active = p.cool.active
               /\ q.cool.context = p.cool.context
<1> DEFINE q == Pending(p, flag)
           c == p.cool
<1>1. q.cool = [c EXCEPT !.pending = flag] /\ q.timers = p.timers /\ q.buffer = p.buffer
  BY DEF Pending, Pipe
<1> HIDE DEF q
<1>2. c \in Cools /\ TasksOK(c, p.timers)
  BY DEF PipeOK, TasksOK
<1> HIDE DEF c
<1>3. /\ q.cool \in Cools /\ q.cool.pending = flag /\ q.cool.active = c.active
      /\ q.cool.next = c.next /\ q.cool.context = c.context
  BY <1>1, <1>2 DEF Cools
<1>4. TasksOK(q.cool, q.timers)
  BY <1>1, <1>2, <1>3 DEF TasksOK
<1> QED BY <1>1, <1>3, <1>4 DEF PipeOK, q, c

\* After a release nothing is pending.
LEMMA ReleasedPipe ==
    ASSUME NEW b, NEW p, NEW s \in Nat, ToldOK(b, s), PipeOK(b, p, s), NEW version \in 0..s,
           clock \in Nat
    PROVE  PipeOK(b, Released(p, version), s) /\ ~Released(p, version).cool.pending
<1>1. CASE ~p.cool.pending
  BY <1>1 DEF Released
<1>2. CASE p.cool.pending
  <2> DEFINE q == Pending(Cancelled(p), FALSE)
  <2>1. Released(p, version) = Announce(q, p.cool.context, version)
    BY <1>2 DEF Released
  <2>2. PipeOK(b, q, s) /\ q.cool.pending = FALSE
    <3>1. PipeOK(b, Cancelled(p), s)
      BY CancelledPipe
    <3> HIDE DEF q
    <3> QED BY <3>1, PendingPipe DEF q
  <2>3. p.cool.context \in Contexts \cup {None}
    BY DEF PipeOK, TasksOK, Cools
  <2> HIDE DEF q
  <2> QED BY <2>1, <2>2, <2>3, AnnouncePipe
<1> QED BY <1>1, <1>2

\* After a flush what is pending has its task still.
LEMMA FlushedPipe ==
    ASSUME NEW b, NEW p, NEW s \in Nat, ToldOK(b, s), PipeOK(b, p, s), Held(p.cool),
           NEW context, NEW version \in 0..s, clock \in Nat
    PROVE  LET q == Flushed(p, context, version)
           IN  PipeOK(b, q, s) /\ Held(q.cool)
<1> DEFINE q == Flushed(p, context, version)
<1>1. CASE p.cool.context \in {None, context}
  BY <1>1 DEF Flushed
<1>2. CASE p.cool.context \notin {None, context}
  <2> DEFINE r == Released(Cancelled(p), version)
             c == r.cool
  <2>1. PipeOK(b, r, s) /\ ~c.pending
    BY CancelledPipe, ReleasedPipe
  <2>2. /\ q.cool = [c EXCEPT !.context = None, !.until = 0]
        /\ q.timers = r.timers /\ q.buffer = r.buffer
    BY <1>2 DEF Flushed, Pipe
  <2> HIDE DEF q, r
  <2>3. c \in Cools /\ TasksOK(c, r.timers)
    BY <2>1 DEF PipeOK, TasksOK
  <2> HIDE DEF c
  <2> DEFINE d == [c EXCEPT !.context = None, !.until = 0]
  <2>6. /\ d \in Cools /\ d.pending = c.pending /\ d.active = c.active /\ d.next = c.next
    BY <2>3 DEF Cools
  <2> HIDE DEF d
  <2>7. q.cool = d
    BY <2>2 DEF c, d
  <2>4. /\ q.cool \in Cools /\ q.cool.pending = c.pending /\ q.cool.active = c.active
        /\ q.cool.next = c.next
    BY <2>6, <2>7
  <2>5. TasksOK(q.cool, q.timers)
    BY <2>2, <2>3, <2>4 DEF TasksOK
  <2> QED BY <2>1, <2>2, <2>4, <2>5 DEF PipeOK, Held, q
<1> QED BY <1>1, <1>2

\* An invalidation is told of, or pending with a task.
LEMMA InvalidatedPipe ==
    ASSUME NEW b, NEW p, NEW s \in Nat, ToldOK(b, s), PipeOK(b, p, s), Held(p.cool),
           NEW context \in Contexts, NEW before \in 0..s, NEW version \in 0..s, clock \in Nat
    PROVE  LET q == Invalidated(p, context, before, version)
           IN  /\ PipeOK(b, q, s) /\ Held(q.cool)
               /\ q.cool.pending \/ (q.buffer.latest > 0 /\ Latest(q.buffer) = version)
<1> DEFINE q == Invalidated(p, context, before, version)
           f == Flushed(p, context, before)
<1>1. PipeOK(b, f, s) /\ Held(f.cool)
  BY FlushedPipe
<1>2. CASE f.cool.context = None \/ clock >= f.cool.until
  <2>1. q = Announce(Released(f, before), context, version)
    BY <1>2 DEF Invalidated
  <2> HIDE DEF q, f
  <2> DEFINE r == Released(f, before)
  <2>2. PipeOK(b, r, s) /\ ~r.cool.pending
    BY <1>1, ReleasedPipe
  <2> HIDE DEF r
  <2>3. PipeOK(b, q, s) /\ ~q.cool.pending /\ q.buffer.latest > 0 /\ Latest(q.buffer) = version
    BY <2>1, <2>2, AnnouncePipe DEF r
  <2> QED BY <2>3 DEF Held, q
<1>3. CASE ~(f.cool.context = None \/ clock >= f.cool.until)
  <2>1. q = Scheduled(Pending(f, TRUE))
    BY <1>3 DEF Invalidated
  <2> HIDE DEF q, f
  <2>2. PipeOK(b, Pending(f, TRUE), s) /\ Pending(f, TRUE).cool.pending
    BY <1>1, PendingPipe
  <2>3. PipeOK(b, q, s) /\ q.cool.pending /\ q.cool.active # 0
    BY <2>1, <2>2, ScheduledPipe
  <2> QED BY <2>3 DEF Held, q
<1> QED BY <1>2, <1>3

-----------------------------------------------------------------------------
(* The steps of the agent and of the device                                *)

\* What the invariant says of the current pipeline.
LEMMA CurrentPipe ==
    ASSUME BuffersOK, EventsOK
    PROVE  /\ ToldOK(buf, screen) /\ Tells(buf, buf, screen)
           /\ screen \in Nat /\ recorded \in 0..screen /\ screen \in 0..screen /\ clock \in Nat
           /\ life \in Lives /\ buf = buffers[life]
<1>1. ToldOK(buf, screen) /\ life \in Lives /\ buf = buffers[life]
  BY DEF BuffersOK, EventsOK, buf
<1>2. screen \in Nat /\ recorded \in 0..screen /\ screen \in 0..screen /\ clock \in Nat
  BY BoundsAssumption DEF EventsOK, ServiceOK, Versions
<1> QED
  BY <1>1, <1>2, TellsReflexive

\* A buffer that took back nothing is put in the place of the current one.
LEMMA BecomesTells ==
    ASSUME BuffersOK, EventsOK, NEW b, Tells(buf, b, screen), Becomes(b),
           UNCHANGED <<life, screen>>
    PROVE  AllTell /\ buf' = b /\ \A l \in Lives : ToldOK(buffers'[l], screen')
<1>1. life \in Lives /\ buf = buffers[life]
  BY CurrentPipe
<1>2. buffers' = [l \in Lives |-> IF l = life THEN b ELSE buffers[l]]
  BY <1>1 DEF BuffersOK, Becomes
<1>3. ASSUME NEW l \in Lives PROVE Tells(buffers[l], buffers'[l], screen')
  <2>1. CASE l = life
    BY <1>1, <1>2, <2>1
  <2>2. CASE l # life
    <3>1. buffers'[l] = buffers[l]
      BY <1>2, <2>2
    <3>2. ToldOK(buffers[l], screen)
      BY DEF EventsOK
    <3> QED BY <3>1, <3>2, TellsReflexive
  <2> QED BY <2>1, <2>2
<1>4. buf' = b
  BY <1>1, <1>2 DEF buf
<1> QED
  BY <1>3, <1>4 DEF AllTell, Tells

\* The buffers stay and the screen may change.
LEMMA QuietTells ==
    ASSUME BuffersOK, EventsOK, UNCHANGED buffers, screen' \in Nat, screen' >= screen
    PROVE  AllTell /\ \A l \in Lives : ToldOK(buffers'[l], screen')
<1>1. ASSUME NEW l \in Lives PROVE ToldOK(buffers'[l], screen') /\ buffers'[l] = buffers[l]
  <2>1. ToldOK(buffers[l], screen) /\ screen \in Nat
    BY CurrentPipe DEF EventsOK
  <2> QED BY <2>1, ToldLater
<1>2. \A l \in Lives : Tells(buffers[l], buffers'[l], screen')
  BY <1>1, TellsReflexive
<1> QED
  BY <1>1, <1>2 DEF AllTell

\* publishWindowChangedIfNeeded and its like tell of the screen or of nothing.
LEMMA PublishIfNewTells ==
    ASSUME NEW b, ToldOK(b, screen), screen \in Nat, NEW d, Tells(b, d, screen),
           NEW key, NEW old
    PROVE  LET next == PublishIfNew(d, key, old)
           IN  /\ Tells(b, next, screen)
               /\ next = d \/ (next.latest > 0 /\ Latest(next) = screen)
<1>1. ToldOK(d, screen) /\ screen \in 0..screen
  BY DEF Tells
<1>2. /\ Tells(d, Publish(d, screen), screen)
      /\ Publish(d, screen).latest > 0 /\ Latest(Publish(d, screen)) = screen
  BY <1>1, PublishTells
<1>3. Tells(b, Publish(d, screen), screen)
  BY <1>2, TellsTransitive
<1> QED
  BY <1>2, <1>3 DEF PublishIfNew

\* recordObservation: a change is told of or pending when it returns.
LEMMA RecordEvents ==
    ASSUME BuffersOK, EventsOK, Record PROVE EventStep
<1> DEFINE e == raw[1]
           keyed == PublishIfNew(buf, e.context, last.context)
           told == CASE e.kind = "window" -> PublishIfNew(keyed, e.context, last.window)
                     [] e.kind = "focus" -> PublishIfNew(keyed, e.context, last.focus)
                     [] OTHER -> keyed
           p == Pipe(cool, timers, told)
           q == IF e.kind = "focus" THEN p ELSE Invalidated(p, e.context, recorded, screen)
<1>0. /\ ToldOK(buf, screen) /\ Tells(buf, buf, screen)
      /\ screen \in Nat /\ recorded \in 0..screen /\ screen \in 0..screen /\ clock \in Nat
  BY CurrentPipe
<1>1. /\ raw # <<>> /\ attached /\ main = "idle"
      /\ cool' = q.cool /\ timers' = q.timers /\ Becomes(q.buffer)
      /\ recorded' = screen /\ raw' = <<>>
      /\ UNCHANGED <<clock, screen, attached, main, resets, life>>
      /\ last' = [last EXCEPT !.context = e.context,
                              !.window = IF e.kind = "window" THEN e.context ELSE @,
                              !.focus = IF e.kind = "focus" THEN e.context ELSE @]
  BY DEF Record, Installs
<1>2. e \in Posts /\ e.context \in Contexts
  <2>1. raw \in Seq(Posts) /\ Len(raw) \in Nat /\ Len(raw) # 0
    <3>1. raw \in Seq(Posts)
      BY DEF EventsOK, ServiceOK
    <3> QED BY <1>1, <3>1, EmptySeq
  <2>2. 1 \in 1..Len(raw)
    BY <2>1
  <2>3. e \in Posts
    BY <2>1, <2>2
  <2> HIDE DEF e
  <2> QED BY <2>3 DEF Posts
<1>3. last' \in Memories
  <2>1. last \in Memories
    BY DEF EventsOK, ServiceOK
  <2> HIDE DEF e
  <2> QED BY <1>1, <1>2, <2>1 DEF Memories
<1>4. Tells(buf, keyed, screen)
      /\ (keyed = buf \/ (keyed.latest > 0 /\ Latest(keyed) = screen))
  BY <1>0, PublishIfNewTells
<1>5. Tells(buf, told, screen) /\ (told = buf \/ (told.latest > 0 /\ Latest(told) = screen))
  <2> HIDE DEF keyed, e
  <2> DEFINE window == PublishIfNew(keyed, e.context, last.window)
             focus == PublishIfNew(keyed, e.context, last.focus)
  <2>1. Tells(buf, window, screen)
        /\ (window = keyed \/ (window.latest > 0 /\ Latest(window) = screen))
    BY <1>0, <1>4, PublishIfNewTells
  <2>2. Tells(buf, focus, screen)
        /\ (focus = keyed \/ (focus.latest > 0 /\ Latest(focus) = screen))
    BY <1>0, <1>4, PublishIfNewTells
  <2>3. told \in {window, focus, keyed}
    OBVIOUS
  <2> HIDE DEF window, focus, told
  <2>4. CASE told = window
    BY <1>4, <2>1, <2>4
  <2>5. CASE told = focus
    BY <1>4, <2>2, <2>5
  <2>6. CASE told = keyed
    BY <1>4, <2>6
  <2> QED BY <2>3, <2>4, <2>5, <2>6
<1> HIDE DEF told, keyed
<1>6. /\ p.cool = cool /\ p.timers = timers /\ p.buffer = told
      /\ PipeOK(buf, p, screen) /\ Held(p.cool)
  BY <1>5 DEF Pipe, PipeOK, EventsOK
<1> HIDE DEF p
<1>7. /\ PipeOK(buf, q, screen) /\ Held(q.cool)
      /\ q.cool.pending \/ (q.buffer.latest > 0 /\ Latest(q.buffer) = screen)
  <2>1. CASE e.kind = "focus"
    <3>1. q = p
      BY <2>1
    <3>2. screen = recorded /\ (cool.pending \/ (buf.latest > 0 /\ Latest(buf) = recorded))
      BY <1>1, <2>1 DEF EventsOK, Announced
    <3>3. cool.pending \/ (told.latest > 0 /\ Latest(told) = screen)
      BY <1>5, <3>2
    <3> HIDE DEF q
    <3> QED BY <1>6, <3>1, <3>3
  <2>2. CASE e.kind # "focus"
    <3>1. q = Invalidated(p, e.context, recorded, screen)
      BY <2>2
    <3> HIDE DEF q, e
    <3> QED BY <1>0, <1>2, <1>6, <3>1, InvalidatedPipe
  <2> QED BY <2>1, <2>2
<1> HIDE DEF q
<1>8. AllTell /\ buf' = q.buffer /\ \A l \in Lives : ToldOK(buffers'[l], screen')
  BY <1>1, <1>7, BecomesTells DEF PipeOK
<1>9. ServiceOK'
  <2>1. raw' \in Seq(Posts) /\ Len(raw') <= 1
    BY <1>1
  <2>2. recorded' \in 0..screen'
    BY <1>0, <1>1
  <2> QED BY <1>1, <1>3, <2>1, <2>2 DEF EventsOK, ServiceOK
<1>10. Announced'
  BY <1>1, <1>7, <1>8 DEF Announced
<1>11. TasksOK(cool', timers') /\ Held(cool')
  BY <1>1, <1>7 DEF PipeOK
<1> QED
  BY <1>1, <1>8, <1>9, <1>10, <1>11 DEF EventStep, EventsOK

\* The scheduler starts a task, which stays what it is.
LEMMA StartTimerEvents ==
    ASSUME BuffersOK, EventsOK, NEW t \in timers, StartTimer(t) PROVE EventStep
<1> DEFINE r == [t EXCEPT !.running = TRUE]
<1>1. /\ timers' = (timers \ {t}) \cup {r}
      /\ UNCHANGED <<clock, screen, recorded, raw, attached, main, resets, life, buffers, last, cool>>
  BY DEF StartTimer
<1>2. /\ TasksOK(cool, timers) /\ t \in Tasks
  BY DEF EventsOK, TasksOK
<1>3. r \in Tasks /\ r.id = t.id /\ r.running
  BY <1>2 DEF Tasks
<1> HIDE DEF r
<1>4. \A x \in timers' : x \in timers \/ (x = r /\ x.id = t.id)
  BY <1>1, <1>3
<1>5. \A x \in timers' : x # r => x \in timers /\ x # t
  BY <1>1
<1>6. \A x, y \in timers : x.id = y.id => x = y
  BY <1>2 DEF TasksOK
<1>7. \A x, y \in timers' : x.id = y.id => x = y
  BY <1>3, <1>5, <1>6
<1>8. cool.active # 0 => \E x \in timers' : x.id = cool.active
  <2> SUFFICES ASSUME cool.active # 0 PROVE \E x \in timers' : x.id = cool.active
    OBVIOUS
  <2>1. PICK x \in timers : x.id = cool.active
    BY <1>2 DEF TasksOK
  <2> QED BY <1>1, <1>3, <2>1
<1>9. /\ timers' \subseteq Tasks /\ \A x \in timers' : x.id \in 1..cool.next
      /\ \A x \in timers' : ~x.running => x.id = cool.active
  BY <1>1, <1>2, <1>3, <1>5 DEF TasksOK
<1>10. TasksOK(cool', timers')
  BY <1>1, <1>2, <1>7, <1>8, <1>9 DEF TasksOK
<1>11. AllTell /\ \A l \in Lives : ToldOK(buffers'[l], screen')
  BY <1>1, CurrentPipe, QuietTells
<1>12. ServiceOK' /\ Announced'
  BY <1>1 DEF EventsOK, ServiceOK, Announced, buf
<1> QED
  BY <1>1, <1>10, <1>11, <1>12 DEF EventStep, EventsOK

\* publishPendingInvalidationIfDue: of the tasks only the active one does anything.
LEMMA RunTimerEvents ==
    ASSUME BuffersOK, EventsOK, NEW t \in timers, RunTimer(t) PROVE EventStep
<1> DEFINE p == Pipe(cool, timers \ {t}, buf)
           d == [cool EXCEPT !.active = 0]
           done == Pipe(d, p.timers, buf)
           q == IF ~IsActive(t) THEN p
                ELSE IF ~cool.pending THEN done
                ELSE IF clock < cool.until THEN Scheduled(done)
                ELSE Announce(Pending(done, FALSE), cool.context, recorded)
<1>0. /\ ToldOK(buf, screen) /\ Tells(buf, buf, screen)
      /\ screen \in Nat /\ recorded \in 0..screen /\ clock \in Nat
  BY CurrentPipe
<1>1. /\ cool' = q.cool /\ timers' = q.timers /\ Becomes(q.buffer)
      /\ UNCHANGED <<clock, screen, recorded, raw, attached, main, resets, life, last>>
  BY DEF RunTimer, Installs
<1>2. /\ TasksOK(cool, timers) /\ Held(cool) /\ cool \in Cools
  BY DEF EventsOK, TasksOK
<1>3. /\ p.cool = cool /\ p.timers = timers \ {t} /\ p.buffer = buf
      /\ done.cool = d /\ done.timers = timers \ {t} /\ done.buffer = buf
  BY DEF Pipe
<1>4. d \in Cools /\ d.active = 0 /\ d.next = cool.next /\ d.pending = cool.pending
  BY <1>2 DEF Cools
<1> HIDE DEF p, d, done
<1>5. ASSUME ~IsActive(t) PROVE PipeOK(buf, p, screen)
  <2>1. t.id # cool.active
    BY <1>5 DEF IsActive
  <2>2. cool.active # 0 => \E x \in timers \ {t} : x.id = cool.active
    BY <1>2, <2>1 DEF TasksOK
  <2>3. TasksOK(cool, timers \ {t})
    BY <1>2, <2>2 DEF TasksOK
  <2> QED BY <1>0, <1>3, <2>3 DEF PipeOK
<1>6. ASSUME IsActive(t) PROVE PipeOK(buf, done, screen)
  <2>1. t.id = cool.active
    BY <1>6 DEF IsActive
  <2>2. \A x, y \in timers : x.id = y.id => x = y
    BY <1>2 DEF TasksOK
  <2>3. \A x \in timers \ {t} : x.id # cool.active
    BY <2>1, <2>2
  <2>4. \A x \in timers \ {t} : x.running
    BY <1>2, <2>3 DEF TasksOK
  <2>5. d.active <= d.next
    BY <1>2, <1>4 DEF Cools
  <2>6. /\ timers \ {t} \subseteq Tasks
        /\ \A x \in timers \ {t} : x.id \in 1..d.next
    BY <1>2, <1>4 DEF TasksOK
  <2>7. TasksOK(d, timers \ {t})
    BY <1>4, <2>2, <2>4, <2>5, <2>6 DEF TasksOK
  <2> QED BY <1>0, <1>3, <2>7 DEF PipeOK
<1>7. /\ PipeOK(buf, q, screen) /\ Held(q.cool)
      /\ q.cool.pending => cool.pending
      /\ attached => q.cool.pending \/ (q.buffer.latest > 0 /\ Latest(q.buffer) = recorded)
  <2>0. attached => cool.pending \/ (buf.latest > 0 /\ Latest(buf) = recorded)
    BY DEF EventsOK, Announced
  <2>1. CASE ~IsActive(t)
    <3>1. q = p
      BY <2>1
    <3> HIDE DEF q
    <3> QED BY <1>2, <1>3, <1>5, <2>0, <2>1, <3>1
  <2>2. CASE IsActive(t) /\ ~cool.pending
    <3>1. q = done
      BY <2>2
    <3> HIDE DEF q
    <3> QED BY <1>3, <1>4, <1>6, <2>0, <2>2, <3>1 DEF Held
  <2>3. CASE IsActive(t) /\ cool.pending /\ clock < cool.until
    <3>1. q = Scheduled(done)
      BY <2>3
    <3> HIDE DEF q
    <3>2. PipeOK(buf, q, screen) /\ q.cool.pending = done.cool.pending /\ q.cool.active # 0
      BY <1>6, <2>3, <3>1, ScheduledPipe
    <3> QED BY <1>3, <1>4, <2>3, <3>2 DEF Held
  <2>4. CASE IsActive(t) /\ cool.pending /\ ~(clock < cool.until)
    <3> DEFINE r == Pending(done, FALSE)
    <3>1. q = Announce(r, cool.context, recorded)
      BY <2>4
    <3> HIDE DEF q
    <3>2. PipeOK(buf, r, screen) /\ r.cool.pending = FALSE
      BY <1>6, <2>4, PendingPipe
    <3>3. cool.context \in Contexts \cup {None}
      BY <1>2 DEF Cools
    <3> HIDE DEF r
    <3>4. /\ PipeOK(buf, q, screen) /\ q.cool.pending = FALSE
          /\ q.buffer.latest > 0 /\ Latest(q.buffer) = recorded
      BY <1>0, <3>1, <3>2, <3>3, AnnouncePipe
    <3> QED BY <3>4 DEF Held
  <2> QED BY <2>1, <2>2, <2>3, <2>4
<1> HIDE DEF q
<1>8. AllTell /\ buf' = q.buffer /\ \A l \in Lives : ToldOK(buffers'[l], screen')
  BY <1>1, <1>7, BecomesTells DEF PipeOK
<1>9. ServiceOK' /\ Announced'
  BY <1>1, <1>7, <1>8 DEF EventsOK, ServiceOK, Announced
<1>10. TasksOK(cool', timers') /\ Held(cool') /\ (cool'.pending => attached' \/ main' = "reset")
  BY <1>1, <1>7 DEF PipeOK, EventsOK
<1> QED
  BY <1>8, <1>9, <1>10 DEF EventStep, EventsOK

\* cancelPendingWork, then a reset of the buffer and of the aggregator.
LEMMA ResetPipelineEvents ==
    ASSUME BuffersOK, EventsOK, ResetPipeline, UNCHANGED <<life, screen>>
    PROVE  /\ AllTell /\ \A l \in Lives : ToldOK(buffers'[l], screen')
           /\ TasksOK(cool', timers') /\ ~cool'.pending
           /\ last' \in Memories /\ last'.status = None
<1> DEFINE p == Pipe(cool, timers, buf)
           b == Reset(buf, recorded)
           ts == Cancelled(p).timers
<1>0. ToldOK(buf, screen) /\ screen \in Nat /\ recorded \in 0..screen
  BY CurrentPipe
<1>1. cool' = Cleared /\ timers' = ts /\ Becomes(b) /\ last' = Nothing
  BY DEF ResetPipeline, Installs, Pipe
<1>2. TasksOK(cool, timers) /\ cool \in Cools
  BY DEF EventsOK, TasksOK
<1>3. ts = {t \in timers : t.running}
  BY DEF Cancelled, Pipe
<1>4. Idle \in Cools /\ Idle.active = 0 /\ ~Idle.pending /\ cool.next \in Nat
  BY <1>2 DEF Idle, Cools
<1>5. /\ Cleared \in Cools /\ Cleared.active = 0 /\ Cleared.next = cool.next
      /\ ~Cleared.pending /\ cool.next \in Nat
  BY <1>4 DEF Cleared, Cools
<1> HIDE DEF p, ts
<1>6. TasksOK(cool', timers')
  <2>1. timers' \subseteq timers /\ \A x \in timers' : x.running
    BY <1>1, <1>3
  <2> QED BY <1>1, <1>2, <1>5, <2>1 DEF TasksOK
<1>7. Tells(buf, b, screen)
  BY <1>0, ResetTells
<1> HIDE DEF b
<1>8. AllTell /\ \A l \in Lives : ToldOK(buffers'[l], screen')
  BY <1>1, <1>7, BecomesTells
<1>9. Nothing \in Memories /\ Nothing.status = None
  BY DEF Nothing, Memories
<1> QED
  BY <1>1, <1>5, <1>6, <1>8, <1>9

\* recordRuntimeStatus tells of the version when the status is new.
LEMMA RecordStatusEvents ==
    ASSUME BuffersOK, EventsOK, NEW status \in BOOLEAN, NEW version \in 0..screen,
           RecordStatus(status, version), UNCHANGED <<life, screen>>
    PROVE  /\ AllTell /\ \A l \in Lives : ToldOK(buffers'[l], screen')
           /\ last' \in Memories
           /\ last.status # status => buf'.latest > 0 /\ Latest(buf') = version
<1> DEFINE new == Publish(buf, version)
           b == IF last.status = status THEN buf ELSE new
<1>0. ToldOK(buf, screen) /\ Tells(buf, buf, screen) /\ screen \in Nat
  BY CurrentPipe
<1>1. Becomes(b) /\ last' = [last EXCEPT !.status = status]
  BY DEF RecordStatus
<1>2. Tells(buf, new, screen) /\ new.latest > 0 /\ Latest(new) = version
  BY <1>0, PublishTells
<1> HIDE DEF new
<1>3. Tells(buf, b, screen) /\ (last.status # status => b.latest > 0 /\ Latest(b) = version)
  BY <1>0, <1>2
<1> HIDE DEF b
<1>4. AllTell /\ buf' = b /\ \A l \in Lives : ToldOK(buffers'[l], screen')
  BY <1>1, <1>3, BecomesTells
<1>5. last' \in Memories
  <2>1. last \in Memories
    BY DEF EventsOK, ServiceOK
  <2> QED BY <1>1, <2>1 DEF Memories
<1>6. Latest(buf') = Latest(b) /\ buf'.latest = b.latest
  BY <1>4 DEF Latest
<1> QED
  BY <1>3, <1>4, <1>5, <1>6

\* A registration tells of the status, with the screen as it is: nothing is held back.
LEMMA RegisterEvents ==
    ASSUME BuffersOK, EventsOK, Register PROVE EventStep
<1>1. /\ main = "register" /\ RecordStatus(TRUE, screen)
      /\ attached' = TRUE /\ main' = "idle" /\ recorded' = screen
      /\ UNCHANGED <<clock, screen, raw, resets, life, cool, timers>>
  BY DEF Register
<1>2. screen \in Nat /\ screen \in 0..screen /\ last.status # TRUE
  <2>1. last.status = None
    BY <1>1 DEF EventsOK, ServiceOK
  <2> QED BY <2>1, CurrentPipe, EventNoneAssumption
<1>3. /\ AllTell /\ \A l \in Lives : ToldOK(buffers'[l], screen')
      /\ last' \in Memories /\ buf'.latest > 0 /\ Latest(buf') = screen
  BY <1>1, <1>2, RecordStatusEvents
<1>4. recorded' \in 0..screen'
  BY <1>1, <1>2
<1>5. ServiceOK'
  BY <1>1, <1>3, <1>4 DEF EventsOK, ServiceOK
<1>6. Announced'
  BY <1>1, <1>3 DEF Announced
<1>7. TasksOK(cool', timers') /\ Held(cool')
  BY <1>1 DEF EventsOK
<1> QED
  BY <1>1, <1>3, <1>5, <1>6, <1>7 DEF EventStep, EventsOK

\* The other steps of an attach or a detach: nobody is attached then.
LEMMA DetachedEvents ==
    ASSUME BuffersOK, EventsOK, DetachReset \/ Reconcile \/ Attach \/ Unregister
    PROVE  EventStep
<1>0. /\ recorded \in 0..screen /\ last \in Memories
      /\ TasksOK(cool, timers) /\ Held(cool)
  BY DEF EventsOK, ServiceOK
<1>1. CASE DetachReset \/ Attach
  <2>1. /\ ResetPipeline /\ UNCHANGED <<clock, screen, recorded, raw, attached, life>>
        /\ ~attached' /\ main' \in {"register", "reconcile"}
    <3>1. CASE Attach
      BY <3>1 DEF Attach
    <3>2. CASE DetachReset
      <4>1. main = "reset" /\ attached' = attached
        BY <3>2 DEF DetachReset
      <4>2. ~attached
        BY <4>1 DEF EventsOK, ServiceOK
      <4> QED BY <3>2, <4>1, <4>2 DEF DetachReset
    <3> QED BY <1>1, <3>1, <3>2
  <2>2. /\ AllTell /\ \A l \in Lives : ToldOK(buffers'[l], screen')
        /\ TasksOK(cool', timers') /\ ~cool'.pending
        /\ last' \in Memories /\ last'.status = None
    BY <2>1, ResetPipelineEvents
  <2>3. ServiceOK'
    BY <2>1, <2>2 DEF EventsOK, ServiceOK
  <2> QED BY <2>1, <2>2, <2>3 DEF EventStep, EventsOK, Announced, Held
<1>2. CASE Reconcile \/ Unregister
  <2>1. /\ RecordStatus(FALSE, recorded)
        /\ UNCHANGED <<clock, screen, recorded, raw, life, cool, timers>>
        /\ ~attached' /\ main' \in {"idle", "reset"}
        /\ cool.pending => main' = "reset"
    <3>1. CASE Unregister
      BY <3>1 DEF Unregister
    <3>2. CASE Reconcile
      <4>1. main = "reconcile" /\ attached' = attached
        BY <3>2 DEF Reconcile
      <4>2. ~attached /\ ~cool.pending
        BY <4>1 DEF EventsOK, ServiceOK
      <4>3. ~attached'
        BY <4>1, <4>2
      <4>4. /\ RecordStatus(FALSE, recorded) /\ main' = "idle"
            /\ UNCHANGED <<clock, screen, recorded, raw, life, cool, timers>>
        BY <3>2 DEF Reconcile
      <4> QED BY <4>2, <4>3, <4>4
    <3> QED BY <1>2, <3>1, <3>2
  <2>2. AllTell /\ (\A l \in Lives : ToldOK(buffers'[l], screen')) /\ last' \in Memories
    <3>1. FALSE \in BOOLEAN /\ UNCHANGED <<life, screen>>
      BY <2>1
    <3> QED BY <1>0, <2>1, <3>1, RecordStatusEvents, Zenon
  <2>3. attached' \in BOOLEAN
    BY <1>2 DEF EventsOK, ServiceOK, Reconcile, Unregister
  <2>4. ServiceOK'
    BY <2>1, <2>2, <2>3 DEF EventsOK, ServiceOK
  <2> QED BY <1>0, <2>1, <2>2, <2>4 DEF EventStep, EventsOK, Announced
<1> QED BY <1>1, <1>2

\* What the device does by itself, a new pipeline, and the passing of time.
LEMMA QuietEvents ==
    ASSUME BuffersOK, EventsOK,
           \/ Ignore \/ Shutdown \/ Tick
           \/ \E k \in Kinds, context \in Contexts : Change(k, context)
    PROVE  EventStep
<1>0. /\ screen \in Nat /\ recorded \in 0..screen /\ clock \in Nat
      /\ TasksOK(cool, timers) /\ Held(cool)
  BY CurrentPipe DEF EventsOK
<1>1. CASE Ignore
  <2>1. /\ ~attached /\ raw' = <<>>
        /\ UNCHANGED <<clock, screen, recorded, attached, main, resets, life, buffers, last, cool, timers>>
    BY <1>1 DEF Ignore
  <2>2. AllTell /\ \A l \in Lives : ToldOK(buffers'[l], screen')
    BY <1>0, <2>1, QuietTells
  <2>3. raw' \in Seq(Posts) /\ Len(raw') <= 1
    BY <2>1
  <2>4. ServiceOK'
    BY <2>1, <2>3 DEF EventsOK, ServiceOK
  <2> QED BY <2>1, <2>2, <2>4 DEF EventStep, EventsOK, Announced
<1>2. CASE Shutdown
  <2>1. /\ ~attached /\ main = "idle" /\ last' = Nothing /\ cool' = Idle /\ timers' = {}
        /\ UNCHANGED <<clock, screen, recorded, raw, attached, main, resets, buffers>>
    BY <1>2 DEF Shutdown
  <2>2. AllTell /\ \A l \in Lives : ToldOK(buffers'[l], screen')
    BY <1>0, <2>1, QuietTells
  <2>3. Nothing \in Memories
    BY DEF Nothing, Memories
  <2>4. Idle \in Cools /\ Idle.active = 0 /\ Idle.next = 0 /\ ~Idle.pending
    BY DEF Idle, Cools
  <2>5. TasksOK(cool', timers') /\ Held(cool') /\ ~cool'.pending
    BY <2>1, <2>4 DEF TasksOK, Held
  <2>6. ServiceOK'
    BY <2>1, <2>3 DEF EventsOK, ServiceOK
  <2> QED BY <2>1, <2>2, <2>5, <2>6 DEF EventStep, EventsOK, Announced
<1>3. CASE Tick
  <2>1. /\ clock < MaxClock /\ clock' = clock + 1
        /\ UNCHANGED <<screen, recorded, raw, attached, main, resets, life, buffers, last, cool, timers>>
    BY <1>3 DEF Tick
  <2>2. AllTell /\ \A l \in Lives : ToldOK(buffers'[l], screen')
    BY <1>0, <2>1, QuietTells
  <2>3. clock' \in 0..MaxClock
    BY <1>0, <2>1, BoundsAssumption
  <2>4. ServiceOK' /\ Announced'
    BY <2>1, <2>3 DEF EventsOK, ServiceOK, Announced, buf
  <2> QED BY <1>0, <2>1, <2>2, <2>4 DEF EventStep, EventsOK
<1>4. ASSUME NEW k \in Kinds, NEW context \in Contexts, Change(k, context) PROVE EventStep
  <2> DEFINE post == [kind |-> k, context |-> context]
  <2>1. /\ raw = <<>> /\ screen < MaxChanges
        /\ screen' = IF k = "focus" THEN screen ELSE screen + 1
        /\ raw' = <<post>>
        /\ UNCHANGED <<clock, recorded, attached, main, resets, life, buffers, last, cool, timers>>
    BY <1>4 DEF Change
  <2>2. screen' \in Versions /\ screen' \in Nat /\ screen' >= screen /\ recorded' \in 0..screen'
    BY <1>0, <2>1, BoundsAssumption DEF Versions
  <2>3. AllTell /\ \A l \in Lives : ToldOK(buffers'[l], screen')
    BY <2>1, <2>2, QuietTells
  <2>4. raw' \in Seq(Posts) /\ Len(raw') <= 1 /\ raw'[1].kind = k /\ raw' # <<>>
    <3>1. post \in Posts /\ post.kind = k
      BY DEF Posts
    <3> HIDE DEF post
    <3> QED BY <2>1, <3>1
  <2>5. ServiceOK'
    BY <2>1, <2>2, <2>4 DEF EventsOK, ServiceOK
  <2>6. Announced'
    BY <2>1, <2>4 DEF EventsOK, Announced, buf
  <2> QED BY <1>0, <2>1, <2>3, <2>5, <2>6 DEF EventStep, EventsOK
<1> QED BY <1>1, <1>2, <1>3, <1>4

\* Every step of the system.
LEMMA NextEvents ==
    ASSUME BuffersOK, EventsOK, [ObservationNext]_allVars PROVE EventStep
<1>1. CASE UNCHANGED eventVars
  <2>1. UNCHANGED <<clock, screen, recorded, raw, attached, main, life, buffers, last, cool, timers>>
    BY <1>1 DEF eventVars
  <2>2. AllTell /\ \A l \in Lives : ToldOK(buffers'[l], screen')
    BY <2>1, CurrentPipe, QuietTells
  <2>3. ServiceOK' /\ Announced'
    BY <2>1 DEF EventsOK, ServiceOK, Announced, buf
  <2> QED BY <2>1, <2>2, <2>3 DEF EventStep, EventsOK
<1>2. CASE AgentStep
  <2>1. CASE Record
    BY <2>1, RecordEvents
  <2>2. CASE Register
    BY <2>2, RegisterEvents
  <2>3. ASSUME NEW t \in timers, StartTimer(t) \/ RunTimer(t) PROVE EventStep
    BY <2>3, StartTimerEvents, RunTimerEvents
  <2>4. CASE DetachReset \/ Reconcile
    BY <2>4, DetachedEvents
  <2>5. CASE Ignore
    BY <2>5, QuietEvents
  <2> QED BY <1>2, <2>1, <2>2, <2>3, <2>4, <2>5 DEF AgentStep
<1>3. CASE DeviceStep
  BY <1>3, DetachedEvents, QuietEvents DEF DeviceStep
<1>4. CASE Tick
  BY <1>4, QuietEvents
<1>5. LoopStep \/ LosePoll => UNCHANGED eventVars
  BY DEF LoopStep, LosePoll, Ask, Answer, Wake, Decide, Fetch, FetchAgain, FetchFails,
         JudgeSettle, JudgeIdle, JudgeChange
<1> QED
  BY <1>1, <1>2, <1>3, <1>4, <1>5 DEF ObservationNext, allVars

\* In the beginning the attachment and the status have been told of.
LEMMA InitEvents == LoopInit => EventsOK
<1> SUFFICES ASSUME LoopInit PROVE EventsOK
  OBVIOUS
<1>1. /\ clock = 0 /\ screen = 0 /\ recorded = 0 /\ raw = <<>> /\ attached = TRUE
      /\ main = "idle" /\ life = 0 /\ cool = Idle /\ timers = {}
      /\ last = [Nothing EXCEPT !.status = TRUE]
      /\ buffers = [l \in Lives |-> IF l = 0 THEN Publish(Reset(Fresh, 0), 0) ELSE Fresh]
  BY DEF LoopInit, EventInit
<1>2. ToldOK(Fresh, 0)
  BY DEF ToldOK, Fresh
<1> DEFINE b == Reset(Fresh, 0)
           c == Publish(b, 0)
<1>3. ToldOK(b, 0)
  BY <1>2, ResetTells DEF Tells
<1> HIDE DEF b
<1>4. ToldOK(c, 0) /\ c.latest > 0 /\ Latest(c) = 0
  BY <1>3, PublishTells DEF Tells
<1> HIDE DEF c
<1>5. 0 \in Lives /\ buffers = [l \in Lives |-> IF l = 0 THEN c ELSE Fresh]
  BY <1>1, LivesAssumption DEF Lives, b, c
<1>6. buf = c /\ \A l \in Lives : ToldOK(buffers[l], screen)
  BY <1>1, <1>2, <1>4, <1>5 DEF buf
<1>7. Idle \in Cools /\ Idle.active = 0 /\ Idle.next = 0 /\ ~Idle.pending
  BY DEF Idle, Cools
<1>8. TasksOK(cool, timers) /\ Held(cool)
  BY <1>1, <1>7 DEF TasksOK, Held
<1>9. last \in Memories
  BY <1>1 DEF Nothing, Memories
<1>10. raw \in Seq(Posts) /\ Len(raw) <= 1 /\ clock \in 0..MaxClock
       /\ screen \in Versions /\ recorded \in 0..screen
  BY <1>1, BoundsAssumption DEF Versions
<1>11. ServiceOK
  BY <1>1, <1>9, <1>10 DEF ServiceOK
<1> QED
  BY <1>1, <1>4, <1>6, <1>7, <1>8, <1>11 DEF EventsOK, Announced

\* The service, the cooldown and the history are always in order.
THEOREM EventsCorrect == ObservationSpec => []EventsOK
<1>1. BuffersOK /\ EventsOK /\ [ObservationNext]_allVars => EventsOK'
  BY NextEvents DEF EventStep
<1> QED
  BY <1>1, InitEvents, BuffersCorrect, PTL DEF ObservationSpec

\* A change that the agent was told of is announced, or held back with a task that will
\* announce it, as long as the service is attached.
THEOREM NoChangeForgottenCorrect == ObservationSpec => []NoChangeForgotten
<1>1. BuffersOK /\ EventsOK => NoChangeForgotten
  <2> SUFFICES ASSUME BuffersOK, EventsOK, attached PROVE NoChangeForgotten
    BY DEF NoChangeForgotten
  <2>1. CASE cool.pending
    <3>1. cool.active # 0
      BY <2>1 DEF EventsOK, Held
    <3>2. \E t \in timers : t.id = cool.active
      BY <3>1 DEF EventsOK, TasksOK
    <3> QED BY <2>1, <3>2 DEF NoChangeForgotten
  <2>2. CASE ~cool.pending
    <3>1. buf.latest > 0 /\ Latest(buf) = recorded
      BY <2>2 DEF EventsOK, Announced
    <3>2. Len(buf.told) = buf.latest
      BY CurrentPipe DEF ToldOK
    <3>3. buf.told # <<>>
      BY <3>1, <3>2
    <3> QED BY <3>1, <3>3 DEF NoChangeForgotten, Latest
  <2> QED BY <2>1, <2>2
<1> QED
  BY <1>1, BuffersCorrect, EventsCorrect, PTL

\* One task at most may still publish, and none of an attachment that is gone.
THEOREM OneTimerCorrect == ObservationSpec => []OneTimer
<1>1. EventsOK => OneTimer
  <2> SUFFICES ASSUME EventsOK PROVE OneTimer
    OBVIOUS
  <2> DEFINE ts == {t \in timers : ~t.running \/ t.id = cool.active}
  <2>1. \A x, y \in ts : x = y
    BY DEF EventsOK, TasksOK
  <2>2. Cardinality(ts) <= 1
    <3> HIDE DEF ts
    <3>1. CASE ts = {}
      BY <3>1, FS_EmptySet
    <3>2. CASE ts # {}
      <4>1. PICK x : x \in ts
        BY <3>2
      <4>2. ts = {x}
        BY <2>1, <4>1
      <4> QED BY <4>2, FS_Singleton
    <3> QED BY <3>1, <3>2
  <2>3. ~attached /\ main = "idle" => ~cool.pending
    BY DEF EventsOK
  <2> QED BY <2>2, <2>3 DEF OneTimer
<1> QED
  BY <1>1, EventsCorrect, PTL

-----------------------------------------------------------------------------
(* The loop                                                                *)

Polls == [from : Nat, until : Nat, life : Lives, asked : Nat, parked : BOOLEAN]
Answers == [events : BOOLEAN, resync : BOOLEAN]
Hearings == [life : Lives, seq : Nat, resets : Nat, blind : BOOLEAN]
Watching == {"poll", "polling", "asleep", "pause", "retry", "decide", "fetch", "judge"}

LoopTypes ==
    /\ kind \in Loops
    /\ pc \in Done \cup Watching
    /\ started \in 0..MaxClock /\ cursor \in Nat
    /\ refreshed \in Nat \cup {None} /\ steady \in Nat \cup {None}
    /\ looks \in {0, 1, None} /\ shown \in Versions \cup {None}
    /\ poll \in Polls /\ poll.asked <= poll.until
    /\ saw \in Answers
    /\ wake \in Nat /\ tries \in 0..MaxTries
    /\ look \in {0, 1, None} /\ differed \in Nat \cup {None}
    /\ heard \in Hearings

\* A snapshot has to follow, or nothing is judged any more.
Owed ==
    \/ refreshed = None
    \/ pc \in {"fetch", "retry"} \cup Done
    \/ pc = "decide" /\ saw.events

\* What was told with the number heard last is shown already, unless a snapshot follows.
Claim == ~Owed /\ ~heard.blind /\ heard.seq > 0
             => shown >= buffers[heard.life].told[heard.seq]

SeenOK ==
    /\ pc = "judge" => refreshed # None
    /\ refreshed # None => shown # None
    /\ pc \in {"polling", "asleep"} => ~saw.events
    /\ Claim

\* The looks compared are those of the last two snapshots, and the window of quiet
\* begins no earlier than the last difference.
QuietOK ==
    /\ refreshed # None => look # None
    /\ look # None => shown # None /\ look = Signature(shown)
    /\ look # None /\ kind \in {"settle", "idle"} /\ pc # "judge" => look = looks
    /\ differed # None => differed <= clock
    /\ steady # None => steady <= clock /\ kind \in {"settle", "idle"}
    /\ steady # None /\ differed # None /\ (pc # "judge" \/ Signature(shown) = looks)
           => differed <= steady
    /\ StableIsQuiet

LoopOK == LoopTypes /\ SeenOK /\ QuietOK

\* The policy of the loop that runs.
LEMMA PolicyOfLoop ==
    ASSUME LoopTypes
    PROVE  /\ P.grace \in Nat /\ P.interval \in Nat /\ P.window \in Nat
           /\ P.total \in Nat /\ P.slice \in Nat
BY PolicyAssumption DEF LoopTypes, P

\* The looks of a version.
LEMMA SignatureType ==
    ASSUME NEW v \in Nat PROVE Signature(v) \in {0, 1}
BY DEF Signature

\* What each invariant says of the clock and of the versions.
LEMMA ClockAndVersions ==
    ASSUME EventsOK
    PROVE  /\ clock \in Nat /\ screen \in Nat /\ screen \in Versions
           /\ None \notin Nat /\ None \notin Int
           /\ \A v \in Versions : v \in Nat /\ v # None
BY BoundsAssumption, EventNoneAssumption DEF EventsOK, ServiceOK, Versions

\* A poll is asked for no longer than the slice and the time that is left.
LEMMA PollWaitType ==
    ASSUME LoopTypes, EventsOK PROVE PollWait \in Nat
<1>1. clock \in Nat /\ started \in Nat /\ P.slice \in Nat /\ P.total \in Nat
  BY ClockAndVersions, PolicyOfLoop DEF LoopTypes
<1>2. (IF TimedOut THEN 0 ELSE started + P.total - clock) \in Nat
  BY <1>1 DEF TimedOut
<1> QED
  BY <1>1, <1>2 DEF PollWait, Least

\* Every step of the loop leaves its variables in their types.
LEMMA NextTypes ==
    ASSUME BuffersOK, EventsOK, PollOK, CursorOK, LoopOK, [ObservationNext]_allVars
    PROVE  LoopTypes'
<1>0. /\ LoopTypes /\ clock \in Nat /\ resets \in Nat /\ life \in Lives
      /\ \A l \in Lives : buffers[l].latest \in Nat
  BY ClockAndVersions DEF LoopOK, BuffersOK, BufferOK
<1>1. CASE Ask
  <2>1. /\ saw' = [events |-> FALSE, resync |-> FALSE] /\ pc' \in {"decide", "polling"}
        /\ UNCHANGED <<kind, started, cursor, refreshed, steady, looks, shown, wake, tries,
                       look, differed, heard>>
    BY <1>1 DEF Ask
  <2>2. poll' \in Polls /\ poll'.asked <= poll'.until
    <3>1. CASE PollWait = 0
      BY <1>0, <1>1, <3>1 DEF Ask, LoopTypes
    <3>2. CASE PollWait # 0
      <4> DEFINE until == clock + PollWait
                 parked == Waits(buf, cursor)
      <4>1. poll' = [from |-> cursor, until |-> until, life |-> life,
                     asked |-> clock, parked |-> parked]
        BY <1>1, <3>2 DEF Ask
      <4>2. until \in Nat /\ clock <= until /\ cursor \in Nat
        BY <1>0, PollWaitType DEF LoopTypes
      <4>3. parked \in BOOLEAN
        BY DEF Waits
      <4> HIDE DEF until, parked
      <4> QED BY <1>0, <4>1, <4>2, <4>3 DEF Polls
    <3> QED BY <3>1, <3>2
  <2> QED BY <1>0, <2>1, <2>2 DEF LoopTypes, Answers, Done, Watching
<1>2. CASE Answer
  <2> DEFINE b == buffers[poll.life]
             events == After(b, poll.from) # {}
             resync == NeedResync(b, poll.from)
             blind == ~resync /\ (heard.blind \/ Unheard(events))
  <2>1. /\ saw' = [events |-> events, resync |-> resync]
        /\ cursor' = IF resync THEN 0 ELSE b.latest
        /\ heard' = [life |-> poll.life, seq |-> b.latest, resets |-> resets, blind |-> blind]
        /\ poll' = NoPoll
        /\ UNCHANGED <<kind, started, looks, shown, tries, look, differed>>
    BY <1>2 DEF Answer
  <2>2. /\ refreshed' \in {None, refreshed} /\ steady' \in {None, steady}
        /\ pc' \in {"asleep", "decide"} /\ wake' \in {wake, poll.until}
    BY <1>2 DEF Answer
  <2>3. events \in BOOLEAN /\ resync \in BOOLEAN /\ blind \in BOOLEAN
    BY DEF NeedResync
  <2>4. poll.life \in Lives /\ b.latest \in Nat /\ poll.until \in Nat
    BY <1>0 DEF LoopTypes, Polls
  <2> HIDE DEF b, events, resync, blind
  <2>5. NoPoll \in Polls /\ NoPoll.asked <= NoPoll.until
    BY LivesAssumption DEF NoPoll, Polls, Lives
  <2>6. saw' \in Answers /\ heard' \in Hearings
    BY <1>0, <2>1, <2>3, <2>4 DEF Answers, Hearings
  <2>7. /\ refreshed' \in Nat \cup {None} /\ steady' \in Nat \cup {None} /\ wake' \in Nat
        /\ pc' \in Done \cup Watching /\ cursor' \in Nat
    BY <1>0, <2>1, <2>2, <2>4 DEF LoopTypes, Watching
  <2> QED BY <1>0, <2>1, <2>5, <2>6, <2>7 DEF LoopTypes
<1>3. CASE LosePoll
  <2>1. /\ poll' = NoPoll /\ pc' \in {"asleep", "failed"}
        /\ wake' \in {wake, clock + (poll.until - poll.asked)}
        /\ UNCHANGED <<kind, started, cursor, refreshed, steady, looks, shown, saw, tries,
                       look, differed, heard>>
    BY <1>3 DEF LosePoll
  <2>2. NoPoll \in Polls /\ NoPoll.asked <= NoPoll.until
    BY LivesAssumption DEF NoPoll, Polls, Lives
  <2>3. poll.until \in Nat /\ poll.asked \in Nat /\ poll.asked <= poll.until
    BY <1>0 DEF LoopTypes, Polls
  <2>4. wake' \in Nat /\ pc' \in Done \cup Watching
    BY <1>0, <2>1, <2>3 DEF LoopTypes, Watching, Done
  <2> QED BY <1>0, <2>1, <2>2, <2>4 DEF LoopTypes
<1>4. CASE Wake \/ Decide \/ FetchAgain \/ FetchFails
  <2>1. UNCHANGED <<kind, started, cursor, refreshed, steady, looks, shown, poll, saw, look,
                    differed, heard>>
    BY <1>4 DEF Wake, Decide, FetchAgain, FetchFails
  <2>2. wake' \in Nat
    BY <1>0, <1>4 DEF Wake, Decide, FetchAgain, FetchFails, LoopTypes
  <2>3. tries' \in 0..MaxTries
    BY <1>0, <1>4 DEF Wake, Decide, FetchAgain, FetchFails, LoopTypes, MaxTries, MayRetry
  <2>4. pc' \in Done \cup Watching
    <3>1. CASE Wake
      BY <3>1 DEF Wake, Watching
    <3>2. CASE Decide
      BY <3>2 DEF Decide, Watching, Done
    <3>3. CASE FetchAgain \/ FetchFails
      BY <3>3 DEF FetchAgain, FetchFails, Watching, Done
    <3> QED BY <1>4, <3>1, <3>2, <3>3
  <2> QED BY <1>0, <2>1, <2>2, <2>3, <2>4 DEF LoopTypes
<1>5. CASE Fetch
  <2>1. /\ shown' = screen /\ refreshed' = clock /\ look' = Signature(screen)
        /\ differed' \in {differed, clock} /\ heard' = [heard EXCEPT !.blind = FALSE]
        /\ pc' = "judge"
        /\ UNCHANGED <<kind, started, cursor, steady, looks, poll, saw, wake, tries>>
    BY <1>5 DEF Fetch
  <2>2. heard' \in Hearings
    BY <1>0, <2>1 DEF LoopTypes, Hearings
  <2>3. screen \in Versions /\ Signature(screen) \in {0, 1}
    BY ClockAndVersions, SignatureType
  <2> QED BY <1>0, <2>1, <2>2, <2>3 DEF LoopTypes, Watching
<1>6. CASE JudgeSettle \/ JudgeIdle \/ JudgeChange
  <2>1. UNCHANGED <<kind, started, cursor, refreshed, shown, poll, saw, tries, look,
                    differed, heard>>
    BY <1>6 DEF JudgeSettle, JudgeIdle, JudgeChange
  <2>2. steady' \in {steady, clock, None} /\ looks' \in {looks, Signature(shown)}
    BY <1>6 DEF JudgeSettle, JudgeIdle, JudgeChange, Since
  <2>3. wake' \in {wake, clock + 1} /\ pc' \in {"stable", "timedout", "poll", "pause", "matched"}
    BY <1>6 DEF JudgeSettle, JudgeIdle, JudgeChange, Pauses
  <2>4. Signature(shown) \in {0, 1}
    <3>1. pc = "judge"
      BY <1>6 DEF JudgeSettle, JudgeIdle, JudgeChange
    <3>2. shown # None /\ shown \in Versions \cup {None}
      BY <1>0, <3>1 DEF LoopOK, SeenOK, LoopTypes
    <3> QED BY <3>2, ClockAndVersions, SignatureType
  <2>5. steady' \in Nat \cup {None} /\ looks' \in {0, 1, None} /\ wake' \in Nat
    BY <1>0, <2>2, <2>3, <2>4 DEF LoopTypes
  <2>6. pc' \in Done \cup Watching
    BY <2>3 DEF Done, Watching
  <2> QED BY <1>0, <2>1, <2>5, <2>6 DEF LoopTypes
<1>7. CASE Beside
  <2>1. /\ UNCHANGED <<kind, pc, started, cursor, refreshed, steady, looks, shown, saw, wake,
                       tries, look, differed, heard>>
        /\ poll' = [poll EXCEPT !.parked = @ /\ buffers'[poll.life].latest = buffers[poll.life].latest]
    BY <1>7 DEF Beside, Signalled
  <2>2. poll \in Polls /\ poll.asked <= poll.until
    BY <1>0 DEF LoopTypes
  <2>3. poll' \in Polls /\ poll'.asked = poll.asked /\ poll'.until = poll.until
    <3> DEFINE parked == poll.parked /\ buffers'[poll.life].latest = buffers[poll.life].latest
    <3>1. parked \in BOOLEAN
      OBVIOUS
    <3>2. poll' = [poll EXCEPT !.parked = parked]
      BY <2>1
    <3> HIDE DEF parked
    <3> QED BY <2>2, <3>1, <3>2 DEF Polls
  <2> QED BY <1>0, <2>1, <2>2, <2>3 DEF LoopTypes
<1>8. CASE Tick \/ UNCHANGED allVars
  <2>1. UNCHANGED loopVars
    BY <1>8 DEF Tick, allVars
  <2> QED BY <1>0, <2>1 DEF LoopTypes, loopVars
<1> QED
  BY <1>1, <1>2, <1>3, <1>4, <1>5, <1>6, <1>7, <1>8 DEF ObservationNext, LoopStep

\* An answer without events and without a resync passes no number: the cursor stands
\* at the latest one already.
LEMMA EmptyAnswerPassesNothing ==
    ASSUME BuffersOK, CursorOK, pc = "polling", poll.life = heard.life, poll.from > 0,
           After(buffers[poll.life], poll.from) = {},
           ~NeedResync(buffers[poll.life], poll.from)
    PROVE  poll.from = heard.seq /\ buffers[poll.life].latest = heard.seq
<1> DEFINE b == buffers[poll.life]
<1>1. BufferOK(b)
  BY DEF BuffersOK, CursorOK
<1>2. poll.from = heard.seq /\ heard.seq \in Nat /\ heard.seq <= b.latest
  BY DEF CursorOK
<1>3. b.latest \in Nat
  BY <1>1 DEF BufferOK
<1> HIDE DEF b
<1>4. poll.from \in 1..b.latest
  BY <1>2, <1>3
<1>5. (poll.from + 1)..b.latest = {}
  BY <1>1, <1>4, BufferHasNoSilentGap DEF b
<1>6. ~(poll.from + 1 <= b.latest)
  BY <1>2, <1>3, <1>5
<1> QED BY <1>2, <1>3, <1>6 DEF b

\* A step that leaves what was shown and heard keeps the claim: what was told stays told.
LEMMA ClaimStays ==
    ASSUME BuffersOK, EventsOK, CursorOK, AllTell, Claim,
           UNCHANGED <<shown, heard>>, Owed => Owed'
    PROVE  Claim'
<1> SUFFICES ASSUME ~Owed, ~heard.blind, heard.seq > 0
             PROVE  shown >= buffers'[heard.life].told[heard.seq]
  BY DEF Claim
<1>1. shown >= buffers[heard.life].told[heard.seq]
  BY DEF Claim
<1>2. heard.life \in Lives /\ heard.seq \in Nat /\ heard.seq <= buffers[heard.life].latest
  BY DEF CursorOK
<1>3. buffers[heard.life].latest \in Nat
  BY <1>2 DEF BuffersOK, BufferOK
<1>4. heard.seq \in 1..buffers[heard.life].latest
  BY <1>2, <1>3
<1>5. Tells(buffers[heard.life], buffers'[heard.life], screen')
  BY <1>2 DEF AllTell
<1>6. buffers'[heard.life].told[heard.seq] = buffers[heard.life].told[heard.seq]
  BY <1>4, <1>5 DEF Tells
<1> QED BY <1>1, <1>6

\* The cursor passes a number only when a snapshot follows.
LEMMA NextSeen ==
    ASSUME BuffersOK, EventsOK, PollOK, CursorOK, LoopOK, [ObservationNext]_allVars
    PROVE  SeenOK'
<1>0. /\ AllTell /\ Claim
      /\ pc = "judge" => refreshed # None
      /\ refreshed # None => shown # None
      /\ pc \in {"polling", "asleep"} => ~saw.events
      /\ pc \in Done \cup Watching
  BY NextEvents DEF EventStep, LoopOK, SeenOK, LoopTypes
<1> SUFFICES /\ pc' = "judge" => refreshed' # None
             /\ refreshed' # None => shown' # None
             /\ pc' \in {"polling", "asleep"} => ~saw'.events
             /\ Claim'
  BY DEF SeenOK
<1>1. CASE Ask
  <2>1. /\ pc = "poll" /\ pc' \in {"decide", "polling"} /\ ~saw'.events
        /\ UNCHANGED <<refreshed, shown, heard>>
    BY <1>1 DEF Ask
  <2>2. Owed => Owed'
    BY <2>1 DEF Owed, Done
  <2> QED BY <1>0, <2>1, <2>2, ClaimStays
<1>2. CASE Answer
  <2> DEFINE b == buffers[poll.life]
             events == After(b, poll.from) # {}
             resync == NeedResync(b, poll.from)
             blind == ~resync /\ (heard.blind \/ Unheard(events))
  <2>1. /\ pc = "polling" /\ pc' \in {"asleep", "decide"} /\ shown' = shown
        /\ saw'.events = events
        /\ pc' = "asleep" => ~events
        /\ resync => refreshed' = None
        /\ ~resync => refreshed' = refreshed
        /\ heard'.life = poll.life /\ heard'.seq = b.latest /\ heard'.blind = blind
        /\ UNCHANGED <<buffers, screen>>
    BY <1>2 DEF Answer, eventVars
  <2>2. Claim'
    <3> SUFFICES ASSUME ~Owed', ~heard'.blind, heard'.seq > 0
                 PROVE  shown' >= buffers'[heard'.life].told[heard'.seq]
      BY DEF Claim
    <3>1. refreshed' # None /\ ~(pc' = "decide" /\ saw'.events)
      BY DEF Owed
    <3>2. ~resync /\ refreshed # None /\ ~events
      BY <2>1, <3>1
    <3>3. ~heard.blind /\ poll.from # 0 /\ poll.life = heard.life
      BY <2>1, <3>2 DEF Unheard
    <3>4. poll.from \in Nat
      BY <2>1 DEF CursorOK
    <3>5. b.latest = heard.seq /\ poll.from = heard.seq
      BY <2>1, <3>2, <3>3, <3>4, EmptyAnswerPassesNothing
    <3>6. ~Owed
      BY <2>1, <3>2 DEF Owed, Done
    <3>7. shown >= buffers[heard.life].told[heard.seq]
      BY <1>0, <2>1, <3>3, <3>5, <3>6 DEF Claim
    <3> QED BY <2>1, <3>3, <3>5, <3>7
  <2>3. refreshed' # None => shown' # None
    BY <1>0, <2>1
  <2> QED BY <2>1, <2>2, <2>3
<1>3. CASE LosePoll
  <2>1. /\ pc = "polling" /\ pc' \in {"asleep", "failed"}
        /\ UNCHANGED <<refreshed, shown, heard, saw>>
    BY <1>3 DEF LosePoll
  <2>2. ~saw.events
    BY <2>1 DEF LoopOK, SeenOK
  <2>3. Owed => Owed'
    BY <2>1 DEF Owed, Done
  <2> QED BY <1>0, <2>1, <2>2, <2>3, ClaimStays
<1>4. CASE Wake
  <2>1. /\ \/ pc = "asleep" /\ pc' = "decide"
           \/ pc = "pause" /\ pc' = "poll"
           \/ pc = "retry" /\ pc' = "fetch"
        /\ UNCHANGED <<refreshed, shown, heard, saw>>
    BY <1>4 DEF Wake
  <2>2. Owed => Owed'
    BY <2>1 DEF Owed, Done
  <2> QED BY <1>0, <2>1, <2>2, ClaimStays
<1>5. CASE Decide
  <2>1. /\ pc = "decide" /\ UNCHANGED <<refreshed, shown, heard, saw>>
        /\ ShouldRefresh => pc' = "fetch"
        /\ ~ShouldRefresh => pc' \in {"judge", "timedout", "poll"}
    BY <1>5 DEF Decide
  <2>2. Owed => ShouldRefresh
    BY <2>1 DEF Owed, ShouldRefresh, Done
  <2>3. refreshed = None => ShouldRefresh
    BY DEF ShouldRefresh
  <2>4. Owed => Owed'
    BY <2>1, <2>2 DEF Owed
  <2> QED BY <1>0, <2>1, <2>3, <2>4, ClaimStays
<1>6. CASE Fetch
  <2>1. /\ pc' = "judge" /\ shown' = screen /\ refreshed' = clock
        /\ heard' = [heard EXCEPT !.blind = FALSE] /\ UNCHANGED buffers
    BY <1>6 DEF Fetch, eventVars
  <2>2. refreshed' # None /\ shown' # None
    BY <2>1, ClockAndVersions
  <2>3. heard'.life = heard.life /\ heard'.seq = heard.seq
    BY <2>1 DEF CursorOK
  <2>4. ASSUME heard.seq > 0 PROVE screen >= buffers[heard.life].told[heard.seq]
    <3>1. /\ heard.life \in Lives /\ heard.seq \in Nat
          /\ heard.seq <= buffers[heard.life].latest
      BY DEF CursorOK
    <3>2. ToldOK(buffers[heard.life], screen) /\ screen \in Nat
      BY <3>1, ClockAndVersions DEF EventsOK
    <3>3. heard.seq \in 1..buffers[heard.life].latest
      BY <2>4, <3>1, <3>2, ToldLatest
    <3> QED BY <3>2, <3>3 DEF ToldOK
  <2>5. Claim'
    BY <2>1, <2>3, <2>4 DEF Claim
  <2> QED BY <2>1, <2>2, <2>5
<1>7. CASE FetchAgain \/ FetchFails
  <2>1. /\ pc = "fetch" /\ pc' \in {"retry", "failed"}
        /\ UNCHANGED <<refreshed, shown, heard>>
    BY <1>7 DEF FetchAgain, FetchFails
  <2>2. Owed'
    BY <2>1 DEF Owed, Done
  <2> QED BY <1>0, <2>1, <2>2, ClaimStays
<1>8. CASE JudgeSettle \/ JudgeIdle \/ JudgeChange
  <2>1. /\ pc = "judge" /\ pc' \in {"stable", "timedout", "poll", "pause", "matched"}
        /\ UNCHANGED <<refreshed, shown, heard>>
    BY <1>8 DEF JudgeSettle, JudgeIdle, JudgeChange, Pauses
  <2>2. Owed => Owed'
    BY <2>1 DEF Owed, Done
  <2> QED BY <1>0, <2>1, <2>2, ClaimStays
<1>9. CASE Beside \/ Tick \/ UNCHANGED allVars
  <2>1. UNCHANGED <<pc, refreshed, shown, heard, saw>>
    BY <1>9 DEF Beside, Tick, allVars, loopVars
  <2>2. Owed => Owed'
    BY <2>1 DEF Owed
  <2> QED BY <1>0, <2>1, <2>2, ClaimStays
<1> QED
  BY <1>1, <1>2, <1>3, <1>4, <1>5, <1>6, <1>7, <1>8, <1>9 DEF ObservationNext, LoopStep

\* What QuietOK says of the screen that is judged.
LEMMA JudgedLooks ==
    ASSUME LoopOK, EventsOK, pc = "judge"
    PROVE  look # None /\ look = Signature(shown)
BY DEF LoopOK, SeenOK, QuietOK

\* The looks compared are those of the last two snapshots, whatever comes between.
LEMMA NextQuiet ==
    ASSUME EventsOK, LoopOK, [ObservationNext]_allVars PROVE QuietOK'
<1>0. /\ LoopTypes /\ QuietOK /\ clock \in Nat /\ started \in Nat
      /\ differed \in Nat \cup {None} /\ steady \in Nat \cup {None}
      /\ None \notin Nat /\ None \notin Int
      /\ P.grace \in Nat /\ P.window \in Nat
  BY ClockAndVersions, PolicyOfLoop DEF LoopOK, LoopTypes
<1>1. CASE Ask \/ Answer \/ LosePoll \/ Wake \/ FetchAgain \/ FetchFails \/ Decide
  <2>1. /\ UNCHANGED <<clock, kind, started, looks, shown, look, differed>>
        /\ refreshed' \in {None, refreshed} /\ steady' \in {None, steady}
        /\ pc # "judge" /\ pc' # "stable"
    BY <1>1 DEF Ask, Answer, LosePoll, Wake, FetchAgain, FetchFails, Decide, eventVars
  <2>2. StableIsQuiet'
    BY <2>1 DEF StableIsQuiet
  <2>3. Signature(shown') = Signature(shown)
    BY <2>1
  <2> QED BY <1>0, <2>1, <2>2, <2>3 DEF QuietOK
<1>2. CASE Fetch
  <2>1. /\ shown' = screen /\ refreshed' = clock /\ look' = Signature(screen)
        /\ pc = "fetch" /\ pc' = "judge"
        /\ UNCHANGED <<clock, kind, started, looks, steady>>
        /\ \/ look \in {None, Signature(screen)} /\ differed' = differed
           \/ look \notin {None, Signature(screen)} /\ differed' = clock
    BY <1>2 DEF Fetch, eventVars
  <2>2. Signature(screen) \in {0, 1} /\ screen # None
    BY ClockAndVersions, SignatureType
  <2>3. look' # None /\ shown' # None /\ look' = Signature(shown')
    BY <1>0, <2>1, <2>2
  <2>4. differed' # None => differed' <= clock
    BY <1>0, <2>1 DEF QuietOK
  <2>5. ASSUME steady # None, differed' # None, Signature(screen) = looks
        PROVE  differed' <= steady
    <3>1. CASE look \in {None, Signature(screen)} /\ differed' = differed
      BY <1>0, <2>1, <2>5, <3>1 DEF QuietOK
    <3>2. CASE look \notin {None, Signature(screen)} /\ differed' = clock
      <4>1. kind \in {"settle", "idle"} => look = looks
        BY <1>0, <2>1, <3>2 DEF QuietOK
      <4>2. kind \in {"settle", "idle"}
        BY <1>0, <2>5 DEF QuietOK
      <4> QED BY <2>5, <3>2, <4>1, <4>2
    <3> QED BY <2>1, <3>1, <3>2
  <2>6. StableIsQuiet'
    BY <2>1 DEF StableIsQuiet
  <2> QED BY <1>0, <2>1, <2>3, <2>4, <2>5, <2>6 DEF QuietOK
<1>3. CASE JudgeSettle
  <2> DEFINE since == Since(Signature(shown) = looks)
  <2>1. /\ pc = "judge" /\ kind = "settle" /\ steady' = since /\ looks' = Signature(shown)
        /\ pc' = IF LongEnough(since) THEN "stable" ELSE IF TimedOut THEN "timedout" ELSE "poll"
        /\ UNCHANGED <<clock, kind, started, refreshed, shown, look, differed>>
    BY <1>3 DEF JudgeSettle, Settles, eventVars
  <2>2. look # None /\ look = Signature(shown)
    BY <2>1, JudgedLooks
  <2>3. \/ since = None
        \/ Signature(shown) = looks /\ steady = None /\ since = clock
        \/ Signature(shown) = looks /\ steady # None /\ since = steady
    BY DEF Since
  <2> HIDE DEF since
  <2>4. since # None => since \in Nat /\ since <= clock
                        /\ (differed # None => differed \in Nat /\ differed <= since)
    BY <1>0, <2>3 DEF QuietOK
  <2>5. StableIsQuiet'
    <3> SUFFICES ASSUME pc' = "stable"
                 PROVE  /\ look = Signature(shown)
                        /\ differed # None => clock - differed >= P.window
                        /\ clock >= started + P.grace
      BY <2>1 DEF StableIsQuiet, P
    <3>1. since # None /\ clock >= started + P.grace /\ clock - since >= P.window
      BY <2>1 DEF LongEnough
    <3> QED BY <1>0, <2>2, <2>4, <3>1
  <2>6. Signature(shown') = Signature(shown)
    BY <2>1
  <2> QED BY <1>0, <2>1, <2>2, <2>4, <2>5, <2>6 DEF QuietOK
<1>4. CASE JudgeIdle
  <2> DEFINE since == IF Signature(shown) = looks /\ steady # None THEN steady ELSE clock
  <2>1. /\ pc = "judge" /\ kind = "idle" /\ steady' = since /\ looks' = Signature(shown)
        /\ pc' = "stable" => LongEnough(since) /\ Signature(shown) = looks
        /\ pc' # "judge"
        /\ UNCHANGED <<clock, kind, started, refreshed, shown, look, differed>>
    BY <1>4 DEF JudgeIdle, Pauses, eventVars
  <2>2. look # None /\ look = Signature(shown)
    BY <2>1, JudgedLooks
  <2>3. since \in Nat /\ since <= clock /\ (differed # None => differed \in Nat /\ differed <= since)
    BY <1>0 DEF QuietOK
  <2> HIDE DEF since
  <2>4. StableIsQuiet'
    <3> SUFFICES ASSUME pc' = "stable"
                 PROVE  /\ look = Signature(shown)
                        /\ differed # None => clock - differed >= P.window
                        /\ clock >= started + P.grace
      BY <2>1 DEF StableIsQuiet, P
    <3>1. clock >= started + P.grace /\ clock - since >= P.window
      BY <2>1 DEF LongEnough
    <3> QED BY <1>0, <2>2, <2>3, <3>1
  <2>5. Signature(shown') = Signature(shown)
    BY <2>1
  <2> QED BY <1>0, <2>1, <2>2, <2>3, <2>4, <2>5 DEF QuietOK
<1>5. CASE JudgeChange
  <2>1. /\ kind = "change" /\ pc' # "stable"
        /\ UNCHANGED <<clock, kind, refreshed, steady, looks, shown, look, differed>>
    BY <1>5 DEF JudgeChange, Pauses, eventVars
  <2>2. StableIsQuiet'
    BY <2>1 DEF StableIsQuiet
  <2>3. Signature(shown') = Signature(shown)
    BY <2>1
  <2> QED BY <1>0, <2>1, <2>2, <2>3 DEF QuietOK
<1>6. CASE ((AgentStep \/ DeviceStep) /\ Beside) \/ Tick
  <2>1. /\ pc \notin Done
        /\ UNCHANGED <<pc, kind, refreshed, steady, looks, shown, look, differed>>
    BY <1>6 DEF Beside, Tick, loopVars
  <2>2. StableIsQuiet'
    BY <2>1 DEF StableIsQuiet, Done
  <2>3. clock' \in Nat /\ clock' >= clock
    <3>1. Record \/ Ignore \/ Register \/ DetachReset \/ Reconcile => clock' = clock
      BY DEF Record, Ignore, Register, DetachReset, Reconcile
    <3>2. \A t \in timers : StartTimer(t) \/ RunTimer(t) => clock' = clock
      BY DEF StartTimer, RunTimer
    <3>3. DeviceStep => clock' = clock
      BY DEF DeviceStep, Change, Attach, Unregister, Shutdown
    <3>4. Tick => clock' = clock + 1
      BY DEF Tick
    <3> QED BY <1>0, <1>6, <3>1, <3>2, <3>3, <3>4 DEF AgentStep
  <2>4. Signature(shown') = Signature(shown)
    BY <2>1
  <2> QED BY <1>0, <2>1, <2>2, <2>3, <2>4 DEF QuietOK
<1>7. CASE UNCHANGED allVars
  <2>1. UNCHANGED <<clock, pc, kind, started, refreshed, steady, looks, shown, look, differed>>
    BY <1>7 DEF allVars, eventVars, loopVars
  <2> QED BY <1>0, <2>1 DEF QuietOK, StableIsQuiet, P
<1> QED
  BY <1>1, <1>2, <1>3, <1>4, <1>5, <1>6, <1>7 DEF ObservationNext, LoopStep

\* The loop begins with nothing heard and nothing owed.
LEMMA InitLoop == LoopInit => LoopOK
<1> SUFFICES ASSUME LoopInit PROVE LoopOK
  OBVIOUS
<1>1. /\ kind \in Loops /\ pc = "poll" /\ started = clock /\ clock = 0 /\ life = 0
      /\ cursor = 0 /\ refreshed = None /\ poll = NoPoll
      /\ looks \in {0, 1} /\ shown \in {None, 0}
      /\ steady = IF kind = "idle" THEN clock ELSE None
      /\ saw = [events |-> FALSE, resync |-> FALSE]
      /\ wake = 0 /\ tries = 0 /\ look = None /\ differed = None
      /\ heard = [life |-> 0, seq |-> 0, resets |-> 0, blind |-> FALSE]
  BY DEF LoopInit, EventInit, Source, Settles
<1>2. 0 \in Lives /\ 0 \in Versions /\ 0 \in 0..MaxClock /\ None \notin Int
  BY LivesAssumption, BoundsAssumption, EventNoneAssumption DEF Lives, Versions
<1>3. NoPoll \in Polls /\ NoPoll.asked <= NoPoll.until
  BY <1>2 DEF NoPoll, Polls
<1>4. saw \in Answers /\ heard \in Hearings /\ tries \in 0..MaxTries
  BY <1>1, <1>2 DEF Answers, Hearings, MaxTries
<1>5. LoopTypes
  BY <1>1, <1>2, <1>3, <1>4 DEF LoopTypes, Watching
<1>6. SeenOK
  BY <1>1 DEF SeenOK, Claim, Owed
<1>7. QuietOK
  BY <1>1, <1>2 DEF QuietOK, StableIsQuiet
<1> QED BY <1>5, <1>6, <1>7 DEF LoopOK

\* The loop, its polls and its cursor are always in order.
THEOREM LoopCorrect == ObservationSpec => [](EventsOK /\ CursorOK /\ LoopOK)
<1> DEFINE Inv == BuffersOK /\ EventsOK /\ PollOK /\ CursorOK /\ LoopOK
<1>1. LoopInit => Inv
  BY InitBuffers, InitEvents, InitPoll, InitCursor, InitLoop
<1>2. Inv /\ [ObservationNext]_allVars => Inv'
  <2> SUFFICES ASSUME Inv, [ObservationNext]_allVars PROVE Inv'
    OBVIOUS
  <2>1. BuffersOK' /\ EventsOK'
    BY NextBuffers, NextEvents DEF EventStep
  <2>2. PollOK' /\ CursorOK'
    BY NextPoll, NextCursor
  <2>3. LoopOK'
    BY NextTypes, NextSeen, NextQuiet DEF LoopOK
  <2> QED BY <2>1, <2>2, <2>3
<1>3. Inv => EventsOK /\ CursorOK /\ LoopOK
  OBVIOUS
<1> HIDE DEF Inv
<1> QED
  BY <1>1, <1>2, <1>3, PTL DEF ObservationSpec

\* No screen is judged that is older than an event the loop has consumed, for any
\* policy and any history of the agent, but after a blind poll.
THEOREM ConsumedIsSeenCorrect == ObservationSpec => []ConsumedIsSeen
<1>1. LoopOK => ConsumedIsSeen
  <2> SUFFICES ASSUME LoopOK, pc = "judge", heard.life = life, heard.seq > 0, ~heard.blind
               PROVE  shown >= buf.told[heard.seq]
    BY DEF ConsumedIsSeen
  <2>1. ~Owed
    BY DEF LoopOK, SeenOK, Owed, Done
  <2> QED BY <2>1 DEF LoopOK, SeenOK, Claim, buf
<1> QED
  BY <1>1, LoopCorrect, PTL

\* A screen is called stable or idle only after a window in which no snapshot that the
\* loop took looks otherwise than the one before, for any policy.
THEOREM StableIsQuietCorrect == ObservationSpec => []StableIsQuiet
<1>1. LoopOK => StableIsQuiet
  BY DEF LoopOK, QuietOK
<1> QED
  BY <1>1, LoopCorrect, PTL

\* A buffer in order is a buffer, and its history speaks of versions.
LEMMA BufferType ==
    ASSUME NEW b, NEW s \in Versions, BufferOK(b), ToldOK(b, s) PROVE b \in Buffer
<1> DEFINE told == b.told
           n == Len(told)
<1>1. told \in Seq(Nat) /\ n \in Nat /\ n = b.latest
  BY DEF ToldOK
<1>2. \A i \in 1..n : told[i] \in Versions
  BY <1>1, BoundsAssumption DEF ToldOK, Versions
<1>3. told = [i \in 1..n |-> told[i]]
  BY <1>1
<1> HIDE DEF told, n
<1>4. told \in [1..n -> Versions]
  BY <1>2, <1>3
<1>5. told \in Seq(Versions)
  BY <1>1, <1>4, SeqDef
<1> QED
  BY <1>5 DEF BufferOK, Buffer, told

\* The types of the agent and of the loop.
THEOREM LoopTypeCorrect == ObservationSpec => []LoopTypeOK
<1>1. BuffersOK /\ EventsOK /\ LoopOK => LoopTypeOK
  <2> SUFFICES ASSUME BuffersOK, EventsOK, LoopOK PROVE LoopTypeOK
    OBVIOUS
  <2>1. ServiceOK /\ TasksOK(cool, timers) /\ LoopTypes
    BY DEF EventsOK, LoopOK
  <2>2. recorded \in Versions
    BY <2>1, BoundsAssumption DEF ServiceOK, Versions
  <2>3. \A l \in Lives : buffers[l] \in Buffer
    BY <2>1, BufferType DEF BuffersOK, EventsOK, ServiceOK
  <2>4. buffers \in [Lives -> Buffer]
    BY <2>3 DEF BuffersOK
  <2>5. EventTypeOK
    <3>1. /\ clock \in 0..MaxClock /\ screen \in Versions
          /\ raw \in Seq([kind : Kinds, context : Contexts]) /\ Len(raw) <= 1
          /\ attached \in BOOLEAN /\ main \in {"idle", "register", "reset", "reconcile"}
          /\ last \in [context : Contexts \cup {None}, window : Contexts \cup {None},
                       focus : Contexts \cup {None}, status : BOOLEAN \cup {None}]
      BY <2>1 DEF ServiceOK, Posts, Memories
    <3>2. /\ cool \in [pending : BOOLEAN, context : Contexts \cup {None}, until : Nat,
                       active : Nat, next : Nat]
          /\ timers \subseteq [id : Nat, due : Nat, running : BOOLEAN]
      BY <2>1 DEF TasksOK, Cools, Tasks
    <3>3. resets \in Nat /\ life \in Lives
      BY DEF BuffersOK
    <3> QED BY <2>2, <2>4, <3>1, <3>2, <3>3 DEF EventTypeOK
  <2>6. /\ kind \in Loops
        /\ pc \in Done \cup {"poll", "polling", "asleep", "pause", "retry", "decide", "fetch", "judge"}
        /\ started \in 0..MaxClock /\ cursor \in Nat
        /\ refreshed \in Nat \cup {None} /\ steady \in Nat \cup {None}
        /\ looks \in {0, 1, None} /\ shown \in Versions \cup {None}
        /\ wake \in Nat /\ tries \in 0..MaxTries
        /\ look \in {0, 1, None} /\ differed \in Nat \cup {None}
    BY <2>1 DEF LoopTypes, Watching
  <2>7. /\ poll \in [from : Nat, until : Nat, life : Lives, asked : Nat, parked : BOOLEAN]
        /\ saw \in [events : BOOLEAN, resync : BOOLEAN]
        /\ heard \in [life : Lives, seq : Nat, resets : Nat, blind : BOOLEAN]
    BY <2>1 DEF LoopTypes, Polls, Answers, Hearings
  <2> QED BY <2>5, <2>6, <2>7 DEF LoopTypeOK
<1> QED
  BY <1>1, BuffersCorrect, LoopCorrect, PTL

=============================================================================
