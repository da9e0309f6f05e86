-------------------------- MODULE ObservationLoop ---------------------------
(***************************************************************************)
(* The loops of the host that watch the device: ActionSettler.settle after *)
(* an action, and WaitRuntimeLoop.run for a wait command.  Each polls the  *)
(* event buffer of the agent with a cursor, fetches a snapshot when it has *)
(* to, and ends when the screen is stable, when it shows what the wait is  *)
(* for, at the deadline, or with an error.                                 *)
(*                                                                         *)
(* A snapshot is the version of the screen it was taken of; two versions   *)
(* may look the same (Signature).                                          *)
(***************************************************************************)
EXTENDS DeviceEvents

CONSTANTS
    Loops,      \* "settle", "idle", "change": settling, and two kinds of wait
    Policy      \* ObservationPolicy of each, in ticks

ASSUME PolicyAssumption ==
    \A k \in Loops : Policy[k] \in [grace : Nat, interval : Nat \ {0}, window : Nat,
                                    total : Nat, slice : Nat \ {0}]

VARIABLES
    kind,       \* the loop that runs
    pc,
    started,
    cursor,     \* after_seq
    refreshed,  \* last_refresh_at
    steady,     \* stable_since of settle, idle_stable_since of a wait for idle
    looks,      \* the signature compared against: latest_signature, idle_signature
    shown,      \* version of the latest snapshot
    poll,       \* the poll in flight
    saw,        \* the outcome of the poll: saw_events, need_resync
    wake,       \* a sleep ends at this tick
    tries,      \* transient invalid snapshots of this fetch
    look,       \* history: how the last snapshot that the loop took looks,
    differed,   \* and when it last took one that looks otherwise than the one before
    heard       \* history: the pipeline, the seq and the resets at the last answer,
                \* and whether something was consumed that no cursor tells of

loopVars == <<kind, pc, started, cursor, refreshed, steady, looks, shown, poll, saw, wake,
              tries, look, differed, heard>>
allVars == <<eventVars, loopVars>>

MaxTries == 2       \* TRANSIENT_INVALID_SNAPSHOT_MAX_RETRIES
Source == 0         \* the signature of the screen a wait for a change starts from

Signature(version) == version % 2
P == Policy[kind]
Settles == kind = "settle"
Done == {"stable", "matched", "timedout", "failed"}

\* Mutant of TimedOut: every refresh prolongs the deadline.
TimedOutSinceRefresh == refreshed # None /\ clock >= refreshed + P.total

TimedOut == clock >= started + P.total
Least(a, b) == IF a < b THEN a ELSE b
PollWait == Least(P.slice, IF TimedOut THEN 0 ELSE started + P.total - clock)
NoPoll == [from |-> 0, until |-> 0, life |-> 0, asked |-> 0, parked |-> FALSE]

\* begin: a settle compares with the screen before the action, a wait has judged
\* the cached screen; the screen may look otherwise by now.
LoopInit ==
    /\ EventInit
    /\ kind \in Loops /\ pc = "poll"
    /\ started = clock /\ cursor = 0 /\ refreshed = None
    /\ looks \in IF kind = "change" THEN {Source} ELSE {0, 1}
    /\ shown = IF Settles THEN None ELSE 0
    /\ steady = IF kind = "idle" THEN clock ELSE None
    /\ poll = NoPoll
    /\ saw = [events |-> FALSE, resync |-> FALSE]
    /\ wake = 0 /\ tries = 0
    /\ look = None /\ differed = None
    /\ heard = [life |-> 0, seq |-> 0, resets |-> 0, blind |-> FALSE]

-----------------------------------------------------------------------------
(* ObservationLoop                                                         *)

\* Mutant of ShouldRefresh: events alone are no reason.
ShouldRefreshByTime ==
    \/ saw.resync
    \/ refreshed = None
    \/ clock - refreshed >= P.interval

\* should_refresh
ShouldRefresh ==
    \/ saw.resync
    \/ refreshed = None
    \/ saw.events
    \/ clock - refreshed >= P.interval

\* observe_stability; the wait for idle keeps the same account by itself.
Since(unchanged) == IF ~unchanged THEN None ELSE IF steady = None THEN clock ELSE steady

LongEnough(since) ==
    /\ since # None
    /\ clock >= started + P.grace
    /\ clock - since >= P.window

-----------------------------------------------------------------------------
\* Mutant of Waits: the need of a resync is looked at only after the wait.
WaitsWithoutEvents(b, after) == After(b, after) = {}

\* DeviceEventBuffer.poll looks at the buffer before it waits.
Waits(b, after) == ~HasNews(b, after)

\* _poll: nothing is asked when no time is left.
Ask ==
    /\ pc = "poll"
    /\ saw' = [events |-> FALSE, resync |-> FALSE]
    /\ IF PollWait = 0
       THEN pc' = "decide" /\ UNCHANGED poll
       ELSE /\ pc' = "polling"
            /\ poll' = [from |-> cursor, until |-> clock + PollWait, life |-> life,
                        asked |-> clock, parked |-> Waits(buf, cursor)]
    /\ UNCHANGED <<eventVars, kind, started, cursor, refreshed, steady, looks, shown, wake,
                   tries, look, differed, heard>>

\* What an empty answer after the first snapshot does not tell of: the cursor is 0, or
\* it is of another pipeline and the numbers meet.
Unheard(events) == ~events /\ refreshed # None /\ (poll.from = 0 \/ poll.life # heard.life)

\* DeviceEventBuffer.poll answers at once, when it is woken, or at its deadline.
\* apply_poll_result; without events and without time passed the host sleeps.
Answer ==
    /\ pc = "polling"
    /\ ~poll.parked \/ clock >= poll.until
    /\ LET b == buffers[poll.life]
           events == After(b, poll.from) # {}
           resync == NeedResync(b, poll.from)
       IN /\ saw' = [events |-> events, resync |-> resync]
          /\ cursor' = IF resync THEN 0 ELSE b.latest
          /\ IF resync THEN refreshed' = None ELSE UNCHANGED refreshed
          /\ IF resync /\ Settles THEN steady' = None ELSE UNCHANGED steady
          /\ heard' = [life |-> poll.life, seq |-> b.latest, resets |-> resets,
                       blind |-> ~resync /\ (heard.blind \/ Unheard(events))]
          /\ IF ~events /\ clock = poll.asked
             THEN pc' = "asleep" /\ wake' = poll.until
             ELSE pc' = "decide" /\ UNCHANGED wake
    /\ poll' = NoPoll
    /\ UNCHANGED <<eventVars, kind, started, looks, shown, tries, look, differed>>

\* The poll fails or its answer is lost: settle sleeps and goes on, a wait fails.
LosePoll ==
    /\ pc = "polling" /\ clock <= poll.until
    /\ poll' = NoPoll
    /\ IF Settles THEN pc' = "asleep" /\ wake' = clock + (poll.until - poll.asked)
                  ELSE pc' = "failed" /\ UNCHANGED wake
    /\ UNCHANGED <<eventVars, kind, started, cursor, refreshed, steady, looks, shown, saw,
                   tries, look, differed, heard>>

Wake ==
    /\ pc \in {"asleep", "pause", "retry"} /\ clock >= wake
    /\ pc' = CASE pc = "asleep" -> "decide" [] pc = "pause" -> "poll" [] pc = "retry" -> "fetch"
    /\ wake' = 0
    /\ UNCHANGED <<eventVars, kind, started, cursor, refreshed, steady, looks, shown, poll, saw,
                   tries, look, differed, heard>>

\* Settle without a reason to refresh polls again or ends at the deadline; a wait
\* judges the screen it has.
Decide ==
    /\ pc = "decide"
    /\ pc' = CASE ShouldRefresh -> "fetch"
               [] ~ShouldRefresh /\ ~Settles -> "judge"
               [] OTHER -> IF TimedOut /\ shown # None THEN "timedout" ELSE "poll"
    /\ tries' = 0
    /\ UNCHANGED <<eventVars, kind, started, cursor, refreshed, steady, looks, shown, poll, saw,
                   wake, look, differed, heard>>

\* Mutant of MayRetry: the retries are counted from zero.
MayRetryOnceMore == tries <= MaxTries /\ ~TimedOut

\* fetch_with_transient_invalid_snapshot_retry
MayRetry == tries < MaxTries /\ ~TimedOut

Fetch ==
    /\ pc = "fetch" /\ attached
    /\ shown' = screen
    /\ refreshed' = clock
    /\ look' = Signature(screen)
    /\ IF look \in {None, Signature(screen)} THEN UNCHANGED differed ELSE differed' = clock
    /\ heard' = [heard EXCEPT !.blind = FALSE]
    /\ pc' = "judge"
    /\ UNCHANGED <<eventVars, kind, started, cursor, steady, looks, poll, saw, wake, tries>>

FetchAgain ==
    /\ pc = "fetch" /\ MayRetry
    /\ tries' = tries + 1
    /\ wake' = clock + 1
    /\ pc' = "retry"
    /\ UNCHANGED <<eventVars, kind, started, cursor, refreshed, steady, looks, shown, poll, saw,
                   look, differed, heard>>

FetchFails ==
    /\ pc = "fetch"
    /\ pc' = "failed"
    /\ UNCHANGED <<eventVars, kind, started, cursor, refreshed, steady, looks, shown, poll, saw,
                   wake, tries, look, differed, heard>>

\* The end of an iteration of a wait: the deadline, or a short sleep.
Pauses == IF TimedOut THEN pc' = "timedout" /\ UNCHANGED wake
                      ELSE pc' = "pause" /\ wake' = clock + 1

\* observe_stability of settle
JudgeSettle ==
    /\ pc = "judge" /\ Settles
    /\ LET since == Since(Signature(shown) = looks)
       IN /\ steady' = since
          /\ pc' = IF LongEnough(since) THEN "stable" ELSE IF TimedOut THEN "timedout" ELSE "poll"
    /\ looks' = Signature(shown)
    /\ UNCHANGED <<eventVars, kind, started, cursor, refreshed, shown, poll, saw, wake, tries,
                   look, differed, heard>>

\* Mutant of JudgeIdle: a changed screen does not start the window anew.
JudgeIdleKeepingSince ==
    /\ pc = "judge" /\ kind = "idle"
    /\ steady' = IF steady = None THEN clock ELSE steady
    /\ IF LongEnough(steady') /\ Signature(shown) = looks
       THEN pc' = "stable" /\ UNCHANGED wake ELSE Pauses
    /\ looks' = Signature(shown)
    /\ UNCHANGED <<eventVars, kind, started, cursor, refreshed, shown, poll, saw, tries, look, differed, heard>>

\* _evaluate_idle_wait: a changed screen starts the window at once.
JudgeIdle ==
    /\ pc = "judge" /\ kind = "idle"
    /\ steady' = IF Signature(shown) = looks /\ steady # None THEN steady ELSE clock
    /\ IF LongEnough(steady') /\ Signature(shown) = looks
       THEN pc' = "stable" /\ UNCHANGED wake ELSE Pauses
    /\ looks' = Signature(shown)
    /\ UNCHANGED <<eventVars, kind, started, cursor, refreshed, shown, poll, saw, tries, look, differed, heard>>

\* _evaluate_screen_change_wait
JudgeChange ==
    /\ pc = "judge" /\ kind = "change"
    /\ IF Signature(shown) # Source THEN pc' = "matched" /\ UNCHANGED wake ELSE Pauses
    /\ UNCHANGED <<eventVars, kind, started, cursor, refreshed, steady, looks, shown, poll, saw,
                   tries, look, differed, heard>>

LoopStep ==
    \/ Ask \/ Answer \/ Wake \/ Decide \/ Fetch \/ FetchAgain \/ FetchFails
    \/ JudgeSettle \/ JudgeIdle \/ JudgeChange

-----------------------------------------------------------------------------
(* The agent and the loop together.  What the agent puts into the buffer   *)
(* wakes the poll that is parked on it (eventPublished.signalAll).         *)

Signalled ==
    poll' = [poll EXCEPT !.parked = @ /\ buffers'[poll.life].latest = buffers[poll.life].latest]

Tick ==
    /\ pc \notin Done /\ clock < MaxClock
    /\ clock' = clock + 1
    /\ UNCHANGED <<screen, recorded, raw, attached, main, resets, life, buffers, last, cool,
                   timers, loopVars>>

Beside == pc \notin Done /\ Signalled /\ UNCHANGED <<kind, pc, started, cursor, refreshed, steady, looks, shown,
                                   saw, wake, tries, look, differed, heard>>

ObservationNext ==
    \/ LoopStep \/ LosePoll
    \/ AgentStep /\ Beside
    \/ DeviceStep /\ Beside
    \/ Tick

\* The host goes on, a poll is answered, time passes.
ObservationSpec ==
    /\ LoopInit /\ [][ObservationNext]_allVars
    /\ WF_allVars(LoopStep) /\ WF_allVars(Tick)

-----------------------------------------------------------------------------
LoopTypeOK ==
    /\ EventTypeOK
    /\ kind \in Loops
    /\ pc \in Done \cup {"poll", "polling", "asleep", "pause", "retry", "decide", "fetch", "judge"}
    /\ started \in 0..MaxClock /\ cursor \in Nat
    /\ refreshed \in Nat \cup {None} /\ steady \in Nat \cup {None}
    /\ looks \in {0, 1, None} /\ shown \in Versions \cup {None}
    /\ poll \in [from : Nat, until : Nat, life : Lives, asked : Nat, parked : BOOLEAN]
    /\ saw \in [events : BOOLEAN, resync : BOOLEAN]
    /\ wake \in Nat /\ tries \in 0..MaxTries
    /\ look \in {0, 1, None} /\ differed \in Nat \cup {None}
    /\ heard \in [life : Lives, seq : Nat, resets : Nat, blind : BOOLEAN]

\* A poll does not sleep on news: what is published or reset while it waits wakes
\* it, also between its look at the buffer and its wait (DeviceEventBuffer.poll).
NoSleeperWithNews == poll.parked => ~HasNews(buffers[poll.life], poll.from)

\* The loop judges no screen that is older than an event it has consumed: the
\* cursor passes an event only when a snapshot follows (apply_poll_result,
\* should_refresh).  Blind is the poll from cursor 0 after a resync, as what comes and
\* is reset before it leaves no trace, and the poll of a new pipeline whose numbers
\* have reached the cursor of the old one.
ConsumedIsSeen ==
    pc = "judge" /\ heard.life = life /\ heard.seq > 0 /\ ~heard.blind
        => shown >= buf.told[heard.seq]

\* A cursor from before an attachment change is told to start over, as long as
\* the pipeline is the same (requiresResyncAfterReset).
CursorHearsReset ==
    [][Answer /\ poll.from > 0 /\ heard.life = life /\ heard.resets < resets
        => saw'.resync]_allVars

\* A screen is called stable or idle only when the loop itself took a snapshot,
\* and no snapshot it took during the window looks otherwise than the one before, and for a settle
\* the grace time is over (observe_stability, _evaluate_idle_wait).
StableIsQuiet ==
    pc = "stable" =>
        /\ look = Signature(shown)
        /\ differed # None => clock - differed >= P.window
        /\ clock >= started + P.grace

\* Every settle and every wait ends, whatever the agent answers: with a verdict,
\* at its deadline or with an error.
LoopEnds == <>(pc \in Done)

\* DeviceEventHubTest.kt:122: an attachment change forces a resync for an existing
\* cursor, also when the service is destroyed in between.
AttachmentForcesResync ==
    [][Answer /\ poll.from > 0 /\ heard.resets < resets => saw'.resync]_allVars
=============================================================================
