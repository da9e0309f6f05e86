# androidctl in TLA+

A verification development for androidctl: a command line (`androidctl`) that
lets shells and agents drive an Android phone through a daemon on the host
(`androidctld`), which talks JSON-RPC over adb or LAN to an agent app on the
device. This directory holds TLA+ modules translated from the source, TLC
configurations that check them on small instances, and TLAPS proofs.

    tlc -workers 2 -config MCHostDaemon.cfg MCHostDaemon     # a run
    tlapm RuntimeKernel_proofs.tla                           # the proofs

`PROJECT.json` lists components, runs, mutants, findings, hazards, theorems and,
for every definition that models code, the lines it models.

## Inventory

| Component | State it keeps | Operations | What is hard about it | What makes it correct |
|---|---|---|---|---|
| CLI `androidctl` | none; reads `active.json`, starts daemons | discover or launch a daemon, bind and send a command, render the answer | races with other starters, a daemon that closes meanwhile, answers that come after the timeout | a command reaches a daemon of its workspace and owner; what is printed is true |
| HTTP server, ingress, closing gate | `_closing`, shutdown flags | one thread per request, `/health`, `/runtime/get`, `/runtime/close`, `/commands/run` | requests that pass the gate before a close and go on after it; shutdown from a handler thread | every request is answered; a successful close ends the daemon |
| Serial admission, command service | `_active_command` | admit, reject as busy, release | release on every error path; release before the closing gate | one command at a time works on the runtime |
| Runtime kernel | `WorkspaceRuntime`: status, connection, token, capabilities, transport, screen, sequence, lifecycle revision | connect in steps, rebuild a transport, refresh, attach a screenshot, drop authority, invalidate credentials, close, normalize a stale ready | device calls run outside the lock, writes fail, the process dies | nothing outlives its lifecycle; a ready runtime has a live device and a published screen |
| Persistence and artifacts | `runtime.json`, `obs-NNNNN.json/.xml`, screenshots | load, persist, stage, commit with backup, roll back, discard | several files and memory change together, any write can fail, crash in between | sequences are never reused; an authoritative screen has its files |
| Transports | adb forwards, endpoints | establish, close | an endpoint closed twice, or never | every open transport belongs to somebody who will close it |
| Handlers, action executor | progress lane, a command's own stages | connect, observe, screenshot, list-apps, ref actions, open, global | repairs, one resend, deadlines, answers lost after the device acted | the device acts at most once, on what the screen admits; the answer tells it |
| Wait loop, settle loop | cursor, stability clock | poll, fetch, judge | events dropped or reset, invalid snapshots, deadline | no event is slept over; every loop ends |
| Refs, semantic compiler | ref registry of the current screen | compile, reconcile refs, repair a ref, continuity | the same ref must not come to mean another element | refs are unique and stable or refused |
| Contracts and results | none | build and validate results, map errors to codes, tiers, exit codes | a result the contract refuses turns a success into a failure | every result a handler builds is accepted, and says what happened |
| Active slot | `owner.lock`, `active.json`, `active.lock`, `token.json` | acquire, recover a stale lock, publish, restore, release | lock files of processes that died, starters that race | one daemon owns a workspace |
| Agent: events | bounded buffer, sequence, reset boundary, cooldown | publish, long poll, reset | overflow, resets under a waiting poll, timers that are due already | who missed events is told to resync |
| Agent: snapshots | generation, publications in flight, retained snapshots | publish, find, reset with timeout | a reset waits without the lock and gives up | nothing of an old session is found after a reset; an answered snapshot can be acted on |
| Agent: RPC server | admission gate, pools, phase, attachment | admit, bind, execute with timeout, stop | a timeout whose task goes on, a stop with requests inside | a drained stop leaves nobody inside |
| Agent: screenshots | capture session, processor queue | take, await, encode, cancel | late callbacks, cancellation at every point | every hardware buffer is closed |
| Codecs, xml rendering, setup, release tools | none | conversions, scripts | - | not modelled |

Interaction: the CLI finds the daemon by `active.json` and posts requests. Each
request is a thread of the daemon. Commands and close pass serial admission;
`runtime/get` does not. Handlers share the one `WorkspaceRuntime` through the
kernel, whose lock is held for state changes and not for device calls; a lifecycle
lease tells a handler whether the runtime it comes back to is the one it left. On the
device every RPC is an HTTP thread that waits for a task on a pool; the main thread
attaches and detaches the accessibility service, resets events and snapshots with
it, and stops the server.

## Modules

    ScreenLedger            what clients are promised about screens
        ^ implemented by (property LedgerSpec of HostDaemon)
    HostDaemon              handler threads, admission, handlers, close, shutdown
        | extends
    RuntimeKernel           runtime object, files, transports, kernel operations

    Discovery               CLI clients that look for, launch and await a daemon
        | extends
    ActiveSlot              daemon processes and the three files they compete with

    ObservationLoop         settle and wait loops of the host at the agent's events
        | extends
    DeviceEvents            event pipeline of the agent

    ActionFlow              one ref or global action from command to answer
        | extends
    ActionRules             admission, routes, confirmation          (no state)
        | extends
    RefRegistry             reconcile, repair, continuity            (no state)
        | extends
    ScreenCompiler          screen of a raw snapshot                 (no state)

    CliCommand              invocations of androidctl at one daemon
        | extends
    CommandResults          results of the handlers                  (no state)
        | extends
    CommandContract         commands, families, accepted results     (no state)

    ErrorCodes              code and execution outcome of an error   (no state;
                            extended by ActionRules and CommandResults)

    AgentServer             RPC server, screenshots, main thread of the agent
        | extends
    SnapshotRegistry, ThreadPool                                     (no state)

    RuntimeKernel_proofs, HostDaemon_proofs, ActiveSlot_proofs,
    ObservationLoop_proofs, ObservationScreens_proofs, ActionFlow_proofs,
    CliCommand_proofs, AgentServer_proofs                            TLAPS

The groups meet in few places. `Launch` to `MarkOwner` of `ActiveSlot` precede the
`HostInit` of `HostDaemon`, its flag `stopping` is what tells a daemon to `Stop`, and
its `Stop` is `Exit` or `Crash` here. A refresh of `HostDaemon` is `Publish` in
`ActionFlow`, which adds what the screen shows; its `settle` and `wait` stages are
`ObservationLoop`, whose fetches are the `snapshot` requests of `AgentServer`;
`CliCommand` replaces the kernel by its status and screen and adds the two ends of
the wire. They share no variable: neither the slot and the kernel nor the executor
and the event buffer look at each other's state, and what passes between them
(a screen, an error, a verdict) is a choice on the side that receives it.

### RuntimeKernel

| In the model | In the code |
|---|---|
| `rt` | the `WorkspaceRuntime` object; `screen` stands for `screen_state`, `current_screen_id`, snapshots and `ref_registry`, which the code always changes together; `token` and `capabilities` are named by the device they are of |
| `disk`, `files` | `runtime.json`; the published `obs-NNNNN.json` and `.xml` |
| `open` | transports (adb forwards) that exist; an endpoint can be given again once it is closed |
| `lock` | holder of `runtime.lock` during a refresh commit; all other critical sections are one action |
| `lease`, `target`, `held`, `client`, `fetched`, `txn` | locals of a handler thread: lifecycle lease, device it connects to, its `ConnectorHandle`, its RPC client, the last snapshot, its refresh |
| `issued` | auxiliary: sequence of the last refresh a client was told of |

The refresh commit is split at each file operation (`StartCommit`,
`PublishJson`, `PublishXml`, `PersistRefresh`), and any of them may fail
(`RollbackRefresh`) or be cut short by a crash. Every `commit_runtime` may write
or raise (`ok`), with memory already changed, as in the code. The order of
operations inside one handler is left open here: a caller is any thread that uses
the kernel, as the lifecycle leases are meant to allow. `InvalidateRuntime` is an
operation of the kernel that the daemon as built never calls.

### HostDaemon

Adds `pc` (the stage of a handler thread), the request and its progress, admission
(`active`), the progress lane, and the flags of the server. Its device stages reuse
the kernel's actions: a stage says which of them may come next. A handler returns
through `Return` (its `finally`) and `ReleaseSlot` (that of
`begin_serial_command`). `Stop` ends the process at any time, asked for or not, and
the next one starts from the files.

Abstractions, beyond contents and wording:

- a settle, with its polls and fetches, is one fetch; a fetch with retries on an
  invalid package name is one fetch;
- an action creates its RPC client once and keeps it; the model acquires it again
  after a repair, which yields the same transport because nobody else is admitted;
- what a wait waits for, what a postcondition finds and what the device shows are
  nondeterministic;
- closing a transport succeeds (the code ignores the exit status of `adb forward
  --remove`; that adb cannot be executed at all is a hazard on the list);
- a restart starts with no transports: what the dead process left with the adb
  server is not modelled.

### ScreenLedger

Two variables: the last sequence handed out and the current one. A new screen has
a larger sequence than every earlier one and is current until truth is lost.

### ActiveSlot

| In the model | In the code |
|---|---|
| `pc`, `task` | where the main thread of a daemon is between `server.start` and the end of `server.stop`, and why it takes `active.lock`: `publish`, `clear` after a failed start or a lost publication (`fail`), `clear` of a stop, `restore` |
| `seen`, `target`, `aged` | locals: the pid or record read from a file, the record to restore, whether the stat found `owner.lock` older than 2 s |
| `ownerOf`, `listening` | `--owner-id`; the daemons whose HTTP server answers a health probe |
| `failures`, `stops`, `crashes`, `timeouts` | what went wrong so far, each within a bound |
| `overlooked` | auxiliary: a publication got no answer in time from the daemon that ran |
| `owner`, `active`, `lock` | `owner.lock` (empty, a pid, a record), `active.json`, `active.lock` (stamped with a pid or not); `old` is the age that matters to recovery |

The files are shared by processes, not threads, and nothing makes two system calls
atomic: `acquire` is ten actions, `_active_lock` seven. Unlinks are by name, so they
remove whatever file has the name at that moment, and a pid is written to the file
that was created, which may have lost its name. An identity stands for pid and start
time and is not used again while a file or a local still names it.

A probe waits 0.15 s (`ownership_probe.py:49`). A daemon that listens answers in time
(`ProbeOwner`, `ProbeActive`, `ProbeRecall`) or too late (`ProbeTimesOut`, at most
`MaxTimeouts` times); a daemon that does not listen never answers. Too late counts as
unreachable: a starter that judges `owner.lock` has no live evidence, and evicts it if it
is 2 s old or its pid is gone; one that publishes sees no conflict
(`active_registry.py:132`) and overwrites the record of the daemon, which goes on to
serve; one that is refused restores nothing. The second of these makes two daemons run
(`MCActiveSlotTimeout.cfg`), so `OneRuntime` and `RuntimeIsFound` hold until it happens to
a daemon that runs: `overlooked` remembers that, and no action reads it. The first and
the third are harmless to both, however often they happen, and so is the second when
the daemon that does not answer is one whose start failed.

Abstractions: all daemons of a workspace have its one token, so an answer is a match
when owner and workspace agree. Malformed files do not occur: the writes are atomic
replaces. Ages pass by `AgeOwner` (any time: a start may take longer than 2 s) and
`AgeLock` (only for a creator that is dead: a live one does not pause 30 s between
two system calls). Waiting 2 s for `active.lock` behind live processes, which hold
it for a fraction of a second, counts as a failure (`Starves`); behind a lock that
was left behind, it always happens.

### Discovery

A client is a shell or agent that repeats its command: look at `active.json`, ask the
daemon for its health, launch one when there is none or it does not answer, look again
for up to 5 s, give up. It owns the daemons that it launches. Its request for health may
time out as well (`AskTimesOut`), which counts as no answer and within `MaxTimeouts`;
`MaxTroubles` bounds stops, crashes and timeouts together.

### DeviceEvents and ObservationLoop

| In the model | In the code |
|---|---|
| `screen`, `recorded`, `raw` | what the device shows (a version), what the agent was told of, the accessibility event on its way |
| `buffers[life]` | `DeviceEventBuffer`: latest number, reset boundary, the numbers kept; `told` is auxiliary |
| `last`, `cool`, `timers` | what the aggregator remembers against repetitions; the invalidation cooldown and its scheduled tasks, of which a cancelled one may be running already |
| `attached`, `main`, `resets`, `life` | the accessibility service; the steps of attach and detach on the main thread; how many pipelines there were |
| `kind`, `pc`, `cursor`, `refreshed`, `steady`, `looks` | the locals of `ActionSettler.settle` or `WaitRuntimeLoop.run` |
| `poll`, `wake`, `tries` | the poll in flight (parked or not), the end of a sleep, transient invalid snapshots of this fetch |
| `look`, `differed`, `heard` | auxiliary: what the loop has seen and what it was told |

A poll looks at the buffer and parks in one step under the buffer's monitor; what is
published or reset signals it. Time is a clock of coarse ticks; a policy of the
host is given in ticks in the proportions of `runtime_policy.py`. A snapshot is
the version of the screen it was taken of, and two versions may look alike.

### ScreenCompiler, RefRegistry, ActionRules, ActionFlow

`Compile` takes a raw snapshot (positions in the tree, texts that are equal or not)
through roles, labels, states, actions, scores, targets, groups, blocking, submit
relations and the screen's fingerprint, as `SemanticCompiler.compile` does.
`Reconcile` carries refs to the next screen, greedily and in the order of the ref
numbers; `Repair` finds the element of an old ref by evidence and thresholds;
`Continuity` compares two screens. All are operators; the screens of
`MCActionFlow` are the compiled ones, which `SnapshotAssumption` makes TLC check
against `Compile`.

`ActionFlow` runs one command at a time over them: `seen` holds the published screens,
`cur` the authoritative one, `job` the command, its basis, what the artifact lookup
found, the route and the position it will name, `performed` what the device did.
Damaged artifacts, a repair with one refresh, the precheck, one resend of a target
the device calls stale, a lost answer, a lost screen after the action and the
confirmation of each kind of action are steps of their own. The device may show
any of its screens each time it is asked.

Abstractions: texts are values, labels are not cut, hashes are equality, the bounds of
nodes are small rectangles.

### CommandContract, CommandResults, ErrorCodes, CliCommand

`CommandContract` has the catalog of commands and `Accepted`, what the validators of
results refuse. `CommandResults` builds the result of every handler for each way
it may end, with the continuity truth between the screen the command started from and the
current one. `ErrorCodes` maps the error that ended a command to its code and to
`notAttempted`, `attempted` or `dispatched`.

`CliCommand` has one record for each invocation (where it is, what it was bound to,
whether the daemon took it and the device acted, what came back, what is shown) and
of the daemon the status, the current screen and the command it works on. An
invocation looks for a daemon, asks for its runtime, binds to the live screen,
posts, and waits up to its read timeout while the daemon goes on. Writing an
artifact may fail before and after the device acted.

### ThreadPool, SnapshotRegistry, AgentServer

| In the model | In the code |
|---|---|
| `workload` | what the requests call and what the main thread is told to do; chosen once |
| `handle` | attachment generation and whether the handle is revoked (`AccessibilityAttachmentHandle`) |
| `reg`, `published` | `SnapshotRegistry` with its tracker and store, whose `LinkedHashMap` is a map from each id to its place in the order of insertion; auxiliary: what was published since the last reset |
| `phase`, `gate` | `ServerPhase`; `RpcRequestAdmissionGate` |
| `methods`, `screens` | the thread pools of the methods and of the screenshot processor |
| `call[r]`, `task[r]`, `shot[r]` | the HTTP thread of a request; its task; its capture session, its callback and its processor task |
| `main` | where the main thread is in a stop or an attachment change |

`Accepts`, `Submitted` and `Taken` follow `ThreadPoolExecutor`: a new thread up to the
core size, then the queue, then threads up to the maximum, then rejection. A task
that is cancelled in the queue keeps its place. `TimeOut` may come at any moment, and
the task of a request that timed out goes on unless it has not begun. The main thread
is busy during a stop, so the screenshot callbacks, which it runs, wait.

Abstractions: parsing, authorization and payloads are left out; whether a
node still matches the fingerprint it had is a choice of outcome; the agent starts
running and attached, and a server is not started again.

## Runs

| Run | Bounds | What it shows |
|---|---|---|
| `runtime_kernel` | 2 callers, 1 device, 2 ports, 2 snapshots, 1 sequence, 2 closes or invalidations, 1 failing write, 1 crash | the five kernel invariants under callers in any order |
| `host_safety` | 2 threads, all 10 requests, 2 devices, 2 ports, 1 snapshot, 2 sequences, 3 closes, 1 failing write, 1 crash | invariants of the daemon, and that it implements `ScreenLedger` |
| `host_liveness` | 2 threads, 7 requests (one of each shape of handler), 1 device, 1 sequence, 1 failing write, no crash | every request is answered, a close ends the daemon |
| `slot_pair` | 2 daemons, 2 owners, 1 failure, 2 stops, 2 crashes, 2 probes that time out, any exit | two daemons alone never both get `active.lock`, whatever one of them leaves; both run, or the one that runs is not found, only after a publication overlooked it |
| `discovery_faults` | 1 client, 4 identities, 2 processes, 1 crash, stop or late answer at any step | nothing a dead or stopping daemon leaves, and no slow one, locks clients out |
| `agent_events` | buffer of 2, cooldown 1, 2 contexts, 2 changes, 2 attachment changes, 1 destruction, clock to 4; a settle, a wait for idle, a wait for a change | what is missed is told, what is consumed is seen, nobody sleeps over news, the loop ends |
| `action_flow` | 5 screens of a mail form, a dialog, a list and a search; 4 publications, 1 damaged artifact | at most one dispatch, on an admitted element; the answer says what was done |
| `action_refs` | 4 screens between which refs change places; 5 publications, 1 damaged artifact | a ref names what it was last shown as; a screen id is looked up at its newest publication |
| `cli_commands` | 2 clients with 14 commands, 3 invocations, 3 screens, 1 death of the daemon | every result is accepted; continuity, outcome and tier are true |
| `agent_server` | 3 requests in four mixes, 1 to 2 method threads, queues of 1, 2 retained snapshots, 2 attachment changes, a stop | snapshots usable, the gate counts, screenshots closed |
| `slot_crash` | 3 daemons, 1 crash | two daemons run after a crash (finding) |
| `action_admission` | as `action_flow` | a repair that finds its source screen current sends without admission (finding) |

Why these bounds are enough. Every race in the daemon is between two parties (two
refreshes, a rebuild and a close, a command and a close or a read), so two callers
show it; two ports let an endpoint be given again while another is in use; a
sequence that is handed out again after a restart finds the file it overwrites, two
lifecycles end under callers that still hold leases of earlier ones, and the daemon's
two sequences give a refresh a predecessor to roll back to; one failing write and one
crash can fall on any step, and the states they lead to are explored to the end.
Callers, ports, snapshots and devices are interchangeable, and no property singles
one out; the runs with temporal properties under fairness use no symmetry.

For the slot, a recovery involves up to three parties: who left the file, who judges
it and who takes it meanwhile. `slot_pair` has two on purpose: there all three
invariants survive crashes, stops and exits at any moment, and probes that time out:
two of those let a starter first evict a slow daemon's `owner.lock` and then overlook it,
one lets it evict and then lose. `slot_crash` and `MCActiveSlotRestore.cfg` show that a
third party is all it takes to lose the invariants. In
`discovery_faults` each of the three files can name a dead daemon, so that there are
more identities than processes: with too few, a launch would come to nothing for
lack of a pid, which the liveness property would mistake for a lockout.
`QuietExits` says that no process ends in the instant between reading its pid in a
lock and looking it up; only the proofs need it, and the two crash and restore
configurations show that the counterexamples do not depend on it.

For the events, a buffer of two overflows with two changes and a reset, and one
attachment lets a second pipeline hear a cursor of the first; two changes give a
window that is broken once it began. A clock of four is longer than every policy
in ticks, so that each deadline, cooldown and window ends. For the actions, four
publications are a source, a screen in between, its return and the screen after the
action; five let a ref be taken over, freed and given again. The forms were chosen so
that each kind of action is admitted on one screen and refused on another. For the
CLI, two invocations overlap and a third finds what they left. For the agent, three
tasks on one to two threads and a queue of one reach every answer of the pool; with two
retained snapshots the third publication trims; two attachment changes are a detach
and an attach. Each mix of methods runs with the main thread's tasks that concern
it, and requests with the same method are interchangeable.

Deadlock is not checked where the system really may stop: bounds on sequences,
revisions, faults, crashes, publications and changes are used up, a daemon was closed,
an invocation has printed, a loop has ended, every request of the agent was answered. It
is checked in `discovery_faults`.

`MaxRevision` in `host_liveness` is the number of threads plus the number of
faults: each thread can close once before the gate shuts and each fault can void
one close, so no close is ever held back by the bound, which a liveness property
would mistake for a stuck daemon.

## Fairness

`Fairness` of `HostDaemon` is weak fairness of each handler thread's steps and of the
passing of a wait's deadline. Threads of `ThreadingHTTPServer` run until they return;
the kernel's lock is held only around local operations; device calls have socket
timeouts, which is why a call that need never be answered (`Answer` is not fair by
itself) always has a failing alternative. Clients owe nothing. Each thread's steps are
one fair action: no outcome is singled out, so nothing is assumed about a device that
keeps answering polls without bringing what a wait waits for.

`DiscoverySpec` assumes that processes and clients go on until they are killed (weak
fairness of each daemon's own steps and of each client's) and that locks age. A
client's `GiveUp` is strongly fair: it is enabled whenever the client is between two
looks, and the 5 s end however often it looks. Failures, starvation, late answers, stops
and crashes owe nothing.

`ObservationSpec` assumes that the loop's thread runs (weak fairness of `LoopStep`, in
which a parked poll is answered when its time is over, as the agent's long poll and
the socket both have a timeout) and that the clock goes on. The device, the
accessibility service and the agent's timers owe nothing: `LoopEnds` does not depend
on news, nor on a stable screen.

## Proofs

`RuntimeKernel_proofs` proves for every set of callers, devices, ports and snapshots
and all bounds, from `NoneAssumption` and `BoundAssumption` (None is not a value of
anything, bounds are naturals):

- `KernelInvariance`: `Spec => []KernelInv`;
- `KernelTypes`, `LifecycleFence`, `PublishedScreens`, `PersistedSequence`,
  `StaleReadyIsBare`: the five invariants of the run `runtime_kernel`.

None of them is inductive: in the middle of a commit the runtime and the files are
neither the old ones nor the new ones. `KernelInv` therefore states them of what
both would go back to if the commit failed now (`Settled`, `SettledFiles`), and adds
what makes a commit undoable (`CommitOK`: its lease is current, the runtime is the
saved one up to its screen, replaced files hold the new screen), who holds the lock
(`LockOK`), that leases are not of the future (`LeaseOK`), that an attempt that has
begun has a handle (`AttemptOK`), and that nobody with a current lease is about to
give a device to a runtime that is ready without one (`ReadyOK`). Each conjunct has
a step lemma with one case per action; `SettledStep` and `ReadyStep` are the ones
that carry the argument. With the lock free, `Settled` is `rt`, and the invariants
follow.

`HostDaemon_proofs` proves `DaemonUsesKernel`: `HostSpec => Spec`. Every step of a
handler thread is a step of the kernel or leaves the kernel alone (one lemma for
each group of actions), so what the kernel promises to callers that come in any
order it promises to the daemon (`DaemonKeepsKernelInvariants`), for any number of
threads. The daemon only restricts the order of the kernel's calls, so this needs no
invariant.

What is the daemon's own rests on `HostInv`:

- `HostInvariance`: `HostSpec => []HostInv`;
- `HostTypes`, `SerialAdmission` (`OneCommandAtATime`), and `ScreensAreLedger`
  (`HostSpec => LedgerSpec`).

`OneCommandAtATime` does not say why a thread that gets its lease is the admitted one,
nor why nobody has a lease when the slot is released or the runtime is closed.
`AdmissionOK` adds the stages: outside certain stages a command has the slot, in
others (`Outside`) nobody has a lease, and a thread never comes to `lease` without
admission unless it serves a `runtime/get`, which has no such stage. Actions inside a
call are alike to the admission (`Works` in the proof module), so it takes one lemma
for all of them and one case for each action between two calls. The ledger needs
`SequenceOK`: a refresh under way carries the sequence after the settled one. For
callers in any order that is false (two refreshes stage the same sequence, and the
kernel would hand it out twice); serial admission makes it inductive, since whoever
has staged a screen is the only one in a call. `OnlyCommitsHandOut` shows that all
other steps, crashes included, keep the settled sequence and grant no authority, and
`CommitHandsOut` what the last step of a commit does.

The last sections of `HostDaemon_proofs` are about the device behind the runtime, for any
number of threads, devices and ports:

- `DeviceInvariance`: `HostSpec => [](HostInv /\ DeviceOK)`;
- `RuntimeOfOneDevice` (`OneDevice`), `NoForwardForgotten` (`TransportsAccountedFor`),
  `ReadyServes` (`ReadyIsLive`);
- `NeverStale`: while no thread has the lock, the runtime is never ready without a screen
  and a device. So `normalize_stale_ready_runtime`, which repairs such a runtime, is a
  guard that the daemon never needs; `StaleReadyHasNoDevice` alone holds when callers
  use the kernel in any order.

A thread that takes a second step with what it got from the runtime in a first one (a
handle, a client, a screen it fetched) is the danger. `DeviceOK` says of each thread that
this belongs to the runtime as long as the thread's lease is current (`ServedByRuntime`),
and that what a connect attempt has built so far is of the one device it is for
(`AttemptServes`); `RuntimeServes` says the same of the runtime that a failed commit goes
back to. Serial admission is needed: only one thread at a time has a current
lease and a call under way, so nobody else changes the runtime meanwhile.

`ActiveSlot_proofs` is about daemons that start at once, with any number of daemons
and owners, any failures, any starvation and any probes that time out, but with none told
to stop and none dying half-way (`Undisturbed`; with either, the counterexamples
show that the invariants are lost):

- `SlotTypes`: `SlotSpec => []TypeOK`, without that assumption;
- `LockExcludes` (`OneInSection`), with stops too, as long as nobody dies (`NobodyDies`);
- `SlotInvariance`: `SlotSpec => []SlotInv`;
- `OneDaemonRuns` (`OneRuntime`), `PublishedDaemonIsFound` (`RuntimeIsFound`).

The last two, and the part `RuntimeInv` of `SlotInv`, carry a second hypothesis in the
formula itself, `~overlooked`: until a publication's probe of the daemon that runs times
out. It cannot be dropped (`MCActiveSlotTimeout.cfg`). It says nothing of the other probes:
a late answer to the probe of `owner.lock`, which costs a serving daemon that lock, is
covered by the theorems.

That `owner.lock` excludes nobody (any starter may be evicted after 2 s, and unlinks
what is not its own) is why the argument rests on `active.lock` alone. `LockInv`: a
live process in its critical section holds the lock and nobody judges it stale.
`SectionInv`: what a section has read in `active.json` is therefore still there when
it writes, and it writes over the record of no daemon that runs. `FoundInv`, from
which both theorems follow: who runs answers, and `active.json` names it, so that a
publication that finds the record of a daemon that runs gets an answer from it, or
overlooks it and ends the invariant (`OverlookedForGood`: for good). `RecordInv`
covers the one write without a check: whatever a refused starter restores is the
record of a daemon that serves, and so is what is there already. `TaskInv` says who
is in a section for what. There is one step lemma for each, with one case per
action.

`ObservationLoop_proofs` is about the agent's event buffer and whoever polls it, for any
capacity, policy and number of changes, attachments and pipelines:

- `BuffersCorrect` (the events kept are the last numbers, without a gap, since the
  boundary) and `NoSilentGapCorrect`;
- `NoSleeperWithNewsCorrect`, `CursorHearsResetCorrect`.

Every step of the agent lets a buffer only grow (`Grows`), which is why a poll that found
nothing may sleep until it is signalled (`PollOK`), and why a cursor from before a reset
is below the new boundary (`CursorOK`).

`AgentServer_proofs` is about any number of requests, any sizes of the pools and any
history of the main thread:

- `AgentTypes`, `ServerInvariant`;
- `DrainedMeansDoneCorrect`, `ScreenshotsClosedCorrect`, `SnapshotsUsableCorrect`.

`GateOK` says from which step of a stop on the gate lets nobody in, and that the stop
was not forced only if nobody was inside then; the count goes through the cardinality
of a set that grows and shrinks by one. `ShotOK` names for each stage of a method who
will close its screenshot: the waiter that finds it stored, the method that holds it, or
the processor that encodes it; a callback that is still to come belongs to a session
that waits or is abandoned.

`SnapshotsUsable` needs `RegistryInv`: each snapshot in the store has the place it was
published at, ids are handed out once, and a snapshot in flight is being encoded by a
thread of the pool (`PoolSize`, `Runs`). Whatever a publication drops is the oldest that
is not in flight, so at most `MaxThreads - 1` older ones stay (`FewInFlight`: the thread
that publishes pins no other), all else in the store is newer, and newer snapshots have
different later places: there are at least `Limit - MaxThreads + 1` of them
(`EnoughNewer`). An early loss to a slow answer is thus bounded by the size of the pool.

`ObservationScreens_proofs` is about which changes reach the loop, for any policy and any
history of the agent. It assumes `BoundsAssumption` (bounds and durations are naturals)
and `EventNoneAssumption` (None is not a context of the device):

- `EventsCorrect`, `NoChangeForgottenCorrect`, `OneTimerCorrect`: a change that the
  service was told of is `Announced`, or the one task that may still publish
  (`Tells`) will announce it. The tasks of earlier attachments find that they are stale,
  and the cooldown never outlives its task.
- `LoopCorrect`, with the consequences `ConsumedIsSeenCorrect`, `StableIsQuietCorrect` and
  `LoopTypeCorrect`: what the loop has seen is a state of the device, not older than
  what it has consumed (`SeenOK`, by what it may claim of each event, `Claim`), and a
  quiet window holds no snapshot that differs (`QuietOK`).

`ActionFlow_proofs` is about any screens, commands, capabilities and bounds. It assumes
`NodesAssumption` besides the assumptions the runs evaluate already: the nodes of a
compiled screen have different rids, those of the snapshot it was compiled from, and the
candidates for refs are among them, as `Compile` makes it.

- `ReconcileFaithful`: reconciliation gives each candidate exactly one ref and keeps the
  refs it carries over; `CarriedMatchesCorrect`: each of these names an element that
  matches what it named on the screen before.
- `FlowCorrect`: `Spec => []FlowOK`, with `FlowTypeCorrect`, `OneDispatchCorrect`,
  `AdmissibleDispatchCorrect`, `NewestSourceCorrect`, `OutcomeTruthfulCorrect`,
  `NoScreenFromBeforeCorrect` and `RefsFaithfulCorrect`.

`Carried` and `Reconcile` go through the refs and the candidates one by one, so what they
yield needs an induction, and the library's rules, which take a predicate, cannot be
used. `LeastElement` (from the fact that no finite set maps one-to-one into a smaller one)
takes their place: the numbers for which a statement fails would have a least one.
`Recursion` shows with it that a function defined from its own earlier values exists, so
that the `CHOOSE` behind a recursive function has something to choose. `FlowOK` says
of every published screen that its refs and candidates are in one-to-one correspondence,
and of the command at each place of the program what it has done (`RunningOK`), from
which screen it has its ref (`RepairOK`, `SendOK`) and that only a submit has a route
(`KindOK`), which is why the one exception of `AdmissibleDispatch` is the finding
`action_admission` and nothing else.

`CliCommand_proofs` is about what androidctl prints, for any number of invocations, any
commands, screens and pairs of screens whose refs carry over. It assumes only
`ScreensAssumption`: `NoScreen` is not one of `Screens`.

- `EveryAnswerFits` (`AnswersFit`), `ContinuityIsTruthful` (`ContinuityTruthful`),
  `ShownIsTruthful` (`ShownTruthful`).

The lemmas about results come first: the continuity computed of two screens fits them
(`ContinuityFits`, `ActionTruthFits`), and every result a handler builds of a truth that
fits is one that `Accepts` takes (`SuccessAccepted`, `FailureAccepted`,
`RetainedAnswered`), by cases on the family of the command, so that no assumption on
which commands are given is needed. `CliOK` is the inductive invariant: what an
invocation was bound to, what it was answered and what it shows agree with each other
and with what the device did for it (`InvocationOK`); the daemon's job has the source it
needs and, while it is awaited, is the command of its owner (`JobOK`); and whoever is
served is that owner (`ServedOK`), so an answer goes to the invocation it is true of.
When the daemon goes away it cuts off at once everyone who deals with it (`Cut`), and no
job is left.

Model-checked only:

- liveness (`EveryRequestAnswered`, `CloseShutsDown`, `NeverLockedOut`, `LoopEnds`), out
  of the prover's reach;
- `RefsStay`, which is not true of all screens: it holds where the greedy order of
  reconciliation and that of continuity agree (see below), and the run shows it for
  screens whose elements differ enough.

Every other property of a passing run is stated by a theorem. TLC has checked the
inductive invariants `HostInv`, `ServerInv`, `RegistryInv`, `CliOK` and `FlowOK` (but for
the shape of its bindings) under the bounds of `host_safety`, `agent_server`,
`cli_commands`, `action_flow` and `action_refs` as well, and `SlotInv` for three
undisturbed daemons of two owners with two failures and three probes that time out.

## Findings

- `slot_crash`: a dead daemon's `active.lock` is judged and unlinked in separate steps;
  two starters recover it one after the other, the second removes the new lock of the
  first, and both publish.
- `action_admission`: a ref command whose source screen is not current is repaired with
  a refresh; when the device went back to the source screen meanwhile, validation
  returns early because the ids are equal (`capabilities.py:186`), and a request is sent that
  nothing has admitted.

### Counterexamples outside the runs

These configurations are not among the runs. TLC finds the property violated by the
code as it is; some are about a promise that the code makes nowhere in these words.

| Configuration (module) | Property | What it shows |
|---|---|---|
| `MCHostDaemonClose` (`MCHostDaemon`) | `NoDispatchAfterClose` | the closing gate is looked at before admission and set after the slot was released; a command in between is dispatched after the close succeeded |
| `MCHostDaemonGet` (`MCHostDaemon`) | `RuntimeGetIsConsistent` | `runtime/get` pairs a screen id read under the lock with a status read after it |
| `MCActiveSlotRestore` (`MCActiveSlot`) | `RestingRuntimeIsFound` | a refused starter restores the record of the daemon it probed, which has stopped meanwhile, over that of its successor; `active.json` then names no live daemon while one serves |
| `MCActiveSlotTimeout` (`MCActiveSlot`) | `OneRunsAlways` | without a crash or a stop: a starter that was evicted after 2 s publishes, the other one probes it, gets no answer within 0.15 s, and publishes as well (`active_registry.py:132`); both run, against `setup-and-workspace.md:78`, "A workspace can be owned by one active AndroidCtl runtime at a time." |
| `MCActionFlowReplay` (`MCActionFlow`) | `ReplayFaithful` | one screen id is published twice with a ref on different elements, and only the newest artifact of an id is found; `observe-action-wait.md:97` recommends an explicit `--screen-id` for "replay against a known observed screen" |
| `MCActionFlowTruth` (`MCActionFlow`) | `NotAttemptedMeansNot` | the answer to a request that the device carried out is lost: the result says `notAttempted` and the old screen stays authoritative (`command_views.py:45-97`) |
| `MCCliRetry` (`MCCliCommand`) | `RetryIsSafe` | "retry the command after the daemon is available" is shown after the 5 s read timeout while the daemon goes on, and for an artifact that could not be written after the device acted (`xml-errors-artifacts.md:66-67`) |
| `MCObservationShutdown` (`MCObservation`) | `AttachmentForcesResync` | `DeviceEventHubTest.kt:122` expects a resync for an existing cursor after an attachment change; when the service is destroyed (`DeviceEventHub.shutdown`) a new buffer starts at 0, and a cursor that is not beyond it goes on |
| `MCAgentServerBound` (`MCAgentServer`) | `ActsThroughItsService` | a snapshot bound to the old attachment reads the generation after the reset began and is published under the new one; an action of the new attachment may name it. The fingerprint of the node is compared before it acts |

`MCDiscoverySessions.cfg` passes: two sessions do not keep each other from an answer.

Seen while modelling, without a configuration:

- Reconciliation is greedy in the order of the ref numbers: the ref of a vanished
  element with a lower number may take an unchanged element from its own. Continuity
  matches in the order of the candidates, so it may call screens stable whose refs
  moved; a freed number is given at once to another element, which a result
  calls the same ref; twins within 8 px may swap.
- The confirmation of focus and type looks up the position of the old handle in the newer
  snapshot.
- `OPEN_FAILED` is reported as dispatched although nothing was opened. A command without
  a screen is bound to the screen that is live at `runtime/get`, not the one the user saw.
- A relative wait whose source is no longer current answers `DEVICE_UNAVAILABLE` although a
  screen is current; a daemon restarted with the persisted status `connected` makes the
  CLI say that the screen is not ready.
- A workspace that cannot be written ends a connect with `ARTIFACT_ROOT_UNWRITABLE` and
  exit code 1, a screenshot with `WORKSPACE_STATE_UNWRITABLE` and 3.
- A poll is blind to events that the answer gives it no sign of (`heard.blind`;
  `ConsumedIsSeen` excepts them): after a resync the first poll starts from 0, and a
  second reset before it removes an event unseen; after a destroyed service the new
  pipeline counts from 0, and a cursor that was at 0 goes on as if nothing had been
  there. A screen judged after such a poll may be older than the change it stood for.
- A screenshot may be closed twice when a cancellation meets a processor that has
  entered but not started to encode. A stop while a callback is pending drains only by its
  timeout, since the callback needs the main thread. `shutdownNow` drops queued tasks,
  whose callers get the timeout; a request that timed out may act after a drained stop.

## Plan

1. done: `RuntimeKernel`, `HostDaemon`, `ScreenLedger`; kernel and daemon invariance,
   the ledger refinement.
2. done: `ActiveSlot` and `Discovery`; one daemon at a time among undisturbed starters,
   proved, until a publication overlooks it. Left: tokens, and pids that are used again.
3. done: `DeviceEvents` with `ObservationLoop`; gaps, sleepers and resets proved.
4. done: `SnapshotRegistry`, `ThreadPool`, `AgentServer`; gate, screenshots and snapshots
   proved. Left: a server that is started again while tasks of its first life run.
5. done: `ScreenCompiler`, `RefRegistry`, `ActionRules`, `ActionFlow`.
6. done: `CommandContract`, `CommandResults`, `CliCommand`.
7. done: proofs about devices and transports (`HostDaemon_proofs`), what the loop has
   seen (`ObservationScreens_proofs`), commands and refs (`ActionFlow_proofs`), what the
   CLI prints (`CliCommand_proofs`).
8. A transport whose close fails (`kernel.py:505`), the owner and launch specification
   of the CLI, the device RPC client with its codecs.

## Not modelled

Codecs, payload parsers and the xml of screens are stateless conversions whose
correctness is their wording; the validators of public screens check shapes that
`Compile` yields by construction. Setup is an interactive script over adb. Release tools and
skills are not part of the running system. Calls into Android services have no state
of their own beyond the outcomes that `AgentServer` and `ActionFlow` choose from.
Token rotation, the foreground service and the probes of the accessibility setting are
left out of the agent.
