------------------------------ MODULE CliCommand -------------------------------
(***************************************************************************)
(* One run of androidctl from the command line to the printed answer, with *)
(* several of them at one daemon: find or launch the daemon, ask for its   *)
(* runtime, bind the command to the screen that is live there, send it,    *)
(* wait for the answer or give up, print.                                  *)
(*                                                                         *)
(* The daemon is what this needs of it: a runtime with a status and a      *)
(* current screen, and one command at a time.  How a command goes about    *)
(* its work is the matter of other modules; here it ends in one of the     *)
(* ways its handler provides for, each with the screen that it leaves.     *)
(***************************************************************************)
EXTENDS CommandResults

CONSTANTS
    Clients,        \* invocations that may overlap
    Requests,       \* for each of them, the commands it may be run with
    Screens,        \* screens of the device, by id
    MaxRuns,        \* bound: invocations altogether
    MaxKills        \* bound: deaths of the daemon

ASSUME ScreensAssumption == NoScreen \notin Screens

VARIABLES
    runtime,        \* [up, stopping, status, screen, connected] of the daemon
    job,            \* the command that holds the serial admission, or NoJob
    cli,            \* for each client, its invocation
    runs, kills
vars == <<runtime, job, cli, runs, kills>>

NoJob == [owner |-> "none"]
NoAnswer == [kind |-> "none"]

\* An invocation before it does anything.  What it may not know of itself is kept
\* for the properties: whether the daemon took the command, and whether the device
\* acted for it.
Fresh(cmd, pc) ==
    [pc |-> pc, cmd |-> cmd, bound |-> NoScreen, served |-> FALSE, acted |-> FALSE,
     answer |-> NoAnswer, step |-> "parse", shown |-> NoAnswer]

\* The runtime of a daemon that starts with the status that was persisted.
Restored(status) ==
    [up |-> TRUE, stopping |-> FALSE, screen |-> NoScreen, connected |-> FALSE,
     status |-> IF status = "ready" THEN "broken" ELSE status]
Off(status) == [Restored(status) EXCEPT !.up = FALSE]

Dropped == [runtime EXCEPT !.status = "connected", !.screen = NoScreen]
Cleared(status) ==
    [runtime EXCEPT !.status = status, !.screen = NoScreen, !.connected = FALSE]
Showing(screen) == [runtime EXCEPT !.status = "ready", !.screen = screen]

Init ==
    /\ runtime = Off("new")
    /\ job = NoJob
    /\ cli = [c \in Clients |-> Fresh([name |-> "none"], "idle")]
    /\ runs = 0 /\ kills = 0

-----------------------------------------------------------------------------
(* What the CLI makes of an answer *)

Public(code, exit, retry) == [code |-> code, exit |-> exit, retry |-> retry]

\* _DAEMON_CODE_TABLE: the public code, the exit code, and whether the hint tells
\* the user to retry.
DaemonCodeTable ==
    [DAEMON_BAD_REQUEST |-> Public("DAEMON_UNAVAILABLE", 3, FALSE),
     WORKSPACE_BUSY |-> Public("WORKSPACE_BUSY", 1, FALSE),
     RUNTIME_BUSY |-> Public("RUNTIME_BUSY", 1, TRUE),
     RUNTIME_NOT_CONNECTED |-> Public("DEVICE_NOT_CONNECTED", 3, FALSE),
     SCREEN_NOT_READY |-> Public("SCREEN_UNAVAILABLE", 1, FALSE),
     REF_RESOLUTION_FAILED |-> Public("REF_NOT_FOUND", 1, FALSE),
     WORKSPACE_UNAVAILABLE |-> Public("WORKSPACE_UNAVAILABLE", 3, FALSE),
     ARTIFACT_ROOT_UNWRITABLE |-> Public("WORKSPACE_STATE_UNWRITABLE", 3, FALSE),
     DEVICE_DISCONNECTED |-> Public("DEVICE_NOT_CONNECTED", 3, FALSE),
     DEVICE_AGENT_UNAVAILABLE |-> Public("DEVICE_AGENT_UNAVAILABLE", 3, FALSE),
     DEVICE_AGENT_VERSION_MISMATCH |-> Public("DEVICE_AGENT_VERSION_MISMATCH", 3, FALSE),
     DEVICE_AGENT_UNAUTHORIZED |-> Public("DAEMON_UNAVAILABLE", 3, FALSE),
     ACCESSIBILITY_NOT_READY |-> Public("ACCESSIBILITY_NOT_READY", 1, FALSE),
     DAEMON_UNAUTHORIZED |-> Public("DAEMON_UNAVAILABLE", 3, FALSE),
     INTERNAL_COMMAND_FAILURE |-> Public("DAEMON_UNAVAILABLE", 3, TRUE),
     DEVICE_RPC_TRANSPORT_RESET |-> Public("DAEMON_UNAVAILABLE", 3, TRUE)]

\* Errors of the CLI's own: the daemon cannot be reached, anything else.
Unreachable == [kind |-> "error", code |-> "UNREACHABLE"]
Misused == [kind |-> "error", code |-> "USAGE_ERROR"]

\* map_exception
PublicError(code) ==
    IF code = "USAGE_ERROR" THEN Public("USAGE_ERROR", 2, FALSE)
    ELSE IF code \in DOMAIN DaemonCodeTable THEN DaemonCodeTable[code]
    ELSE Public("DAEMON_UNAVAILABLE", 3, TRUE)

\* Mutant of Tier: the code alone tells how far the command came.
TierOfCode(code, step) ==
    IF code = "USAGE_ERROR" THEN "usage"
    ELSE IF code \in {"RUNTIME_NOT_CONNECTED", "SCREEN_NOT_READY"}
    THEN "preDispatch" ELSE "outer"

\* _error_tier
Tier(code, step) ==
    IF code = "USAGE_ERROR" THEN "usage"
    ELSE IF step = "bind" /\ code \in {"RUNTIME_NOT_CONNECTED", "SCREEN_NOT_READY"}
    THEN "preDispatch" ELSE "outer"

\* _failure_exit_code
ResultExit(r) ==
    IF r.ok THEN 0
    ELSE IF /\ Family(r.command) = "retained"
            /\ r.code \in {"WORKSPACE_STATE_UNWRITABLE", "DEVICE_AGENT_UNAUTHORIZED",
                           "DEVICE_AGENT_VERSION_MISMATCH"}
    THEN 3 ELSE 1

\* render_command_outcome
RenderedResult(r) ==
    [kind |-> "result", result |-> r, exit |-> ResultExit(r), retry |-> FALSE]

\* render_exception
RenderedError(code, step) ==
    LET public == PublicError(code)
    IN  [kind |-> "error", code |-> public.code, exit |-> public.exit,
         retry |-> public.retry, tier |-> Tier(code, step)]

\* The static output when the answer cannot be written.
StaticFailure == [kind |-> "static", exit |-> 3, retry |-> FALSE]

-----------------------------------------------------------------------------
(* The CLI up to the request *)

Goes(c, from, to) == cli[c].pc = from /\ cli' = [cli EXCEPT ![c].pc = to]

Answered(c, answer, step) ==
    cli' = [cli EXCEPT ![c].pc = "answered", ![c].answer = answer, ![c].step = step]

\* Everyone who waits for a daemon that goes away is told by the connection.
Cut ==
    [c \in Clients |->
        IF cli[c].pc \in {"found", "bound", "served"}
        THEN [cli[c] EXCEPT !.pc = "answered", !.answer = Unreachable, !.step = "run",
                            !.acted = IF job # NoJob /\ job.awaited /\ job.owner = c
                                      THEN job.acted ELSE @]
        ELSE cli[c]]

Invoke(c) ==
    /\ cli[c].pc \in {"idle", "shown"}
    /\ runs < MaxRuns
    /\ runs' = runs + 1
    /\ \E cmd \in Requests[c] : cli' = [cli EXCEPT ![c] = Fresh(cmd, "started")]
    /\ UNCHANGED <<runtime, job, kills>>

\* An option that does not parse, or a payload that the contract refuses.
Misuse(c) ==
    /\ cli[c].pc = "started"
    /\ Answered(c, Misused, "parse")
    /\ UNCHANGED <<runtime, job, runs, kills>>

\* resolve_daemon_client: the daemon that is there, or a new one.
Discover(c) ==
    /\ cli[c].cmd.name # "close"
    /\ Goes(c, "started", "found")
    /\ runtime' = IF runtime.up THEN runtime ELSE Restored(runtime.status)
    /\ UNCHANGED <<job, runs, kills>>

DiscoverFails(c) ==
    /\ cli[c].pc = "started"
    /\ \E code \in {"WORKSPACE_BUSY", "LAUNCH_FAILED"} :
          Answered(c, [kind |-> "error", code |-> code], "discover")
    /\ UNCHANGED <<runtime, job, runs, kills>>

\* run_close_command: no daemon is closed already.
CloseFinds(c) ==
    /\ cli[c].pc = "started" /\ cli[c].cmd.name = "close"
    /\ IF runtime.up
       THEN Goes(c, "started", "bound")
       ELSE Answered(c, ResultAnswer(RetainedResult("close", "")), "discover")
    /\ UNCHANGED <<runtime, job, runs, kills>>

LiveScreen == IF runtime.status = "ready" THEN runtime.screen ELSE NoScreen

\* bind_screen_relative_command with the answer of runtime/get.
Bind(c) ==
    LET cmd == cli[c].cmd
        bound == IF cmd.given # NoScreen THEN cmd.given
                 ELSE IF TakesSource(cmd) THEN LiveScreen ELSE NoScreen
    IN  /\ cli[c].pc = "found" /\ runtime.up
        /\ IF runtime.stopping
           THEN Answered(c, ErrorAnswer("RUNTIME_BUSY"), "get")
           ELSE IF NeedsSource(cmd) /\ bound = NoScreen
           THEN Answered(c, ErrorAnswer(IF runtime.status \in {"ready", "connected"}
                                        THEN "SCREEN_NOT_READY"
                                        ELSE "RUNTIME_NOT_CONNECTED"), "bind")
           ELSE cli' = [cli EXCEPT ![c].pc = "bound", ![c].bound = bound]
        /\ UNCHANGED <<runtime, job, runs, kills>>

\* The daemon takes the request: it is busy, or the command becomes its job, with
\* the basis that the handler captures of its source.
Serve(c) ==
    /\ cli[c].pc = "bound" /\ runtime.up
    /\ IF runtime.stopping
       THEN Answered(c, ErrorAnswer("RUNTIME_BUSY"), "run") /\ UNCHANGED job
       ELSE IF job # NoJob
       THEN Answered(c, BusyAnswer(cli[c].cmd.name), "run") /\ UNCHANGED job
       ELSE /\ cli' = [cli EXCEPT ![c].pc = "served", ![c].served = TRUE]
            /\ job' = [owner |-> c, awaited |-> TRUE, cmd |-> cli[c].cmd, acted |-> FALSE,
                       bound |-> cli[c].bound, begun |-> FALSE,
                       basis |-> SourceBasis(cli[c].cmd, cli[c].bound, runtime.screen)]
    /\ UNCHANGED <<runtime, runs, kills>>

\* The read timeout of the CLI: the daemon goes on with the command.
GiveUp(c) ==
    /\ cli[c].pc = "served"
    /\ cli' = [cli EXCEPT ![c].pc = "answered", ![c].answer = Unreachable,
                          ![c].step = "run", ![c].acted = job.acted]
    /\ job' = [job EXCEPT !.awaited = FALSE]
    /\ UNCHANGED <<runtime, runs, kills>>

Show(c) ==
    /\ cli[c].pc = "answered"
    /\ cli' = [cli EXCEPT ![c].pc = "shown",
                          ![c].shown = IF cli[c].answer.kind = "result"
                                       THEN RenderedResult(cli[c].answer.result)
                                       ELSE RenderedError(cli[c].answer.code, cli[c].step)]
    /\ UNCHANGED <<runtime, job, runs, kills>>

ShowFails(c) ==
    /\ cli[c].pc = "answered"
    /\ cli' = [cli EXCEPT ![c].pc = "shown", ![c].shown = StaticFailure]
    /\ UNCHANGED <<runtime, job, runs, kills>>

-----------------------------------------------------------------------------
(* The daemon: the ways a command ends *)

Running(commands) == job # NoJob /\ job.cmd.name \in commands
IsRef == job.cmd.name \in RefCommands
Actions == RefCommands \cup GlobalCommands \cup {"open"}

\* The job ends with the answer and the runtime it leaves; nobody may wait for it
\* any more.
End(after, answer, acted) ==
    /\ runtime' = after
    /\ job' = NoJob
    /\ cli' = IF job.awaited
              THEN [cli EXCEPT ![job.owner].pc = "answered", ![job.owner].answer = answer,
                               ![job.owner].step = "run", ![job.owner].acted = acted]
              ELSE cli
    /\ UNCHANGED <<runs, kills>>

\* Screens that the repair of a ref may publish before the action is sent.
RepairedTo ==
    IF IsRef /\ job.bound # runtime.screen THEN Screens ELSE {runtime.screen}
CanAct == runtime.connected /\ (IsRef => runtime.screen # NoScreen)

RefusalCodes ==
    IF ~runtime.connected THEN {"RUNTIME_NOT_CONNECTED"}
    ELSE IF IsRef /\ runtime.screen = NoScreen THEN {"SCREEN_NOT_READY"}
    ELSE {"DEVICE_DISCONNECTED", "DEVICE_AGENT_CAPABILITY_MISMATCH"}
            \cup (IF IsRef THEN {"REF_STALE", "REF_RESOLUTION_FAILED", "TARGET_BLOCKED",
                                 "TARGET_NOT_ACTIONABLE"} ELSE {})
            \cup (IF job.cmd.name = "open" THEN {"OPEN_FAILED"} ELSE {})

\* Refused before the device did anything.
Refuse ==
    /\ Running(Actions) /\ ~job.acted
    /\ \E code \in RefusalCodes, s \in IF CanAct THEN RepairedTo ELSE {runtime.screen} :
          End(IF s = runtime.screen THEN runtime ELSE Showing(s),
              ActionFails(job.cmd, job.basis, s, code, FALSE, FALSE), FALSE)

\* _try_focused_input_noop_success
AlreadyFocused ==
    /\ Running({"focus"}) /\ ~job.acted /\ CanAct /\ job.bound = runtime.screen
    /\ End(runtime, ActionSucceeds(job.cmd, job.basis, runtime.screen, "notAttempted",
                                   NoTarget), FALSE)

\* action_perform returned; after a global action no screen is current any more.
Act ==
    /\ Running(Actions) /\ ~job.acted /\ CanAct
    /\ job' = [job EXCEPT !.acted = TRUE]
    /\ runtime' \in IF job.cmd.name \in GlobalCommands THEN {Dropped}
                    ELSE {IF s = runtime.screen THEN runtime ELSE Showing(s) : s \in RepairedTo}
    /\ UNCHANGED <<cli, runs, kills>>

\* The device did it, and its answer was lost.
AnswerLost ==
    /\ Running(Actions) /\ ~job.acted /\ CanAct
    /\ End(runtime, ActionFails(job.cmd, job.basis, runtime.screen,
                                "DEVICE_RPC_TRANSPORT_RESET", FALSE, FALSE), TRUE)

\* build_action_target_payload for the screen s that the action led to.
Targets(s) ==
    IF job.cmd.name \notin {"focus", "type", "submit"} THEN {NoTarget}
    ELSE {[status |-> status, source |-> job.basis.source, next |-> s, subject |-> 1,
           ref |-> IF status = "sameRef" THEN 1 ELSE IF status = "successor" THEN 2 ELSE 0] :
             status \in {"sameRef", "successor"} \cup
                        IF job.cmd.name = "submit" THEN {"gone", "unconfirmed"} ELSE {}}

Confirmed ==
    /\ Running(Actions) /\ job.acted
    /\ \E s \in Screens : \E target \in Targets(s) :
          End(Showing(s), ActionSucceeds(job.cmd, job.basis, s, "dispatched", target), TRUE)

UnconfirmedCodes ==
    CASE job.cmd.name = "open" -> {"OPEN_FAILED"}
      [] job.cmd.name = "type" -> {"TYPE_NOT_CONFIRMED"}
      [] job.cmd.name = "submit" -> {"SUBMIT_NOT_CONFIRMED", "TARGET_NOT_ACTIONABLE"}
      [] OTHER -> {"ACTION_NOT_CONFIRMED", "TARGET_NOT_ACTIONABLE"}

\* The screen afterwards was published, and does not show the effect.
Unconfirmed ==
    /\ Running(Actions) /\ job.acted
    /\ \E s \in Screens, code \in UnconfirmedCodes :
          End(Showing(s), ActionFails(job.cmd, job.basis, s, code, TRUE, FALSE), TRUE)

\* The screen afterwards could not be had, or the agent refused the token.
ScreenLost ==
    /\ Running(Actions) /\ job.acted
    /\ \/ End(Dropped, ActionFails(job.cmd, job.basis, NoScreen,
                                   "DEVICE_RPC_TRANSPORT_RESET", TRUE, TRUE), TRUE)
       \/ End(Cleared("broken"), ActionFails(job.cmd, job.basis, NoScreen,
                                   "DEVICE_AGENT_UNAUTHORIZED", TRUE, FALSE), TRUE)

\* The screen cannot be written to its files: nothing is published.
ArtifactFails ==
    /\ \/ Running(Actions) /\ job.acted
       \/ Running({"observe", "wait"}) /\ runtime.connected
    /\ End(runtime, ErrorAnswer("ARTIFACT_WRITE_FAILED"), job.acted)

Observe ==
    /\ Running({"observe"}) /\ runtime.connected
    /\ \E s \in Screens : End(Showing(s), ObserveSucceeds(job.basis, s), FALSE)

ObserveFailed ==
    /\ Running({"observe"})
    /\ \E code \in IF runtime.connected THEN {"DEVICE_DISCONNECTED", "ACCESSIBILITY_NOT_READY"}
                   ELSE {"RUNTIME_NOT_CONNECTED"} :
          End(runtime, ObserveFails(job.basis, code), FALSE)

\* _validate_relative_wait_entry: the source must be the current screen.
WaitEntered ==
    runtime.connected /\ (Relative(job.cmd) =>
                             runtime.screen # NoScreen /\ runtime.screen = job.bound)

WaitMatches ==
    /\ Running({"wait"}) /\ WaitEntered
    /\ \E s \in Screens :
          /\ job.cmd.until = "screen-change" => s # job.bound
          /\ End(Showing(s), WaitSucceeds(job.cmd, job.basis, s), FALSE)

\* It times out on the last screen it published, if any, or loses the device.
WaitEnds ==
    /\ Running({"wait"}) /\ WaitEntered
    /\ \E after \in {runtime} \cup {Showing(s) : s \in Screens},
          code \in {"WAIT_TIMEOUT", "DEVICE_DISCONNECTED"} :
          End(after, WaitFails(job.basis, after.screen, code), FALSE)

WaitRefused ==
    /\ Running({"wait"})
    /\ job.cmd.until = "gone" \/ ~WaitEntered
    /\ End(runtime,
           WaitFails(IF WaitEntered \/ ~Relative(job.cmd) \/ runtime.screen = job.bound
                     THEN job.basis ELSE Basis(job.bound, NoScreen),
                     runtime.screen,
                     IF Relative(job.cmd) THEN "SCREEN_NOT_READY" ELSE "RUNTIME_NOT_CONNECTED"),
           FALSE)

\* establish_transport failed: whatever was connected before stays so.
ConnectRefused ==
    /\ Running({"connect"}) /\ ~job.begun
    /\ End(runtime, ResultAnswer(RetainedResult("connect", "DEVICE_DISCONNECTED")), FALSE)

ConnectBegins ==
    /\ Running({"connect"}) /\ ~job.begun
    /\ job' = [job EXCEPT !.begun = TRUE]
    /\ runtime' = Cleared("bootstrapping")
    /\ UNCHANGED <<cli, runs, kills>>

Connected ==
    /\ Running({"connect"}) /\ job.begun
    /\ \E s \in Screens :
          End([Showing(s) EXCEPT !.connected = TRUE],
              ResultAnswer(RetainedResult("connect", "")), FALSE)

ConnectFails ==
    /\ Running({"connect"}) /\ job.begun
    /\ \E code \in {"DEVICE_AGENT_VERSION_MISMATCH", "ARTIFACT_ROOT_UNWRITABLE"} :
          End(Cleared("broken"), ResultAnswer(RetainedResult("connect", code)), FALSE)

Screenshot ==
    /\ Running({"screenshot"})
    /\ \E code \in IF runtime.connected
                   THEN {"", "DEVICE_RPC_TRANSPORT_RESET", "ARTIFACT_WRITE_FAILED"}
                   ELSE {"RUNTIME_NOT_CONNECTED"} :
          End(runtime, ResultAnswer(RetainedResult("screenshot", code)), FALSE)

ListApps ==
    /\ Running({"list-apps"})
    /\ \E answer \in IF runtime.connected
                     THEN {ResultAnswer(ListAppsResult), ErrorAnswer("DEVICE_RPC_FAILED")}
                     ELSE {ErrorAnswer("RUNTIME_NOT_CONNECTED")} :
          End(runtime, answer, FALSE)

\* The runtime is closed; the daemon answers, and then stops.
Close ==
    /\ Running({"close"})
    /\ End([Cleared("closed") EXCEPT !.stopping = TRUE],
           ResultAnswer(RetainedResult("close", "")), FALSE)

Stop ==
    /\ runtime.stopping
    /\ runtime' = Off(runtime.status)
    /\ cli' = Cut
    /\ UNCHANGED <<job, runs, kills>>

\* The daemon is killed.
Die ==
    /\ runtime.up /\ kills < MaxKills
    /\ kills' = kills + 1
    /\ runtime' = Off(runtime.status)
    /\ job' = NoJob
    /\ cli' = Cut
    /\ UNCHANGED runs

Cli(c) ==
    \/ Invoke(c) \/ Misuse(c) \/ Discover(c) \/ DiscoverFails(c) \/ CloseFinds(c)
    \/ Bind(c) \/ Serve(c) \/ GiveUp(c) \/ Show(c) \/ ShowFails(c)

Daemon ==
    \/ Refuse \/ AlreadyFocused \/ Act \/ AnswerLost \/ Confirmed \/ Unconfirmed
    \/ ScreenLost \/ ArtifactFails
    \/ Observe \/ ObserveFailed \/ WaitMatches \/ WaitEnds \/ WaitRefused
    \/ ConnectRefused \/ ConnectBegins \/ Connected \/ ConnectFails
    \/ Screenshot \/ ListApps \/ Close \/ Stop \/ Die

Next == (\E c \in Clients : Cli(c)) \/ Daemon

Spec == Init /\ [][Next]_vars

-----------------------------------------------------------------------------
(* Properties *)

\* Whatever way a command ends, the contract accepts the result that its handler
\* builds: the invariants of CommandResultCore on payload mode, source, screen, target
\* and lost truth never turn a command that was carried out into an internal failure.
AnswersFit ==
    \A c \in Clients :
        cli[c].answer.kind = "error" => cli[c].answer.code # "INTERNAL_COMMAND_FAILURE"

ShownResult(c) == cli[c].shown.result

\* What a printed result says of the screen it started from holds for the two screens
\* it names, whoever else published screens meanwhile: refs are called stable only if
\* the screen is the same or all refs carry over, "unchanged" means the same screen,
\* and "changed" another one, but for a ref that is gone from it.
ContinuityTruthful ==
    \A c \in Clients :
        cli[c].shown.kind = "result" /\ Family(ShownResult(c).command) = "semantic" =>
            LET r == ShownResult(c)
            IN  /\ r.continuity = "stable" =>
                        r.source = r.next \/ <<r.source, r.next>> \in Carries
                /\ r.changed = "no" => r.source = r.next
                /\ r.changed = "yes" /\ ~(r.command = "wait" /\ cli[c].cmd.until = "gone") =>
                        r.source # r.next

\* What the CLI prints of the course of a command is true: an error of the usage or
\* preDispatch tier, and a busy runtime, mean that the daemon never took the command;
\* "dispatched" that the device acted (but for an app that was not opened), and a
\* success that is "notAttempted" that it did not; exit code 0 is for a success, which
\* the daemon carried out unless there was no daemon to close.
ShownTruthful ==
    \A c \in Clients :
        LET shown == cli[c].shown
            i == cli[c]
        IN  /\ shown.kind = "error" =>
                   /\ shown.tier \in {"usage", "preDispatch"} => ~i.served
                   /\ shown.code = "RUNTIME_BUSY" => ~i.served
            /\ shown.kind = "result" =>
                   LET r == shown.result
                   IN  /\ r.command = i.cmd.name
                       /\ r.code = "RUNTIME_BUSY" => ~i.served
                       /\ r.ok => i.served \/ r.command = "close"
                       /\ Family(r.command) = "semantic" =>
                             /\ r.exec = "dispatched" /\ r.code # "OPEN_FAILED" => i.acted
                             /\ r.ok /\ r.exec = "notAttempted" => ~i.acted
                       /\ shown.exit = 0 <=> r.ok

\* Whoever is told "retry the command after the daemon is available" (map_exception and
\* _DAEMON_CODE_TABLE) did not have the device act: the retry is the first attempt.
RetryIsSafe ==
    \A c \in Clients :
        LET shown == cli[c].shown
        IN  shown.kind = "error" /\ shown.retry => ~cli[c].acted
================================================================================
