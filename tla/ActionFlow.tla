------------------------------- MODULE ActionFlow -------------------------------
(***************************************************************************)
(* ActionExecutor.execute with its repairer, and the handler around it: a  *)
(* command names an element by a screen and a ref, the screen on the       *)
(* device changes at will, and the request names it by a snapshot and a    *)
(* position.                                                               *)
(*                                                                         *)
(* seen holds every published screen of the session; the index is both the *)
(* snapshot id and the sequence.  The device may show any of UIs whenever  *)
(* it is asked.  One command runs at a time (the progress lane of          *)
(* RuntimeKernel), and the lifecycle does not end during it.               *)
(***************************************************************************)
EXTENDS ActionRules

CONSTANTS
    UIs,            \* what the device may show
    Snapshot,       \* the raw snapshot of each
    Compiled,       \* the screen that the compiler makes of it, the screen id as fingerprint
    Commands,       \* commands that callers send
    Capabilities,   \* action kinds of the connected agent
    MaxSeen,        \* bound on the screens of a session
    MaxDamage       \* bound on the damaged artifact files that a lookup finds

ASSUME SnapshotAssumption ==
    LET compiled == [u \in UIs |-> Compile(Snapshot[u])]
    IN  /\ DOMAIN Snapshot = UIs
        /\ Compiled = [u \in UIs |-> [compiled[u] EXCEPT !.fingerprint = Compiled[u].fingerprint]]
        /\ \A u, v \in UIs : Compiled[u].fingerprint = Compiled[v].fingerprint
                             <=> compiled[u].fingerprint = compiled[v].fingerprint
ASSUME BoundAssumption == MaxSeen \in Nat /\ MaxDamage \in Nat

VARIABLES
    seen,       \* [ui, refs, reused] of each published screen
    cur,        \* the authoritative current screen, 0 if there is none
    connected,  \* the runtime has a device
    pc,         \* where the command is, "idle" between two commands
    job,        \* the command and its request
    performed,  \* each time the device did the command: "answered" or "lost"
    result      \* the answer to the command

vars == <<seen, cur, connected, pc, job, performed, result>>

Candidates == [u \in UIs |-> With(Compiled[u], RefCandidates)]
Descriptions == [u \in UIs |-> With(Compiled[u], DescriptionsOf)]
ScreenOf == [u \in UIs |-> Compiled[u].fingerprint]
\* The compiler makes one node of a raw node, and the candidates for refs are nodes
\* of the screen.
ASSUME NodesAssumption ==
    \A u \in UIs :
        /\ Candidates[u] \in Seq(NodesOf(Compiled[u]))
        /\ \A n \in NodesOf(Compiled[u]) :
               /\ n.rid \in DOMAIN Snapshot[u].nodes
               /\ \A m \in NodesOf(Compiled[u]) : n.rid = m.rid => n = m

Stable == [u \in UIs |-> [v \in UIs |-> Continuity(Compiled[u], Compiled[v]) = "stable"]]

NoTarget == [status |-> "none", next |-> 0]
NoJob == [cmd |-> [kind |-> "none"], prev |-> 0, repaired |-> FALSE, required |-> "",
          found |-> <<>>, route |-> "", snap |-> 0, rid |-> 0, target |-> 0, done |-> TRUE]
NoResult == [code |-> "none", execution |-> "none", screen |-> 0, target |-> NoTarget]

Current == IF cur = 0 THEN "none" ELSE ScreenOf[seen[cur].ui]
DescriptionOf(i, ref) == Descriptions[seen[i].ui][seen[i].refs[ref]]

-----------------------------------------------------------------------------
(* Screens *)

\* ScreenRefreshService.refresh: the refs of the current screen are carried over;
\* without authority they start anew.
Published(u) ==
    LET before == IF cur = 0 THEN NoRefs
                  ELSE [r \in DOMAIN seen[cur].refs |-> DescriptionOf(cur, r)]
    IN  [ui |-> u, refs |-> Reconcile(Candidates[u], before),
         reused |-> DOMAIN Carried(Candidates[u], before)]

Publish(screen) ==
    /\ Len(seen) < MaxSeen
    /\ seen' = Append(seen, screen)
    /\ cur' = Len(seen) + 1

\* What a lookup finds of the artifact files: some are cut short, overwritten, not
\* readable or removed.
Findings ==
    {f \in [DOMAIN seen -> {"valid", "malformed", "unreadable", "gone"}] :
        Cardinality({i \in DOMAIN seen : f[i] # "valid"}) <= MaxDamage}
FilesFound(found) ==
    {[screen |-> ScreenOf[seen[i].ui], sequence |-> i, status |-> found[i]] :
        i \in {j \in DOMAIN found : found[j] # "gone"}}

-----------------------------------------------------------------------------
(* Requests *)

IsRef(c) == c.kind \in RefKinds

\* required_action_kind_for; submit depends on its route.
RequiredKind(c, route) ==
    IF c.kind = "submit" THEN IF route = "attributed" THEN "tap" ELSE "node"
    ELSE IF c.kind = "focus" THEN "node"
    ELSE IF c.kind \in GlobalKinds THEN "global" ELSE c.kind

\* The part of execute before the request is built.
Precheck(c) ==
    IF ~connected THEN "RUNTIME_NOT_CONNECTED"
    ELSE IF IsRef(c) /\ cur = 0 THEN "SCREEN_NOT_READY"
    ELSE IF c.kind # "submit" /\ RequiredKind(c, "") \notin Capabilities
    THEN "DEVICE_AGENT_CAPABILITY_MISMATCH"
    ELSE IF ~IsRef(c) \/ c.screen # Current THEN "ok"
    ELSE IF c.ref \notin DOMAIN seen[cur].refs THEN "REF_RESOLUTION_FAILED"
    ELSE IF c.kind = "submit" THEN "ok"
    ELSE LET screen == Compiled[seen[cur].ui]
         IN  Admission(screen, TheNode(screen, seen[cur].refs[c.ref]), c)

\* _try_focused_input_noop_success
AlreadyFocused(c) ==
    /\ connected /\ cur # 0
    /\ c.kind = "focus" /\ c.screen = Current
    /\ c.ref \in DOMAIN seen[cur].refs
    /\ seen[cur].refs[c.ref] = FocusedRid(Compiled[seen[cur].ui])

\* Mutant of ResolvedAdmission: a repaired target is not validated.
ResolvedAdmissionNone(c, u, rid) == "ok"

\* validate_resolved_ref_action: a source screen that is current again was validated
\* before, if it was current then.
ResolvedAdmission(c, u, rid) ==
    IF c.screen = ScreenOf[u] THEN "ok"
    ELSE Admission(Compiled[u], TheNode(Compiled[u], rid), c)

SameRoute(required, route) == required \in {"", route}

\* The request for the element at rid of a published screen, or the code that
\* ends the command.
Build(c, screen, rid, required) ==
    LET route == SubmitRoute(Compiled[screen.ui], screen.refs, rid)
        admitted == ResolvedAdmission(c, screen.ui, rid)
    IN  IF c.kind # "submit" THEN [code |-> admitted, route |-> "", target |-> rid]
        ELSE IF route.code # "ok" THEN route
        ELSE IF ~SameRoute(required, route.route) THEN NoRoute("TARGET_NOT_ACTIONABLE")
        ELSE IF RequiredKind(c, route.route) \notin Capabilities
        THEN NoRoute("DEVICE_AGENT_CAPABILITY_MISMATCH")
        ELSE route

\* _command_error_payload
Failure(code, attempted, lost, screen) ==
    [code |-> SemanticCode(code, lost, screen # 0),
     execution |-> FailureExecution(code, attempted, lost),
     screen |-> IF lost THEN 0 ELSE screen, target |-> NoTarget]

End(j, answer) ==
    pc' = "answered" /\ job' = [j EXCEPT !.found = <<>>] /\ result' = answer

-----------------------------------------------------------------------------
(* Between commands *)

Init ==
    /\ seen = <<>> /\ cur = 0 /\ connected = TRUE
    /\ pc = "idle" /\ job = NoJob /\ performed = <<>> /\ result = NoResult

\* Other commands publish the screen too.
Observe(u) ==
    /\ pc = "idle" /\ connected
    /\ Publish(Published(u))
    /\ UNCHANGED <<connected, pc, job, performed, result>>

Connect ==
    /\ pc = "idle" /\ ~connected
    /\ connected' = TRUE
    /\ UNCHANGED <<seen, cur, pc, job, performed, result>>

-----------------------------------------------------------------------------
(* One command *)

Refuse(c) ==
    /\ pc = "idle" /\ ~AlreadyFocused(c)
    /\ Precheck(c) # "ok"
    /\ End([NoJob EXCEPT !.cmd = c], Failure(Precheck(c), FALSE, FALSE, cur))
    /\ UNCHANGED <<seen, cur, connected, performed>>

FocusThere(c) ==
    /\ pc = "idle" /\ AlreadyFocused(c)
    /\ End([NoJob EXCEPT !.cmd = c],
           [code |-> "success", execution |-> "notAttempted", screen |-> cur,
            target |-> NoTarget])
    /\ UNCHANGED <<seen, cur, connected, performed>>

\* A command without a ref, or with a ref of the current screen, is sent as it is;
\* a ref of another screen is looked up there and repaired.
Begin(c) ==
    /\ pc = "idle" /\ ~AlreadyFocused(c)
    /\ Precheck(c) = "ok"
    /\ LET start == [NoJob EXCEPT !.cmd = c, !.prev = cur]
           rid == seen[cur].refs[c.ref]
           built == Build(c, seen[cur], rid, "")
       IN  \/ /\ ~IsRef(c)
              /\ pc' = "send" /\ job' = start /\ UNCHANGED result
           \/ /\ IsRef(c) /\ c.screen # Current
              /\ pc' = "repair"
              /\ \E found \in Findings :
                     job' = [start EXCEPT !.repaired = TRUE, !.found = found]
              /\ UNCHANGED result
           \/ /\ IsRef(c) /\ c.screen = Current /\ built.code = "ok"
              /\ pc' = "send"
              /\ job' = [start EXCEPT !.snap = cur, !.rid = rid, !.route = built.route,
                                      !.target = built.target]
              /\ UNCHANGED result
           \/ /\ IsRef(c) /\ c.screen = Current /\ built.code # "ok"
              /\ End(start, Failure(built.code, FALSE, FALSE, cur))
    /\ UNCHANGED <<seen, cur, connected, performed>>

\* resolve_source_binding_decision: a code, or the published screen that has the ref.
Source(c) ==
    LET artifact == Lookup(FilesFound(job.found), c.screen)
    IN  IF c.screen = Current
        THEN IF c.ref \in DOMAIN seen[cur].refs THEN [code |-> "ok", at |-> cur]
             ELSE [code |-> "REF_RESOLUTION_FAILED", at |-> 0]
        ELSE IF artifact.status # "found"
                \/ c.ref \notin DOMAIN seen[artifact.file.sequence].refs
        THEN [code |-> "REF_STALE", at |-> 0]
        ELSE [code |-> "ok", at |-> artifact.file.sequence]

\* The source is unknown, or the device does not answer the fetch.
RepairFails ==
    /\ pc = "repair"
    /\ LET source == Source(job.cmd)
       IN  \E code \in {source.code, "DEVICE_RPC_FAILED"} \ {"ok"} :
               /\ source.code # "ok" => code = source.code
               /\ End(job, Failure(code, FALSE, FALSE, cur))
    /\ UNCHANGED <<seen, cur, connected, performed>>

\* repair_action_binding: the screen is refreshed and the element looked for on it.
Repair(u) ==
    /\ pc = "repair"
    /\ Source(job.cmd).code = "ok"
    /\ \E screen \in {Published(u)} :
       LET rid == Best(DescriptionOf(Source(job.cmd).at, job.cmd.ref), ToSet(Candidates[u]))
           built == IF rid = 0 THEN NoRoute("REF_STALE")
                    ELSE Build(job.cmd, screen, rid, job.required)
       IN  /\ Publish(screen)
           /\ IF built.code = "ok"
              THEN /\ pc' = "send"
                   /\ job' = [job EXCEPT !.snap = Len(seen) + 1, !.rid = rid,
                                         !.route = built.route, !.target = built.target]
                   /\ UNCHANGED result
              ELSE End(job, Failure(built.code, FALSE, FALSE, Len(seen) + 1))
    /\ UNCHANGED <<connected, performed>>

\* ActionTargetResolver compares what the snapshot says of the position.
Looks(u, rid) ==
    LET n == Snapshot[u].nodes[rid]
    IN  <<n.win, n.cls, n.res, Snapshot[u].app, "systemui" \in n.is>>
Resolves ==
    \E u \in UIs : /\ Exists(Snapshot[u], job.target)
                  /\ Looks(u, job.target) = Looks(seen[job.snap].ui, job.target)

\* The device does what the request says and answers; a global action takes the
\* authority from the screen.
Perform ==
    /\ pc = "send"
    /\ IsRef(job.cmd) => Resolves
    /\ performed' = Append(performed, "answered")
    /\ pc' = "confirm"
    /\ \E done \in IF job.cmd.kind = "submit" THEN BOOLEAN ELSE {TRUE} :
           job' = [job EXCEPT !.done = done, !.found = <<>>]
    /\ cur' = IF job.cmd.kind \in GlobalKinds THEN 0 ELSE cur
    /\ UNCHANGED <<seen, connected, result>>

\* Mutant of Resendable: an action whose answer was lost is sent again.
ResendableLost(code) ==
    IsRef(job.cmd) /\ ~job.repaired /\ code \in {"STALE_TARGET", "DEVICE_RPC_TRANSPORT_RESET"}

Resendable(code) == IsRef(job.cmd) /\ ~job.repaired /\ code = "STALE_TARGET"

\* _map_action_error for an error of action_perform.
ActionError(code) ==
    IF code = "ACTION_FAILED" /\ job.cmd.kind \in OpenKinds THEN "OPEN_FAILED"
    ELSE IF code \in {"ACTION_FAILED", "STALE_TARGET"} THEN "DEVICE_RPC_FAILED" ELSE code

\* The call ends with an error: once, a stale target is repaired and sent again.
SendFails(code) ==
    IF Resendable(code)
    THEN /\ pc' = "repair"
         /\ job' = [job EXCEPT !.repaired = TRUE, !.required = job.route]
         /\ UNCHANGED result
    ELSE End(job, Failure(ActionError(code), FALSE, FALSE, cur))

\* The device answers that it did nothing, or does not accept the token.
Reject(code) ==
    /\ pc = "send"
    /\ code \in {"STALE_TARGET", "TARGET_NOT_ACTIONABLE"} => IsRef(job.cmd)
    /\ SendFails(code)
    /\ UNCHANGED <<seen, cur, connected, performed>>

\* The connection breaks before or after the device did it.
LoseAnswer ==
    /\ pc = "send"
    /\ \/ UNCHANGED performed
       \/ /\ IsRef(job.cmd) => Resolves
          /\ performed' = Append(performed, "lost")
    /\ SendFails("DEVICE_RPC_TRANSPORT_RESET")
    /\ UNCHANGED <<seen, cur, connected>>

-----------------------------------------------------------------------------
(* After the action *)

\* The binding that the ref of the command had when the request was built.
BoundThen ==
    IF job.cmd.ref \in DOMAIN seen[job.snap].refs
    THEN {DescriptionOf(job.snap, job.cmd.ref)} ELSE {}

PlacesIn(raw, screen) ==
    Whereabouts(raw, Compiled[screen.ui], screen, job.cmd.ref, job.rid, BoundThen)

\* validate_postcondition and the confirmations of type and submit: [code, status].
Confirmation(screen) ==
    LET c == job.cmd
        u == screen.ui
        raw == Snapshot[u]
        new == Compiled[u]
        before == Snapshot[seen[job.prev].ui]
        places == PlacesIn(raw, screen)
        ref == RefOf(seen[job.snap].refs, job.rid)
        base == Compiled[seen[job.snap].ui]
        old == TheNode(base, job.rid)
        now == IF ref \in DOMAIN screen.refs THEN NodeAt(new, screen.refs[ref]) ELSE {}
        submitted == SubmitOutcome(job.route, job.done, before, raw,
                                   Compiled[seen[job.prev].ui], new, places)
        Check(holds, code) ==
            [code |-> IF holds THEN "ok" ELSE code, status |-> "same"]
    IN  CASE c.kind = "focus" ->
                Check(FocusConfirmed(before, raw, new, places, PlacesIn(before, screen)),
                      "TARGET_NOT_ACTIONABLE")
          [] c.kind = "type" ->
                Check(FirstPlace(places, LAMBDA rid : raw.nodes[rid].text = c.arg) # 0,
                      "TYPE_NOT_CONFIRMED")
          [] c.kind = "submit" ->
                IF submitted \in NotConfirmed THEN Check(FALSE, submitted)
                ELSE [code |-> "ok",
                      status |-> IF submitted = "sameTarget" THEN "same"
                                 ELSE IF submitted = "targetGone" THEN "gone"
                                 ELSE "unconfirmed"]
          [] c.kind = "scroll" ->
                Check(\E n \in now : ScrollConfirmed(old, n, c.arg), "ACTION_NOT_CONFIRMED")
          [] c.kind = "longTap" ->
                Check(LongTapConfirmed(base, new, old, now), "ACTION_NOT_CONFIRMED")
          [] c.kind = "openApp" -> Check(raw.app = c.arg, "OPEN_FAILED")
          [] c.kind = "openUrl" ->
                Check(\/ job.prev = 0
                      \/ raw.app # before.app \/ raw.activity # before.activity
                      \/ Visible(new, screen.refs)
                            # Visible(Compiled[seen[job.prev].ui], seen[job.prev].refs),
                      "OPEN_FAILED")
          [] OTHER -> Check(TRUE, "ok")

\* actionTarget of focus, type and submit: the ref of the first place that confirms.
ConfirmedTarget(screen, status) ==
    LET c == job.cmd
        raw == Snapshot[screen.ui]
        places == PlacesIn(raw, screen)
        i == FirstPlace(places,
                LAMBDA rid : CASE c.kind = "focus" -> FocusedEditable(raw, rid)
                               [] c.kind = "type" -> raw.nodes[rid].text = c.arg
                               [] OTHER -> TRUE)
    IN  IF c.kind \notin {"focus", "type", "submit"} THEN NoTarget
        ELSE ActionTarget(RefOf(seen[job.snap].refs, job.rid),
                          IF i = 0 THEN 0 ELSE RefOf(screen.refs, places[i]), status)

\* A global action is confirmed by a screen that is new enough; otherwise the
\* candidate is not published.
Fresh(u) ==
    job.cmd.kind \in GlobalKinds /\ job.prev # 0 =>
        FreshEvidence(job.cmd.kind, Snapshot[seen[job.prev].ui],
                      Compiled[seen[job.prev].ui], Snapshot[u], Compiled[u])

Confirm(u) ==
    /\ pc = "confirm" /\ Fresh(u)
    /\ \E screen \in {Published(u)} : \E check \in {Confirmation(screen)} :
           /\ Publish(screen)
           /\ End(job, IF check.code = "ok"
                       THEN [code |-> "success", execution |-> "dispatched",
                             screen |-> Len(seen) + 1,
                             target |-> ConfirmedTarget(screen, check.status)]
                       ELSE Failure(check.code, TRUE, FALSE, Len(seen) + 1))
    /\ UNCHANGED <<connected, performed>>

\* Mutant of AuthorityAfterLoss: the screen from before the action stays current.
AuthorityAfterLossKept(code) == cur

AuthorityAfterLoss(code) == 0

\* No screen after the action: the authority of the one before ends, and with the
\* token of the agent the connection.
LoseScreen(code) ==
    /\ pc = "confirm"
    /\ code = "SCREEN_NOT_READY" => \E u \in UIs : ~Fresh(u)
    /\ cur' = AuthorityAfterLoss(code)
    /\ connected' = (code # "DEVICE_AGENT_UNAUTHORIZED")
    /\ End(job, Failure(code, TRUE, code # "DEVICE_AGENT_UNAUTHORIZED", 0))
    /\ UNCHANGED <<seen, performed>>

\* The answer reaches the caller.
Deliver ==
    /\ pc = "answered"
    /\ pc' = "idle" /\ job' = NoJob /\ performed' = <<>> /\ result' = NoResult
    /\ UNCHANGED <<seen, cur, connected>>

Next ==
    \/ \E u \in UIs : Observe(u) \/ Repair(u) \/ Confirm(u)
    \/ Perform \/ LoseAnswer
    \/ Connect
    \/ \E c \in Commands : Refuse(c) \/ FocusThere(c) \/ Begin(c)
    \/ RepairFails \/ Deliver
    \/ \E code \in {"STALE_TARGET", "TARGET_NOT_ACTIONABLE", "ACTION_FAILED",
                    "DEVICE_AGENT_UNAUTHORIZED"} : Reject(code)
    \/ \E code \in {"DEVICE_DISCONNECTED", "SCREEN_NOT_READY",
                    "DEVICE_AGENT_UNAUTHORIZED"} : LoseScreen(code)

Spec == Init /\ [][Next]_vars

-----------------------------------------------------------------------------
(* Properties *)

\* Each published screen has refs for nodes of its snapshot, the authority is the
\* newest screen or none, and a command that runs has a place in the program.
FlowTypeOK ==
    /\ Len(seen) <= MaxSeen
    /\ \A i \in DOMAIN seen :
           /\ seen[i].ui \in UIs
           /\ Bound(seen[i].refs) \subseteq DOMAIN Snapshot[seen[i].ui].nodes
           /\ seen[i].reused \subseteq DOMAIN seen[i].refs
    /\ cur \in {0, Len(seen)}
    /\ connected \in BOOLEAN
    /\ cur # 0 => connected
    /\ pc \in {"idle", "repair", "send", "confirm", "answered"}
    /\ pc # "idle" => job.cmd \in Commands /\ job.snap <= Len(seen)

\* A command is done by the device at most once, whatever is repaired, resent or
\* lost on the way: _should_repair_dispatch_error resends only after the agent
\* said that it did nothing.
OneDispatch == Len(performed) <= 1

\* Refs carried over and refs given anew never meet: on each published screen a ref
\* names one element, an element has one ref, and every candidate has one
\* (RefRegistryBuilder.reconcile).
RefsFaithful ==
    \A i \in DOMAIN seen :
        /\ Bound(seen[i].refs) = {n.rid : n \in ToSet(Candidates[seen[i].ui])}
        /\ \A r, q \in DOMAIN seen[i].refs :
               seen[i].refs[r] = seen[i].refs[q] => r = q

\* While no authority is lost, a caller that is told of a stable continuity can go on
\* with its refs: the next screen has each of them, for an element that matches what
\* the ref named, and exactly the same ones while the action surface is the same.
RefsStay ==
    [][Len(seen') > Len(seen) /\ cur # 0 =>
       LET next == seen'[Len(seen')]
           old == seen[cur]
       IN  /\ ScreenOf[old.ui] = ScreenOf[next.ui] => next.refs = old.refs
           /\ Stable[old.ui][next.ui] =>
                  \A r \in DOMAIN old.refs :
                      /\ r \in DOMAIN next.refs
                      /\ Matches(DescriptionOf(cur, r), Descriptions[next.ui][next.refs[r]])]_vars

\* What the request names at the moment it is sent: the element the screen admits.
NamedAdmits ==
    LET at == seen[job.snap]
        screen == Compiled[at.ui]
    IN  IF job.cmd.kind = "submit"
        THEN /\ FocusedRid(screen) = job.rid
             /\ job.route = "attributed" =>
                    "tap" \in TheNode(screen, job.target).actions
        ELSE Admission(screen, TheNode(screen, job.rid), job.cmd) = "ok"

SourceReturned == job.repaired /\ job.required = "" /\ ScreenOf[seen[job.snap].ui] = job.cmd.screen

\* Whatever the screens did since the caller read its screen, a request that names
\* an element names one of the current screen that admits the action there: not
\* blocked, exposed, focused for type and submit.  Left out is the repair that finds
\* the source screen current again (see AdmissibleOnReturn).
AdmissibleDispatch ==
    pc = "send" /\ IsRef(job.cmd) =>
        /\ job.snap = cur /\ cur = Len(seen)
        /\ ~(SourceReturned /\ job.cmd.kind # "submit") => NamedAdmits

\* A ref of an earlier screen is taken for what it named when that screen was
\* published last: the repaired element matches that description.
NewestSource ==
    pc = "send" /\ job.repaired =>
        LET given == {i \in 1 .. job.snap - 1 :
                         /\ ScreenOf[seen[i].ui] = job.cmd.screen
                         /\ i \in DOMAIN job.found => job.found[i] # "gone"}
            last == CHOOSE i \in given : \A j \in given : j <= i
        IN  /\ given # {}
            /\ job.cmd.ref \in DOMAIN seen[last].refs
            /\ Matches(DescriptionOf(last, job.cmd.ref),
                       Description(TheNode(Compiled[seen[job.snap].ui], job.rid)))

\* The answer tells what the device did: an action that the device did and answered
\* is called dispatched, whatever fails later, and one called dispatched was done,
\* or is an open that the device tried (_map_failure_execution_outcome).  Actions
\* whose answer was lost are left out (see NotAttemptedMeansNot).
OutcomeTruthful ==
    /\ result.execution = "dispatched" => performed # <<>> \/ result.code = "OPEN_FAILED"
    /\ pc = "answered" /\ "answered" \in ToSet(performed) =>
           result.execution = "dispatched"

\* Once an action was done, the screen from before it is never reported as current:
\* an answer names the screen published after the action, or none, and then the
\* next ref is refused until a screen is observed.
NoScreenFromBefore ==
    result.execution = "dispatched" /\ performed # <<>> =>
        /\ result.screen \in {0, Len(seen)}
        /\ result.screen = cur
        /\ result.screen # 0 => result.screen # job.prev /\ result.screen # job.snap

-----------------------------------------------------------------------------
(* What tests, comments and docs say, and the code does not do *)

\* test_action_executor_repaired_type_still_requires_current_focused_input: a
\* repaired target is held to the admission of the screen it was repaired to.
AdmissibleOnReturn == pc = "send" /\ job.repaired => NamedAdmits

\* observe-action-wait.md: a screen id and a ref can be used later for replay; so
\* the ref names one element in all publications of the screen.
ReplayFaithful ==
    \A i, j \in DOMAIN seen :
        ScreenOf[seen[i].ui] = ScreenOf[seen[j].ui] =>
            \A r \in DOMAIN seen[i].refs \cap DOMAIN seen[j].refs :
                DescriptionOf(i, r) = DescriptionOf(j, r)

\* command_views.py: a failure before the dispatch is reported as notAttempted; so
\* nothing was done.
NotAttemptedMeansNot == result.execution = "notAttempted" => performed = <<>>
================================================================================
