------------------------------ MODULE ActionRules ------------------------------
(***************************************************************************)
(* What the action executor decides about a command on a screen: whether   *)
(* the ref may be acted on, by which route an input is submitted, whether  *)
(* the screen after the action confirms it, and what the answer says of    *)
(* the target.  No state: a screen is a compiled screen with its refs, as  *)
(* in RefRegistry, and raw is the snapshot it was compiled from.           *)
(*                                                                         *)
(* A command is [kind, screen, ref, arg]; arg is the text of type, the     *)
(* direction of scroll, the package of openApp.  A code is "ok" or the     *)
(* DaemonErrorCode that ends the command.                                  *)
(***************************************************************************)
EXTENDS RefRegistry, ErrorCodes

RefKinds == {"tap", "longTap", "focus", "type", "submit", "scroll"}
GlobalKinds == {"back", "recents"}
OpenKinds == {"openApp", "openUrl"}

NodeAt(screen, rid) == {n \in NodesOf(screen) : n.rid = rid}
TheNode(screen, rid) == CHOOSE n \in NodesOf(screen) : n.rid = rid
FocusedRid(screen) ==
    LET f == FocusedInput(screen) IN IF f = <<>> THEN 0 ELSE f[1].rid
IsFocused(screen, n) == n.role = "input" /\ n.rid = FocusedRid(screen)

-----------------------------------------------------------------------------
(* Admission *)

\* A blocking keyboard lets the focused input through, for its own actions only.
Unblocked(screen, n, kind) ==
    \/ screen.blocking \in {"", n.group}
    \/ screen.blocking = "keyboard" /\ kind \in {"type", "submit"} /\ IsFocused(screen, n)

Exposed(screen, n, cmd) ==
    /\ cmd.kind \in n.actions
    /\ cmd.kind = "scroll" => cmd.arg \in n.dirs
    /\ cmd.kind \in {"focus", "type"} => n.role = "input"
    /\ cmd.kind = "type" => IsFocused(screen, n)

\* validate_ref_action and validate_resolved_ref_action, once the node is known.
Admission(screen, n, cmd) ==
    IF ~Unblocked(screen, n, cmd.kind) THEN "TARGET_BLOCKED"
    ELSE IF ~Exposed(screen, n, cmd) THEN "TARGET_NOT_ACTIONABLE" ELSE "ok"

NoRoute(code) == [code |-> code, route |-> "", target |-> 0]

\* resolve_submit_route: the input itself takes the submit, unless the screen
\* attributes it to one control that is then tapped.
SubmitRoute(screen, refs, rid) ==
    LET subject == TheNode(screen, rid)
        through == SubmitRefs(screen, refs, rid)
        target == TheNode(screen, refs[CHOOSE r \in through : TRUE])
    IN  IF NodeAt(screen, rid) = {} \/ RefOf(refs, rid) = 0
        THEN NoRoute("TARGET_NOT_ACTIONABLE")
        ELSE IF ~Unblocked(screen, subject, "submit") THEN NoRoute("TARGET_BLOCKED")
        ELSE IF ~IsFocused(screen, subject) \/ Cardinality(through) > 1
        THEN NoRoute("TARGET_NOT_ACTIONABLE")
        ELSE IF through = {}
        THEN IF "submit" \in subject.actions
             THEN [code |-> "ok", route |-> "direct", target |-> rid]
             ELSE NoRoute("TARGET_NOT_ACTIONABLE")
        ELSE IF ~Unblocked(screen, target, "tap") THEN NoRoute("TARGET_BLOCKED")
        ELSE IF "tap" \notin target.actions THEN NoRoute("TARGET_NOT_ACTIONABLE")
        ELSE [code |-> "ok", route |-> "attributed", target |-> target.rid]

-----------------------------------------------------------------------------
(* The target on the screen after the action *)

Exists(raw, rid) == rid \in DOMAIN raw.nodes
Editable(raw, rid) ==
    Exists(raw, rid) /\ "editable" \in raw.nodes[rid].is /\ "hidden" \notin raw.nodes[rid].is

\* Where the target may be in raw, best evidence first: at the position the device
\* acted on; where the ref of the command was carried to; where the element that
\* had this ref at the dispatch (desc, in a set of its own or none) is found again.
\* 0 stands for nowhere; a position is listed once.
Whereabouts(raw, screen, after, ref, rid, desc) ==
    LET inputs == {n \in NodesOf(screen) : Editable(raw, n.rid)}
        places == <<IF Exists(raw, rid) THEN rid ELSE 0,
                    IF ref \in after.reused /\ Editable(raw, after.refs[ref])
                    THEN after.refs[ref] ELSE 0,
                    IF desc = {} THEN 0 ELSE Best(CHOOSE d \in desc : TRUE, inputs)>>
    IN  [i \in DOMAIN places |->
            IF \E j \in 1 .. i - 1 : places[j] = places[i] THEN 0 ELSE places[i]]

FirstPlace(places, P(_)) ==
    LET hits == {i \in DOMAIN places : places[i] # 0 /\ P(places[i])}
    IN  IF hits = {} THEN 0 ELSE CHOOSE i \in hits : \A j \in hits : i <= j

-----------------------------------------------------------------------------
(* Confirmation *)

FocusedEditable(raw, rid) ==
    "focused" \in raw.nodes[rid].is /\ "editable" \in raw.nodes[rid].is

\* validate_focus_confirmation and _focus_postcondition_matches: the position that
\* now has the focus did not have it before, and is the focused input of the screen.
FocusConfirmed(before, raw, screen, places, placesBefore) ==
    LET i == FirstPlace(places, LAMBDA rid : FocusedEditable(raw, rid))
    IN  /\ i # 0
        /\ placesBefore[i] # 0 => "focused" \notin before.nodes[placesBefore[i]].is
        /\ FocusedRid(screen) = places[i]

OppositeDirection == [up |-> "down", down |-> "up"]

\* _validate_scroll_confirmation: the node with the same ref shows something else,
\* or can now be scrolled back.
ScrollConfirmed(old, new, dir) ==
    /\ old.role = "scroll-container" /\ new.role = "scroll-container"
    /\ "scroll" \in old.actions /\ "scroll" \in new.actions
    /\ \/ old.texts # new.texts
       \/ old.dirs # new.dirs /\ OppositeDirection[dir] \in new.dirs

\* The label of a node is not part of it.
Feedback(n) == <<n.role, n.state, n.actions, n.texts>>
GroupFeedback(screen, g) ==
    [i \in DOMAIN screen.groups[g] |-> Feedback(screen.groups[g][i])]

\* _validate_long_tap_confirmation: a menu or the context changed, or the target did.
LongTapConfirmed(base, screen, old, new) ==
    \/ \E g \in {"context", "dialog"} : GroupFeedback(base, g) # GroupFeedback(screen, g)
    \/ \E n \in new : <<old.state, old.actions, old.texts>> # <<n.state, n.actions, n.texts>>

\* node_to_public_node
PublicNode(screen, refs, n) ==
    [role |-> n.role, label |-> n.label, ref |-> RefOf(refs, n.rid), state |-> n.state,
     actions |-> n.actions, box |-> n.box, res |-> n.res, cls |-> n.cls, dirs |-> n.dirs,
     submits |-> SubmitRefs(screen, refs, n.rid), texts |-> n.texts]

\* What screen_changed compares.
Visible(screen, refs) ==
    <<screen.app, screen.activity, screen.keyboard, screen.blocking,
      [g \in Groups |-> [i \in DOMAIN screen.groups[g] |->
                            PublicNode(screen, refs, screen.groups[g][i])]]>>

\* validate_global_fresh_current_evidence: recents and notifications must show
\* something else than the application that was there.
AppSurface(raw, screen) ==
    <<screen.app, screen.activity, screen.keyboard,
      [g \in {"targets", "context", "dialog", "keyboard"} |->
          [i \in DOMAIN screen.groups[g] |->
              LET n == screen.groups[g][i]
              IN  <<n.role, n.label, n.state, raw.nodes[n.rid].acts, n.box>>]]>>
FreshEvidence(kind, before, base, raw, screen) ==
    kind = "recents" => \/ AppSurface(before, base) # AppSurface(raw, screen)
                        \/ screen.app = "systemui"

Structure(screen) ==
    [g \in {"targets", "context", "dialog"} |->
        [i \in DOMAIN screen.groups[g] |->
            LET n == screen.groups[g][i]
            IN  <<n.role, n.label, n.texts, n.dirs, n.res, n.cls>>]]

\* validate_submit_confirmation: what became of the input, or the code that says
\* that nothing shows the submit.
SubmitOutcome(route, done, before, raw, old, screen, places) ==
    LET i == FirstPlace(places, LAMBDA rid : TRUE)
    IN  IF ~done THEN "SUBMIT_NOT_CONFIRMED"
        ELSE IF <<raw.app, raw.activity>> # <<before.app, before.activity>>
        THEN IF route = "direct" THEN "SUBMIT_NOT_CONFIRMED" ELSE "unconfirmed"
        ELSE IF i = 0 THEN "targetGone"
        ELSE IF Structure(old) # Structure(screen) THEN "publicChange"
        ELSE IF FocusedEditable(raw, places[i]) \/ route = "attributed"
        THEN "SUBMIT_NOT_CONFIRMED" ELSE "sameTarget"

\* build_same_or_successor_action_target and build_action_target_payload
ActionTarget(subject, next, status) ==
    IF subject = 0 \/ (status = "same" /\ next = 0) THEN [status |-> "none", next |-> 0]
    ELSE IF status # "same" THEN [status |-> status, next |-> 0]
    ELSE [status |-> IF next = subject THEN "sameRef" ELSE "successor", next |-> next]

================================================================================
