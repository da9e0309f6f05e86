---------------------------- MODULE RefRegistry ----------------------------
(***************************************************************************)
(* The refs of a screen: RefRegistryBuilder.reconcile, which carries the   *)
(* refs n1, n2 ... from one published screen to the next; the repair of a  *)
(* ref of an earlier screen; the lookup of the artifact that describes     *)
(* it; and the continuity of two screens.  No state.                       *)
(*                                                                         *)
(* A description is what a binding keeps of a node: its fingerprint, state *)
(* and actions.  The bindings of a screen are a function from ref numbers  *)
(* to rids; those of the screen before are given by their descriptions.    *)
(***************************************************************************)
EXTENDS ScreenCompiler

Description(n) ==
    [role |-> n.role, label |-> n.label, res |-> n.res, cls |-> n.cls,
     parentRole |-> n.parentRole, parentLabel |-> n.parentLabel,
     siblings |-> ToSet(n.siblings), relative |-> n.relative,
     state |-> n.state, actions |-> n.actions]

\* The bindings of a screen, by rid.
DescriptionsOf(screen) ==
    [rid \in {n.rid : n \in ToSet(RefCandidates(screen))} |->
        Description(CHOOSE n \in NodesOf(screen) : n.rid = rid)]

-----------------------------------------------------------------------------
(* How well a node matches a description *)

StrongBoundsDistance == 8
GapAnchored == 2
GapContextual == 3

Magnitude(x) == IF x < 0 THEN 0 - x ELSE x
BoundsDistance(a, b) ==
    Magnitude(a[1] - b[1]) + Magnitude(a[2] - b[2])
        + Magnitude(a[3] - b[3]) + Magnitude(a[4] - b[4])
One(p) == IF p THEN 1 ELSE 0
Some(x) == One(x > 0)

\* RepairEvidence
Evidence(d, c) ==
    [label |-> c.label = d.label /\ d.label # "",
     res |-> c.res = d.res /\ d.res # "",
     cls |-> c.cls = d.cls /\ d.cls # "",
     parent |-> /\ c.parentRole = d.parentRole /\ c.parentLabel = d.parentLabel
                /\ d.parentRole # "" \/ d.parentLabel # "",
     siblings |-> Cardinality(c.siblings \cap d.siblings),
     state |-> Cardinality(c.state \cap d.state),
     actions |-> Cardinality(c.actions \cap d.actions),
     bounds |-> BoundsDistance(c.relative, d.relative) <= StrongBoundsDistance]

Anchors(e) == One(e.label) + One(e.res)
Signals(e) == Some(e.siblings) + Some(e.state) + Some(e.actions) + One(e.bounds)
Corroboration(e) == One(e.cls) + One(e.parent) + Signals(e)

Confident(e) ==
    \/ Anchors(e) = 2
    \/ Anchors(e) = 1 /\ (Signals(e) >= 1 \/ Corroboration(e) >= 2)
    \/ Anchors(e) = 0 /\ e.cls /\ e.parent /\ Signals(e) >= 2 /\ Corroboration(e) >= 4

Weight(e) ==
    8 * Anchors(e) + 3 * One(e.cls) + 3 * One(e.parent) + 2 * One(e.bounds)
        + 2 * (Least(e.siblings, 2) + Least(e.state, 2) + Least(e.actions, 2))

Matches(d, c) == c.role = d.role /\ Confident(Evidence(d, c))

\* repair_gap_too_small decides against a near tie.
Beats(e, other) ==
    Weight(e) - Weight(other) >= IF Anchors(e) > 0 THEN GapAnchored ELSE GapContextual

\* The confident candidates, each with its evidence.
Confirmed(d, nodes) ==
    {x \in {<<n, Evidence(d, Description(n))>> : n \in nodes} :
        x[1].role = d.role /\ Confident(x[2])}

\* best_candidate_for_binding: the rid of the one confident candidate that beats
\* every other, 0 if there is none.
Best(d, nodes) ==
    With(d, LAMBDA desc :
        With(Confirmed(desc, nodes), LAMBDA high :
            LET clear == {x \in high : \A y \in high \ {x} : Beats(x[2], y[2])}
            IN  IF clear = {} THEN 0 ELSE (CHOOSE x \in clear : TRUE)[1].rid))

-----------------------------------------------------------------------------
(* Reconciliation *)

NoRefs == <<>>
Bound(refs) == {refs[r] : r \in DOMAIN refs}

\* Mutant of Remaining: a matched candidate can be matched again.
RemainingAll(nodes, refs) == nodes

Remaining(nodes, refs) == {n \in nodes : n.rid \notin Bound(refs)}

\* Mutant of Carried: the refs of the screen before are forgotten.
CarriedNone(nodes, previous) == NoRefs

BindRef(refs, k, rid) == [r \in DOMAIN refs \cup {k} |-> IF r = k THEN rid ELSE refs[r]]

\* The ref k of the screen before goes to its best match among the candidates that
\* are left.
Carry(nodes, previous, k, refs) ==
    LET rid == Best(previous[k], Remaining(ToSet(nodes), refs))
    IN  IF k \notin DOMAIN previous \/ rid = 0 THEN refs ELSE BindRef(refs, k, rid)

\* The refs of the screen before, lowest number first.
Carried(nodes, previous) ==
    LET upTo[k \in Nat] ==
            IF k = 0 THEN NoRefs ELSE Carry(nodes, previous, k, upTo[k - 1])
    IN  upTo[Max(DOMAIN previous \cup {0})]

\* A candidate without a ref gets the smallest number that is free.
FreeRef(refs) == CHOOSE k \in 1 .. Cardinality(DOMAIN refs) + 1 :
                     k \notin DOMAIN refs /\ 1 .. k - 1 \subseteq DOMAIN refs
Give(nodes, i, refs) ==
    IF nodes[i].rid \in Bound(refs) THEN refs ELSE BindRef(refs, FreeRef(refs), nodes[i].rid)

Reconcile(nodes, previous) ==
    LET given[i \in 0 .. Len(nodes)] ==
            IF i = 0 THEN Carried(nodes, previous) ELSE Give(nodes, i, given[i - 1])
    IN  given[Len(nodes)]

\* The ref of the node with this rid, 0 if it has none.
RefOf(refs, rid) ==
    IF rid \in Bound(refs) THEN CHOOSE r \in DOMAIN refs : refs[r] = rid ELSE 0

\* submit_refs of an input: the ref of the control it submits with.
SubmitRefs(screen, refs, rid) ==
    {RefOf(refs, p[2]) : p \in {q \in screen.submits : q[1] = rid}} \ {0}

-----------------------------------------------------------------------------
(* Artifacts of earlier screens *)

\* Mutant of NewestOf: the oldest publication of a screen describes its refs.
OldestOf(files) == CHOOSE f \in files : \A g \in files : f.sequence <= g.sequence

NewestOf(files) == CHOOSE f \in files : \A g \in files : f.sequence >= g.sequence

\* lookup_source_screen_artifact: the newest artifact of the screen, unless it is
\* damaged, or a newer one cannot be told to be of another screen.
Lookup(files, screen) ==
    LET matching == {f \in files : f.screen = screen /\ f.status # "unreadable"}
        unknown == {f \in files : f.status = "unreadable"}
        newest == NewestOf(matching)
    IN  CASE matching = {} -> [status |-> "not_found"]
          [] matching # {} /\ (\/ newest.status # "valid"
                               \/ \E u \in unknown : u.sequence >= newest.sequence) ->
                [status |-> "invalid_artifact"]
          [] OTHER -> [status |-> "found", file |-> newest]

-----------------------------------------------------------------------------
(* Continuity *)

\* Whether every ref of the source finds a match of its own.
StrictRepairSucceeds(source, candidates) ==
    LET nodes == RefCandidates(source)
        found[i \in 0 .. Len(nodes)] ==
            IF i = 0 THEN {}
            ELSE found[i - 1] \cup
                 {Best(Description(nodes[i]),
                       {n \in ToSet(candidates) : n.rid \notin found[i - 1]})}
    IN  nodes # <<>> /\ 0 \notin found[Len(nodes)]

\* evaluate_continuity for a source whose compiled screen is known.
Continuity(source, screen) ==
    IF source.fingerprint = screen.fingerprint THEN "stable"
    ELSE IF StrictRepairSucceeds(source, RefCandidates(screen)) THEN "stable"
    ELSE "stale"
=============================================================================
