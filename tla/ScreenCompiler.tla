--------------------------- MODULE ScreenCompiler --------------------------
(***************************************************************************)
(* SemanticCompiler.compile: the screen that the host makes of a snapshot  *)
(* of the accessibility tree.  No state: a snapshot is a value.            *)
(*                                                                         *)
(* A snapshot s has the package and activity, the window of a visible IME  *)
(* ("" without one) and s.nodes, a function from rids to raw nodes.  Rids  *)
(* are numbers in document order, a parent before its children; as in the  *)
(* agent a rid names a position in the tree, not an element.  Texts and    *)
(* names are strings that are equal or not, "" where the node has none.    *)
(* The cut of labels, state descriptions and the order of labels in sort   *)
(* keys are left out.                                                      *)
(***************************************************************************)
EXTENDS Integers, Sequences, FiniteSets, SequencesExt

CONSTANTS
    SubmitLabels,   \* _SUBMIT_LABELS: labels of controls that submit
    GlobalNames,    \* names with one of _GLOBAL_SCOPE_TOKENS, decor views, root content
    FormClasses     \* _FORM_CONTAINER_CLASSES

ASSUME NamesAssumption == "" \notin GlobalNames \cup FormClasses \cup SubmitLabels

ClassRole ==
    [Dialog |-> "dialog", Tab |-> "tab", Key |-> "keyboard-key", EditText |-> "input",
     Switch |-> "switch", CheckBox |-> "checkbox", RadioButton |-> "radio",
     Button |-> "button", Image |-> "image"]
Generic == {"container", "text", "image", "list-item"}
RoleScore ==
    [button |-> 50, input |-> 45, switch |-> 40, checkbox |-> 35, radio |-> 35, tab |-> 30,
     text |-> 5] @@ ("list-item" :> 25) @@ ("keyboard-key" :> 20)
GroupOrder == <<"targets", "keyboard", "system", "context", "dialog">>
Groups == {"targets", "keyboard", "system", "context", "dialog"}

\* F(x): a LET whose value TLC computes once.
With(x, F(_)) == CHOOSE y \in {F(v) : v \in {x}} : TRUE

-----------------------------------------------------------------------------
(* Labels *)

\* A class decides before the editable flag only when it is one of the first three.
InferRole(n) ==
    CASE n.cls \in {"Dialog", "Tab", "Key"} -> ClassRole[n.cls]
      [] n.cls \notin {"Dialog", "Tab", "Key"} /\ "editable" \in n.is -> "input"
      [] n.cls \in DOMAIN ClassRole \ {"Dialog", "Tab", "Key"} /\ "editable" \notin n.is ->
            ClassRole[n.cls]
      [] OTHER -> IF "clickable" \in n.is THEN "list-item"
                  ELSE IF n.text # "" \/ n.desc # "" THEN "text" ELSE "container"

FirstOf(values) ==
    LET there == {i \in DOMAIN values : values[i] # ""}
    IN  IF there = {} THEN "" ELSE values[CHOOSE i \in there : \A j \in there : i <= j]

Caption(n) == FirstOf(<<n.text, n.desc>>)
InOrder(rids) == SetToSortSeq(rids, <)
Children(s, r) == InOrder({c \in DOMAIN s.nodes : s.nodes[c].up = r})
Siblings(s, r) ==
    IF s.nodes[r].up = 0 THEN <<>>
    ELSE SelectSeq(Children(s, s.nodes[r].up), LAMBDA c : c # r)

\* The caption of a sibling, else of the parent.
NearLabel(s, r) ==
    IF s.nodes[r].up = 0 THEN ""
    ELSE LET around == Append(Siblings(s, r), s.nodes[r].up)
         IN  FirstOf([i \in DOMAIN around |-> Caption(s.nodes[around[i]])])

\* The label and its quality, best source first.
LabelInfo(s, r) ==
    LET n == s.nodes[r]
        values == <<n.text, n.desc, n.hint, NearLabel(s, r), n.res>>
        quality == [i \in 1 .. 5 |-> IF i = 5 THEN 1 ELSE 7 - i]
        there == {i \in 1 .. 5 : values[i] # ""}
    IN  IF there = {} THEN [label |-> "", quality |-> 0]
        ELSE LET i == CHOOSE j \in there : \A k \in there : j <= k
             IN  [label |-> values[i], quality |-> quality[i]]

LabelOr(s, r) == FirstOf(<<LabelInfo(s, r).label, s.nodes[r].cls>>)
LabelsOf(s, rids) == With(rids, LAMBDA seq : [i \in DOMAIN seq |-> LabelOr(s, seq[i])])

ExtractState(n) ==
    (n.is \cap {"selected", "disabled", "focused", "password", "checked"})
        \cup (IF "checkable" \in n.is /\ "checked" \notin n.is THEN {"unchecked"} ELSE {})

\* What a raw node offers, whatever the public role makes of it.
SemanticActions(n) ==
    (n.acts \cap {"tap", "longTap"})
        \cup (IF "editable" \in n.is /\ "setText" \in n.acts THEN {"type"} ELSE {})
        \cup (IF "scrollable" \in n.is /\ n.acts \cap {"scrollUp", "scrollDown"} # {}
              THEN {"scroll"} ELSE {})

SemanticRole(source, anchor) ==
    LET offers == SemanticActions(anchor)
        base == InferRole(anchor)
        role == IF offers = {} \/ InferRole(source) \notin Generic THEN InferRole(source)
                ELSE IF base \notin Generic THEN base
                ELSE IF "type" \in offers THEN "input"
                ELSE IF "scroll" \in offers THEN "container" ELSE base
    IN  IF role # "input" \/ "editable" \in anchor.is THEN role
        ELSE IF base # "input" THEN base
        ELSE IF "scroll" \in offers THEN "container"
        ELSE IF offers # {} THEN "list-item" ELSE "text"

\* An input that can be edited offers its own actions only with the focus, and
\* otherwise no more than to take it.
PublicActions(anchor, role) ==
    IF role # "input" \/ "editable" \notin anchor.is THEN SemanticActions(anchor)
    ELSE IF "focused" \in anchor.is
    THEN SemanticActions(anchor) \cup (anchor.acts \cap {"submit"})
    ELSE anchor.acts \cap {"focus"}

-----------------------------------------------------------------------------
(* Targets: a label or icon inside an actionable node speaks for that node *)

Ancestors(s, r) ==
    LET up[x \in DOMAIN s.nodes] ==
            IF s.nodes[x].up = 0 THEN <<>> ELSE <<s.nodes[x].up>> \o up[s.nodes[x].up]
    IN  up[r]

CanPromote(n, offers) ==
    /\ "scroll" \notin offers
    /\ \/ FirstOf(<<n.text, n.desc, n.hint, n.res>>) # ""
       \/ InferRole(n) \notin Generic

\* The nearest actionable node at or above r, 0 if r may not speak for it.
Anchor(s, r) ==
    LET line == <<r>> \o Ancestors(s, r)
        offering == {i \in DOMAIN line : SemanticActions(s.nodes[line[i]]) # {}}
    IN  IF offering = {} THEN 0
        ELSE LET i == CHOOSE j \in offering : \A k \in offering : j <= k
             IN  IF i = 1 \/ CanPromote(s.nodes[r], SemanticActions(s.nodes[line[i]]))
                 THEN line[i] ELSE 0

\* Lexicographic order of sequences of numbers.
Precedes(a, b) ==
    \E i \in DOMAIN a : a[i] < b[i] /\ \A j \in 1 .. i - 1 : a[j] = b[j]

SourceKey(s, r, anchor) ==
    <<LabelInfo(s, r).quality,
      IF InferRole(s.nodes[r]) \in Generic THEN 0 ELSE 1,
      IF r = anchor THEN 0 ELSE 1,
      0 - Len(SelectSeq(<<r>> \o Ancestors(s, r), LAMBDA x : x > anchor)),
      r>>

\* From each anchor to the node that speaks for it.
TargetSources(s) ==
    LET anchorOf == [r \in DOMAIN s.nodes |-> Anchor(s, r)]
        anchors == {anchorOf[r] : r \in DOMAIN s.nodes} \ {0}
    IN  [a \in anchors |->
            CHOOSE r \in DOMAIN s.nodes :
                /\ anchorOf[r] = a
                /\ \A q \in DOMAIN s.nodes :
                       anchorOf[q] = a /\ q # r =>
                           Precedes(SourceKey(s, q, a), SourceKey(s, r, a))]

-----------------------------------------------------------------------------
(* Nodes of the screen *)

InferGroup(s, anchor, role, targetable) ==
    CASE role = "dialog" \/ "pane" \in anchor.is -> "dialog"
      [] role # "dialog" /\ "pane" \notin anchor.is /\
         (role = "keyboard-key" \/ (s.ime # "" /\ anchor.win = s.ime)) -> "keyboard"
      [] OTHER -> IF "systemui" \in anchor.is THEN "system"
                  ELSE IF targetable THEN "targets" ELSE "context"

Score(anchor, role, targetable) ==
    (IF targetable THEN 100 ELSE 0)
        + (IF role \in DOMAIN RoleScore THEN RoleScore[role] ELSE 0)
        + (IF "focused" \in anchor.is THEN 10 ELSE 0)
        + (IF "disabled" \in anchor.is THEN 0 ELSE 5)

\* scrollForward and scrollBackward are left out.
ScrollDirections(anchor) ==
    (IF "scrollUp" \in anchor.acts THEN {"up"} ELSE {})
        \cup (IF "scrollDown" \in anchor.acts THEN {"down"} ELSE {})

Distinct(seq) ==
    LET first == SelectSeq([i \in DOMAIN seq |-> i],
                           LAMBDA i : \A j \in 1 .. i - 1 : seq[j] # seq[i])
    IN  [k \in DOMAIN first |-> seq[first[k]]]

TextChildren(s, r) ==
    LET shown == SelectSeq(Children(s, r), LAMBDA c : "hidden" \notin s.nodes[c].is)
    IN  IF shown = <<>> THEN <<LabelOr(s, r)>>
        ELSE With(LabelsOf(s, shown), Distinct)

RelativeBox(box, parent) ==
    <<box[1] - parent[1], box[2] - parent[2], box[3] - parent[1], box[4] - parent[2]>>

Filtered(source, role, label, targetable) ==
    /\ ~targetable
    /\ \/ "unimportant" \in source.is
       \/ label = "" /\ role \in {"container", "image", "text"}

\* The node that r, which speaks for the anchor a, becomes in this role.
NodeOf(s, r, a, role, acts) ==
    LET source == s.nodes[r]
        anchor == s.nodes[a]
        info == LabelInfo(s, r)
        parentRole == IF source.up = 0 THEN "" ELSE InferRole(s.nodes[source.up])
    IN  [rid |-> a, role |-> role, label |-> LabelOr(s, r), state |-> ExtractState(anchor),
         actions |-> acts, box |-> anchor.box, res |-> source.res, cls |-> source.cls,
         targetable |-> acts # {}, score |-> Score(anchor, role, acts # {}),
         group |-> IF parentRole = "dialog" THEN "dialog"
                   ELSE InferGroup(s, anchor, role, acts # {}),
         parentRole |-> parentRole,
         parentLabel |-> IF source.up = 0 THEN "" ELSE LabelOr(s, source.up),
         siblings |-> LabelsOf(s, Siblings(s, r)),
         relative |-> IF source.up = 0 THEN source.box
                      ELSE RelativeBox(source.box, s.nodes[source.up].box),
         dirs |-> IF role = "scroll-container" THEN ScrollDirections(anchor) ELSE {},
         texts |-> IF role = "scroll-container" THEN TextChildren(s, a) ELSE <<>>,
         quality |-> info.quality,
         dropped |-> "hidden" \in source.is
                        \/ Filtered(source, role, info.label, acts # {})]

\* compile_node: a container that scrolls is a scroll container.
CompileNode(s, r, a) ==
    With(SemanticRole(s.nodes[r], s.nodes[a]), LAMBDA base :
        With(PublicActions(s.nodes[a], base), LAMBDA acts :
            With(IF base = "container" /\ "scroll" \in acts THEN "scroll-container"
                 ELSE base,
                 LAMBDA role : NodeOf(s, r, a, role, acts))))

PassiveKey(n) == <<n.group, n.role, n.label, n.parentRole, n.parentLabel>>

\* The nodes that no target stands for, each passive one once, and the targets.
FirstOfEach(nodes) ==
    {n \in nodes : n.targetable \/ ~\E m \in nodes : /\ ~m.targetable /\ m.rid < n.rid
                                                   /\ PassiveKey(m) = PassiveKey(n)}
CompiledNodes(s) ==
    With(TargetSources(s), LAMBDA sources :
        LET loose == {r \in DOMAIN s.nodes :
                         /\ r \notin DOMAIN sources
                         /\ \A a \in DOMAIN sources : sources[a] # r}
            targets == {CompileNode(s, sources[a], a) : a \in DOMAIN sources}
            others == {CompileNode(s, r, r) : r \in loose}
        IN  {n \in targets : ~n.dropped}
                \cup With({n \in others : ~n.dropped}, FirstOfEach))

SortKey(n) ==
    IF n.group = "context" THEN <<n.box[2], n.box[1], n.rid>>
    ELSE <<0 - n.score, n.box[2], n.box[1], n.rid>>
Sorted(nodes) == SetToSortSeq(nodes, LAMBDA m, n : Precedes(SortKey(m), SortKey(n)))

Grouped(s) ==
    With(CompiledNodes(s), LAMBDA nodes :
        [g \in Groups |-> Sorted({n \in nodes : n.group = g})])

-----------------------------------------------------------------------------
(* The group that takes the input of the whole screen *)

SomeNode(nodes, P(_)) == \E i \in DOMAIN nodes : P(nodes[i])
Acts(n) == n.actions # {}
IsFocusedInput(n) == n.role = "input" /\ "focused" \in n.state

\* A visible IME blocks only if it owns the focused input.
BlockingGroup(s, grouped) ==
    CASE SomeNode(grouped["dialog"], Acts) -> "dialog"
      [] /\ ~SomeNode(grouped["dialog"], Acts)
         /\ s.ime # "" /\ SomeNode(grouped["keyboard"], IsFocusedInput)
         /\ SomeNode(grouped["keyboard"], Acts) -> "keyboard"
      [] OTHER -> IF SomeNode(grouped["system"], Acts) THEN "system" ELSE ""

\* Outside of the blocking group only the context keeps its actions.
ApplyBlocking(grouped, blocking) ==
    [g \in Groups |->
        IF blocking = "" \/ g \in {"context", blocking} THEN grouped[g]
        ELSE [i \in DOMAIN grouped[g] |-> [grouped[g][i] EXCEPT !.actions = {}]]]

-----------------------------------------------------------------------------
(* Submit attribution: the one control near the focused input that submits it *)

MaxScopeDistance == 4
EdgeTolerance == 4
MinGapCap == 24

\* A scope that relates an input to a control: not the root of its window, not a
\* bar or frame of the whole application, and with a name of its own.
Meaningful(s, scope, a, b) ==
    LET n == s.nodes[scope] IN
    /\ n.up # 0
    /\ n.win = s.nodes[a].win
    /\ n.win = s.nodes[b].win
    /\ scope \notin {a, b}
    /\ {n.res, n.cls, n.text, n.desc} \cap GlobalNames = {}
    /\ n.res # "" \/ "pane" \in n.is \/ Caption(n) # "" \/ n.cls \in FormClasses

Position(seq, x) ==
    IF x \in ToSet(seq) THEN CHOOSE i \in DOMAIN seq : seq[i] = x ELSE MaxScopeDistance + 1

\* The shared parent if it is meaningful, else the nearest meaningful ancestor
\* that is close to both; 0 if there is none.
RelationScope(s, a, b) ==
    LET direct == s.nodes[a].up
        shared == {x \in ToSet(Ancestors(s, a)) :
                      /\ Position(Ancestors(s, a), x) <= MaxScopeDistance
                      /\ Position(Ancestors(s, b), x) <= MaxScopeDistance
                      /\ Meaningful(s, x, a, b)}
    IN  IF direct # 0 /\ direct = s.nodes[b].up /\ Meaningful(s, direct, a, b) THEN direct
        ELSE IF shared = {} THEN 0
        ELSE CHOOSE x \in shared :
                \A y \in shared : Position(Ancestors(s, a), x) <= Position(Ancestors(s, a), y)

Width(box) == box[3] - box[1]
Height(box) == box[4] - box[2]
Least(a, b) == IF a < b THEN a ELSE b
Most(a, b) == IF a < b THEN b ELSE a
Overlap(a1, a2, b1, b2) == Most(0, Least(a2, b2) - Most(a1, b1))
CenterInside(box, outer) ==
    /\ 2 * outer[1] <= box[1] + box[3] /\ box[1] + box[3] <= 2 * outer[3]
    /\ 2 * outer[2] <= box[2] + box[4] /\ box[2] + box[4] <= 2 * outer[4]

\* Below: a gap of at most 2.5 heights, an overlap of at least 0.35 of the narrower.
Stacked(a, b) ==
    /\ b[2] >= a[4] - EdgeTolerance
    /\ 2 * Most(0, b[2] - a[4]) <= Most(2 * MinGapCap, 5 * Most(Height(a), Height(b)))
    /\ 100 * Overlap(a[1], a[3], b[1], b[3]) >= 35 * Least(Width(a), Width(b))

\* To the right: a gap of at most 1.5 heights, an overlap of at least half.
Inline(a, b) ==
    /\ b[1] >= a[3] - EdgeTolerance
    /\ 2 * Most(0, b[1] - a[3]) <= Most(2 * MinGapCap, 3 * Most(Height(a), Height(b)))
    /\ 2 * Overlap(a[2], a[4], b[2], b[4]) >= Least(Height(a), Height(b))

PlausibleGeometry(a, b, scope) ==
    /\ CenterInside(a, scope) /\ CenterInside(b, scope)
    /\ \A box \in {a, b} : Width(box) > 0 /\ Height(box) > 0
    /\ Stacked(a, b) \/ Inline(a, b)

SubmitControl(n, group) ==
    /\ n.role = "button" \/ (group = "keyboard" /\ n.role = "keyboard-key")
    /\ "tap" \in n.actions
    /\ "disabled" \notin n.state
    /\ n.quality >= 4
    /\ n.label \in SubmitLabels

\* The focused input of the group and the control it submits with; only one input
\* and one control make a relation.
SubmitTarget(s, nodes, group) ==
    LET inputs == {n \in ToSet(nodes) : IsFocusedInput(n) /\ "disabled" \notin n.state}
        source == CHOOSE n \in inputs : TRUE
        Near(n) ==
            /\ s.nodes[n.rid].win = s.nodes[source.rid].win
            /\ LET scope == RelationScope(s, source.rid, n.rid)
               IN  scope # 0 /\ PlausibleGeometry(source.box, n.box, s.nodes[scope].box)
        controls == {n \in ToSet(nodes) \ inputs : SubmitControl(n, group) /\ Near(n)}
    IN  IF Cardinality(inputs) # 1 \/ Cardinality(controls) # 1 THEN <<0, 0>>
        ELSE <<source.rid, (CHOOSE n \in controls : TRUE).rid>>

SubmitRelations(s, grouped, blocking) ==
    LET active == IF blocking # "" THEN {blocking} ELSE Groups \ {"context"}
    IN  {SubmitTarget(s, grouped[g], g) : g \in active} \ {<<0, 0>>}

-----------------------------------------------------------------------------
(* The screen *)

\* semantic_relation_identity: what identifies a node within its group.
Identity(n) ==
    <<n.role, n.label, n.state, n.actions, n.res, n.cls, n.parentRole, n.parentLabel,
      n.siblings, n.relative>>

\* build_action_surface_fingerprint; the screen id is its hash.
Fingerprint(s, grouped, blocking, submits) ==
    LET of(rid) == Identity(CHOOSE n \in UNION {ToSet(grouped[g]) : g \in Groups} :
                                n.rid = rid)
        tokens(n) == {of(p[2]) : p \in {q \in submits : q[1] = n.rid}}
    IN  <<s.app, s.activity, s.ime # "", blocking,
          [g \in Groups |-> [i \in DOMAIN grouped[g] |->
                                <<Identity(grouped[g][i]), tokens(grouped[g][i])>>]]>>

Screen(s, grouped, blocking) ==
    With(SubmitRelations(s, grouped, blocking), LAMBDA submits :
        [app |-> s.app, activity |-> s.activity, keyboard |-> s.ime # "",
         blocking |-> blocking, groups |-> grouped, submits |-> submits,
         fingerprint |-> Fingerprint(s, grouped, blocking, submits)])

Compile(s) ==
    With(Grouped(s), LAMBDA raw :
        With(BlockingGroup(s, raw), LAMBDA blocking :
            With(ApplyBlocking(raw, blocking), LAMBDA grouped :
                Screen(s, grouped, blocking))))

NodesOf(screen) == UNION {ToSet(screen.groups[g]) : g \in Groups}
Flat(screen, order) == FlattenSeq([i \in DOMAIN order |-> screen.groups[order[i]]])
FirstWhere(seq, P(_)) ==
    LET hits == SelectSeq(seq, P) IN IF hits = <<>> THEN <<>> ELSE <<hits[1]>>

\* The focused input, in a sequence of its own or none.
FocusedInput(screen) ==
    FirstWhere(Flat(screen, <<"targets", "dialog", "keyboard", "system", "context">>),
               IsFocusedInput)

\* ref_candidates: the nodes that get refs, in this order.
RefCandidates(screen) ==
    LET open == IF screen.blocking = "" THEN <<"targets", "dialog", "keyboard", "system">>
                ELSE <<screen.blocking>>
    IN  Distinct(SelectSeq(Flat(screen, open), Acts) \o FocusedInput(screen))
=============================================================================
