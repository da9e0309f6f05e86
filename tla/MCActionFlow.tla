---------------------------- MODULE MCActionFlow ----------------------------
(* ActionFlow on a mail form, its dialog, a list and the list after a search. *)
EXTENDS ActionFlow

Node(up, cls, text, is, acts, box) ==
    [up |-> up, cls |-> cls, res |-> "", text |-> text, desc |-> "", hint |-> "",
     is |-> is, acts |-> acts, win |-> "w", box |-> box]
Ui(app, activity, nodes) == [app |-> app, activity |-> activity, ime |-> "", nodes |-> nodes]

Root == Node(0, "Frame", "", {}, {}, <<0, 0, 100, 200>>)
Form == Node(1, "Form", "", {}, {}, <<0, 0, 100, 60>>)
Input(text, is) ==
    [Node(2, "EditText", text, {"editable"} \cup is, {"setText", "focus", "submit"},
          <<0, 0, 100, 20>>) EXCEPT !.hint = "To"]
Send == Node(2, "Button", "Send", {"clickable"}, {"tap"}, <<0, 30, 100, 50>>)
Dialog == Node(1, "Dialog", "", {"pane"}, {}, <<10, 80, 90, 120>>)
OK == Node(5, "Button", "OK", {"clickable"}, {"tap"}, <<20, 100, 80, 115>>)
List(acts) == Node(1, "List", "", {"scrollable"}, acts, <<0, 0, 100, 200>>)
Search == [Input("hi", {"focused"}) EXCEPT !.box = <<0, 20, 100, 40>>]
Row(text, top) ==
    Node(2, "Row", text, {"clickable"}, {"tap", "longTap"}, <<0, top, 100, top + 20>>)

MCSnapshot ==
    [idle |-> Ui("mail", "compose", <<Root, Form, Input("", {}), Send>>),
     focused |-> Ui("mail", "compose", <<Root, Form, Input("", {"focused"}), Send>>),
     dialog |-> Ui("mail", "compose",
                   <<Root, Form, Input("", {"focused"}), Send, Dialog, OK>>),
     rows |-> Ui("files", "inbox", <<Root, List({"scrollUp", "scrollDown"}),
                                     Row("A", 0), Row("B", 20)>>),
     found |-> Ui("files", "inbox", <<Root, List({"scrollUp"}), Row("B", 0), Search>>)]
MCUIs == DOMAIN MCSnapshot

\* The screens on which refs change places.
MovingUIs == {"idle", "focused", "rows", "found"}
MovingSnapshot == [u \in MovingUIs |-> MCSnapshot[u]]

\* What the compiler makes of them, as SnapshotAssumption checks.
Shown(rid, role, label, cls, actions, score, parent, siblings, box) ==
    [rid |-> rid, role |-> role, label |-> label, state |-> {}, actions |-> actions,
     box |-> box, res |-> "", cls |-> cls, targetable |-> TRUE, score |-> score,
     group |-> "targets", parentRole |-> "container", parentLabel |-> parent,
     siblings |-> siblings, relative |-> box, dirs |-> {}, texts |-> <<>>, quality |-> 6,
     dropped |-> FALSE]
ShownInput(label, state, actions, score, siblings, quality) ==
    [Shown(3, "input", label, "EditText", actions, score, "Form", siblings, Input("", {}).box)
        EXCEPT !.state = state, !.quality = quality]
ShownSend(actions) ==
    Shown(4, "button", "Send", "Button", actions, 155, "Form", <<"To">>, Send.box)
ShownRow(rid, label, siblings, top) ==
    Shown(rid, "list-item", label, "Row", {"tap", "longTap"}, 130, "List", siblings,
          Row("", top).box)
ShownList(dirs, texts) ==
    [Shown(2, "scroll-container", "List", "List", {"scroll"}, 105, "Frame", <<>>, Root.box)
        EXCEPT !.dirs = dirs, !.texts = texts, !.quality = 0]
ShownSearch ==
    [ShownInput("hi", {"focused"}, {"type", "submit"}, 160, <<"B">>, 6)
        EXCEPT !.parentLabel = "List", !.rid = 4, !.box = Search.box, !.relative = Search.box]
ShownDialog ==
    <<[Shown(6, "button", "OK", "Button", {"tap"}, 155, "Dialog", <<>>, OK.box)
        EXCEPT !.group = "dialog", !.parentRole = "dialog", !.relative = <<10, 20, 70, 35>>],
      [Shown(5, "dialog", "Dialog", "Dialog", {}, 5, "Frame", <<"Form">>, Dialog.box)
        EXCEPT !.group = "dialog", !.targetable = FALSE, !.quality = 0]>>
Plain(u, targets) ==
    [app |-> MCSnapshot[u].app, activity |-> MCSnapshot[u].activity, keyboard |-> FALSE,
     blocking |-> "", submits |-> {}, fingerprint |-> u,
     groups |-> [g \in Groups |-> IF g = "targets" THEN targets ELSE <<>>]]
Editing == {"type", "submit"}
MCCompiled ==
    [idle |-> Plain("idle", <<ShownSend({"tap"}), ShownInput("To", {}, {"focus"}, 150,
                                                             <<"Send">>, 4)>>),
     focused |-> [Plain("focused", <<ShownInput("To", {"focused"}, Editing, 160,
                                                <<"Send">>, 4), ShownSend({"tap"})>>)
                    EXCEPT !.submits = {<<3, 4>>}],
     dialog |-> [Plain("dialog", <<ShownInput("To", {"focused"}, {}, 160, <<"Send">>, 4),
                                   ShownSend({})>>)
                    EXCEPT !.blocking = "dialog", !.groups["dialog"] = ShownDialog],
     rows |-> Plain("rows", <<ShownRow(3, "A", <<"B">>, 0), ShownRow(4, "B", <<"A">>, 20),
                              ShownList({"up", "down"}, <<"A", "B">>)>>),
     found |-> Plain("found",
                     <<ShownSearch, ShownRow(3, "B", <<"hi">>, 0), ShownList({"up"}, <<"B", "hi">>)>>)]

MovingCompiled == [u \in MovingUIs |-> MCCompiled[u]]

Cmd(kind, screen, ref, arg) == [kind |-> kind, screen |-> screen, ref |-> ref, arg |-> arg]
MCCommands ==
    {Cmd("tap", "idle", 1, ""), Cmd("focus", "idle", 2, ""), Cmd("type", "idle", 2, "hi"),
     Cmd("focus", "focused", 1, ""), Cmd("type", "focused", 1, "hi"),
     Cmd("submit", "focused", 1, ""), Cmd("submit", "found", 1, ""),
     Cmd("tap", "dialog", 2, ""), Cmd("scroll", "rows", 3, "down"),
     Cmd("longTap", "rows", 2, ""), Cmd("openApp", "", 0, "files"),
     Cmd("openUrl", "", 0, ""), Cmd("recents", "", 0, "")}
MovingCommands ==
    {Cmd("tap", "rows", 1, ""), Cmd("longTap", "rows", 2, ""), Cmd("tap", "found", 1, ""),
     Cmd("back", "", 0, "")}
=============================================================================
