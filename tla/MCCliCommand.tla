----------------------------- MODULE MCCliCommand ------------------------------
(* Two invocations at one daemon, on a device with three screens, between two of *)
(* which all refs carry over.                                                    *)
EXTENDS CliCommand

Plain(name) == [name |-> name, until |-> "", given |-> NoScreen]
From(name, screen) == [Plain(name) EXCEPT !.given = screen]
Until(until, screen) == [name |-> "wait", until |-> until, given |-> screen]

MCRequests ==
    [c1 |-> {Plain("tap"), From("focus", "s1"), Plain("submit"), Plain("open"),
             From("back", "s1"), Until("idle", NoScreen), Until("gone", NoScreen),
             Until("screen-change", "s1"), Plain("list-apps"), Plain("screenshot")},
     c2 |-> {Plain("connect"), Plain("observe"), Plain("back"), Plain("close")}]
MCClients == DOMAIN MCRequests
MCScreens == {"s1", "s2", "s3"}
MCCarries == {<<"s1", "s2">>}
================================================================================
