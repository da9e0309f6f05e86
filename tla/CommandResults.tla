---------------------------- MODULE CommandResults -----------------------------
(***************************************************************************)
(* What the command handlers of the daemon answer: the result or the error *)
(* for each way a command may end, given the screen the command started    *)
(* from and the screen that is current at its end.  No state: a screen is  *)
(* its id, NoScreen if there is none.                                      *)
(*                                                                         *)
(* A basis is what a handler captured of its source at the start: the id   *)
(* of the source screen, and the id of the compiled screen it has for it.  *)
(***************************************************************************)
EXTENDS CommandContract, ErrorCodes

CONSTANT Carries    \* pairs of screens such that all refs of one are found on the other

NoTruth == [continuity |-> "none", changed |-> "absent"]
Basis(source, compiled) == [source |-> source, compiled |-> compiled]

-----------------------------------------------------------------------------
(* Continuity *)

\* evaluate_continuity; the id of a screen is the fingerprint of its actions.
EvaluateContinuity(source, screen) ==
    IF source = screen THEN [continuity |-> "stable", changed |-> "no"]
    ELSE IF <<source, screen>> \in Carries THEN [continuity |-> "stable", changed |-> "yes"]
    ELSE [continuity |-> "stale", changed |-> "yes"]

\* Mutant of ScreenContinuity: whatever screen was compiled last stands for the source.
ScreenContinuityOfLast(basis, screen) ==
    IF basis.source = NoScreen \/ screen = NoScreen THEN NoTruth
    ELSE IF basis.compiled # NoScreen
    THEN EvaluateContinuity(basis.compiled, screen)
    ELSE IF basis.source = screen THEN [continuity |-> "stable", changed |-> "no"]
    ELSE [continuity |-> "stale", changed |-> "yes"]

\* resolve_screen_continuity: without the compiled source the ids decide.
ScreenContinuity(basis, screen) ==
    IF basis.source = NoScreen \/ screen = NoScreen THEN NoTruth
    ELSE IF basis.compiled # NoScreen /\ basis.compiled = basis.source
    THEN EvaluateContinuity(basis.source, screen)
    ELSE IF basis.source = screen THEN [continuity |-> "stable", changed |-> "no"]
    ELSE [continuity |-> "stale", changed |-> "yes"]

\* The basis of a command that is bound to a source, when cur is the current screen.
SourceBasis(cmd, bound, cur) ==
    CASE cmd.name \in RefCommands -> Basis(bound, cur)
      [] cmd.name \in GlobalCommands ->
            IF bound = NoScreen THEN Basis(cur, cur)
            ELSE Basis(bound, IF cur = bound THEN cur ELSE NoScreen)
      [] cmd.name = "wait" ->
            IF Relative(cmd) THEN Basis(bound, IF cur = bound THEN cur ELSE NoScreen)
            ELSE Basis(NoScreen, NoScreen)
      [] OTHER -> Basis(cur, cur)

\* _resolve_continuity of the actions and resolve_open_changed
ActionTruth(cmd, basis, screen) ==
    LET truth == ScreenContinuity(basis, screen)
    IN  IF cmd.name = "open" THEN [truth EXCEPT !.continuity = "none"]
        ELSE IF cmd.name \in GlobalCommands /\ basis.compiled = NoScreen
        THEN [truth EXCEPT !.changed = "absent"]
        ELSE truth

-----------------------------------------------------------------------------
(* Results *)

\* build_semantic_success_result
SemanticSuccess(command, basis, screen, truth, exec, target) ==
    [command |-> command, ok |-> TRUE, code |-> "", category |-> Category(command),
     mode |-> "full", source |-> basis.source, next |-> screen, screen |-> screen,
     exec |-> exec, continuity |-> truth.continuity, changed |-> truth.changed,
     quality |-> "authoritative", target |-> target, artifacts |-> screen # NoScreen]

\* Mutant of SemanticFailure: the screen is shown with every code.
SemanticFailureWithScreen(command, source, code, screen, truth, exec) ==
    [command |-> command, ok |-> FALSE, code |-> code, category |-> Category(command),
     mode |-> IF screen = NoScreen THEN "none" ELSE "full",
     source |-> source, next |-> screen, screen |-> screen, exec |-> exec,
     continuity |-> truth.continuity, changed |-> truth.changed,
     quality |-> IF screen = NoScreen THEN "none" ELSE "authoritative",
     target |-> NoTarget, artifacts |-> screen # NoScreen]

\* build_semantic_failure_result: a code of lost truth takes no screen along.
SemanticFailure(command, source, code, screen, truth, exec) ==
    LET kept == IF code \in LostTruthCodes THEN NoScreen ELSE screen
        said == IF kept = NoScreen THEN NoTruth ELSE truth
    IN  [command |-> command, ok |-> FALSE, code |-> code, category |-> Category(command),
         mode |-> IF kept = NoScreen THEN "none" ELSE "full",
         source |-> source, next |-> kept, screen |-> kept, exec |-> exec,
         continuity |-> said.continuity, changed |-> said.changed,
         quality |-> IF kept = NoScreen THEN "none" ELSE "authoritative",
         target |-> NoTarget, artifacts |-> kept # NoScreen]

\* _RETAINED_FAILURE_PROJECTIONS
ProjectedCode(command, code) ==
    IF command = "screenshot" /\ code \in {"ARTIFACT_ROOT_UNWRITABLE", "ARTIFACT_WRITE_FAILED"}
    THEN "WORKSPACE_STATE_UNWRITABLE" ELSE code

\* build_retained_success_result and build_projected_retained_failure_result; an
\* empty code is the success.
RetainedResult(command, code) ==
    [command |-> command, ok |-> code = "", code |-> ProjectedCode(command, code),
     envelope |-> RetainedKind[command]]

ListAppsResult == [command |-> "list-apps", ok |-> TRUE, code |-> ""]

-----------------------------------------------------------------------------
(* Answers *)

\* _to_contract_code refuses a code that the contract does not have; the server then
\* answers as for any other exception.
ErrorAnswer(code) ==
    [kind |-> "error",
     code |-> IF code \in WireCodes THEN code ELSE "INTERNAL_COMMAND_FAILURE"]

\* _finalize_result
ResultAnswer(r) ==
    IF Accepted(r) THEN [kind |-> "result", result |-> r]
    ELSE ErrorAnswer("INTERNAL_COMMAND_FAILURE")

\* run, when the serial admission is refused.
BusyAnswer(command) ==
    IF Family(command) = "retained" THEN ResultAnswer(RetainedResult(command, "RUNTIME_BUSY"))
    ELSE ErrorAnswer("RUNTIME_BUSY")

\* _command_result_payload
ActionSucceeds(cmd, basis, screen, exec, target) ==
    ResultAnswer(SemanticSuccess(cmd.name, basis, screen, ActionTruth(cmd, basis, screen),
                                 exec, target))

\* _command_error_payload; a code without a semantic result is raised.
ActionFails(cmd, basis, screen, code, attempted, lost) ==
    LET semantic == SemanticCode(code, lost, screen # NoScreen)
        shown == IF lost THEN NoScreen ELSE screen
        truth == IF cmd.name = "open" THEN NoTruth ELSE ActionTruth(cmd, basis, screen)
    IN  IF semantic = "" THEN ErrorAnswer(code)
        ELSE ResultAnswer(SemanticFailure(cmd.name, basis.source, semantic, shown,
                IF semantic = "REF_STALE" /\ shown # NoScreen /\ basis.source # NoScreen
                THEN [truth EXCEPT !.continuity = "stale"] ELSE truth,
                FailureExecution(code, attempted, lost)))

\* ObserveCommandHandler.handle
ObserveSucceeds(basis, screen) ==
    ResultAnswer(SemanticSuccess("observe", basis, screen, ScreenContinuity(basis, screen),
                                 "notApplicable", NoTarget))
ObserveFails(basis, code) ==
    IF SemanticCode(code, FALSE, TRUE) = "" THEN ErrorAnswer(code)
    ELSE ResultAnswer(SemanticFailure("observe", NoScreen, SemanticCode(code, FALSE, TRUE),
                                      basis.source, NoTruth, "notApplicable"))

\* _wait_success_payload with the overrides of gone and screen-change.
WaitSucceeds(cmd, basis, screen) ==
    LET truth == ScreenContinuity(basis, screen)
        forced == IF cmd.until = "gone" THEN [continuity |-> "stale", changed |-> "yes"]
                  ELSE IF cmd.until = "screen-change" /\ screen # basis.source
                  THEN [truth EXCEPT !.changed = "yes"]
                  ELSE truth
    IN  ResultAnswer(SemanticSuccess("wait", basis, screen, forced, "notApplicable", NoTarget))

\* _wait_failure_payload
WaitFails(basis, screen, code) ==
    IF SemanticCode(code, FALSE, TRUE) = "" THEN ErrorAnswer(code)
    ELSE ResultAnswer(SemanticFailure("wait", basis.source, SemanticCode(code, FALSE, TRUE),
                                      screen, ScreenContinuity(basis, screen),
                                      "notApplicable"))
================================================================================
