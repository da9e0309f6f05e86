--------------------------- MODULE CliCommand_proofs ---------------------------
(***************************************************************************)
(* What androidctl prints, for any number of invocations, any commands and *)
(* screens, and any pairs of screens whose refs carry over.                *)
(*                                                                         *)
(* The first part is about the results alone: a truth that continuity      *)
(* makes of two screens fits them, and every result a handler builds of    *)
(* such a truth is one the contract accepts.  CliOK adds who waits for the *)
(* command that the daemon works on, and that an answer is true of the     *)
(* invocation it was given to until it is printed.                         *)
(***************************************************************************)
EXTENDS CliCommand, TLAPS

-----------------------------------------------------------------------------
(* Continuity *)

\* What is said of the way from one screen to another is true of the two; gone is the
\* wait that calls a screen changed because a ref is gone from it.
TruthFits(truth, source, screen, gone) ==
    /\ truth.continuity = "stable" => source = screen \/ <<source, screen>> \in Carries
    /\ truth.changed = "no" => source = screen
    /\ truth.changed = "yes" /\ ~gone => source # screen

\* Nothing is said of a screen that is not there.
Silent(truth) == truth.continuity = "none" /\ truth.changed = "absent"

\* What resolve_screen_continuity says fits, whatever was compiled for the source.
LEMMA ContinuityFits ==
    ASSUME NEW basis, NEW screen, NEW gone
    PROVE  LET truth == ScreenContinuity(basis, screen)
           IN  /\ TruthFits(truth, basis.source, screen, gone)
               /\ basis.source = NoScreen \/ screen = NoScreen => Silent(truth)
BY DEF ScreenContinuity, EvaluateContinuity, NoTruth, TruthFits, Silent

\* So does what the actions make of it, which only leave out a part.
LEMMA ActionTruthFits ==
    ASSUME NEW cmd, NEW basis, NEW screen, NEW gone
    PROVE  LET truth == ActionTruth(cmd, basis, screen)
           IN  /\ DOMAIN truth = {"continuity", "changed"}
               /\ TruthFits(truth, basis.source, screen, gone)
               /\ basis.source = NoScreen \/ screen = NoScreen => Silent(truth)
<1> DEFINE truth == ScreenContinuity(basis, screen)
<1>1. /\ TruthFits(truth, basis.source, screen, gone)
      /\ basis.source = NoScreen \/ screen = NoScreen => Silent(truth)
  BY ContinuityFits
<1>2. DOMAIN truth = {"continuity", "changed"}
  BY DEF ScreenContinuity, EvaluateContinuity, NoTruth
<1> HIDE DEF truth
<1>3. /\ [truth EXCEPT !.continuity = "none"].continuity = "none"
      /\ [truth EXCEPT !.continuity = "none"].changed = truth.changed
      /\ [truth EXCEPT !.changed = "absent"].continuity = truth.continuity
      /\ [truth EXCEPT !.changed = "absent"].changed = "absent"
  BY <1>2
<1>4. ActionTruth(cmd, basis, screen) \in
         {truth, [truth EXCEPT !.continuity = "none"], [truth EXCEPT !.changed = "absent"]}
  BY DEF ActionTruth, truth
<1>5. DOMAIN ActionTruth(cmd, basis, screen) = {"continuity", "changed"}
  BY <1>2, <1>4
<1> QED
  BY <1>1, <1>3, <1>4, <1>5 DEF TruthFits, Silent

-----------------------------------------------------------------------------
(* Results that the contract accepts *)

\* The screen that a failure is reported with, and what is said of it.
Kept(code, screen) == IF code \in LostTruthCodes THEN NoScreen ELSE screen

\* A target that belongs to the screens of its result.
TargetFits(target, command, source, screen) ==
    /\ command \in {"focus", "type", "submit"}
    /\ target.source = source /\ source # NoScreen /\ target.next = screen
    /\ target.status = "sameRef" => target.ref = target.subject
    /\ target.status = "successor" => target.ref \notin {0, target.subject}
    /\ target.status \in {"gone", "unconfirmed"} => target.ref = 0

\* _finalize_result lets every success through that names a screen and says of it
\* what fits.
LEMMA SuccessAccepted ==
    ASSUME NEW command, NEW basis, NEW screen, NEW truth, NEW exec, NEW target,
           Family(command) = "semantic", screen # NoScreen,
           basis.source = NoScreen => Silent(truth),
           target = NoTarget \/ TargetFits(target, command, basis.source, screen)
    PROVE  LET r == SemanticSuccess(command, basis, screen, truth, exec, target)
           IN  ResultAnswer(r) = [kind |-> "result", result |-> r]
<1> DEFINE r == SemanticSuccess(command, basis, screen, truth, exec, target)
<1>1. /\ r.command = command /\ r.ok = TRUE /\ r.code = "" /\ r.mode = "full"
      /\ r.category = Category(command)
      /\ r.source = basis.source /\ r.next = screen /\ r.screen = screen
      /\ r.continuity = truth.continuity /\ r.changed = truth.changed
      /\ r.target = target
  BY DEF SemanticSuccess
<1> HIDE DEF r
<1>2. NotConfirmedAccepted(r) /\ LostTruthAccepted(r)
  BY <1>1 DEF NotConfirmedAccepted, LostTruthAccepted, LostTruthCodes
<1>3. TargetAccepted(r)
  BY <1>1 DEF TargetAccepted, TargetFits
<1>4. SemanticAccepted(r)
  BY <1>1, <1>2, <1>3 DEF SemanticAccepted, Silent
<1> QED
  BY <1>1, <1>4 DEF ResultAnswer, Accepted, r

\* So it does every failure, if those that report on a screen have one.
LEMMA FailureAccepted ==
    ASSUME NEW command, NEW source, NEW code, NEW screen, NEW truth, NEW exec,
           Family(command) = "semantic", code # "",
           source = NoScreen => Silent(truth),
           code = "ACTION_NOT_CONFIRMED" => exec = "dispatched" /\ screen # NoScreen,
           code = "POST_ACTION_OBSERVATION_LOST" => exec = "dispatched"
    PROVE  LET r == SemanticFailure(command, source, code, screen, truth, exec)
           IN  ResultAnswer(r) = [kind |-> "result", result |-> r]
<1> DEFINE r == SemanticFailure(command, source, code, screen, truth, exec)
           kept == Kept(code, screen)
           said == IF kept = NoScreen THEN NoTruth ELSE truth
<1>1. /\ r.command = command /\ r.ok = FALSE /\ r.code = code
      /\ r.category = Category(command)
      /\ r.mode = (IF kept = NoScreen THEN "none" ELSE "full")
      /\ r.quality = (IF kept = NoScreen THEN "none" ELSE "authoritative")
      /\ r.source = source /\ r.next = kept /\ r.screen = kept
      /\ r.exec = exec /\ r.continuity = said.continuity /\ r.changed = said.changed
      /\ r.target = NoTarget /\ r.artifacts = (kept # NoScreen)
  BY DEF SemanticFailure, Kept
<1>2. /\ code \in LostTruthCodes => kept = NoScreen
      /\ code = "ACTION_NOT_CONFIRMED" => kept # NoScreen
      /\ kept = NoScreen \/ source = NoScreen => Silent(said)
  BY DEF Kept, LostTruthCodes, Silent, NoTruth
<1> HIDE DEF r, kept, said
<1>3. NotConfirmedAccepted(r) /\ LostTruthAccepted(r)
  BY <1>1, <1>2 DEF NotConfirmedAccepted, LostTruthAccepted, LostTruthCodes, Silent
<1>4. TargetAccepted(r)
  BY <1>1 DEF TargetAccepted
<1>5. SemanticAccepted(r)
  BY <1>1, <1>2, <1>3, <1>4 DEF SemanticAccepted, Silent
<1> QED
  BY <1>1, <1>5 DEF ResultAnswer, Accepted, r

\* And every result of the retained family, failures with any code.
LEMMA RetainedAnswered ==
    ASSUME NEW command \in DOMAIN RetainedKind, NEW code
    PROVE  LET r == RetainedResult(command, code)
           IN  /\ ResultAnswer(r) = [kind |-> "result", result |-> r]
               /\ Family(command) = "retained"
<1>1. command \in {"connect", "screenshot", "close"}
  BY DEF RetainedKind
<1>2. Family(command) = "retained"
  BY <1>1 DEF Family, Category, RefCommands, GlobalCommands
<1>3. RetainedAccepted(RetainedResult(command, code))
  BY DEF RetainedAccepted, RetainedResult
<1> QED
  BY <1>2, <1>3 DEF ResultAnswer, Accepted, RetainedResult

-----------------------------------------------------------------------------
(* Answers that are true of the invocation *)

\* An error answer: the user's own mistake, a busy runtime and a failure to bind end an
\* invocation that the daemon did not take.
ErrorTrue(code, step, served) ==
    /\ code # "INTERNAL_COMMAND_FAILURE"
    /\ code \in {"USAGE_ERROR", "RUNTIME_BUSY"} \/ step = "bind" => ~served

\* A result: it is of this command, which the daemon carried out if it says so, and
\* tells whether the device acted and how the two screens are related.
ResultTrue(r, cmd, served, acted) ==
    /\ r.command = cmd.name
    /\ r.ok \in BOOLEAN
    /\ r.code = "RUNTIME_BUSY" => ~served
    /\ r.ok => served \/ r.command = "close"
    /\ Family(r.command) = "semantic" =>
          /\ r.exec = "dispatched" /\ r.code # "OPEN_FAILED" => acted
          /\ r.ok /\ r.exec = "notAttempted" => ~acted
          /\ TruthFits(r, r.source, r.next, r.command = "wait" /\ cmd.until = "gone")

AnswerTrue(answer, step, cmd, served, acted) ==
    \/ answer.kind = "error" /\ ErrorTrue(answer.code, step, served)
    \/ answer.kind = "result" /\ ResultTrue(answer.result, cmd, served, acted)

\* An error with a code of the contract.
LEMMA ErrorAnswered ==
    ASSUME NEW code \in WireCodes, NEW step, NEW cmd, NEW served, NEW acted,
           ErrorTrue(code, step, served)
    PROVE  AnswerTrue(ErrorAnswer(code), step, cmd, served, acted)
BY DEF AnswerTrue, ErrorAnswer

\* A result that the contract accepts.
LEMMA ResultAnswered ==
    ASSUME NEW r, NEW step, NEW cmd, NEW served, NEW acted,
           ResultAnswer(r) = [kind |-> "result", result |-> r],
           ResultTrue(r, cmd, served, acted)
    PROVE  AnswerTrue(ResultAnswer(r), step, cmd, served, acted)
<1>1. ResultAnswer(r).kind = "result" /\ ResultAnswer(r).result = r
  OBVIOUS
<1> QED
  BY <1>1 DEF AnswerTrue

\* A retained result.
LEMMA RetainedTrue ==
    ASSUME NEW cmd, cmd.name \in DOMAIN RetainedKind, NEW code, NEW step, NEW acted,
           NEW served \in BOOLEAN,
           code = "RUNTIME_BUSY" => ~served, code = "" => served \/ cmd.name = "close"
    PROVE  AnswerTrue(ResultAnswer(RetainedResult(cmd.name, code)), step, cmd, served, acted)
<1> DEFINE r == RetainedResult(cmd.name, code)
<1>1. /\ ResultAnswer(r) = [kind |-> "result", result |-> r]
      /\ Family(cmd.name) = "retained"
  BY RetainedAnswered
<1>2. /\ r.command = cmd.name /\ r.ok = (code = "")
      /\ r.code = "RUNTIME_BUSY" => code = "RUNTIME_BUSY"
  BY DEF RetainedResult, ProjectedCode
<1> HIDE DEF r
<1>3. ResultTrue(r, cmd, served, acted)
  BY <1>1, <1>2 DEF ResultTrue
<1> QED
  BY <1>1, <1>3, ResultAnswered DEF r

\* A success of a semantic command.
LEMMA SuccessTrue ==
    ASSUME NEW cmd, NEW basis, NEW screen, NEW truth, NEW exec, NEW target, NEW acted,
           Family(cmd.name) = "semantic", screen # NoScreen,
           TruthFits(truth, basis.source, screen, cmd.name = "wait" /\ cmd.until = "gone"),
           basis.source = NoScreen => Silent(truth),
           target = NoTarget \/ TargetFits(target, cmd.name, basis.source, screen),
           exec = "dispatched" => acted, exec = "notAttempted" => ~acted
    PROVE  AnswerTrue(ResultAnswer(SemanticSuccess(cmd.name, basis, screen, truth, exec,
                                                   target)), "run", cmd, TRUE, acted)
<1> DEFINE r == SemanticSuccess(cmd.name, basis, screen, truth, exec, target)
<1>1. ResultAnswer(r) = [kind |-> "result", result |-> r]
  BY SuccessAccepted
<1>2. /\ r.command = cmd.name /\ r.ok = TRUE /\ r.code = "" /\ r.exec = exec
      /\ r.source = basis.source /\ r.next = screen
      /\ r.continuity = truth.continuity /\ r.changed = truth.changed
  BY DEF SemanticSuccess
<1> HIDE DEF r
<1>3. ResultTrue(r, cmd, TRUE, acted)
  BY <1>2 DEF ResultTrue, TruthFits
<1> QED
  BY <1>1, <1>3, ResultAnswered DEF r

\* A failure of a semantic command.
LEMMA FailureTrue ==
    ASSUME NEW cmd, NEW source, NEW code, NEW screen, NEW truth, NEW exec, NEW acted,
           Family(cmd.name) = "semantic", code \notin {"", "RUNTIME_BUSY"},
           screen # NoScreen => TruthFits(truth, source, screen, FALSE),
           source = NoScreen => Silent(truth),
           code = "ACTION_NOT_CONFIRMED" => exec = "dispatched" /\ screen # NoScreen,
           code = "POST_ACTION_OBSERVATION_LOST" => exec = "dispatched",
           exec = "dispatched" /\ code # "OPEN_FAILED" => acted
    PROVE  AnswerTrue(ResultAnswer(SemanticFailure(cmd.name, source, code, screen, truth,
                                                   exec)), "run", cmd, TRUE, acted)
<1> DEFINE r == SemanticFailure(cmd.name, source, code, screen, truth, exec)
           kept == Kept(code, screen)
           said == IF kept = NoScreen THEN NoTruth ELSE truth
<1>1. ResultAnswer(r) = [kind |-> "result", result |-> r]
  BY FailureAccepted
<1>2. /\ r.command = cmd.name /\ r.ok = FALSE /\ r.code = code /\ r.exec = exec
      /\ r.source = source /\ r.next = kept
      /\ r.continuity = said.continuity /\ r.changed = said.changed
  BY DEF SemanticFailure, Kept
<1>3. TruthFits(said, source, kept, FALSE)
  BY DEF TruthFits, NoTruth, Kept
<1> HIDE DEF r, kept, said
<1>4. ResultTrue(r, cmd, TRUE, acted)
  BY <1>2, <1>3 DEF ResultTrue, TruthFits
<1> QED
  BY <1>1, <1>4, ResultAnswered DEF r

-----------------------------------------------------------------------------
(* What the handlers answer *)

\* The commands of the action executor, and the codes that they fail with.
ActionCodes ==
    {"RUNTIME_NOT_CONNECTED", "SCREEN_NOT_READY", "DEVICE_DISCONNECTED",
     "DEVICE_AGENT_CAPABILITY_MISMATCH", "REF_STALE", "REF_RESOLUTION_FAILED",
     "TARGET_BLOCKED", "TARGET_NOT_ACTIONABLE", "OPEN_FAILED", "TYPE_NOT_CONFIRMED",
     "SUBMIT_NOT_CONFIRMED", "ACTION_NOT_CONFIRMED", "DEVICE_RPC_TRANSPORT_RESET",
     "DEVICE_AGENT_UNAUTHORIZED"}

LEMMA ActionsAreSemantic ==
    ASSUME NEW name \in Actions \cup {"observe", "wait"}
    PROVE  /\ Family(name) = "semantic"
           /\ name \in Actions => name \notin {"wait", "observe"}
BY DEF Actions, RefCommands, GlobalCommands, Family, Category

LEMMA ActionSuccessTrue ==
    ASSUME NEW cmd, cmd.name \in Actions, NEW basis, NEW screen, screen # NoScreen,
           NEW exec, NEW target, NEW acted,
           target = NoTarget \/ TargetFits(target, cmd.name, basis.source, screen),
           exec = "dispatched" => acted, exec = "notAttempted" => ~acted
    PROVE  AnswerTrue(ActionSucceeds(cmd, basis, screen, exec, target), "run", cmd, TRUE,
                      acted)
<1>1. Family(cmd.name) = "semantic"
  BY ActionsAreSemantic
<1>2. /\ TruthFits(ActionTruth(cmd, basis, screen), basis.source, screen,
                   cmd.name = "wait" /\ cmd.until = "gone")
      /\ basis.source = NoScreen => Silent(ActionTruth(cmd, basis, screen))
  BY ActionTruthFits
<1> QED
  BY <1>1, <1>2, SuccessTrue DEF ActionSucceeds

\* Whatever fails before the device was asked, and with a code that says so, may be
\* reported for a device that did not act.
LEMMA ActionFailureTrue ==
    ASSUME NEW cmd, cmd.name \in Actions, NEW basis, NEW screen, NEW code \in ActionCodes,
           NEW attempted \in BOOLEAN, NEW lost \in BOOLEAN, NEW acted,
           attempted \/ lost \/ code \in NotConfirmed => acted
    PROVE  AnswerTrue(ActionFails(cmd, basis, screen, code, attempted, lost), "run", cmd,
                      TRUE, acted)
<1> DEFINE semantic == SemanticCode(code, lost, screen # NoScreen)
           shown == IF lost THEN NoScreen ELSE screen
           exec == FailureExecution(code, attempted, lost)
           truth == IF cmd.name = "open" THEN NoTruth ELSE ActionTruth(cmd, basis, screen)
           said == IF semantic = "REF_STALE" /\ shown # NoScreen /\ basis.source # NoScreen
                   THEN [truth EXCEPT !.continuity = "stale"] ELSE truth
<1>1. CASE semantic = ""
  <2>1. code \in {"DEVICE_AGENT_CAPABILITY_MISMATCH", "REF_RESOLUTION_FAILED"}
    BY <1>1 DEF SemanticCode, ActionCodes, NotConfirmed, Availability
  <2>2. code \in WireCodes /\ ErrorTrue(code, "run", TRUE)
    BY <2>1 DEF WireCodes, ErrorTrue
  <2> QED
    BY <1>1, <2>2, ErrorAnswered DEF ActionFails
<1>2. CASE semantic # ""
  <2>1. Family(cmd.name) = "semantic"
    BY ActionsAreSemantic
  <2>2. semantic # "RUNTIME_BUSY"
    BY DEF SemanticCode, NotConfirmed, Availability
  <2>3. /\ semantic = "ACTION_NOT_CONFIRMED" => exec = "dispatched" /\ shown # NoScreen
        /\ semantic = "POST_ACTION_OBSERVATION_LOST" => exec = "dispatched"
    BY DEF SemanticCode, NotConfirmed, Availability, FailureExecution
  <2>4. exec = "dispatched" /\ semantic # "OPEN_FAILED" => acted
    <3>1. exec = "dispatched" => attempted \/ lost \/ code \in NotConfirmed \cup {"OPEN_FAILED"}
      BY DEF FailureExecution
    <3>2. code = "OPEN_FAILED" => semantic = "OPEN_FAILED"
      BY DEF SemanticCode, NotConfirmed
    <3> QED
      BY <3>1, <3>2
  <2>5. shown # NoScreen => TruthFits(said, basis.source, shown, FALSE)
    <3>1. ASSUME shown # NoScreen PROVE TruthFits(truth, basis.source, shown, FALSE)
      BY <3>1, ActionTruthFits DEF TruthFits, NoTruth
    <3>2. DOMAIN truth = {"continuity", "changed"}
      BY ActionTruthFits DEF NoTruth
    <3> HIDE DEF truth
    <3>3. /\ [truth EXCEPT !.continuity = "stale"].continuity = "stale"
          /\ [truth EXCEPT !.continuity = "stale"].changed = truth.changed
      BY <3>2
    <3> HIDE DEF semantic, shown
    <3> QED
      BY <3>1, <3>3 DEF TruthFits
  <2>6. basis.source = NoScreen => Silent(said)
    BY ActionTruthFits DEF Silent, NoTruth
  <2> DEFINE r == SemanticFailure(cmd.name, basis.source, semantic, shown, said, exec)
  <2>7. ActionFails(cmd, basis, screen, code, attempted, lost) = ResultAnswer(r)
    BY <1>2 DEF ActionFails
  <2> HIDE DEF semantic, shown, exec, said
  <2>8. AnswerTrue(ResultAnswer(r), "run", cmd, TRUE, acted)
    BY <1>2, <2>1, <2>2, <2>3, <2>4, <2>5, <2>6, FailureTrue
  <2> QED
    BY <2>7, <2>8
<1> QED
  BY <1>1, <1>2

LEMMA ObserveTrue ==
    ASSUME NEW cmd, cmd.name = "observe", NEW basis
    PROVE  /\ \A screen : screen # NoScreen =>
                 AnswerTrue(ObserveSucceeds(basis, screen), "run", cmd, TRUE, FALSE)
           /\ \A code \in {"DEVICE_DISCONNECTED", "ACCESSIBILITY_NOT_READY",
                           "RUNTIME_NOT_CONNECTED"} :
                 AnswerTrue(ObserveFails(basis, code), "run", cmd, TRUE, FALSE)
<1>1. Family(cmd.name) = "semantic"
  BY ActionsAreSemantic
<1>2. ASSUME NEW screen, screen # NoScreen
      PROVE  AnswerTrue(ObserveSucceeds(basis, screen), "run", cmd, TRUE, FALSE)
  <2> DEFINE truth == ScreenContinuity(basis, screen)
  <2>1. /\ TruthFits(truth, basis.source, screen, cmd.name = "wait" /\ cmd.until = "gone")
        /\ basis.source = NoScreen => Silent(truth)
    BY ContinuityFits
  <2> HIDE DEF truth
  <2>2. AnswerTrue(ResultAnswer(SemanticSuccess(cmd.name, basis, screen, truth,
                                                "notApplicable", NoTarget)),
                   "run", cmd, TRUE, FALSE)
    BY <1>1, <1>2, <2>1, SuccessTrue
  <2> QED
    BY <2>2 DEF ObserveSucceeds, truth
<1>3. ASSUME NEW code \in {"DEVICE_DISCONNECTED", "ACCESSIBILITY_NOT_READY",
                           "RUNTIME_NOT_CONNECTED"}
      PROVE  AnswerTrue(ObserveFails(basis, code), "run", cmd, TRUE, FALSE)
  <2>1. CASE code = "ACCESSIBILITY_NOT_READY"
    <3>1. SemanticCode(code, FALSE, TRUE) = ""
      BY <2>1 DEF SemanticCode, NotConfirmed, Availability
    <3>2. code \in WireCodes /\ ErrorTrue(code, "run", TRUE)
      BY <2>1 DEF WireCodes, ErrorTrue
    <3> QED
      BY <3>1, <3>2, ErrorAnswered DEF ObserveFails
  <2>2. CASE code # "ACCESSIBILITY_NOT_READY"
    <3>1. SemanticCode(code, FALSE, TRUE) = "DEVICE_UNAVAILABLE"
      BY <2>2 DEF SemanticCode, NotConfirmed, Availability
    <3>2. TruthFits(NoTruth, NoScreen, basis.source, FALSE) /\ Silent(NoTruth)
      BY DEF TruthFits, NoTruth, Silent
    <3>3. AnswerTrue(ResultAnswer(SemanticFailure(cmd.name, NoScreen, "DEVICE_UNAVAILABLE",
                                                  basis.source, NoTruth, "notApplicable")),
                     "run", cmd, TRUE, FALSE)
      BY <1>1, <3>2, FailureTrue
    <3> QED
      BY <3>1, <3>3 DEF ObserveFails
  <2> QED
    BY <2>1, <2>2
<1> QED
  BY <1>2, <1>3

\* A wait that is relative to a screen knows that screen.
LEMMA WaitSuccessTrue ==
    ASSUME NEW cmd, cmd.name = "wait", NEW basis, NEW screen, screen # NoScreen,
           Relative(cmd) => basis.source # NoScreen
    PROVE  AnswerTrue(WaitSucceeds(cmd, basis, screen), "run", cmd, TRUE, FALSE)
<1> DEFINE truth == ScreenContinuity(basis, screen)
           gone == [continuity |-> "stale", changed |-> "yes"]
           forced == IF cmd.until = "gone" THEN gone
                     ELSE IF cmd.until = "screen-change" /\ screen # basis.source
                     THEN [truth EXCEPT !.changed = "yes"]
                     ELSE truth
<1>1. Family(cmd.name) = "semantic"
  BY ActionsAreSemantic
<1>2. /\ TruthFits(truth, basis.source, screen, cmd.until = "gone")
      /\ basis.source = NoScreen => Silent(truth)
  BY ContinuityFits
<1>3. DOMAIN truth = {"continuity", "changed"}
  BY DEF ScreenContinuity, EvaluateContinuity, NoTruth
<1>4. cmd.until \in {"gone", "screen-change"} => basis.source # NoScreen
  BY DEF Relative
<1>5. gone.continuity = "stale" /\ gone.changed = "yes"
  OBVIOUS
<1> HIDE DEF truth
<1>6. /\ [truth EXCEPT !.changed = "yes"].continuity = truth.continuity
      /\ [truth EXCEPT !.changed = "yes"].changed = "yes"
  BY <1>3
<1> HIDE DEF gone
<1>7. /\ TruthFits(forced, basis.source, screen, cmd.name = "wait" /\ cmd.until = "gone")
      /\ basis.source = NoScreen => Silent(forced)
  BY <1>2, <1>4, <1>5, <1>6 DEF TruthFits
<1>8. WaitSucceeds(cmd, basis, screen) =
         ResultAnswer(SemanticSuccess("wait", basis, screen, forced, "notApplicable", NoTarget))
  BY DEF WaitSucceeds, truth, gone
<1> HIDE DEF forced
<1>9. AnswerTrue(ResultAnswer(SemanticSuccess(cmd.name, basis, screen, forced,
                                              "notApplicable", NoTarget)),
                 "run", cmd, TRUE, FALSE)
  BY <1>1, <1>7, SuccessTrue
<1> QED
  BY <1>8, <1>9

LEMMA WaitFailureTrue ==
    ASSUME NEW cmd, cmd.name = "wait", NEW basis, NEW screen,
           NEW code \in {"WAIT_TIMEOUT", "DEVICE_DISCONNECTED", "SCREEN_NOT_READY",
                         "RUNTIME_NOT_CONNECTED"}
    PROVE  AnswerTrue(WaitFails(basis, screen, code), "run", cmd, TRUE, FALSE)
<1> DEFINE truth == ScreenContinuity(basis, screen)
           semantic == SemanticCode(code, FALSE, TRUE)
<1>1. Family(cmd.name) = "semantic"
  BY ActionsAreSemantic
<1>2. semantic \in {"WAIT_TIMEOUT", "DEVICE_UNAVAILABLE"}
  BY DEF SemanticCode, NotConfirmed, Availability
<1>3. TruthFits(truth, basis.source, screen, FALSE) /\ (basis.source = NoScreen => Silent(truth))
  BY ContinuityFits
<1>4. WaitFails(basis, screen, code) =
         ResultAnswer(SemanticFailure("wait", basis.source, semantic, screen, truth,
                                      "notApplicable"))
  BY <1>2 DEF WaitFails
<1> HIDE DEF truth, semantic
<1>5. AnswerTrue(ResultAnswer(SemanticFailure(cmd.name, basis.source, semantic, screen, truth,
                                              "notApplicable")),
                 "run", cmd, TRUE, FALSE)
  BY <1>1, <1>2, <1>3, FailureTrue
<1> QED
  BY <1>4, <1>5

-----------------------------------------------------------------------------
(* The invariant *)

InvocationFields == {"pc", "cmd", "bound", "served", "acted", "answer", "step", "shown"}
RuntimeFields == {"up", "stopping", "screen", "connected", "status"}
JobFields == {"owner", "awaited", "cmd", "acted", "bound", "begun", "basis"}

Rendered(i) ==
    IF i.answer.kind = "result" THEN RenderedResult(i.answer.result)
    ELSE RenderedError(i.answer.code, i.step)

\* An invocation was taken by the daemon when it is served, is bound to a source by then
\* if it needs one, and has from its answer on a true one; it prints that one or nothing.
InvocationOK(i) ==
    /\ DOMAIN i = InvocationFields /\ i.served \in BOOLEAN /\ i.acted \in BOOLEAN
    /\ i.pc \in {"idle", "started", "found", "bound", "served", "answered", "shown"}
    /\ i.pc \in {"bound", "served"} /\ NeedsSource(i.cmd) => i.bound # NoScreen
    /\ i.pc \in {"started", "found", "bound"} => i.served = FALSE /\ i.acted = FALSE
    /\ i.pc = "served" => i.served = TRUE
    /\ IF i.pc \in {"answered", "shown"}
       THEN AnswerTrue(i.answer, i.step, i.cmd, i.served, i.acted)
       ELSE i.answer = NoAnswer
    /\ IF i.pc = "shown" THEN i.shown \in {StaticFailure, Rendered(i)}
       ELSE i.shown = NoAnswer

\* The job is the command of the client that waits for it, if one still does, and has
\* the source it needs; a daemon that stops has none.
JobOK ==
    job # NoJob =>
        /\ DOMAIN job = JobFields /\ job.owner \in Clients /\ job.acted \in BOOLEAN
        /\ NeedsSource(job.cmd) => job.bound # NoScreen /\ job.basis.source = job.bound
        /\ job.awaited => cli[job.owner].pc = "served" /\ cli[job.owner].cmd = job.cmd
        /\ ~runtime.stopping

\* Whoever waits for a command waits for the job.
ServedOK ==
    \A c \in Clients : cli[c].pc = "served" => job # NoJob /\ job.awaited /\ job.owner = c

CliOK ==
    /\ DOMAIN cli = Clients /\ DOMAIN runtime = RuntimeFields
    /\ \A c \in Clients : InvocationOK(cli[c])
    /\ JobOK /\ ServedOK

-----------------------------------------------------------------------------
(* Steps of the CLI *)

\* An invocation that is answered.
AnsweredWith(i, answer, step, acted) ==
    [i EXCEPT !.pc = "answered", !.answer = answer, !.step = step, !.acted = acted]

\* A true answer keeps an invocation as it should be.
LEMMA AnsweredOK ==
    ASSUME NEW i, InvocationOK(i), i.pc \notin {"idle", "answered", "shown"},
           NEW answer, NEW step, NEW acted \in BOOLEAN,
           AnswerTrue(answer, step, i.cmd, i.served, acted)
    PROVE  /\ InvocationOK(AnsweredWith(i, answer, step, acted))
           /\ AnsweredWith(i, answer, step, acted).pc = "answered"
<1> DEFINE j == AnsweredWith(i, answer, step, acted)
<1>1. /\ DOMAIN j = InvocationFields
      /\ j.pc = "answered" /\ j.answer = answer /\ j.step = step /\ j.acted = acted
      /\ j.cmd = i.cmd /\ j.served = i.served /\ j.shown = i.shown
  BY DEF InvocationOK, AnsweredWith, InvocationFields
<1> HIDE DEF j
<1>2. InvocationOK(j)
  BY <1>1 DEF InvocationOK
<1> QED
  BY <1>1, <1>2 DEF j

\* A step that changes one invocation only, and not one that is served.
LEMMA OneInvocation ==
    ASSUME CliOK, NEW c \in Clients, cli[c].pc # "served", NEW i, InvocationOK(i),
           i.pc # "served", cli' = [cli EXCEPT ![c] = i],
           job' = job, DOMAIN runtime' = RuntimeFields,
           runtime'.stopping => runtime.stopping
    PROVE  CliOK'
<1>1. DOMAIN cli' = Clients /\ \A d \in Clients : cli'[d] = IF d = c THEN i ELSE cli[d]
  BY DEF CliOK
<1>2. \A d \in Clients : InvocationOK(cli[d])'
  BY <1>1 DEF CliOK, InvocationOK, Rendered
<1>3. JobOK' /\ ServedOK'
  BY <1>1 DEF CliOK, JobOK, ServedOK
<1> QED
  BY <1>1, <1>2, <1>3 DEF CliOK

\* An answer before the command is served.
LEMMA AnsweredStep ==
    ASSUME CliOK, NEW c \in Clients, cli[c].pc \in {"started", "found", "bound"},
           NEW answer, NEW step, AnswerTrue(answer, step, cli[c].cmd, FALSE, FALSE),
           Answered(c, answer, step), UNCHANGED <<runtime, job>>
    PROVE  CliOK'
<1> DEFINE j == AnsweredWith(cli[c], answer, step, FALSE)
<1>1. InvocationOK(cli[c]) /\ cli[c].served = FALSE /\ cli[c].acted = FALSE
  BY DEF CliOK, InvocationOK
<1>2. InvocationOK(j) /\ j.pc = "answered"
  BY <1>1, AnsweredOK
<1>3. cli' = [cli EXCEPT ![c] = j]
  <2>1. DOMAIN cli[c] = InvocationFields
    BY <1>1 DEF InvocationOK
  <2>2. [cli[c] EXCEPT !.pc = "answered", !.answer = answer, !.step = step] = j
    BY <1>1, <2>1 DEF AnsweredWith, InvocationFields
  <2> HIDE DEF j
  <2> QED
    BY <2>2 DEF Answered, CliOK
<1> HIDE DEF j
<1> QED
  BY <1>2, <1>3, OneInvocation DEF CliOK

\* An invocation that starts and goes on to the request, which names a source if the
\* command needs one.
LEMMA UnansweredOK ==
    ASSUME NEW i, InvocationOK(i)
    PROVE  /\ i.pc = "started" => InvocationOK([i EXCEPT !.pc = "found"])
           /\ i.pc = "started" /\ ~NeedsSource(i.cmd) => InvocationOK([i EXCEPT !.pc = "bound"])
           /\ i.pc = "bound" => InvocationOK([i EXCEPT !.pc = "served", !.served = TRUE])
           /\ \A bound : i.pc = "found" /\ (NeedsSource(i.cmd) => bound # NoScreen) =>
                 InvocationOK([i EXCEPT !.pc = "bound", !.bound = bound])
BY DEF InvocationOK, InvocationFields

LEMMA FreshOK ==
    ASSUME NEW cmd, NEW pc \in {"idle", "started"}
    PROVE  InvocationOK(Fresh(cmd, pc)) /\ Fresh(cmd, pc).pc = pc
<1> DEFINE i == Fresh(cmd, pc)
<1>1. /\ DOMAIN i = InvocationFields /\ i.pc = pc /\ i.served = FALSE /\ i.acted = FALSE
      /\ i.answer = NoAnswer /\ i.shown = NoAnswer
  BY DEF Fresh, InvocationFields
<1> HIDE DEF i
<1>2. InvocationOK(i)
  BY <1>1 DEF InvocationOK
<1> QED
  BY <1>1, <1>2 DEF i

LEMMA RuntimeShapes ==
    ASSUME CliOK
    PROVE  /\ \A status : /\ DOMAIN Restored(status) = RuntimeFields
                          /\ Restored(status).stopping = FALSE
                          /\ DOMAIN Off(status) = RuntimeFields
                          /\ Off(status).stopping = FALSE
                          /\ DOMAIN Cleared(status) = RuntimeFields
                          /\ Cleared(status).stopping = runtime.stopping
           /\ DOMAIN Dropped = RuntimeFields /\ Dropped.stopping = runtime.stopping
           /\ \A s : DOMAIN Showing(s) = RuntimeFields /\ Showing(s).stopping = runtime.stopping
BY DEF CliOK, Restored, Off, Cleared, Dropped, Showing, RuntimeFields

\* Up to the request.
LEMMA RequestSteps ==
    ASSUME CliOK, NEW c \in Clients,
           \/ Invoke(c) \/ Misuse(c) \/ Discover(c) \/ DiscoverFails(c) \/ CloseFinds(c)
           \/ Bind(c)
    PROVE  CliOK'
<1>0. InvocationOK(cli[c]) /\ DOMAIN runtime = RuntimeFields /\ DOMAIN cli = Clients
  BY DEF CliOK
<1>1. CASE Invoke(c)
  <2>1. PICK cmd \in Requests[c] : cli' = [cli EXCEPT ![c] = Fresh(cmd, "started")]
    BY <1>1 DEF Invoke
  <2>2. InvocationOK(Fresh(cmd, "started")) /\ Fresh(cmd, "started").pc = "started"
    BY FreshOK
  <2> QED
    BY <1>0, <1>1, <2>1, <2>2, OneInvocation DEF Invoke
<1>2. CASE Misuse(c)
  <2>1. AnswerTrue(Misused, "parse", cli[c].cmd, FALSE, FALSE)
    BY DEF AnswerTrue, ErrorTrue, Misused
  <2> QED
    BY <1>2, <2>1, AnsweredStep DEF Misuse
<1>3. CASE Discover(c)
  <2> DEFINE i == [cli[c] EXCEPT !.pc = "found"]
  <2>1. cli[c].pc = "started" /\ cli' = [cli EXCEPT ![c] = i] /\ job' = job
    BY <1>3 DEF Discover, Goes
  <2>2. InvocationOK(i)
    BY <1>0, <2>1, UnansweredOK
  <2>3. i.pc = "found"
    BY <1>0 DEF InvocationOK, InvocationFields
  <2>4. DOMAIN runtime' = RuntimeFields /\ (runtime'.stopping => runtime.stopping)
    BY <1>0, <1>3, RuntimeShapes DEF Discover
  <2> HIDE DEF i
  <2> QED
    BY <2>1, <2>2, <2>3, <2>4, OneInvocation
<1>4. CASE DiscoverFails(c)
  <2>1. PICK code \in {"WORKSPACE_BUSY", "LAUNCH_FAILED"} :
            Answered(c, [kind |-> "error", code |-> code], "discover")
    BY <1>4 DEF DiscoverFails
  <2>2. AnswerTrue([kind |-> "error", code |-> code], "discover", cli[c].cmd, FALSE, FALSE)
    BY DEF AnswerTrue, ErrorTrue
  <2> QED
    BY <1>4, <2>1, <2>2, AnsweredStep DEF DiscoverFails
<1>5. CASE CloseFinds(c)
  <2>1. CASE runtime.up
    <3> DEFINE i == [cli[c] EXCEPT !.pc = "bound"]
    <3>1. cli[c].pc = "started" /\ cli' = [cli EXCEPT ![c] = i] /\ UNCHANGED <<runtime, job>>
      BY <1>5, <2>1 DEF CloseFinds, Goes
    <3>2. ~NeedsSource(cli[c].cmd)
      BY <1>5 DEF CloseFinds, NeedsSource, Relative, RefCommands
    <3>3. InvocationOK(i)
      BY <1>0, <3>1, <3>2, UnansweredOK
    <3>4. i.pc = "bound"
      BY <1>0 DEF InvocationOK, InvocationFields
    <3> HIDE DEF i
    <3> QED
      BY <1>0, <3>1, <3>3, <3>4, OneInvocation
  <2>2. CASE ~runtime.up
    <3>1. cli[c].cmd.name = "close" /\ "close" \in DOMAIN RetainedKind
      BY <1>5 DEF CloseFinds, RetainedKind
    <3>2. AnswerTrue(ResultAnswer(RetainedResult(cli[c].cmd.name, "")), "discover",
                     cli[c].cmd, FALSE, FALSE)
      BY <3>1, RetainedTrue
    <3> QED
      BY <1>5, <2>2, <3>1, <3>2, AnsweredStep DEF CloseFinds
  <2> QED
    BY <2>1, <2>2
<1>6. CASE Bind(c)
  <2> DEFINE cmd == cli[c].cmd
             bound == IF cmd.given # NoScreen THEN cmd.given
                      ELSE IF TakesSource(cmd) THEN LiveScreen ELSE NoScreen
             code == IF runtime.status \in {"ready", "connected"}
                     THEN "SCREEN_NOT_READY" ELSE "RUNTIME_NOT_CONNECTED"
             i == [cli[c] EXCEPT !.pc = "bound", !.bound = bound]
  <2>0. cli[c].pc = "found" /\ UNCHANGED <<runtime, job>>
    BY <1>6 DEF Bind
  <2>1. CASE Answered(c, ErrorAnswer("RUNTIME_BUSY"), "get")
    <3>1. AnswerTrue(ErrorAnswer("RUNTIME_BUSY"), "get", cmd, FALSE, FALSE)
      BY ErrorAnswered DEF ErrorTrue, WireCodes
    <3> QED
      BY <2>0, <2>1, <3>1, AnsweredStep
  <2>2. CASE Answered(c, ErrorAnswer(code), "bind")
    <3>1. AnswerTrue(ErrorAnswer(code), "bind", cmd, FALSE, FALSE)
      BY ErrorAnswered DEF ErrorTrue, WireCodes
    <3> HIDE DEF code
    <3> QED
      BY <2>0, <2>2, <3>1, AnsweredStep
  <2>3. CASE /\ NeedsSource(cmd) => bound # NoScreen
             /\ cli' = [cli EXCEPT ![c].pc = "bound", ![c].bound = bound]
    <3>1. cli' = [cli EXCEPT ![c] = i]
      BY <2>3, <1>0
    <3>2. i.pc = "bound"
      BY <1>0 DEF InvocationOK, InvocationFields
    <3> HIDE DEF bound
    <3>3. InvocationOK(i)
      BY <1>0, <2>0, <2>3, UnansweredOK
    <3> HIDE DEF i
    <3> QED
      BY <1>0, <2>0, <3>1, <3>2, <3>3, OneInvocation
  <2> QED
    BY <1>6, <2>1, <2>2, <2>3 DEF Bind
<1> QED
  BY <1>1, <1>2, <1>3, <1>4, <1>5, <1>6

\* The handler captures the source that the command is bound to.
LEMMA BasisOfSource ==
    ASSUME NEW cmd, NeedsSource(cmd), NEW bound, NEW cur
    PROVE  SourceBasis(cmd, bound, cur).source = bound
<1>1. CASE cmd.name \in RefCommands
  <2>1. cmd.name \notin GlobalCommands /\ cmd.name # "wait"
    BY <1>1 DEF RefCommands, GlobalCommands
  <2>2. SourceBasis(cmd, bound, cur) = Basis(bound, cur)
    BY <1>1, <2>1 DEF SourceBasis
  <2> QED
    BY <2>2 DEF Basis
<1>2. CASE cmd.name \notin RefCommands
  <2>1. cmd.name = "wait" /\ Relative(cmd) /\ cmd.name \notin GlobalCommands
    BY <1>2 DEF NeedsSource, Relative, GlobalCommands
  <2>2. SourceBasis(cmd, bound, cur) = Basis(bound, IF cur = bound THEN cur ELSE NoScreen)
    BY <1>2, <2>1 DEF SourceBasis
  <2> QED
    BY <2>2 DEF Basis
<1> QED
  BY <1>1, <1>2

\* The request: it is refused, or becomes the job.
LEMMA ServeStep ==
    ASSUME CliOK, NEW c \in Clients, Serve(c)
    PROVE  CliOK'
<1> DEFINE cmd == cli[c].cmd
           i == [cli[c] EXCEPT !.pc = "served", !.served = TRUE]
<1>0. /\ InvocationOK(cli[c]) /\ cli[c].pc = "bound" /\ runtime' = runtime
      /\ DOMAIN cli = Clients /\ DOMAIN runtime = RuntimeFields
  BY DEF CliOK, Serve
<1>1. CASE Answered(c, ErrorAnswer("RUNTIME_BUSY"), "run") /\ job' = job
  <2>1. AnswerTrue(ErrorAnswer("RUNTIME_BUSY"), "run", cmd, FALSE, FALSE)
    BY ErrorAnswered DEF ErrorTrue, WireCodes
  <2> QED
    BY <1>0, <1>1, <2>1, AnsweredStep
<1>2. CASE Answered(c, BusyAnswer(cmd.name), "run") /\ job' = job
  <2>1. AnswerTrue(BusyAnswer(cmd.name), "run", cmd, FALSE, FALSE)
    <3>1. CASE Family(cmd.name) = "retained"
      <4>1. cmd.name \in DOMAIN RetainedKind
        BY <3>1 DEF Family
      <4> QED
        BY <3>1, <4>1, RetainedTrue DEF BusyAnswer
    <3>2. CASE Family(cmd.name) # "retained"
      BY <3>2, ErrorAnswered DEF BusyAnswer, ErrorTrue, WireCodes
    <3> QED
      BY <3>1, <3>2
  <2> QED
    BY <1>0, <1>2, <2>1, AnsweredStep
<1>3. CASE /\ ~runtime.stopping /\ job = NoJob
           /\ cli' = [cli EXCEPT ![c].pc = "served", ![c].served = TRUE]
           /\ job' = [owner |-> c, awaited |-> TRUE, cmd |-> cmd, acted |-> FALSE,
                      bound |-> cli[c].bound, begun |-> FALSE,
                      basis |-> SourceBasis(cmd, cli[c].bound, runtime.screen)]
  <2>1. /\ i.pc = "served" /\ i.cmd = cmd
        /\ InvocationOK(i)
    BY <1>0, UnansweredOK DEF InvocationOK, InvocationFields
  <2>2. DOMAIN cli' = Clients /\ \A d \in Clients : cli'[d] = IF d = c THEN i ELSE cli[d]
    BY <1>0, <1>3
  <2> HIDE DEF i
  <2>3. /\ job' # NoJob /\ DOMAIN job' = JobFields /\ job'.owner = c /\ job'.awaited = TRUE
        /\ job'.cmd = cmd /\ job'.acted = FALSE /\ job'.bound = cli[c].bound
        /\ job'.basis = SourceBasis(cmd, cli[c].bound, runtime.screen)
    <3>1. DOMAIN job' = JobFields
      BY <1>3 DEF JobFields
    <3>2. DOMAIN NoJob = {"owner"}
      BY DEF NoJob
    <3>3. job' # NoJob
      BY <3>1, <3>2 DEF JobFields
    <3> QED
      BY <1>3, <3>1, <3>3
  <2>4. NeedsSource(cmd) => cli[c].bound # NoScreen /\ job'.basis.source = cli[c].bound
    BY <1>0, <2>3, BasisOfSource DEF InvocationOK
  <2>5. \A d \in Clients : InvocationOK(cli[d])'
    BY <2>1, <2>2 DEF CliOK, InvocationOK, Rendered
  <2>6. JobOK'
    BY <1>0, <1>3, <2>1, <2>2, <2>3, <2>4 DEF JobOK
  <2>7. ServedOK'
    BY <1>3, <2>2, <2>3 DEF ServedOK, CliOK
  <2> QED
    BY <1>0, <2>2, <2>5, <2>6, <2>7 DEF CliOK
<1> QED
  BY <1>1, <1>2, <1>3 DEF Serve

\* The connection is gone, or the time is over.
LEMMA UnreachableTrue ==
    ASSUME NEW cmd, NEW served, NEW acted
    PROVE  AnswerTrue(Unreachable, "run", cmd, served, acted)
BY DEF AnswerTrue, ErrorTrue, Unreachable

LEMMA GiveUpStep ==
    ASSUME CliOK, NEW c \in Clients, GiveUp(c)
    PROVE  CliOK'
<1> DEFINE i == AnsweredWith(cli[c], Unreachable, "run", job.acted)
<1>1. /\ InvocationOK(cli[c]) /\ cli[c].pc = "served" /\ DOMAIN cli = Clients
      /\ job # NoJob /\ job.awaited /\ job.owner = c /\ job.acted \in BOOLEAN
      /\ DOMAIN job = JobFields
  BY DEF CliOK, GiveUp, ServedOK, JobOK
<1>2. InvocationOK(i) /\ i.pc = "answered"
  BY <1>1, AnsweredOK, UnreachableTrue
<1>3. cli' = [cli EXCEPT ![c] = i]
  BY <1>1 DEF GiveUp, AnsweredWith
<1> HIDE DEF i
<1>4. DOMAIN cli' = Clients /\ \A d \in Clients : cli'[d] = IF d = c THEN i ELSE cli[d]
  BY <1>1, <1>3
<1>5. /\ DOMAIN job' = JobFields /\ job'.awaited = FALSE
      /\ job'.owner = job.owner /\ job'.acted = job.acted /\ job'.cmd = job.cmd
      /\ job'.bound = job.bound /\ job'.basis = job.basis
  BY <1>1 DEF GiveUp, JobFields
<1>6. \A d \in Clients : InvocationOK(cli[d])'
  BY <1>2, <1>4 DEF CliOK, InvocationOK, Rendered
<1>7. JobOK'
  BY <1>1, <1>5 DEF JobOK, GiveUp, CliOK
<1>8. ServedOK'
  BY <1>1, <1>2, <1>4 DEF ServedOK, CliOK
<1> QED
  BY <1>4, <1>6, <1>7, <1>8 DEF CliOK, GiveUp

LEMMA ShowStep ==
    ASSUME CliOK, NEW c \in Clients, Show(c) \/ ShowFails(c)
    PROVE  CliOK'
<1>0. InvocationOK(cli[c]) /\ cli[c].pc = "answered" /\ DOMAIN runtime = RuntimeFields
  BY DEF CliOK, Show, ShowFails
<1>1. PICK shown \in {StaticFailure, Rendered(cli[c])} :
          cli' = [cli EXCEPT ![c].pc = "shown", ![c].shown = shown]
  BY DEF Show, ShowFails, Rendered
<1> DEFINE i == [cli[c] EXCEPT !.pc = "shown", !.shown = shown]
<1>2. cli' = [cli EXCEPT ![c] = i]
  BY <1>1 DEF CliOK
<1>3. /\ DOMAIN i = InvocationFields /\ i.pc = "shown" /\ i.shown = shown
      /\ i.served = cli[c].served /\ i.acted = cli[c].acted /\ i.cmd = cli[c].cmd
      /\ i.answer = cli[c].answer /\ i.step = cli[c].step
  BY <1>0 DEF InvocationOK, InvocationFields
<1> HIDE DEF i
<1>4. Rendered(i) = Rendered(cli[c])
  BY <1>3 DEF Rendered
<1>5. InvocationOK(i)
  BY <1>0, <1>1, <1>3, <1>4 DEF InvocationOK
<1> QED
  BY <1>0, <1>2, <1>3, <1>5, OneInvocation DEF Show, ShowFails

-----------------------------------------------------------------------------
(* Steps of the daemon *)

\* A job may end with any true answer, in any runtime.
LEMMA EndStep ==
    ASSUME CliOK, job # NoJob, NEW after, DOMAIN after = RuntimeFields,
           NEW answer, NEW acted \in BOOLEAN,
           AnswerTrue(answer, "run", job.cmd, TRUE, acted), End(after, answer, acted)
    PROVE  CliOK'
<1> DEFINE o == job.owner
           i == AnsweredWith(cli[o], answer, "run", acted)
<1>1. /\ o \in Clients /\ job' = NoJob /\ runtime' = after /\ DOMAIN cli = Clients
      /\ job.awaited => cli[o].pc = "served" /\ cli[o].cmd = job.cmd
  BY DEF CliOK, JobOK, End
<1>2. CASE job.awaited
  <2>1. InvocationOK(cli[o]) /\ cli[o].served = TRUE /\ cli[o].pc = "served"
    BY <1>1, <1>2 DEF CliOK, InvocationOK
  <2>2. InvocationOK(i) /\ i.pc = "answered"
    BY <1>1, <1>2, <2>1, AnsweredOK
  <2>3. cli' = [cli EXCEPT ![o] = i]
    BY <1>1, <1>2 DEF End, AnsweredWith
  <2> HIDE DEF i
  <2>4. DOMAIN cli' = Clients /\ \A d \in Clients : cli'[d] = IF d = o THEN i ELSE cli[d]
    BY <1>1, <2>3
  <2>5. \A d \in Clients : InvocationOK(cli[d])'
    BY <2>2, <2>4 DEF CliOK, InvocationOK, Rendered
  <2>6. ServedOK'
    BY <2>2, <2>4 DEF CliOK, ServedOK
  <2> QED
    BY <1>1, <2>4, <2>5, <2>6 DEF CliOK, JobOK
<1>3. CASE ~job.awaited
  <2>1. cli' = cli
    BY <1>3 DEF End
  <2>2. ServedOK'
    BY <1>3, <2>1 DEF CliOK, ServedOK
  <2>3. \A d \in Clients : InvocationOK(cli[d])'
    BY <2>1 DEF CliOK, InvocationOK, Rendered
  <2> QED
    BY <1>1, <2>1, <2>2, <2>3 DEF CliOK, JobOK
<1> QED
  BY <1>2, <1>3

\* A daemon that is gone leaves nobody waiting.
LEMMA CutStep ==
    ASSUME CliOK, cli' = Cut, job' = NoJob, DOMAIN runtime' = RuntimeFields
    PROVE  CliOK'
<1>1. DOMAIN cli' = Clients
  BY DEF Cut
<1>2. ASSUME NEW c \in Clients PROVE InvocationOK(cli[c])' /\ cli'[c].pc # "served"
  <2>1. CASE cli[c].pc \in {"found", "bound", "served"}
    <3> DEFINE acted == IF job # NoJob /\ job.awaited /\ job.owner = c
                        THEN job.acted ELSE cli[c].acted
               i == AnsweredWith(cli[c], Unreachable, "run", acted)
    <3>1. InvocationOK(cli[c]) /\ acted \in BOOLEAN
      BY DEF CliOK, JobOK, InvocationOK
    <3>2. cli'[c] = i
      BY <2>1, <3>1 DEF Cut, AnsweredWith, InvocationOK, InvocationFields
    <3> HIDE DEF acted
    <3>3. InvocationOK(i) /\ i.pc = "answered"
      BY <2>1, <3>1, AnsweredOK, UnreachableTrue
    <3> HIDE DEF i
    <3> QED
      BY <3>2, <3>3 DEF InvocationOK, Rendered
  <2>2. CASE cli[c].pc \notin {"found", "bound", "served"}
    <3>1. cli'[c] = cli[c]
      BY <2>2 DEF Cut
    <3> QED
      BY <2>2, <3>1 DEF CliOK, InvocationOK, Rendered
  <2> QED
    BY <2>1, <2>2
<1> QED
  BY <1>1, <1>2 DEF CliOK, JobOK, ServedOK

\* The job goes on: it acted, or has begun to connect.
LEMMA GoOnStep ==
    ASSUME CliOK, job # NoJob, cli' = cli, DOMAIN runtime' = RuntimeFields,
           runtime'.stopping = runtime.stopping,
           job' \in {[job EXCEPT !.acted = TRUE], [job EXCEPT !.begun = TRUE]}
    PROVE  CliOK'
<1>1. /\ DOMAIN job' = JobFields /\ job'.owner = job.owner /\ job'.acted \in BOOLEAN
      /\ job'.cmd = job.cmd /\ job'.bound = job.bound /\ job'.basis = job.basis
      /\ job'.awaited = job.awaited
  BY DEF CliOK, JobOK, JobFields
<1>2. job' # NoJob
  <2>1. DOMAIN NoJob = {"owner"}
    BY DEF NoJob
  <2> QED
    BY <1>1, <2>1 DEF JobFields
<1>3. \A d \in Clients : InvocationOK(cli[d])'
  BY DEF CliOK, InvocationOK, Rendered
<1>4. JobOK' /\ ServedOK'
  BY <1>1, <1>2 DEF CliOK, JobOK, ServedOK
<1> QED
  BY <1>3, <1>4 DEF CliOK

\* The codes of a refusal, and of an effect that was not seen.
LEMMA CodesOfActions ==
    /\ RefusalCodes \subseteq ActionCodes \ NotConfirmed
    /\ UnconfirmedCodes \subseteq ActionCodes
<1>1. RefusalCodes \subseteq ActionCodes \ NotConfirmed
  BY DEF RefusalCodes, ActionCodes, NotConfirmed
<1>2. UnconfirmedCodes \subseteq ActionCodes
  <2>1. CASE job.cmd.name \in {"open", "type", "submit"}
    BY <2>1 DEF UnconfirmedCodes, ActionCodes
  <2>2. CASE job.cmd.name \notin {"open", "type", "submit"}
    <3>1. UnconfirmedCodes = {"ACTION_NOT_CONFIRMED", "TARGET_NOT_ACTIONABLE"}
      BY <2>2 DEF UnconfirmedCodes
    <3> QED
      BY <3>1 DEF ActionCodes
  <2> QED
    BY <2>1, <2>2
<1> QED
  BY <1>1, <1>2

\* Before the device acted.
LEMMA RefuseStep ==
    ASSUME CliOK, Refuse \/ AlreadyFocused \/ AnswerLost
    PROVE  CliOK'
<1>0. job # NoJob /\ DOMAIN runtime = RuntimeFields /\ job.cmd.name \in Actions
  BY DEF CliOK, Refuse, AlreadyFocused, AnswerLost, Running, Actions, RefCommands
<1>1. CASE Refuse
  <2>1. PICK code \in RefusalCodes, s \in IF CanAct THEN RepairedTo ELSE {runtime.screen} :
            End(IF s = runtime.screen THEN runtime ELSE Showing(s),
                ActionFails(job.cmd, job.basis, s, code, FALSE, FALSE), FALSE)
    BY <1>1 DEF Refuse
  <2>2. AnswerTrue(ActionFails(job.cmd, job.basis, s, code, FALSE, FALSE), "run", job.cmd,
                   TRUE, FALSE)
    BY <1>0, CodesOfActions, ActionFailureTrue
  <2>3. DOMAIN (IF s = runtime.screen THEN runtime ELSE Showing(s)) = RuntimeFields
    BY <1>0, RuntimeShapes
  <2> QED
    BY <1>0, <2>1, <2>2, <2>3, EndStep
<1>2. CASE AlreadyFocused
  <2>1. runtime.screen # NoScreen
    BY <1>2 DEF AlreadyFocused, Running, CanAct, IsRef, RefCommands
  <2>2. AnswerTrue(ActionSucceeds(job.cmd, job.basis, runtime.screen, "notAttempted", NoTarget),
                   "run", job.cmd, TRUE, FALSE)
    BY <1>0, <2>1, ActionSuccessTrue
  <2> QED
    BY <1>0, <1>2, <2>2, EndStep DEF AlreadyFocused
<1>3. CASE AnswerLost
  <2>1. AnswerTrue(ActionFails(job.cmd, job.basis, runtime.screen,
                               "DEVICE_RPC_TRANSPORT_RESET", FALSE, FALSE),
                   "run", job.cmd, TRUE, TRUE)
    BY <1>0, ActionFailureTrue DEF ActionCodes
  <2> QED
    BY <1>0, <1>3, <2>1, EndStep DEF AnswerLost
<1> QED
  BY <1>1, <1>2, <1>3

LEMMA ActStep ==
    ASSUME CliOK, Act
    PROVE  CliOK'
<1>1. /\ job # NoJob /\ DOMAIN runtime = RuntimeFields /\ cli' = cli
      /\ job' = [job EXCEPT !.acted = TRUE]
  BY DEF CliOK, Act, Running
<1>2. DOMAIN runtime' = RuntimeFields /\ runtime'.stopping = runtime.stopping
  BY <1>1, RuntimeShapes DEF Act
<1> QED
  BY <1>1, <1>2, GoOnStep

\* The target that an action led to is one of the source and of the screen.
LEMMA TargetsFit ==
    ASSUME CliOK, job # NoJob, NEW s, NEW target \in Targets(s)
    PROVE  target = NoTarget \/ TargetFits(target, job.cmd.name, job.basis.source, s)
<1>1. CASE job.cmd.name \notin {"focus", "type", "submit"}
  BY <1>1 DEF Targets
<1>2. CASE job.cmd.name \in {"focus", "type", "submit"}
  <2>1. NeedsSource(job.cmd)
    BY <1>2 DEF NeedsSource, RefCommands
  <2>2. job.basis.source # NoScreen
    BY <2>1 DEF CliOK, JobOK
  <2>3. PICK status \in {"sameRef", "successor", "gone", "unconfirmed"} :
           target = [status |-> status, source |-> job.basis.source, next |-> s, subject |-> 1,
                     ref |-> IF status = "sameRef" THEN 1
                             ELSE IF status = "successor" THEN 2 ELSE 0]
    BY <1>2 DEF Targets
  <2> QED
    BY <1>2, <2>2, <2>3 DEF TargetFits
<1> QED
  BY <1>1, <1>2

\* After the device acted.
LEMMA ActedStep ==
    ASSUME CliOK, Confirmed \/ Unconfirmed \/ ScreenLost \/ ArtifactFails
    PROVE  CliOK'
<1>0. job # NoJob /\ DOMAIN runtime = RuntimeFields /\ job.acted \in BOOLEAN
  BY DEF CliOK, JobOK, Confirmed, Unconfirmed, ScreenLost, ArtifactFails, Running
<1>1. CASE Confirmed
  <2>1. job.cmd.name \in Actions
    BY <1>1 DEF Confirmed, Running
  <2>2. PICK s \in Screens : \E target \in Targets(s) :
            End(Showing(s), ActionSucceeds(job.cmd, job.basis, s, "dispatched", target), TRUE)
    BY <1>1 DEF Confirmed
  <2>3. PICK target \in Targets(s) :
            End(Showing(s), ActionSucceeds(job.cmd, job.basis, s, "dispatched", target), TRUE)
    BY <2>2
  <2>4. target = NoTarget \/ TargetFits(target, job.cmd.name, job.basis.source, s)
    BY <1>0, TargetsFit
  <2>5. AnswerTrue(ActionSucceeds(job.cmd, job.basis, s, "dispatched", target), "run", job.cmd,
                   TRUE, TRUE)
    BY <2>1, <2>4, ActionSuccessTrue, ScreensAssumption
  <2> QED
    BY <1>0, <2>3, <2>5, RuntimeShapes, EndStep
<1>2. CASE Unconfirmed
  <2>1. job.cmd.name \in Actions
    BY <1>2 DEF Unconfirmed, Running
  <2>2. PICK s \in Screens, code \in UnconfirmedCodes :
            End(Showing(s), ActionFails(job.cmd, job.basis, s, code, TRUE, FALSE), TRUE)
    BY <1>2 DEF Unconfirmed
  <2>3. AnswerTrue(ActionFails(job.cmd, job.basis, s, code, TRUE, FALSE), "run", job.cmd, TRUE,
                   TRUE)
    BY <2>1, CodesOfActions, ActionFailureTrue
  <2> QED
    BY <1>0, <2>2, <2>3, RuntimeShapes, EndStep
<1>3. CASE ScreenLost
  <2>1. job.cmd.name \in Actions
    BY <1>3 DEF ScreenLost, Running
  <2>2. AnswerTrue(ActionFails(job.cmd, job.basis, NoScreen, "DEVICE_RPC_TRANSPORT_RESET",
                               TRUE, TRUE), "run", job.cmd, TRUE, TRUE)
    BY <2>1, ActionFailureTrue DEF ActionCodes
  <2>3. AnswerTrue(ActionFails(job.cmd, job.basis, NoScreen, "DEVICE_AGENT_UNAUTHORIZED",
                               TRUE, FALSE), "run", job.cmd, TRUE, TRUE)
    BY <2>1, ActionFailureTrue DEF ActionCodes
  <2> QED
    BY <1>0, <1>3, <2>2, <2>3, RuntimeShapes, EndStep DEF ScreenLost
<1>4. CASE ArtifactFails
  <2>1. AnswerTrue(ErrorAnswer("ARTIFACT_WRITE_FAILED"), "run", job.cmd, TRUE, job.acted)
    BY ErrorAnswered DEF ErrorTrue, WireCodes
  <2> QED
    BY <1>0, <1>4, <2>1, EndStep DEF ArtifactFails
<1> QED
  BY <1>1, <1>2, <1>3, <1>4

\* The commands that look.
LEMMA LookStep ==
    ASSUME CliOK, Observe \/ ObserveFailed \/ WaitMatches \/ WaitEnds \/ WaitRefused
    PROVE  CliOK'
<1>0. job # NoJob /\ DOMAIN runtime = RuntimeFields
  BY DEF CliOK, Observe, ObserveFailed, WaitMatches, WaitEnds, WaitRefused, Running
<1>1. CASE Observe
  <2>1. PICK s \in Screens : End(Showing(s), ObserveSucceeds(job.basis, s), FALSE)
    BY <1>1 DEF Observe
  <2>2. job.cmd.name = "observe" /\ s # NoScreen
    BY <1>1, ScreensAssumption DEF Observe, Running
  <2>3. AnswerTrue(ObserveSucceeds(job.basis, s), "run", job.cmd, TRUE, FALSE)
    BY <2>2, ObserveTrue
  <2> QED
    BY <1>0, <2>1, <2>3, RuntimeShapes, EndStep
<1>2. CASE ObserveFailed
  <2>1. PICK code \in {"DEVICE_DISCONNECTED", "ACCESSIBILITY_NOT_READY",
                       "RUNTIME_NOT_CONNECTED"} :
            End(runtime, ObserveFails(job.basis, code), FALSE)
    BY <1>2 DEF ObserveFailed
  <2>2. job.cmd.name = "observe"
    BY <1>2 DEF ObserveFailed, Running
  <2>3. AnswerTrue(ObserveFails(job.basis, code), "run", job.cmd, TRUE, FALSE)
    BY <2>2, ObserveTrue
  <2> QED
    BY <1>0, <2>1, <2>3, EndStep
<1>3. CASE WaitMatches
  <2>1. PICK s \in Screens : End(Showing(s), WaitSucceeds(job.cmd, job.basis, s), FALSE)
    BY <1>3 DEF WaitMatches
  <2>2. job.cmd.name = "wait" /\ s # NoScreen
    BY <1>3, ScreensAssumption DEF WaitMatches, Running
  <2>3. Relative(job.cmd) => job.basis.source # NoScreen
    BY <1>0 DEF CliOK, JobOK, NeedsSource
  <2>4. AnswerTrue(WaitSucceeds(job.cmd, job.basis, s), "run", job.cmd, TRUE, FALSE)
    BY <2>2, <2>3, WaitSuccessTrue
  <2> QED
    BY <1>0, <2>1, <2>4, RuntimeShapes, EndStep
<1>4. CASE WaitEnds
  <2>1. PICK after \in {runtime} \cup {Showing(s) : s \in Screens},
             code \in {"WAIT_TIMEOUT", "DEVICE_DISCONNECTED"} :
            End(after, WaitFails(job.basis, after.screen, code), FALSE)
    BY <1>4 DEF WaitEnds
  <2>2. job.cmd.name = "wait"
    BY <1>4 DEF WaitEnds, Running
  <2>3. AnswerTrue(WaitFails(job.basis, after.screen, code), "run", job.cmd, TRUE, FALSE)
    BY <2>2, WaitFailureTrue
  <2>4. DOMAIN after = RuntimeFields
    BY <1>0, RuntimeShapes
  <2> QED
    BY <1>0, <2>1, <2>3, <2>4, EndStep
<1>5. CASE WaitRefused
  <2>1. PICK basis \in {job.basis, Basis(job.bound, NoScreen)},
             code \in {"SCREEN_NOT_READY", "RUNTIME_NOT_CONNECTED"} :
            End(runtime, WaitFails(basis, runtime.screen, code), FALSE)
    BY <1>5 DEF WaitRefused
  <2>2. job.cmd.name = "wait"
    BY <1>5 DEF WaitRefused, Running
  <2>3. AnswerTrue(WaitFails(basis, runtime.screen, code), "run", job.cmd, TRUE, FALSE)
    BY <2>2, WaitFailureTrue
  <2> QED
    BY <1>0, <2>1, <2>3, EndStep
<1> QED
  BY <1>1, <1>2, <1>3, <1>4, <1>5

\* Connections, screenshots, the list of apps, and a close.
LEMMA RetainedStep ==
    ASSUME CliOK,
           \/ ConnectRefused \/ ConnectBegins \/ Connected \/ ConnectFails
           \/ Screenshot \/ ListApps \/ Close
    PROVE  CliOK'
<1>0. job # NoJob /\ DOMAIN runtime = RuntimeFields
  BY DEF CliOK, ConnectRefused, ConnectBegins, Connected, ConnectFails, Screenshot, ListApps,
         Close, Running
<1>1. ASSUME NEW name \in DOMAIN RetainedKind, job.cmd.name = name,
             NEW code, code # "RUNTIME_BUSY"
      PROVE  AnswerTrue(ResultAnswer(RetainedResult(name, code)), "run", job.cmd, TRUE, FALSE)
  BY <1>1, RetainedTrue
<1>2. DOMAIN RetainedKind = {"connect", "screenshot", "close"}
  BY DEF RetainedKind
<1>3. CASE ConnectRefused
  <2>1. AnswerTrue(ResultAnswer(RetainedResult("connect", "DEVICE_DISCONNECTED")), "run",
                   job.cmd, TRUE, FALSE)
    BY <1>1, <1>2, <1>3 DEF ConnectRefused, Running
  <2> QED
    BY <1>0, <1>3, <2>1, EndStep DEF ConnectRefused
<1>4. CASE ConnectBegins
  BY <1>0, <1>4, RuntimeShapes, GoOnStep DEF ConnectBegins
<1>5. CASE Connected
  <2>1. PICK s \in Screens : End([Showing(s) EXCEPT !.connected = TRUE],
                                 ResultAnswer(RetainedResult("connect", "")), FALSE)
    BY <1>5 DEF Connected
  <2>2. AnswerTrue(ResultAnswer(RetainedResult("connect", "")), "run", job.cmd, TRUE, FALSE)
    BY <1>1, <1>2, <1>5 DEF Connected, Running
  <2>3. DOMAIN [Showing(s) EXCEPT !.connected = TRUE] = RuntimeFields
    BY RuntimeShapes
  <2> QED
    BY <1>0, <2>1, <2>2, <2>3, EndStep
<1>6. CASE ConnectFails
  <2>1. PICK code \in {"DEVICE_AGENT_VERSION_MISMATCH", "ARTIFACT_ROOT_UNWRITABLE"} :
            End(Cleared("broken"), ResultAnswer(RetainedResult("connect", code)), FALSE)
    BY <1>6 DEF ConnectFails
  <2>2. AnswerTrue(ResultAnswer(RetainedResult("connect", code)), "run", job.cmd, TRUE, FALSE)
    BY <1>1, <1>2, <1>6 DEF ConnectFails, Running
  <2> QED
    BY <1>0, <2>1, <2>2, RuntimeShapes, EndStep
<1>7. CASE Screenshot
  <2>1. PICK code \in {"", "DEVICE_RPC_TRANSPORT_RESET", "ARTIFACT_WRITE_FAILED",
                       "RUNTIME_NOT_CONNECTED"} :
            End(runtime, ResultAnswer(RetainedResult("screenshot", code)), FALSE)
    BY <1>7 DEF Screenshot
  <2>2. AnswerTrue(ResultAnswer(RetainedResult("screenshot", code)), "run", job.cmd, TRUE,
                   FALSE)
    BY <1>1, <1>2, <1>7 DEF Screenshot, Running
  <2> QED
    BY <1>0, <2>1, <2>2, EndStep
<1>8. CASE ListApps
  <2>1. PICK answer \in {ResultAnswer(ListAppsResult), ErrorAnswer("DEVICE_RPC_FAILED"),
                         ErrorAnswer("RUNTIME_NOT_CONNECTED")} :
            End(runtime, answer, FALSE)
    BY <1>8 DEF ListApps
  <2>2. /\ AnswerTrue(ErrorAnswer("DEVICE_RPC_FAILED"), "run", job.cmd, TRUE, FALSE)
        /\ AnswerTrue(ErrorAnswer("RUNTIME_NOT_CONNECTED"), "run", job.cmd, TRUE, FALSE)
    BY ErrorAnswered DEF ErrorTrue, WireCodes
  <2>3. AnswerTrue(ResultAnswer(ListAppsResult), "run", job.cmd, TRUE, FALSE)
    <3>1. /\ ListAppsResult.command = "list-apps" /\ ListAppsResult.ok = TRUE
          /\ ListAppsResult.code = ""
      BY DEF ListAppsResult
    <3>2. Family("list-apps") = "listApps"
      BY <1>2 DEF Family, Category, RefCommands, GlobalCommands
    <3>3. Accepted(ListAppsResult)
      BY <3>1, <3>2 DEF Accepted, ListAppsAccepted
    <3>4. ResultAnswer(ListAppsResult) = [kind |-> "result", result |-> ListAppsResult]
      BY <3>3 DEF ResultAnswer
    <3>5. ResultTrue(ListAppsResult, job.cmd, TRUE, FALSE)
      BY <1>8, <3>1, <3>2 DEF ResultTrue, ListApps, Running
    <3> QED
      BY <3>4, <3>5, ResultAnswered
  <2> QED
    BY <1>0, <2>1, <2>2, <2>3, EndStep
<1>9. CASE Close
  <2>1. AnswerTrue(ResultAnswer(RetainedResult("close", "")), "run", job.cmd, TRUE, FALSE)
    BY <1>1, <1>2, <1>9 DEF Close, Running
  <2>2. DOMAIN [Cleared("closed") EXCEPT !.stopping = TRUE] = RuntimeFields
    BY RuntimeShapes
  <2> QED
    BY <1>0, <1>9, <2>1, <2>2, EndStep DEF Close
<1> QED
  BY <1>3, <1>4, <1>5, <1>6, <1>7, <1>8, <1>9

\* The daemon ends, or dies.
LEMMA GoneStep ==
    ASSUME CliOK, Stop \/ Die
    PROVE  CliOK'
<1>1. CASE Stop
  <2>1. job' = NoJob
    BY <1>1 DEF Stop, CliOK, JobOK
  <2> QED
    BY <1>1, <2>1, RuntimeShapes, CutStep DEF Stop
<1>2. CASE Die
  BY <1>2, RuntimeShapes, CutStep DEF Die
<1> QED
  BY <1>1, <1>2

-----------------------------------------------------------------------------
(* Theorems *)

LEMMA CliInvariance == Spec => []CliOK
<1>1. Init => CliOK
  <2> SUFFICES ASSUME Init PROVE CliOK
    OBVIOUS
  <2> DEFINE i == Fresh([name |-> "none"], "idle")
  <2>1. InvocationOK(i) /\ i.pc = "idle"
    BY FreshOK
  <2>2. DOMAIN cli = Clients /\ \A c \in Clients : cli[c] = i
    BY DEF Init
  <2>3. DOMAIN runtime = RuntimeFields
    BY DEF Init, Off, Restored, RuntimeFields
  <2> HIDE DEF i
  <2>4. JobOK /\ ServedOK
    BY <2>1, <2>2 DEF Init, JobOK, ServedOK
  <2> QED
    BY <2>1, <2>2, <2>3, <2>4 DEF CliOK
<1>2. CliOK /\ [Next]_vars => CliOK'
  <2> SUFFICES ASSUME CliOK, [Next]_vars PROVE CliOK'
    OBVIOUS
  <2>1. ASSUME NEW c \in Clients, Cli(c) PROVE CliOK'
    BY <2>1, RequestSteps, ServeStep, GiveUpStep, ShowStep DEF Cli
  <2>2. CASE Daemon
    BY <2>2, RefuseStep, ActStep, ActedStep, LookStep, RetainedStep, GoneStep DEF Daemon
  <2>3. CASE UNCHANGED vars
    BY <2>3 DEF vars, CliOK, InvocationOK, Rendered, JobOK, ServedOK
  <2> QED
    BY <2>1, <2>2, <2>3 DEF Next
<1> QED
  BY <1>1, <1>2, PTL DEF Spec

\* No way a command ends makes the contract refuse its result: whatever the source, the
\* screen and the target, what the handlers build passes CommandResultCore, so that a
\* command that was carried out is never reported as an internal failure.
THEOREM EveryAnswerFits == Spec => []AnswersFit
<1>1. CliOK => AnswersFit
  <2> SUFFICES ASSUME CliOK, NEW c \in Clients, cli[c].answer.kind = "error"
               PROVE  cli[c].answer.code # "INTERNAL_COMMAND_FAILURE"
    BY DEF AnswersFit
  <2>1. cli[c].answer # NoAnswer
    BY DEF NoAnswer
  <2>2. AnswerTrue(cli[c].answer, cli[c].step, cli[c].cmd, cli[c].served, cli[c].acted)
    BY <2>1 DEF CliOK, InvocationOK
  <2> QED
    BY <2>2 DEF AnswerTrue, ErrorTrue
<1> QED
  BY <1>1, CliInvariance, PTL

\* What is printed is the rendered answer, and that is a true one.
LEMMA ShownIsAnswer ==
    ASSUME CliOK, NEW c \in Clients, cli[c].shown.kind \in {"result", "error"}
    PROVE  /\ AnswerTrue(cli[c].answer, cli[c].step, cli[c].cmd, cli[c].served, cli[c].acted)
           /\ cli[c].shown = Rendered(cli[c])
           /\ cli[c].shown.kind = cli[c].answer.kind
<1> DEFINE i == cli[c]
<1>1. InvocationOK(i)
  BY DEF CliOK
<1>2. i.shown # NoAnswer /\ i.shown # StaticFailure
  BY DEF NoAnswer, StaticFailure
<1>3. i.pc = "shown" /\ i.shown = Rendered(i)
  BY <1>1, <1>2 DEF InvocationOK
<1>4. AnswerTrue(i.answer, i.step, i.cmd, i.served, i.acted)
  BY <1>1, <1>3 DEF InvocationOK
<1>5. i.answer.kind \in {"result", "error"}
  BY <1>4 DEF AnswerTrue
<1>6. i.shown.kind = i.answer.kind
  BY <1>3, <1>5 DEF Rendered, RenderedResult, RenderedError
<1> QED
  BY <1>3, <1>4, <1>6

\* The continuity that a printed result states holds of the two screens that it names,
\* whoever published others between the two.
THEOREM ContinuityIsTruthful == Spec => []ContinuityTruthful
<1>1. CliOK => ContinuityTruthful
  <2> SUFFICES ASSUME CliOK, NEW c \in Clients, cli[c].shown.kind = "result",
                      Family(ShownResult(c).command) = "semantic"
               PROVE  LET r == ShownResult(c)
                      IN  /\ r.continuity = "stable" =>
                                r.source = r.next \/ <<r.source, r.next>> \in Carries
                          /\ r.changed = "no" => r.source = r.next
                          /\ r.changed = "yes"
                                /\ ~(r.command = "wait" /\ cli[c].cmd.until = "gone") =>
                                r.source # r.next
    BY DEF ContinuityTruthful
  <2>1. /\ cli[c].answer.kind = "result" /\ cli[c].shown = RenderedResult(cli[c].answer.result)
        /\ ResultTrue(cli[c].answer.result, cli[c].cmd, cli[c].served, cli[c].acted)
    BY ShownIsAnswer DEF Rendered, AnswerTrue
  <2>2. ShownResult(c) = cli[c].answer.result
    BY <2>1 DEF ShownResult, RenderedResult
  <2> QED
    BY <2>1, <2>2 DEF ResultTrue, TruthFits
<1> QED
  BY <1>1, CliInvariance, PTL

\* Only a busy runtime is printed as one, and the tiers come from where they say.
LEMMA RenderedErrors ==
    ASSUME NEW code, NEW step
    PROVE  LET e == RenderedError(code, step)
           IN  /\ e.code = "RUNTIME_BUSY" => code = "RUNTIME_BUSY"
               /\ e.tier = "usage" => code = "USAGE_ERROR"
               /\ e.tier = "preDispatch" => step = "bind"
<1>1. ASSUME code # "RUNTIME_BUSY" PROVE PublicError(code).code # "RUNTIME_BUSY"
  BY <1>1 DEF PublicError, DaemonCodeTable, Public
<1>2. RenderedError(code, step).code = PublicError(code).code
  BY DEF RenderedError
<1>3. RenderedError(code, step).tier = Tier(code, step)
  BY DEF RenderedError
<1> QED
  BY <1>1, <1>2, <1>3 DEF Tier

\* Whatever of timeouts, deaths of the daemon and other invocations comes between, what
\* the CLI prints of the course of a command is true.
THEOREM ShownIsTruthful == Spec => []ShownTruthful
<1>1. CliOK => ShownTruthful
  <2> SUFFICES ASSUME CliOK, NEW c \in Clients
               PROVE  LET shown == cli[c].shown
                          i == cli[c]
                      IN  /\ shown.kind = "error" =>
                                 /\ shown.tier \in {"usage", "preDispatch"} => ~i.served
                                 /\ shown.code = "RUNTIME_BUSY" => ~i.served
                          /\ shown.kind = "result" =>
                                 LET r == shown.result
                                 IN  /\ r.command = i.cmd.name
                                     /\ r.code = "RUNTIME_BUSY" => ~i.served
                                     /\ r.ok => i.served \/ r.command = "close"
                                     /\ Family(r.command) = "semantic" =>
                                           /\ r.exec = "dispatched" /\ r.code # "OPEN_FAILED"
                                                 => i.acted
                                           /\ r.ok /\ r.exec = "notAttempted" => ~i.acted
                                     /\ shown.exit = 0 <=> r.ok
    BY DEF ShownTruthful
  <2>1. CASE cli[c].shown.kind = "error"
    <3>1. /\ cli[c].shown = RenderedError(cli[c].answer.code, cli[c].step)
          /\ ErrorTrue(cli[c].answer.code, cli[c].step, cli[c].served)
      BY <2>1, ShownIsAnswer DEF Rendered, AnswerTrue
    <3> QED
      BY <2>1, <3>1, RenderedErrors DEF ErrorTrue
  <2>2. CASE cli[c].shown.kind = "result"
    <3>1. /\ cli[c].shown = RenderedResult(cli[c].answer.result)
          /\ ResultTrue(cli[c].answer.result, cli[c].cmd, cli[c].served, cli[c].acted)
      BY <2>2, ShownIsAnswer DEF Rendered, AnswerTrue
    <3>2. /\ cli[c].shown.result = cli[c].answer.result
          /\ cli[c].shown.exit = ResultExit(cli[c].answer.result)
      BY <3>1 DEF RenderedResult
    <3>3. cli[c].shown.exit = 0 <=> cli[c].shown.result.ok
      BY <3>1, <3>2 DEF ResultExit, ResultTrue
    <3> QED
      BY <2>2, <3>1, <3>2, <3>3 DEF ResultTrue
  <2> QED
    BY <2>1, <2>2
<1> QED
  BY <1>1, CliInvariance, PTL
================================================================================
