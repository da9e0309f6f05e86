------------------------------ MODULE ErrorCodes -------------------------------
(***************************************************************************)
(* How the daemon reports the error that ended a semantic command: which   *)
(* code the result carries, and what it says about the device having been  *)
(* asked to act.  "attempted" says that action_perform returned, "lost"    *)
(* that no screen could be had afterwards.                                 *)
(***************************************************************************)

\* _DEVICE_UNAVAILABLE_CODES and _AVAILABILITY_CODES
Availability ==
    {"RUNTIME_NOT_CONNECTED", "SCREEN_NOT_READY", "DEVICE_DISCONNECTED",
     "DEVICE_AGENT_UNAVAILABLE", "DEVICE_AGENT_UNAUTHORIZED", "DEVICE_RPC_FAILED",
     "DEVICE_RPC_TRANSPORT_RESET"}
NotConfirmed == {"ACTION_NOT_CONFIRMED", "TYPE_NOT_CONFIRMED", "SUBMIT_NOT_CONFIRMED"}

\* Mutant of FailureExecution: a target that does not take the action was not tried.
FailureExecutionUntried(code, attempted, lost) ==
    IF lost \/ code \in NotConfirmed \cup {"OPEN_FAILED"} THEN "dispatched"
    ELSE "notAttempted"

\* _map_failure_execution_outcome
FailureExecution(code, attempted, lost) ==
    IF \/ lost
       \/ attempted /\ code \in {"DEVICE_AGENT_UNAUTHORIZED", "TARGET_NOT_ACTIONABLE"}
       \/ code \in NotConfirmed \cup {"OPEN_FAILED"}
    THEN "dispatched"
    ELSE IF code \in Availability \cup
                     {"REF_RESOLUTION_FAILED", "REF_STALE", "TARGET_BLOCKED",
                      "TARGET_NOT_ACTIONABLE", "DEVICE_AGENT_CAPABILITY_MISMATCH",
                      "ACCESSIBILITY_NOT_READY"}
    THEN "notAttempted" ELSE "unknown"

\* map_daemon_error_to_semantic_failure and the part of _command_error_payload that
\* a missing screen decides; "" is raised to the caller as it is.
SemanticCode(code, lost, hasScreen) ==
    IF code \in NotConfirmed
    THEN IF lost \/ ~hasScreen THEN "POST_ACTION_OBSERVATION_LOST" ELSE code
    ELSE IF code \in {"REF_STALE", "WAIT_TIMEOUT", "TARGET_BLOCKED",
                      "TARGET_NOT_ACTIONABLE", "OPEN_FAILED"}
    THEN code
    ELSE IF code \in Availability
    THEN IF lost THEN "POST_ACTION_OBSERVATION_LOST" ELSE "DEVICE_UNAVAILABLE"
    ELSE ""
================================================================================
