---------------------------- MODULE CommandContract ----------------------------
(***************************************************************************)
(* The contract between the CLI and the daemon: which commands there are,  *)
(* which family of result each one has, and which results and error codes  *)
(* both sides accept.  A result that the contract refuses reaches nobody:  *)
(* the daemon answers INTERNAL_COMMAND_FAILURE instead, the CLI a protocol *)
(* error.  Texts and file names are left out; an artifact is there or not. *)
(***************************************************************************)
EXTENDS Naturals

CONSTANT NoScreen       \* stands for a screen id that is absent

-----------------------------------------------------------------------------
(* The catalog *)

RefCommands == {"tap", "long-tap", "focus", "type", "submit", "scroll"}
GlobalCommands == {"back", "home", "recents", "notifications"}
RetainedKind ==
    [command \in {"connect", "screenshot", "close"} |->
        CASE command = "connect" -> "bootstrap"
          [] command = "screenshot" -> "artifact"
          [] command = "close" -> "lifecycle"]
PublicCommands ==
    RefCommands \cup GlobalCommands \cup DOMAIN RetainedKind
        \cup {"observe", "open", "wait", "list-apps"}

Category(command) ==
    IF command \in RefCommands \cup GlobalCommands THEN "transition"
    ELSE IF command \in {"observe", "open", "wait"} THEN command ELSE ""

Family(command) ==
    IF Category(command) # "" THEN "semantic"
    ELSE IF command \in DOMAIN RetainedKind THEN "retained" ELSE "listApps"

-----------------------------------------------------------------------------
(* Requests *)

\* A command as the user gave it: the predicate of a wait, and the screen id if the
\* user named one.  The payload of a ref command and of a wait that is relative to
\* a screen needs a source; a global action takes one if there is one.
Relative(cmd) == cmd.name = "wait" /\ cmd.until \in {"screen-change", "gone"}
NeedsSource(cmd) == cmd.name \in RefCommands \/ Relative(cmd)
TakesSource(cmd) == NeedsSource(cmd) \/ cmd.name \in GlobalCommands

-----------------------------------------------------------------------------
(* Results *)

NoTarget == [status |-> "none"]

\* ActionTargetPayload and the conditions of validate_payload_mode on it.
TargetAccepted(r) ==
    LET t == r.target
    IN  t # NoTarget =>
            /\ r.command \in {"focus", "type", "submit"}
            /\ r.ok /\ r.mode = "full"
            /\ t.source = r.source /\ r.source # NoScreen
            /\ t.next = r.next /\ r.next # NoScreen
            /\ t.status = "sameRef" => t.ref = t.subject
            /\ t.status = "successor" => t.ref \notin {0, t.subject}
            /\ t.status \in {"gone", "unconfirmed"} => t.ref = 0

\* _validate_action_not_confirmed_shape
NotConfirmedAccepted(r) ==
    r.code = "ACTION_NOT_CONFIRMED" =>
        /\ r.exec = "dispatched" /\ r.quality = "authoritative"
        /\ r.mode = "full" /\ r.screen # NoScreen /\ r.next # NoScreen

\* _validate_payload_light_lost_truth_shape
LostTruthCodes == {"DEVICE_UNAVAILABLE", "POST_ACTION_OBSERVATION_LOST"}
LostTruthAccepted(r) ==
    r.code \in LostTruthCodes =>
        /\ r.mode = "none" /\ r.next = NoScreen /\ r.screen = NoScreen
        /\ r.target = NoTarget /\ ~r.artifacts
        /\ r.continuity = "none" /\ r.quality = "none" /\ r.changed = "absent"
        /\ r.code = "POST_ACTION_OBSERVATION_LOST" => r.exec = "dispatched"

\* CommandResultCore
SemanticAccepted(r) ==
    /\ Family(r.command) = "semantic" /\ r.category = Category(r.command)
    /\ r.ok <=> r.code = ""
    /\ NotConfirmedAccepted(r) /\ LostTruthAccepted(r)
    /\ r.mode = "none" => ~r.ok /\ r.next = NoScreen /\ r.screen = NoScreen
    /\ r.mode = "full" => r.screen # NoScreen
    /\ r.screen # NoScreen => r.next = r.screen
    /\ TargetAccepted(r)
    /\ r.source = NoScreen => r.continuity = "none" /\ r.changed = "absent"

\* RetainedResultEnvelope
RetainedAccepted(r) ==
    /\ r.command \in DOMAIN RetainedKind
    /\ r.envelope = RetainedKind[r.command]

\* ListAppsResult: there is no failure of this family.
ListAppsAccepted(r) == r.ok /\ r.command = "list-apps"

Accepted(r) ==
    CASE Family(r.command) = "semantic" -> SemanticAccepted(r)
      [] Family(r.command) = "retained" -> RetainedAccepted(r)
      [] OTHER -> ListAppsAccepted(r)

-----------------------------------------------------------------------------
(* Errors *)

\* DaemonErrorCode: the codes an error envelope may carry.
WireCodes ==
    {"DAEMON_BAD_REQUEST", "DAEMON_UNAUTHORIZED", "WORKSPACE_BUSY", "RUNTIME_BUSY",
     "RUNTIME_NOT_CONNECTED", "SCREEN_NOT_READY", "COMMAND_NOT_FOUND",
     "COMMAND_CANCELLED", "REF_RESOLUTION_FAILED", "DEVICE_RPC_FAILED",
     "DEVICE_DISCONNECTED", "DEVICE_AGENT_UNAVAILABLE", "DEVICE_AGENT_UNAUTHORIZED",
     "DEVICE_AGENT_VERSION_MISMATCH", "DEVICE_AGENT_CAPABILITY_MISMATCH",
     "ACCESSIBILITY_NOT_READY", "DEVICE_RPC_TRANSPORT_RESET",
     "INTERNAL_COMMAND_FAILURE", "WORKSPACE_UNAVAILABLE", "ARTIFACT_ROOT_UNWRITABLE",
     "ARTIFACT_WRITE_FAILED"}
================================================================================
