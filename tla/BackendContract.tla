--------------------------- MODULE BackendContract ---------------------------
(***************************************************************************)
(* The contract between the runtime and its backends: runtime/adapters/    *)
(* base.py, capabilities.py, policy_profiles.py, selector.py and what the  *)
(* two adapters make of them in run_with_backend_contract.                 *)
(*                                                                         *)
(* A policy envelope is what it allows of the four tool capabilities and   *)
(* its budgets.  Working directories, file patterns and domains are only   *)
(* passed on and are left out.  A failure is an exception: its class, the  *)
(* stage it was raised at, and the words its message holds that the        *)
(* classifications look for.                                               *)
(***************************************************************************)
EXTENDS Naturals, FiniteSets

CONSTANTS Unlimited,    \* a budget that is None
          Nothing       \* a call that raises no exception

Roles == {"Reader", "Verifier", "IssueComposer", "CandidateGenerator"}
Backends == {"codex", "claude_sdk"}
Tools == {"file_read", "file_write", "shell", "web"}
Budgets == {"max_tool_calls", "max_wall_clock_seconds", "max_tokens", "max_agent_turns"}

-----------------------------------------------------------------------------
(* Capabilities.                                                           *)

\* The capabilities no policy can withhold.
AlwaysAllowed ==
    {"session_context", "agent_loop", "streaming", "structured_output", "tool_restriction",
     "model_override", "tool_loop", "parallel_tools", "session_persistence", "json_mode",
     "temperature_control", "max_tokens_control"}

RequiredBy(role) ==
    CASE role \in {"Reader", "Verifier"} -> {"file_read", "structured_output"}
      [] role = "IssueComposer"          -> {"structured_output"}
      [] role = "CandidateGenerator"     -> {"file_read", "structured_output", "agent_loop"}
      [] OTHER                           -> {}

\* get_codex_declared_capabilities and get_claude_sdk_declared_capabilities
Declared(backend, sandbox) ==
    IF backend = "codex"
    THEN {"session_context", "agent_loop", "structured_output", "tool_restriction",
          "model_override", "tool_loop", "json_mode", "file_read"}
         \cup (IF sandbox = "read-only" THEN {} ELSE {"file_write", "shell"})
    ELSE AlwaysAllowed \cup Tools

\* The booleans of BackendCapabilities, as CodexAdapter.get_capabilities sets them.
Supported(backend, sandbox) ==
    IF backend = "codex"
    THEN {"agent_loop", "file_read", "structured_output", "tool_restriction",
          "model_override"}
         \cup (IF sandbox = "read-only" THEN {} ELSE {"file_write", "shell"})
    ELSE Declared(backend, sandbox)
         \cap ({"session_context", "agent_loop", "streaming", "structured_output",
                "tool_restriction", "model_override"} \cup Tools)

\* BackendCapabilities.get_required_capabilities asks for less than RequiredBy.
ToolsRequiredBy(role) == RequiredBy(role) \cap Tools

AllowedBy(envelope) == AlwaysAllowed \cup envelope.allows

\* CapabilityNegotiator.negotiate: what is required and not effective.
Missing(role, declared, allowed) == RequiredBy(role) \ (declared \cap allowed)

-----------------------------------------------------------------------------
(* Policy envelopes.                                                       *)

Envelope(allows, calls, seconds, tokens, turns) ==
    [allows |-> allows,
     budget |-> [b \in Budgets |-> CASE b = "max_tool_calls" -> calls
                                     [] b = "max_wall_clock_seconds" -> seconds
                                     [] b = "max_tokens" -> tokens
                                     [] b = "max_agent_turns" -> turns]]

DenyAll == Envelope({}, 0, 60, 1000, 1)

\* get_policy_for_role without overrides: WORKER_ROLE_DEFAULT_PROFILE.
ProfileOf(role) ==
    CASE role = "Reader"             -> Envelope({"file_read"}, 50, 300, 100000, 10)
      [] role = "Verifier"           -> Envelope({"file_read"}, 30, 180, 50000, 5)
      [] role = "IssueComposer"      -> Envelope({}, 20, 120, 30000, 3)
      [] role = "CandidateGenerator" -> Envelope({"file_read"}, 100, 300, 100000, 15)
      [] OTHER                       -> DenyAll

\* ClaudeAgentSdkAdapter._create_default_policy_envelope, the one run-task uses.
DefaultOf(role) ==
    Envelope(IF role = "IssueComposer" THEN {} ELSE {"file_read"},
             Unlimited, Unlimited, Unlimited, Unlimited)

\* validate_policy_envelope
Consistent(envelope) ==
    /\ "file_write" \in envelope.allows => "file_read" \in envelope.allows
    /\ \A b \in Budgets : envelope.budget[b] # Unlimited =>
           envelope.budget[b] >= (IF b = "max_tool_calls" THEN 0 ELSE 1)

\* A check that looks at what a policy may cost and not at what it allows.
FreeExpansions(original, modified) ==
    {b \in Budgets : /\ Unlimited \notin {original.budget[b], modified.budget[b]}
                     /\ modified.budget[b] > original.budget[b]}

\* check_policy_expansion; a budget that was lifted altogether is not seen.
Expansions(original, modified) ==
    (modified.allows \ original.allows)
    \cup {b \in Budgets : /\ Unlimited \notin {original.budget[b], modified.budget[b]}
                          /\ modified.budget[b] > original.budget[b]}

\* get_policy_for_role writes an override over the profile, whatever it is.
Overridden(envelope, allows, budget) ==
    [allows |-> allows, budget |-> [b \in Budgets |->
        IF b \in DOMAIN budget THEN budget[b] ELSE envelope.budget[b]]]

-----------------------------------------------------------------------------
(* Selection.                                                              *)

\* BackendSelector.select: the requested or the default backend, or no one.
Select(requested, default, enabled) ==
    LET backend == IF requested # "none" THEN requested ELSE default
    IN  IF backend \in enabled THEN backend ELSE "unavailable"

-----------------------------------------------------------------------------
(* Failures.                                                               *)

Failure(kind, level, retryable) ==
    [success |-> FALSE, kind |-> kind, level |-> level, retryable |-> retryable]

Success == [success |-> TRUE, kind |-> "none", level |-> "semantic", retryable |-> FALSE]

Exception(class, stage, words) == [class |-> class, stage |-> stage, words |-> words]

Words == {"timeout", "timed out", "not found", "could not be resolved",
          "must be valid JSON", "empty"}

Exceptions == [class: STRING, stage: STRING, words: SUBSET Words]

\* classify_exception goes by the name of the class.
ClassifyException(exception) ==
    CASE exception.class \in {"TimeoutError", "TimeoutExpired"} ->
             Failure("timeout", "process", TRUE)
      [] exception.class \in {"FileNotFoundError", "ExecutableNotFound"} ->
             Failure("backend_unavailable", "process", FALSE)
      [] exception.class = "JSONDecodeError" -> Failure("invalid_json", "transport", FALSE)
      [] OTHER -> Failure("process_crash", "process", FALSE)

\* The table of _classify_adapter_error, by failure stage.
ByStage(stage) ==
    CASE stage = "resolve_executable" -> <<"process", "backend_unavailable">>
      [] stage = "resolve_worker" -> <<"process", "capability_mismatch">>
      [] stage = "validate_worker_result" -> <<"transport", "empty_output">>
      [] stage = "parse_transport_output" -> <<"transport", "invalid_json">>
      [] stage = "normalize_transport_output" -> <<"transport", "malformed_envelope">>
      [] stage \in {"parse_worker_output", "validate_worker_output"} ->
             <<"schema", "schema_violation">>
      [] stage = "build_invocation" -> <<"semantic", "semantic_error">>
      [] OTHER -> <<"process", "process_crash">>

Retryable(kind) == kind \in {"timeout", "process_crash", "backend_unavailable"}

\* A classification that lets the words of the message have the last say.
WordyAdapterFailure(exception) ==
    IF "timeout" \in exception.words THEN Failure("timeout", "process", TRUE)
    ELSE LET found == ByStage(exception.stage)
         IN  Failure(found[2], found[1], Retryable(found[2]))

(***************************************************************************)
(* _classify_adapter_error.  The class of the exception overrules the      *)
(* stage and a "timeout" in the message, so the table is only used for a   *)
(* CodexAdapterError that is none of its subclasses: a worker input that   *)
(* is invalid (a retryable process crash) and a missing schema file.       *)
(***************************************************************************)
AdapterFailure(exception) ==
    LET words == exception.words
        found == IF "timeout" \in words THEN <<"process", "timeout">>
                 ELSE ByStage(exception.stage)
        kind == CASE exception.class = "CodexInvocationError" ->
                         IF words \cap {"not found", "could not be resolved"} # {}
                         THEN "backend_unavailable"
                         ELSE IF "timed out" \in words THEN "timeout" ELSE "process_crash"
                  [] exception.class = "CodexOutputError" ->
                         IF "must be valid JSON" \in words THEN "invalid_json"
                         ELSE IF "empty" \in words THEN "empty_output"
                         ELSE "malformed_envelope"
                  [] exception.class = "UnsupportedWorkerRoleError" -> "capability_mismatch"
                  [] OTHER -> found[2]
        level == CASE exception.class = "CodexOutputError" -> "transport"
                   [] exception.class = "CodexAdapterError" -> found[1]
                   [] OTHER -> "process"
    IN  Failure(kind, level, Retryable(kind))

AdapterErrors == {"CodexAdapterError", "CodexInvocationError", "CodexOutputError",
                  "UnsupportedWorkerRoleError"}

(***************************************************************************)
(* CodexAdapter.run_with_result lets out no other exceptions: what is none *)
(* of them leaves as a CodexInvocationError with its message and stage,    *)
(* also when a received answer was at fault (a verdict about an            *)
(* observation that is not in the slice is a KeyError).                    *)
(***************************************************************************)
Surfaced(raised) ==
    IF raised.class \in AdapterErrors THEN raised
    ELSE [raised EXCEPT !.class = "CodexInvocationError"]

(***************************************************************************)
(* run_with_backend_contract of the two adapters, where raised is what is  *)
(* raised within the call, or Nothing.  Codex compares the role with what  *)
(* it supports and the policy with what it supports, never the role with   *)
(* the policy; Claude negotiates the three together.                       *)
(***************************************************************************)
RunCodex(role, sandbox, envelope, raised) ==
    IF ~(ToolsRequiredBy(role) \subseteq Supported("codex", sandbox))
    THEN Failure("capability_mismatch", "process", FALSE)
    ELSE IF (envelope.allows \cap {"file_read", "file_write", "shell"})
                \ Supported("codex", sandbox) # {}
    THEN Failure("capability_mismatch", "policy", FALSE)
    ELSE IF raised = Nothing THEN Success
    ELSE AdapterFailure(Surfaced(raised))

RunClaude(role, envelope, raised) ==
    IF ~Consistent(envelope) THEN [ClassifyException(Exception("ValueError", "none", {}))
                                      EXCEPT !.level = "policy"]
    ELSE IF Missing(role, Declared("claude_sdk", "none"), AllowedBy(envelope)) # {}
    THEN Failure("policy_violation", "policy", FALSE)
    ELSE IF raised = Nothing THEN Success
    ELSE [ClassifyException(raised)
             EXCEPT !.level = IF raised.stage \in {"client", "api"}
                              THEN "transport" ELSE "semantic"]

-----------------------------------------------------------------------------
(* Tool events.                                                            *)

ToolOf(name) ==
    CASE name \in {"read_file", "read_multiple_files"} -> "file_read"
      [] name \in {"write_file", "edit_file"} -> "file_write"
      [] name = "shell" -> "shell"
      [] name \in {"web_fetch", "web_search"} -> "web"
      [] OTHER -> "internal"

\* ToolEventObserver: the calls of a policy's tools that it does not allow.
Violations(envelope, calls) ==
    {c \in calls : ToolOf(c) \in Tools \ envelope.allows}
=============================================================================
