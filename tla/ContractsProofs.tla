-------------------------- MODULE ContractsProofs --------------------------
(***************************************************************************)
(* What TLAPS proves of Contracts, for any set of inputs: policies, calls, *)
(* answers, reports, slices under any limits, what the run ledger tells of *)
(* candidates and what the diagnostics tell of answers without events.     *)
(* (Routing has a module of its own, RoutingProofs.)  What a loop over a   *)
(* list keeps true is proved by the induction of FoldFacts.                *)
(***************************************************************************)
EXTENDS Contracts, FiniteSetTheorems, SequenceTheorems, TLAPS

\* The input is one of those that were given.
InputInv == input \in Inputs

\* What each step is about, and what it may be.
LEMMA StepsAreAbout ==
  ASSUME Next
  PROVE  \/ /\ About("routing")
            /\ RouteCandidates \/ \E t \in DOMAIN QueueNow : FinishTask(t)
         \/ About("policy") /\ ChangePolicy
         \/ About("call") /\ CallBackend
         \/ /\ About("slice")
            /\ \/ BuildSlice
               \/ \E h \in DOMAIN outcome.state.hypotheses : \E status : DecideHypothesis(h, status)
               \/ \E q, status : DecideQuestion(q, status)
         \/ About("answer") /\ (ReadAnswer \/ BindAnswers \/ RetryAnswer)
         \/ About("report") /\ CompileReport
         \/ /\ About("lifecycle")
            /\ \E c \in input.candidates : \E status \in Follows(StatusOf(c)) :
                   AcceptEvent(c, status)
         \/ About("funnel") /\ DiagnoseAnswer
         \/ About("error")
<1>1. /\ RouteCandidates => About("routing")
      /\ \A t : FinishTask(t) => About("routing")
  BY DEF RouteCandidates, FinishTask
<1>2. ChangePolicy => About("policy")
  BY DEF ChangePolicy
<1>3. CallBackend => About("call")
  BY DEF CallBackend
<1>4. /\ BuildSlice => About("slice")
      /\ \A h, status : DecideHypothesis(h, status) => About("slice")
      /\ \A q, status : DecideQuestion(q, status) => About("slice")
  BY DEF BuildSlice, DecideHypothesis, DecideQuestion
<1>5. ReadAnswer \/ BindAnswers \/ RetryAnswer => About("answer")
  BY DEF ReadAnswer, BindAnswers, RetryAnswer
<1>6. CompileReport => About("report")
  BY DEF CompileReport
<1>7. /\ \A c, status : AcceptEvent(c, status) => About("lifecycle")
      /\ DiagnoseAnswer => About("funnel")
      /\ ClassifyError => About("error")
  BY DEF AcceptEvent, DiagnoseAnswer, ClassifyError
<1> QED
  BY <1>1, <1>2, <1>3, <1>4, <1>5, <1>6, <1>7 DEF Next

\* What the components are given does not change.
LEMMA InputStays == Spec => []InputInv
<1>1. Init => InputInv
  BY DEF Init, InputInv
<1>2. InputInv /\ [Next]_vars => InputInv'
  BY StepsAreAbout DEF InputInv, vars, About
<1> QED
  BY <1>1, <1>2, PTL DEF Spec

-----------------------------------------------------------------------------
(* Policies.                                                               *)

\* What is known of a policy once it was changed.
PolicyInv ==
    Begun("policy") =>
        LET original == Backend!ProfileOf(input.role)
            modified == Backend!Overridden(original, input.allows, input.budget)
        IN  outcome = [original |-> original, modified |-> modified,
                       consistent |-> Backend!Consistent(modified),
                       expansions |-> Backend!Expansions(original, modified)]

\* A changed policy is what ChangePolicy made of the input.
LEMMA PolicyInvHolds == Spec => []PolicyInv
<1>1. Init => PolicyInv
  BY DEF Init, PolicyInv, Begun
<1>2. ChangePolicy => PolicyInv'
  BY DEF PolicyInv, Begun, ChangePolicy, About
<1>3. PolicyInv /\ [Next]_vars /\ ~ChangePolicy => PolicyInv'
  BY StepsAreAbout DEF PolicyInv, Begun, vars, About
<1> QED
  BY <1>1, <1>2, <1>3, PTL DEF Spec

\* The budgets of a profile are numbers.
LEMMA ProfilesAreLimited ==
  ASSUME NEW role, NEW b \in Backend!Budgets
  PROVE  Backend!ProfileOf(role).budget[b] \in Nat
BY DEF Backend!ProfileOf, Backend!DenyAll, Backend!Envelope, Backend!Budgets

(***************************************************************************)
(* An override that check_policy_expansion finds no fault with allows no   *)
(* tool call that the profile does not, gives the role no capability, and  *)
(* raises no limit, whatever is overridden and whatever is called.         *)
(***************************************************************************)
THEOREM ExpansionsAreSeen == Spec => []ExpansionIsSeen
<1>1. InputInv /\ PolicyInv => ExpansionIsSeen
  <2> SUFFICES ASSUME InputInv, PolicyInv, Begun("policy"), outcome.expansions = {}
               PROVE  ExpansionIsSeen
    BY DEF ExpansionIsSeen
  <2> DEFINE original == Backend!ProfileOf(input.role)
             modified == Backend!Overridden(original, input.allows, input.budget)
  <2>1. /\ outcome.original = original
        /\ outcome.modified = modified
        /\ outcome.expansions = Backend!Expansions(original, modified)
    BY DEF PolicyInv
  <2> HIDE DEF original, modified
  <2>2. modified.allows \subseteq original.allows
    BY <2>1 DEF Backend!Expansions
  <2>3. Backend!Violations(original, input.calls) \subseteq
            Backend!Violations(modified, input.calls)
    BY <2>2 DEF Backend!Violations
  <2>4. ASSUME NEW backend
        PROVE  Backend!Missing(input.role, Backend!Declared(backend, "read-only"),
                               Backend!AllowedBy(original)) \subseteq
               Backend!Missing(input.role, Backend!Declared(backend, "read-only"),
                               Backend!AllowedBy(modified))
    BY <2>2 DEF Backend!Missing, Backend!AllowedBy
  <2>5. ASSUME NEW b \in Backend!Budgets, modified.budget[b] # Unlimited
        PROVE  modified.budget[b] <= original.budget[b]
    <3>1. original.budget[b] \in Nat
      BY ProfilesAreLimited DEF original
    <3>2. modified.budget[b] \in Int
      BY <3>1, <2>5, ContractsAssumption
      DEF modified, Backend!Overridden, InputInv, PolicyInput, Begun
    <3>3. ~(modified.budget[b] > original.budget[b])
      BY <2>1, <2>5, <3>1, ContractsAssumption DEF Backend!Expansions
    <3> QED
      BY <3>1, <3>2, <3>3
  <2> QED
    BY <2>1, <2>3, <2>4, <2>5 DEF ExpansionIsSeen
<1> QED
  BY <1>1, InputStays, PolicyInvHolds, PTL

-----------------------------------------------------------------------------
(* Calls.                                                                  *)

\* What is known of a call once it was made.
CallInv == Begun("call") => Selected # "unavailable" /\ outcome = Called(input.raised)

\* The result of a call is what the chosen backend returned.
LEMMA CallInvHolds == Spec => []CallInv
<1>1. Init => CallInv
  BY DEF Init, CallInv, Begun
<1>2. CallInv /\ CallBackend => CallInv'
  BY DEF CallInv, Begun, CallBackend, About, Called, Selected
<1>3. CallInv /\ [Next]_vars /\ ~CallBackend => CallInv'
  BY StepsAreAbout DEF CallInv, Begun, vars, About, Called, Selected
<1> QED
  BY <1>1, <1>2, <1>3, PTL DEF Spec

\* Only failures that may pass are retryable, whatever was said of them.
LEMMA AdapterFailuresAreJudged ==
  ASSUME NEW exception, exception.class \in Backend!AdapterErrors
  PROVE  LET failure == Backend!AdapterFailure(exception)
         IN  /\ ~failure.success
             /\ exception.class \in {"CodexOutputError", "UnsupportedWorkerRoleError"} =>
                    ~failure.retryable
             /\ exception.class = "CodexInvocationError" => failure.retryable
<1> DEFINE failure == Backend!AdapterFailure(exception)
<1>1. CASE exception.class = "CodexInvocationError"
  <2>1. /\ failure.kind \in {"backend_unavailable", "timeout", "process_crash"}
        /\ failure.success = FALSE
        /\ failure.retryable = Backend!Retryable(failure.kind)
    BY <1>1 DEF Backend!AdapterFailure, Backend!Failure
  <2> QED
    BY <1>1, <2>1 DEF Backend!Retryable
<1>2. CASE exception.class = "CodexOutputError"
  <2>1. /\ failure.kind \in {"invalid_json", "empty_output", "malformed_envelope"}
        /\ failure.success = FALSE
        /\ failure.retryable = Backend!Retryable(failure.kind)
    BY <1>2 DEF Backend!AdapterFailure, Backend!Failure
  <2> QED
    BY <1>2, <2>1 DEF Backend!Retryable
<1>3. CASE exception.class = "UnsupportedWorkerRoleError"
  <2>1. /\ failure.kind = "capability_mismatch"
        /\ failure.success = FALSE
        /\ failure.retryable = Backend!Retryable(failure.kind)
    BY <1>3 DEF Backend!AdapterFailure, Backend!Failure
  <2> QED
    BY <1>3, <2>1 DEF Backend!Retryable
<1>4. CASE exception.class = "CodexAdapterError"
  BY <1>4 DEF Backend!AdapterFailure, Backend!Failure
<1> QED
  BY <1>1, <1>2, <1>3, <1>4 DEF Backend!AdapterErrors

\* The envelope run-task uses is consistent: the claude adapter does not refuse it.
LEMMA DefaultsAreConsistent ==
  ASSUME NEW role
  PROVE  Backend!Consistent(Backend!DefaultOf(role))
<1>1. \A b \in Backend!Budgets : Backend!DefaultOf(role).budget[b] = Unlimited
  BY DEF Backend!DefaultOf, Backend!Envelope, Backend!Budgets
<1>2. "file_write" \notin Backend!DefaultOf(role).allows
  BY DEF Backend!DefaultOf, Backend!Envelope
<1> QED
  BY <1>1, <1>2 DEF Backend!Consistent

\* Neither backend refuses a role the envelope run-task uses.
LEMMA DefaultsSuffice ==
  ASSUME NEW role, NEW sandbox
  PROVE  /\ Backend!ToolsRequiredBy(role) \subseteq Backend!Supported("codex", sandbox)
         /\ (Backend!DefaultOf(role).allows \cap {"file_read", "file_write", "shell"})
                \ Backend!Supported("codex", sandbox) = {}
         /\ Backend!Missing(role, Backend!Declared("claude_sdk", "none"),
                            Backend!AllowedBy(Backend!DefaultOf(role))) = {}
<1> DEFINE allows == Backend!DefaultOf(role).allows
<1>1. allows = IF role = "IssueComposer" THEN {} ELSE {"file_read"}
  BY DEF Backend!DefaultOf, Backend!Envelope
<1>2. /\ Backend!RequiredBy(role) \subseteq {"file_read", "structured_output", "agent_loop"}
      /\ role = "IssueComposer" => "file_read" \notin Backend!RequiredBy(role)
  BY DEF Backend!RequiredBy
<1>3. "file_read" \in Backend!Supported("codex", sandbox)
  BY DEF Backend!Supported
<1>4. Backend!ToolsRequiredBy(role) \subseteq {"file_read"}
  BY <1>2 DEF Backend!ToolsRequiredBy, Backend!Tools
<1>5. /\ {"structured_output", "agent_loop"} \subseteq Backend!AlwaysAllowed
      /\ Backend!Declared("claude_sdk", "none") = Backend!AlwaysAllowed \cup Backend!Tools
      /\ "file_read" \in Backend!Tools
  BY DEF Backend!AlwaysAllowed, Backend!Declared, Backend!Tools
<1>6. Backend!Missing(role, Backend!Declared("claude_sdk", "none"),
                      Backend!AllowedBy(Backend!DefaultOf(role))) = {}
  <2> HIDE DEF allows
  <2>1. Backend!AllowedBy(Backend!DefaultOf(role)) = Backend!AlwaysAllowed \cup allows
    BY DEF Backend!AllowedBy, allows
  <2> QED
    BY <1>1, <1>2, <1>5, <2>1 DEF Backend!Missing
<1> QED
  BY <1>1, <1>3, <1>4, <1>6

\* The classes of exceptions after which the selected backend may be called again.
Retried(class) ==
    IF Selected = "codex"
    THEN class \notin {"CodexOutputError", "UnsupportedWorkerRoleError"}
    ELSE class \in {"TimeoutError", "TimeoutExpired"}

\* The class of an exception decides, except for a CodexAdapterError.
LEMMA ClassesDecide ==
  ASSUME NEW raised \in Backend!Exceptions, Nothing \notin Backend!Exceptions,
         Selected # "codex" => raised.class \notin Backend!AdapterErrors
  PROVE  /\ ~Called(raised).success
         /\ raised.class # "CodexAdapterError" =>
                Called(raised).retryable = Retried(raised.class)
<1> DEFINE envelope == Backend!DefaultOf(input.role)
<1>1. CASE Selected = "codex"
  <2> DEFINE surfaced == Backend!Surfaced(raised)
  <2>1. Called(raised) = Backend!AdapterFailure(surfaced)
    BY <1>1, DefaultsSuffice DEF Called, Backend!RunCodex
  <2>2. /\ surfaced.class \in Backend!AdapterErrors
        /\ raised.class \in Backend!AdapterErrors => surfaced.class = raised.class
        /\ raised.class \notin Backend!AdapterErrors =>
               surfaced.class = "CodexInvocationError"
    BY DEF Backend!Surfaced, Backend!AdapterErrors, Backend!Exceptions
  <2> HIDE DEF surfaced
  <2>3. /\ ~Backend!AdapterFailure(surfaced).success
        /\ surfaced.class \in {"CodexOutputError", "UnsupportedWorkerRoleError"} =>
               Backend!AdapterFailure(surfaced).retryable = FALSE
        /\ surfaced.class = "CodexInvocationError" =>
               Backend!AdapterFailure(surfaced).retryable = TRUE
    BY <2>2, AdapterFailuresAreJudged
  <2> QED
    BY <1>1, <2>1, <2>2, <2>3 DEF Retried, Backend!AdapterErrors
<1>2. CASE Selected # "codex"
  <2> DEFINE level == IF raised.stage \in {"client", "api"} THEN "transport" ELSE "semantic"
  <2>1. Called(raised) = [Backend!ClassifyException(raised) EXCEPT !.level = level]
    BY <1>2, DefaultsAreConsistent, DefaultsSuffice DEF Called, Backend!RunClaude
  <2> HIDE DEF level
  <2>2. /\ Called(raised).success = Backend!ClassifyException(raised).success
        /\ Called(raised).retryable = Backend!ClassifyException(raised).retryable
    BY <2>1 DEF Backend!ClassifyException, Backend!Failure
  <2>3. /\ ~Backend!ClassifyException(raised).success
        /\ raised.class \in {"TimeoutError", "TimeoutExpired"} =>
               Backend!ClassifyException(raised).retryable = TRUE
        /\ raised.class \notin {"TimeoutError", "TimeoutExpired"} =>
               Backend!ClassifyException(raised).retryable = FALSE
    <3>1. CASE raised.class \in {"TimeoutError", "TimeoutExpired"}
      BY <3>1 DEF Backend!ClassifyException, Backend!Failure
    <3>2. CASE raised.class \notin {"TimeoutError", "TimeoutExpired"}
      <4>1. \E kind, of :
                Backend!ClassifyException(raised) = Backend!Failure(kind, of, FALSE)
        BY <3>2 DEF Backend!ClassifyException
      <4>2. /\ Backend!ClassifyException(raised).success = FALSE
            /\ Backend!ClassifyException(raised).retryable = FALSE
        BY <4>1 DEF Backend!Failure
      <4> QED
        BY <3>2, <4>2
    <3> QED
      BY <3>1, <3>2
  <2>4. /\ raised.class \in {"TimeoutError", "TimeoutExpired"} => Retried(raised.class) = TRUE
        /\ raised.class \notin {"TimeoutError", "TimeoutExpired"} =>
               Retried(raised.class) = FALSE
    BY <1>2 DEF Retried
  <2> QED
    BY <2>2, <2>3, <2>4
<1> QED
  BY <1>1, <1>2

(***************************************************************************)
(* For every class, stage and wording of an exception, every role and      *)
(* every choice of a backend: whether a failed call may be tried again is  *)
(* not decided by the words of its message, a refused answer is final and  *)
(* a lost call is not.  What remains open to words is the plain            *)
(* CodexAdapterError.                                                      *)
(***************************************************************************)
THEOREM MessagesDoNotDecide == Spec => []RetriesIgnoreMessages
<1>1. InputInv /\ CallInv => RetriesIgnoreMessages
  <2> SUFFICES ASSUME InputInv, CallInv, Begun("call"), input.raised # Nothing
               PROVE  RetriesIgnoreMessages
    BY DEF RetriesIgnoreMessages
  <2> DEFINE raised == input.raised
             silent == [raised EXCEPT !.words = {}]
  <2>1. /\ outcome = Called(raised)
        /\ Selected # "unavailable"
    BY DEF CallInv
  <2>2. /\ raised \in Backend!Exceptions /\ Nothing \notin Backend!Exceptions
        /\ input.requested \notin {"none", "codex"} => raised.class \notin Backend!AdapterErrors
    BY ContractsAssumption DEF InputInv, CallInput, Begun
  <2>3. /\ silent \in Backend!Exceptions
        /\ silent.class = raised.class /\ silent.stage = raised.stage
    BY <2>2 DEF Backend!Exceptions
  <2>4. Selected # "codex" => input.requested \notin {"none", "codex"}
    BY <2>1 DEF Selected, Backend!Select
  <2> HIDE DEF raised, silent
  <2>5. /\ ~Called(raised).success
        /\ raised.class # "CodexAdapterError" =>
               /\ Called(raised).retryable = Retried(raised.class)
               /\ Called(silent).retryable = Retried(raised.class)
    BY <2>2, <2>3, <2>4, ClassesDecide
  <2>6. Refuses(raised) => ~Called(raised).retryable
    BY <2>2, <2>4, <2>5 DEF Refuses, Retried, Backend!AdapterErrors
  <2>7. IsLost(raised) => Called(raised).retryable
    BY <2>2, <2>4, <2>5 DEF IsLost, Retried, Backend!AdapterErrors
  <2> QED
    BY <2>1, <2>5, <2>6, <2>7 DEF RetriesIgnoreMessages, raised, silent
<1> QED
  BY <1>1, InputStays, CallInvHolds, PTL

-----------------------------------------------------------------------------
(* Answers.                                                                *)

\* What is known of an answer once it was read, however often it is retried.
AnswerInv ==
    Begun("answer") =>
        \E again, codes :
            outcome = [codex |-> Transport!CodexEvents(Context, input.answer, 1),
                       claude |-> Transport!ClaudeEvents(Context, input.answer, 2, 3),
                       again |-> again, codes |-> codes]

\* Both readings of an answer are those of the input.
LEMMA AnswerInvHolds == Spec => []AnswerInv
<1>1. Init => AnswerInv
  BY DEF Init, AnswerInv, Begun
<1>2. AnswerInv /\ ReadAnswer => AnswerInv'
  BY DEF AnswerInv, Begun, ReadAnswer, About, Context
<1>3. ASSUME AnswerInv, BindAnswers \/ RetryAnswer
      PROVE  AnswerInv'
  <2>1. input' = input /\ Begun("answer")
    BY <1>3 DEF BindAnswers, RetryAnswer, About, Begun
  <2>2. PICK again, codes :
            outcome = [codex |-> Transport!CodexEvents(Context, input.answer, 1),
                       claude |-> Transport!ClaudeEvents(Context, input.answer, 2, 3),
                       again |-> again, codes |-> codes]
    BY <1>3, <2>1 DEF AnswerInv
  <2>3. \E value : \/ outcome' = [outcome EXCEPT !.codes = value]
                   \/ outcome' = [outcome EXCEPT !.again = value]
    BY <1>3 DEF BindAnswers, RetryAnswer
  <2>4. \E a, c : outcome' =
            [codex |-> Transport!CodexEvents(Context, input.answer, 1),
             claude |-> Transport!ClaudeEvents(Context, input.answer, 2, 3),
             again |-> a, codes |-> c]
    BY <2>2, <2>3
  <2> QED
    BY <2>1, <2>4 DEF AnswerInv, Context
<1>4. AnswerInv /\ [Next]_vars /\ ~(ReadAnswer \/ BindAnswers \/ RetryAnswer) => AnswerInv'
  BY StepsAreAbout DEF AnswerInv, Begun, vars, About, Context
<1> QED
  BY <1>1, <1>2, <1>3, <1>4, PTL DEF Spec

\* A normalized event is internal, so it is left alone when it is seen again.
LEMMA NormalizingAgain ==
  ASSUME NEW context, NEW events, NEW time, NEW later
  PROVE  Transport!Pass(context, Transport!Pass(context, events, time), later) =
             Transport!Pass(context, events, time)
<1> DEFINE once == Transport!Pass(context, events, time)
           readable(i) == Transport!Normalizes(context, Transport!Wrapped(events[i]), i)
<1>1. /\ DOMAIN once = DOMAIN events
      /\ \A i \in DOMAIN events :
             /\ readable(i) => once[i] = Transport!NormalizedEvent(
                                  context, Transport!Wrapped(events[i]), i, time)
             /\ ~readable(i) => once[i] = events[i]
  BY DEF Transport!Pass
<1> HIDE DEF once
<1>2. ASSUME NEW i \in DOMAIN events, readable(i)
      PROVE  /\ Transport!Wrapped(once[i]) = once[i]
             /\ Transport!NormalizedEvent(context, once[i], i, later) = once[i]
  <2>1. once[i].form = "internal"
    BY <1>1, <1>2 DEF Transport!NormalizedEvent, Transport!Internal
  <2> QED
    BY <2>1 DEF Transport!NormalizedEvent, Transport!Wrapped
<1>3. \A i \in DOMAIN events :
          (IF Transport!Normalizes(context, Transport!Wrapped(once[i]), i)
           THEN Transport!NormalizedEvent(context, Transport!Wrapped(once[i]), i, later)
           ELSE once[i]) = once[i]
  <2> TAKE i \in DOMAIN events
  <2>1. CASE readable(i)
    BY <1>2, <2>1
  <2>2. CASE ~readable(i)
    BY <1>1, <2>2
  <2> QED
    BY <2>1, <2>2
<1>4. once = [i \in DOMAIN events |-> once[i]]
  BY DEF once, Transport!Pass
<1>5. Transport!Pass(context, once, later) = [i \in DOMAIN events |-> once[i]]
  BY <1>1, <1>3 DEF Transport!Pass
<1> QED
  BY <1>4, <1>5 DEF once

(***************************************************************************)
(* The runtime's own normalization of what the claude adapter hands it     *)
(* changes nothing of any event, also of those neither pass can read.      *)
(***************************************************************************)
THEOREM NormalizationIsIdempotent == Spec => []SecondPassChangesNothing
<1>1. AnswerInv => SecondPassChangesNothing
  BY NormalizingAgain DEF AnswerInv, SecondPassChangesNothing, Transport!ClaudeEvents
<1> QED
  BY <1>1, AnswerInvHolds, PTL

(***************************************************************************)
(* What codex's way makes of an answer, claude's way makes of it as well,  *)
(* event by event: the same types, entities and payloads.                  *)
(***************************************************************************)
THEOREM BackendsAgree == Spec => []ClaudeReadsWhatCodexReads
<1>1. AnswerInv => ClaudeReadsWhatCodexReads
  <2> SUFFICES ASSUME AnswerInv, Begun("answer"), outcome.codex # Raised,
                      Transport!ClaudeReads(input.answer)
               PROVE  ClaudeReadsWhatCodexReads
    BY DEF ClaudeReadsWhatCodexReads
  <2> DEFINE events == input.answer.events
  <2>1. /\ outcome.codex = Transport!CodexEvents(Context, input.answer, 1)
        /\ outcome.claude = Transport!ClaudeEvents(Context, input.answer, 2, 3)
    BY DEF AnswerInv
  <2>2. outcome.claude = Transport!Pass(Context, events, 2)
    BY <2>1, NormalizingAgain DEF Transport!ClaudeEvents
  <2>3. /\ \A i \in DOMAIN events : Transport!Normalizes(Context, events[i], i)
        /\ outcome.codex = [i \in DOMAIN events |->
                               Transport!NormalizedEvent(Context, events[i], i, 1)]
    BY <2>1 DEF Transport!CodexEvents
  <2>4. ASSUME NEW i \in DOMAIN events
        PROVE  outcome.claude[i] = Transport!NormalizedEvent(Context, events[i], i, 2)
    <3>1. events[i].form # "flat"
      BY <2>3 DEF Transport!Normalizes
    <3>2. Transport!Wrapped(events[i]) = events[i]
      BY <3>1 DEF Transport!Wrapped
    <3> QED
      BY <2>2, <2>3, <3>2 DEF Transport!Pass
  <2>5. DOMAIN outcome.claude = DOMAIN events
    BY <2>2 DEF Transport!Pass
  <2>6. \A i \in DOMAIN events :
            /\ outcome.claude[i].form = "internal"
            /\ outcome.claude[i].type = outcome.codex[i].type
            /\ outcome.claude[i].about = outcome.codex[i].about
    <3> TAKE i \in DOMAIN events
    <3>1. outcome.codex[i] = Transport!NormalizedEvent(Context, events[i], i, 1)
      BY <2>3
    <3>2. CASE events[i].form = "internal"
      BY <2>4, <3>1, <3>2 DEF Transport!NormalizedEvent
    <3>3. CASE events[i].form # "internal"
      <4>1. /\ outcome.codex[i] = Transport!Internal(Context, events[i], i, 1)
            /\ outcome.claude[i] = Transport!Internal(Context, events[i], i, 2)
        BY <2>4, <3>1, <3>3 DEF Transport!NormalizedEvent
      <4> QED
        BY <4>1 DEF Transport!Internal
    <3> QED
      BY <3>2, <3>3
  <2> QED
    BY <2>3, <2>5, <2>6 DEF ClaudeReadsWhatCodexReads
<1> QED
  BY <1>1, AnswerInvHolds, PTL

-----------------------------------------------------------------------------
(* Reports.                                                                *)

\* What is known of a report once it was compiled.
ReportInv == Begun("report") => outcome = Compiler!Compiled(input.state, input.appendix)

\* A report is the one compiled from the input.
LEMMA ReportInvHolds == Spec => []ReportInv
<1>1. Init => ReportInv
  BY DEF Init, ReportInv, Begun
<1>2. ReportInv /\ CompileReport => ReportInv'
  BY DEF ReportInv, Begun, CompileReport, About
<1>3. ReportInv /\ [Next]_vars /\ ~CompileReport => ReportInv'
  BY StepsAreAbout DEF ReportInv, Begun, vars, About
<1> QED
  BY <1>1, <1>2, <1>3, PTL DEF Spec

\* A report that was compiled holds what was collected.
LEMMA CompiledReports ==
  ASSUME NEW state, NEW appendix,
         NEW report, report = Compiler!Compiled(state, appendix), report # CompileError
  PROVE  /\ report.findings = Compiler!IssueFindings(state) \cup Compiler!DerivedFindings(state)
         /\ report.suppressed = Compiler!SuppressionRecords(state)
         /\ report.verified = Compiler!VerifiedIn(state)
BY DEF Compiler!Compiled

\* The findings named after an issue, and those named after an observation.
LEMMA FindingsHaveSources ==
  ASSUME NEW state
  PROVE  /\ \A f \in Compiler!IssueFindings(state) : f.source[1] = "issue"
         /\ \A f \in Compiler!DerivedFindings(state) :
                \E o \in Compiler!Uncovered(state) :
                    /\ f.source = <<"derived", o>> /\ f.source[1] = "derived"
                    /\ f.finding_id = Compiler!DerivedId(o)
                    /\ f.finding_id \notin Compiler!Taken(state)
<1>1. ASSUME NEW f \in Compiler!IssueFindings(state)
      PROVE  f.source[1] = "issue"
  <2>1. PICK i \in Compiler!ReportedIssues(state) : f = Compiler!IssueFinding(state, i)
    BY DEF Compiler!IssueFindings
  <2>2. f.source = <<"issue", i>>
    BY <2>1 DEF Compiler!IssueFinding
  <2> QED
    BY <2>2
<1>2. ASSUME NEW f \in Compiler!DerivedFindings(state)
      PROVE  \E o \in Compiler!Uncovered(state) :
                 /\ f.source = <<"derived", o>> /\ f.source[1] = "derived"
                 /\ f.finding_id = Compiler!DerivedId(o)
                 /\ f.finding_id \notin Compiler!Taken(state)
  <2>1. PICK o \in Compiler!Uncovered(state) :
            /\ Compiler!Suppression(state, o) = "none"
            /\ f.source = <<"derived", o>>
            /\ f.finding_id = Compiler!DerivedId(o)
    BY DEF Compiler!DerivedFindings
  <2>2. Compiler!DerivedId(o) \notin Compiler!Taken(state)
    BY <2>1 DEF Compiler!Suppression
  <2> QED
    BY <2>1, <2>2
<1> QED
  BY <1>1, <1>2

\* A finding that was derived from an observation, or why there is none.
LEMMA UncoveredFacts ==
  ASSUME NEW state, NEW o
  PROVE  LET derived == {f \in Compiler!DerivedFindings(state) : f.source = <<"derived", o>>}
             suppressed == {r \in Compiler!SuppressionRecords(state) : r.observation = o}
         IN  Cardinality(derived) + Cardinality(suppressed) =
                 IF o \in Compiler!Uncovered(state) THEN 1 ELSE 0
<1> DEFINE derived == {f \in Compiler!DerivedFindings(state) : f.source = <<"derived", o>>}
           suppressed == {r \in Compiler!SuppressionRecords(state) : r.observation = o}
           finding == [finding_id |-> Compiler!DerivedId(o), source |-> <<"derived", o>>,
                       status |-> "open", observations |-> {o},
                       classes |-> {state.observations[o].class},
                       open_questions |-> {}, contradictions |-> {}]
           record == [observation |-> o, reason |-> Compiler!Suppression(state, o)]
<1>1. derived = IF /\ o \in Compiler!Uncovered(state)
                   /\ Compiler!Suppression(state, o) = "none"
                THEN {finding} ELSE {}
  BY DEF Compiler!DerivedFindings
<1>2. suppressed = IF /\ o \in Compiler!Uncovered(state)
                      /\ Compiler!Suppression(state, o) # "none"
                   THEN {record} ELSE {}
  BY DEF Compiler!SuppressionRecords
<1> DEFINE uncovered == o \in Compiler!Uncovered(state)
           free == Compiler!Suppression(state, o) = "none"
           found == Cardinality(derived)
           left == Cardinality(suppressed)
<1> SUFFICES found + left = IF uncovered THEN 1 ELSE 0
  OBVIOUS
<1>3. /\ uncovered /\ free => derived = {finding} /\ suppressed = {}
      /\ uncovered /\ ~free => derived = {} /\ suppressed = {record}
      /\ ~uncovered => derived = {} /\ suppressed = {}
  BY <1>1, <1>2
<1> HIDE DEF derived, suppressed, finding, record, uncovered, free
<1>4. Cardinality({finding}) = 1 /\ Cardinality({record}) = 1 /\ Cardinality({}) = 0
  BY FS_Singleton, FS_EmptySet
<1>5. /\ uncovered /\ free => found = 1 /\ left = 0
      /\ uncovered /\ ~free => found = 0 /\ left = 1
      /\ ~uncovered => found = 0 /\ left = 0
  BY <1>3, <1>4
<1> HIDE DEF found, left
<1> QED
  BY <1>5

(***************************************************************************)
(* Each verified observation is accounted for exactly once in a report,    *)
(* and no finding hides another one, whatever the canonical state holds.   *)
(***************************************************************************)
THEOREM ReportsAreComplete == Spec => []FactsAreReportedOnce
<1>1. ReportInv => FactsAreReportedOnce
  <2> SUFFICES ASSUME ReportInv, Begun("report"), outcome # CompileError
               PROVE  FactsAreReportedOnce
    BY DEF FactsAreReportedOnce
  <2> DEFINE state == input.state
             issues == Compiler!IssueFindings(state)
             facts == Compiler!DerivedFindings(state)
             derived(o) == {f \in outcome.findings : f.source = <<"derived", o>>}
             citing(o) == {f \in outcome.findings :
                              f.source[1] = "issue" /\ o \in f.observations}
             suppressed(o) == {r \in outcome.suppressed : r.observation = o}
  <2>1. /\ outcome.findings = issues \cup facts
        /\ outcome.suppressed = Compiler!SuppressionRecords(state)
        /\ outcome.verified = Compiler!VerifiedIn(state)
    BY CompiledReports DEF ReportInv
  <2>2. /\ \A f \in issues : f.source[1] = "issue"
        /\ \A f \in facts : \E o \in Compiler!Uncovered(state) :
               /\ f.source = <<"derived", o>> /\ f.source[1] = "derived"
               /\ f.finding_id = Compiler!DerivedId(o)
               /\ f.finding_id \notin Compiler!Taken(state)
    BY FindingsHaveSources
  <2>3. ASSUME NEW o \in outcome.verified
        PROVE  Cardinality(derived(o)) + Cardinality(suppressed(o)) =
                   IF citing(o) = {} THEN 1 ELSE 0
    <3>1. derived(o) = {f \in facts : f.source = <<"derived", o>>}
      <4>1. \A f \in issues : f.source # <<"derived", o>>
        BY <2>2
      <4> QED
        BY <2>1, <4>1
    <3>2. citing(o) = {f \in issues : o \in f.observations}
      BY <2>1, <2>2
    <3>3. citing(o) = {} <=> o \in Compiler!Uncovered(state)
      BY <2>1, <3>2 DEF Compiler!Uncovered
    <3>4. suppressed(o) = {r \in Compiler!SuppressionRecords(state) : r.observation = o}
      BY <2>1
    <3>5. Cardinality({f \in facts : f.source = <<"derived", o>>})
              + Cardinality({r \in Compiler!SuppressionRecords(state) : r.observation = o}) =
              IF o \in Compiler!Uncovered(state) THEN 1 ELSE 0
      BY UncoveredFacts
    <3> HIDE DEF state, facts, derived, citing, suppressed
    <3> QED
      BY <3>1, <3>3, <3>4, <3>5
  <2>4. ASSUME NEW f \in outcome.findings, NEW g \in outcome.findings,
               f.finding_id = g.finding_id
        PROVE  f = g \/ {f.source[1], g.source[1]} = {"issue"}
    <3> DEFINE distinct == f = g \/ {f.source[1], g.source[1]} = {"issue"}
    <3>1. f \in issues /\ g \in issues => distinct
      BY <2>2
    <3>2. f \in facts /\ g \in facts => distinct
      <4> SUFFICES ASSUME f \in facts, g \in facts PROVE f = g
        OBVIOUS
      <4> DEFINE finding(o) ==
                    [finding_id |-> Compiler!DerivedId(o), source |-> <<"derived", o>>,
                     status |-> "open", observations |-> {o},
                     classes |-> {state.observations[o].class},
                     open_questions |-> {}, contradictions |-> {}]
      <4>1. PICK o, p : f = finding(o) /\ g = finding(p)
        BY DEF Compiler!DerivedFindings
      <4>2. Compiler!DerivedId(o) = Compiler!DerivedId(p)
        BY <2>4, <4>1
      <4>3. o = p
        BY <4>2 DEF Compiler!DerivedId
      <4> QED
        BY <4>1, <4>3
    <3>3. \A h \in issues : h.finding_id \in Compiler!Taken(state)
      BY DEF Compiler!Taken
    <3>4. \A h \in facts : h.finding_id \notin Compiler!Taken(state)
      BY <2>2
    <3>5. f \in issues \cup facts /\ g \in issues \cup facts
      BY <2>1, <2>4
    <3>6. f \in issues <=> g \in issues
      BY <2>4, <3>3, <3>4, <3>5
    <3>7. (f \in issues /\ g \in issues) \/ (f \in facts /\ g \in facts)
      BY <3>5, <3>6
    <3> HIDE DEF issues, facts, distinct
    <3>8. distinct
      BY <3>1, <3>2, <3>7
    <3> QED
      BY <3>8 DEF distinct
  <2> QED
    BY <2>3, <2>4 DEF FactsAreReportedOnce
<1> QED
  BY <1>1, ReportInvHolds, PTL

-----------------------------------------------------------------------------
(* What is collected for a hypothesis from the lists it names.             *)

\* What the hypotheses in a list rest on.
RestOf(known, list) == UNION {known[h] : h \in DOMAIN known \cap ToSet(list)}

\* What is collected grows, by what the hypotheses gone through rest on.
GrowsBy(from, done, list) ==
    /\ DOMAIN done = {"known", "ids", "full"}
    /\ done.known = from.known
    /\ from.ids \subseteq done.ids
    /\ done.ids \subseteq from.ids \cup RestOf(from.known, list)

Evidence == INSTANCE FoldFacts WITH Op <- Selection!Extend, P <- GrowsBy

-----------------------------------------------------------------------------
(* The identifiers that sort first.                                        *)

\* Of the numbers in ids, how many are smaller than i.
Rank(ids, i) == Cardinality({j \in ids : j < i})

\* Each module counts and lists by the same definitions.
LEMMA SameOperators ==
  ASSUME NEW S
  PROVE  Selection!Cardinality(S) = Cardinality(S) /\ Selection!ToSet(S) = ToSet(S)
BY DEF Selection!Cardinality, Cardinality, Selection!ToSet, ToSet

\* The first n are those of the n smallest ranks.
LEMMA FirstByRank ==
  ASSUME NEW ids, NEW n
  PROVE  Selection!First(ids, n) = {i \in ids : Rank(ids, i) < n}
BY SameOperators DEF Selection!First, Rank

\* Finitely many are smaller than a number.
LEMMA RanksAreNumbers ==
  ASSUME NEW ids \in SUBSET Nat, NEW i \in Nat
  PROVE  IsFiniteSet({j \in ids : j < i}) /\ Rank(ids, i) \in Nat
<1>1. {j \in ids : j < i} \in SUBSET (0..i)
  <2>1. \A j \in ids : j < i => j \in 0..i
    OBVIOUS
  <2> QED
    BY <2>1
<1>2. IsFiniteSet(0..i)
  BY FS_Interval
<1> QED
  BY <1>1, <1>2, FS_Subset, FS_CardinalityType DEF Rank

\* The next larger number has a larger rank.
LEMMA RanksGrow ==
  ASSUME NEW ids \in SUBSET Nat, NEW i \in ids, NEW k \in ids, i < k
  PROVE  Rank(ids, i) < Rank(ids, k)
<1> DEFINE below == {j \in ids : j < i}
           more == {j \in ids : j < k}
<1>1. IsFiniteSet(below) /\ IsFiniteSet(more) /\ Cardinality(below) \in Nat
      /\ Cardinality(more) \in Nat
  BY RanksAreNumbers DEF Rank
<1>2. below \cup {i} \in SUBSET more /\ i \notin below
  <2>1. \A j \in ids : j < i => j < k
    OBVIOUS
  <2>2. ~(i < i)
    OBVIOUS
  <2> QED
    BY <2>1, <2>2
<1>3. Cardinality(below \cup {i}) = Cardinality(below) + 1
  BY <1>1, <1>2, FS_AddElement
<1>4. Cardinality(below \cup {i}) <= Cardinality(more)
  BY <1>1, <1>2, FS_Subset
<1> HIDE DEF below, more
<1>5. Cardinality(below) < Cardinality(more)
  BY <1>1, <1>3, <1>4
<1> QED
  BY <1>5 DEF Rank, below, more

\* The first n identifiers of a list are at most n.
LEMMA FirstAreFew ==
  ASSUME NEW ids \in SUBSET Nat, NEW n \in Nat
  PROVE  /\ IsFiniteSet(Selection!First(ids, n))
         /\ Cardinality(Selection!First(ids, n)) <= n
         /\ Cardinality(Selection!First(ids, n)) \in Nat
<1> DEFINE first == Selection!First(ids, n)
           rank == [i \in first |-> Rank(ids, i)]
<1>1. \A i \in first : i \in ids /\ i \in Nat /\ Rank(ids, i) \in Nat /\ Rank(ids, i) < n
  <2>1. \A i \in ids : i \in Nat /\ Rank(ids, i) \in Nat
    BY RanksAreNumbers
  <2>2. \A i \in first : i \in ids /\ Rank(ids, i) < n
    BY FirstByRank
  <2> QED
    BY <2>1, <2>2
<1>2. rank \in [first -> 0..(n - 1)]
  BY <1>1
<1>3. \A i, k \in first : rank[i] = rank[k] => i = k
  <2> SUFFICES ASSUME NEW i \in first, NEW k \in first, i # k
               PROVE  rank[i] # rank[k]
    OBVIOUS
  <2>1. i < k \/ k < i
    BY <1>1
  <2> QED
    BY <1>1, <2>1, RanksGrow
<1>4. rank \in Injection(first, 0..(n - 1))
  BY <1>2, <1>3 DEF Injection, IsInjective
<1>5. IsFiniteSet(0..(n - 1)) /\ Cardinality(0..(n - 1)) = n
  BY FS_Interval
<1>6. IsFiniteSet(first) /\ Cardinality(first) <= n
  BY <1>4, <1>5, FS_Injection
<1> QED
  BY <1>6, FS_CardinalityType

\* What is left out of them was left out because there are n.
LEMMA LeftOutOfFirst ==
  ASSUME NEW ids \in SUBSET Nat, NEW n \in Nat, NEW h \in ids, h \notin Selection!First(ids, n)
  PROVE  Cardinality(Selection!First(ids, n)) = n
<1> DEFINE late == {i \in ids : Rank(ids, i) >= n}
<1>1. h \in late /\ late \in SUBSET Nat
  <2>1. Rank(ids, h) \in Nat
    BY RanksAreNumbers
  <2>2. ~(Rank(ids, h) < n)
    BY FirstByRank
  <2>3. Rank(ids, h) >= n
    BY <2>1, <2>2
  <2> QED
    BY <2>3
<1>2. PICK m \in late : \A i \in late : m <= i
  BY <1>1, Evidence!LeastNumber
<1>3. {j \in ids : j < m} \in SUBSET Selection!First(ids, n)
  <2>0. m \in Nat
    BY <1>1, <1>2
  <2>1. \A j \in ids : j < m => j \notin late
    <3> HIDE DEF late
    <3> QED
      BY <1>2, <2>0
  <2>2. \A j \in ids : Rank(ids, j) \in Nat
    BY RanksAreNumbers
  <2>3. \A j \in ids : j \notin late => Rank(ids, j) < n
    BY <2>2
  <2>4. \A j \in ids : j < m => Rank(ids, j) < n
    BY <2>1, <2>3
  <2> HIDE DEF late
  <2> QED
    BY <2>4, FirstByRank
<1>4. Rank(ids, m) <= Cardinality(Selection!First(ids, n))
  BY <1>3, FirstAreFew, FS_Subset DEF Rank
<1>5. Rank(ids, m) >= n /\ Rank(ids, m) \in Nat
  BY <1>1, <1>2, RanksAreNumbers
<1> QED
  BY <1>4, <1>5, FirstAreFew

\* If there are at most n, none is left out.
LEMMA FirstOfFew ==
  ASSUME NEW ids \in SUBSET Nat, NEW n \in Nat, IsFiniteSet(ids), Cardinality(ids) <= n
  PROVE  Selection!First(ids, n) = ids
<1> SUFFICES ASSUME NEW h \in ids, h \notin Selection!First(ids, n)
             PROVE  FALSE
  BY FirstByRank
<1>1. Cardinality(Selection!First(ids, n)) = n
  BY LeftOutOfFirst
<1>2. Selection!First(ids, n) \in SUBSET ids
  BY FirstByRank
<1>3. Cardinality(Selection!First(ids, n)) <= Cardinality(ids) /\ Cardinality(ids) \in Nat
  BY <1>2, FS_Subset, FS_CardinalityType
<1>4. Selection!First(ids, n) = ids
  BY <1>1, <1>2, <1>3, FS_Subset
<1> QED
  BY <1>4

-----------------------------------------------------------------------------
(* The observations of a hypothesis.                                       *)

\* The elements of a list with one more at its end.
LEMMA ElementsAppended ==
  ASSUME NEW X, NEW s \in Seq(X), NEW x \in X
  PROVE  ToSet(Append(s, x)) = ToSet(s) \cup {x}
<1>1. /\ DOMAIN s = 1..Len(s) /\ Len(s) \in Nat
      /\ DOMAIN Append(s, x) = 1..(Len(s) + 1)
      /\ \A i \in 1..Len(s) : Append(s, x)[i] = s[i]
      /\ Append(s, x)[Len(s) + 1] = x
  BY LenProperties, AppendProperties
<1>2. 1..(Len(s) + 1) = 1..Len(s) \cup {Len(s) + 1}
  BY <1>1
<1> QED
  BY <1>1, <1>2 DEF ToSet

\* A list of anything.
IsList(s) == s \in Seq(ToSet(s))

\* A list with another element is a list, with the elements it had and that one.
LEMMA ListsGrow ==
  ASSUME NEW s, IsList(s), NEW x
  PROVE  /\ IsList(Append(s, x)) /\ ToSet(Append(s, x)) = ToSet(s) \cup {x}
         /\ Len(Append(s, x)) = Len(s) + 1
         /\ \A i \in 1..Len(s) : Append(s, x)[i] = s[i]
         /\ Append(s, x)[Len(s) + 1] = x
<1> DEFINE X == ToSet(s) \cup {x}
<1>1. s \in Seq(X)
  BY SeqMonotonic DEF IsList
<1> HIDE DEF X
<1>2. x \in X
  BY DEF X
<1>3. ToSet(Append(s, x)) = ToSet(s) \cup {x}
  BY <1>1, <1>2, ElementsAppended
<1>4. /\ Append(s, x) \in Seq(X) /\ Len(Append(s, x)) = Len(s) + 1
      /\ \A i \in 1..Len(s) : Append(s, x)[i] = s[i]
      /\ Append(s, x)[Len(s) + 1] = x
  BY <1>1, <1>2, AppendProperties
<1> QED
  BY <1>3, <1>4 DEF IsList, X

\* The empty list.
LEMMA EmptyList == IsList(<<>>) /\ ToSet(<<>>) = {}
<1>1. DOMAIN <<>> = {}
  OBVIOUS
<1>2. ToSet(<<>>) = {}
  BY <1>1 DEF ToSet
<1> QED
  BY <1>2, EmptySeq DEF IsList

\* The elements of two lists joined.
LEMMA ElementsJoined ==
  ASSUME NEW X, NEW s \in Seq(X), NEW t \in Seq(X)
  PROVE  ToSet(s \o t) = ToSet(s) \cup ToSet(t)
<1>1. /\ DOMAIN s = 1..Len(s) /\ Len(s) \in Nat
      /\ DOMAIN t = 1..Len(t) /\ Len(t) \in Nat
      /\ DOMAIN (s \o t) = 1..(Len(s) + Len(t))
  BY LenProperties, ConcatProperties
<1>2. /\ \A i \in 1..Len(s) : i \in 1..(Len(s) + Len(t)) /\ (s \o t)[i] = s[i]
      /\ \A i \in 1..Len(t) : /\ i + Len(s) \in 1..(Len(s) + Len(t))
                               /\ (s \o t)[i + Len(s)] = t[i]
  BY <1>1
<1>3. \A i \in 1..(Len(s) + Len(t)) :
          i \in 1..Len(s) \/ \E k \in 1..Len(t) : i = k + Len(s)
  <2> TAKE i \in 1..(Len(s) + Len(t))
  <2>1. CASE i <= Len(s)
    BY <1>1, <2>1
  <2>2. CASE i > Len(s)
    <3>1. i - Len(s) \in 1..Len(t) /\ i = (i - Len(s)) + Len(s)
      BY <1>1, <2>2
    <3> QED
      BY <3>1
  <2> QED
    BY <1>1, <2>1, <2>2
<1>4. ToSet(s) \subseteq ToSet(s \o t) /\ ToSet(t) \subseteq ToSet(s \o t)
  BY <1>1, <1>2 DEF ToSet
<1>5. ASSUME NEW i \in 1..(Len(s) + Len(t))
      PROVE  (s \o t)[i] \in ToSet(s) \cup ToSet(t)
  <2>1. CASE i \in 1..Len(s)
    BY <1>1, <1>2, <2>1 DEF ToSet
  <2>2. CASE \E k \in 1..Len(t) : i = k + Len(s)
    BY <1>1, <1>2, <2>2 DEF ToSet
  <2> QED
    BY <1>3, <2>1, <2>2
<1>6. ToSet(s \o t) = {(s \o t)[i] : i \in 1..(Len(s) + Len(t))}
  BY <1>1 DEF ToSet
<1> QED
  BY <1>4, <1>5, <1>6

\* Extending by a list adds, and adds no more than its hypotheses rest on.
LEMMA ExtendedGrows ==
  ASSUME NEW known, NEW ids, NEW list \in Seq(Nat)
  PROVE  /\ ids \subseteq Selection!Extended(known, ids, list)
         /\ Selection!Extended(known, ids, list) \subseteq ids \cup RestOf(known, list)
<1> DEFINE base == [known |-> known, ids |-> ids, full |-> FALSE]
<1>1. GrowsBy(base, base, <<>>)
  BY DEF GrowsBy
<1>2. ASSUME NEW done, NEW s, NEW h, GrowsBy(base, done, s), s \in Seq(Nat), h \in Nat
      PROVE  GrowsBy(base, Selection!Extend(done, h), Append(s, h))
  <2> DEFINE next == Selection!Extend(done, h)
  <2>1. ToSet(Append(s, h)) = ToSet(s) \cup {h}
    BY <1>2, ElementsAppended
  <2>2. RestOf(known, s) \subseteq RestOf(known, Append(s, h))
    BY <2>1 DEF RestOf
  <2>3. CASE done.full \/ h \notin DOMAIN done.known
    BY <1>2, <2>2, <2>3 DEF GrowsBy, Selection!Extend
  <2>4. CASE ~done.full /\ h \in DOMAIN done.known
    <3>1. known[h] \subseteq RestOf(known, Append(s, h))
      BY <1>2, <2>1, <2>4 DEF RestOf, GrowsBy
    <3>2. /\ DOMAIN next = {"known", "ids", "full"}
          /\ next.known = known
          /\ next.ids = done.ids \cup known[h]
      BY <1>2, <2>4 DEF GrowsBy, Selection!Extend
    <3> QED
      BY <1>2, <2>2, <3>1, <3>2 DEF GrowsBy
  <2> QED
    BY <2>3, <2>4
<1> HIDE DEF base
<1>3. \A done, s, h : GrowsBy(base, done, s) /\ s \in Seq(Nat) /\ h \in Nat =>
          GrowsBy(base, Selection!Extend(done, h), Append(s, h))
  BY <1>2
<1>4. GrowsBy(base, Evidence!FoldLeft(Selection!Extend, base, list), list)
  BY <1>1, <1>3, Evidence!FoldInduction
<1>5. Evidence!FoldLeft(Selection!Extend, base, list) =
          Selection!FoldLeft(Selection!Extend, base, list)
  BY DEF Evidence!FoldLeft, Evidence!MapThenFoldSet, Evidence!Max,
         Selection!FoldLeft, Selection!MapThenFoldSet, Selection!Max
<1> QED
  BY <1>4, <1>5 DEF base, GrowsBy, Selection!Extended

\* What the evidence for a hypothesis holds at least, and at most.
LEMMA EvidenceIsBounded ==
  ASSUME NEW state, NEW hypothesis,
         hypothesis.supporting \in Seq(Nat), hypothesis.contradicting \in Seq(Nat)
  PROVE  LET direct == hypothesis.observations \cup hypothesis.basis
             named == DOMAIN state.hypotheses \cap
                          ToSet(hypothesis.supporting \o hypothesis.contradicting)
             evidence == Selection!EvidenceOf(state, hypothesis)
         IN  /\ direct \subseteq evidence
             /\ evidence \subseteq direct \cup UNION {state.hypotheses[h].observations : h \in named}
<1> DEFINE known == [h \in DOMAIN state.hypotheses |-> state.hypotheses[h].observations]
           direct == hypothesis.observations \cup hypothesis.basis
           supported == Selection!Extended(known, direct, hypothesis.supporting)
           both == Selection!Extended(known, supported, hypothesis.contradicting)
           named == DOMAIN state.hypotheses \cap
                        ToSet(hypothesis.supporting \o hypothesis.contradicting)
           rest == UNION {state.hypotheses[h].observations : h \in named}
           evidence == Selection!EvidenceOf(state, hypothesis)
<1>1. /\ RestOf(known, hypothesis.supporting) \subseteq rest
      /\ RestOf(known, hypothesis.contradicting) \subseteq rest
  <2>1. ToSet(hypothesis.supporting \o hypothesis.contradicting) =
            ToSet(hypothesis.supporting) \cup ToSet(hypothesis.contradicting)
    BY ElementsJoined
  <2>2. DOMAIN known = DOMAIN state.hypotheses
    OBVIOUS
  <2>3. \A h \in DOMAIN known : known[h] = state.hypotheses[h].observations
    OBVIOUS
  <2> HIDE DEF known
  <2>4. ASSUME NEW list, ToSet(list) \subseteq
                  ToSet(hypothesis.supporting \o hypothesis.contradicting)
        PROVE  RestOf(known, list) \subseteq rest
    BY <2>2, <2>3, <2>4 DEF RestOf
  <2> QED
    BY <2>1, <2>4
<1>2. evidence = supported \/ evidence = both
  BY DEF Selection!EvidenceOf
<1> HIDE DEF known, direct, rest, evidence
<1>3. direct \subseteq supported /\ supported \subseteq direct \cup rest
  BY <1>1, ExtendedGrows
<1> HIDE DEF supported
<1>4. supported \subseteq both /\ both \subseteq supported \cup rest
  BY <1>1, ExtendedGrows
<1>5. direct \subseteq evidence /\ evidence \subseteq direct \cup rest
  BY <1>2, <1>3, <1>4
<1> QED
  BY <1>5 DEF direct, rest, evidence

\* What a hypothesis says apart from what became of it, and the facts of a state.
SameHypothesis(now, before) ==
    /\ DOMAIN now = DOMAIN before
    /\ now.observations = before.observations
    /\ now.basis = before.basis
    /\ now.supporting = before.supporting
    /\ now.contradicting = before.contradicting
    /\ before.status = "supported" => now.status = "supported"

SameFacts(now, before) ==
    /\ DOMAIN now = DOMAIN before
    /\ now.observations = before.observations
    /\ DOMAIN now.hypotheses = DOMAIN before.hypotheses
    /\ \A h \in DOMAIN before.hypotheses :
           SameHypothesis(now.hypotheses[h], before.hypotheses[h])

\* The evidence is the same, whatever was decided.
LEMMA EvidenceStays ==
  ASSUME NEW now, NEW before, SameFacts(now, before), NEW h \in DOMAIN before.hypotheses
  PROVE  Selection!EvidenceOf(now, now.hypotheses[h]) =
             Selection!EvidenceOf(before, before.hypotheses[h])
<1>1. [g \in DOMAIN now.hypotheses |-> now.hypotheses[g].observations] =
          [g \in DOMAIN before.hypotheses |-> before.hypotheses[g].observations]
  BY DEF SameFacts, SameHypothesis
<1>2. SameHypothesis(now.hypotheses[h], before.hypotheses[h])
  BY DEF SameFacts
<1> QED
  BY <1>1, <1>2 DEF SameHypothesis, Selection!EvidenceOf

-----------------------------------------------------------------------------
(* The slice for a hypothesis.                                             *)

\* What the code looks up for a target that is a hypothesis.
LEMMA HypothesisObservations ==
  ASSUME NEW state, NEW target, target.kind = "hypothesis",
         Selection!Observations(state, target) # Raised
  PROVE  /\ target.value \in DOMAIN state.hypotheses
         /\ Selection!Observations(state, target) =
                Selection!First(Selection!EvidenceOf(state, state.hypotheses[target.value]),
                                MaxEvidence) \cap DOMAIN state.observations
BY DEF Selection!Observations, Selection!Among

\* What is looked up for a hypothesis the state has.
LEMMA ObservationsOfHypothesis ==
  ASSUME NEW state, NEW target, target.kind = "hypothesis",
         target.value \in DOMAIN state.hypotheses
  PROVE  Selection!Observations(state, target) =
             Selection!First(Selection!EvidenceOf(state, state.hypotheses[target.value]),
                             MaxEvidence) \cap DOMAIN state.observations
BY DEF Selection!Observations, Selection!Among

\* The parts of a slice for a hypothesis.
LEMMA HypothesisSlice ==
  ASSUME NEW state, NEW type, NEW target, NEW readable, target.kind = "hypothesis",
         Selection!Observations(state, target) # Raised
  PROVE  LET slice == Selection!Slice(state, type, target, readable)
             v == target.value
             related == Selection!Related(state, v)
         IN  /\ slice.observations = Selection!Observations(state, target)
             /\ slice.hypotheses = {v} \cup related \cup Selection!Sharing(state, v, related)
             /\ slice.contradictions =
                    {h \in slice.hypotheses \cap ToSet(state.hypotheses[v].contradicting) :
                        state.hypotheses[h].status = "supported"}
<1> DEFINE slice == Selection!Slice(state, type, target, readable)
<1>1. /\ slice.observations = Selection!Observations(state, target)
      /\ slice.hypotheses = Selection!Hypotheses(state, target)
      /\ slice.contradictions =
             Selection!ContradictionCandidates(state, target, slice.hypotheses)
  BY DEF Selection!Slice
<1> HIDE DEF slice
<1>2. Selection!Hypotheses(state, target) =
          {target.value} \cup Selection!Related(state, target.value)
              \cup Selection!Sharing(state, target.value, Selection!Related(state, target.value))
  BY DEF Selection!Hypotheses
<1>3. slice.contradictions =
          {h \in slice.hypotheses \cap ToSet(state.hypotheses[target.value].contradicting) :
              state.hypotheses[h].status = "supported"}
  BY <1>1, SameOperators DEF Selection!ContradictionCandidates
<1> QED
  BY <1>1, <1>2, <1>3 DEF slice

\* The hypotheses a hypothesis names, without itself.
NamedBy(state, v) ==
    (ToSet(state.hypotheses[v].supporting \o state.hypotheses[v].contradicting) \ {v})
        \cap DOMAIN state.hypotheses

\* The related hypotheses are those it names, unless there is no room for them.
LEMMA RelatedAreNamed ==
  ASSUME NEW state, DOMAIN state.hypotheses \in SUBSET Nat, NEW v \in DOMAIN state.hypotheses
  PROVE  LET related == Selection!Related(state, v)
             sharing == Selection!Sharing(state, v, related)
         IN  /\ IsFiniteSet(related) /\ Cardinality(related) \in Nat
             /\ Cardinality(related) <= MaxRelated
             /\ related \subseteq NamedBy(state, v)
             /\ related = NamedBy(state, v) \/ Cardinality(related) = MaxRelated
             /\ IsFiniteSet(sharing) /\ Cardinality(sharing) \in Nat
             /\ Cardinality(sharing) <= MaxRelated - Cardinality(related)
             /\ v \notin sharing
<1> DEFINE related == Selection!Related(state, v)
           sharing == Selection!Sharing(state, v, related)
           others == {h \in DOMAIN state.hypotheses \ (related \cup {v}) :
                         /\ Selection!IsActive(state.hypotheses[h])
                         /\ state.hypotheses[h].observations
                                \cap state.hypotheses[v].observations # {}}
<1>0. MaxRelated \in Nat
  BY ContractsAssumption
<1>1. related = Selection!First(NamedBy(state, v), MaxRelated)
  BY SameOperators DEF Selection!Related, NamedBy
<1>2. NamedBy(state, v) \in SUBSET Nat
  BY DEF NamedBy
<1>3. /\ IsFiniteSet(related) /\ Cardinality(related) \in Nat
      /\ Cardinality(related) <= MaxRelated
  BY <1>0, <1>1, <1>2, FirstAreFew
<1>4. related \subseteq NamedBy(state, v)
  BY <1>1, FirstByRank
<1>5. related = NamedBy(state, v) \/ Cardinality(related) = MaxRelated
  BY <1>0, <1>1, <1>2, <1>4, LeftOutOfFirst
<1> HIDE DEF related
<1>6. sharing = Selection!First(others, MaxRelated - Cardinality(related))
  BY SameOperators DEF Selection!Sharing
<1>7. others \in SUBSET Nat /\ v \notin others
  OBVIOUS
<1> HIDE DEF others, sharing
<1>8. MaxRelated - Cardinality(related) \in Nat
  BY <1>0, <1>3
<1>9. /\ IsFiniteSet(sharing) /\ Cardinality(sharing) \in Nat
      /\ Cardinality(sharing) <= MaxRelated - Cardinality(related)
  BY <1>6, <1>7, <1>8, FirstAreFew
<1>10. sharing \subseteq others
  BY <1>6, FirstByRank
<1>11. v \notin sharing
  BY <1>7, <1>10
<1> QED
  BY <1>3, <1>4, <1>5, <1>9, <1>11 DEF related, sharing

\* How a slice of the state is when it was built, and when decisions were taken since.
SliceInv ==
    Begun("slice") => /\ SameFacts(outcome.state, input.state)
                      /\ outcome.slice = SliceOf(outcome.state)

\* A hypothesis that was decided on says what it said.
LEMMA DecidingKeepsFacts ==
  ASSUME NEW i \in Inputs, i.subject = "slice", NEW state, SameFacts(state, i.state),
         NEW h \in DOMAIN state.hypotheses, NEW status,
         state.hypotheses[h].status # "supported"
  PROVE  SameFacts([state EXCEPT !.hypotheses[h].status = status], i.state)
<1> DEFINE next == [state EXCEPT !.hypotheses[h].status = status]
<1>1. SliceInput(i)
  BY ContractsAssumption
<1>2. {"observations", "hypotheses"} \subseteq DOMAIN state
  BY <1>1 DEF SliceInput, SameFacts
<1>3. /\ DOMAIN next = DOMAIN state
      /\ next.observations = state.observations
      /\ next.hypotheses = [state.hypotheses EXCEPT ![h].status = status]
  BY <1>2
<1>4. ASSUME NEW g \in DOMAIN i.state.hypotheses
      PROVE  SameHypothesis(next.hypotheses[g], i.state.hypotheses[g])
  <2>1. /\ SameHypothesis(state.hypotheses[g], i.state.hypotheses[g])
        /\ g \in DOMAIN state.hypotheses
    BY DEF SameFacts
  <2>2. {"status", "observations", "basis", "supporting", "contradicting"}
            \subseteq DOMAIN state.hypotheses[g]
    BY <1>1, <2>1 DEF SliceInput, SameHypothesis
  <2>3. CASE g # h
    BY <1>3, <2>1, <2>3
  <2>4. CASE g = h
    <3>1. next.hypotheses[g] = [state.hypotheses[g] EXCEPT !.status = status]
      BY <1>3, <2>1, <2>4
    <3> HIDE DEF next
    <3> QED
      BY <2>1, <2>2, <2>4, <3>1 DEF SameHypothesis
  <2> QED
    BY <2>3, <2>4
<1> HIDE DEF next
<1>5. SameFacts(next, i.state)
  BY <1>3, <1>4 DEF SameFacts
<1> QED
  BY <1>5 DEF next

\* What a function with finitely many arguments yields is finite.
LEMMA RangeIsFinite ==
  ASSUME NEW S, NEW f, f = [x \in S |-> f[x]], IsFiniteSet(S)
  PROVE  IsFiniteSet({f[x] : x \in S})
<1>1. f \in Surjection(S, {f[x] : x \in S})
  BY DEF Surjection
<1> QED
  BY <1>1, FS_Surjection

\* A slice is always that of the state now, and decisions leave the facts alone.
LEMMA SliceInvHolds == Spec => []SliceInv
<1>1. Init => SliceInv
  BY DEF Init, SliceInv, Begun
<1>2. SliceInv /\ BuildSlice => SliceInv'
  BY DEF SliceInv, BuildSlice, About, Begun, SameFacts, SameHypothesis, SliceOf
<1>3. ASSUME InputInv, SliceInv, NEW h, NEW status, DecideHypothesis(h, status),
             h \in DOMAIN outcome.state.hypotheses
      PROVE  SliceInv'
  <2> DEFINE state == [outcome.state EXCEPT !.hypotheses[h].status = status]
  <2>1. /\ input' = input /\ Begun("slice")
        /\ outcome' = [state |-> state, slice |-> SliceOf(state)]
        /\ outcome.state.hypotheses[h].status # "supported"
    BY <1>3 DEF DecideHypothesis, About, Begun, Rebuilt
  <2>2. SameFacts(state, input.state)
    BY <1>3, <2>1, DecidingKeepsFacts DEF SliceInv, InputInv, Begun
  <2> HIDE DEF state
  <2> QED
    BY <2>1, <2>2 DEF SliceInv, SliceOf
<1>4. ASSUME InputInv, SliceInv, NEW q, NEW status, DecideQuestion(q, status)
      PROVE  SliceInv'
  <2> DEFINE state == [outcome.state EXCEPT !.questions[q].status = status]
  <2>1. /\ input' = input /\ Begun("slice") /\ SameFacts(outcome.state, input.state)
        /\ outcome' = [state |-> state, slice |-> SliceOf(state)]
    BY <1>4 DEF DecideQuestion, About, Begun, Rebuilt, SliceInv
  <2>2. {"observations", "hypotheses", "questions"} \subseteq DOMAIN outcome.state
    BY <1>4, <2>1, ContractsAssumption DEF InputInv, Begun, SliceInput, SameFacts
  <2>3. /\ DOMAIN state = DOMAIN outcome.state
        /\ state.observations = outcome.state.observations
        /\ state.hypotheses = outcome.state.hypotheses
    BY <2>2
  <2> HIDE DEF state
  <2>4. SameFacts(state, input.state)
    BY <2>1, <2>3 DEF SameFacts
  <2> QED
    BY <2>1, <2>4 DEF SliceInv, SliceOf
<1>5. SliceInv /\ [Next]_vars /\ input.subject # "slice" => SliceInv'
  BY StepsAreAbout DEF SliceInv, Begun, vars, About
<1>6. [Next]_vars /\ input.subject = "slice" =>
          \/ UNCHANGED vars \/ BuildSlice
          \/ \E h \in DOMAIN outcome.state.hypotheses : \E status : DecideHypothesis(h, status)
          \/ \E q, status : DecideQuestion(q, status)
  BY StepsAreAbout DEF About
<1>7. SliceInv /\ UNCHANGED vars => SliceInv'
  BY DEF SliceInv, Begun, vars, SliceOf
<1>8. InputInv /\ SliceInv /\ [Next]_vars => SliceInv'
  BY <1>2, <1>3, <1>4, <1>5, <1>6, <1>7
<1> QED
  BY <1>1, <1>8, InputStays, PTL DEF Spec

(***************************************************************************)
(* Who verifies a hypothesis is told of what contradicts it and shown what *)
(* it rests on as far as the limits go, for any limits and any state, and  *)
(* what is decided in the meantime takes neither away.                     *)
(***************************************************************************)
THEOREM SlicesTellTheVerifier == Spec => []VerifiersSeeContradictions
<1>1. InputInv /\ SliceInv => VerifiersSeeContradictions
  <2> SUFFICES ASSUME InputInv, SliceInv, Begun("slice"), outcome.slice # Raised,
                      input.target.kind = "hypothesis"
               PROVE  VerifiersSeeContradictions
    BY DEF VerifiersSeeContradictions
  <2> DEFINE state == outcome.state
             before == input.state
             known == state.hypotheses
             v == input.target.value
             target == known[v]
             first == SliceOf(before)
             named == DOMAIN known \cap ToSet(target.supporting \o target.contradicting)
             rests == target.observations \cap DOMAIN state.observations
             evidence == target.observations \cup target.basis
                            \cup UNION {known[h].observations : h \in named}
             found == Selection!EvidenceOf(state, target)
             related == Selection!Related(state, v)
             sharing == Selection!Sharing(state, v, related)
  <2>1. /\ outcome.slice = SliceOf(state)
        /\ SameFacts(state, before)
        /\ SliceInput(input)
    BY ContractsAssumption DEF SliceInv, InputInv, Begun
  <2>2. Selection!Observations(state, input.target) # Raised
    BY <2>1 DEF SliceOf, Selection!Slice
  <2>3. /\ v \in DOMAIN known
        /\ outcome.slice.observations =
               Selection!First(found, MaxEvidence) \cap DOMAIN state.observations
        /\ outcome.slice.hypotheses = {v} \cup related \cup sharing
        /\ outcome.slice.contradictions =
               {h \in outcome.slice.hypotheses \cap ToSet(target.contradicting) :
                   known[h].status = "supported"}
    BY <2>1, <2>2, HypothesisObservations, HypothesisSlice DEF SliceOf
  <2>4. /\ DOMAIN known \in SUBSET Nat
        /\ target.supporting \in Seq(Nat) /\ target.contradicting \in Seq(Nat)
        /\ \A h \in DOMAIN known : /\ known[h].observations \in SUBSET Nat
                                   /\ IsFiniteSet(known[h].observations)
        /\ target.basis \in SUBSET Nat /\ IsFiniteSet(target.basis)
    BY <2>1, <2>3 DEF SliceInput, SameFacts, SameHypothesis
  <2>5. outcome.slice.hypotheses = {v} \cup related \cup sharing
    BY <2>3
  <2>6. /\ IsFiniteSet(related) /\ Cardinality(related) \in Nat
        /\ Cardinality(related) <= MaxRelated
        /\ related \subseteq NamedBy(state, v)
        /\ related = NamedBy(state, v) \/ Cardinality(related) = MaxRelated
        /\ IsFiniteSet(sharing) /\ Cardinality(sharing) \in Nat
        /\ Cardinality(sharing) <= MaxRelated - Cardinality(related)
        /\ v \notin sharing
    BY <2>3, <2>4, RelatedAreNamed
  <2> HIDE DEF state, before, known, v, target, first, named, rests, evidence, found, related,
               sharing
  <2>7. MaxRelated \in Nat /\ MaxEvidence \in Nat
    BY ContractsAssumption
  <2>8. /\ IsFiniteSet(outcome.slice.hypotheses)
        /\ Cardinality(outcome.slice.hypotheses) \in Nat
        /\ Cardinality(outcome.slice.hypotheses) <= MaxRelated + 1
        /\ Cardinality(related) = MaxRelated =>
               Cardinality(outcome.slice.hypotheses) = MaxRelated + 1
    <3>1. v \notin related
      BY <2>6 DEF NamedBy
    <3>2. /\ IsFiniteSet(related \cup {v})
          /\ Cardinality(related \cup {v}) = Cardinality(related) + 1
      BY <2>6, <3>1, FS_AddElement
    <3>3. /\ IsFiniteSet((related \cup {v}) \cup sharing)
          /\ Cardinality((related \cup {v}) \cup sharing) =
                 Cardinality(related \cup {v}) + Cardinality(sharing)
                     - Cardinality((related \cup {v}) \cap sharing)
      BY <2>6, <3>2, FS_Union
    <3>4. Cardinality((related \cup {v}) \cap sharing) \in Nat
      BY <2>6, <3>2, FS_Intersection, FS_CardinalityType
    <3>5. Cardinality((related \cup {v}) \cup sharing) \in Nat
      BY <3>3, FS_CardinalityType
    <3>6. Cardinality(related \cup {v}) <= Cardinality((related \cup {v}) \cup sharing)
      <4>1. related \cup {v} \in SUBSET ((related \cup {v}) \cup sharing)
        OBVIOUS
      <4> QED
        BY <3>3, <4>1, FS_Subset
    <3>7. outcome.slice.hypotheses = (related \cup {v}) \cup sharing
      BY <2>5
    <3> QED
      BY <2>6, <2>7, <3>2, <3>3, <3>4, <3>5, <3>6, <3>7
  <2>9. ToSet(target.supporting \o target.contradicting) =
            ToSet(target.supporting) \cup ToSet(target.contradicting)
    BY <2>4, ElementsJoined
  <2>10. ASSUME NEW h \in DOMAIN known \cap ToSet(target.contradicting)
         PROVE  h = v \/ h \in related \/ Cardinality(related) = MaxRelated
    BY <2>6, <2>9 DEF NamedBy, known, target
  <2>11. ASSUME NEW h \in DOMAIN known \cap ToSet(target.contradicting),
                known[h].status = "supported"
         PROVE  \/ h \in outcome.slice.contradictions
                \/ Cardinality(outcome.slice.hypotheses) = MaxRelated + 1
    BY <2>3, <2>8, <2>10, <2>11
  <2>12. found \in SUBSET Nat /\ IsFiniteSet(found) /\ rests \subseteq found
         /\ IsFiniteSet(evidence) /\ found \in SUBSET evidence
    <3>1. /\ target.observations \cup target.basis \subseteq found
          /\ found \in SUBSET evidence
      BY <2>4, EvidenceIsBounded DEF evidence, found, named, known
    <3>2. IsFiniteSet(ToSet(target.supporting \o target.contradicting))
      <4> DEFINE list == target.supporting \o target.contradicting
      <4>1. list \in Seq(Nat)
        BY <2>4, ConcatProperties
      <4>2. /\ list = [k \in 1..Len(list) |-> list[k]] /\ Len(list) \in Nat
            /\ DOMAIN list = 1..Len(list)
        BY <4>1, LenProperties
      <4> HIDE DEF list
      <4>3. IsFiniteSet(1..Len(list))
        BY <4>2, FS_Interval
      <4>4. IsFiniteSet({list[k] : k \in 1..Len(list)})
        BY <4>2, <4>3, RangeIsFinite
      <4> QED
        BY <4>2, <4>4 DEF ToSet, list
    <3>3. IsFiniteSet(named)
      BY <3>2, FS_Intersection DEF named
    <3>4. IsFiniteSet({known[h].observations : h \in named})
      <4> DEFINE f == [h \in named |-> known[h].observations]
      <4>1. IsFiniteSet({f[h] : h \in named})
        BY <3>3, RangeIsFinite
      <4>2. {f[h] : h \in named} = {known[h].observations : h \in named}
        OBVIOUS
      <4> QED
        BY <4>1, <4>2
    <3>5. \A T \in {known[h].observations : h \in named} : IsFiniteSet(T) /\ T \in SUBSET Nat
      BY <2>4 DEF named
    <3>6. IsFiniteSet(UNION {known[h].observations : h \in named})
      BY <3>4, <3>5, FS_UNION
    <3>7. /\ target.observations \in SUBSET Nat /\ IsFiniteSet(target.observations)
          /\ target.basis \in SUBSET Nat /\ IsFiniteSet(target.basis)
      BY <2>3, <2>4 DEF target
    <3>8. IsFiniteSet(evidence) /\ evidence \in SUBSET Nat
      BY <3>5, <3>6, <3>7, FS_Union DEF evidence
    <3>9. rests \subseteq found
      BY <3>1 DEF rests
    <3> QED
      BY <3>1, <3>8, <3>9, FS_Subset
  <2>13. /\ Cardinality(outcome.slice.observations) <= MaxEvidence
         /\ rests \subseteq outcome.slice.observations \/ Cardinality(evidence) > MaxEvidence
    <3> DEFINE shown == Selection!First(found, MaxEvidence)
    <3>1. /\ IsFiniteSet(shown) /\ Cardinality(shown) <= MaxEvidence
          /\ Cardinality(shown) \in Nat
      BY <2>7, <2>12, FirstAreFew
    <3>2. /\ Cardinality(shown \cap DOMAIN state.observations) <= Cardinality(shown)
          /\ Cardinality(shown \cap DOMAIN state.observations) \in Nat
      BY <3>1, FS_Intersection, FS_CardinalityType
    <3>3. Cardinality(outcome.slice.observations) <= MaxEvidence
      <4> HIDE DEF shown
      <4>1. outcome.slice.observations = shown \cap DOMAIN state.observations
        BY <2>3 DEF shown
      <4> QED
        BY <2>7, <3>1, <3>2, <4>1
    <3>4. Cardinality(evidence) \in Nat /\ Cardinality(found) \in Nat
      BY <2>12, FS_CardinalityType
    <3>5. Cardinality(found) <= Cardinality(evidence)
      BY <2>12, FS_Subset
    <3>6. Cardinality(found) <= MaxEvidence \/ Cardinality(evidence) > MaxEvidence
      BY <2>7, <3>4, <3>5
    <3>7. Cardinality(found) <= MaxEvidence => shown = found
      BY <2>7, <2>12, FirstOfFew
    <3> HIDE DEF shown
    <3>8. outcome.slice.observations = shown \cap DOMAIN state.observations
      BY <2>3 DEF shown
    <3>9. rests \subseteq found /\ rests \subseteq DOMAIN state.observations
      BY <2>12 DEF rests
    <3> QED
      BY <3>3, <3>6, <3>7, <3>8, <3>9
  <2>14. /\ v \in DOMAIN before.hypotheses
         /\ DOMAIN before.hypotheses = DOMAIN known
         /\ \A h \in DOMAIN known : SameHypothesis(known[h], before.hypotheses[h])
         /\ before.observations = state.observations
    BY <2>1, <2>3 DEF SameFacts, known
  <2>15. Selection!Observations(before, input.target) = outcome.slice.observations
    <3>1. Selection!EvidenceOf(before, before.hypotheses[v]) = found
      BY <2>1, <2>14, EvidenceStays DEF found, target, known
    <3> QED
      BY <2>3, <2>14, <3>1, ObservationsOfHypothesis DEF v
  <2>16. outcome.slice.observations = Selection!Observations(state, input.target)
    BY <2>1, <2>2, HypothesisSlice DEF SliceOf
  <2>17. first.observations = outcome.slice.observations
    BY <2>2, <2>15, <2>16, HypothesisSlice DEF SliceOf, first
  <2>18. first.contradictions \subseteq outcome.slice.contradictions
    <3> DEFINE relatedBefore == Selection!Related(before, v)
               sharingBefore == Selection!Sharing(before, v, relatedBefore)
    <3>1. /\ first.hypotheses = {v} \cup relatedBefore \cup sharingBefore
          /\ first.contradictions =
                 {h \in first.hypotheses \cap ToSet(before.hypotheses[v].contradicting) :
                     before.hypotheses[h].status = "supported"}
      BY <2>2, <2>15, <2>16, HypothesisSlice DEF SliceOf, first, v
    <3>2. SameHypothesis(target, before.hypotheses[v])
      BY <2>3, <2>14 DEF target
    <3>3. relatedBefore = related
      BY <2>14, <3>2 DEF Selection!Related, SameHypothesis, related, known, target
    <3>4. /\ IsFiniteSet(sharingBefore) /\ Cardinality(sharingBefore) \in Nat
          /\ Cardinality(sharingBefore) <= MaxRelated - Cardinality(relatedBefore)
      BY <2>4, <2>14, RelatedAreNamed
    <3>5. Cardinality(related) = MaxRelated => sharingBefore = {}
      <4>1. Cardinality(related) = MaxRelated => Cardinality(sharingBefore) = 0
        BY <2>7, <3>3, <3>4
      <4> QED
        BY <3>4, <4>1, FS_EmptySet
    <3>6. ASSUME NEW h \in first.contradictions
          PROVE  h \in outcome.slice.contradictions
      <4>1. /\ h \in {v} \cup related \cup sharingBefore
            /\ h \in ToSet(target.contradicting)
            /\ before.hypotheses[h].status = "supported"
        BY <3>1, <3>2, <3>3 DEF SameHypothesis
      <4>2. h \in DOMAIN known
        <5>1. sharingBefore \subseteq DOMAIN before.hypotheses
          BY FirstByRank DEF Selection!Sharing
        <5> HIDE DEF sharingBefore
        <5> QED
          BY <2>3, <2>6, <2>14, <4>1, <5>1 DEF NamedBy, known
      <4>3. h \in {v} \cup related
        BY <2>10, <3>5, <4>1, <4>2
      <4>4. known[h].status = "supported"
        BY <2>14, <4>1, <4>2 DEF SameHypothesis
      <4> QED
        BY <2>3, <4>1, <4>3, <4>4
    <3> QED
      BY <3>6
  <2>19. /\ Cardinality(outcome.slice.hypotheses) <= MaxRelated + 1
         /\ \A h \in DOMAIN known \cap ToSet(target.contradicting) :
                known[h].status = "supported" =>
                    \/ h \in outcome.slice.contradictions
                    \/ Cardinality(outcome.slice.hypotheses) = MaxRelated + 1
    BY <2>8, <2>11
  <2> QED
    BY <2>13, <2>17, <2>18, <2>19
       DEF VerifiersSeeContradictions, evidence, rests, named, target, known, state, before, first,
           v
<1> QED
  BY <1>1, InputStays, SliceInvHolds, PTL
-----------------------------------------------------------------------------
(* Candidates in the run ledger.                                           *)

Statuses == {"proposed", "routed_to_verify", "resolved_promoted", "rejected"}

\* The reference to the event that gives a candidate a status.
StatusEvent(c, s) == [id |-> <<c, s>>, type |-> Ledger!CandidateEvent(s), entity |-> c]

\* An entry of the worker run that accepted this event and no other.
Accepting(e, c, s) ==
    /\ e.entry = "worker_execution" /\ e.run \in Nat
    /\ e.task = "task" /\ e.status = "succeeded"
    /\ e.accepted = {StatusEvent(c, s)}

\* The places of these entries, and the statuses a candidate has had.
PlacesOf(entries, c, s) == {i \in 1..Len(entries) : Accepting(entries[i], c, s)}
Passed(entries, c) == {s \in Statuses : PlacesOf(entries, c, s) # {}}

\* Entries are numbered by their place, runs by their start.
KeptLedger(entries, candidates) ==
    /\ IsList(entries)
    /\ \A i \in 1..Len(entries) :
           /\ entries[i].sequence = i
           /\ \/ entries[i].entry = "run_started"
              \/ \E c \in candidates, s \in Statuses : Accepting(entries[i], c, s)
    /\ \E k \in Nat : {e.run : e \in Ledger!StartedIn(entries)} = 1..k

\* What a candidate of some status has passed through.
Walked(status, passed) ==
    /\ status \in Statuses \cup {"unknown"}
    /\ status = "unknown" => passed = {}
    /\ status = "proposed" => passed = {"proposed"}
    /\ status = "routed_to_verify" => passed = {"proposed", "routed_to_verify"}
    /\ status = "resolved_promoted" =>
           passed = {"proposed", "routed_to_verify", "resolved_promoted"}
    /\ status = "rejected" =>
           passed \in {{"proposed", "rejected"}, {"proposed", "routed_to_verify", "rejected"}}

\* The status of a candidate is the last one the ledger has of it.
LatestIs(entries, c, status) ==
    \E last \in PlacesOf(entries, c, status) :
        \A s \in Statuses : \A i \in PlacesOf(entries, c, s) : i <= last

Tells(entries, c, status) ==
    /\ Walked(status, Passed(entries, c))
    /\ status # "unknown" => LatestIs(entries, c, status)

LifecycleInv ==
    Begun("lifecycle") =>
        /\ KeptLedger(outcome.entries, input.candidates)
        /\ \A c \in input.candidates : Tells(outcome.entries, c, outcome.status[c])

\* The events of a candidate have different types.
LEMMA StatusesHaveEvents ==
  /\ \A s, x \in Statuses : Ledger!CandidateEvent(s) = Ledger!CandidateEvent(x) => s = x
  /\ \A s \in Statuses : Ledger!CandidateEvent(s) = "candidate.proposed" <=> s = "proposed"
BY DEF Statuses, Ledger!CandidateEvent

\* Sequence numbers and runs are numbers in a ledger that is well kept.
LEMMA LedgerHasNumbers ==
  ASSUME NEW candidates, NEW entries, KeptLedger(entries, candidates)
  PROVE  /\ Len(entries) \in Nat /\ DOMAIN entries = 1..Len(entries)
         /\ Ledger!NextSequence(entries) = Len(entries) + 1
         /\ \E k \in Nat : /\ {e.run : e \in Ledger!StartedIn(entries)} = 1..k
                           /\ Ledger!NextRun(entries) = k + 1
<1>1. Len(entries) \in Nat /\ DOMAIN entries = 1..Len(entries)
  BY LenProperties DEF KeptLedger, IsList
<1>2. ASSUME NEW k \in Nat, NEW numbers, numbers = 1..k
      PROVE  Ledger!Max({0} \cup numbers) = k
  <2> DEFINE all == {0} \cup numbers
  <2>1. k \in all /\ \A m \in all : m \in Nat /\ k >= m
    BY <1>2
  <2> HIDE DEF all
  <2>2. \A n \in all : (\A m \in all : n >= m) => n = k
    BY <2>1
  <2>3. Ledger!Max(all) = k
    BY <2>1, <2>2 DEF Ledger!Max
  <2> QED
    BY <2>3 DEF all
<1>3. {e.sequence : e \in Ledger!ToSet(entries)} = 1..Len(entries)
  <2>1. Ledger!ToSet(entries) = {entries[i] : i \in 1..Len(entries)}
    BY <1>1 DEF Ledger!ToSet
  <2>2. \A i \in 1..Len(entries) : entries[i].sequence = i
    BY DEF KeptLedger
  <2> QED
    BY <2>1, <2>2
<1>4. Ledger!NextSequence(entries) = Len(entries) + 1
  <2> DEFINE largest == Ledger!Max({0} \cup {e.sequence : e \in Ledger!ToSet(entries)})
  <2>1. Ledger!NextSequence(entries) = 1 + largest
    BY DEF Ledger!NextSequence
  <2>2. largest = Len(entries)
    BY <1>1, <1>2, <1>3
  <2> HIDE DEF largest
  <2> QED
    BY <1>1, <2>1, <2>2
<1>5. PICK k \in Nat : {e.run : e \in Ledger!StartedIn(entries)} = 1..k
  BY DEF KeptLedger
<1>6. Ledger!NextRun(entries) = k + 1
  <2> DEFINE largest == Ledger!Max({0} \cup {e.run : e \in Ledger!StartedIn(entries)})
  <2>1. Ledger!NextRun(entries) = 1 + largest
    BY DEF Ledger!NextRun
  <2>2. largest = k
    BY <1>2, <1>5
  <2> HIDE DEF largest
  <2> QED
    BY <2>1, <2>2
<1> QED
  BY <1>1, <1>4, <1>5, <1>6

\* A ledger after a run that accepts an event was started and recorded.
Recorded(entries, event, repeated) ==
    Ledger!RecordExecution(Ledger!StartRun(entries, "snapshot"), Ledger!NextRun(entries),
                           "task", "succeeded", "none", {event}, repeated)

\* A run is started and the event of a candidate is accepted in it.
LEMMA EventIsRecorded ==
  ASSUME NEW candidates, NEW entries, KeptLedger(entries, candidates),
         NEW c \in candidates, NEW s \in Statuses, NEW event, NEW repeated,
         event.id = <<c, s>>, event.type = Ledger!CandidateEvent(s), event.entity = c
  PROVE  LET next == Recorded(entries, event, repeated)
         IN  /\ KeptLedger(next, candidates)
             /\ Len(entries) \in Nat /\ Len(next) = Len(entries) + 2
             /\ PlacesOf(next, c, s) = PlacesOf(entries, c, s) \cup {Len(entries) + 2}
             /\ \A d \in candidates, x \in Statuses : d # c \/ x # s =>
                    PlacesOf(next, d, x) = PlacesOf(entries, d, x)
<1> DEFINE next == Recorded(entries, event, repeated)
           n == Len(entries)
           begun == Ledger!Started(n + 1, Ledger!NextRun(entries), "snapshot")
           longer == Append(entries, begun)
           entry == Ledger!Execution(n + 2, Ledger!NextRun(entries), "task", "succeeded",
                                     "none", {event}, repeated)
<1>1. /\ n \in Nat /\ DOMAIN entries = 1..n
      /\ Ledger!NextSequence(entries) = n + 1
  BY LedgerHasNumbers
<1>2. PICK k \in Nat : /\ {e.run : e \in Ledger!StartedIn(entries)} = 1..k
                       /\ Ledger!NextRun(entries) = k + 1
  BY LedgerHasNumbers
<1>3. /\ begun.entry = "run_started" /\ begun.sequence = n + 1 /\ begun.run = k + 1
  BY <1>2 DEF Ledger!Started
<1>4. longer = Ledger!StartRun(entries, "snapshot")
  BY <1>1 DEF Ledger!StartRun
<1> HIDE DEF begun
<1>5. /\ IsList(longer) /\ ToSet(longer) = ToSet(entries) \cup {begun}
      /\ Len(longer) = n + 1
      /\ \A i \in 1..n : longer[i] = entries[i]
      /\ longer[n + 1] = begun
  <2>1. IsList(entries)
    BY DEF KeptLedger
  <2> QED
    BY <1>1, <2>1, ListsGrow
<1> HIDE DEF longer
<1>6. {e.run : e \in Ledger!StartedIn(longer)} = 1..k + 1
  <2>1. Ledger!StartedIn(longer) = Ledger!StartedIn(entries) \cup {begun}
    BY <1>3, <1>5 DEF Ledger!StartedIn, Ledger!ToSet, ToSet
  <2>2. {e.run : e \in Ledger!StartedIn(longer)} = 1..k \cup {k + 1}
    BY <1>2, <1>3, <2>1
  <2> QED
    BY <2>2
<1>7. KeptLedger(longer, candidates)
  <2>1. \A i \in 1..n + 1 :
            /\ longer[i].sequence = i
            /\ \/ longer[i].entry = "run_started"
               \/ \E d \in candidates, x \in Statuses : Accepting(longer[i], d, x)
    BY <1>1, <1>3, <1>5 DEF KeptLedger
  <2> QED
    BY <1>5, <1>6, <2>1 DEF KeptLedger
<1>8. Ledger!NextSequence(longer) = n + 2
  BY <1>1, <1>5, <1>7, LedgerHasNumbers
<1>9. next = Append(longer, entry)
  BY <1>4, <1>8 DEF Recorded, Ledger!RecordExecution
<1> HIDE DEF next
<1>10. /\ entry.sequence = n + 2 /\ entry.entry = "worker_execution"
       /\ \A d, x : x \in Statuses /\ Accepting(entry, d, x) <=> d = c /\ x = s
  <2>1. /\ entry.sequence = n + 2 /\ entry.entry = "worker_execution"
        /\ entry.run \in Nat /\ entry.task = "task" /\ entry.status = "succeeded"
        /\ entry.accepted = {Ledger!Reference(event)}
    BY <1>2 DEF Ledger!Execution
  <2>2. Ledger!Reference(event) = StatusEvent(c, s)
    BY DEF Ledger!Reference, StatusEvent
  <2>3. \A d, x : StatusEvent(d, x) = StatusEvent(c, s) => d = c /\ x = s
    BY DEF StatusEvent
  <2> HIDE DEF entry
  <2> QED
    BY <2>1, <2>2, <2>3 DEF Accepting
<1> HIDE DEF entry
<1>11. /\ IsList(next) /\ ToSet(next) = ToSet(longer) \cup {entry}
       /\ Len(next) = n + 2
       /\ \A i \in 1..n + 1 : next[i] = longer[i]
       /\ next[n + 2] = entry
  <2>1. IsList(longer) /\ Len(longer) = n + 1 /\ (n + 1) + 1 = n + 2
    BY <1>1, <1>5
  <2> HIDE DEF n
  <2>2. /\ IsList(Append(longer, entry))
        /\ ToSet(Append(longer, entry)) = ToSet(longer) \cup {entry}
        /\ Len(Append(longer, entry)) = Len(longer) + 1
        /\ \A i \in 1..Len(longer) : Append(longer, entry)[i] = longer[i]
        /\ Append(longer, entry)[Len(longer) + 1] = entry
    BY <2>1, ListsGrow
  <2> QED
    BY <1>9, <2>1, <2>2
<1>12. KeptLedger(next, candidates)
  <2>1. \A i \in 1..n + 2 :
            /\ next[i].sequence = i
            /\ \/ next[i].entry = "run_started"
               \/ \E d \in candidates, x \in Statuses : Accepting(next[i], d, x)
    <3>1. \A i \in 1..n + 1 :
              /\ longer[i].sequence = i
              /\ \/ longer[i].entry = "run_started"
                 \/ \E d \in candidates, x \in Statuses : Accepting(longer[i], d, x)
      BY <1>5, <1>7 DEF KeptLedger
    <3>2. \A i \in 1..n + 2 : i \in 1..n + 1 \/ i = n + 2
      BY <1>1
    <3> QED
      BY <1>10, <1>11, <3>1, <3>2
  <2>2. Ledger!StartedIn(next) = Ledger!StartedIn(longer)
    BY <1>10, <1>11 DEF Ledger!StartedIn, Ledger!ToSet, ToSet
  <2>3. k + 1 \in Nat /\ {e.run : e \in Ledger!StartedIn(next)} = 1..k + 1
    BY <1>6, <2>2
  <2> HIDE DEF n
  <2>4. \E m \in Nat : {e.run : e \in Ledger!StartedIn(next)} = 1..m
    BY <2>3
  <2> QED
    BY <1>11, <2>1, <2>4 DEF KeptLedger
<1>13. ASSUME NEW d \in candidates, NEW x \in Statuses
       PROVE  PlacesOf(next, d, x) = PlacesOf(entries, d, x) \cup
                  (IF d = c /\ x = s THEN {n + 2} ELSE {})
  <2>1. \A i \in 1..n + 2 : Accepting(next[i], d, x) <=>
            \/ i \in 1..n /\ Accepting(entries[i], d, x)
            \/ i = n + 2 /\ d = c /\ x = s
    <3> HIDE DEF n
    <3>0. n + 1 \in 1..n + 1 /\ 1..n \subseteq 1..n + 1
      BY <1>1
    <3>1. \A i \in 1..n : next[i] = entries[i]
      BY <1>5, <1>11, <3>0
    <3>2. next[n + 1] = begun /\ ~Accepting(begun, d, x)
      BY <1>3, <1>5, <1>11, <3>0 DEF Accepting
    <3>3. \A i \in 1..n + 2 : i \in 1..n \/ i = n + 1 \/ i = n + 2
      BY <1>1
    <3>4. \A i \in 1..n : i # n + 2
      BY <1>1
    <3>5. n + 1 # n + 2 /\ n + 1 \notin 1..n
      BY <1>1
    <3> QED
      BY <1>10, <1>11, <3>1, <3>2, <3>3, <3>4, <3>5
  <2>2. 1..n \subseteq 1..n + 2 /\ n + 2 \in 1..n + 2
    BY <1>1
  <2>3. PlacesOf(entries, d, x) = {i \in 1..n : Accepting(entries[i], d, x)}
        /\ PlacesOf(next, d, x) = {i \in 1..n + 2 : Accepting(next[i], d, x)}
    BY <1>11 DEF PlacesOf
  <2> HIDE DEF n
  <2> QED
    BY <2>1, <2>2, <2>3
<1>14. /\ PlacesOf(next, c, s) = PlacesOf(entries, c, s) \cup {n + 2}
       /\ \A d \in candidates, x \in Statuses : d # c \/ x # s =>
              PlacesOf(next, d, x) = PlacesOf(entries, d, x)
  <2> HIDE DEF n
  <2>1. PlacesOf(next, c, s) = PlacesOf(entries, c, s) \cup {n + 2}
    BY <1>13
  <2>2. ASSUME NEW d \in candidates, NEW x \in Statuses, d # c \/ x # s
        PROVE  PlacesOf(next, d, x) = PlacesOf(entries, d, x)
    <3>1. PlacesOf(next, d, x) =
              PlacesOf(entries, d, x) \cup (IF d = c /\ x = s THEN {n + 2} ELSE {})
      BY <1>13
    <3>2. ~(d = c /\ x = s)
      BY <2>2
    <3> HIDE DEF next
    <3> QED
      BY <3>1, <3>2
  <2> QED
    BY <2>1, <2>2
<1> QED
  BY <1>1, <1>11, <1>12, <1>14 DEF next

\* What the ledger tells of each candidate after that.
LEMMA EventIsTold ==
  ASSUME NEW candidates, NEW entries, NEW next, NEW c \in candidates, NEW s \in Statuses,
         Len(entries) \in Nat,
         PlacesOf(next, c, s) = PlacesOf(entries, c, s) \cup {Len(entries) + 2},
         \A d \in candidates, x \in Statuses : d # c \/ x # s =>
             PlacesOf(next, d, x) = PlacesOf(entries, d, x),
         NEW status, \A d \in candidates : Tells(entries, d, status[d]),
         s \in Follows(status[c]), NEW d \in candidates
  PROVE  Tells(next, d, IF d = c THEN s ELSE status[d])
<1>1. CASE d # c
  <2>1. \A x \in Statuses : PlacesOf(next, d, x) = PlacesOf(entries, d, x)
    BY <1>1
  <2>2. Passed(next, d) = Passed(entries, d)
    BY <2>1 DEF Passed
  <2>3. status[d] # "unknown" => status[d] \in Statuses
    BY DEF Tells, Walked
  <2>4. status[d] # "unknown" => LatestIs(next, d, status[d])
    BY <2>1, <2>3 DEF Tells, LatestIs
  <2> QED
    BY <1>1, <2>2, <2>4 DEF Tells
<1>2. CASE d = c
  <2> DEFINE last == Len(entries) + 2
  <2>1. Passed(next, c) = Passed(entries, c) \cup {s}
    BY DEF Passed
  <2>2. Walked(s, Passed(next, c))
    <3>1. Walked(status[c], Passed(entries, c))
      BY DEF Tells
    <3> HIDE DEF Passed
    <3> QED
      BY <2>1, <3>1 DEF Walked, Follows, Statuses
  <2>3. LatestIs(next, c, s)
    <3>1. last \in PlacesOf(next, c, s)
      OBVIOUS
    <3>2. \A x \in Statuses : \A i \in PlacesOf(entries, c, x) : i <= last
      BY DEF PlacesOf
    <3>3. last <= last
      OBVIOUS
    <3> HIDE DEF last
    <3>4. \A x \in Statuses : \A i \in PlacesOf(next, c, x) :
              i \in PlacesOf(entries, c, x) \/ i = last
      BY DEF last
    <3> QED
      BY <3>1, <3>2, <3>3, <3>4 DEF LatestIs
  <2> QED
    BY <1>2, <2>2, <2>3 DEF Tells, Walked
<1> QED
  BY <1>1, <1>2

\* The ledger is well kept, and tells the status of each candidate.
LEMMA LifecycleInvHolds == Spec => []LifecycleInv
<1>1. Init => LifecycleInv
  BY DEF Init, LifecycleInv, Begun
<1>2. ASSUME LifecycleInv, NEW c \in input.candidates, NEW s \in Follows(StatusOf(c)),
             AcceptEvent(c, s)
      PROVE  LifecycleInv'
  <2> DEFINE event == [id |-> <<c, s>>, type |-> Ledger!CandidateEvent(s), entity |-> c]
             repeated == {[event EXCEPT !.entity = d, !.type = "candidate.proposed"] :
                              d \in input.repeated}
             next == Recorded(Entries, event, repeated)
             status == [d \in input.candidates |-> StatusOf(d)]
  <2>1. /\ input.subject = "lifecycle" /\ input' = input
        /\ outcome' = [entries |-> next,
                       status |-> [d \in input.candidates |->
                                      IF d = c THEN s ELSE StatusOf(d)]]
    BY <1>2 DEF AcceptEvent, About, Recorded
  <2>2. s \in Statuses
    BY DEF Follows, Statuses
  <2>3. /\ KeptLedger(Entries, input.candidates)
        /\ \A d \in input.candidates : Tells(Entries, d, StatusOf(d))
    <3>1. CASE outcome = Pending
      <4>1. Entries = <<>> /\ \A d \in input.candidates : StatusOf(d) = "unknown"
        BY <3>1 DEF Entries, StatusOf
      <4>2. Len(<<>>) = 0 /\ 1..0 = {}
        OBVIOUS
      <4>3. Ledger!ToSet(<<>>) = {}
        BY <4>2 DEF Ledger!ToSet
      <4>4. Ledger!StartedIn(<<>>) = {}
        BY <4>3 DEF Ledger!StartedIn
      <4>5. 0 \in Nat /\ {e.run : e \in Ledger!StartedIn(<<>>)} = 1..0
        BY <4>2, <4>4
      <4>6. KeptLedger(<<>>, input.candidates)
        BY <4>2, <4>5, EmptyList DEF KeptLedger
      <4>7. \A d \in input.candidates : Tells(<<>>, d, "unknown")
        BY <4>2 DEF Tells, Walked, Passed, PlacesOf
      <4> QED
        BY <4>1, <4>6, <4>7
    <3>2. CASE outcome # Pending
      BY <1>2, <2>1, <3>2 DEF LifecycleInv, Begun, Entries, StatusOf
    <3> QED
      BY <3>1, <3>2
  <2>4. /\ event.id = <<c, s>> /\ event.type = Ledger!CandidateEvent(s) /\ event.entity = c
    OBVIOUS
  <2>5. /\ KeptLedger(next, input.candidates)
        /\ Len(Entries) \in Nat
        /\ PlacesOf(next, c, s) = PlacesOf(Entries, c, s) \cup {Len(Entries) + 2}
        /\ \A d \in input.candidates, x \in Statuses : d # c \/ x # s =>
               PlacesOf(next, d, x) = PlacesOf(Entries, d, x)
    <3> HIDE DEF event, repeated
    <3>1. KeptLedger(Entries, input.candidates)
      BY <2>3
    <3> QED
      BY <2>2, <2>4, <3>1, EventIsRecorded
  <2> HIDE DEF event, repeated, next
  <2>6. \A d \in input.candidates : status[d] = StatusOf(d)
    OBVIOUS
  <2>7. /\ \A d \in input.candidates : Tells(Entries, d, status[d])
        /\ s \in Follows(status[c])
    BY <2>3, <2>6
  <2> HIDE DEF status
  <2>8. \A d \in input.candidates : Tells(next, d, IF d = c THEN s ELSE status[d])
    BY <2>2, <2>5, <2>7, EventIsTold
  <2>9. /\ outcome'.entries = next
        /\ \A d \in input.candidates : outcome'.status[d] = IF d = c THEN s ELSE status[d]
    BY <2>1, <2>6
  <2>10. /\ KeptLedger(outcome'.entries, input.candidates)
         /\ \A d \in input.candidates : Tells(outcome'.entries, d, outcome'.status[d])
    BY <2>5, <2>8, <2>9
  <2> QED
    BY <2>1, <2>10 DEF LifecycleInv
<1>3. ASSUME LifecycleInv, Next, ~About("lifecycle") PROVE LifecycleInv'
  <2>1. input'.subject # "lifecycle"
    BY <1>3, StepsAreAbout DEF About
  <2> QED
    BY <2>1 DEF LifecycleInv, Begun
<1>4. ASSUME LifecycleInv, Next, About("lifecycle") PROVE LifecycleInv'
  <2>1. \E c \in input.candidates : \E s \in Follows(StatusOf(c)) : AcceptEvent(c, s)
    BY <1>4, StepsAreAbout DEF About
  <2> QED
    BY <1>2, <1>4, <2>1
<1>5. LifecycleInv /\ UNCHANGED vars => LifecycleInv'
  BY DEF LifecycleInv, vars, Begun
<1> QED
  BY <1>1, <1>3, <1>4, <1>5, PTL DEF Spec

\* Of some traces with numbers up to n one is the latest.
LEMMA OneIsLatest ==
  ASSUME NEW traces, traces # {}, NEW n \in Nat, \A t \in traces : t.sequence \in 1..n
  PROVE  Ledger!LatestOf(traces) \in traces
<1> DEFINE left == {n - t.sequence : t \in traces}
<1>1. \A t \in traces : n - t.sequence \in Nat
  OBVIOUS
<1>2. left \in SUBSET Nat /\ left # {}
  BY <1>1
<1>3. PICK least \in left : \A m \in left : least <= m
  BY <1>2, Evidence!LeastNumber
<1>4. PICK t \in traces : least = n - t.sequence
  BY <1>3
<1>5. \A u \in traces : u.sequence <= t.sequence
  <2> TAKE u \in traces
  <2>1. n - u.sequence \in left
    OBVIOUS
  <2>2. n - t.sequence <= n - u.sequence
    BY <1>3, <1>4, <2>1
  <2> QED
    BY <2>2
<1> HIDE DEF left
<1> QED
  BY <1>4, <1>5 DEF Ledger!LatestOf

\* The accepted events of a candidate, as traces.
StatusTrace(entries, c, s, i) == Ledger!Trace(entries[i], StatusEvent(c, s), "accepted")

LEMMA TracesOfCandidate ==
  ASSUME NEW candidates, NEW entries, KeptLedger(entries, candidates), NEW c \in candidates,
         NEW t
  PROVE  t \in Ledger!AcceptedTraces(entries) /\ t.event.entity = c <=>
             \E s \in Statuses : \E i \in PlacesOf(entries, c, s) :
                 t = StatusTrace(entries, c, s, i)
<1>1. DOMAIN entries = 1..Len(entries)
  BY LedgerHasNumbers
<1>2. ASSUME t \in Ledger!AcceptedTraces(entries), t.event.entity = c
      PROVE  \E s \in Statuses : \E i \in PlacesOf(entries, c, s) :
                 t = StatusTrace(entries, c, s, i)
  <2>1. PICK e \in Ledger!ExecutionsIn(entries) :
            \E r \in e.accepted : t = Ledger!Trace(e, r, "accepted")
    BY <1>2 DEF Ledger!AcceptedTraces
  <2>2. PICK r \in e.accepted : t = Ledger!Trace(e, r, "accepted")
    BY <2>1
  <2>3. PICK i \in 1..Len(entries) : e = entries[i]
    BY <1>1 DEF Ledger!ExecutionsIn, Ledger!ToSet
  <2>4. e.entry = "worker_execution" /\ t.event = r
    BY <2>2 DEF Ledger!ExecutionsIn, Ledger!Trace
  <2>5. PICK d \in candidates, s \in Statuses : Accepting(e, d, s)
    BY <2>3, <2>4 DEF KeptLedger
  <2>6. r = StatusEvent(d, s)
    BY <2>5 DEF Accepting
  <2>7. d = c
    BY <1>2, <2>4, <2>6 DEF StatusEvent
  <2>8. i \in PlacesOf(entries, c, s)
    BY <2>3, <2>5, <2>7 DEF PlacesOf
  <2> QED
    BY <2>2, <2>3, <2>6, <2>7, <2>8 DEF StatusTrace
<1>3. ASSUME NEW s \in Statuses, NEW i \in PlacesOf(entries, c, s),
             t = StatusTrace(entries, c, s, i)
      PROVE  t \in Ledger!AcceptedTraces(entries) /\ t.event.entity = c
  <2>1. i \in 1..Len(entries) /\ Accepting(entries[i], c, s)
    BY DEF PlacesOf
  <2>2. /\ entries[i] \in Ledger!ExecutionsIn(entries)
        /\ StatusEvent(c, s) \in entries[i].accepted
    BY <1>1, <2>1 DEF Ledger!ExecutionsIn, Ledger!ToSet, Accepting
  <2>3. t \in Ledger!AcceptedTraces(entries)
    BY <1>3, <2>2 DEF Ledger!AcceptedTraces, StatusTrace
  <2>4. t.event = StatusEvent(c, s)
    BY <1>3 DEF StatusTrace, Ledger!Trace
  <2> QED
    BY <2>3, <2>4 DEF StatusEvent
<1> QED
  BY <1>2, <1>3

\* What such a trace holds.
LEMMA StatusTraceHolds ==
  ASSUME NEW candidates, NEW entries, KeptLedger(entries, candidates), NEW c \in candidates,
         NEW s \in Statuses, NEW i \in PlacesOf(entries, c, s)
  PROVE  LET t == StatusTrace(entries, c, s, i)
         IN  /\ t.sequence = i /\ i \in 1..Len(entries)
             /\ t.event = StatusEvent(c, s)
             /\ t.event.type = Ledger!CandidateEvent(s) /\ t.event.id = <<c, s>>
             /\ t.outcome = "accepted"
             /\ t = [sequence |-> i, run |-> entries[i].run, task |-> "task",
                     status |-> "succeeded", outcome |-> "accepted",
                     event |-> StatusEvent(c, s)]
             /\ entries[i].run \in Nat
<1>1. /\ i \in 1..Len(entries) /\ entries[i].sequence = i
      /\ entries[i].task = "task" /\ entries[i].status = "succeeded" /\ entries[i].run \in Nat
  BY DEF PlacesOf, Accepting, KeptLedger
<1>2. StatusTrace(entries, c, s, i) =
          [sequence |-> i, run |-> entries[i].run, task |-> "task",
           status |-> "succeeded", outcome |-> "accepted", event |-> StatusEvent(c, s)]
  BY <1>1 DEF StatusTrace, Ledger!Trace
<1>3. /\ StatusEvent(c, s).type = Ledger!CandidateEvent(s)
      /\ StatusEvent(c, s).id = <<c, s>>
  BY DEF StatusEvent
<1> QED
  BY <1>1, <1>2, <1>3

\* The least of some numbers.
LEMMA LeastIs ==
  ASSUME NEW numbers \in SUBSET Int, NEW n \in numbers, \A m \in numbers : n <= m
  PROVE  Ledger!Min(numbers) = n
<1>1. \A k \in numbers : (\A m \in numbers : k <= m) => k = n
  OBVIOUS
<1> QED
  BY <1>1 DEF Ledger!Min

\* The largest of some numbers.
LEMMA LargestIs ==
  ASSUME NEW numbers \in SUBSET Int, NEW n \in numbers, \A m \in numbers : m <= n
  PROVE  Ledger!Max(numbers) = n
<1>1. \A k \in numbers : (\A m \in numbers : k >= m) => k = n
  OBVIOUS
<1>2. \A m \in numbers : n >= m
  OBVIOUS
<1> QED
  BY <1>1, <1>2 DEF Ledger!Max

\* How far an event of some type is from the one type that is preferred.
RankOf(type, preferred) ==
    Ledger!Min({i \in DOMAIN <<preferred>> : <<preferred>>[i] = type}
                   \cup {Len(<<preferred>>) + 1})

LEMMA RanksOfTypes ==
  ASSUME NEW type, NEW preferred
  PROVE  RankOf(type, preferred) = IF type = preferred THEN 1 ELSE 2
<1> DEFINE places == {i \in DOMAIN <<preferred>> : <<preferred>>[i] = type}
                         \cup {Len(<<preferred>>) + 1}
<1>1. places = IF type = preferred THEN {1, 2} ELSE {2}
  OBVIOUS
<1> HIDE DEF places
<1>2. Ledger!Min(places) = IF type = preferred THEN 1 ELSE 2
  BY <1>1, LeastIs
<1> QED
  BY <1>2 DEF RankOf, places

\* The ledger has a trace of an outcome if the candidate has had that status.
LEMMA ReachedIsPassed ==
  ASSUME NEW i, LifecycleInput(i),
         NEW entries, KeptLedger(entries, i.candidates), NEW c \in i.candidates,
         NEW o \in Statuses
  PROVE  Ledger!Reached(entries, c, o) <=> PlacesOf(entries, c, o) # {}
<1> DEFINE type == Ledger!CandidateEvent(o)
           about == {t \in Ledger!AcceptedTraces(entries) : t.event.entity = c}
           best == {t \in about : \A u \in about :
                        RankOf(t.event.type, type) <= RankOf(u.event.type, type)}
           trace == Ledger!EntityTrace(entries, c, <<type>>)
<1>1. trace = Ledger!LatestOf(best)
  BY DEF Ledger!EntityTrace, RankOf
<1>2. Ledger!Reached(entries, c, o) <=> trace # NoTrace /\ trace.event.type = type
  BY DEF Ledger!Reached
<1>3. \A t : t \in about <=> \E s \in Statuses : \E k \in PlacesOf(entries, c, s) :
                                 t = StatusTrace(entries, c, s, k)
  BY TracesOfCandidate
<1> HIDE DEF about
<1>4. \A t \in best : t \in about
  OBVIOUS
<1>5. \A t \in about : /\ t.sequence \in 1..Len(entries)
                       /\ t # NoTrace
                       /\ t.event.type = type => PlacesOf(entries, c, o) # {}
  <2> TAKE t \in about
  <2>1. PICK s \in Statuses : \E k \in PlacesOf(entries, c, s) : t = StatusTrace(entries, c, s, k)
    BY <1>3
  <2>2. PICK k \in PlacesOf(entries, c, s) : t = StatusTrace(entries, c, s, k)
    BY <2>1
  <2>3. /\ k \in 1..Len(entries) /\ t.sequence = k
        /\ t.event.type = Ledger!CandidateEvent(s)
        /\ t = [sequence |-> k, run |-> entries[k].run, task |-> "task",
                status |-> "succeeded", outcome |-> "accepted", event |-> StatusEvent(c, s)]
        /\ entries[k].run \in Nat
    BY <2>2, StatusTraceHolds
  <2>4. t # NoTrace
    <3>1. Len(entries) \in Nat
      BY LedgerHasNumbers
    <3>2. k \in Nat
      BY <2>3, <3>1
    <3>3. s \in ToSet(Ledger!CandidateOutcomes)
      BY DEF Statuses, Ledger!CandidateOutcomes, ToSet
    <3>4. StatusEvent(c, s) \in
              [id: i.candidates \X ToSet(Ledger!CandidateOutcomes), entity: i.candidates,
               type: {Ledger!CandidateEvent(x) : x \in ToSet(Ledger!CandidateOutcomes)}]
      BY <3>3 DEF StatusEvent
    <3> QED
      BY <2>3, <3>2, <3>4 DEF LifecycleInput
  <2>5. t.event.type = type => s = o
    BY <2>3, StatusesHaveEvents
  <2> QED
    BY <2>1, <2>3, <2>4, <2>5
<1>6. best # {} => trace \in best
  <2>1. Len(entries) \in Nat
    BY LedgerHasNumbers
  <2> HIDE DEF best, trace
  <2> QED
    BY <1>1, <1>4, <1>5, <2>1, OneIsLatest
<1>7. best = {} => trace = NoTrace
  BY <1>1 DEF Ledger!LatestOf
<1>8. ASSUME Ledger!Reached(entries, c, o) PROVE PlacesOf(entries, c, o) # {}
  <2> HIDE DEF best, trace, type
  <2> QED
    BY <1>2, <1>4, <1>5, <1>6, <1>7, <1>8
<1>9. ASSUME PlacesOf(entries, c, o) # {} PROVE Ledger!Reached(entries, c, o)
  <2>1. PICK k \in PlacesOf(entries, c, o) : TRUE
    BY <1>9
  <2> DEFINE own == StatusTrace(entries, c, o, k)
  <2>2. own \in about
    BY <1>3, <2>1
  <2>3. own.event.type = type
    BY <2>1, StatusTraceHolds
  <2> HIDE DEF own, trace, type
  <2>4. own \in best
    BY <2>2, <2>3, RanksOfTypes
  <2>5. trace \in best
    BY <1>6, <2>4
  <2>6. RankOf(trace.event.type, type) <= RankOf(own.event.type, type)
    BY <2>2, <2>5
  <2>7. trace.event.type = type
    BY <2>3, <2>6, RanksOfTypes
  <2> HIDE DEF best
  <2> QED
    BY <1>2, <1>4, <1>5, <2>5, <2>7
<1> QED
  BY <1>8, <1>9

\* The search for an outcome ends at the status.
LEMMA OutcomeIsStatus ==
  ASSUME NEW i, LifecycleInput(i),
         NEW entries, KeptLedger(entries, i.candidates), NEW c \in i.candidates,
         NEW status \in Statuses, Tells(entries, c, status)
  PROVE  Ledger!OutcomeOf(entries, c) = status
<1> DEFINE found == Ledger!PlacesReached(entries, c)
<1>1. \A o \in Statuses : Ledger!Reached(entries, c, o) <=> o \in Passed(entries, c)
  BY ReachedIsPassed DEF Passed
<1>2. /\ DOMAIN Ledger!CandidateOutcomes = 1..4
      /\ Ledger!CandidateOutcomes[1] = "resolved_promoted"
      /\ Ledger!CandidateOutcomes[2] = "rejected"
      /\ Ledger!CandidateOutcomes[3] = "routed_to_verify"
      /\ Ledger!CandidateOutcomes[4] = "proposed"
  BY DEF Ledger!CandidateOutcomes
<1>3. found = {n \in 1..4 : Ledger!CandidateOutcomes[n] \in Passed(entries, c)}
  <2>1. \A n \in 1..4 : Ledger!CandidateOutcomes[n] \in Statuses
    BY <1>2 DEF Statuses
  <2> QED
    BY <1>1, <1>2, <2>1 DEF Ledger!PlacesReached
<1>4. /\ 1 \in found <=> "resolved_promoted" \in Passed(entries, c)
      /\ 2 \in found <=> "rejected" \in Passed(entries, c)
      /\ 3 \in found <=> "routed_to_verify" \in Passed(entries, c)
      /\ 4 \in found <=> "proposed" \in Passed(entries, c)
      /\ found \subseteq 1..4
  BY <1>2, <1>3
<1> HIDE DEF found
<1>5. Walked(status, Passed(entries, c))
  BY DEF Tells
<1>6. /\ status = "resolved_promoted" => 1 \in found /\ Ledger!Min(found) = 1
      /\ status = "rejected" => 2 \in found /\ Ledger!Min(found) = 2
      /\ status = "routed_to_verify" => 3 \in found /\ Ledger!Min(found) = 3
      /\ status = "proposed" => 4 \in found /\ Ledger!Min(found) = 4
  <2>1. CASE status = "resolved_promoted"
    BY <1>4, <1>5, <2>1, LeastIs DEF Walked
  <2>2. CASE status = "rejected"
    <3>1. 2 \in found /\ 1 \notin found
      BY <1>4, <1>5, <2>2 DEF Walked
    <3> QED
      BY <1>4, <2>2, <3>1, LeastIs
  <2>3. CASE status = "routed_to_verify"
    <3>1. 3 \in found /\ 1 \notin found /\ 2 \notin found
      BY <1>4, <1>5, <2>3 DEF Walked
    <3> QED
      BY <1>4, <2>3, <3>1, LeastIs
  <2>4. CASE status = "proposed"
    <3>1. 4 \in found /\ 1 \notin found /\ 2 \notin found /\ 3 \notin found
      BY <1>4, <1>5, <2>4 DEF Walked
    <3> QED
      BY <1>4, <2>4, <3>1, LeastIs
  <2> QED
    BY <2>1, <2>2, <2>3, <2>4 DEF Statuses
<1>7. found # {} => Ledger!OutcomeOf(entries, c) = Ledger!CandidateOutcomes[Ledger!Min(found)]
  BY DEF Ledger!OutcomeOf, found
<1> QED
  BY <1>2, <1>6, <1>7 DEF Statuses

\* The list of candidates by outcome has the candidate at its status.
LEMMA ListedIsStatus ==
  ASSUME NEW candidates, NEW entries, KeptLedger(entries, candidates), NEW c \in candidates,
         NEW status \in Statuses, Tells(entries, c, status)
  PROVE  Ledger!ListedOutcome(entries, c) = status
<1> DEFINE typesAt(k) == {r.type : r \in {r \in entries[k].accepted : r.entity = c}}
           steps == {k \in DOMAIN entries :
                         entries[k].entry = "worker_execution" /\ typesAt(k) # {}}
           later == {k \in steps : typesAt(k) # {"candidate.proposed"}}
<1>1. Len(entries) \in Nat /\ DOMAIN entries = 1..Len(entries)
  BY LedgerHasNumbers
<1>2. ASSUME NEW s \in Statuses, NEW k \in PlacesOf(entries, c, s)
      PROVE  k \in steps /\ typesAt(k) = {Ledger!CandidateEvent(s)}
  <2>1. /\ k \in DOMAIN entries /\ entries[k].entry = "worker_execution"
        /\ entries[k].accepted = {StatusEvent(c, s)}
    BY <1>1 DEF PlacesOf, Accepting
  <2>2. /\ StatusEvent(c, s).entity = c
        /\ StatusEvent(c, s).type = Ledger!CandidateEvent(s)
    BY DEF StatusEvent
  <2> QED
    BY <2>1, <2>2
<1>3. ASSUME NEW k \in steps
      PROVE  \E s \in Statuses : k \in PlacesOf(entries, c, s)
  <2>1. /\ k \in 1..Len(entries) /\ entries[k].entry = "worker_execution"
        /\ \E r \in entries[k].accepted : r.entity = c
    BY <1>1
  <2>2. PICK d \in candidates, s \in Statuses : Accepting(entries[k], d, s)
    BY <2>1 DEF KeptLedger
  <2>3. d = c
    BY <2>1, <2>2 DEF Accepting, StatusEvent
  <2> QED
    BY <2>1, <2>2, <2>3 DEF PlacesOf
<1>4. Ledger!ListedOutcome(entries, c) =
          CASE ~\E k \in steps : "candidate.proposed" \in typesAt(k) -> "unlisted"
            [] later = {} -> "proposed"
            [] OTHER -> CHOOSE o \in Ledger!ToSet(Ledger!CandidateOutcomes) :
                            Ledger!CandidateEvent(o) \in typesAt(Ledger!Max(later))
  BY DEF Ledger!ListedOutcome
<1>5. \A k \in steps : k \in Nat
  BY <1>1
<1>6. \A k : k \in later <=> k \in steps /\ typesAt(k) # {"candidate.proposed"}
  OBVIOUS
<1> HIDE DEF typesAt, steps, later
<1>7. Walked(status, Passed(entries, c)) /\ LatestIs(entries, c, status)
  BY DEF Tells, Statuses
<1>8. \E k \in steps : "candidate.proposed" \in typesAt(k)
  <2>1. "proposed" \in Passed(entries, c) /\ "proposed" \in Statuses
    BY <1>7 DEF Walked, Statuses
  <2>2. PICK k : k \in PlacesOf(entries, c, "proposed")
    BY <2>1 DEF Passed
  <2>3. Ledger!CandidateEvent("proposed") = "candidate.proposed"
    BY <2>1, StatusesHaveEvents
  <2> QED
    BY <1>2, <2>1, <2>2, <2>3
<1>9. PICK last \in PlacesOf(entries, c, status) :
          \A s \in Statuses : \A k \in PlacesOf(entries, c, s) : k <= last
  BY <1>7 DEF LatestIs
<1>10. CASE status = "proposed"
  <2>1. later = {}
    <3> SUFFICES ASSUME NEW k \in later PROVE FALSE
      OBVIOUS
    <3>1. PICK s \in Statuses : k \in PlacesOf(entries, c, s)
      BY <1>3, <1>6
    <3>2. s = "proposed"
      BY <1>7, <1>10, <3>1 DEF Walked, Passed
    <3> QED
      BY <1>2, <1>6, <3>1, <3>2, StatusesHaveEvents
  <2> QED
    BY <1>4, <1>8, <1>10, <2>1
<1>11. CASE status # "proposed"
  <2>1. last \in steps /\ typesAt(last) = {Ledger!CandidateEvent(status)}
    BY <1>2, <1>9
  <2>2. last \in later
    BY <1>6, <1>11, <2>1, StatusesHaveEvents
  <2>3. \A k \in later : k <= last
    BY <1>3, <1>6, <1>9
  <2>4. later \in SUBSET Int
    BY <1>5, <1>6
  <2>5. Ledger!Max(later) = last
    BY <2>2, <2>3, <2>4, LargestIs
  <2>6. status \in Ledger!ToSet(Ledger!CandidateOutcomes)
        /\ Ledger!ToSet(Ledger!CandidateOutcomes) = Statuses
    <3>1. /\ DOMAIN Ledger!CandidateOutcomes = 1..4
          /\ Ledger!CandidateOutcomes[1] = "resolved_promoted"
          /\ Ledger!CandidateOutcomes[2] = "rejected"
          /\ Ledger!CandidateOutcomes[3] = "routed_to_verify"
          /\ Ledger!CandidateOutcomes[4] = "proposed"
      BY DEF Ledger!CandidateOutcomes
    <3>2. 1..4 = {1, 2, 3, 4}
      OBVIOUS
    <3> QED
      BY <3>1, <3>2 DEF Statuses, Ledger!ToSet
  <2>7. \A o \in Statuses : Ledger!CandidateEvent(o) \in typesAt(last) <=> o = status
    BY <2>1, StatusesHaveEvents
  <2>8. (CHOOSE o \in Ledger!ToSet(Ledger!CandidateOutcomes) :
             Ledger!CandidateEvent(o) \in typesAt(Ledger!Max(later))) = status
    BY <2>5, <2>6, <2>7
  <2> QED
    BY <1>4, <1>8, <2>2, <2>8
<1> QED
  BY <1>10, <1>11

(***************************************************************************)
(* Whatever the candidates, in whatever order their events are accepted    *)
(* and whatever is refused with them, the two ways the run ledger tells    *)
(* the outcome of a candidate agree with each other and with what was      *)
(* accepted (run_ledger.py).                                               *)
(***************************************************************************)
THEOREM LedgerViewsAgree == Spec => []TwoViewsAgree
<1>1. InputInv /\ LifecycleInv => TwoViewsAgree
  <2> SUFFICES ASSUME InputInv, LifecycleInv, Begun("lifecycle"),
                      NEW c \in input.candidates, StatusOf(c) # "unknown"
               PROVE  /\ Ledger!OutcomeOf(outcome.entries, c) = StatusOf(c)
                      /\ Ledger!ListedOutcome(outcome.entries, c) = StatusOf(c)
                      /\ \E t \in Ledger!ForensicTrace(outcome.entries, c) :
                             t.outcome = "accepted" /\ t.event.id = <<c, StatusOf(c)>>
    BY DEF TwoViewsAgree
  <2> DEFINE entries == outcome.entries
             status == StatusOf(c)
  <2>1. /\ KeptLedger(entries, input.candidates) /\ Tells(entries, c, status)
        /\ LifecycleInput(input)
    BY ContractsAssumption DEF LifecycleInv, InputInv, Begun, StatusOf
  <2>2. status \in Statuses
    BY <2>1 DEF Tells, Walked
  <2> HIDE DEF entries, status
  <2>3. Ledger!OutcomeOf(entries, c) = status
    BY <2>1, <2>2, OutcomeIsStatus
  <2>4. Ledger!ListedOutcome(entries, c) = status
    BY <2>1, <2>2, ListedIsStatus
  <2>5. \E t \in Ledger!ForensicTrace(entries, c) :
            t.outcome = "accepted" /\ t.event.id = <<c, status>>
    <3>0. status # "unknown"
      BY DEF status
    <3>1. PICK k \in PlacesOf(entries, c, status) : TRUE
      BY <2>1, <3>0 DEF Tells, LatestIs
    <3> DEFINE t == StatusTrace(entries, c, status, k)
    <3>2. t \in Ledger!AcceptedTraces(entries) /\ t.event.entity = c
      BY <2>1, <2>2, <3>1, TracesOfCandidate
    <3>3. t.outcome = "accepted" /\ t.event.id = <<c, status>>
      BY <2>1, <2>2, <3>1, StatusTraceHolds
    <3> HIDE DEF t
    <3> QED
      BY <3>2, <3>3 DEF Ledger!ForensicTrace
  <2> QED
    BY <2>3, <2>4, <2>5 DEF entries, status
<1> QED
  BY <1>1, InputStays, LifecycleInvHolds, PTL

-----------------------------------------------------------------------------
(* What becomes of an answer, as the diagnostics tell it.                  *)

FunnelInv ==
    Begun("funnel") =>
        /\ outcome.diagnostics = Diagnosed(input.answer)
        /\ outcome.bundled = Account!WritesBundle(OutcomesOf(input.answer))
        /\ outcome.aggregate = Account!Aggregated(<<Diagnosed(input.answer)>>)

\* What was made of an answer is what DiagnoseAnswer makes of it.
LEMMA FunnelInvHolds == Spec => []FunnelInv
<1>1. Init => FunnelInv
  BY DEF Init, FunnelInv, Begun
<1>2. FunnelInv /\ DiagnoseAnswer => FunnelInv'
  BY DEF FunnelInv, Begun, DiagnoseAnswer, About
<1>3. FunnelInv /\ [Next]_vars /\ ~DiagnoseAnswer => FunnelInv'
  BY StepsAreAbout DEF FunnelInv, Begun, vars, About
<1> QED
  BY <1>1, <1>2, <1>3, PTL DEF Spec

\* The reasons that come out of sorting, each where it belongs.
Policies == {"policy_rejected"}
Others == {"transport_rejected", "schema_invalid"}

KeepsKinds(from, done, list) ==
    /\ done = [policy |-> done.policy, others |-> done.others]
    /\ done.policy \in Seq(Policies) /\ done.others \in Seq(Others)

Sorting == INSTANCE FoldFacts WITH Op <- SortCode, P <- KeepsKinds

\* Codes are sorted by the stage that answers for them.
LEMMA SortedByKind ==
  ASSUME NEW codes, IsList(codes)
  PROVE  /\ SortedReasons(codes).policy \in Seq(Policies)
         /\ SortedReasons(codes).others \in Seq(Others)
<1> DEFINE base == [policy |-> <<>>, others |-> <<>>]
<1>1. KeepsKinds(base, base, <<>>)
  BY EmptySeq DEF KeepsKinds
<1>2. ASSUME NEW done, NEW list, NEW more, NEW code, KeepsKinds(base, done, list)
      PROVE  KeepsKinds(base, SortCode(done, code), more)
  <2>1. Account!ReasonOf(code) \in Policies \cup Others
    BY DEF Account!ReasonOf, Policies, Others
  <2>2. CASE Account!ReasonOf(code) = "policy_rejected"
    <3>1. SortCode(done, code) =
              [policy |-> Append(done.policy, "policy_rejected"), others |-> done.others]
      BY <1>2, <2>2 DEF SortCode, KeepsKinds
    <3>2. Append(done.policy, "policy_rejected") \in Seq(Policies)
      BY <1>2, AppendProperties DEF KeepsKinds, Policies
    <3> QED
      BY <1>2, <3>1, <3>2 DEF KeepsKinds
  <2>3. CASE Account!ReasonOf(code) # "policy_rejected"
    <3>1. SortCode(done, code) =
              [policy |-> done.policy, others |-> Append(done.others, Account!ReasonOf(code))]
      BY <1>2, <2>3 DEF SortCode, KeepsKinds
    <3>2. Append(done.others, Account!ReasonOf(code)) \in Seq(Others)
      BY <1>2, <2>1, <2>3, AppendProperties DEF KeepsKinds, Policies
    <3> QED
      BY <1>2, <3>1, <3>2 DEF KeepsKinds
  <2> QED
    BY <2>2, <2>3
<1> DEFINE sorted == FoldLeft(SortCode, base, codes)
<1>3. KeepsKinds(base, Sorting!FoldLeft(SortCode, base, codes), codes)
  BY <1>1, <1>2, Sorting!FoldInduction DEF IsList
<1>4. Sorting!FoldLeft(SortCode, base, codes) = sorted
  BY DEF Sorting!FoldLeft, Sorting!MapThenFoldSet, Sorting!Max,
         FoldLeft, MapThenFoldSet, Max
<1> QED
  BY <1>3, <1>4 DEF SortedReasons, KeepsKinds

\* A sequence over some kind is a list of elements of that kind.
LEMMA ListOfKind ==
  ASSUME NEW kind, NEW list \in Seq(kind)
  PROVE  IsList(list) /\ ToSet(list) \subseteq kind
<1>1. Len(list) \in Nat /\ DOMAIN list = 1..Len(list) /\ \A i \in 1..Len(list) : list[i] \in kind
  BY LenProperties, ElementOfSeq
<1>2. ToSet(list) \subseteq kind
  BY <1>1 DEF ToSet
<1> QED
  BY <1>1, <1>2 DEF IsList, ToSet

\* Two lists, one after the other.
LEMMA JoinedLists ==
  ASSUME NEW s, IsList(s), NEW t, IsList(t)
  PROVE  /\ IsList(s \o t) /\ ToSet(s \o t) = ToSet(s) \cup ToSet(t)
         /\ t # <<>> => s \o t # <<>>
<1> DEFINE X == ToSet(s) \cup ToSet(t)
<1>1. s \in Seq(X) /\ t \in Seq(X)
  BY SeqMonotonic DEF IsList
<1>2. s \o t \in Seq(X) /\ ToSet(s \o t) = X
  BY <1>1, ElementsJoined, ConcatProperties
<1> HIDE DEF X
<1>3. t # <<>> => s \o t # <<>>
  <2>1. t # <<>> => Len(t) # 0
    BY <1>1, EmptySeq
  <2>2. Len(s \o t) = Len(s) + Len(t) /\ Len(s) \in Nat /\ Len(t) \in Nat
    BY <1>1, LenProperties, ConcatProperties
  <2>3. s \o t = <<>> => Len(s \o t) = 0
    OBVIOUS
  <2> QED
    BY <2>1, <2>2, <2>3
<1> QED
  BY <1>2, <1>3 DEF IsList, X

(***************************************************************************)
(* Diagnostics of a run that no stage has ended, and what diagnostics must *)
(* say for a run without events to be explained; get_explanation and the   *)
(* aggregate follow from it.                                               *)
(***************************************************************************)
GoesOn(d) ==
    /\ DOMAIN d = DOMAIN Account!NewDiagnostics
    /\ d.accepted = 0 /\ d.reasons = <<>>
    /\ d.stage = "none" /\ d.termination = "success"

Explains(d) ==
    /\ IsList(d.reasons) /\ ToSet(d.reasons) \subseteq Account!Reasons /\ d.reasons # <<>>
    /\ d.stage # "none"
    /\ d.termination = "success" => "schema_invalid" \in ToSet(d.reasons)

\* A list of one element.
LEMMA OneElement ==
  ASSUME NEW x
  PROVE  /\ IsList(Append(<<>>, x)) /\ ToSet(Append(<<>>, x)) = {x}
         /\ Append(<<>>, x) # <<>>
<1> DEFINE none == <<>>
<1>1. IsList(none) /\ ToSet(none) = {}
  BY EmptyList
<1> HIDE DEF none
<1>2. IsList(Append(none, x)) /\ ToSet(Append(none, x)) = ToSet(none) \cup {x}
  BY <1>1, ListsGrow
<1>3. ToSet(Append(none, x)) = {x}
  BY <1>1, <1>2
<1>4. Append(none, x) # none
  BY <1>1, <1>3
<1> QED
  BY <1>2, <1>3, <1>4 DEF none

\* A stage ends the run for a reason, or the run goes on.
LEMMA StageEnds ==
  ASSUME NEW d, GoesOn(d), NEW result, NEW termination, termination # "success"
  PROVE  /\ GoesOn(Account!Ended(d, result, NoReason, termination))
         /\ \A reason \in Account!Reasons :
                Explains(Account!Ended(d, result, reason, termination))
<1>1. GoesOn(Account!Ended(d, result, NoReason, termination))
  BY DEF GoesOn, Account!Ended, Account!NewDiagnostics
<1>2. ASSUME NEW reason \in Account!Reasons
      PROVE  Explains(Account!Ended(d, result, reason, termination))
  <2> DEFINE ended == Account!Ended(d, result, reason, termination)
  <2>1. /\ ended.reasons = Append(<<>>, reason) /\ ended.stage = Account!StageOf(reason)
        /\ ended.termination = termination
    <3>1. reason # NoReason
      BY ContractsAssumption
    <3> QED
      BY <3>1 DEF GoesOn, Account!Ended, Account!NewDiagnostics
  <2>2. Account!StageOf(reason) # "none"
    BY DEF Account!StageOf, Account!Reasons
  <2> HIDE DEF ended
  <2>3. Explains(ended)
    BY <2>1, <2>2, OneElement DEF Explains
  <2> QED
    BY <2>3 DEF ended
<1> QED
  BY <1>1, <1>2

\* The stages before the events are judged.
LEMMA EarlyStages ==
  ASSUME NEW d, GoesOn(d)
  PROVE  /\ \A present : GoesOn(Account!WithRawOutput(d, present))
         /\ GoesOn(Account!WithParse(d, TRUE)) /\ Explains(Account!WithParse(d, FALSE))
         /\ GoesOn(Account!WithSchema(d, TRUE)) /\ Explains(Account!WithSchema(d, FALSE))
         /\ \A count : /\ GoesOn(Account!WithExtraction(d, count, FALSE, FALSE))
                       /\ Explains(Account!WithExtraction(d, count, FALSE, TRUE))
                       /\ \A empty : Explains(Account!WithExtraction(d, count, TRUE, empty))
<1>0. {"parse_non_json", "schema_invalid", "candidate_missing", "candidate_empty"}
          \subseteq Account!Reasons
  BY DEF Account!Reasons
<1>1. ASSUME NEW present PROVE GoesOn(Account!WithRawOutput(d, present))
  BY DEF GoesOn, Account!WithRawOutput, Account!NewDiagnostics
<1>2. \A ok : GoesOn([d EXCEPT !.parsed = ok]) /\ GoesOn([d EXCEPT !.schema = ok])
  BY DEF GoesOn, Account!NewDiagnostics
<1>3. GoesOn(Account!WithParse(d, TRUE)) /\ Explains(Account!WithParse(d, FALSE))
  BY <1>0, <1>2, StageEnds DEF Account!WithParse
<1>4. GoesOn(Account!WithSchema(d, TRUE)) /\ Explains(Account!WithSchema(d, FALSE))
  BY <1>0, <1>2, StageEnds DEF Account!WithSchema
<1>5. ASSUME NEW count, NEW empty
      PROVE  /\ GoesOn(Account!WithExtraction(d, count, FALSE, FALSE))
             /\ Explains(Account!WithExtraction(d, count, FALSE, TRUE))
             /\ Explains(Account!WithExtraction(d, count, TRUE, empty))
  <2>1. \A m, e : GoesOn([d EXCEPT !.count = count, !.missing = m, !.empty = e])
    BY DEF GoesOn, Account!NewDiagnostics
  <2> QED
    BY <1>0, <2>1, StageEnds DEF Account!WithExtraction
<1> QED
  BY <1>1, <1>3, <1>4, <1>5

\* The policy refused all events.
LEMMA AllRefusedByPolicy ==
  ASSUME NEW d, GoesOn(d), NEW policy \in Seq(Policies), Len(policy) > 0
  PROVE  Explains(Account!WithPolicy(d, 0, Len(policy), policy))
<1> DEFINE judged == Account!WithPolicy(d, 0, Len(policy), policy)
<1>1. Len(policy) \in Nat /\ policy # <<>> /\ IsList(policy)
      /\ ToSet(policy) \subseteq Policies
  BY LenProperties, ElementOfSeq, EmptySeq, ListOfKind
<1>2. <<>> \o policy = policy
  BY ConcatEmptySeq
<1>3. /\ judged.reasons = policy /\ judged.stage = "policy"
      /\ judged.termination = "policy_rejection"
  BY <1>1, <1>2 DEF GoesOn, Account!WithPolicy, Account!Judged, Account!NewDiagnostics
<1> HIDE DEF judged
<1>4. Explains(judged)
  BY <1>1, <1>3 DEF Explains, Policies, Account!Reasons
<1> QED
  BY <1>4 DEF judged

\* The transport refused all events that the policy let pass.
LEMMA RestRefusedByTransport ==
  ASSUME NEW d, GoesOn(d), NEW policy \in Seq(Policies), NEW others \in Seq(Others),
         Len(others) > 0, NEW left, left # 0
  PROVE  LET judged == Account!WithPolicy(d, left, Len(policy), policy)
         IN  Explains(Account!WithTransport(judged, 0, Len(others), others))
<1> DEFINE judged == Account!WithPolicy(d, left, Len(policy), policy)
           settled == Account!WithTransport(judged, 0, Len(others), others)
<1>1. /\ others # <<>> /\ IsList(others) /\ ToSet(others) \subseteq Others
      /\ IsList(policy) /\ ToSet(policy) \subseteq Policies
  BY ListOfKind, LenProperties, EmptySeq
<1>2. <<>> \o policy = policy
  BY ConcatEmptySeq
<1>3. /\ DOMAIN judged = DOMAIN Account!NewDiagnostics
      /\ judged.reasons = policy /\ judged.stage \in {"none", "policy"}
      /\ judged.termination = "success"
  BY <1>1, <1>2 DEF GoesOn, Account!WithPolicy, Account!Judged, Account!NewDiagnostics
<1> HIDE DEF judged
<1>4. /\ settled.reasons = policy \o others
      /\ settled.stage \in {"transport", "policy"}
      /\ settled.termination = IF Account!Contains(others, "transport_rejected")
                               THEN "transport_failure" ELSE "success"
  BY <1>1, <1>3 DEF Account!WithTransport, Account!Judged, Account!NewDiagnostics
<1> HIDE DEF settled
<1>5. /\ IsList(policy \o others) /\ policy \o others # <<>>
      /\ ToSet(policy \o others) = ToSet(policy) \cup ToSet(others)
  BY <1>1, JoinedLists
<1>6. ~Account!Contains(others, "transport_rejected") => "schema_invalid" \in ToSet(others)
  <2>1. \A i \in DOMAIN others : others[i] \in Others
    BY <1>1 DEF ToSet
  <2>2. 1 \in DOMAIN others
    BY LenProperties
  <2> QED
    BY <2>1, <2>2 DEF Account!Contains, ToSet, Others
<1>7. Explains(settled)
  BY <1>1, <1>4, <1>5, <1>6 DEF Explains, Policies, Others, Account!Reasons
<1> QED
  BY <1>7 DEF settled, judged

\* Diagnostics that tell of no accepted event tell why.
LEMMA DiagnosedExplains ==
  ASSUME NEW i, FunnelInput(i), Diagnosed(i.answer).accepted = 0
  PROVE  Explains(Diagnosed(i.answer))
<1> DEFINE answer == i.answer
           new == Account!NewDiagnostics
           output == Account!WithRawOutput(new, answer.output)
           read == answer.output /\ answer.json
           parsed == Account!WithParse(output, read)
           checked == Account!WithSchema(parsed, answer.schema)
           empty == answer.count = 0 /\ ~answer.missing
           extracted == Account!WithExtraction(checked, answer.count, answer.missing, empty)
           policy == SortedReasons(answer.codes).policy
           others == SortedReasons(answer.codes).others
           left == answer.count - Len(policy)
           judged == Account!WithPolicy(extracted, left, Len(policy), policy)
           settled == Account!WithTransport(judged, left - Len(others), Len(others), others)
           d == Diagnosed(answer)
<1> SUFFICES Explains(d)
  OBVIOUS
<1>0. /\ read \in BOOLEAN /\ answer.schema \in BOOLEAN /\ answer.missing \in BOOLEAN
      /\ empty \in BOOLEAN /\ answer.count \in Nat /\ IsList(answer.codes)
  BY DEF FunnelInput, IsList
<1>1. d = IF ~read THEN parsed
          ELSE IF ~answer.schema THEN checked
          ELSE IF answer.missing \/ answer.count = 0 THEN extracted
          ELSE IF left = 0 THEN judged
          ELSE settled
  BY DEF Diagnosed
<1>2. policy \in Seq(Policies) /\ others \in Seq(Others)
      /\ Len(policy) \in Nat /\ Len(others) \in Nat
  BY <1>0, SortedByKind, LenProperties
<1>3. GoesOn(output)
  <2>1. GoesOn(new)
    BY DEF GoesOn, Account!NewDiagnostics
  <2> HIDE DEF new
  <2> QED
    BY <2>1, EarlyStages
<1> HIDE DEF answer, new, output, read, policy, others
<1>4. /\ read => parsed = Account!WithParse(output, TRUE)
      /\ ~read => parsed = Account!WithParse(output, FALSE)
  BY <1>0
<1> HIDE DEF parsed
<1>5. /\ answer.schema => checked = Account!WithSchema(parsed, TRUE)
      /\ ~answer.schema => checked = Account!WithSchema(parsed, FALSE)
  BY <1>0
<1> HIDE DEF checked
<1>6. /\ answer.missing => \E e : extracted =
             Account!WithExtraction(checked, answer.count, TRUE, e)
      /\ ~answer.missing /\ answer.count = 0 => extracted =
             Account!WithExtraction(checked, answer.count, FALSE, TRUE)
      /\ ~answer.missing /\ answer.count # 0 => extracted =
             Account!WithExtraction(checked, answer.count, FALSE, FALSE)
  <2>1. /\ answer.missing => answer.missing = TRUE
        /\ ~answer.missing => answer.missing = FALSE
        /\ ~answer.missing /\ answer.count = 0 => empty = TRUE
        /\ answer.count # 0 => empty = FALSE
    BY <1>0
  <2> HIDE DEF empty
  <2> QED
    BY <2>1
<1> HIDE DEF empty, extracted
<1>7. settled.accepted = left - Len(others)
  BY DEF Account!WithTransport, Account!Judged, Account!WithPolicy, Account!WithExtraction
<1> HIDE DEF d
<1>8. CASE ~read
  BY <1>1, <1>3, <1>4, <1>8, EarlyStages
<1>9. CASE read /\ ~answer.schema
  BY <1>1, <1>3, <1>4, <1>5, <1>9, EarlyStages
<1>10. CASE read /\ answer.schema
  <2>1. GoesOn(parsed)
    BY <1>3, <1>4, <1>10, EarlyStages
  <2>2. GoesOn(checked)
    BY <1>5, <1>10, <2>1, EarlyStages
  <2>3. CASE answer.missing
    BY <1>1, <1>6, <1>10, <2>2, <2>3, EarlyStages
  <2>4. CASE ~answer.missing /\ answer.count = 0
    BY <1>1, <1>6, <1>10, <2>2, <2>4, EarlyStages
  <2>5. CASE ~answer.missing /\ answer.count # 0
    <3>1. GoesOn(extracted)
      BY <1>6, <2>2, <2>5, EarlyStages
    <3>2. CASE left = 0
      <4>1. d = Account!WithPolicy(extracted, 0, Len(policy), policy) /\ Len(policy) > 0
        BY <1>0, <1>1, <1>2, <1>10, <2>5, <3>2
      <4> QED
        BY <1>2, <3>1, <4>1, AllRefusedByPolicy
    <3>3. CASE left # 0
      <4>1. d = settled /\ d.accepted = 0
        BY <1>1, <1>10, <2>5, <3>3 DEF d, answer
      <4>2. left - Len(others) = 0 /\ Len(others) > 0
        BY <1>0, <1>2, <1>7, <3>3, <4>1
      <4> QED
        BY <1>2, <3>1, <3>3, <4>1, <4>2, RestRefusedByTransport
    <3> QED
      BY <3>2, <3>3
  <2> QED
    BY <1>0, <2>3, <2>4, <2>5
<1> QED
  BY <1>0, <1>8, <1>9, <1>10

\* The explanation found for diagnostics that tell why is one of those that say something.
LEMMA ExplanationIsFound ==
  ASSUME NEW d, Explains(d)
  PROVE  Account!Explanation(d) # "unknown" /\ Account!ExplanationAvailable(d)
<1> DEFINE applies == << d.accepted > 0, d.provider, ~d.output, ~d.parsed, d.missing, d.empty,
                         ~d.schema, d.policy_rejected > 0, d.reasons # <<>>, TRUE >>
           places == {i \in DOMAIN applies : applies[i]}
<1>1. DOMAIN applies = 1..10 /\ applies[9] = (d.reasons # <<>>)
  OBVIOUS
<1>2. 9 \in places
  <2>1. d.reasons # <<>>
    BY DEF Explains
  <2>2. applies[9]
    BY <1>1, <2>1
  <2> HIDE DEF applies
  <2> QED
    BY <1>1, <2>2
<1>3. places \in SUBSET (1..10)
  BY <1>1
<1>4. Account!Explanation(d) = Account!Explanations[Account!Min(places)]
  BY DEF Account!Explanation
<1> HIDE DEF places, applies
<1>5. Account!Min(places) \in places /\ Account!Min(places) <= 9
  <2>1. PICK n \in places : \A m \in places : n <= m
    <3>1. places \in SUBSET Nat /\ places # {}
      BY <1>2, <1>3
    <3> QED
      BY <3>1, Evidence!LeastNumber
  <2>2. \A k \in places : (\A m \in places : k <= m) => k = n
    BY <1>3, <2>1
  <2>3. Account!Min(places) = n
    BY <2>1, <2>2 DEF Account!Min
  <2> QED
    BY <1>2, <2>1, <2>3
<1>6. \A k \in 1..9 : Account!Explanations[k] # "unknown"
  BY DEF Account!Explanations
<1>7. Account!Min(places) \in 1..9
  <2>1. PICK n \in 1..10 : n = Account!Min(places) /\ n <= 9
    BY <1>3, <1>5
  <2>2. n \in 1..9
    BY <2>1
  <2> QED
    BY <2>1, <2>2
<1>8. Account!Explanation(d) # "unknown"
  BY <1>4, <1>6, <1>7
<1>9. Account!ExplanationAvailable(d)
  BY DEF Account!ExplanationAvailable, Explains
<1> QED
  BY <1>8, <1>9

\* (What these sums keep true is not asked for: one element is all there is.)
Summing == INSTANCE FoldFacts WITH Op <- Account!AddDiagnostics, P <- KeepsKinds

\* The aggregate of one task counts that task.
LEMMA AggregateOfOne ==
  ASSUME NEW d, Explains(d)
  PROVE  /\ Account!Aggregated(<<d>>).with_rejections = 1
         /\ \E r \in Account!Reasons : Account!Aggregated(<<d>>).by_reason[r] > 0
<1> DEFINE zero == Account!NewAggregation
           sums == Account!AddDiagnostics(zero, d)
<1>1. Account!Aggregated(<<d>>) = sums
  <2>1. <<>> \in Seq({d}) /\ Append(<<>>, d) = <<d>>
    OBVIOUS
  <2>2. Summing!FoldLeft(Account!AddDiagnostics, zero, <<d>>) = sums
    <3> HIDE DEF zero
    <3>1. Summing!FoldLeft(Account!AddDiagnostics, zero, <<>>) = zero
      BY Summing!FoldOfNothing
    <3>2. Summing!FoldLeft(Account!AddDiagnostics, zero, Append(<<>>, d)) =
              Account!AddDiagnostics(
                  Summing!FoldLeft(Account!AddDiagnostics, zero, <<>>), d)
      BY <2>1, Summing!FoldAppends
    <3> QED
      BY <2>1, <3>1, <3>2
  <2>3. Account!Aggregated(<<d>>) =
            Summing!FoldLeft(Account!AddDiagnostics, zero, <<d>>)
    BY DEF Account!Aggregated, Summing!FoldLeft, Summing!MapThenFoldSet, Summing!Max,
           Account!FoldLeft, Account!MapThenFoldSet, Account!Max
  <2> QED
    BY <2>2, <2>3
<1>2. sums.with_rejections = 1
  BY DEF Account!AddDiagnostics, Account!NewAggregation, Account!AsCount, Explains
<1>3. PICK k \in DOMAIN d.reasons : d.reasons[k] \in Account!Reasons
  <2>1. 1 \in DOMAIN d.reasons
    <3>1. Len(d.reasons) # 0 /\ Len(d.reasons) \in Nat /\ DOMAIN d.reasons = 1..Len(d.reasons)
      BY LenProperties, EmptySeq DEF Explains, IsList
    <3> QED
      BY <3>1
  <2> QED
    BY <2>1 DEF Explains, ToSet
<1> DEFINE r == d.reasons[k]
           places == {i \in DOMAIN d.reasons : d.reasons[i] = r}
<1>4. IsFiniteSet(places) /\ k \in places
  <2>1. IsFiniteSet(DOMAIN d.reasons)
    BY LenProperties, FS_Interval DEF Explains, IsList
  <2> QED
    BY <2>1, FS_Subset
<1>5. Account!Cardinality(places) \in Nat /\ Account!Cardinality(places) > 0
  <2>1. Account!Cardinality(places) = Cardinality(places)
    BY DEF Account!Cardinality, Cardinality
  <2>2. Cardinality(places) \in Nat /\ Cardinality(places) # 0
    BY <1>4, FS_CardinalityType, FS_EmptySet
  <2> QED
    BY <2>1, <2>2
<1>6. sums.by_reason[r] = 0 + Account!Cardinality(places)
  BY <1>3 DEF Account!AddDiagnostics, Account!NewAggregation
<1> QED
  BY <1>1, <1>2, <1>3, <1>5, <1>6

\* A bundle is written for an answer with codes.
LEMMA BundleForCodes ==
  ASSUME NEW i, FunnelInput(i)
  PROVE  Account!WritesBundle(OutcomesOf(i.answer)) <=> i.answer.codes # <<>>
<1> DEFINE codes == i.answer.codes
<1>1. /\ Len(codes) \in Nat /\ DOMAIN codes = 1..Len(codes)
      /\ i.answer.count \in Nat /\ Len(codes) <= i.answer.count
  BY LenProperties DEF FunnelInput
<1>2. Account!WritesBundle(OutcomesOf(i.answer)) <=>
          \E n \in 1..i.answer.count : n \in DOMAIN codes
  <2>1. Account!WritesBundle(OutcomesOf(i.answer)) <=>
            \E o \in OutcomesOf(i.answer) : o.outcome = "rejected"
    BY DEF Account!WritesBundle, Account!FailureBundle
  <2>2. (\E o \in OutcomesOf(i.answer) : o.outcome = "rejected") <=>
            \E n \in 1..i.answer.count : n \in DOMAIN codes
    <3> DEFINE of(n) == [number |-> n,
                         outcome |-> IF n \in DOMAIN codes THEN "rejected" ELSE "accepted"]
    <3>1. OutcomesOf(i.answer) = {of(n) : n \in 1..i.answer.count}
      BY DEF OutcomesOf
    <3>2. \A n : of(n).outcome = "rejected" <=> n \in DOMAIN codes
      OBVIOUS
    <3> HIDE DEF of, codes
    <3> QED
      BY <3>1, <3>2
  <2> QED
    BY <2>1, <2>2
<1>3. codes # <<>> <=> Len(codes) # 0
  BY EmptySeq, LenProperties DEF FunnelInput
<1> HIDE DEF codes
<1>4. (\E n \in 1..i.answer.count : n \in DOMAIN codes) <=> Len(codes) # 0
  BY <1>1
<1> QED
  BY <1>2, <1>3, <1>4 DEF codes

(***************************************************************************)
(* A task that yields no event is explained by its diagnostics and counted *)
(* with its reasons, whatever stage ended its run and whatever its events  *)
(* were refused for (rejection.py, diagnostics.py).                        *)
(***************************************************************************)
THEOREM EmptyRunsAreToldOf == Spec => []EmptyRunsAreExplained
<1>1. InputInv /\ FunnelInv => EmptyRunsAreExplained
  <2> SUFFICES ASSUME InputInv, FunnelInv, Begun("funnel"), outcome.diagnostics.accepted = 0
               PROVE  EmptyRunsAreExplained
    BY DEF EmptyRunsAreExplained
  <2> DEFINE d == Diagnosed(input.answer)
  <2>1. /\ FunnelInput(input) /\ outcome.diagnostics = d
        /\ outcome.bundled = Account!WritesBundle(OutcomesOf(input.answer))
        /\ outcome.aggregate = Account!Aggregated(<<d>>)
    BY ContractsAssumption DEF FunnelInv, InputInv, Begun
  <2>2. Explains(d)
    BY <2>1, DiagnosedExplains
  <2> HIDE DEF d
  <2>3. d.termination = "success" => Contains(d.reasons, "schema_invalid")
    BY <2>2 DEF Explains, Contains, ToSet
  <2> QED
    BY <2>1, <2>2, <2>3, ExplanationIsFound, AggregateOfOne, BundleForCodes
       DEF EmptyRunsAreExplained, Explains
<1> QED
  BY <1>1, InputStays, FunnelInvHolds, PTL

-----------------------------------------------------------------------------
(* Lists of references in another order.                                   *)

\* How often a list holds an element.
TimesIn(list, r) == Cardinality({i \in DOMAIN list : list[i] = r})

\* One more element is held once more.
LEMMA TimesAppended ==
  ASSUME NEW s, IsList(s), NEW x, NEW r
  PROVE  TimesIn(Append(s, x), r) = IF x = r THEN TimesIn(s, r) + 1 ELSE TimesIn(s, r)
<1> DEFINE places == {i \in DOMAIN s : s[i] = r}
           more == {i \in DOMAIN Append(s, x) : Append(s, x)[i] = r}
<1>0. PICK n \in Nat : n = Len(s)
  BY LenProperties DEF IsList
<1>1. /\ DOMAIN s = 1..n /\ IsFiniteSet(1..n) /\ n + 1 \notin 1..n
      /\ DOMAIN Append(s, x) = 1..(n + 1)
      /\ \A i \in 1..n : Append(s, x)[i] = s[i]
      /\ Append(s, x)[n + 1] = x
  <2>1. /\ IsList(Append(s, x)) /\ Len(Append(s, x)) = n + 1
        /\ \A i \in 1..n : Append(s, x)[i] = s[i]
        /\ Append(s, x)[n + 1] = x
    BY <1>0, ListsGrow
  <2>2. DOMAIN s = 1..n /\ DOMAIN Append(s, x) = 1..(n + 1)
    BY <1>0, <2>1, LenProperties DEF IsList
  <2>3. IsFiniteSet(1..n) /\ n + 1 \notin 1..n
    BY FS_Interval
  <2> QED
    BY <2>1, <2>2, <2>3
<1>2. 1..(n + 1) = 1..n \cup {n + 1}
  BY <1>0
<1>3. more = IF x = r THEN places \cup {n + 1} ELSE places
  BY <1>1, <1>2
<1>4. IsFiniteSet(places) /\ n + 1 \notin places
  BY <1>1, FS_Subset
<1>5. Cardinality(places \cup {n + 1}) = Cardinality(places) + 1
  BY <1>4, FS_AddElement
<1> QED
  BY <1>3, <1>5 DEF TimesIn

\* What is kept of a list: its numbered references, each as often as it was there.
KeepsNumbered(from, done, list) ==
    /\ IsList(done)
    /\ ToSet(done) = {r \in ToSet(list) : Identity!IsNumbered(r)}
    /\ \A r : Identity!IsNumbered(r) => TimesIn(done, r) = TimesIn(list, r)

Storing == INSTANCE FoldFacts WITH Op <- Identity!KeepNumbered, P <- KeepsNumbered

\* The stored references are the numbered ones, each as often as it was there.
LEMMA StoredAreNumbered ==
  ASSUME NEW refs, IsList(refs)
  PROVE  KeepsNumbered(<<>>, Identity!Stored(refs), refs)
<1>1. KeepsNumbered(<<>>, <<>>, <<>>)
  BY EmptyList DEF KeepsNumbered
<1>2. ASSUME NEW done, NEW list \in Seq(ToSet(refs)), NEW ref \in ToSet(refs),
             KeepsNumbered(<<>>, done, list)
      PROVE  KeepsNumbered(<<>>, Identity!KeepNumbered(done, ref), Append(list, ref))
  <2>1. IsList(list) /\ IsList(done)
    BY <1>2, ListOfKind DEF KeepsNumbered
  <2>2. /\ ToSet(Append(list, ref)) = ToSet(list) \cup {ref}
        /\ \A r : TimesIn(Append(list, ref), r) =
                      IF ref = r THEN TimesIn(list, r) + 1 ELSE TimesIn(list, r)
    BY <2>1, ListsGrow, TimesAppended
  <2>3. CASE Identity!IsNumbered(ref)
    <3>1. /\ IsList(Append(done, ref)) /\ ToSet(Append(done, ref)) = ToSet(done) \cup {ref}
          /\ \A r : TimesIn(Append(done, ref), r) =
                        IF ref = r THEN TimesIn(done, r) + 1 ELSE TimesIn(done, r)
      BY <2>1, ListsGrow, TimesAppended
    <3>2. Identity!KeepNumbered(done, ref) = Append(done, ref)
      BY <2>3 DEF Identity!KeepNumbered
    <3> QED
      BY <1>2, <2>2, <2>3, <3>1, <3>2 DEF KeepsNumbered
  <2>4. CASE ~Identity!IsNumbered(ref)
    <3>1. Identity!KeepNumbered(done, ref) = done
      BY <2>4 DEF Identity!KeepNumbered
    <3> QED
      BY <1>2, <2>2, <2>4, <3>1 DEF KeepsNumbered
  <2> QED
    BY <2>3, <2>4
<1>3. KeepsNumbered(<<>>, Storing!FoldLeft(Identity!KeepNumbered, <<>>, refs), refs)
  BY <1>1, <1>2, Storing!FoldInduction DEF IsList
<1>4. Storing!FoldLeft(Identity!KeepNumbered, <<>>, refs) = Identity!Stored(refs)
  BY DEF Storing!FoldLeft, Storing!MapThenFoldSet, Storing!Max, Identity!Stored,
         Identity!FoldLeft, Identity!MapThenFoldSet, Identity!Max
<1> QED
  BY <1>3, <1>4

\* A list holds the same, as often, when it is reversed.
LEMMA ReversedHoldsTheSame ==
  ASSUME NEW s, IsList(s)
  PROVE  /\ IsList(Reverse(s)) /\ ToSet(Reverse(s)) = ToSet(s)
         /\ Reverse(s) = <<>> <=> s = <<>>
         /\ \A r : TimesIn(Reverse(s), r) = TimesIn(s, r)
<1>0. PICK n \in Nat : n = Len(s)
  BY LenProperties DEF IsList
<1>1. DOMAIN s = 1..n /\ \A i \in 1..n : s[i] \in ToSet(s)
  BY <1>0, LenProperties DEF IsList, ToSet
<1>2. /\ DOMAIN Reverse(s) = 1..n
      /\ \A i \in 1..n : (n - i) + 1 \in 1..n /\ Reverse(s)[i] = s[(n - i) + 1]
      /\ \A i \in 1..n : (n - ((n - i) + 1)) + 1 = i
  BY <1>0 DEF Reverse
<1>3. Reverse(s) = [i \in 1..n |-> s[(n - i) + 1]]
  BY <1>0 DEF Reverse
<1>4. Reverse(s) \in Seq(ToSet(s))
  BY <1>1, <1>2, <1>3, IsASeq
<1>5. \A i \in 1..n : s[i] = Reverse(s)[(n - i) + 1]
  BY <1>2
<1>6. ToSet(Reverse(s)) = ToSet(s)
  <2>1. ToSet(s) = {s[i] : i \in 1..n} /\ ToSet(Reverse(s)) = {Reverse(s)[i] : i \in 1..n}
    BY <1>1, <1>2 DEF ToSet
  <2>2. \A i \in 1..n : Reverse(s)[i] \in {s[j] : j \in 1..n}
    BY <1>2
  <2>3. \A i \in 1..n : s[i] \in {Reverse(s)[j] : j \in 1..n}
    BY <1>2, <1>5
  <2> QED
    BY <2>1, <2>2, <2>3
<1>7. Reverse(s) = <<>> <=> s = <<>>
  <2>1. Len(Reverse(s)) = n /\ (s = <<>> <=> n = 0) /\ (Reverse(s) = <<>> <=> n = 0)
    BY <1>0, <1>2, <1>4, EmptySeq, LenProperties DEF IsList
  <2> QED
    BY <2>1
<1>8. ASSUME NEW r PROVE TimesIn(Reverse(s), r) = TimesIn(s, r)
  <2> DEFINE places == {i \in DOMAIN s : s[i] = r}
             others == {i \in DOMAIN Reverse(s) : Reverse(s)[i] = r}
             mirror == [i \in places |-> (n - i) + 1]
  <2>1. mirror \in [places -> others]
    BY <1>1, <1>2, <1>5
  <2>2. \A i, j \in places : mirror[i] = mirror[j] => i = j
    BY <1>1
  <2>3. ASSUME NEW j \in others PROVE \E i \in places : mirror[i] = j
    <3>1. (n - j) + 1 \in places /\ (n - ((n - j) + 1)) + 1 = j
      BY <1>1, <1>2
    <3> QED
      BY <3>1
  <2>4. mirror \in Bijection(places, others)
    BY <2>1, <2>2, <2>3 DEF Bijection, Injection, Surjection, IsInjective
  <2>5. IsFiniteSet(places)
    BY <1>1, FS_Interval, FS_Subset
  <2> QED
    BY <2>4, <2>5, FS_Bijection DEF ExistsBijection, TimesIn
<1> QED
  BY <1>4, <1>6, <1>7, <1>8 DEF IsList

\* References that are the same, or the same in reverse order.
SameRefs(r, s) == r = s \/ (IsList(r) /\ s = Reverse(r))

\* References in another order are stored as references in another order.
LEMMA StoredAreTheSame ==
  ASSUME NEW r, NEW s, SameRefs(r, s)
  PROVE  /\ Identity!RefIdentities(Identity!Stored(r)) =
                Identity!RefIdentities(Identity!Stored(s))
         /\ ToSet(Identity!Stored(r)) = ToSet(Identity!Stored(s))
         /\ Identity!Stored(r) = <<>> <=> Identity!Stored(s) = <<>>
<1> SUFFICES ASSUME IsList(r), s = Reverse(r)
             PROVE  /\ Identity!RefIdentities(Identity!Stored(r)) =
                           Identity!RefIdentities(Identity!Stored(s))
                    /\ ToSet(Identity!Stored(r)) = ToSet(Identity!Stored(s))
                    /\ Identity!Stored(r) = <<>> <=> Identity!Stored(s) = <<>>
  BY DEF SameRefs
<1>1. PICK a, b : a = Identity!Stored(r) /\ b = Identity!Stored(s)
  OBVIOUS
<1>2. IsList(s) /\ ToSet(s) = ToSet(r) /\ \A x : TimesIn(s, x) = TimesIn(r, x)
  BY ReversedHoldsTheSame
<1>3. KeepsNumbered(<<>>, a, r) /\ KeepsNumbered(<<>>, b, s)
  BY <1>1, <1>2, StoredAreNumbered
<1>4. /\ ToSet(a) = ToSet(b)
      /\ \A x \in ToSet(a) : Identity!IsNumbered(x) /\ TimesIn(a, x) = TimesIn(b, x)
  BY <1>2, <1>3 DEF KeepsNumbered
<1>5. /\ Identity!RefIdentities(a) = [x \in ToSet(a) |-> TimesIn(a, x)]
      /\ Identity!RefIdentities(b) = [x \in ToSet(b) |-> TimesIn(b, x)]
  <2>1. ASSUME NEW t, \A x \in ToSet(t) : Identity!IsNumbered(x)
        PROVE  Identity!RefIdentities(t) = [x \in ToSet(t) |-> TimesIn(t, x)]
    <3>1. {x \in Identity!ToSet(t) : Identity!IsNumbered(x)} = ToSet(t)
      BY <2>1 DEF Identity!ToSet, ToSet
    <3> DEFINE times(x) == Identity!Cardinality({i \in DOMAIN t : t[i] = x})
    <3>2. Identity!RefIdentities(t) =
              [x \in {x \in Identity!ToSet(t) : Identity!IsNumbered(x)} |-> times(x)]
      BY DEF Identity!RefIdentities
    <3>3. \A x : times(x) = TimesIn(t, x)
      BY DEF TimesIn, Identity!Cardinality, Cardinality
    <3> HIDE DEF times
    <3> QED
      BY <3>1, <3>2, <3>3
  <2> QED
    BY <1>4, <2>1
<1>6. (a = <<>> <=> ToSet(a) = {}) /\ (b = <<>> <=> ToSet(b) = {})
  <2>1. ASSUME NEW t, IsList(t) PROVE t = <<>> <=> ToSet(t) = {}
    <3>1. Len(t) \in Nat /\ DOMAIN t = 1..Len(t)
      BY <2>1, LenProperties DEF IsList
    <3>2. t # <<>> => Len(t) # 0
      BY <2>1, EmptySeq DEF IsList
    <3>3. t # <<>> => t[1] \in ToSet(t)
      BY <3>1, <3>2 DEF ToSet
    <3> QED
      BY <3>3, EmptyList
  <2> QED
    BY <1>3, <2>1 DEF KeepsNumbered
<1> QED
  BY <1>1, <1>4, <1>5, <1>6

-----------------------------------------------------------------------------
(* An answer that is given again.                                          *)

\* An event of an answer that the transport has to normalize.
IsTransported(event) == event.form # "internal" /\ AnsweredEvent(event)

\* Payloads of which one is the other in other words.
SayTheSame(p, q) ==
    /\ DOMAIN q = DOMAIN p /\ DOMAIN Transport!Silent \subseteq DOMAIN p
    /\ \A f \in DOMAIN p \ {"text", "provenance"} : q[f] = p[f]
    /\ q.text = NoText <=> p.text = NoText
    /\ Identity!Displayed(q.text) = Identity!Displayed(p.text)
    /\ q.provenance = Absent <=> p.provenance = Absent
    /\ SameRefs(p.provenance, q.provenance)

\* A reworded event says the same.
LEMMA RewordedSaysTheSame ==
  ASSUME NEW event, IsTransported(event)
  PROVE  /\ Reworded(event).form = event.form /\ Reworded(event).type = event.type
         /\ SayTheSame(event.payload, Reworded(event).payload)
<1>1. PICK p, q : p = event.payload /\ q = Reworded(event).payload
  OBVIOUS
<1>2. /\ Reworded(event).form = event.form /\ Reworded(event).type = event.type
      /\ q = [p EXCEPT !.text = IF @ = NoText THEN @ ELSE [@ EXCEPT !.spacing = "other"],
                       !.provenance = IF @ = Absent THEN @ ELSE Reverse(@)]
  BY <1>1 DEF IsTransported, AnsweredEvent, Reworded
<1>3. /\ DOMAIN q = DOMAIN p /\ DOMAIN Transport!Silent \subseteq DOMAIN p
      /\ {"text", "provenance"} \subseteq DOMAIN p
  BY <1>1, <1>2 DEF IsTransported, AnsweredEvent, Transport!Silent
<1>4. \A f \in DOMAIN p \ {"text", "provenance"} : q[f] = p[f]
  BY <1>2
<1>5. /\ q.text = IF p.text = NoText THEN NoText ELSE [p.text EXCEPT !.spacing = "other"]
      /\ q.provenance = IF p.provenance = Absent THEN Absent ELSE Reverse(p.provenance)
  BY <1>2, <1>3
<1>6. /\ q.text = NoText <=> p.text = NoText
      /\ Identity!Displayed(q.text) = Identity!Displayed(p.text)
  <2>1. CASE p.text = NoText
    BY <1>5, <2>1
  <2>2. CASE p.text # NoText
    <3>1. q.text = [p.text EXCEPT !.spacing = "other"] /\ q.text # NoText
      BY <1>1, <1>5, <2>2 DEF IsTransported, AnsweredEvent
    <3>2. [q.text EXCEPT !.spacing = "single"] = [p.text EXCEPT !.spacing = "single"]
      BY <3>1
    <3> QED
      BY <2>2, <3>1, <3>2 DEF Identity!Displayed
  <2> QED
    BY <2>1, <2>2
<1>7. /\ q.provenance = Absent <=> p.provenance = Absent
      /\ SameRefs(p.provenance, q.provenance)
  <2>1. CASE p.provenance = Absent
    BY <1>5, <2>1 DEF SameRefs
  <2>2. CASE p.provenance # Absent
    <3>1. IsList(p.provenance) /\ Absent \notin Seq(ToSet(p.provenance))
      BY <1>1, <2>2 DEF IsTransported, AnsweredEvent, IsList
    <3>2. Reverse(p.provenance) \in Seq(ToSet(p.provenance))
      BY <3>1, ReversedHoldsTheSame DEF IsList
    <3> QED
      BY <1>5, <2>2, <3>1, <3>2 DEF SameRefs
  <2> QED
    BY <2>1, <2>2
<1> QED
  BY <1>1, <1>2, <1>3, <1>4, <1>6, <1>7 DEF SayTheSame

\* What is found out of references does not depend on their order.
LEMMA OrderOfRefsIsIgnored ==
  ASSUME NEW r, NEW s, SameRefs(r, s)
  PROVE  /\ r = <<>> <=> s = <<>>
         /\ Transport!DerivedClass(r) = Transport!DerivedClass(s)
         /\ \A matches : Transport!Overlapping(matches, r) = Transport!Overlapping(matches, s)
<1>1. ToSet(r) = ToSet(s) /\ (r = <<>> <=> s = <<>>)
  BY ReversedHoldsTheSame DEF SameRefs
<1>2. Transport!ToSet(r) = Transport!ToSet(s)
  BY <1>1 DEF Transport!ToSet, ToSet
<1>3. Transport!Locations(r) = Transport!Locations(s)
  BY <1>2 DEF Transport!Locations
<1>4. Transport!DerivedClass(r) = Transport!DerivedClass(s)
  BY <1>3 DEF Transport!DerivedClass
<1>5. ASSUME NEW matches
      PROVE  Transport!Overlapping(matches, r) = Transport!Overlapping(matches, s)
  BY <1>2 DEF Transport!Overlapping
<1> QED
  BY <1>1, <1>4, <1>5

\* The references of payloads that say the same.
LEMMA SameSourceRefs ==
  ASSUME NEW p, NEW q, SayTheSame(p, q), NEW snapshot
  PROVE  SameRefs(Transport!SourceRefs(p, snapshot), Transport!SourceRefs(q, snapshot))
<1>1. CASE p.provenance # Absent
  BY <1>1 DEF SayTheSame, Transport!SourceRefs
<1>2. CASE p.provenance = Absent
  <2>1. /\ q.provenance = Absent /\ q.source_refs = p.source_refs /\ q.file = p.file
        /\ q.range = p.range /\ q.evidence = p.evidence
    BY <1>2 DEF SayTheSame, Transport!Silent
  <2>2. Transport!SourceRefs(p, snapshot) = Transport!SourceRefs(q, snapshot)
    BY <1>2, <2>1 DEF Transport!SourceRefs
  <2> QED
    BY <2>2 DEF SameRefs
<1> QED
  BY <1>1, <1>2

\* The fields of the payload that the identity of an event is made of.
IdentifyingFields(type) ==
    CASE type \in {"observation.proposed", "observation.verified", "observation.rejected"} ->
             {"text", "status", "class", "refs"}
      [] type \in {"hypothesis.proposed", "contradiction.registered"} -> {"text", "refs"}
      [] type = "question.opened" -> {"text", "related"}
      [] type = "issue.proposed" ->
             {"text", "observation_ids", "question_ids", "severity", "rule_ref"}
      [] type = "candidate.proposed" -> {"text", "type", "scope", "refs"}
      [] OTHER -> {"text"}

Verdicts == {"observation.verified", "observation.rejected"}

CitingTypes == {"observation", "hypothesis", "contradiction", "decision"}

\* Payloads of entities, one of them in other words.
PayloadsMatch(x, y) ==
    /\ DOMAIN y = DOMAIN x
    /\ \A f \in DOMAIN x \ {"text", "refs"} : y[f] = x[f]
    /\ Identity!Displayed(y.text) = Identity!Displayed(x.text)
    /\ "refs" \in DOMAIN x => SameRefs(x.refs, y.refs)

\* Entities that events of this type are about, one of them in other words.
AreTheSame(type, a, b) ==
    /\ DOMAIN a = {"entity_type", "entity", "payload"} /\ DOMAIN b = DOMAIN a
    /\ b.entity_type = a.entity_type
    /\ type \in Verdicts => b.entity = a.entity
    /\ IdentifyingFields(type) \subseteq DOMAIN a.payload
    /\ a.entity_type \in CitingTypes => "refs" \in DOMAIN a.payload
    /\ PayloadsMatch(a.payload, b.payload)

\* Entities whose payloads match are the same.
LEMMA EntitiesMatch ==
  ASSUME NEW type, NEW kind, NEW x, NEW y, PayloadsMatch(x, y),
         IdentifyingFields(type) \subseteq DOMAIN x, kind \in CitingTypes => "refs" \in DOMAIN x,
         NEW id, NEW other, type \in Verdicts => other = id
  PROVE  AreTheSame(type, [entity_type |-> kind, entity |-> id, payload |-> x],
                          [entity_type |-> kind, entity |-> other, payload |-> y])
BY DEF AreTheSame

\* A reworded event is about an entity that is the same but for its id.
LEMMA RewordedEntities ==
  ASSUME NEW context, NEW event, NEW again, NEW i,
         again.type = event.type, SayTheSame(event.payload, again.payload),
         \A o \in DOMAIN context.observations :
             {"status", "text", "refs", "class"} \subseteq DOMAIN context.observations[o],
         Transport!EntityOf(context, event, i) # Raised,
         Transport!EntityOf(context, again, i) # Raised
  PROVE  AreTheSame(event.type, Transport!EntityOf(context, event, i),
                    Transport!EntityOf(context, again, i))
<1>0. PICK p, q, r, s, a, b :
          /\ p = event.payload /\ q = again.payload
          /\ r = Transport!SourceRefs(p, context.snapshot)
          /\ s = Transport!SourceRefs(q, context.snapshot)
          /\ a = Transport!EntityOf(context, event, i)
          /\ b = Transport!EntityOf(context, again, i)
  OBVIOUS
<1>1. SayTheSame(p, q) /\ SameRefs(r, s) /\ a # Raised /\ b # Raised /\ r # Raised /\ s # Raised
  BY <1>0, SameSourceRefs DEF Transport!EntityOf
<1>2. /\ r = <<>> <=> s = <<>>
      /\ Transport!DerivedClass(r) = Transport!DerivedClass(s)
      /\ \A matches : Transport!Overlapping(matches, r) = Transport!Overlapping(matches, s)
  BY <1>1, OrderOfRefsIsIgnored
<1>3. /\ q.class = p.class /\ q.origin = p.origin /\ q.override = p.override
      /\ q.patterns = p.patterns /\ q.confidence = p.confidence
      /\ q.evidence = p.evidence /\ q.conflicting = p.conflicting
      /\ q.question_ids = p.question_ids /\ q.severity = p.severity
      /\ q.rule_ref = p.rule_ref /\ q.candidate_type = p.candidate_type
      /\ q.scope = p.scope
      /\ q.text = NoText <=> p.text = NoText
      /\ Identity!Displayed(q.text) = Identity!Displayed(p.text)
  BY <1>1 DEF SayTheSame, Transport!Silent
<1>4. Transport!ClassOf(q, s) = Transport!ClassOf(p, r)
  BY <1>2, <1>3 DEF Transport!ClassOf
<1>5. CASE event.type = "observation.proposed"
  <2>1. /\ a = Transport!ProposedObservation(context, event, r, i)
        /\ b = Transport!ProposedObservation(context, again, s, i)
    BY <1>0, <1>1, <1>5 DEF Transport!EntityOf
  <2> DEFINE explicit(m) == IF m.patterns = Absent THEN {} ELSE m.patterns
             patterns(m, refs) == explicit(m) \cup Transport!Overlapping(context.patterns, refs)
             origin(m, refs) == Transport!OrElse(m.origin,
                                    IF patterns(m, refs) = {} THEN "model_discovered"
                                    ELSE IF explicit(m) = {} THEN "deterministic_pattern"
                                    ELSE "mixed_pattern_model")
             confidence(m, refs) == Transport!OrElse(m.confidence,
                                        IF origin(m, refs) = "deterministic_pattern"
                                        THEN "high" ELSE "medium")
             made(m, refs) == [status |-> "proposed", text |-> m.text, refs |-> refs,
                               class |-> Transport!ClassOf(m, refs), origin |-> origin(m, refs),
                               patterns |-> patterns(m, refs),
                               confidence |-> confidence(m, refs)]
  <2>2. /\ a = [entity_type |-> "observation",
                entity |-> Transport!Id("obs", context, event, i), payload |-> made(p, r)]
        /\ b = [entity_type |-> "observation",
                entity |-> Transport!Id("obs", context, again, i), payload |-> made(q, s)]
    BY <1>0, <1>1, <2>1 DEF Transport!ProposedObservation, Transport!Entity
  <2>3. patterns(q, s) = patterns(p, r) /\ explicit(q) = explicit(p)
    BY <1>2, <1>3
  <2>4. origin(q, s) = origin(p, r)
    <3> HIDE DEF patterns, explicit
    <3> QED
      BY <1>3, <2>3
  <2>5. confidence(q, s) = confidence(p, r)
    <3> HIDE DEF origin
    <3> QED
      BY <1>3, <2>4
  <2> HIDE DEF patterns, origin, confidence
  <2>6. PICK x, y : x = made(p, r) /\ y = made(q, s)
    OBVIOUS
  <2>7. PayloadsMatch(x, y)
    BY <1>1, <1>3, <1>4, <2>3, <2>4, <2>5, <2>6 DEF PayloadsMatch
  <2>8. IdentifyingFields(event.type) \subseteq DOMAIN x /\ "refs" \in DOMAIN x
    BY <1>5, <2>6 DEF IdentifyingFields
  <2> HIDE DEF made
  <2> QED
    BY <1>0, <1>5, <2>2, <2>6, <2>7, <2>8, EntitiesMatch DEF Verdicts
<1>6. CASE event.type = "hypothesis.proposed"
  <2>1. /\ a = Transport!ProposedHypothesis(context, event, r, i)
        /\ b = Transport!ProposedHypothesis(context, again, s, i)
    BY <1>0, <1>1, <1>6 DEF Transport!EntityOf
  <2> DEFINE made(text, refs) ==
                 [status |-> "proposed", text |-> text, refs |-> refs,
                  confidence |-> Transport!OrElse(p.confidence, "medium"),
                  origin |-> Transport!OrElse(p.origin, "reader_inference")]
  <2>2. /\ a = [entity_type |-> "hypothesis", entity |-> Transport!Id("hyp", context, event, i),
                payload |-> made(p.text, r)]
        /\ b = [entity_type |-> "hypothesis", entity |-> Transport!Id("hyp", context, again, i),
                payload |-> made(q.text, s)]
    BY <1>0, <1>1, <1>3, <2>1 DEF Transport!ProposedHypothesis, Transport!Entity
  <2>3. PICK x, y : x = made(p.text, r) /\ y = made(q.text, s)
    OBVIOUS
  <2>4. PayloadsMatch(x, y)
    BY <1>1, <1>3, <2>3 DEF PayloadsMatch
  <2>5. /\ IdentifyingFields(event.type) \subseteq DOMAIN x
        /\ "hypothesis" \in CitingTypes => "refs" \in DOMAIN x
    BY <1>6, <2>3 DEF IdentifyingFields, CitingTypes
  <2> HIDE DEF made
  <2> QED
    BY <1>0, <1>6, <2>2, <2>3, <2>4, <2>5, EntitiesMatch DEF Verdicts
<1>7. CASE event.type = "question.opened"
  <2>1. /\ a = Transport!OpenedQuestion(context, event, i)
        /\ b = Transport!OpenedQuestion(context, again, i)
    BY <1>0, <1>1, <1>7 DEF Transport!EntityOf
  <2> DEFINE related == IF context.target.kind \in {"path", "module"} THEN {}
                        ELSE {context.target}
             made(text) == [status |-> "open", text |-> text, related |-> related]
  <2>2. /\ a = [entity_type |-> "question", entity |-> Transport!Id("question", context, event, i),
                payload |-> made(p.text)]
        /\ b = [entity_type |-> "question", entity |-> Transport!Id("question", context, again, i),
                payload |-> made(q.text)]
    BY <1>0, <1>1, <2>1 DEF Transport!OpenedQuestion, Transport!Entity
  <2> HIDE DEF related
  <2>3. PICK x, y : x = made(p.text) /\ y = made(q.text)
    OBVIOUS
  <2>4. PayloadsMatch(x, y)
    BY <1>1, <1>3, <2>3 DEF PayloadsMatch
  <2>5. /\ IdentifyingFields(event.type) \subseteq DOMAIN x
        /\ "question" \in CitingTypes => "refs" \in DOMAIN x
    BY <1>7, <2>3 DEF IdentifyingFields, CitingTypes
  <2> HIDE DEF made
  <2> QED
    BY <1>0, <1>7, <2>2, <2>3, <2>4, <2>5, EntitiesMatch DEF Verdicts
<1>8. CASE event.type \in Verdicts
  <2>1. /\ a = Transport!Verdict(context, event, r)
        /\ b = Transport!Verdict(context, again, s)
    BY <1>0, <1>1, <1>8 DEF Transport!EntityOf, Verdicts
  <2>2. context.target.value \in DOMAIN context.observations
    BY <1>1, <2>1 DEF Transport!Verdict
  <2>3. PICK target : target = context.observations[context.target.value]
    OBVIOUS
  <2>4. {"status", "text", "refs", "class"} \subseteq DOMAIN target
    BY <2>2, <2>3
  <2> DEFINE status == IF event.type = "observation.verified" THEN "verified" ELSE "rejected"
             made(text, refs, class) ==
                 [target EXCEPT
                    !.status = status,
                    !.text = IF text = NoText THEN @ ELSE text,
                    !.refs = IF refs # <<>> THEN refs ELSE @,
                    !.class = IF p.class \in Transport!EvidenceClasses THEN p.class
                              ELSE IF refs # <<>> THEN class ELSE @,
                    !.origin = Transport!OrElse(p.override, @),
                    !.patterns = Transport!OrElse(p.patterns, @)]
  <2>5. /\ a = [entity_type |-> "observation", entity |-> context.target.value,
                payload |-> made(p.text, r, Transport!DerivedClass(r))]
        /\ b = [entity_type |-> "observation", entity |-> context.target.value,
                payload |-> made(q.text, s, Transport!DerivedClass(r))]
    BY <1>0, <1>2, <1>3, <2>1, <2>2, <2>3 DEF Transport!Verdict, Transport!Entity
  <2> DEFINE c == Transport!DerivedClass(r)
  <2>6. ASSUME NEW text, NEW refs
        PROVE  /\ DOMAIN made(text, refs, c) = DOMAIN target
               /\ made(text, refs, c).text = IF text = NoText THEN target.text ELSE text
               /\ made(text, refs, c).refs = IF refs # <<>> THEN refs ELSE target.refs
               /\ refs # <<>> <=> r # <<>> =>
                      \A f \in DOMAIN target \ {"text", "refs"} :
                          made(text, refs, c)[f] = made(p.text, r, c)[f]
    BY <2>4
  <2>7. PICK x, y : x = made(p.text, r, c) /\ y = made(q.text, s, c)
    OBVIOUS
  <2> HIDE DEF made
  <2>8. /\ DOMAIN x = DOMAIN target /\ DOMAIN y = DOMAIN target
        /\ x.text = (IF p.text = NoText THEN target.text ELSE p.text)
        /\ y.text = (IF q.text = NoText THEN target.text ELSE q.text)
        /\ x.refs = (IF r # <<>> THEN r ELSE target.refs)
        /\ y.refs = (IF s # <<>> THEN s ELSE target.refs)
        /\ \A f \in DOMAIN target \ {"text", "refs"} : y[f] = x[f]
    BY <1>2, <2>6, <2>7
  <2>9. SameRefs(x.refs, y.refs) /\ Identity!Displayed(y.text) = Identity!Displayed(x.text)
    BY <1>1, <1>2, <1>3, <2>8 DEF SameRefs
  <2>10. PayloadsMatch(x, y) /\ "refs" \in DOMAIN x
    BY <2>4, <2>8, <2>9 DEF PayloadsMatch
  <2>11. IdentifyingFields(event.type) \subseteq DOMAIN x
    BY <1>8, <2>4, <2>8 DEF IdentifyingFields, Verdicts
  <2> QED
    BY <1>0, <1>8, <2>5, <2>7, <2>10, <2>11, EntitiesMatch
<1>9. CASE event.type = "contradiction.registered"
  <2>1. /\ a = Transport!RegisteredContradiction(context, event, r, i)
        /\ b = Transport!RegisteredContradiction(context, again, s, i)
    BY <1>0, <1>1, <1>9 DEF Transport!EntityOf
  <2> DEFINE made(text, refs) == [status |-> "open", text |-> text, refs |-> refs,
                                  conflicting |-> p.conflicting]
  <2>2. /\ a = [entity_type |-> "contradiction",
                entity |-> Transport!Id("contradiction", context, event, i),
                payload |-> made(p.text, r)]
        /\ b = [entity_type |-> "contradiction",
                entity |-> Transport!Id("contradiction", context, again, i),
                payload |-> made(q.text, s)]
    BY <1>0, <1>1, <1>3, <2>1 DEF Transport!RegisteredContradiction, Transport!Entity
  <2>3. PICK x, y : x = made(p.text, r) /\ y = made(q.text, s)
    OBVIOUS
  <2>4. PayloadsMatch(x, y)
    BY <1>1, <1>3, <2>3 DEF PayloadsMatch
  <2>5. /\ IdentifyingFields(event.type) \subseteq DOMAIN x
        /\ "contradiction" \in CitingTypes => "refs" \in DOMAIN x
    BY <1>9, <2>3 DEF IdentifyingFields, CitingTypes
  <2> HIDE DEF made
  <2> QED
    BY <1>0, <1>9, <2>2, <2>3, <2>4, <2>5, EntitiesMatch DEF Verdicts
<1>10. CASE event.type = "issue.proposed"
  <2>1. /\ a = Transport!ProposedIssue(context, event, i)
        /\ b = Transport!ProposedIssue(context, again, i)
    BY <1>0, <1>1, <1>10 DEF Transport!EntityOf
  <2> DEFINE rule(m) == IF m.severity # NoText THEN m.rule_ref ELSE NoText
             observations(m) ==
                 IF m.evidence.observation_ids = {} /\ context.target.kind = "observation"
                 THEN {context.target.value} ELSE m.evidence.observation_ids
             questions(m) == m.question_ids \cup context.questions
             made(m) == [status |-> "proposed", text |-> m.text, severity |-> m.severity,
                         rule_ref |-> rule(m), observation_ids |-> observations(m),
                         question_ids |-> questions(m)]
  <2>2. /\ a = [entity_type |-> "issue", entity |-> Transport!Id("issue", context, event, i),
                payload |-> made(p)]
        /\ b = [entity_type |-> "issue", entity |-> Transport!Id("issue", context, again, i),
                payload |-> made(q)]
    BY <1>0, <1>1, <2>1 DEF Transport!ProposedIssue, Transport!Entity
  <2>3. rule(q) = rule(p) /\ observations(q) = observations(p) /\ questions(q) = questions(p)
    BY <1>3
  <2> HIDE DEF rule, observations, questions
  <2>4. PICK x, y : x = made(p) /\ y = made(q)
    OBVIOUS
  <2>5. PayloadsMatch(x, y)
    BY <1>3, <2>3, <2>4 DEF PayloadsMatch
  <2>6. /\ IdentifyingFields(event.type) \subseteq DOMAIN x
        /\ "issue" \in CitingTypes => "refs" \in DOMAIN x
    BY <1>10, <2>4 DEF IdentifyingFields, CitingTypes
  <2> HIDE DEF made
  <2> QED
    BY <1>0, <1>10, <2>2, <2>4, <2>5, <2>6, EntitiesMatch DEF Verdicts
<1>11. CASE event.type = "candidate.proposed"
  <2>1. /\ a = Transport!ProposedCandidate(context, event, r, i)
        /\ b = Transport!ProposedCandidate(context, again, s, i)
    BY <1>0, <1>1, <1>11 DEF Transport!EntityOf
  <2> DEFINE made(text, refs) ==
                 [status |-> "proposed", type |-> p.candidate_type, text |-> text,
                  confidence |-> p.confidence, scope |-> p.scope, refs |-> refs]
  <2>2. /\ a = [entity_type |-> "candidate",
                entity |-> Transport!Id("candidate", context, event, i),
                payload |-> made(p.text, r)]
        /\ b = [entity_type |-> "candidate",
                entity |-> Transport!Id("candidate", context, again, i),
                payload |-> made(q.text, s)]
    BY <1>0, <1>1, <1>3, <2>1 DEF Transport!ProposedCandidate, Transport!Entity
  <2>3. PICK x, y : x = made(p.text, r) /\ y = made(q.text, s)
    OBVIOUS
  <2>4. PayloadsMatch(x, y)
    BY <1>1, <1>3, <2>3 DEF PayloadsMatch
  <2>5. /\ IdentifyingFields(event.type) \subseteq DOMAIN x
        /\ "candidate" \in CitingTypes => "refs" \in DOMAIN x
    BY <1>11, <2>3 DEF IdentifyingFields, CitingTypes
  <2> HIDE DEF made
  <2> QED
    BY <1>0, <1>11, <2>2, <2>3, <2>4, <2>5, EntitiesMatch DEF Verdicts
<1>12. event.type \in {"observation.proposed", "hypothesis.proposed", "question.opened",
                       "contradiction.registered", "issue.proposed", "candidate.proposed"}
           \cup Verdicts
  BY <1>0, <1>1 DEF Transport!EntityOf, Verdicts
<1> QED
  BY <1>0, <1>5, <1>6, <1>7, <1>8, <1>9, <1>10, <1>11, <1>12

-----------------------------------------------------------------------------
(* The identity of events that say the same.                               *)

\* Normalized events, one of them in other words.
EventsMatch(e, f) ==
    /\ {"type", "snapshot", "id", "about"} \subseteq DOMAIN e
    /\ {"type", "snapshot", "id", "about"} \subseteq DOMAIN f
    /\ f.type = e.type /\ f.snapshot = e.snapshot
    /\ AreTheSame(e.type, e.about, f.about)

\* Payloads of which one says of the same entity what the other does.
CanonicalsMatch(x, y) ==
    /\ DOMAIN y = DOMAIN x
    /\ \A f \in DOMAIN x \ {"refs"} : y[f] = x[f]
    /\ "refs" \in DOMAIN x =>
           /\ Identity!RefIdentities(y.refs) = Identity!RefIdentities(x.refs)
           /\ ToSet(y.refs) = ToSet(x.refs) /\ (y.refs = <<>> <=> x.refs = <<>>)

\* What the normalization for storage changes of an event.
LEMMA NormalizedEvents ==
  ASSUME NEW e, "about" \in DOMAIN e, "payload" \in DOMAIN e.about
  PROVE  LET n == Identity!Normalized(e)
         IN  /\ DOMAIN n = DOMAIN e /\ DOMAIN n.about = DOMAIN e.about
             /\ \A f \in DOMAIN e \ {"about"} : n[f] = e[f]
             /\ \A f \in DOMAIN e.about \ {"payload"} : n.about[f] = e.about[f]
             /\ DOMAIN n.about.payload = DOMAIN e.about.payload
             /\ \A f \in DOMAIN e.about.payload \ {"text", "refs"} :
                    n.about.payload[f] = e.about.payload[f]
             /\ "text" \in DOMAIN e.about.payload =>
                    n.about.payload.text = Identity!Displayed(e.about.payload.text)
             /\ "refs" \in DOMAIN e.about.payload =>
                    n.about.payload.refs = Identity!Stored(e.about.payload.refs)
<1> DEFINE Changed(p) == [f \in DOMAIN p |->
               CASE f = "text" -> Identity!Displayed(p[f])
                 [] f = "refs" -> Identity!Stored(p[f]) [] OTHER -> p[f]]
<1>1. PICK p, a : p = e.about.payload /\ a = e.about
  OBVIOUS
<1>2. PICK changed : changed = Changed(p)
  OBVIOUS
<1>3. /\ DOMAIN changed = DOMAIN p
      /\ \A f \in DOMAIN p \ {"text", "refs"} : changed[f] = p[f]
      /\ "text" \in DOMAIN p => changed.text = Identity!Displayed(p.text)
      /\ "refs" \in DOMAIN p => changed.refs = Identity!Stored(p.refs)
  BY <1>2
<1>4. Identity!Normalized(e) = [e EXCEPT !.about.payload = changed]
  BY <1>1, <1>2 DEF Identity!Normalized
<1> HIDE DEF Changed
<1>5. /\ DOMAIN Identity!Normalized(e) = DOMAIN e
      /\ DOMAIN Identity!Normalized(e).about = DOMAIN e.about
      /\ Identity!Normalized(e).about.payload = changed
      /\ \A f \in DOMAIN e \ {"about"} : Identity!Normalized(e)[f] = e[f]
      /\ \A f \in DOMAIN e.about \ {"payload"} : Identity!Normalized(e).about[f] = e.about[f]
  BY <1>4
<1> QED
  BY <1>1, <1>3, <1>5

\* Events that match are stored as events that match, but for their entities.
LEMMA NormalizedMatch ==
  ASSUME NEW e, NEW f, EventsMatch(e, f), NEW m, m = Identity!Normalized(e),
         NEW n, n = Identity!Normalized(f)
  PROVE  /\ DOMAIN m = DOMAIN e /\ DOMAIN n = DOMAIN f
         /\ m.type = e.type /\ n.type = e.type
         /\ m.snapshot = e.snapshot /\ n.snapshot = e.snapshot
         /\ DOMAIN m.about = {"entity_type", "entity", "payload"}
         /\ DOMAIN n.about = {"entity_type", "entity", "payload"}
         /\ m.about.entity_type = e.about.entity_type
         /\ n.about.entity_type = e.about.entity_type
         /\ e.type \in Verdicts => n.about.entity = m.about.entity
         /\ DOMAIN m.about.payload = DOMAIN e.about.payload
         /\ \A g \in DOMAIN e.about.payload \ {"text", "refs"} :
                m.about.payload[g] = e.about.payload[g]
         /\ CanonicalsMatch(m.about.payload, n.about.payload)
<1>1. PICK x, y : x = e.about.payload /\ y = f.about.payload
  OBVIOUS
<1>2. /\ {"type", "snapshot", "id", "about"} \subseteq DOMAIN e
      /\ {"type", "snapshot", "id", "about"} \subseteq DOMAIN f
      /\ f.type = e.type /\ f.snapshot = e.snapshot
      /\ DOMAIN e.about = {"entity_type", "entity", "payload"}
      /\ DOMAIN f.about = {"entity_type", "entity", "payload"}
      /\ f.about.entity_type = e.about.entity_type
      /\ e.type \in Verdicts => f.about.entity = e.about.entity
      /\ PayloadsMatch(x, y)
  BY <1>1 DEF EventsMatch, AreTheSame
<1>3. /\ DOMAIN m = DOMAIN e /\ DOMAIN m.about = DOMAIN e.about
      /\ \A g \in DOMAIN e \ {"about"} : m[g] = e[g]
      /\ \A g \in DOMAIN e.about \ {"payload"} : m.about[g] = e.about[g]
      /\ DOMAIN m.about.payload = DOMAIN x
      /\ \A g \in DOMAIN x \ {"text", "refs"} : m.about.payload[g] = x[g]
      /\ "text" \in DOMAIN x => m.about.payload.text = Identity!Displayed(x.text)
      /\ "refs" \in DOMAIN x => m.about.payload.refs = Identity!Stored(x.refs)
  BY <1>1, <1>2, NormalizedEvents
<1>4. /\ DOMAIN n = DOMAIN f /\ DOMAIN n.about = DOMAIN f.about
      /\ \A g \in DOMAIN f \ {"about"} : n[g] = f[g]
      /\ \A g \in DOMAIN f.about \ {"payload"} : n.about[g] = f.about[g]
      /\ DOMAIN n.about.payload = DOMAIN y
      /\ \A g \in DOMAIN y \ {"text", "refs"} : n.about.payload[g] = y[g]
      /\ "text" \in DOMAIN y => n.about.payload.text = Identity!Displayed(y.text)
      /\ "refs" \in DOMAIN y => n.about.payload.refs = Identity!Stored(y.refs)
  BY <1>1, <1>2, NormalizedEvents
<1>5. /\ m.type = e.type /\ n.type = e.type
      /\ m.snapshot = e.snapshot /\ n.snapshot = e.snapshot
      /\ m.about.entity_type = e.about.entity_type
      /\ n.about.entity_type = e.about.entity_type
      /\ e.type \in Verdicts => n.about.entity = m.about.entity
  BY <1>2, <1>3, <1>4
<1>6. CanonicalsMatch(m.about.payload, n.about.payload)
  <2>1. "refs" \in DOMAIN x =>
            /\ Identity!RefIdentities(Identity!Stored(x.refs)) =
                   Identity!RefIdentities(Identity!Stored(y.refs))
            /\ ToSet(Identity!Stored(x.refs)) = ToSet(Identity!Stored(y.refs))
            /\ Identity!Stored(x.refs) = <<>> <=> Identity!Stored(y.refs) = <<>>
    BY <1>2, StoredAreTheSame DEF PayloadsMatch
  <2>2. \A g \in DOMAIN x \ {"refs"} : n.about.payload[g] = m.about.payload[g]
    BY <1>2, <1>3, <1>4 DEF PayloadsMatch
  <2>3. DOMAIN n.about.payload = DOMAIN m.about.payload /\ DOMAIN y = DOMAIN x
    BY <1>2, <1>3, <1>4 DEF PayloadsMatch
  <2> QED
    BY <1>3, <1>4, <2>1, <2>2, <2>3 DEF CanonicalsMatch
<1> QED
  BY <1>1, <1>2, <1>3, <1>4, <1>5, <1>6

\* Payloads that match mean the same, whichever type of event they are from.
LEMMA PayloadsMeanTheSame ==
  ASSUME NEW x, NEW y, CanonicalsMatch(x, y), NEW type, IdentifyingFields(type) \subseteq DOMAIN x
  PROVE  /\ y.text = x.text
         /\ type \in {"observation.proposed"} \cup Verdicts =>
                /\ y.status = x.status /\ y.class = x.class
                /\ Identity!RefIdentities(y.refs) = Identity!RefIdentities(x.refs)
         /\ type = "hypothesis.proposed" =>
                Identity!RefIdentities(y.refs) = Identity!RefIdentities(x.refs)
         /\ type = "question.opened" => y.related = x.related
         /\ type = "issue.proposed" =>
                /\ y.observation_ids = x.observation_ids /\ y.question_ids = x.question_ids
                /\ y.severity = x.severity /\ y.rule_ref = x.rule_ref
         /\ type = "candidate.proposed" =>
                /\ y.type = x.type /\ y.scope = x.scope
                /\ Identity!RefIdentities(y.refs) = Identity!RefIdentities(x.refs)
BY DEF CanonicalsMatch, IdentifyingFields, Verdicts

\* What the meaning of an event is made of.
LEMMA MeaningDependsOn ==
  ASSUME NEW m, NEW n, n.type = m.type,
         m.type \in Verdicts => n.about.entity = m.about.entity,
         IdentifyingFields(m.type) \subseteq DOMAIN m.about.payload,
         CanonicalsMatch(m.about.payload, n.about.payload), Identity!HasMeaning(m)
  PROVE  Identity!HasMeaning(n) /\ Identity!Meaning(n) = Identity!Meaning(m)
<1>1. PICK x, y, type : x = m.about.payload /\ y = n.about.payload /\ type = m.type
  OBVIOUS
<1>2. CASE type = "observation.proposed"
  BY <1>1, <1>2, PayloadsMeanTheSame
  DEF Identity!HasMeaning, Identity!Meaning, Identity!ProposingTypes
<1>3. CASE type \in Verdicts
  BY <1>1, <1>3, PayloadsMeanTheSame
  DEF Identity!HasMeaning, Identity!Meaning, Identity!ProposingTypes, Verdicts
<1>4. CASE type = "hypothesis.proposed"
  BY <1>1, <1>4, PayloadsMeanTheSame
  DEF Identity!HasMeaning, Identity!Meaning, Identity!ProposingTypes
<1>5. CASE type = "question.opened"
  BY <1>1, <1>5, PayloadsMeanTheSame
  DEF Identity!HasMeaning, Identity!Meaning, Identity!ProposingTypes
<1>6. CASE type = "issue.proposed"
  BY <1>1, <1>6, PayloadsMeanTheSame
  DEF Identity!HasMeaning, Identity!Meaning, Identity!ProposingTypes
<1>7. CASE type = "candidate.proposed"
  <2>1. /\ y.type = x.type /\ y.text = x.text /\ y.scope = x.scope
        /\ Identity!RefIdentities(y.refs) = Identity!RefIdentities(x.refs)
        /\ x.type \in Identity!CandidateTypes
    BY <1>1, <1>7, PayloadsMeanTheSame DEF Identity!HasMeaning, Identity!ProposingTypes
  <2>2. Identity!CandidateMeaning(y) = Identity!CandidateMeaning(x)
    BY <2>1 DEF Identity!CandidateMeaning, Identity!CandidateTypes
  <2> QED
    BY <1>1, <1>7, <2>1, <2>2 DEF Identity!HasMeaning, Identity!Meaning
<1> QED
  BY <1>1, <1>2, <1>3, <1>4, <1>5, <1>6, <1>7
  DEF Identity!HasMeaning, Identity!ProposingTypes, Verdicts

\* What canonicalizing leaves of a normalized event, and what it makes of it.
LEMMA CanonicalEvents ==
  ASSUME NEW e, NEW m, m = Identity!Normalized(e), m.type = e.type, Identity!IsFounded(e),
         {"id", "about", "type", "snapshot"} \subseteq DOMAIN m,
         DOMAIN m.about = {"entity_type", "entity", "payload"}
  PROVE  LET c == Identity!Canonical(e)
         IN  /\ c.type = m.type /\ c.snapshot = m.snapshot
             /\ c.about.entity_type = m.about.entity_type
             /\ c.about.payload = m.about.payload
             /\ e.type \in Identity!CanonicalTypes =>
                    /\ c.about.entity = Identity!EntityId(m)
                    /\ c.id = <<"semantic", <<e.type, e.about.entity_type, e.snapshot,
                                              Identity!Meaning(m)>>>>
<1> DEFINE id == <<"semantic", <<e.type, e.about.entity_type, e.snapshot, Identity!Meaning(m)>>>>
<1>1. CASE e.type \notin Identity!CanonicalTypes
  BY <1>1 DEF Identity!Canonical
<1>2. CASE e.type \in Identity!CanonicalTypes
  <2>1. PICK entity, other : entity = Identity!EntityId(m) /\ other = id
    OBVIOUS
  <2>2. Identity!Canonical(e) = [m EXCEPT !.about.entity = entity, !.id = other]
    BY <1>2, <2>1 DEF Identity!Canonical
  <2> HIDE DEF id
  <2>3. /\ Identity!Canonical(e).id = other
        /\ Identity!Canonical(e).about.entity = entity
        /\ Identity!Canonical(e).about.payload = m.about.payload
        /\ Identity!Canonical(e).about.entity_type = m.about.entity_type
        /\ Identity!Canonical(e).type = m.type
        /\ Identity!Canonical(e).snapshot = m.snapshot
    BY <2>2
  <2> QED
    BY <2>1, <2>3 DEF id
<1> QED
  BY <1>1, <1>2

\* What the validator of references looks at.
LEMMA IssuesDependOn ==
  ASSUME NEW c, NEW d, d.type = c.type, d.snapshot = c.snapshot,
         Binding!CheckedRefs(d) = <<>> <=> Binding!CheckedRefs(c) = <<>>,
         ToSet(Binding!CheckedRefs(d)) = ToSet(Binding!CheckedRefs(c))
  PROVE  Binding!SourceIssues(d) = Binding!SourceIssues(c)
<1>1. \A r : Binding!RefIssues(d, r) = Binding!RefIssues(c, r)
  BY DEF Binding!RefIssues, Binding!When
<1>2. Binding!ToSet(Binding!CheckedRefs(d)) = Binding!ToSet(Binding!CheckedRefs(c))
  BY DEF Binding!ToSet, ToSet
<1>3. {Binding!RefIssues(d, r) : r \in Binding!ToSet(Binding!CheckedRefs(d))} =
          {Binding!RefIssues(c, r) : r \in Binding!ToSet(Binding!CheckedRefs(c))}
  BY <1>1, <1>2
<1> QED
  BY <1>3 DEF Binding!SourceIssues, Binding!When

\* In events that match, the same is found wrong.
LEMMA SameIssues ==
  ASSUME NEW e, NEW f, EventsMatch(e, f), e.type # "hypothesis.supported"
  PROVE  IssuesOf(e) = IssuesOf(f)
<1>1. PICK m, n, c, d : /\ m = Identity!Normalized(e) /\ n = Identity!Normalized(f)
                        /\ c = Identity!Canonical(e) /\ d = Identity!Canonical(f)
  OBVIOUS
<1>2. Identity!IsFounded(e) /\ Identity!IsFounded(f)
  BY DEF EventsMatch, Identity!IsFounded
<1>3. /\ m.type = e.type /\ n.type = f.type
      /\ n.type = m.type /\ n.snapshot = m.snapshot
      /\ {"id", "about", "type", "snapshot"} \subseteq DOMAIN m
      /\ {"id", "about", "type", "snapshot"} \subseteq DOMAIN n
      /\ DOMAIN m.about = {"entity_type", "entity", "payload"}
      /\ DOMAIN n.about = {"entity_type", "entity", "payload"}
      /\ n.about.entity_type = m.about.entity_type
      /\ CanonicalsMatch(m.about.payload, n.about.payload)
      /\ m.about.entity_type \in CitingTypes => "refs" \in DOMAIN m.about.payload
  BY <1>1, NormalizedMatch DEF EventsMatch, AreTheSame
<1>4. /\ c.type = m.type /\ c.snapshot = m.snapshot
      /\ c.about.entity_type = m.about.entity_type /\ c.about.payload = m.about.payload
  BY <1>1, <1>2, <1>3, CanonicalEvents
<1>5. /\ d.type = n.type /\ d.snapshot = n.snapshot
      /\ d.about.entity_type = n.about.entity_type /\ d.about.payload = n.about.payload
  BY <1>1, <1>2, <1>3, CanonicalEvents
<1>6. /\ Binding!CheckedRefs(d) = <<>> <=> Binding!CheckedRefs(c) = <<>>
      /\ ToSet(Binding!CheckedRefs(d)) = ToSet(Binding!CheckedRefs(c))
  BY <1>3, <1>4, <1>5 DEF Binding!CheckedRefs, CitingTypes, CanonicalsMatch
<1>7. Binding!SourceIssues(d) = Binding!SourceIssues(c)
  BY <1>3, <1>4, <1>5, <1>6, IssuesDependOn
<1> QED
  BY <1>1, <1>2, <1>7 DEF IssuesOf

\* Events that match have the same identity, if they have a meaning.
LEMMA SameIdentity ==
  ASSUME NEW e, NEW f, EventsMatch(e, f), Identity!HasMeaning(e)
  PROVE  /\ Identity!Canonical(e).id = Identity!Canonical(f).id
         /\ Identity!Canonical(e).about.entity = Identity!Canonical(f).about.entity
         /\ Identity!Equivalent(e, f)
<1>1. PICK m, n : m = Identity!Normalized(e) /\ n = Identity!Normalized(f)
  OBVIOUS
<1>2. e.type \in Identity!ProposingTypes \cup Verdicts
  BY DEF Identity!HasMeaning, Identity!ProposingTypes, Verdicts
<1>3. /\ e.type \in Identity!CanonicalTypes /\ f.type = e.type
      /\ Identity!IsFounded(e) /\ Identity!IsFounded(f)
  BY <1>2 DEF EventsMatch, Identity!ProposingTypes, Verdicts, Identity!CanonicalTypes,
              Identity!IsFounded
<1>4. /\ m.type = e.type /\ n.type = e.type
      /\ f.snapshot = e.snapshot /\ f.about.entity_type = e.about.entity_type
      /\ m.snapshot = e.snapshot /\ n.snapshot = e.snapshot
      /\ {"id", "about", "type", "snapshot"} \subseteq DOMAIN m
      /\ {"id", "about", "type", "snapshot"} \subseteq DOMAIN n
      /\ DOMAIN m.about = {"entity_type", "entity", "payload"}
      /\ DOMAIN n.about = {"entity_type", "entity", "payload"}
      /\ m.about.entity_type = e.about.entity_type
      /\ n.about.entity_type = e.about.entity_type
      /\ e.type \in Verdicts => n.about.entity = m.about.entity
      /\ IdentifyingFields(e.type) \subseteq DOMAIN m.about.payload
      /\ \A g \in DOMAIN m.about.payload \ {"text", "refs"} :
             m.about.payload[g] = e.about.payload[g]
      /\ CanonicalsMatch(m.about.payload, n.about.payload)
  BY <1>1, NormalizedMatch DEF EventsMatch, AreTheSame
<1>5. Identity!HasMeaning(m)
  <2>1. e.type = "candidate.proposed" => m.about.payload.type = e.about.payload.type
    BY <1>4 DEF IdentifyingFields
  <2> QED
    BY <1>4, <2>1 DEF Identity!HasMeaning
<1>6. Identity!HasMeaning(n) /\ Identity!Meaning(n) = Identity!Meaning(m)
  BY <1>4, <1>5, MeaningDependsOn
<1>7. Identity!EntityId(n) = Identity!EntityId(m)
  <2>1. CASE e.type \in Identity!ProposingTypes
    BY <1>4, <1>5, <1>6, <2>1 DEF Identity!EntityId
  <2>2. CASE e.type \in Verdicts
    BY <1>4, <2>2 DEF Identity!EntityId, Identity!ProposingTypes, Verdicts
  <2> QED
    BY <1>2, <2>1, <2>2
<1>8. /\ Identity!Canonical(e).about.entity = Identity!EntityId(m)
      /\ Identity!Canonical(e).id = <<"semantic", <<e.type, e.about.entity_type, e.snapshot,
                                                    Identity!Meaning(m)>>>>
  BY <1>1, <1>3, <1>4, CanonicalEvents
<1>9. /\ Identity!Canonical(f).about.entity = Identity!EntityId(n)
      /\ Identity!Canonical(f).id = <<"semantic", <<f.type, f.about.entity_type, f.snapshot,
                                                    Identity!Meaning(n)>>>>
  BY <1>1, <1>3, <1>4, CanonicalEvents
<1>10. Identity!Equivalent(e, f)
  BY <1>1, <1>3, <1>4, <1>6 DEF Identity!Equivalent
<1> QED
  BY <1>3, <1>4, <1>6, <1>7, <1>8, <1>9, <1>10

\* The answer that is given again.
Retold == [input.answer EXCEPT !.events = [i \in DOMAIN @ |-> Reworded(@[i])]]

(***************************************************************************)
(* What is known of an answer and of the same answer given again.  Once    *)
(* the validators have seen both, neither is read another time.            *)
(***************************************************************************)
RetriedInv ==
    Begun("answer") =>
        /\ DOMAIN outcome = {"codex", "claude", "again", "codes"}
        /\ outcome.codex = Transport!CodexEvents(Context, input.answer, 1)
        /\ outcome.again # Raised => outcome.again = Transport!CodexEvents(Context, Retold, 4)
        /\ outcome.codes # <<>> =>
               /\ Raised \notin {outcome.codex, outcome.again}
               /\ outcome.codes =
                      [i \in DOMAIN outcome.codex |->
                          [codex |-> IssuesOf(outcome.codex[i]),
                           again |-> IssuesOf(outcome.again[i])]]

\* An answer that is given again is the one that was read, reworded.
LEMMA RetriedInvHolds == Spec => []RetriedInv
<1>1. Init => RetriedInv
  BY DEF Init, RetriedInv, Begun
<1>2. RetriedInv /\ ReadAnswer => RetriedInv'
  BY DEF RetriedInv, Begun, ReadAnswer, About, Context
<1>3. ASSUME RetriedInv, RetryAnswer PROVE RetriedInv'
  <2>1. /\ input' = input /\ Begun("answer")
        /\ outcome.again = Raised
        /\ outcome' = [outcome EXCEPT !.again = Transport!CodexEvents(Context, Retold, 4)]
    BY <1>3 DEF RetryAnswer, About, Begun, Retold
  <2>2. /\ DOMAIN outcome = {"codex", "claude", "again", "codes"}
        /\ outcome.codex = Transport!CodexEvents(Context, input.answer, 1)
        /\ outcome.codes = <<>>
    BY <1>3, <2>1 DEF RetriedInv
  <2>3. /\ DOMAIN outcome' = {"codex", "claude", "again", "codes"}
        /\ outcome'.codex = outcome.codex /\ outcome'.codes = <<>>
        /\ outcome'.again = Transport!CodexEvents(Context, Retold, 4)
    BY <2>1, <2>2
  <2> QED
    BY <2>1, <2>2, <2>3 DEF RetriedInv, Context, Retold
<1>4. ASSUME RetriedInv, BindAnswers PROVE RetriedInv'
  <2> DEFINE found == [i \in DOMAIN outcome.codex |->
                          [codex |-> IssuesOf(outcome.codex[i]),
                           again |-> IssuesOf(outcome.again[i])]]
  <2>1. /\ input' = input /\ Begun("answer")
        /\ Raised \notin {outcome.codex, outcome.again}
        /\ outcome' = [outcome EXCEPT !.codes = found]
    BY <1>4 DEF BindAnswers, About, Begun
  <2>2. PICK codes : codes = found
    OBVIOUS
  <2>3. /\ DOMAIN outcome = {"codex", "claude", "again", "codes"}
        /\ outcome.codex = Transport!CodexEvents(Context, input.answer, 1)
        /\ outcome.again = Transport!CodexEvents(Context, Retold, 4)
    BY <1>4, <2>1 DEF RetriedInv
  <2>4. /\ DOMAIN outcome' = {"codex", "claude", "again", "codes"}
        /\ outcome'.codex = outcome.codex /\ outcome'.again = outcome.again
        /\ outcome'.codes = codes
    <3> HIDE DEF found
    <3> QED
      BY <2>1, <2>2, <2>3
  <2>5. Context' = Context /\ Retold' = Retold
    BY <2>1 DEF Context, Retold
  <2> QED
    BY <2>1, <2>2, <2>3, <2>4, <2>5 DEF RetriedInv
<1>5. RetriedInv /\ [Next]_vars /\ ~(ReadAnswer \/ BindAnswers \/ RetryAnswer) => RetriedInv'
  BY StepsAreAbout DEF RetriedInv, Begun, vars, About, Context, Retold
<1> QED
  BY <1>1, <1>2, <1>3, <1>4, <1>5, PTL DEF Spec

(***************************************************************************)
(* An answer given again in other words is told from no other: whatever    *)
(* was read, each of its events that has a meaning has the id and the      *)
(* entity it had before, and the same is found wrong with each.            *)
(***************************************************************************)
THEOREM RetriesAreRecognized == Spec => []RetriedAnswersAreDuplicates
<1>1. InputInv /\ RetriedInv => RetriedAnswersAreDuplicates
  <2> SUFFICES ASSUME InputInv, RetriedInv, Begun("answer"),
                      Raised \notin {outcome.codex, outcome.again},
                      NEW i \in DOMAIN outcome.codex
               PROVE  LET first == Identity!Canonical(outcome.codex[i])
                          second == Identity!Canonical(outcome.again[i])
                      IN  /\ outcome.codes # <<>> =>
                                 outcome.codes[i].codex = outcome.codes[i].again
                          /\ \/ first = Refused /\ second = Refused
                             \/ ~Identity!HasMeaning(outcome.codex[i])
                             \/ /\ first.id = second.id
                                /\ first.about.entity = second.about.entity
                                /\ Identity!Equivalent(outcome.codex[i], outcome.again[i])
    BY DEF RetriedAnswersAreDuplicates
  <2>1. PICK event, e, f : /\ event = input.answer.events[i]
                           /\ e = outcome.codex[i] /\ f = outcome.again[i]
    OBVIOUS
  <2>2. outcome.codes # <<>> =>
            outcome.codes[i].codex = IssuesOf(e) /\ outcome.codes[i].again = IssuesOf(f)
    BY <2>1 DEF RetriedInv
  <2>3. /\ i \in DOMAIN input.answer.events
        /\ Transport!Normalizes(Context, event, i)
        /\ e = Transport!NormalizedEvent(Context, event, i, 1)
    BY <2>1 DEF RetriedInv, Transport!CodexEvents
  <2>4. /\ Transport!Normalizes(Context, Reworded(event), i)
        /\ f = Transport!NormalizedEvent(Context, Reworded(event), i, 4)
    <3>1. "events" \in DOMAIN input.answer
      BY ContractsAssumption DEF InputInv, Begun, AnswerInput
    <3>2. /\ DOMAIN Retold.events = DOMAIN input.answer.events
          /\ Retold.events[i] = Reworded(event)
      BY <2>1, <2>3, <3>1 DEF Retold
    <3> QED
      BY <2>1, <2>3, <3>2 DEF RetriedInv, Transport!CodexEvents
  <2>5. CASE event.form = "internal"
    BY <2>1, <2>2, <2>3, <2>4, <2>5
    DEF Reworded, Transport!NormalizedEvent, Identity!Equivalent
  <2>6. CASE event.form # "internal"
    <3>1. EventsMatch(e, f) /\ e.type # "hypothesis.supported"
      <4>1. /\ IsTransported(event)
            /\ \A o \in DOMAIN Context.observations :
                   {"status", "text", "refs", "class"} \subseteq DOMAIN Context.observations[o]
        <5>1. event \in ToSet(input.answer.events)
          BY <2>1, <2>3 DEF ToSet
        <5>2. Context.observations = input.context.observations
          BY DEF Context
        <5>3. AnswerInput(input)
          BY ContractsAssumption DEF InputInv, Begun
        <5> QED
          BY <2>6, <5>1, <5>2, <5>3 DEF AnswerInput, IsTransported
      <4>2. /\ Reworded(event).form = event.form /\ Reworded(event).type = event.type
            /\ SayTheSame(event.payload, Reworded(event).payload)
        BY <4>1, RewordedSaysTheSame
      <4>3. /\ Transport!EntityOf(Context, event, i) # Raised
            /\ Transport!EntityOf(Context, Reworded(event), i) # Raised
        BY <2>3, <2>4, <2>6, <4>2 DEF Transport!Normalizes
      <4>4. AreTheSame(event.type, Transport!EntityOf(Context, event, i),
                       Transport!EntityOf(Context, Reworded(event), i))
        BY <4>1, <4>2, <4>3, RewordedEntities
      <4>5. /\ e = Transport!Internal(Context, event, i, 1)
            /\ f = Transport!Internal(Context, Reworded(event), i, 4)
        BY <2>3, <2>4, <2>6, <4>2 DEF Transport!NormalizedEvent
      <4>6. event.type # "hypothesis.supported"
        BY <4>3 DEF Transport!EntityOf
      <4> QED
        BY <4>2, <4>4, <4>5, <4>6 DEF EventsMatch, Transport!Internal
    <3>2. IssuesOf(e) = IssuesOf(f)
      BY <3>1, SameIssues
    <3>3. \/ ~Identity!HasMeaning(e)
          \/ /\ Identity!Canonical(e).id = Identity!Canonical(f).id
             /\ Identity!Canonical(e).about.entity = Identity!Canonical(f).about.entity
             /\ Identity!Equivalent(e, f)
      BY <3>1, SameIdentity
    <3> QED
      BY <2>1, <2>2, <3>2, <3>3
  <2> QED
    BY <2>5, <2>6
<1> QED
  BY <1>1, InputStays, RetriedInvHolds, PTL

=============================================================================
