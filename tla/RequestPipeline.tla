-------------------------- MODULE RequestPipeline --------------------------
(***************************************************************************)
(* One request through the orchestrator: the scope gate, the explicit      *)
(* parameter checks, the topology check, the requirement agent with its    *)
(* bounded retries against an untrusted language model, the deterministic  *)
(* tools and the final reporter.                                           *)
(*                                                                         *)
(* A request text is what the pattern matchers read off it; a model answer *)
(* is what the typed decision makes of it.                                 *)
(***************************************************************************)
EXTENDS Integers, Sequences, FiniteSets

CONSTANTS
  MaxRetries,    \* max_retries of the RequirementAgent
  Requests,      \* the user requests, see Request
  Answers,       \* the structured outputs the model may give, see Answer
  Latencies,     \* latency_slots a schedule may have
  ScopeModes,    \* scope_mode of the Orchestrator
  Provider       \* "ollama", "openai_compatible" or "openai"

None == "none"
CollisionModels == {"legacy_neighbor", "interference_range"}
RequiredTools == {"inspect_network", "run_anex", "validate_schedule",
                  "measure_schedule"}
ApprovedTools == RequiredTools \cup {"explain_violations"}
Statuses == {"EXECUTE", "CLARIFY", "REJECT", "UNSUPPORTED"}

(* What evaluate_scope_policy and explicit_request_fields find in the      *)
(* text, after defaults: the fields the requester is entitled to.  The     *)
(* seven fields the model drafts are its collision model, its latency      *)
(* target and the rest.  The topology is None, a network ANEX handles, a   *)
(* chain that needs more working periods than the tool allows, or a        *)
(* network whose sink is not node 0.                                       *)
Request ==
  [supported : BOOLEAN,        \* no pattern of the scope policy matches
   blank : BOOLEAN,            \* whitespace only
   invalid : BOOLEAN,          \* an explicit value is outside its domain
   contradicts : BOOLEAN,      \* an explicit period or range is not the topology's
   model : CollisionModels,
   target : {0} \cup Latencies,  \* 0: no latency target
   topology : {None, "ordinary", "long_chain", "other_sink"}]

(* The strict subset has no optional property: an unstated one is null.    *)
Nullable(values) == values \cup {"null"}

(* A structured output that parses.  In its request null stands for a      *)
(* field left to its default, and "forbidden" for a draft that carries a   *)
(* network or a schedule.                                                  *)
Draft ==
  [model : Nullable(CollisionModels),
   target : {0} \cup Latencies,
   rest : {"as_stated", "altered", "malformed", "forbidden"}]

NoDraft == [model |-> "null", target |-> 0, rest |-> None]

Answer ==
  [status : Statuses,
   request : {NoDraft} \cup Draft,
   questions : SUBSET {"topology", "network", "other"},
   tools : SUBSET (ApprovedTools \cup {"unapproved"})]

(* What comes of one request to the provider: a JSON object with or        *)
(* without content of the schema, a body that is not JSON, an HTTP status, *)
(* or no answer.                                                           *)
Reply == {"content", "no_content", "not_json", "refused", "not_found", "failed",
          "timeout", "unreachable"}

json_http_post(reply) ==
  CASE reply \in {"refused", "failed"} -> "HTTP_PROVIDER_ERROR"
    [] reply = "not_found" -> "MODEL_UNAVAILABLE"
    [] reply = "timeout" -> "PROVIDER_TIMEOUT"
    [] reply = "unreachable" -> "PROVIDER_UNAVAILABLE"
    [] reply = "not_json" -> "MALFORMED_PROVIDER_RESPONSE"
    [] OTHER -> None

ClientError(reply) ==
  IF reply = "no_content" THEN "MALFORMED_STRUCTURED_OUTPUT" ELSE json_http_post(reply)

ClientErrors == {ClientError(reply) : reply \in Reply} \ {None}

(* Failures of the client, which the agent answers alike, and outputs that *)
(* are not of the decision's shape.                                        *)
Failures == {"CLIENT_ERROR", "MALFORMED_LLM_OUTPUT"}

ASSUME ProviderAssumption == Provider \in {"ollama", "openai_compatible", "openai"}
ASSUME RetryAssumption == MaxRetries \in 0 .. 2
ASSUME RequestAssumption == Requests \subseteq Request
ASSUME AnswerAssumption == Answers \subseteq Answer
ASSUME LatencyAssumption == Latencies \subseteq Nat \ {0}
ASSUME ModeAssumption == ScopeModes \subseteq {"enforcing", "advisory", "off"}

VARIABLES
  req,          \* the request and its topology
  mode,         \* scope_mode
  pc,           \* the stage the pipeline is in
  attempt,      \* attempt of RequirementAgent.analyze
  correction,   \* correction sent with the next prompt
  logs,         \* LLMInteractionLog records
  httpCalls,    \* requests sent to the provider
  decision,     \* the accepted AgentDecision
  result,       \* the schedule of run_anex and what is known about it
  trace,        \* tool_trace
  report        \* the OrchestrationReport

gate  == <<req, mode>>
agent == <<attempt, correction, logs, httpCalls, decision>>
tools == <<result, trace>>
vars  == <<gate, pc, agent, tools, report>>

NoDecision == [status |-> None, request |-> NoDraft, questions |-> {}, tools |-> {}]

NoResult == [latency |-> 0, validated |-> None,
             valid |-> [m \in CollisionModels |-> FALSE]]

NoReport == [status |-> None, error |-> None, questions |-> {}, satisfied |-> None]

Init ==
  /\ req \in Requests
  /\ mode \in ScopeModes
  /\ pc = "scope"
  /\ attempt = 0
  /\ correction = <<None, None>>
  /\ logs = <<>>
  /\ httpCalls = 0
  /\ decision = NoDecision
  /\ result = NoResult
  /\ trace = <<>>
  /\ report = NoReport

Conclude(status, error) ==
  /\ pc' = "done"
  /\ report' = [NoReport EXCEPT !.status = status, !.error = error]

-----------------------------------------------------------------------------
(* Stages before the model.                                                *)

GateRejects ==
  /\ pc = "scope"
  /\ mode = "enforcing" /\ ~ req.supported
  /\ Conclude("UNSUPPORTED", "SCOPE")
  /\ UNCHANGED <<gate, agent, tools>>

(* Mutation of GatePasses: the gate has no authority in any mode.          *)
GateAdvises ==
  /\ pc = "scope"
  /\ pc' = "explicit"
  /\ UNCHANGED <<gate, agent, tools, report>>

GatePasses ==
  /\ pc = "scope"
  /\ mode # "enforcing" \/ req.supported
  /\ pc' = "explicit"
  /\ UNCHANGED <<gate, agent, tools, report>>

ExplicitInvalid ==
  /\ pc = "explicit"
  /\ req.invalid
  /\ Conclude("REJECT", "INVALID_EXPLICIT_VALUE")
  /\ UNCHANGED <<gate, agent, tools>>

AskTopology ==
  /\ pc = "explicit"
  /\ ~ req.invalid
  /\ req.topology = None
  /\ pc' = "done"
  /\ report' = [NoReport EXCEPT !.status = "CLARIFY",
                                !.error = "MISSING_TOPOLOGY",
                                !.questions = {"topology"}]
  /\ UNCHANGED <<gate, agent, tools>>

(* A blank request gets no prompt and no log.                              *)
BlankRequest ==
  /\ pc = "explicit"
  /\ ~ req.invalid /\ req.topology # None
  /\ req.blank
  /\ Conclude("REJECT", "INVALID_USER_REQUEST")
  /\ UNCHANGED <<gate, agent, tools>>

CallModel ==
  /\ pc = "explicit"
  /\ ~ req.invalid /\ req.topology # None
  /\ ~ req.blank
  /\ pc' = "calling"
  /\ httpCalls' = httpCalls + 1
  /\ UNCHANGED <<gate, attempt, correction, logs, decision, tools, report>>

-----------------------------------------------------------------------------
(* RequirementAgent.analyze.                                               *)

(* The strict schema is refused: the client asks for a plain JSON object.  *)
(* Ollama takes the schema as a grammar and has nothing to fall back to.   *)
FallBackToJson ==
  /\ pc = "calling" /\ Provider # "ollama"
  /\ pc' = "calling_json"
  /\ httpCalls' = httpCalls + 1
  /\ UNCHANGED <<gate, attempt, correction, logs, decision, tools, report>>

Calling == pc \in {"calling", "calling_json"}

(* from_llm_dict, on a request bound to the caller's network.              *)
Bound(d) == [d EXCEPT !.model = IF @ = "null" THEN "legacy_neighbor" ELSE @]

(* SchedulingRequest refuses the field.                                    *)
Mistyped(d) == d.rest = "malformed"

FieldsMatch(d) ==
  /\ Bound(d).model = req.model
  /\ d.target = req.target
  /\ d.rest = "as_stated"
  /\ ~ req.contradicts

(* The error code of an answer, None for one that is accepted.             *)
DecisionError(a) ==
  IF a.request.rest = "forbidden" THEN "TOPOLOGY_OR_SCHEDULE_OUTPUT_FORBIDDEN"
  ELSE IF Mistyped(a.request) THEN "INVALID_FIELD"
  ELSE IF ~ (a.tools \subseteq ApprovedTools) THEN "UNAPPROVED_TOOL_CALL"
  ELSE IF a.status = "EXECUTE" /\ a.request = NoDraft THEN "MISSING_SCHEDULING_REQUEST"
  ELSE IF a.status # "EXECUTE" /\ a.request # NoDraft THEN "UNEXPECTED_SCHEDULING_REQUEST"
  ELSE IF a.status = "CLARIFY" /\ a.questions = {} THEN "MISSING_CLARIFICATION_QUESTIONS"
  ELSE IF a.status = "CLARIFY" /\ "topology" \in a.questions THEN "FALSE_MISSING_TOPOLOGY"
  ELSE IF a.request # NoDraft /\ ~ FieldsMatch(a.request) THEN "REQUEST_FIELD_MISMATCH"
  ELSE None

RetryAction(code) ==
  CASE code = "CLIENT_ERROR" -> "RETRY_CLIENT_ERROR"
    [] code = "MALFORMED_LLM_OUTPUT" -> "REFORMAT_STRUCTURED_OUTPUT"
    [] OTHER -> "CORRECT_TYPED_REQUEST"

WillRetry(code) == attempt < MaxRetries /\ code # "FALSE_MISSING_TOPOLOGY"

(* The prompt carries the finding of an advisory gate, the first time and  *)
(* every time, and the correction of the attempt before.                   *)
Advised == mode = "advisory" /\ ~ req.supported
Prompt == [advised |-> Advised, correction |-> correction]

Log(error, action) ==
  [attempt |-> attempt, prompt |-> Prompt, error |-> error, action |-> action]

ReportNonExecute(a) ==
  /\ pc' = "done"
  /\ report' = [NoReport EXCEPT !.status = a.status, !.questions = a.questions]

Accept(a) ==
  /\ Calling
  /\ DecisionError(a) = None
  /\ logs' = Append(logs, Log(None, None))
  /\ decision' = a
  /\ IF a.status # "EXECUTE" THEN ReportNonExecute(a)
                             ELSE pc' = "tools" /\ UNCHANGED report
  /\ UNCHANGED <<gate, attempt, correction, httpCalls, tools>>

(* Mutation of Retry: the next prompt repeats the correction of this one.  *)
RetryUncorrected(code) ==
  /\ Calling
  /\ WillRetry(code)
  /\ logs' = Append(logs, Log(code, RetryAction(code)))
  /\ attempt' = attempt + 1
  /\ pc' = "calling"
  /\ httpCalls' = httpCalls + 1
  /\ UNCHANGED <<gate, correction, decision, tools, report>>

(* An error of the client or of the decision: one more prompt, with a      *)
(* correction, while attempts are left.                                    *)
Retry(code) ==
  /\ Calling
  /\ WillRetry(code)
  /\ logs' = Append(logs, Log(code, RetryAction(code)))
  /\ correction' = <<RetryAction(code), code>>
  /\ attempt' = attempt + 1
  /\ pc' = "calling"
  /\ httpCalls' = httpCalls + 1
  /\ UNCHANGED <<gate, decision, tools, report>>

(* The report names the failure of the client.                             *)
GiveUp(code) ==
  /\ Calling
  /\ ~ WillRetry(code)
  /\ logs' = Append(logs, Log(code, None))
  /\ \E error \in IF code = "CLIENT_ERROR" THEN ClientErrors ELSE {code} :
       Conclude("REJECT", error)
  /\ UNCHANGED <<gate, attempt, correction, httpCalls, decision, tools>>

AnswerErrors == Failures \cup ({DecisionError(a) : a \in Answers} \ {None})

-----------------------------------------------------------------------------
(* The deterministic tools.                                                *)

ToolsMissing ==
  /\ pc = "tools"
  /\ ~ (RequiredTools \subseteq decision.tools)
  /\ Conclude("REJECT", "MISSING_REQUIRED_TOOL_CALL")
  /\ UNCHANGED <<gate, agent, tools>>

Traced(tool, status) == trace' = Append(trace, <<tool, status>>)

Inspect ==
  /\ pc = "tools"
  /\ RequiredTools \subseteq decision.tools
  /\ Traced("inspect_network", "success")
  /\ pc' = "run"
  /\ UNCHANGED <<gate, agent, result, report>>

(* The schedule passes the neighbour model; whether it also passes the     *)
(* interference range depends on the coordinates.                          *)
RunAnex(latency, reaches) ==
  /\ pc = "run"
  /\ req.topology = "ordinary"
  /\ Traced("run_anex", "success")
  /\ result' = [latency |-> latency, validated |-> None,
                valid |-> [m \in CollisionModels |->
                             m = "legacy_neighbor" \/ reaches]]
  /\ pc' = "validate"
  /\ UNCHANGED <<gate, agent, report>>

RunRejected ==
  /\ pc = "run"
  /\ req.topology = "long_chain"
  /\ Traced("run_anex", "domain_failure")
  /\ Conclude("REJECT", "MAX_WORKING_PERIODS_EXCEEDED")
  /\ UNCHANGED <<gate, agent, result>>

RunCrashed ==
  /\ pc = "run"
  /\ req.topology = "other_sink"
  /\ Traced("run_anex", "internal_exception")
  /\ Conclude("REJECT", "INTERNAL_TOOL_EXCEPTION")
  /\ UNCHANGED <<gate, agent, result>>

(* Mutation of Validate: the collision model is the default one.           *)
ValidateDefault ==
  /\ pc = "validate"
  /\ Traced("validate_schedule", "success")
  /\ result' = [result EXCEPT !.validated = "legacy_neighbor"]
  /\ pc' = "measure"
  /\ UNCHANGED <<gate, agent, report>>

(* Under the collision model of the request, not the one run_anex used.    *)
Validate ==
  /\ pc = "validate"
  /\ Traced("validate_schedule", "success")
  /\ result' = [result EXCEPT !.validated = Bound(decision.request).model]
  /\ pc' = "measure"
  /\ UNCHANGED <<gate, agent, report>>

Passed == result.valid[result.validated]

Measure ==
  /\ pc = "measure"
  /\ Traced("measure_schedule", "success")
  /\ pc' = IF ~ Passed /\ "explain_violations" \in decision.tools
           THEN "explain" ELSE "report"
  /\ UNCHANGED <<gate, agent, result, report>>

Explain ==
  /\ pc = "explain"
  /\ Traced("explain_violations", "success")
  /\ pc' = "report"
  /\ UNCHANGED <<gate, agent, result, report>>

-----------------------------------------------------------------------------
(* DeterministicFinalReporter.report_execution.                            *)

(* Mutation of ReportFailure: only an explained failure is reported.       *)
ReportExplainedFailure ==
  /\ pc = "report"
  /\ ~ Passed
  /\ "explain_violations" \in decision.tools
  /\ pc' = "done"
  /\ report' = [NoReport EXCEPT !.status = "REJECT",
                                !.error = "VALIDATION_CERTIFICATE_FAILED",
                                !.satisfied = "no"]
  /\ UNCHANGED <<gate, agent, tools>>

ReportFailure ==
  /\ pc = "report"
  /\ ~ Passed
  /\ pc' = "done"
  /\ report' = [NoReport EXCEPT !.status = "REJECT",
                                !.error = "VALIDATION_CERTIFICATE_FAILED",
                                !.satisfied = "no"]
  /\ UNCHANGED <<gate, agent, tools>>

TargetSatisfied ==
  IF decision.request.target = 0 THEN None
  ELSE IF result.latency <= decision.request.target THEN "yes" ELSE "no"

ReportSuccess ==
  /\ pc = "report"
  /\ Passed
  /\ pc' = "done"
  /\ report' = [NoReport EXCEPT !.status = "EXECUTE", !.satisfied = TargetSatisfied]
  /\ UNCHANGED <<gate, agent, tools>>

-----------------------------------------------------------------------------

Next ==
  \/ GateRejects \/ GatePasses
  \/ ExplicitInvalid \/ AskTopology \/ BlankRequest
  \/ CallModel \/ FallBackToJson
  \/ Calling /\ \/ \E a \in Answers : Accept(a)
                \/ \E code \in AnswerErrors : Retry(code) \/ GiveUp(code)
  \/ ToolsMissing \/ Inspect
  \/ \E l \in Latencies, reaches \in BOOLEAN : RunAnex(l, reaches)
  \/ RunRejected \/ RunCrashed
  \/ Validate \/ Measure \/ Explain
  \/ ReportFailure \/ ReportSuccess

Spec == Init /\ [][Next]_vars /\ WF_vars(Next)
=============================================================================
