------------------------------- MODULE Records -------------------------------
(***************************************************************************)
(* One benchmark item, given to the orchestrated agent or to the           *)
(* rule-based system, the record the experiment runner writes of it, and   *)
(* what the audit and the analysis scripts read from the record.           *)
(***************************************************************************)
EXTENDS RequestProperties

CONSTANTS
  InvalidValues,  \* codes of the values the rule-based workflow refuses
  Readings        \* what the rule-based system reads in a text, see Reading

(* The patterns of the rule-based system are its own, so what it reads is  *)
(* not bound to the fields of Request.                                     *)
Reading ==
  [latency : BOOLEAN,                    \* the objective is minimize_latency
   refused : InvalidValues \cup {None},
   model : CollisionModels,
   target : {0} \cup Latencies]

ASSUME ReadingAssumption == Readings \subseteq Reading

(* Codes that begin with INVALID_, which no other stage uses.              *)
ASSUME InvalidAssumption ==
  InvalidValues \cap {None, "SCOPE", "UNSUPPORTED_OBJECTIVE", "MISSING_TOPOLOGY",
                      "VALIDATION_CERTIFICATE_FAILED", "INTERNAL_EXPERIMENT_EXCEPTION"} = {}

VARIABLE output   \* the SystemRunOutput of an item without a pipeline report

(* parsed_fields: a request with its network, or nothing.                  *)
NotParsed == [network |-> FALSE, model |-> None, target |-> 0]
Parsed(d) == [network |-> TRUE, model |-> d.model, target |-> d.target]

(* scope is the verdict in the scope policy report of the record.          *)
NoOutput ==
  [system |-> "rule_based", action |-> None, success |-> FALSE, failure |-> None,
   error |-> None, asked |-> {}, calls |-> 0, scope |-> None, valid |-> FALSE,
   parsed |-> NotParsed]

RInit == Init /\ output = NoOutput

(* The category of a run that is not, or not altogether, a success.        *)
FailureCategory(success, satisfied, status, error, invalid) ==
  IF success THEN IF satisfied = "no" THEN "latency_target_not_met" ELSE None
  ELSE IF status = "UNSUPPORTED" THEN "unsupported"
  ELSE IF status = "CLARIFY" THEN "clarification_required"
  ELSE IF error = invalid THEN "invalid_schedule"
  ELSE "rejected"

-----------------------------------------------------------------------------
(* RuleBasedBenchmarkSystem.run, which takes the item instead of the agent.*)

Takes ==
  /\ pc = "scope"
  /\ pc' = "recorded"
  /\ UNCHANGED <<gate, agent, tools, report>>

(* An exception out of the system: the runner writes the record itself.    *)
Raised(system) ==
  [NoOutput EXCEPT !.system = system, !.action = "REJECT",
                   !.failure = "internal_exception",
                   !.error = "INTERNAL_EXPERIMENT_EXCEPTION"]

RuleGated ==
  /\ ~ req.supported
  /\ output' = [NoOutput EXCEPT !.action = "UNSUPPORTED", !.error = "SCOPE",
                                  !.failure = "unsupported", !.scope = "refused"]

(* workflow_report_to_output, before a schedule or after.                  *)
RuleReports(r, status, error, asked) ==
  output' = [NoOutput EXCEPT
    !.action = status, !.error = error, !.asked = asked, !.scope = "passed",
    !.failure = FailureCategory(FALSE, None, status, error, "SCHEDULE_VALIDATION_FAILED"),
    !.parsed = Parsed(r)]

(* Mutation of RuleMeasured: a missed latency target is not a success.     *)
RuleMeetsTarget(r, latency, valid) ==
  LET success == valid /\ (r.target = 0 \/ latency <= r.target)
  IN output' = [NoOutput EXCEPT
       !.action = IF valid THEN "EXECUTE" ELSE "REJECT",
       !.error = IF valid THEN None ELSE "SCHEDULE_VALIDATION_FAILED",
       !.success = success, !.failure = IF success THEN None ELSE "rejected",
       !.scope = "passed", !.valid = valid, !.parsed = Parsed(r)]

RuleMeasured(r, latency, valid) ==
  LET satisfied == IF r.target = 0 THEN None
                   ELSE IF latency <= r.target THEN "yes" ELSE "no"
      status == IF valid THEN "EXECUTE" ELSE "REJECT"
      error == IF valid THEN None ELSE "SCHEDULE_VALIDATION_FAILED"
  IN output' = [NoOutput EXCEPT
       !.action = status, !.error = error, !.success = valid,
       !.scope = "passed", !.valid = valid, !.parsed = Parsed(r),
       !.failure = FailureCategory(valid, satisfied, status, error,
                                   "SCHEDULE_VALIDATION_FAILED")]

(* process_request: the critical fields, the objective, the values, and    *)
(* then the same tools the agent has, ending where the first one fails.    *)
RuleClarifies(r) ==
  /\ req.supported
  /\ req.topology = None
  /\ RuleReports(r, "CLARIFY", None, {"topology"})

RuleUnsupported(r) ==
  /\ req.supported
  /\ req.topology # None
  /\ ~ r.latency
  /\ RuleReports(r, "UNSUPPORTED", "UNSUPPORTED_OBJECTIVE", {})

RuleRefuses(r) ==
  /\ req.supported
  /\ req.topology # None /\ r.latency
  /\ r.refused # None
  /\ RuleReports(r, "REJECT", r.refused, {})

RuleScheduling(r) == req.supported /\ r.latency /\ r.refused = None

RuleRejected(r) ==
  /\ RuleScheduling(r)
  /\ req.topology = "long_chain"
  /\ RuleReports(r, "REJECT", "MAX_WORKING_PERIODS_EXCEEDED", {})

RuleSchedules(r, latency, reaches) ==
  /\ RuleScheduling(r)
  /\ req.topology = "ordinary"
  /\ RuleMeasured(r, latency, r.model = "legacy_neighbor" \/ reaches)

(* No DomainError: it leaves the workflow.                                 *)
RuleCrashes(r) ==
  /\ RuleScheduling(r)
  /\ req.topology = "other_sink"
  /\ output' = Raised("rule_based")

RunRuleBased ==
  /\ Takes
  /\ \/ RuleGated
     \/ \E r \in Readings :
          \/ RuleClarifies(r) \/ RuleUnsupported(r) \/ RuleRefuses(r)
          \/ RuleRejected(r) \/ RuleCrashes(r)
          \/ \E l \in Latencies, reaches \in BOOLEAN : RuleSchedules(r, l, reaches)

SCOPE_MODE_SYSTEM_NAMES ==
  [m \in ScopeModes |-> CASE m = "enforcing" -> "llm_agent"
                          [] m = "advisory" -> "llm_agent_advisory_scope_gate"
                          [] m = "off" -> "llm_agent_no_scope_gate"]

(* The client is made for every item; without an API key it cannot be.     *)
ClientNotMade ==
  /\ Takes
  /\ Provider = "openai"
  /\ output' = Raised(SCOPE_MODE_SYSTEM_NAMES[mode])

RNext == RunRuleBased \/ ClientNotMade \/ (Next /\ UNCHANGED output)

(* Every step moves pc or the attempt, so the item's fairness is theirs.   *)
RSpec == RInit /\ [][RNext]_<<vars, output>> /\ WF_<<pc, attempt>>(RNext)

-----------------------------------------------------------------------------
(* The record of the agent: AgentBenchmarkSystem.run on its report.        *)

orchestration_report_to_output ==
  LET valid == result.validated # None /\ Passed
      success == report.status = "EXECUTE" /\ valid
      parsed == decision.request # NoDraft
  IN [system |-> SCOPE_MODE_SYSTEM_NAMES[mode],
      action |-> report.status, error |-> report.error,
      success |-> success, valid |-> valid,
      failure |-> FailureCategory(success, report.satisfied, report.status,
                                  report.error, "VALIDATION_CERTIFICATE_FAILED"),
      asked |-> report.questions, calls |-> Len(logs),
      scope |-> IF mode # "off" /\ ~ req.supported THEN "refused" ELSE "passed",
      parsed |-> IF parsed THEN Parsed(Bound(decision.request)) ELSE NotParsed]

(* What the ledger holds when the item is done.                            *)
Written ==
  IF pc = "done" THEN {orchestration_report_to_output}
  ELSE IF pc = "recorded" THEN {output} ELSE {}

-----------------------------------------------------------------------------
(* audit_ledger_tables.py.                                                 *)

InvalidCodes == InvalidValues \cup {"INVALID_EXPLICIT_VALUE", "INVALID_USER_REQUEST"}
ScopeCodes == {"SCOPE", "UNSUPPORTED_OBJECTIVE"}

(* The stage of a record whose item no model was asked about.              *)
StageBeforeModel(r) ==
  IF r.scope = "refused" /\ r.error \in ScopeCodes THEN "scope_gate"
  ELSE IF r.error \in InvalidCodes THEN "parameter_check"
  ELSE IF r.error = "MISSING_TOPOLOGY" THEN "topology_gate"
  ELSE IF r.error = None THEN "none"
  ELSE IF r.system = "rule_based" THEN "baseline_filter" ELSE "unclassified"

(* Mutation of terminating_stage: the match is read before the call.       *)
match_before_call(r) ==
  IF r.scope = "refused" THEN "scope_gate"
  ELSE IF r.calls > 0 THEN "model" ELSE StageBeforeModel(r)

terminating_stage(r) == IF r.calls > 0 THEN "model" ELSE StageBeforeModel(r)

(* The stage a record is credited to is the one that decided: the model    *)
(* when it was asked, and only then; the scope gate where it has authority *)
(* and matched, though an advisory gate may match an item another stage    *)
(* decides; the topology gate for an item nothing before it refused.  A    *)
(* record without a stage executed or asked, and the only one that cannot  *)
(* be classified is of an agent that was never made.                       *)
StageNamesWhatDecided ==
  \A r \in Written :
    LET stage == terminating_stage(r)
        ruled == r.system = "rule_based"
        made == ruled \/ pc = "done"
        gated == ~ req.supported /\ (mode = "enforcing" \/ ruled)
    IN /\ stage = "model" <=> httpCalls > 0
       /\ stage = "scope_gate" <=> made /\ gated
       /\ stage = "topology_gate" <=>
            pc = "done" /\ ~ gated /\ ~ req.invalid /\ req.topology = None
       /\ stage = "baseline_filter" => ruled
       /\ stage = "unclassified" <=> ~ made
       /\ stage = "none" <=> ruled /\ r.action \in {"EXECUTE", "CLARIFY"}

-----------------------------------------------------------------------------
(* analyze_frozen_test_results.py on one record and what the harness says  *)
(* of its item: the action and, for an EXECUTE item, the fields.           *)

Gold ==
  [action : {"EXECUTE"}, model : CollisionModels, target : {0} \cup Latencies]
  \cup [action : Statuses \ {"EXECUTE"}]

correct(r, gold) == r.action = gold.action

task_completed(r, gold) ==
  /\ correct(r, gold)
  /\ gold.action = "EXECUTE" => r.success /\ r.valid
  /\ gold.action = "CLARIFY" => r.asked # {}

(* The bound fields are read inside the network of the parsed request.     *)
field_exact_match(r, gold) ==
  r.parsed = [network |-> TRUE, model |-> gold.model, target |-> gold.target]

joint_intent_success(r, gold) ==
  /\ gold.action = "EXECUTE" /\ correct(r, gold)
  /\ field_exact_match(r, gold)
  /\ r.valid

INFRASTRUCTURE_CODES == {"PROVIDER_TIMEOUT", "INTERNAL_EXPERIMENT_EXCEPTION",
                         "HTTP_PROVIDER_ERROR", "MODEL_UNAVAILABLE"}

infrastructure(r) ==
  r.error \in INFRASTRUCTURE_CODES \/ r.failure = "internal_exception"

schedule_failure(r, gold) ==
  /\ gold.action = "EXECUTE" /\ ~ correct(r, gold)
  /\ r.error = "VALIDATION_CERTIFICATE_FAILED"

semantic(r, gold) ==
  ~ correct(r, gold) /\ ~ infrastructure(r) /\ ~ schedule_failure(r, gold)

(* Accepted what should not run, or without a certificate: the analysis    *)
(* and the audit ask the validation of the record, the summary table of    *)
(* the experiment runner asks whether the run was a success.               *)
false_acceptance(r, gold) ==
  r.action = "EXECUTE" /\ (gold.action # "EXECUTE" \/ ~ r.valid)

false_accepts(r, gold) ==
  r.action = "EXECUTE" /\ (gold.action # "EXECUTE" \/ ~ r.success)

(* The scripts tell one story of a record, whichever system wrote it and   *)
(* whatever its gold label: they count the same false acceptances; on      *)
(* these systems the right action is a completed task, the joint score     *)
(* never exceeds it, and a wrong action is a false acceptance or a failure *)
(* the taxonomy counts exactly once.  A late schedule is no failure of any *)
(* kind.                                                                   *)
ScorersAgree ==
  \A r \in Written : \A gold \in Gold :
    /\ false_acceptance(r, gold) <=> false_accepts(r, gold)
    /\ correct(r, gold) <=> task_completed(r, gold)
    /\ joint_intent_success(r, gold) =>
         task_completed(r, gold) /\ ~ false_acceptance(r, gold)
    /\ ~ correct(r, gold) =>
         Cardinality({k \in {"semantic", "schedule", "infrastructure"} :
           \/ k = "semantic" /\ semantic(r, gold)
           \/ k = "schedule" /\ schedule_failure(r, gold)
           \/ k = "infrastructure" /\ infrastructure(r)}) = 1

(* Every item gets its record.                                             *)
Answered == <>(pc \in {"done", "recorded"})
=============================================================================
