---------------------------- MODULE RequestProofs ----------------------------
(***************************************************************************)
(* One benchmark item under every gate mode, taken by the orchestrator or  *)
(* by the rule-based system, for any requests, readings and answers of the *)
(* model and every retry budget: the gates come first, an EXECUTE report   *)
(* is earned and the logs tell the retries; and of the record that is      *)
(* written, the audit names the stage that decided, and the scoring        *)
(* scripts agree.                                                          *)
(***************************************************************************)
EXTENDS Records, FiniteSetTheorems, TLAPS

Before == {"scope", "explicit"}
Asking == {"calling", "calling_json"}
Running == {"tools", "run", "validate", "measure", "explain", "report"}
Stage == Before \cup Asking \cup Running \cup {"done", "recorded"}

Actions == {"RETRY_CLIENT_ERROR", "REFORMAT_STRUCTURED_OUTPUT", "CORRECT_TYPED_REQUEST"}
Codes ==
  Failures \cup
  {"TOPOLOGY_OR_SCHEDULE_OUTPUT_FORBIDDEN", "INVALID_FIELD", "UNAPPROVED_TOOL_CALL",
   "MISSING_SCHEDULING_REQUEST", "UNEXPECTED_SCHEDULING_REQUEST",
   "MISSING_CLARIFICATION_QUESTIONS", "FALSE_MISSING_TOPOLOGY", "REQUEST_FIELD_MISMATCH", None}

LogRecord ==
  [attempt : Nat, error : Codes, action : Actions \cup {None},
   prompt : [advised : BOOLEAN, correction : (Actions \cup {None}) \X Codes]]

Results ==
  [latency : {0} \cup Latencies, validated : {None} \cup CollisionModels,
   valid : [CollisionModels -> BOOLEAN]]

PipelineType ==
  /\ req \in Requests /\ mode \in ScopeModes
  /\ pc \in Stage
  /\ attempt \in Nat /\ httpCalls \in Nat
  /\ correction \in (Actions \cup {None}) \X Codes
  /\ logs \in Seq(LogRecord)
  /\ trace \in Seq(ApprovedTools \X {"success", "domain_failure", "internal_exception"})
  /\ decision \in Answers \cup {NoDecision}
  /\ result \in Results
  /\ pc # "done" => report = NoReport

(* Before the model nothing has been sent, logged or run; past the gates,  *)
(* the request was let through by them.                                    *)
Untouched == httpCalls = 0 /\ attempt = 0 /\ logs = <<>> /\ correction = <<None, None>>

LetThrough ==
  /\ mode = "enforcing" => req.supported
  /\ ~ req.invalid /\ ~ req.blank /\ req.topology # None

GateInv ==
  /\ pc \in Before \cup {"recorded"} => Untouched
  /\ pc \in Before \cup Asking \cup {"tools", "recorded"} => trace = <<>>
  /\ pc = "explicit" => (mode = "enforcing" => req.supported)
  /\ pc \in Asking \cup Running => httpCalls > 0
  /\ GatesComeFirst

(* The decision the tools run on, how far they are, and what the final     *)
(* validation was about.                                                   *)
DecisionInv ==
  pc \in Running =>
    /\ decision.status = "EXECUTE"
    /\ FieldsMatch(decision.request)
    /\ pc # "tools" => RequiredTools \subseteq decision.tools

DoneSoFar ==
  CASE pc = "run" -> {"inspect_network"}
    [] pc = "validate" -> {"inspect_network", "run_anex"}
    [] pc = "measure" -> {"inspect_network", "run_anex", "validate_schedule"}
    [] OTHER -> RequiredTools

ToolsInv ==
  /\ pc \in {"run", "validate", "measure"} => Succeeded = DoneSoFar
  /\ pc = "report" /\ Passed => Succeeded = RequiredTools
  /\ pc \in {"measure", "explain", "report"} => result.validated = req.model
  /\ pc = "explain" => ~ Passed

(* How many attempts are logged, what the next prompt corrects, and what   *)
(* the attempts have cost.                                                 *)
LastLogged ==
  IF attempt = 0 THEN <<None, None>> ELSE <<logs[attempt].action, logs[attempt].error>>

LogsInv ==
  /\ pc \in Asking => Len(logs) = attempt /\ correction = LastLogged
  /\ pc = "calling" => httpCalls \in attempt + 1 .. 2 * attempt + 1
  /\ pc = "calling_json" => httpCalls \in attempt + 2 .. 2 * attempt + 2
  /\ pc \in Running \cup {"done"} /\ httpCalls > 0 =>
       Len(logs) = attempt + 1 /\ httpCalls \in attempt + 1 .. 2 * attempt + 2
  /\ pc = "done" /\ httpCalls = 0 => Untouched
  /\ \A i \in 1 .. Len(logs) :
       /\ logs[i].attempt = i - 1 /\ logs[i].prompt.advised = Advised
       /\ i <= attempt <=> logs[i].action # None
       /\ i >= 2 => logs[i].prompt.correction = <<logs[i-1].action, logs[i-1].error>>

RequestInv ==
  PipelineType /\ GateInv /\ DecisionInv /\ ToolsInv /\ LogsInv /\ ExecuteIsEarned

-----------------------------------------------------------------------------

(* An accepted EXECUTE decision carries what the requester stated.         *)
LEMMA AcceptedMatches ==
  ASSUME NEW a \in Answers, DecisionError(a) = None, a.status = "EXECUTE"
  PROVE  FieldsMatch(a.request)
<1>1. a.request # NoDraft
  BY DEF DecisionError, None
<1>2. QED
  BY <1>1 DEF DecisionError, None

LEMMA CorrectionCodes ==
  /\ AnswerErrors \subseteq Codes
  /\ \A code : RetryAction(code) \in Actions /\ RetryAction(code) # None
BY DEF AnswerErrors, DecisionError, Codes, RetryAction, Actions, None

(* What a successful tool call does to the trace.                          *)
LEMMA TracedSuccess ==
  ASSUME PipelineType, NEW tool \in ApprovedTools, Traced(tool, "success")
  PROVE  /\ Succeeded' = Succeeded \cup {tool}
         /\ trace' \in Seq(ApprovedTools \X {"success", "domain_failure", "internal_exception"})
         /\ trace' # <<>>
<1> DEFINE n == Len(trace)
<1>1. /\ n \in Nat /\ Len(trace') = n + 1
      /\ trace'[n + 1] = <<tool, "success">>
      /\ \A i \in 1 .. n : trace'[i] = trace[i]
  BY DEF Traced, PipelineType
<1>2. Succeeded' = Succeeded \cup {tool}
  <2>1. ASSUME NEW x \in Succeeded' PROVE x \in Succeeded \cup {tool}
    <3>1. PICK i \in 1 .. Len(trace') : trace'[i][2] = "success" /\ x = trace'[i][1]
      BY DEF Succeeded
    <3>2. CASE i = n + 1
      BY <1>1, <3>1, <3>2
    <3>3. CASE i # n + 1
      BY <1>1, <3>1, <3>3 DEF Succeeded
    <3>4. QED
      BY <3>2, <3>3
  <2>2. ASSUME NEW x \in Succeeded PROVE x \in Succeeded'
    <3>1. PICK i \in 1 .. n : trace[i][2] = "success" /\ x = trace[i][1]
      BY DEF Succeeded
    <3>2. QED
      BY <1>1, <3>1 DEF Succeeded
  <2>3. tool \in Succeeded'
    BY <1>1 DEF Succeeded
  <2>4. QED
    BY <2>1, <2>2, <2>3
<1>3. trace' \in Seq(ApprovedTools \X {"success", "domain_failure", "internal_exception"})
  BY DEF Traced, PipelineType
<1>4. QED
  BY <1>1, <1>2, <1>3

LEMMA ConcludeStatus ==
  ASSUME NEW status, NEW error, Conclude(status, error)
  PROVE  report'.status = status
BY DEF Conclude, NoReport

LEMMA Unreported ==
  ASSUME PipelineType, pc # "done"
  PROVE  report.status # "EXECUTE"
BY DEF PipelineType, NoReport, None

-----------------------------------------------------------------------------

LEMMA InitRequest == RInit => RequestInv
BY ModeAssumption, RequestAssumption
   DEF RInit, Init, RequestInv, PipelineType, GateInv, DecisionInv, ToolsInv, LogsInv,
       ExecuteIsEarned, GatesComeFirst, Untouched, Stage, Before, Asking, Running, Codes,
       Results, NoResult, NoReport, NoDecision, None, CollisionModels

(* The stages before the model, and the rule-based system.                 *)
LEMMA BeforeModel ==
  ASSUME RequestInv,
         GateRejects \/ GatePasses \/ ExplicitInvalid \/ AskTopology \/ BlankRequest \/ Takes
  PROVE  RequestInv'
<1> USE DEF RequestInv
<1>1. pc \in Before /\ UNCHANGED <<gate, agent, tools>> /\ pc' \in {"explicit", "done", "recorded"}
  BY DEF GateRejects, GatePasses, ExplicitInvalid, AskTopology, BlankRequest, Takes,
         Conclude, Before, gate, agent, tools
<1>2. PipelineType'
  BY <1>1 DEF GateRejects, GatePasses, ExplicitInvalid, AskTopology, BlankRequest, Takes,
         Conclude, Before, gate, agent, tools, PipelineType, Stage
<1>a. Untouched' /\ trace' = <<>>
  BY <1>1 DEF GateInv, Untouched, Before, agent, tools
<1>b. pc' \in {"explicit", "done"} =>
        \/ mode = "enforcing" => req.supported
        \/ pc' = "done" /\ report'.status = "UNSUPPORTED"
  <2>1. CASE GateRejects
    BY <2>1 DEF GateRejects, Conclude, NoReport
  <2>2. CASE GatePasses \/ Takes
    BY <2>2 DEF GatePasses, Takes
  <2>3. CASE ExplicitInvalid \/ AskTopology \/ BlankRequest
    BY <2>3 DEF ExplicitInvalid, AskTopology, BlankRequest, GateInv
  <2>4. QED
    BY <2>1, <2>2, <2>3
<1>c. pc' = "explicit" => (mode = "enforcing" => req.supported)
  BY <1>b
<1>3. GateInv'
  <2>1. GatesComeFirst'
    BY <1>1, <1>a, <1>b DEF GatesComeFirst, Untouched, gate
  <2>2. QED
    BY <1>1, <1>a, <1>c, <2>1 DEF GateInv, Before, Asking, Running, gate
<1>4. DecisionInv' /\ ToolsInv'
  BY <1>1 DEF DecisionInv, ToolsInv, Before, Asking, Running
<1>5. LogsInv'
  BY <1>1 DEF LogsInv, GateInv, Untouched, Before, Asking, Running, gate, agent, tools
<1>6. ExecuteIsEarned'
  <2>1. CASE GatePasses \/ Takes
    BY <1>1, <2>1, Unreported DEF GatePasses, Takes, ExecuteIsEarned, Before
  <2>2. CASE GateRejects \/ ExplicitInvalid \/ BlankRequest
    BY <2>2, ConcludeStatus DEF GateRejects, ExplicitInvalid, BlankRequest, ExecuteIsEarned
  <2>3. CASE AskTopology
    BY <2>3 DEF AskTopology, NoReport, ExecuteIsEarned
  <2>4. QED
    BY <2>1, <2>2, <2>3
<1>7. QED
  BY <1>2, <1>3, <1>4, <1>5, <1>6

LEMMA RequestCall ==
  ASSUME RequestInv, CallModel \/ FallBackToJson
  PROVE  RequestInv'
<1> USE DEF RequestInv
<1>1. /\ pc \in {"explicit", "calling"} /\ pc' = IF pc = "explicit" THEN "calling" ELSE "calling_json"
      /\ httpCalls' = httpCalls + 1 /\ httpCalls \in Nat
      /\ UNCHANGED <<gate, attempt, correction, logs, decision, tools, report>>
  BY DEF CallModel, FallBackToJson, PipelineType
<1>2. PipelineType'
  BY <1>1 DEF PipelineType, Stage, Asking, gate, tools
<1>3. GateInv'
  BY <1>1 DEF CallModel, FallBackToJson, GateInv, GatesComeFirst, Before, Asking, Running, gate,
         tools, Untouched
<1>4. DecisionInv' /\ ToolsInv'
  BY <1>1 DEF DecisionInv, ToolsInv, Running
<1>5. LogsInv'
  <2>1. CASE pc = "explicit"
    BY <1>1, <2>1 DEF LogsInv, LastLogged, GateInv, Untouched, Before, Asking, Running
  <2>2. CASE pc = "calling"
    <3>1. attempt \in Nat /\ httpCalls' \in attempt + 2 .. 2 * attempt + 2
      BY <1>1, <2>2 DEF LogsInv, PipelineType
    <3>2. Advised' = Advised /\ LastLogged' = LastLogged
      BY <1>1 DEF Advised, LastLogged, gate
    <3>3. QED
      BY <1>1, <2>2, <3>1, <3>2 DEF LogsInv, Asking, Running
  <2>3. QED
    BY <1>1, <2>1, <2>2
<1>6. ExecuteIsEarned'
  BY <1>1, Unreported DEF ExecuteIsEarned
<1>7. QED
  BY <1>2, <1>3, <1>4, <1>5, <1>6

(* What an attempt adds to the log.                                        *)
LEMMA LoggedAttempt ==
  ASSUME RequestInv, Calling, UNCHANGED gate,
         NEW code \in Codes, NEW action \in Actions \cup {None},
         logs' = Append(logs, Log(code, action)),
         attempt' = IF action = None THEN attempt ELSE attempt + 1
  PROVE  /\ logs' \in Seq(LogRecord) /\ Len(logs') = attempt + 1
         /\ logs'[attempt + 1].action = action /\ logs'[attempt + 1].error = code
         /\ \A i \in 1 .. Len(logs') :
              /\ logs'[i].attempt = i - 1 /\ logs'[i].prompt.advised = Advised'
              /\ i <= attempt' <=> logs'[i].action # None
              /\ i >= 2 => logs'[i].prompt.correction = <<logs'[i-1].action, logs'[i-1].error>>
<1> USE DEF RequestInv
<1> DEFINE n == attempt  l == Log(code, action)
<1>1. /\ n \in Nat /\ Len(logs) = n /\ logs \in Seq(LogRecord) /\ correction = LastLogged
      /\ correction \in (Actions \cup {None}) \X Codes
  BY DEF Calling, Asking, LogsInv, PipelineType
<1>2. /\ l.attempt = n /\ l.error = code /\ l.action = action
      /\ l.prompt.advised = Advised /\ l.prompt.correction = correction
      /\ l \in LogRecord
  BY <1>1 DEF Log, Prompt, LogRecord, Advised
<1>3. Advised' = Advised
  BY DEF Advised, gate
<1>4. /\ logs' \in Seq(LogRecord) /\ Len(logs') = n + 1 /\ logs'[n + 1] = l
      /\ \A i \in 1 .. n : logs'[i] = logs[i]
  BY <1>1, <1>2
<1>5. ASSUME NEW i \in 1 .. n + 1
      PROVE  /\ logs'[i].attempt = i - 1 /\ logs'[i].prompt.advised = Advised'
             /\ i <= attempt' <=> logs'[i].action # None
             /\ i >= 2 => logs'[i].prompt.correction = <<logs'[i-1].action, logs'[i-1].error>>
  <2>1. CASE i = n + 1
    <3>1. i >= 2 => correction = <<logs'[n].action, logs'[n].error>>
      BY <1>1, <1>4, <2>1 DEF LastLogged
    <3>2. attempt' = IF action = None THEN n ELSE n + 1
      OBVIOUS
    <3>3. QED
      BY <1>1, <1>2, <1>3, <1>4, <2>1, <3>1, <3>2
  <2>2. CASE i # n + 1
    <3>1. i \in 1 .. n /\ logs'[i] = logs[i] /\ (i >= 2 => logs'[i-1] = logs[i-1])
      BY <1>1, <1>4, <2>2
    <3>2. i <= n /\ i <= attempt'
      BY <1>1, <3>1
    <3>3. QED
      BY <1>1, <1>3, <3>1, <3>2 DEF LogsInv
  <2>3. QED
    BY <2>1, <2>2
<1>6. QED
  BY <1>1, <1>2, <1>4, <1>5

LEMMA RetryStep ==
  ASSUME RequestInv, NEW code \in AnswerErrors, Retry(code)
  PROVE  RequestInv'
<1> USE DEF RequestInv
<1> DEFINE action == RetryAction(code)
<1>1. /\ code \in Codes /\ action \in Actions /\ action # None
      /\ pc \in Asking /\ pc' = "calling"
      /\ attempt \in Nat /\ attempt' = attempt + 1
      /\ httpCalls \in Nat /\ httpCalls' = httpCalls + 1
      /\ correction' = <<action, code>>
      /\ UNCHANGED <<gate, decision, tools, report>>
  BY CorrectionCodes DEF Retry, Calling, Asking, PipelineType
<1>2. /\ logs' \in Seq(LogRecord) /\ Len(logs') = attempt + 1
      /\ logs'[attempt + 1].action = action /\ logs'[attempt + 1].error = code
      /\ \A i \in 1 .. Len(logs') :
           /\ logs'[i].attempt = i - 1 /\ logs'[i].prompt.advised = Advised'
           /\ i <= attempt' <=> logs'[i].action # None
           /\ i >= 2 => logs'[i].prompt.correction = <<logs'[i-1].action, logs'[i-1].error>>
  BY <1>1, LoggedAttempt DEF Retry
<1>3. PipelineType'
  BY <1>1, <1>2 DEF PipelineType, Stage, Asking, gate, tools
<1>4. GateInv'
  BY <1>1 DEF GateInv, GatesComeFirst, Before, Asking, Running, gate, tools
<1>5. DecisionInv' /\ ToolsInv'
  BY <1>1 DEF DecisionInv, ToolsInv, Running
<1>6. LogsInv'
  <2>1. httpCalls \in attempt + 1 .. 2 * attempt + 2
    BY <1>1 DEF LogsInv, Asking
  <2>2. correction' = LastLogged'
    BY <1>1, <1>2 DEF LastLogged
  <2>3. httpCalls' \in attempt' + 1 .. 2 * attempt' + 1
    BY <1>1, <2>1
  <2>4. QED
    BY <1>1, <1>2, <2>2, <2>3 DEF LogsInv, Running
<1>7. ExecuteIsEarned'
  BY <1>1, Unreported DEF ExecuteIsEarned, Asking
<1>8. QED
  BY <1>3, <1>4, <1>5, <1>6, <1>7

(* The last attempt: an answer is accepted, or the agent gives up.         *)
LEMMA LastAttempt ==
  ASSUME RequestInv, Calling, NEW code \in Codes, logs' = Append(logs, Log(code, None)),
         pc' \in {"tools", "done"}, UNCHANGED <<gate, attempt, correction, httpCalls, tools>>
  PROVE  /\ LogsInv' /\ logs' \in Seq(LogRecord)
         /\ httpCalls' \in Nat \ {0} /\ trace' = <<>>
<1> USE DEF RequestInv
<1>1. /\ pc \in Asking /\ attempt \in Nat /\ attempt' = attempt /\ httpCalls' = httpCalls
      /\ httpCalls \in Nat \ {0} /\ trace' = <<>>
      /\ httpCalls \in attempt + 1 .. 2 * attempt + 2
  BY DEF Calling, Asking, PipelineType, GateInv, LogsInv, tools
<1>2. /\ logs' \in Seq(LogRecord) /\ Len(logs') = attempt + 1
      /\ \A i \in 1 .. Len(logs') :
           /\ logs'[i].attempt = i - 1 /\ logs'[i].prompt.advised = Advised'
           /\ i <= attempt' <=> logs'[i].action # None
           /\ i >= 2 => logs'[i].prompt.correction = <<logs'[i-1].action, logs'[i-1].error>>
  BY <1>1, LoggedAttempt
<1>3. LogsInv'
  BY <1>1, <1>2 DEF LogsInv, Asking, Running
<1>4. QED
  BY <1>1, <1>2, <1>3

LEMMA GiveUpStep ==
  ASSUME RequestInv, NEW code \in AnswerErrors, GiveUp(code)
  PROVE  RequestInv'
<1> USE DEF RequestInv
<1>1. /\ code \in Codes /\ pc \in Asking /\ pc' = "done" /\ report'.status = "REJECT"
      /\ UNCHANGED <<gate, attempt, correction, httpCalls, decision, tools>>
      /\ logs' = Append(logs, Log(code, None))
  BY CorrectionCodes, ConcludeStatus DEF GiveUp, Calling, Asking, Conclude
<1>2. /\ LogsInv' /\ logs' \in Seq(LogRecord)
      /\ httpCalls' \in Nat \ {0} /\ trace' = <<>>
  BY <1>1, LastAttempt DEF Calling, Asking
<1>3. PipelineType'
  BY <1>1, <1>2 DEF PipelineType, Stage, gate, tools
<1>4. GateInv'
  BY <1>1, <1>2 DEF GateInv, GatesComeFirst, Before, Asking, Running, gate
<1>5. DecisionInv' /\ ToolsInv' /\ ExecuteIsEarned'
  BY <1>1 DEF DecisionInv, ToolsInv, Running, ExecuteIsEarned
<1>6. QED
  BY <1>2, <1>3, <1>4, <1>5

LEMMA AcceptStep ==
  ASSUME RequestInv, NEW a \in Answers, Accept(a)
  PROVE  RequestInv'
<1> USE DEF RequestInv
<1>1. /\ pc \in Asking /\ decision' = a /\ DecisionError(a) = None
      /\ UNCHANGED <<gate, attempt, correction, httpCalls, tools>>
      /\ logs' = Append(logs, Log(None, None))
      /\ \/ a.status = "EXECUTE" /\ pc' = "tools" /\ UNCHANGED report
         \/ a.status # "EXECUTE" /\ pc' = "done" /\ report'.status = a.status
  BY DEF Accept, Calling, Asking, ReportNonExecute, NoReport
<1>2. /\ LogsInv' /\ logs' \in Seq(LogRecord)
      /\ httpCalls' \in Nat \ {0} /\ trace' = <<>>
  BY <1>1, LastAttempt DEF Calling, Asking, Codes
<1>3. PipelineType'
  BY <1>1, <1>2 DEF PipelineType, Stage, Running, Asking, gate, tools
<1>4. GateInv'
  BY <1>1, <1>2 DEF GateInv, GatesComeFirst, Before, Asking, Running, gate
<1>5. DecisionInv'
  <2>1. CASE a.status = "EXECUTE"
    <3>1. FieldsMatch(a.request)'
      BY <1>1, <2>1, AcceptedMatches DEF FieldsMatch, gate
    <3>2. QED
      BY <1>1, <2>1, <3>1 DEF DecisionInv
  <2>2. QED
    BY <1>1, <2>1 DEF DecisionInv, Running
<1>6. ToolsInv'
  BY <1>1 DEF ToolsInv
<1>7. ExecuteIsEarned'
  BY <1>1, Unreported DEF ExecuteIsEarned, Asking
<1>8. QED
  BY <1>2, <1>3, <1>4, <1>5, <1>6, <1>7

-----------------------------------------------------------------------------

(* What a successful tool call leaves to show is how far the tools are.    *)
LEMMA ToolCall ==
  ASSUME RequestInv, NEW tool \in ApprovedTools, Traced(tool, "success"),
         UNCHANGED <<gate, agent, report>>, result' \in Results,
         pc \in Running, pc' \in Running \ {"tools"}, RequiredTools \subseteq decision.tools
  PROVE  ToolsInv' => RequestInv'
<1> USE DEF RequestInv
<1>1. /\ trace' \in Seq(ApprovedTools \X {"success", "domain_failure", "internal_exception"})
      /\ trace' # <<>>
  BY TracedSuccess
<1>2. PipelineType'
  BY <1>1 DEF PipelineType, Stage, Running, gate, agent
<1>3. GateInv'
  BY <1>1 DEF GateInv, GatesComeFirst, DecisionInv, Before, Asking, Running, gate, agent
<1>4. DecisionInv'
  BY DEF DecisionInv, FieldsMatch, gate, agent
<1>5. LogsInv'
  BY DEF LogsInv, Advised, Asking, Running, Untouched, GateInv, gate, agent
<1>6. ExecuteIsEarned'
  BY Unreported DEF ExecuteIsEarned, Running
<1>7. QED
  BY <1>2, <1>3, <1>4, <1>5, <1>6

LEMMA NothingSucceeded ==
  ASSUME trace = <<>>
  PROVE  Succeeded = {}
BY DEF Succeeded

LEMMA InspectStep ==
  ASSUME RequestInv, Inspect
  PROVE  RequestInv'
<1>1. Succeeded' = {"inspect_network"}
  <2>1. trace = <<>> /\ Succeeded = {}
    BY NothingSucceeded DEF Inspect, RequestInv, GateInv
  <2>2. QED
    BY <2>1, TracedSuccess DEF Inspect, RequestInv, ApprovedTools, RequiredTools
<1>2. ToolsInv'
  BY <1>1 DEF Inspect, ToolsInv, DoneSoFar
<1>3. QED
  BY <1>2, ToolCall
     DEF Inspect, RequestInv, PipelineType, ApprovedTools, RequiredTools, Running

LEMMA RunStep ==
  ASSUME RequestInv, NEW l \in Latencies, NEW reaches \in BOOLEAN, RunAnex(l, reaches)
  PROVE  RequestInv'
<1>1. Succeeded' = {"inspect_network", "run_anex"}
  BY TracedSuccess
     DEF RunAnex, RequestInv, ToolsInv, DoneSoFar, ApprovedTools, RequiredTools
<1>2. result' \in Results
  BY DEF RunAnex, Results
<1>3. ToolsInv'
  BY <1>1 DEF RunAnex, ToolsInv, DoneSoFar
<1>4. QED
  BY <1>2, <1>3, ToolCall
     DEF RunAnex, RequestInv, DecisionInv, ApprovedTools, RequiredTools, Running

LEMMA ValidateStep ==
  ASSUME RequestInv, Validate
  PROVE  RequestInv'
<1>1. Succeeded' = {"inspect_network", "run_anex", "validate_schedule"}
  BY TracedSuccess
     DEF Validate, RequestInv, ToolsInv, DoneSoFar, ApprovedTools, RequiredTools
<1>2. Bound(decision.request).model = req.model /\ req.model \in CollisionModels
  BY RequestAssumption
     DEF Validate, RequestInv, DecisionInv, FieldsMatch, Running, PipelineType, Request
<1>3. result' \in Results /\ result'.validated = req.model
  BY <1>2 DEF Validate, RequestInv, PipelineType, Results
<1>4. ToolsInv'
  BY <1>1, <1>3 DEF Validate, ToolsInv, DoneSoFar, gate
<1>5. QED
  BY <1>3, <1>4, ToolCall
     DEF Validate, RequestInv, DecisionInv, ApprovedTools, RequiredTools, Running

LEMMA MeasureStep ==
  ASSUME RequestInv, Measure
  PROVE  RequestInv'
<1>1. Succeeded' = RequiredTools
  BY TracedSuccess
     DEF Measure, RequestInv, ToolsInv, DoneSoFar, ApprovedTools, RequiredTools
<1>2. result' = result /\ result \in Results /\ Passed' = Passed
  BY DEF Measure, RequestInv, PipelineType, Passed
<1>3. ToolsInv'
  BY <1>1, <1>2 DEF Measure, ToolsInv, DoneSoFar, RequestInv, gate
<1>4. pc' \in Running \ {"tools"}
  BY DEF Measure, Running
<1>5. QED
  BY <1>2, <1>3, <1>4, ToolCall
     DEF Measure, RequestInv, DecisionInv, ApprovedTools, RequiredTools, Running

LEMMA ExplainStep ==
  ASSUME RequestInv, Explain
  PROVE  RequestInv'
<1>1. result' = result /\ result \in Results /\ Passed' = Passed
  BY DEF Explain, RequestInv, PipelineType, Passed
<1>2. ToolsInv'
  BY <1>1 DEF Explain, ToolsInv, RequestInv, gate
<1>3. QED
  BY <1>1, <1>2, ToolCall
     DEF Explain, RequestInv, DecisionInv, ApprovedTools, RequiredTools, Running

(* A tool fails, tools are missing, or the final validation fails.         *)
LEMMA RejectStep ==
  ASSUME RequestInv, ToolsMissing \/ RunRejected \/ RunCrashed \/ ReportFailure
  PROVE  RequestInv'
<1> USE DEF RequestInv
<1>1. /\ pc \in Running /\ pc' = "done" /\ UNCHANGED <<gate, agent, result>>
      /\ report'.status = "REJECT"
  <2>1. CASE ToolsMissing \/ RunRejected \/ RunCrashed
    BY <2>1, ConcludeStatus DEF ToolsMissing, RunRejected, RunCrashed, Conclude, Running, tools
  <2>2. CASE ReportFailure
    BY <2>2 DEF ReportFailure, NoReport, Running, tools
  <2>3. QED
    BY <2>1, <2>2
<1>2. /\ trace' \in Seq(ApprovedTools \X {"success", "domain_failure", "internal_exception"})
      /\ pc = "tools" => trace' = trace
  <2>1. CASE ToolsMissing \/ ReportFailure
    BY <2>1 DEF ToolsMissing, ReportFailure, PipelineType, tools
  <2>2. CASE RunRejected
    BY <2>2 DEF RunRejected, Traced, PipelineType, ApprovedTools, RequiredTools
  <2>3. CASE RunCrashed
    BY <2>3 DEF RunCrashed, Traced, PipelineType, ApprovedTools, RequiredTools
  <2>4. QED
    BY <2>1, <2>2, <2>3
<1>3. PipelineType'
  BY <1>1, <1>2 DEF PipelineType, Stage, gate, agent
<1>4. GateInv'
  BY <1>1, <1>2
     DEF GateInv, GatesComeFirst, DecisionInv, Before, Asking, Running, gate, agent
<1>5. LogsInv'
  BY <1>1 DEF LogsInv, Advised, Asking, Running, Untouched, GateInv, gate, agent
<1>6. DecisionInv' /\ ToolsInv' /\ ExecuteIsEarned'
  BY <1>1 DEF DecisionInv, ToolsInv, ExecuteIsEarned, Running
<1>7. QED
  BY <1>3, <1>4, <1>5, <1>6

LEMMA SuccessStep ==
  ASSUME RequestInv, ReportSuccess
  PROVE  RequestInv'
<1> USE DEF RequestInv
<1>1. /\ pc = "report" /\ pc' = "done" /\ UNCHANGED <<gate, agent, tools>> /\ Passed
      /\ report'.status = "EXECUTE" /\ report'.satisfied = TargetSatisfied
  BY DEF ReportSuccess, NoReport
<1>2. PipelineType'
  BY <1>1 DEF PipelineType, Stage, gate, agent, tools
<1>3. GateInv'
  BY <1>1 DEF GateInv, GatesComeFirst, DecisionInv, Before, Asking, Running, gate, agent, tools
<1>4. LogsInv'
  BY <1>1 DEF LogsInv, Advised, Asking, Running, Untouched, GateInv, gate, agent
<1>5. ExecuteIsEarned'
  <2>1. /\ FieldsMatch(decision.request) /\ Succeeded = RequiredTools
        /\ result.validated = req.model
    BY <1>1 DEF DecisionInv, ToolsInv, Running
  <2>2. result.valid[req.model]
    BY <1>1, <2>1 DEF Passed
  <2>3. Succeeded' = Succeeded /\ UNCHANGED <<req, decision, result>>
    BY <1>1 DEF Succeeded, gate, agent, tools
  <2>4. QED
    BY <1>1, <2>1, <2>2, <2>3 DEF ExecuteIsEarned, FieldsMatch, TargetSatisfied
<1>6. QED
  BY <1>1, <1>2, <1>3, <1>4, <1>5 DEF DecisionInv, ToolsInv, Running

-----------------------------------------------------------------------------

LEMMA RequestStutter ==
  ASSUME RequestInv, UNCHANGED vars
  PROVE  RequestInv'
<1> USE DEF RequestInv, vars, gate, agent, tools
<1>1. /\ Untouched' = Untouched /\ DoneSoFar' = DoneSoFar /\ Passed' = Passed
      /\ Succeeded' = Succeeded /\ LastLogged' = LastLogged /\ Advised' = Advised
  BY DEF Untouched, DoneSoFar, Passed, Succeeded, LastLogged, Advised
<1>2. PipelineType'
  BY DEF PipelineType
<1>3. GateInv'
  BY <1>1 DEF GateInv, GatesComeFirst
<1>4. DecisionInv' /\ ToolsInv'
  BY <1>1 DEF DecisionInv, ToolsInv, FieldsMatch
<1>5. LogsInv'
  BY <1>1 DEF LogsInv
<1>6. ExecuteIsEarned'
  BY <1>1 DEF ExecuteIsEarned
<1>7. QED
  BY <1>2, <1>3, <1>4, <1>5, <1>6

LEMMA RequestNext == RequestInv /\ [RNext]_<<vars, output>> => RequestInv'
<1> SUFFICES ASSUME RequestInv, [RNext]_<<vars, output>>
             PROVE  RequestInv'
  OBVIOUS
<1>1. CASE RunRuleBased \/ ClientNotMade
  BY <1>1, BeforeModel DEF RunRuleBased, ClientNotMade
<1>2. CASE Next
  BY <1>2, BeforeModel, RequestCall, AcceptStep, RetryStep, GiveUpStep, RejectStep, InspectStep,
     RunStep, ValidateStep, MeasureStep, ExplainStep, SuccessStep DEF Next
<1>3. CASE UNCHANGED vars
  BY <1>3, RequestStutter
<1>4. QED
  BY <1>1, <1>2, <1>3 DEF RNext

(* The inductive invariant: what each stage may rely on, from the gates    *)
(* (orchestration.py:584) to the report.                                   *)
THEOREM RequestInductive == RSpec => []RequestInv
BY InitRequest, RequestNext, PTL DEF RSpec

(* No provider call and no tool before the gates have let the request      *)
(* through (orchestration.py:568-640).                                     *)
THEOREM GatesComeFirstCorrect == RSpec => []GatesComeFirst
<1>1. RequestInv => GatesComeFirst
  BY DEF RequestInv, GateInv
<1>2. QED
  BY <1>1, RequestInductive, PTL

(* An EXECUTE report is earned under the requester's own values, whatever  *)
(* the model answers (orchestration.py:640-720).                           *)
THEOREM ExecuteIsEarnedCorrect == RSpec => []ExecuteIsEarned
<1>1. RequestInv => ExecuteIsEarned
  BY DEF RequestInv
<1>2. QED
  BY <1>1, RequestInductive, PTL

(* The logs tell the retries (orchestration.py:440-520).                   *)
THEOREM LogsTellTheRetriesCorrect == RSpec => []LogsTellTheRetries
<1>1. RequestInv => LogsTellTheRetries
  BY DEF RequestInv, LogsInv, LogsTellTheRetries, Untouched, PipelineType
<1>2. QED
  BY <1>1, RequestInductive, PTL

-----------------------------------------------------------------------------
(* How a request ends that no provider has been asked about.               *)
EarlyAnswer ==
  pc = "done" /\ httpCalls = 0 =>
    \/ report.error = "SCOPE" /\ mode = "enforcing" /\ ~ req.supported
    \/ /\ mode = "enforcing" => req.supported
       /\ \/ report.error = "INVALID_EXPLICIT_VALUE" /\ req.invalid
          \/ report.error = "MISSING_TOPOLOGY" /\ ~ req.invalid /\ req.topology = None
          \/ report.error = "INVALID_USER_REQUEST" /\ ~ req.invalid /\ req.topology # None

(* What the scripts may rely on in a report and in the record of an item   *)
(* without one.                                                            *)
ReportFacts ==
  pc = "done" =>
    /\ report.status = "CLARIFY" => report.questions # {}
    /\ report.status = "EXECUTE" => result.validated = req.model

OutputFacts ==
  pc = "recorded" =>
    /\ output.calls = 0 /\ output.error # "VALIDATION_CERTIFICATE_FAILED"
    /\ output.action = "EXECUTE" => output.valid /\ output.success
    /\ output.action = "CLARIFY" => output.asked # {}
    /\ IF output.system # "rule_based"
       THEN output.error = "INTERNAL_EXPERIMENT_EXCEPTION"
       ELSE IF req.supported
       THEN /\ output.scope # "refused" /\ output.error # "MISSING_TOPOLOGY"
            /\ output.error = None <=> output.action \in {"EXECUTE", "CLARIFY"}
       ELSE output.scope = "refused" /\ output.error = "SCOPE" /\ output.action = "UNSUPPORTED"

RecordInv == EarlyAnswer /\ ReportFacts /\ OutputFacts

-----------------------------------------------------------------------------

LEMMA AcceptedAsks ==
  ASSUME NEW a \in Answers, DecisionError(a) = None, a.status = "CLARIFY"
  PROVE  a.questions # {}
BY DEF DecisionError, None

LEMMA RuleRecords ==
  ASSUME RequestInv, RunRuleBased
  PROVE  OutputFacts'
<1>1. UNCHANGED req
  BY DEF RunRuleBased, Takes, gate
<1> USE DEF NoOutput, None
<1>2. CASE RuleGated
  BY <1>1, <1>2 DEF RuleGated, OutputFacts
<1>3. ASSUME NEW r \in Readings,
             RuleClarifies(r) \/ RuleUnsupported(r) \/ RuleRefuses(r) \/ RuleRejected(r)
      PROVE  OutputFacts'
  <2>1. r.refused \in InvalidValues \cup {None}
    BY ReadingAssumption DEF Reading
  <2>2. CASE RuleClarifies(r)
    BY <1>1, <2>2 DEF RuleClarifies, RuleReports, OutputFacts
  <2>3. CASE RuleUnsupported(r)
    BY <1>1, <2>3 DEF RuleUnsupported, RuleReports, OutputFacts
  <2>4. CASE RuleRefuses(r)
    BY <1>1, <2>1, <2>4, InvalidAssumption DEF RuleRefuses, RuleReports, OutputFacts
  <2>5. CASE RuleRejected(r)
    BY <1>1, <2>5 DEF RuleRejected, RuleScheduling, RuleReports, OutputFacts
  <2>6. QED
    BY <1>3, <2>2, <2>3, <2>4, <2>5
<1>4. ASSUME NEW r \in Readings, RuleCrashes(r) PROVE OutputFacts'
  BY <1>1, <1>4 DEF RuleCrashes, RuleScheduling, Raised, OutputFacts
<1>5. ASSUME NEW r \in Readings, NEW l \in Latencies, NEW reaches \in BOOLEAN,
             RuleSchedules(r, l, reaches)
      PROVE  OutputFacts'
  <2> DEFINE valid == r.model = "legacy_neighbor" \/ reaches
  <2>1. /\ output'.calls = 0 /\ output'.system = "rule_based" /\ output'.scope = "passed"
        /\ output'.action = IF valid THEN "EXECUTE" ELSE "REJECT"
        /\ output'.error = IF valid THEN None ELSE "SCHEDULE_VALIDATION_FAILED"
        /\ output'.success = valid /\ output'.valid = valid
        /\ req.supported
    BY <1>5 DEF RuleSchedules, RuleScheduling, RuleMeasured
  <2>2. QED
    BY <1>1, <2>1 DEF OutputFacts
<1>6. QED
  BY <1>2, <1>3, <1>4, <1>5 DEF RunRuleBased

LEMMA NoClientRecord ==
  ASSUME RequestInv, ClientNotMade
  PROVE  OutputFacts'
<1>1. /\ output'.system = SCOPE_MODE_SYSTEM_NAMES[mode] /\ output'.action = "REJECT"
      /\ output'.error = "INTERNAL_EXPERIMENT_EXCEPTION" /\ output'.calls = 0
  BY DEF ClientNotMade, Raised, NoOutput
<1>2. SCOPE_MODE_SYSTEM_NAMES[mode] # "rule_based"
  BY ModeAssumption DEF SCOPE_MODE_SYSTEM_NAMES, RequestInv, PipelineType
<1>3. QED
  BY <1>1, <1>2 DEF OutputFacts

(* The steps of the orchestrator that end in a report.                     *)
LEMMA EarlyReport ==
  ASSUME RequestInv, GateRejects \/ ExplicitInvalid \/ AskTopology \/ BlankRequest
  PROVE  EarlyAnswer' /\ ReportFacts'
<1>1. CASE GateRejects
  BY <1>1 DEF GateRejects, Conclude, NoReport, EarlyAnswer, ReportFacts, gate
<1>2. pc = "explicit" => (mode = "enforcing" => req.supported)
  BY DEF RequestInv, GateInv
<1>3. CASE ExplicitInvalid
  BY <1>2, <1>3 DEF ExplicitInvalid, Conclude, NoReport, EarlyAnswer, ReportFacts, gate, agent
<1>4. CASE AskTopology
  BY <1>2, <1>4 DEF AskTopology, NoReport, EarlyAnswer, ReportFacts, gate
<1>5. CASE BlankRequest
  BY <1>2, <1>5 DEF BlankRequest, Conclude, NoReport, EarlyAnswer, ReportFacts, gate, agent
<1>6. QED
  BY <1>1, <1>3, <1>4, <1>5

LEMMA ModelReport ==
  ASSUME RequestInv, NEW a \in Answers, Accept(a)
  PROVE  EarlyAnswer' /\ ReportFacts'
<1>1. httpCalls' = httpCalls /\ httpCalls > 0
  BY DEF Accept, Calling, RequestInv, GateInv, Asking
<1>2. CASE a.status = "EXECUTE"
  BY <1>2 DEF Accept, EarlyAnswer, ReportFacts
<1>3. CASE a.status # "EXECUTE"
  <2>1. pc' = "done" /\ report'.status = a.status /\ report'.questions = a.questions
    BY <1>3 DEF Accept, ReportNonExecute, NoReport
  <2>2. QED
    BY <1>1, <1>3, <2>1, AcceptedAsks DEF EarlyAnswer, ReportFacts, Accept
<1>4. QED
  BY <1>2, <1>3

LEMMA RejectReport ==
  ASSUME RequestInv,
         \/ \E code \in AnswerErrors : GiveUp(code)
         \/ ToolsMissing \/ RunRejected \/ RunCrashed \/ ReportFailure
  PROVE  EarlyAnswer' /\ ReportFacts'
<1>1. httpCalls' = httpCalls /\ httpCalls > 0
  BY DEF GiveUp, ToolsMissing, RunRejected, RunCrashed, ReportFailure, Calling, RequestInv,
         GateInv, Asking, Running, agent
<1>2. report'.status = "REJECT"
  <2>1. CASE ReportFailure
    BY <2>1 DEF ReportFailure, NoReport
  <2>2. CASE ~ ReportFailure
    BY <2>2, ConcludeStatus DEF GiveUp, ToolsMissing, RunRejected, RunCrashed
  <2>3. QED
    BY <2>1, <2>2
<1>3. QED
  BY <1>1, <1>2 DEF EarlyAnswer, ReportFacts

LEMMA ExecuteReport ==
  ASSUME RequestInv, ReportSuccess
  PROVE  EarlyAnswer' /\ ReportFacts'
<1>1. httpCalls' = httpCalls /\ httpCalls > 0 /\ result.validated = req.model
  BY DEF ReportSuccess, RequestInv, GateInv, Running, ToolsInv, agent
<1>2. report'.status = "EXECUTE"
  BY DEF ReportSuccess, NoReport
<1>3. QED
  BY <1>1, <1>2 DEF EarlyAnswer, ReportFacts, ReportSuccess, gate, tools

LEMMA RecordNext == RequestInv /\ RecordInv /\ [RNext]_<<vars, output>> => RecordInv'
<1> SUFFICES ASSUME RequestInv, RecordInv, [RNext]_<<vars, output>>
             PROVE  RecordInv'
  OBVIOUS
<1> USE DEF RecordInv
<1>1. CASE RunRuleBased \/ ClientNotMade
  BY <1>1, RuleRecords, NoClientRecord
     DEF RunRuleBased, ClientNotMade, Takes, EarlyAnswer, ReportFacts
<1>2. CASE Next /\ UNCHANGED output
  <2>1. OutputFacts'
    <3>1. pc' # "recorded"
      BY <1>2 DEF Next, GateRejects, GatePasses, ExplicitInvalid, AskTopology, BlankRequest,
           CallModel, FallBackToJson, Accept, ReportNonExecute, Retry, GiveUp, ToolsMissing,
           Inspect, RunAnex, RunRejected, RunCrashed, Validate, Measure, Explain, ReportFailure,
           ReportSuccess, Conclude
    <3>2. QED
      BY <3>1 DEF OutputFacts
  <2>2. CASE \/ GatePasses \/ CallModel \/ FallBackToJson \/ Inspect \/ Validate \/ Measure
             \/ Explain \/ (\E code \in AnswerErrors : Retry(code))
             \/ \E l \in Latencies, reaches \in BOOLEAN : RunAnex(l, reaches)
    <3>1. pc' # "done"
      BY <2>2 DEF GatePasses, CallModel, FallBackToJson, Inspect, Validate, Measure, Explain,
                  Retry, RunAnex
    <3>2. QED
      BY <2>1, <3>1 DEF EarlyAnswer, ReportFacts
  <2>3. QED
    BY <1>2, <2>1, <2>2, EarlyReport, ModelReport, RejectReport, ExecuteReport DEF Next
<1>3. CASE UNCHANGED <<vars, output>>
  BY <1>3 DEF EarlyAnswer, ReportFacts, OutputFacts, vars, gate, agent, tools
<1>4. QED
  BY <1>1, <1>2, <1>3 DEF RNext

(* What an item has come to when its record is written.                    *)
THEOREM RecordInductive == RSpec => [](RequestInv /\ RecordInv)
<1>1. RInit => RecordInv
  BY DEF RInit, Init, RecordInv, EarlyAnswer, ReportFacts, OutputFacts
<1>2. QED
  BY <1>1, InitRequest, RequestNext, RecordNext, PTL DEF RSpec

-----------------------------------------------------------------------------

(* The two kinds of records: a report, or what was written without one.    *)
LEMMA WrittenRecord ==
  ASSUME NEW r \in Written
  PROVE  \/ pc = "done" /\ r = orchestration_report_to_output
         \/ pc = "recorded" /\ r = output
BY DEF Written

LEMMA ReportRecord ==
  ASSUME RequestInv, RecordInv, pc = "done", NEW r, r = orchestration_report_to_output
  PROVE  /\ r.system # "rule_based" /\ r.action = report.status /\ r.error = report.error
         /\ r.asked = report.questions /\ r.failure # "internal_exception"
         /\ r.calls > 0 <=> httpCalls > 0
         /\ r.scope = IF mode # "off" /\ ~ req.supported THEN "refused" ELSE "passed"
         /\ r.action = "EXECUTE" => r.valid /\ r.success
<1> USE DEF RequestInv
<1>1. /\ r.system = SCOPE_MODE_SYSTEM_NAMES[mode] /\ r.action = report.status
      /\ r.error = report.error /\ r.asked = report.questions /\ r.calls = Len(logs)
      /\ r.scope = IF mode # "off" /\ ~ req.supported THEN "refused" ELSE "passed"
      /\ r.valid = (result.validated # None /\ Passed)
      /\ r.success = (report.status = "EXECUTE" /\ r.valid)
      /\ r.failure = FailureCategory(r.success, report.satisfied, report.status, report.error,
                                     "VALIDATION_CERTIFICATE_FAILED")
  BY DEF orchestration_report_to_output
<1>2. r.system # "rule_based"
  BY <1>1, ModeAssumption DEF SCOPE_MODE_SYSTEM_NAMES, PipelineType
<1>3. r.failure # "internal_exception"
  BY <1>1 DEF FailureCategory, None
<1>4. r.calls > 0 <=> httpCalls > 0
  BY <1>1 DEF LogsInv, Untouched, PipelineType
<1>5. ASSUME r.action = "EXECUTE" PROVE r.valid /\ r.success
  <2>1. result.validated = req.model /\ result.valid[req.model] /\ req.model # None
    BY <1>1, <1>5, RequestAssumption
       DEF RecordInv, ReportFacts, ExecuteIsEarned, PipelineType, Request, CollisionModels, None
  <2>2. QED
    BY <1>1, <1>5, <2>1 DEF Passed
<1>6. QED
  BY <1>1, <1>2, <1>3, <1>4, <1>5

(* The audit credits the stage that decided (audit_ledger_tables.py:84).   *)
THEOREM StageNamesWhatDecidedCorrect == RSpec => []StageNamesWhatDecided
<1>1. RequestInv /\ RecordInv => StageNamesWhatDecided
  <2> SUFFICES ASSUME RequestInv, RecordInv, NEW r \in Written
               PROVE  LET stage == terminating_stage(r)
                          ruled == r.system = "rule_based"
                          made == ruled \/ pc = "done"
                          gated == ~ req.supported /\ (mode = "enforcing" \/ ruled)
                      IN /\ stage = "model" <=> httpCalls > 0
                         /\ stage = "scope_gate" <=> made /\ gated
                         /\ stage = "topology_gate" <=>
                              pc = "done" /\ ~ gated /\ ~ req.invalid /\ req.topology = None
                         /\ stage = "baseline_filter" => ruled
                         /\ stage = "unclassified" <=> ~ made
                         /\ stage = "none" <=> ruled /\ r.action \in {"EXECUTE", "CLARIFY"}
    BY DEF StageNamesWhatDecided
  <2>1. CASE pc = "done" /\ httpCalls > 0
    <3>1. r.system # "rule_based" /\ r.calls > 0
      BY <2>1, WrittenRecord, ReportRecord
    <3>2. (mode = "enforcing" => req.supported) /\ req.topology # None
      BY <2>1 DEF RequestInv, GateInv, GatesComeFirst
    <3>3. QED
      BY <2>1, <3>1, <3>2 DEF terminating_stage
  <2>2. CASE pc = "done" /\ ~ (httpCalls > 0)
    <3>1. /\ r.system # "rule_based" /\ ~ (r.calls > 0) /\ r.error = report.error
          /\ r.scope = IF mode # "off" /\ ~ req.supported THEN "refused" ELSE "passed"
      BY <2>2, WrittenRecord, ReportRecord
    <3>2. httpCalls = 0
      BY <2>2 DEF RequestInv, PipelineType
    <3>3. CASE report.error = "SCOPE" /\ mode = "enforcing" /\ ~ req.supported
      BY <2>2, <3>1, <3>3, InvalidAssumption
         DEF terminating_stage, StageBeforeModel, InvalidCodes, ScopeCodes, None
    <3>4. CASE /\ mode = "enforcing" => req.supported
               /\ report.error \in {"INVALID_EXPLICIT_VALUE", "INVALID_USER_REQUEST"}
               /\ req.invalid \/ req.topology # None
      BY <2>2, <3>1, <3>4
         DEF terminating_stage, StageBeforeModel, InvalidCodes, ScopeCodes, None
    <3>5. CASE /\ mode = "enforcing" => req.supported
               /\ report.error = "MISSING_TOPOLOGY" /\ ~ req.invalid /\ req.topology = None
      BY <2>2, <3>1, <3>5, InvalidAssumption
         DEF terminating_stage, StageBeforeModel, InvalidCodes, ScopeCodes, None
    <3>6. QED
      BY <2>2, <3>2, <3>3, <3>4, <3>5 DEF RecordInv, EarlyAnswer
  <2>3. CASE pc = "recorded"
    <3>1. r = output /\ httpCalls = 0
      BY <2>3, WrittenRecord DEF RequestInv, GateInv, Untouched
    <3>2. QED
      BY <2>3, <3>1, InvalidAssumption
         DEF RecordInv, OutputFacts, terminating_stage, StageBeforeModel, InvalidCodes,
             ScopeCodes, None
  <2>4. QED
    BY <2>1, <2>2, <2>3, WrittenRecord
<1>2. QED
  BY <1>1, RecordInductive, PTL

(* What the scoring scripts use of a record, whoever wrote it.             *)
LEMMA ScoredRecord ==
  ASSUME RequestInv, RecordInv, NEW r \in Written
  PROVE  /\ r.action = "EXECUTE" => r.valid /\ r.success
         /\ r.action = "CLARIFY" => r.asked # {}
         /\ r.error = "VALIDATION_CERTIFICATE_FAILED" => ~ infrastructure(r)
<1>1. CASE pc = "done"
  <2>1. /\ r.action = report.status /\ r.asked = report.questions
        /\ r.failure # "internal_exception"
        /\ r.action = "EXECUTE" => r.valid /\ r.success
    BY <1>1, WrittenRecord, ReportRecord
  <2>2. QED
    BY <1>1, <2>1, WrittenRecord, ReportRecord
       DEF RecordInv, ReportFacts, infrastructure, INFRASTRUCTURE_CODES
<1>2. CASE pc = "recorded"
  BY <1>2, WrittenRecord DEF RecordInv, OutputFacts
<1>3. QED
  BY <1>1, <1>2, WrittenRecord

(* The scripts tell one story (analyze_frozen_test_results.py:33-100,      *)
(* experiments.py, audit_ledger_tables.py).                                *)
THEOREM ScorersAgreeCorrect == RSpec => []ScorersAgree
<1>1. RequestInv /\ RecordInv => ScorersAgree
  <2> SUFFICES ASSUME RequestInv, RecordInv, NEW r \in Written, NEW gold \in Gold
               PROVE  /\ false_acceptance(r, gold) <=> false_accepts(r, gold)
                      /\ correct(r, gold) <=> task_completed(r, gold)
                      /\ joint_intent_success(r, gold) =>
                           task_completed(r, gold) /\ ~ false_acceptance(r, gold)
                      /\ ~ correct(r, gold) =>
                           Cardinality({k \in {"semantic", "schedule", "infrastructure"} :
                             \/ k = "semantic" /\ semantic(r, gold)
                             \/ k = "schedule" /\ schedule_failure(r, gold)
                             \/ k = "infrastructure" /\ infrastructure(r)}) = 1
    BY DEF ScorersAgree
  <2>1. /\ r.action = "EXECUTE" => r.valid /\ r.success
        /\ r.action = "CLARIFY" => r.asked # {}
        /\ r.error = "VALIDATION_CERTIFICATE_FAILED" => ~ infrastructure(r)
    BY ScoredRecord
  <2>2. /\ false_acceptance(r, gold) <=> false_accepts(r, gold)
        /\ correct(r, gold) <=> task_completed(r, gold)
        /\ joint_intent_success(r, gold) =>
             task_completed(r, gold) /\ ~ false_acceptance(r, gold)
    BY <2>1 DEF false_acceptance, false_accepts, correct, task_completed, joint_intent_success
  <2>3. ASSUME ~ correct(r, gold)
        PROVE  Cardinality({k \in {"semantic", "schedule", "infrastructure"} :
                 \/ k = "semantic" /\ semantic(r, gold)
                 \/ k = "schedule" /\ schedule_failure(r, gold)
                 \/ k = "infrastructure" /\ infrastructure(r)}) = 1
    <3> DEFINE kinds == {k \in {"semantic", "schedule", "infrastructure"} :
                           \/ k = "semantic" /\ semantic(r, gold)
                           \/ k = "schedule" /\ schedule_failure(r, gold)
                           \/ k = "infrastructure" /\ infrastructure(r)}
    <3>1. schedule_failure(r, gold) => ~ infrastructure(r)
      BY <2>1 DEF schedule_failure
    <3>2. \E kind : kinds = {kind}
      <4>1. CASE infrastructure(r)
        <5>1. kinds = {"infrastructure"}
          BY <3>1, <4>1 DEF semantic
        <5>2. QED
          BY <5>1
      <4>2. CASE schedule_failure(r, gold)
        <5>1. kinds = {"schedule"}
          BY <3>1, <4>2 DEF semantic
        <5>2. QED
          BY <5>1
      <4>3. CASE ~ infrastructure(r) /\ ~ schedule_failure(r, gold)
        <5>1. kinds = {"semantic"}
          BY <2>3, <4>3 DEF semantic
        <5>2. QED
          BY <5>1
      <4>4. QED
        BY <4>1, <4>2, <4>3
    <3>3. QED
      BY <3>2, FS_Singleton
  <2>4. QED
    BY <2>2, <2>3
<1>2. QED
  BY <1>1, RecordInductive, PTL
=============================================================================
