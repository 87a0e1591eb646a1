------------------------- MODULE RequestProperties -------------------------
(***************************************************************************)
(* What the pipeline promises about a request, whatever the model answers. *)
(***************************************************************************)
EXTENDS RequestPipeline

(* The gates come before the model and the model before the tools: a       *)
(* request the enforcing gate matches ends UNSUPPORTED without a provider  *)
(* call, nothing is sent for an invalid, blank or network-less request,    *)
(* and no tool runs but for an accepted EXECUTE decision with all required *)
(* tools approved.                                                         *)
GatesComeFirst ==
  /\ httpCalls > 0 =>
       /\ mode = "enforcing" => req.supported
       /\ ~ req.invalid /\ ~ req.blank /\ req.topology # None
  /\ mode = "enforcing" /\ ~ req.supported /\ pc = "done" =>
       report.status = "UNSUPPORTED"
  /\ trace # <<>> =>
       /\ decision.status = "EXECUTE"
       /\ RequiredTools \subseteq decision.tools

Succeeded == {trace[i][1] : i \in {j \in 1 .. Len(trace) : trace[j][2] = "success"}}

(* An EXECUTE report carries the requester's own values, defaults where    *)
(* nothing was stated, and a certificate under the requester's collision   *)
(* model, however many times the model had to be corrected; the latency    *)
(* verdict is about the requester's target.                                *)
ExecuteIsEarned ==
  report.status = "EXECUTE" =>
    /\ Bound(decision.request).model = req.model
    /\ decision.request.target = req.target
    /\ decision.request.rest = "as_stated"
    /\ ~ req.contradicts
    /\ Succeeded = RequiredTools
    /\ result.valid[req.model]
    /\ report.satisfied = IF req.target = 0 THEN None
                          ELSE IF result.latency <= req.target THEN "yes" ELSE "no"

(* Every attempt is logged once and in order, every prompt after the first *)
(* carries the correction of the attempt before it, and the finding of an  *)
(* advisory gate stays in all of them; only the last log of a finished     *)
(* request has no retry action; an attempt costs the provider one request, *)
(* two where it refuses the strict schema.                                 *)
LogsTellTheRetries ==
  /\ \A i \in 1 .. Len(logs) :
       logs[i].attempt = i - 1 /\ logs[i].prompt.advised = Advised
  /\ \A i \in 2 .. Len(logs) :
       logs[i].prompt.correction = <<logs[i-1].action, logs[i-1].error>>
  /\ \A i \in 1 .. Len(logs) : i <= attempt <=> logs[i].action # None
  /\ pc = "done" /\ httpCalls > 0 =>
       /\ Len(logs) = attempt + 1
       /\ httpCalls \in Len(logs) .. (2 * Len(logs))

(* docs/operator_guide.md:186: a provider response that asks for the       *)
(* topology again is rejected.                                             *)
SuppliedTopologyNotAskedFor ==
  report.status = "CLARIFY" /\ req.topology # None =>
    report.questions \cap {"topology", "network"} = {}
=============================================================================
