------------------------- MODULE MCRequestPipeline -------------------------
(***************************************************************************)
(* The requests that differ to the pipeline, and the answers that lead to  *)
(* every error code or outcome.                                            *)
(***************************************************************************)
EXTENDS Records

CONSTANT Targets   \* latency targets a request may state, 0 for none

Plain == [supported |-> TRUE, blank |-> FALSE, invalid |-> FALSE,
          contradicts |-> FALSE, model |-> "legacy_neighbor", target |-> 0,
          topology |-> "ordinary"]

(* Requests that reach the model where the gate lets them, with all values *)
(* the report depends on, and requests that an earlier stage answers.      *)
MCRequests ==
  {[Plain EXCEPT !.model = m, !.target = t] : m \in CollisionModels, t \in Targets}
  \cup {[Plain EXCEPT !.contradicts = TRUE]}
  \cup {[Plain EXCEPT !.topology = t] : t \in {"long_chain", "other_sink"}}
  \cup {[Plain EXCEPT !.supported = s, !.blank = b, !.invalid = i, !.topology = t] :
          s \in BOOLEAN, b \in BOOLEAN, i \in BOOLEAN, t \in {None, "ordinary"}}

(* One request that reaches the model.                                     *)
MCPlainRequest == {Plain}

MCDrafts == {d \in Draft : d.target \in Targets /\ d.rest = "as_stated"}
MCBadDrafts == {d \in Draft : d.target = 0 /\ d.model = "null" /\ d.rest # "as_stated"}

(* EXECUTE with every draft; the other decisions with one question or none.*)
MCAnswers ==
  [status : {"EXECUTE"}, request : MCDrafts, questions : {{}},
   tools : {RequiredTools, ApprovedTools, RequiredTools \ {"validate_schedule"}}]
  \cup
  [status : {"EXECUTE"}, request : MCBadDrafts \cup {NoDraft}, questions : {{}},
   tools : {RequiredTools, {"unapproved"}}]
  \cup
  [status : Statuses, request : {NoDraft},
   questions : {{}, {"topology"}, {"network"}, {"other"}}, tools : {{}}]
  \cup
  [status : {"REJECT"}, questions : {{}}, tools : {{}}, request : MCDrafts]

(* Every model and target, each refused value, and another objective.      *)
MCReadings ==
  {r \in Reading :
     /\ r.target \in Targets
     /\ r.refused # None \/ ~ r.latency => r.target = 0 /\ r.model = "legacy_neighbor"}
=============================================================================
