----------------------------- MODULE Evaluation -----------------------------
(***************************************************************************)
(* What the operator runs around the agent: the generation of topologies,  *)
(* catalogues of them and what is measured on one; and over a sealed       *)
(* benchmark the seed campaign, the direct-generation baseline and the     *)
(* release.  They share no state; an initial state names the one whose     *)
(* steps are taken.                                                        *)
(***************************************************************************)
EXTENDS Generation, Catalogue, Campaign, DirectGeneration, Release

VARIABLE part

(* One initial state is enough of a part whose steps are not taken.        *)
EInit ==
  /\ part \in {"generation", "catalogue", "campaign", "baseline", "release"}
  /\ GInit /\ TInit /\ CInit /\ BInit /\ RInit
  /\ part = "generation" \/ job = CHOOSE j \in Jobs : TRUE
  /\ part = "release" \/ LockCovered(locks) = CHOOSE c \in Covers : TRUE

ENext ==
  \/ part = "generation" /\ GNext /\ UNCHANGED <<tvars, cvars, bvars, rvars, part>>
  \/ part = "catalogue" /\ TNext /\ UNCHANGED <<gvars, cvars, bvars, rvars, part>>
  \/ part = "campaign" /\ CNext /\ UNCHANGED <<gvars, tvars, bvars, rvars, part>>
  \/ part = "baseline" /\ BNext /\ UNCHANGED <<gvars, tvars, cvars, rvars, part>>
  \/ part = "release" /\ RNext /\ UNCHANGED <<gvars, tvars, cvars, bvars, part>>

evars == <<gvars, tvars, cvars, bvars, rvars, part>>

(* The generator draws on, the driver goes on, the operator fills the gaps *)
(* it leaves, and a run of the baseline goes on.                           *)
ESpec ==
  /\ EInit /\ [][ENext]_evars
  /\ WF_gvars(part = "generation" /\ GNext)
  /\ WF_cvars(part = "campaign" /\ Drive)
  /\ WF_cvars(part = "campaign" /\ Operate)
  /\ WF_bvars(part = "baseline" /\ BStep)

(* Every call of a generator ends.  Failed runs, outages and interruptions,*)
(* as long as they end, keep no run of the campaign from being measured,   *)
(* and every baseline run ends.                                            *)
EvaluationEnds ==
  /\ part = "generation" => GenerationEnds
  /\ part = "campaign" => CampaignEnds
  /\ part = "baseline" => BaselineEnds
=============================================================================
