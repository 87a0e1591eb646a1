------------------------------ MODULE Campaign ------------------------------
(***************************************************************************)
(* The seed campaign: a driver runs the arms of its plan one after the     *)
(* other, each as a process with a ledger of its own, looks at what the    *)
(* ledger holds, stops when the provider failed too often, and at its end  *)
(* writes a manifest over the one before.  The operator discards the       *)
(* ledgers of failed runs and starts the driver again on the gaps.         *)
(*                                                                         *)
(* A ledger is its number of records, how many of them are failures of the *)
(* provider, the error code these carry, and whether its last line is cut. *)
(***************************************************************************)
EXTENDS Integers, Sequences, SequencesExt

CONSTANTS
  Plan,              \* the runs, arm and seed, in execution order
  Local,             \* the runs whose provider is asked for its device
  Items,             \* requests of the benchmark
  FailureCounts,     \* how many requests of a run the provider may fail
  CutCounts,         \* how many records a run that does not finish may leave
  ProviderFailures,  \* the error codes it may fail them with
  MaxFaults          \* bound on failed runs, outages and killed campaigns

CRuns == ToSet(Plan)

ASSUME PlanAssumption ==
  Plan \in Seq(CRuns) /\ \A i, j \in 1 .. Len(Plan) : Plan[i] = Plan[j] => i = j
ASSUME CountAssumption ==
  Items \in Nat \ {0} /\ FailureCounts \subseteq 0 .. Items
  /\ CutCounts \subseteq 0 .. Items - 1 /\ MaxFaults \in Nat

NoCode == "none"
NoLedger == [exists |-> FALSE, recorded |-> 0, failed |-> 0, code |-> NoCode, torn |-> FALSE]
NoManifest == [status |-> "none", planned |-> <<>>, runs |-> <<>>]

VARIABLES
  ledger,     \* the ledger of each run
  device,     \* the device report beside it
  cpuAllowed, \* the local runs whose last driver had --allow-cpu
  planned,    \* the runs of the campaign that is running
  stage,      \* where the campaign is
  entries,    \* records of the campaign: runs with their exit status
  manifest,   \* seed_campaign.json
  accepted,   \* runs some manifest has listed without a failure
  faults

cvars == <<ledger, device, cpuAllowed, planned, stage, entries, manifest, accepted, faults>>

CInit ==
  /\ ledger = [r \in CRuns |-> NoLedger]
  /\ device = [r \in CRuns |-> "unknown"]
  /\ cpuAllowed = {}
  /\ planned = <<>>
  /\ stage = "idle"
  /\ entries = <<>>
  /\ manifest = NoManifest
  /\ accepted = {}
  /\ faults = 0

current == planned[Len(entries) + 1]

-----------------------------------------------------------------------------

(* The wanted runs, as they follow each other in the plan.                 *)
InPlanOrder(wanted) ==
  {s \in UNION {[1 .. n -> wanted] : n \in 1 .. Len(Plan)} :
     /\ wanted \subseteq ToSet(s)
     /\ \A i, j \in DOMAIN s : i < j =>
          \E k, l \in DOMAIN Plan : k < l /\ Plan[k] = s[i] /\ Plan[l] = s[j]}

Allow(wanted, allow) ==
  cpuAllowed' = (cpuAllowed \ wanted) \cup (IF allow THEN wanted \cap Local ELSE {})

(* A mutation of Start: the whole plan or nothing.                         *)
StartWhole(wanted, allow) ==
  /\ stage = "idle"
  /\ wanted = CRuns
  /\ \A r \in wanted : ~ledger[r].exists
  /\ planned' \in InPlanOrder(wanted)
  /\ Allow(wanted, allow)
  /\ entries' = <<>>
  /\ stage' = "check"
  /\ UNCHANGED <<ledger, device, manifest, accepted, faults>>

(* No planned ledger may exist, whoever wrote it.  With --allow-cpu a model*)
(* need not be on the GPU.                                                 *)
Start(wanted, allow) ==
  /\ stage = "idle"
  /\ wanted # {}
  /\ \A r \in wanted : ~ledger[r].exists
  /\ planned' \in InPlanOrder(wanted)
  /\ Allow(wanted, allow)
  /\ entries' = <<>>
  /\ stage' = "check"
  /\ UNCHANGED <<ledger, device, manifest, accepted, faults>>

Status(records) ==
  IF \A i \in DOMAIN records : records[i].returncode = 0 THEN "completed" ELSE "partial"

ExitStatus == IF stage = "returned" THEN 0 ELSE 1

(* The driver ends, with or without its manifest.                          *)
Stop == stage' = "idle" /\ planned' = <<>> /\ entries' = <<>>

Finish(records) ==
  /\ Stop
  /\ manifest' = [status |-> Status(records), planned |-> planned, runs |-> records]
  /\ accepted' = accepted \cup {records[i].run : i \in {j \in DOMAIN records : records[j].returncode = 0}}

(* An API arm has no device; a local one must be on the GPU, unless the    *)
(* driver allows another device, and the answer is kept beside the ledger. *)
(* A model that is not wholly on the GPU counts as on the CPU.             *)
DeviceReady(answer) ==
  /\ stage = "check"
  /\ current \in Local => answer = "gpu" \/ current \in cpuAllowed
  /\ device' = IF current \in Local THEN [device EXCEPT ![current] = answer] ELSE device
  /\ stage' = "run"
  /\ UNCHANGED <<ledger, cpuAllowed, planned, entries, manifest, accepted, faults>>

(* Off the GPU is reported; no answer leaves the report there was.         *)
DeviceRefused(answer) ==
  /\ stage = "check"
  /\ current \in Local
  /\ answer = "none" \/ (answer = "cpu" /\ current \notin cpuAllowed)
  /\ faults < MaxFaults
  /\ faults' = faults + 1
  /\ device' = IF answer = "none" THEN device ELSE [device EXCEPT ![current] = answer]
  /\ Finish(Append(entries, [run |-> current, returncode |-> 1]))
  /\ UNCHANGED <<ledger, cpuAllowed>>

Ledger(recorded, failed, code, torn) ==
  [exists |-> TRUE, recorded |-> recorded, failed |-> failed,
   code |-> IF failed = 0 THEN NoCode ELSE code, torn |-> torn]

(* Every request is recorded, those the provider failed as well: the       *)
(* runner exits 0.                                                         *)
RunnerReturns(failed, code) ==
  /\ stage = "run"
  /\ 10 * failed > Items => faults < MaxFaults
  /\ faults' = IF 10 * failed > Items THEN faults + 1 ELSE faults
  /\ ledger' = [ledger EXCEPT ![current] = Ledger(Items, failed, code, FALSE)]
  /\ stage' = "returned"
  /\ UNCHANGED <<device, cpuAllowed, planned, entries, manifest, accepted>>

(* What a runner leaves that does not get through the benchmark.           *)
Partial ==
  {NoLedger} \cup
  {Ledger(n, f, c, torn) : n \in CutCounts, f \in {0, 1}, c \in ProviderFailures, torn \in BOOLEAN}

(* It refuses its arguments, cannot load a topology, or is killed.         *)
RunnerFails(left) ==
  /\ stage = "run"
  /\ faults < MaxFaults
  /\ left.failed <= left.recorded
  /\ faults' = faults + 1
  /\ ledger' = [ledger EXCEPT ![current] = left]
  /\ stage' = "failed"
  /\ UNCHANGED <<device, cpuAllowed, planned, entries, manifest, accepted>>

(* The failures the driver counts; what it cannot read counts as none.     *)
PROVIDER_ERROR_CODES == {"HTTP_PROVIDER_ERROR", "PROVIDER_TIMEOUT", "MODEL_UNAVAILABLE"}

provider_errors(l) ==
  IF l.torn \/ l.code \notin PROVIDER_ERROR_CODES THEN 0 ELSE l.failed

Ruined(l) == 10 * provider_errors(l) > l.recorded

(* A ruined ledger ends the campaign, and so does the last run.            *)
Proceed(record) ==
  LET records == Append(entries, record)
  IN  IF Ruined(ledger[current]) \/ Len(records) = Len(planned)
      THEN Finish(records)
      ELSE /\ entries' = records
           /\ stage' = "check"
           /\ UNCHANGED <<planned, manifest, accepted>>

(* A mutation of Judge: a ruined ledger stops the campaign and is listed   *)
(* under the exit status of its run.                                       *)
JudgeByExit ==
  /\ stage \in {"returned", "failed"}
  /\ Proceed([run |-> current, returncode |-> ExitStatus])
  /\ UNCHANGED <<ledger, device, cpuAllowed, faults>>

(* A failed run does not stop the campaign; one the provider ruined does.  *)
Judge ==
  /\ stage \in {"returned", "failed"}
  /\ Proceed([run |-> current,
              returncode |-> IF Ruined(ledger[current]) THEN 1 ELSE ExitStatus])
  /\ UNCHANGED <<ledger, device, cpuAllowed, faults>>

(* Driver and runner are interrupted: no manifest is written.              *)
Killed(left) ==
  /\ stage # "idle"
  /\ faults < MaxFaults
  /\ left.failed <= left.recorded
  /\ faults' = faults + 1
  /\ ledger' = IF stage = "run" THEN [ledger EXCEPT ![current] = left] ELSE ledger
  /\ stage' = "idle"
  /\ UNCHANGED <<device, cpuAllowed, planned, entries, manifest, accepted>>

(* The operator removes a ledger no manifest has accepted.                 *)
Discard(r) ==
  /\ stage = "idle"
  /\ ledger[r].exists /\ r \notin accepted
  /\ ledger' = [ledger EXCEPT ![r] = NoLedger]
  /\ UNCHANGED <<device, cpuAllowed, planned, stage, entries, manifest, accepted, faults>>

Drive ==
  \/ \E answer \in {"gpu", "cpu"} : DeviceReady(answer)
  \/ \E n \in FailureCounts, c \in ProviderFailures : RunnerReturns(n, c)
  \/ Judge
Operate ==
  \/ \E wanted \in SUBSET CRuns, allow \in BOOLEAN : Start(wanted, allow)
  \/ \E r \in CRuns : Discard(r)
CFault ==
  \/ \E answer \in {"cpu", "none"} : DeviceRefused(answer)
  \/ \E left \in Partial : RunnerFails(left) \/ Killed(left)

CNext == Drive \/ Operate \/ CFault

-----------------------------------------------------------------------------

(* The ledger holds an answer, or a failure of the agent, for all but a    *)
(* tenth of the requests.                                                  *)
Measured(l) == l.recorded = Items /\ ~l.torn /\ 10 * l.failed <= Items

OnDevice(r) == device[r] = "gpu" \/ (device[r] = "cpu" /\ r \in cpuAllowed)

(* A manifest that says "completed" lists every run it was to do.  The     *)
(* ledger of each run that it, or one before it, lists without a failure   *)
(* measures the agent and not the provider, and the report beside it says  *)
(* that a local model was served from the GPU, or from another device by   *)
(* the --allow-cpu of the driver that ran it.                              *)
CompletedMeansMeasured ==
  /\ manifest.status = "completed" =>
       /\ Len(manifest.runs) = Len(manifest.planned)
       /\ \A i \in DOMAIN manifest.runs :
            manifest.runs[i].run = manifest.planned[i] /\ manifest.runs[i].run \in accepted
  /\ \A r \in accepted : Measured(ledger[r]) /\ (r \in Local => OnDevice(r))

(* However often runs fail and the driver is killed, the operator gets     *)
(* every run of the plan measured, without editing a ledger.               *)
CampaignEnds == <>(accepted = CRuns)
=============================================================================
