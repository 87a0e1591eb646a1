# A verification of the ANEX scheduling agent

The repository schedules one-shot data aggregation in duty-cycled, multi-channel
sensor networks with the ANEX algorithm, puts a language-model requirement agent
in front of it, builds and seals the benchmark the agent is measured on, runs the
measurements and releases them. This directory holds TLA+ modules translated from
its source, TLC configurations that check them on small instances, and TLAPS proofs
for all instances. `PROJECT.json` maps every definition to the lines it models and
lists each hazard of the code at its line with the properties that would catch it.

## 1. The system

| Component | Source | State it keeps | Operations | Interacts with |
|---|---|---|---|---|
| ANEX scheduler | `source/ANEX/ANEX.py`, loop in `agentic_anex/tools.py:205` | per node: layer, parent, children, timeslot, channel; completed count; per slot: candidates, eligible senders, receivers, colour buckets | layering, tree construction, candidate scan, parent changing, colouring, commitment | called by `run_anex` and the legacy runner |
| `run_anex` and the tools | `agentic_anex/tools.py` | trace of each call | inspect, run, validate, measure, explain | scheduler, validator, pipeline |
| Schedule validator | `agentic_anex/validator.py` | none | schedule to violation codes | tools, baseline |
| Validator mutation test | `scripts/run_validator_mutation_test.py` | none | twelve mutation operators, survivors | validator, original checker |
| Orchestrator, requirement agent | `orchestration.py`, `request_consistency.py`, `scope_policy.py` | attempt, correction, logs, decision, tool outputs | six stages, bounded retries, report | LLM client, tools |
| LLM clients | `llm_clients/` | none | structured call, json_object fallback, error codes | provider |
| Rule-based workflow | `workflows/rule_based.py` | none | reads, refuses, asks or schedules | tools |
| Systems and scoring | `experiments.py:146-345`, `audit_ledger_tables.py`, `analyze_frozen_test_results.py` | one record per item | record, stage that decided, scores | both pipelines, ledgers |
| Experiment runner, raw ledger | `experiments.py:348` | JSONL file under a lock, stale set of completed keys | load, run, append, resume | other runners on the same file |
| Topology generators | `topology_io.py`, `topology.py`, `source/libs/gentopo.py` | occupied positions, search frontier | draw, connect, judge, draw again | scheduler (they make its input) |
| Topology catalogue, scaling experiment | `build_topology_catalogue.py`, `run_topology_scaling_experiment.py` | files, hashes, rows | build, measure | generators |
| Benchmark tooling | `frozen_test_v2/`, `apply_holdout_revision.py`, `export_frozen_test_v2_harness.py` | batches, blind copies, reviews, decisions, a sealed directory | blind, review, revise, reconcile, decide, seal, verify, export | two generator models, a human, the runners |
| Campaign driver | `run_frozen_test_v3_seed_campaign.py` and its two runners | plan, ledgers, device reports, manifest | start, device check, run, judge, finish | provider, ledgers, operator |
| Direct-generation baseline | `run_direct_generation_baseline.py` | ledger without a lock | backoff, retries, resume with rewrite | provider, validator |
| Locks, release, archive | `reissue_evaluation_lock.py`, `build_release_manifest.py`, `verify_release_manifest.py`, `build_supplementary.py` | lock chain, manifest, archive | reissue, build, package, verify | every file of the repository |
| Tables, figures, visualization, front ends | `scripts/`, `visualization.py`, `cli.py` | none | statistics and rendering | finished files |

What is hard here. The scheduler is sequential, but its state is a graph held twice
(parent pointers and child lists) that is rewritten slot by slot while candidate sets
computed earlier are still being worked off; it must terminate although no loop of the
legacy code has a guard. The validator skips entries that are wrong in one way when it
looks for another. The pipeline stands between an untrusted model and the tools, with
two kinds of errors sharing one retry budget. Concurrency and crashes are in the
ledger, in sealing and around the campaign: exclusive creation, locks, checks that go
stale, files written one after the other, and operators who start things again.

## 2. Modules

| Module | Models | Role |
|---|---|---|
| `AnexScheduler` | `ANEX.py`, `tools.py:205-243` | state machine; every loop iteration of the program is one action |
| `AnexProperties` | | properties |
| `AnexInductive`, `AnexLimits` | | what the scheduler maintains on a complete tree; the limits under which the tree is complete and no guard fires |
| `Iteration` | the bounded walks and the filtering loops of several files | two loops as recursive functions, of which facts can be proved |
| `ScheduleValidator` | `validator.py` | function from network and entries to violation codes |
| `ValidatorMutation` | `run_validator_mutation_test.py`, `EDAS_validation.py` | the mutants, and the checker of the original scheduler |
| `AnexCertificate` | `tools.py:246-282` | schedule and certificate of `run_anex`; refinement of `Convergecast` |
| `Convergecast` | | abstract: what one-shot aggregation promises |
| `ScheduleExecution` | radio environment | carries a certified schedule out; shows what a certificate is worth |
| `RequestPipeline`, `RequestProperties` | `orchestration.py`, `request_consistency.py`, clients, tool calls | the pipeline against a model that answers anything |
| `Records` | `rule_based.py`, systems of `experiments.py`, the audit, the analysis | one benchmark item through either system to its record and scores |
| `ExperimentLedger` | `experiments.py:102-125, 348-454` | several runners on one ledger |
| `Contract`, `Reconciliation`, `Decisions` | `contract.py`, `reconcile.py`, `decisions.py` | pure parts of the benchmark: field rules, comparison and classification of reviews, the final set |
| `Sealing`, `SealedOnce` | `seal.py:329-513` | runs of the seal command file by file; abstract: a benchmark sealed once |
| `Benchmark`, `BenchmarkProperties` | `blinding.py`, `seal.py`, `harness.py`, `apply_holdout_revision.py` | composition: batch to sealed directory to export |
| `Generation` | `topology_io.py:151-320`, `topology.py`, `gentopo.py` | one call of a generator, every draw a step |
| `Catalogue` | the catalogue builder and the scaling experiment | builds and experiments that fail half-way |
| `Campaign` | the seed campaign | driver, runner processes, provider, operator |
| `DirectGeneration` | the baseline | retries, resume, interruptions |
| `Release` | locks, manifest, verifier, archive | contents are versions, a hash is equality of versions |
| `Evaluation` | | the five modules above side by side |
| `AnexProofs`, `AnexSafety`, `IterationProofs`, `ExecutionProofs`, `LedgerProofs`, `RequestProofs`, `BenchmarkProofs`, `EvaluationProofs` | | theorems |
| `MC*` | | small instances |

Composition: `Benchmark` extends `Decisions` (which extends `Reconciliation` and
`Contract`) and `Sealing`; its `PrepareSeal` decides between `Prepare` and `Refuse` of
`Sealing` by the final set. `Records` extends the pipeline with the second system and
the record. `AnexCertificate` joins scheduler, validator and `Convergecast`. The parts
of `Evaluation` share no state, so each behaviour moves one of them (`part`).

### The scheduler and the code

`layer`, `parent`, `children`, `timeslot`, `channel` are the fields of `Node`;
`children[p][c]` counts how often `c` occurs in `p.childrenIDs`, since `append` and
`remove` work on a list. `completed` is the length of the list that ends the loop
(`U` in the legacy loop). `pc` names the loop the program is in.

| Action | Code |
|---|---|
| `LayeringStep`, `LayeringDone` | one pass of `layering` |
| `ConnectNode`, `LeaveUnconnected`, `TreeDone` | one node of `tree_construction_based_minimum_link_delay` |
| `BeginPeriod`, `TooManyPeriods`, `BeginSlot`, `EndPeriod`, `Finish` | the loop over periods and slots; `Guarded` chooses tool layer or legacy loop |
| `SkipSender`, `ChangeParent`, `Crash`, `QueueEmpty` | one iteration of the queue loop of `dynamic_schedule` |
| `AssignColour`, `NoColourLeft`, `CommitSlot` | colouring, and commitment of the buckets within the channel count |

The order of a neighbour list breaks ties between equal delays and weights; the schema
leaves it open and so does the model. The sort of the candidates by weight is the
choice made by `NextInQueue`; no weight changes while the queue is worked off. `Crash`
is the exception of `node_list[None]` or of `childrenIDs.remove` on an absent child.

### The pipeline, its records and the code

A request is what the pattern matchers find in its text; an answer is what the typed
decision makes of a structured output. `httpCalls` counts requests to the provider, the
fallback from `json_schema` to `json_object` included. Three kinds of topology stand
for the ways `run_anex` can end: a schedule, a domain failure (more periods than the
limit) and an internal exception (a sink other than node 0, which the schema accepts
and ANEX does not). Whether a schedule also holds under `interference_range` depends on
coordinates and is left open. `Records` adds what the runner does before (a client that
cannot be made), instead (`RunRuleBased`, in one step: the workflow is a sequence of
early returns without I/O; its own readings of the text are `Readings`) and after:
`orchestration_report_to_output`, `terminating_stage` of the audit, and the scores of
the analysis as operators over the record and a gold label.

### The ledger and the code

The file is a sequence of parts of lines, because a record is longer than one write to
the file may be: an unlocked reader, or whoever comes after a crash, sees a prefix.
`Load` takes no lock, as in the code; appends read the file again under the lock. A
crash releases the lock, as the kernel does for `flock`. A failing write leaves
`run_experiment_matrix` with an exception and what was written in the file, which is
the same step. `Rerun` is the operator starting the command again. A line that holds two
records is refused as a whole, so `Damaged` has both: a crash in front of a newline leaves
a readable record, and the next append makes it unreadable together with its own.

### The benchmark and the code

| Action | Code |
|---|---|
| `Blind`, `Review` | `blinding.py`; a reviewer's document, any of `Reviews` |
| `Revise` | `apply_holdout_revision.py` on groups flagged `PARAPHRASE_MISMATCH` |
| `Reconcile`, `Decide` | `cli.py` reconcile and the template; a human's document |
| `StartSeal`, `PrepareSeal` | the two checks of the directory around `validate_decisions`, `build_final_set` and the leak check |
| `WriteSeal` = `LookAgain`, `Create`, `FileExists`, `Fill` | six files, each opened with `"x"` and then written |
| `CrashSeal`, `ClearSeal`, `EditSealed` | a run dies; the operator clears an unsealed directory; a file of a seal is edited, or edited back |
| `StartExport`, `ReadSeal`, `RefuseExport`, `FinishExport` | verify, read again, join (or refuse what does not join), write the harness and its manifest |

`Reconciled` and `FinalSet` are operators: classification of a group by the comparison
of label, fields and paraphrases, then keep, edit or exclude, then quotas. A text is its
normal form. `Named` says which topologies a text mentions.

The bytes of a sealed file are the run that wrote it and what others have made of it since
(`Bytes`); a hash is those bytes. An edited manifest is what it lists, an edited digest the
hash its first word is: `Verifies` compares what `verify_sealed_directory` compares and no
more, so text behind the first word of the digest, an edit that is undone, a manifest
without outputs, and an output, manifest and digest changed consistently all verify. What
others may write is a parameter (`Rewrites`), and so is which contents fail the leakage
checks (`Leaks`; what a run has written passes them, `LeakAssumption`) and what an export
makes of edited requests and labels (`EditedItems`).

### Generation, catalogue, campaign, baseline, release and the code

A generator draws until a position is free: a draw of an occupied one is a stutter. The
search from the sink is `Explore`, one node a step. `SaveTopology`, `SaveSchedule` and
`WriteCatalogue` are the writes of the builder, each with its existence check;
`Measure`, `WriteRows`, `WriteManifest` those of the experiment. The campaign's `Start`
refuses over existing ledgers, `DeviceReady` / `DeviceRefused` is the preflight with or
without `--allow-cpu` (`cpuAllowed`; a model split between the devices counts as "cpu"),
`RunnerReturns` / `RunnerFails` the subprocess, `Judge` what the driver makes of its
ledger, `Finish` the manifest. A ledger there is a record count, the number of requests
the provider failed, their code, and whether its end is cut. In the baseline `Rewrite`
truncates the ledger and puts the kept records back, and both may be interrupted. In
`Release` a lock is a function from files to versions; `Build`, `Package` and
`Verifies` compute from tree and locks what the three scripts write and compare. Which
files carry a path with a user name or a by-line, which have a suffix that is looked into
and which are in the by-line scope are parameters; `Identifying` are those in which
`anonymise` finds something, and every other file is shipped as it is.

## 3. Runs

| Run | Instance | Shows |
|---|---|---|
| `anex_safety` | all connected graphs on 4 nodes, all active-slot choices, T = 2, 1 or 2 channels | the inductive invariant; list and pointer consistency, precedence, collision freedom, no guard or exception, frozen commitments; every schedule is certified; the scheduler implements `Convergecast` and the sink collects every reading |
| `anex_colours` | 6 nodes of degree at least 4, T = 1, 2 buckets, legacy loop | senders without a bucket; the unguarded loop ends |
| `anex_degenerate` | 3 nodes, T = DelayCap = 2, one period allowed | nodes without parent, exhausted guards; the run still ends |
| `schedules` | all complete schedules on dense 4-node networks, 2 channels; one edit of every certified schedule, with sleeping nodes and unknown ends | what is certified delivers and is a convergecast on the air, no mutant of it is certified, and the checker of the original scheduler agrees |
| `request_pipeline` | requests that differ in what the gates and checks see, any answer, three gate modes, 2 retries; both systems | gate order, earned EXECUTE, logs and corrections, the audit credits the deciding stage, three scoring scripts agree, everyone is answered |
| `experiment_ledger` | 2 overlapping runners, 3 keys, 2 crashes, 3 starts each | no duplicate, no mixed lines, complete accounting, no runner waits for ever |
| `benchmark` | 2 batches, 3 groups, reviews of every class, revisions, decisions, 2 competing seals, a crash, up to 3 edits, the export | the seal is the work of one run and verifies as written, nothing else verifies under its manifest hash, labels were agreed blind or decided by a human, an export that names the run's manifest is the sealed set, sealing implements `SealedOnce`, two runs never both give way |
| `evaluation` | generators on a line and a 2x2 square; 2 topologies, 2 settings; 3 runs of a campaign; 3 items of a baseline; 4 files (a by-line out of scope; a path and a by-line in scope; a path under a suffix that is not looked into; nothing to find), 2 locks | only schedulable networks, experiments measure their catalogue, completed means measured, resuming loses nothing but in an interrupted rewrite, the verifier accepts exactly what was built, an archive of that tree verifies, any archive names an author only where the script does not look, and all of it ends |
| `anex_unconnected`, `request_topology`, `ledger_resume`, `provider_outage` | | violated: see Findings |

Deadlock checking is off because every one of these programs ends.

### Bounds

- Four nodes are the least with a diamond, where a node can change parent to a node of
  its own layer and two senders compete for one receiver; six dense nodes are needed to
  fill two buckets and leave a sender without one. The code has seven buckets;
  `MaxColours` is 7 except in `anex_colours`. The proofs are for any number.
- `DelayCap` is the code's 100000, except in `anex_degenerate` and `anex_unconnected`,
  where a period of 2 slots and `DelayCap` 2 stand for a period of at least 100000.
- `MaxPeriods` stands for `DEFAULT_MAX_WORKING_PERIODS`; `N - 1` suffices for every
  network (`PeriodsBounded`).
- `LastSlot` 2 leaves room for every order of three senders. In the complete graph the
  senders are named in the order they transmit in: the other schedules are renamings.
  `PerOperator` is 2 where the script's default is 12: schedules of three entries must
  be able to exceed the quota.
- `MaxRetries` 2 is the maximum of the code. `Provider` is "openai", whose client has
  every reply the others have and the fallback besides.
- One crash suffices in `benchmark`, since sealing never repairs; two sealers are the least
  that compete. Three edits are the least that change an output, the manifest and the
  digest consistently (`MCRewrites` has the steps of it, and of undoing it); they are made
  in a seal of the first of the two runs.
  `MaxSameAction` is 4 where the `seal` command's default is 10: a benchmark of seven
  items, five of them schedules, must exceed it. The proofs are for any number.
- `Items` is 10, the least at which one failed request is still within the tenth the
  driver allows and two are not (`FailureCounts` 0, 1, 2); `CutCounts` 0 and 9 are an
  empty and an almost finished ledger; `MaxFaults` 2 lets a refilled gap fail again.
- `MaxInvocations` 3 and `MaxInterrupts` 2 let a baseline be interrupted in a rewrite
  after an interrupted run; `MaxRetries` and `MaxWaits` 1 there give every pair of
  outcomes. `MaxFailures` 2 lets a build and an experiment fail, `MaxFileEdits` 1 is one
  edit at any time. `Versions` 1..2 and `MaxChanges` 2 let a file change and change back.
- The jobs of the generators: a line on which the middle is a position and one on which
  it is not, and a square; with fewer, exactly as many and more positions than nodes.

### Fairness

The scheduler and the pipeline are single threads: weak fairness of their next-state
relation says that nothing suspends the thread for ever; for the pipeline this includes
that a provider call returns or times out, which the client's timeout enforces. For the
ledger each runner's own steps are weakly fair; crashes and reruns are not. A seal
command that was started runs on. A generator that goes on draws a free position sooner
or later, as a random generator does; if there is none (the wrapper of the original
generator has no guard against that), nothing is claimed. The campaign driver and its
runner go on (`Drive`), and the operator goes on filling gaps (`Operate`): without the
second nobody would start a campaign again. A baseline run goes on; nobody has to start
one. Faults are never fair.

### Assumptions

- Nobody edits a sealed directory while the export reads it, or a topology while a
  catalogue is built; the hash check of a topology and its load are one step.
- One catalogue builder, and one campaign, at a time; a kill of the driver stops its
  runner as well. `llm_catalogue.json` is written with `catalogue.json`.
- The operator clears only directories without a seal and while no run writes, and
  discards only ledgers that no manifest lists as done. The author rewords only the
  groups the reviewer flagged.
- Files to be rewritten that any lock covers are covered by a lock the archive looks at
  (`Published`, a condition of the clause on verification). For the repository's own tree
  this is so; otherwise such a file would be redacted and diverge undeclared.
- Whether a file carries a path or a by-line does not depend on its version. An author is
  what the two patterns of the script match; a name in another form is not in the model.
- No file is removed from a sealed directory, and it is edited only there: what a run has
  left without a digest is cleared, not edited.
- The original checker takes node 0 for the sink; mutants are counted for periods of
  more than one slot, since in a period of one the moved active slot is the same one.
- A cut of the baseline's ledger exactly in front of a newline is not distinguished from
  a whole record.

## 4. Findings

1. `anex_unconnected`. `docs/legacy_compatibility_audit.md:87` expects an
   `UnboundLocalError` of the tree construction when a layered node has no feasible
   slot comparison. The comparison `node.delay > delay` is then between equal values,
   the variable is never read, and construction completes with a node without parent.
2. `request_topology`. `docs/operator_guide.md:186` says that a provider response
   which asks again for a supplied topology is rejected. The code recognises it by
   the field name `topology` alone.
3. `ledger_resume`. `docs/frozen_test_v2_evaluation.md:79` calls ledgers resumable by
   rerunning the command. After a crash in the middle of a record the rerun is refused.
4. `provider_outage`. The comment at `run_frozen_test_v3_seed_campaign.py:137` says that
   a run whose provider refused most calls is not a result. The driver counts three
   error codes; `PROVIDER_UNAVAILABLE`, of a connection nobody answers, is not one of
   them, nor is `INTERNAL_EXPERIMENT_EXCEPTION`, for instance of a missing API key. A
   campaign against a provider that is down completes. `CompletedMeansMeasuredCorrect`
   shows that this is the only way: it holds of every provider whose codes are counted.

Observed while modelling, and harmless to the properties above:

- The analysis counts `PROVIDER_UNAVAILABLE` as a semantic failure (it is not in
  `INFRASTRUCTURE_CODES`), as it counts a rule-based `SCHEDULE_VALIDATION_FAILED`; an
  item whose provider failed is answered REJECT and completes a REJECT item.
- The audit credits a rule-based refusal of a value to `parameter_check` and a rule-based
  crash to `baseline_filter`, though `audit_ledger_tables.py:28-33` gives the baseline's
  own refusals to the latter; a system whose client cannot be made is `unclassified`.
- `agent_cli` catches domain and OS errors only: a missing API key ends in a traceback.
- `verify` raises on an empty manifest or digest instead of reporting the directory as
  invalid; in the model it does not verify.
- `verify` reads the first word of the digest only, and trusts the manifest for which files
  to hash: a seal whose output, manifest and digest are rewritten together verifies, and
  nothing in the directory tells. `SealedByOneRun` therefore speaks of the manifest hash
  the sealing run wrote, which has to be kept elsewhere to be compared.
- `build_supplementary.py:23-25` says that anything that would identify the authors stays
  out. A file whose suffix is not in `REDACTABLE_SUFFIXES` is shipped before either pattern
  is tried (256-258), and a by-line outside `source/` is left as it is (201, 260), also where the
  file is rewritten for its path. `ArchiveVerifies` names these exceptions.
- A manifest of the campaign replaces the one before it, and one of `--only` lists all
  seeds as added. The baseline records any HTTP status as a rate limit once its waits are
  used up, and `--resume --only` with an unknown ID tidies the ledger before it refuses.

## 5. Proofs

Every theorem is checked by `tlapm` to the last leaf, for every value of the constants
that satisfies the named assumptions.

**Scheduler** (`AnexProofs`, `AnexSafety`). What the scheduler maintains is `CoreInv`; it
is inductive as long as the tree construction leaves nobody without a parent:

- `WholeTreeInductive` (`WholeTreeInv`: no node left out implies `CoreInv`) assumes only
  `SizeAssumption` and `NetworksAssumption` (what `NodeSpec` and `NetworkInstance`
  check). It gives `CrashOnlyUnconnected`, for every delay cap and period limit and in
  both loops, and `WholeTreesAreSafe`: a run whose tree is complete is safe even where a
  guard ends it early.
- `Inductive` (`IndInv`, that is `CoreInv` and `NeverFails`) assumes `LimitsAssumption` as
  well: a working period is shorter than the starting link delay of 100000, and the
  guarded loop may run `N - 1` periods. Without the first, nodes are left without parent
  (`anex_unconnected`); without the second the guard may fire early
  (`anex_degenerate`). One theorem for each safety property follows, among them three no
  run repeats: `AcyclicRouting`, `ReceiverListens`, `SinkNeverTransmits`.

None of the properties is inductive alone. The argument, in the order of the lemmas of
`AnexProofs`:

1. *Scheduled nodes have heard all their children* (`ScheduleInv`), so the parent of an
   unscheduled node is unscheduled (`ParentUnscheduled`).
2. A sender changes parent only when it has heard all its children (`QueueInv`), and its
   new parent is unscheduled. A cycle closed by the change would run from the new parent
   along unscheduled nodes back to the sender, through one of its children; but those are
   scheduled (`ChangeAcyclic`).
3. With routes acyclic, the sink has an unscheduled child as long as anyone is
   unscheduled (`SinkWaits`): it is neither a candidate nor promoted.
4. Eligible senders have distinct receivers, and no receiver is eligible (`EligibleInv`);
   a bucket holds no conflict (`ColourInv`). Committing the buckets gives `CollisionFree`,
   and `AggregationPrecedence` because all earlier timeslots are below `Now`.
5. Pending senders have a leaf among them (`LeafInv`), a candidate whenever its parent is
   awake. The first candidate of a slot is never skipped and the first eligible sender
   always gets the first bucket (`ProgressStep`), so a period commits somebody
   (`EndPeriodFacts`): the guards do not fire.

From the invariant follow the two theorems that tie the scheduler to the rest:

- `CertificateValidCorrect`: no check of the validator finds anything in a finished
  schedule, one lemma per group of codes (`NoViolation`). For the route check the timeslots
  rise along the route, so a walk of as many hops as there are nodes has come to rest.
- `ImplementsConvergecastCorrect`: the reading of a node is where the links of committed
  transmissions lead from it (`Carrier`). A commit sends those walks on by one link and no
  other step moves them (`StepIsRound`), which is a round of `Convergecast`. `DoneDelivers`:
  in the end they have all arrived at the sink.

**Walks and filters** (`IterationProofs`). Facts about recursive functions need induction,
and the induction theorems of the library take an operator. These proofs use sets instead:
a set of numbers that holds 0 and the successor of each of its members holds them all
(`SetInduction`, from the least element of a nonempty set). From it: the equations of
`Iterate`, walks along which a number rises come to rest within as many steps as there are
nodes (`ComesToRest`, by counting the nodes passed), closed sets are not left
(`IterateStays`), and what `Filter` returns is the selection of its argument in its order.

**Certificates** (`ExecutionProofs`). For every schedule, network and number of channels:

- The convergecast conserves readings and delivers them.
- `CertifiedSchedulesConverge`, `CertifiedSchedulesDeliver`: in a certified schedule every
  transmission is heard (no interferer on the channel, the receiver awake and silent), and
  whoever receives has yet to send, so that the radio carries out rounds of `Convergecast`.
- `OriginalCheckerAccepts`, if neighbours interfere with each other (`NeighboursInRange`:
  under both collision models of `networks` a node reaches its neighbours).
- `NoMutantSurvives`, one lemma for each of the twelve operators and whatever their quota,
  if a working period has more than one slot; in a period of one slot the moved active
  slot is the old one and the mutant is the schedule.

**Pipeline and records** (`RequestProofs`). About `RSpec`, the specification of the run,
for every set of requests, answers, readings and gate modes and every retry budget the
code allows (0 to 2).
`RequestInv` says stage by stage what may be relied on: before the gates nothing has been
sent; past them the request was let through; the last log belongs to the current attempt
and the next prompt carries its correction; from the tools on the decision was accepted
against the request, and the tools that have succeeded are exactly those the stage
needs. It gives
`GatesComeFirst`, `ExecuteIsEarned` and `LogsTellTheRetries`. `RecordInv` is the
conjunction of `EarlyAnswer` (how a request ends that no provider was asked about),
`ReportFacts` (a clarification asks something, an executed request was validated under
the requester's model) and `OutputFacts` (what the record of an item without a report
holds: a rule-based run, or an agent that could not be made); from it the two
cases of a record (asked a model, or not) give `StageNamesWhatDecided`, and the
possible pairs of status and error code give `ScorersAgree`. Assumptions: the sets of the
instance are of their types, and `InvalidAssumption`, that the codes of refused values are
none of the codes of other stages (in the code they begin with `INVALID_`).

**Ledger** (`LedgerProofs`). For every set of runners and keys, every matrix, and any
number of crashes and starts: `IndInv` of `ExperimentLedger`, and from it `RecordedOnce`,
`OnlyCrashesDamage`, `OneLineDamaged` and `ReturnedAllRecorded`. A writer starts on a
readable ledger without its key. If the last line lacks its newline, its record spoils the
one in front of it and both stay unreadable; otherwise its own is damaged until its end is
written. After either nobody appends to an unreadable ledger, so that all lines but the
last read and at most two records do not.

**Benchmark** (`BenchmarkProofs`). Sealing first: the files are written in one order, each
created exclusively, so whoever created the first owns every file behind it: before a file
that is there stand whole files of the same run. This gives `SealedByOneRun` and the
refinement of `SealedOnce`, for any number of runs, crashes, clearings and edits and
whatever the edits write (`Rewrites` is any operator): the clause on verification follows
from what `Verifies` compares, with the digest's hash fixed to the run's own, and claims
nothing of seals whose digest was rewritten too. `SealingSteps` carries both over to the
benchmark, whatever is sealed. `BenchmarkInv` adds
what the data rest on, from the batches to the export:

- `SeenOrRejected`: a reviewer has seen the texts a group has, or found them unequal;
- `WorksheetCurrent`: the human's worksheet is what reconciling the present batches and
  reviews leaves open, and nothing changes behind the decisions;
- `PreparedRuns`, `WritersCleared`: whoever has records, or a file in the directory, passed
  the checks with the batches and decisions as they are now;
- `ExportCurrent`: a harness that names the manifest of the sealing run is made from the
  records of that run.

`LabelsApproved` follows by tracing a sealed record back through the shuffle, the final set
and the joined reviews to the group it came from (`SealedLabels`); `HarnessFaithful` by
counting: the shuffle is a permutation of the source items (`ShufflesAll`), two for each
group, so the quotas of groups are those of items. Both need `RevisionsAsked`: the author
rewords only groups that were sent back. `apply_revision` checks the identifiers against
the batch but not against what was flagged, and a reworded group that a reviewer agreed
with would be sealed on texts the reviewer never saw. `BatchesAssumption` says that batch
documents are of the shape their schema gives.

**Evaluation** (`EvaluationProofs`), all about `ESpec`:

- *Catalogue*: a build owns its directory, since it starts without a catalogue and stops at
  any file that is there; what it has hashed is what it has generated, and only such lists
  are ever published. `MeasuredAsCatalogued` follows for any number of failures and edits.
- *Campaign*: a run in progress is in no manifest yet, each run is planned once (`InOrder`),
  and the only ledger a step writes is the current one (`RunKeeps`), so what was accepted
  stays measured. `CompletedMeansMeasured` needs `AllCounted`, the condition that finding 4
  violates, as a hypothesis of its theorem. The device of a local run is the GPU, or
  another one that the report states and `--allow-cpu` permitted.
- *Release*: the manifest is true of the tree and locks it was written for. Then the
  verifier accepts exactly the trees in which nothing pinned changed (`VerifiedAsBuilt`, by
  `UnshippedAccepted` for the files a release does not ship). An archive of that tree
  verifies if `Published` holds, and what is left of an author in any archive is in a file
  no pattern was tried on (`NothingFoundIsLeft`).
- *Baseline*: an invocation owes the ledger what `kept` or the open file does not have yet
  (`Unfinished`); a rewrite puts back exactly the measured lines, in their order
  (`KeptMeasured`), and an item is asked only if no line has it, so that none is measured
  twice. `ResumeMeasuresOnce` follows for every selection and sequence of interruptions; a
  cut rewrite is the one way to lose a measurement, and the invariant says so
  (`cutRewrite`).
- *Generation*: the positions taken count the nodes placed, so one is free while a node is
  left; whatever closed set contains the sink contains all the search has reached, so a
  network of which everything was reached is connected. `GenerationSound` is what
  `NetworksAssumption` of the scheduler asks of its networks.

Model-checked only. Every invariant, step property and refinement that a passing run checks
is proved. What is left to TLC is liveness, which TLAPS does not reach: `Terminates`,
`AlwaysEnds`, `SinkCollectsAll` (of which `DoneDelivers` proves the safety half), `Answered`,
`RunsEnd`, `PreparedIsSealed` and `EvaluationEnds`; and the four runs that expect a
violation.

## 6. Not modelled

- Regular expressions of the scope policy and the explicit fields, JSON and HTTP: data
  conversion and I/O; their verdicts are inputs.
- `copy_input=False` of the legacy runner: nothing in the repository passes it.
- Two builders of one catalogue directory, and edits between verification and export: the
  code does not guard against either, and the assumptions above exclude them.
- The semantic scope detector (one pass, one file at the end), tables, figures, statistics
  over finished ledgers, visualization, demo, worksheets and Markdown: no behaviour over
  time. The reader of the legacy text format of topologies.

## 7. Plan

The modules planned are written, and every safety property of the runs is proved. What would
come next: theorems of the step properties behind the liveness runs (a measure that every
step of the queue loop lowers); an abstract ledger, a set of keys that only grows, refined by
`ExperimentLedger` as long as nobody crashes; the scaling experiment and the generators in
one behaviour, with the catalogue's networks those of `GenerationSound`.
