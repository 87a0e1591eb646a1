----------------------------- MODULE Benchmark ------------------------------
(***************************************************************************)
(* The benchmark pipeline: two batches are blinded, reviewed by the other  *)
(* model, revised where the reviewer found the wording unequal, reconciled *)
(* and decided on by a human; runs of the seal command write the final set *)
(* to one directory, and the export joins the sealed requests and labels   *)
(* for the experiment runner.                                              *)
(***************************************************************************)
EXTENDS Decisions, Sealing

CONSTANTS
  Batches,            \* pairs of batches the generators may have written
  Reviews(_, _),      \* reviews of a batch that its blind copy may bring about
  Revisions(_, _),    \* revisions of a batch that its flagged groups may get
  HumanDecisions(_),  \* decisions documents for a set of pending groups
  Arguments,          \* arguments of a seal: completeness and topology files
  Order(_, _),        \* the shuffle of 1 .. n under the seed of a run
  Telling,            \* texts with a label, a schema name or a source ID
  Named,              \* text -> topologies it names as a whole word
  EditedItems(_, _, _),  \* items an export may make of edited requests, labels
                         \* and manifest
  MaxSameAction       \* limit on a run of one gold action

(* What a batch file holds, well formed or not.                            *)
BatchShaped(batch) ==
  /\ DOMAIN batch = {"batch_id", "groups", "declared"}
  /\ batch.groups \in Seq(GroupsOf(batch))
  /\ \A g \in GroupsOf(batch) :
       /\ DOMAIN g = {"id", "wellFormed", "label", "category", "paraphrases"}
       /\ g.paraphrases \in Seq(ToSet(g.paraphrases))
       /\ \A p \in ToSet(g.paraphrases) : DOMAIN p = {"id", "text"}

ASSUME BatchesAssumption ==
  \A pair \in Batches : DOMAIN pair = {1, 2} /\ \A b \in 1 .. 2 : BatchShaped(pair[b])

VARIABLES
  batches,      \* the batch files, the revised one in the place of the first
  shown,        \* the blind copies: group -> texts
  reviews,
  revised,      \* the batches that have been revised
  worksheet,    \* the groups the decisions template lists
  decisions,
  records,      \* what each run has prepared to write
  harness       \* the export: where it is, what its output holds, and the
                \* seal manifest it names as its source

inputs == <<batches, shown, reviews, revised, worksheet, decisions>>
allvars == <<vars, inputs, records, harness>>

Side == 1 .. 2
Texted(group) == [i \in DOMAIN group.paraphrases |-> group.paraphrases[i].text]

---------------------------------------------------------------------------
(* Authors, reviewers and the human.                                       *)

(* The blind copy carries IDs and texts only; it is written once.          *)
Blind(b) ==
  /\ shown[b] = Null
  /\ \A g \in GroupsOf(batches[b]) : g.paraphrases # <<>>
  /\ shown' = [shown EXCEPT ![b] = [id \in {g.id : g \in GroupsOf(batches[b])} |->
                  Texted(CHOOSE g \in GroupsOf(batches[b]) : g.id = id)]]
  /\ UNCHANGED <<vars, batches, reviews, revised, worksheet, decisions, records, harness>>

Review(b) ==
  /\ shown[b] # Null /\ reviews[b] = Null
  /\ \E review \in Reviews(b, shown[b]) : reviews' = [reviews EXCEPT ![b] = review]
  /\ UNCHANGED <<vars, batches, shown, revised, worksheet, decisions, records, harness>>

(* A revision sets texts and nothing else; one problem refuses all of it.  *)
RevisionSound(batch, revision) ==
  \A i \in DOMAIN revision :
    /\ ~revision[i].extra
    /\ \E g \in GroupsOf(batch) :
         /\ g.id = revision[i].id
         /\ [k \in DOMAIN revision[i].paraphrases |-> revision[i].paraphrases[k].id]
              = [k \in DOMAIN g.paraphrases |-> g.paraphrases[k].id]
    /\ \A k \in DOMAIN revision[i].paraphrases : revision[i].paraphrases[k].text # Blank

(* The group with the texts that the last of its revisions gives it.       *)
Reworded(group, revision) ==
  LET own == {i \in DOMAIN revision : revision[i].id = group.id}
  IN IF own = {} THEN group
     ELSE [group EXCEPT !.paraphrases = [k \in DOMAIN @ |->
             [@[k] EXCEPT !.text = revision[Max(own)].paraphrases[k].text]]]

Revised(batch, revision) ==
  [batch EXCEPT !.groups = [k \in DOMAIN @ |-> Reworded(@[k], revision)]]

(* The author is asked for the groups the reviewer flagged.                *)
Flagged(b) ==
  {id \in {r.group.id : r \in ToSet(Reconciled(batches, reviews))} :
     \E r \in ToSet(Reconciled(batches, reviews)) :
        r.group.id = id /\ r.batch = b /\ r.class = "PARAPHRASE_MISMATCH"}

Revise(b) ==
  /\ b \notin revised /\ Null \notin {reviews[1], reviews[2], worksheet} /\ decisions = Null
  /\ \E revision \in Revisions(batches[b], Flagged(b)) :
       /\ RevisionSound(batches[b], revision)
       /\ batches' = [batches EXCEPT ![b] = Revised(@, revision)]
  /\ revised' = revised \cup {b}
  /\ worksheet' = Null
  /\ UNCHANGED <<vars, shown, reviews, decisions, records, harness>>

Reconcile ==
  /\ Null \notin {reviews[1], reviews[2]} /\ worksheet = Null
  /\ Reconcilable(batches, reviews)
  /\ worksheet' = Pending(Reconciled(batches, reviews))
  /\ UNCHANGED <<vars, batches, shown, reviews, revised, decisions, records, harness>>

Decide ==
  /\ worksheet # Null /\ decisions = Null
  /\ \E document \in HumanDecisions(worksheet) : decisions' = document
  /\ UNCHANGED <<vars, batches, shown, reviews, revised, worksheet, records, harness>>

---------------------------------------------------------------------------
(* Sealing.                                                                *)

(* Every catalogue topology has a file that agrees with its entry.         *)
ReferencesSound(files) ==
  \A t \in DOMAIN Catalogue :
    /\ t \in DOMAIN files
    /\ files[t].name = t
    /\ files[t].working_period = Catalogue[t].working_period
    /\ files[t].communication_range = Catalogue[t].communication_range
    /\ Catalogue[t].sha256 # Null => files[t].sha256 = Catalogue[t].sha256

Final == FinalSet(Reconciled(batches, reviews), decisions)

(* One record per paraphrase, in the source order and then shuffled: its   *)
(* text is the sealed request, the rest the sealed label.                  *)
SourceItem(group, k) ==
  [text |-> group.paraphrases[k].text, request |-> group.paraphrases[k].id,
   group |-> group.id, action |-> group.action, fields |-> group.fields,
   invalid |-> group.invalid]

SourceItems(final) ==
  FlattenSeq([i \in DOMAIN final |->
                [k \in DOMAIN final[i].paraphrases |-> SourceItem(final[i], k)]])

SealedRecords(final, s) ==
  LET items == SourceItems(final)
      order == Order(s, Len(items))
  IN [k \in DOMAIN items |-> items[order[k]]]

RunTooLong(sealed) ==
  \E k \in DOMAIN sealed : k + MaxSameAction \in DOMAIN sealed
     /\ \A i \in 1 .. MaxSameAction : sealed[k + i].action = sealed[k].action

LeakFree(sealed, final) ==
  /\ \A k \in DOMAIN sealed : sealed[k].text \notin Telling
  /\ Cardinality({sealed[k].text : k \in DOMAIN sealed}) = Len(sealed)
  /\ Len(sealed) > 1 => sealed # SourceItems(final)
  /\ ~RunTooLong(sealed)

Sealable(s, arguments) ==
  /\ arguments.complete
  /\ ReferencesSound(arguments.files)
  /\ Reconcilable(batches, reviews)
  /\ Accepted(batches, reviews, decisions)
  /\ LeakFree(SealedRecords(Final, s), Final)

PrepareSeal(s) ==
  /\ decisions # Null
  /\ pc[s] = "preparing"
  /\ \E arguments \in Arguments :
       IF Sealable(s, arguments)
       THEN Prepare(s) /\ records' = [records EXCEPT ![s] = SealedRecords(Final, s)]
       ELSE Refuse(s) /\ UNCHANGED records
  /\ UNCHANGED <<inputs, harness>>

StartSeal(s) == decisions # Null /\ Look(s) /\ UNCHANGED <<inputs, records, harness>>
WriteSeal(s) == Write(s) /\ UNCHANGED <<inputs, records, harness>>
CrashSeal(s) == Crash(s) /\ UNCHANGED <<inputs, records, harness>>
ClearSeal == Clear /\ UNCHANGED <<inputs, records, harness>>

---------------------------------------------------------------------------
(* The export for the experiment runner.                                   *)

(* A topology is bound when the text names exactly one of the catalogue.   *)
Bound(text) ==
  LET matches == {t \in DOMAIN Catalogue : t \in Named[text]}
  IN IF Cardinality(matches) = 1 THEN CHOOSE t \in matches : TRUE ELSE Null

HarnessItem(record) ==
  [text |-> record.text, group |-> record.group, action |-> record.action,
   topology |-> Bound(record.text)]

HarnessItems(sealed) == [k \in DOMAIN sealed |-> HarnessItem(sealed[k])]

(* Nothing is exported over an existing output, nor from a directory that  *)
(* does not verify.                                                        *)
StartExport ==
  /\ harness.pc = "none" /\ Verifies
  /\ harness' = [harness EXCEPT !.pc = "reading"]
  /\ UNCHANGED <<vars, inputs, records>>

AsSealed ==
  \A f \in {"requests", "gold", "manifest"} : Bytes(f) = Original(dir["requests"].by)

(* Requests and labels are joined, under the catalogue of the manifest,    *)
(* whose hash goes into the manifest of the export.  What other hands have *)
(* made of the three may be joined to anything, or refused.                *)
ReadSeal ==
  /\ harness.pc = "reading"
  /\ \E items \in IF AsSealed THEN {HarnessItems(records[dir["requests"].by])}
                  ELSE EditedItems(Bytes("requests"), Bytes("gold"), Bytes("manifest")) :
       harness' = [pc |-> "begun", items |-> items, source |-> Bytes("manifest")]
  /\ UNCHANGED <<vars, inputs, records>>

RefuseExport ==
  /\ harness.pc = "reading" /\ ~AsSealed
  /\ harness' = [harness EXCEPT !.pc = "none"]
  /\ UNCHANGED <<vars, inputs, records>>

FinishExport ==
  /\ harness.pc \in {"begun", "written"}
  /\ harness' = [harness EXCEPT !.pc = IF @ = "begun" THEN "written" ELSE "described"]
  /\ UNCHANGED <<vars, inputs, records>>

(* No file is edited while an export runs.                                 *)
EditSealed(f) ==
  /\ harness.pc \in {"none", "described"}
  /\ Edit(f) /\ UNCHANGED <<inputs, records, harness>>

---------------------------------------------------------------------------
BInit ==
  /\ Init
  /\ batches \in Batches
  /\ shown = [b \in Side |-> Null] /\ reviews = [b \in Side |-> Null] /\ revised = {}
  /\ worksheet = Null /\ decisions = Null
  /\ records = [s \in Sealer |-> <<>>]
  /\ harness = [pc |-> "none", items |-> <<>>, source |-> <<Absent, AsWritten>>]

SealerStep(s) == StartSeal(s) \/ PrepareSeal(s) \/ WriteSeal(s)

BNext ==
  \/ \E b \in Side : Blind(b) \/ Review(b) \/ Revise(b)
  \/ Reconcile
  \/ Decide
  \/ \E s \in Sealer : SealerStep(s) \/ CrashSeal(s)
  \/ ClearSeal
  \/ StartExport \/ ReadSeal \/ RefuseExport \/ FinishExport
  \/ \E f \in File : EditSealed(f)

(* A command that has been started runs on.                                *)
Fairness == \A s \in Sealer : WF_vars(decisions # Null /\ Run(s))
BSpec == BInit /\ [][BNext]_allvars /\ Fairness
=============================================================================
