--------------------------- MODULE Reconciliation ---------------------------
(***************************************************************************)
(* Two batches of request groups, each written by one model and reviewed   *)
(* blind by the other, are joined group by group and classified.  Only a   *)
(* group in FULL_AGREEMENT may do without a human decision.                *)
(*                                                                         *)
(* A text is its normal form (white space and case folded).  The request   *)
(* ID <<g, n>> is one that starts with the group ID g.                     *)
(***************************************************************************)
EXTENDS Contract, SequencesExt

CONSTANTS
  Blank           \* a request text that is missing or empty

CategoryAction ==
  [supported_default |-> "EXECUTE", supported_configured |-> "EXECUTE",
   supported_latency_target |-> "EXECUTE", missing_information |-> "CLARIFY",
   invalid_parameter |-> "REJECT", unsupported_energy |-> "UNSUPPORTED",
   unsupported_digital_twin_or_sync |-> "UNSUPPORTED", unsupported_periodic |-> "UNSUPPORTED",
   unsupported_topology_adaptation |-> "UNSUPPORTED",
   unsupported_other_objective |-> "UNSUPPORTED"]

(* A batch has an ID, the counts per action it declares, and groups with   *)
(* an ID, a label, a category, paraphrases, and whether what else they     *)
(* carry is well formed.                                                   *)
Texts(group) == {group.paraphrases[i].text : i \in DOMAIN group.paraphrases}
GroupsOf(batch) == ToSet(batch.groups)

---------------------------------------------------------------------------
(* Errors that make a batch or a review unusable as a whole.               *)

Requests(group) == {group.paraphrases[k].id : k \in DOMAIN group.paraphrases}
BatchUsable(batch) ==
  /\ batch.groups # <<>>
  /\ \A i, j \in DOMAIN batch.groups : i # j =>
       /\ batch.groups[i].id # batch.groups[j].id
       /\ Requests(batch.groups[i]) \cap Requests(batch.groups[j]) = {}
  /\ \A g \in GroupsOf(batch) : Cardinality(Requests(g)) = Len(g.paraphrases)

ReviewUsable(batch, review) ==
  /\ review.reviewed_batch = batch.batch_id
  /\ \A i, j \in DOMAIN review.entries : review.entries[i].id = review.entries[j].id => i = j
  /\ \A i \in DOMAIN review.entries : \E g \in GroupsOf(batch) : g.id = review.entries[i].id

---------------------------------------------------------------------------
(* Defects of one group or of one review record.                           *)

Structural(batch, group) ==
  \/ ~group.wellFormed
  \/ group.label.action \notin Actions
  \/ ~GoldSound(group.label.action, group.label.fields, group.label.invalid)
  \/ /\ group.category # Null
     /\ \/ group.category \notin DOMAIN CategoryAction
        \/ CategoryAction[group.category] # group.label.action
  \/ Len(group.paraphrases) # 2
  \/ \E i \in DOMAIN group.paraphrases :
       \/ group.paraphrases[i].id[1] # group.id
       \/ group.paraphrases[i].text = Blank
       \/ \E j \in DOMAIN group.paraphrases \ {i} :
            group.paraphrases[i].text = group.paraphrases[j].text
  \/ \E other \in GroupsOf(batch) :
       other.id # group.id /\ (Texts(other) \cap Texts(group)) \ {Blank} # {}

NoEntry == [id |-> Null]
EntryOf(review, id) ==
  IF \E i \in DOMAIN review.entries : review.entries[i].id = id
  THEN CHOOSE e \in ToSet(review.entries) : e.id = id
  ELSE NoEntry

EntryDefective(entry) ==
  \/ entry = NoEntry
  \/ ~entry.wellFormed
  \/ entry.action \notin Actions
  \/ entry.fields = NotAnObject
  \/ entry.action = "EXECUTE" /\ ~Executable(entry.fields)

(* A mutation of FieldsDiffer: only the invalid fields are compared.       *)
FieldsDifferGiven(group, entry) ==
  entry.invalid # {} /\ entry.invalid # DOMAIN group.label.invalid

(* The two sides agree on the action but not on what it is about.          *)
FieldsDiffer(group, entry) ==
  LET generator == ContractPart(group.label.fields)
      reviewer == ContractPart(entry.fields)
  IN CASE entry.action = "EXECUTE" -> generator # reviewer
       [] entry.action = "REJECT" ->
            \/ \E f \in DOMAIN generator \cap DOMAIN reviewer : generator[f] # reviewer[f]
            \/ entry.invalid # {} /\ entry.invalid # DOMAIN group.label.invalid
       [] OTHER -> FALSE

---------------------------------------------------------------------------
(* The classification: the first rule that applies decides.                *)

Classify(batch, review, group) ==
  LET entry == EntryOf(review, group.id)
  IN IF Structural(batch, group) \/ EntryDefective(entry) THEN "DEFECTIVE_ITEM"
     ELSE IF entry.quality = "exclude" THEN "DEFECTIVE_ITEM"
     ELSE IF entry.action # group.label.action THEN "ACTION_DISAGREEMENT"
     ELSE IF ~entry.equivalent THEN "PARAPHRASE_MISMATCH"
     ELSE IF FieldsDiffer(group, entry) THEN "FIELD_DISAGREEMENT"
     ELSE IF entry.quality = "revise" THEN "DEFECTIVE_ITEM"
     ELSE "FULL_AGREEMENT"

DuplicatedAcross(group, otherBatch) ==
  \E other \in GroupsOf(otherBatch) : (Texts(other) \cap Texts(group)) \ {Blank} # {}

(* batches and reviews are pairs; no duplicate is visible within one batch *)
(* alone, so the second pass goes over both.                               *)
Reconcilable(batches, reviews) ==
  /\ \A b \in 1 .. 2 : BatchUsable(batches[b]) /\ ReviewUsable(batches[b], reviews[b])
  /\ batches[1].batch_id # batches[2].batch_id
  /\ \A g \in GroupsOf(batches[1]), h \in GroupsOf(batches[2]) : g.id # h.id

Joined(batches, reviews, b, group) ==
  [batch |-> b, group |-> group,
   class |-> IF DuplicatedAcross(group, batches[3 - b]) THEN "DEFECTIVE_ITEM"
             ELSE Classify(batches[b], reviews[b], group)]

Reconciled(batches, reviews) ==
  LET joined(b) == [i \in DOMAIN batches[b].groups |->
                      Joined(batches, reviews, b, batches[b].groups[i])]
  IN joined(1) \o joined(2)

(* What the decisions template asks for.                                   *)
Pending(reconciliation) ==
  {reconciliation[i].group.id :
     i \in {k \in DOMAIN reconciliation : reconciliation[k].class # "FULL_AGREEMENT"}}

(* The counts per action the generators declare, or else those of the      *)
(* actions they propose.                                                   *)
DefaultQuota(batches, action) ==
  LET quota(batch) == IF batch.declared[action] # Null THEN batch.declared[action]
                      ELSE Cardinality({g \in GroupsOf(batch) : g.label.action = action})
  IN quota(batches[1]) + quota(batches[2])
=============================================================================
