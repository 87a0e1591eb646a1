------------------------------ MODULE Decisions -----------------------------
(***************************************************************************)
(* The recorded human decisions, and the final set they and the agreed     *)
(* groups make.  Every problem refuses the whole set.                      *)
(***************************************************************************)
EXTENDS Reconciliation, Iteration

Resolutions == {"keep", "keep_with_edits", "exclude"}

(* A document says who decided and when, may declare quotas, and has one   *)
(* entry per group, with a label and overrides of paraphrase texts.        *)
Documented(decisions) ==
  /\ decisions.signed
  /\ decisions.quotas # Null =>
       decisions.rationale /\ DOMAIN decisions.quotas = Actions
  /\ \A i, j \in DOMAIN decisions.entries :
       decisions.entries[i].id = decisions.entries[j].id => i = j
  /\ \A i \in DOMAIN decisions.entries :
       LET d == decisions.entries[i]
       IN /\ d.resolution \in Resolutions
          /\ d.rationale
          /\ d.resolution # "exclude" =>
               /\ d.label.action \in Actions
               /\ d.label.fields # NotAnObject
               /\ \A r \in DOMAIN d.overrides : d.overrides[r] # Blank
               /\ DOMAIN d.overrides # {} => d.resolution = "keep_with_edits"

NoDecision == [id |-> Null]
DecisionOn(decisions, id) ==
  IF \E i \in DOMAIN decisions.entries : decisions.entries[i].id = id
  THEN CHOOSE d \in ToSet(decisions.entries) : d.id = id
  ELSE NoDecision

Edited(paraphrases, overrides) ==
  [i \in DOMAIN paraphrases |->
     IF paraphrases[i].id \in DOMAIN overrides
     THEN [paraphrases[i] EXCEPT !.text = overrides[paraphrases[i].id]]
     ELSE paraphrases[i]]

(* The final group that a reconciled group r becomes, with decision d.     *)
FinalGroup(r, d) ==
  LET human == d # NoDecision
      label == IF human THEN d.label ELSE r.group.label
  IN [id |-> r.group.id, batch |-> r.batch, action |-> label.action, fields |-> label.fields,
      invalid |-> IF label.action = "REJECT" THEN label.invalid ELSE <<>>,
      paraphrases |-> IF human THEN Edited(r.group.paraphrases, d.overrides)
                      ELSE r.group.paraphrases,
      source |-> IF ~human THEN "dual_agreement"
                 ELSE IF d.resolution = "exclude" THEN "excluded" ELSE "human"]

(* What keeps r from its place in the set: no decision where one is        *)
(* needed, or a decision that does not stand.                              *)
Resolved(r, d, review) ==
  IF d = NoDecision
  THEN r.class = "FULL_AGREEMENT" /\ EntryOf(review, r.group.id).equivalent
  ELSE d.resolution # "exclude" =>
         LET edited == FinalGroup(r, d).paraphrases
         IN /\ d.equivalent
            /\ GoldSound(d.label.action, d.label.fields, d.label.invalid)
            /\ DOMAIN d.overrides \subseteq {p.id : p \in ToSet(r.group.paraphrases)}
            /\ Len(edited) = 2
            /\ \A i \in DOMAIN edited : edited[i].text # Blank
            /\ \A i, j \in DOMAIN edited : edited[i].text = edited[j].text => i = j

FinalSet(reconciliation, decisions) ==
  LET final == [i \in DOMAIN reconciliation |->
                  FinalGroup(reconciliation[i],
                             DecisionOn(decisions, reconciliation[i].group.id))]
  IN Filter(final, {f \in ToSet(final) : f.source # "excluded"})

(* No text belongs to two groups of the final set.                         *)
TextsDistinct(final) ==
  \A i, j \in DOMAIN final : i # j => Texts(final[i]) \cap Texts(final[j]) = {}

CountOf(final, action) == Cardinality({i \in DOMAIN final : final[i].action = action})

(* A mutation of QuotasMet: only declared quotas count.                    *)
QuotasMetIfDeclared(final, batches, decisions) ==
  decisions.quotas # Null => \A a \in Actions : CountOf(final, a) = decisions.quotas[a]

QuotasMet(final, batches, decisions) ==
  \A a \in Actions :
     CountOf(final, a) = IF decisions.quotas # Null THEN decisions.quotas[a]
                         ELSE DefaultQuota(batches, a)

(* apply_decisions finds no problem.                                       *)
Accepted(batches, reviews, decisions) ==
  LET reconciliation == Reconciled(batches, reviews)
      final == FinalSet(reconciliation, decisions)
  IN /\ Documented(decisions)
     /\ \A i \in DOMAIN decisions.entries :
          \E r \in ToSet(reconciliation) : r.group.id = decisions.entries[i].id
     /\ \A r \in ToSet(reconciliation) :
          Resolved(r, DecisionOn(decisions, r.group.id), reviews[r.batch])
     /\ TextsDistinct(final)
     /\ QuotasMet(final, batches, decisions)
=============================================================================
