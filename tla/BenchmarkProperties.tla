------------------------ MODULE BenchmarkProperties ------------------------
(***************************************************************************)
(* What the benchmark pipeline promises.                                   *)
(***************************************************************************)
EXTENDS Benchmark

(* A run whose records are prepared ends in a sealed directory, its own or *)
(* a competitor's, unless a run dies: two runs never both give way.        *)
PreparedIsSealed ==
  \A s \in Sealer :
    (pc[s] = "prepared") ~> (SealedRun # Unsealed \/ \E r \in Sealer : pc[r] = "crashed")

(* The label of a sealed group is one that both models gave blind, on the  *)
(* very texts that are sealed and with one configuration, or one that a    *)
(* human recorded for this group; nothing in disagreement is sealed        *)
(* without one (reconcile.py:283-427, decisions.py:121-249).               *)
Agreed(record, b) ==
  LET entry == EntryOf(reviews[b], record.group)
      group == CHOOSE g \in GroupsOf(batches[b]) : g.id = record.group
  IN /\ record.text \in {shown[b][record.group][i] : i \in DOMAIN shown[b][record.group]}
     /\ entry.action = record.action /\ group.label.action = record.action
     /\ entry.equivalent
     /\ record.action = "EXECUTE" =>
          ContractPart(entry.fields) = ContractPart(record.fields)
HumanDecided(record) ==
  \E d \in ToSet(decisions.entries) :
    /\ d.id = record.group /\ d.resolution # "exclude" /\ d.rationale /\ d.equivalent
    /\ record.action = d.label.action /\ record.fields = d.label.fields
    /\ record.text \in Texts(CHOOSE g \in GroupsOf(batches[1]) \cup GroupsOf(batches[2]) :
                               g.id = record.group)
                       \cup {d.overrides[r] : r \in DOMAIN d.overrides}
LabelsApproved ==
  \A s \in {r \in Sealer : pc[r] = "prepared"} :
    \A record \in ToSet(records[s]) :
       /\ HumanDecided(record)
          \/ \E b \in Side : record.group \in DOMAIN shown[b] /\ Agreed(record, b)
       /\ record.group \in worksheet => HumanDecided(record)
       /\ record.action = "EXECUTE" => Executable(record.fields)
       /\ record.action = "REJECT" => \E f \in DOMAIN record.invalid : f \in ContractFields

(* What the runner will be given is the sealed set, when the export names  *)
(* as its source the manifest that the sealing run has written: every      *)
(* exported item has the label and text of a decided or agreed group, each *)
(* group has two items, no two items share a text, and a network is bound  *)
(* only where the text names it (harness.py:63-135).                       *)
HarnessFaithful ==
  harness.pc \notin {"none", "reading"} /\ harness.source = Original(SealedRun) =>
    LET items == ToSet(harness.items)
    IN /\ \A h \in items :
            /\ Cardinality({o \in items : o.group = h.group}) = 2
            /\ \A o \in items : o.group = h.group => o.action = h.action
            /\ h.topology # Null => h.topology \in DOMAIN Catalogue /\ h.topology \in Named[h.text]
       /\ Cardinality({h.text : h \in items}) = Len(harness.items)
       /\ \A a \in Actions :
            2 * (IF decisions.quotas # Null THEN decisions.quotas[a] ELSE DefaultQuota(batches, a))
              = Cardinality({h \in items : h.action = a})
       /\ \A f \in File : dir[f].by = SealedRun
=============================================================================
