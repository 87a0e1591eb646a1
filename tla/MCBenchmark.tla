---------------------------- MODULE MCBenchmark -----------------------------
(* Batch "A" has a group of many shapes and a plain one, batch "B" has one *)
(* group; there is one topology.                                           *)
EXTENDS BenchmarkProperties, TLC

Shape(t, period, hash) == [name |-> t, working_period |-> period, communication_range |-> 18,
                           sha256 |-> hash]
MCCatalogue == "net" :> Shape("net", 10, "h")
MCRatios == {1}
MCArguments == {[complete |-> TRUE, files |-> "net" :> Shape("net", 10, "h")],
                [complete |-> TRUE, files |-> "net" :> Shape("net", 10, "changed")],
                [complete |-> FALSE, files |-> "net" :> Shape("net", 10, "h")]}

Config == [topology_id |-> "net", workload |-> "one_shot", objective |-> "minimize_latency",
           channels |-> 2, interference_ratio |-> 1, collision_model |-> "legacy_neighbor",
           latency_target_slots |-> Null, seed |-> 0, working_period |-> 10,
           communication_range |-> 18]
NoChannel == [Config EXCEPT !.channels = 0]

Label(action, fields, invalid) == [action |-> action, fields |-> fields, invalid |-> invalid]
Schedule(fields) == Label("EXECUTE", fields, <<>>)
Refusal == Label("REJECT", [topology_id |-> "net", channels |-> 0],
                 [channels |-> 0, priority |-> 1])
Baseless == Label("REJECT", [topology_id |-> "net", channels |-> 1], [channels |-> 1])

Ask(id, label, texts) ==
  [id |-> id, wellFormed |-> TRUE, label |-> label, category |-> Null,
   paraphrases |-> [k \in DOMAIN texts |-> [id |-> <<id, k>>, text |-> texts[k]]]]
Batch(id, groups) ==
  [batch_id |-> id, groups |-> groups, declared |-> [a \in Actions |-> Null]]

FirstGroups ==
  {Ask("a1", label, <<"one", "two">>) :
     label \in {Schedule(Config), Refusal, Baseless}}
  \cup {Ask("a1", Schedule(Config), <<"one", "five">>), Ask("a1", Schedule(Config), <<"one", "two", "ten">>)}
MCBatches ==
  {<<Batch("A", <<g, Ask("a2", Schedule(Config), <<"three", "four">>)>>),
     Batch("B", <<Ask("b1", Label("UNSUPPORTED", Null, <<>>), <<"five", "six">>)>>)>> :
       g \in FirstGroups}

Entry(id, action, fields, equivalent, quality) ==
  [id |-> id, wellFormed |-> TRUE, action |-> action, fields |-> fields, invalid |-> {},
   equivalent |-> equivalent, quality |-> quality]
Verdicts ==
  {Entry("a1", "EXECUTE", Config, TRUE, q) : q \in {"accept", "revise", "exclude"}}
  \cup {Entry("a1", "EXECUTE", Config, FALSE, "accept"),
        Entry("a1", "EXECUTE", [Config EXCEPT !.seed = 1], TRUE, "accept"),
        Entry("a1", "EXECUTE", Null, TRUE, "accept"),
        Entry("a1", "REJECT", [channels |-> 0], TRUE, "accept"),
        [Entry("a1", "REJECT", Null, TRUE, "accept") EXCEPT !.invalid = {"channels"}]}
Document(batch, entries) == [reviewed_batch |-> batch, entries |-> entries]
Plain == Entry("a2", "EXECUTE", Config, TRUE, "accept")
MCReviews(b, copy) ==
  IF b = 1 THEN IF copy["a1"] = <<"one", "two">>
                THEN {Document("A", <<Plain, v>>) : v \in Verdicts} \cup {Document("A", <<Plain>>)}
                ELSE {Document("A", <<Plain, Entry("a1", "EXECUTE", Config, TRUE, "accept")>>)}
  ELSE {Document("B", <<Entry("b1", "UNSUPPORTED", Null, TRUE, "accept")>>)}

(* The author rewords what it was asked about, or also tries to relabel.   *)
MCRevisions(batch, flagged) ==
  {<<[id |-> id, extra |-> e,
      paraphrases |-> <<[id |-> <<id, 1>>, text |-> "one"], [id |-> <<id, 2>>, text |-> "seven"]>>]>> :
     id \in flagged, e \in BOOLEAN}

Decision(id, resolution, label, equivalent, overrides) ==
  [id |-> id, resolution |-> resolution, label |-> label, equivalent |-> equivalent,
   overrides |-> overrides, rationale |-> TRUE]
First == {Decision("a1", "keep", Schedule(Config), e, <<>>) : e \in BOOLEAN}
         \cup {Decision("a1", "keep_with_edits", Refusal, TRUE, <<"a1", 2>> :> t) :
                  t \in {"eight", "three"}}
         \cup {Decision("a1", "keep", Baseless, TRUE, <<>>),
               Decision("a1", "exclude", Schedule(Config), FALSE, <<>>)}
Second == {Decision("b1", "keep", Label("UNSUPPORTED", Null, <<>>), TRUE, <<>>)}
EntryLists(pending) ==
  LET first == {<<d>> : d \in First}
  IN CASE pending = {} -> {<<>>, <<Decision("a1", "exclude", Schedule(Config), TRUE, <<>>)>>}
       [] pending = {"a1"} -> first \cup {<<>>}
       [] OTHER -> {f \o <<d>> : f \in first, d \in Second}

(* The counts of a set with the decided group, or without it.             *)
Quota(entries) ==
  LET more == IF entries = <<>> \/ entries[1].resolution = "exclude" THEN "none"
              ELSE entries[1].label.action
  IN [a \in Actions |-> (CASE a = "EXECUTE" -> 1 [] a = "UNSUPPORTED" -> 1 [] OTHER -> 0)
                        + (IF a = more THEN 1 ELSE 0)]
MCHumanDecisions(pending) ==
  UNION {{[signed |-> TRUE, rationale |-> TRUE, quotas |-> q, entries |-> e] :
            q \in {Quota(e)} \cup (IF e = <<>> \/ e[1].equivalent THEN {} ELSE {Null})} :
          e \in EntryLists(pending)}
  \cup {[signed |-> TRUE, rationale |-> FALSE, quotas |-> Null, entries |-> <<>>]}

(* Other hands reword the requests of the first run, give a source ID away,*)
(* bring the hashes of the manifest into line or take them out, and add to *)
(* the line of the digest or bring it into line.                           *)
MCRewrites(f, bytes) ==
  CASE bytes["digest"][1].by = "second" -> {}
    [] f = "requests" -> {"reworded", "telling"}
    [] f = "manifest" -> {[o \in {"requests", "gold", "worksheet", "decisions"} |-> bytes[o]], <<>>}
    [] f = "digest" -> {bytes["manifest"], Original(bytes["digest"][1].by)}
    [] OTHER -> {}
MCLeaks(requests, gold, manifest) == requests[2] = "telling"
MCEditedItems(requests, gold, manifest) ==
  {<<[text |-> "nine", group |-> "a1", action |-> "EXECUTE", topology |-> Null]>>}

(* Two runs shuffle differently.                                           *)
MCOrder(s, n) == [k \in 1 .. n |-> IF s = "first" THEN n + 1 - k ELSE (k % n) + 1]
MCNamed == [t \in {"one", "two", "three", "four", "five", "six", "seven", "eight", "ten"} |->
              IF t \in {"one", "three", "four", "seven"} THEN {"net"} ELSE {}]
=============================================================================
