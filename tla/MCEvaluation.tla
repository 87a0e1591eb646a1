---------------------------- MODULE MCEvaluation -----------------------------
(* Generators on a line and a square, with room to spare, exactly enough   *)
(* and too little; three runs, one of them on an API; three items.  Two    *)
(* locks over a script that quotes a by-line, a source that has a path and *)
(* a by-line in scope, and a legacy file that is not shipped; a table with *)
(* a path has a suffix nothing looks into.                                 *)
EXTENDS Evaluation

MCJob(api, mode, nodes, x, y, reach, period, slots, attempts) ==
  [api |-> api, active_slot_mode |-> mode, node_count |-> nodes, x_range |-> x, y_range |-> y,
   reach |-> reach, working_period |-> period, active_slots_per_node |-> slots,
   max_attempts |-> attempts, sink_id |-> 0]
MCLine(api, nodes, x) == MCJob(api, "legacy_exclude_final_slot", nodes, x, 0, 2, 2, 1, 2)
MCSquare(api, mode, nodes, slots) == MCJob(api, mode, nodes, 1, 1, 2, 3, slots, 1)
MCJobs ==
  {MCLine(api, 4, x) : api \in {"typed", "legacy"}, x \in {2, 3, 5}} \cup
  {MCSquare(api, mode, nodes, slots) : api \in {"typed", "legacy"}, nodes \in {1, 4, 5, 6}, slots \in {2, 3},
     mode \in {"legacy_exclude_final_slot", "full_period"}}
MCPlan == <<"gated", "ablated", "frontier">>
MCItem == <<"a", "b", "c">>
MCSelections == {<<"a", "b", "c">>, <<"b">>, <<"c", "other">>}
MCCovers == {{"script"}, {"legacy"}, {"script", "legacy"}, {"source", "script"}, {"source"}}
MCChain == <<"v1", "v2">>
=============================================================================
