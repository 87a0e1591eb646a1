----------------------------- MODULE Generation -----------------------------
(***************************************************************************)
(* One call of a topology generator: generate_network_instance, or         *)
(* generate_connected_topology over the original prototype.  An attempt    *)
(* puts the sink in the middle of a grid of positions and every other node *)
(* on a free position, connects the nodes that are near each other, and    *)
(* explores from the sink; a disconnected network is thrown away.          *)
(*                                                                         *)
(* Coordinates are doubled, which keeps the middle of the grid and a range *)
(* of half a unit integers.  What a draw of the random generator returns   *)
(* is any of the values it may return; a draw of an occupied position is   *)
(* repeated and changes nothing.                                           *)
(***************************************************************************)
EXTENDS Integers, Sequences, FiniteSets

CONSTANT Jobs   \* arguments of the calls

Arguments ==
  [api : {"typed", "legacy"}, active_slot_mode : {"legacy_exclude_final_slot", "full_period"},
   node_count : Int, x_range : Nat, y_range : Nat, reach : Nat,
   working_period : Int, active_slots_per_node : Int, max_attempts : Int, sink_id : Int]

ASSUME JobsAssumption == Jobs \subseteq Arguments

VARIABLES
  job,        \* the arguments; reach is twice the communication range
  gpc,        \* where the call is
  attempt,    \* attempts that have failed
  records,    \* position and active slots of the nodes, in the order of their IDs
  occupied,   \* positions of the grid that are taken
  reached, frontier   \* nodes the search from the sink has reached, and has yet to visit

gvars == <<job, gpc, attempt, records, occupied, reached, frontier>>

Ids == 0 .. job.node_count - 1
Grid == (0 .. job.x_range) \X (0 .. job.y_range)
Doubled(cell) == <<2 * cell[1], 2 * cell[2]>>

(* The middle is a position of the grid when both sides are even.          *)
Centre == <<job.x_range, job.y_range>>
CentreCell == {cell \in Grid : Doubled(cell) = Centre}

(* The prototype never draws the last slot of the period.                  *)
slot_population ==
  IF job.api = "legacy" \/ job.active_slot_mode = "legacy_exclude_final_slot"
  THEN job.working_period - 1 ELSE job.working_period

Samples == {A \in SUBSET (0 .. slot_population - 1) : Cardinality(A) = job.active_slots_per_node}

GInit ==
  /\ job \in Jobs
  /\ gpc = "call"
  /\ attempt = 0
  /\ records = <<>> /\ occupied = {} /\ reached = {} /\ frontier = {}

-----------------------------------------------------------------------------

(* The prototype's wrapper looks at the counts alone; the typed generator  *)
(* also wants a position for every node.                                   *)
Accepts ==
  /\ job.node_count >= 2
  /\ job.active_slots_per_node \in 1 .. slot_population
  /\ job.api = "typed" =>
       /\ job.node_count <= (job.x_range + 1) * (job.y_range + 1)
       /\ job.max_attempts >= 1
       /\ job.reach > 0
       /\ job.sink_id = 0

Call ==
  /\ gpc = "call"
  /\ gpc' = IF Accepts THEN "attempt" ELSE "refused"
  /\ UNCHANGED <<job, attempt, records, occupied, reached, frontier>>

Exhausted ==
  /\ gpc = "attempt"
  /\ attempt >= job.max_attempts
  /\ gpc' = "exhausted"
  /\ UNCHANGED <<job, attempt, records, occupied, reached, frontier>>

PlaceSink(awake) ==
  /\ gpc = "attempt"
  /\ attempt < job.max_attempts
  /\ records' = <<[at |-> Centre, awake |-> awake]>>
  /\ occupied' = CentreCell
  /\ gpc' = "place"
  /\ UNCHANGED <<job, attempt, reached, frontier>>

Place(cell, awake) ==
  /\ gpc = "place"
  /\ Len(records) < job.node_count
  /\ cell \notin occupied
  /\ records' = Append(records, [at |-> Doubled(cell), awake |-> awake])
  /\ occupied' = occupied \cup {cell}
  /\ UNCHANGED <<job, gpc, attempt, reached, frontier>>

position(n) == records[n + 1].at
awake_slots(n) == records[n + 1].awake

Near(p, q) ==
  (p[1] - q[1]) * (p[1] - q[1]) + (p[2] - q[2]) * (p[2] - q[2]) <= job.reach * job.reach

neighbors(n) == {m \in Ids : m # n /\ Near(position(n), position(m))}

(* What NodeSpec and NetworkInstance ask of the nodes, connectedness aside.*)
ValidNodes ==
  /\ \A n \in Ids : awake_slots(n) # {} /\ awake_slots(n) \subseteq 0 .. job.working_period - 1
  /\ \A n \in Ids : n \notin neighbors(n)
  /\ \A n \in Ids : \A m \in neighbors(n) : n \in neighbors(m)

(* The search starts at the sink; the typed network is checked before.     *)
Connect ==
  /\ gpc = "place"
  /\ Len(records) = job.node_count
  /\ gpc' = IF job.api = "typed" /\ ~ValidNodes THEN "invalid" ELSE "explore"
  /\ reached' = {0} /\ frontier' = {0}
  /\ UNCHANGED <<job, attempt, records, occupied>>

Explore(n) ==
  /\ gpc = "explore"
  /\ n \in frontier
  /\ reached' = reached \cup neighbors(n)
  /\ frontier' = (frontier \ {n}) \cup (neighbors(n) \ reached)
  /\ UNCHANGED <<job, gpc, attempt, records, occupied>>

(* A mutation of AllReached: no node is on its own.                        *)
NoneIsolated == \A n \in Ids : neighbors(n) # {}

AllReached == Cardinality(reached) = job.node_count

(* A disconnected network is drawn again.                                  *)
Judged ==
  /\ gpc = "explore"
  /\ frontier = {}
  /\ IF AllReached THEN gpc' = "made" /\ UNCHANGED attempt
     ELSE gpc' = "attempt" /\ attempt' = attempt + 1
  /\ UNCHANGED <<job, records, occupied, reached, frontier>>

GNext ==
  \/ Call \/ Exhausted \/ Connect \/ Judged
  \/ \E awake \in Samples : PlaceSink(awake) \/ \E cell \in Grid : Place(cell, awake)
  \/ \E n \in Ids : Explore(n)

GSpec == GInit /\ [][GNext]_gvars

-----------------------------------------------------------------------------

(* While the typed generator draws positions one is free, so that its      *)
(* unbounded loop can end.  The prototype has no such guard.               *)
RoomToDraw ==
  gpc = "place" /\ job.api = "typed" /\ Len(records) < job.node_count => Grid \ occupied # {}

(* What a generator hands out is a network the scheduler may be given:     *)
(* nodes on different positions, awake in the period, with symmetric links *)
(* that join every node to the sink.                                       *)
OnlySchedulable ==
  gpc = "made" =>
    /\ Len(records) = job.node_count
    /\ \A m, n \in Ids : m # n => position(m) # position(n)
    /\ ValidNodes
    /\ \A S \in SUBSET Ids :
         0 \in S /\ S # Ids => \E n \in S : neighbors(n) \ S # {}

(* A network is handed out only if the scheduler may be given it, and      *)
(* drawing one never gets stuck for want of a position.                    *)
GenerationSound == RoomToDraw /\ OnlySchedulable /\ gpc # "invalid"

(* More nodes than the prototype's wrapper has positions for.              *)
Crowded ==
  /\ job.api = "legacy"
  /\ job.node_count > Cardinality(Grid) + IF CentreCell = {} THEN 1 ELSE 0

(* Given that a free position is drawn sooner or later, a call ends.       *)
GenerationEnds == <>(gpc \in {"made", "refused", "exhausted"} \/ (gpc = "place" /\ Crowded))
=============================================================================
