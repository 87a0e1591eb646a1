-------------------------- MODULE EvaluationProofs ---------------------------
(***************************************************************************)
(* What the operator runs around the agent, for every value of the         *)
(* parameters: experiments measure what their catalogue describes, what a  *)
(* campaign completes measures the agent, resuming a baseline repeats no   *)
(* measurement, the verifier accepts what was built, and generators hand   *)
(* out networks the scheduler may be given.                                *)
(***************************************************************************)
EXTENDS Evaluation, IterationProofs, SequenceTheorems

-----------------------------------------------------------------------------
(* The generators: only what the scheduler may be given is handed out, and *)
(* the typed generator never draws from a full grid.                       *)

RecordType == [at : Int \X Int, awake : SUBSET Int]

Drawing == gpc \in {"place", "explore", "made"}

(* Every node is where a taken position, or the middle, is, and nobody     *)
(* else is there.                                                          *)
Placed ==
  /\ records \in Seq(RecordType)
  /\ Len(records) \in 1 .. job.node_count
  /\ \A i \in 1 .. Len(records) : records[i].awake \in Samples
  /\ \A i \in 1 .. Len(records) :
       \/ i = 1 /\ records[i].at = Centre
       \/ i # 1 /\ \E cell \in occupied : records[i].at = Doubled(cell)
  /\ \A i, j \in 1 .. Len(records) : i # j => records[i].at # records[j].at
  /\ CentreCell \subseteq occupied
  /\ occupied \subseteq Grid
  /\ IsFiniteSet(occupied) /\ Cardinality(occupied) <= Len(records)

Closed(S) == \A n \in S : neighbors(n) \subseteq S

(* The search stays within every closed set that holds the sink, and has   *)
(* followed every link of a node it has visited.                           *)
Searched ==
  /\ Len(records) = job.node_count
  /\ reached \subseteq Ids /\ frontier \subseteq reached /\ 0 \in reached
  /\ \A S \in SUBSET Ids : 0 \in S /\ Closed(S) => reached \subseteq S

GInd ==
  /\ job \in Jobs
  /\ attempt \in Nat
  /\ gpc \in {"call", "refused", "attempt", "exhausted", "place", "explore", "made"}
  /\ gpc \notin {"call", "refused"} => Accepts
  /\ Drawing => Placed
  /\ gpc \in {"explore", "made"} => Searched
  /\ gpc = "made" => reached = Ids

-----------------------------------------------------------------------------

(* A sample is not empty and lies within the working period.               *)
LEMMA SampleInPeriod ==
  ASSUME job \in Arguments, Accepts, NEW A \in Samples
  PROVE  A # {} /\ A \subseteq 0 .. job.working_period - 1
<1>1. slot_population \in Int /\ slot_population <= job.working_period
  BY DEF slot_population, Arguments
<1>2. A \subseteq 0 .. job.working_period - 1
  BY <1>1 DEF Samples, Arguments
<1>3. Cardinality(A) # 0
  BY <1>1 DEF Samples, Accepts, Arguments
<1>4. A # {}
  BY <1>3, FS_EmptySet
<1> QED BY <1>2, <1>4

LEMMA NearSymmetric ==
  ASSUME NEW p \in Int \X Int, NEW q \in Int \X Int, Near(p, q)
  PROVE  Near(q, p)
<1>1. \A a, b \in Int : (a - b) * (a - b) = (b - a) * (b - a)
  BY SMT
<1>2. p[1] \in Int /\ p[2] \in Int /\ q[1] \in Int /\ q[2] \in Int
  OBVIOUS
<1> QED BY <1>1, <1>2 DEF Near

LEMMA CountInt ==
  ASSUME job \in Arguments
  PROVE  /\ job.node_count \in Int /\ job.max_attempts \in Int
         /\ job.x_range \in Nat /\ job.y_range \in Nat
BY DEF Arguments

LEMMA RecordOf ==
  ASSUME job \in Arguments, Placed, Len(records) = job.node_count, NEW n \in Ids
  PROVE  /\ n + 1 \in 1 .. Len(records) /\ records[n + 1] \in RecordType
         /\ position(n) \in Int \X Int /\ awake_slots(n) \in Samples
<1>1. n + 1 \in 1 .. Len(records)
  BY CountInt DEF Ids
<1>2. records[n + 1] \in RecordType /\ records[n + 1].awake \in Samples
  BY <1>1 DEF Placed
<1> QED BY <1>1, <1>2 DEF position, awake_slots, RecordType

(* The checks of the schema never refuse what has been drawn.              *)
LEMMA DrawnValid ==
  ASSUME job \in Arguments, Accepts, Placed, Len(records) = job.node_count
  PROVE  ValidNodes
<1>1. \A n \in Ids : awake_slots(n) # {} /\ awake_slots(n) \subseteq 0 .. job.working_period - 1
  BY RecordOf, SampleInPeriod
<1>2. \A n \in Ids : n \notin neighbors(n)
  BY DEF neighbors
<1>3. ASSUME NEW n \in Ids, NEW m \in neighbors(n) PROVE n \in neighbors(m)
  <2>1. m \in Ids /\ m # n /\ Near(position(n), position(m))
    BY DEF neighbors
  <2>2. Near(position(m), position(n))
    BY <2>1, RecordOf, NearSymmetric
  <2> QED BY <2>1, <2>2 DEF neighbors
<1> QED BY <1>1, <1>2, <1>3 DEF ValidNodes

LEMMA UpTo ==
  ASSUME NEW n \in Nat
  PROVE  IsFiniteSet(0 .. n) /\ Cardinality(0 .. n) = n + 1
<1>1. IsFiniteSet(0 .. n) /\ Cardinality(0 .. n) = IF 0 > n THEN 0 ELSE n - 0 + 1
  BY FS_Interval
<1> QED BY <1>1

LEMMA GridSize ==
  ASSUME NEW x \in Nat, NEW y \in Nat
  PROVE  /\ IsFiniteSet((0 .. x) \X (0 .. y))
         /\ Cardinality((0 .. x) \X (0 .. y)) = (x + 1) * (y + 1)
<1>1. Cardinality((0 .. x) \X (0 .. y)) = Cardinality(0 .. x) * Cardinality(0 .. y)
  BY UpTo, FS_Product, Zenon
<1>2. IsFiniteSet((0 .. x) \X (0 .. y))
  BY UpTo, FS_Product, Zenon
<1> QED BY <1>1, <1>2, UpTo

(* Fewer nodes than the grid has positions leave one free.                 *)
LEMMA PositionFree ==
  ASSUME job \in Arguments, Accepts, Placed, job.api = "typed", Len(records) < job.node_count
  PROVE  Grid \ occupied # {}
<1>3. Cardinality(Grid) = (job.x_range + 1) * (job.y_range + 1)
  BY CountInt, GridSize DEF Grid
<1>4. job.node_count <= Cardinality(Grid)
  BY <1>3, CountInt DEF Accepts
<1>5. Cardinality(occupied) \in Nat /\ Cardinality(occupied) <= Len(records) /\ IsFiniteSet(occupied)
  BY FS_CardinalityType DEF Placed
<1>6. SUFFICES ASSUME Grid \subseteq occupied PROVE FALSE
  OBVIOUS
<1>7. Cardinality(Grid) <= Cardinality(occupied)
  BY <1>5, <1>6, FS_Subset
<1>8. Len(records) \in Nat
  BY DEF Placed
<1> DEFINE room == Cardinality(Grid)  taken == Cardinality(occupied)  size == Len(records)
<1>9. room \in Int
  BY <1>3, CountInt
<1> HIDE DEF room, taken, size
<1> QED BY <1>4, <1>5, <1>7, <1>8, <1>9, CountInt DEF room, taken, size

-----------------------------------------------------------------------------

LEMMA CellDoubled ==
  ASSUME job \in Arguments, NEW c \in Grid, NEW d \in Grid
  PROVE  /\ Doubled(c) \in Int \X Int
         /\ Doubled(c) = Doubled(d) => c = d
         /\ Doubled(c) = Centre => c \in CentreCell
<1>1. /\ c = <<c[1], c[2]>> /\ c[1] \in Int /\ c[2] \in Int
      /\ d = <<d[1], d[2]>> /\ d[1] \in Int /\ d[2] \in Int
  BY DEF Grid
<1>2. Doubled(c) \in Int \X Int
  BY <1>1 DEF Doubled
<1>3. Doubled(c) = Doubled(d) => c[1] = d[1] /\ c[2] = d[2]
  BY <1>1 DEF Doubled
<1>4. Doubled(c) = Centre => c \in CentreCell
  BY DEF CentreCell
<1> QED BY <1>1, <1>2, <1>3, <1>4

(* A sink in the middle is a network in the making.                        *)
LEMMA SinkPlaced ==
  ASSUME job \in Arguments, Accepts, NEW awake \in Samples, PlaceSink(awake)
  PROVE  Placed'
<1>1. /\ job' = job /\ occupied' = CentreCell
      /\ records' = <<[at |-> Centre, awake |-> awake]>>
  BY DEF PlaceSink
<1>2. Centre \in Int \X Int /\ awake \subseteq Int
  BY CountInt, SampleInPeriod DEF Centre, Arguments
<1>3. records' \in Seq(RecordType) /\ Len(records') = 1 /\ records'[1] = [at |-> Centre, awake |-> awake]
  BY <1>1, <1>2 DEF RecordType
<1>4. Len(records') \in 1 .. job'.node_count
  BY <1>1, <1>3, CountInt DEF Accepts
<1>5. \A c, d \in CentreCell : c = d
  BY CellDoubled DEF CentreCell
<1>6. IsFiniteSet(CentreCell) /\ Cardinality(CentreCell) <= 1
  <2>1. CASE CentreCell = {}
    BY <2>1, FS_EmptySet
  <2>2. CASE CentreCell # {}
    <3>1. PICK c \in CentreCell : TRUE
      BY <2>2
    <3>2. CentreCell = {c}
      BY <3>1, <1>5
    <3>3. IsFiniteSet({c}) /\ Cardinality({c}) = 1
      BY FS_Singleton
    <3> QED BY <3>2, <3>3
  <2> QED BY <2>1, <2>2
<1>7. Centre' = Centre /\ CentreCell' = CentreCell /\ Grid' = Grid /\ Samples' = Samples
  BY <1>1 DEF Centre, CentreCell, Grid, Samples, slot_population
<1>8. CentreCell \subseteq Grid
  BY DEF CentreCell
<1> QED BY <1>1, <1>3, <1>4, <1>6, <1>7, <1>8 DEF Placed

(* A further node on a free position keeps all positions different.        *)
LEMMA NodePlaced ==
  ASSUME job \in Arguments, Placed, NEW awake \in Samples, NEW cell \in Grid,
         Accepts, Place(cell, awake)
  PROVE  Placed'
<1> DEFINE r == [at |-> Doubled(cell), awake |-> awake]
<1>1. /\ job' = job /\ occupied' = occupied \cup {cell} /\ cell \notin occupied
      /\ records' = Append(records, r) /\ Len(records) < job.node_count
  BY DEF Place
<1>2. r \in RecordType
  BY CellDoubled, SampleInPeriod DEF RecordType, Arguments
<1>3. /\ records' \in Seq(RecordType) /\ Len(records') = Len(records) + 1
      /\ \A i \in 1 .. Len(records) : records'[i] = records[i]
      /\ records'[Len(records) + 1] = r
      /\ Len(records) \in Nat /\ Len(records) >= 1
  BY <1>1, <1>2, CountInt DEF Placed
<1>4. Len(records') \in 1 .. job'.node_count
  BY <1>1, <1>3, CountInt
<1>5. Centre' = Centre /\ CentreCell' = CentreCell /\ Grid' = Grid /\ Samples' = Samples
  BY <1>1 DEF Centre, CentreCell, Grid, Samples, slot_population
<1>6. \A i \in 1 .. Len(records') : records'[i].awake \in Samples
  BY <1>3 DEF Placed
<1>7. ASSUME NEW i \in 1 .. Len(records')
      PROVE  \/ i = 1 /\ records'[i].at = Centre
             \/ i # 1 /\ \E c \in occupied' : records'[i].at = Doubled(c)
  <2>1. CASE i \in 1 .. Len(records)
    BY <1>1, <1>3, <2>1 DEF Placed
  <2>2. CASE i = Len(records) + 1
    BY <1>1, <1>3, <2>2
  <2> QED BY <1>3, <2>1, <2>2
<1>8. ASSUME NEW i \in 1 .. Len(records) PROVE records[i].at # Doubled(cell)
  <2>1. CASE records[i].at = Centre
    BY <1>1, <2>1, CellDoubled DEF Placed
  <2>2. CASE \E c \in occupied : records[i].at = Doubled(c)
    BY <1>1, <2>2, CellDoubled DEF Placed
  <2> QED BY <2>1, <2>2 DEF Placed
<1>9. \A i, j \in 1 .. Len(records') : i # j => records'[i].at # records'[j].at
  BY <1>3, <1>8 DEF Placed
<1>10. IsFiniteSet(occupied') /\ Cardinality(occupied') = Cardinality(occupied) + 1
  BY <1>1, FS_AddElement DEF Placed
<1>11. Cardinality(occupied') <= Len(records')
  BY <1>3, <1>10, FS_CardinalityType DEF Placed
<1>12. CentreCell \subseteq occupied' /\ occupied' \subseteq Grid
  BY <1>1 DEF Placed
<1> QED BY <1>3, <1>4, <1>5, <1>6, <1>7, <1>9, <1>10, <1>11, <1>12 DEF Placed, Doubled

-----------------------------------------------------------------------------

(* Nothing that is computed from the records changes with them unchanged.  *)
LEMMA Unmoved ==
  ASSUME UNCHANGED <<job, records, occupied>>
  PROVE  /\ Placed' = Placed /\ Ids' = Ids /\ ValidNodes' = ValidNodes /\ Accepts' = Accepts
         /\ \A n : neighbors(n)' = neighbors(n)
         /\ \A S : Closed(S)' = Closed(S)
BY DEF Placed, Ids, ValidNodes, Accepts, neighbors, Closed, Near, position, awake_slots, Samples,
       slot_population, Centre, CentreCell, Grid

LEMMA Exploring ==
  ASSUME GInd, NEW n \in Ids, Explore(n)
  PROVE  GInd'
<1>1. /\ UNCHANGED <<job, gpc, attempt, records, occupied>> /\ gpc = "explore"
      /\ n \in frontier
      /\ reached' = reached \cup neighbors(n)
      /\ frontier' = (frontier \ {n}) \cup (neighbors(n) \ reached)
  BY DEF Explore
<1>2. Searched /\ Placed /\ Accepts
  BY <1>1 DEF GInd, Drawing
<1>3. neighbors(n) \subseteq Ids
  BY DEF neighbors
<1>4. reached' \subseteq Ids /\ frontier' \subseteq reached' /\ 0 \in reached'
  BY <1>1, <1>2, <1>3 DEF Searched
<1>5. ASSUME NEW S \in SUBSET Ids, 0 \in S, Closed(S) PROVE reached' \subseteq S
  BY <1>1, <1>2, <1>5 DEF Searched, Closed
<1>6. Searched'
  BY <1>1, <1>2, <1>4, <1>5, Unmoved DEF Searched
<1> QED BY <1>1, <1>2, <1>6, Unmoved DEF GInd

LEMMA Judging ==
  ASSUME GInd, Judged
  PROVE  GInd'
<1>1. /\ UNCHANGED <<job, records, occupied, reached, frontier>> /\ gpc = "explore"
      /\ job \in Arguments
  BY JobsAssumption DEF Judged, GInd
<1>2. Searched /\ Placed /\ Accepts
  BY <1>1 DEF GInd, Drawing
<1>3. Searched' /\ Placed' /\ Accepts'
  BY <1>1, <1>2, Unmoved DEF Searched
<1>4. CASE AllReached
  <2>1. gpc' = "made" /\ attempt' = attempt
    BY <1>4 DEF Judged
  <2>2. job.node_count >= 2 /\ job.node_count \in Int
    BY <1>1, <1>2, CountInt DEF Accepts
  <2>3. IsFiniteSet(Ids) /\ Cardinality(Ids) = job.node_count
    BY <2>2, UpTo DEF Ids
  <2>4. reached = Ids
    BY <1>2, <1>4, <2>3, FS_Subset DEF Searched, AllReached
  <2> QED BY <1>1, <1>3, <2>1, <2>4, Unmoved DEF GInd
<1>5. CASE ~AllReached
  <2>1. gpc' = "attempt" /\ attempt' = attempt + 1
    BY <1>5 DEF Judged
  <2> QED BY <1>1, <1>3, <2>1 DEF GInd, Drawing
<1> QED BY <1>4, <1>5

LEMMA Connecting ==
  ASSUME GInd, Connect
  PROVE  GInd'
<1>1. /\ UNCHANGED <<job, attempt, records, occupied>> /\ gpc = "place"
      /\ reached' = {0} /\ frontier' = {0} /\ Len(records) = job.node_count
      /\ job \in Arguments
  BY JobsAssumption DEF Connect, GInd
<1>2. Placed /\ Accepts
  BY <1>1 DEF GInd, Drawing
<1>3. gpc' = "explore"
  BY <1>1, <1>2, DrawnValid DEF Connect
<1>4. 0 \in Ids
  BY <1>1, <1>2, CountInt DEF Ids, Accepts
<1>5. Searched'
  BY <1>1, <1>4, Unmoved DEF Searched
<1>6. Placed' /\ Accepts'
  BY <1>1, <1>2, Unmoved
<1> QED BY <1>1, <1>3, <1>5, <1>6 DEF GInd

THEOREM GenerationInductive == GSpec => []GInd
<1>1. GInit => GInd
  BY DEF GInit, GInd, Drawing
<1>2. GInd /\ [GNext]_gvars => GInd'
  <2> SUFFICES ASSUME GInd, [GNext]_gvars PROVE GInd'
    OBVIOUS
  <2>0. job \in Arguments
    BY JobsAssumption DEF GInd
  <2>1. CASE Call
    BY <2>1, Unmoved DEF GInd, Call, Drawing
  <2>2. CASE Exhausted
    BY <2>2, Unmoved DEF GInd, Exhausted, Drawing
  <2>3. CASE Connect
    BY <2>3, Connecting
  <2>4. CASE Judged
    BY <2>4, Judging
  <2>5. ASSUME NEW awake \in Samples, PlaceSink(awake) PROVE GInd'
    <3>1. gpc = "attempt" /\ Accepts
      BY <2>5 DEF PlaceSink, GInd
    <3>2. Placed'
      BY <2>0, <2>5, <3>1, SinkPlaced
    <3>3. gpc' = "place" /\ job' = job /\ attempt' = attempt
      BY <2>5 DEF PlaceSink
    <3>4. Accepts'
      BY <3>1, <3>3 DEF Accepts, slot_population
    <3> QED BY <3>2, <3>3, <3>4 DEF GInd, Drawing
  <2>6. ASSUME NEW awake \in Samples, NEW cell \in Grid, Place(cell, awake) PROVE GInd'
    <3>1. gpc = "place" /\ gpc' = gpc /\ job' = job /\ attempt' = attempt
      BY <2>6 DEF Place
    <3>2. Placed /\ Accepts
      BY <3>1 DEF GInd, Drawing
    <3>3. Placed'
      BY <2>0, <2>6, <3>2, NodePlaced
    <3>4. Accepts'
      BY <3>1, <3>2 DEF Accepts, slot_population
    <3> QED BY <3>1, <3>3, <3>4 DEF GInd, Drawing
  <2>7. ASSUME NEW n \in Ids, Explore(n) PROVE GInd'
    BY <2>7, Exploring
  <2>8. CASE UNCHANGED gvars
    BY <2>8, Unmoved DEF gvars, GInd, Drawing, Searched
  <2> QED BY <2>1, <2>2, <2>3, <2>4, <2>5, <2>6, <2>7, <2>8 DEF GNext
<1> QED BY <1>1, <1>2, PTL DEF GSpec

(* Whatever the arguments and the draws, only networks that the scheduler  *)
(* may be given are handed out, and the typed generator, in its unbounded  *)
(* loop, always has a free position to find.                               *)
THEOREM GenerationSoundCorrect == GSpec => []GenerationSound
<1>1. GInd => GenerationSound
  <2> SUFFICES ASSUME GInd PROVE GenerationSound
    OBVIOUS
  <2>0. job \in Arguments
    BY JobsAssumption DEF GInd
  <2>1. RoomToDraw
    BY <2>0, PositionFree DEF RoomToDraw, GInd, Drawing
  <2>2. ASSUME gpc = "made" PROVE OnlySchedulable
    <3>1. Placed /\ Searched /\ Accepts /\ reached = Ids
      BY <2>2 DEF GInd, Drawing
    <3>2. Len(records) = job.node_count /\ ValidNodes
      BY <2>0, <3>1, DrawnValid DEF Searched
    <3>3. ASSUME NEW m \in Ids, NEW n \in Ids, m # n PROVE position(m) # position(n)
      BY <2>0, <3>1, <3>2, <3>3, RecordOf DEF Placed, position, Ids
    <3>4. ASSUME NEW S \in SUBSET Ids, 0 \in S, S # Ids
          PROVE  \E n \in S : neighbors(n) \ S # {}
      BY <3>1, <3>4 DEF Searched, Closed
    <3> QED BY <3>2, <3>3, <3>4 DEF OnlySchedulable
  <2> QED BY <2>1, <2>2 DEF GenerationSound, OnlySchedulable, GInd
<1> QED BY <1>1, GenerationInductive, PTL


-----------------------------------------------------------------------------
(* The catalogue.                                                          *)

AnyFile == ({"no"} \cup Settings) \X {"file", "generated", "edited"}

Whole(s) == [i \in Id |-> Generated(s)]
List(s) == [listed |-> TRUE, settings |-> s, hashes |-> Whole(s)]

(* A build owns the directory: what it has hashed is what it has generated.*)
Building(step, s, n) ==
  [at |-> step, settings |-> s, next |-> n, hashes |-> [j \in 1 .. n - 1 |-> Generated(s)]]

BuilderInv ==
  builder = Idle \/
  \E s \in Settings, n \in 1 .. Topologies + 1, step \in {"topology", "schedule"} :
    /\ builder = Building(step, s, n) /\ catalogue = NoList /\ experiment = Idle
    /\ \A j \in 1 .. n - 1 : schedules[j] = Generated(s)
    /\ step = "schedule" => n \in Id /\ topologies[n] = Generated(s)

ListInv ==
  catalogue = NoList \/
  \E s \in Settings : catalogue = List(s) /\ \A i \in Id : schedules[i] = Generated(s)

(* Its rows have the hashes of the catalogue, edited files or not.         *)
ExperimentInv ==
  experiment = Idle \/
  \E s \in Settings, n \in 1 .. Topologies + 1 :
    /\ catalogue = List(s)
    /\ \/ experiment = [at |-> "measure", loaded |-> List(s), next |-> n,
                        rows |-> [j \in 1 .. n - 1 |-> Generated(s)]]
       \/ /\ experiment = [at |-> "manifest", settings |-> s]
          /\ outputs = [rows |-> Whole(s), complete |-> FALSE, exists |-> TRUE]

OutputsInv ==
  \/ outputs = NoOutputs
  \/ ~ outputs.complete
  \/ \E s \in Settings :
       outputs = [rows |-> Whole(s), complete |-> TRUE, exists |-> TRUE, settings |-> s]

CatalogueInv ==
  /\ topologies \in [Id -> AnyFile] /\ schedules \in [Id -> AnyFile]
  /\ BuilderInv /\ ListInv /\ ExperimentInv /\ OutputsInv

LEMMA Fresh ==
  ASSUME NEW s
  PROVE  /\ Generated(s) # NoFile
         /\ s \in Settings => Generated(s) \in AnyFile
         /\ NoFile \in AnyFile
         /\ \A f \in AnyFile : Edited(f) \in AnyFile
BY DEF Generated, NoFile, AnyFile, Edited

LEMMA StartBuildKeeps ==
  ASSUME CatalogueInv, NEW s \in Settings, StartBuild(s)
  PROVE  CatalogueInv'
<1>1. builder' = Building("topology", s, 1)
  <2>1. <<>> = [j \in 1 .. 1 - 1 |-> Generated(s)]
    OBVIOUS
  <2>2. QED
    BY <2>1 DEF StartBuild, Building
<1>2. 1 \in 1 .. Topologies + 1
  BY CatalogueAssumption
<1>3. BuilderInv'
  BY <1>1, <1>2 DEF BuilderInv, StartBuild
<1>4. QED
  BY <1>3 DEF CatalogueInv, StartBuild, ListInv, ExperimentInv, OutputsInv

LEMMA SaveTopologyKeeps ==
  ASSUME CatalogueInv, SaveTopology
  PROVE  CatalogueInv'
<1>1. PICK s \in Settings, n \in 1 .. Topologies + 1, step \in {"topology", "schedule"} :
        /\ builder = Building(step, s, n) /\ catalogue = NoList /\ experiment = Idle
        /\ \A j \in 1 .. n - 1 : schedules[j] = Generated(s)
  BY DEF SaveTopology, CatalogueInv, BuilderInv, Idle
<1>2. builder.at = step /\ builder.next = n /\ builder.settings = s
  BY <1>1 DEF Building
<1>3. /\ UNCHANGED <<schedules, catalogue, experiment, outputs>>
      /\ ListInv' /\ ExperimentInv' /\ OutputsInv'
  BY <1>1 DEF SaveTopology, CatalogueInv, ListInv, ExperimentInv, OutputsInv
<1>4. CASE builder' = Idle /\ UNCHANGED topologies
  BY <1>3, <1>4 DEF CatalogueInv, BuilderInv
<1>5. CASE /\ topologies' = [topologies EXCEPT ![n] = Generated(s)]
           /\ builder' = [builder EXCEPT !.at = "schedule"]
  <2>1. builder' = Building("schedule", s, n) /\ n \in Id
    BY <1>1, <1>2, <1>5 DEF Building, SaveTopology
  <2>2. topologies' \in [Id -> AnyFile] /\ topologies'[n] = Generated(s)
    BY <1>5, <2>1, Fresh DEF CatalogueInv
  <2>3. BuilderInv'
    BY <1>1, <1>3, <2>1, <2>2 DEF BuilderInv
  <2>4. QED
    BY <1>3, <2>2, <2>3 DEF CatalogueInv
<1>6. QED
  BY <1>2, <1>4, <1>5 DEF SaveTopology

LEMMA SaveScheduleKeeps ==
  ASSUME CatalogueInv, SaveSchedule
  PROVE  CatalogueInv'
<1>1. PICK s \in Settings, n \in 1 .. Topologies + 1 :
        /\ builder = Building("schedule", s, n) /\ catalogue = NoList /\ experiment = Idle
        /\ \A j \in 1 .. n - 1 : schedules[j] = Generated(s)
        /\ n \in Id /\ topologies[n] = Generated(s)
  BY DEF SaveSchedule, CatalogueInv, BuilderInv, Idle, Building
<1>2. /\ builder.next = n /\ builder.settings = s
      /\ builder.hashes = [j \in 1 .. n - 1 |-> Generated(s)]
  BY <1>1 DEF Building
<1>3. /\ schedules' = [schedules EXCEPT ![n] = Generated(s)]
      /\ builder' = [builder EXCEPT !.at = "topology", !.next = n + 1,
                       !.hashes = [j \in 1 .. n |-> IF j = n THEN topologies[n]
                                                    ELSE builder.hashes[j]]]
      /\ UNCHANGED <<topologies, catalogue, experiment, outputs>>
  BY <1>2 DEF SaveSchedule
<1>4. n + 1 \in 1 .. Topologies + 1 /\ n + 1 - 1 = n /\ n \in Nat
  BY <1>1, CatalogueAssumption DEF Id
<1>5. builder' = Building("topology", s, n + 1)
  <2> DEFINE hashed == [j \in 1 .. n |-> IF j = n THEN topologies[n] ELSE builder.hashes[j]]
  <2>1. hashed = [j \in 1 .. n + 1 - 1 |-> Generated(s)]
    BY <1>1, <1>2, <1>4
  <2>2. builder' = [at |-> "topology", settings |-> s, next |-> n + 1, hashes |-> hashed]
    BY <1>1, <1>3 DEF Building
  <2> HIDE DEF hashed
  <2>3. QED
    BY <2>1, <2>2 DEF Building
<1>6. /\ schedules' \in [Id -> AnyFile]
      /\ \A j \in 1 .. n + 1 - 1 : schedules'[j] = Generated(s)
  BY <1>1, <1>3, <1>4, Fresh, CatalogueAssumption DEF CatalogueInv, Id
<1>7. BuilderInv'
  <2> DEFINE m == n + 1
  <2>1. /\ m \in 1 .. Topologies + 1 /\ builder' = Building("topology", s, m)
        /\ \A j \in 1 .. m - 1 : schedules'[j] = Generated(s)
    BY <1>4, <1>5, <1>6
  <2>2. catalogue' = NoList /\ experiment' = Idle
    BY <1>1, <1>3
  <2> HIDE DEF m
  <2>3. QED
    BY <2>1, <2>2 DEF BuilderInv
<1>8. QED
  BY <1>1, <1>3, <1>6, <1>7 DEF CatalogueInv, ListInv, ExperimentInv, OutputsInv

LEMMA WriteCatalogueKeeps ==
  ASSUME CatalogueInv, WriteCatalogue
  PROVE  CatalogueInv'
<1>1. PICK s \in Settings, n \in 1 .. Topologies + 1 :
        /\ builder = Building("topology", s, n) /\ experiment = Idle
        /\ \A j \in 1 .. n - 1 : schedules[j] = Generated(s)
  BY DEF WriteCatalogue, CatalogueInv, BuilderInv, Idle, Building
<1>2. n = Topologies + 1 /\ 1 .. n - 1 = Id
  BY <1>1, CatalogueAssumption DEF WriteCatalogue, Building, Id
<1>3. catalogue' = List(s) /\ \A i \in Id : schedules'[i] = Generated(s)
  BY <1>1, <1>2 DEF WriteCatalogue, Building, List, Whole
<1>4. ListInv' /\ BuilderInv' /\ ExperimentInv'
  BY <1>1, <1>3 DEF WriteCatalogue, ListInv, BuilderInv, ExperimentInv
<1>5. QED
  BY <1>4 DEF WriteCatalogue, CatalogueInv, OutputsInv

LEMMA StartExperimentKeeps ==
  ASSUME CatalogueInv, StartExperiment
  PROVE  CatalogueInv'
<1>1. PICK s \in Settings : catalogue = List(s)
  BY DEF StartExperiment, CatalogueInv, ListInv, NoList
<1>2. <<>> = [j \in 1 .. 1 - 1 |-> Generated(s)] /\ 1 \in 1 .. Topologies + 1
  BY CatalogueAssumption
<1>3. /\ experiment' = [at |-> "measure", loaded |-> List(s), next |-> 1,
                        rows |-> [j \in 1 .. 1 - 1 |-> Generated(s)]]
      /\ UNCHANGED <<topologies, schedules, catalogue, builder, outputs>> /\ builder = Idle
  BY <1>1, <1>2 DEF StartExperiment
<1>4. ExperimentInv'
  BY <1>1, <1>2, <1>3 DEF ExperimentInv
<1>5. QED
  BY <1>3, <1>4 DEF CatalogueInv, BuilderInv, ListInv, OutputsInv

LEMMA MeasureKeeps ==
  ASSUME CatalogueInv, Measure
  PROVE  CatalogueInv'
<1>1. PICK s \in Settings, n \in 1 .. Topologies + 1 :
        /\ catalogue = List(s)
        /\ experiment = [at |-> "measure", loaded |-> List(s), next |-> n,
                         rows |-> [j \in 1 .. n - 1 |-> Generated(s)]]
  BY DEF Measure, CatalogueInv, ExperimentInv, Idle
<1>2. /\ n \in Id /\ n + 1 \in 1 .. Topologies + 1 /\ n + 1 - 1 = n
      /\ experiment.loaded.hashes[n] = Generated(s)
  BY <1>1, CatalogueAssumption DEF Measure, Id, List, Whole
<1>3. UNCHANGED <<topologies, schedules, catalogue, builder, outputs>> /\ builder = Idle
  BY <1>1 DEF Measure, CatalogueInv, BuilderInv, List, NoList
<1>4. ExperimentInv'
  <2>1. CASE topologies[n] # Generated(s)
    BY <1>1, <1>2, <2>1 DEF Measure, ExperimentInv
  <2>2. CASE topologies[n] = Generated(s)
    <3> DEFINE m == n + 1
               row == [j \in 1 .. n |-> IF j = n THEN topologies[n] ELSE experiment.rows[j]]
    <3>1. experiment.next = n /\ topologies[n] = experiment.loaded.hashes[n]
      BY <1>1, <1>2, <2>2
    <3>2. experiment' = [experiment EXCEPT !.next = n + 1, !.rows = row]
      BY <3>1 DEF Measure
    <3>3. experiment' = [at |-> "measure", loaded |-> List(s), next |-> m, rows |-> row]
      <4> HIDE DEF row
      <4> QED
        BY <1>1, <3>2
    <3>4. row = [j \in 1 .. m - 1 |-> Generated(s)]
      BY <1>1, <1>2, <2>2
    <3>5. m \in 1 .. Topologies + 1
      BY <1>2
    <3> HIDE DEF m, row
    <3>6. QED
      BY <1>1, <1>3, <3>3, <3>4, <3>5 DEF ExperimentInv
  <2>3. QED
    BY <2>1, <2>2
<1>5. QED
  BY <1>3, <1>4 DEF CatalogueInv, BuilderInv, ListInv, OutputsInv

LEMMA WriteRowsKeeps ==
  ASSUME CatalogueInv, WriteRows
  PROVE  CatalogueInv'
<1>1. PICK s \in Settings, n \in 1 .. Topologies + 1 :
        /\ catalogue = List(s)
        /\ experiment = [at |-> "measure", loaded |-> List(s), next |-> n,
                         rows |-> [j \in 1 .. n - 1 |-> Generated(s)]]
  BY DEF WriteRows, CatalogueInv, ExperimentInv, Idle
<1>2. UNCHANGED <<topologies, schedules, catalogue, builder>> /\ builder = Idle
  BY <1>1 DEF WriteRows, CatalogueInv, BuilderInv, List, NoList
<1>3. 1 .. n - 1 = Id
  BY <1>1, CatalogueAssumption DEF WriteRows, Id
<1>4. CASE outputs.exists
  BY <1>2, <1>4 DEF WriteRows, CatalogueInv, BuilderInv, ListInv, ExperimentInv, OutputsInv
<1>5. CASE ~ outputs.exists
  <2>1. /\ experiment' = [at |-> "manifest", settings |-> s]
        /\ outputs' = [rows |-> Whole(s), complete |-> FALSE, exists |-> TRUE]
    BY <1>1, <1>3, <1>5 DEF WriteRows, Whole, List
  <2>2. ExperimentInv' /\ OutputsInv'
    BY <1>1, <1>2, <2>1 DEF ExperimentInv, OutputsInv
  <2>3. QED
    BY <1>2, <2>2 DEF CatalogueInv, BuilderInv, ListInv
<1>6. QED
  BY <1>4, <1>5

LEMMA WriteManifestKeeps ==
  ASSUME CatalogueInv, WriteManifest
  PROVE  CatalogueInv'
<1>1. PICK s \in Settings :
        /\ catalogue = List(s) /\ experiment.settings = s
        /\ outputs = [rows |-> Whole(s), complete |-> FALSE, exists |-> TRUE]
  BY DEF WriteManifest, CatalogueInv, ExperimentInv, Idle
<1>2. /\ outputs' = [rows |-> Whole(s), complete |-> TRUE, exists |-> TRUE, settings |-> s]
      /\ UNCHANGED <<topologies, schedules, catalogue, builder>> /\ experiment' = Idle
      /\ builder = Idle
  BY <1>1 DEF WriteManifest, List, CatalogueInv, BuilderInv, NoList
<1>3. OutputsInv'
  BY <1>2 DEF OutputsInv
<1>4. QED
  BY <1>2, <1>3 DEF CatalogueInv, BuilderInv, ListInv, ExperimentInv

(* Failures, removals and edits.                                           *)
LEMMA DisturbedKeeps ==
  ASSUME CatalogueInv,
         \/ BuildFails \/ ExperimentFails \/ RemoveCatalogue \/ RemoveOutputs
         \/ \E i \in Id : EditTopology(i)
  PROVE  CatalogueInv'
<1>1. CASE BuildFails
  BY <1>1 DEF BuildFails, CatalogueInv, BuilderInv, ListInv, ExperimentInv, OutputsInv
<1>2. CASE ExperimentFails
  BY <1>2 DEF ExperimentFails, CatalogueInv, BuilderInv, ListInv, ExperimentInv, OutputsInv
<1>3. CASE RemoveCatalogue
  BY <1>3, Fresh DEF RemoveCatalogue, CatalogueInv, BuilderInv, ListInv, ExperimentInv, OutputsInv
<1>4. CASE RemoveOutputs
  BY <1>4 DEF RemoveOutputs, CatalogueInv, BuilderInv, ListInv, ExperimentInv, OutputsInv
<1>5. ASSUME NEW i \in Id, EditTopology(i) PROVE CatalogueInv'
  <2>1. topologies' \in [Id -> AnyFile]
    BY <1>5, Fresh DEF EditTopology, CatalogueInv
  <2>2. QED
    BY <1>5, <2>1
       DEF EditTopology, CatalogueInv, BuilderInv, ListInv, ExperimentInv, OutputsInv
<1>6. QED
  BY <1>1, <1>2, <1>3, <1>4, <1>5

LEMMA CatalogueStutter ==
  ASSUME CatalogueInv, UNCHANGED tvars
  PROVE  CatalogueInv'
BY DEF tvars, CatalogueInv, BuilderInv, ListInv, ExperimentInv, OutputsInv

(* The inductive invariant of the catalogue                                *)
(* (build_topology_catalogue.py:46-148).                                   *)
THEOREM CatalogueInductive == ESpec => []CatalogueInv
<1>1. TInit => CatalogueInv
  BY Fresh DEF TInit, CatalogueInv, BuilderInv, ListInv, ExperimentInv, OutputsInv
<1>2. CatalogueInv /\ [ENext]_evars => CatalogueInv'
  <2> SUFFICES ASSUME CatalogueInv, [ENext]_evars PROVE CatalogueInv'
    OBVIOUS
  <2>1. CASE TNext
    BY <2>1, StartBuildKeeps, SaveTopologyKeeps, SaveScheduleKeeps, WriteCatalogueKeeps,
       StartExperimentKeeps, MeasureKeeps, WriteRowsKeeps, WriteManifestKeeps, DisturbedKeeps
       DEF TNext
  <2>2. CASE UNCHANGED tvars
    BY <2>2, CatalogueStutter
  <2>3. QED
    BY <2>1, <2>2 DEF ENext, evars
<1>3. QED
  BY <1>1, <1>2, PTL DEF ESpec, EInit

(* Whatever fails half-way, is removed or edited, a complete experiment    *)
(* measures its catalogue (run_topology_scaling_experiment.py:66-120).     *)
THEOREM MeasuredAsCataloguedCorrect == ESpec => []MeasuredAsCatalogued
<1>1. CatalogueInv => MeasuredAsCatalogued
  BY DEF CatalogueInv, ListInv, OutputsInv, MeasuredAsCatalogued, NoList, NoOutputs, List, Whole
<1>2. QED
  BY <1>1, CatalogueInductive, PTL

-----------------------------------------------------------------------------
(* The campaign.                                                           *)

Good(r) == ledger[r].exists /\ Measured(ledger[r]) /\ (r \in Local => OnDevice(r))

Entries == Seq([run : CRuns, returncode : {0, 1}])

(* What the driver has listed so far, in the order it was to do it.        *)
Listed(results) ==
  /\ results \in Entries
  /\ \A i \in 1 .. Len(results) :
       results[i].run = planned[i] /\ (results[i].returncode = 0 => Good(planned[i]))

(* A campaign in progress: runs of the plan that no manifest has accepted, *)
(* each once, some of them done.                                           *)
UnderWay ==
  /\ planned \in Seq(CRuns) /\ Len(entries) < Len(planned)
  /\ \A i, j \in 1 .. Len(planned) : planned[i] = planned[j] => i = j
  /\ \A i \in 1 .. Len(planned) : planned[i] \notin accepted
  /\ Listed(entries)
  /\ stage # "check" => (current \in Local => OnDevice(current))
  /\ stage = "returned" =>
       \E n \in FailureCounts, c \in ProviderFailures :
         ledger[current] = Ledger(Items, n, c, FALSE)

Manifested ==
  manifest.status = "completed" =>
    /\ Len(manifest.runs) = Len(manifest.planned)
    /\ \A i \in DOMAIN manifest.runs :
         manifest.runs[i].run = manifest.planned[i] /\ manifest.runs[i].run \in accepted

CampaignInv ==
  /\ ledger = [r \in CRuns |-> ledger[r]] /\ device = [r \in CRuns |-> device[r]]
  /\ stage \in {"idle", "check", "run", "returned", "failed"}
  /\ accepted \subseteq CRuns /\ \A r \in accepted : Good(r)
  /\ Manifested
  /\ stage # "idle" => UnderWay

(* The driver counts the failures of the provider as the provider names    *)
(* them.                                                                   *)
AllCounted == ProviderFailures \subseteq PROVIDER_ERROR_CODES

(* The wanted runs in the order of the plan are runs of it, each once.     *)
LEMMA InOrder ==
  ASSUME NEW wanted \in SUBSET CRuns, wanted # {}, NEW s \in InPlanOrder(wanted)
  PROVE  /\ s \in Seq(CRuns) /\ 0 < Len(s)
         /\ \A i \in 1 .. Len(s) : s[i] \in wanted
         /\ \A i, j \in 1 .. Len(s) : s[i] = s[j] => i = j
<1>1. PICK n \in 1 .. Len(Plan) : s \in [1 .. n -> wanted]
  BY DEF InPlanOrder
<1>2. Len(Plan) \in Nat /\ n \in Nat /\ n > 0
  BY <1>1, PlanAssumption
<1>3. s \in Seq(CRuns) /\ Len(s) = n
  BY <1>1, <1>2
<1>4. ASSUME NEW i \in 1 .. n, NEW j \in 1 .. n, i < j PROVE s[i] # s[j]
  <2>1. PICK k \in DOMAIN Plan, l \in DOMAIN Plan : k < l /\ Plan[k] = s[i] /\ Plan[l] = s[j]
    <3>1. DOMAIN s = 1 .. n /\ i \in DOMAIN s /\ j \in DOMAIN s
      BY <1>1, <1>4
    <3>2. QED
      BY <1>4, <3>1 DEF InPlanOrder
  <2>2. k \in 1 .. Len(Plan) /\ l \in 1 .. Len(Plan)
    BY <2>1, PlanAssumption
  <2>3. QED
    BY <2>1, <2>2, PlanAssumption
<1>5. QED
  BY <1>1, <1>2, <1>3, <1>4

LEMMA StartKeeps ==
  ASSUME CampaignInv, NEW wanted \in SUBSET CRuns, NEW allow \in BOOLEAN, Start(wanted, allow)
  PROVE  CampaignInv'
<1>1. planned' \in InPlanOrder(wanted) /\ wanted # {} /\ \A r \in wanted : ~ledger[r].exists
  BY DEF Start
<1>2. /\ planned' \in Seq(CRuns) /\ 0 < Len(planned')
      /\ \A i \in 1 .. Len(planned') : planned'[i] \in wanted
      /\ \A i, j \in 1 .. Len(planned') : planned'[i] = planned'[j] => i = j
  BY <1>1, InOrder
<1>3. /\ entries' = <<>> /\ stage' = "check"
      /\ UNCHANGED <<ledger, device, manifest, accepted>>
  BY DEF Start
<1>4. \A r \in wanted : r \notin accepted
  BY <1>1 DEF CampaignInv, Good
<1>5. UnderWay'
  BY <1>2, <1>3, <1>4 DEF UnderWay, Listed, Entries
<1>6. \A r \in accepted : r \in cpuAllowed' <=> r \in cpuAllowed
  BY <1>4 DEF Start, Allow
<1>7. \A r \in accepted : Good(r)'
  BY <1>3, <1>6 DEF CampaignInv, Good, OnDevice
<1>8. QED
  BY <1>3, <1>5, <1>7 DEF CampaignInv, Manifested

LEMMA Current ==
  ASSUME UnderWay
  PROVE  /\ Len(entries) \in Nat /\ Len(planned) \in Nat
         /\ Len(entries) + 1 \in 1 .. Len(planned)
         /\ current \in CRuns /\ current \notin accepted
         /\ \A i \in 1 .. Len(entries) :
              i \in 1 .. Len(planned) /\ planned[i] \in CRuns \ {current}
BY DEF UnderWay, Listed, Entries, current

(* What a manifest lists without a failure it accepts.                     *)
LEMMA FinishKeeps ==
  ASSUME CampaignInv, UnderWay, NEW results, Finish(results), ledger' = ledger,
         cpuAllowed' = cpuAllowed, device' = [r \in CRuns |-> device'[r]],
         \A r \in CRuns \ {current} : device'[r] = device[r],
         Listed(results),
         Len(results) = Len(planned) \/ \E i \in 1 .. Len(results) : results[i].returncode # 0,
         \A i \in 1 .. Len(results) :
           results[i].returncode = 0 => device'[planned[i]] = device[planned[i]]
  PROVE  CampaignInv'
<1> DEFINE new == {results[i].run : i \in {j \in DOMAIN results : results[j].returncode = 0}}
<1>1. DOMAIN results = 1 .. Len(results) /\ Len(results) \in Nat
  BY DEF Listed, Entries
<1>2. /\ stage' = "idle" /\ accepted' = accepted \cup new
      /\ manifest' = [status |-> Status(results), planned |-> planned, runs |-> results]
  BY DEF Finish, Stop
<1>3. ASSUME NEW r \in accepted PROVE r \in CRuns /\ Good(r)'
  <2>1. r \in CRuns \ {current}
    BY <1>3, Current DEF CampaignInv
  <2>2. QED
    BY <2>1 DEF CampaignInv, Good, OnDevice
<1>4. ASSUME NEW r \in new PROVE r \in CRuns /\ Good(r)'
  <2>1. PICK i \in 1 .. Len(results) : results[i].run = r /\ results[i].returncode = 0
    BY <1>1
  <2>2. results[i] \in [run : CRuns, returncode : {0, 1}]
    <3> DEFINE Record == [run : CRuns, returncode : {0, 1}]
    <3>1. results \in Seq(Record)
      BY DEF Listed, Entries
    <3> HIDE DEF Record
    <3>2. results[i] \in Record
      BY <2>1, <3>1
    <3>3. QED
      BY <3>2 DEF Record
  <2>3. r = planned[i] /\ Good(r) /\ device'[r] = device[r] /\ r \in CRuns
    BY <2>1, <2>2 DEF Listed
  <2>4. QED
    BY <2>3 DEF Good, OnDevice
<1>5. Manifested'
  <2> SUFFICES ASSUME Status(results) = "completed"
               PROVE  /\ Len(results) = Len(planned)
                      /\ \A i \in DOMAIN results :
                           results[i].run = planned[i] /\ results[i].run \in new
    BY <1>2 DEF Manifested
  <2>1. \A i \in DOMAIN results : results[i].returncode = 0
    BY DEF Status
  <2>2. QED
    BY <1>1, <2>1 DEF Listed
<1>6. QED
  BY <1>2, <1>3, <1>4, <1>5 DEF CampaignInv

(* One more run is listed.                                                 *)
LEMMA OneMore ==
  ASSUME UnderWay, NEW code \in {0, 1}, code = 0 => Good(current)
  PROVE  LET results == Append(entries, [run |-> current, returncode |-> code])
         IN  /\ Listed(results) /\ Len(results) = Len(entries) + 1
             /\ results[Len(results)].returncode = code
             /\ \A i \in 1 .. Len(entries) : results[i] = entries[i]
<1> DEFINE record == [run |-> current, returncode |-> code]
           results == Append(entries, record)
<1>1. record \in [run : CRuns, returncode : {0, 1}]
  BY Current
<1>2. entries \in Entries
  BY DEF UnderWay, Listed
<1>3. /\ results \in Entries /\ Len(results) = Len(entries) + 1
      /\ results[Len(entries) + 1] = record
      /\ \A i \in 1 .. Len(entries) : results[i] = entries[i]
  BY <1>1, <1>2 DEF Entries
<1>4. ASSUME NEW i \in 1 .. Len(results)
      PROVE  results[i].run = planned[i] /\ (results[i].returncode = 0 => Good(planned[i]))
  <2>1. CASE i \in 1 .. Len(entries)
    BY <1>3, <2>1 DEF UnderWay, Listed
  <2>2. CASE i = Len(entries) + 1
    BY <1>3, <2>2 DEF current
  <2>3. QED
    BY <1>3, <1>4, <2>1, <2>2, Current
<1>5. QED
  BY <1>3, <1>4 DEF Listed

LEMMA JudgeKeeps ==
  ASSUME AllCounted, CampaignInv, Judge
  PROVE  CampaignInv'
<1> DEFINE code == IF Ruined(ledger[current]) THEN 1 ELSE ExitStatus
           record == [run |-> current, returncode |-> code]
           results == Append(entries, record)
<1>1. UnderWay /\ stage \in {"returned", "failed"}
  BY DEF Judge, CampaignInv
<1>2. code \in {0, 1} /\ (code = 0 => ~Ruined(ledger[current]) /\ stage = "returned")
  BY DEF ExitStatus
<1>3. Ruined(ledger[current]) => code = 1
  OBVIOUS
<1>4. ASSUME code = 0 PROVE Good(current)
  <2>1. PICK n \in FailureCounts, c \in ProviderFailures :
          ledger[current] = Ledger(Items, n, c, FALSE)
    BY <1>1, <1>2, <1>4 DEF UnderWay
  <2>2. /\ ledger[current].exists /\ ~ledger[current].torn
        /\ ledger[current].recorded = Items /\ ledger[current].failed = n
        /\ ledger[current].code = IF n = 0 THEN NoCode ELSE c
    BY <2>1 DEF Ledger
  <2>3. provider_errors(ledger[current]) = n
    BY <2>2 DEF provider_errors, AllCounted, NoCode, PROVIDER_ERROR_CODES
  <2>4. 10 * n <= Items
    BY <1>2, <1>4, <2>2, <2>3, CountAssumption DEF Ruined
  <2>5. QED
    BY <1>1, <2>2, <2>4 DEF Good, Measured, UnderWay
<1>5. /\ Listed(results) /\ Len(results) = Len(entries) + 1
      /\ results[Len(results)].returncode = code
  <2> HIDE DEF code
  <2>1. QED
    BY <1>1, <1>2, <1>4, OneMore
<1>6. Proceed(record) /\ UNCHANGED <<ledger, device, cpuAllowed>>
  BY DEF Judge
<1>7. CASE Ruined(ledger[current]) \/ Len(results) = Len(planned)
  <2>1. Finish(results)
    BY <1>6, <1>7 DEF Proceed
  <2>2. Len(results) = Len(planned) \/ \E i \in 1 .. Len(results) : results[i].returncode # 0
    <3>1. CASE Ruined(ledger[current])
      <4>1. code = 1 /\ Len(results) \in 1 .. Len(results)
        BY <1>1, <1>3, <1>5, <3>1, Current
      <4>2. QED
        BY <1>5, <4>1
    <3>2. QED
      BY <1>7, <3>1
  <2>3. /\ device' = [r \in CRuns |-> device'[r]] /\ device' = device
        /\ ledger' = ledger /\ cpuAllowed' = cpuAllowed
    BY <1>6 DEF CampaignInv
  <2> HIDE DEF results
  <2>4. QED
    BY <1>1, <1>5, <2>1, <2>2, <2>3, FinishKeeps
<1>8. CASE ~(Ruined(ledger[current]) \/ Len(results) = Len(planned))
  <2>1. /\ entries' = results /\ stage' = "check"
        /\ UNCHANGED <<ledger, device, cpuAllowed, planned, manifest, accepted>>
    BY <1>6, <1>8 DEF Proceed
  <2>2. Len(results) < Len(planned)
    BY <1>1, <1>5, <1>8, Current
  <2> HIDE DEF results
  <2>3. UnderWay'
    BY <1>1, <1>5, <2>1, <2>2 DEF UnderWay, Listed, Good, OnDevice
  <2>4. QED
    BY <2>1, <2>3 DEF CampaignInv, Good, OnDevice, Manifested
<1>9. QED
  BY <1>7, <1>8

LEMMA DeviceRefusedKeeps ==
  ASSUME CampaignInv, NEW answer, DeviceRefused(answer)
  PROVE  CampaignInv'
<1> DEFINE results == Append(entries, [run |-> current, returncode |-> 1])
<1>1. UnderWay /\ Finish(results) /\ ledger' = ledger /\ cpuAllowed' = cpuAllowed
  BY DEF DeviceRefused, CampaignInv
<1>2. /\ device' = [r \in CRuns |-> device'[r]]
      /\ \A r \in CRuns \ {current} : device'[r] = device[r]
  BY DEF DeviceRefused, CampaignInv
<1>3. /\ Listed(results) /\ Len(results) = Len(entries) + 1
      /\ results[Len(results)].returncode = 1
      /\ \A i \in 1 .. Len(entries) : results[i] = entries[i]
  BY <1>1, OneMore
<1> HIDE DEF results
<1>4. \E i \in 1 .. Len(results) : results[i].returncode # 0
  BY <1>1, <1>3, Current
<1>5. ASSUME NEW i \in 1 .. Len(results), results[i].returncode = 0
      PROVE  device'[planned[i]] = device[planned[i]]
  <2>1. i \in 1 .. Len(entries)
    BY <1>1, <1>3, <1>5, Current
  <2>2. planned[i] \in CRuns \ {current}
    BY <1>1, <2>1, Current
  <2>3. QED
    BY <1>2, <2>2
<1>6. QED
  BY <1>1, <1>2, <1>3, <1>4, <1>5, FinishKeeps

(* The ledger and the device report a step writes are those of the current *)
(* run.                                                                    *)
LEMMA RunKeeps ==
  ASSUME CampaignInv, UnderWay,
         UNCHANGED <<cpuAllowed, planned, entries, manifest, accepted>>,
         stage' \in {"idle", "run", "returned", "failed"},
         ledger' = [r \in CRuns |-> ledger'[r]], device' = [r \in CRuns |-> device'[r]],
         \A r \in CRuns \ {current} : ledger'[r] = ledger[r] /\ device'[r] = device[r],
         stage' # "idle" /\ current \in Local =>
           device'[current] = "gpu" \/ (device'[current] = "cpu" /\ current \in cpuAllowed),
         stage' = "returned" =>
           \E n \in FailureCounts, c \in ProviderFailures :
             ledger'[current] = Ledger(Items, n, c, FALSE)
  PROVE  CampaignInv'
<1>1. \A r \in CRuns \ {current} : Good(r)' <=> Good(r)
  BY DEF Good, OnDevice
<1>2. current' = current
  BY DEF current
<1>3. ASSUME NEW i \in 1 .. Len(entries), Good(planned[i]) PROVE Good(planned[i])'
  <2>1. planned[i] \in CRuns \ {current}
    BY Current
  <2>2. QED
    BY <1>1, <1>3, <2>1
<1>4. Listed(entries)'
  BY <1>3 DEF UnderWay, Listed
<1>5. \A r \in accepted' : Good(r)'
  BY <1>1, Current DEF CampaignInv
<1>6. stage' # "idle" => UnderWay'
  BY <1>2, <1>4 DEF UnderWay, OnDevice
<1>7. QED
  BY <1>5, <1>6 DEF CampaignInv, Manifested

LEMMA DriveKeeps ==
  ASSUME CampaignInv,
         \/ \E answer \in {"gpu", "cpu"} : DeviceReady(answer)
         \/ \E n \in FailureCounts, c \in ProviderFailures : RunnerReturns(n, c)
         \/ \E left \in Partial : RunnerFails(left) \/ Killed(left)
  PROVE  CampaignInv'
<1>1. UnderWay
  BY DEF DeviceReady, RunnerReturns, RunnerFails, Killed, CampaignInv
<1>2. current \in CRuns
  BY <1>1, Current
<1>3. ASSUME NEW answer \in {"gpu", "cpu"}, DeviceReady(answer) PROVE CampaignInv'
  BY <1>1, <1>2, <1>3, RunKeeps DEF DeviceReady, CampaignInv
<1>4. ASSUME NEW n \in FailureCounts, NEW c \in ProviderFailures, RunnerReturns(n, c)
      PROVE  CampaignInv'
  BY <1>1, <1>2, <1>4, RunKeeps DEF RunnerReturns, CampaignInv, UnderWay, OnDevice
<1>5. ASSUME NEW left \in Partial, RunnerFails(left) PROVE CampaignInv'
  BY <1>1, <1>2, <1>5, RunKeeps DEF RunnerFails, CampaignInv, UnderWay, OnDevice
<1>6. ASSUME NEW left \in Partial, Killed(left) PROVE CampaignInv'
  BY <1>1, <1>2, <1>6, RunKeeps DEF Killed, CampaignInv, UnderWay
<1>7. QED
  BY <1>3, <1>4, <1>5, <1>6

LEMMA DiscardKeeps ==
  ASSUME CampaignInv, NEW r \in CRuns, Discard(r)
  PROVE  CampaignInv'
<1>1. \A q \in accepted : q # r /\ q \in CRuns
  BY DEF Discard, CampaignInv
<1>2. QED
  BY <1>1 DEF Discard, CampaignInv, Good, OnDevice, Manifested

(* The inductive invariant of the campaign                                 *)
(* (run_frozen_test_v3_seed_campaign.py:181-303), if the driver counts     *)
(* every failure the provider may have.                                    *)
THEOREM CampaignInductive == ASSUME AllCounted PROVE ESpec => []CampaignInv
<1>1. CInit => CampaignInv
  BY DEF CInit, CampaignInv, Manifested, NoManifest
<1>2. CampaignInv /\ [ENext]_evars => CampaignInv'
  <2> SUFFICES ASSUME CampaignInv, [ENext]_evars PROVE CampaignInv'
    OBVIOUS
  <2>1. CASE CNext
    BY <2>1, DriveKeeps, JudgeKeeps, StartKeeps, DiscardKeeps, DeviceRefusedKeeps
       DEF CNext, Drive, Operate, CFault
  <2>2. CASE UNCHANGED cvars
    BY <2>2 DEF cvars, CampaignInv, Manifested, UnderWay, Listed, Good, OnDevice, current
  <2>3. QED
    BY <2>1, <2>2 DEF ENext, evars
<1>3. QED
  BY <1>1, <1>2, PTL DEF ESpec, EInit

(* Whatever fails and however often the driver is started again, what the  *)
(* manifests list as completed measures the agent.                         *)
THEOREM CompletedMeansMeasuredCorrect ==
  ASSUME AllCounted PROVE ESpec => []CompletedMeansMeasured
<1>1. CampaignInv => CompletedMeansMeasured
  BY DEF CampaignInv, Manifested, CompletedMeansMeasured, Good
<1>2. QED
  BY <1>1, CampaignInductive, PTL

-----------------------------------------------------------------------------
(* The release.                                                            *)

(* The manifest written for a tree, its locks and what is declared of them.*)
ManifestOf(declared, t, ls) ==
  [built |-> TRUE,
   sha256 |-> [f \in collect(t) |-> t[f]],
   lock_chain |-> ls,
   divergences |-> [f \in DOMAIN declared |->
      [current |-> t[f], from |-> Against(f, t, ls), superseded_by |-> declared[f]]],
   not_shipped |-> [f \in LockCovered(ls) \ collect(t) |-> t[f]],
   anonymity |-> [f \in redacted(t, ls) |-> anonymise(t, ls)[f]],
   withheld |-> withheld(t, ls)]

Truthful(m, t, ls) == \E declared : Declared(declared, t, ls) /\ m = ManifestOf(declared, t, ls)

(* No file of the repository is an anonymous form.                         *)
Tree(t) == t = [f \in Files |-> t[f]] /\ \A f \in Files : t[f][1] # "cleaned"
Chain(ls) == ls = [l \in Locks |-> ls[l]]

ReleaseInv ==
  /\ Tree(tree) /\ Chain(locks)
  /\ release.built =>
       Chain(asBuilt.locks) /\ Truthful(release, asBuilt.tree, asBuilt.locks)
  /\ archive.built =>
       \E t, ls :
         /\ archive.tree = anonymise(t, ls) /\ archive.locks = ls
         /\ archive.fresh => Truthful(archive.release, t, ls)

(* A file a lock covers that is as it was, or absent where it may be.      *)
AsWas(f, t, built, ls) ==
  \/ t[f] = built[f]
  \/ t[f] = Missing /\ (f \notin collect(built) \/ f \in withheld(built, ls))

LEMMA DivergencesAccepted ==
  ASSUME NEW m, NEW built, NEW t, NEW ls, Truthful(m, built, ls),
         \A f \in LockCovered(ls) : AsWas(f, t, built, ls)
  PROVE  check_divergences(m, t, ls)
<1>1. PICK declared : Declared(declared, built, ls) /\ m = ManifestOf(declared, built, ls)
  BY DEF Truthful
<1>2. /\ DOMAIN m.divergences = DOMAIN declared /\ DOMAIN declared = Diverged(built, ls)
      /\ \A f \in DOMAIN declared :
           /\ m.divergences[f].current = built[f]
           /\ m.divergences[f].from = Against(f, built, ls)
           /\ m.divergences[f].superseded_by = declared[f]
      /\ DOMAIN m.not_shipped = LockCovered(ls) \ collect(built)
      /\ \A f \in LockCovered(ls) \ collect(built) : m.not_shipped[f] = built[f]
      /\ m.withheld = withheld(built, ls)
  BY <1>1 DEF ManifestOf, Declared
<1>3. \A f \in Diverged(t, ls) \cup Diverged(built, ls) : f \in LockCovered(ls)
  BY DEF Diverged, Against, LockCovered
<1>4. \A f : f \in withheld(built, ls) => f \in collect(built)
  BY DEF withheld
<1>5. ASSUME NEW f, t[f] = built[f]
      PROVE  /\ Against(f, t, ls) = Against(f, built, ls)
             /\ f \in Diverged(t, ls) <=> f \in Diverged(built, ls)
  BY <1>5 DEF Against, Diverged
<1>6. ASSUME NEW f \in Diverged(t, ls)
      PROVE  \/ Excused(f, m, t)
             \/ /\ f \notin DOMAIN m.not_shipped
                /\ f \in DOMAIN m.divergences
                /\ Against(f, t, ls) \subseteq m.divergences[f].from
  <2>1. f \in LockCovered(ls) /\ AsWas(f, t, built, ls)
    BY <1>3, <1>6
  <2>2. CASE t[f] = built[f]
    BY <1>2, <1>5, <1>6, <2>1, <2>2 DEF Excused
  <2>3. CASE t[f] # built[f]
    BY <1>2, <1>4, <2>1, <2>3 DEF AsWas, Excused
  <2>4. QED
    BY <2>2, <2>3
<1>7. ASSUME NEW f \in DOMAIN m.divergences
      PROVE  f \in Diverged(t, ls) \/ t[f] = Missing
  BY <1>2, <1>3, <1>5, <1>7 DEF AsWas
<1>8. ASSUME NEW f \in DOMAIN m.divergences, m.divergences[f].superseded_by # NoLock
      PROVE  Recorded(ls[m.divergences[f].superseded_by], f) = m.divergences[f].current
  BY <1>1, <1>2, <1>8 DEF Declared
<1>9. QED
  BY <1>6, <1>7, <1>8 DEF check_divergences

(* What an accepted tree has of a file that is not shipped.                *)
LEMMA UnshippedAccepted ==
  ASSUME NEW m, NEW built, NEW t, NEW ls, Truthful(m, built, ls), check_divergences(m, t, ls),
         NEW f \in LockCovered(ls) \ collect(built)
  PROVE  t[f] = built[f] \/ t[f] = Missing
<1> SUFFICES ASSUME t[f] # built[f], t[f] # Missing PROVE FALSE
  OBVIOUS
<1>1. PICK declared : Declared(declared, built, ls) /\ m = ManifestOf(declared, built, ls)
  BY DEF Truthful
<1>2. /\ DOMAIN m.divergences = Diverged(built, ls)
      /\ DOMAIN m.not_shipped = LockCovered(ls) \ collect(built)
      /\ m.not_shipped[f] = built[f]
  BY <1>1 DEF ManifestOf, Declared
<1>3. f \in Diverged(t, ls) => Excused(f, m, t)
  BY <1>2 DEF check_divergences
<1>4. f \notin Diverged(t, ls)
  BY <1>2, <1>3 DEF Excused
<1>5. PICK l \in Locks : Publishes(ls[l], f) /\ ls[l][f] = t[f]
  BY <1>4 DEF LockCovered, Diverged, Against
<1>6. f \in Diverged(built, ls)
  BY <1>5 DEF Diverged, Against, LockCovered
<1>7. QED
  BY <1>2, <1>4, <1>6 DEF check_divergences

LEMMA Released ==
  ASSUME NEW m, NEW built, NEW ls, Truthful(m, built, ls)
  PROVE  /\ DOMAIN m.sha256 = collect(built) /\ m.lock_chain = ls
         /\ \A f \in collect(built) : m.sha256[f] = built[f]
         /\ DOMAIN m.anonymity = redacted(built, ls) /\ m.withheld = withheld(built, ls)
         /\ \A f \in redacted(built, ls) : m.anonymity[f] = Cleaned(built[f])
<1>1. PICK declared : m = ManifestOf(declared, built, ls)
  BY DEF Truthful
<1>2. \A f \in redacted(built, ls) : f \in Files /\ anonymise(built, ls)[f] = Cleaned(built[f])
  BY ReleaseAssumption DEF anonymise, redacted, collect
<1>3. QED
  BY <1>1, <1>2 DEF ManifestOf

(* The verifier accepts exactly the trees in which nothing pinned changed. *)
LEMMA VerifiedAsBuilt ==
  ASSUME ReleaseInv, release.built
  PROVE  Verifies(release, tree, locks) <=>
           locks = asBuilt.locks /\ \A f \in Pinned : AsRecorded(f)
<1> DEFINE built == asBuilt.tree
           ls == asBuilt.locks
<1>1. /\ Tree(tree) /\ Chain(locks) /\ Chain(ls) /\ Truthful(release, built, ls)
  BY DEF ReleaseInv
<1>2. \A f \in collect(built) : f \in Files
  BY ReleaseAssumption DEF collect
<1>3. ASSUME Verifies(release, tree, locks)
      PROVE  locks = ls /\ \A f \in Pinned : AsRecorded(f)
  <2>1. \A l \in DOMAIN ls : locks[l] = ls[l]
    BY <1>1, <1>3, Released DEF Verifies, check_lock_chain
  <2>2. locks = ls
    BY <1>1, <2>1 DEF Chain
  <2>3. ASSUME NEW f \in collect(built) PROVE AsRecorded(f)
    <3>1. \/ tree[f] = Missing /\ f \in withheld(built, ls)
          \/ tree[f] = built[f]
          \/ tree[f] = Cleaned(built[f])
      BY <1>1, <1>3, <2>3, Released DEF Verifies, check_released_files
    <3>2. tree[f] # Cleaned(built[f])
      BY <1>1, <1>2, <2>3 DEF Tree, Cleaned
    <3>3. QED
      BY <3>1, <3>2 DEF AsRecorded
  <2>4. ASSUME NEW f \in LockCovered(ls) \ collect(built) PROVE AsRecorded(f)
    BY <1>1, <1>3, <2>2, <2>4, UnshippedAccepted DEF Verifies, AsRecorded
  <2>5. QED
    BY <2>2, <2>3, <2>4 DEF Pinned
<1>4. ASSUME locks = ls, \A f \in Pinned : AsRecorded(f)
      PROVE  Verifies(release, tree, locks)
  <2>1. check_lock_chain(release, locks)
    BY <1>1, <1>4, Released DEF check_lock_chain
  <2>2. \A f \in LockCovered(ls) : AsWas(f, tree, built, ls)
    BY <1>4 DEF Pinned, AsRecorded, AsWas
  <2>3. check_divergences(release, tree, locks)
    BY <1>1, <1>4, <2>2, DivergencesAccepted
  <2>4. ASSUME NEW f \in collect(built)
        PROVE  \/ tree[f] = Missing /\ f \in release.withheld
               \/ tree[f] # Missing /\ tree[f] = release.sha256[f]
    BY <1>1, <1>4, <2>4, Released DEF Pinned, AsRecorded, collect
  <2>5. check_released_files(release, tree)
    BY <1>1, <2>4, Released DEF check_released_files
  <2>6. QED
    BY <2>1, <2>3, <2>5 DEF Verifies
<1>5. QED
  BY <1>3, <1>4

(* What the archive makes of a file.                                       *)
LEMMA Anonymised ==
  ASSUME NEW t, NEW ls, NEW f \in Files
  PROVE  /\ f \in redacted(t, ls) => anonymise(t, ls)[f] = Cleaned(t[f])
         /\ f \in withheld(t, ls) => anonymise(t, ls)[f] = Missing
         /\ f \in collect(t) /\ f \notin redacted(t, ls) \cup withheld(t, ls)
              => f \notin Identifying /\ anonymise(t, ls)[f] = t[f]
         /\ f \notin collect(t) => anonymise(t, ls)[f] = Missing
BY DEF anonymise, redacted, withheld

(* An author is named only where no pattern is tried.                      *)
LEMMA NothingFoundIsLeft ==
  ASSUME NEW t, NEW ls, NEW f \in Files
  PROVE  /\ PathLeft(f, anonymise(t, ls)[f]) => f \notin Redactable
         /\ BylineLeft(f, anonymise(t, ls)[f]) => f \notin Redactable \cap BYLINE_SCOPE
<1>1. CASE f \in Identifying
  <2>1. anonymise(t, ls)[f] \in {Cleaned(t[f]), Missing}
    BY <1>1, Anonymised
  <2>2. anonymise(t, ls)[f][1] # "original"
    BY <2>1 DEF Cleaned, Missing
  <2>3. QED
    BY <2>2 DEF PathLeft, BylineLeft
<1>2. CASE f \notin Identifying
  BY <1>2 DEF Identifying, PathLeft, BylineLeft
<1>3. QED
  BY <1>1, <1>2

LEMMA ArchiveAccepted ==
  ASSUME NEW m, NEW t, NEW ls, Truthful(m, t, ls), Published(ls)
  PROVE  Verifies(m, anonymise(t, ls), ls)
<1> DEFINE a == anonymise(t, ls)
<1>1. check_lock_chain(m, ls)
  BY Released DEF check_lock_chain
<1>2. ASSUME NEW f \in LockCovered(ls) PROVE AsWas(f, a, t, ls)
  <2>1. f \in Files /\ f \notin redacted(t, ls)
    BY <1>2 DEF Published, LockCovered, redacted
  <2>2. QED
    BY <2>1, Anonymised DEF AsWas
<1>3. check_divergences(m, a, ls)
  BY <1>2, DivergencesAccepted
<1>4. ASSUME NEW f \in collect(t)
      PROVE  \/ a[f] = Missing /\ f \in m.withheld
             \/ a[f] # Missing /\ (a[f] = m.sha256[f] \/ (f \in DOMAIN m.anonymity /\ a[f] = m.anonymity[f]))
  <2>1. f \in Files /\ t[f] # Missing
    BY <1>4, ReleaseAssumption DEF collect
  <2>2. CASE f \in redacted(t, ls)
    <3>1. a[f] = Cleaned(t[f]) /\ a[f] # Missing
      BY <2>1, <2>2, Anonymised DEF Cleaned, Missing
    <3>2. QED
      BY <2>2, <3>1, Released
  <2>3. CASE f \in withheld(t, ls)
    BY <2>1, <2>3, Anonymised, Released
  <2>4. CASE f \notin redacted(t, ls) \cup withheld(t, ls)
    BY <1>4, <2>1, <2>4, Anonymised, Released
  <2>5. QED
    BY <2>2, <2>3, <2>4
<1>5. check_released_files(m, a)
  BY <1>4, Released DEF check_released_files
<1>6. QED
  BY <1>1, <1>3, <1>5 DEF Verifies

LEMMA ReleaseStep ==
  ASSUME ReleaseInv, RNext
  PROVE  ReleaseInv'
<1>1. ASSUME NEW f \in Files, NEW bytes \in Contents \cup {Missing}, Change(f, bytes)
      PROVE  ReleaseInv'
  <2>1. bytes[1] # "cleaned"
    BY DEF Contents, Original, Missing
  <2>2. Tree(tree')
    BY <1>1, <2>1 DEF Change, ReleaseInv, Tree
  <2>3. QED
    BY <1>1, <2>2 DEF Change, ReleaseInv
<1>2. ASSUME NEW l \in Locks, NEW f \in Files, Tamper(l, f) PROVE ReleaseInv'
  <2>1. Chain(locks')
    BY <1>2 DEF Tamper, ReleaseInv, Chain
  <2>2. QED
    BY <1>2, <2>1 DEF Tamper, ReleaseInv
<1>3. ASSUME NEW i \in 2 .. Len(LOCK_CHAIN), NEW added \in SUBSET Files, Reissue(i, added)
      PROVE  ReleaseInv'
  <2>1. Chain(locks')
    BY <1>3 DEF Reissue, ReleaseInv, Chain
  <2>2. QED
    BY <1>3, <2>1 DEF Reissue, ReleaseInv
<1>4. ASSUME NEW d \in Declarations, Build(d) PROVE ReleaseInv'
  <2>1. release' = ManifestOf(d, tree, locks) /\ Declared(d, tree, locks)
    BY <1>4 DEF Build, ManifestOf
  <2>2. /\ asBuilt'.tree = tree /\ asBuilt'.locks = locks
        /\ UNCHANGED <<tree, locks, archive>>
    BY <1>4 DEF Build
  <2>3. Truthful(release', tree, locks)
    BY <2>1 DEF Truthful
  <2>4. QED
    BY <2>2, <2>3 DEF ReleaseInv
<1>5. ASSUME Package PROVE ReleaseInv'
  <2>1. /\ archive'.tree = anonymise(tree, locks) /\ archive'.locks = locks
        /\ archive'.release = release
        /\ archive'.fresh <=> (tree = asBuilt.tree /\ locks = asBuilt.locks)
        /\ release.built /\ UNCHANGED <<tree, locks, release, asBuilt>>
    BY <1>5 DEF Package
  <2>2. archive'.fresh => Truthful(archive'.release, tree, locks)
    BY <2>1 DEF ReleaseInv
  <2>3. QED
    BY <2>1, <2>2 DEF ReleaseInv
<1>6. QED
  BY <1>1, <1>2, <1>3, <1>4, <1>5 DEF RNext

(* The inductive invariant of the release: its manifest is true of the     *)
(* tree it was written for (build_release_manifest.py:287-421).            *)
THEOREM ReleaseInductive == ESpec => []ReleaseInv
<1>1. RInit => ReleaseInv
  BY DEF RInit, ReleaseInv, Tree, Chain, Original, Nothing
<1>2. ReleaseInv /\ [ENext]_evars => ReleaseInv'
  <2> SUFFICES ASSUME ReleaseInv, [ENext]_evars PROVE ReleaseInv'
    OBVIOUS
  <2>1. CASE RNext
    BY <2>1, ReleaseStep
  <2>2. CASE UNCHANGED rvars
    BY <2>2 DEF rvars, ReleaseInv
  <2>3. QED
    BY <2>1, <2>2 DEF ENext, evars
<1>3. QED
  BY <1>1, <1>2, PTL DEF ESpec, EInit

(* The verifier refuses a release exactly when a lock, a shipped file or a *)
(* file a lock covers has changed (verify_release_manifest.py:48-158).     *)
THEOREM VerifiedIsAsBuiltCorrect == ESpec => []VerifiedIsAsBuilt
<1>1. ReleaseInv => VerifiedIsAsBuilt
  BY VerifiedAsBuilt DEF VerifiedIsAsBuilt
<1>2. QED
  BY <1>1, ReleaseInductive, PTL

(* The anonymous archive names an author only in files of the suffixes     *)
(* that are not looked into and in by-lines out of scope, and packaged from*)
(* the tree its manifest was built from it verifies, if the files that are *)
(* to be rewritten are published by the locks it looks at                  *)
(* (build_supplementary.py:216-275).                                       *)
THEOREM ArchiveVerifiesCorrect == ESpec => []ArchiveVerifies
<1>1. ReleaseInv => ArchiveVerifies
  BY NothingFoundIsLeft, ArchiveAccepted DEF ReleaseInv, ArchiveVerifies
<1>2. QED
  BY <1>1, ReleaseInductive, PTL

-----------------------------------------------------------------------------
(* The direct-generation baseline.                                         *)

Asked == UNION {ToSet(s) : s \in Selections}
Entry == [item : Asked, outcome : Outcomes]
ItemsOf(lines) == {l.item : l \in ToSet(lines)}
Unrepeated(lines) == \A i, j \in 1 .. Len(lines) : lines[i].item = lines[j].item => i = j
Opens(first, lines) ==
  Len(first) <= Len(lines) /\ \A i \in 1 .. Len(first) : lines[i] = first[i]

(* What is still to be run is what the ledger, when it has been tidied,    *)
(* does not hold of the selection.                                         *)
Unfinished(lines) ==
  /\ todo # <<>> \/ at = "rewrite"
  /\ \A i, j \in 1 .. Len(todo) : todo[i] = todo[j] => i = j
  /\ ToSet(todo) \cap ItemsOf(lines) = {}
  /\ ToSet(selection) \subseteq ItemsOf(lines) \cup ToSet(todo)

LedgerInv ==
  /\ baseline \in [exists : BOOLEAN, lines : Seq(Entry), torn : BOOLEAN]
  /\ kept \in Seq(Entry) /\ todo \in Seq(Asked)
  /\ Unrepeated(baseline.lines) /\ Unrepeated(kept)
  /\ \A l \in ToSet(kept) : l.outcome.measured
  /\ cutRewrite \/ everMeasured \subseteq Done

ProgressInv ==
  \/ at = "off"
  \/ at = "rewrite" /\ ToSet(kept) = MeasuredLines /\ Unfinished(kept)
  \/ at = "open" /\ baseline.lines = kept /\ Unfinished(kept)
  \/ at = "items" /\ Opens(kept, baseline.lines) /\ Unfinished(baseline.lines)
  \/ /\ at = "completed" /\ Opens(kept, baseline.lines)
     /\ ToSet(selection) \subseteq ItemsOf(baseline.lines)

BaselineInv == LedgerInv /\ ProgressInv

LEMMA MembersOf ==
  ASSUME NEW X, NEW s \in Seq(X)
  PROVE  ToSet(s) = {s[i] : i \in 1 .. Len(s)} /\ ToSet(s) \subseteq X
BY DEF ToSet

LEMMA NoMembers ==
  ASSUME NEW s, s = <<>>
  PROVE  ToSet(s) = {}
BY DEF ToSet

LEMMA KeptMeasured ==
  ASSUME baseline.lines \in Seq(Entry), Unrepeated(baseline.lines),
         NEW k, k = Filter(baseline.lines, MeasuredLines)
  PROVE  /\ k \in Seq(Entry) /\ Unrepeated(k)
         /\ ToSet(k) = MeasuredLines /\ \A l \in ToSet(k) : l.outcome.measured
<1> DEFINE lines == baseline.lines
<1>0. lines \in Seq(Entry) /\ ToSet(lines) = {lines[i] : i \in 1 .. Len(lines)}
  BY MembersOf
<1>1. k \in Seq(Entry) /\ IsSelection(k, lines, MeasuredLines, Len(lines))
  BY <1>0, FilterSelects
<1>2. PICK at_ \in [1 .. Len(k) -> 1 .. Len(lines)] :
        /\ \A i \in 1 .. Len(k) : k[i] = lines[at_[i]] /\ lines[at_[i]] \in MeasuredLines
        /\ \A i, j \in 1 .. Len(k) : i < j => at_[i] < at_[j]
        /\ \A i \in 1 .. Len(lines) : lines[i] \in MeasuredLines => \E j \in 1 .. Len(k) : at_[j] = i
  BY <1>1 DEF IsSelection
<1>3. ToSet(k) = {k[i] : i \in 1 .. Len(k)}
  BY <1>1, MembersOf
<1>4. ASSUME NEW i \in 1 .. Len(k), NEW j \in 1 .. Len(k), k[i].item = k[j].item PROVE i = j
  <2>1. at_[i] = at_[j]
    BY <1>2, <1>4 DEF Unrepeated
  <2>2. ~ (i < j) /\ ~ (j < i)
    BY <1>2, <2>1
  <2> QED BY <2>2
<1>5. \A l \in ToSet(k) : l \in MeasuredLines
  BY <1>2, <1>3
<1>6. ASSUME NEW l \in MeasuredLines PROVE l \in ToSet(k)
  <2>1. PICK i \in 1 .. Len(lines) : l = lines[i]
    BY <1>0 DEF MeasuredLines
  <2>2. PICK j \in 1 .. Len(k) : at_[j] = i
    BY <1>2, <2>1
  <2> QED BY <1>2, <1>3, <2>1, <2>2
<1>7. Unrepeated(k)
  BY <1>4 DEF Unrepeated
<1> QED BY <1>1, <1>5, <1>6, <1>7 DEF MeasuredLines

LEMMA RemainingItems ==
  ASSUME NEW s \in Selections, NEW t, t = Remaining(s)
  PROVE  /\ t \in Seq(Asked) /\ ToSet(t) = ToSet(s) \ Done
         /\ \A i, j \in 1 .. Len(t) : t[i] = t[j] => i = j
<1>1. s \in Seq(ToSet(s)) /\ \A i, j \in 1 .. Len(s) : s[i] = s[j] => i = j
  BY SelectionAssumption
<1>2. t \in Seq(ToSet(s)) /\ t = Filter(s, ToSet(s) \ Done)
  BY <1>1, FilterSelects DEF Remaining
<1>3. /\ \A k \in 1 .. Len(t) : t[k] \in ToSet(s) \ Done
      /\ \A i \in 1 .. Len(s) : s[i] \in ToSet(s) \ Done => \E k \in 1 .. Len(t) : t[k] = s[i]
  <2> DEFINE S == ToSet(s) \ Done
  <2>1. /\ \A k \in 1 .. Len(Filter(s, S)) : Filter(s, S)[k] \in S
        /\ \A i \in 1 .. Len(s) : s[i] \in S =>
             \E k \in 1 .. Len(Filter(s, S)) : Filter(s, S)[k] = s[i]
    <3> HIDE DEF S
    <3> QED BY <1>1, FilterMembers
  <2> QED BY <1>2, <2>1
<1>4. \A i, j \in 1 .. Len(t) : t[i] = t[j] => i = j
  BY <1>1, <1>2, FilterDistinct
<1>5. ToSet(t) = {t[i] : i \in 1 .. Len(t)} /\ ToSet(s) = {s[i] : i \in 1 .. Len(s)}
  BY <1>1, <1>2, MembersOf
<1>6. ToSet(t) = ToSet(s) \ Done
  BY <1>3, <1>5
<1>7. ToSet(s) \subseteq Asked
  BY DEF Asked
<1>8. t \in Seq(Asked)
  BY <1>2, <1>7
<1> QED BY <1>4, <1>6, <1>8

LEMMA InvokeKeeps ==
  ASSUME BaselineInv, NEW s \in Selections, Invoke(s)
  PROVE  BaselineInv'
<1>0. /\ kept' = Filter(baseline.lines, MeasuredLines) /\ todo' = Remaining(s)
      /\ selection' = s /\ UNCHANGED <<baseline, everMeasured, cutRewrite>>
      /\ at' = IF kept' # baseline.lines THEN "rewrite" ELSE Selected(s, todo')
  BY DEF Invoke
<1>1. baseline.lines \in Seq(Entry) /\ Unrepeated(baseline.lines)
  BY DEF BaselineInv, LedgerInv
<1>2. /\ kept' \in Seq(Entry) /\ Unrepeated(kept')
      /\ ToSet(kept') = MeasuredLines /\ \A l \in ToSet(kept') : l.outcome.measured
  BY <1>0, <1>1, KeptMeasured
<1>3. /\ todo' \in Seq(Asked) /\ ToSet(todo') = ToSet(s) \ Done
      /\ \A i, j \in 1 .. Len(todo') : todo'[i] = todo'[j] => i = j
  BY <1>0, RemainingItems
<1>4. Done' = Done /\ MeasuredLines' = MeasuredLines
  BY <1>0 DEF Done, MeasuredLines
<1>5. LedgerInv'
  BY <1>0, <1>2, <1>3, <1>4 DEF BaselineInv, LedgerInv, Unrepeated
<1>6. ItemsOf(kept') = Done
  BY <1>2 DEF ItemsOf, Done
<1>7. /\ ToSet(todo') \cap ItemsOf(kept') = {}
      /\ ToSet(selection') \subseteq ItemsOf(kept') \cup ToSet(todo')
  BY <1>0, <1>3, <1>6
<1>8. CASE kept' # baseline.lines
  <2>1. at' = "rewrite"
    BY <1>0, <1>8
  <2> QED BY <1>2, <1>3, <1>4, <1>5, <1>7, <2>1 DEF BaselineInv, ProgressInv, Unfinished, ItemsOf
<1>9. CASE kept' = baseline.lines
  <2>1. at' = Selected(s, todo')
    BY <1>0, <1>9
  <2>2. CASE at' = "off"
    BY <1>5, <2>2 DEF BaselineInv, ProgressInv
  <2>3. CASE at' = "completed"
    <3>1. todo' = <<>>
      BY <2>1, <2>3 DEF Selected
    <3>2. ToSet(todo') = {}
      BY <3>1, NoMembers
    <3>3. ToSet(selection') \subseteq ItemsOf(baseline.lines)
      BY <1>7, <1>9, <3>2
    <3>4. Opens(kept', baseline.lines)
      BY <1>9, <1>1 DEF Opens
    <3> QED BY <1>0, <1>5, <2>3, <3>3, <3>4 DEF BaselineInv, ProgressInv, ItemsOf, Opens
  <2>4. CASE at' = "open"
    <3>1. todo' # <<>>
      BY <2>1, <2>4 DEF Selected
    <3> QED BY <1>0, <1>3, <1>5, <1>7, <1>9, <2>4, <3>1
            DEF BaselineInv, ProgressInv, Unfinished, ItemsOf
  <2> QED BY <2>1, <2>2, <2>3, <2>4 DEF Selected
<1> QED BY <1>8, <1>9

LEMMA RewriteKeeps ==
  ASSUME BaselineInv, Rewrite
  PROVE  BaselineInv'
<1>0. /\ at = "rewrite" /\ baseline' = [baseline EXCEPT !.lines = kept]
      /\ at' = Selected(selection, todo)
      /\ UNCHANGED <<kept, todo, selection, everMeasured, cutRewrite>>
  BY DEF Rewrite
<1>1. /\ baseline \in [exists : BOOLEAN, lines : Seq(Entry), torn : BOOLEAN]
      /\ kept \in Seq(Entry) /\ todo \in Seq(Asked) /\ Unrepeated(kept)
      /\ \A l \in ToSet(kept) : l.outcome.measured
      /\ ToSet(kept) = MeasuredLines /\ Unfinished(kept)
  BY <1>0 DEF BaselineInv, LedgerInv, ProgressInv
<1>2. /\ baseline' \in [exists : BOOLEAN, lines : Seq(Entry), torn : BOOLEAN]
      /\ baseline'.lines = kept
  BY <1>0, <1>1
<1>3. MeasuredLines' = MeasuredLines /\ Done' = Done
  BY <1>1, <1>2 DEF MeasuredLines, Done
<1>4. LedgerInv'
  BY <1>0, <1>1, <1>2, <1>3 DEF BaselineInv, LedgerInv, Unrepeated
<1>5. CASE at' = "off"
  BY <1>4, <1>5 DEF BaselineInv, ProgressInv
<1>6. CASE at' = "completed"
  <2>1. todo = <<>>
    BY <1>0, <1>6 DEF Selected
  <2>2. ToSet(todo) = {}
    BY <2>1, NoMembers
  <2>3. ToSet(selection') \subseteq ItemsOf(kept)
    BY <1>0, <1>1, <2>2 DEF Unfinished
  <2>4. Opens(kept, kept)
    BY <1>1 DEF Opens
  <2> QED BY <1>0, <1>2, <1>4, <1>6, <2>3, <2>4 DEF BaselineInv, ProgressInv, ItemsOf, Opens
<1>7. CASE at' = "open"
  <2>1. todo # <<>>
    BY <1>0, <1>7 DEF Selected
  <2>2. Unfinished(kept)'
    BY <1>0, <1>1, <2>1 DEF Unfinished, ItemsOf
  <2> QED BY <1>0, <1>2, <1>4, <1>7, <2>2 DEF BaselineInv, ProgressInv
<1> QED BY <1>0, <1>5, <1>6, <1>7 DEF Selected

LEMMA OpenLedgerKeeps ==
  ASSUME BaselineInv, OpenLedger
  PROVE  BaselineInv'
<1>0. /\ at = "open" /\ at' = "items"
      /\ baseline' = [exists |-> TRUE, torn |-> FALSE,
                      lines |-> IF kept = <<>> THEN <<>> ELSE baseline.lines]
      /\ UNCHANGED <<kept, todo, selection, everMeasured, cutRewrite>>
  BY DEF OpenLedger
<1>1. /\ baseline.lines \in Seq(Entry) /\ kept \in Seq(Entry)
      /\ baseline.lines = kept /\ Unfinished(kept)
  BY <1>0 DEF BaselineInv, LedgerInv, ProgressInv
<1>2. baseline'.lines = baseline.lines
  BY <1>0, <1>1
<1>3. baseline' \in [exists : BOOLEAN, lines : Seq(Entry), torn : BOOLEAN]
  BY <1>0, <1>1
<1>4. MeasuredLines' = MeasuredLines /\ Done' = Done
  BY <1>2 DEF MeasuredLines, Done
<1>5. LedgerInv'
  BY <1>0, <1>2, <1>3, <1>4 DEF BaselineInv, LedgerInv, Unrepeated
<1>6. Opens(kept, baseline.lines)
  BY <1>1 DEF Opens
<1> QED BY <1>0, <1>1, <1>2, <1>5, <1>6 DEF BaselineInv, ProgressInv, Unfinished, ItemsOf, Opens

LEMMA RunItemKeeps ==
  ASSUME BaselineInv, NEW outcome \in Outcomes, RunItem(outcome)
  PROVE  BaselineInv'
<1> DEFINE lines == baseline.lines  entry == [item |-> Head(todo), outcome |-> outcome]
<1>0. /\ at = "items" /\ baseline' = [baseline EXCEPT !.lines = Append(lines, entry)]
      /\ everMeasured' = IF outcome.measured THEN everMeasured \cup {Head(todo)} ELSE everMeasured
      /\ todo' = Tail(todo) /\ at' = IF todo' = <<>> THEN "completed" ELSE "items"
      /\ UNCHANGED <<kept, selection, cutRewrite>>
  BY DEF RunItem
<1>1. /\ baseline \in [exists : BOOLEAN, lines : Seq(Entry), torn : BOOLEAN]
      /\ lines \in Seq(Entry) /\ kept \in Seq(Entry) /\ todo \in Seq(Asked)
      /\ Unrepeated(lines) /\ Opens(kept, lines) /\ Unfinished(lines) /\ todo # <<>>
      /\ cutRewrite \/ everMeasured \subseteq Done
  BY <1>0 DEF BaselineInv, LedgerInv, ProgressInv, Unfinished
<1>2. PICK n \in Nat : n = Len(lines)
  BY <1>1
<1>3. PICK m \in Nat : Len(todo) = m + 1
  <2>1. Len(todo) # 0 /\ Len(todo) \in Nat
    BY <1>1, EmptySeq
  <2>2. Len(todo) - 1 \in Nat /\ Len(todo) = Len(todo) - 1 + 1
    BY <2>1
  <2> QED BY <2>2
<1>4. /\ todo' \in Seq(Asked) /\ Len(todo') = m /\ \A i \in 1 .. m : todo'[i] = todo[i + 1]
      /\ Head(todo) = todo[1] /\ Head(todo) \in Asked
  BY <1>0, <1>1, <1>3
<1>5. PICK e \in Entry : e = entry /\ e.item = todo[1] /\ e.outcome = outcome
  <2>1. entry \in Entry /\ entry.item = todo[1] /\ entry.outcome = outcome
    BY <1>4 DEF Entry
  <2> QED BY <2>1
<1>6. PICK after \in Seq(Entry) : after = Append(lines, e)
  <2>1. Append(lines, e) \in Seq(Entry)
    BY <1>1, <1>5
  <2> QED BY <2>1
<1>7. Len(after) = n + 1 /\ after[n + 1] = e /\ \A i \in 1 .. n : after[i] = lines[i]
  BY <1>1, <1>2, <1>6
<1>8. /\ baseline' \in [exists : BOOLEAN, lines : Seq(Entry), torn : BOOLEAN]
      /\ baseline'.lines = after
  BY <1>0, <1>1, <1>5, <1>6
<1>9. /\ ToSet(after) = {after[i] : i \in 1 .. n + 1} /\ ToSet(lines) = {lines[i] : i \in 1 .. n}
      /\ ToSet(todo) = {todo[i] : i \in 1 .. m + 1} /\ ToSet(todo') = {todo'[i] : i \in 1 .. m}
  <2>1. ToSet(after) = {after[i] : i \in 1 .. Len(after)}
    BY DEF ToSet
  <2>2. ToSet(lines) = {lines[i] : i \in 1 .. Len(lines)}
    BY <1>1, MembersOf
  <2>3. ToSet(todo) = {todo[i] : i \in 1 .. Len(todo)}
    BY <1>1, MembersOf
  <2>4. ToSet(todo') = {todo'[i] : i \in 1 .. Len(todo')}
    BY <1>4, MembersOf
  <2> QED BY <1>2, <1>3, <1>4, <1>7, <2>1, <2>2, <2>3, <2>4
<1>10. ToSet(after) = ToSet(lines) \cup {e}
  <2>1. \A i \in 1 .. n + 1 : i \in 1 .. n \/ i = n + 1
    OBVIOUS
  <2>2. \A i \in 1 .. n : i \in 1 .. n + 1
    OBVIOUS
  <2> QED BY <1>7, <1>9, <2>1, <2>2
<1>11. ToSet(todo) = ToSet(todo') \cup {todo[1]}
  <2>0. \A i \in 1 .. m + 1 : i = 1 \/ (i - 1 \in 1 .. m /\ i - 1 + 1 = i)
    OBVIOUS
  <2>1. \A i \in 1 .. m + 1 : i = 1 \/ (i - 1 \in 1 .. m /\ todo'[i - 1] = todo[i])
    BY <1>4, <2>0
  <2>2. \A i \in 1 .. m : i + 1 \in 1 .. m + 1
    OBVIOUS
  <2>3. 1 \in 1 .. m + 1
    OBVIOUS
  <2>4. \A x : x \in ToSet(todo) => x \in ToSet(todo') \/ x = todo[1]
    BY <1>9, <2>1
  <2>5. \A x : x \in ToSet(todo') \/ x = todo[1] => x \in ToSet(todo)
    BY <1>4, <1>9, <2>2, <2>3
  <2> QED BY <2>4, <2>5
<1>12. todo[1] \notin ToSet(todo')
  <2>1. \A i \in 1 .. m : todo[i + 1] # todo[1]
    BY <1>1, <1>3 DEF Unfinished
  <2> QED BY <1>4, <1>9, <2>1
<1>13. ItemsOf(after) = ItemsOf(lines) \cup {todo[1]}
  BY <1>5, <1>10 DEF ItemsOf
<1>14. todo[1] \notin ItemsOf(lines)
  BY <1>1, <1>11 DEF Unfinished
<1>15. Unrepeated(after)
  <2> SUFFICES ASSUME NEW i \in 1 .. n + 1, NEW j \in 1 .. n + 1, after[i].item = after[j].item
               PROVE  i = j
    BY <1>7 DEF Unrepeated
  <2>1. \A k \in 1 .. n : after[k].item # todo[1]
    BY <1>7, <1>9, <1>14 DEF ItemsOf
  <2>2. CASE i = n + 1 \/ j = n + 1
    BY <1>5, <1>7, <2>1, <2>2
  <2>3. CASE i \in 1 .. n /\ j \in 1 .. n
    BY <1>1, <1>2, <1>7, <2>3 DEF Unrepeated
  <2> QED BY <2>2, <2>3
<1>16. Opens(kept, after)
  <2>1. /\ Len(kept) \in Nat /\ Len(kept) <= n
        /\ \A i \in 1 .. Len(kept) : lines[i] = kept[i]
    BY <1>1, <1>2 DEF Opens
  <2>2. \A i \in 1 .. Len(kept) : i \in 1 .. n
    BY <2>1
  <2>3. \A i \in 1 .. Len(kept) : after[i] = kept[i]
    BY <1>7, <2>1, <2>2
  <2>4. Len(kept) <= Len(after)
    BY <1>7, <2>1
  <2> QED BY <2>3, <2>4 DEF Opens
<1>17. Done' = IF outcome.measured THEN Done \cup {todo[1]} ELSE Done
  BY <1>5, <1>8, <1>10 DEF Done, MeasuredLines
<1>18. LedgerInv'
  BY <1>0, <1>1, <1>4, <1>8, <1>15, <1>17 DEF BaselineInv, LedgerInv, Unrepeated
<1>19. ToSet(selection') \subseteq ItemsOf(after) \cup ToSet(todo')
  BY <1>0, <1>1, <1>11, <1>13 DEF Unfinished
<1>20. CASE todo' = <<>>
  <2>1. ToSet(todo') = {}
    BY <1>20, NoMembers
  <2> QED BY <1>0, <1>8, <1>16, <1>18, <1>19, <1>20, <2>1
          DEF BaselineInv, ProgressInv, ItemsOf, Opens
<1>21. CASE todo' # <<>>
  <2>1. \A i, j \in 1 .. m : todo'[i] = todo'[j] => i = j
    BY <1>1, <1>3, <1>4 DEF Unfinished
  <2>2. ToSet(todo') \cap ItemsOf(after) = {}
    BY <1>1, <1>11, <1>12, <1>13 DEF Unfinished
  <2>3. Unfinished(baseline.lines)'
    BY <1>4, <1>8, <1>19, <1>21, <2>1, <2>2 DEF Unfinished, ItemsOf
  <2> QED BY <1>0, <1>8, <1>16, <1>18, <1>21, <2>3 DEF BaselineInv, ProgressInv, Opens
<1> QED BY <1>20, <1>21

LEMMA InterruptKeeps ==
  ASSUME BaselineInv,
         \/ \E n \in 0 .. Len(Item), torn \in BOOLEAN : InterruptRewrite(n, torn)
         \/ \E torn \in BOOLEAN : InterruptItem(torn)
         \/ Repair
  PROVE  BaselineInv'
<1>0. /\ baseline \in [exists : BOOLEAN, lines : Seq(Entry), torn : BOOLEAN]
      /\ kept \in Seq(Entry) /\ todo \in Seq(Asked) /\ Unrepeated(kept)
  BY DEF BaselineInv, LedgerInv
<1>1. ASSUME NEW n \in 0 .. Len(Item), NEW torn \in BOOLEAN, InterruptRewrite(n, torn)
      PROVE  BaselineInv'
  <2>0. /\ baseline' = [exists |-> TRUE, lines |-> SubSeq(kept, 1, n), torn |-> torn]
        /\ cutRewrite' = TRUE /\ at' = "off" /\ n < Len(kept)
        /\ UNCHANGED <<kept, todo, selection, everMeasured>>
    BY <1>1 DEF InterruptRewrite, Interrupted
  <2>1. n \in Nat /\ Len(kept) \in Nat
    BY <1>0, SelectionAssumption
  <2>2. PICK cut \in Seq(Entry) : cut = SubSeq(kept, 1, n)
    <3>1. SubSeq(kept, 1, n) \in Seq(Entry)
      BY <1>0, <2>0, <2>1
    <3> QED BY <3>1
  <2>3. Len(cut) = n /\ \A i \in 1 .. n : cut[i] = kept[i]
    BY <1>0, <2>0, <2>1, <2>2
  <2>4. Unrepeated(cut)
    <3>1. \A i \in 1 .. n : i \in 1 .. Len(kept)
      BY <2>0, <2>1
    <3> QED BY <1>0, <2>3, <3>1 DEF Unrepeated
  <2>5. baseline' \in [exists : BOOLEAN, lines : Seq(Entry), torn : BOOLEAN] /\ baseline'.lines = cut
    BY <2>0, <2>2
  <2>6. Unrepeated(baseline'.lines) /\ Unrepeated(kept')
    BY <1>0, <2>0, <2>4, <2>5
  <2>7. \A l \in ToSet(kept') : l.outcome.measured
    BY <2>0 DEF BaselineInv, LedgerInv
  <2> QED BY <1>0, <2>0, <2>5, <2>6, <2>7 DEF BaselineInv, LedgerInv, ProgressInv
<1>2. ASSUME NEW torn \in BOOLEAN, InterruptItem(torn) PROVE BaselineInv'
  <2>0. /\ baseline' = IF at = "items" THEN [baseline EXCEPT !.torn = torn] ELSE baseline
        /\ at' = "off" /\ UNCHANGED <<kept, todo, selection, everMeasured, cutRewrite>>
    BY <1>2 DEF InterruptItem, Interrupted
  <2>1. /\ baseline' \in [exists : BOOLEAN, lines : Seq(Entry), torn : BOOLEAN]
        /\ baseline'.lines = baseline.lines
    BY <1>0, <2>0
  <2> QED BY <2>0, <2>1 DEF BaselineInv, LedgerInv, ProgressInv, Unrepeated, Done, MeasuredLines
<1>3. CASE Repair
  <2>0. /\ baseline' = [baseline EXCEPT !.torn = FALSE] /\ at = "off"
        /\ UNCHANGED <<at, kept, todo, selection, everMeasured, cutRewrite>>
    BY <1>3 DEF Repair
  <2>1. /\ baseline' \in [exists : BOOLEAN, lines : Seq(Entry), torn : BOOLEAN]
        /\ baseline'.lines = baseline.lines
    BY <1>0, <2>0
  <2> QED BY <2>0, <2>1 DEF BaselineInv, LedgerInv, ProgressInv, Unrepeated, Done, MeasuredLines
<1> QED BY <1>1, <1>2, <1>3

(* The inductive invariant of the ledger without a lock                    *)
(* (run_direct_generation_baseline.py:203-279).                            *)
THEOREM BaselineInductive == ESpec => []BaselineInv
<1>1. BInit => BaselineInv
  <2> SUFFICES ASSUME BInit PROVE BaselineInv
    OBVIOUS
  <2>1. <<>> \in Seq(Entry) /\ <<>> \in Seq(Asked) /\ Len(<<>>) = 0 /\ ToSet(<<>>) = {}
    BY DEF ToSet
  <2>2. baseline \in [exists : BOOLEAN, lines : Seq(Entry), torn : BOOLEAN] /\ baseline.lines = <<>>
    BY <2>1 DEF BInit, Absent
  <2> QED BY <2>1, <2>2 DEF BInit, BaselineInv, LedgerInv, ProgressInv, Unrepeated
<1>2. BaselineInv /\ [ENext]_evars => BaselineInv'
  <2> SUFFICES ASSUME BaselineInv, [ENext]_evars PROVE BaselineInv'
    OBVIOUS
  <2>1. CASE BNext
    BY <2>1, InvokeKeeps, RewriteKeeps, OpenLedgerKeeps, RunItemKeeps, InterruptKeeps
       DEF BNext, BStep, BFault
  <2>2. CASE UNCHANGED bvars
    BY <2>2 DEF bvars, BaselineInv, LedgerInv, ProgressInv, Unfinished, Unrepeated, Done,
                MeasuredLines, ItemsOf, Opens
  <2> QED BY <2>1, <2>2 DEF ENext, evars
<1> QED BY <1>1, <1>2, PTL DEF ESpec, EInit

(* However often a run is stopped and resumed: no item has two records, a  *)
(* completed run leaves one of each of its items, and only a rewrite that  *)
(* was cut short can lose a measured one                                   *)
(* (run_direct_generation_baseline.py:219-262).                            *)
THEOREM ResumeMeasuresOnceCorrect == ESpec => []ResumeMeasuresOnce
<1>1. BaselineInv => ResumeMeasuresOnce
  <2> SUFFICES ASSUME BaselineInv PROVE ResumeMeasuresOnce
    OBVIOUS
  <2>1. /\ baseline.lines \in Seq(Entry) /\ kept \in Seq(Entry) /\ Unrepeated(baseline.lines)
        /\ (cutRewrite \/ everMeasured \subseteq Done) /\ \A l \in ToSet(kept) : l.outcome.measured
    BY DEF BaselineInv, LedgerInv
  <2>2. DOMAIN baseline.lines = 1 .. Len(baseline.lines)
    BY <2>1
  <2>3. ASSUME at = "completed"
        PROVE  /\ ToSet(selection) \subseteq {l.item : l \in ToSet(baseline.lines)}
               /\ kept = SubSeq(baseline.lines, 1, Len(kept))
    <3>1. Opens(kept, baseline.lines) /\ ToSet(selection) \subseteq ItemsOf(baseline.lines)
      BY <2>3 DEF BaselineInv, ProgressInv
    <3>2. PICK n \in Nat : n = Len(kept) /\ n <= Len(baseline.lines)
      BY <2>1, <3>1 DEF Opens
    <3>3. PICK cut \in Seq(Entry) : cut = SubSeq(baseline.lines, 1, n)
      <4>1. SubSeq(baseline.lines, 1, n) \in Seq(Entry)
        BY <2>1, <3>2
      <4> QED BY <4>1
    <3>4. Len(cut) = n /\ \A i \in 1 .. n : cut[i] = baseline.lines[i]
      BY <2>1, <3>2, <3>3
    <3>5. \A i \in 1 .. n : cut[i] = kept[i]
      BY <3>1, <3>2, <3>4 DEF Opens
    <3>6. cut = kept
      BY <2>1, <3>2, <3>4, <3>5
    <3> QED BY <3>1, <3>2, <3>3, <3>6 DEF ItemsOf
  <2> QED BY <2>1, <2>2, <2>3 DEF ResumeMeasuresOnce, Unrepeated
<1> QED BY <1>1, BaselineInductive, PTL

-----------------------------------------------------------------------------
(* The theorem about the generators holds of the composition.              *)
THEOREM OnlySoundNetworks == ESpec => []GenerationSound
<1>1. EInit => GInit
  BY DEF EInit
<1>2. [ENext]_evars => [GNext]_gvars
  BY DEF ENext, evars
<1>3. QED
  BY <1>1, <1>2, GenerationSoundCorrect, PTL DEF ESpec, GSpec
=============================================================================
