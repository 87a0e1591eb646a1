----------------------------- MODULE Catalogue ------------------------------
(***************************************************************************)
(* A catalogue of generated topologies with their baseline schedules, and  *)
(* the scaling experiment that measures what a catalogue lists.  Both look *)
(* whether what they write is there already, and neither cleans up: what a *)
(* run leaves that fails half-way stays until the operator removes it.     *)
(*                                                                         *)
(* A file is the settings it was generated under and whether someone has   *)
(* edited it since; that is its hash, too.                                 *)
(***************************************************************************)
EXTENDS Integers

CONSTANTS
  Topologies,    \* how many a catalogue lists
  Settings,      \* settings a catalogue may be built under
  MaxFailures,   \* bound on the runs that fail half-way
  MaxFileEdits   \* bound on edited files

ASSUME CatalogueAssumption ==
  Topologies \in Nat \ {0} /\ MaxFailures \in Nat /\ MaxFileEdits \in Nat

Id == 1 .. Topologies
NoFile == <<"no", "file">>
Generated(s) == <<s, "generated">>
Edited(file) == <<file[1], "edited">>

NoList == [listed |-> FALSE]
NoOutputs == [rows |-> <<>>, complete |-> FALSE, exists |-> FALSE]

VARIABLES
  topologies,   \* the topology files
  schedules,    \* the networks the schedule files were computed from
  catalogue,    \* catalogue.json: the settings, and the hashes of the files
  builder,      \* where the build is, and under which settings
  experiment,   \* where the experiment is, the catalogue it has loaded, its rows
  outputs,      \* the files of the experiment
  failures, fileEdits

tvars == <<topologies, schedules, catalogue, builder, experiment, outputs, failures, fileEdits>>

Idle == [at |-> "idle"]

TInit ==
  /\ topologies = [i \in Id |-> NoFile]
  /\ schedules = [i \in Id |-> NoFile]
  /\ catalogue = NoList
  /\ builder = Idle /\ experiment = Idle
  /\ outputs = NoOutputs
  /\ failures = 0 /\ fileEdits = 0

-----------------------------------------------------------------------------
(* build_topology_catalogue.py.                                            *)

StartBuild(s) ==
  /\ builder = Idle /\ experiment = Idle
  /\ catalogue = NoList
  /\ builder' = [at |-> "topology", settings |-> s, next |-> 1, hashes |-> <<>>]
  /\ UNCHANGED <<topologies, schedules, catalogue, experiment, outputs, failures, fileEdits>>

(* A mutation of SaveTopology: a file that is there is not made again.     *)
SaveOrKeep ==
  /\ builder.at = "topology" /\ builder.next \in Id
  /\ topologies' = IF topologies[builder.next] = NoFile
                   THEN [topologies EXCEPT ![builder.next] = Generated(builder.settings)]
                   ELSE topologies
  /\ builder' = [builder EXCEPT !.at = "schedule"]
  /\ UNCHANGED <<schedules, catalogue, experiment, outputs, failures, fileEdits>>

(* Neither file of a topology may be there when it is generated.           *)
SaveTopology ==
  /\ builder.at = "topology" /\ builder.next \in Id
  /\ LET i == builder.next
     IN  IF topologies[i] = NoFile /\ schedules[i] = NoFile
         THEN /\ topologies' = [topologies EXCEPT ![i] = Generated(builder.settings)]
              /\ builder' = [builder EXCEPT !.at = "schedule"]
         ELSE builder' = Idle /\ UNCHANGED topologies
  /\ UNCHANGED <<schedules, catalogue, experiment, outputs, failures, fileEdits>>

(* The schedule is the one of the network in memory; the hash is the one   *)
(* of the file.                                                            *)
SaveSchedule ==
  /\ builder.at = "schedule"
  /\ LET i == builder.next
     IN  /\ schedules' = [schedules EXCEPT ![i] = Generated(builder.settings)]
         /\ builder' = [builder EXCEPT !.at = "topology", !.next = i + 1,
                          !.hashes = [j \in 1 .. i |-> IF j = i THEN topologies[i] ELSE @[j]]]
  /\ UNCHANGED <<topologies, catalogue, experiment, outputs, failures, fileEdits>>

(* The catalogue first, then the part of it for the language benchmark.    *)
WriteCatalogue ==
  /\ builder.at = "topology" /\ builder.next \notin Id
  /\ catalogue' = [listed |-> TRUE, settings |-> builder.settings, hashes |-> builder.hashes]
  /\ builder' = Idle
  /\ UNCHANGED <<topologies, schedules, experiment, outputs, failures, fileEdits>>

-----------------------------------------------------------------------------
(* run_topology_scaling_experiment.py.                                     *)

StartExperiment ==
  /\ builder = Idle /\ experiment = Idle
  /\ catalogue.listed
  /\ experiment' = [at |-> "measure", loaded |-> catalogue, rows |-> <<>>, next |-> 1]
  /\ UNCHANGED <<topologies, schedules, catalogue, builder, outputs, failures, fileEdits>>

(* A file that does not have the hash of the catalogue ends the experiment.*)
Measure ==
  /\ experiment.at = "measure" /\ experiment.next \in Id
  /\ LET i == experiment.next
     IN  experiment' = IF topologies[i] # experiment.loaded.hashes[i] THEN Idle
           ELSE [experiment EXCEPT !.next = i + 1,
                   !.rows = [j \in 1 .. i |-> IF j = i THEN topologies[i] ELSE @[j]]]
  /\ UNCHANGED <<topologies, schedules, catalogue, builder, outputs, failures, fileEdits>>

(* The catalogue is hashed when the last topology is measured; outputs that*)
(* are there, whole or not, are never written over.                        *)
WriteRows ==
  /\ experiment.at = "measure" /\ experiment.next \notin Id
  /\ IF outputs.exists THEN experiment' = Idle /\ UNCHANGED outputs
     ELSE /\ outputs' = [rows |-> experiment.rows, complete |-> FALSE, exists |-> TRUE]
          /\ experiment' = [at |-> "manifest", settings |-> catalogue.settings]
  /\ UNCHANGED <<topologies, schedules, catalogue, builder, failures, fileEdits>>

(* The manifest has the hash that was taken before the rows were written.  *)
WriteManifest ==
  /\ experiment.at = "manifest"
  /\ outputs' = [rows |-> outputs.rows, complete |-> TRUE, exists |-> TRUE,
                 settings |-> experiment.settings]
  /\ experiment' = Idle
  /\ UNCHANGED <<topologies, schedules, catalogue, builder, failures, fileEdits>>

-----------------------------------------------------------------------------

(* A run is killed, a generator gives up, a disk is full.                  *)
BuildFails ==
  /\ builder # Idle
  /\ failures < MaxFailures
  /\ failures' = failures + 1
  /\ builder' = Idle
  /\ UNCHANGED <<topologies, schedules, catalogue, experiment, outputs, fileEdits>>

ExperimentFails ==
  /\ experiment # Idle
  /\ failures < MaxFailures
  /\ failures' = failures + 1
  /\ experiment' = Idle
  /\ UNCHANGED <<topologies, schedules, catalogue, builder, outputs, fileEdits>>

(* The operator removes the directory of a catalogue, or what an experiment*)
(* has left without a manifest, while nothing runs.                        *)
RemoveCatalogue ==
  /\ builder = Idle /\ experiment = Idle
  /\ topologies' = [i \in Id |-> NoFile] /\ schedules' = [i \in Id |-> NoFile]
  /\ catalogue' = NoList
  /\ UNCHANGED <<builder, experiment, outputs, failures, fileEdits>>

RemoveOutputs ==
  /\ experiment = Idle
  /\ outputs.exists /\ ~outputs.complete
  /\ outputs' = NoOutputs
  /\ UNCHANGED <<topologies, schedules, catalogue, builder, experiment, failures, fileEdits>>

(* A topology is edited, also between two steps of an experiment.          *)
EditTopology(i) ==
  /\ builder = Idle
  /\ fileEdits < MaxFileEdits
  /\ fileEdits' = fileEdits + 1
  /\ topologies[i] # NoFile
  /\ topologies' = [topologies EXCEPT ![i] = Edited(@)]
  /\ UNCHANGED <<schedules, catalogue, builder, experiment, outputs, failures>>

TNext ==
  \/ \E s \in Settings : StartBuild(s)
  \/ SaveTopology \/ SaveSchedule \/ WriteCatalogue
  \/ StartExperiment \/ Measure \/ WriteRows \/ WriteManifest
  \/ BuildFails \/ ExperimentFails \/ RemoveCatalogue \/ RemoveOutputs
  \/ \E i \in Id : EditTopology(i)

-----------------------------------------------------------------------------

(* Whatever failed builds of other settings have left and whatever has     *)
(* been edited since: an experiment with a manifest has measured every     *)
(* topology of the catalogue as it was generated under the settings that   *)
(* catalogue names, and the schedule listed beside a topology is its own.  *)
MeasuredAsCatalogued ==
  /\ outputs.complete => outputs.rows = [i \in Id |-> Generated(outputs.settings)]
  /\ catalogue.listed => \A i \in Id : schedules[i] = catalogue.hashes[i]
=============================================================================
