-------------------------- MODULE ExperimentLedger --------------------------
(***************************************************************************)
(* Experiment runners that share a raw ledger.  A runner reads the ledger  *)
(* once, without the lock, to learn what is completed, then works through  *)
(* its keys; each append takes the file lock, reads the ledger again and   *)
(* writes one line.  A line is longer than one write to the file may be,   *)
(* so that an unlocked reader, or whoever comes after a crash, may find    *)
(* only its beginning.                                                     *)
(***************************************************************************)
EXTENDS Integers, Sequences, FiniteSets

CONSTANTS
  Runner,      \* processes that run the experiment matrix
  Key,         \* request, topology, system, model and seed of a record
  Work,        \* the keys of each runner's matrix, in the order of its loops
  MaxCrashes,  \* bound on crashes, counting append errors such as a full disk
  MaxRuns      \* bound on how often a command is started

Nobody == "nobody"

(* request IDs, system/model pairs and seeds are distinct.                 *)
ASSUME WorkAssumption ==
  /\ Nobody \notin Runner
  /\ Work \in [Runner -> Seq(Key)]
  /\ \A r \in Runner : \A i, j \in 1 .. Len(Work[r]) :
        Work[r][i] = Work[r][j] => i = j

ASSUME BoundAssumption == MaxCrashes \in Nat /\ MaxRuns \in Nat \ {0}

VARIABLES
  file,       \* the ledger: beginnings and ends of records, and newlines
  lock,       \* holder of the exclusive flock
  pc,         \* where each runner is
  next,       \* index of the key of its innermost loop
  completed,  \* its set of completed keys
  written, skipped,   \* its counters
  runs,       \* how often it was started
  crashes     \* how many crashes there were

loop == <<next, completed, written, skipped>>
vars == <<file, lock, pc, loop, runs, crashes>>

Parts == {"begin", "end", "newline"}
key(r) == Work[r][next[r]]

Begins == {i \in 1 .. Len(file) : file[i][1] = "begin"}
Recorded == {file[i][2] : i \in Begins}

(* Records that do not read: cut short, or on one line with another record, *)
(* which takes both with it.  One that only lacks its newline still reads. *)
Damaged ==
  {i \in Begins : \/ i > 1 /\ file[i - 1][1] # "newline"
                  \/ i = Len(file)
                  \/ file[i + 1][1] # "end"
                  \/ i + 2 <= Len(file) /\ file[i + 2][1] # "newline"}

(* Every line is blank or one JSON object.                                 *)
Readable == Damaged = {}

Duplicated == \E i, j \in Begins : i # j /\ file[i] = file[j]

Init ==
  /\ file = <<>>
  /\ lock = Nobody
  /\ pc = [r \in Runner |-> "load"]
  /\ next = [r \in Runner |-> 1]
  /\ completed = [r \in Runner |-> {}]
  /\ written = [r \in Runner |-> 0]
  /\ skipped = [r \in Runner |-> 0]
  /\ runs = [r \in Runner |-> 1]
  /\ crashes = 0

-----------------------------------------------------------------------------
(* run_experiment_matrix.                                                  *)

(* Mutation of Load: completed holds the records, not their keys.          *)
LoadRecords(r) ==
  /\ pc[r] = "load"
  /\ Readable
  /\ pc' = [pc EXCEPT ![r] = "loop"]
  /\ completed' = [completed EXCEPT ![r] = {file[i] : i \in Begins}]
  /\ UNCHANGED <<file, lock, next, written, skipped, runs, crashes>>

(* load_experiment_records takes no lock.                                  *)
Load(r) ==
  /\ pc[r] = "load"
  /\ IF Readable /\ ~ Duplicated
     THEN /\ pc' = [pc EXCEPT ![r] = "loop"]
          /\ completed' = [completed EXCEPT ![r] = Recorded]
     ELSE pc' = [pc EXCEPT ![r] = "refused"] /\ UNCHANGED completed
  /\ UNCHANGED <<file, lock, next, written, skipped, runs, crashes>>

SkipCompleted(r) ==
  /\ pc[r] = "loop"
  /\ next[r] <= Len(Work[r])
  /\ key(r) \in completed[r]
  /\ skipped' = [skipped EXCEPT ![r] = @ + 1]
  /\ next' = [next EXCEPT ![r] = @ + 1]
  /\ UNCHANGED <<file, lock, pc, completed, written, runs, crashes>>

(* Mutation of RunSystem: the key counts as completed when it is run.      *)
RunSystemCompletes(r) ==
  /\ pc[r] = "loop"
  /\ next[r] <= Len(Work[r])
  /\ key(r) \notin completed[r]
  /\ completed' = [completed EXCEPT ![r] = @ \cup {key(r)}]
  /\ pc' = [pc EXCEPT ![r] = "loop"]
  /\ UNCHANGED <<file, lock, next, written, skipped, runs, crashes>>

(* system.run; what it raises becomes the record of a failure.             *)
RunSystem(r) ==
  /\ pc[r] = "loop"
  /\ next[r] <= Len(Work[r])
  /\ key(r) \notin completed[r]
  /\ pc' = [pc EXCEPT ![r] = "append"]
  /\ UNCHANGED <<file, lock, loop, runs, crashes>>

Return(r) ==
  /\ pc[r] = "loop"
  /\ next[r] > Len(Work[r])
  /\ pc' = [pc EXCEPT ![r] = "returned"]
  /\ UNCHANGED <<file, lock, loop, runs, crashes>>

-----------------------------------------------------------------------------
(* _append_record.                                                         *)

(* The key was recorded by someone since the ledger was loaded.            *)
AppendNothing(r) ==
  /\ pc[r] = "append"
  /\ lock = Nobody
  /\ Readable /\ ~ Duplicated
  /\ key(r) \in Recorded
  /\ skipped' = [skipped EXCEPT ![r] = @ + 1]
  /\ completed' = [completed EXCEPT ![r] = @ \cup {key(r)}]
  /\ next' = [next EXCEPT ![r] = @ + 1]
  /\ pc' = [pc EXCEPT ![r] = "loop"]
  /\ UNCHANGED <<file, lock, written, runs, crashes>>

AppendRefused(r) ==
  /\ pc[r] = "append"
  /\ lock = Nobody
  /\ ~ Readable \/ Duplicated
  /\ pc' = [pc EXCEPT ![r] = "refused"]
  /\ UNCHANGED <<file, lock, loop, runs, crashes>>

(* Mutations of BeginAppend: the lock is shared, or the keys recorded      *)
(* since the load are not looked at.                                       *)
BeginAppendShared(r) ==
  /\ pc[r] = "append"
  /\ key(r) \notin Recorded
  /\ lock' = r
  /\ pc' = [pc EXCEPT ![r] = "write"]
  /\ UNCHANGED <<file, loop, runs, crashes>>

BeginAppendUnchecked(r) ==
  /\ pc[r] = "append"
  /\ lock = Nobody
  /\ lock' = r
  /\ pc' = [pc EXCEPT ![r] = "write"]
  /\ UNCHANGED <<file, loop, runs, crashes>>

BeginAppend(r) ==
  /\ pc[r] = "append"
  /\ lock = Nobody
  /\ Readable /\ ~ Duplicated
  /\ key(r) \notin Recorded
  /\ lock' = r
  /\ pc' = [pc EXCEPT ![r] = "write"]
  /\ UNCHANGED <<file, loop, runs, crashes>>

(* The part of r's line that the next write to the file puts at its end.   *)
PartWritten(r) ==
  CASE pc[r] = "write" -> "begin"
    [] pc[r] = "write_end" -> "end"
    [] pc[r] = "write_newline" -> "newline"

WritePart(r) ==
  /\ pc[r] \in {"write", "write_end"}
  /\ file' = Append(file, <<PartWritten(r), key(r)>>)
  /\ pc' = [pc EXCEPT ![r] = IF pc[r] = "write" THEN "write_end"
                                                ELSE "write_newline"]
  /\ UNCHANGED <<lock, loop, runs, crashes>>

(* The newline, fsync, and the handle is closed, which drops the lock.     *)
FinishAppend(r) ==
  /\ pc[r] = "write_newline"
  /\ file' = Append(file, <<PartWritten(r), key(r)>>)
  /\ lock' = Nobody
  /\ written' = [written EXCEPT ![r] = @ + 1]
  /\ completed' = [completed EXCEPT ![r] = @ \cup {key(r)}]
  /\ next' = [next EXCEPT ![r] = @ + 1]
  /\ pc' = [pc EXCEPT ![r] = "loop"]
  /\ UNCHANGED <<skipped, runs, crashes>>

-----------------------------------------------------------------------------
(* The environment.                                                        *)

Ended == {"returned", "refused", "crashed"}

(* Mutation of Crash: the lock outlives its holder, like a lock file.      *)
CrashHoldingLock(r) ==
  /\ pc[r] \notin Ended
  /\ crashes < MaxCrashes
  /\ crashes' = crashes + 1
  /\ pc' = [pc EXCEPT ![r] = "crashed"]
  /\ UNCHANGED <<file, lock, loop, runs>>

(* The process is killed, or its append raises; what it wrote stays.       *)
Crash(r) ==
  /\ pc[r] \notin Ended
  /\ crashes < MaxCrashes
  /\ crashes' = crashes + 1
  /\ pc' = [pc EXCEPT ![r] = "crashed"]
  /\ lock' = IF lock = r THEN Nobody ELSE lock
  /\ UNCHANGED <<file, loop, runs>>

(* The same command again.                                                 *)
Rerun(r) ==
  /\ pc[r] \in Ended
  /\ runs[r] < MaxRuns
  /\ runs' = [runs EXCEPT ![r] = @ + 1]
  /\ pc' = [pc EXCEPT ![r] = "load"]
  /\ next' = [next EXCEPT ![r] = 1]
  /\ completed' = [completed EXCEPT ![r] = {}]
  /\ written' = [written EXCEPT ![r] = 0]
  /\ skipped' = [skipped EXCEPT ![r] = 0]
  /\ UNCHANGED <<file, lock, crashes>>

-----------------------------------------------------------------------------

Step(r) ==
  \/ Load(r) \/ SkipCompleted(r) \/ RunSystem(r) \/ Return(r)
  \/ AppendNothing(r) \/ AppendRefused(r) \/ BeginAppend(r)
  \/ WritePart(r) \/ FinishAppend(r)

Next == \E r \in Runner : Step(r) \/ Crash(r) \/ Rerun(r)

(* A process that can go on does; nothing makes it crash or start again.   *)
Spec == Init /\ [][Next]_vars /\ \A r \in Runner : WF_vars(Step(r))

-----------------------------------------------------------------------------

(* Type correctness of the runners' state.                                 *)
TypeOK ==
  /\ file \in Seq(Parts \X Key)
  /\ lock \in Runner \cup {Nobody}
  /\ pc \in [Runner -> Ended \cup {"load", "loop", "append", "write",
                                   "write_end", "write_newline"}]
  /\ next \in [Runner -> Nat \ {0}]
  /\ completed \in [Runner -> SUBSET Key]
  /\ written \in [Runner -> Nat] /\ skipped \in [Runner -> Nat]
  /\ runs \in [Runner -> 1 .. MaxRuns]
  /\ crashes \in 0 .. MaxCrashes

(* However runners overlap, crash and start again on stale knowledge, no   *)
(* key is recorded twice.                                                  *)
RecordedOnce == ~ Duplicated

(* Appends of several runners never mix on a line: as long as nobody has   *)
(* crashed, the ledger is readable whenever the lock is free.              *)
OnlyCrashesDamage == crashes = 0 /\ lock = Nobody => Readable

LastLine ==
  {i \in 1 .. Len(file) :
     \A j \in i .. Len(file) - 1 : file[j][1] # "newline"}

(* Whatever is cut short by crashes, the runners do not build on it: every *)
(* line but the last reads, and the last holds at most two records, one    *)
(* cut in front of its newline and the one that was put behind it.         *)
OneLineDamaged == Damaged \subseteq LastLine /\ Cardinality(Damaged) <= 2

(* A runner that returns has accounted for each of its keys, believes all  *)
(* of them completed, and each of them was put into the ledger, be it its  *)
(* own record, one it found, or one another runner wrote meanwhile.  A     *)
(* crash may since have spoilt the line it is on (OneLineDamaged).         *)
ReturnedAllRecorded ==
  \A r \in Runner : pc[r] = "returned" =>
    LET keys == {Work[r][i] : i \in 1 .. Len(Work[r])}
    IN  /\ written[r] + skipped[r] = Len(Work[r])
        /\ keys \subseteq completed[r] \cap Recorded

(* Every started run ends, also when a runner crashed with the lock.       *)
RunsEnd == \A r \in Runner : []<>(pc[r] \in Ended)

(* docs/frozen_test_v2_evaluation.md:79: the ledgers are resumable, and    *)
(* rerunning the same command skips completed keys.                        *)
RerunNotRefused == \A r \in Runner : runs[r] > 1 => pc[r] # "refused"

-----------------------------------------------------------------------------
(* The invariant these rest on.                                            *)

Writing == {"write", "write_end", "write_newline"}

LockInv == \A r \in Runner : pc[r] \in Writing <=> lock = r

EndsWith(part) == file # <<>> /\ file[Len(file)][1] = part
OnFreshLine == file = <<>> \/ EndsWith("newline")

FileInv ==
  /\ RecordedOnce
  /\ Damaged \subseteq LastLine
  /\ \E i \in 0 .. Len(file) : Damaged \subseteq {i - 1, i + 1}
  /\ lock = Nobody /\ crashes = 0 => Readable /\ OnFreshLine
  /\ \A r \in Runner : pc[r] = "write" =>
        /\ Readable
        /\ key(r) \notin Recorded
        /\ crashes = 0 => OnFreshLine
  /\ \A r \in Runner : pc[r] = "write_end" =>
        /\ EndsWith("begin")
        /\ crashes = 0 =>
             /\ Damaged = {Len(file)}
             /\ Len(file) > 1 => file[Len(file) - 1][1] = "newline"
  /\ \A r \in Runner : pc[r] = "write_newline" =>
        /\ EndsWith("end")
        /\ crashes = 0 => Readable

CountInv ==
  \A r \in Runner :
    /\ next[r] <= Len(Work[r]) + 1
    /\ pc[r] \in Writing \cup {"append"} => next[r] <= Len(Work[r])
    /\ pc[r] = "returned" => next[r] = Len(Work[r]) + 1
    /\ written[r] + skipped[r] = next[r] - 1
    /\ completed[r] \subseteq Recorded
    /\ \A i \in 1 .. next[r] - 1 : Work[r][i] \in completed[r]
    /\ pc[r] \in {"write_end", "write_newline"} => key(r) \in Recorded

(* The inductive invariant: the file is as the phase of the writer says,   *)
(* and the counters are those of the keys behind the loop index.           *)
IndInv == TypeOK /\ LockInv /\ FileInv /\ CountInv
=============================================================================
