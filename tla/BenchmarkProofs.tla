--------------------------- MODULE BenchmarkProofs ---------------------------
(***************************************************************************)
(* The benchmark, for any batches, reviews, revisions and decisions and    *)
(* any number of runs, crashes, clearings and edits: a seal is the work of *)
(* one run, and a directory is sealed once; a label that is sealed was     *)
(* agreed on blind or decided by a human; and what the experiment runner   *)
(* is given is the sealed set.                                             *)
(***************************************************************************)
EXTENDS BenchmarkProperties, IterationProofs, SequenceTheorems

States == {Absent} \cup {Begun(s) : s \in Sealer} \cup {Whole(s) : s \in Sealer}

SealingType ==
  /\ dir \in [File -> States]
  /\ pc \in [Sealer -> {"ready", "preparing", "prepared", "writing"} \cup Ended]
  /\ place \in [Sealer -> 1 .. 6]
  /\ crashes \in Nat /\ edits \in Nat

(* The files are written in order: before a file that is there stand whole *)
(* files of the same run.                                                  *)
InOrder ==
  \A i, j \in 1 .. 6 :
    i < j /\ dir[Written[j]] # Absent =>
      dir[Written[i]] = Whole(dir[Written[j]].by)

(* A run past its first file has the directory to itself, whichever runs   *)
(* have found it empty as well; they are all at the first file.            *)
OwnPrefix ==
  \A s \in Sealer : pc[s] = "writing" =>
    /\ \A i \in 1 .. 6 : i < place[s] => dir[Written[i]] = Whole(s)
    /\ dir[Current(s)].by = s => dir[Current(s)] = Begun(s)

FreshAtFirst == \A s \in Sealer : pc[s] \in {"ready", "preparing", "prepared"} => place[s] = 1

SealingInv == SealingType /\ InOrder /\ OwnPrefix /\ FreshAtFirst

-----------------------------------------------------------------------------

(* The six files are written one after the other, each once.               *)
LEMMA Sequence ==
  /\ Len(Written) = 6
  /\ \A i \in 1 .. 6 : Written[i] \in File
  /\ \A i, j \in 1 .. 6 : Written[i] = Written[j] => i = j
  /\ \A f \in File : \E i \in 1 .. 6 : Written[i] = f
  /\ Written[6] = "digest" /\ Written[5] = "manifest"
BY DEF Written, File

LEMMA Distinct ==
  ASSUME NEW r \in Sealer, NEW s \in Sealer
  PROVE  /\ Begun(r) # Whole(s) /\ Absent \notin {Begun(s), Whole(s)}
         /\ Begun(s).by = s /\ Whole(s).by = s
         /\ Begun(s).state = "begun" /\ Whole(s).state = "whole"
         /\ Absent.by = Unsealed /\ Absent.state = "absent" /\ s # Unsealed
         /\ Begun(r) = Begun(s) => r = s
         /\ Whole(r) = Whole(s) => r = s
BY SealerAssumption DEF Begun, Whole, Absent

LEMMA InitSealing == Init => SealingInv
BY Sequence DEF Init, SealingInv, SealingType, InOrder, OwnPrefix, FreshAtFirst, States, Current

(* Steps that leave the directory alone.                                   *)
LEMMA Looking ==
  ASSUME SealingInv, NEW s \in Sealer,
         Look(s) \/ Prepare(s) \/ Refuse(s) \/ LookAgain(s) \/ FileExists(s) \/ Crash(s)
  PROVE  SealingInv'
<1> USE DEF SealingInv
<1>1. UNCHANGED <<dir, place, edits>> /\ crashes' \in Nat
  BY DEF Look, Prepare, Refuse, LookAgain, FileExists, Crash, SealingType
<1>2. \E l \in {"preparing", "prepared", "writing"} \cup Ended : pc' = [pc EXCEPT ![s] = l]
  BY DEF Look, Prepare, Refuse, LookAgain, FileExists, Crash, Goto, Ended
<1>3. SealingType'
  BY <1>1, <1>2 DEF SealingType
<1>4. InOrder'
  BY <1>1 DEF InOrder
<1>5. pc'[s] = "writing" => Empty /\ place[s] = 1 /\ pc[s] = "prepared"
  BY DEF Look, Prepare, Refuse, LookAgain, FileExists, Crash, Goto, SealingType, FreshAtFirst
<1>6. ASSUME NEW r \in Sealer, pc'[r] = "writing"
      PROVE  /\ \A i \in 1 .. 6 : i < place[r] => dir[Written[i]] = Whole(r)
             /\ dir[Current(r)].by = r => dir[Current(r)] = Begun(r)
  <2>1. CASE r = s
    <3>1. Empty /\ place[r] = 1
      BY <1>5, <1>6, <2>1
    <3>2. dir[Current(r)] = Absent
      BY <3>1, Sequence DEF Empty, Current
    <3> QED BY <3>1, <3>2, Distinct
  <2>2. CASE r # s
    BY <1>2, <1>6, <2>2 DEF OwnPrefix, SealingType
  <2> QED BY <2>1, <2>2
<1>7. OwnPrefix'
  BY <1>1, <1>6 DEF OwnPrefix, Current
<1>8. FreshAtFirst'
  <2>1. pc'[s] \in {"ready", "preparing", "prepared"} => pc[s] \in {"ready", "preparing", "prepared"}
    BY DEF Look, Prepare, Refuse, LookAgain, FileExists, Crash, Goto, SealingType
  <2> QED BY <1>1, <1>2, <2>1 DEF FreshAtFirst, SealingType
<1> QED BY <1>3, <1>4, <1>7, <1>8

LEMMA Creating ==
  ASSUME SealingInv, NEW s \in Sealer, Create(s)
  PROVE  SealingInv'
<1> USE DEF SealingInv
<1> DEFINE p == place[s]  f == Written[p]
<1>1. /\ pc[s] = "writing" /\ dir[f] = Absent /\ UNCHANGED <<pc, place, crashes, edits>>
      /\ dir' = [dir EXCEPT ![f] = Begun(s)] /\ p \in 1 .. 6 /\ f \in File
  BY Sequence DEF Create, Current, SealingType
<1>2. SealingType'
  BY <1>1 DEF SealingType, States
<1>3. \A i \in 1 .. 6 : i # p => dir'[Written[i]] = dir[Written[i]]
  BY <1>1, Sequence DEF SealingType
<1>4. dir'[f] = Begun(s)
  BY <1>1 DEF SealingType
<1>5. ASSUME NEW i \in 1 .. 6, NEW j \in 1 .. 6, i < j, dir'[Written[j]] # Absent
      PROVE  dir'[Written[i]] = Whole(dir'[Written[j]].by)
  <2>1. CASE j = p
    BY <1>1, <1>3, <1>4, <1>5, <2>1, Distinct DEF OwnPrefix
  <2>2. CASE j # p /\ i = p
    <3>1. dir[Written[j]] # Absent
      BY <1>3, <1>5, <2>2
    <3>2. dir[f] = Whole(dir[Written[j]].by)
      BY <1>5, <2>2, <3>1 DEF InOrder
    <3> QED BY <1>1, <3>2 DEF Absent, Whole
  <2>3. CASE j # p /\ i # p
    BY <1>3, <1>5, <2>3 DEF InOrder
  <2> QED BY <2>1, <2>2, <2>3
<1>6. ASSUME NEW r \in Sealer, pc[r] = "writing"
      PROVE  /\ \A i \in 1 .. 6 : i < place[r] => dir'[Written[i]] = Whole(r)
             /\ dir'[Written[place[r]]].by = r => dir'[Written[place[r]]] = Begun(r)
  <2>1. place[r] \in 1 .. 6
    BY DEF SealingType
  <2>2. ASSUME NEW i \in 1 .. 6, i < place[r] PROVE dir'[Written[i]] = Whole(r)
    <3>1. dir[Written[i]] = Whole(r)
      BY <1>6, <2>2 DEF OwnPrefix
    <3>2. i # p
      BY <1>1, <3>1, Distinct
    <3> QED BY <1>3, <3>1, <3>2
  <2>3. dir'[Written[place[r]]].by = r => dir'[Written[place[r]]] = Begun(r)
    <3>1. CASE place[r] = p
      BY <1>4, <3>1, Distinct
    <3>2. CASE place[r] # p
      BY <1>3, <1>6, <2>1, <3>2 DEF OwnPrefix, Current
    <3> QED BY <3>1, <3>2
  <2> QED BY <2>2, <2>3
<1>7. InOrder' /\ OwnPrefix'
  BY <1>1, <1>5, <1>6 DEF InOrder, OwnPrefix, Current
<1>8. FreshAtFirst'
  BY <1>1 DEF FreshAtFirst
<1> QED BY <1>2, <1>7, <1>8

LEMMA Filling ==
  ASSUME SealingInv, NEW s \in Sealer, Fill(s)
  PROVE  SealingInv'
<1> USE DEF SealingInv
<1> DEFINE p == place[s]  f == Written[p]
<1>1. /\ pc[s] = "writing" /\ dir[f] = Begun(s) /\ UNCHANGED <<crashes, edits>>
      /\ dir' = [dir EXCEPT ![f] = Whole(s)] /\ p \in 1 .. 6 /\ f \in File
  BY Sequence DEF Fill, HasCreated, Current, SealingType
<1>2. \/ p = 6 /\ pc' = [pc EXCEPT ![s] = "sealed"] /\ place' = place
      \/ p < 6 /\ pc' = pc /\ place' = [place EXCEPT ![s] = p + 1]
  BY <1>1, Sequence DEF Fill, Goto
<1>3. SealingType'
  BY <1>1, <1>2 DEF SealingType, States, Ended
<1>4. \A i \in 1 .. 6 : i # p => dir'[Written[i]] = dir[Written[i]]
  BY <1>1, Sequence DEF SealingType
<1>5. dir'[f] = Whole(s)
  BY <1>1 DEF SealingType
(* Nothing is written beyond the file that is being filled.                *)
<1>6. \A j \in 1 .. 6 : j > p => dir[Written[j]] = Absent
  <2> SUFFICES ASSUME NEW j \in 1 .. 6, j > p, dir[Written[j]] # Absent PROVE FALSE
    OBVIOUS
  <2>1. dir[f] = Whole(dir[Written[j]].by)
    BY <1>1 DEF InOrder
  <2> QED BY <1>1, <2>1 DEF Begun, Whole
<1>7. ASSUME NEW i \in 1 .. 6, NEW j \in 1 .. 6, i < j, dir'[Written[j]] # Absent
      PROVE  dir'[Written[i]] = Whole(dir'[Written[j]].by)
  <2>1. j <= p
    BY <1>4, <1>6, <1>7, <1>1
  <2>2. i # p /\ dir'[Written[i]] = dir[Written[i]]
    BY <1>1, <1>4, <1>7, <2>1
  <2>3. CASE j = p
    BY <1>1, <1>5, <1>7, <2>2, <2>3, Distinct DEF OwnPrefix
  <2>4. CASE j # p
    BY <1>4, <1>7, <2>2, <2>4 DEF InOrder
  <2> QED BY <2>3, <2>4
<1>8. ASSUME NEW r \in Sealer, pc'[r] = "writing"
      PROVE  /\ \A i \in 1 .. 6 : i < place'[r] => dir'[Written[i]] = Whole(r)
             /\ dir'[Written[place'[r]]].by = r => dir'[Written[place'[r]]] = Begun(r)
  <2>1. CASE r = s
    <3>1. p < 6 /\ place'[r] = p + 1 /\ pc[s] = "writing"
      BY <1>1, <1>2, <1>8, <2>1 DEF SealingType
    <3>2. dir'[Written[p + 1]] = Absent
      BY <1>1, <1>4, <1>6, <3>1
    <3>3. \A i \in 1 .. 6 : i < p => dir'[Written[i]] = Whole(s)
      BY <1>1, <1>4 DEF OwnPrefix
    <3>4. \A i \in 1 .. 6 : i < p + 1 => i < p \/ i = p
      BY <1>1
    <3> QED BY <1>1, <1>5, <2>1, <3>1, <3>2, <3>3, <3>4, Distinct
  <2>2. CASE r # s
    <3>1. pc[r] = "writing" /\ place'[r] = place[r] /\ place[r] \in 1 .. 6
      BY <1>2, <1>8, <2>2 DEF SealingType
    <3>2. ASSUME NEW i \in 1 .. 6, i < place[r] PROVE dir'[Written[i]] = Whole(r)
      <4>1. dir[Written[i]] = Whole(r)
        BY <3>1, <3>2 DEF OwnPrefix
      <4>2. i # p
        BY <1>1, <4>1, Distinct
      <4> QED BY <1>4, <4>1, <4>2
    <3>3. CASE place[r] = p
      BY <1>5, <2>2, <3>1, <3>2, <3>3, Distinct
    <3>4. CASE place[r] # p
      BY <1>4, <3>1, <3>2, <3>4 DEF OwnPrefix, Current
    <3> QED BY <3>3, <3>4
  <2> QED BY <2>1, <2>2
<1>9. InOrder' /\ OwnPrefix'
  BY <1>7, <1>8 DEF InOrder, OwnPrefix, Current
<1>10. FreshAtFirst'
  BY <1>1, <1>2 DEF FreshAtFirst, SealingType
<1> QED BY <1>3, <1>9, <1>10

LEMMA Clearing ==
  ASSUME SealingInv, Clear
  PROVE  SealingInv'
<1>1. /\ dir' = [g \in File |-> Absent] /\ UNCHANGED <<pc, place, crashes, edits>>
      /\ \A s \in Sealer : pc[s] # "writing"
  BY DEF Clear
<1> QED BY <1>1, Sequence DEF SealingInv, SealingType, InOrder, OwnPrefix, FreshAtFirst, States

(* A sealed directory has no writer but those about to find it taken.      *)
LEMMA SealedLeavesFirst ==
  ASSUME SealingInv, dir["digest"].state = "whole",
         NEW s \in Sealer, pc[s] = "writing"
  PROVE  place[s] = 1
<1> USE DEF SealingInv
<1>1. place[s] \in 1 .. 6 /\ dir["digest"] \in States
  BY DEF SealingType, File
<1>2. PICK r \in Sealer : dir["digest"] = Whole(r)
  BY <1>1, Distinct DEF States, Absent, Begun
<1>3. dir["digest"].by = r /\ dir["digest"] # Absent
  BY <1>2, Distinct
<1>4. \A i \in 1 .. 5 : dir[Written[i]] = Whole(r)
  BY <1>3, Sequence DEF InOrder
<1>5. SUFFICES ASSUME place[s] > 1 PROVE FALSE
  BY <1>1
<1>6. dir[Written[1]] = Whole(s) /\ r = s
  BY <1>1, <1>4, <1>5, Distinct DEF OwnPrefix
<1>7. dir[Current(s)] = Whole(s)
  <2>1. place[s] \in 1 .. 5 \/ place[s] = 6
    BY <1>1
  <2> QED BY <1>2, <1>4, <1>6, <2>1, Sequence DEF Current
<1> QED BY <1>7, Distinct DEF OwnPrefix

LEMMA Editing ==
  ASSUME SealingInv, NEW f \in File, Edit(f)
  PROVE  SealingInv'
<1>1. UNCHANGED <<dir, pc, place, crashes>> /\ edits' = edits + 1
  BY DEF Edit
<1> QED BY <1>1 DEF SealingInv, SealingType, InOrder, OwnPrefix, FreshAtFirst, Current

(* The inductive invariant of sealing.                                     *)
THEOREM SealingInductive == Spec => []SealingInv
<1>1. SealingInv /\ [Next]_vars => SealingInv'
  <2> SUFFICES ASSUME SealingInv, [Next]_vars PROVE SealingInv'
    OBVIOUS
  <2>1. ASSUME NEW s \in Sealer, Run(s) \/ Crash(s) PROVE SealingInv'
    BY <2>1, Looking, Creating, Filling DEF Run, Write
  <2>2. CASE Clear
    BY <2>2, Clearing
  <2>3. ASSUME NEW f \in File, Edit(f) PROVE SealingInv'
    BY <2>3, Editing
  <2>4. CASE UNCHANGED vars
    BY <2>4 DEF vars, SealingInv, SealingType, InOrder, OwnPrefix, FreshAtFirst, Current
  <2> QED BY <2>1, <2>2, <2>3, <2>4 DEF Next
<1> QED BY <1>1, InitSealing, PTL DEF Spec

LEMMA SealedFiles ==
  ASSUME SealingInv, NEW r \in Sealer, dir["digest"] = Whole(r)
  PROVE  SealedRun = r /\ \A f \in File : dir[f] = Whole(r)
<1>1. SealedRun = r /\ dir["digest"].by = r /\ dir["digest"] # Absent
  BY Distinct DEF SealedRun
<1>2. ASSUME NEW f \in File PROVE dir[f] = Whole(r)
  <2>1. PICK i \in 1 .. 6 : Written[i] = f
    BY Sequence
  <2> QED BY <1>1, <2>1, Sequence DEF SealingInv, InOrder
<1> QED BY <1>1, <1>2

LEMMA SealedRunOf ==
  ASSUME SealingInv
  PROVE  \/ SealedRun = Unsealed /\ dir["digest"].state \in {"absent", "begun"}
         \/ \E r \in Sealer : dir["digest"] = Whole(r)
<1>1. dir["digest"] \in States
  BY DEF SealingInv, SealingType, File
<1>2. CASE dir["digest"] = Absent \/ \E r \in Sealer : dir["digest"] = Begun(r)
  BY <1>2, Distinct DEF SealedRun, Absent
<1>3. CASE \E r \in Sealer : dir["digest"] = Whole(r)
  BY <1>3
<1> QED BY <1>1, <1>2, <1>3 DEF States

(* What one run has written, and no one has changed, verifies.             *)
LEMMA UntouchedVerifies ==
  ASSUME NEW r \in Sealer, \A f \in File : dir[f] = Whole(r), \A f \in File : content[f] = AsWritten
  PROVE  Verifies
<1>1. \A f \in File : Bytes(f) = Original(r)
  BY DEF Bytes, Original
<1>2. dir["manifest"].by = r /\ dir["digest"].by = r
      /\ dir["manifest"].state = "whole" /\ dir["digest"].state = "whole"
  BY Distinct DEF File
<1>3. content["manifest"] = AsWritten /\ content["digest"] = AsWritten
  BY DEF File
<1>4. DigestNames = Bytes("manifest")
  BY <1>1, <1>2, <1>3 DEF DigestNames, File
<1>5. \A f \in DOMAIN Listed : Bytes(f) = Listed[f]
  <2>1. Listed = [f \in Output |-> Original(r)]
    BY <1>2, <1>3 DEF Listed
  <2> QED BY <1>1, <2>1 DEF File, Output
<1>6. ~Leaks(Bytes("requests"), Bytes("gold"), Bytes("manifest"))
  BY <1>1, LeakAssumption DEF File
<1> QED BY <1>2, <1>4, <1>5, <1>6 DEF Verifies

(* What verifies under the hash that a run has written for its manifest    *)
(* is as this run has written it.                                          *)
LEMMA VerifiedUnderItsHash ==
  ASSUME NEW r \in Sealer, Verifies, DigestNames = Original(r)
  PROVE  \A f \in Output \cup {"manifest"} : Bytes(f) = Original(r)
<1>1. Bytes("manifest") = Original(r)
  BY DEF Verifies
<1>2. dir["manifest"].by = r /\ content["manifest"] = AsWritten
  BY <1>1, Distinct DEF Bytes, Original
<1>3. Listed = [f \in Output |-> Original(r)]
  BY <1>2 DEF Listed
<1>4. \A f \in Output : Bytes(f) = Original(r)
  BY <1>3 DEF Verifies
<1> QED BY <1>1, <1>4

LEMMA OneRunSeals == SealingInv => SealedByOneRun
<1> SUFFICES ASSUME SealingInv PROVE SealedByOneRun
  OBVIOUS
<1>1. ASSUME SealedRun # Unsealed
      PROVE  SealedRun \in Sealer /\ \A f \in File : dir[f] = Whole(SealedRun)
  BY <1>1, SealedRunOf, SealedFiles
<1>2. ASSUME SealedRun # Unsealed, \A f \in File : content[f] = AsWritten PROVE Verifies
  BY <1>1, <1>2, UntouchedVerifies
<1>3. ASSUME Verifies PROVE SealedRun # Unsealed
  <2>1. dir["digest"].state = "whole"
    BY <1>3 DEF Verifies
  <2>2. PICK r \in Sealer : dir["digest"] = Whole(r)
    BY <2>1, SealedRunOf
  <2> QED BY <2>2, SealedFiles, SealerAssumption
<1>4. ASSUME Verifies, DigestNames = Original(SealedRun)
      PROVE  \A f \in Output \cup {"manifest"} : Bytes(f) = Original(SealedRun)
  BY <1>1, <1>3, <1>4, VerifiedUnderItsHash
<1> QED BY <1>1, <1>2, <1>3, <1>4 DEF SealedByOneRun

(* Whatever other hands do to it, the seal of a directory is the work of   *)
(* one run; what is left as it was written verifies; and what verifies     *)
(* under the manifest hash this run has written is as it was written.      *)
THEOREM SealedByOneRunCorrect == Spec => []SealedByOneRun
BY OneRunSeals, SealingInductive, PTL

(* A sealed directory stays sealed, by the same run.                       *)
LEMMA SealedOnceStep == SealingInv /\ [Next]_vars => [Once!Next]_SealedRun
<1> SUFFICES ASSUME SealingInv, [Next]_vars, SealedRun' # SealedRun PROVE Once!Next
  BY DEF Once!Next
<1>1. dir' # dir
  BY DEF SealedRun
<1>2. ASSUME NEW s \in Sealer, Create(s) PROVE FALSE
  <2>1. dir[Current(s)] = Absent /\ dir' = [dir EXCEPT ![Current(s)] = Begun(s)]
    BY <1>2 DEF Create
  <2> QED BY <2>1, Distinct DEF SealedRun, SealingInv, SealingType, File
<1>3. ASSUME NEW s \in Sealer, Fill(s) PROVE Once!Next
  <2>1. dir[Current(s)] = Begun(s) /\ dir' = [dir EXCEPT ![Current(s)] = Whole(s)]
    BY <1>3 DEF Fill, HasCreated
  <2>2. Current(s) = "digest"
    BY <2>1 DEF SealedRun, SealingInv, SealingType, File
  <2>3. SealedRun = Unsealed /\ SealedRun' = s
    BY <2>1, <2>2, Distinct DEF SealedRun, SealingInv, SealingType, File
  <2> QED BY <2>3 DEF Once!Next, Once!Seal
<1>4. ASSUME Clear PROVE FALSE
  <2>1. dir["digest"].state \in {"absent", "begun"} /\ dir'["digest"] = Absent
    BY <1>4 DEF Clear, File
  <2> QED BY <2>1 DEF SealedRun, Absent
<1>5. ASSUME NEW f \in File, Edit(f) PROVE FALSE
  BY <1>1, <1>5 DEF Edit
<1> QED BY <1>1, <1>2, <1>3, <1>4, <1>5
        DEF Next, Run, Write, Look, Prepare, Refuse, LookAgain, FileExists, Crash, vars

(* The six writes of many runs, with crashes and clearings between them,   *)
(* implement a benchmark that is sealed in one step and for good.          *)
THEOREM SealingImplementsSealedOnce == Spec => ImplementsSealedOnce
<1>1. Init => Once!Init
  BY DEF Init, Once!Init, SealedRun, File, Absent
<1> QED BY <1>1, SealedOnceStep, SealingInductive, PTL DEF Spec, ImplementsSealedOnce, Once!Spec

-----------------------------------------------------------------------------
(* The benchmark takes the steps of sealing, and others that leave the     *)
(* directory alone.                                                        *)
LEMMA SealingSteps == [BNext]_allvars => [Next]_vars
<1>1. ASSUME NEW s \in Sealer, PrepareSeal(s) PROVE Next
  BY <1>1 DEF PrepareSeal, Next, Run
<1>2. ASSUME NEW s \in Sealer, StartSeal(s) \/ WriteSeal(s) \/ CrashSeal(s) PROVE Next
  BY <1>2 DEF StartSeal, WriteSeal, CrashSeal, Next, Run
<1>3. ASSUME ClearSeal \/ \E f \in File : EditSealed(f) PROVE Next
  BY <1>3 DEF ClearSeal, EditSealed, Next
<1>4. ASSUME \/ \E b \in Side : Blind(b) \/ Review(b) \/ Revise(b)
             \/ Reconcile \/ Decide \/ StartExport \/ ReadSeal \/ RefuseExport \/ FinishExport
      PROVE  UNCHANGED vars
  BY <1>4 DEF Blind, Review, Revise, Reconcile, Decide, StartExport, ReadSeal, RefuseExport, FinishExport
<1>5. BNext => Next \/ UNCHANGED vars
  BY <1>1, <1>2, <1>3, <1>4 DEF BNext, SealerStep
<1>6. QED
  BY <1>5 DEF allvars

(* Whatever the batches, the reviews and the decisions are, the seal of    *)
(* the benchmark is the work of one run (seal.py:329-513).                 *)
THEOREM BenchmarkSealedByOneRun == BSpec => []SealedByOneRun
<1>1. BInit => Init
  BY DEF BInit
<1>2. QED
  BY <1>1, SealingSteps, SealedByOneRunCorrect, PTL DEF BSpec, Spec

(* And the benchmark is sealed once and for good (seal.py:383-432).        *)
THEOREM BenchmarkSealedOnce == BSpec => ImplementsSealedOnce
<1>1. BInit => Init
  BY DEF BInit
<1>2. QED
  BY <1>1, SealingSteps, SealingImplementsSealedOnce, PTL DEF BSpec, Spec

-----------------------------------------------------------------------------
(* The benchmark from its batches to the export.  Two hypotheses are about *)
(* what the model leaves open: the shuffle is one, and the author returns  *)
(* the groups that were sent back, which apply_revision does not check.    *)
ShufflesAll ==
  \A s \in Sealer, n \in Nat :
    Order(s, n) \in [1 .. n -> 1 .. n] /\ \A k \in 1 .. n : \E j \in 1 .. n : Order(s, n)[j] = k

RevisionsAsked ==
  \A batch, flagged : \A revision \in Revisions(batch, flagged) :
    \A i \in DOMAIN revision : revision[i].id \in flagged

PipelineType ==
  /\ DOMAIN batches = Side /\ \A b \in Side : BatchShaped(batches[b])
  /\ DOMAIN shown = Side /\ DOMAIN reviews = Side /\ DOMAIN records = Sealer
  /\ DOMAIN harness = {"pc", "items", "source"}

IdsUnique(batch) ==
  \A i, j \in DOMAIN batch.groups : batch.groups[i].id = batch.groups[j].id => i = j

(* The texts of a group are those that its reviewer has seen, or else the  *)
(* reviewer has found them unequal.                                        *)
SeenOrRejected ==
  \A b \in Side : shown[b] # Null /\ IdsUnique(batches[b]) =>
    \A g \in GroupsOf(batches[b]) :
      /\ g.id \in DOMAIN shown[b]
      /\ \/ Texted(g) = shown[b][g.id]
         \/ reviews[b] # Null /\ ~EntryOf(reviews[b], g.id).equivalent

(* The human sees what reconciliation finds open, and no batch and no      *)
(* review changes behind the decisions.                                    *)
WorksheetCurrent ==
  /\ \A b \in Side : reviews[b] # Null => shown[b] # Null
  /\ worksheet # Null => /\ Null \notin {reviews[1], reviews[2]}
                         /\ Reconcilable(batches, reviews)
                         /\ worksheet = Pending(Reconciled(batches, reviews))
  /\ decisions # Null => worksheet # Null

(* The checks that a run has passed when it has records to write.          *)
Cleared(s) ==
  /\ decisions # Null
  /\ Accepted(batches, reviews, decisions)
  /\ LeakFree(SealedRecords(Final, s), Final)

PreparedRuns ==
  \A s \in Sealer : pc[s] \in {"prepared", "writing", "sealed"} =>
    Cleared(s) /\ records[s] = SealedRecords(Final, s)

(* What stands in the directory is of a run that was cleared, and that     *)
(* will not prepare records again.                                         *)
WritersCleared ==
  \A f \in File, s \in Sealer : dir[f].by = s =>
    /\ pc[s] \notin {"ready", "preparing", "prepared"}
    /\ Cleared(s) /\ records[s] = SealedRecords(Final, s)

ExportCurrent ==
  /\ harness.pc # "none" => SealedRun # Unsealed
  /\ harness.pc = "reading" => Verifies
  /\ harness.pc \notin {"none", "reading"} /\ harness.source = Original(SealedRun) =>
       \E s \in Sealer : Cleared(s) /\ harness.items = HarnessItems(SealedRecords(Final, s))

BenchmarkInv ==
  /\ PipelineType /\ SeenOrRejected /\ WorksheetCurrent
  /\ PreparedRuns /\ WritersCleared /\ ExportCurrent

-----------------------------------------------------------------------------
LEMMA InitBenchmark == BInit => BenchmarkInv
<1> SUFFICES ASSUME BInit PROVE BenchmarkInv
  OBVIOUS
<1>1. PipelineType
  BY BatchesAssumption DEF BInit, PipelineType, Side
<1>2. SeenOrRejected /\ WorksheetCurrent /\ PreparedRuns /\ ExportCurrent
  BY DEF BInit, Init, SeenOrRejected, WorksheetCurrent, PreparedRuns, ExportCurrent, Side
<1>3. \A f \in File, s \in Sealer : dir[f].by # s
  BY SealerAssumption DEF BInit, Init, Absent
<1> QED BY <1>1, <1>2, <1>3 DEF BenchmarkInv, WritersCleared

LEMMA VerifiesKept ==
  ASSUME UNCHANGED <<dir, content>>
  PROVE  Verifies' = Verifies /\ SealedRun' = SealedRun
<1>1. \A f : Bytes(f)' = Bytes(f)
  BY DEF Bytes
<1>2. Listed' = Listed /\ DigestNames' = DigestNames
  BY DEF Listed, DigestNames
<1> QED BY <1>1, <1>2 DEF Verifies, SealedRun

(* Steps of the authors, the reviewers and the human leave the runs and    *)
(* the export alone, and come before the decisions do.                     *)
LEMMA InputsFixed ==
  ASSUME BenchmarkInv, UNCHANGED <<vars, records, harness>>,
         decisions # Null => UNCHANGED <<batches, reviews, decisions>>
  PROVE  PreparedRuns' /\ WritersCleared' /\ ExportCurrent'
<1>1. ASSUME NEW s \in Sealer, Cleared(s)
      PROVE  /\ Cleared(s)'
             /\ SealedRecords(Final, s)' = SealedRecords(Final, s)
  BY <1>1 DEF Cleared, SealedRecords, Final
<1>2. PreparedRuns'
  BY <1>1 DEF BenchmarkInv, PreparedRuns, vars
<1>3. WritersCleared'
  BY <1>1 DEF BenchmarkInv, WritersCleared, vars
<1>4. ExportCurrent'
  <2>1. Verifies' = Verifies /\ SealedRun' = SealedRun
    BY VerifiesKept DEF vars
  <2> QED BY <1>1, <2>1 DEF BenchmarkInv, ExportCurrent
<1> QED BY <1>2, <1>3, <1>4

LEMMA Blinding ==
  ASSUME BenchmarkInv, NEW b \in Side, Blind(b)
  PROVE  BenchmarkInv'
<1> USE DEF BenchmarkInv
<1>1. /\ shown[b] = Null
      /\ shown' = [shown EXCEPT ![b] = [id \in {g.id : g \in GroupsOf(batches[b])} |->
                      Texted(CHOOSE g \in GroupsOf(batches[b]) : g.id = id)]]
      /\ UNCHANGED <<vars, batches, reviews, worksheet, decisions, records, harness>>
  BY DEF Blind
<1>2. PipelineType'
  BY <1>1 DEF PipelineType
<1>3. shown'[b] = [id \in {g.id : g \in GroupsOf(batches[b])} |->
                      Texted(CHOOSE g \in GroupsOf(batches[b]) : g.id = id)]
      /\ \A c \in Side : c # b => shown'[c] = shown[c]
  BY <1>1 DEF PipelineType
<1>4. ASSUME IdsUnique(batches[b]), NEW g \in GroupsOf(batches[b])
      PROVE  g.id \in DOMAIN shown'[b] /\ Texted(g) = shown'[b][g.id]
  <2>1. \A h \in GroupsOf(batches[b]) : h.id = g.id => h = g
    BY <1>4 DEF IdsUnique, GroupsOf, ToSet
  <2>2. (CHOOSE h \in GroupsOf(batches[b]) : h.id = g.id) = g
    BY <2>1
  <2>3. g.id \in {h.id : h \in GroupsOf(batches[b])}
    OBVIOUS
  <2>4. /\ DOMAIN shown'[b] = {h.id : h \in GroupsOf(batches[b])}
        /\ shown'[b][g.id] = Texted(CHOOSE h \in GroupsOf(batches[b]) : h.id = g.id)
    BY <1>3, <2>3
  <2> QED BY <2>2, <2>3, <2>4
<1>5. SeenOrRejected'
  BY <1>1, <1>3, <1>4 DEF SeenOrRejected
<1>6. shown'[b] # Null \/ reviews[b] = Null
  BY <1>1 DEF WorksheetCurrent
<1>7. WorksheetCurrent'
  BY <1>1, <1>3, <1>6 DEF WorksheetCurrent
<1> QED BY <1>1, <1>2, <1>5, <1>7, InputsFixed

LEMMA Reviewing ==
  ASSUME BenchmarkInv, NEW b \in Side, Review(b)
  PROVE  BenchmarkInv'
<1> USE DEF BenchmarkInv
<1>1. /\ shown[b] # Null /\ reviews[b] = Null
      /\ UNCHANGED <<vars, batches, shown, worksheet, decisions, records, harness>>
  BY DEF Review
<1>2. PICK review : reviews' = [reviews EXCEPT ![b] = review]
  BY DEF Review
<1>3. \A c \in Side : c # b => reviews'[c] = reviews[c]
  BY <1>2 DEF PipelineType
<1>4. worksheet = Null /\ decisions = Null
  <2>1. b = 1 \/ b = 2
    BY DEF Side
  <2> QED BY <1>1, <2>1 DEF WorksheetCurrent
<1>5. PipelineType'
  BY <1>1, <1>2 DEF PipelineType
<1>6. SeenOrRejected'
  BY <1>1, <1>3 DEF SeenOrRejected
<1>7. WorksheetCurrent'
  BY <1>1, <1>3, <1>4 DEF WorksheetCurrent
<1> QED BY <1>1, <1>4, <1>5, <1>6, <1>7, InputsFixed

LEMMA Deciding ==
  ASSUME BenchmarkInv, Decide
  PROVE  BenchmarkInv'
<1> USE DEF BenchmarkInv
<1>1. /\ worksheet # Null /\ decisions = Null
      /\ UNCHANGED <<vars, batches, shown, reviews, worksheet, records, harness>>
  BY DEF Decide
<1> QED BY <1>1, InputsFixed DEF PipelineType, SeenOrRejected, WorksheetCurrent

LEMMA Reconciling ==
  ASSUME BenchmarkInv, Reconcile
  PROVE  BenchmarkInv'
<1> USE DEF BenchmarkInv
<1>1. /\ Null \notin {reviews[1], reviews[2]} /\ Reconcilable(batches, reviews)
      /\ worksheet = Null /\ worksheet' = Pending(Reconciled(batches, reviews))
      /\ UNCHANGED <<vars, batches, shown, reviews, decisions, records, harness>>
  BY DEF Reconcile
<1>2. Pending(Reconciled(batches, reviews))' = Pending(Reconciled(batches, reviews))
  BY <1>1 DEF Pending, Reconciled
<1>3. Reconcilable(batches, reviews)'
  BY <1>1
<1>4. WorksheetCurrent'
  BY <1>1, <1>2, <1>3 DEF WorksheetCurrent
<1> QED BY <1>1, <1>4, InputsFixed DEF PipelineType, SeenOrRejected

-----------------------------------------------------------------------------
(* Runs of the seal command.                                               *)
LEMMA InputsKept ==
  ASSUME BenchmarkInv, UNCHANGED inputs
  PROVE  /\ PipelineType' <=> DOMAIN records' = Sealer /\ DOMAIN harness' = {"pc", "items", "source"}
         /\ SeenOrRejected' /\ WorksheetCurrent'
         /\ \A s \in Sealer : Cleared(s)' = Cleared(s)
         /\ \A s \in Sealer : SealedRecords(Final, s)' = SealedRecords(Final, s)
<1> USE DEF BenchmarkInv
<1>1. UNCHANGED <<batches, shown, reviews, worksheet, decisions>>
  BY DEF inputs
<1>2. SeenOrRejected' /\ WorksheetCurrent'
  BY <1>1 DEF SeenOrRejected, WorksheetCurrent
<1>3. \A s \in Sealer : SealedRecords(Final, s)' = SealedRecords(Final, s)
  BY <1>1 DEF SealedRecords, Final
<1>4. \A s \in Sealer : Cleared(s)' = Cleared(s)
  BY <1>1 DEF Cleared, SealedRecords, Final
<1> QED BY <1>1, <1>2, <1>3, <1>4 DEF PipelineType

LEMMA PreparedWithoutFiles ==
  ASSUME BenchmarkInv, NEW s \in Sealer, pc[s] \in {"ready", "preparing", "prepared"}
  PROVE  \A f \in File : dir[f].by # s
BY DEF BenchmarkInv, WritersCleared

(* No run writes into a sealed directory, and no one clears it.            *)
LEMMA SealedDirectoryKept ==
  ASSUME SealingInv, [Next]_vars, SealedRun # Unsealed
  PROVE  UNCHANGED dir
<1>1. PICK r \in Sealer : \A f \in File : dir[f] = Whole(r)
  BY SealedRunOf, SealedFiles
<1>2. dir["digest"].state = "whole"
  BY <1>1, Distinct DEF File
<1>3. ASSUME NEW s \in Sealer, Create(s) \/ Fill(s) PROVE FALSE
  <2>1. Current(s) \in File
    BY Sequence DEF Current, SealingInv, SealingType
  <2>2. dir[Current(s)] \in {Absent, Begun(s)}
    BY <1>3 DEF Create, Fill, HasCreated
  <2> QED BY <1>1, <2>1, <2>2, Distinct
<1>4. ~Clear
  BY <1>2 DEF Clear
<1> QED BY <1>3, <1>4
        DEF Next, Run, Write, Look, Prepare, Refuse, LookAgain, FileExists, Crash, Edit, vars

LEMMA ExportKept ==
  ASSUME BenchmarkInv, SealingInv, [Next]_vars, UNCHANGED <<inputs, harness>>,
         harness.pc = "reading" => UNCHANGED content
  PROVE  ExportCurrent'
<1>1. SealedRun # Unsealed => UNCHANGED <<dir, SealedRun>>
  BY SealedDirectoryKept DEF SealedRun
<1>2. \A s \in Sealer : Cleared(s)' = Cleared(s) /\ SealedRecords(Final, s)' = SealedRecords(Final, s)
  BY InputsKept
<1>3. \A s \in Sealer : HarnessItems(SealedRecords(Final, s))' = HarnessItems(SealedRecords(Final, s))
  BY <1>2 DEF HarnessItems
<1>4. ASSUME harness.pc = "reading" PROVE Verifies'
  BY <1>1, <1>4, VerifiesKept DEF BenchmarkInv, ExportCurrent
<1>5. \A s : Original(s)' = Original(s)
  BY DEF Original
<1> QED BY <1>1, <1>2, <1>3, <1>4, <1>5 DEF BenchmarkInv, ExportCurrent

(* A step that writes nothing, of a run that has no records or keeps them. *)
LEMMA Unwritten ==
  ASSUME BenchmarkInv, SealingInv, [Next]_vars, NEW s \in Sealer,
         UNCHANGED <<dir, content, inputs, harness, records>>,
         NEW l, pc' = [pc EXCEPT ![s] = l],
         \/ pc[s] \in {"ready", "preparing", "prepared"} /\ l \in {"preparing", "refused"}
         \/ pc[s] \in {"prepared", "writing"} /\ l \in {"writing", "refused", "failed", "crashed"}
  PROVE  BenchmarkInv'
<1> USE DEF BenchmarkInv
<1>1. PipelineType' /\ SeenOrRejected' /\ WorksheetCurrent' /\ ExportCurrent'
  BY InputsKept, ExportKept DEF PipelineType
<1>2. \A r \in Sealer : /\ Cleared(r)' = Cleared(r)
                        /\ SealedRecords(Final, r)' = SealedRecords(Final, r)
  BY InputsKept
<1>3. pc'[s] = l /\ \A r \in Sealer : r # s => pc'[r] = pc[r]
  BY DEF SealingInv, SealingType
<1>4. PreparedRuns'
  BY <1>2, <1>3 DEF PreparedRuns
<1>5. ASSUME NEW f \in File, dir[f].by = s
      PROVE  pc[s] = "writing" /\ l \in {"writing", "refused", "failed", "crashed"}
  BY <1>5 DEF WritersCleared
<1>6. WritersCleared'
  BY <1>2, <1>3, <1>5 DEF WritersCleared
<1> QED BY <1>1, <1>4, <1>6

LEMMA Starting ==
  ASSUME BenchmarkInv, SealingInv, NEW s \in Sealer, StartSeal(s) \/ CrashSeal(s)
  PROVE  BenchmarkInv'
<1>1. [Next]_vars
  BY DEF StartSeal, CrashSeal, Next, Run
<1>2. CASE StartSeal(s)
  BY <1>1, <1>2, Unwritten DEF StartSeal, Look, Goto
<1>3. CASE CrashSeal(s)
  BY <1>1, <1>3, Unwritten DEF CrashSeal, Crash, Goto
<1> QED BY <1>2, <1>3

LEMMA Preparing ==
  ASSUME BenchmarkInv, SealingInv, NEW s \in Sealer, PrepareSeal(s)
  PROVE  BenchmarkInv'
<1> USE DEF BenchmarkInv
<1>1. /\ decisions # Null /\ pc[s] = "preparing" /\ UNCHANGED <<dir, content, inputs, harness>>
      /\ \/ /\ Accepted(batches, reviews, decisions)
            /\ LeakFree(SealedRecords(Final, s), Final)
            /\ pc' = [pc EXCEPT ![s] = "prepared"]
            /\ records' = [records EXCEPT ![s] = SealedRecords(Final, s)]
         \/ pc' = [pc EXCEPT ![s] = "refused"] /\ UNCHANGED records
  BY DEF PrepareSeal, Prepare, Refuse, Goto, Sealable
<1>2. [Next]_vars
  BY DEF PrepareSeal, Next, Run
<1>3. CASE pc' = [pc EXCEPT ![s] = "refused"] /\ UNCHANGED records
  BY <1>1, <1>2, <1>3, Unwritten
<1>4. CASE /\ Accepted(batches, reviews, decisions)
           /\ LeakFree(SealedRecords(Final, s), Final)
           /\ pc' = [pc EXCEPT ![s] = "prepared"]
           /\ records' = [records EXCEPT ![s] = SealedRecords(Final, s)]
  <2>1. PipelineType' /\ SeenOrRejected' /\ WorksheetCurrent' /\ ExportCurrent'
    BY <1>1, <1>2, <1>4, InputsKept, ExportKept DEF PipelineType
  <2>2. \A r \in Sealer : /\ Cleared(r)' = Cleared(r)
                          /\ SealedRecords(Final, r)' = SealedRecords(Final, r)
    BY <1>1, InputsKept
  <2>3. Cleared(s)
    BY <1>1, <1>4 DEF Cleared
  <2>4. /\ records'[s] = SealedRecords(Final, s) /\ pc'[s] = "prepared"
        /\ \A r \in Sealer : r # s => records'[r] = records[r] /\ pc'[r] = pc[r]
    BY <1>4 DEF PipelineType, SealingInv, SealingType
  <2>5. PreparedRuns'
    BY <2>2, <2>3, <2>4 DEF PreparedRuns
  <2>6. \A f \in File : dir[f].by # s
    BY <1>1, PreparedWithoutFiles
  <2>7. WritersCleared'
    BY <1>1, <2>2, <2>4, <2>6 DEF WritersCleared
  <2> QED BY <2>1, <2>5, <2>7
<1> QED BY <1>1, <1>3, <1>4

LEMMA Writing ==
  ASSUME BenchmarkInv, SealingInv, NEW s \in Sealer, WriteSeal(s)
  PROVE  BenchmarkInv'
<1> USE DEF BenchmarkInv
<1>1. UNCHANGED <<inputs, records, harness>> /\ Write(s)
  BY DEF WriteSeal
<1>2. [Next]_vars
  BY <1>1 DEF Next, Run
<1>3. CASE LookAgain(s) \/ FileExists(s)
  BY <1>1, <1>2, <1>3, Unwritten DEF LookAgain, FileExists, Goto
<1>4. CASE Create(s) \/ Fill(s)
  <2>1. /\ pc[s] = "writing" /\ Current(s) \in File
        /\ \E c \in {Begun(s), Whole(s)} : dir' = [dir EXCEPT ![Current(s)] = c]
        /\ \A r \in Sealer : pc'[r] = pc[r] \/ (r = s /\ pc'[r] = "sealed")
        /\ UNCHANGED content
    BY <1>4, Sequence DEF Create, Fill, Goto, SealingInv, SealingType, Current
  <2>2. \A f \in File : dir'[f].by = dir[f].by \/ dir'[f].by = s
    BY <2>1, Distinct DEF SealingInv, SealingType
  <2>3. PipelineType' /\ SeenOrRejected' /\ WorksheetCurrent' /\ ExportCurrent'
    BY <1>1, <1>2, <2>1, InputsKept, ExportKept DEF PipelineType
  <2>4. \A r \in Sealer : /\ Cleared(r)' = Cleared(r)
                          /\ SealedRecords(Final, r)' = SealedRecords(Final, r)
    BY <1>1, InputsKept
  <2>5. Cleared(s) /\ records[s] = SealedRecords(Final, s)
    BY <2>1 DEF PreparedRuns
  <2>6. PreparedRuns'
    BY <1>1, <2>1, <2>4, <2>5 DEF PreparedRuns
  <2>7. ASSUME NEW f \in File, NEW r \in Sealer, dir'[f].by = r
        PROVE  /\ pc'[r] \notin {"ready", "preparing", "prepared"}
               /\ Cleared(r) /\ records[r] = SealedRecords(Final, r)
    <3>1. CASE r = s
      BY <2>1, <2>5, <3>1
    <3>2. CASE r # s
      BY <2>1, <2>2, <2>7, <3>2 DEF WritersCleared
    <3> QED BY <3>1, <3>2
  <2>8. WritersCleared'
    BY <1>1, <2>4, <2>7 DEF WritersCleared
  <2> QED BY <2>3, <2>6, <2>8
<1> QED BY <1>1, <1>3, <1>4 DEF Write

(* The operator, and other hands.                                          *)
LEMMA ClearingOrEditing ==
  ASSUME BenchmarkInv, SealingInv, ClearSeal \/ \E f \in File : EditSealed(f)
  PROVE  BenchmarkInv'
<1> USE DEF BenchmarkInv
<1>1. /\ UNCHANGED <<pc, inputs, records, harness>> /\ (Clear \/ \E f \in File : Edit(f))
      /\ harness.pc = "reading" => UNCHANGED content
  BY DEF ClearSeal, EditSealed, Clear, Edit
<1>2. [Next]_vars
  BY <1>1 DEF Next
<1>3. PipelineType' /\ SeenOrRejected' /\ WorksheetCurrent' /\ ExportCurrent'
  BY <1>1, <1>2, InputsKept, ExportKept DEF PipelineType
<1>4. \A r \in Sealer : /\ Cleared(r)' = Cleared(r)
                        /\ SealedRecords(Final, r)' = SealedRecords(Final, r)
  BY <1>1, InputsKept
<1>5. \A f \in File : dir'[f].by \in {dir[f].by, Unsealed}
  <2>1. CASE Clear
    BY <2>1 DEF Clear, Absent
  <2>2. ASSUME NEW f \in File, Edit(f) PROVE \A g \in File : dir'[g].by = dir[g].by
    BY <2>2 DEF Edit
  <2> QED BY <1>1, <2>1, <2>2
<1>6. PreparedRuns' /\ WritersCleared'
  BY <1>1, <1>4, <1>5, SealerAssumption DEF PreparedRuns, WritersCleared
<1> QED BY <1>3, <1>6

-----------------------------------------------------------------------------
(* The export.                                                             *)
LEMMA Exporting ==
  ASSUME BenchmarkInv, SealingInv, StartExport \/ ReadSeal \/ RefuseExport \/ FinishExport
  PROVE  BenchmarkInv'
<1> USE DEF BenchmarkInv
<1>1. UNCHANGED <<vars, inputs, records>>
  BY DEF StartExport, ReadSeal, RefuseExport, FinishExport
<1>2. DOMAIN harness' = {"pc", "items", "source"}
  BY DEF StartExport, ReadSeal, RefuseExport, FinishExport, PipelineType
<1>3. PipelineType' /\ SeenOrRejected' /\ WorksheetCurrent'
  BY <1>1, <1>2, InputsKept DEF PipelineType
<1>4. \A r \in Sealer : /\ Cleared(r)' = Cleared(r)
                        /\ SealedRecords(Final, r)' = SealedRecords(Final, r)
                        /\ HarnessItems(SealedRecords(Final, r))' = HarnessItems(SealedRecords(Final, r))
  BY <1>1, InputsKept DEF HarnessItems
<1>5. PreparedRuns' /\ WritersCleared'
  BY <1>1, <1>4 DEF PreparedRuns, WritersCleared, vars
<1>6. Verifies' = Verifies /\ SealedRun' = SealedRun /\ Original(SealedRun)' = Original(SealedRun)
  BY <1>1, VerifiesKept DEF vars, Original
<1>7. CASE StartExport
  <2>1. Verifies /\ harness'.pc = "reading"
    BY <1>7 DEF StartExport, PipelineType
  <2>2. SealedRun # Unsealed
    BY <2>1, OneRunSeals DEF SealedByOneRun
  <2>3. ExportCurrent'
    BY <1>6, <2>1, <2>2 DEF ExportCurrent
  <2> QED BY <1>3, <1>5, <2>3
<1>8. CASE ReadSeal
  <2>1. /\ SealedRun # Unsealed /\ Verifies
        /\ harness'.pc = "begun" /\ harness'.source = Bytes("manifest")
        /\ AsSealed => harness'.items = HarnessItems(records[dir["requests"].by])
    BY <1>8 DEF ReadSeal, ExportCurrent
  <2>2. PICK r \in Sealer : SealedRun = r /\ \A f \in File : dir[f] = Whole(r)
    BY <2>1, SealedRunOf, SealedFiles
  <2>3. "requests" \in File /\ dir["requests"].by = r
    BY <2>2, Distinct DEF File
  <2>4. Cleared(r) /\ records[r] = SealedRecords(Final, r)
    BY <2>3 DEF WritersCleared
  <2>5. ASSUME Bytes("manifest") = Original(r)
        PROVE  harness'.items = HarnessItems(SealedRecords(Final, r))
    <3>1. DigestNames = Original(r)
      BY <2>1, <2>5 DEF Verifies
    <3>2. \A f \in {"requests", "gold", "manifest"} : Bytes(f) = Original(r)
      BY <2>1, <3>1, VerifiedUnderItsHash DEF Output
    <3>3. AsSealed
      BY <2>3, <3>2 DEF AsSealed
    <3> QED BY <2>1, <2>3, <2>4, <3>3
  <2>6. ExportCurrent'
    BY <1>4, <1>6, <2>1, <2>2, <2>4, <2>5 DEF ExportCurrent
  <2> QED BY <1>3, <1>5, <2>6
<1>9. CASE RefuseExport
  <2>1. harness'.pc = "none"
    BY <1>9 DEF RefuseExport, PipelineType
  <2>2. ExportCurrent'
    BY <2>1 DEF ExportCurrent
  <2> QED BY <1>3, <1>5, <2>2
<1>10. CASE FinishExport
  <2>1. /\ harness.pc \in {"begun", "written"} /\ harness'.pc \in {"written", "described"}
        /\ harness'.items = harness.items /\ harness'.source = harness.source
    BY <1>10 DEF FinishExport, PipelineType
  <2>2. ExportCurrent'
    BY <1>4, <1>6, <2>1 DEF ExportCurrent
  <2> QED BY <1>3, <1>5, <2>2
<1> QED BY <1>7, <1>8, <1>9, <1>10

-----------------------------------------------------------------------------
(* The groups of both batches, joined.                                     *)
Part(pair, rev, b) ==
  [i \in DOMAIN pair[b].groups |-> Joined(pair, rev, b, pair[b].groups[i])]
PartGroups(pair, rev, b) == {Joined(pair, rev, b, g) : g \in GroupsOf(pair[b])}

LEMMA JoinedFields ==
  ASSUME NEW pair, NEW rev, NEW b, NEW g
  PROVE  /\ Joined(pair, rev, b, g).group = g /\ Joined(pair, rev, b, g).batch = b
         /\ Joined(pair, rev, b, g).class =
              IF DuplicatedAcross(g, pair[3 - b]) THEN "DEFECTIVE_ITEM"
              ELSE Classify(pair[b], rev[b], g)
BY Zenon DEF Joined

IsPart(pair, rev, b) ==
  /\ Part(pair, rev, b) \in Seq(PartGroups(pair, rev, b))
  /\ Len(Part(pair, rev, b)) = Len(pair[b].groups)
  /\ DOMAIN pair[b].groups = 1 .. Len(pair[b].groups)
  /\ \A i \in 1 .. Len(Part(pair, rev, b)) :
       /\ Part(pair, rev, b)[i] = Joined(pair, rev, b, pair[b].groups[i])
       /\ pair[b].groups[i] \in GroupsOf(pair[b])
  /\ \A r \in PartGroups(pair, rev, b) :
       \E i \in 1 .. Len(Part(pair, rev, b)) : Part(pair, rev, b)[i] = r

LEMMA Parts ==
  ASSUME NEW pair, NEW rev, NEW b, BatchShaped(pair[b])
  PROVE  IsPart(pair, rev, b)
<1> DEFINE part == Part(pair, rev, b)
<1>1. PICK n \in Nat : n = Len(pair[b].groups) /\ DOMAIN pair[b].groups = 1 .. n
  BY DEF BatchShaped
<1>2. \A i \in 1 .. n : pair[b].groups[i] \in GroupsOf(pair[b])
  BY <1>1 DEF GroupsOf, ToSet
<1>3. part \in [1 .. n -> PartGroups(pair, rev, b)]
  BY <1>1, <1>2 DEF Part, PartGroups
<1>4. part \in Seq(PartGroups(pair, rev, b)) /\ Len(part) = n
  BY <1>3
<1>5. \A g \in GroupsOf(pair[b]) : \E i \in 1 .. n : pair[b].groups[i] = g
  BY <1>1 DEF GroupsOf, ToSet
<1>6. \A i \in 1 .. n : part[i] = Joined(pair, rev, b, pair[b].groups[i])
  BY <1>1 DEF Part
<1>7. \A r \in PartGroups(pair, rev, b) : \E i \in 1 .. n : part[i] = r
  BY <1>5, <1>6 DEF PartGroups
<1> HIDE DEF part
<1> QED BY <1>1, <1>2, <1>4, <1>6, <1>7 DEF part, IsPart

JoinedGroups(pair, rev) ==
  PartGroups(pair, rev, 1) \cup PartGroups(pair, rev, 2)

LEMMA ReconciledGroups ==
  ASSUME NEW pair, NEW rev, BatchShaped(pair[1]), BatchShaped(pair[2])
  PROVE  /\ Reconciled(pair, rev) \in Seq(JoinedGroups(pair, rev))
         /\ ToSet(Reconciled(pair, rev)) = JoinedGroups(pair, rev)
         /\ Reconcilable(pair, rev) =>
              \A i, j \in 1 .. Len(Reconciled(pair, rev)) :
                Reconciled(pair, rev)[i].group.id = Reconciled(pair, rev)[j].group.id => i = j
<1> DEFINE J == JoinedGroups(pair, rev)
<1>1. PICK s \in Seq(J) :
        /\ s = Part(pair, rev, 1) /\ Len(s) = Len(pair[1].groups)
        /\ DOMAIN pair[1].groups = 1 .. Len(pair[1].groups)
        /\ \A i \in 1 .. Len(s) : /\ s[i] = Joined(pair, rev, 1, pair[1].groups[i])
                                  /\ pair[1].groups[i] \in GroupsOf(pair[1])
        /\ \A r \in PartGroups(pair, rev, 1) : \E i \in 1 .. Len(s) : s[i] = r
  <2>0. IsPart(pair, rev, 1)
    BY Parts
  <2>1. Part(pair, rev, 1) \in Seq(PartGroups(pair, rev, 1))
    BY <2>0 DEF IsPart
  <2>2. PartGroups(pair, rev, 1) \subseteq J
    BY DEF JoinedGroups
  <2>3. Part(pair, rev, 1) \in Seq(J)
    BY <2>1, <2>2
  <2> QED BY <2>0, <2>3 DEF IsPart
<1>2. PICK t \in Seq(J) :
        /\ t = Part(pair, rev, 2) /\ Len(t) = Len(pair[2].groups)
        /\ DOMAIN pair[2].groups = 1 .. Len(pair[2].groups)
        /\ \A i \in 1 .. Len(t) : /\ t[i] = Joined(pair, rev, 2, pair[2].groups[i])
                                  /\ pair[2].groups[i] \in GroupsOf(pair[2])
        /\ \A r \in PartGroups(pair, rev, 2) : \E i \in 1 .. Len(t) : t[i] = r
  <2>0. IsPart(pair, rev, 2)
    BY Parts
  <2>1. Part(pair, rev, 2) \in Seq(PartGroups(pair, rev, 2))
    BY <2>0 DEF IsPart
  <2>2. PartGroups(pair, rev, 2) \subseteq J
    BY DEF JoinedGroups
  <2>3. Part(pair, rev, 2) \in Seq(J)
    BY <2>1, <2>2
  <2> QED BY <2>0, <2>3 DEF IsPart
<1>3. Reconciled(pair, rev) = s \o t
  BY <1>1, <1>2 DEF Reconciled, Part
<1>4. PICK u \in Seq(J) : u = s \o t
  <2>1. s \o t \in Seq(J)
    OBVIOUS
  <2> QED BY <2>1
<1>5. /\ Len(u) = Len(s) + Len(t) /\ DOMAIN u = 1 .. Len(u)
      /\ \A i \in 1 .. Len(s) : u[i] = s[i]
      /\ \A i \in 1 .. Len(t) : u[Len(s) + i] = t[i]
      /\ \A i \in 1 .. Len(u) : i \in 1 .. Len(s) \/ i - Len(s) \in 1 .. Len(t)
  BY <1>4
<1>6. ToSet(u) = J
  <2>1. ToSet(u) \subseteq J
    BY <1>5 DEF ToSet
  <2>2. ASSUME NEW r \in J PROVE \E i \in 1 .. Len(u) : u[i] = r
    <3>1. CASE r \in PartGroups(pair, rev, 1)
      <4>1. PICK i \in 1 .. Len(s) : s[i] = r
        BY <1>1, <3>1
      <4> QED BY <1>5, <4>1
    <3>2. CASE r \in PartGroups(pair, rev, 2)
      <4>1. PICK i \in 1 .. Len(t) : t[i] = r
        BY <1>2, <3>2
      <4>2. Len(s) + i \in 1 .. Len(u)
        BY <1>5, <4>1
      <4> QED BY <1>5, <4>1, <4>2
    <3> QED BY <3>1, <3>2 DEF JoinedGroups
  <2> QED BY <1>5, <2>1, <2>2 DEF ToSet
<1>7. ASSUME Reconcilable(pair, rev), NEW i \in 1 .. Len(u), NEW j \in 1 .. Len(u),
             u[i].group.id = u[j].group.id
      PROVE  i = j
  <2>1. \A k \in 1 .. Len(s) : s[k].group = pair[1].groups[k]
    BY <1>1, JoinedFields
  <2>2. \A k \in 1 .. Len(t) : t[k].group = pair[2].groups[k]
    BY <1>2, JoinedFields
  <2>0. /\ BatchUsable(pair[1]) /\ BatchUsable(pair[2])
        /\ \A g \in GroupsOf(pair[1]), h \in GroupsOf(pair[2]) : g.id # h.id
    BY <1>7 DEF Reconcilable
  <2>8. /\ \A k, l \in 1 .. Len(s) : k # l => pair[1].groups[k].id # pair[1].groups[l].id
        /\ \A k, l \in 1 .. Len(t) : k # l => pair[2].groups[k].id # pair[2].groups[l].id
    <3>1. \A k, l \in DOMAIN pair[1].groups :
            k # l => pair[1].groups[k].id # pair[1].groups[l].id
      BY <2>0 DEF BatchUsable
    <3>2. \A k, l \in DOMAIN pair[2].groups :
            k # l => pair[2].groups[k].id # pair[2].groups[l].id
      BY <2>0 DEF BatchUsable
    <3>3. DOMAIN pair[1].groups = 1 .. Len(s) /\ DOMAIN pair[2].groups = 1 .. Len(t)
      BY <1>1, <1>2
    <3> QED BY <3>1, <3>2, <3>3
  <2>3. /\ \A k, l \in 1 .. Len(s) : s[k].group.id = s[l].group.id => k = l
        /\ \A k, l \in 1 .. Len(t) : t[k].group.id = t[l].group.id => k = l
    <3>1. ASSUME NEW k \in 1 .. Len(s), NEW l \in 1 .. Len(s), s[k].group.id = s[l].group.id
          PROVE  k = l
      <4>1. s[k].group = pair[1].groups[k] /\ s[l].group = pair[1].groups[l]
        BY <2>1
      <4> QED BY <2>8, <3>1, <4>1
    <3>2. ASSUME NEW k \in 1 .. Len(t), NEW l \in 1 .. Len(t), t[k].group.id = t[l].group.id
          PROVE  k = l
      <4>1. t[k].group = pair[2].groups[k] /\ t[l].group = pair[2].groups[l]
        BY <2>2
      <4> QED BY <2>8, <3>2, <4>1
    <3> QED BY <3>1, <3>2
  <2>4. ASSUME NEW k \in 1 .. Len(s), NEW l \in 1 .. Len(t) PROVE s[k].group.id # t[l].group.id
    <3>1. pair[1].groups[k] \in GroupsOf(pair[1]) /\ pair[2].groups[l] \in GroupsOf(pair[2])
      BY <1>1, <1>2
    <3> QED BY <2>0, <2>1, <2>2, <3>1
  <2>5. CASE i \in 1 .. Len(s) /\ j \in 1 .. Len(s)
    BY <1>5, <1>7, <2>3, <2>5
  <2>6. CASE i - Len(s) \in 1 .. Len(t) /\ j - Len(s) \in 1 .. Len(t)
    <3>1. u[i] = t[i - Len(s)] /\ u[j] = t[j - Len(s)]
      <4>1. Len(s) + (i - Len(s)) = i /\ Len(s) + (j - Len(s)) = j
        OBVIOUS
      <4> QED BY <1>5, <2>6, <4>1
    <3>2. t[i - Len(s)].group.id = t[j - Len(s)].group.id
      BY <1>7, <3>1
    <3>3. \A k, l \in 1 .. Len(t) : t[k].group.id = t[l].group.id => k = l
      BY <2>3
    <3>4. i - Len(s) = j - Len(s)
      <4> HIDE DEF J
      <4> QED BY <2>6, <3>2, <3>3, Zenon
    <3>5. i \in Int /\ j \in Int /\ Len(s) \in Int
      OBVIOUS
    <3> QED BY <3>4, <3>5
  <2>7. ASSUME NEW k \in 1 .. Len(s), NEW l \in 1 .. Len(u), l - Len(s) \in 1 .. Len(t)
        PROVE  u[k].group.id # u[l].group.id
    <3>1. u[l] = t[l - Len(s)]
      <4>1. Len(s) + (l - Len(s)) = l
        OBVIOUS
      <4> QED BY <1>5, <2>7, <4>1
    <3> QED BY <1>5, <2>4, <2>7, <3>1
  <2> QED BY <1>5, <1>7, <2>5, <2>6, <2>7
<1> HIDE DEF J
<1> QED BY <1>3, <1>4, <1>6, <1>7 DEF J

-----------------------------------------------------------------------------
GroupShaped(g) ==
  /\ DOMAIN g = {"id", "wellFormed", "label", "category", "paraphrases"}
  /\ g.paraphrases \in Seq(ToSet(g.paraphrases))
  /\ \A p \in ToSet(g.paraphrases) : DOMAIN p = {"id", "text"}

(* A revision changes texts.                                               *)
LEMMA RewordedGroup ==
  ASSUME NEW g, GroupShaped(g), NEW revision
  PROVE  /\ GroupShaped(Reworded(g, revision))
         /\ Reworded(g, revision).id = g.id
         /\ (\A i \in DOMAIN revision : revision[i].id # g.id) => Reworded(g, revision) = g
<1> DEFINE own == {i \in DOMAIN revision : revision[i].id = g.id}
           text(k) == revision[Max(own)].paraphrases[k].text
           new == [k \in DOMAIN g.paraphrases |-> [g.paraphrases[k] EXCEPT !.text = text(k)]]
<1>1. CASE own = {}
  BY <1>1 DEF Reworded
<1>2. CASE own # {}
  <2>1. Reworded(g, revision) = [g EXCEPT !.paraphrases = new]
    BY <1>2 DEF Reworded
  <2>2. PICK n \in Nat : n = Len(g.paraphrases) /\ DOMAIN g.paraphrases = 1 .. n
    BY DEF GroupShaped
  <2>3. \A k \in 1 .. n : DOMAIN g.paraphrases[k] = {"id", "text"}
    BY <2>2 DEF GroupShaped, ToSet
  <2> HIDE DEF text
  <2>4. DOMAIN new = 1 .. n /\ \A k \in 1 .. n : DOMAIN new[k] = {"id", "text"}
    BY <2>2, <2>3
  <2> HIDE DEF new
  <2>5. ToSet(new) = {new[k] : k \in 1 .. n} /\ new = [k \in 1 .. n |-> new[k]]
    BY <2>4 DEF ToSet, new
  <2>6. new \in Seq(ToSet(new)) /\ \A p \in ToSet(new) : DOMAIN p = {"id", "text"}
    <3>1. new \in [1 .. n -> ToSet(new)]
      BY <2>5
    <3>2. new \in Seq(ToSet(new))
      BY <3>1
    <3> QED BY <2>4, <2>5, <3>2
  <2>7. /\ DOMAIN [g EXCEPT !.paraphrases = new] = DOMAIN g
        /\ [g EXCEPT !.paraphrases = new].id = g.id
        /\ [g EXCEPT !.paraphrases = new].paraphrases = new
    BY DEF GroupShaped
  <2>8. \E i \in DOMAIN revision : revision[i].id = g.id
    BY <1>2
  <2> QED BY <2>1, <2>6, <2>7, <2>8 DEF GroupShaped
<1> QED BY <1>1, <1>2

LEMMA RevisedBatch ==
  ASSUME NEW batch, BatchShaped(batch), NEW revision
  PROVE  /\ BatchShaped(Revised(batch, revision))
         /\ DOMAIN Revised(batch, revision).groups = DOMAIN batch.groups
         /\ \A k \in DOMAIN batch.groups :
              Revised(batch, revision).groups[k] = Reworded(batch.groups[k], revision)
         /\ IdsUnique(Revised(batch, revision)) => IdsUnique(batch)
<1> DEFINE new == [k \in DOMAIN batch.groups |-> Reworded(batch.groups[k], revision)]
<1>1. Revised(batch, revision) = [batch EXCEPT !.groups = new]
  BY DEF Revised
<1>2. PICK n \in Nat : n = Len(batch.groups) /\ DOMAIN batch.groups = 1 .. n
  BY DEF BatchShaped
<1>3. \A k \in 1 .. n : GroupShaped(batch.groups[k])
  <2>1. \A k \in 1 .. n : batch.groups[k] \in GroupsOf(batch)
    BY <1>2 DEF GroupsOf, ToSet
  <2> QED BY <2>1 DEF BatchShaped, GroupShaped
<1>4. DOMAIN new = 1 .. n
      /\ \A k \in 1 .. n : /\ new[k] = Reworded(batch.groups[k], revision)
                           /\ GroupShaped(new[k]) /\ new[k].id = batch.groups[k].id
  BY <1>2, <1>3, RewordedGroup
<1>5. new = [k \in 1 .. n |-> new[k]]
  BY <1>2
<1> HIDE DEF new
<1>6. ToSet(new) = {new[k] : k \in 1 .. n}
  BY <1>4 DEF ToSet
<1>7. new \in Seq(ToSet(new)) /\ \A g \in ToSet(new) : GroupShaped(g)
  BY <1>4, <1>5, <1>6
<1>8. /\ DOMAIN [batch EXCEPT !.groups = new] = DOMAIN batch
      /\ [batch EXCEPT !.groups = new].groups = new
  BY DEF BatchShaped
<1>9. BatchShaped([batch EXCEPT !.groups = new])
  BY <1>7, <1>8 DEF BatchShaped, GroupShaped, GroupsOf
<1>10. IdsUnique([batch EXCEPT !.groups = new]) => IdsUnique(batch)
  BY <1>2, <1>4, <1>8 DEF IdsUnique
<1> QED BY <1>1, <1>2, <1>4, <1>8, <1>9, <1>10

LEMMA MismatchIsRejected ==
  ASSUME NEW pair, NEW rev, NEW b, NEW g,
         Joined(pair, rev, b, g).class = "PARAPHRASE_MISMATCH"
  PROVE  ~EntryOf(rev[b], g.id).equivalent
<1>1. Classify(pair[b], rev[b], g) = "PARAPHRASE_MISMATCH"
  BY JoinedFields
<1> QED BY <1>1 DEF Classify

LEMMA Revising ==
  ASSUME RevisionsAsked, BenchmarkInv, NEW b \in Side, Revise(b)
  PROVE  BenchmarkInv'
<1> USE DEF BenchmarkInv
<1>1. /\ Null \notin {reviews[1], reviews[2], worksheet} /\ decisions = Null
      /\ worksheet' = Null
      /\ UNCHANGED <<vars, shown, reviews, decisions, records, harness>>
  BY DEF Revise
<1>2. PICK revision \in Revisions(batches[b], Flagged(b)) :
        batches' = [batches EXCEPT ![b] = Revised(batches[b], revision)]
  BY DEF Revise
<1>3. batches'[b] = Revised(batches[b], revision)
      /\ \A c \in Side : c # b => batches'[c] = batches[c]
  BY <1>2 DEF PipelineType
<1>4. BatchShaped(batches[b])
  BY DEF PipelineType
<1>5. PipelineType'
  <2>1. DOMAIN batches' = Side /\ \A c \in Side : BatchShaped(batches'[c])
    BY <1>2, <1>3, <1>4, RevisedBatch DEF PipelineType
  <2> QED BY <1>1, <2>1 DEF PipelineType
(* What is reworded was flagged, and stays unequal for its reviewer.       *)
<1>6. ASSUME NEW i \in DOMAIN revision, NEW id, revision[i].id = id
      PROVE  ~EntryOf(reviews[b], id).equivalent
  <2>1. id \in Flagged(b)
    BY <1>2, <1>6 DEF RevisionsAsked
  <2>2. PICK r \in ToSet(Reconciled(batches, reviews)) :
          r.group.id = id /\ r.batch = b /\ r.class = "PARAPHRASE_MISMATCH"
    BY <2>1 DEF Flagged
  <2>3. r \in JoinedGroups(batches, reviews)
    <3>1. BatchShaped(batches[1]) /\ BatchShaped(batches[2])
      BY DEF PipelineType, Side
    <3> QED BY <2>2, <3>1, ReconciledGroups
  <2>4. PICK c, g : r = Joined(batches, reviews, c, g)
    BY <2>3 DEF JoinedGroups, PartGroups
  <2>5. c = b /\ g.id = id
    BY <2>2, <2>4, JoinedFields
  <2> QED BY <2>2, <2>4, <2>5, MismatchIsRejected
<1>7. ASSUME shown[b] # Null, IdsUnique(batches'[b]), NEW h \in GroupsOf(batches'[b])
      PROVE  /\ h.id \in DOMAIN shown[b]
             /\ \/ Texted(h) = shown[b][h.id]
                \/ reviews[b] # Null /\ ~EntryOf(reviews[b], h.id).equivalent
  <2>1. PICK k \in DOMAIN batches[b].groups : h = Reworded(batches[b].groups[k], revision)
    BY <1>3, <1>4, <1>7, RevisedBatch DEF GroupsOf, ToSet
  <2>2. PICK g \in GroupsOf(batches[b]) : g = batches[b].groups[k]
    BY DEF GroupsOf, ToSet
  <2>3. GroupShaped(g)
    BY <1>4, <2>2 DEF BatchShaped, GroupShaped
  <2>4. h.id = g.id /\ ((\A i \in DOMAIN revision : revision[i].id # g.id) => h = g)
    BY <2>1, <2>2, <2>3, RewordedGroup
  <2>5. IdsUnique(batches[b])
    BY <1>3, <1>4, <1>7, RevisedBatch
  <2>6. /\ g.id \in DOMAIN shown[b]
        /\ \/ Texted(g) = shown[b][g.id]
           \/ reviews[b] # Null /\ ~EntryOf(reviews[b], g.id).equivalent
    BY <1>7, <2>5 DEF SeenOrRejected
  <2>7. CASE \E i \in DOMAIN revision : revision[i].id = g.id
    <3>1. ~EntryOf(reviews[b], g.id).equivalent
      BY <1>6, <2>7
    <3>2. reviews[b] # Null
      BY <1>1 DEF Side
    <3> QED BY <2>4, <2>6, <3>1, <3>2
  <2>8. CASE \A i \in DOMAIN revision : revision[i].id # g.id
    BY <2>4, <2>6, <2>8
  <2> QED BY <2>7, <2>8
<1>8. SeenOrRejected'
  BY <1>1, <1>3, <1>7 DEF SeenOrRejected
<1>9. WorksheetCurrent'
  BY <1>1 DEF WorksheetCurrent
<1> QED BY <1>1, <1>5, <1>8, <1>9, InputsFixed

-----------------------------------------------------------------------------
(* A list of pairs, flattened: w is u followed by v.                       *)
IsAppended(w, u, v, m, k, X) ==
  /\ w \in [1 .. m + k -> X]
  /\ \A p \in 1 .. m : w[p] = u[p]
  /\ \A p \in 1 .. k : w[m + p] = v[p]

LEMMA Appended ==
  ASSUME NEW X, NEW m \in Nat, NEW k \in Nat, NEW u \in [1 .. m -> X], NEW v \in [1 .. k -> X]
  PROVE  IsAppended(u \o v, u, v, m, k, X)
<1>1. u \in Seq(X) /\ v \in Seq(X)
  OBVIOUS
<1>2. Len(u) = m /\ Len(v) = k
  BY <1>1, LenProperties
<1>3. PICK w \in Seq(X) : w = u \o v
  <2>1. u \o v \in Seq(X)
    BY <1>1, ConcatProperties
  <2> QED BY <2>1
<1>4. /\ Len(w) = m + k
      /\ \A i \in 1 .. m + k : w[i] = IF i <= m THEN u[i] ELSE v[i - m]
  <2>1. /\ Len(u \o v) = Len(u) + Len(v)
        /\ \A i \in 1 .. Len(u) + Len(v) : (u \o v)[i] = IF i <= Len(u) THEN u[i] ELSE v[i - Len(u)]
    BY <1>1, ConcatProperties
  <2> QED BY <1>2, <1>3, <2>1
<1>5. w \in [1 .. m + k -> X]
  BY <1>4, LenProperties
<1>6. \A p \in 1 .. k : w[m + p] = v[p]
  BY <1>4
<1> QED BY <1>3, <1>4, <1>5, <1>6 DEF IsAppended

(* f is the first m pairs of ss one after the other.                       *)
Flat(f, ss, m, X) ==
  /\ f \in [1 .. 2 * m -> X]
  /\ \A i \in 1 .. m : f[2 * i - 1] = ss[i][1] /\ f[2 * i] = ss[i][2]

LEMMA FlatUnique ==
  ASSUME NEW X, NEW ss, NEW m \in Nat, NEW f, NEW g, Flat(f, ss, m, X), Flat(g, ss, m, X)
  PROVE  f = g
<1>1. ASSUME NEW p \in 1 .. 2 * m PROVE f[p] = g[p]
  <2>1. PICK i \in 1 .. m : p = 2 * i - 1 \/ p = 2 * i
    <3>1. (p + 1) \div 2 \in 1 .. m
      OBVIOUS
    <3>2. p = 2 * ((p + 1) \div 2) - 1 \/ p = 2 * ((p + 1) \div 2)
      OBVIOUS
    <3> QED BY <3>1, <3>2
  <2> QED BY <2>1 DEF Flat
<1> QED BY <1>1 DEF Flat

LEMMA FlatAppended ==
  ASSUME NEW X, NEW n \in Nat, NEW ss \in [1 .. n -> [1 .. 2 -> X]],
         NEW m \in Nat, m < n, NEW f, Flat(f, ss, m, X)
  PROVE  Flat(f \o ss[m + 1], ss, m + 1, X)
<1>0. ss[m + 1] \in [1 .. 2 -> X] /\ f \in [1 .. 2 * m -> X] /\ 2 * m \in Nat /\ 2 \in Nat
  BY DEF Flat
<1>1. PICK g : g = f \o ss[m + 1]
  OBVIOUS
<1>2. /\ g \in [1 .. 2 * m + 2 -> X]
      /\ \A p \in 1 .. 2 * m : g[p] = f[p]
      /\ \A p \in 1 .. 2 : g[2 * m + p] = ss[m + 1][p]
  <2>1. PICK k \in Nat, l \in Nat : k = 2 * m /\ l = 2
    BY <1>0
  <2>2. f \in [1 .. k -> X] /\ ss[m + 1] \in [1 .. l -> X]
    BY <1>0, <2>1
  <2>3. /\ g \in [1 .. k + l -> X]
        /\ \A p \in 1 .. k : g[p] = f[p]
        /\ \A p \in 1 .. l : g[k + p] = ss[m + 1][p]
    <3>1. IsAppended(f \o ss[m + 1], f, ss[m + 1], k, l, X)
      BY <2>2, Appended
    <3> QED BY <1>1, <3>1 DEF IsAppended
  <2> QED BY <2>1, <2>3
<1>3. ASSUME NEW i \in 1 .. m + 1 PROVE g[2 * i - 1] = ss[i][1] /\ g[2 * i] = ss[i][2]
  <2>1. CASE i = m + 1
    <3>1. g[2 * m + 1] = ss[m + 1][1] /\ g[2 * m + 2] = ss[m + 1][2]
      BY <1>2
    <3>2. 2 * i - 1 = 2 * m + 1 /\ 2 * i = 2 * m + 2
      BY <2>1
    <3> QED BY <2>1, <3>1, <3>2
  <2>2. CASE i \in 1 .. m
    <3>1. 2 * i - 1 \in 1 .. 2 * m /\ 2 * i \in 1 .. 2 * m
      BY <2>2
    <3> QED BY <1>2, <2>2, <3>1 DEF Flat
  <2> QED BY <2>1, <2>2
<1>4. 2 * (m + 1) = 2 * m + 2
  OBVIOUS
<1> QED BY <1>1, <1>2, <1>3, <1>4 DEF Flat

LEMMA FlatExists ==
  ASSUME NEW X, NEW n \in Nat, NEW ss \in [1 .. n -> [1 .. 2 -> X]]
  PROVE  \A m \in 1 .. n : \E f : Flat(f, ss, m, X)
<1> DEFINE Built == {m \in Nat : m <= n => \E f : Flat(f, ss, m, X)}
<1>1. 0 \in Built
  <2>1. Flat([p \in 1 .. 0 |-> p], ss, 0, X)
    BY DEF Flat
  <2> QED BY <2>1
<1>2. ASSUME NEW m \in Nat, m \in Built PROVE m + 1 \in Built
  BY <1>2, FlatAppended
<1> HIDE DEF Built
<1>3. \A m \in Nat : m \in Built
  BY <1>1, <1>2, SetInduction
<1> QED BY <1>3 DEF Built

LEMMA PairsFlattened ==
  ASSUME NEW X, NEW n \in Nat, NEW ss \in [1 .. n -> [1 .. 2 -> X]]
  PROVE  Flat(FlattenSeq(ss), ss, n, X)
<1>1. Len(ss) = n
  <2>1. ss \in Seq([1 .. 2 -> X])
    OBVIOUS
  <2> QED BY <2>1, LenProperties
<1>2. CASE n = 0
  BY <1>1, <1>2 DEF FlattenSeq, Flat
<1>3. CASE n # 0
  <2> DEFINE first(m) == CHOOSE f : Flat(f, ss, m, X)
             flat == [m \in 1 .. n |-> first(m)]
             up == CHOOSE up : up = [m \in 1 .. n |-> IF m = 1 THEN ss[m] ELSE up[m - 1] \o ss[m]]
  <2>1. \A m \in 1 .. n : Flat(flat[m], ss, m, X)
    BY FlatExists
  <2> HIDE DEF flat
  <2>2. flat[1] = ss[1]
    <3>1. Flat(ss[1], ss, 1, X)
      BY <1>3 DEF Flat
    <3> QED BY <1>3, <2>1, <3>1, FlatUnique
  <2>3. ASSUME NEW m \in 1 .. n, m # 1 PROVE flat[m] = flat[m - 1] \o ss[m]
    <3>1. PICK k \in 1 .. n - 1 : m = k + 1 /\ m - 1 = k
      BY <2>3
    <3>2. Flat(flat[k] \o ss[k + 1], ss, k + 1, X)
      BY <2>1, FlatAppended
    <3>3. k + 1 \in Nat /\ Flat(flat[k + 1], ss, k + 1, X)
      BY <2>1, <3>1
    <3>4. flat[k + 1] = flat[k] \o ss[k + 1]
      BY <3>2, <3>3, FlatUnique
    <3> QED BY <3>1, <3>4
  <2>4. flat = [m \in 1 .. n |-> IF m = 1 THEN ss[m] ELSE flat[m - 1] \o ss[m]]
    <3>1. flat = [m \in 1 .. n |-> flat[m]]
      BY DEF flat
    <3> QED BY <2>2, <2>3, <3>1
  <2>5. up = [m \in 1 .. n |-> IF m = 1 THEN ss[m] ELSE up[m - 1] \o ss[m]]
    BY <2>4
  <2>6. FlattenSeq(ss) = up[n]
    BY <1>1, <1>3 DEF FlattenSeq
  <2> HIDE DEF up
  <2> DEFINE Agree == {m \in Nat : m + 1 <= n => up[m + 1] = flat[m + 1]}
  <2>7. 0 \in Agree
    BY <2>2, <2>5
  <2>8. ASSUME NEW m \in Nat, m \in Agree PROVE m + 1 \in Agree
    <3> SUFFICES ASSUME m + 1 + 1 <= n PROVE up[m + 1 + 1] = flat[m + 1 + 1]
      OBVIOUS
    <3>1. PICK k \in 1 .. n : k = m + 1 + 1 /\ k - 1 = m + 1 /\ k # 1
      OBVIOUS
    <3>2. up[k] = up[k - 1] \o ss[k] /\ flat[k] = flat[k - 1] \o ss[k]
      BY <2>3, <2>5, <3>1
    <3>3. up[m + 1] = flat[m + 1]
      BY <2>8
    <3> QED BY <3>1, <3>2, <3>3
  <2> HIDE DEF Agree
  <2>9. n - 1 \in Agree
    BY <1>3, <2>7, <2>8, SetInduction
  <2>10. up[n] = flat[n]
    BY <1>3, <2>9 DEF Agree
  <2> QED BY <1>3, <2>1, <2>6, <2>10
<1> QED BY <1>2, <1>3

-----------------------------------------------------------------------------
(* What has passed the checks of the decisions.                            *)
LEMMA Agreement ==
  ASSUME NEW pair, NEW rev, NEW b, NEW g,
         Joined(pair, rev, b, g).class = "FULL_AGREEMENT"
  PROVE  /\ ~Structural(pair[b], g) /\ ~FieldsDiffer(g, EntryOf(rev[b], g.id))
         /\ EntryOf(rev[b], g.id).action = g.label.action
         /\ EntryOf(rev[b], g.id).equivalent
<1>1. Classify(pair[b], rev[b], g) = "FULL_AGREEMENT"
  BY JoinedFields
<1> QED BY <1>1 DEF Classify

(* A group is in the final set for a reconciled group and what is decided. *)
Stands(f, r) ==
  /\ f = FinalGroup(r, DecisionOn(decisions, r.group.id))
  /\ f.source # "excluded"
  /\ Resolved(r, DecisionOn(decisions, r.group.id), reviews[r.batch])

FinalStands(final) ==
  /\ final \in Seq(ToSet(final))
  /\ \A i \in 1 .. Len(final) : \E r \in JoinedGroups(batches, reviews) : Stands(final[i], r)
  /\ \A i, j \in 1 .. Len(final) : final[i].id = final[j].id => i = j

LEMMA FinalGroupId ==
  ASSUME NEW r, NEW d
  PROVE  FinalGroup(r, d).id = r.group.id
BY Zenon DEF FinalGroup

LEMMA FinalGroups ==
  ASSUME PipelineType, Reconcilable(batches, reviews), Accepted(batches, reviews, decisions)
  PROVE  FinalStands(Final)
<1> DEFINE J == JoinedGroups(batches, reviews)
           whole(r) == FinalGroup(r, DecisionOn(decisions, r.group.id))
           X == {whole(r) : r \in J}
<1>1. PICK rec \in Seq(J) :
        /\ rec = Reconciled(batches, reviews) /\ ToSet(rec) = J
        /\ \A i, j \in 1 .. Len(rec) : rec[i].group.id = rec[j].group.id => i = j
  <2>1. BatchShaped(batches[1]) /\ BatchShaped(batches[2])
    BY DEF PipelineType, Side
  <2> QED BY <2>1, ReconciledGroups
<1>2. PICK n \in Nat : n = Len(rec) /\ DOMAIN rec = 1 .. n
  BY LenProperties
<1>3. \A i \in 1 .. n : rec[i] \in J
  BY <1>1, <1>2
<1> DEFINE all == [i \in 1 .. n |-> whole(rec[i])]
           kept == {f \in ToSet(all) : f.source # "excluded"}
<1>4. Final = Filter(all, kept)
  BY <1>1, <1>2 DEF Final, FinalSet
<1>5. \A r \in J : Resolved(r, DecisionOn(decisions, r.group.id), reviews[r.batch])
  BY <1>1 DEF Accepted
<1>6. /\ \A i \in 1 .. n : all[i] = whole(rec[i]) /\ all[i].id = rec[i].group.id /\ all[i] \in X
      /\ DOMAIN all = 1 .. n
  BY <1>3, FinalGroupId
<1>7. all \in [1 .. n -> X]
  BY <1>3
<1> HIDE DEF all
<1>8. all \in Seq(X) /\ Len(all) = n
  <2>1. all \in Seq(X)
    BY <1>7
  <2> QED BY <1>7, <2>1, LenProperties
<1>9. \A i, j \in 1 .. Len(all) : all[i] = all[j] => i = j
  BY <1>1, <1>2, <1>6, <1>8
<1> HIDE DEF X
<1>10. PICK t \in Seq(X) : t = Filter(all, kept)
  BY <1>8, FilterSelects
<1>11. \A i, j \in 1 .. Len(t) : t[i] = t[j] => i = j
  BY <1>8, <1>9, <1>10, FilterDistinct
<1>12. \A k \in 1 .. Len(t) : t[k] \in kept /\ \E i \in 1 .. Len(all) : t[k] = all[i]
  <2>1. \A k \in 1 .. Len(Filter(all, kept)) :
          Filter(all, kept)[k] \in kept /\ \E i \in 1 .. Len(all) : Filter(all, kept)[k] = all[i]
    <3> HIDE DEF kept
    <3> QED BY <1>8, FilterMembers
  <2> QED BY <1>10, <2>1
<1>13. \A i, j \in 1 .. Len(t) : t[i].id = t[j].id => i = j
  BY <1>1, <1>2, <1>6, <1>8, <1>11, <1>12
<1>14. ASSUME NEW k \in 1 .. Len(t) PROVE \E r \in J : Stands(t[k], r)
  <2>1. PICK i \in 1 .. n : t[k] = all[i]
    BY <1>8, <1>12
  <2>2. t[k] = whole(rec[i]) /\ t[k].source # "excluded" /\ rec[i] \in J
    BY <1>3, <1>6, <1>12, <2>1
  <2>3. Stands(t[k], rec[i])
    BY <1>5, <2>2 DEF Stands
  <2> QED BY <2>2, <2>3
<1>15. t \in Seq(ToSet(t))
  <2>1. PICK m \in Nat : m = Len(t) /\ DOMAIN t = 1 .. m /\ t \in [1 .. m -> X]
    BY LenProperties
  <2>2. t \in [1 .. m -> ToSet(t)]
    BY <2>1 DEF ToSet
  <2> QED BY <2>1, <2>2
<1> QED BY <1>4, <1>10, <1>13, <1>14, <1>15 DEF FinalStands

-----------------------------------------------------------------------------
LEMMA JoinedShaped ==
  ASSUME PipelineType, NEW r \in JoinedGroups(batches, reviews)
  PROVE  \E b \in Side : \E g \in GroupsOf(batches[b]) :
           r = Joined(batches, reviews, b, g) /\ r.batch = b /\ r.group = g /\ GroupShaped(g)
<1>1. \A b \in Side : \A g \in GroupsOf(batches[b]) : GroupShaped(g)
  BY DEF PipelineType, BatchShaped, GroupShaped
<1>2. PICK b \in Side : \E g \in GroupsOf(batches[b]) : r = Joined(batches, reviews, b, g)
  BY DEF JoinedGroups, PartGroups, Side
<1>4. PICK g \in GroupsOf(batches[b]) : r = Joined(batches, reviews, b, g)
  BY <1>2
<1>3. r.batch = b /\ r.group = g
  BY <1>4, JoinedFields
<1> QED BY <1>1, <1>3, <1>4

LEMMA SequenceDomain ==
  ASSUME NEW s, s \in Seq(ToSet(s)), Len(s) = 2
  PROVE  DOMAIN s = 1 .. 2
BY LenProperties

LEMMA EditedTexts ==
  ASSUME NEW g, GroupShaped(g), NEW overrides
  PROVE  /\ Len(Edited(g.paraphrases, overrides)) = 2 =>
              DOMAIN Edited(g.paraphrases, overrides) = 1 .. 2
         /\ \A k \in DOMAIN Edited(g.paraphrases, overrides) :
              Edited(g.paraphrases, overrides)[k].text
                \in Texts(g) \cup {overrides[q] : q \in DOMAIN overrides}
<1>1. PICK n \in Nat : n = Len(g.paraphrases) /\ DOMAIN g.paraphrases = 1 .. n
  BY DEF GroupShaped
<1>2. PICK e : e = Edited(g.paraphrases, overrides)
  OBVIOUS
<1>3. e = [i \in 1 .. n |-> IF g.paraphrases[i].id \in DOMAIN overrides
                            THEN [g.paraphrases[i] EXCEPT !.text = overrides[g.paraphrases[i].id]]
                            ELSE g.paraphrases[i]]
  BY <1>1, <1>2 DEF Edited
<1>4. DOMAIN e = 1 .. n
  BY <1>3
<1>5. Len(e) = n
  <2>1. e \in [1 .. n -> ToSet(e)]
    BY <1>3, <1>4 DEF ToSet
  <2>2. e \in Seq(ToSet(e))
    BY <2>1
  <2> QED BY <2>1, <2>2, LenProperties
<1>6. ASSUME NEW k \in 1 .. n
      PROVE  e[k].text \in Texts(g) \cup {overrides[q] : q \in DOMAIN overrides}
  <2>1. g.paraphrases[k] \in ToSet(g.paraphrases)
    BY <1>1 DEF ToSet
  <2>2. "text" \in DOMAIN g.paraphrases[k]
    BY <2>1 DEF GroupShaped
  <2>3. g.paraphrases[k].text \in Texts(g)
    BY <1>1 DEF Texts
  <2>4. CASE g.paraphrases[k].id \in DOMAIN overrides
    <3>1. e[k].text = overrides[g.paraphrases[k].id]
      BY <1>3, <2>2, <2>4
    <3> QED BY <2>4, <3>1
  <2>5. CASE g.paraphrases[k].id \notin DOMAIN overrides
    BY <1>3, <2>3, <2>5
  <2> QED BY <2>4, <2>5
<1> QED BY <1>2, <1>4, <1>5, <1>6

(* A standing group is made of the group that both models agreed on, or of *)
(* what was decided.                                                       *)
MadeOf(f, r, d) ==
  /\ f.id = r.group.id
  /\ d = NoDecision =>
       /\ r.class = "FULL_AGREEMENT" /\ f.paraphrases = r.group.paraphrases
       /\ f.action = r.group.label.action /\ f.fields = r.group.label.fields
       /\ f.action = "REJECT" => f.invalid = r.group.label.invalid
  /\ d # NoDecision =>
       /\ d.resolution # "exclude" /\ d.equivalent
       /\ GoldSound(d.label.action, d.label.fields, d.label.invalid)
       /\ f.paraphrases = Edited(r.group.paraphrases, d.overrides)
       /\ Len(f.paraphrases) = 2
       /\ f.action = d.label.action /\ f.fields = d.label.fields
       /\ f.action = "REJECT" => f.invalid = d.label.invalid

LEMMA Standing ==
  ASSUME NEW r, NEW f, Stands(f, r)
  PROVE  MadeOf(f, r, DecisionOn(decisions, r.group.id))
<1>1. PICK d : d = DecisionOn(decisions, r.group.id)
  OBVIOUS
<1>2. f = FinalGroup(r, d) /\ f.source # "excluded" /\ Resolved(r, d, reviews[r.batch])
  BY <1>1 DEF Stands
<1>3. CASE d = NoDecision
  BY <1>1, <1>2, <1>3 DEF FinalGroup, Resolved, MadeOf
<1>4. CASE d # NoDecision
  <2>1. d.resolution # "exclude"
    BY <1>2, <1>4 DEF FinalGroup
  <2> QED BY <1>1, <1>2, <1>4, <2>1 DEF FinalGroup, Resolved, MadeOf
<1> QED BY <1>3, <1>4

LEMMA TwoParaphrases ==
  ASSUME PipelineType, NEW r \in JoinedGroups(batches, reviews), NEW f, Stands(f, r)
  PROVE  DOMAIN f.paraphrases = 1 .. 2
<1>1. PICK b, g : r = Joined(batches, reviews, b, g) /\ r.group = g /\ GroupShaped(g)
  BY JoinedShaped
<1>2. PICK d : MadeOf(f, r, d)
  BY Standing
<1>3. CASE d = NoDecision
  <2>1. r.class = "FULL_AGREEMENT" /\ f.paraphrases = g.paraphrases
    BY <1>1, <1>2, <1>3 DEF MadeOf
  <2>2. ~Structural(batches[b], g)
    BY <1>1, <2>1, Agreement
  <2>3. Len(g.paraphrases) = 2
    BY <2>2 DEF Structural
  <2> QED BY <1>1, <2>1, <2>3, SequenceDomain DEF GroupShaped
<1>4. CASE d # NoDecision
  <2>1. f.paraphrases = Edited(g.paraphrases, d.overrides) /\ Len(f.paraphrases) = 2
    BY <1>1, <1>2, <1>4 DEF MadeOf
  <2> QED BY <1>1, <2>1, EditedTexts
<1> QED BY <1>3, <1>4

-----------------------------------------------------------------------------
(* Every paraphrase of the final set has one place among the sealed        *)
(* records, and every sealed record is one.                                *)
Places(final) == (1 .. Len(final)) \X (1 .. 2)

Arranges(at, sealed, final) ==
  /\ sealed \in Seq(ToSet(sealed)) /\ Len(sealed) = 2 * Len(final)
  /\ at \in Bijection(Places(final), 1 .. Len(sealed))
  /\ \A i \in 1 .. Len(final), j \in 1 .. 2 : sealed[at[<<i, j>>]] = SourceItem(final[i], j)

LEMMA SealedArranged ==
  ASSUME ShufflesAll, NEW final, final \in Seq(ToSet(final)),
         \A i \in 1 .. Len(final) : DOMAIN final[i].paraphrases = 1 .. 2, NEW s \in Sealer
  PROVE  \E at : Arranges(at, SealedRecords(final, s), final)
<1>1. PICK n \in Nat : n = Len(final) /\ DOMAIN final = 1 .. n
  OBVIOUS
<1> DEFINE X == {SourceItem(final[i], 1) : i \in 1 .. n} \cup {SourceItem(final[i], 2) : i \in 1 .. n}
           ss == [i \in 1 .. n |-> [k \in 1 .. 2 |-> SourceItem(final[i], k)]]
<1>2. ss \in [1 .. n -> [1 .. 2 -> X]]
  OBVIOUS
<1>3. SourceItems(final) = FlattenSeq(ss)
  <2>1. \A i \in 1 .. n : DOMAIN final[i].paraphrases = 1 .. 2
    BY <1>1
  <2> QED BY <1>1, <2>1 DEF SourceItems
<1>4. PICK items : items = SourceItems(final) /\ Flat(items, ss, n, X)
  <2> HIDE DEF ss, X
  <2> QED BY <1>2, <1>3, PairsFlattened
<1>5. /\ items \in [1 .. 2 * n -> X]
      /\ \A i \in 1 .. n, j \in 1 .. 2 : items[2 * i - 2 + j] = SourceItem(final[i], j)
  <2>1. \A i \in 1 .. n : items[2 * i - 1] = ss[i][1] /\ items[2 * i] = ss[i][2]
    BY <1>4 DEF Flat
  <2>2. ASSUME NEW i \in 1 .. n, NEW j \in 1 .. 2 PROVE items[2 * i - 2 + j] = SourceItem(final[i], j)
    <3>1. j = 1 \/ j = 2
      OBVIOUS
    <3>2. ss[i][j] = SourceItem(final[i], j)
      OBVIOUS
    <3>3. CASE j = 1
      <4>1. 2 * i - 2 + j = 2 * i - 1
        BY <3>3
      <4> QED BY <2>1, <3>2, <3>3, <4>1
    <3>4. CASE j = 2
      <4>1. 2 * i - 2 + j = 2 * i
        BY <3>4
      <4> QED BY <2>1, <3>2, <3>4, <4>1
    <3> QED BY <3>1, <3>3, <3>4
  <2> QED BY <1>4, <2>2 DEF Flat
<1> HIDE DEF ss, X
<1>6. PICK l \in Nat : l = 2 * n /\ Len(items) = l /\ DOMAIN items = 1 .. l
  <2>1. PICK l \in Nat : l = 2 * n
    OBVIOUS
  <2>2. items \in [1 .. l -> X]
    BY <1>5, <2>1
  <2>3. items \in Seq(X)
    BY <2>2
  <2> QED BY <2>1, <2>2, <2>3, LenProperties
<1>7. PICK order : order = Order(s, l)
  OBVIOUS
<1>8. order \in Surjection(1 .. l, 1 .. l)
  BY <1>7 DEF ShufflesAll, Surjection
<1>9. order \in Injection(1 .. l, 1 .. l)
  BY <1>8, FS_Interval, FS_SurjSameCardinalityImpliesInj
<1>10. PICK sealed : sealed = SealedRecords(final, s)
  OBVIOUS
<1>11. sealed = [k \in 1 .. l |-> items[order[k]]]
  BY <1>4, <1>6, <1>7, <1>10 DEF SealedRecords
<1>12. sealed \in Seq(ToSet(sealed)) /\ Len(sealed) = 2 * Len(final) /\ Len(sealed) = l
  <2>1. DOMAIN sealed = 1 .. l
    BY <1>11
  <2>2. sealed \in [1 .. l -> ToSet(sealed)]
    BY <1>11, <2>1 DEF ToSet
  <2>3. sealed \in Seq(ToSet(sealed))
    BY <2>2
  <2> QED BY <1>1, <1>6, <2>1, <2>3, LenProperties
<1> DEFINE at == [q \in Places(final) |-> CHOOSE k \in 1 .. l : order[k] = 2 * q[1] - 2 + q[2]]
<1>13. \A q \in Places(final) : at[q] \in 1 .. l /\ order[at[q]] = 2 * q[1] - 2 + q[2]
  <2> SUFFICES ASSUME NEW q \in Places(final)
               PROVE  at[q] \in 1 .. l /\ order[at[q]] = 2 * q[1] - 2 + q[2]
    OBVIOUS
  <2>1. q[1] \in 1 .. n /\ q[2] \in 1 .. 2
    BY <1>1 DEF Places
  <2>2. 2 * q[1] - 2 + q[2] \in 1 .. l
    BY <1>6, <2>1
  <2>3. \E k \in 1 .. l : order[k] = 2 * q[1] - 2 + q[2]
    BY <1>8, <2>2 DEF Surjection
  <2> QED BY <2>3
<1>14. at \in [Places(final) -> 1 .. l]
  BY <1>13
<1> HIDE DEF at
<1>15. at \in Injection(Places(final), 1 .. l)
  <2>1. ASSUME NEW p \in Places(final), NEW q \in Places(final), at[p] = at[q] PROVE p = q
    <3>1. PICK i \in 1 .. n, j \in 1 .. 2 : p = <<i, j>>
      BY <1>1 DEF Places
    <3>2. PICK a \in 1 .. n, b \in 1 .. 2 : q = <<a, b>>
      BY <1>1 DEF Places
    <3>3. 2 * i - 2 + j = 2 * a - 2 + b
      BY <1>13, <2>1, <3>1, <3>2
    <3>4. i = a /\ j = b
      BY <3>3
    <3> QED BY <3>1, <3>2, <3>4
  <2> QED BY <1>14, <2>1 DEF Injection, IsInjective
<1>16. at \in Surjection(Places(final), 1 .. l)
  <2>1. ASSUME NEW k \in 1 .. l PROVE \E q \in Places(final) : at[q] = k
    <3>1. order[k] \in 1 .. 2 * n
      BY <1>6, <1>8 DEF Surjection
    <3>2. PICK i \in 1 .. n, j \in 1 .. 2 : order[k] = 2 * i - 2 + j
      <4>1. PICK p \in 1 .. 2 * n : p = order[k]
        BY <3>1
      <4>2. (p + 1) \div 2 \in 1 .. n /\ p - 2 * ((p + 1) \div 2) + 2 \in 1 .. 2
        OBVIOUS
      <4>3. p = 2 * ((p + 1) \div 2) - 2 + (p - 2 * ((p + 1) \div 2) + 2)
        OBVIOUS
      <4> QED BY <4>1, <4>2, <4>3
    <3>3. <<i, j>> \in Places(final)
      BY <1>1 DEF Places
    <3>4. order[at[<<i, j>>]] = order[k] /\ at[<<i, j>>] \in 1 .. l
      BY <1>13, <3>2, <3>3
    <3>5. at[<<i, j>>] = k
      BY <1>9, <3>4 DEF Injection, IsInjective
    <3> QED BY <3>3, <3>5
  <2> QED BY <1>14, <2>1 DEF Surjection
<1>17. ASSUME NEW i \in 1 .. n, NEW j \in 1 .. 2
       PROVE  sealed[at[<<i, j>>]] = SourceItem(final[i], j)
  <2>1. <<i, j>> \in Places(final)
    BY <1>1 DEF Places
  <2>2. at[<<i, j>>] \in 1 .. l /\ order[at[<<i, j>>]] = 2 * i - 2 + j
    BY <1>13, <2>1
  <2> QED BY <1>5, <1>11, <2>2
<1>18. at \in Bijection(Places(final), 1 .. Len(sealed))
  BY <1>12, <1>15, <1>16 DEF Bijection
<1>19. Arranges(at, sealed, final)
  BY <1>1, <1>12, <1>17, <1>18 DEF Arranges
<1> QED BY <1>10, <1>19

-----------------------------------------------------------------------------
LEMMA BenchmarkStep ==
  ASSUME RevisionsAsked, BenchmarkInv, SealingInv, [BNext]_allvars
  PROVE  BenchmarkInv'
<1>1. ASSUME NEW b \in Side, Blind(b) \/ Review(b) \/ Revise(b)
      PROVE  BenchmarkInv'
  BY <1>1, Blinding, Reviewing, Revising
<1>2. CASE Reconcile \/ Decide
  BY <1>2, Reconciling, Deciding
<1>3. ASSUME NEW s \in Sealer, SealerStep(s) \/ CrashSeal(s)
      PROVE  BenchmarkInv'
  BY <1>3, Starting, Preparing, Writing DEF SealerStep
<1>4. CASE ClearSeal \/ \E f \in File : EditSealed(f)
  BY <1>4, ClearingOrEditing
<1>5. CASE StartExport \/ ReadSeal \/ RefuseExport \/ FinishExport
  BY <1>5, Exporting
<1>6. CASE UNCHANGED allvars
  <2>1. UNCHANGED <<vars, inputs, records, harness>>
    BY <1>6 DEF allvars
  <2>2. UNCHANGED <<batches, shown, reviews, worksheet, decisions>>
    BY <2>1 DEF inputs
  <2>3. PipelineType' /\ SeenOrRejected' /\ WorksheetCurrent'
    BY <2>1, InputsKept DEF BenchmarkInv, PipelineType
  <2> QED BY <2>1, <2>2, <2>3, InputsFixed DEF BenchmarkInv
<1> QED BY <1>1, <1>2, <1>3, <1>4, <1>5, <1>6 DEF BNext

(* The inductive invariant of the benchmark, from its batches to the       *)
(* export (reconcile.py:283-427, seal.py:329-470, harness.py:63-135).      *)
THEOREM BenchmarkInductive ==
  ASSUME RevisionsAsked
  PROVE  BSpec => []BenchmarkInv
<1>1. BInit => Init /\ BenchmarkInv
  BY InitBenchmark DEF BInit
<1>2. BSpec => []SealingInv
  BY <1>1, SealingSteps, SealingInductive, PTL DEF BSpec, Spec
<1>3. SealingInv /\ BenchmarkInv /\ [BNext]_allvars => BenchmarkInv'
  BY BenchmarkStep
<1> QED BY <1>1, <1>2, <1>3, PTL DEF BSpec

-----------------------------------------------------------------------------
(* The records of a run that was cleared.                                  *)
LEMMA ClearedReconciles ==
  ASSUME WorksheetCurrent, NEW s \in Sealer, Cleared(s)
  PROVE  /\ Reconcilable(batches, reviews) /\ worksheet = Pending(Reconciled(batches, reviews))
         /\ \A b \in Side : reviews[b] # Null /\ shown[b] # Null
<1>1. /\ Null \notin {reviews[1], reviews[2]} /\ Reconcilable(batches, reviews)
      /\ worksheet = Pending(Reconciled(batches, reviews))
  BY DEF WorksheetCurrent, Cleared
<1>2. \A b \in Side : b = 1 \/ b = 2
  BY DEF Side
<1> QED BY <1>1, <1>2 DEF WorksheetCurrent

LEMMA ClearedArranged ==
  ASSUME ShufflesAll, PipelineType, WorksheetCurrent, NEW s \in Sealer, Cleared(s)
  PROVE  FinalStands(Final) /\ \E at : Arranges(at, SealedRecords(Final, s), Final)
<1>1. FinalStands(Final)
  BY ClearedReconciles, FinalGroups DEF Cleared
<1>2. PICK final : final = Final
  OBVIOUS
<1>3. \A i \in 1 .. Len(final) : DOMAIN final[i].paraphrases = 1 .. 2
  BY <1>1, <1>2, TwoParaphrases DEF FinalStands
<1>4. \E at : Arranges(at, SealedRecords(final, s), final)
  BY <1>1, <1>2, <1>3, SealedArranged DEF FinalStands
<1> QED BY <1>1, <1>2, <1>4

LEMMA SealedRecord ==
  ASSUME ShufflesAll, PipelineType, WorksheetCurrent, NEW s \in Sealer, Cleared(s),
         NEW record \in ToSet(SealedRecords(Final, s))
  PROVE  \E r \in JoinedGroups(batches, reviews), j \in 1 .. 2 : \E f :
           Stands(f, r) /\ DOMAIN f.paraphrases = 1 .. 2 /\ record = SourceItem(f, j)
<1>1. PICK final, sealed : final = Final /\ sealed = SealedRecords(Final, s)
  OBVIOUS
<1>2. FinalStands(final) /\ \E at : Arranges(at, sealed, final)
  BY <1>1, ClearedArranged
<1>3. PICK at : Arranges(at, sealed, final)
  BY <1>2
<1>4. PICK k \in 1 .. Len(sealed) : record = sealed[k]
  <2>1. sealed \in Seq(ToSet(sealed))
    BY <1>3 DEF Arranges
  <2>2. DOMAIN sealed = 1 .. Len(sealed)
    BY <2>1, LenProperties
  <2> QED BY <1>1, <2>2 DEF ToSet
<1>5. PICK q \in Places(final) : at[q] = k
  BY <1>3, <1>4 DEF Arranges, Bijection, Surjection
<1>6. PICK i \in 1 .. Len(final), j \in 1 .. 2 : q = <<i, j>>
  BY DEF Places
<1>7. PICK f : f = final[i]
  OBVIOUS
<1>8. record = SourceItem(f, j)
  BY <1>3, <1>4, <1>5, <1>6, <1>7 DEF Arranges
<1>9. PICK r \in JoinedGroups(batches, reviews) : Stands(f, r)
  BY <1>2, <1>7 DEF FinalStands
<1>10. DOMAIN f.paraphrases = 1 .. 2
  BY <1>9, TwoParaphrases
<1> QED BY <1>8, <1>9, <1>10

LEMMA SourceItemFields ==
  ASSUME NEW f, NEW j
  PROVE  /\ SourceItem(f, j).text = f.paraphrases[j].text /\ SourceItem(f, j).group = f.id
         /\ SourceItem(f, j).action = f.action /\ SourceItem(f, j).fields = f.fields
         /\ SourceItem(f, j).invalid = f.invalid
BY DEF SourceItem

(* An ID names one group.                                                  *)
LEMMA GroupNamed ==
  ASSUME PipelineType, Reconcilable(batches, reviews), NEW b \in Side, NEW g \in GroupsOf(batches[b])
  PROVE  /\ IdsUnique(batches[b])
         /\ (CHOOSE h \in GroupsOf(batches[b]) : h.id = g.id) = g
         /\ (CHOOSE h \in GroupsOf(batches[1]) \cup GroupsOf(batches[2]) : h.id = g.id) = g
<1>1. \A c \in Side : IdsUnique(batches[c])
  BY DEF Reconcilable, BatchUsable, IdsUnique, Side
<1>2. \A c \in Side : \A h, k \in GroupsOf(batches[c]) : h.id = k.id => h = k
  BY <1>1 DEF IdsUnique, GroupsOf, ToSet
<1>3. \A h \in GroupsOf(batches[1]), k \in GroupsOf(batches[2]) : h.id # k.id
  BY DEF Reconcilable
<1>4. b = 1 \/ b = 2
  BY DEF Side
<1>5. (CHOOSE h \in GroupsOf(batches[b]) : h.id = g.id) = g
  BY <1>2
<1>6. \A h \in GroupsOf(batches[1]) \cup GroupsOf(batches[2]) : h.id = g.id => h = g
  BY <1>2, <1>3, <1>4 DEF Side
<1>7. g \in GroupsOf(batches[1]) \cup GroupsOf(batches[2])
  BY <1>4
<1>8. (CHOOSE h \in GroupsOf(batches[1]) \cup GroupsOf(batches[2]) : h.id = g.id) = g
  BY <1>6, <1>7
<1> QED BY <1>1, <1>5, <1>8

LEMMA DecidedByHuman ==
  ASSUME PipelineType, Reconcilable(batches, reviews), Accepted(batches, reviews, decisions),
         NEW r \in JoinedGroups(batches, reviews), NEW f, Stands(f, r),
         DOMAIN f.paraphrases = 1 .. 2, NEW j \in 1 .. 2,
         DecisionOn(decisions, r.group.id) # NoDecision
  PROVE  HumanDecided(SourceItem(f, j))
<1>1. PICK b \in Side : \E g \in GroupsOf(batches[b]) : r.group = g /\ GroupShaped(g)
  BY JoinedShaped
<1>2. PICK g \in GroupsOf(batches[b]) : r.group = g /\ GroupShaped(g)
  BY <1>1
<1>3. PICK d : d = DecisionOn(decisions, g.id) /\ d # NoDecision /\ MadeOf(f, r, d)
  BY <1>2, Standing
<1>4. d \in ToSet(decisions.entries) /\ d.id = g.id
  BY <1>2, <1>3 DEF DecisionOn, ToSet
<1>5. d.rationale
  BY <1>4 DEF Accepted, Documented, ToSet
<1>6. /\ f.id = g.id /\ d.resolution # "exclude" /\ d.equivalent
      /\ f.paraphrases = Edited(g.paraphrases, d.overrides)
      /\ f.action = d.label.action /\ f.fields = d.label.fields
  BY <1>2, <1>3 DEF MadeOf
<1>7. f.paraphrases[j].text \in Texts(g) \cup {d.overrides[q] : q \in DOMAIN d.overrides}
  <2>1. \A k \in DOMAIN Edited(g.paraphrases, d.overrides) :
          Edited(g.paraphrases, d.overrides)[k].text
            \in Texts(g) \cup {d.overrides[q] : q \in DOMAIN d.overrides}
    BY <1>2, EditedTexts
  <2> QED BY <1>6, <2>1
<1>8. PICK record : record = SourceItem(f, j)
  OBVIOUS
<1>9. /\ record.text = f.paraphrases[j].text /\ record.group = g.id
      /\ record.action = d.label.action /\ record.fields = d.label.fields
  BY <1>6, <1>8, SourceItemFields
<1>10. (CHOOSE h \in GroupsOf(batches[1]) \cup GroupsOf(batches[2]) : h.id = record.group) = g
  BY <1>9, GroupNamed
<1>11. HumanDecided(record)
  BY <1>4, <1>5, <1>6, <1>7, <1>9, <1>10 DEF HumanDecided
<1> QED BY <1>8, <1>11

LEMMA AgreedByModels ==
  ASSUME PipelineType, SeenOrRejected, Reconcilable(batches, reviews),
         \A b \in Side : shown[b] # Null,
         NEW r \in JoinedGroups(batches, reviews), NEW f, Stands(f, r),
         DOMAIN f.paraphrases = 1 .. 2, NEW j \in 1 .. 2,
         DecisionOn(decisions, r.group.id) = NoDecision
  PROVE  \E b \in Side : SourceItem(f, j).group \in DOMAIN shown[b] /\ Agreed(SourceItem(f, j), b)
<1>1. PICK b \in Side : \E g \in GroupsOf(batches[b]) :
        r = Joined(batches, reviews, b, g) /\ r.group = g
  BY JoinedShaped
<1>2. PICK g \in GroupsOf(batches[b]) : r = Joined(batches, reviews, b, g) /\ r.group = g
  BY <1>1
<1>3. /\ r.class = "FULL_AGREEMENT" /\ f.id = g.id /\ f.paraphrases = g.paraphrases
      /\ f.action = g.label.action /\ f.fields = g.label.fields
  BY <1>2, Standing DEF MadeOf
<1>4. PICK entry : entry = EntryOf(reviews[b], g.id)
  OBVIOUS
<1>5. ~FieldsDiffer(g, entry) /\ entry.action = g.label.action /\ entry.equivalent
  BY <1>2, <1>3, <1>4, Agreement
<1>6. g.id \in DOMAIN shown[b] /\ Texted(g) = shown[b][g.id]
  BY <1>4, <1>5, GroupNamed DEF SeenOrRejected
<1>7. DOMAIN Texted(g) = 1 .. 2 /\ Texted(g)[j] = g.paraphrases[j].text
  BY <1>3 DEF Texted
<1>8. PICK record : record = SourceItem(f, j)
  OBVIOUS
<1>9. /\ record.text = g.paraphrases[j].text /\ record.group = g.id
      /\ record.action = g.label.action /\ record.fields = g.label.fields
  BY <1>3, <1>8, SourceItemFields
<1>10. record.text \in {shown[b][record.group][i] : i \in DOMAIN shown[b][record.group]}
  BY <1>6, <1>7, <1>9
<1>11. (CHOOSE h \in GroupsOf(batches[b]) : h.id = record.group) = g
  BY <1>9, GroupNamed
<1>12. record.action = "EXECUTE" => ContractPart(entry.fields) = ContractPart(record.fields)
  BY <1>5, <1>9 DEF FieldsDiffer
<1>13. Agreed(record, b)
  BY <1>4, <1>5, <1>9, <1>10, <1>11, <1>12 DEF Agreed
<1> QED BY <1>6, <1>8, <1>9, <1>13

(* A group on the worksheet has been decided on.                           *)
LEMMA PendingDecided ==
  ASSUME PipelineType, Reconcilable(batches, reviews),
         NEW r \in JoinedGroups(batches, reviews), NEW f, Stands(f, r),
         r.group.id \in Pending(Reconciled(batches, reviews))
  PROVE  DecisionOn(decisions, r.group.id) # NoDecision
<1>1. PICK rec \in Seq(JoinedGroups(batches, reviews)) :
        /\ rec = Reconciled(batches, reviews) /\ ToSet(rec) = JoinedGroups(batches, reviews)
        /\ \A i, j \in 1 .. Len(rec) : rec[i].group.id = rec[j].group.id => i = j
  <2>1. BatchShaped(batches[1]) /\ BatchShaped(batches[2])
    BY DEF PipelineType, Side
  <2> QED BY <2>1, ReconciledGroups
<1>2. DOMAIN rec = 1 .. Len(rec)
  BY LenProperties
<1>3. PICK i \in 1 .. Len(rec) : rec[i].class # "FULL_AGREEMENT" /\ rec[i].group.id = r.group.id
  BY <1>1, <1>2 DEF Pending
<1>4. PICK k \in 1 .. Len(rec) : rec[k] = r
  BY <1>1, <1>2 DEF ToSet
<1>5. r.class # "FULL_AGREEMENT"
  BY <1>1, <1>3, <1>4
<1> QED BY <1>5, Standing DEF MadeOf

(* Whoever gave it, the label that is sealed is sound.                     *)
LEMMA LabelSound ==
  ASSUME PipelineType, NEW r \in JoinedGroups(batches, reviews), NEW f, Stands(f, r)
  PROVE  /\ f.action = "EXECUTE" => Executable(f.fields)
         /\ f.action = "REJECT" => \E n \in DOMAIN f.invalid : n \in ContractFields
<1>1. PICK b, g : r = Joined(batches, reviews, b, g) /\ r.group = g
  BY JoinedShaped
<1>2. PICK d : MadeOf(f, r, d)
  BY Standing
<1>3. PICK label : /\ GoldSound(label.action, label.fields, label.invalid)
                   /\ f.action = label.action /\ f.fields = label.fields
                   /\ (f.action = "REJECT" => f.invalid = label.invalid)
  <2>1. CASE d = NoDecision
    <3>1. /\ r.class = "FULL_AGREEMENT"
          /\ f.action = g.label.action /\ f.fields = g.label.fields
          /\ (f.action = "REJECT" => f.invalid = g.label.invalid)
      BY <1>1, <1>2, <2>1 DEF MadeOf
    <3>2. GoldSound(g.label.action, g.label.fields, g.label.invalid)
      <4>1. ~Structural(batches[b], g)
        BY <1>1, <3>1, Agreement
      <4> QED BY <4>1 DEF Structural
    <3> QED BY <3>1, <3>2
  <2>2. CASE d # NoDecision
    BY <1>2, <2>2 DEF MadeOf
  <2> QED BY <2>1, <2>2
<1>4. f.action = "EXECUTE" => Executable(f.fields)
  BY <1>3 DEF GoldSound
<1>5. f.action = "REJECT" => Unconfirmed(f.fields, f.invalid) # DOMAIN f.invalid
  BY <1>3 DEF GoldSound
<1>6. ASSUME \A n \in DOMAIN f.invalid : n \notin ContractFields
      PROVE  Unconfirmed(f.fields, f.invalid) = DOMAIN f.invalid
  BY <1>6 DEF Unconfirmed
<1> QED BY <1>4, <1>5, <1>6

LEMMA SealedLabels == ShufflesAll /\ BenchmarkInv => LabelsApproved
<1> SUFFICES ASSUME ShufflesAll, BenchmarkInv, NEW s \in Sealer, pc[s] = "prepared",
                    NEW record \in ToSet(records[s])
             PROVE  /\ \/ HumanDecided(record)
                       \/ \E b \in Side : record.group \in DOMAIN shown[b] /\ Agreed(record, b)
                    /\ record.group \in worksheet => HumanDecided(record)
                    /\ record.action = "EXECUTE" => Executable(record.fields)
                    /\ record.action = "REJECT" => \E n \in DOMAIN record.invalid : n \in ContractFields
  BY DEF LabelsApproved
<1>1. Cleared(s) /\ records[s] = SealedRecords(Final, s)
  BY DEF BenchmarkInv, PreparedRuns
<1>2. /\ Reconcilable(batches, reviews) /\ worksheet = Pending(Reconciled(batches, reviews))
      /\ \A b \in Side : reviews[b] # Null /\ shown[b] # Null
      /\ Accepted(batches, reviews, decisions)
  BY <1>1, ClearedReconciles DEF BenchmarkInv, Cleared
<1>0. PICK r \in JoinedGroups(batches, reviews), j \in 1 .. 2 : \E f :
        Stands(f, r) /\ DOMAIN f.paraphrases = 1 .. 2 /\ record = SourceItem(f, j)
  BY <1>1, SealedRecord DEF BenchmarkInv
<1>3. PICK f : Stands(f, r) /\ DOMAIN f.paraphrases = 1 .. 2 /\ record = SourceItem(f, j)
  BY <1>0
<1>4. DecisionOn(decisions, r.group.id) # NoDecision => HumanDecided(record)
  BY <1>2, <1>3, DecidedByHuman DEF BenchmarkInv
<1>5. DecisionOn(decisions, r.group.id) = NoDecision =>
        \E b \in Side : record.group \in DOMAIN shown[b] /\ Agreed(record, b)
  BY <1>2, <1>3, AgreedByModels DEF BenchmarkInv
<1>6. record.group = r.group.id
  BY <1>3, Standing, SourceItemFields DEF MadeOf
<1>7. record.group \in worksheet => HumanDecided(record)
  BY <1>2, <1>3, <1>4, <1>6, PendingDecided DEF BenchmarkInv
<1>8. /\ record.action = "EXECUTE" => Executable(record.fields)
      /\ record.action = "REJECT" => \E n \in DOMAIN record.invalid : n \in ContractFields
  BY <1>3, LabelSound, SourceItemFields DEF BenchmarkInv
<1> QED BY <1>4, <1>5, <1>7, <1>8

(* Whatever the batches, the reviews, the revisions and the decisions are, *)
(* no label is sealed that neither both models gave blind on the texts     *)
(* that are sealed nor a human recorded (reconcile.py:283-427,             *)
(* decisions.py:121-249, seal.py:329-382).                                 *)
THEOREM LabelsApprovedCorrect ==
  ASSUME ShufflesAll, RevisionsAsked
  PROVE  BSpec => []LabelsApproved
<1>1. BenchmarkInv => LabelsApproved
  BY SealedLabels
<1>2. BSpec => []BenchmarkInv
  BY BenchmarkInductive
<1> QED BY <1>1, <1>2, PTL

-----------------------------------------------------------------------------
(* What is exported of a place.                                            *)
ItemAt(final, q) == HarnessItem(SourceItem(final[q[1]], q[2]))

Exported(items, final) ==
  /\ items = {ItemAt(final, q) : q \in Places(final)}
  /\ \A p, q \in Places(final) : ItemAt(final, p) = ItemAt(final, q) => p = q

LEMMA ItemAtFields ==
  ASSUME NEW final, NEW i, NEW j
  PROVE  /\ ItemAt(final, <<i, j>>).group = final[i].id
         /\ ItemAt(final, <<i, j>>).action = final[i].action
BY DEF ItemAt, HarnessItem, SourceItem

LEMMA BoundNamed ==
  ASSUME NEW text, Bound(text) # Null
  PROVE  Bound(text) \in DOMAIN Catalogue /\ Bound(text) \in Named[text]
<1> DEFINE matches == {t \in DOMAIN Catalogue : t \in Named[text]}
<1>1. Cardinality(matches) = 1 /\ Bound(text) = CHOOSE t \in matches : TRUE
  BY DEF Bound
<1>2. matches # {}
  BY <1>1, FS_EmptySet
<1>3. Bound(text) \in matches
  BY <1>1, <1>2
<1> QED BY <1>3

LEMMA UpTo ==
  ASSUME NEW n \in Nat
  PROVE  IsFiniteSet(1 .. n) /\ Cardinality(1 .. n) = n
<1>1. IsFiniteSet(1 .. n) /\ Cardinality(1 .. n) = IF 1 > n THEN 0 ELSE n - 1 + 1
  BY FS_Interval
<1> QED BY <1>1

(* The texts tell the records apart.                                       *)
LEMMA TextsApart ==
  ASSUME NEW sealed, sealed \in Seq(ToSet(sealed)),
         Cardinality({sealed[k].text : k \in DOMAIN sealed}) = Len(sealed)
  PROVE  \A k, l \in 1 .. Len(sealed) : sealed[k].text = sealed[l].text => k = l
<1>1. PICK n \in Nat : n = Len(sealed) /\ DOMAIN sealed = 1 .. n
  OBVIOUS
<1> DEFINE T == {sealed[k].text : k \in 1 .. n}
           text == [k \in 1 .. n |-> sealed[k].text]
<1>2. text \in Surjection(1 .. n, T)
  BY DEF Surjection
<1>3. Cardinality(T) = n
  BY <1>1
<1> HIDE DEF T
<1>4. IsFiniteSet(1 .. n) /\ Cardinality(1 .. n) = n
  BY UpTo
<1>5. text \in Injection(1 .. n, T)
  BY <1>2, <1>3, <1>4, FS_Surjection
<1> QED BY <1>1, <1>5 DEF Injection, IsInjective

LEMMA ItemsExported ==
  ASSUME NEW at, NEW sealed, NEW final, final \in Seq(ToSet(final)), Arranges(at, sealed, final),
         Cardinality({sealed[k].text : k \in DOMAIN sealed}) = Len(sealed)
  PROVE  Exported(ToSet(HarnessItems(sealed)), final)
<1>1. PICK n \in Nat : n = Len(sealed) /\ DOMAIN sealed = 1 .. n
  BY LenProperties DEF Arranges
<1>2. ToSet(HarnessItems(sealed)) = {HarnessItem(sealed[k]) : k \in 1 .. n}
  BY <1>1 DEF ToSet, HarnessItems
<1>3. \A k, l \in 1 .. n : HarnessItem(sealed[k]) = HarnessItem(sealed[l]) => k = l
  BY <1>1, TextsApart DEF Arranges, HarnessItem
<1>4. at \in Bijection(Places(final), 1 .. n)
  BY <1>1 DEF Arranges
<1>5. ASSUME NEW q \in Places(final)
      PROVE  at[q] \in 1 .. n /\ HarnessItem(sealed[at[q]]) = ItemAt(final, q)
  <2>1. PICK i \in 1 .. Len(final), j \in 1 .. 2 : q = <<i, j>>
    BY DEF Places
  <2>2. sealed[at[q]] = SourceItem(final[q[1]], q[2])
    BY <2>1 DEF Arranges
  <2> QED BY <1>4, <2>2 DEF Bijection, Surjection, ItemAt
<1>6. \A k \in 1 .. n : \E q \in Places(final) : at[q] = k
  BY <1>4 DEF Bijection, Surjection
<1>7. \A p, q \in Places(final) : at[p] = at[q] => p = q
  BY <1>4 DEF Bijection, Injection, IsInjective
<1>8. {HarnessItem(sealed[k]) : k \in 1 .. n} = {ItemAt(final, q) : q \in Places(final)}
  <2>1. ASSUME NEW k \in 1 .. n PROVE \E q \in Places(final) : HarnessItem(sealed[k]) = ItemAt(final, q)
    BY <1>5, <1>6
  <2> QED BY <1>5, <2>1
<1>9. ASSUME NEW p \in Places(final), NEW q \in Places(final), ItemAt(final, p) = ItemAt(final, q)
      PROVE  p = q
  BY <1>3, <1>5, <1>7, <1>9
<1> QED BY <1>2, <1>8, <1>9 DEF Exported

(* Every group of the set has two items.                                   *)
LEMMA ItemsOfGroups ==
  ASSUME NEW items, NEW final, final \in Seq(ToSet(final)), Exported(items, final),
         NEW I \in SUBSET (1 .. Len(final))
  PROVE  Cardinality({h \in items : \E q \in I \X (1 .. 2) : h = ItemAt(final, q)})
           = 2 * Cardinality(I)
<1> DEFINE P == I \X (1 .. 2)
           T == {h \in items : \E q \in P : h = ItemAt(final, q)}
           map == [q \in P |-> ItemAt(final, q)]
<1>1. PICK n \in Nat : n = Len(final)
  OBVIOUS
<1>2. IsFiniteSet(I)
  <2>1. IsFiniteSet(1 .. n) /\ I \in SUBSET (1 .. n)
    BY <1>1, UpTo
  <2> QED BY <2>1, FS_Subset
<1>3. IsFiniteSet(1 .. 2) /\ Cardinality(1 .. 2) = 2
  <2>1. 2 \in Nat
    OBVIOUS
  <2> QED BY <2>1, UpTo
<1>4. IsFiniteSet(P) /\ Cardinality(P) = Cardinality(I) * 2
  BY <1>2, <1>3, FS_Product
<1>5. P \subseteq Places(final)
  BY DEF Places
<1>6. \A q \in P : ItemAt(final, q) \in T
  BY <1>5 DEF Exported
<1>7. \A h \in T : \E q \in P : ItemAt(final, q) = h
  OBVIOUS
<1>8. \A p, q \in P : ItemAt(final, p) = ItemAt(final, q) => p = q
  BY <1>5 DEF Exported
<1> HIDE DEF P, T
<1>9. map \in Bijection(P, T)
  <2>1. map \in [P -> T]
    BY <1>6
  <2>2. map \in Injection(P, T)
    BY <1>8, <2>1 DEF Injection, IsInjective
  <2>3. map \in Surjection(P, T)
    BY <1>7, <2>1 DEF Surjection
  <2> QED BY <2>2, <2>3 DEF Bijection
<1>10. Cardinality(T) = Cardinality(P)
  BY <1>4, <1>9, FS_Bijection DEF ExistsBijection
<1>11. Cardinality(I) \in Nat
  BY <1>2, FS_CardinalityType
<1>12. Cardinality(T) = 2 * Cardinality(I)
  BY <1>4, <1>10, <1>11
<1> QED BY <1>12 DEF P, T

(* The two items of a group, and the items of an action.                   *)
LEMMA ItemsCounted ==
  ASSUME NEW items, NEW final, final \in Seq(ToSet(final)), Exported(items, final),
         \A i, j \in 1 .. Len(final) : final[i].id = final[j].id => i = j
  PROVE  /\ \A h \in items :
              /\ Cardinality({o \in items : o.group = h.group}) = 2
              /\ \A o \in items : o.group = h.group => o.action = h.action
         /\ \A a : Cardinality({h \in items : h.action = a}) = 2 * CountOf(final, a)
<1>1. PICK n \in Nat : n = Len(final) /\ DOMAIN final = 1 .. n
  OBVIOUS
<1>2. ASSUME NEW h \in items
      PROVE  \E i \in 1 .. n, j \in 1 .. 2 :
               h = ItemAt(final, <<i, j>>) /\ h.group = final[i].id /\ h.action = final[i].action
  <2>1. PICK q \in Places(final) : h = ItemAt(final, q)
    BY DEF Exported
  <2>2. PICK i \in 1 .. n, j \in 1 .. 2 : q = <<i, j>>
    BY <1>1 DEF Places
  <2>3. ItemAt(final, <<i, j>>).group = final[i].id /\ ItemAt(final, <<i, j>>).action = final[i].action
    BY ItemAtFields
  <2> QED BY <2>1, <2>2, <2>3
<1>3. ASSUME NEW I \in SUBSET (1 .. n), NEW h \in items, NEW i \in 1 .. n, NEW j \in 1 .. 2,
             h = ItemAt(final, <<i, j>>)
      PROVE  i \in I <=> \E q \in I \X (1 .. 2) : h = ItemAt(final, q)
  <2>1. ASSUME NEW q \in I \X (1 .. 2), h = ItemAt(final, q) PROVE i \in I
    <3>1. q \in Places(final) /\ <<i, j>> \in Places(final)
      BY <1>1 DEF Places
    <3>2. q = <<i, j>>
      BY <1>3, <2>1, <3>1 DEF Exported
    <3> QED BY <3>2
  <2>2. ASSUME i \in I PROVE \E q \in I \X (1 .. 2) : h = ItemAt(final, q)
    <3>1. <<i, j>> \in I \X (1 .. 2)
      BY <2>2
    <3> QED BY <1>3, <3>1
  <2> QED BY <2>1, <2>2
<1>4. ASSUME NEW h \in items
      PROVE  /\ Cardinality({o \in items : o.group = h.group}) = 2
             /\ \A o \in items : o.group = h.group => o.action = h.action
  <2>1. PICK i \in 1 .. n : h.group = final[i].id /\ h.action = final[i].action
    BY <1>2
  <2>2. ASSUME NEW o \in items
        PROVE  /\ o.group = h.group <=> \E q \in {i} \X (1 .. 2) : o = ItemAt(final, q)
               /\ o.group = h.group => o.action = h.action
    <3>1. PICK k \in 1 .. n, j \in 1 .. 2 :
            o = ItemAt(final, <<k, j>>) /\ o.group = final[k].id /\ o.action = final[k].action
      BY <1>2
    <3>2. o.group = h.group <=> k = i
      BY <1>1, <2>1, <3>1
    <3>3. PICK I \in SUBSET (1 .. n) : I = {i}
      OBVIOUS
    <3>4. k \in I <=> \E q \in I \X (1 .. 2) : o = ItemAt(final, q)
      BY <1>3, <3>1
    <3> QED BY <2>1, <3>1, <3>2, <3>3, <3>4
  <2>3. {o \in items : o.group = h.group}
          = {o \in items : \E q \in {i} \X (1 .. 2) : o = ItemAt(final, q)}
    BY <2>2
  <2>4. Cardinality({o \in items : \E q \in {i} \X (1 .. 2) : o = ItemAt(final, q)})
          = 2 * Cardinality({i})
    <3>1. {i} \in SUBSET (1 .. Len(final))
      BY <1>1
    <3> QED BY <3>1, ItemsOfGroups
  <2>5. Cardinality({i}) = 1
    BY FS_Singleton
  <2>6. Cardinality({o \in items : o.group = h.group}) = 2 * 1
    BY <2>3, <2>4, <2>5
  <2> QED BY <2>2, <2>6
<1>5. ASSUME NEW a PROVE Cardinality({h \in items : h.action = a}) = 2 * CountOf(final, a)
  <2>1. PICK I \in SUBSET (1 .. n) : I = {i \in 1 .. n : final[i].action = a}
    OBVIOUS
  <2>2. ASSUME NEW h \in items
        PROVE  h.action = a <=> \E q \in I \X (1 .. 2) : h = ItemAt(final, q)
    <3>1. PICK i \in 1 .. n, j \in 1 .. 2 :
            h = ItemAt(final, <<i, j>>) /\ h.action = final[i].action
      BY <1>2
    <3>2. i \in I <=> \E q \in I \X (1 .. 2) : h = ItemAt(final, q)
      BY <1>3, <3>1
    <3> QED BY <2>1, <3>1, <3>2
  <2>3. {h \in items : h.action = a}
          = {h \in items : \E q \in I \X (1 .. 2) : h = ItemAt(final, q)}
    BY <2>2
  <2>4. CountOf(final, a) = Cardinality(I)
    BY <1>1, <2>1 DEF CountOf
  <2> QED BY <1>1, <2>3, <2>4, ItemsOfGroups
<1> QED BY <1>4, <1>5

LEMMA ExportFaithful == ShufflesAll /\ BenchmarkInv /\ SealingInv => HarnessFaithful
<1> SUFFICES ASSUME ShufflesAll, BenchmarkInv, SealingInv,
                    harness.pc \notin {"none", "reading"}, harness.source = Original(SealedRun)
             PROVE  HarnessFaithful
  BY DEF HarnessFaithful
<1>1. PICK s \in Sealer : Cleared(s) /\ harness.items = HarnessItems(SealedRecords(Final, s))
  BY DEF BenchmarkInv, ExportCurrent
<1>2. PICK final, sealed : final = Final /\ sealed = SealedRecords(Final, s)
  OBVIOUS
<1>3. PICK items : items = ToSet(harness.items)
  OBVIOUS
<1>4. /\ FinalStands(final) /\ LeakFree(sealed, final) /\ QuotasMet(final, batches, decisions)
      /\ \E at : Arranges(at, sealed, final)
  BY <1>1, <1>2, ClearedArranged DEF BenchmarkInv, Cleared, Accepted, Final
<1>5. Cardinality({sealed[k].text : k \in DOMAIN sealed}) = Len(sealed)
  BY <1>4 DEF LeakFree
<1>6. PICK n \in Nat : n = Len(sealed) /\ DOMAIN sealed = 1 .. n
  BY <1>4, LenProperties DEF Arranges
<1>7. harness.items = HarnessItems(sealed)
  BY <1>1, <1>2
<1>8. Exported(items, final)
  BY <1>3, <1>4, <1>5, <1>7, ItemsExported DEF FinalStands
<1>9. /\ \A h \in items :
           /\ Cardinality({o \in items : o.group = h.group}) = 2
           /\ \A o \in items : o.group = h.group => o.action = h.action
      /\ \A a : Cardinality({h \in items : h.action = a}) = 2 * CountOf(final, a)
  BY <1>4, <1>8, ItemsCounted DEF FinalStands
<1>10. ASSUME NEW a \in Actions
       PROVE  2 * (IF decisions.quotas # Null THEN decisions.quotas[a] ELSE DefaultQuota(batches, a))
                = Cardinality({h \in items : h.action = a})
  BY <1>4, <1>9 DEF QuotasMet
<1>11. items = {HarnessItem(sealed[k]) : k \in 1 .. n}
  BY <1>3, <1>6, <1>7 DEF ToSet, HarnessItems
<1>12. \A h \in items : h.topology # Null => h.topology \in DOMAIN Catalogue /\ h.topology \in Named[h.text]
  BY <1>11, BoundNamed DEF HarnessItem
<1>13. Cardinality({h.text : h \in items}) = Len(harness.items)
  <2>1. {h.text : h \in items} = {sealed[k].text : k \in 1 .. n}
    <3>1. \A k \in 1 .. n : HarnessItem(sealed[k]).text = sealed[k].text
      BY DEF HarnessItem
    <3> QED BY <1>11, <3>1
  <2>2. Len(harness.items) = n
    <3>1. DOMAIN HarnessItems(sealed) = 1 .. n
      BY <1>6 DEF HarnessItems
    <3>2. HarnessItems(sealed) \in [1 .. n -> ToSet(HarnessItems(sealed))]
      BY <1>6 DEF HarnessItems, ToSet
    <3>3. HarnessItems(sealed) \in Seq(ToSet(HarnessItems(sealed)))
      BY <3>2
    <3> QED BY <1>7, <3>1, <3>3, LenProperties
  <2> QED BY <1>5, <1>6, <2>1, <2>2
<1>14. \A f \in File : dir[f].by = SealedRun
  <2>1. SealedRun # Unsealed
    BY DEF BenchmarkInv, ExportCurrent
  <2>2. PICK r \in Sealer : dir["digest"] = Whole(r)
    BY <2>1, SealedRunOf
  <2> QED BY <2>2, SealedFiles, Distinct
<1> QED BY <1>3, <1>9, <1>10, <1>12, <1>13, <1>14 DEF HarnessFaithful

(* What the experiment runner is given is the sealed set: two items for    *)
(* every group, with one action, a text of their own and no topology that  *)
(* the text does not name, as many of every action as the quotas say, from *)
(* files of one run, if the manifest that the export names as its source   *)
(* is the one that run has written (harness.py:63-135).                    *)
THEOREM HarnessFaithfulCorrect ==
  ASSUME ShufflesAll, RevisionsAsked
  PROVE  BSpec => []HarnessFaithful
<1>1. BenchmarkInv /\ SealingInv => HarnessFaithful
  BY ExportFaithful
<1>2. BSpec => []BenchmarkInv
  BY BenchmarkInductive
<1>3. BSpec => []SealingInv
  BY SealingSteps, SealingInductive, InitBenchmark, PTL DEF BSpec, Spec, BInit
<1> QED BY <1>1, <1>2, <1>3, PTL
=============================================================================
