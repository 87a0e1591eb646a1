------------------------------ MODULE Sealing -------------------------------
(***************************************************************************)
(* Runs of the seal command on one output directory.  A run looks whether  *)
(* the directory holds a seal, prepares the records, looks again, and      *)
(* writes six files one after the other, each created exclusively.  A run  *)
(* may die at any point; what it has written stays until the operator      *)
(* clears a directory without a seal.                                      *)
(*                                                                         *)
(* What a file contains is determined by the run that writes it and by     *)
(* what other hands make of it; its hash is its bytes.                     *)
(***************************************************************************)
EXTENDS Integers, Sequences

CONSTANTS
  Sealer,         \* runs of the seal command
  Unsealed,       \* no run
  AsWritten,      \* what a file contains that no one has changed
  MaxCrashes,     \* bound on the runs that die while writing
  MaxEdits,       \* bound on the changes made later by other hands
  Rewrites(_, _), \* what they may write into a file, given the bytes of all
  Leaks(_, _, _)  \* requests and labels that fail the leakage checks under
                  \* the limit of a manifest

ASSUME SealerAssumption == Unsealed \notin Sealer
ASSUME BoundAssumption == MaxCrashes \in Nat /\ MaxEdits \in Nat

(* A mutation of Written: the digest before what it covers.                *)
WrittenDigestFirst ==
  <<"digest", "requests", "gold", "worksheet", "decisions", "manifest">>

(* The order of the six writes.                                            *)
Written == <<"requests", "gold", "worksheet", "decisions", "manifest", "digest">>
File == {"requests", "gold", "worksheet", "decisions", "manifest", "digest"}

Output == {"requests", "gold", "worksheet", "decisions"}

Absent == [by |-> Unsealed, state |-> "absent"]
Begun(s) == [by |-> s, state |-> "begun"]      \* created, and still empty
Whole(s) == [by |-> s, state |-> "whole"]

(* The bytes of a file that a run has written, and no one else since.      *)
Original(s) == <<Whole(s), AsWritten>>

(* The checks of verify are those that a run has passed before it writes,  *)
(* under the limit its manifest names (seal.py:371-381, 440).              *)
ASSUME LeakAssumption ==
  \A s \in Sealer : ~Leaks(Original(s), Original(s), Original(s))

Ended == {"sealed", "refused", "failed", "crashed"}

VARIABLES
  dir,            \* the output directory: who has written a file, how far
  content,        \* what other hands have made of it
  pc,             \* where each run is
  place,          \* the write a run is at, an index of Written
  crashes, edits  \* how often the bounded events have happened

vars == <<dir, content, pc, place, crashes, edits>>

Init ==
  /\ dir = [f \in File |-> Absent]
  /\ content = [f \in File |-> AsWritten]
  /\ pc = [s \in Sealer |-> "ready"]
  /\ place = [s \in Sealer |-> 1]
  /\ crashes = 0
  /\ edits = 0

Bytes(f) == <<dir[f], content[f]>>

(* No file of a seal, whole or not, is in the directory.                   *)
Empty == \A f \in File : dir[f] = Absent

Goto(s, l) == pc' = [pc EXCEPT ![s] = l]

(* The first look, before anything is read.                                *)
Look(s) ==
  /\ pc[s] = "ready"
  /\ Goto(s, IF Empty THEN "preparing" ELSE "refused")
  /\ UNCHANGED <<dir, content, place, crashes, edits>>

(* Inputs and decisions are validated and the records checked for leaks:   *)
(* every problem refuses the seal, and nothing is written.                 *)
Prepare(s) ==
  /\ pc[s] = "preparing"
  /\ Goto(s, "prepared")
  /\ UNCHANGED <<dir, content, place, crashes, edits>>

Refuse(s) ==
  /\ pc[s] = "preparing"
  /\ Goto(s, "refused")
  /\ UNCHANGED <<dir, content, place, crashes, edits>>

(* A mutation of LookAgain: made anew, and not looked at.                  *)
MakeAnew(s) ==
  /\ pc[s] = "prepared"
  /\ dir' = [f \in File |-> Absent]
  /\ Goto(s, "writing")
  /\ UNCHANGED <<content, place, crashes, edits>>

(* The directory is made and looked at again.                              *)
LookAgain(s) ==
  /\ pc[s] = "prepared"
  /\ Goto(s, IF Empty THEN "writing" ELSE "refused")
  /\ UNCHANGED <<dir, content, place, crashes, edits>>

(* A mutation of Current: the records in the order of a set, another one   *)
(* in each run.                                                            *)
CurrentUnordered(s) ==
  IF s = (CHOOSE r \in Sealer : TRUE) \/ place[s] > 2 THEN Written[place[s]]
  ELSE Written[3 - place[s]]

(* The file a run is at, and whether a run has begun it.                   *)
Current(s) == Written[place[s]]
HasCreated(s) == dir[Current(s)] = Begun(s)

Create(s) ==
  /\ pc[s] = "writing"
  /\ dir[Current(s)] = Absent
  /\ dir' = [dir EXCEPT ![Current(s)] = Begun(s)]
  /\ UNCHANGED <<content, pc, place, crashes, edits>>

(* The file exists already: the exception ends the run.                    *)
FileExists(s) ==
  /\ pc[s] = "writing"
  /\ dir[Current(s)] # Absent
  /\ ~HasCreated(s)
  /\ Goto(s, "failed")
  /\ UNCHANGED <<dir, content, place, crashes, edits>>

Fill(s) ==
  /\ pc[s] = "writing"
  /\ HasCreated(s)
  /\ dir' = [dir EXCEPT ![Current(s)] = Whole(s)]
  /\ IF place[s] = Len(Written)
     THEN Goto(s, "sealed") /\ UNCHANGED place
     ELSE place' = [place EXCEPT ![s] = @ + 1] /\ UNCHANGED pc
  /\ UNCHANGED <<content, crashes, edits>>

Crash(s) ==
  /\ pc[s] = "writing"
  /\ crashes < MaxCrashes
  /\ crashes' = crashes + 1
  /\ Goto(s, "crashed")
  /\ UNCHANGED <<dir, content, place, edits>>

(* The operator removes what a dead run has left, while no run writes; a   *)
(* directory with a digest is sealed and is left alone.                    *)
Clear ==
  /\ ~Empty
  /\ dir["digest"].state \in {"absent", "begun"}
  /\ \A s \in Sealer : pc[s] # "writing"
  /\ dir' = [f \in File |-> Absent]
  /\ UNCHANGED <<content, pc, place, crashes, edits>>

(* Other hands change a sealed file, in whatever way, or change it back.   *)
Edit(f) ==
  /\ edits < MaxEdits
  /\ dir["digest"].state = "whole"
  /\ \E t \in Rewrites(f, [g \in File |-> Bytes(g)]) \cup {AsWritten} :
       t # content[f] /\ content' = [content EXCEPT ![f] = t]
  /\ edits' = edits + 1
  /\ UNCHANGED <<dir, pc, place, crashes>>

Write(s) == LookAgain(s) \/ Create(s) \/ FileExists(s) \/ Fill(s)
Run(s) == Look(s) \/ Prepare(s) \/ Refuse(s) \/ Write(s)

Next ==
  \/ \E s \in Sealer : Run(s) \/ Crash(s)
  \/ Clear
  \/ \E f \in File : Edit(f)

Spec == Init /\ [][Next]_vars

---------------------------------------------------------------------------
(* The hashes of outputs that the manifest lists, all of them when a run   *)
(* has written it; and the manifest that the digest names with its first   *)
(* word, which is all of it that is looked at.                             *)
Listed ==
  IF content["manifest"] = AsWritten THEN [f \in Output |-> Original(dir["manifest"].by)]
  ELSE content["manifest"]
DigestNames == IF content["digest"] = AsWritten THEN Original(dir["digest"].by) ELSE content["digest"]

(* What verify accepts.  An empty manifest or digest makes it raise.       *)
Verifies ==
  /\ dir["manifest"].state = "whole" /\ dir["digest"].state = "whole"
  /\ DigestNames = Bytes("manifest")
  /\ \A f \in DOMAIN Listed : Bytes(f) = Listed[f]
  /\ Absent \notin {dir["requests"], dir["gold"]} =>
       ~Leaks(Bytes("requests"), Bytes("gold"), Bytes("manifest"))

SealedRun == IF dir["digest"].state = "whole" THEN dir["digest"].by ELSE Unsealed

(* The seal of a directory is the work of one run: once the digest is      *)
(* written, every file is there and written by the run that wrote it,      *)
(* however many runs compete, die or are cleared away.  What it has        *)
(* written verifies.  What verifies is sealed, and when it verifies under  *)
(* the manifest hash that this run has written, every file that hash       *)
(* stands for is as written, whatever other hands have done: to pass       *)
(* something else, the hash in the digest has to be replaced as well,      *)
(* and nothing in the directory tells then (seal.py:329-513).              *)
SealedByOneRun ==
  /\ SealedRun # Unsealed => \A f \in File : dir[f] = Whole(SealedRun)
  /\ SealedRun # Unsealed /\ (\A f \in File : content[f] = AsWritten) => Verifies
  /\ Verifies => SealedRun # Unsealed
  /\ Verifies /\ DigestNames = Original(SealedRun) =>
       \A f \in Output \cup {"manifest"} : Bytes(f) = Original(SealedRun)

(* The directory implements a benchmark that is sealed once and for all.   *)
Once == INSTANCE SealedOnce WITH benchmark <- SealedRun
ImplementsSealedOnce == Once!Spec
=============================================================================
