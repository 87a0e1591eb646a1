----------------------------- MODULE SealedOnce -----------------------------
(***************************************************************************)
(* What sealing promises: a directory is sealed at most once, in one step, *)
(* and what is sealed stays.                                               *)
(***************************************************************************)
CONSTANTS
  Sealer,         \* runs of the seal command
  Unsealed        \* no seal yet

VARIABLE benchmark  \* the run whose benchmark the directory holds

Init == benchmark = Unsealed

Seal(s) == benchmark = Unsealed /\ benchmark' = s

Next == \E s \in Sealer : Seal(s)

Spec == Init /\ [][Next]_benchmark
=============================================================================
