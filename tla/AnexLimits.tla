----------------------------- MODULE AnexLimits -----------------------------
(***************************************************************************)
(* The scheduler on inputs whose working period is below the starting link *)
(* delay, and with room for one sender in every working period: those the  *)
(* code's 100000 and the default limit are made for.                       *)
(***************************************************************************)
EXTENDS AnexInductive

ASSUME LimitsAssumption ==
  /\ T < DelayCap
  /\ Guarded => N - 1 <= MaxPeriods

(* The inductive invariant of the scheduler.                               *)
IndInv == CoreInv /\ NeverFails
=============================================================================
