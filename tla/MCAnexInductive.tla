--------------------------- MODULE MCAnexInductive ---------------------------
(* The inductive invariant on the small networks of the scheduler.         *)
EXTENDS MCAnexScheduler, AnexLimits
=============================================================================
