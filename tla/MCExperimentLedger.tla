------------------------- MODULE MCExperimentLedger -------------------------
(* Two runners whose matrices overlap, in opposite orders.                 *)
EXTENDS ExperimentLedger

MCWork == [r \in Runner |-> IF r = "first" THEN <<"a", "b", "c">> ELSE <<"c", "b">>]
=============================================================================
