--------------------------- MODULE AnexCertificate ---------------------------
(***************************************************************************)
(* The run_anex tool around the scheduler: the schedule entries it reads   *)
(* off the nodes, the certificate the validator gives them, and the        *)
(* aggregation the schedule carries out.                                   *)
(***************************************************************************)
EXTENDS AnexProperties, Iteration

V == INSTANCE ScheduleValidator WITH Period <- T

(* One entry per node but the sink, in ID order.                           *)
Schedule ==
  [n \in 1 .. N-1 |->
     V!Entry(n, parent[n], timeslot[n], channel[n], timeslot[n] % T)]

Certificate == V!Violations(net, net.channels, "legacy_neighbor", Schedule)

(* Every schedule the tool returns has a passing validation certificate:   *)
(* the scheduler and the independently written validator agree.            *)
CertificateValid == pc = "done" => Certificate = {}

-----------------------------------------------------------------------------
(* Refinement of Convergecast: a node's reading is at the node reached     *)
(* from it along the links of committed transmissions.                     *)

Onward == [y \in Node |-> IF Unscheduled(y) THEN y ELSE parent[y]]
Carrier(x) == Iterate(Onward, x, N)

(* Whose readings n holds.                                                 *)
Held(n) == {x \in Node : Carrier(x) = n}

Abstract ==
  INSTANCE Convergecast WITH
    sent  <- Scheduled,
    holds <- [n \in Node |-> Held(n)]

(* Slot by slot, the committed transmissions are rounds of a convergecast. *)
ImplementsConvergecast == Abstract!Spec

(* The sink ends with the reading of every node.                           *)
SinkCollectsAll == Abstract!SinkCollectsAll
=============================================================================
