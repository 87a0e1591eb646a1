------------------------- MODULE ScheduleExecution -------------------------
(***************************************************************************)
(* What a validation certificate is worth.  A schedule the validator finds *)
(* no violation in is carried out on a radio network: per timeslot every   *)
(* entry of that slot transmits the sender's aggregate on its channel, and *)
(* its receiver gets it if it is awake, does not transmit itself and has   *)
(* no second transmission on that channel in reach.  The radio is the      *)
(* environment: it is modelled from the constraints the validator names,   *)
(* and not from its tests of them.                                         *)
(***************************************************************************)
EXTENDS ValidatorMutation

CONSTANTS
  Networks,    \* records [nbr, active, near]
  Schedules(_),\* the sequences of entries considered for a network
  Channels,    \* ValidationMode.channels
  Models,      \* collision models
  LastSlot     \* bound: no entry of Schedules has a later timeslot

ScheduleEntry ==
  [sender : Nat, receiver : Nat, timeslot : 0 .. LastSlot, channel : Nat \ {0},
   receiver_active_slot : Nat]

(* What NetworkInstance and ScheduleEntry accept.                          *)
ASSUME NodesAssumption ==
  /\ IsFiniteSet(Node) /\ Node \subseteq Nat /\ Sink \in Node
  /\ Period \in Nat \ {0}
  /\ LastSlot \in Nat /\ Channels \in Nat \ {0}

ASSUME InputsAssumption ==
  \A g \in Networks :
    /\ g.nbr \in [Node -> SUBSET Node]
    /\ Schedules(g) \subseteq Seq(ScheduleEntry)

VARIABLES
  net, model, entries,   \* the arguments of validate_schedule
  clock,                 \* next timeslot
  holds,                 \* whose readings each node's aggregate contains
  sent                   \* nodes that have transmitted

vars == <<net, model, entries, clock, holds, sent>>

Init ==
  /\ net \in Networks
  /\ model \in Models
  /\ entries \in Schedules(net)
  /\ Violations(net, Channels, model, entries) = {}
  /\ clock = 0
  /\ holds = [n \in Node |-> {n}]
  /\ sent = {}

OnAir == {entries[i] : i \in {j \in Indices(entries) : entries[j].timeslot = clock}}

(* Receiver of e hears e in the current slot.                              *)
Heard(e) ==
  /\ clock % Period \in net.active[e.receiver]
  /\ \A f \in OnAir :
       /\ f.sender # e.receiver
       /\ f # e => f.receiver # e.receiver
       /\ f # e /\ f.channel = e.channel =>
            f.sender \notin Reach(net, model)[e.receiver]

Delivered == {e \in OnAir : e.receiver \in net.nbr[e.sender] /\ Heard(e)}

Transmit ==
  /\ clock <= LastSlot
  /\ holds' = [n \in Node |->
        (IF \E e \in OnAir : e.sender = n THEN {} ELSE holds[n]) \cup
        UNION {holds[e.sender] : e \in {d \in Delivered : d.receiver = n}}]
  /\ sent' = sent \cup {e.sender : e \in OnAir}
  /\ clock' = clock + 1
  /\ UNCHANGED <<net, model, entries>>

Next == Transmit

Spec == Init /\ [][Next]_vars /\ WF_vars(Next)

-----------------------------------------------------------------------------

(* A certified schedule is a convergecast: every slot hands complete       *)
(* aggregates to nodes that have not transmitted, nothing is lost on air.  *)
Abstract == INSTANCE Convergecast
CertifiedIsConvergecast == Abstract!Spec

(* After the last slot of a certified schedule the sink holds the reading  *)
(* of every node.                                                          *)
CertifiedDelivers == clock > LastSlot => holds[Sink] = Node

(* The validator names the defect of every mutant of a schedule it         *)
(* certifies, whatever else the mutation has disturbed: with a period of   *)
(* more than one slot no mutation is the identity.                         *)
MutantsRejected ==
  clock = 0 /\ model = "legacy_neighbor" => Survivors(net, Channels, entries) = {}

(* What the validator certifies under either model the checker of the      *)
(* original scheduler has no objection to.                                 *)
OriginalCheckerAgrees == clock = 0 => schedule_validation(net, entries) = {}

=============================================================================
