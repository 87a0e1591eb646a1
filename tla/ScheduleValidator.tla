-------------------------- MODULE ScheduleValidator --------------------------
(***************************************************************************)
(* validate_schedule of the public schema layer, as a function from a      *)
(* network and a list of schedule entries to the violation codes it        *)
(* reports.  A schedule is certified iff that set is empty.                *)
(*                                                                         *)
(* A network is a record with the neighbours nbr, the active slots active, *)
(* and near: the nodes within communication range times interference       *)
(* ratio, which stand for the coordinates.                                 *)
(***************************************************************************)
EXTENDS Iteration, Sequences, FiniteSets

CONSTANTS
  Node,      \* node IDs of the network
  Sink,      \* its sink_id
  Period     \* its working_period

Entry(s, r, t, c, a) ==
  [sender |-> s, receiver |-> r, timeslot |-> t, channel |-> c,
   receiver_active_slot |-> a]

Indices(es) == 1 .. Len(es)

BySender(es, s) == {i \in Indices(es) : es[i].sender = s}

(* Entries whose two ends exist: the others are reported and skipped.      *)
Known(es) == {i \in Indices(es) : es[i].sender \in Node /\ es[i].receiver \in Node}

(* Senders with exactly one entry, to a node that exists.                  *)
Unique(es) ==
  {s \in Node \ {Sink} : /\ Cardinality(BySender(es, s)) = 1
                         /\ \A i \in BySender(es, s) : es[i].receiver \in Node}

TheEntry(es, s) == es[CHOOSE i \in BySender(es, s) : TRUE]

(* The next node of the routing path, or the node itself where it stops.   *)
Hop(es, s) ==
  IF s \in Unique(es) /\ TheEntry(es, s).receiver # Sink
  THEN TheEntry(es, s).receiver
  ELSE s

(* The path from s is followed for as many hops as there are nodes; it has *)
(* run into a cycle iff it has not stopped by then.                        *)
InCycle(es, s) ==
  LET last == Iterate([x \in Node |-> Hop(es, x)], s, Cardinality(Node))
  IN  last \in Unique(es) /\ TheEntry(es, last).receiver # Sink

(* _interferes, with the reach of a transmission under either model.       *)
Interferes(reach, a, b) ==
  a.sender \in reach[b.receiver] \/ b.sender \in reach[a.receiver]

(* Mutation of EntryCodes: the receiver's duty cycle is only compared with *)
(* the slot the entry names.                                               *)
EntryCodesUnawake(g, channels, e) ==
  IF e.sender \notin Node THEN {"UNKNOWN_SENDER"}
  ELSE (IF e.sender = Sink THEN {"SINK_TRANSMISSION"} ELSE {}) \cup
       IF e.receiver \notin Node THEN {"UNKNOWN_RECEIVER"}
       ELSE UNION {
              IF e.receiver \in g.nbr[e.sender] THEN {} ELSE {"NON_NEIGHBOR_LINK"},
              IF e.channel \in 1 .. channels THEN {} ELSE {"INVALID_CHANNEL"},
              IF e.receiver_active_slot = e.timeslot % Period
              THEN {} ELSE {"ACTIVE_SLOT_FIELD_MISMATCH"}}

EntryCodes(g, channels, e) ==
  IF e.sender \notin Node THEN {"UNKNOWN_SENDER"}
  ELSE (IF e.sender = Sink THEN {"SINK_TRANSMISSION"} ELSE {}) \cup
       IF e.receiver \notin Node THEN {"UNKNOWN_RECEIVER"}
       ELSE LET awake == e.timeslot % Period
            IN  UNION {
              IF e.receiver \in g.nbr[e.sender] THEN {} ELSE {"NON_NEIGHBOR_LINK"},
              IF e.channel \in 1 .. channels THEN {} ELSE {"INVALID_CHANNEL"},
              IF e.receiver_active_slot = awake THEN {}
                                                ELSE {"ACTIVE_SLOT_FIELD_MISMATCH"},
              IF awake \in g.active[e.receiver] THEN {} ELSE {"INACTIVE_RECEIVER"}}

(* Mutation of SenderCodes: a sender with several entries passes.          *)
SenderCodesMissing(es, s) ==
  IF BySender(es, s) = {} THEN {"MISSING_TRANSMISSION"} ELSE {}

SenderCodes(es, s) ==
  LET count == Cardinality(BySender(es, s))
  IN  (IF count = 0 THEN {"MISSING_TRANSMISSION"} ELSE {}) \cup
      (IF count > 1 THEN {"DUPLICATE_TRANSMISSION"} ELSE {})

(* Mutation of RouteCodes: the order of a node and its parent is not       *)
(* looked at.                                                              *)
RouteCodesUnordered(es, s) == IF InCycle(es, s) THEN {"PARENT_CYCLE"} ELSE {}

RouteCodes(es, s) ==
  LET e == TheEntry(es, s)
  IN  (IF InCycle(es, s) THEN {"PARENT_CYCLE"} ELSE {}) \cup
      (IF /\ e.receiver \in Unique(es)
          /\ e.timeslot >= TheEntry(es, e.receiver).timeslot
       THEN {"PRECEDENCE_VIOLATION"} ELSE {})

(* The receiver of entry i transmits in the same timeslot.                 *)
HalfDuplexCodes(es, i) ==
  IF \E j \in Indices(es) : /\ es[j].sender \in Node
                            /\ es[j].sender = es[i].receiver
                            /\ es[j].timeslot = es[i].timeslot
  THEN {"HALF_DUPLEX_VIOLATION"} ELSE {}

PairCodes(reach, a, b) ==
  (IF a.receiver = b.receiver /\ a.timeslot = b.timeslot
   THEN {"PRIMARY_COLLISION"} ELSE {}) \cup
  (IF /\ a.timeslot = b.timeslot /\ a.channel = b.channel
      /\ a.receiver # b.receiver /\ Interferes(reach, a, b)
   THEN {"SECONDARY_COLLISION"} ELSE {})

Reach(g, model) == IF model = "legacy_neighbor" THEN g.nbr ELSE g.near

Violations(g, channels, model, es) ==
  (UNION {EntryCodes(g, channels, es[i]) : i \in Indices(es)}) \cup
  (UNION {SenderCodes(es, s) : s \in Node \ {Sink}}) \cup
  (UNION {RouteCodes(es, s) : s \in Unique(es)}) \cup
  (UNION {HalfDuplexCodes(es, i) : i \in Known(es)}) \cup
  (UNION {PairCodes(Reach(g, model), es[p[1]], es[p[2]]) :
            p \in {q \in Known(es) \X Known(es) : q[1] # q[2]}})

=============================================================================
