----------------------------- MODULE AnexSafety -----------------------------
(***************************************************************************)
(* What follows from the scheduler's invariant, for every network the      *)
(* schema accepts: the safety of its schedule, the certificate the         *)
(* validator gives it, and the convergecast it carries out.                *)
(***************************************************************************)
EXTENDS AnexProofs, AnexLimits, AnexCertificate, IterationProofs

(* Every sender has an upper neighbour, at a link delay below the cap.     *)
LEMMA DelaysFeasible ==
  ASSUME TypeOK, LayerInv, pc = "tree", NEW n \in Node \ {Sink}
  PROVE  \E p \in Upper(n) : FeasibleDelays(n, p) # {}
<1>1. PICK p \in nbr(n) : layer[p] = layer[n] - 1
  BY DEF LayerInv
<1>2. PICK s \in active(n), r \in active(p) : TRUE
  BY <1>1, NetFacts
<1>3. s \in 0 .. T-1 /\ r \in 0 .. T-1
  BY <1>1, <1>2, NetFacts DEF Slot
<1> DEFINE d == IF r > s THEN r - s ELSE r + T - s
<1>4. d \in LinkDelays(n, p)
  BY <1>2 DEF LinkDelays
<1>5. d < DelayCap
  BY <1>3, SizeAssumption, LimitsAssumption
<1> QED BY <1>1, <1>4, <1>5 DEF FeasibleDelays, Upper

(* Neither guard of the tool layer fires.                                  *)
LEMMA FailStep == ASSUME IndInv, [Next]_vars PROVE NeverFails'
<1>0. NeverFails /\ pc # "crashed" /\ pc # "ANEX_NO_PROGRESS"
      /\ pc # "MAX_WORKING_PERIODS_EXCEEDED"
  BY DEF IndInv, NeverFails, Outcomes
<1>1. ~ TooManyPeriods
  <2> SUFFICES ASSUME TooManyPeriods PROVE FALSE
    OBVIOUS
  <2>1. wp <= completed /\ completed # N /\ Guarded /\ wp > MaxPeriods
    BY DEF TooManyPeriods, IndInv, CoreInv, PeriodsBounded
  <2>2. completed \in 1 .. N /\ wp \in Nat
    BY CompletedFacts DEF IndInv, CoreInv, TypeOK
  <2> QED BY <2>1, <2>2, SizeAssumption, LimitsAssumption
<1>2. \A m, r \in Node : ~ Crash(m, r)
  BY CrashStep DEF IndInv, Crash
<1>3. CASE EndPeriod
  BY <1>3, EndPeriodFacts DEF IndInv, NeverFails, Outcomes
<1>4. CASE UNCHANGED vars
  BY <1>0, <1>4 DEF vars, NeverFails
<1>5. CASE BuildTree
  BY <1>0, <1>5 DEF BuildTree, LayeringStep, LayeringDone, ConnectNode,
                    LeaveUnconnected, TreeDone, NeverFails, Outcomes
<1>6. CASE WorkingPeriod
  BY <1>1, <1>3, <1>6 DEF WorkingPeriod, BeginPeriod, BeginSlot, Finish,
                          NeverFails, Outcomes
<1>7. CASE DynamicSchedule
  BY <1>2, <1>7 DEF DynamicSchedule, SkipSender, ChangeParent, QueueEmpty,
                    AssignColour, NoColourLeft, CommitSlot, NeverFails, Outcomes
<1> QED BY <1>4, <1>5, <1>6, <1>7 DEF Next

LEMMA InitInd == Init => IndInv
BY InitCore DEF IndInv, NeverFails, Outcomes, Init

LEMMA IndStep == IndInv /\ [Next]_vars => IndInv'
<1> SUFFICES ASSUME IndInv, [Next]_vars PROVE IndInv'
  OBVIOUS
<1>1. ASSUME NEW n \in Node, LeaveUnconnected(n) PROVE FALSE
  <2>1. n \in Node \ {Sink} /\ pc = "tree"
    BY <1>1 DEF LeaveUnconnected, NextInTree, IndInv, CoreInv, TypeOK
  <2> QED BY <1>1, <2>1, DelaysFeasible DEF LeaveUnconnected, IndInv, CoreInv
<1> QED BY <1>1, CoreStep, FailStep DEF IndInv

(* The invariant holds in every reachable state of the scheduler.          *)
THEOREM Inductive == Spec => []IndInv
BY InitInd, IndStep, PTL DEF Spec

LEMMA CoreHolds == Spec => []CoreInv
<1>1. IndInv => CoreInv
  BY DEF IndInv
<1> QED BY Inductive, <1>1, PTL

-----------------------------------------------------------------------------
(* Parent pointers and child lists agree through every change of parent.   *)
THEOREM ListsMatchParentsCorrect == Spec => []ListsMatchParents
<1>1. IndInv => ListsMatchParents
  BY DEF IndInv, CoreInv
<1> QED BY Inductive, <1>1, PTL

(* Routes never close a cycle: they all end at the sink.                   *)
THEOREM AcyclicRoutingCorrect == Spec => []AcyclicRouting
<1>1. IndInv => AcyclicRouting
  BY DEF IndInv, CoreInv
<1> QED BY Inductive, <1>1, PTL

(* No data arrives at a node after the node has transmitted.               *)
THEOREM AggregationPrecedenceCorrect == Spec => []AggregationPrecedence
<1>1. IndInv => AggregationPrecedence
  BY DEF IndInv, CoreInv
<1> QED BY Inductive, <1>1, PTL

(* Transmissions of one slot collide neither at a receiver nor on a        *)
(* channel.                                                                *)
THEOREM CollisionFreeCorrect == Spec => []CollisionFree
<1>1. IndInv => CollisionFree
  BY DEF IndInv, CoreInv
<1> QED BY Inductive, <1>1, PTL

(* Receivers are awake, and channels are those of the request.             *)
THEOREM ReceiverListensCorrect == Spec => []ReceiverListens
<1>1. IndInv => ReceiverListens
  BY DEF IndInv, CoreInv
<1> QED BY Inductive, <1>1, PTL

(* The sink is never queued, eligible or scheduled.                        *)
THEOREM SinkNeverTransmitsCorrect == Spec => []SinkNeverTransmits
<1>1. IndInv => SinkNeverTransmits
  BY DEF IndInv, CoreInv
<1> QED BY Inductive, <1>1, PTL

(* Neither guard of the tool layer fires, and no None parent or missing    *)
(* child is dereferenced.                                                  *)
THEOREM NeverFailsCorrect == Spec => []NeverFails
<1>1. IndInv => NeverFails
  BY DEF IndInv, CoreInv
<1> QED BY Inductive, <1>1, PTL

(* The loop's exit test counts every scheduled node once.                  *)
THEOREM CompletedCountsScheduledCorrect == Spec => []CompletedCountsScheduled
<1>1. IndInv => CompletedCountsScheduled
  BY DEF IndInv, CoreInv
<1> QED BY Inductive, <1>1, PTL

(* There are never more working periods than senders.                      *)
THEOREM PeriodsBoundedCorrect == Spec => []PeriodsBounded
<1>1. IndInv => PeriodsBounded
  BY DEF IndInv, CoreInv
<1> QED BY Inductive, <1>1, PTL

(* A committed transmission is never moved to another slot, channel or     *)
(* receiver.                                                               *)
THEOREM CommittedFrozenCorrect == Spec => CommittedFrozen
<1> DEFINE Frozen == \A n \in Node : timeslot[n] # None =>
                        /\ timeslot'[n] = timeslot[n]
                        /\ channel'[n] = channel[n]
                        /\ parent'[n] = parent[n]
<1>1. ASSUME CoreInv, [Next]_vars PROVE Frozen
  <2> SUFFICES ASSUME NEW n \in Node, timeslot[n] # None
               PROVE  /\ timeslot'[n] = timeslot[n]
                      /\ channel'[n] = channel[n]
                      /\ parent'[n] = parent[n]
    OBVIOUS
  <2>1. timeslot'[n] = timeslot[n] /\ channel'[n] = channel[n]
    <3>1. CASE CommitSlot
      <4>1. n \notin Committed
        BY <1>1, <3>1, CommitFacts DEF Unscheduled
      <4> QED BY <1>1, <3>1, <4>1, CommitFacts
    <3>2. CASE UNCHANGED sched
      BY <3>2 DEF sched
    <3> QED BY <1>1, <3>1, <3>2, Frames
  <2>2. parent'[n] = parent[n]
    <3>1. ASSUME NEW m \in Node, NEW r \in Node, ChangeParent(m, r)
          PROVE  parent'[n] = parent[n]
      <4>1. Unscheduled(m) /\ \A c \in Node : parent'[c] = IF c = m THEN r ELSE parent[c]
        BY <1>1, <3>1, ChangeFacts, ChangeFrame
      <4> QED BY <4>1 DEF Unscheduled
    <3>2. ASSUME NEW c \in Node, NEW p \in Node, ConnectNode(c, p) PROVE FALSE
      <4>1. n \in Scheduled
        BY DEF Scheduled
      <4> QED BY <1>1, <3>2, <4>1, ConnectFrame
    <3>3. CASE UNCHANGED tree
      BY <3>3 DEF tree
    <3> QED BY <1>1, <3>1, <3>2, <3>3, Frames
  <2> QED BY <2>1, <2>2
<1>2. IndInv /\ [Next]_vars => [Frozen]_vars
  BY <1>1 DEF IndInv
<1> QED BY Inductive, <1>2, PTL DEF Spec, CommittedFrozen

-----------------------------------------------------------------------------
(* The certificate.                                                        *)

(* The validator counts and follows links as the scheduler's proofs do.    *)
LEMMA SameOperators ==
  /\ \A S : V!Cardinality(S) = Cardinality(S)
  /\ \A link, x, m : V!Iterate(link, x, m) = Iterate(link, x, m)
<1>1. \A S : V!Cardinality(S) = Cardinality(S)
  BY Zenon DEF V!Cardinality, V!IsFiniteSet, Cardinality, IsFiniteSet
<1>2. \A link, x, m : V!Iterate(link, x, m) = Iterate(link, x, m)
  BY DEF V!Iterate, Iterate
<1> QED BY <1>1, <1>2

(* What is known of the schedule the tool reads off the nodes.             *)
LEMMA DoneFacts ==
  ASSUME CoreInv, pc = "done"
  PROVE  /\ Node \ {Sink} = 1 .. N-1 /\ N - 1 \in Nat
         /\ \A n \in 1 .. N-1 :
              /\ n \in Node \ {Sink}
              /\ parent[n] \in Node /\ parent[n] \in net.nbr[n]
              /\ timeslot[n] \in Nat
              /\ channel[n] \in 1 .. net.channels
              /\ timeslot[n] % T \in net.active[parent[n]]
              /\ parent[n] = Sink \/ timeslot[n] < timeslot[parent[n]]
         /\ \A a, b \in 1 .. N-1 :
              a # b /\ timeslot[a] = timeslot[b] =>
                /\ parent[a] # parent[b]
                /\ parent[a] # b
                /\ channel[a] = channel[b] => ~ Conflict(a, b)
<1>1. Node \ {Sink} = 1 .. N-1 /\ N - 1 \in Nat
  BY SizeAssumption DEF Node, Sink
<1>2. Scheduled = Node \ {Sink}
  BY DEF CoreInv, CompletedCountsScheduled
<1>3. ASSUME NEW n \in 1 .. N-1
      PROVE  /\ n \in Node \ {Sink}
             /\ parent[n] \in Node /\ parent[n] \in net.nbr[n]
             /\ timeslot[n] \in Nat
             /\ channel[n] \in 1 .. net.channels
             /\ timeslot[n] % T \in net.active[parent[n]]
             /\ parent[n] = Sink \/ timeslot[n] < timeslot[parent[n]]
  <2>1. n \in Node \ {Sink} /\ n \in Scheduled
    BY <1>1, <1>2
  <2>2. parent[n] \in nbr(n) /\ (Unscheduled(parent[n]) \/ timeslot[n] < timeslot[parent[n]])
    BY <2>1 DEF CoreInv, AggregationPrecedence
  <2>3. timeslot[n] % T \in net.active[parent[n]] /\ channel[n] \in 1 .. net.channels
    BY <2>1 DEF CoreInv, ReceiverListens, active
  <2>4. net.nbr \in [Node -> SUBSET Node]
    BY NetworksAssumption DEF CoreInv, TypeOK, WellFormed
  <2>5. parent[n] \in Node /\ parent[n] \in net.nbr[n]
    BY <2>1, <2>2, <2>4 DEF nbr
  <2>6. Unscheduled(parent[n]) => parent[n] = Sink
    BY <1>2, <2>5 DEF Scheduled, Unscheduled
  <2>7. timeslot[n] \in Nat
    BY <2>1 DEF CoreInv, TypeOK, Scheduled
  <2> QED BY <2>1, <2>2, <2>3, <2>5, <2>6, <2>7
<1>4. \A a, b \in 1 .. N-1 :
        a # b /\ timeslot[a] = timeslot[b] =>
          /\ parent[a] # parent[b]
          /\ parent[a] # b
          /\ channel[a] = channel[b] => ~ Conflict(a, b)
  BY <1>1, <1>2 DEF CoreInv, CollisionFree
<1> QED BY <1>1, <1>3, <1>4

(* Every sender has the entry of its own number.                           *)
LEMMA ScheduleFacts ==
  ASSUME CoreInv, pc = "done"
  PROVE  /\ V!Indices(Schedule) = 1 .. N-1
         /\ \A n \in 1 .. N-1 :
              /\ Schedule[n].sender = n
              /\ Schedule[n].receiver = parent[n]
              /\ Schedule[n].timeslot = timeslot[n]
              /\ Schedule[n].channel = channel[n]
              /\ Schedule[n].receiver_active_slot = timeslot[n] % T
              /\ V!BySender(Schedule, n) = {n}
              /\ V!TheEntry(Schedule, n) = Schedule[n]
         /\ V!Unique(Schedule) = 1 .. N-1
         /\ V!Known(Schedule) = 1 .. N-1
<1>1. Len(Schedule) = N - 1
  BY DoneFacts DEF Schedule
<1>2. V!Indices(Schedule) = 1 .. N-1
  BY <1>1 DEF V!Indices
<1>3. \A n \in 1 .. N-1 :
        /\ Schedule[n].sender = n
        /\ Schedule[n].receiver = parent[n]
        /\ Schedule[n].timeslot = timeslot[n]
        /\ Schedule[n].channel = channel[n]
        /\ Schedule[n].receiver_active_slot = timeslot[n] % T
  BY DEF Schedule, V!Entry
<1>4. \A n \in 1 .. N-1 : V!BySender(Schedule, n) = {n}
  BY <1>2, <1>3 DEF V!BySender
<1>5. \A n \in 1 .. N-1 : V!TheEntry(Schedule, n) = Schedule[n]
  BY <1>4 DEF V!TheEntry
<1>6. \A n \in 1 .. N-1 : Cardinality(V!BySender(Schedule, n)) = 1
  BY <1>4, FS_Singleton
<1>7. V!Unique(Schedule) = 1 .. N-1
  BY <1>3, <1>4, <1>6, DoneFacts, SameOperators DEF V!Unique
<1>8. V!Known(Schedule) = 1 .. N-1
  BY <1>2, <1>3, DoneFacts DEF V!Known
<1> QED BY <1>2, <1>3, <1>4, <1>5, <1>7, <1>8

(* Parents transmit later, so the validator's walk up a route never runs   *)
(* into a cycle.                                                           *)
LEMMA RoutesEnd ==
  ASSUME CoreInv, pc = "done", NEW s \in 1 .. N-1
  PROVE  ~ V!InCycle(Schedule, s)
<1> DEFINE hop == [x \in Node |-> V!Hop(Schedule, x)]
           rank == [x \in Node |-> IF x = Sink THEN 0 ELSE timeslot[x]]
           m == Cardinality(Node)
           last == Iterate(hop, s, m)
<1>1. \A x \in Node : hop[x] = IF x # Sink /\ parent[x] # Sink THEN parent[x] ELSE x
  BY ScheduleFacts, DoneFacts DEF V!Hop
<1>2. hop \in [Node -> Node]
  BY <1>1, DoneFacts
<1>3. rank \in [Node -> Int]
  BY DoneFacts
<1>4. Rising(hop, rank, Node)
  BY <1>1, DoneFacts DEF Rising
<1>5. m \in Nat /\ m >= Cardinality(Node) - 1 /\ IsFiniteSet(Node)
  BY NodeFinite, FS_CardinalityType
<1>6. s \in Node
  BY DoneFacts
<1> HIDE DEF hop, rank, m
<1>7. last \in Node
  BY <1>2, <1>5, <1>6, IterateEquations
<1>8. hop[last] = last
  BY <1>2, <1>3, <1>4, <1>5, <1>6, ComesToRest
<1> HIDE DEF last
<1>9. last = Sink \/ parent[last] = Sink
  <2> SUFFICES ASSUME last # Sink, parent[last] # Sink PROVE FALSE
    OBVIOUS
  <2>1. parent[last] = last /\ last \in 1 .. N-1
    BY <1>1, <1>7, <1>8, DoneFacts
  <2>2. timeslot[last] < timeslot[last] /\ timeslot[last] \in Nat
    BY <2>1, DoneFacts
  <2> QED BY <2>2
<1>10. V!Iterate(hop, s, V!Cardinality(Node)) = last
  BY SameOperators DEF last, m
<1>11. ~ (last \in V!Unique(Schedule) /\ V!TheEntry(Schedule, last).receiver # Sink)
  BY <1>9, ScheduleFacts, DoneFacts
<1> QED BY <1>10, <1>11 DEF V!InCycle, hop

(* No part of the validator finds anything.                                *)
LEMMA NoViolation == ASSUME CoreInv, pc = "done" PROVE Certificate = {}
<1>1. ASSUME NEW n \in 1 .. N-1
      PROVE  V!EntryCodes(net, net.channels, Schedule[n]) = {}
  BY ScheduleFacts, DoneFacts DEF V!EntryCodes
<1>2. ASSUME NEW n \in 1 .. N-1 PROVE V!SenderCodes(Schedule, n) = {}
  <2>1. V!Cardinality(V!BySender(Schedule, n)) = 1
    <3>1. V!BySender(Schedule, n) = {n}
      BY ScheduleFacts
    <3> QED BY <3>1, FS_Singleton, SameOperators
  <2> QED BY <2>1 DEF V!SenderCodes
<1>3. ASSUME NEW n \in 1 .. N-1 PROVE V!RouteCodes(Schedule, n) = {}
  <2>1. parent[n] \in 1 .. N-1 => ~ (timeslot[n] >= timeslot[parent[n]])
    BY DoneFacts
  <2> QED BY <2>1, ScheduleFacts, RoutesEnd DEF V!RouteCodes
<1>4. ASSUME NEW n \in 1 .. N-1 PROVE V!HalfDuplexCodes(Schedule, n) = {}
  BY ScheduleFacts, DoneFacts DEF V!HalfDuplexCodes
<1>5. ASSUME NEW a \in 1 .. N-1, NEW b \in 1 .. N-1, a # b
      PROVE  V!PairCodes(net.nbr, Schedule[a], Schedule[b]) = {}
  BY <1>5, ScheduleFacts, DoneFacts DEF V!PairCodes, V!Interferes, Conflict, nbr
<1>6. /\ V!Indices(Schedule) = 1 .. N-1 /\ V!Unique(Schedule) = 1 .. N-1
      /\ V!Known(Schedule) = 1 .. N-1 /\ Node \ {Sink} = 1 .. N-1
  BY ScheduleFacts, DoneFacts
<1>7. \A p \in {q \in (1 .. N-1) \X (1 .. N-1) : q[1] # q[2]} :
        V!PairCodes(V!Reach(net, "legacy_neighbor"), Schedule[p[1]], Schedule[p[2]]) = {}
  BY <1>5 DEF V!Reach
<1>8. /\ UNION {V!EntryCodes(net, net.channels, Schedule[i]) : i \in 1 .. N-1} = {}
      /\ UNION {V!SenderCodes(Schedule, s) : s \in 1 .. N-1} = {}
      /\ UNION {V!RouteCodes(Schedule, s) : s \in 1 .. N-1} = {}
      /\ UNION {V!HalfDuplexCodes(Schedule, i) : i \in 1 .. N-1} = {}
  BY <1>1, <1>2, <1>3, <1>4
<1>9. UNION {V!PairCodes(V!Reach(net, "legacy_neighbor"), Schedule[p[1]], Schedule[p[2]]) :
               p \in {q \in (1 .. N-1) \X (1 .. N-1) : q[1] # q[2]}} = {}
  BY <1>7
<1> QED BY <1>6, <1>8, <1>9 DEF Certificate, V!Violations

(* Every schedule the tool returns passes the independent validator.       *)
THEOREM CertificateValidCorrect == Spec => []CertificateValid
<1>1. CoreInv => CertificateValid
  BY NoViolation DEF CertificateValid
<1> QED BY CoreHolds, <1>1, PTL

-----------------------------------------------------------------------------
(* The convergecast.                                                       *)

(* Whose readings a node holds is well defined: the links of committed     *)
(* transmissions end, at a node that has not transmitted, and it does not  *)
(* matter where on the way one starts.                                     *)
CarrierRests ==
  /\ Onward \in [Node -> Node]
  /\ \A x \in Node : /\ Carrier(x) \in Node
                     /\ Unscheduled(Carrier(x))
                     /\ Carrier(Onward[x]) = Carrier(x)
                     /\ Unscheduled(x) => Carrier(x) = x

LEMMA CarrierFacts == CoreInv => CarrierRests
<1> SUFFICES ASSUME CoreInv PROVE CarrierRests
  OBVIOUS
<1> DEFINE rank == [x \in Node |-> IF Unscheduled(x) THEN Now ELSE timeslot[x]]
<1>1. ASSUME NEW y \in Node, ~ Unscheduled(y)
      PROVE  /\ parent[y] \in Node /\ timeslot[y] \in Nat /\ timeslot[y] < Now
             /\ Unscheduled(parent[y]) \/ timeslot[y] < timeslot[parent[y]]
  <2>1. y \in Scheduled
    BY <1>1 DEF Scheduled, Unscheduled
  <2>2. parent[y] \in nbr(y) /\ (Unscheduled(parent[y]) \/ timeslot[y] < timeslot[parent[y]])
    BY <2>1 DEF CoreInv, AggregationPrecedence
  <2>3. nbr(y) \subseteq Node
    BY NetFacts DEF CoreInv
  <2>4. timeslot[y] \in Nat
    BY <1>1 DEF CoreInv, TypeOK, Unscheduled
  <2>5. timeslot[y] < Now
    BY <2>1 DEF CoreInv, ScheduleInv
  <2> QED BY <2>2, <2>3, <2>4, <2>5
<1>2. Onward \in [Node -> Node]
  BY <1>1 DEF Onward
<1>3. Now \in Int
  <2>1. wp \in Nat \ {0} /\ slot \in Nat /\ T \in Nat
    BY SizeAssumption DEF CoreInv, TypeOK
  <2>2. (wp - 1) * T \in Int
    BY <2>1
  <2> QED BY <2>1, <2>2 DEF Now
<1>4. rank \in [Node -> Int]
  BY <1>1, <1>3
<1>5. \A y \in Node : IF Unscheduled(y) THEN Onward[y] = y
                      ELSE Onward[y] = parent[y] /\ rank[y] < rank[Onward[y]]
  BY <1>1 DEF Onward
<1>6. Rising(Onward, rank, Node)
  BY <1>5 DEF Rising
<1>7. N \in Nat /\ N >= Cardinality(Node) - 1 /\ IsFiniteSet(Node)
  BY NodeFinite, SizeAssumption
<1> HIDE DEF rank
<1>8. ASSUME NEW x \in Node
      PROVE  Carrier(x) \in Node /\ Unscheduled(Carrier(x)) /\ Onward[Carrier(x)] = Carrier(x)
  <2>1. Onward[Carrier(x)] = Carrier(x)
    BY <1>2, <1>4, <1>6, <1>7, ComesToRest DEF Carrier
  <2>2. Carrier(x) \in Node
    BY <1>2, <1>7, IterateEquations DEF Carrier
  <2>3. Unscheduled(Carrier(x))
    <3> SUFFICES ASSUME ~ Unscheduled(Carrier(x)) PROVE FALSE
      OBVIOUS
    <3>1. rank[Carrier(x)] < rank[Carrier(x)] /\ rank[Carrier(x)] \in Int
      BY <1>4, <1>5, <2>1, <2>2
    <3> QED BY <3>1
  <2> QED BY <2>1, <2>2, <2>3
<1>9. ASSUME NEW x \in Node PROVE Carrier(Onward[x]) = Carrier(x)
  <2>1. Iterate(Onward, Onward[x], N) = Onward[Iterate(Onward, x, N)]
    BY <1>2, <1>7, IterateShift
  <2> QED BY <1>8, <2>1 DEF Carrier
<1>10. ASSUME NEW x \in Node, Unscheduled(x) PROVE Carrier(x) = x
  <2>1. {x} \in SUBSET Node /\ \A y \in {x} : Onward[y] \in {x}
    BY <1>5, <1>10
  <2>2. Carrier(x) \in {x}
    BY <1>2, <1>7, <2>1, IterateStays DEF Carrier
  <2> QED BY <2>2
<1> QED BY <1>2, <1>8, <1>9, <1>10 DEF CarrierRests

(* A committed slot hands on what the senders carry, and nothing else.     *)
LEMMA CommitCarries ==
  ASSUME CoreInv, CommitSlot, CarrierRests, CarrierRests', NEW x \in Node
  PROVE  Carrier(x)' = IF Carrier(x) \in Committed THEN parent[Carrier(x)] ELSE Carrier(x)
<1> DEFINE Moved(z) == IF Carrier(z) \in Committed THEN parent[Carrier(z)] ELSE Carrier(z)
           S == {z \in Node : Moved(z) = Moved(x)}
<1>0. PICK onward, last : onward = Onward' /\ last = Carrier(x)'
  OBVIOUS
<1>1. /\ \A n \in Node : Unscheduled(n)' <=> Unscheduled(n) /\ n \notin Committed
      /\ \A n \in Committed : /\ n \in Node /\ Unscheduled(n)
                              /\ parent[n] \in Node /\ parent[n] \notin Committed
                              /\ Unscheduled(parent[n])
      /\ parent' = parent
  <2>1. \A n \in Committed : Unscheduled(parent[n])
    BY CommitFacts, ParentUnscheduled DEF CoreInv
  <2>2. \A n \in Node : Unscheduled(n)' <=> Unscheduled(n) /\ n \notin Committed
    BY CommitFacts DEF Unscheduled
  <2> QED BY <2>1, <2>2, CommitFacts DEF tree
<1>2. \A z \in Node : onward[z] = IF Unscheduled(z) /\ z \notin Committed THEN z
                                  ELSE parent[z]
  BY <1>0, <1>1 DEF Onward
<1>3. \A z \in Node : Onward[z] = IF Unscheduled(z) THEN z ELSE parent[z]
  BY DEF Onward
<1>4. ASSUME NEW z \in Node, Unscheduled(z), z \notin Committed PROVE Moved(z) = z
  BY <1>4 DEF CarrierRests
<1>5. ASSUME NEW z \in Node PROVE Moved(onward[z]) = Moved(z)
  <2>1. CASE Unscheduled(z) /\ z \notin Committed
    BY <1>2, <2>1
  <2>2. CASE ~ Unscheduled(z)
    BY <1>2, <1>3, <2>2 DEF CarrierRests
  <2>3. CASE z \in Committed
    <3>1. Moved(z) = parent[z]
      BY <1>1, <2>3 DEF CarrierRests
    <3>2. Moved(parent[z]) = parent[z]
      BY <1>1, <1>4, <2>3
    <3> QED BY <1>2, <2>3, <3>1, <3>2
  <2> QED BY <2>1, <2>2, <2>3
<1>6. onward \in [Node -> Node] /\ last \in Node /\ Unscheduled(last)'
  BY <1>0 DEF CarrierRests
<1>7. last = Iterate(onward, x, N)
  BY <1>0 DEF Carrier
<1>8. S \in SUBSET Node /\ x \in S /\ \A z \in S : onward[z] \in S
  BY <1>5, <1>6
<1>9. N \in Nat
  BY SizeAssumption
<1> HIDE DEF S
<1>10. last \in S
  BY <1>6, <1>7, <1>8, <1>9, IterateStays
<1>11. Moved(last) = Moved(x)
  BY <1>10 DEF S
<1>12. Unscheduled(last) /\ last \notin Committed
  BY <1>1, <1>6
<1>13. Moved(last) = last
  BY <1>4, <1>6, <1>12
<1> QED BY <1>0, <1>11, <1>13

(* A committed slot is a round of the convergecast, every other step a     *)
(* stutter.                                                                *)
LEMMA StepIsRound ==
  ASSUME CoreInv, [Next]_vars, CarrierRests, CarrierRests'
  PROVE  [Abstract!Next]_(Abstract!vars)
<1>1. ASSUME Onward' = Onward, Scheduled' = Scheduled PROVE UNCHANGED Abstract!vars
  <2>1. \A n \in Node : Held(n)' = Held(n)
    BY <1>1 DEF Held, Carrier
  <2> QED BY <1>1, <2>1 DEF Abstract!vars
<1>2. CASE CommitSlot /\ Committed # {}
  <2>1. /\ Committed \subseteq Node \ ({Sink} \cup Scheduled)
        /\ Scheduled' = Scheduled \cup Committed
    BY <1>2, CommitFacts
  <2>2. \A m \in Committed : /\ parent[m] \in Node /\ parent[m] \notin Committed
                             /\ Unscheduled(parent[m])
    BY <1>2, CommitFacts, ParentUnscheduled DEF CoreInv
  <2>3. \A m \in Committed : parent[m] \in Node \ (Scheduled \cup Committed)
    BY <2>2 DEF Scheduled, Unscheduled
  <2>4. \A a, b \in Committed : parent[a] = parent[b] => a = b
    <3> SUFFICES ASSUME NEW a \in Committed, NEW b \in Committed, a # b
                 PROVE  parent[a] # parent[b]
      OBVIOUS
    <3>1. pc = "colouring" /\ Committed \subseteq EligibleSet
      BY <1>2, CommitFacts
    <3>2. PICK i \in 1 .. Len(eligible) : a = eligible[i]
      BY <3>1 DEF EligibleSet
    <3>3. PICK j \in 1 .. Len(eligible) : b = eligible[j]
      BY <3>1 DEF EligibleSet
    <3>4. EligibleInv
      BY DEF CoreInv
    <3> QED BY <3>1, <3>2, <3>3, <3>4 DEF EligibleInv
  <2> DEFINE to == [m \in Committed |-> parent[m]]
  <2>5. to \in [Committed -> Node \ (Scheduled \cup Committed)]
    BY <2>3
  <2>6. ASSUME NEW n \in Node
        PROVE  Held(n)' = IF n \in Committed THEN {}
                          ELSE Held(n) \cup
                               UNION {Held(m) : m \in {s \in Committed : to[s] = n}}
    <3>1. \A x \in Node : Carrier(x)' = n <=>
            IF Carrier(x) \in Committed THEN parent[Carrier(x)] = n ELSE Carrier(x) = n
      BY <1>2, CommitCarries
    <3>2. CASE n \in Committed
      <4>1. \A x \in Node : ~ (Carrier(x)' = n)
        BY <2>2, <3>1, <3>2
      <4>2. Held(n)' = {}
        BY <4>1 DEF Held
      <4> QED BY <3>2, <4>2
    <3>3. CASE n \notin Committed
      <4>1. \A x \in Node : Carrier(x)' = n <=>
              \/ Carrier(x) = n
              \/ \E m \in Committed : to[m] = n /\ Carrier(x) = m
        BY <3>1, <3>3
      <4>2. \A x : x \in Held(n)' <=> x \in Node /\ Carrier(x)' = n
        BY DEF Held
      <4>3. \A x : x \in UNION {Held(m) : m \in {s \in Committed : to[s] = n}} <=>
                     \E m \in Committed : to[m] = n /\ x \in Held(m)
        OBVIOUS
      <4>4. \A x, m : x \in Held(m) <=> x \in Node /\ Carrier(x) = m
        BY DEF Held
      <4>5. \A x : x \in Held(n)' <=>
              x \in Held(n) \cup UNION {Held(m) : m \in {s \in Committed : to[s] = n}}
        BY <4>1, <4>2, <4>3, <4>4
      <4> QED BY <3>3, <4>5
    <3> QED BY <3>2, <3>3
  <2> DEFINE Holds == [n \in Node |-> Held(n)]
  <2>7. Abstract!Round(Committed, to)
    <3>1. Holds' = [n \in Node |->
                      IF n \in Committed THEN {}
                      ELSE Holds[n] \cup
                           UNION {Holds[m] : m \in {s \in Committed : to[s] = n}}]
      <4>1. \A m \in Committed : Holds[m] = Held(m)
        BY <2>1
      <4>2. ASSUME NEW n \in Node
            PROVE  Held(n)' = IF n \in Committed THEN {}
                              ELSE Holds[n] \cup
                                   UNION {Holds[m] : m \in {s \in Committed : to[s] = n}}
        <5> HIDE DEF to
        <5>1. {Holds[m] : m \in {s \in Committed : to[s] = n}}
              = {Held(m) : m \in {s \in Committed : to[s] = n}}
          BY <4>1
        <5>2. Holds[n] = Held(n)
          OBVIOUS
        <5> QED BY <2>6, <5>1, <5>2 DEF to
      <4> QED BY <4>2
    <3>2. Committed # {} /\ Scheduled' = Scheduled \cup Committed
      BY <1>2, <2>1
    <3>3. \A m \in Committed : to[m] \notin Scheduled \cup Committed
      BY <2>3
    <3>4. \A a, b \in Committed : to[a] = to[b] => a = b
      BY <2>4
    <3> HIDE DEF to
    <3> QED BY <3>1, <3>2, <3>3, <3>4 DEF Abstract!Round
  <2> HIDE DEF to
  <2>9. Committed \in SUBSET (Node \ ({Sink} \cup Scheduled))
    BY <2>1
  <2>8. \E S \in SUBSET (Node \ ({Sink} \cup Scheduled)) :
          \E f \in [S -> Node \ (Scheduled \cup S)] : Abstract!Round(S, f)
    BY <2>9, <2>5, <2>7
  <2> QED BY <2>8 DEF Abstract!Next
<1>3. CASE ~ (CommitSlot /\ Committed # {})
  <2>1. timeslot' = timeslot
    <3>1. CASE CommitSlot
      <4>1. Committed = {} /\ timeslot \in [Node -> Nat \cup {None}]
        BY <1>3, <3>1 DEF CoreInv, TypeOK
      <4> QED BY <3>1, <4>1 DEF CommitSlot
    <3> QED BY <3>1, Frames DEF sched
  <2>2. \A y \in Node : ~ Unscheduled(y) => parent'[y] = parent[y]
    <3>1. ASSUME NEW m \in Node, NEW r \in Node, ChangeParent(m, r), NEW y \in Node,
                 ~ Unscheduled(y)
          PROVE  parent'[y] = parent[y]
      BY <3>1, ChangeFacts, ChangeFrame
    <3>2. ASSUME NEW c \in Node, NEW p \in Node, ConnectNode(c, p), NEW y \in Node
          PROVE  Unscheduled(y)
      BY <3>2, ConnectFrame DEF Scheduled, Unscheduled
    <3> QED BY <3>1, <3>2, Frames DEF tree
  <2>3. Onward' = Onward
    BY <2>1, <2>2 DEF Onward, Unscheduled
  <2>4. Scheduled' = Scheduled
    BY <2>1 DEF Scheduled
  <2> QED BY <1>1, <2>3, <2>4
<1> QED BY <1>2, <1>3

(* Slot by slot, what the scheduler commits is a convergecast: complete    *)
(* aggregates move on to nodes that have yet to transmit, one per node.    *)
THEOREM ImplementsConvergecastCorrect == Spec => ImplementsConvergecast
<1>1. Init => Abstract!Init
  <2> SUFFICES ASSUME Init PROVE Abstract!Init
    OBVIOUS
  <2>1. Scheduled = {} /\ \A x \in Node : Unscheduled(x)
    BY DEF Init, Scheduled, Unscheduled
  <2>2. CarrierRests
    BY InitCore, CarrierFacts
  <2>3. \A x \in Node : Carrier(x) = x
    BY <2>1, <2>2 DEF CarrierRests
  <2>4. \A n \in Node : Held(n) = {n}
    BY <2>3 DEF Held
  <2> QED BY <2>1, <2>4 DEF Abstract!Init
<1>2. CoreInv /\ [Next]_vars /\ CarrierRests /\ CarrierRests' => [Abstract!Next]_(Abstract!vars)
  BY StepIsRound
<1> QED BY CoreHolds, CarrierFacts, <1>1, <1>2, PTL
        DEF Spec, ImplementsConvergecast, Abstract!Spec

(* When the tool returns a schedule, the sink holds the reading of every   *)
(* node.                                                                   *)
THEOREM DoneDelivers == Spec => [](pc = "done" => Held(Sink) = Node)
<1>1. CoreInv /\ CarrierRests => (pc = "done" => Held(Sink) = Node)
  <2> SUFFICES ASSUME CoreInv, CarrierRests, pc = "done" PROVE Held(Sink) = Node
    OBVIOUS
  <2>1. Scheduled = Node \ {Sink}
    BY DEF CoreInv, CompletedCountsScheduled
  <2>2. \A x \in Node : Carrier(x) = Sink
    BY <2>1 DEF CarrierRests, Scheduled, Unscheduled
  <2> QED BY <2>2 DEF Held
<1> QED BY CoreHolds, CarrierFacts, <1>1, PTL
=============================================================================
