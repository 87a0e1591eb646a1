-------------------------- MODULE ExecutionProofs ---------------------------
(***************************************************************************)
(* What a certificate is worth, for every network, every schedule and      *)
(* every number of channels: the schedule carries out a convergecast, the  *)
(* convergecast loses nothing, and the older checker has no objection.     *)
(***************************************************************************)
EXTENDS ScheduleExecution, IterationProofs, SequenceTheorems

-----------------------------------------------------------------------------
(* The abstract convergecast keeps its promises, for every set of nodes.   *)

(* What a round does: those who send end up empty, everyone else adds what *)
(* was sent to it.                                                         *)
LEMMA RoundFacts ==
  ASSUME Abstract!TypeOK, NEW S, NEW to, S \subseteq Node \ ({Sink} \cup sent),
         to \in [S -> Node \ (sent \cup S)], Abstract!Round(S, to)
  PROVE  /\ sent' = sent \cup S
         /\ \A m \in S : to[m] \in Node \ sent'
         /\ \A a, b \in S : to[a] = to[b] => a = b
         /\ \A n \in S : holds'[n] = {}
         /\ \A n \in Node \ S, x \in Node :
              x \in holds'[n] <=> \/ x \in holds[n]
                                  \/ \E s \in S : to[s] = n /\ x \in holds[s]
         /\ holds' \in [Node -> SUBSET Node]
<1>1. \A n \in Node \ S, x \in Node :
         x \in holds'[n] <=> \/ x \in holds[n]
                             \/ \E s \in S : to[s] = n /\ x \in holds[s]
  BY DEF Abstract!Round, Abstract!TypeOK
<1>2. \A n \in Node : holds'[n] \subseteq Node
  BY DEF Abstract!Round, Abstract!TypeOK
<1>3. holds' \in [Node -> SUBSET Node]
  <2>1. holds' = [n \in Node |-> holds'[n]]
    BY DEF Abstract!Round
  <2> QED BY <1>2, <2>1
<1>4. sent' = sent \cup S /\ \A m \in S : to[m] \in Node \ sent'
  BY DEF Abstract!Round
<1>5. \A n \in S : holds'[n] = {}
  BY DEF Abstract!Round
<1>6. \A a, b \in S : to[a] = to[b] => a = b
  BY DEF Abstract!Round
<1> QED BY <1>1, <1>3, <1>4, <1>5, <1>6

(* Type correctness: aggregates are sets of nodes, the sink never sends.   *)
THEOREM ConvergecastType == Abstract!Spec => []Abstract!TypeOK
<1>1. Abstract!Init => Abstract!TypeOK
  BY DEF Abstract!Init, Abstract!TypeOK
<1>2. Abstract!TypeOK /\ [Abstract!Next]_(Abstract!vars) => Abstract!TypeOK'
  <2> SUFFICES ASSUME Abstract!TypeOK, [Abstract!Next]_(Abstract!vars) PROVE Abstract!TypeOK'
    OBVIOUS
  <2>1. CASE Abstract!Next
    <3>1. PICK S \in SUBSET (Node \ ({Sink} \cup sent)) :
             \E to \in [S -> Node \ (sent \cup S)] : Abstract!Round(S, to)
      BY <2>1 DEF Abstract!Next
    <3>2. PICK to \in [S -> Node \ (sent \cup S)] : Abstract!Round(S, to)
      BY <3>1
    <3>3. sent' = sent \cup S /\ holds' \in [Node -> SUBSET Node]
      BY <3>2, RoundFacts
    <3> QED BY <3>3 DEF Abstract!TypeOK
  <2>2. CASE UNCHANGED Abstract!vars
    BY <2>2 DEF Abstract!vars, Abstract!TypeOK
  <2> QED BY <2>1, <2>2
<1> QED BY <1>1, <1>2, PTL DEF Abstract!Spec

(* A reading is where it was, or where its holder has just sent it.        *)
LEMMA ConservedStep ==
  ASSUME Abstract!TypeOK, Abstract!Conserved, [Abstract!Next]_(Abstract!vars)
  PROVE  Abstract!Conserved'
<1>1. CASE Abstract!Next
  <2>0. PICK S \in SUBSET (Node \ ({Sink} \cup sent)) :
           \E to \in [S -> Node \ (sent \cup S)] : Abstract!Round(S, to)
    BY <1>1 DEF Abstract!Next
  <2>1. PICK to \in [S -> Node \ (sent \cup S)] : Abstract!Round(S, to)
    BY <2>0
  <2>2. /\ sent' = sent \cup S
        /\ \A m \in S : to[m] \in Node \ sent'
        /\ \A a, b \in S : to[a] = to[b] => a = b
        /\ \A n \in S : holds'[n] = {}
        /\ \A n \in Node \ S, x \in Node :
             x \in holds'[n] <=> \/ x \in holds[n]
                                 \/ \E s \in S : to[s] = n /\ x \in holds[s]
    BY <2>1, RoundFacts
  <2> SUFFICES ASSUME NEW x \in Node
               PROVE  \E n \in Node \ sent' :
                         /\ x \in holds'[n]
                         /\ \A k \in Node : x \in holds'[k] => k = n
    BY DEF Abstract!Conserved
  <2>3. PICK n \in Node \ sent :
           /\ x \in holds[n]
           /\ \A k \in Node : x \in holds[k] => k = n
    BY DEF Abstract!Conserved
  <2>4. CASE n \in S
    <3>1. to[n] \in Node \ sent' /\ to[n] \notin S
      BY <2>2, <2>4
    <3>2. x \in holds'[to[n]]
      BY <2>2, <2>3, <2>4, <3>1
    <3>3. ASSUME NEW k \in Node, x \in holds'[k] PROVE k = to[n]
      <4>1. k \notin S
        BY <2>2, <3>3
      <4>2. x \notin holds[k]
        BY <2>3, <2>4, <4>1
      <4>3. PICK s \in S : to[s] = k /\ x \in holds[s]
        BY <2>2, <3>3, <4>1, <4>2
      <4> QED BY <2>3, <4>3
    <3> QED BY <3>1, <3>2, <3>3
  <2>5. CASE n \notin S
    <3>1. n \in Node \ sent' /\ x \in holds'[n]
      BY <2>2, <2>3, <2>5
    <3>2. ASSUME NEW k \in Node, x \in holds'[k] PROVE k = n
      BY <2>2, <2>3, <2>5, <3>2
    <3> QED BY <3>1, <3>2
  <2> QED BY <2>4, <2>5
<1>2. CASE UNCHANGED Abstract!vars
  BY <1>2 DEF Abstract!vars, Abstract!Conserved
<1> QED BY <1>1, <1>2

(* No reading is ever lost or counted twice, whatever nodes send together. *)
THEOREM ConvergecastConserves == Abstract!Spec => []Abstract!Conserved
<1>1. Abstract!Init => Abstract!Conserved
  BY DEF Abstract!Init, Abstract!Conserved
<1>2. Abstract!TypeOK /\ Abstract!Conserved /\ [Abstract!Next]_(Abstract!vars) => Abstract!Conserved'
  BY ConservedStep
<1>3. Abstract!Spec => []Abstract!TypeOK
  BY ConvergecastType
<1> QED BY <1>1, <1>2, <1>3, PTL DEF Abstract!Spec

(* When everyone but the sink has transmitted, the sink has every reading. *)
THEOREM ConvergecastAggregates == Abstract!Spec => []Abstract!Aggregated
<1>1. Abstract!TypeOK /\ Abstract!Conserved => Abstract!Aggregated
  <2> SUFFICES ASSUME Abstract!TypeOK, Abstract!Conserved, sent = Node \ {Sink}
               PROVE  holds[Sink] = Node
    BY DEF Abstract!Aggregated
  <2>1. \A x \in Node : x \in holds[Sink]
    BY DEF Abstract!Conserved
  <2> QED BY <2>1, NodesAssumption DEF Abstract!TypeOK
<1>2. Abstract!Spec => []Abstract!TypeOK
  BY ConvergecastType
<1>3. Abstract!Spec => []Abstract!Conserved
  BY ConvergecastConserves
<1> QED BY <1>1, <1>2, <1>3, PTL

-----------------------------------------------------------------------------
(* What the absence of violations says of a schedule.                      *)

LEMMA EntryTimes ==
  ASSUME NEW e \in ScheduleEntry
  PROVE  e.timeslot \in 0 .. LastSlot /\ e.timeslot \in Nat
BY NodesAssumption DEF ScheduleEntry

(* Every code is absent by itself.                                         *)
LEMMA NoCodes ==
  ASSUME NEW g, NEW channels, NEW mode, NEW es, Violations(g, channels, mode, es) = {}
  PROVE  /\ \A i \in Indices(es) : EntryCodes(g, channels, es[i]) = {}
         /\ \A s \in Node \ {Sink} : SenderCodes(es, s) = {}
         /\ \A s \in Unique(es) : RouteCodes(es, s) = {}
         /\ \A i \in Known(es) : HalfDuplexCodes(es, i) = {}
         /\ \A i, j \in Known(es) : i # j => PairCodes(Reach(g, mode), es[i], es[j]) = {}
<1> DEFINE A == UNION {EntryCodes(g, channels, es[i]) : i \in Indices(es)}
           B == UNION {SenderCodes(es, s) : s \in Node \ {Sink}}
           C == UNION {RouteCodes(es, s) : s \in Unique(es)}
           D == UNION {HalfDuplexCodes(es, i) : i \in Known(es)}
           E == UNION {PairCodes(Reach(g, mode), es[p[1]], es[p[2]]) :
                         p \in {q \in Known(es) \X Known(es) : q[1] # q[2]}}
<1>1. A = {} /\ B = {} /\ C = {} /\ D = {} /\ E = {}
  <2>1. Violations(g, channels, mode, es) = A \cup B \cup C \cup D \cup E
    BY Zenon DEF Violations
  <2> HIDE DEF A, B, C, D, E
  <2> QED BY <2>1
<1>2. ASSUME NEW i \in Known(es), NEW j \in Known(es), i # j
      PROVE  PairCodes(Reach(g, mode), es[i], es[j]) = {}
  <2>1. <<i, j>> \in {q \in Known(es) \X Known(es) : q[1] # q[2]}
    BY <1>2
  <2>2. PairCodes(Reach(g, mode), es[<<i, j>>[1]], es[<<i, j>>[2]]) = {}
    BY <1>1, <2>1, Zenon
  <2> QED BY <2>2
<1> QED BY <1>1, <1>2

LEMMA EntriesSound ==
  ASSUME NEW g, NEW channels, NEW mode, NEW es, Violations(g, channels, mode, es) = {},
         NEW i \in Indices(es)
  PROVE  /\ es[i].sender \in Node \ {Sink}
         /\ es[i].receiver \in g.nbr[es[i].sender]
         /\ es[i].receiver \in Node
         /\ es[i].channel \in 1 .. channels
         /\ es[i].receiver_active_slot = es[i].timeslot % Period
         /\ es[i].timeslot % Period \in g.active[es[i].receiver]
<1>1. EntryCodes(g, channels, es[i]) = {}
  BY NoCodes
<1>2. es[i].sender \in Node \ {Sink} /\ es[i].receiver \in Node
  BY <1>1 DEF EntryCodes
<1> QED BY <1>1, <1>2 DEF EntryCodes

(* Every node but the sink sends once.                                     *)
LEMMA SendersSound ==
  ASSUME NEW g, NEW channels, NEW mode, NEW es, es \in Seq(ScheduleEntry),
         Violations(g, channels, mode, es) = {}
  PROVE  /\ Unique(es) = Node \ {Sink}
         /\ \A s \in Node \ {Sink} :
              \E i \in Indices(es) : BySender(es, s) = {i} /\ TheEntry(es, s) = es[i]
         /\ \A i \in Indices(es) : TheEntry(es, es[i].sender) = es[i]
         /\ \A i, j \in Indices(es) : es[i].sender = es[j].sender => i = j
<1>1. ASSUME NEW s \in Node \ {Sink}
      PROVE  /\ \E i \in Indices(es) : BySender(es, s) = {i} /\ TheEntry(es, s) = es[i]
             /\ Cardinality(BySender(es, s)) = 1
  <2>1. Len(es) \in Nat /\ BySender(es, s) \subseteq 1 .. Len(es)
    BY DEF BySender, Indices
  <2>2. IsFiniteSet(BySender(es, s))
    <3>1. IsFiniteSet(1 .. Len(es))
      BY <2>1, FS_Interval
    <3> QED BY <2>1, <3>1, FS_Subset
  <2>3. SenderCodes(es, s) = {}
    BY NoCodes
  <2>4. Cardinality(BySender(es, s)) \in Nat
    BY <2>2, FS_CardinalityType
  <2>5. Cardinality(BySender(es, s)) = 1
    BY <2>3, <2>4 DEF SenderCodes
  <2>6. PICK i : BySender(es, s) = {i}
    BY <2>2, <2>5, FS_Singleton
  <2> QED BY <2>1, <2>5, <2>6 DEF TheEntry, Indices
<1>2. \A i \in Indices(es) : es[i].sender \in Node \ {Sink} /\ es[i].receiver \in Node
  BY EntriesSound
<1>3. Unique(es) = Node \ {Sink}
  BY <1>1, <1>2 DEF Unique, BySender
<1>4. \A i \in Indices(es) : i \in BySender(es, es[i].sender)
  BY DEF BySender
<1> QED BY <1>1, <1>2, <1>3, <1>4

(* Receivers send later than who sends to them; they hear one sender at a  *)
(* time, undisturbed on its channel.                                       *)
LEMMA TimingSound ==
  ASSUME NEW g, NEW channels, NEW mode, NEW es, es \in Seq(ScheduleEntry),
         Violations(g, channels, mode, es) = {},
         NEW i \in Indices(es), NEW j \in Indices(es)
  PROVE  /\ es[i].receiver = es[j].sender => es[i].timeslot < es[j].timeslot
         /\ i # j /\ es[i].timeslot = es[j].timeslot =>
              /\ es[i].receiver # es[j].receiver
              /\ es[i].channel = es[j].channel => ~ Interferes(Reach(g, mode), es[i], es[j])
<1>1. i \in Known(es) /\ j \in Known(es)
  BY EntriesSound DEF Known
<1>2. es[i].timeslot \in Nat /\ es[j].timeslot \in Nat
  <2>1. es[i] \in ScheduleEntry /\ es[j] \in ScheduleEntry
    BY DEF Indices
  <2> QED BY <2>1, EntryTimes
<1>3. ASSUME es[i].receiver = es[j].sender PROVE es[i].timeslot < es[j].timeslot
  <2>1. es[i].sender \in Unique(es) /\ es[i].receiver \in Unique(es)
    BY <1>3, EntriesSound, SendersSound
  <2>2. TheEntry(es, es[i].sender) = es[i] /\ TheEntry(es, es[i].receiver) = es[j]
    BY <1>3, SendersSound
  <2>3. RouteCodes(es, es[i].sender) = {}
    BY <2>1, NoCodes
  <2> QED BY <1>2, <2>1, <2>2, <2>3 DEF RouteCodes
<1>4. ASSUME i # j, es[i].timeslot = es[j].timeslot
      PROVE  /\ es[i].receiver # es[j].receiver
             /\ es[i].channel = es[j].channel => ~ Interferes(Reach(g, mode), es[i], es[j])
  <2>1. PairCodes(Reach(g, mode), es[i], es[j]) = {}
    BY <1>1, <1>4, NoCodes
  <2> QED BY <1>4, <2>1 DEF PairCodes
<1> QED BY <1>3, <1>4

-----------------------------------------------------------------------------
(* On air.                                                                 *)

(* The schedule carried out is a certified one, and the nodes that have    *)
(* transmitted are those whose timeslot is over.                           *)
OnSchedule ==
  /\ net \in Networks /\ model \in Models /\ entries \in Schedules(net)
  /\ Violations(net, Channels, model, entries) = {}
  /\ clock \in Nat
  /\ holds \in [Node -> SUBSET Node]
  /\ sent = {entries[i].sender : i \in {j \in Indices(entries) : entries[j].timeslot < clock}}

Senders == {e.sender : e \in OnAir}
Target  == [m \in Senders |-> TheEntry(entries, m).receiver]

LEMMA ScheduleType ==
  ASSUME OnSchedule
  PROVE  /\ entries \in Seq(ScheduleEntry)
         /\ \A i \in Indices(entries) : entries[i].timeslot \in 0 .. LastSlot
<1>1. entries \in Seq(ScheduleEntry)
  BY InputsAssumption DEF OnSchedule
<1>2. \A i \in Indices(entries) : entries[i] \in ScheduleEntry
  BY <1>1 DEF Indices
<1> QED BY <1>1, <1>2, EntryTimes

LEMMA OnAirFacts ==
  ASSUME OnSchedule
  PROVE  \A e \in OnAir :
           /\ e.sender \in Node \ {Sink} /\ e.receiver \in Node
           /\ e.receiver \in net.nbr[e.sender]
           /\ TheEntry(entries, e.sender) = e
           /\ clock % Period \in net.active[e.receiver]
           /\ e.sender \notin sent /\ e.receiver \notin sent
           /\ \A f \in OnAir :
                /\ f.sender # e.receiver
                /\ f.sender = e.sender => f = e
                /\ f # e => f.receiver # e.receiver
                /\ f # e /\ f.channel = e.channel =>
                     f.sender \notin Reach(net, model)[e.receiver]
<1> SUFFICES ASSUME NEW e \in OnAir
             PROVE  /\ e.sender \in Node \ {Sink} /\ e.receiver \in Node
                    /\ e.receiver \in net.nbr[e.sender]
                    /\ TheEntry(entries, e.sender) = e
                    /\ clock % Period \in net.active[e.receiver]
                    /\ e.sender \notin sent /\ e.receiver \notin sent
                    /\ \A f \in OnAir :
                         /\ f.sender # e.receiver
                         /\ f.sender = e.sender => f = e
                         /\ f # e => f.receiver # e.receiver
                         /\ f # e /\ f.channel = e.channel =>
                              f.sender \notin Reach(net, model)[e.receiver]
  OBVIOUS
<1>1. PICK i \in Indices(entries) : e = entries[i] /\ entries[i].timeslot = clock
  BY DEF OnAir
<1>2. entries \in Seq(ScheduleEntry) /\ Violations(net, Channels, model, entries) = {}
  BY ScheduleType DEF OnSchedule
<1>3. /\ e.sender \in Node \ {Sink} /\ e.receiver \in Node
      /\ e.receiver \in net.nbr[e.sender]
      /\ clock % Period \in net.active[e.receiver]
  BY <1>1, <1>2, EntriesSound
<1>4. /\ TheEntry(entries, e.sender) = e
      /\ \A j \in Indices(entries) : entries[j].sender = e.sender => i = j
  BY <1>1, <1>2, SendersSound
<1>5. \A j \in Indices(entries) :
        /\ e.receiver = entries[j].sender => clock < entries[j].timeslot
        /\ i # j /\ clock = entries[j].timeslot =>
             /\ e.receiver # entries[j].receiver
             /\ e.channel = entries[j].channel =>
                  ~ Interferes(Reach(net, model), e, entries[j])
  BY <1>1, <1>2, TimingSound
<1>6. \A j \in Indices(entries) : entries[j].timeslot \in Int
  BY ScheduleType
<1>7. clock \in Int
  BY DEF OnSchedule
<1>8. e.sender \notin sent /\ e.receiver \notin sent
  <2> SUFFICES ASSUME NEW j \in Indices(entries), entries[j].timeslot < clock,
                      entries[j].sender \in {e.sender, e.receiver}
               PROVE  FALSE
    BY DEF OnSchedule
  <2>1. CASE entries[j].sender = e.sender
    BY <1>1, <1>4, <1>7, <2>1
  <2>2. CASE entries[j].sender = e.receiver
    BY <1>5, <1>6, <1>7, <2>2
  <2> QED BY <2>1, <2>2
<1>9. ASSUME NEW f \in OnAir
      PROVE  /\ f.sender # e.receiver
             /\ f.sender = e.sender => f = e
             /\ f # e => f.receiver # e.receiver
             /\ f # e /\ f.channel = e.channel =>
                  f.sender \notin Reach(net, model)[e.receiver]
  <2>1. PICK j \in Indices(entries) : f = entries[j] /\ entries[j].timeslot = clock
    BY DEF OnAir
  <2>2. f.sender # e.receiver
    BY <1>5, <1>7, <2>1
  <2>3. f.sender = e.sender => f = e
    BY <1>1, <1>4, <2>1
  <2>4. ASSUME f # e
        PROVE  /\ f.receiver # e.receiver
               /\ f.channel = e.channel => f.sender \notin Reach(net, model)[e.receiver]
    BY <1>1, <1>5, <2>1, <2>4 DEF Interferes
  <2> QED BY <2>2, <2>3, <2>4
<1> QED BY <1>3, <1>4, <1>8, <1>9

(* Nothing is lost on air.                                                 *)
LEMMA AllDelivered == ASSUME OnSchedule PROVE Delivered = OnAir
BY OnAirFacts DEF Delivered, Heard

LEMMA ScheduleInit == Init => Abstract!Init /\ OnSchedule
<1> SUFFICES ASSUME Init PROVE Abstract!Init /\ OnSchedule
  OBVIOUS
<1>1. net \in Networks /\ entries \in Schedules(net)
  BY DEF Init
<1>2. entries \in Seq(ScheduleEntry)
  BY <1>1, InputsAssumption
<1>3. \A i \in Indices(entries) : entries[i] \in ScheduleEntry
  BY <1>2 DEF Indices
<1>4. \A i \in Indices(entries) : entries[i].timeslot \in Nat
  BY <1>3, EntryTimes
<1>5. {entries[i].sender : i \in {j \in Indices(entries) : entries[j].timeslot < 0}} = {}
  BY <1>4
<1> QED BY <1>1, <1>5 DEF Init, OnSchedule, Abstract!Init

LEMMA ScheduleStep == ASSUME OnSchedule, [Next]_vars PROVE OnSchedule'
<1>1. CASE Transmit
  <2>1. UNCHANGED <<net, model, entries>> /\ clock' = clock + 1 /\ clock' \in Nat
    BY <1>1 DEF Transmit, OnSchedule
  <2>2. \A i \in Indices(entries) :
          entries[i].timeslot < clock + 1 <=>
            entries[i].timeslot < clock \/ entries[i].timeslot = clock
    BY ScheduleType DEF OnSchedule
  <2>3. sent' = {entries[i].sender :
                   i \in {j \in Indices(entries) : entries[j].timeslot < clock + 1}}
    BY <1>1, <2>2 DEF Transmit, OnSchedule, OnAir
  <2>4. (Violations(net, Channels, model, entries) = {})'
    BY <2>1 DEF OnSchedule
  <2>5. sent' = {entries'[i].sender :
                   i \in {j \in Indices(entries') : entries'[j].timeslot < clock'}}
    BY <2>1, <2>3
  <2>6. holds' \in [Node -> SUBSET Node]
    <3>1. \A e \in Delivered : holds[e.sender] \subseteq Node
      BY OnAirFacts DEF Delivered, OnSchedule
    <3>2. \A n \in Node : holds[n] \subseteq Node
      BY DEF OnSchedule
    <3> QED BY <1>1, <3>1, <3>2 DEF Transmit
  <2> QED BY <2>1, <2>4, <2>5, <2>6 DEF OnSchedule
<1>2. CASE UNCHANGED vars
  BY <1>2 DEF vars, OnSchedule
<1> QED BY <1>1, <1>2 DEF Next
(* A timeslot with transmissions is a round, an empty one a stutter.       *)
LEMMA SlotIsRound ==
  ASSUME OnSchedule, [Next]_vars PROVE [Abstract!Next]_(Abstract!vars)
<1>1. CASE UNCHANGED vars
  BY <1>1 DEF vars, Abstract!vars
<1>2. CASE Transmit /\ OnAir = {}
  <2>1. Delivered = {}
    BY <1>2 DEF Delivered
  <2>2. holds' = [n \in Node |-> holds[n]] /\ sent' = sent
    BY <1>2, <2>1 DEF Transmit
  <2> QED BY <2>2 DEF OnSchedule, Abstract!vars
<1>3. CASE Transmit /\ OnAir # {}
  <2>1. Senders # {} /\ Senders \subseteq Node \ ({Sink} \cup sent)
    BY <1>3, OnAirFacts DEF Senders
  <2>2. \A e \in OnAir : e.sender \in Senders /\ Target[e.sender] = e.receiver
    BY OnAirFacts DEF Senders, Target
  <2>3. \A m \in Senders : \E e \in OnAir : m = e.sender /\ Target[m] = e.receiver
    BY <2>2 DEF Senders
  <2>4. \A m \in Senders : Target[m] \in Node \ (sent \cup Senders)
    BY <2>3, OnAirFacts DEF Senders
  <2>5. Target \in [Senders -> Node \ (sent \cup Senders)]
    BY <2>4 DEF Target
  <2>6. \A a, b \in Senders : Target[a] = Target[b] => a = b
    BY <2>3, OnAirFacts
  <2>7. holds' = [n \in Node |->
                    IF n \in Senders THEN {}
                    ELSE holds[n] \cup
                         UNION {holds[m] : m \in {s \in Senders : Target[s] = n}}]
    <3>1. holds' = [n \in Node |->
            (IF \E e \in OnAir : e.sender = n THEN {} ELSE holds[n]) \cup
            UNION {holds[e.sender] : e \in {d \in OnAir : d.receiver = n}}]
      BY <1>3, AllDelivered DEF Transmit
    <3>2. ASSUME NEW n \in Node
          PROVE  (IF \E e \in OnAir : e.sender = n THEN {} ELSE holds[n]) \cup
                 (UNION {holds[e.sender] : e \in {d \in OnAir : d.receiver = n}})
                 = IF n \in Senders THEN {}
                   ELSE holds[n] \cup
                        UNION {holds[m] : m \in {s \in Senders : Target[s] = n}}
      <4>1. {holds[e.sender] : e \in {d \in OnAir : d.receiver = n}}
            = {holds[m] : m \in {s \in Senders : Target[s] = n}}
        BY <2>2, <2>3
      <4>2. n \in Senders <=> \E e \in OnAir : e.sender = n
        BY DEF Senders
      <4>3. n \in Senders => {d \in OnAir : d.receiver = n} = {}
        BY <2>2, <2>4
      <4> QED BY <4>1, <4>2, <4>3
    <3> QED BY <3>1, <3>2
  <2>8. sent' = sent \cup Senders
    BY <1>3 DEF Transmit, Senders
  <2>9. Abstract!Round(Senders, Target)
    BY <2>1, <2>4, <2>6, <2>7, <2>8 DEF Abstract!Round
  <2> QED BY <2>1, <2>5, <2>9 DEF Abstract!Next
<1> QED BY <1>1, <1>2, <1>3 DEF Next

(* The promise of a certificate: every slot of the schedule hands complete *)
(* aggregates on, to nodes that have not transmitted, and loses nothing.   *)
THEOREM CertifiedSchedulesConverge == Spec => CertifiedIsConvergecast
<1>1. Init => Abstract!Init /\ OnSchedule
  BY ScheduleInit
<1>2. OnSchedule /\ [Next]_vars => OnSchedule' /\ [Abstract!Next]_(Abstract!vars)
  BY ScheduleStep, SlotIsRound
<1> QED BY <1>1, <1>2, PTL DEF Spec, CertifiedIsConvergecast, Abstract!Spec

(* Once the last slot is over, the sink holds the reading of every node.   *)
THEOREM CertifiedSchedulesDeliver == Spec => []CertifiedDelivers
<1>1. Init => OnSchedule
  BY ScheduleInit
<1>2. OnSchedule /\ [Next]_vars => OnSchedule'
  BY ScheduleStep
<1>3. Spec => []Abstract!Aggregated
  BY CertifiedSchedulesConverge, ConvergecastAggregates, PTL DEF CertifiedIsConvergecast
<1>4. OnSchedule /\ Abstract!Aggregated => CertifiedDelivers
  <2> SUFFICES ASSUME OnSchedule, Abstract!Aggregated, clock > LastSlot
               PROVE  holds[Sink] = Node
    BY DEF CertifiedDelivers
  <2>1. entries \in Seq(ScheduleEntry) /\ Violations(net, Channels, model, entries) = {}
    BY ScheduleType DEF OnSchedule
  <2>2. \A i \in Indices(entries) :
          entries[i].timeslot < clock /\ entries[i].sender \in Node \ {Sink}
    <3>1. \A i \in Indices(entries) : entries[i].sender \in Node \ {Sink}
      BY <2>1, EntriesSound
    <3>2. \A i \in Indices(entries) : entries[i].timeslot \in 0 .. LastSlot
      BY ScheduleType
    <3> QED BY <3>1, <3>2, NodesAssumption DEF OnSchedule
  <2>3. \A s \in Node \ {Sink} : \E i \in Indices(entries) : entries[i].sender = s
    <3> SUFFICES ASSUME NEW s \in Node \ {Sink}
                 PROVE  \E i \in Indices(entries) : entries[i].sender = s
      OBVIOUS
    <3>1. PICK i \in Indices(entries) : BySender(entries, s) = {i}
      BY <2>1, SendersSound
    <3> QED BY <3>1 DEF BySender
  <2>4. sent = Node \ {Sink}
    BY <2>2, <2>3 DEF OnSchedule
  <2> QED BY <2>4 DEF Abstract!Aggregated
<1> QED BY <1>1, <1>2, <1>3, <1>4, PTL DEF Spec

-----------------------------------------------------------------------------
(* The checker of the original scheduler.                                  *)

(* The interference ratio is at least 1, so whoever is within              *)
(* communication range is within interference range.                       *)
NeighboursInRange ==
  \A g \in Networks, mode \in Models, n \in Node : g.nbr[n] \subseteq Reach(g, mode)[n]

(* Every node but the sink has its entry.                                  *)
LEMMA EntryOf ==
  ASSUME NEW g, NEW channels, NEW mode, NEW es, es \in Seq(ScheduleEntry),
         Violations(g, channels, mode, es) = {}, NEW s \in Node \ {Sink}
  PROVE  /\ \E i \in Indices(es) : es[i].sender = s /\ TheEntry(es, s) = es[i]
         /\ Parent(es, s) \in Node
         /\ Slot(es, s) \in 0 .. LastSlot /\ Slot(es, s) \in Int
<1>1. PICK i \in Indices(es) : BySender(es, s) = {i} /\ TheEntry(es, s) = es[i]
  BY SendersSound
<1>2. es[i].sender = s
  BY <1>1 DEF BySender
<1>3. es[i] \in ScheduleEntry
  BY DEF Indices
<1>4. es[i].timeslot \in 0 .. LastSlot /\ es[i].timeslot \in Int
  BY <1>3, EntryTimes
<1>5. es[i].receiver \in Node
  BY EntriesSound
<1> QED BY <1>1, <1>2, <1>4, <1>5 DEF Parent, Slot

(* Parents send later, so every way up ends, and only at the sink.         *)
LEMMA AlwaysTree ==
  ASSUME NEW g, NEW channels, NEW mode, NEW es, es \in Seq(ScheduleEntry),
         Violations(g, channels, mode, es) = {}, NEW n \in Node \ {Sink}
  PROVE  ~ NoTree(es, n)
<1> DEFINE up == [x \in Node |-> IF x = Sink THEN Sink ELSE Parent(es, x)]
           rank == [x \in Node |-> IF x = Sink THEN LastSlot + 1 ELSE Slot(es, x)]
           m == Cardinality(Node) - 1
           top == Iterate(up, Parent(es, n), m)
<1>1. up \in [Node -> Node]
  BY EntryOf, NodesAssumption
<1>2. rank \in [Node -> Int]
  BY EntryOf, NodesAssumption
<1>3. ASSUME NEW x \in Node \ {Sink}
      PROVE  up[x] \in Node /\ rank[x] < rank[up[x]]
  <2>1. PICK i \in Indices(es) : es[i].sender = x /\ TheEntry(es, x) = es[i]
    BY EntryOf
  <2>2. up[x] = Parent(es, x) /\ up[x] = es[i].receiver /\ up[x] \in Node
    BY <2>1, EntryOf DEF Parent
  <2>3. rank[x] = es[i].timeslot /\ rank[x] \in 0 .. LastSlot
    BY <2>1, EntryOf DEF Slot
  <2>4. CASE up[x] = Sink
    BY <2>3, <2>4, NodesAssumption
  <2>5. CASE up[x] # Sink
    <3>1. PICK j \in Indices(es) : es[j].sender = up[x] /\ TheEntry(es, up[x]) = es[j]
      BY <2>2, <2>5, EntryOf
    <3>2. rank[up[x]] = es[j].timeslot
      BY <2>2, <2>5, <3>1 DEF Slot
    <3>3. es[i].timeslot < es[j].timeslot
      BY <2>2, <3>1, TimingSound
    <3> QED BY <2>2, <2>3, <3>2, <3>3
  <2> QED BY <2>2, <2>4, <2>5
<1>4. up[Sink] = Sink
  BY NodesAssumption
<1>5. Parent(es, n) \in Node
  BY EntryOf
<1>6. m \in Nat /\ m >= Cardinality(Node) - 1 /\ IsFiniteSet(Node)
  <2>1. Cardinality(Node) \in Nat /\ Cardinality(Node) # 0
    BY NodesAssumption, FS_CardinalityType, FS_EmptySet
  <2> QED BY <2>1, NodesAssumption
<1> HIDE DEF up, rank, m
<1>7. Rising(up, rank, Node)
  BY <1>3, <1>4 DEF Rising
<1>8. top \in Node
  BY <1>1, <1>5, <1>6, IterateEquations
<1>9. up[top] = top
  BY <1>1, <1>2, <1>5, <1>6, <1>7, ComesToRest
<1>10. top = Sink
  <2> SUFFICES ASSUME top # Sink PROVE FALSE
    OBVIOUS
  <2>1. rank[top] < rank[up[top]] /\ rank[top] \in Int
    BY <1>2, <1>3, <1>8
  <2> QED BY <1>9, <2>1
<1> QED BY <1>10 DEF NoTree, up, m

(* Whatever the validator certifies, under either collision model, the     *)
(* checker of the original scheduler prints no objection to.               *)
THEOREM OriginalCheckerAccepts ==
  ASSUME NeighboursInRange PROVE Spec => []OriginalCheckerAgrees
<1>1. Init => OnSchedule
  BY ScheduleInit
<1>2. OnSchedule /\ [Next]_vars => OnSchedule'
  BY ScheduleStep
<1>3. OnSchedule => OriginalCheckerAgrees
  <2> SUFFICES ASSUME OnSchedule PROVE schedule_validation(net, entries) = {}
    BY DEF OriginalCheckerAgrees
  <2> DEFINE own(n) == CHOOSE i \in Indices(entries) :
                         entries[i].sender = n /\ TheEntry(entries, n) = entries[i]
  <2>1. entries \in Seq(ScheduleEntry) /\ Violations(net, Channels, model, entries) = {}
    BY ScheduleType DEF OnSchedule
  <2>2. \A n \in Node \ {Sink} :
          /\ own(n) \in Indices(entries) /\ entries[own(n)].sender = n
          /\ TheEntry(entries, n) = entries[own(n)]
    BY <2>1, EntryOf
  <2> HIDE DEF own
  <2>3. ASSUME NEW n \in Node \ {Sink} PROVE ~ NoTree(entries, n)
    BY <2>1, AlwaysTree
  <2>4. ASSUME NEW n \in Node \ {Sink}, Parent(entries, n) # Sink
        PROVE  ~ (Slot(entries, n) >= Slot(entries, Parent(entries, n)))
    <3>1. Parent(entries, n) \in Node \ {Sink}
      BY <2>1, <2>4, EntryOf
    <3>2. entries[own(n)].timeslot < entries[own(Parent(entries, n))].timeslot
      BY <2>1, <2>2, <3>1, TimingSound DEF Parent
    <3>3. Slot(entries, n) < Slot(entries, Parent(entries, n))
      BY <2>2, <3>1, <3>2 DEF Slot
    <3>4. Slot(entries, n) \in Int /\ Slot(entries, Parent(entries, n)) \in Int
      BY <2>1, <3>1, EntryOf
    <3> QED BY <3>3, <3>4
  <2>5. ASSUME NEW u \in Node \ {Sink}, NEW v \in Node \ {Sink}, u < v
        PROVE  /\ ~ (/\ Parent(entries, u) = Parent(entries, v)
                     /\ Slot(entries, u) = Slot(entries, v))
               /\ ~ (/\ \/ u \in net.nbr[Parent(entries, v)]
                        \/ v \in net.nbr[Parent(entries, u)]
                     /\ Slot(entries, u) = Slot(entries, v)
                     /\ Channel(entries, u) = Channel(entries, v))
    <3> SUFFICES ASSUME Slot(entries, u) = Slot(entries, v)
                 PROVE  /\ Parent(entries, u) # Parent(entries, v)
                        /\ Channel(entries, u) = Channel(entries, v) =>
                             /\ u \notin net.nbr[Parent(entries, v)]
                             /\ v \notin net.nbr[Parent(entries, u)]
      OBVIOUS
    <3>1. own(u) # own(v)
      <4>1. u # v
        BY <2>5, NodesAssumption
      <4> QED BY <2>2, <4>1
    <3>2. entries[own(u)].timeslot = entries[own(v)].timeslot
      BY <2>2 DEF Slot
    <3>3. /\ entries[own(u)].receiver # entries[own(v)].receiver
          /\ entries[own(u)].channel = entries[own(v)].channel =>
               ~ Interferes(Reach(net, model), entries[own(u)], entries[own(v)])
      BY <2>1, <2>2, <3>1, <3>2, TimingSound
    <3>4. \A n \in Node : net.nbr[n] \subseteq Reach(net, model)[n]
      BY DEF OnSchedule, NeighboursInRange
    <3>5. Parent(entries, u) \in Node /\ Parent(entries, v) \in Node
      BY <2>1, EntryOf
    <3> QED BY <2>2, <3>3, <3>4, <3>5 DEF Parent, Channel, Interferes
  <2> QED BY <2>3, <2>4, <2>5 DEF schedule_validation
<1> QED BY <1>1, <1>2, <1>3, PTL DEF Spec

-----------------------------------------------------------------------------
(* The mutation test.                                                      *)

Passed(g, es) ==
  /\ g \in Networks /\ es \in Seq(ScheduleEntry)
  /\ Violations(g, Channels, "legacy_neighbor", es) = {}

Reports(g, es, code) == code \in Violations(g, Channels, "legacy_neighbor", es)

(* One part of the validator is enough for a code to be reported.          *)
LEMMA CodeReported ==
  ASSUME NEW g, NEW es, NEW code,
         \/ \E i \in Indices(es) : code \in EntryCodes(g, Channels, es[i])
         \/ \E s \in Node \ {Sink} : code \in SenderCodes(es, s)
         \/ \E s \in Unique(es) : code \in RouteCodes(es, s)
         \/ \E i \in Known(es) : code \in HalfDuplexCodes(es, i)
         \/ \E i, j \in Known(es) : i # j /\ code \in PairCodes(g.nbr, es[i], es[j])
  PROVE  Reports(g, es, code)
<1>1. CASE \E i, j \in Known(es) : i # j /\ code \in PairCodes(g.nbr, es[i], es[j])
  <2>1. PICK i \in Known(es), j \in Known(es) :
           i # j /\ code \in PairCodes(g.nbr, es[i], es[j])
    BY <1>1
  <2>2. PICK p \in {q \in Known(es) \X Known(es) : q[1] # q[2]} : p[1] = i /\ p[2] = j
    <3>1. <<i, j>> \in {q \in Known(es) \X Known(es) : q[1] # q[2]}
      BY <2>1
    <3> QED BY <3>1
  <2>3. code \in PairCodes(Reach(g, "legacy_neighbor"), es[p[1]], es[p[2]])
    BY <2>1, <2>2 DEF Reach
  <2> QED BY <2>3 DEF Reports, Violations
<1> QED BY <1>1 DEF Reports, Violations

(* What a passed schedule gives an operator to work with.                  *)
LEMMA PassedFacts ==
  ASSUME NEW g, NEW es, Passed(g, es)
  PROVE  /\ Len(es) \in Nat /\ Indices(es) = 1 .. Len(es)
         /\ \A i \in Indices(es) :
              /\ es[i] \in ScheduleEntry
              /\ es[i].sender \in Node \ {Sink} /\ es[i].receiver \in Node
              /\ es[i].receiver_active_slot = es[i].timeslot % Period
              /\ es[i].timeslot \in Nat
         /\ \A i, j \in Indices(es) :
              /\ es[i].sender = es[j].sender => i = j
              /\ es[i].receiver = es[j].sender => i # j
<1>1. Len(es) \in Nat /\ Indices(es) = 1 .. Len(es)
  BY DEF Passed, Indices
<1>2. ASSUME NEW i \in Indices(es)
      PROVE  /\ es[i] \in ScheduleEntry
             /\ es[i].sender \in Node \ {Sink} /\ es[i].receiver \in Node
             /\ es[i].receiver_active_slot = es[i].timeslot % Period
             /\ es[i].timeslot \in Nat
  <2>1. es[i] \in ScheduleEntry
    BY DEF Passed, Indices
  <2> QED BY <2>1, EntryTimes, EntriesSound DEF Passed
<1>3. ASSUME NEW i \in Indices(es), NEW j \in Indices(es)
      PROVE  /\ es[i].sender = es[j].sender => i = j
             /\ es[i].receiver = es[j].sender => i # j
  <2>1. es[i].receiver = es[j].sender => es[i].timeslot < es[j].timeslot
    BY TimingSound DEF Passed
  <2>2. es[i].sender = es[j].sender => i = j
    BY SendersSound DEF Passed
  <2> QED BY <1>2, <2>1, <2>2
<1> QED BY <1>1, <1>2, <1>3

LEMMA WithFacts ==
  ASSUME NEW g, NEW es, Passed(g, es), NEW i \in Indices(es), NEW e
  PROVE  /\ Indices(With(es, i, e)) = Indices(es)
         /\ With(es, i, e)[i] = e
         /\ \A j \in Indices(es) : j # i => With(es, i, e)[j] = es[j]
<1>1. DOMAIN es = 1 .. Len(es)
  BY DEF Passed
<1>2. Len(With(es, i, e)) = Len(es)
  BY DEF Passed, With
<1> QED BY <1>1, <1>2 DEF With, Indices

(* The indices an operator works on are indices of the schedule.           *)
LEMMA SpreadIndices == ASSUME NEW count \in Nat PROVE Spread(count) \subseteq 1 .. count
<1> SUFFICES ASSUME ~ (count <= PerOperator), NEW k \in 0 .. PerOperator - 1
             PROVE  (k * count) \div PerOperator + 1 \in 1 .. count
  BY DEF Spread
<1> DEFINE q == (k * count) \div PerOperator
           r == (k * count) % PerOperator
<1>1. PerOperator \in Nat /\ PerOperator > 0 /\ k \in Nat /\ k + 1 <= PerOperator
  BY PerOperatorAssumption
<1>2. PICK p \in Nat : p = k * count
  BY <1>1
<1>3. q \in Int /\ r \in 0 .. PerOperator - 1 /\ p = PerOperator * q + r
  BY <1>1, <1>2
<1> HIDE DEF q, r
<1>4. q >= 0
  <2> SUFFICES ASSUME q <= -1 PROVE FALSE
    BY <1>3
  <2>1. PerOperator * q <= - PerOperator
    BY <1>1, <1>3
  <2> QED BY <1>1, <1>2, <1>3, <2>1
<1>5. q < count
  <2> SUFFICES ASSUME count <= q PROVE FALSE
    BY <1>3
  <2>1. PerOperator * count <= PerOperator * q
    BY <1>1, <1>3
  <2>2. (k + 1) * count <= PerOperator * count
    BY <1>1
  <2>3. (k + 1) * count = p + count
    BY <1>1, <1>2
  <2> QED BY <1>1, <1>2, <1>3, <2>1, <2>2, <2>3
<1> QED BY <1>3, <1>4, <1>5 DEF q

(* Finite nonempty sets of numbers have a greatest element: otherwise one  *)
(* could climb in them for ever.                                           *)
LEMMA GreatestNumber ==
  ASSUME NEW S \in SUBSET Nat, IsFiniteSet(S), S # {}
  PROVE  Max(S) \in S /\ \A x \in S : x <= Max(S)
<1>0. \A x \in S : x \in Int
  OBVIOUS
<1>1. \E x \in S : \A y \in S : x >= y
  <2> SUFFICES ASSUME \A x \in S : \E y \in S : x < y PROVE FALSE
    OBVIOUS
  <2> DEFINE above == [x \in S |-> CHOOSE y \in S : x < y]
             self  == [x \in S |-> x]
             m     == Cardinality(S)
  <2>1. above \in [S -> S] /\ \A x \in S : x < above[x]
    OBVIOUS
  <2>2. self \in [S -> Int] /\ Rising(above, self, S)
    BY <2>1 DEF Rising
  <2>3. PICK x : x \in S
    OBVIOUS
  <2>4. m \in Nat /\ m >= Cardinality(S) - 1
    BY FS_CardinalityType
  <2> HIDE DEF above, self, m
  <2>5. above[Iterate(above, x, m)] = Iterate(above, x, m)
    BY <2>1, <2>2, <2>3, <2>4, ComesToRest
  <2>6. Iterate(above, x, m) \in S
    BY <2>1, <2>3, <2>4, IterateEquations
  <2>7. Iterate(above, x, m) < Iterate(above, x, m)
    BY <2>1, <2>5, <2>6
  <2>8. Iterate(above, x, m) \in Int
    BY <1>0, <2>6
  <2> HIDE DEF m
  <2> QED BY <2>7, <2>8
<1>2. Max(S) \in S /\ \A x \in S : Max(S) >= x
  BY <1>1 DEF Max
<1> QED BY <1>0, <1>2

LEMMA MinMember == ASSUME NEW S \in SUBSET Nat, S # {} PROVE Min(S) \in S
BY LeastNumber DEF Min

LEMMA DropFound ==
  ASSUME NEW g, NEW es, Passed(g, es), NEW x \in DropTransmission(es)
  PROVE  Reports(g, x.entries, x.code)
<1>1. PICK i \in Indices(es) : x = Yield("MISSING_TRANSMISSION", RemoveAt(es, i))
  BY PassedFacts, SpreadIndices DEF DropTransmission
<1> DEFINE rest == RemoveAt(es, i)
<1>2. \A j \in Indices(rest) : \E k \in Indices(es) : k # i /\ rest[j] = es[k]
  <2>1. Len(es) \in Nat /\ i \in 1 .. Len(es) /\ es \in Seq(ScheduleEntry)
    BY PassedFacts DEF Passed
  <2> DEFINE front == SubSeq(es, 1, i - 1)
             back  == SubSeq(es, i + 1, Len(es))
  <2>2. /\ front \in Seq(ScheduleEntry) /\ Len(front) = i - 1
        /\ \A j \in 1 .. i - 1 : front[j] = es[j]
    BY <2>1, SubSeqProperties
  <2>3. /\ back \in Seq(ScheduleEntry) /\ Len(back) = Len(es) - i
        /\ \A j \in 1 .. Len(es) - i : back[j] = es[i + j]
    BY <2>1, SubSeqProperties
  <2> HIDE DEF front, back
  <2>4. rest = front \o back
    BY DEF RemoveAt, front, back
  <2>5. /\ Len(rest) = Len(es) - 1
        /\ \A j \in 1 .. Len(rest) : rest[j] = IF j < i THEN es[j] ELSE es[j + 1]
    <3>1. /\ Len(rest) = Len(front) + Len(back)
          /\ \A j \in 1 .. Len(rest) :
               rest[j] = IF j <= Len(front) THEN front[j] ELSE back[j - Len(front)]
      <4>1. front \in Seq(ScheduleEntry) /\ back \in Seq(ScheduleEntry)
        BY <2>2, <2>3
      <4>2. /\ Len(front \o back) = Len(front) + Len(back)
            /\ \A j \in 1 .. Len(front) + Len(back) : (front \o back)[j] =
                 IF j <= Len(front) THEN front[j] ELSE back[j - Len(front)]
        BY <4>1, ConcatProperties
      <4> QED BY <2>4, <4>2, Zenon
    <3>2. Len(rest) = Len(es) - 1
      BY <2>1, <2>2, <2>3, <3>1
    <3>3. ASSUME NEW j \in 1 .. Len(rest)
          PROVE  rest[j] = IF j < i THEN es[j] ELSE es[j + 1]
      <4>1. CASE j < i
        BY <2>1, <2>2, <3>1, <4>1
      <4>2. CASE ~ (j < i)
        <5>1. j - (i - 1) \in 1 .. Len(es) - i /\ i + (j - (i - 1)) = j + 1
          BY <2>1, <3>2, <4>2
        <5>2. rest[j] = back[j - (i - 1)]
          BY <2>1, <2>2, <3>1, <4>2
        <5> QED BY <2>3, <4>2, <5>1, <5>2
      <4> QED BY <4>1, <4>2
    <3> QED BY <3>2, <3>3
  <2> HIDE DEF rest
  <2>6. ASSUME NEW j \in 1 .. Len(rest)
        PROVE  \E k \in 1 .. Len(es) : k # i /\ rest[j] = es[k]
    <3>1. CASE j < i
      BY <2>1, <2>5, <3>1
    <3>2. CASE ~ (j < i)
      <4>1. PICK k \in 1 .. Len(es) : k = j + 1
        BY <2>1, <2>5
      <4> QED BY <2>1, <2>5, <3>2, <4>1
    <3> QED BY <3>1, <3>2
  <2> QED BY <2>6 DEF Indices
<1> HIDE DEF rest
<1>3. BySender(rest, es[i].sender) = {}
  BY <1>2, PassedFacts DEF BySender
<1>4. "MISSING_TRANSMISSION" \in SenderCodes(rest, es[i].sender)
  BY <1>3, FS_EmptySet DEF SenderCodes
<1>5. es[i].sender \in Node \ {Sink}
  BY PassedFacts
<1>6. Reports(g, rest, "MISSING_TRANSMISSION")
  BY <1>4, <1>5, CodeReported
<1> QED BY <1>1, <1>6 DEF Yield, rest

LEMMA DuplicateFound ==
  ASSUME NEW g, NEW es, Passed(g, es), NEW x \in DuplicateTransmission(es)
  PROVE  Reports(g, x.entries, x.code)
<1>1. PICK i \in Indices(es) : x = Yield("DUPLICATE_TRANSMISSION", Append(es, es[i]))
  BY PassedFacts, SpreadIndices DEF DuplicateTransmission
<1> DEFINE more == Append(es, es[i])
           n == Len(es) + 1
<1>2. /\ Indices(more) = 1 .. n /\ n \in Nat /\ i \in 1 .. n /\ i # n
      /\ more[i] = es[i] /\ more[n] = es[i]
  BY PassedFacts DEF Passed, Indices
<1> HIDE DEF more, n
<1>3. {i, n} \subseteq BySender(more, es[i].sender)
  BY <1>2 DEF BySender
<1>4. IsFiniteSet(BySender(more, es[i].sender))
  <2>1. IsFiniteSet(1 .. n)
    BY <1>2, FS_Interval
  <2> QED BY <1>2, <2>1, FS_Subset DEF BySender
<1>5. Cardinality(BySender(more, es[i].sender)) > 1
  <2>1. BySender(more, es[i].sender) # {}
    BY <1>3
  <2>2. ~ \E k : BySender(more, es[i].sender) = {k}
    BY <1>2, <1>3
  <2>3. Cardinality(BySender(more, es[i].sender)) \in Nat \ {0, 1}
    BY <1>4, <2>1, <2>2, FS_CardinalityType, FS_EmptySet, FS_Singleton
  <2> QED BY <2>3
<1>6. "DUPLICATE_TRANSMISSION" \in SenderCodes(more, es[i].sender)
  BY <1>5 DEF SenderCodes
<1>7. es[i].sender \in Node \ {Sink}
  BY PassedFacts
<1>8. Reports(g, more, "DUPLICATE_TRANSMISSION")
  BY <1>6, <1>7, CodeReported
<1> QED BY <1>1, <1>8 DEF Yield, more

(* An entry with a field changed keeps the others.                         *)
LEMMA ChangedEntry ==
  ASSUME NEW e \in ScheduleEntry
  PROVE  /\ \A r : /\ [e EXCEPT !.receiver = r].sender = e.sender
                   /\ [e EXCEPT !.receiver = r].receiver = r
                   /\ [e EXCEPT !.receiver = r].timeslot = e.timeslot
         /\ \A s : [e EXCEPT !.sender = s].sender = s
         /\ \A c : /\ [e EXCEPT !.channel = c].sender = e.sender
                   /\ [e EXCEPT !.channel = c].receiver = e.receiver
                   /\ [e EXCEPT !.channel = c].channel = c
         /\ \A a : /\ [e EXCEPT !.receiver_active_slot = a].sender = e.sender
                   /\ [e EXCEPT !.receiver_active_slot = a].receiver = e.receiver
                   /\ [e EXCEPT !.receiver_active_slot = a].timeslot = e.timeslot
                   /\ [e EXCEPT !.receiver_active_slot = a].receiver_active_slot = a
         /\ \A t, c : /\ Retimed(e, t, c).sender = e.sender
                      /\ Retimed(e, t, c).receiver = e.receiver
                      /\ Retimed(e, t, c).timeslot = t
                      /\ Retimed(e, t, c).channel = c
<1>1. DOMAIN e = {"sender", "receiver", "timeslot", "channel", "receiver_active_slot"}
  BY DEF ScheduleEntry
<1> QED BY <1>1 DEF Retimed, ScheduleEntry

(* The operators that spoil one entry by itself.                           *)
LEMMA NonNeighbourFound ==
  ASSUME NEW g, NEW es, Passed(g, es), NEW x \in NonNeighbourReceiver(g, es)
  PROVE  Reports(g, x.entries, x.code)
<1> DEFINE strangers(k) == Node \ ({es[k].sender} \cup g.nbr[es[k].sender])
<1>1. PICK i \in {j \in Spread(Len(es)) : strangers(j) # {}} :
         x = Yield("NON_NEIGHBOR_LINK",
                   With(es, i, [es[i] EXCEPT !.receiver = Min(strangers(i))]))
  BY Zenon DEF NonNeighbourReceiver
<1>2a. i \in Indices(es) /\ strangers(i) # {}
  BY PassedFacts, SpreadIndices
<1> DEFINE r == Min(strangers(i))
           e == [es[i] EXCEPT !.receiver = r]
<1>2. r \in strangers(i)
  <2>1. strangers(i) \in SUBSET Nat
    BY NodesAssumption
  <2> HIDE DEF strangers
  <2> QED BY <1>2a, <2>1, MinMember
<1>3. e.sender = es[i].sender /\ e.receiver = r
  BY <1>2a, PassedFacts, ChangedEntry
<1>4. es[i].sender \in Node
  BY <1>2a, PassedFacts
<1>5. r \in Node /\ r \notin g.nbr[es[i].sender]
  BY <1>2
<1> HIDE DEF r, e
<1>6. "NON_NEIGHBOR_LINK" \in EntryCodes(g, Channels, e)
  BY <1>3, <1>4, <1>5 DEF EntryCodes
<1>7. Reports(g, With(es, i, e), "NON_NEIGHBOR_LINK")
  BY <1>2a, <1>6, WithFacts, CodeReported
<1> QED BY <1>1, <1>7 DEF Yield, e, r

LEMMA SinkFound ==
  ASSUME NEW g, NEW es, Passed(g, es), NEW x \in SinkTransmits(g, es)
  PROVE  Reports(g, x.entries, x.code)
<1>1. PICK i \in Indices(es) :
         x = Yield("SINK_TRANSMISSION", With(es, i, [es[i] EXCEPT !.sender = Sink]))
  BY PassedFacts, SpreadIndices DEF SinkTransmits
<1> DEFINE e == [es[i] EXCEPT !.sender = Sink]
<1>2. e.sender = Sink
  BY PassedFacts, ChangedEntry
<1> HIDE DEF e
<1>3. "SINK_TRANSMISSION" \in EntryCodes(g, Channels, e)
  BY <1>2, NodesAssumption DEF EntryCodes
<1>4. Reports(g, With(es, i, e), "SINK_TRANSMISSION")
  BY <1>3, WithFacts, CodeReported
<1> QED BY <1>1, <1>4 DEF Yield, e

LEMMA ChannelFound ==
  ASSUME NEW g, NEW es, Passed(g, es), NEW x \in ChannelOutOfRange(Channels, es)
  PROVE  Reports(g, x.entries, x.code)
<1>1. PICK i \in Indices(es) :
         x = Yield("INVALID_CHANNEL", With(es, i, [es[i] EXCEPT !.channel = Channels + 1]))
  BY PassedFacts, SpreadIndices DEF ChannelOutOfRange
<1> DEFINE e == [es[i] EXCEPT !.channel = Channels + 1]
<1>2. e.sender \in Node /\ e.receiver \in Node /\ e.channel = Channels + 1
  BY PassedFacts, ChangedEntry
<1>3. Channels + 1 \notin 1 .. Channels
  BY NodesAssumption
<1> HIDE DEF e
<1>4. "INVALID_CHANNEL" \in EntryCodes(g, Channels, e)
  BY <1>2, <1>3 DEF EntryCodes
<1>5. Reports(g, With(es, i, e), "INVALID_CHANNEL")
  BY <1>4, WithFacts, CodeReported
<1> QED BY <1>1, <1>5 DEF Yield, e

LEMMA UnknownFound ==
  ASSUME NEW g, NEW es, Passed(g, es), NEW x \in UnknownReceiver(es)
  PROVE  Reports(g, x.entries, x.code)
<1>1. PICK i \in Indices(es) :
         x = Yield("UNKNOWN_RECEIVER", With(es, i, [es[i] EXCEPT !.receiver = Max(Node) + 1]))
  BY PassedFacts, SpreadIndices DEF UnknownReceiver
<1> DEFINE e == [es[i] EXCEPT !.receiver = Max(Node) + 1]
<1>2. e.sender \in Node /\ e.receiver = Max(Node) + 1
  BY PassedFacts, ChangedEntry
<1>3. Max(Node) + 1 \notin Node
  <2>1. Max(Node) \in Node /\ \A n \in Node : n <= Max(Node)
    BY NodesAssumption, GreatestNumber
  <2>2. Max(Node) \in Nat
    BY <2>1, NodesAssumption
  <2>3. ~ (Max(Node) + 1 <= Max(Node))
    BY <2>2
  <2> QED BY <2>1, <2>3
<1> HIDE DEF e
<1>4. "UNKNOWN_RECEIVER" \in EntryCodes(g, Channels, e)
  BY <1>2, <1>3 DEF EntryCodes
<1>5. Reports(g, With(es, i, e), "UNKNOWN_RECEIVER")
  BY <1>4, WithFacts, CodeReported
<1> QED BY <1>1, <1>5 DEF Yield, e

(* With a period of one slot this operator would change nothing.           *)
LEMMA ActiveSlotFound ==
  ASSUME NEW g, NEW es, Passed(g, es), Period > 1,
         NEW x \in ActiveSlotFieldMismatch(es)
  PROVE  Reports(g, x.entries, x.code)
<1>1. PICK i \in Indices(es) :
         x = Yield("ACTIVE_SLOT_FIELD_MISMATCH",
                   With(es, i, [es[i] EXCEPT !.receiver_active_slot = (@ + 1) % Period]))
  BY PassedFacts, SpreadIndices DEF ActiveSlotFieldMismatch
<1> DEFINE a == es[i].receiver_active_slot
           e == [es[i] EXCEPT !.receiver_active_slot = (a + 1) % Period]
<1>2. /\ e.sender \in Node /\ e.receiver \in Node /\ e.timeslot = es[i].timeslot
      /\ e.receiver_active_slot = (a + 1) % Period
  BY PassedFacts, ChangedEntry
<1>3. a = es[i].timeslot % Period /\ es[i].timeslot \in Nat
  BY PassedFacts
<1>4. a \in 0 .. Period - 1
  BY <1>3, NodesAssumption
<1> HIDE DEF a
<1>5. (a + 1) % Period # a
  BY <1>4, NodesAssumption
<1> HIDE DEF e
<1>6. "ACTIVE_SLOT_FIELD_MISMATCH" \in EntryCodes(g, Channels, e)
  BY <1>2, <1>3, <1>5 DEF EntryCodes
<1>7. Reports(g, With(es, i, e), "ACTIVE_SLOT_FIELD_MISMATCH")
  BY <1>6, WithFacts, CodeReported
<1> QED BY <1>1, <1>7 DEF Yield, e, a

(* The operators that spoil two entries together.                          *)
LEMMA KnownWith ==
  ASSUME NEW g, NEW es, Passed(g, es), NEW i \in Indices(es), NEW e,
         e.sender \in Node, e.receiver \in Node
  PROVE  Known(With(es, i, e)) = Indices(es)
<1> DEFINE new == With(es, i, e)
<1>1. /\ Indices(new) = Indices(es) /\ new[i] = e
      /\ \A j \in Indices(es) : j # i => new[j] = es[j]
  BY WithFacts
<1> HIDE DEF new
<1>2. \A j \in Indices(es) : new[j].sender \in Node /\ new[j].receiver \in Node
  BY <1>1, PassedFacts
<1>3. Known(new) = Indices(es)
  BY <1>1, <1>2 DEF Known
<1> QED BY <1>3 DEF new

LEMMA PrimaryFound ==
  ASSUME NEW g, NEW es, Passed(g, es), NEW x \in PrimaryCollision(es)
  PROVE  Reports(g, x.entries, x.code)
<1> DEFINE siblings(k) == {j \in Indices(es) : j > k /\ es[j].receiver = es[k].receiver}
           moved(k) == Retimed(es[Min(siblings(k))], es[k].timeslot, es[k].channel)
<1>1. PICK i \in Indices(es) :
         /\ siblings(i) # {}
         /\ x = Yield("PRIMARY_COLLISION", With(es, Min(siblings(i)), moved(i)))
  BY Zenon DEF PrimaryCollision, FirstOf
<1> DEFINE j == Min(siblings(i))
           e == moved(i)
<1>2. j \in siblings(i)
  <2>1. siblings(i) \in SUBSET Nat
    BY PassedFacts
  <2> HIDE DEF siblings
  <2> QED BY <1>1, <2>1, MinMember
<1>3. j \in Indices(es) /\ j # i /\ es[j].receiver = es[i].receiver
  BY <1>2, PassedFacts
<1> HIDE DEF j
<1>4. /\ e.sender = es[j].sender /\ e.receiver = es[i].receiver
      /\ e.timeslot = es[i].timeslot
  BY <1>3, PassedFacts, ChangedEntry DEF j
<1>5. es[j].sender \in Node /\ es[i].receiver \in Node
  BY <1>3, PassedFacts
<1> HIDE DEF e
<1>6. /\ Known(With(es, j, e)) = Indices(es)
      /\ With(es, j, e)[j] = e /\ With(es, j, e)[i] = es[i]
  BY <1>3, <1>4, <1>5, KnownWith, WithFacts
<1>7. "PRIMARY_COLLISION" \in PairCodes(g.nbr, With(es, j, e)[i], With(es, j, e)[j])
  BY <1>4, <1>6 DEF PairCodes
<1>8. Reports(g, With(es, j, e), "PRIMARY_COLLISION")
  BY <1>3, <1>6, <1>7, CodeReported
<1> QED BY <1>1, <1>8 DEF Yield, e, j

LEMMA SecondaryFound ==
  ASSUME NEW g, NEW es, Passed(g, es), NEW x \in SecondaryCollision(g, es)
  PROVE  Reports(g, x.entries, x.code)
<1> DEFINE partners(k) == {j \in Indices(es) : j > k /\ es[j].receiver # es[k].receiver
                                                /\ Interferes(g.nbr, es[k], es[j])}
           moved(k) == Retimed(es[Min(partners(k))], es[k].timeslot, es[k].channel)
<1>1. PICK i \in Indices(es) :
         /\ partners(i) # {}
         /\ x = Yield("SECONDARY_COLLISION", With(es, Min(partners(i)), moved(i)))
  BY Zenon DEF SecondaryCollision, FirstOf
<1> DEFINE j == Min(partners(i))
           e == moved(i)
<1>2. j \in partners(i)
  <2>1. partners(i) \in SUBSET Nat
    BY PassedFacts
  <2> HIDE DEF partners
  <2> QED BY <1>1, <2>1, MinMember
<1>3. /\ j \in Indices(es) /\ j # i /\ es[j].receiver # es[i].receiver
      /\ Interferes(g.nbr, es[i], es[j])
  BY <1>2, PassedFacts
<1> HIDE DEF j
<1>4. /\ e.sender = es[j].sender /\ e.receiver = es[j].receiver
      /\ e.timeslot = es[i].timeslot /\ e.channel = es[i].channel
  BY <1>3, PassedFacts, ChangedEntry DEF j
<1>5. es[j].sender \in Node /\ es[j].receiver \in Node
  BY <1>3, PassedFacts
<1> HIDE DEF e
<1>6. /\ Known(With(es, j, e)) = Indices(es)
      /\ With(es, j, e)[j] = e /\ With(es, j, e)[i] = es[i]
  BY <1>3, <1>4, <1>5, KnownWith, WithFacts
<1>7. "SECONDARY_COLLISION" \in PairCodes(g.nbr, With(es, j, e)[i], With(es, j, e)[j])
  BY <1>3, <1>4, <1>6 DEF PairCodes, Interferes
<1>8. Reports(g, With(es, j, e), "SECONDARY_COLLISION")
  BY <1>3, <1>6, <1>7, CodeReported
<1> QED BY <1>1, <1>8 DEF Yield, e, j

(* The onward entry of a forwarded one is its receiver's own.              *)
LEMMA OnwardFacts ==
  ASSUME NEW g, NEW es, Passed(g, es), NEW i \in Forwarded(es)
  PROVE  /\ i \in Indices(es) /\ Onward(es, i) \in Indices(es) /\ Onward(es, i) # i
         /\ es[Onward(es, i)].sender = es[i].receiver
         /\ es[i].receiver # Sink
<1>1. i \in Indices(es) /\ BySender(es, es[i].receiver) # {}
  BY DEF Forwarded
<1>2. Onward(es, i) \in BySender(es, es[i].receiver)
  BY <1>1 DEF Onward
<1>3. Onward(es, i) \in Indices(es) /\ es[Onward(es, i)].sender = es[i].receiver
  BY <1>2 DEF BySender
<1> QED BY <1>1, <1>3, PassedFacts

LEMMA HalfDuplexFound ==
  ASSUME NEW g, NEW es, Passed(g, es), NEW x \in HalfDuplex(es)
  PROVE  Reports(g, x.entries, x.code)
<1> DEFINE moved(k) == Retimed(es[k], es[Onward(es, k)].timeslot, es[k].channel)
<1>1. PICK i \in Forwarded(es) :
         x = Yield("HALF_DUPLEX_VIOLATION", With(es, i, moved(i)))
  BY Zenon DEF HalfDuplex, FirstOf
<1> DEFINE j == Onward(es, i)
           e == moved(i)
<1>2. /\ i \in Indices(es) /\ j \in Indices(es) /\ j # i
      /\ es[j].sender = es[i].receiver
  BY OnwardFacts
<1>3. /\ e.sender = es[i].sender /\ e.receiver = es[i].receiver
      /\ e.timeslot = es[j].timeslot
  BY <1>2, PassedFacts, ChangedEntry
<1>4. es[i].sender \in Node /\ es[i].receiver \in Node
  BY <1>2, PassedFacts
<1> HIDE DEF j, e
<1>5. /\ Known(With(es, i, e)) = Indices(es) /\ Indices(With(es, i, e)) = Indices(es)
      /\ With(es, i, e)[i] = e /\ With(es, i, e)[j] = es[j]
  BY <1>2, <1>3, <1>4, KnownWith, WithFacts
<1>6. "HALF_DUPLEX_VIOLATION" \in HalfDuplexCodes(With(es, i, e), i)
  BY <1>2, <1>3, <1>4, <1>5 DEF HalfDuplexCodes
<1>7. Reports(g, With(es, i, e), "HALF_DUPLEX_VIOLATION")
  BY <1>2, <1>5, <1>6, CodeReported
<1> QED BY <1>1, <1>7 DEF Yield, e, j

(* A changed entry that keeps its sender, to a node that exists, is still  *)
(* the only one of that sender.                                            *)
LEMMA UniqueWith ==
  ASSUME NEW g, NEW es, Passed(g, es), NEW i \in Indices(es), NEW e,
         e.sender = es[i].sender, e.receiver \in Node
  PROVE  \A j \in Indices(es) :
           /\ es[j].sender \in Unique(With(es, i, e))
           /\ TheEntry(With(es, i, e), es[j].sender) = With(es, i, e)[j]
<1> DEFINE new == With(es, i, e)
<1> SUFFICES ASSUME NEW j \in Indices(es)
             PROVE  /\ es[j].sender \in Unique(new)
                    /\ TheEntry(new, es[j].sender) = new[j]
  OBVIOUS
<1>1. /\ Indices(new) = Indices(es) /\ new[i] = e
      /\ \A k \in Indices(es) : k # i => new[k] = es[k]
  BY WithFacts
<1> HIDE DEF new
<1>2. \A k \in Indices(es) : new[k].sender = es[k].sender /\ new[k].receiver \in Node
  BY <1>1, PassedFacts
<1>3. BySender(new, es[j].sender) = {j}
  BY <1>1, <1>2, PassedFacts DEF BySender
<1>4. Cardinality(BySender(new, es[j].sender)) = 1
  BY <1>3, FS_Singleton
<1>5. es[j].sender \in Node \ {Sink}
  BY PassedFacts
<1> QED BY <1>2, <1>3, <1>4, <1>5 DEF Unique, TheEntry

LEMMA PrecedenceFound ==
  ASSUME NEW g, NEW es, Passed(g, es), NEW x \in PrecedenceInversion(es)
  PROVE  Reports(g, x.entries, x.code)
<1> DEFINE moved(k) == Retimed(es[k], es[Onward(es, k)].timeslot + 1, es[k].channel)
<1>1. PICK i \in Forwarded(es) :
         x = Yield("PRECEDENCE_VIOLATION", With(es, i, moved(i)))
  BY Zenon DEF PrecedenceInversion, FirstOf
<1> DEFINE j == Onward(es, i)
           e == moved(i)
<1>2. /\ i \in Indices(es) /\ j \in Indices(es) /\ j # i
      /\ es[j].sender = es[i].receiver
  BY OnwardFacts
<1>3. /\ e.sender = es[i].sender /\ e.receiver = es[i].receiver
      /\ e.timeslot = es[j].timeslot + 1
  BY <1>2, PassedFacts, ChangedEntry
<1>4. es[i].receiver \in Node /\ es[j].timeslot \in Nat
  BY <1>2, PassedFacts
<1> HIDE DEF j, e
<1>5. /\ es[i].sender \in Unique(With(es, i, e)) /\ es[j].sender \in Unique(With(es, i, e))
      /\ TheEntry(With(es, i, e), es[i].sender) = With(es, i, e)[i]
      /\ TheEntry(With(es, i, e), es[j].sender) = With(es, i, e)[j]
  BY <1>2, <1>3, <1>4, UniqueWith
<1>6. With(es, i, e)[i] = e /\ With(es, i, e)[j] = es[j]
  BY <1>2, WithFacts
<1>7. e.timeslot >= es[j].timeslot
  BY <1>3, <1>4
<1>8. "PRECEDENCE_VIOLATION" \in RouteCodes(With(es, i, e), es[i].sender)
  BY <1>2, <1>3, <1>5, <1>6, <1>7 DEF RouteCodes
<1>9. Reports(g, With(es, i, e), "PRECEDENCE_VIOLATION")
  BY <1>5, <1>8, CodeReported
<1> QED BY <1>1, <1>9 DEF Yield, e, j

(* The way up from the child leads to and fro between the two.             *)
LEMMA CycleFound ==
  ASSUME NEW g, NEW es, Passed(g, es), NEW x \in ParentCycle(es)
  PROVE  Reports(g, x.entries, x.code)
<1> DEFINE turned(k) == [es[Onward(es, k)] EXCEPT !.receiver = es[k].sender]
<1>1. PICK i \in Forwarded(es) :
         x = Yield("PARENT_CYCLE", With(es, Onward(es, i), turned(i)))
  BY Zenon DEF ParentCycle, FirstOf
<1> DEFINE j == Onward(es, i)
           e == turned(i)
           a == es[i].sender
           b == es[j].sender
           new == With(es, j, e)
           hop == [n \in Node |-> Hop(new, n)]
           last == Iterate(hop, a, Cardinality(Node))
<1>2. /\ i \in Indices(es) /\ j \in Indices(es) /\ j # i
      /\ b = es[i].receiver
  BY OnwardFacts
<1>3. e.sender = b /\ e.receiver = a
  BY <1>2, PassedFacts, ChangedEntry
<1>4. a \in Node \ {Sink} /\ b \in Node \ {Sink}
  BY <1>2, PassedFacts
<1> HIDE DEF e
<1>5. /\ a \in Unique(new) /\ b \in Unique(new)
      /\ TheEntry(new, a) = es[i] /\ TheEntry(new, b) = e
  <2>1. /\ a \in Unique(new) /\ b \in Unique(new)
        /\ TheEntry(new, a) = new[i] /\ TheEntry(new, b) = new[j]
    BY <1>2, <1>3, <1>4, UniqueWith
  <2>2. new[i] = es[i] /\ new[j] = e
    BY <1>2, WithFacts
  <2> QED BY <2>1, <2>2
<1> HIDE DEF j, a, b, new
<1>6. hop[a] = b /\ hop[b] = a
  BY <1>2, <1>3, <1>4, <1>5 DEF Hop
<1>7. hop \in [Node -> Node]
  <2>1. ASSUME NEW n \in Node PROVE Hop(new, n) \in Node
    <3>1. ASSUME n \in Unique(new) PROVE TheEntry(new, n).receiver \in Node
      <4>1. PICK m : m \in BySender(new, n)
        <5>1. Cardinality(BySender(new, n)) = 1
          BY <3>1 DEF Unique
        <5> QED BY <5>1, FS_EmptySet
      <4>2. (CHOOSE k \in BySender(new, n) : TRUE) \in BySender(new, n)
        BY <4>1
      <4> QED BY <3>1, <4>2 DEF Unique, TheEntry
    <3> QED BY <3>1 DEF Hop
  <2> QED BY <2>1
<1>8. Cardinality(Node) \in Nat
  BY NodesAssumption, FS_CardinalityType
<1> HIDE DEF hop
<1>9. last \in {a, b}
  <2>1. \A y \in {a, b} : hop[y] \in {a, b}
    BY <1>6
  <2>2. {a, b} \in SUBSET Node /\ a \in {a, b}
    BY <1>4
  <2> QED BY <1>7, <1>8, <2>1, <2>2, IterateStays
<1> HIDE DEF last
<1>10. last \in Unique(new) /\ TheEntry(new, last).receiver # Sink
  BY <1>2, <1>3, <1>4, <1>5, <1>9
<1>11. InCycle(new, a)
  BY <1>10 DEF InCycle, last, hop
<1>12. "PARENT_CYCLE" \in RouteCodes(new, a)
  BY <1>11 DEF RouteCodes
<1>13. Reports(g, new, "PARENT_CYCLE")
  BY <1>5, <1>12, CodeReported
<1> QED BY <1>1, <1>13 DEF Yield, new, e, j

(* No mutant of a schedule that passes gets past the validator, whichever  *)
(* operator made it and however many each of them makes, provided that a   *)
(* working period has more than one slot.                                  *)
THEOREM NoMutantSurvives == ASSUME Period > 1 PROVE Spec => []MutantsRejected
<1>1. Init => OnSchedule
  BY ScheduleInit
<1>2. OnSchedule /\ [Next]_vars => OnSchedule'
  BY ScheduleStep
<1>3. OnSchedule => MutantsRejected
  <2> SUFFICES ASSUME OnSchedule, model = "legacy_neighbor",
                      NEW x \in MutantsFor(net, Channels, entries)
               PROVE  Reports(net, x.entries, x.code)
    BY DEF MutantsRejected, Survivors, Reports
  <2>1. Passed(net, entries)
    BY ScheduleType DEF OnSchedule, Passed
  <2> QED BY <2>1, DropFound, DuplicateFound, NonNeighbourFound, SinkFound,
             PrimaryFound, SecondaryFound, HalfDuplexFound, PrecedenceFound,
             ChannelFound, UnknownFound, ActiveSlotFound, CycleFound
          DEF MutantsFor
<1> QED BY <1>1, <1>2, <1>3, PTL DEF Spec
=============================================================================
