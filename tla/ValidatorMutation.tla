------------------------- MODULE ValidatorMutation --------------------------
(***************************************************************************)
(* The mutation test of the validator: twelve operators that each damage a *)
(* certified schedule in one way, with the code they expect for it, and    *)
(* the checker of the original scheduler, which compares as well.          *)
(***************************************************************************)
EXTENDS ScheduleValidator, FiniteSetsExt, SequencesExt

CONSTANT PerOperator    \* mutants an operator yields for a schedule

ASSUME PerOperatorAssumption == PerOperator \in Nat \ {0}

(* Evenly spaced indices of a schedule.                                    *)
Spread(count) ==
  IF count <= PerOperator THEN 1 .. count
  ELSE {((k * count) \div PerOperator) + 1 : k \in 0 .. PerOperator - 1}

(* The first indices an operator finds, as many as it may yield.           *)
FirstOf(indices) ==
  {i \in indices : Cardinality({j \in indices : j < i}) < PerOperator}

Yield(code, schedule) == [code |-> code, entries |-> schedule]
With(es, i, e) == [es EXCEPT ![i] = e]

(* An entry moved to a slot, with the active slot that goes with it.       *)
Retimed(e, t, c) ==
  [e EXCEPT !.timeslot = t, !.receiver_active_slot = t % Period, !.channel = c]

(* Indices whose receiver has an entry of its own, and that entry.         *)
Forwarded(es) == {i \in Indices(es) : BySender(es, es[i].receiver) # {}}
Onward(es, i) == CHOOSE j \in BySender(es, es[i].receiver) : TRUE

DropTransmission(es) ==
  {Yield("MISSING_TRANSMISSION", RemoveAt(es, i)) : i \in Spread(Len(es))}

DuplicateTransmission(es) ==
  {Yield("DUPLICATE_TRANSMISSION", Append(es, es[i])) : i \in Spread(Len(es))}

NonNeighbourReceiver(g, es) ==
  LET strangers(i) == Node \ ({es[i].sender} \cup g.nbr[es[i].sender])
  IN {Yield("NON_NEIGHBOR_LINK", With(es, i, [es[i] EXCEPT !.receiver = Min(strangers(i))])) :
        i \in {j \in Spread(Len(es)) : strangers(j) # {}}}

SinkTransmits(g, es) ==
  {Yield("SINK_TRANSMISSION", With(es, i, [es[i] EXCEPT !.sender = Sink])) :
     i \in {j \in Spread(Len(es)) :
              es[j].receiver # Sink /\ Sink \in g.nbr[es[j].receiver]}}

(* The second sender of a receiver joins the first in its slot.            *)
PrimaryCollision(es) ==
  LET siblings(i) == {j \in Indices(es) : j > i /\ es[j].receiver = es[i].receiver}
      firsts == {i \in Indices(es) : siblings(i) # {} /\
                   \A j \in Indices(es) : j < i => es[j].receiver # es[i].receiver}
  IN {Yield("PRIMARY_COLLISION", With(es, Min(siblings(i)),
              Retimed(es[Min(siblings(i))], es[i].timeslot, es[i].channel))) :
        i \in FirstOf(firsts)}

SecondaryCollision(g, es) ==
  LET partners(i) == {j \in Indices(es) : j > i /\ es[j].receiver # es[i].receiver
                         /\ Interferes(g.nbr, es[i], es[j])}
      pairable == {i \in Indices(es) : partners(i) # {}}
  IN {Yield("SECONDARY_COLLISION", With(es, Min(partners(i)),
              Retimed(es[Min(partners(i))], es[i].timeslot, es[i].channel))) :
        i \in FirstOf(pairable)}

HalfDuplex(es) ==
  {Yield("HALF_DUPLEX_VIOLATION",
         With(es, i, Retimed(es[i], es[Onward(es, i)].timeslot, es[i].channel))) :
     i \in FirstOf({j \in Forwarded(es) : es[j].timeslot # es[Onward(es, j)].timeslot})}

PrecedenceInversion(es) ==
  {Yield("PRECEDENCE_VIOLATION",
         With(es, i, Retimed(es[i], es[Onward(es, i)].timeslot + 1, es[i].channel))) :
     i \in FirstOf({j \in Forwarded(es) : es[j].timeslot < es[Onward(es, j)].timeslot})}

ChannelOutOfRange(channels, es) ==
  {Yield("INVALID_CHANNEL", With(es, i, [es[i] EXCEPT !.channel = channels + 1])) :
     i \in Spread(Len(es))}

UnknownReceiver(es) ==
  {Yield("UNKNOWN_RECEIVER", With(es, i, [es[i] EXCEPT !.receiver = Max(Node) + 1])) :
     i \in Spread(Len(es))}

ActiveSlotFieldMismatch(es) ==
  {Yield("ACTIVE_SLOT_FIELD_MISMATCH",
         With(es, i, [es[i] EXCEPT !.receiver_active_slot = (@ + 1) % Period])) :
     i \in Spread(Len(es))}

(* A mutation of ParentCycle: the child is turned, not its receiver.       *)
ParentCycleOfChild(es) ==
  {Yield("PARENT_CYCLE", With(es, i, [es[i] EXCEPT !.receiver = Sink])) :
     i \in FirstOf(Forwarded(es))}

(* The receiver sends back to its child.                                   *)
ParentCycle(es) ==
  {Yield("PARENT_CYCLE",
         With(es, Onward(es, i), [es[Onward(es, i)] EXCEPT !.receiver = es[i].sender])) :
     i \in FirstOf(Forwarded(es))}

MutantsFor(g, channels, es) ==
  UNION {DropTransmission(es), DuplicateTransmission(es), NonNeighbourReceiver(g, es),
         SinkTransmits(g, es), PrimaryCollision(es), SecondaryCollision(g, es),
         HalfDuplex(es), PrecedenceInversion(es), ChannelOutOfRange(channels, es),
         UnknownReceiver(es), ActiveSlotFieldMismatch(es), ParentCycle(es)}

(* Mutants the validator does not report under the code they aim at.       *)
Survivors(g, channels, es) ==
  {x \in MutantsFor(g, channels, es) :
     x.code \notin Violations(g, channels, "legacy_neighbor", x.entries)}

---------------------------------------------------------------------------
(* The checker of the original scheduler reads parents, slots and channels *)
(* off its nodes, the sink being node 0; it prints what it objects to.     *)

Parent(es, n) == TheEntry(es, n).receiver
Slot(es, n) == TheEntry(es, n).timeslot
Channel(es, n) == TheEntry(es, n).channel

(* Not at the sink when as many nodes have been looked at as there are.    *)
NoTree(es, n) ==
  LET up == [x \in Node |-> IF x = Sink THEN Sink ELSE Parent(es, x)]
  IN  Iterate(up, Parent(es, n), Cardinality(Node) - 1) # Sink

schedule_validation(g, es) ==
  LET senders == Node \ {Sink}
      collide(u, v) ==
        \/ /\ Parent(es, u) = Parent(es, v)
           /\ Slot(es, u) = Slot(es, v)
        \/ /\ u \in g.nbr[Parent(es, v)] \/ v \in g.nbr[Parent(es, u)]
           /\ Slot(es, u) = Slot(es, v) /\ Channel(es, u) = Channel(es, v)
  IN {<<"tree", n>> : n \in {u \in senders : NoTree(es, u)}} \cup
     {<<"order", n>> : n \in {v \in senders : Parent(es, v) # Sink
                                /\ Slot(es, v) >= Slot(es, Parent(es, v))}} \cup
     {<<"collision", p>> : p \in {q \in senders \X senders :
                                    q[1] < q[2] /\ collide(q[1], q[2])}}
=============================================================================
