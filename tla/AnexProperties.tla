--------------------------- MODULE AnexProperties ---------------------------
(***************************************************************************)
(* What the scheduler owes its callers, and the invariant its correctness  *)
(* rests on.                                                               *)
(***************************************************************************)
EXTENDS AnexScheduler

Scheduled == {n \in Node : timeslot[n] # None}

(* Nodes the tree construction has given a parent, and the sink.           *)
Attached == {n \in Node : n = Sink \/ parent[n] # None}

Outcomes == {"done", "crashed", "ANEX_NO_PROGRESS",
             "MAX_WORKING_PERIODS_EXCEEDED"}

(* Type correctness of the scheduler's state.                              *)
TypeOK ==
  /\ net \in Networks
  /\ pc \in {"layering", "tree", "period", "slot", "queue", "colouring"}
            \cup Outcomes
  /\ layer \in [Node -> Nat \cup {None}]
  /\ curLayer \in Nat
  /\ unvisited \subseteq Node \ {Sink}
  /\ parent \in [Node -> Node \cup {None}]
  /\ children \in [Node -> [Node -> Nat]]
  /\ timeslot \in [Node -> Nat \cup {None}]
  /\ channel \in [Node -> (1 .. MaxColours) \cup {None}]
  /\ completed \in Nat
  /\ before \in Nat
  /\ wp \in Nat \ {0}
  /\ slot \in 0 .. T
  /\ pc \in {"queue", "colouring"} => slot < T
  /\ candidates \subseteq Node
  /\ promoted \in Seq(Node)
  /\ eligible \in Seq(Node)
  /\ parentSet \subseteq Node
  /\ colour \in [Node -> 0 .. MaxColours]
  /\ painted \in 0 .. Len(eligible)

-----------------------------------------------------------------------------
(* Safety.                                                                 *)

(* Parent pointers and child lists stay mutually consistent, through tree  *)
(* construction and every dynamic reparenting: childrenIDs of p lists c    *)
(* exactly once if c.parentID is p and not at all otherwise.               *)
ListsMatchParents ==
  \A p, c \in Node : children[p][c] = IF parent[c] = p THEN 1 ELSE 0

(* Reparenting never closes a cycle: any set of attached senders has a     *)
(* member whose parent is outside the set, so all routes end at the sink.  *)
AcyclicRouting ==
  \A S \in SUBSET (Attached \ {Sink}) :
    S # {} => \E n \in S : parent[n] \notin S

(* A scheduled sender's receiver is the sink or still to be scheduled, or  *)
(* transmits in a later slot: no data arrives after it was forwarded.      *)
AggregationPrecedence ==
  \A n \in Scheduled :
    /\ parent[n] \in nbr(n)
    /\ Unscheduled(parent[n]) \/ timeslot[n] < timeslot[parent[n]]

(* Two transmissions of the same slot never target one receiver, never     *)
(* have a receiver that itself transmits, and never share a channel when   *)
(* one sender is in range of the other's receiver.                         *)
CollisionFree ==
  \A a, b \in Scheduled :
    a # b /\ timeslot[a] = timeslot[b] =>
      /\ parent[a] # parent[b]
      /\ parent[a] # b
      /\ channel[a] = channel[b] => ~ Conflict(a, b)

(* A transmission is committed in a slot its receiver is awake in, on one  *)
(* of the requested channels -- although the colouring does not know how   *)
(* many there are and the receiver is chosen before the slot is known to   *)
(* be used.                                                                *)
ReceiverListens ==
  \A n \in Scheduled : /\ timeslot[n] % T \in active(parent[n])
                       /\ channel[n] \in 1 .. net.channels

(* The sink is in the candidate scan like every node, yet it is never      *)
(* queued, never eligible and never given a slot or channel.               *)
SinkNeverTransmits ==
  /\ timeslot[Sink] = None /\ channel[Sink] = None
  /\ parent[Sink] = None
  /\ pc = "queue" => /\ Sink \notin candidates
                     /\ \A i \in 1 .. Len(promoted) : promoted[i] # Sink
  /\ Sink \notin EligibleSet

(* On a schema-valid network neither loop guard fires and neither a None   *)
(* parent nor a child missing from its list is ever dereferenced.          *)
NeverFails == pc \notin Outcomes \ {"done"}

(* The only way to dereference a None parent is a node the tree            *)
(* construction left without one.                                          *)
CrashOnlyUnconnected == pc = "crashed" => Attached # Node

(* docs/legacy_compatibility_audit.md:87: a layered node with no feasible  *)
(* active-slot comparison makes the tree construction raise, so that it    *)
(* never ends with a sender that has no parent.                            *)
TreeRaisesOnUnconnected ==
  pc \in {"layering", "tree"} \/ \A n \in Node \ {Sink} : parent[n] # None

(* len(completed), the loop's only exit test, counts every scheduled node  *)
(* once; the loop leaves exactly when all senders are scheduled.           *)
CompletedCountsScheduled ==
  /\ completed = 1 + Cardinality(Scheduled)
  /\ pc = "done" => Scheduled = Node \ {Sink}

(* A committed transmission is final: later periods never move a scheduled *)
(* node to another parent, slot or channel.                                *)
CommittedFrozen ==
  [][\A n \in Node : timeslot[n] # None =>
        /\ timeslot'[n] = timeslot[n]
        /\ channel'[n] = channel[n]
        /\ parent'[n] = parent[n]]_vars

(* Every working period but the first has scheduled someone before it, so  *)
(* there are never more periods than senders.                              *)
PeriodsBounded == pc = "period" => wp <= completed

-----------------------------------------------------------------------------
(* Liveness.                                                               *)

(* The scheduler schedules every sender and returns, with the guards of    *)
(* the tool layer or without them.                                         *)
Terminates == <>(pc = "done")

(* Whatever the input, the loop ends in one of its outcomes.               *)
AlwaysEnds == <>(pc \in Outcomes)

=============================================================================
