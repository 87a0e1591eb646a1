---------------------------- MODULE AnexInductive ----------------------------
(***************************************************************************)
(* What the scheduler maintains as long as the tree construction leaves no *)
(* node without a parent, whatever the starting link delay and the limit   *)
(* on the working periods are.                                             *)
(***************************************************************************)
EXTENDS AnexProperties

Building == pc \in {"layering", "tree"}
InPeriod == pc \in {"slot", "queue", "colouring"}
Pending  == Attached \ ({Sink} \cup Scheduled)
Queued   == candidates \cup {promoted[i] : i \in 1 .. Len(promoted)}

(* Nobody x would have to wait for before transmitting.                    *)
HeardAll(x) == \A c \in Node : parent[c] = x => ~ Unscheduled(c)

(* The first timeslot that is not over.                                    *)
Now == (wp - 1) * T + (IF pc = "period" THEN 0 ELSE slot)

(* Layers count hops to the sink.                                          *)
LayerInv ==
  /\ layer[Sink] = 0
  /\ \A n \in Node \ {Sink} : layer[n] # None =>
        \E p \in nbr(n) : layer[p] # None /\ layer[p] = layer[n] - 1
  /\ pc # "layering" => \A n \in Node : layer[n] # None

(* The tree grows layer by layer, so a node joins it before its children.  *)
TreeInv ==
  /\ parent[Sink] = None
  /\ \A n \in Node \ {Sink} : n \in unvisited <=> parent[n] = None
  /\ ~ Building => unvisited = {}
  /\ pc = "layering" => unvisited = Node \ {Sink}
  /\ pc = "tree" =>
       \A n \in Attached \ {Sink} :
          /\ layer[parent[n]] = layer[n] - 1
          /\ \A k \in unvisited : layer[n] <= layer[k]
  /\ Building => Scheduled = {} /\ completed = 1 /\ wp = 1
  /\ \A n \in Attached \ {Sink} : parent[n] \in nbr(n)

(* Pending senders can be peeled off, each one after its children.         *)
LeafInv ==
  \A S \in SUBSET Pending :
    S # {} => \E n \in S : \A c \in S : parent[c] # n

(* Scheduled nodes have heard all their children, in earlier timeslots.    *)
ScheduleInv ==
  /\ \A n \in Node : timeslot[n] = None <=> channel[n] = None
  /\ Sink \notin Scheduled
  /\ Scheduled \subseteq Attached
  /\ \A n \in Scheduled : HeardAll(n) /\ timeslot[n] < Now

(* What is queued, eligible or receiving in the current slot.              *)
QueueInv ==
  pc = "queue" =>
    /\ \A x \in Queued : /\ x # Sink
                         /\ Unscheduled(x)
                         /\ x \notin EligibleSet
                         /\ x \in parentSet \/ HeardAll(x)
    /\ \A i \in 1 .. Len(promoted) :
         /\ promoted[i] \notin candidates
         /\ \A j \in 1 .. Len(promoted) : promoted[i] = promoted[j] => i = j

EligibleInv ==
  pc \in {"queue", "colouring"} =>
    /\ parentSet = {parent[e] : e \in EligibleSet}
    /\ \A e \in EligibleSet : /\ e # Sink
                              /\ Unscheduled(e)
                              /\ HeardAll(e)
                              /\ e \notin parentSet
                              /\ slot \in active(parent[e])
    /\ \A i, j \in 1 .. Len(eligible) :
         i # j => /\ eligible[i] # eligible[j]
                  /\ parent[eligible[i]] # parent[eligible[j]]

(* A bucket holds no two senders in conflict.                              *)
ColourInv ==
  pc \in {"queue", "colouring"} =>
    /\ \A n \in Node : colour[n] # 0 => n \in EligibleSet
    /\ \A i \in painted + 1 .. Len(eligible) : colour[eligible[i]] = 0
    /\ \A a, b \in EligibleSet :
         a # b /\ colour[a] = colour[b] /\ colour[a] # 0 => ~ Conflict(a, b)
    /\ pc = "queue" => painted = 0
    /\ painted > 0 => colour[eligible[1]] = 1

(* As long as a period commits nobody, no past slot of it had a candidate. *)
ProgressInv ==
  /\ InPeriod => before <= completed /\ wp <= before /\ before # N
  /\ InPeriod /\ completed = before /\ (pc = "slot" \/ eligible = <<>>) =>
       \A s \in 0 .. slot - 1 : CandidateSenders(s) = {}
  /\ pc = "queue" /\ eligible = <<>> =>
       candidates = CandidateSenders(slot) /\ promoted = <<>>
  /\ pc = "colouring" /\ eligible = <<>> => CandidateSenders(slot) = {}

CoreInv ==
  /\ TypeOK
  /\ LayerInv
  /\ TreeInv
  /\ ListsMatchParents
  /\ AcyclicRouting
  /\ LeafInv
  /\ ScheduleInv
  /\ AggregationPrecedence
  /\ CollisionFree
  /\ ReceiverListens
  /\ QueueInv
  /\ EligibleInv
  /\ ColourInv
  /\ SinkNeverTransmits
  /\ CompletedCountsScheduled
  /\ PeriodsBounded
  /\ ProgressInv
  /\ pc # "crashed"

(* Every node the tree construction has looked at has a parent.            *)
NobodyLeftOut == \A n \in Node \ {Sink} : n \notin unvisited => parent[n] # None

WholeTreeInv == TypeOK /\ (NobodyLeftOut => CoreInv)
=============================================================================
