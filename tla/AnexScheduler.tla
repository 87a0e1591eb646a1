--------------------------- MODULE AnexScheduler ---------------------------
(***************************************************************************)
(* The ANEX scheduler: breadth-first layering, the minimum-link-delay      *)
(* aggregation tree, and the slot-by-slot loop that lets senders change    *)
(* parent, colours them with channels and commits their transmissions.     *)
(*                                                                         *)
(* Every loop iteration of the program is one step, so that what one       *)
(* iteration reads and the next one uses is visible to the properties.     *)
(* The order of a node's neighbour list is an input the schema leaves      *)
(* open; it only breaks ties, and the ties are left open here.             *)
(***************************************************************************)
EXTENDS Integers, Sequences, FiniteSets

CONSTANTS
  N,           \* number of nodes; the IDs are 0 .. N-1 and 0 is the sink
  T,           \* slots of a working period
  Networks,    \* the inputs: neighbours, active slots and channel count
  MaxColours,  \* colour buckets of dynamic_schedule (7 in the code)
  DelayCap,    \* the delay a node starts with (100000 in the code)
  Guarded,     \* TRUE: the tool layer's loop; FALSE: the legacy ANEX loop
  MaxPeriods   \* DEFAULT_MAX_WORKING_PERIODS of the guarded loop

Node == 0 .. N-1
Slot == 0 .. T-1
Sink == 0
None == -1     \* Python's None for a parent, a timeslot or a channel

(* The schema accepts only connected networks: every set of nodes that     *)
(* holds the sink and misses a node has an edge to a node it misses.       *)
Connected(g) ==
  \A S \in SUBSET Node :
    Sink \in S /\ S # Node => \E a \in S : g.nbr[a] \ S # {}

(* What NodeSpec and NetworkInstance check before the scheduler runs.      *)
WellFormed(g) ==
  /\ g.nbr \in [Node -> SUBSET Node]
  /\ g.active \in [Node -> SUBSET Slot]
  /\ g.channels \in Nat \ {0}
  /\ \A n \in Node : g.active[n] # {} /\ n \notin g.nbr[n]
  /\ \A a, b \in Node : b \in g.nbr[a] => a \in g.nbr[b]
  /\ Connected(g)

ASSUME SizeAssumption ==
  /\ N \in Nat \ {0}
  /\ T \in Nat \ {0}
  /\ MaxColours \in Nat \ {0}
  /\ DelayCap \in Nat
  /\ MaxPeriods \in Nat
  /\ Guarded \in BOOLEAN

ASSUME NetworksAssumption == \A g \in Networks : WellFormed(g)

VARIABLES
  net,         \* the network being scheduled
  pc,          \* where the program is
  layer,       \* Node.layer, None until the node is reached
  curLayer,    \* current_layer of layering
  unvisited,   \* nodes the tree construction has not looked at
  parent,      \* Node.parentID
  children,    \* Node.childrenIDs: how often c occurs in the list of p
  timeslot,    \* Node.timeslot
  channel,     \* Node.channel
  completed,   \* len(completed)
  before,      \* len(completed) when the working period began
  wp,          \* working_period_index
  slot,        \* the slot of the for loop
  candidates,  \* what is left of M_slot in candidate_senders_queue
  promoted,    \* parents put into the queue behind them
  eligible,    \* eligible_senders
  parentSet,   \* Parent_set
  colour,      \* bucket of C each eligible sender is in, 0 for none
  painted      \* how many eligible senders the colouring has handled

inputs == <<net, layer, curLayer, unvisited>>
tree   == <<parent, children>>
sched  == <<timeslot, channel, completed>>
loop   == <<before, wp, slot>>
queue  == <<candidates, promoted, eligible, parentSet>>
round  == <<queue, colour, painted>>
vars   == <<inputs, pc, tree, sched, loop, round>>

nbr(n)    == net.nbr[n]
active(n) == net.active[n]

Unscheduled(n) == timeslot[n] = None
EligibleSet    == {eligible[i] : i \in 1 .. Len(eligible)}

-----------------------------------------------------------------------------
(* Tree construction.                                                      *)

Init ==
  /\ net \in Networks
  /\ pc = "layering"
  /\ layer = [n \in Node |-> IF n = Sink THEN 0 ELSE None]
  /\ curLayer = 0
  /\ unvisited = Node \ {Sink}
  /\ parent = [n \in Node |-> None]
  /\ children = [p \in Node |-> [c \in Node |-> 0]]
  /\ timeslot = [n \in Node |-> None]
  /\ channel = [n \in Node |-> None]
  /\ completed = 1
  /\ before = 0
  /\ wp = 1
  /\ slot = 0
  /\ candidates = {}
  /\ promoted = <<>>
  /\ eligible = <<>>
  /\ parentSet = {}
  /\ colour = [n \in Node |-> 0]
  /\ painted = 0

(* One iteration of the while loop of layering.                            *)
LayeringStep ==
  /\ pc = "layering"
  /\ \E n \in Node : layer[n] = None
  /\ LET reached == {n \in Node : /\ layer[n] = None
                                  /\ \E i \in nbr(n) : layer[i] = curLayer}
     IN  layer' = [n \in Node |-> IF n \in reached THEN curLayer + 1
                                                   ELSE layer[n]]
  /\ curLayer' = curLayer + 1
  /\ UNCHANGED <<net, unvisited, pc, tree, sched, loop, round>>

LayeringDone ==
  /\ pc = "layering"
  /\ \A n \in Node : layer[n] # None
  /\ pc' = "tree"
  /\ UNCHANGED <<inputs, tree, sched, loop, round>>

(* Waiting times from a wake-up of n to the next wake-up of p.             *)
LinkDelays(n, p) ==
  {IF r > s THEN r - s ELSE r + T - s : r \in active(p), s \in active(n)}

Upper(n) == {p \in nbr(n) : layer[p] = layer[n] - 1}

(* The delays shorter than the one the search starts from, by parent.      *)
FeasibleDelays(n, p) == {d \in LinkDelays(n, p) : d < DelayCap}

BestParents(n) ==
  {p \in Upper(n) : \E d \in FeasibleDelays(n, p) :
      \A q \in Upper(n) : \A e \in FeasibleDelays(n, q) : d <= e}

(* Nodes are visited by layer, then by ID.                                 *)
NextInTree(n) ==
  /\ n \in unvisited
  /\ \A k \in unvisited : \/ layer[k] > layer[n]
                          \/ layer[k] = layer[n] /\ k >= n

(* Mutation of ConnectNode: the new parent does not list the node.         *)
ConnectUnlisted(n, p) ==
  /\ pc = "tree"
  /\ NextInTree(n)
  /\ p \in BestParents(n)
  /\ parent' = [parent EXCEPT ![n] = p]
  /\ unvisited' = unvisited \ {n}
  /\ UNCHANGED <<net, layer, curLayer, children, pc, sched, loop, round>>

ConnectNode(n, p) ==
  /\ pc = "tree"
  /\ NextInTree(n)
  /\ p \in BestParents(n)
  /\ parent' = [parent EXCEPT ![n] = p]
  /\ children' = [children EXCEPT ![p][n] = @ + 1]
  /\ unvisited' = unvisited \ {n}
  /\ UNCHANGED <<net, layer, curLayer, pc, sched, loop, round>>

(* No delay is below the starting one: the node keeps parentID None.       *)
LeaveUnconnected(n) ==
  /\ pc = "tree"
  /\ NextInTree(n)
  /\ \A p \in Upper(n) : FeasibleDelays(n, p) = {}
  /\ unvisited' = unvisited \ {n}
  /\ UNCHANGED <<net, layer, curLayer, pc, tree, sched, loop, round>>

TreeDone ==
  /\ pc = "tree"
  /\ unvisited = {}
  /\ pc' = "period"
  /\ UNCHANGED <<inputs, tree, sched, loop, round>>

-----------------------------------------------------------------------------
(* The loop over working periods and slots.                                *)

BeginPeriod ==
  /\ pc = "period"
  /\ completed # N
  /\ Guarded => wp <= MaxPeriods
  /\ before' = completed
  /\ slot' = 0
  /\ pc' = "slot"
  /\ UNCHANGED <<inputs, tree, sched, wp, round>>

TooManyPeriods ==
  /\ pc = "period"
  /\ completed # N
  /\ Guarded /\ wp > MaxPeriods
  /\ pc' = "MAX_WORKING_PERIODS_EXCEEDED"
  /\ UNCHANGED <<inputs, tree, sched, loop, round>>

Finish ==
  /\ pc = "period"
  /\ completed = N
  /\ pc' = "done"
  /\ UNCHANGED <<inputs, tree, sched, loop, round>>

(* check_child_scheduled: some entry of childrenIDs has no transmission.   *)
HasUnscheduledChild(x) ==
  \E c \in Node : children[x][c] > 0 /\ timeslot[c] = None /\ channel[c] = None

(* Mutation of CandidateSenders: nodes that have transmitted are not left  *)
(* out.                                                                    *)
AllCandidateSenders(s) ==
  {x \in Node : /\ ~ HasUnscheduledChild(x)
                /\ \E y \in nbr(x) : Unscheduled(y) /\ s \in active(y)}

CandidateSenders(s) ==
  {x \in Node : /\ Unscheduled(x)
                /\ ~ HasUnscheduledChild(x)
                /\ \E y \in nbr(x) : Unscheduled(y) /\ s \in active(y)}

(* weight_calc: unscheduled neighbours that are awake in the slot.         *)
Weight(x) ==
  Cardinality({y \in nbr(x) : Unscheduled(y) /\ slot \in active(y)})

BeginSlot ==
  /\ pc = "slot"
  /\ slot < T
  /\ candidates' = CandidateSenders(slot)
  /\ promoted' = <<>>
  /\ eligible' = <<>>
  /\ parentSet' = {}
  /\ colour' = [n \in Node |-> 0]
  /\ painted' = 0
  /\ pc' = "queue"
  /\ UNCHANGED <<inputs, tree, sched, loop>>

(* The guarded loop gives up when a whole period committed nobody.         *)
EndPeriod ==
  /\ pc = "slot"
  /\ slot = T
  /\ IF Guarded /\ completed = before
     THEN pc' = "ANEX_NO_PROGRESS" /\ wp' = wp
     ELSE pc' = "period" /\ wp' = wp + 1
  /\ UNCHANGED <<inputs, tree, sched, before, slot, round>>

-----------------------------------------------------------------------------
(* dynamic_schedule, first half: parent changing.                          *)

(* The queue holds the candidates by (weight, ID), then the promoted.      *)
NextInQueue(m) ==
  IF candidates # {}
  THEN /\ m \in candidates
       /\ \A k \in candidates : \/ Weight(m) < Weight(k)
                                \/ Weight(m) = Weight(k) /\ m <= k
  ELSE promoted # <<>> /\ m = Head(promoted)

Remaining(m) == candidates \ {m}
PromotedTail == IF candidates # {} THEN promoted ELSE Tail(promoted)

(* Mutations of Receivers, each without one test of the receiver: that it  *)
(* has not transmitted, that it is awake, that it is nobody's receiver.    *)
FinishedReceivers(m) ==
  {p \in nbr(m) : p \notin EligibleSet /\ slot \in active(p) /\ p \notin parentSet}

SleepingReceivers(m) ==
  {p \in nbr(m) : Unscheduled(p) /\ p \notin EligibleSet /\ p \notin parentSet}

SharedReceivers(m) ==
  {p \in nbr(m) : Unscheduled(p) /\ p \notin EligibleSet /\ slot \in active(p)}

Receivers(m) ==
  {p \in nbr(m) : /\ Unscheduled(p)
                  /\ p \notin EligibleSet
                  /\ slot \in active(p)
                  /\ p \notin parentSet}

BestReceivers(m) ==
  {r \in Receivers(m) : \A p \in Receivers(m) : Weight(r) <= Weight(p)}

(* Mutation of SkipSender: the loop continues before it takes the node out *)
(* of the queue.                                                           *)
SkipWithoutPop(m) ==
  /\ pc = "queue"
  /\ NextInQueue(m)
  /\ m \in parentSet \/ Receivers(m) = {}
  /\ UNCHANGED vars

(* A queued node that became a receiver, or that has none, is dropped.     *)
SkipSender(m) ==
  /\ pc = "queue"
  /\ NextInQueue(m)
  /\ m \in parentSet \/ Receivers(m) = {}
  /\ candidates' = Remaining(m)
  /\ promoted' = PromotedTail
  /\ UNCHANGED <<inputs, pc, tree, sched, loop, eligible, parentSet, colour,
                 painted>>

(* Mutations of Reparented: one of the two lists is not updated.           *)
KeepOldListing(m, p, r) == [children EXCEPT ![r][m] = @ + 1]
ForgetNewListing(m, p, r) == [children EXCEPT ![p][m] = @ - 1]

(* childrenIDs.append(m) on the new parent, then remove(m) on the old one. *)
Reparented(m, p, r) ==
  [[children EXCEPT ![r][m] = @ + 1] EXCEPT ![p][m] = @ - 1]

(* childrenIDs.remove(m) on the old parent, after r's list has gained m.   *)
CanLeave(m, r) ==
  parent[m] # None /\ (children[parent[m]][m] > 0 \/ parent[m] = r)

(* Mutation of Promotes: the old parent may still wait for other children. *)
PromotesWaiting(p, r, chd) == p \notin parentSet \cup {r}

(* The old parent, once it waits for nobody, joins the queue.              *)
Promotes(p, r, chd) ==
  /\ p \notin parentSet \cup {r}
  /\ \A w \in Node : chd[p][w] > 0 => timeslot[w] # None

ChangeParent(m, r) ==
  /\ pc = "queue"
  /\ NextInQueue(m)
  /\ m \notin parentSet
  /\ r \in BestReceivers(m)
  /\ CanLeave(m, r)
  /\ LET p   == parent[m]
         chd == Reparented(m, p, r)
     IN  /\ children' = chd
         /\ promoted' = IF Promotes(p, r, chd) THEN Append(PromotedTail, p)
                                               ELSE PromotedTail
  /\ parent' = [parent EXCEPT ![m] = r]
  /\ candidates' = Remaining(m)
  /\ eligible' = Append(eligible, m)
  /\ parentSet' = parentSet \cup {r}
  /\ UNCHANGED <<inputs, pc, sched, loop, colour, painted>>

(* node_list[None], or childrenIDs.remove of a node that is not listed.    *)
Crash(m, r) ==
  /\ pc = "queue"
  /\ NextInQueue(m)
  /\ m \notin parentSet
  /\ r \in BestReceivers(m)
  /\ ~ CanLeave(m, r)
  /\ pc' = "crashed"
  /\ UNCHANGED <<inputs, tree, sched, loop, round>>

QueueEmpty ==
  /\ pc = "queue"
  /\ candidates = {}
  /\ promoted = <<>>
  /\ pc' = "colouring"
  /\ UNCHANGED <<inputs, tree, sched, loop, round>>

-----------------------------------------------------------------------------
(* dynamic_schedule, second half: colouring and commitment.                *)

(* Mutation of Conflict: only one of the two receivers is looked at.       *)
OneWayConflict(a, b) == a \in nbr(parent[b])

(* collision_in_eligible_senders for one pair.                             *)
Conflict(a, b) == a \in nbr(parent[b]) \/ b \in nbr(parent[a])

(* The buckets that hold no sender in conflict with m.                     *)
FreeColours(m) ==
  {c \in 1 .. MaxColours :
      \A k \in EligibleSet : colour[k] = c => ~ Conflict(k, m)}

NextToColour(m) == painted < Len(eligible) /\ m = eligible[painted + 1]

AssignColour(m, c) ==
  /\ pc = "colouring"
  /\ NextToColour(m)
  /\ c \in FreeColours(m)
  /\ \A d \in FreeColours(m) : c <= d
  /\ colour' = [colour EXCEPT ![m] = c]
  /\ painted' = painted + 1
  /\ UNCHANGED <<inputs, pc, tree, sched, loop, queue>>

(* Mutation of NoColourLeft: the sender is tried again instead of skipped. *)
RetryColour(m) ==
  /\ pc = "colouring"
  /\ NextToColour(m)
  /\ FreeColours(m) = {}
  /\ UNCHANGED vars

NoColourLeft(m) ==
  /\ pc = "colouring"
  /\ NextToColour(m)
  /\ FreeColours(m) = {}
  /\ painted' = painted + 1
  /\ UNCHANGED <<inputs, pc, tree, sched, loop, queue, colour>>

(* Mutation of Committed: the range of channels ends one short.            *)
CommittedShort == {m \in EligibleSet : colour[m] \in 1 .. net.channels - 1}

(* The senders whose bucket is a channel of the request.                   *)
Committed == {m \in EligibleSet : colour[m] \in 1 .. net.channels}

CommitSlot ==
  /\ pc = "colouring"
  /\ painted = Len(eligible)
  /\ timeslot' = [n \in Node |-> IF n \in Committed THEN (wp - 1) * T + slot
                                                    ELSE timeslot[n]]
  /\ channel' = [n \in Node |-> IF n \in Committed THEN colour[n]
                                                   ELSE channel[n]]
  /\ completed' = completed + Cardinality(Committed)
  /\ slot' = slot + 1
  /\ pc' = "slot"
  /\ UNCHANGED <<inputs, tree, before, wp, queue, colour, painted>>

-----------------------------------------------------------------------------

BuildTree ==
  \/ LayeringStep
  \/ LayeringDone
  \/ \E n, p \in Node : ConnectNode(n, p)
  \/ \E n \in Node : LeaveUnconnected(n)
  \/ TreeDone

WorkingPeriod ==
  \/ BeginPeriod
  \/ TooManyPeriods
  \/ BeginSlot
  \/ EndPeriod
  \/ Finish

DynamicSchedule ==
  \/ \E m \in Node : SkipSender(m)
  \/ \E m, r \in Node : ChangeParent(m, r)
  \/ \E m, r \in Node : Crash(m, r)
  \/ QueueEmpty
  \/ \E m \in Node, c \in 1 .. MaxColours : AssignColour(m, c)
  \/ \E m \in Node : NoColourLeft(m)
  \/ CommitSlot

Next == BuildTree \/ WorkingPeriod \/ DynamicSchedule

(* The program is one thread that nothing suspends for ever.               *)
Spec == Init /\ [][Next]_vars /\ WF_vars(Next)

=============================================================================
