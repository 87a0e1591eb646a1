----------------------------- MODULE AnexProofs -----------------------------
(***************************************************************************)
(* The invariant of the scheduler is inductive, for every node count,      *)
(* working period, topology, channel count and bucket count, once nobody   *)
(* is left out of the tree; the limits come in with AnexSafety.  The       *)
(* argument: a sender changes parent only when all its children have       *)
(* transmitted, and its new parent has not; so no cycle can close, no      *)
(* child list goes stale, and whoever is still pending has a leaf among    *)
(* them that will be a candidate.                                          *)
(***************************************************************************)
EXTENDS AnexInductive, FiniteSetTheorems, TLAPS

(* Nodes are finitely many, and so is every set of them.                   *)
LEMMA NodeFinite ==
  /\ IsFiniteSet(Node) /\ Cardinality(Node) = N
  /\ \A S \in SUBSET Node : IsFiniteSet(S) /\ Cardinality(S) \in 0 .. N
<1>1. IsFiniteSet(Node) /\ Cardinality(Node) = N
  BY FS_Interval, SizeAssumption DEF Node
<1>2. ASSUME NEW S \in SUBSET Node
      PROVE  IsFiniteSet(S) /\ Cardinality(S) \in 0 .. N
  <2>1. IsFiniteSet(S) /\ Cardinality(S) <= Cardinality(Node)
    BY <1>1, FS_Subset
  <2>2. Cardinality(S) \in Nat
    BY <2>1, FS_CardinalityType
  <2> QED BY <2>1, <2>2, <1>1, SizeAssumption
<1> QED BY <1>1, <1>2

-----------------------------------------------------------------------------
(* Type correctness.                                                       *)

LEMMA TypeInit == Init => TypeOK
BY SizeAssumption
DEF Init, TypeOK, Node, Sink, None

(* Timeslots are natural numbers.                                          *)
LEMMA TimeslotNat ==
  \A w \in Nat \ {0}, s \in Nat, t \in Nat : (w - 1) * t + s \in Nat
OBVIOUS

LEMMA EligibleType == TypeOK => EligibleSet \subseteq Node
BY DEF TypeOK, EligibleSet

(* Reparenting moves one occurrence of m from the list of p to that of r.  *)
LEMMA ReparentedLists ==
  ASSUME children \in [Node -> [Node -> Nat]],
         NEW m \in Node, NEW p \in Node, NEW r \in Node,
         children[p][m] > 0 \/ p = r
  PROVE  /\ Reparented(m, p, r) \in [Node -> [Node -> Nat]]
         /\ \A x, c \in Node :
              Reparented(m, p, r)[x][c] =
                IF c # m \/ p = r THEN children[x][c]
                ELSE IF x = r THEN children[x][c] + 1
                ELSE IF x = p THEN children[x][c] - 1
                ELSE children[x][c]
<1> DEFINE grown == [children EXCEPT ![r][m] = @ + 1]
<1>1. /\ grown \in [Node -> [Node -> Nat]]
      /\ \A x, c \in Node :
           grown[x][c] = IF x = r /\ c = m THEN children[x][c] + 1
                                          ELSE children[x][c]
  OBVIOUS
<1>2. grown[p][m] > 0
  BY <1>1
<1> HIDE DEF grown
<1>3. /\ [grown EXCEPT ![p][m] = @ - 1] \in [Node -> [Node -> Nat]]
      /\ \A x, c \in Node :
           [grown EXCEPT ![p][m] = @ - 1][x][c] =
              IF x = p /\ c = m THEN grown[x][c] - 1 ELSE grown[x][c]
  BY <1>1, <1>2
<1>4. Reparented(m, p, r) = [grown EXCEPT ![p][m] = @ - 1]
  BY DEF Reparented, grown
<1> QED BY <1>1, <1>3, <1>4

LEMMA TypeStep == TypeOK /\ [Next]_vars => TypeOK'
<1> SUFFICES ASSUME TypeOK, [Next]_vars PROVE TypeOK'
  OBVIOUS
<1> USE SizeAssumption DEF TypeOK
<1>1. CASE LayeringStep
  BY <1>1 DEF LayeringStep, tree, sched, loop, round, queue, None
<1>2. CASE LayeringDone
  BY <1>2 DEF LayeringDone, inputs, tree, sched, loop, round, queue
<1>3. ASSUME NEW n \in Node, NEW p \in Node, ConnectNode(n, p) PROVE TypeOK'
  <2>1. children' \in [Node -> [Node -> Nat]]
    BY <1>3 DEF ConnectNode
  <2> QED BY <1>3, <2>1 DEF ConnectNode, sched, loop, round, queue
<1>4. ASSUME NEW n \in Node, LeaveUnconnected(n) PROVE TypeOK'
  BY <1>4 DEF LeaveUnconnected, tree, sched, loop, round, queue
<1>5. CASE TreeDone
  BY <1>5 DEF TreeDone, inputs, tree, sched, loop, round, queue
<1>6. CASE BeginPeriod
  BY <1>6 DEF BeginPeriod, inputs, tree, sched, round, queue
<1>7. CASE TooManyPeriods
  BY <1>7 DEF TooManyPeriods, inputs, tree, sched, loop, round, queue, Outcomes
<1>8. CASE BeginSlot
  <2>1. candidates' \subseteq Node
    BY <1>8 DEF BeginSlot, CandidateSenders
  <2>2. painted' \in 0 .. Len(eligible') /\ eligible' \in Seq(Node)
    BY <1>8 DEF BeginSlot
  <2> QED BY <1>8, <2>1, <2>2 DEF BeginSlot, inputs, tree, sched, loop
<1>9. CASE EndPeriod
  BY <1>9 DEF EndPeriod, inputs, tree, sched, round, queue, Outcomes
<1>10. CASE Finish
  BY <1>10 DEF Finish, inputs, tree, sched, loop, round, queue, Outcomes
<1>11. ASSUME NEW m \in Node, SkipSender(m) PROVE TypeOK'
  <2>1. promoted' \in Seq(Node)
    BY <1>11 DEF SkipSender, PromotedTail, NextInQueue
  <2> QED BY <1>11, <2>1 DEF SkipSender, Remaining, inputs, tree, sched, loop
<1>12. ASSUME NEW m \in Node, NEW r \in Node, ChangeParent(m, r) PROVE TypeOK'
  <2> DEFINE p == parent[m]
  <2>1. p \in Node
    BY <1>12 DEF ChangeParent, CanLeave
  <2>2. Reparented(m, p, r) \in [Node -> [Node -> Nat]]
    BY <1>12, <2>1, ReparentedLists DEF ChangeParent, CanLeave
  <2>3. PromotedTail \in Seq(Node)
    BY <1>12 DEF ChangeParent, PromotedTail, NextInQueue
  <2>4. eligible' \in Seq(Node) /\ Len(eligible') = Len(eligible) + 1
    BY <1>12 DEF ChangeParent
  <2>5. promoted' \in Seq(Node)
    BY <1>12, <2>1, <2>3 DEF ChangeParent
  <2>6. children' \in [Node -> [Node -> Nat]]
    BY <1>12, <2>2 DEF ChangeParent
  <2>7. parentSet' \subseteq Node /\ candidates' \subseteq Node
    BY <1>12 DEF ChangeParent, Remaining
  <2>8. parent' \in [Node -> Node \cup {None}]
    BY <1>12 DEF ChangeParent
  <2>9. painted' \in 0 .. Len(eligible')
    BY <1>12, <2>4 DEF ChangeParent
  <2>10. UNCHANGED <<inputs, pc, sched, loop, colour>>
    BY <1>12 DEF ChangeParent
  <2> QED BY <2>4, <2>5, <2>6, <2>7, <2>8, <2>9, <2>10
          DEF inputs, sched, loop
<1>13. ASSUME NEW m \in Node, NEW r \in Node, Crash(m, r) PROVE TypeOK'
  BY <1>13 DEF Crash, inputs, tree, sched, loop, round, queue, Outcomes
<1>14. CASE QueueEmpty
  BY <1>14 DEF QueueEmpty, inputs, tree, sched, loop, round, queue
<1>15. ASSUME NEW m \in Node, NEW c \in 1 .. MaxColours, AssignColour(m, c)
       PROVE  TypeOK'
  <2>1. painted' \in 0 .. Len(eligible')
    BY <1>15 DEF AssignColour, NextToColour, queue
  <2>2. colour' \in [Node -> 0 .. MaxColours]
    BY <1>15 DEF AssignColour
  <2> QED BY <1>15, <2>1, <2>2 DEF AssignColour, inputs, tree, sched, loop, queue
<1>16. ASSUME NEW m \in Node, NoColourLeft(m) PROVE TypeOK'
  <2>1. painted' \in 0 .. Len(eligible')
    BY <1>16 DEF NoColourLeft, NextToColour, queue
  <2> QED BY <1>16, <2>1 DEF NoColourLeft, inputs, tree, sched, loop, queue
<1>17. CASE CommitSlot
  <2>1. Committed \subseteq Node
    BY EligibleType DEF Committed
  <2>2. Cardinality(Committed) \in Nat
    BY <2>1, NodeFinite
  <2>3. slot' \in 0 .. T
    <3>1. slot < T
      BY <1>17 DEF CommitSlot
    <3> QED BY <1>17, <3>1 DEF CommitSlot
  <2>4. timeslot' \in [Node -> Nat \cup {None}]
    <3>1. (wp - 1) * T + slot \in Nat
      <4>1. wp \in Nat \ {0} /\ slot \in Nat /\ T \in Nat
        OBVIOUS
      <4> QED BY <4>1, TimeslotNat
    <3> QED BY <1>17, <3>1 DEF CommitSlot
  <2>5. channel' \in [Node -> (1 .. MaxColours) \cup {None}]
    BY <1>17, <2>1 DEF CommitSlot, Committed
  <2> QED BY <1>17, <2>2, <2>3, <2>4, <2>5 DEF CommitSlot, inputs, tree, queue
<1>18. CASE UNCHANGED vars
  BY <1>18 DEF vars, inputs, tree, sched, loop, round, queue
<1> QED
  BY <1>1, <1>2, <1>3, <1>4, <1>5, <1>6, <1>7, <1>8, <1>9, <1>10, <1>11,
     <1>12, <1>13, <1>14, <1>15, <1>16, <1>17, <1>18
  DEF Next, BuildTree, WorkingPeriod, DynamicSchedule

(* Type correctness: every variable of the scheduler keeps its type.       *)
THEOREM TypeCorrect == Spec => []TypeOK
<1>1. Init => TypeOK
  BY TypeInit
<1>2. TypeOK /\ [Next]_vars => TypeOK'
  BY TypeStep
<1> QED BY <1>1, <1>2, PTL DEF Spec

-----------------------------------------------------------------------------
(* What the input promises, and which actions touch what.                  *)

LEMMA NetFacts ==
  TypeOK =>
    /\ net.channels \in Nat \ {0}
    /\ \A n \in Node : /\ nbr(n) \subseteq Node
                       /\ active(n) \subseteq Slot
                       /\ active(n) # {}
                       /\ n \notin nbr(n)
    /\ \A a, b \in Node : b \in nbr(a) => a \in nbr(b)
BY NetworksAssumption DEF TypeOK, WellFormed, nbr, active

LEMMA Frames ==
  ASSUME [Next]_vars
  PROVE  /\ net' = net
         /\ LayeringStep \/ layer' = layer
         /\ \/ \E n, p \in Node : ConnectNode(n, p)
            \/ \E n \in Node : LeaveUnconnected(n)
            \/ unvisited' = unvisited
         /\ \/ \E n, p \in Node : ConnectNode(n, p)
            \/ \E m, r \in Node : ChangeParent(m, r)
            \/ UNCHANGED tree
         /\ CommitSlot \/ UNCHANGED sched
<1> USE DEF inputs, tree, sched, loop, round, queue
<1>1. CASE BuildTree
  BY <1>1 DEF BuildTree, LayeringStep, LayeringDone, ConnectNode,
              LeaveUnconnected, TreeDone
<1>2. CASE WorkingPeriod
  BY <1>2 DEF WorkingPeriod, BeginPeriod, TooManyPeriods, BeginSlot,
              EndPeriod, Finish
<1>3. CASE DynamicSchedule
  BY <1>3 DEF DynamicSchedule, SkipSender, ChangeParent, Crash, QueueEmpty,
              AssignColour, NoColourLeft, CommitSlot
<1>4. CASE UNCHANGED vars
  BY <1>4 DEF vars
<1> QED BY <1>1, <1>2, <1>3, <1>4 DEF Next

(* The program counter of each phase.                                      *)
LEMMA PcFrames ==
  ASSUME [Next]_vars
  PROVE  /\ pc' = "layering" => pc = "layering"
         /\ pc' = "tree" => pc = "tree" \/ LayeringDone
         /\ Building => Building' \/ TreeDone
         /\ Building' => Building
<1> USE DEF inputs, tree, sched, loop, round, queue, Building
<1>1. CASE BuildTree
  BY <1>1 DEF BuildTree, LayeringStep, LayeringDone, ConnectNode,
              LeaveUnconnected, TreeDone
<1>2. CASE WorkingPeriod
  BY <1>2 DEF WorkingPeriod, BeginPeriod, TooManyPeriods, BeginSlot,
              EndPeriod, Finish
<1>3. CASE DynamicSchedule
  BY <1>3 DEF DynamicSchedule, SkipSender, ChangeParent, Crash, QueueEmpty,
              AssignColour, NoColourLeft, CommitSlot
<1>4. CASE UNCHANGED vars
  BY <1>4 DEF vars
<1> QED BY <1>1, <1>2, <1>3, <1>4 DEF Next

-----------------------------------------------------------------------------
(* Layers and the initial tree.                                            *)

LEMMA LayerType ==
  TypeOK => unvisited \subseteq Node /\ \A n \in Node : layer[n] \in Int
<1> SUFFICES ASSUME TypeOK
             PROVE  unvisited \subseteq Node /\ \A n \in Node : layer[n] \in Int
  OBVIOUS
<1>1. unvisited \subseteq Node
  BY DEF TypeOK
<1>2. ASSUME NEW n \in Node PROVE layer[n] \in Int
  <2>1. layer[n] \in Nat \cup {None}
    BY DEF TypeOK
  <2> QED BY <2>1 DEF None
<1> QED BY <1>1, <1>2

LEMMA LayerStep ==
  ASSUME TypeOK, LayerInv, [Next]_vars PROVE LayerInv'
<1>1. CASE LayeringStep
  <2>1. \A n \in Node : layer[n] # None => layer'[n] = layer[n]
    BY <1>1 DEF LayeringStep, TypeOK
  <2>2. \A n \in Node : layer[n] = None /\ layer'[n] # None =>
           \E p \in nbr(n) : layer[p] = curLayer /\ layer'[n] = curLayer + 1
    BY <1>1 DEF LayeringStep, TypeOK
  <2>3. pc' = "layering" /\ net' = net
    BY <1>1 DEF LayeringStep
  <2>4. Sink \in Node
    BY SizeAssumption DEF Sink, Node
  <2>5. layer'[Sink] = 0
    BY <2>1, <2>4 DEF LayerInv, None
  <2>6. ASSUME NEW n \in Node \ {Sink}, layer'[n] # None
        PROVE  \E p \in nbr(n)' : layer'[p] # None /\ layer'[p] = layer'[n] - 1
    <3>1. CASE layer[n] # None
      <4>1. PICK p \in nbr(n) : layer[p] # None /\ layer[p] = layer[n] - 1
        BY <3>1 DEF LayerInv
      <4> QED BY <3>1, <4>1, <2>1, <2>3, NetFacts DEF nbr
    <3>2. CASE layer[n] = None
      <4>1. PICK p \in nbr(n) : layer[p] = curLayer /\ layer'[n] = curLayer + 1
        BY <3>2, <2>2, <2>6
      <4>2. layer[p] # None /\ curLayer \in Nat
        BY <4>1 DEF TypeOK, None
      <4> QED BY <4>1, <4>2, <2>1, <2>3, NetFacts DEF nbr
    <3> QED BY <3>1, <3>2
  <2> QED BY <2>3, <2>5, <2>6 DEF LayerInv
<1>2. CASE layer' = layer
  <2>1. pc' # "layering" => \A n \in Node : layer[n] # None
    <3>1. CASE pc # "layering"
      BY <3>1 DEF LayerInv
    <3>2. CASE pc = "layering" /\ pc' # "layering"
      BY <3>2 DEF Next, BuildTree, WorkingPeriod, DynamicSchedule,
           LayeringStep, LayeringDone, ConnectNode, LeaveUnconnected, TreeDone,
           BeginPeriod, TooManyPeriods, BeginSlot, EndPeriod, Finish,
           SkipSender, ChangeParent, Crash, QueueEmpty, AssignColour,
           NoColourLeft, CommitSlot, vars
    <3> QED BY <3>1, <3>2
  <2> QED BY <1>2, <2>1, Frames DEF LayerInv, nbr
<1> QED BY <1>1, <1>2, Frames

(* What the step that connects n to p knows.                               *)
LEMMA ConnectFacts ==
  ASSUME TypeOK, LayerInv, TreeInv, NEW n \in Node, NEW p \in Node,
         ConnectNode(n, p)
  PROVE  /\ n # Sink /\ parent[n] = None
         /\ p # n /\ p \in nbr(n) /\ layer[p] = layer[n] - 1
         /\ \A c \in Node : parent[c] # n
         /\ parent' = [parent EXCEPT ![n] = p]
<1>1. n \in unvisited /\ n # Sink
  BY DEF ConnectNode, NextInTree, TypeOK
<1>2. p \in nbr(n) /\ layer[p] = layer[n] - 1
  BY DEF ConnectNode, BestParents, Upper
<1>3. ASSUME NEW c \in Node, parent[c] = n PROVE FALSE
  <2>1. c \in Attached \ {Sink}
    BY <1>3 DEF Attached, TreeInv, Node, None
  <2>2. layer[n] = layer[c] - 1 /\ layer[c] <= layer[n]
    BY <1>1, <1>3, <2>1 DEF TreeInv, ConnectNode
  <2>3. layer[n] \in Int /\ layer[c] \in Int
    BY DEF TypeOK, None
  <2> QED BY <2>2, <2>3
<1> QED BY <1>1, <1>2, <1>3, NetFacts DEF ConnectNode, TreeInv

LEMMA TreeStep ==
  ASSUME TypeOK, LayerInv, TreeInv, [Next]_vars,
         \A m, r \in Node : ChangeParent(m, r) => m # Sink /\ r \in nbr(m),
         \A n \in Node : ~ LeaveUnconnected(n)
  PROVE  TreeInv'
<1> USE DEF TreeInv
<1>1. ASSUME NEW n \in Node, NEW p \in Node, ConnectNode(n, p) PROVE TreeInv'
  <2>1. /\ n # Sink /\ parent[n] = None
        /\ p # n /\ p \in nbr(n) /\ layer[p] = layer[n] - 1
        /\ parent' = [parent EXCEPT ![n] = p]
    BY <1>1, ConnectFacts
  <2>2. /\ pc = "tree" /\ pc' = pc /\ UNCHANGED <<net, layer, sched, loop>>
        /\ unvisited' = unvisited \ {n} /\ n \in unvisited
        /\ \A k \in unvisited : layer[n] <= layer[k]
    <3>1. unvisited \subseteq Node /\ \A k \in Node : layer[k] \in Int
      BY LayerType
    <3> QED BY <1>1, <3>1 DEF ConnectNode, NextInTree
  <2>3. p # None /\ \A c \in Node \ {n} : parent'[c] = parent[c]
    BY <2>1 DEF Node, None, TypeOK
  <2>4. parent'[n] = p
    BY <2>1 DEF TypeOK
  <2>5. parent'[Sink] = None
    BY <2>1, <2>3, SizeAssumption DEF Sink, Node
  <2>6. \A c \in Node \ {Sink} : c \in unvisited' <=> parent'[c] = None
    BY <2>2, <2>3, <2>4
  <2>7. ASSUME NEW c \in Attached' \ {Sink}
        PROVE  /\ layer'[parent'[c]] = layer'[c] - 1
               /\ \A k \in unvisited' : layer'[c] <= layer'[k]
               /\ parent'[c] \in nbr(c)'
    BY <2>1, <2>2, <2>3, <2>4, <2>7 DEF Attached, nbr
  <2> QED BY <2>2, <2>5, <2>6, <2>7 DEF sched, loop, Building, Scheduled
<1>2. ASSUME NEW m \in Node, NEW r \in Node, ChangeParent(m, r) PROVE TreeInv'
  <2>1. /\ m # Sink /\ r \in nbr(m) /\ r # None
        /\ parent[m] # None
        /\ parent' = [parent EXCEPT ![m] = r]
        /\ pc = "queue" /\ pc' = "queue"
        /\ net' = net /\ unvisited' = unvisited
    <3>1. m # Sink /\ r \in nbr(m)
      BY <1>2
    <3>2. r # None
      BY DEF Node, None
    <3> QED BY <1>2, <3>1, <3>2 DEF ChangeParent, CanLeave, inputs
  <2>2. \A c \in Node : parent'[c] = IF c = m THEN r ELSE parent[c]
    BY <2>1 DEF TypeOK
  <2> QED BY <2>1, <2>2, SizeAssumption DEF Building, Attached, nbr, Sink, Node
<1>3. CASE UNCHANGED <<parent, unvisited>>
  <2>1. pc' # "layering" => pc # "layering" \/ LayeringDone
    BY DEF Next, BuildTree, WorkingPeriod, DynamicSchedule,
           LayeringStep, LayeringDone, ConnectNode, LeaveUnconnected, TreeDone,
           BeginPeriod, TooManyPeriods, BeginSlot, EndPeriod, Finish,
           SkipSender, ChangeParent, Crash, QueueEmpty, AssignColour,
           NoColourLeft, CommitSlot, vars
  <2>2. Building' => UNCHANGED <<sched, loop>>
    BY DEF Building, Next, BuildTree, WorkingPeriod, DynamicSchedule,
           LayeringStep, LayeringDone, ConnectNode, LeaveUnconnected, TreeDone,
           BeginPeriod, TooManyPeriods, BeginSlot, EndPeriod, Finish,
           SkipSender, ChangeParent, Crash, QueueEmpty, AssignColour,
           NoColourLeft, CommitSlot, vars
  <2>3. pc' = "tree" => layer' = layer
    BY Frames DEF LayeringStep
  <2>4. LayeringDone => Attached = {Sink} \cap Node
    BY DEF LayeringDone, Attached
  <2>5. TreeDone => unvisited = {}
    BY DEF TreeDone
  <2> QED BY <1>3, <2>1, <2>2, <2>3, <2>4, <2>5, Frames, PcFrames
          DEF Building, Attached, Scheduled, sched, loop, nbr
<1> QED BY <1>1, <1>2, <1>3, Frames DEF tree

-----------------------------------------------------------------------------

LEMMA NodeFacts == Sink \in Node /\ None \notin Node /\ Node \subseteq Nat
BY SizeAssumption DEF Sink, None, Node

(* childrenIDs and the parent pointers agree on whom a node waits for.     *)
LEMMA WaitsForChild ==
  ASSUME TypeOK, ListsMatchParents, ScheduleInv, NEW x \in Node
  PROVE  HasUnscheduledChild(x) <=> ~ HeardAll(x)
<1>1. \A c \in Node : children[x][c] > 0 <=> parent[c] = x
  BY DEF ListsMatchParents
<1>2. \A c \in Node : timeslot[c] = None <=> channel[c] = None
  BY DEF ScheduleInv
<1> QED BY <1>1, <1>2 DEF HasUnscheduledChild, HeardAll, Unscheduled

(* Once the tree is built, every sender is attached.                       *)
LEMMA AllAttached ==
  ASSUME TypeOK, TreeInv, ~ Building
  PROVE  /\ Attached = Node
         /\ \A n \in Node \ {Sink} : parent[n] \in nbr(n) /\ parent[n] \in Node
<1>1. \A n \in Node \ {Sink} : parent[n] # None
  BY DEF TreeInv
<1>2. Attached = Node
  BY <1>1 DEF Attached
<1>3. \A n \in Node \ {Sink} : parent[n] \in nbr(n) /\ parent[n] \in Node
  BY <1>2, NetFacts DEF TreeInv
<1> QED BY <1>2, <1>3

(* An unscheduled sender's parent is unscheduled.                          *)
LEMMA ParentUnscheduled ==
  ASSUME TypeOK, ScheduleInv, NEW n \in Node, parent[n] \in Node, Unscheduled(n)
  PROVE  Unscheduled(parent[n])
BY DEF ScheduleInv, HeardAll, Scheduled, Unscheduled

(* As long as a sender is unscheduled, so is some child of the sink.       *)
LEMMA SinkWaits ==
  ASSUME TypeOK, TreeInv, ScheduleInv, AcyclicRouting, ~ Building,
         NEW x \in Node \ {Sink}, Unscheduled(x)
  PROVE  ~ HeardAll(Sink)
<1>1. Attached = Node /\ \A n \in Node \ {Sink} : parent[n] \in Node
  BY AllAttached
<1>2. x \in Pending /\ Pending \subseteq Attached \ {Sink}
  BY <1>1 DEF Pending, Scheduled, Unscheduled
<1>3. PICK n \in Pending : parent[n] \notin Pending
  BY <1>2 DEF AcyclicRouting
<1>4. n \in Node \ {Sink} /\ Unscheduled(n)
  BY <1>3 DEF Pending, Attached, Scheduled, Unscheduled
<1>5. Unscheduled(parent[n]) /\ parent[n] \in Node
  BY <1>1, <1>4, ParentUnscheduled
<1>6. parent[n] = Sink
  BY <1>1, <1>3, <1>5 DEF Pending, Scheduled, Unscheduled
<1> QED BY <1>4, <1>6 DEF HeardAll

-----------------------------------------------------------------------------
(* A sender changes its parent.                                            *)

(* What the step knows of the sender m, its old parent and its new one.    *)
LEMMA ChangeFacts ==
  ASSUME CoreInv, NEW m \in Node, NEW r \in Node, ChangeParent(m, r)
  PROVE  /\ pc = "queue" /\ ~ Building /\ m \in Queued
         /\ m # Sink /\ Unscheduled(m) /\ m \notin EligibleSet
         /\ HeardAll(m) /\ m \notin parentSet
         /\ r # m /\ r \in nbr(m) /\ Unscheduled(r) /\ r \notin EligibleSet
         /\ slot \in active(r) /\ r \notin parentSet
         /\ parent[m] \in Node \ {m} /\ parent[m] # None
         /\ parent' = [parent EXCEPT ![m] = r]
         /\ UNCHANGED <<net, layer, unvisited, pc, sched, loop>>
<1>1. /\ pc = "queue" /\ ~ Building /\ m \notin parentSet
      /\ NextInQueue(m) /\ r \in Receivers(m)
      /\ parent' = [parent EXCEPT ![m] = r]
      /\ UNCHANGED <<net, layer, unvisited, pc, sched, loop>>
  BY DEF ChangeParent, Building, BestReceivers, inputs, sched, loop
<1>2. m \in Queued
  <2>1. CASE candidates # {}
    BY <1>1, <2>1 DEF NextInQueue, Queued
  <2>2. CASE candidates = {}
    <3>1. promoted \in Seq(Node) /\ promoted # <<>> /\ m = promoted[1]
      BY <1>1, <2>2 DEF NextInQueue, CoreInv, TypeOK
    <3>2. 1 \in 1 .. Len(promoted)
      BY <3>1
    <3> QED BY <3>1, <3>2 DEF Queued
  <2> QED BY <2>1, <2>2
<1>3. /\ m # Sink /\ Unscheduled(m) /\ m \notin EligibleSet /\ HeardAll(m)
  BY <1>1, <1>2 DEF CoreInv, QueueInv
<1>4. /\ r \in nbr(m) /\ Unscheduled(r) /\ r \notin EligibleSet
      /\ slot \in active(r) /\ r \notin parentSet /\ r # m
  BY <1>1, NetFacts DEF Receivers, CoreInv
<1>5. parent[m] \in Node
  BY <1>1, <1>3, AllAttached DEF CoreInv
<1>6. parent[m] # m
  <2>1. {m} \in SUBSET (Attached \ {Sink})
    BY <1>3, <1>5, NodeFacts DEF Attached
  <2> QED BY <2>1 DEF CoreInv, AcyclicRouting
<1> QED BY <1>1, <1>2, <1>3, <1>4, <1>5, <1>6, NodeFacts

LEMMA ChangeLists ==
  ASSUME CoreInv, NEW m \in Node, NEW r \in Node, ChangeParent(m, r)
  PROVE  ListsMatchParents'
<1> DEFINE p == parent[m]
<1>1. /\ p \in Node /\ parent' = [parent EXCEPT ![m] = r]
      /\ parent \in [Node -> Node \cup {None}]
      /\ children \in [Node -> [Node -> Nat]]
  BY ChangeFacts DEF CoreInv, TypeOK
<1>2. \A x, c \in Node : children[x][c] = IF parent[c] = x THEN 1 ELSE 0
  BY DEF CoreInv, ListsMatchParents
<1>3. children' = Reparented(m, p, r) /\ children[p][m] > 0
  BY <1>1, <1>2 DEF ChangeParent
<1>4. \A x, c \in Node :
         children'[x][c] = IF c # m \/ p = r THEN children[x][c]
                           ELSE IF x = r THEN children[x][c] + 1
                           ELSE IF x = p THEN children[x][c] - 1
                           ELSE children[x][c]
  BY <1>1, <1>3, ReparentedLists
<1>5. \A c \in Node : parent'[c] = IF c = m THEN r ELSE parent[c]
  BY <1>1
<1>6. ASSUME NEW x \in Node, NEW c \in Node
      PROVE  children'[x][c] = IF parent'[c] = x THEN 1 ELSE 0
  <2> HIDE DEF p
  <2>0. p = parent[m]
    BY DEF p
  <2>1. CASE c # m
    BY <1>2, <1>4, <1>5, <2>1
  <2>2. CASE c = m /\ x = r
    BY <1>2, <1>4, <1>5, <2>0, <2>2
  <2>3. CASE c = m /\ x # r
    BY <1>2, <1>4, <1>5, <2>0, <2>3
  <2> QED BY <2>1, <2>2, <2>3
<1> QED BY <1>6 DEF ListsMatchParents

(* The parents, the scheduled nodes and the pending ones after the step.   *)
LEMMA ChangeFrame ==
  ASSUME CoreInv, NEW m \in Node, NEW r \in Node, ChangeParent(m, r)
  PROVE  /\ \A c \in Node : parent'[c] = IF c = m THEN r ELSE parent[c]
         /\ timeslot' = timeslot /\ channel' = channel
         /\ \A c \in Node : Unscheduled(c)' <=> Unscheduled(c)
         /\ Scheduled' = Scheduled /\ Attached' = Attached
         /\ Attached = Node /\ Pending' = Pending
         /\ \A c \in Node : parent[c] = m => ~ Unscheduled(c)
<1>1. \A c \in Node : parent'[c] = IF c = m THEN r ELSE parent[c]
  <2>1. parent' = [parent EXCEPT ![m] = r] /\ parent \in [Node -> Node \cup {None}]
    BY ChangeFacts DEF CoreInv, TypeOK
  <2> QED BY <2>1
<1>2. timeslot' = timeslot /\ channel' = channel
  BY ChangeFacts DEF sched
<1>3. Scheduled' = Scheduled /\ \A c \in Node : Unscheduled(c)' <=> Unscheduled(c)
  BY <1>2 DEF Scheduled, Unscheduled
<1>4. Attached = Node
  BY ChangeFacts, AllAttached DEF CoreInv
<1>5. Attached' = Attached
  BY <1>1, <1>4, ChangeFacts, NodeFacts DEF Attached
<1>6. \A c \in Node : parent[c] = m => ~ Unscheduled(c)
  BY ChangeFacts DEF HeardAll
<1> QED BY <1>1, <1>2, <1>3, <1>4, <1>5, <1>6 DEF Pending

(* A cycle through m would lead from its new parent r, along unscheduled   *)
(* nodes only, back to m; but the children of m are all scheduled.         *)
LEMMA ChangeAcyclic ==
  ASSUME CoreInv, NEW m \in Node, NEW r \in Node, ChangeParent(m, r)
  PROVE  AcyclicRouting'
<1> SUFFICES ASSUME NEW S \in SUBSET (Node \ {Sink}), S # {},
                    \A n \in S : parent'[n] \in S
             PROVE  FALSE
  BY ChangeFrame DEF AcyclicRouting
<1>1. \A c \in Node : parent'[c] = IF c = m THEN r ELSE parent[c]
  BY ChangeFrame
<1>2. CASE m \notin S
  <2>1. \A n \in S : parent[n] \in S
    BY <1>1, <1>2
  <2> QED BY <2>1, ChangeFrame DEF CoreInv, AcyclicRouting
<1>3. CASE m \in S
  <2> DEFINE R == {n \in S : Unscheduled(n) /\ n # m}
  <2>1. r \in R
    BY <1>1, <1>3, ChangeFacts
  <2>2. ASSUME NEW n \in R PROVE parent[n] \in R
    <3>1. parent[n] \in S /\ Unscheduled(n) /\ n \in Node
      BY <1>1, <2>2
    <3>2. Unscheduled(parent[n])
      BY <3>1, ParentUnscheduled DEF CoreInv
    <3>3. parent[n] # m
      BY <3>1, ChangeFrame
    <3> QED BY <3>1, <3>2, <3>3
  <2>3. R \in SUBSET (Attached \ {Sink})
    BY ChangeFrame
  <2> HIDE DEF R
  <2> QED BY <2>1, <2>2, <2>3 DEF CoreInv, AcyclicRouting
<1> QED BY <1>2, <1>3

LEMMA ChangeLeaf ==
  ASSUME CoreInv, NEW m \in Node, NEW r \in Node, ChangeParent(m, r)
  PROVE  LeafInv'
<1> SUFFICES ASSUME NEW S \in SUBSET Pending, S # {}
             PROVE  \E n \in S : \A c \in S : parent'[c] # n
  BY ChangeFrame DEF LeafInv
<1>1. \A c \in S : c \in Node /\ Unscheduled(c)
  BY DEF Pending, Attached, Scheduled, Unscheduled
<1>2. CASE m \in S
  <2>1. \A c \in S : parent'[c] # m
    BY <1>1, ChangeFrame, ChangeFacts
  <2> QED BY <1>2, <2>1
<1>3. CASE m \notin S
  <2>1. \A c \in S : parent'[c] = parent[c]
    BY <1>1, <1>3, ChangeFrame
  <2> QED BY <2>1 DEF CoreInv, LeafInv
<1> QED BY <1>2, <1>3

LEMMA ChangeSchedule ==
  ASSUME CoreInv, NEW m \in Node, NEW r \in Node, ChangeParent(m, r)
  PROVE  ScheduleInv' /\ AggregationPrecedence' /\ CollisionFree'
         /\ ReceiverListens'
<1>1. \A n \in Scheduled : n \in Node /\ n # m /\ n # r /\ parent'[n] = parent[n]
  BY ChangeFrame, ChangeFacts DEF Scheduled, Unscheduled
<1>2. /\ timeslot' = timeslot /\ channel' = channel /\ Scheduled' = Scheduled
      /\ Attached' = Attached /\ net' = net /\ Now' = Now
      /\ \A c \in Node : Unscheduled(c)' <=> Unscheduled(c)
  BY ChangeFrame, ChangeFacts DEF Now, loop
<1>3. ScheduleInv'
  <2>1. ASSUME NEW n \in Scheduled PROVE HeardAll(n)'
    <3>1. \A c \in Node : parent'[c] = n => parent[c] = n
      BY <1>1, ChangeFrame
    <3> QED BY <1>2, <3>1 DEF CoreInv, ScheduleInv, HeardAll
  <2> QED BY <1>2, <2>1 DEF CoreInv, ScheduleInv
<1>4. AggregationPrecedence'
  <2>1. \A n \in Scheduled : parent[n] \in Node
    BY <1>1, NetFacts DEF CoreInv, AggregationPrecedence
  <2> QED BY <1>1, <1>2, <2>1 DEF CoreInv, AggregationPrecedence, nbr
<1>5. CollisionFree'
  BY <1>1, <1>2 DEF CoreInv, CollisionFree, Conflict, nbr
<1>6. ReceiverListens'
  BY <1>1, <1>2 DEF CoreInv, ReceiverListens, active
<1> QED BY <1>3, <1>4, <1>5, <1>6

(* The new sender waits for nobody, and nobody sent to its receiver.       *)
LEMMA ChangeEligible ==
  ASSUME CoreInv, NEW m \in Node, NEW r \in Node, ChangeParent(m, r)
  PROVE  EligibleInv' /\ EligibleSet' = EligibleSet \cup {m}
<1>1. /\ eligible \in Seq(Node) /\ eligible' = Append(eligible, m)
      /\ parentSet' = parentSet \cup {r}
  BY DEF ChangeParent, CoreInv, TypeOK
<1>2. /\ Len(eligible) \in Nat /\ Len(eligible') = Len(eligible) + 1
      /\ eligible'[Len(eligible) + 1] = m
      /\ \A i \in 1 .. Len(eligible) : eligible'[i] = eligible[i]
  BY <1>1
<1>3. EligibleSet' = EligibleSet \cup {m}
  BY <1>2 DEF EligibleSet
<1>4. /\ parentSet = {parent[e] : e \in EligibleSet}
      /\ \A e \in EligibleSet : /\ e # Sink /\ Unscheduled(e) /\ HeardAll(e)
                                /\ e \notin parentSet
                                /\ slot \in active(parent[e])
      /\ \A i, j \in 1 .. Len(eligible) :
           i # j => /\ eligible[i] # eligible[j]
                    /\ parent[eligible[i]] # parent[eligible[j]]
  BY ChangeFacts DEF CoreInv, EligibleInv
<1>5. \A e \in EligibleSet : e \in Node /\ e # m /\ e # r /\ parent'[e] = parent[e]
  BY ChangeFacts, ChangeFrame, EligibleType DEF CoreInv
<1>6. parent'[m] = r
  BY ChangeFrame
<1>7. parentSet' = {parent'[e] : e \in EligibleSet'}
  BY <1>1, <1>3, <1>4, <1>5, <1>6
<1>8. ASSUME NEW e \in EligibleSet'
      PROVE  /\ e # Sink /\ Unscheduled(e)' /\ HeardAll(e)'
             /\ e \notin parentSet' /\ (slot \in active(parent[e]))'
  <2>1. e # Sink /\ Unscheduled(e)' /\ e \notin parentSet'
    BY <1>1, <1>3, <1>4, <1>5, ChangeFacts, ChangeFrame
  <2>2. HeardAll(e)'
    <3>1. HeardAll(e) /\ e # r
      BY <1>3, <1>4, <1>5, ChangeFacts
    <3> QED BY <3>1, ChangeFrame DEF HeardAll
  <2>3. (slot \in active(parent[e]))'
    <3>1. slot' = slot /\ net' = net
      BY ChangeFacts DEF loop
    <3> QED BY <1>3, <1>4, <1>5, <1>6, <3>1, ChangeFacts DEF active
  <2> QED BY <2>1, <2>2, <2>3
<1>9. ASSUME NEW i \in 1 .. Len(eligible'), NEW j \in 1 .. Len(eligible'), i # j
      PROVE  /\ eligible'[i] # eligible'[j]
             /\ parent'[eligible'[i]] # parent'[eligible'[j]]
  <2>1. \A k \in 1 .. Len(eligible) : /\ eligible[k] \in EligibleSet
                                      /\ parent[eligible[k]] \in parentSet
    BY <1>4 DEF EligibleSet
  <2>2. r \notin parentSet /\ m \notin EligibleSet
    BY ChangeFacts
  <2>3. CASE i \in 1 .. Len(eligible) /\ j \in 1 .. Len(eligible)
    BY <1>2, <1>4, <1>5, <1>9, <2>1, <2>3
  <2>4. CASE i \in 1 .. Len(eligible) /\ j = Len(eligible) + 1
    BY <1>2, <1>5, <1>6, <2>1, <2>2, <2>4
  <2>5. CASE j \in 1 .. Len(eligible) /\ i = Len(eligible) + 1
    BY <1>2, <1>5, <1>6, <2>1, <2>2, <2>5
  <2> QED BY <1>2, <1>9, <2>3, <2>4, <2>5
<1> QED BY <1>3, <1>7, <1>8, <1>9 DEF EligibleInv

(* What is left of the queue, and the old parent when it joins it.         *)
LEMMA ChangeQueue ==
  ASSUME CoreInv, NEW m \in Node, NEW r \in Node, ChangeParent(m, r)
  PROVE  QueueInv'
<1>0. PICK p \in Node : p = parent[m]
  BY ChangeFacts
<1> DEFINE Rest == PromotedTail
<1>1. /\ candidates' = candidates \ {m} /\ parentSet' = parentSet \cup {r}
      /\ promoted' = IF Promotes(p, r, children') THEN Append(Rest, p) ELSE Rest
      /\ NextInQueue(m) /\ pc' = "queue"
      /\ promoted \in Seq(Node)
  BY <1>0, ChangeFacts DEF ChangeParent, Remaining, CoreInv, TypeOK
<1>2. /\ \A x \in Queued : /\ x # Sink /\ Unscheduled(x) /\ x \notin EligibleSet
                           /\ x \in parentSet \/ HeardAll(x)
      /\ \A i \in 1 .. Len(promoted) :
           /\ promoted[i] \notin candidates
           /\ \A j \in 1 .. Len(promoted) : promoted[i] = promoted[j] => i = j
  BY ChangeFacts DEF CoreInv, QueueInv
<1>3. /\ Rest \in Seq(Node)
      /\ \A i \in 1 .. Len(Rest) :
           /\ Rest[i] \in Queued \ {m} /\ Rest[i] \notin candidates
           /\ \A j \in 1 .. Len(Rest) : Rest[i] = Rest[j] => i = j
  <2>1. CASE candidates # {}
    BY <1>1, <1>2, <2>1 DEF PromotedTail, NextInQueue, Queued
  <2>2. CASE candidates = {}
    <3>1. Rest = Tail(promoted) /\ promoted # <<>> /\ m = promoted[1]
      BY <1>1, <2>2 DEF PromotedTail, NextInQueue
    <3>2. /\ Rest \in Seq(Node) /\ Len(Rest) = Len(promoted) - 1
          /\ Len(promoted) \in Nat \ {0}
          /\ \A i \in 1 .. Len(Rest) : Rest[i] = promoted[i + 1]
      BY <1>1, <3>1
    <3> HIDE DEF Rest
    <3>3. ASSUME NEW i \in 1 .. Len(Rest)
          PROVE  /\ i + 1 \in 1 .. Len(promoted) /\ Rest[i] = promoted[i + 1]
                 /\ promoted[i + 1] # promoted[1]
      BY <1>2, <3>2
    <3>4. ASSUME NEW i \in 1 .. Len(Rest), NEW j \in 1 .. Len(Rest), Rest[i] = Rest[j]
          PROVE  i = j
      <4>1. i + 1 = j + 1
        BY <1>2, <3>3, <3>4
      <4> QED BY <4>1
    <3> QED BY <1>2, <2>2, <3>1, <3>2, <3>3, <3>4 DEF Queued
  <2> QED BY <2>1, <2>2
<1> HIDE DEF Rest
<1>4. \A x \in Queued : x \in Node
  <2>1. candidates \subseteq Node /\ promoted \in Seq(Node)
    BY DEF CoreInv, TypeOK
  <2> QED BY <2>1 DEF Queued
<1>5. ASSUME NEW x \in Queued, x # m
      PROVE  /\ x # Sink /\ Unscheduled(x)' /\ x \notin EligibleSet'
             /\ x \in parentSet' \/ HeardAll(x)'
  <2>1. x # Sink /\ Unscheduled(x)' /\ x \notin EligibleSet'
    BY <1>2, <1>4, <1>5, ChangeFrame, ChangeEligible
  <2>2. HeardAll(x) /\ x # r => HeardAll(x)'
    BY <1>4, ChangeFrame DEF HeardAll
  <2> QED BY <1>1, <1>2, <2>1, <2>2
<1>6. ASSUME Promotes(p, r, children')
      PROVE  /\ p # Sink /\ Unscheduled(p)' /\ p \notin EligibleSet'
             /\ HeardAll(p)' /\ p \notin Queued /\ p \in Node
  <2>1. p \in Node \ {m} /\ p # r /\ p \notin parentSet
    BY <1>0, <1>6, ChangeFacts DEF Promotes
  <2>2. ~ HeardAll(p) /\ Unscheduled(p)
    <3>1. Unscheduled(p)
      BY <1>0, <2>1, ChangeFacts, ParentUnscheduled DEF CoreInv
    <3> QED BY <1>0, <3>1, ChangeFacts DEF HeardAll
  <2>3. HeardAll(p)'
    <3>1. \A c \in Node : parent'[c] = p => children'[p][c] > 0
      BY <2>1, ChangeLists DEF ListsMatchParents
    <3> QED BY <1>6, <3>1, ChangeFrame DEF HeardAll, Promotes, Unscheduled
  <2>4. p # Sink
    <3>1. \A n \in Node \ {Sink} : parent[n] \in Node
      BY ChangeFacts, AllAttached DEF CoreInv
    <3>2. m \in Pending /\ Pending \subseteq Node \ {Sink}
      BY ChangeFacts, ChangeFrame DEF Pending, Scheduled, Unscheduled
    <3>3. PICK n \in Pending : parent'[n] \notin Pending
      BY <3>2, ChangeFrame, ChangeAcyclic DEF AcyclicRouting
    <3>4. n \in Node \ {Sink} /\ Unscheduled(n)
      BY <3>2, <3>3 DEF Pending, Scheduled, Unscheduled
    <3>5. Unscheduled(parent'[n]) /\ parent'[n] \in Node
      <4>1. CASE n = m
        BY <4>1, ChangeFrame, ChangeFacts
      <4>2. CASE n # m
        BY <3>1, <3>4, <4>2, ChangeFrame, ParentUnscheduled DEF CoreInv
      <4> QED BY <4>1, <4>2
    <3>6. parent'[n] = Sink
      BY <3>3, <3>5, ChangeFrame DEF Pending, Scheduled, Unscheduled
    <3> QED BY <2>3, <3>4, <3>6, ChangeFrame DEF HeardAll
  <2>5. p \notin EligibleSet'
    BY <2>1, <2>2, ChangeEligible, ChangeFacts DEF CoreInv, EligibleInv
  <2>6. p \notin Queued
    BY <1>2, <2>1, <2>2
  <2> QED BY <2>1, <2>2, <2>3, <2>4, <2>5, <2>6, ChangeFrame
<1>7. CASE ~ Promotes(p, r, children')
  <2>1. promoted' = Rest
    BY <1>1, <1>7
  <2>2. \A x \in Queued' : x \in Queued /\ x # m
    BY <1>1, <1>3, <2>1 DEF Queued
  <2> QED BY <1>1, <1>3, <1>5, <2>1, <2>2 DEF QueueInv
<1>8. CASE Promotes(p, r, children')
  <2>1. /\ Len(promoted') = Len(Rest) + 1 /\ Len(Rest) \in Nat
        /\ promoted'[Len(Rest) + 1] = p
        /\ \A i \in 1 .. Len(Rest) : promoted'[i] = Rest[i]
    BY <1>1, <1>3, <1>6, <1>8
  <2>2. \A x \in Queued' : x = p \/ (x \in Queued /\ x # m)
    BY <1>1, <1>3, <2>1 DEF Queued
  <2>3. p \notin candidates' /\ \A i \in 1 .. Len(Rest) : Rest[i] # p
    BY <1>1, <1>3, <1>6, <1>8 DEF Queued
  <2>4. \A i \in 1 .. Len(promoted') :
           /\ promoted'[i] \notin candidates'
           /\ \A j \in 1 .. Len(promoted') : promoted'[i] = promoted'[j] => i = j
    BY <1>1, <1>3, <2>1, <2>3
  <2> QED BY <1>5, <1>6, <1>8, <2>2, <2>4 DEF QueueInv
<1> QED BY <1>7, <1>8

-----------------------------------------------------------------------------
(* A node joins the tree.                                                  *)

LEMMA ConnectFrame ==
  ASSUME CoreInv, NEW n \in Node, NEW p \in Node, ConnectNode(n, p)
  PROVE  /\ \A c \in Node : parent'[c] = IF c = n THEN p ELSE parent[c]
         /\ n # Sink /\ parent[n] = None /\ p # n
         /\ \A c \in Node : parent[c] # n
         /\ UNCHANGED <<net, pc, sched, loop, round>>
         /\ Scheduled = {} /\ Scheduled' = {}
         /\ n \notin Attached /\ Attached' = Attached \cup {n}
         /\ children' = [children EXCEPT ![p][n] = @ + 1]
<1>1. /\ n # Sink /\ parent[n] = None /\ p # n
      /\ \A c \in Node : parent[c] # n
      /\ parent' = [parent EXCEPT ![n] = p]
      /\ parent \in [Node -> Node \cup {None}]
  BY ConnectFacts DEF CoreInv, TypeOK
<1>2. /\ pc = "tree" /\ UNCHANGED <<net, pc, sched, loop, round>>
      /\ children' = [children EXCEPT ![p][n] = @ + 1]
  BY DEF ConnectNode
<1>3. \A c \in Node : parent'[c] = IF c = n THEN p ELSE parent[c]
  BY <1>1
<1>4. Scheduled = {} /\ Scheduled' = {}
  BY <1>2 DEF CoreInv, TreeInv, Building, Scheduled, sched
<1>5. n \notin Attached /\ Attached' = Attached \cup {n}
  BY <1>1, <1>3, NodeFacts DEF Attached
<1> QED BY <1>1, <1>2, <1>3, <1>4, <1>5

LEMMA ListsStep == ASSUME CoreInv, [Next]_vars PROVE ListsMatchParents'
<1>1. ASSUME NEW n \in Node, NEW p \in Node, ConnectNode(n, p)
      PROVE  ListsMatchParents'
  <2>1. \A x, c \in Node :
           children'[x][c] = IF x = p /\ c = n THEN children[x][c] + 1
                                              ELSE children[x][c]
    <3>1. /\ children' = [children EXCEPT ![p][n] = @ + 1]
          /\ children \in [Node -> [Node -> Nat]]
      BY <1>1, ConnectFrame DEF CoreInv, TypeOK
    <3> QED BY <3>1
  <2>2. \A x \in Node : children[x][n] = 0
    <3>1. \A x \in Node : parent[n] # x
      BY <1>1, ConnectFrame, NodeFacts
    <3> QED BY <3>1 DEF CoreInv, ListsMatchParents
  <2>3. \A c \in Node : parent'[c] = IF c = n THEN p ELSE parent[c]
    BY <1>1, ConnectFrame
  <2>4. \A x, c \in Node : children[x][c] = IF parent[c] = x THEN 1 ELSE 0
    BY DEF CoreInv, ListsMatchParents
  <2>5. ASSUME NEW x \in Node, NEW c \in Node
        PROVE  children'[x][c] = IF parent'[c] = x THEN 1 ELSE 0
    <3>1. CASE c = n
      BY <2>1, <2>2, <2>3, <3>1
    <3>2. CASE c # n
      BY <2>1, <2>3, <2>4, <3>2
    <3> QED BY <3>1, <3>2
  <2> QED BY <2>5 DEF ListsMatchParents
<1>2. CASE UNCHANGED tree
  BY <1>2 DEF CoreInv, ListsMatchParents, tree
<1> QED BY <1>1, <1>2, ChangeLists, Frames

LEMMA AcyclicStep == ASSUME CoreInv, [Next]_vars PROVE AcyclicRouting'
<1>1. ASSUME NEW n \in Node, NEW p \in Node, ConnectNode(n, p)
      PROVE  AcyclicRouting'
  <2> SUFFICES ASSUME NEW S \in SUBSET (Attached' \ {Sink}), S # {},
                      \A c \in S : parent'[c] \in S
               PROVE  FALSE
    BY DEF AcyclicRouting
  <2>1. /\ \A c \in Node : parent'[c] = IF c = n THEN p ELSE parent[c]
        /\ \A c \in Node : parent[c] # n
        /\ n \notin Attached /\ Attached' = Attached \cup {n} /\ p # n
    BY <1>1, ConnectFrame
  <2> DEFINE R == S \ {n}
  <2>2. R \in SUBSET (Attached \ {Sink}) /\ Attached \subseteq Node
    BY <2>1 DEF Attached
  <2>3. \A c \in R : parent[c] \in R
    BY <2>1, <2>2
  <2>4. R # {}
    BY <2>1, <2>2
  <2> HIDE DEF R
  <2> QED BY <2>2, <2>3, <2>4 DEF CoreInv, AcyclicRouting
<1>2. CASE UNCHANGED tree
  BY <1>2 DEF CoreInv, AcyclicRouting, Attached, tree
<1> QED BY <1>1, <1>2, ChangeAcyclic, Frames

-----------------------------------------------------------------------------
(* A slot is committed.                                                    *)

LEMMA CommitFacts ==
  ASSUME CoreInv, CommitSlot
  PROVE  /\ pc = "colouring" /\ pc' = "slot" /\ ~ Building
         /\ Committed \subseteq EligibleSet /\ Committed \subseteq Node
         /\ \A n \in Committed :
              /\ n # Sink /\ Unscheduled(n) /\ HeardAll(n)
              /\ n \notin parentSet /\ parent[n] \in parentSet
              /\ parent[n] \in Node /\ slot \in active(parent[n])
              /\ timeslot'[n] = Now /\ timeslot'[n] # None
              /\ channel'[n] = colour[n] /\ channel'[n] # None
              /\ colour[n] \in 1 .. net.channels
         /\ \A n \in Node \ Committed : /\ timeslot'[n] = timeslot[n]
                                        /\ channel'[n] = channel[n]
         /\ Scheduled' = Scheduled \cup Committed
         /\ Scheduled \cap Committed = {}
         /\ parentSet \cap Committed = {}
         /\ UNCHANGED <<net, tree, wp, before, eligible>>
         /\ slot' = slot + 1 /\ slot < T /\ Now \in Nat /\ Now' = Now + 1
         /\ completed' = completed + Cardinality(Committed)
         /\ Attached' = Attached /\ Attached = Node
<1>1. /\ pc = "colouring" /\ pc' = "slot" /\ ~ Building
      /\ UNCHANGED <<net, tree, wp, before, eligible>>
      /\ slot' = slot + 1
      /\ completed' = completed + Cardinality(Committed)
  BY DEF CommitSlot, Building, inputs, queue
<1>2. Committed \subseteq EligibleSet /\ Committed \subseteq Node
  BY EligibleType DEF Committed, CoreInv
<1>3. slot < T /\ slot \in Nat /\ wp \in Nat \ {0} /\ T \in Nat
  BY <1>1, SizeAssumption DEF CoreInv, TypeOK
<1>4. (wp - 1) * T + slot \in Nat
  BY <1>3, TimeslotNat
<1>5. Now = (wp - 1) * T + slot
  BY <1>1 DEF Now
<1>6. Now' = Now + 1
  <2>1. Now' = (wp - 1) * T + (slot + 1) /\ (wp - 1) * T \in Int
    BY <1>1, <1>3 DEF Now
  <2> QED BY <1>3, <1>5, <2>1
<1>7. /\ parentSet = {parent[e] : e \in EligibleSet}
      /\ \A e \in EligibleSet : /\ e # Sink /\ Unscheduled(e) /\ HeardAll(e)
                                /\ e \notin parentSet
                                /\ slot \in active(parent[e])
  BY <1>1 DEF CoreInv, EligibleInv
<1>8. Attached = Node /\ \A n \in Node \ {Sink} : parent[n] \in Node
  BY <1>1, AllAttached DEF CoreInv
<1>9. Attached' = Attached
  BY <1>1 DEF Attached, tree
<1>10. \A n \in Committed : /\ timeslot'[n] = Now /\ timeslot'[n] # None
                            /\ channel'[n] = colour[n] /\ channel'[n] # None
                            /\ colour[n] \in 1 .. net.channels
  <2>1. \A n \in Committed : timeslot'[n] = Now /\ channel'[n] = colour[n]
    BY <1>2, <1>5 DEF CommitSlot
  <2>2. \A n \in Committed : colour[n] \in 1 .. net.channels
    BY DEF Committed
  <2>3. net.channels \in Nat
    BY NetFacts DEF CoreInv
  <2> QED BY <1>4, <1>5, <2>1, <2>2, <2>3 DEF None
<1>11. \A n \in Node \ Committed : /\ timeslot'[n] = timeslot[n]
                                  /\ channel'[n] = channel[n]
  BY DEF CommitSlot
<1>12. Scheduled' = Scheduled \cup Committed /\ Scheduled \cap Committed = {}
  BY <1>2, <1>7, <1>10, <1>11 DEF Scheduled, Unscheduled
<1> QED BY <1>1, <1>2, <1>3, <1>4, <1>5, <1>6, <1>7, <1>8, <1>9, <1>10, <1>11,
           <1>12

LEMMA LeafStep == ASSUME CoreInv, [Next]_vars PROVE LeafInv'
<1>1. ASSUME NEW n \in Node, NEW p \in Node, ConnectNode(n, p) PROVE LeafInv'
  <2> SUFFICES ASSUME NEW S \in SUBSET (Attached' \ ({Sink} \cup Scheduled')), S # {}
               PROVE  \E x \in S : \A c \in S : parent'[c] # x
    BY DEF LeafInv, Pending
  <2>1. /\ \A c \in Node : parent'[c] = IF c = n THEN p ELSE parent[c]
        /\ \A c \in Node : parent[c] # n
        /\ Attached' = Attached \cup {n} /\ p # n
        /\ Scheduled = {} /\ Attached \subseteq Node
    BY <1>1, ConnectFrame DEF Attached
  <2>2. CASE n \in S
    BY <2>1, <2>2
  <2>3. CASE n \notin S
    <3>1. S \in SUBSET Pending /\ \A c \in S : parent'[c] = parent[c]
      BY <2>1, <2>3 DEF Pending
    <3> QED BY <3>1 DEF CoreInv, LeafInv
  <2> QED BY <2>2, <2>3
<1>2. CASE CommitSlot
  <2>1. Pending' \subseteq Pending /\ parent' = parent
    BY <1>2, CommitFacts DEF Pending, tree
  <2> QED BY <2>1 DEF CoreInv, LeafInv
<1>3. CASE UNCHANGED tree /\ UNCHANGED sched
  BY <1>3 DEF CoreInv, LeafInv, Pending, Attached, Scheduled, tree, sched
<1> QED BY <1>1, <1>2, <1>3, ChangeLeaf, Frames

-----------------------------------------------------------------------------
(* Scheduled nodes.                                                        *)

(* Time does not run backwards once there are timeslots.                   *)
LEMMA NowStep ==
  ASSUME CoreInv, [Next]_vars, ~ Building
  PROVE  Now \in Int /\ Now' \in Int /\ Now <= Now'
<1> USE DEF inputs, tree, sched, loop, round, queue
<1>1. /\ wp \in Nat \ {0} /\ slot \in 0 .. T /\ T \in Nat
      /\ (wp - 1) * T \in Nat /\ wp * T = (wp - 1) * T + T
  <2>1. wp \in Nat \ {0} /\ slot \in 0 .. T /\ T \in Nat
    BY SizeAssumption DEF CoreInv, TypeOK
  <2>2. (wp - 1) * T \in Nat
    <3>1. \A a, b \in Nat : a * b \in Nat
      OBVIOUS
    <3> QED BY <2>1, <3>1
  <2>3. wp * T = (wp - 1) * T + T
    <3>1. \A a \in Nat \ {0}, b \in Nat : a * b = (a - 1) * b + b
      OBVIOUS
    <3> QED BY <2>1, <3>1
  <2> QED BY <2>1, <2>2, <2>3
<1>2. CASE UNCHANGED <<wp, slot>> /\ (pc' = "period" => pc = "period")
  BY <1>1, <1>2 DEF Now
<1>3. CASE BeginPeriod
  <2>1. Now = (wp - 1) * T /\ Now' = (wp - 1) * T + 0
    BY <1>1, <1>3 DEF BeginPeriod, Now
  <2> QED BY <1>1, <2>1
<1>4. CASE EndPeriod
  <2>1. Now = (wp - 1) * T + T /\ slot' = T
    BY <1>1, <1>4 DEF EndPeriod, Now
  <2>2. CASE pc' = "period" /\ wp' = wp + 1
    <3>1. Now' = wp * T
      BY <1>1, <2>2 DEF Now
    <3> QED BY <1>1, <2>1, <3>1
  <2>3. CASE pc' # "period" /\ wp' = wp
    <3>1. Now' = (wp - 1) * T + T
      BY <2>1, <2>3 DEF Now
    <3> QED BY <1>1, <2>1, <3>1
  <2> QED BY <1>4, <2>2, <2>3 DEF EndPeriod
<1>5. CASE CommitSlot
  BY <1>5, CommitFacts
<1>6. CASE BuildTree
  BY <1>6 DEF BuildTree, Building, LayeringStep, LayeringDone, ConnectNode,
              LeaveUnconnected, TreeDone
<1>7. CASE TooManyPeriods \/ BeginSlot \/ Finish
  BY <1>2, <1>7 DEF TooManyPeriods, BeginSlot, Finish
<1>8. CASE DynamicSchedule /\ ~ CommitSlot
  BY <1>2, <1>8 DEF DynamicSchedule, SkipSender, ChangeParent, Crash, QueueEmpty,
                    AssignColour, NoColourLeft
<1>9. CASE UNCHANGED vars
  BY <1>2, <1>9 DEF vars
<1> QED BY <1>3, <1>4, <1>5, <1>6, <1>7, <1>8, <1>9 DEF Next, WorkingPeriod

(* While the tree is built nobody is scheduled, and then nobody is yet.    *)
LEMMA BuildingUnscheduled ==
  ASSUME CoreInv, [Next]_vars, Building
  PROVE  /\ Scheduled = {} /\ Scheduled' = {}
         /\ timeslot' = timeslot /\ channel' = channel /\ completed' = completed
<1>1. Scheduled = {}
  BY DEF CoreInv, TreeInv
<1>2. timeslot' = timeslot /\ channel' = channel /\ completed' = completed
  BY Frames DEF CommitSlot, Building, sched
<1> QED BY <1>1, <1>2 DEF Scheduled

LEMMA ScheduleStep ==
  ASSUME CoreInv, [Next]_vars
  PROVE  ScheduleInv' /\ AggregationPrecedence' /\ CollisionFree'
<1>0. ScheduleInv /\ AggregationPrecedence /\ CollisionFree
  BY DEF CoreInv
<1>1. CASE Building
  <2>1. Scheduled = {} /\ Scheduled' = {} /\ timeslot' = timeslot /\ channel' = channel
    BY <1>1, BuildingUnscheduled
  <2> QED BY <1>0, <2>1 DEF ScheduleInv, AggregationPrecedence, CollisionFree
<1>2. CASE CommitSlot
  <2>1. ASSUME NEW n \in Node, HeardAll(n) PROVE HeardAll(n)'
    BY <1>2, <2>1, CommitFacts DEF HeardAll, Unscheduled, tree
  <2>2. ASSUME NEW n \in Scheduled
        PROVE  /\ n \notin Committed /\ timeslot'[n] = timeslot[n] /\ HeardAll(n)
               /\ timeslot[n] < Now /\ timeslot[n] \in Nat
    <3>1. n \in Node /\ n \notin Committed /\ timeslot[n] # None
      BY <1>2, CommitFacts DEF Scheduled
    <3> QED BY <1>0, <1>2, <3>1, CommitFacts DEF ScheduleInv, CoreInv, TypeOK
  <2>3. ScheduleInv'
    <3>1. \A n \in Node : timeslot'[n] = None <=> channel'[n] = None
      BY <1>0, <1>2, CommitFacts DEF ScheduleInv
    <3>2. Sink \notin Scheduled' /\ Scheduled' \subseteq Attached'
      BY <1>0, <1>2, CommitFacts DEF ScheduleInv
    <3>3. ASSUME NEW n \in Scheduled' PROVE HeardAll(n)' /\ timeslot'[n] < Now'
      <4>1. CASE n \in Scheduled
        BY <1>2, <2>1, <2>2, <4>1, CommitFacts DEF Scheduled
      <4>2. CASE n \in Committed
        BY <1>2, <2>1, <4>2, CommitFacts
      <4> QED BY <1>2, <3>3, <4>1, <4>2, CommitFacts
    <3> QED BY <3>1, <3>2, <3>3 DEF ScheduleInv
  <2>4. AggregationPrecedence'
    <3> SUFFICES ASSUME NEW n \in Scheduled'
                 PROVE  /\ parent[n] \in nbr(n)
                        /\ timeslot'[parent[n]] = None
                             \/ timeslot'[n] < timeslot'[parent[n]]
      BY <1>2, CommitFacts DEF AggregationPrecedence, Unscheduled, nbr, tree
    <3>1. n \in Node \ {Sink} /\ n \in Scheduled \cup Committed
      BY <1>0, <1>2, CommitFacts DEF ScheduleInv, Scheduled
    <3>2. parent[n] \in nbr(n) /\ parent[n] \in Node
      BY <1>2, <3>1, CommitFacts, AllAttached DEF CoreInv
    <3>3. CASE n \in Committed
      <4>1. parent[n] \notin Committed /\ Unscheduled(parent[n])
        BY <1>2, <3>2, <3>3, CommitFacts, ParentUnscheduled DEF CoreInv
      <4> QED BY <1>2, <3>2, <4>1, CommitFacts DEF Unscheduled
    <3>4. CASE n \in Scheduled
      <4>1. timeslot'[n] = timeslot[n] /\ timeslot[n] < Now
        BY <2>2, <3>4
      <4>2. CASE parent[n] \in Committed
        BY <1>2, <3>2, <4>1, <4>2, CommitFacts
      <4>3. CASE parent[n] \notin Committed
        BY <1>0, <1>2, <3>2, <3>4, <4>1, <4>3, CommitFacts
           DEF AggregationPrecedence, Unscheduled
      <4> QED BY <4>2, <4>3
    <3> QED BY <3>1, <3>2, <3>3, <3>4
  <2>5. CollisionFree'
    <3> SUFFICES ASSUME NEW a \in Scheduled', NEW b \in Scheduled', a # b,
                        timeslot'[a] = timeslot'[b]
                 PROVE  /\ parent[a] # parent[b] /\ parent[a] # b
                        /\ channel'[a] = channel'[b] => ~ Conflict(a, b)
      BY <1>2, CommitFacts DEF CollisionFree, Conflict, nbr, tree
    <3>1. a \in Scheduled \cup Committed /\ b \in Scheduled \cup Committed
      BY <1>2, CommitFacts
    <3>2. CASE a \in Scheduled /\ b \in Scheduled
      <4>1. channel'[a] = channel[a] /\ channel'[b] = channel[b]
        BY <1>2, <2>2, <3>2, CommitFacts DEF Scheduled
      <4> QED BY <1>0, <2>2, <3>2, <4>1 DEF CollisionFree
    <3>3. CASE a \in Committed /\ b \in Committed
      <4>1. /\ a \in EligibleSet /\ b \in EligibleSet
            /\ parent[a] \in parentSet /\ b \notin parentSet
            /\ channel'[a] = colour[a] /\ channel'[b] = colour[b]
            /\ colour[a] # 0
        BY <1>2, <3>3, CommitFacts
      <4>2. parent[a] # parent[b]
        <5>1. PICK i \in 1 .. Len(eligible) : eligible[i] = a
          BY <4>1 DEF EligibleSet
        <5>2. PICK j \in 1 .. Len(eligible) : eligible[j] = b
          BY <4>1 DEF EligibleSet
        <5> QED BY <1>2, <5>1, <5>2, CommitFacts DEF CoreInv, EligibleInv
      <4>3. colour[a] = colour[b] => ~ Conflict(a, b)
        BY <1>2, <4>1, CommitFacts DEF CoreInv, ColourInv
      <4> QED BY <4>1, <4>2, <4>3
    <3>4. CASE a \in Scheduled /\ b \in Committed
      BY <1>2, <2>2, <3>4, CommitFacts
    <3>5. CASE a \in Committed /\ b \in Scheduled
      BY <1>2, <2>2, <3>5, CommitFacts
    <3> QED BY <3>1, <3>2, <3>3, <3>4, <3>5
  <2> QED BY <2>3, <2>4, <2>5
<1>3. CASE ~ Building /\ UNCHANGED tree /\ UNCHANGED sched
  <2>1. /\ timeslot' = timeslot /\ channel' = channel /\ parent' = parent
        /\ net' = net /\ Now \in Int /\ Now' \in Int /\ Now <= Now'
        /\ \A n \in Scheduled : timeslot[n] \in Int
    <3>1. \A n \in Node : timeslot[n] \in Int
      <4>1. timeslot \in [Node -> Nat \cup {None}] /\ None \in Int
        BY DEF CoreInv, TypeOK, None
      <4> QED BY <4>1
    <3> QED BY <1>3, <3>1, NowStep, Frames DEF tree, sched, Scheduled
  <2>2. ScheduleInv'
    <3>1. \A n \in Scheduled : timeslot[n] < Now'
      BY <1>0, <2>1 DEF ScheduleInv
    <3> QED BY <1>0, <2>1, <3>1
            DEF ScheduleInv, Scheduled, Attached, HeardAll, Unscheduled
  <2>3. AggregationPrecedence'
    BY <1>0, <2>1 DEF AggregationPrecedence, Scheduled, Unscheduled, nbr
  <2>4. CollisionFree'
    BY <1>0, <2>1 DEF CollisionFree, Scheduled, Conflict, nbr
  <2> QED BY <2>2, <2>3, <2>4
<1>4. ~ Building => ~ \E n, p \in Node : ConnectNode(n, p)
  BY DEF ConnectNode, Building
<1> QED BY <1>1, <1>2, <1>3, <1>4, ChangeSchedule, Frames

-----------------------------------------------------------------------------
(* The queue, the eligible senders and the colour buckets.                 *)

(* The steps within a slot.                                                *)
LEMMA RoundFrames ==
  ASSUME [Next]_vars, pc' \in {"queue", "colouring"}
  PROVE  \/ BeginSlot
         \/ \E m \in Node : SkipSender(m)
         \/ \E m, r \in Node : ChangeParent(m, r)
         \/ QueueEmpty
         \/ \E m \in Node, c \in 1 .. MaxColours : AssignColour(m, c)
         \/ \E m \in Node : NoColourLeft(m)
         \/ UNCHANGED vars
<1>1. CASE BuildTree
  BY <1>1 DEF BuildTree, LayeringStep, LayeringDone, ConnectNode,
              LeaveUnconnected, TreeDone
<1>2. CASE WorkingPeriod
  BY <1>2 DEF WorkingPeriod, BeginPeriod, TooManyPeriods, EndPeriod, Finish
<1>3. CASE DynamicSchedule
  BY <1>3 DEF DynamicSchedule, Crash, CommitSlot
<1> QED BY <1>1, <1>2, <1>3 DEF Next

(* The candidates of a slot wait for nobody; the sink is none of them.     *)
LEMMA CandidateFacts ==
  ASSUME CoreInv, ~ Building, NEW s, NEW x \in CandidateSenders(s)
  PROVE  x \in Node \ {Sink} /\ Unscheduled(x) /\ HeardAll(x)
<1>1. x \in Node /\ Unscheduled(x) /\ HeardAll(x)
  BY WaitsForChild DEF CandidateSenders, CoreInv
<1>2. PICK y \in nbr(x) : Unscheduled(y)
  BY DEF CandidateSenders
<1>3. y \in Node /\ y # x
  BY <1>1, <1>2, NetFacts DEF CoreInv
<1>4. x # Sink
  BY <1>1, <1>2, <1>3, SinkWaits DEF CoreInv
<1> QED BY <1>1, <1>4

LEMMA BeginFacts ==
  ASSUME CoreInv, BeginSlot
  PROVE  /\ pc = "slot" /\ ~ Building /\ pc' = "queue" /\ slot < T
         /\ candidates' = CandidateSenders(slot) /\ promoted' = <<>>
         /\ eligible' = <<>> /\ EligibleSet' = {} /\ parentSet' = {}
         /\ painted' = 0 /\ \A n \in Node : colour'[n] = 0
         /\ UNCHANGED <<net, layer, unvisited, parent, children, sched, loop>>
<1>1. EligibleSet' = {}
  BY DEF BeginSlot, EligibleSet
<1> QED BY <1>1 DEF BeginSlot, Building, inputs, tree

LEMMA EligibleStep == ASSUME CoreInv, [Next]_vars PROVE EligibleInv'
<1> SUFFICES ASSUME pc' \in {"queue", "colouring"} PROVE EligibleInv'
  BY DEF EligibleInv
<1>1. CASE BeginSlot
  BY <1>1, BeginFacts DEF EligibleInv
<1>2. CASE /\ pc \in {"queue", "colouring"}
           /\ UNCHANGED <<net, tree, sched, loop, eligible, parentSet>>
  BY <1>2 DEF CoreInv, EligibleInv, EligibleSet, Unscheduled, HeardAll, active,
              tree, sched, loop
<1>3. ASSUME NEW m \in Node, SkipSender(m) PROVE EligibleInv'
  BY <1>2, <1>3 DEF SkipSender, inputs
<1>4. CASE QueueEmpty
  BY <1>2, <1>4 DEF QueueEmpty, inputs, round, queue
<1>5. ASSUME NEW m \in Node, NEW c \in 1 .. MaxColours, AssignColour(m, c)
      PROVE  EligibleInv'
  BY <1>2, <1>5 DEF AssignColour, inputs, queue
<1>6. ASSUME NEW m \in Node, NoColourLeft(m) PROVE EligibleInv'
  BY <1>2, <1>6 DEF NoColourLeft, inputs, queue
<1>7. CASE UNCHANGED vars
  BY <1>2, <1>7 DEF vars, inputs, round, queue
<1> QED BY <1>1, <1>3, <1>4, <1>5, <1>6, <1>7, RoundFrames, ChangeEligible

LEMMA QueueStep == ASSUME CoreInv, [Next]_vars PROVE QueueInv'
<1> SUFFICES ASSUME pc' = "queue" PROVE QueueInv'
  BY DEF QueueInv
<1>1. CASE BeginSlot
  <2>1. Queued' = CandidateSenders(slot)
    BY <1>1, BeginFacts DEF Queued
  <2>2. \A x \in CandidateSenders(slot) :
           x # Sink /\ Unscheduled(x)' /\ HeardAll(x)'
    BY <1>1, BeginFacts, CandidateFacts DEF Unscheduled, HeardAll, sched
  <2> QED BY <1>1, <2>1, <2>2, BeginFacts DEF QueueInv
<1>2. ASSUME NEW m \in Node, SkipSender(m) PROVE QueueInv'
  <2>1. /\ pc = "queue" /\ NextInQueue(m)
        /\ candidates' = candidates \ {m} /\ promoted' = PromotedTail
        /\ UNCHANGED <<tree, sched, eligible, parentSet>>
        /\ promoted \in Seq(Node)
    BY <1>2 DEF SkipSender, Remaining, CoreInv, TypeOK
  <2>2. /\ \A x \in Queued : /\ x # Sink /\ Unscheduled(x) /\ x \notin EligibleSet
                             /\ x \in parentSet \/ HeardAll(x)
        /\ \A i \in 1 .. Len(promoted) :
             /\ promoted[i] \notin candidates
             /\ \A j \in 1 .. Len(promoted) : promoted[i] = promoted[j] => i = j
    BY <2>1 DEF CoreInv, QueueInv
  <2>3. \A i \in 1 .. Len(promoted') :
           /\ promoted'[i] \in Queued /\ promoted'[i] \notin candidates'
           /\ \A j \in 1 .. Len(promoted') : promoted'[i] = promoted'[j] => i = j
    <3>1. CASE candidates # {}
      BY <2>1, <2>2, <3>1 DEF PromotedTail, Queued
    <3>2. CASE candidates = {}
      <4>1. promoted' = Tail(promoted) /\ promoted # <<>>
        BY <2>1, <3>2 DEF PromotedTail, NextInQueue
      <4>2. /\ Len(promoted) \in Nat /\ Len(promoted') = Len(promoted) - 1
            /\ \A i \in 1 .. Len(promoted') : promoted'[i] = promoted[i + 1]
        BY <2>1, <4>1
      <4>3. \A i \in 1 .. Len(promoted') :
               i + 1 \in 1 .. Len(promoted) /\ promoted'[i] \in Queued
        BY <4>2 DEF Queued
      <4>4. ASSUME NEW i \in 1 .. Len(promoted'), NEW j \in 1 .. Len(promoted'),
                   promoted'[i] = promoted'[j]
            PROVE  i = j
        <5>1. i + 1 = j + 1
          BY <2>2, <4>2, <4>3, <4>4
        <5> QED BY <5>1
      <4> QED BY <2>1, <3>2, <4>3, <4>4
    <3> QED BY <3>1, <3>2
  <2>4. \A x \in Queued' : x \in Queued
    BY <2>1, <2>3 DEF Queued
  <2> QED BY <2>1, <2>2, <2>3, <2>4
          DEF QueueInv, EligibleSet, Unscheduled, HeardAll, tree, sched
<1>3. CASE UNCHANGED vars
  BY <1>3 DEF CoreInv, QueueInv, Queued, EligibleSet, Unscheduled, HeardAll, vars,
              inputs, tree, sched, loop, round, queue
<1>4. ~ QueueEmpty /\ \A m \in Node : ~ NoColourLeft(m)
       /\ \A c \in 1 .. MaxColours : ~ AssignColour(m, c)
  BY DEF QueueEmpty, NoColourLeft, AssignColour
<1> QED BY <1>1, <1>2, <1>3, <1>4, RoundFrames, ChangeQueue

LEMMA ColourStep == ASSUME CoreInv, [Next]_vars PROVE ColourInv'
<1> SUFFICES ASSUME pc' \in {"queue", "colouring"} PROVE ColourInv'
  BY DEF ColourInv
<1>0. /\ eligible \in Seq(Node) /\ Len(eligible) \in Nat
      /\ colour \in [Node -> 0 .. MaxColours] /\ painted \in 0 .. Len(eligible)
      /\ MaxColours \in Nat \ {0}
  BY SizeAssumption DEF CoreInv, TypeOK
<1>1. CASE BeginSlot
  <2>1. Len(eligible') = 0
    BY <1>1, BeginFacts
  <2> QED BY <1>1, <2>1, BeginFacts DEF ColourInv
<1>2. ASSUME pc = "queue" \/ pc' = pc,
             pc \in {"queue", "colouring"},
             UNCHANGED <<net, parent, eligible, colour, painted>>
      PROVE  ColourInv'
  BY <1>2 DEF CoreInv, ColourInv, EligibleSet, Conflict, nbr
<1>3. ASSUME NEW m \in Node, SkipSender(m) PROVE ColourInv'
  BY <1>2, <1>3 DEF SkipSender, inputs, tree
<1>4. CASE QueueEmpty
  BY <1>2, <1>4 DEF QueueEmpty, inputs, tree, round, queue
<1>5. CASE UNCHANGED vars
  BY <1>2, <1>5 DEF vars, inputs, tree, round, queue
<1>6. ASSUME NEW m \in Node, NEW r \in Node, ChangeParent(m, r) PROVE ColourInv'
  <2>1. /\ painted = 0 /\ pc' = "queue" /\ \A n \in Node : colour[n] # 0 => n \in EligibleSet
        /\ \A i \in 1 .. Len(eligible) : colour[eligible[i]] = 0
    <3>1. pc = "queue" /\ pc' = "queue"
      BY <1>6, ChangeFacts
    <3>2. painted = 0 /\ \A n \in Node : colour[n] # 0 => n \in EligibleSet
      BY <3>1 DEF CoreInv, ColourInv
    <3>3. \A i \in 1 .. Len(eligible) : colour[eligible[i]] = 0
      BY <3>1, <3>2 DEF CoreInv, ColourInv
    <3> QED BY <3>1, <3>2, <3>3
  <2>2. \A n \in Node : colour[n] = 0
    BY <2>1 DEF EligibleSet
  <2>3. colour' = colour /\ painted' = painted /\ EligibleSet' \subseteq Node
        /\ \A i \in 1 .. Len(eligible') : eligible'[i] \in Node
    <3>1. EligibleSet' = EligibleSet \cup {m}
      BY <1>6, ChangeEligible
    <3>2. EligibleSet' \subseteq Node
      BY <3>1, EligibleType DEF CoreInv
    <3> QED BY <1>6, <3>2 DEF ChangeParent, EligibleSet
  <2> QED BY <2>1, <2>2, <2>3 DEF ColourInv
<1>7. ASSUME NEW m \in Node, NextToColour(m), pc = "colouring"
      PROVE  /\ painted + 1 \in 1 .. Len(eligible) /\ m = eligible[painted + 1]
             /\ m \in EligibleSet
             /\ \A i \in 1 .. Len(eligible) : i # painted + 1 => eligible[i] # m
             /\ painted = 0 => 1 \in FreeColours(m)
  <2>1. painted + 1 \in 1 .. Len(eligible) /\ m = eligible[painted + 1]
    BY <1>0, <1>7 DEF NextToColour
  <2>2. \A i \in 1 .. Len(eligible) : i # painted + 1 => eligible[i] # m
    BY <1>7, <2>1 DEF CoreInv, EligibleInv
  <2>3. ASSUME painted = 0 PROVE 1 \in FreeColours(m)
    <3>1. \A k \in EligibleSet : colour[k] = 0
      BY <1>7, <2>3 DEF CoreInv, ColourInv, EligibleSet
    <3> QED BY <1>0, <3>1 DEF FreeColours
  <2> QED BY <2>1, <2>2, <2>3 DEF EligibleSet
<1>8. ASSUME NEW m \in Node, NEW c \in 1 .. MaxColours, AssignColour(m, c)
      PROVE  ColourInv'
  <2>1. /\ pc = "colouring" /\ pc' = "colouring" /\ NextToColour(m)
        /\ c \in FreeColours(m) /\ \A d \in FreeColours(m) : c <= d
        /\ painted' = painted + 1
        /\ \A n \in Node : colour'[n] = IF n = m THEN c ELSE colour[n]
        /\ UNCHANGED <<net, parent, eligible>> /\ EligibleSet' = EligibleSet
    BY <1>0, <1>8 DEF AssignColour, inputs, tree, queue, EligibleSet
  <2>2. /\ \A n \in Node : colour[n] # 0 => n \in EligibleSet
        /\ \A i \in painted + 1 .. Len(eligible) : colour[eligible[i]] = 0
        /\ \A a, b \in EligibleSet :
             a # b /\ colour[a] = colour[b] /\ colour[a] # 0 => ~ Conflict(a, b)
        /\ painted > 0 => colour[eligible[1]] = 1
    BY <2>1 DEF CoreInv, ColourInv
  <2>3. EligibleSet \subseteq Node /\ \A i \in 1 .. Len(eligible) : eligible[i] \in Node
    BY <1>0, EligibleType DEF CoreInv
  <2>4. /\ painted + 1 \in 1 .. Len(eligible) /\ m = eligible[painted + 1]
        /\ m \in EligibleSet
        /\ \A i \in 1 .. Len(eligible) : i # painted + 1 => eligible[i] # m
        /\ painted = 0 => 1 \in FreeColours(m)
    BY <1>7, <2>1
  <2>5. \A n \in Node : colour'[n] # 0 => n \in EligibleSet'
    BY <2>1, <2>2, <2>4
  <2>6. \A i \in painted' + 1 .. Len(eligible') : colour'[eligible'[i]] = 0
    BY <1>0, <2>1, <2>2, <2>3, <2>4
  <2>7. ASSUME NEW a \in EligibleSet, NEW b \in EligibleSet, a # b,
               colour'[a] = colour'[b], colour'[a] # 0
        PROVE  ~ Conflict(a, b)
    <3>1. \A k \in EligibleSet : colour[k] = c => ~ Conflict(k, m)
      BY <2>1 DEF FreeColours
    <3>2. CASE a = m
      BY <2>1, <2>3, <2>7, <3>1, <3>2 DEF Conflict
    <3>3. CASE b = m
      BY <2>1, <2>3, <2>7, <3>1, <3>3 DEF Conflict
    <3>4. CASE a # m /\ b # m
      BY <2>1, <2>2, <2>3, <2>7, <3>4
    <3> QED BY <3>2, <3>3, <3>4
  <2>8. colour'[eligible'[1]] = 1
    <3>1. CASE painted = 0
      BY <2>1, <2>3, <2>4, <3>1
    <3>2. CASE painted # 0
      <4>1. painted > 0 /\ 1 # painted + 1 /\ 1 \in 1 .. Len(eligible)
        BY <1>0, <3>2
      <4> QED BY <2>1, <2>2, <2>3, <2>4, <4>1
    <3> QED BY <3>1, <3>2
  <2> QED BY <2>1, <2>5, <2>6, <2>7, <2>8 DEF ColourInv, Conflict, nbr
<1>9. ASSUME NEW m \in Node, NoColourLeft(m) PROVE ColourInv'
  <2>1. /\ pc = "colouring" /\ pc' = "colouring" /\ NextToColour(m)
        /\ FreeColours(m) = {} /\ painted' = painted + 1
        /\ UNCHANGED <<net, parent, eligible, colour>>
    BY <1>9 DEF NoColourLeft, inputs, tree, queue
  <2>2. painted > 0
    BY <1>0, <1>7, <2>1
  <2> QED BY <1>0, <2>1, <2>2 DEF CoreInv, ColourInv, EligibleSet, Conflict, nbr
<1> QED BY <1>1, <1>3, <1>4, <1>5, <1>6, <1>8, <1>9, RoundFrames

-----------------------------------------------------------------------------
(* Counting, progress and the absence of failures.                         *)

(* len(completed) reaches N when the last sender is scheduled.             *)
LEMMA CompletedFacts ==
  ASSUME CoreInv
  PROVE  /\ completed \in 1 .. N
         /\ completed = N <=> Scheduled = Node \ {Sink}
         /\ completed # N => \E x \in Node \ {Sink} : Unscheduled(x)
<1>1. Scheduled \subseteq Node \ {Sink} /\ completed = 1 + Cardinality(Scheduled)
  BY DEF CoreInv, ScheduleInv, CompletedCountsScheduled, Scheduled
<1>2. IsFiniteSet(Node \ {Sink}) /\ Cardinality(Node \ {Sink}) = N - 1
  BY NodeFinite, NodeFacts, FS_RemoveElement
<1>3. /\ Cardinality(Scheduled) \in Nat
      /\ Cardinality(Scheduled) <= N - 1
      /\ Cardinality(Scheduled) = N - 1 => Scheduled = Node \ {Sink}
  <2>1. IsFiniteSet(Scheduled)
    BY <1>1, <1>2, FS_Subset
  <2> QED BY <1>1, <1>2, <2>1, FS_Subset, FS_CardinalityType
<1>4. Scheduled = Node \ {Sink} => completed = N
  BY <1>1, <1>2, SizeAssumption
<1>5. completed = N => Scheduled = Node \ {Sink}
  BY <1>1, <1>3, SizeAssumption
<1>6. completed \in 1 .. N
  BY <1>1, <1>3, SizeAssumption
<1>7. Scheduled # Node \ {Sink} => \E x \in Node \ {Sink} : Unscheduled(x)
  BY <1>1 DEF Scheduled, Unscheduled
<1> QED BY <1>4, <1>5, <1>6, <1>7

(* As long as someone is unscheduled, a leaf among the pending senders is  *)
(* a candidate in every slot its parent is awake in.                       *)
LEMMA SomeCandidate ==
  ASSUME CoreInv, ~ Building, completed # N
  PROVE  \E s \in 0 .. T - 1 : CandidateSenders(s) # {}
<1>1. PICK x \in Node \ {Sink} : Unscheduled(x)
  BY CompletedFacts
<1>2. /\ Attached = Node
      /\ \A n \in Node \ {Sink} : parent[n] \in nbr(n) /\ parent[n] \in Node
  BY AllAttached DEF CoreInv
<1>3. x \in Pending
  BY <1>1, <1>2 DEF Pending, Scheduled, Unscheduled
<1>4. PICK n \in Pending : \A c \in Pending : parent[c] # n
  BY <1>3 DEF CoreInv, LeafInv
<1>5. n \in Node \ {Sink} /\ Unscheduled(n)
  BY <1>2, <1>4 DEF Pending, Scheduled, Unscheduled
<1>6. HeardAll(n)
  <2> SUFFICES ASSUME NEW c \in Node, parent[c] = n, Unscheduled(c) PROVE FALSE
    BY DEF HeardAll
  <2>1. c # Sink
    BY <1>5, NodeFacts DEF CoreInv, TreeInv
  <2>2. c \in Pending
    BY <1>2, <2>1 DEF Pending, Scheduled, Unscheduled
  <2> QED BY <1>4, <2>2
<1>7. Unscheduled(parent[n]) /\ parent[n] \in nbr(n) /\ parent[n] \in Node
  BY <1>2, <1>5, ParentUnscheduled DEF CoreInv
<1>8. PICK s \in active(parent[n]) : s \in 0 .. T - 1
  BY <1>7, NetFacts DEF CoreInv, Slot
<1>9. ~ HasUnscheduledChild(n)
  BY <1>5, <1>6, WaitsForChild DEF CoreInv
<1>10. n \in CandidateSenders(s)
  BY <1>5, <1>7, <1>8, <1>9 DEF CandidateSenders
<1> QED BY <1>8, <1>10

LEMMA EndPeriodFacts ==
  ASSUME CoreInv, EndPeriod
  PROVE  /\ before < completed /\ wp + 1 <= completed
         /\ pc' = "period" /\ wp' = wp + 1
<1>1. /\ pc = "slot" /\ slot = T /\ ~ Building /\ InPeriod
      /\ before \in Nat /\ wp \in Nat /\ completed \in Nat
  BY DEF EndPeriod, Building, InPeriod, CoreInv, TypeOK
<1>2. before <= completed /\ wp <= before /\ before # N
  BY <1>1 DEF CoreInv, ProgressInv
<1>3. completed # before
  <2> SUFFICES ASSUME completed = before PROVE FALSE
    OBVIOUS
  <2>1. \A s \in 0 .. T - 1 : CandidateSenders(s) = {}
    BY <1>1 DEF CoreInv, ProgressInv
  <2> QED BY <1>1, <1>2, <2>1, SomeCandidate
<1>4. before < completed /\ wp + 1 <= completed
  BY <1>1, <1>2, <1>3
<1> QED BY <1>3, <1>4 DEF EndPeriod

LEMMA CountStep == ASSUME CoreInv, [Next]_vars PROVE CompletedCountsScheduled'
<1>0. CompletedCountsScheduled
  BY DEF CoreInv
<1>1. completed' = 1 + Cardinality(Scheduled')
  <2>1. CASE CommitSlot
    <3>1. /\ Scheduled' = Scheduled \cup Committed /\ Scheduled \cap Committed = {}
          /\ completed' = completed + Cardinality(Committed)
          /\ Committed \in SUBSET Node /\ Scheduled \in SUBSET Node
      BY <2>1, CommitFacts DEF Scheduled
    <3>2. /\ IsFiniteSet(Committed) /\ IsFiniteSet(Scheduled)
          /\ Cardinality(Committed) \in Nat /\ Cardinality(Scheduled) \in Nat
      BY <3>1, NodeFinite, FS_CardinalityType
    <3>3. Cardinality(Scheduled \cup Committed)
             = Cardinality(Scheduled) + Cardinality(Committed) - Cardinality({})
      BY <3>1, <3>2, FS_Union
    <3>4. completed = 1 + Cardinality(Scheduled)
      BY <1>0 DEF CompletedCountsScheduled
    <3> QED BY <3>1, <3>2, <3>3, <3>4, FS_EmptySet
  <2>2. CASE UNCHANGED sched
    BY <1>0, <2>2 DEF CompletedCountsScheduled, Scheduled, sched
  <2> QED BY <2>1, <2>2, Frames
<1>2. ASSUME pc' = "done" PROVE Scheduled' = Node \ {Sink}
  <2>1. CASE Finish
    <3>1. completed = N /\ timeslot' = timeslot
      BY <2>1 DEF Finish, sched
    <3> QED BY <3>1, CompletedFacts DEF Scheduled
  <2>2. CASE UNCHANGED vars
    BY <1>0, <1>2, <2>2 DEF CompletedCountsScheduled, Scheduled, vars, sched
  <2>3. Finish \/ UNCHANGED vars
    <3>1. CASE BuildTree
      BY <1>2, <3>1 DEF BuildTree, LayeringStep, LayeringDone, ConnectNode,
                        LeaveUnconnected, TreeDone
    <3>2. CASE WorkingPeriod
      BY <1>2, <3>2 DEF WorkingPeriod, BeginPeriod, TooManyPeriods, BeginSlot,
                        EndPeriod
    <3>3. CASE DynamicSchedule
      BY <1>2, <3>3 DEF DynamicSchedule, SkipSender, ChangeParent, Crash,
                        QueueEmpty, AssignColour, NoColourLeft, CommitSlot
    <3> QED BY <3>1, <3>2, <3>3 DEF Next
  <2> QED BY <2>1, <2>2, <2>3
<1> QED BY <1>1, <1>2 DEF CompletedCountsScheduled

(* No candidate is lost: in a slot that has one, the first is not skipped, *)
(* and what becomes eligible first is committed.                           *)
LEMMA ProgressStep == ASSUME CoreInv, [Next]_vars PROVE ProgressInv'
<1>0. ProgressInv /\ EligibleInv
  BY DEF CoreInv
<1> SUFFICES ASSUME InPeriod' PROVE ProgressInv'
  BY DEF ProgressInv, InPeriod
<1>1. CASE BeginPeriod
  <2>1. /\ before' = completed /\ completed' = completed /\ wp' = wp
        /\ slot' = 0 /\ pc' = "slot" /\ wp <= completed /\ completed # N
        /\ completed \in Nat
    BY <1>1 DEF BeginPeriod, sched, CoreInv, PeriodsBounded, TypeOK
  <2> QED BY <2>1 DEF ProgressInv, InPeriod
<1>2. ASSUME UNCHANGED <<net, children, sched, before, wp>>, InPeriod
      PROVE  /\ before' <= completed' /\ wp' <= before' /\ before' # N
             /\ \A s : CandidateSenders(s)' = CandidateSenders(s)
  <2>1. before <= completed /\ wp <= before /\ before # N
    BY <1>0, <1>2 DEF ProgressInv
  <2>2. \A s : CandidateSenders(s)' = CandidateSenders(s)
    BY <1>2 DEF CandidateSenders, HasUnscheduledChild, Unscheduled, nbr, active,
                sched
  <2> QED BY <1>2, <2>1, <2>2 DEF sched
<1>3. CASE BeginSlot
  <2>1. UNCHANGED <<net, children, sched, before, wp, completed, slot>> /\ InPeriod
    BY <1>3, BeginFacts DEF loop, sched, InPeriod
  <2>2. /\ pc = "slot" /\ pc' = "queue" /\ candidates' = CandidateSenders(slot)
        /\ promoted' = <<>>
    BY <1>3, BeginFacts
  <2>3. completed' = before' => \A s \in 0 .. slot - 1 : CandidateSenders(s) = {}
    BY <1>0, <2>1, <2>2 DEF ProgressInv
  <2> QED BY <1>2, <2>1, <2>2, <2>3 DEF ProgressInv
<1>4. ASSUME NEW m \in Node, SkipSender(m) PROVE ProgressInv'
  <2>1. /\ UNCHANGED <<net, children, sched, before, wp, completed, slot, eligible>>
        /\ InPeriod /\ pc = "queue" /\ pc' = "queue" /\ NextInQueue(m)
        /\ m \in parentSet \/ Receivers(m) = {}
    BY <1>4 DEF SkipSender, loop, sched, inputs, tree, InPeriod
  <2>2. eligible # <<>>
    <3> SUFFICES ASSUME eligible = <<>> PROVE FALSE
      OBVIOUS
    <3>1. candidates = CandidateSenders(slot) /\ promoted = <<>>
      BY <1>0, <2>1 DEF ProgressInv
    <3>2. EligibleSet = {} /\ parentSet = {}
      BY <1>0, <2>1 DEF EligibleSet, EligibleInv
    <3>3. m \in CandidateSenders(slot)
      BY <2>1, <3>1 DEF NextInQueue
    <3>4. Receivers(m) # {}
      BY <3>2, <3>3 DEF CandidateSenders, Receivers
    <3> QED BY <2>1, <3>2, <3>4
  <2> QED BY <1>2, <2>1, <2>2 DEF ProgressInv
<1>5. ASSUME NEW m \in Node, NEW r \in Node, ChangeParent(m, r) PROVE ProgressInv'
  <2>1. /\ UNCHANGED <<before, wp, completed, slot>>
        /\ pc = "queue" /\ pc' = "queue"
    BY <1>5, ChangeFacts DEF loop, sched
  <2>2. eligible' # <<>>
    <3>1. eligible \in Seq(Node) /\ eligible' = Append(eligible, m)
      BY <1>5 DEF ChangeParent, CoreInv, TypeOK
    <3> QED BY <3>1
  <2> QED BY <1>0, <2>1, <2>2 DEF ProgressInv, InPeriod
<1>6. CASE QueueEmpty
  <2>1. /\ UNCHANGED <<net, children, sched, before, wp, completed, slot, eligible>>
        /\ InPeriod /\ pc = "queue" /\ pc' = "colouring" /\ candidates = {}
    BY <1>6 DEF QueueEmpty, loop, sched, inputs, tree, round, queue, InPeriod
  <2> QED BY <1>0, <1>2, <2>1 DEF ProgressInv
<1>7. ASSUME NEW m \in Node, NextToColour(m), pc = "colouring", pc' = "colouring",
             UNCHANGED <<net, children, sched, before, wp, completed, slot, eligible>>
      PROVE  ProgressInv'
  <2>1. eligible # <<>> /\ InPeriod
    BY <1>7 DEF NextToColour, InPeriod, CoreInv, TypeOK
  <2> QED BY <1>2, <1>7, <2>1 DEF ProgressInv
<1>8. ASSUME NEW m \in Node, NEW c \in 1 .. MaxColours, AssignColour(m, c)
      PROVE  ProgressInv'
  BY <1>7, <1>8 DEF AssignColour, loop, sched, inputs, tree, queue
<1>9. ASSUME NEW m \in Node, NoColourLeft(m) PROVE ProgressInv'
  BY <1>7, <1>9 DEF NoColourLeft, loop, sched, inputs, tree, queue
<1>10. CASE CommitSlot
  <2>1. /\ pc = "colouring" /\ pc' = "slot" /\ InPeriod
        /\ before \in Nat /\ completed \in Nat /\ slot \in Nat
        /\ completed' = completed + Cardinality(Committed)
        /\ before' = before /\ wp' = wp /\ slot' = slot + 1
        /\ painted = Len(eligible)
    BY <1>10, CommitFacts DEF CommitSlot, InPeriod, CoreInv, TypeOK
  <2>2. IsFiniteSet(Committed) /\ Cardinality(Committed) \in Nat
    BY <1>10, CommitFacts, NodeFinite
  <2>3. before <= completed /\ wp <= before /\ before # N
    BY <1>0, <2>1 DEF ProgressInv
  <2>4. ASSUME completed' = before'
        PROVE  \A s \in 0 .. slot' - 1 : CandidateSenders(s)' = {}
    <3>1. completed = before /\ Cardinality(Committed) = 0
      BY <2>1, <2>2, <2>3, <2>4
    <3>2. Committed = {}
      BY <2>2, <3>1, FS_EmptySet
    <3>3. eligible = <<>>
      <4> SUFFICES ASSUME eligible # <<>> PROVE FALSE
        OBVIOUS
      <4>1. eligible \in Seq(Node) /\ Len(eligible) > 0
        BY DEF CoreInv, TypeOK
      <4>2. colour[eligible[1]] = 1 /\ eligible[1] \in EligibleSet
        BY <2>1, <4>1 DEF CoreInv, ColourInv, EligibleSet
      <4>3. net.channels \in Nat \ {0}
        BY NetFacts DEF CoreInv
      <4> QED BY <3>2, <4>2, <4>3 DEF Committed
    <3>4. \A s \in 0 .. slot : CandidateSenders(s) = {}
      <4>1. CandidateSenders(slot) = {}
        BY <1>0, <2>1, <3>3 DEF ProgressInv
      <4>2. \A s \in 0 .. slot - 1 : CandidateSenders(s) = {}
        BY <1>0, <2>1, <3>1, <3>3 DEF ProgressInv
      <4>3. \A s \in 0 .. slot : s = slot \/ s \in 0 .. slot - 1
        BY <2>1
      <4> QED BY <4>1, <4>2, <4>3
    <3>5. /\ \A n \in Node : timeslot'[n] = timeslot[n] /\ channel'[n] = channel[n]
          /\ net' = net /\ children' = children
          /\ \A n \in Node : nbr(n) \subseteq Node
      BY <1>10, <3>2, CommitFacts, NetFacts DEF tree, CoreInv
    <3>6. \A s : CandidateSenders(s)' = CandidateSenders(s)
      BY <3>5 DEF CandidateSenders, HasUnscheduledChild, Unscheduled, nbr, active
    <3> QED BY <2>1, <3>4, <3>6
  <2>5. before' <= completed' /\ wp' <= before' /\ before' # N
    BY <2>1, <2>2, <2>3
  <2> QED BY <2>1, <2>4, <2>5 DEF ProgressInv
<1>11. CASE UNCHANGED vars
  <2>1. UNCHANGED <<net, children, sched, before, wp, completed, slot, eligible, pc,
                    candidates, promoted>>
    BY <1>11 DEF vars, inputs, tree, sched, loop, round, queue
  <2>2. InPeriod
    BY <2>1 DEF InPeriod
  <2> QED BY <1>0, <1>2, <2>1, <2>2 DEF ProgressInv, InPeriod
<1>12. CASE pc' = "slot"
  <2>1. BeginPeriod \/ CommitSlot \/ UNCHANGED vars
    <3>1. CASE BuildTree
      BY <1>12, <3>1 DEF BuildTree, LayeringStep, LayeringDone, ConnectNode,
                        LeaveUnconnected, TreeDone
    <3>2. CASE WorkingPeriod
      BY <1>12, <3>2 DEF WorkingPeriod, TooManyPeriods, BeginSlot, EndPeriod, Finish
    <3>3. CASE DynamicSchedule
      BY <1>12, <3>3 DEF DynamicSchedule, SkipSender, ChangeParent, Crash,
                        QueueEmpty, AssignColour, NoColourLeft
    <3> QED BY <3>1, <3>2, <3>3 DEF Next
  <2> QED BY <1>1, <1>10, <1>11, <2>1
<1>13. CASE pc' \in {"queue", "colouring"}
  BY <1>3, <1>4, <1>5, <1>6, <1>8, <1>9, <1>11, <1>13, RoundFrames
<1> QED BY <1>12, <1>13 DEF InPeriod

LEMMA PeriodsStep == ASSUME CoreInv, [Next]_vars PROVE PeriodsBounded'
<1> SUFFICES ASSUME pc' = "period" PROVE wp' <= completed'
  BY DEF PeriodsBounded
<1>1. CASE TreeDone
  BY <1>1 DEF TreeDone, CoreInv, TreeInv, Building, sched, loop
<1>2. CASE EndPeriod
  BY <1>2, EndPeriodFacts DEF EndPeriod, sched
<1>3. CASE UNCHANGED vars
  BY <1>3 DEF vars, sched, loop, CoreInv, PeriodsBounded
<1>4. CASE BuildTree
  BY <1>1, <1>4 DEF BuildTree, LayeringStep, LayeringDone, ConnectNode,
                    LeaveUnconnected
<1>5. CASE WorkingPeriod
  BY <1>2, <1>5 DEF WorkingPeriod, BeginPeriod, TooManyPeriods, BeginSlot, Finish
<1>6. CASE DynamicSchedule
  BY <1>6 DEF DynamicSchedule, SkipSender, ChangeParent, Crash, QueueEmpty,
              AssignColour, NoColourLeft, CommitSlot
<1> QED BY <1>3, <1>4, <1>5, <1>6 DEF Next

(* No None parent is dereferenced, and no child is missed in a list.       *)
LEMMA CrashStep == ASSUME CoreInv, [Next]_vars PROVE pc' # "crashed"
<1>1. ASSUME NEW m \in Node, NEW r \in Node, Crash(m, r) PROVE FALSE
  <2>1. pc = "queue" /\ NextInQueue(m) /\ ~ CanLeave(m, r)
    BY <1>1 DEF Crash
  <2>2. m \in Queued
    <3>1. CASE candidates # {}
      BY <2>1, <3>1 DEF NextInQueue, Queued
    <3>2. CASE candidates = {}
      <4>1. promoted \in Seq(Node) /\ promoted # <<>> /\ m = promoted[1]
        BY <2>1, <3>2 DEF NextInQueue, CoreInv, TypeOK
      <4>2. 1 \in 1 .. Len(promoted)
        BY <4>1
      <4> QED BY <4>1, <4>2 DEF Queued
    <3> QED BY <3>1, <3>2
  <2>3. m # Sink /\ ~ Building
    BY <2>1, <2>2 DEF CoreInv, QueueInv, Building
  <2>4. parent[m] \in Node
    BY <2>3, AllAttached DEF CoreInv
  <2>5. children[parent[m]][m] = 1
    BY <2>4 DEF CoreInv, ListsMatchParents
  <2> QED BY <2>1, <2>4, <2>5, NodeFacts DEF CanLeave
<1> QED BY <1>1 DEF CoreInv, Next, BuildTree, WorkingPeriod, DynamicSchedule,
           LayeringStep, LayeringDone, ConnectNode, LeaveUnconnected, TreeDone,
           BeginPeriod, TooManyPeriods, BeginSlot, EndPeriod, Finish,
           SkipSender, ChangeParent, QueueEmpty, AssignColour,
           NoColourLeft, CommitSlot, vars

LEMMA ListensStep == ASSUME CoreInv, [Next]_vars PROVE ReceiverListens'
<1>0. ReceiverListens
  BY DEF CoreInv
<1>1. CASE Building
  BY <1>1, BuildingUnscheduled DEF ReceiverListens
<1>2. CASE CommitSlot
  <2> SUFFICES ASSUME NEW n \in Scheduled'
               PROVE  /\ timeslot'[n] % T \in active(parent[n])
                      /\ channel'[n] \in 1 .. net.channels
    BY <1>2, CommitFacts DEF ReceiverListens, active, tree
  <2>1. CASE n \in Scheduled
    BY <1>0, <1>2, <2>1, CommitFacts DEF ReceiverListens, Scheduled
  <2>2. CASE n \in Committed
    <3>1. /\ timeslot'[n] = (wp - 1) * T + slot /\ slot \in active(parent[n])
          /\ channel'[n] \in 1 .. net.channels
      BY <1>2, <2>2, CommitFacts DEF Now
    <3>2. ((wp - 1) * T + slot) % T = slot
      <4>1. /\ wp - 1 \in Nat /\ T \in Nat \ {0} /\ slot \in 0 .. T - 1
        BY <1>2, CommitFacts, SizeAssumption DEF CoreInv, TypeOK
      <4>2. \A w \in Nat, t \in Nat \ {0} : \A s \in 0 .. t - 1 : (w * t + s) % t = s
        OBVIOUS
      <4> QED BY <4>1, <4>2
    <3> QED BY <3>1, <3>2
  <2> QED BY <1>2, <2>1, <2>2, CommitFacts
<1>3. ASSUME NEW m \in Node, NEW r \in Node, ChangeParent(m, r)
      PROVE  ReceiverListens'
  BY <1>3, ChangeSchedule
<1>4. CASE UNCHANGED tree /\ UNCHANGED sched
  BY <1>0, <1>4, Frames DEF ReceiverListens, Scheduled, active, tree, sched
<1>5. ~ Building => ~ \E n, p \in Node : ConnectNode(n, p)
  BY DEF ConnectNode, Building
<1> QED BY <1>1, <1>2, <1>3, <1>4, <1>5, Frames

(* The sink is never queued and never eligible.                            *)
LEMMA SinkStep ==
  ASSUME CoreInv, [Next]_vars, TreeInv', ScheduleInv', QueueInv', EligibleInv'
  PROVE  SinkNeverTransmits'
<1>1. parent'[Sink] = None
  BY DEF TreeInv
<1>2. timeslot'[Sink] = None /\ channel'[Sink] = None
  BY NodeFacts DEF ScheduleInv, Scheduled
<1>3. pc' = "queue" => /\ Sink \notin candidates'
                       /\ \A i \in 1 .. Len(promoted') : promoted'[i] # Sink
  BY DEF QueueInv, Queued
<1>4. Sink \notin EligibleSet'
  <2>1. CASE pc' \in {"queue", "colouring"}
    BY <2>1 DEF EligibleInv
  <2>2. CASE pc' \notin {"queue", "colouring"}
    <3>1. eligible' = eligible
      BY <2>2 DEF Next, BuildTree, WorkingPeriod, DynamicSchedule,
           LayeringStep, LayeringDone, ConnectNode, LeaveUnconnected, TreeDone,
           BeginPeriod, TooManyPeriods, BeginSlot, EndPeriod, Finish,
           SkipSender, ChangeParent, Crash, QueueEmpty, AssignColour,
           NoColourLeft, CommitSlot, vars, round, queue
    <3> QED BY <3>1 DEF CoreInv, SinkNeverTransmits, EligibleSet
  <2> QED BY <2>1, <2>2
<1> QED BY <1>1, <1>2, <1>3, <1>4 DEF SinkNeverTransmits

-----------------------------------------------------------------------------
(* The invariant is inductive.                                             *)

LEMMA InitCore == Init => CoreInv
<1> SUFFICES ASSUME Init PROVE CoreInv
  OBVIOUS
<1>1. TypeOK
  BY TypeInit
<1>2. /\ pc = "layering" /\ parent = [n \in Node |-> None]
      /\ timeslot = [n \in Node |-> None] /\ channel = [n \in Node |-> None]
      /\ children = [p \in Node |-> [c \in Node |-> 0]]
      /\ layer = [n \in Node |-> IF n = Sink THEN 0 ELSE None]
      /\ unvisited = Node \ {Sink} /\ completed = 1 /\ wp = 1
      /\ eligible = <<>>
  BY DEF Init
<1>3. Scheduled = {} /\ EligibleSet = {} /\ Attached \subseteq {Sink}
  BY <1>2 DEF Scheduled, EligibleSet, Attached
<1>4. LayerInv
  BY <1>2, NodeFacts DEF LayerInv
<1>5. TreeInv
  BY <1>2, <1>3, NodeFacts DEF TreeInv, Building
<1>6. ListsMatchParents
  BY <1>2, NodeFacts DEF ListsMatchParents
<1>7. AcyclicRouting /\ LeafInv
  BY <1>3 DEF AcyclicRouting, LeafInv, Pending
<1>8. /\ ScheduleInv /\ AggregationPrecedence /\ CollisionFree /\ ReceiverListens
  BY <1>2, <1>3 DEF ScheduleInv, AggregationPrecedence, CollisionFree,
                    ReceiverListens
<1>9. QueueInv /\ EligibleInv /\ ColourInv /\ PeriodsBounded /\ ProgressInv
  BY <1>2 DEF QueueInv, EligibleInv, ColourInv, PeriodsBounded, ProgressInv, InPeriod
<1>10. SinkNeverTransmits
  BY <1>2, <1>3, NodeFacts DEF SinkNeverTransmits
<1>11. CompletedCountsScheduled
  BY <1>2, <1>3, FS_EmptySet DEF CompletedCountsScheduled
<1> QED BY <1>1, <1>2, <1>4, <1>5, <1>6, <1>7, <1>8, <1>9, <1>10, <1>11 DEF CoreInv

LEMMA CoreStep ==
  ASSUME CoreInv, [Next]_vars, \A n \in Node : ~ LeaveUnconnected(n)
  PROVE  CoreInv'
<1>1. TypeOK /\ LayerInv /\ TreeInv
  BY DEF CoreInv
<1>2. TypeOK' /\ LayerInv'
  BY <1>1, TypeStep, LayerStep
<1>3. \A m, r \in Node : ChangeParent(m, r) => m # Sink /\ r \in nbr(m)
  BY ChangeFacts
<1>4. TreeInv'
  BY <1>1, <1>3, TreeStep
<1>5. ListsMatchParents' /\ AcyclicRouting' /\ LeafInv'
  BY ListsStep, AcyclicStep, LeafStep
<1>6. ScheduleInv' /\ AggregationPrecedence' /\ CollisionFree' /\ ReceiverListens'
  BY ScheduleStep, ListensStep
<1>7. QueueInv' /\ EligibleInv' /\ ColourInv'
  BY QueueStep, EligibleStep, ColourStep
<1>8. SinkNeverTransmits'
  BY <1>4, <1>6, <1>7, SinkStep
<1>9. CompletedCountsScheduled' /\ PeriodsBounded' /\ ProgressInv' /\ pc' # "crashed"
  BY CountStep, PeriodsStep, ProgressStep, CrashStep
<1> QED BY <1>2, <1>4, <1>5, <1>6, <1>7, <1>8, <1>9 DEF CoreInv

(* A node that was left without a parent stays without one.                *)
LEMMA LeftOutStep ==
  ASSUME TypeOK, [Next]_vars, NobodyLeftOut'
  PROVE  NobodyLeftOut
<1> SUFFICES ASSUME NEW n \in Node \ {Sink}, n \notin unvisited, parent[n] = None
             PROVE  n \notin unvisited' /\ parent'[n] = None
  BY DEF NobodyLeftOut
<1>1. ASSUME NEW k \in Node, NEW p \in Node, ConnectNode(k, p)
      PROVE  n \notin unvisited' /\ parent'[n] = None
  BY <1>1 DEF ConnectNode, NextInTree, TypeOK
<1>2. ASSUME NEW k \in Node, LeaveUnconnected(k)
      PROVE  n \notin unvisited' /\ parent'[n] = None
  BY <1>2 DEF LeaveUnconnected, tree
<1>3. ASSUME NEW m \in Node, NEW r \in Node, ChangeParent(m, r)
      PROVE  n \notin unvisited' /\ parent'[n] = None
  BY <1>3 DEF ChangeParent, CanLeave, inputs, TypeOK
<1>4. CASE UNCHANGED <<parent, unvisited>>
  BY <1>4
<1> QED BY <1>1, <1>2, <1>3, <1>4, Frames DEF tree

LEMMA NobodyLeavesTree ==
  ASSUME CoreInv, NobodyLeftOut', NEW n \in Node, LeaveUnconnected(n)
  PROVE  FALSE
<1>1. n \in Node \ {Sink} /\ parent[n] = None
  BY DEF LeaveUnconnected, NextInTree, CoreInv, TypeOK, TreeInv
<1> QED BY <1>1 DEF LeaveUnconnected, NobodyLeftOut, tree

(* Whatever the starting delay is, a tree that leaves nobody out brings    *)
(* all of the invariant with it.                                           *)
THEOREM WholeTreeInductive == Spec => []WholeTreeInv
<1>1. Init => WholeTreeInv
  BY TypeInit, InitCore DEF WholeTreeInv
<1>2. WholeTreeInv /\ [Next]_vars => WholeTreeInv'
  <2> SUFFICES ASSUME WholeTreeInv, [Next]_vars, NobodyLeftOut' PROVE CoreInv'
    BY TypeStep DEF WholeTreeInv
  <2>1. CoreInv
    BY LeftOutStep DEF WholeTreeInv
  <2> QED BY <2>1, NobodyLeavesTree, CoreStep
<1> QED BY <1>1, <1>2, PTL DEF Spec

(* The only way to dereference a None parent is a node the construction of *)
(* the tree has left without one (ANEX.py:79-112, 254-262).                *)
THEOREM CrashOnlyUnconnectedCorrect == Spec => []CrashOnlyUnconnected
<1>1. WholeTreeInv => CrashOnlyUnconnected
  BY DEF WholeTreeInv, NobodyLeftOut, CoreInv, CrashOnlyUnconnected, Attached
<1> QED BY <1>1, WholeTreeInductive, PTL

(* And a tree that leaves nobody out is scheduled safely, whatever the     *)
(* starting delay and the limit on the working periods are.                *)
THEOREM WholeTreesAreSafe ==
  Spec => [](NobodyLeftOut => /\ ListsMatchParents /\ AcyclicRouting
                              /\ AggregationPrecedence /\ CollisionFree /\ ReceiverListens
                              /\ CompletedCountsScheduled)
<1>1. WholeTreeInv =>
        (NobodyLeftOut => /\ ListsMatchParents /\ AcyclicRouting
                          /\ AggregationPrecedence /\ CollisionFree /\ ReceiverListens
                          /\ CompletedCountsScheduled)
  BY DEF WholeTreeInv, CoreInv
<1> QED BY <1>1, WholeTreeInductive, PTL
=============================================================================
