---------------------------- MODULE Convergecast ----------------------------
(***************************************************************************)
(* What one-shot aggregation promises, without slots, channels or trees:   *)
(* in each round some nodes that still hold data hand all of it to nodes   *)
(* that have not transmitted yet, each receiver hearing one sender.        *)
(***************************************************************************)
EXTENDS Integers, FiniteSets

CONSTANTS Node, Sink

VARIABLES
  holds,   \* whose readings a node's current aggregate contains
  sent     \* nodes that have transmitted

vars == <<holds, sent>>

TypeOK ==
  /\ holds \in [Node -> SUBSET Node]
  /\ sent \subseteq Node \ {Sink}

Init ==
  /\ holds = [n \in Node |-> {n}]
  /\ sent = {}

(* Mutations of Round: the sink is counted among the senders, the senders  *)
(* keep what they have sent, or a receiver forgets its own aggregate when  *)
(* it hears a sender.                                                      *)
RoundBySink(S, to) ==
  /\ S # {}
  /\ sent' = sent \cup S \cup {to[m] : m \in S}
  /\ UNCHANGED holds

RoundKeeping(S, to) ==
  /\ S # {}
  /\ sent' = sent \cup S
  /\ holds' = [n \in Node |->
                 holds[n] \cup UNION {holds[m] : m \in {s \in S : to[s] = n}}]

RoundOverwriting(S, to) ==
  /\ S # {}
  /\ sent' = sent \cup S
  /\ holds' = [n \in Node |->
                 IF \E s \in S : to[s] = n
                 THEN UNION {holds[m] : m \in {s \in S : to[s] = n}}
                 ELSE holds[n]]

(* The senders S hand their aggregates to the receivers to[m].             *)
Round(S, to) ==
  /\ S # {}
  /\ \A m \in S : to[m] \notin sent \cup S
  /\ \A a, b \in S : to[a] = to[b] => a = b
  /\ sent' = sent \cup S
  /\ holds' = [n \in Node |->
                 IF n \in S THEN {}
                 ELSE holds[n] \cup UNION {holds[m] : m \in {s \in S : to[s] = n}}]

Next ==
  \E S \in SUBSET (Node \ ({Sink} \cup sent)) :
    \E to \in [S -> Node \ (sent \cup S)] : Round(S, to)

Spec == Init /\ [][Next]_vars

(* No reading is lost and none is counted twice: every node's reading is   *)
(* in exactly one aggregate, at a node that has not transmitted.           *)
Conserved ==
  \A x \in Node : \E n \in Node \ sent :
     /\ x \in holds[n]
     /\ \A k \in Node : x \in holds[k] => k = n

(* When everyone has transmitted, the sink holds every reading.            *)
Aggregated == sent = Node \ {Sink} => holds[Sink] = Node

(* The sink eventually holds every reading.                                *)
SinkCollectsAll == <>(holds[Sink] = Node)

=============================================================================
