------------------------ MODULE MCScheduleExecution ------------------------
(***************************************************************************)
(* All complete schedules over dense networks whose nodes are always       *)
(* awake; and, over the complete network with sleeping nodes or without,   *)
(* everything within one edit of a certified schedule of one channel.      *)
(***************************************************************************)
EXTENDS ScheduleExecution

CONSTANTS
  Ends,            \* the IDs a changed entry names, known and unknown
  Sleepers         \* nodes that are awake in slot 0 only, in some network

Entries(ends, channels) ==
  {Entry(s, r, t, c, t % Period) :
     s \in ends, r \in ends, t \in 0 .. LastSlot, c \in channels}

Pairs == {e \in SUBSET Node : Cardinality(e) = 2}
Neighbours(E) == [n \in Node |-> {m \in Node : {m, n} \in E}]

(* One entry for every sender, to a neighbour.  In the complete network    *)
(* the senders are named in the order they transmit in.                    *)
Complete(g, channels) ==
  LET own(n) == {e \in Entries(Node, channels) : e.sender = n /\ e.receiver \in g.nbr[n]}
  IN {es \in own(1) \X own(2) \X own(3) :
        g.nbr = Neighbours(Pairs) =>
          es[1].timeslot <= es[2].timeslot /\ es[2].timeslot <= es[3].timeslot}

(* An entry is left out, added or replaced.                                *)
OneEdit(es) ==
  {RemoveAt(es, i) : i \in DOMAIN es} \cup
  {Append(es, e) : e \in Entries(Ends, 1 .. Channels)} \cup
  {[es EXCEPT ![i] = e] : i \in DOMAIN es, e \in Entries(Ends, {1})}

Certified(g) ==
  {es \in Complete(g, {1}) : Violations(g, Channels, "legacy_neighbor", es) = {}}

Awake(S) == [n \in Node |-> IF n \in S THEN {0} ELSE 0 .. Period - 1]

(* One network of those that differ in the names of two nodes only: the    *)
(* schedules are all there are under every naming.  With alpha > 1         *)
(* transmissions reach further than the neighbours.                        *)
MCNetworks ==
  [nbr : {h \in {Neighbours(E) : E \in SUBSET Pairs} :
            /\ \A n \in Node : Cardinality(h[n]) >= 2
            /\ \A n \in Node \ {Sink, 1} : Cardinality(h[n - 1]) <= Cardinality(h[n])},
   active : {Awake({})}, near : {Neighbours(Pairs)}] \cup
  [nbr : {Neighbours(Pairs)}, active : {Awake(S) : S \in SUBSET Sleepers},
   near : {Neighbours(Pairs)}]

MCSchedules(g) ==
  (IF g.active = Awake({}) THEN Complete(g, 1 .. Channels) ELSE {}) \cup
  (IF g.nbr = Neighbours(Pairs) THEN UNION {OneEdit(es) : es \in Certified(g)} ELSE {})
=============================================================================
