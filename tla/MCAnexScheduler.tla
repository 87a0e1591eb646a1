-------------------------- MODULE MCAnexScheduler --------------------------
(***************************************************************************)
(* Small networks for the scheduler: every connected graph on the nodes,   *)
(* with every choice of active slots and channel count of a run.           *)
(***************************************************************************)
EXTENDS AnexCertificate

CONSTANTS
  ActiveChoices,   \* the active-slot sets a node may have
  ChannelChoices,  \* the channel counts of the request
  MinDegree        \* networks in which every node has this many neighbours

Pairs == {e \in SUBSET Node : Cardinality(e) = 2}

Neighbours(E) == [n \in Node |-> {m \in Node : {m, n} \in E}]

MCNetworks ==
  {g \in [nbr : {Neighbours(E) : E \in SUBSET Pairs},
          active : [Node -> ActiveChoices],
          channels : ChannelChoices] :
     Connected(g) /\ \A n \in Node : Cardinality(g.nbr[n]) >= MinDegree}

(* Slot sets for the configurations.                                       *)
AllSlotSets == SUBSET Slot \ {{}}
SingleSlots == {{s} : s \in Slot}
=============================================================================
