-------------------------- MODULE BsdvrNodeProofs --------------------------
(***************************************************************************)
(* BsdvrNode's invariants, for every set of nodes and every environment.   *)
(***************************************************************************)
EXTENDS BsdvrNode, BsdvrControlPlaneProofs

\* The inductive invariant: the tables, the neighbours and the queue are each
\* consistent, and consistent with each other.
Inv == Good(self, node)

\* The start-up state is good.
LEMMA InitInv == Init => Inv
BY SelfAssumption, InitialStateGood DEF Init, Inv

\* Each step of the node leaves it good and, unless the interface goes down,
\* keeps its routes.
LEMMA NextInv ==
  ASSUME Inv, [Next]_node
  PROVE  Inv' /\ (Keeps(node, node') \/ ~node'.up)
<1>1. Good(self, node) /\ self \in Node
  BY SelfAssumption DEF Inv
<1> DEFINE Step == Inv' /\ (Keeps(node, node') \/ ~node'.up)
<1>2. CASE UNCHANGED node
  BY <1>2 DEF Inv, Keeps
<1>3. ASSUME NEW m \in Peer, ReceiveHello(m) PROVE Step
  <2>1. Fine(self, node, ProcessHello(self, node, m))
    BY <1>1, ProcessHelloFine DEF Peer
  <2> QED BY <1>3, <2>1 DEF ReceiveHello, Fine, Inv
<1>4. ASSUME NEW m \in Peer, NEW d \in Dest \ {self, m}, NEW hops \in HopCounts,
             NEW state \in RouteState, ReceiveUpdate(m, d, hops, state)
      PROVE  Step
  <2>1. Fine(self, node, RecvUpdate(self, node, m, d, hops, state))
    BY <1>1, HopCountsAssumption, RecvUpdateFine DEF Peer
  <2> QED BY <1>4, <2>1 DEF ReceiveUpdate, Fine, Inv
<1>5. ASSUME NEW m \in Peer, NeighborExpires(m) PROVE Step
  BY <1>1, <1>5, NeighborExpiresGood DEF NeighborExpires, Inv
<1>6. ASSUME NEW e \in PendingReply, PendingReplyExpires(e) PROVE Step
  BY <1>1, <1>6, PendingReplyExpiresGood DEF PendingReplyExpires, Inv
<1>7. CASE NTimer
  BY <1>1, <1>7, NTimerExpireFine DEF NTimer, Fine, Inv
<1>8. CASE HelloTimer
  BY <1>1, <1>8, HelloTimerExpireFine DEF HelloTimer, Inv
<1>9. ASSUME NEW m \in Peer, NEW match \in BOOLEAN, TxError(m, match) PROVE Step
  BY <1>1, <1>9, NotifyTxErrorFine DEF TxError, Fine, Inv
<1>10. CASE InterfaceDown
  <2>1. Good(self, NotifyInterfaceDown(node))
    BY <1>1, NotifyInterfaceDownGood
  <2>2. ~NotifyInterfaceDown(node).up
    <3>1. node \in NodeState
      BY <1>1 DEF Good, Tables
    <3> QED BY <3>1 DEF NotifyInterfaceDown, NodeState
  <2> QED BY <1>10, <2>1, <2>2 DEF InterfaceDown, Inv
<1>11. CASE InterfaceUp
  BY <1>1, <1>11, NotifyInterfaceUpGood DEF InterfaceUp, Inv
<1> QED BY <1>2, <1>3, <1>4, <1>5, <1>6, <1>7, <1>8, <1>9, <1>10, <1>11
        DEF Next, OtherEvent, InterfaceEvent, ReceiveSomeUpdate

\* Whatever the environment does, the node is good.
THEOREM Invariant == Spec => []Inv
BY InitInv, NextInv, PTL DEF Spec

\* The node's state keeps its type.
THEOREM TypeCorrect == Spec => []TypeOK
<1>1. Inv => TypeOK
  BY DEF Inv, Good, Tables, TypeOK
<1> QED BY <1>1, Invariant, PTL

\* Every route but the broadcast record rests on a row of its next hop's table.
THEOREM RoutesAreBacked == Spec => []RoutesBacked
<1>1. Inv => RoutesBacked
  BY DEF Inv, Good, Tables, RoutesBacked
<1> QED BY <1>1, Invariant, PTL

\* The rows of m's table lead to m, and none is about this node.
THEOREM RowsAreOwned == Spec => []RowsOwned
<1>1. Inv => RowsOwned
  BY DEF Inv, Good, Tables, RowsOwned
<1> QED BY <1>1, Invariant, PTL

\* Neighbours are listed once, have a table, and are watched by m_ntimer.
THEOREM NeighborsAreWatched == Spec => []NeighborsWatched
<1>1. Inv => NeighborsWatched
  BY DEF Inv, Good, NeighborsWatched
<1> QED BY <1>1, Invariant, PTL

\* The pending reply queue is bounded, has no duplicates and no pointless entry.
THEOREM PendingRepliesAreBounded == Spec => []PendingRepliesBounded
<1>1. Inv => PendingRepliesBounded
  BY DEF Inv, Good, PendingRepliesBounded
<1> QED BY <1>1, Invariant, PTL

\* Whenever ComputeForwardingTable runs, one pass over the neighbours is enough.
THEOREM ComputationSettles == Spec => []ComputeSettles
<1>1. Inv => ComputeSettles
  <2> SUFFICES ASSUME Inv PROVE ComputeSettles
    OBVIOUS
  <2> DEFINE t == ComputeForwardingTable(node)
  <2>1. Tables(self, node) /\ self \in Node
    BY SelfAssumption DEF Inv, Good
  <2>2. /\ Tables(self, t) /\ OnlyTables(node, t)
        /\ t.dvt = node.dvt /\ t.known = node.known
    BY <2>1, ComputeForwardingTableTables
  <2>3. \A d \in Dest : t.ft[d] = ComputeRoute(node, d)
    BY <2>1 DEF ComputeForwardingTable, Tables, NodeState
  <2> HIDE DEF t
  <2>4. Neighbors(t) = Neighbors(node)
    BY <2>1, <2>2 DEF OnlyTables, Tables, NodeState, Neighbors
  <2>5. ASSUME NEW m \in Neighbors(t), NEW d \in Dest, t.dvt[m][d] # NoRoute
        PROVE  /\ t.ft[d] = RefreshForwardingTable(t, d, t.ft[d])
               /\ ~isBetterRoute(t.dvt[m][d], t.ft[d])
    <3>1. Settled(node, d, m, t.ft[d])
      BY <2>1, <2>3, <2>4, ComputeRouteSettles
    <3>2. m \in node.known
      BY <2>1, <2>2, <2>4, <2>5, NeighborsNodes DEF Tables, Owned
    <3>3. RefreshForwardingTable(t, d, t.ft[d]) = RefreshForwardingTable(node, d, t.ft[d])
      BY <2>2 DEF RefreshForwardingTable
    <3> QED BY <2>2, <2>5, <3>1, <3>2, <3>3 DEF Settled
  <2> QED BY <2>5 DEF ComputeSettles, t
<1> QED BY <1>1, Invariant, PTL

\* No step but the interface going down uninstalls a route.
THEOREM RoutesDoPersist == Spec => RoutesPersist
<1>1. Inv /\ [Next]_node =>
        [\A d \in Dest : node.ft[d] # NoRoute /\ node'.ft[d] = NoRoute => ~node'.up]_node
  BY NextInv DEF Keeps
<1> QED BY <1>1, Invariant, PTL DEF Spec, RoutesPersist
=============================================================================
