------------------------- MODULE BsdvrNetworkProofs -------------------------
(***************************************************************************)
(* A network of any number of nodes, any radio range, and any failures.    *)
(***************************************************************************)
EXTENDS BsdvrNetwork, BsdvrControlPlaneProofs

\* The HELLOs of node n, which reach other nodes only.
HellosOf(n) == {Hello(n, m) : m \in Node \ {n}}

Messages == UNION {Updates(n) \cup HellosOf(n) : n \in Node}

Inv ==
  /\ node = [n \in Node |-> node[n]]
  /\ \A n \in Node : Good(n, node[n])
  /\ net \subseteq Messages

\* The network starts with good nodes and no message.
LEMMA InitInv == Init => Inv
<1> SUFFICES ASSUME Init PROVE Inv
  OBVIOUS
<1>1. ASSUME NEW n \in Node PROVE Good(n, node[n])
  BY InitialStateGood DEF Init
<1> QED BY <1>1 DEF Init, Inv

\* A handler that leaves its node good and sends proper messages keeps Inv.
LEMMA RunInv ==
  ASSUME Inv, NEW n \in Node, NEW r, Run(n, r), Good(n, r.s),
         r.out \subseteq Updates(n) \cup HellosOf(n)
  PROVE  Inv'
<1>1. node' = [node EXCEPT ![n] = r.s] /\ node = [m \in Node |-> node[m]]
  BY DEF Run, Inv
<1>2. ASSUME NEW m \in Node PROVE Good(m, node'[m])
  BY <1>1 DEF Inv
<1>3. node' = [m \in Node |-> node'[m]]
  BY <1>1
<1>4. net' \subseteq Messages
  BY DEF Run, Inv, Messages
<1> QED BY <1>2, <1>3, <1>4 DEF Inv

\* Every delivery, timer and failure keeps the nodes good and the messages proper.
LEMMA NextInv ==
  ASSUME Inv, [Next]_vars
  PROVE  Inv'
<1>1. \A n \in Node : Good(n, node[n])
  BY DEF Inv
<1>2. CASE UNCHANGED vars
  BY <1>2 DEF Inv, vars
<1>3. ASSUME NEW msg \in net, DeliverHello(msg) PROVE Inv'
  <2>1. msg.type = "HELLO" /\ msg \in Messages
    BY <1>3 DEF DeliverHello, Inv
  <2>2. msg.to \in Node /\ msg.from \in Node \ {msg.to}
    BY <2>1 DEF Messages, Updates, HellosOf, Hello
  <2>3. Fine(msg.to, node[msg.to], ProcessHello(msg.to, node[msg.to], msg.from))
    BY <1>1, <2>2, ProcessHelloFine
  <2> QED BY <1>3, <2>2, <2>3, RunInv DEF DeliverHello, Fine
<1>4. ASSUME NEW msg \in net, DeliverUpdate(msg) PROVE Inv'
  <2>1. msg.type = "UPDATE" /\ msg \in Messages
    BY <1>4 DEF DeliverUpdate, Inv
  <2>2. /\ msg.to \in Node /\ msg.from \in Node \ {msg.to}
        /\ msg.dst \in Dest \ {msg.to, msg.from}
        /\ msg.hops \in 0..255 /\ msg.state \in RouteState
    BY <2>1 DEF Messages, Updates, HellosOf, Hello
  <2>3. Fine(msg.to, node[msg.to],
             RecvUpdate(msg.to, node[msg.to], msg.from, msg.dst, msg.hops, msg.state))
    BY <1>1, <2>2, RecvUpdateFine
  <2> QED BY <1>4, <2>2, <2>3, RunInv DEF DeliverUpdate, Fine
<1>5. ASSUME NEW n \in Node, HelloTimer(n) PROVE Inv'
  <2> DEFINE r == HelloTimerExpire(n, node[n], InRange[n])
  <2>1. Good(n, r.s) /\ r.out \subseteq Updates(n) \cup {Hello(n, m) : m \in InRange[n]}
    BY <1>1, HelloTimerExpireFine
  <2>2. InRange[n] \subseteq Node \ {n}
    BY InRangeAssumption
  <2> HIDE DEF r
  <2>3. r.out \subseteq Updates(n) \cup HellosOf(n)
    BY <2>1, <2>2 DEF HellosOf
  <2> QED BY <1>5, <2>1, <2>3, RunInv DEF HelloTimer, r
<1>6. ASSUME NEW n \in Node, NTimer(n) PROVE Inv'
  <2>1. Fine(n, node[n], NTimerExpire(n, node[n]))
    BY <1>1, NTimerExpireFine
  <2> QED BY <1>6, <2>1, RunInv DEF NTimer, Fine
<1>7. ASSUME NEW n \in Node, NEW m \in Node, NeighborExpires(n, m) PROVE Inv'
  <2>1. Good(n, [node[n] EXCEPT !.expired = @ \cup {m}])
    BY <1>1, <1>7, NeighborExpiresGood DEF NeighborExpires
  <2> QED BY <1>7, <2>1, RunInv DEF NeighborExpires
<1>8. ASSUME NEW n \in Node, NEW e \in PendingReply, PendingReplyExpires(n, e) PROVE Inv'
  <2>1. Good(n, [node[n] EXCEPT !.late = @ \cup {e}])
    BY <1>1, <1>8, PendingReplyExpiresGood DEF PendingReplyExpires
  <2> QED BY <1>8, <2>1, RunInv DEF PendingReplyExpires
<1>9. ASSUME NEW n \in Node, NEW m \in Node, NEW match \in BOOLEAN, TxError(n, m, match)
      PROVE  Inv'
  <2>1. Fine(n, node[n], NotifyTxError(n, node[n], m, match))
    BY <1>1, NotifyTxErrorFine
  <2> QED BY <1>9, <2>1, RunInv DEF TxError, Fine
<1>10. ASSUME NEW n \in Node, InterfaceDown(n) PROVE Inv'
  <2>1. Good(n, NotifyInterfaceDown(node[n]))
    BY <1>1, NotifyInterfaceDownGood
  <2> QED BY <1>10, <2>1, RunInv DEF InterfaceDown
<1>11. ASSUME NEW n \in Node, InterfaceUp(n) PROVE Inv'
  <2>1. Good(n, NotifyInterfaceUp(node[n]))
    BY <1>1, NotifyInterfaceUpGood
  <2> QED BY <1>11, <2>1, RunInv DEF InterfaceUp
<1> QED BY <1>2, <1>3, <1>4, <1>5, <1>6, <1>7, <1>8, <1>9, <1>10, <1>11
        DEF Next, Hellos, InterfaceEvents, Failures, Others

\* In every network the nodes stay good and the messages proper.
THEOREM Invariant == Spec => []Inv
BY InitInv, NextInv, PTL DEF Spec

\* No node is told about itself or about the sender, and none has a route to
\* itself in a table, in a network of any size and shape.
THEOREM NoSelfRoutesHolds == Spec => []NoSelfRoutes
<1>1. Inv => NoSelfRoutes
  <2> SUFFICES ASSUME Inv PROVE NoSelfRoutes
    OBVIOUS
  <2>1. ASSUME NEW msg \in net, msg.type = "UPDATE" PROVE msg.dst \notin {msg.from, msg.to}
    BY <2>1 DEF Inv, Messages, Updates, HellosOf, Hello
  <2>2. ASSUME NEW n \in Node
        PROVE  node[n].ft[n] = NoRoute /\ \A m \in Node : node[n].dvt[m][n] = NoRoute
    BY DEF Inv, Good, Tables, Owned, Dest
  <2> QED BY <2>1, <2>2 DEF NoSelfRoutes
<1> QED BY <1>1, Invariant, PTL

-----------------------------------------------------------------------------
(* The instance NodeSpec(k) of BsdvrNode has a copy of every operator of   *)
(* BsdvrControlPlane that BsdvrNode uses.  Each lemma says of one operator *)
(* that the copy and the operator are the same.                            *)

(* Neighbours and queues. *)

\* Neighbors in NodeSpec(k).
LEMMA SameNeighbors ==
  ASSUME NEW k, NEW s
  PROVE  NodeSpec(k)!Neighbors(s) = Neighbors(s)
BY DEF NodeSpec!Neighbors, NodeSpec!Elems, Neighbors, Elems

\* Without in NodeSpec(k).
LEMMA SameWithout ==
  ASSUME NEW k, NEW q, NEW S
  PROVE  NodeSpec(k)!Without(q, S) = Without(q, S)
BY DEF NodeSpec!Without, Without

-----------------------------------------------------------------------------
(* Routes and tables. *)

\* ComputeRoute in NodeSpec(k).
LEMMA SameComputeRoute ==
  ASSUME NEW k, NEW s, NEW d
  PROVE  NodeSpec(k)!ComputeRoute(s, d) = ComputeRoute(s, d)
BY Zenon
DEF NodeSpec!ComputeRoute, NodeSpec!Visit, NodeSpec!RefreshForwardingTable,
    NodeSpec!isBetterRoute, NodeSpec!BSDVR_THRESHOLD, ComputeRoute, Visit,
    RefreshForwardingTable, isBetterRoute, BSDVR_THRESHOLD

\* ComputeForwardingTable in NodeSpec(k).
LEMMA SameComputeForwardingTable ==
  ASSUME NEW k, NEW s
  PROVE  NodeSpec(k)!ComputeForwardingTable(s) = ComputeForwardingTable(s)
BY SameComputeRoute
DEF NodeSpec!ComputeForwardingTable, NodeSpec!Dest, ComputeForwardingTable, Dest

\* RemoveFakeRoutes in NodeSpec(k).
LEMMA SameRemoveFakeRoutes ==
  ASSUME NEW k, NEW s, NEW m, NEW d, NEW rt
  PROVE  NodeSpec(k)!RemoveFakeRoutes(s, m, d, rt) = RemoveFakeRoutes(s, m, d, rt)
<1>1. NodeSpec(k)!FakeDsts(s, m, d, rt) = FakeDsts(s, m, d, rt)
  BY SameNeighbors DEF NodeSpec!FakeDsts, NodeSpec!Dest, FakeDsts, Dest
<1>2. \A i, c : NodeSpec(k)!Erased(s, i, c) = Erased(s, i, c)
  BY SameNeighbors DEF NodeSpec!Erased, Erased
<1> QED BY <1>1, <1>2 DEF NodeSpec!RemoveFakeRoutes, NodeSpec!Dest, RemoveFakeRoutes, Dest

\* UpdateDistanceVectorTable in NodeSpec(k).
LEMMA SameUpdateDistanceVectorTable ==
  ASSUME NEW k, NEW s, NEW m, NEW d, NEW rt
  PROVE  NodeSpec(k)!UpdateDistanceVectorTable(s, m, d, rt) =
         UpdateDistanceVectorTable(s, m, d, rt)
BY SameNeighbors, SameRemoveFakeRoutes
DEF NodeSpec!UpdateDistanceVectorTable, UpdateDistanceVectorTable

-----------------------------------------------------------------------------
(* Sending, link failure and the neighbour table. *)

\* SendTriggeredUpdateToNeighbor in NodeSpec(k).
LEMMA SameSendTriggeredUpdateToNeighbor ==
  ASSUME NEW k, NEW n, NEW s, NEW m
  PROVE  NodeSpec(k)!SendTriggeredUpdateToNeighbor(n, s, m) =
         SendTriggeredUpdateToNeighbor(n, s, m)
BY DEF NodeSpec!SendTriggeredUpdateToNeighbor, NodeSpec!SendUpdate, NodeSpec!Update,
       NodeSpec!Dest, SendTriggeredUpdateToNeighbor, SendUpdate, Update, Dest

\* Changes in NodeSpec(k).
LEMMA SameChanges ==
  ASSUME NEW k, NEW n, NEW s, NEW t
  PROVE  NodeSpec(k)!Changes(n, s, t) = Changes(n, s, t)
BY DEF NodeSpec!Changes, NodeSpec!Dest, Changes, Dest

\* SendTriggeredUpdateChangesToNeighbors in NodeSpec(k).
LEMMA SameSendTriggeredUpdateChangesToNeighbors ==
  ASSUME NEW k, NEW n, NEW s, NEW c, NEW nex
  PROVE  NodeSpec(k)!SendTriggeredUpdateChangesToNeighbors(n, s, c, nex) =
         SendTriggeredUpdateChangesToNeighbors(n, s, c, nex)
BY SameNeighbors
DEF NodeSpec!SendTriggeredUpdateChangesToNeighbors, NodeSpec!SendUpdate, NodeSpec!Update,
    SendTriggeredUpdateChangesToNeighbors, SendUpdate, Update

\* SendUpdateOnLinkFailure in NodeSpec(k).
LEMMA SameSendUpdateOnLinkFailure ==
  ASSUME NEW k, NEW n, NEW s, NEW m
  PROVE  NodeSpec(k)!SendUpdateOnLinkFailure(n, s, m) = SendUpdateOnLinkFailure(n, s, m)
BY SameUpdateDistanceVectorTable, SameComputeForwardingTable, SameChanges,
   SameSendTriggeredUpdateChangesToNeighbors
DEF NodeSpec!SendUpdateOnLinkFailure, SendUpdateOnLinkFailure

\* Purge in NodeSpec(k).
LEMMA SamePurge ==
  ASSUME NEW k, NEW n, NEW s
  PROVE  NodeSpec(k)!Purge(n, s) = Purge(n, s)
BY ZenonT(40), SameSendUpdateOnLinkFailure, SameWithout
DEF NodeSpec!Purge, Purge

\* NeighborUpdate in NodeSpec(k).
LEMMA SameNeighborUpdate ==
  ASSUME NEW k, NEW n, NEW s, NEW m
  PROVE  NodeSpec(k)!NeighborUpdate(n, s, m) = NeighborUpdate(n, s, m)
BY SameNeighbors, SamePurge
DEF NodeSpec!NeighborUpdate, NeighborUpdate

-----------------------------------------------------------------------------
(* Pending replies. *)

\* MayReply in NodeSpec(k).
LEMMA SameMayReply ==
  ASSUME NEW k, NEW s, NEW m, NEW d
  PROVE  NodeSpec(k)!MayReply(s, m, d) = MayReply(s, m, d)
BY SameNeighbors
DEF NodeSpec!MayReply, MayReply

\* Enqueue in NodeSpec(k).
LEMMA SameEnqueue ==
  ASSUME NEW k, NEW n, NEW s, NEW e
  PROVE  NodeSpec(k)!Enqueue(n, s, e) = Enqueue(n, s, e)
BY SameWithout, SameMayReply
DEF NodeSpec!Enqueue, NodeSpec!Elems, NodeSpec!MakeRoom, NodeSpec!SendUpdate,
    NodeSpec!Update, Enqueue, Elems, MakeRoom, SendUpdate, Update

\* RetransmitToNeighbor in NodeSpec(k).
LEMMA SameRetransmitToNeighbor ==
  ASSUME NEW k, NEW n, NEW s, NEW m, NEW d, NEW h
  PROVE  NodeSpec(k)!RetransmitToNeighbor(n, s, m, d, h) =
         RetransmitToNeighbor(n, s, m, d, h)
BY SameMayReply, SameEnqueue
DEF NodeSpec!RetransmitToNeighbor, NodeSpec!SendUpdate, NodeSpec!Update,
    RetransmitToNeighbor, SendUpdate, Update

-----------------------------------------------------------------------------
(* Handlers. *)

\* ProcessHello in NodeSpec(k).
LEMMA SameProcessHello ==
  ASSUME NEW k, NEW n, NEW s, NEW m
  PROVE  NodeSpec(k)!ProcessHello(n, s, m) = ProcessHello(n, s, m)
BY SameNeighborUpdate, SameComputeForwardingTable, SameSendTriggeredUpdateToNeighbor
DEF NodeSpec!ProcessHello, NodeSpec!DirectRoute, ProcessHello, DirectRoute

\* RecvUpdate in NodeSpec(k).
LEMMA SameRecvUpdate ==
  ASSUME NEW k, NEW n, NEW s, NEW m, NEW d, NEW h, NEW st
  PROVE  NodeSpec(k)!RecvUpdate(n, s, m, d, h, st) = RecvUpdate(n, s, m, d, h, st)
BY ZenonT(40), SameUpdateDistanceVectorTable, SameComputeForwardingTable, SameRetransmitToNeighbor,
   SameChanges, SameSendTriggeredUpdateChangesToNeighbors
DEF NodeSpec!RecvUpdate, NodeSpec!HopCount, RecvUpdate, HopCount

\* NTimerExpire in NodeSpec(k).
LEMMA SameNTimerExpire ==
  ASSUME NEW k, NEW n, NEW s
  PROVE  NodeSpec(k)!NTimerExpire(n, s) = NTimerExpire(n, s)
BY SamePurge
DEF NodeSpec!NTimerExpire, NTimerExpire

\* HelloTimerExpire in NodeSpec(k).
LEMMA SameHelloTimerExpire ==
  ASSUME NEW k, NEW n, NEW s, NEW r
  PROVE  NodeSpec(k)!HelloTimerExpire(n, s, r) = HelloTimerExpire(n, s, r)
BY SamePurge
DEF NodeSpec!HelloTimerExpire, NodeSpec!Hello, HelloTimerExpire, Hello

\* NotifyTxError in NodeSpec(k).
LEMMA SameNotifyTxError ==
  ASSUME NEW k, NEW n, NEW s, NEW m, NEW match
  PROVE  NodeSpec(k)!NotifyTxError(n, s, m, match) = NotifyTxError(n, s, m, match)
BY SameNeighbors, SamePurge
DEF NodeSpec!NotifyTxError, NotifyTxError

\* NotifyInterfaceDown in NodeSpec(k).
LEMMA SameNotifyInterfaceDown ==
  ASSUME NEW k, NEW s
  PROVE  NodeSpec(k)!NotifyInterfaceDown(s) = NotifyInterfaceDown(s)
BY DEF NodeSpec!NotifyInterfaceDown, NodeSpec!Dest, NotifyInterfaceDown, Dest

\* NotifyInterfaceUp in NodeSpec(k).
LEMMA SameNotifyInterfaceUp ==
  ASSUME NEW k, NEW s
  PROVE  NodeSpec(k)!NotifyInterfaceUp(s) = NotifyInterfaceUp(s)
BY DEF NodeSpec!NotifyInterfaceUp, NodeSpec!DirectRoute, NotifyInterfaceUp, DirectRoute

\* InitialState in NodeSpec(k).
LEMMA SameInitialState ==
  ASSUME NEW k
  PROVE  NodeSpec(k)!InitialState = InitialState
BY SameNotifyInterfaceUp
DEF NodeSpec!InitialState, NodeSpec!Dest, InitialState, Dest

-----------------------------------------------------------------------------
(* Every node of the network behaves as BsdvrNode. *)

\* The step of a node that runs a handler is a step of that node alone.
LEMMA RunStep ==
  ASSUME Inv, NEW n \in Node, NEW r, Run(n, r), NEW k \in Node, node'[k] # node[k]
  PROVE  k = n /\ node'[k] = r.s
<1>1. node' = [node EXCEPT ![n] = r.s] /\ node = [m \in Node |-> node[m]]
  BY DEF Run, Inv
<1> QED BY <1>1

\* What changes node k in the network is something that BsdvrNode's environment,
\* its timers or its interface may do to it.
LEMMA NodeStep ==
  ASSUME Inv, Next, NEW k \in Node, node'[k] # node[k]
  PROVE  NodeSpec(k)!Next
<1>1. ASSUME NEW msg \in net, DeliverHello(msg) PROVE NodeSpec(k)!Next
  <2>1. msg.type = "HELLO" /\ msg \in Messages
    BY <1>1 DEF DeliverHello, Inv
  <2>2. msg.to \in Node /\ msg.from \in Node \ {msg.to}
    BY <2>1 DEF Messages, Updates, HellosOf, Hello
  <2>3. k = msg.to /\ node'[k] = ProcessHello(msg.to, node[msg.to], msg.from).s
    BY <1>1, <2>2, RunStep DEF DeliverHello
  <2>4. NodeSpec(k)!ReceiveHello(msg.from) /\ msg.from \in NodeSpec(k)!Peer
    BY <1>1, <2>2, <2>3, SameProcessHello
       DEF DeliverHello, NodeSpec!ReceiveHello, NodeSpec!Peer
  <2> QED BY <2>4 DEF NodeSpec!Next, NodeSpec!OtherEvent
<1>2. ASSUME NEW msg \in net, DeliverUpdate(msg) PROVE NodeSpec(k)!Next
  <2>1. msg.type = "UPDATE" /\ msg \in Messages
    BY <1>2 DEF DeliverUpdate, Inv
  <2>2. /\ msg.to \in Node /\ msg.from \in Node \ {msg.to}
        /\ msg.dst \in Dest \ {msg.to, msg.from}
        /\ msg.hops \in 0..255 /\ msg.state \in RouteState
    BY <2>1 DEF Messages, Updates, HellosOf, Hello
  <2>3. /\ k = msg.to
        /\ node'[k] = RecvUpdate(msg.to, node[msg.to], msg.from, msg.dst, msg.hops, msg.state).s
    BY <1>2, <2>2, RunStep DEF DeliverUpdate
  <2>4. /\ NodeSpec(k)!ReceiveUpdate(msg.from, msg.dst, msg.hops, msg.state)
        /\ msg.from \in NodeSpec(k)!Peer
    BY <1>2, <2>2, <2>3, SameRecvUpdate
       DEF DeliverUpdate, NodeSpec!ReceiveUpdate, NodeSpec!Peer
  <2>5. /\ msg.hops \in 0..255 /\ msg.state \in NodeSpec(k)!RouteState
        /\ msg.dst \in NodeSpec(k)!Dest \ {k, msg.from}
    BY <2>2, <2>3 DEF NodeSpec!RouteState, NodeSpec!Dest, RouteState, Dest
  <2>6. NodeSpec(k)!ReceiveSomeUpdate
    BY <2>4, <2>5 DEF NodeSpec!ReceiveSomeUpdate
  <2> QED BY <2>6 DEF NodeSpec!Next
<1>3. ASSUME NEW n \in Node, HelloTimer(n) PROVE NodeSpec(k)!Next
  <2>1. k = n /\ node'[k] = HelloTimerExpire(n, node[n], InRange[n]).s
    BY <1>3, RunStep DEF HelloTimer
  <2>2. HelloTimerExpire(n, node[n], InRange[n]).s = HelloTimerExpire(n, node[n], {}).s
    BY DEF HelloTimerExpire
  <2> QED BY <1>3, <2>1, <2>2, SameHelloTimerExpire
          DEF HelloTimer, NodeSpec!HelloTimer, NodeSpec!Next, NodeSpec!OtherEvent
<1>4. ASSUME NEW n \in Node, NTimer(n) PROVE NodeSpec(k)!Next
  <2>1. k = n /\ node'[k] = NTimerExpire(n, node[n]).s
    BY <1>4, RunStep DEF NTimer
  <2> QED BY <1>4, <2>1, SameNTimerExpire
          DEF NTimer, NodeSpec!NTimer, NodeSpec!Next, NodeSpec!OtherEvent
<1>5. ASSUME NEW n \in Node, NEW m \in Node, NeighborExpires(n, m) PROVE NodeSpec(k)!Next
  <2>1. k = n /\ node'[k] = [node[n] EXCEPT !.expired = @ \cup {m}]
    BY <1>5, RunStep DEF NeighborExpires
  <2>2. m \in Neighbors(node[k]) \ node[k].expired
    BY <1>5, <2>1 DEF NeighborExpires
  <2>3. m \in NodeSpec(k)!Peer
    BY <2>2 DEF Inv, Good, Tables, NodeSpec!Peer
  <2>4. NodeSpec(k)!NeighborExpires(m)
    BY <2>1, <2>2, SameNeighbors DEF NodeSpec!NeighborExpires
  <2> QED BY <2>3, <2>4 DEF NodeSpec!Next, NodeSpec!OtherEvent
<1>6. ASSUME NEW n \in Node, NEW e \in PendingReply, PendingReplyExpires(n, e)
      PROVE  NodeSpec(k)!Next
  <2>1. k = n /\ node'[k] = [node[n] EXCEPT !.late = @ \cup {e}]
    BY <1>6, RunStep DEF PendingReplyExpires
  <2>2. NodeSpec(k)!PendingReplyExpires(e)
    BY <1>6, <2>1 DEF PendingReplyExpires, NodeSpec!PendingReplyExpires, NodeSpec!Elems, Elems
  <2>3. e \in NodeSpec(k)!PendingReply
    BY DEF NodeSpec!PendingReply, NodeSpec!Dest, PendingReply, Dest
  <2> QED BY <2>2, <2>3 DEF NodeSpec!Next, NodeSpec!OtherEvent
<1>7. ASSUME NEW n \in Node, NEW m \in Node, NEW match \in BOOLEAN, TxError(n, m, match)
      PROVE  NodeSpec(k)!Next
  <2>1. k = n /\ node'[k] = NotifyTxError(n, node[n], m, match).s
    BY <1>7, RunStep DEF TxError
  <2>2. NodeSpec(k)!TxError(m, match) /\ m \in NodeSpec(k)!Peer
    BY <1>7, <2>1, SameNotifyTxError DEF TxError, NodeSpec!TxError, NodeSpec!Peer
  <2> QED BY <2>2 DEF NodeSpec!Next, NodeSpec!OtherEvent
<1>8. ASSUME NEW n \in Node, InterfaceDown(n) PROVE NodeSpec(k)!Next
  <2>1. k = n /\ node'[k] = NotifyInterfaceDown(node[n])
    BY <1>8, RunStep DEF InterfaceDown
  <2> QED BY <1>8, <2>1, SameNotifyInterfaceDown
          DEF InterfaceDown, NodeSpec!InterfaceDown, NodeSpec!Next, NodeSpec!InterfaceEvent
<1>9. ASSUME NEW n \in Node, InterfaceUp(n) PROVE NodeSpec(k)!Next
  <2>1. k = n /\ node'[k] = NotifyInterfaceUp(node[n])
    BY <1>9, RunStep DEF InterfaceUp
  <2> QED BY <1>9, <2>1, SameNotifyInterfaceUp
          DEF InterfaceUp, NodeSpec!InterfaceUp, NodeSpec!Next, NodeSpec!InterfaceEvent
<1> QED BY <1>1, <1>2, <1>3, <1>4, <1>5, <1>6, <1>7, <1>8, <1>9
        DEF Next, Hellos, InterfaceEvents, Failures, Others

\* BsdvrNode's environment covers everything that the nodes of a network do to
\* one of them, so what holds of BsdvrNode holds of every node of a network.
THEOREM NodesImplementNodeHolds == Spec => NodesImplementNode
<1>1. Init => \A n \in Node : NodeSpec(n)!Init
  BY SameInitialState DEF Init, NodeSpec!Init
<1>2. Inv /\ [Next]_vars =>
        [\A n \in Node : node'[n] # node[n] => NodeSpec(n)!Next]_vars
  BY NodeStep
<1> QED BY <1>1, <1>2, Invariant, PTL DEF Spec, NodesImplementNode

-----------------------------------------------------------------------------
(* Where the routes in a network come from.  R[n][d] stands for the routes   *)
(* to node d that node n may have.                                           *)

NetSound(R) ==
  /\ \A n \in Node : Sound(node[n], Linked(n), R[n])
  /\ \A msg \in net :
       /\ msg.to \in Linked(msg.from)
       /\ msg.type = "UPDATE" => Honest({msg}, Linked(msg.from), R[msg.from])

\* R has the direct routes over links, and the routes that the messages sent so
\* far make at their receivers.
Accounts(R) ==
  /\ \A n \in Node : \A m \in Linked(n) \cap Node : DirectRoute(m) \in R[n][m]
  /\ \A msg \in net : msg.type = "UPDATE" /\ msg.dst \in Node =>
       [hops |-> HopCount(msg.hops), next |-> msg.from, state |-> msg.state]
         \in R[msg.to][msg.dst]

LEMMA InitSound ==
  ASSUME Init, NEW R
  PROVE  NetSound(R)
BY InitialStateSound DEF Init, NetSound

\* One node runs a handler whose result is accounted for.
LEMMA RunSound ==
  ASSUME Inv, NEW R, NetSound(R), NEW n \in Node, NEW r, Run(n, r),
         Sound(r.s, Linked(n), R[n]),
         r.out \subseteq Updates(n) \cup {Hello(n, m) : m \in InRange[n]},
         Honest(r.out \cap Updates(n), Linked(n), R[n])
  PROVE  NetSound(R)'
<1>1. node' = [node EXCEPT ![n] = r.s] /\ node = [m \in Node |-> node[m]] /\ net' = net \cup r.out
  BY DEF Run, Inv
<1>2. ASSUME NEW m \in Node PROVE Sound(node'[m], Linked(m), R[m])
  BY <1>1 DEF NetSound
<1>3. ASSUME NEW msg \in r.out
      PROVE  /\ msg.to \in Linked(msg.from)
             /\ msg.type = "UPDATE" => Honest({msg}, Linked(msg.from), R[msg.from])
  <2>1. CASE msg \in Updates(n)
    BY <2>1 DEF Updates, Honest
  <2>2. CASE msg \in {Hello(n, m) : m \in InRange[n]}
    BY <2>2 DEF Hello, Linked
  <2> QED BY <2>1, <2>2
<1> QED BY <1>1, <1>2, <1>3 DEF NetSound

\* A handler that is Fine sends nothing but UPDATEs.
LEMMA RunProper ==
  ASSUME Inv, NEW R, NetSound(R), NEW n \in Node, NEW r, Run(n, r),
         r.out \subseteq Updates(n), Proper(r, Linked(n), R[n])
  PROVE  NetSound(R)'
<1>1. r.out \cap Updates(n) = r.out
  OBVIOUS
<1> QED BY <1>1, RunSound DEF Proper

\* Whatever happens in the network, no node makes a route up.
LEMMA NextSound ==
  ASSUME Inv, [Next]_vars, NEW R, NetSound(R), Accounts(R)
  PROVE  NetSound(R)'
<1>1. \A n \in Node : Good(n, node[n]) /\ Sound(node[n], Linked(n), R[n])
  BY DEF Inv, NetSound
<1>2. CASE UNCHANGED vars
  BY <1>2 DEF NetSound, vars
<1>3. ASSUME NEW msg \in net, DeliverHello(msg) PROVE NetSound(R)'
  <2> DEFINE n == msg.to
             m == msg.from
  <2>1. msg.type = "HELLO" /\ msg \in Messages
    BY <1>3 DEF DeliverHello, Inv
  <2>2. n \in Node /\ m \in Node \ {n}
    BY <2>1 DEF Messages, Updates, HellosOf, Hello
  <2>3. m \in Linked(n) /\ DirectRoute(m) \in R[n][m]
    <3>1. n \in Linked(m)
      BY DEF NetSound
    <3>2. m \in Linked(n)
      BY <2>2, <3>1 DEF Linked
    <3> QED BY <2>2, <3>2 DEF Accounts
  <2>4. Run(n, ProcessHello(n, node[n], m))
    BY <1>3 DEF DeliverHello
  <2> HIDE DEF n, m
  <2>5. Proper(ProcessHello(n, node[n], m), Linked(n), R[n])
    BY <1>1, <2>2, <2>3, ProcessHelloProper
  <2>6. ProcessHello(n, node[n], m).out \subseteq Updates(n)
    BY <1>1, <2>2, ProcessHelloFine DEF Fine
  <2> QED BY <2>2, <2>4, <2>5, <2>6, RunProper
<1>4. ASSUME NEW msg \in net, DeliverUpdate(msg) PROVE NetSound(R)'
  <2> DEFINE n == msg.to
             r == RecvUpdate(n, node[n], msg.from, msg.dst, msg.hops, msg.state)
  <2>1. msg.type = "UPDATE" /\ msg \in Messages /\ Run(n, r)
    BY <1>4 DEF DeliverUpdate, Inv
  <2>2. /\ n \in Node /\ msg.from \in Node \ {n}
        /\ msg.dst \in Dest \ {n, msg.from}
        /\ msg.hops \in 0..255 /\ msg.state \in RouteState
    BY <2>1 DEF Messages, Updates, HellosOf, Hello
  <2>3. msg.dst \in Node =>
          [hops |-> HopCount(msg.hops), next |-> msg.from, state |-> msg.state] \in R[n][msg.dst]
    BY <2>1 DEF Accounts
  <2>4. r.out \subseteq Updates(n)
    BY <1>1, <2>2, RecvUpdateFine DEF Fine
  <2>5. Proper(r, Linked(n), R[n])
    BY <1>1, <2>2, <2>3, RecvUpdateProper
  <2> HIDE DEF n, r
  <2> QED BY <2>1, <2>2, <2>4, <2>5, RunProper
<1>5. ASSUME NEW n \in Node, HelloTimer(n) PROVE NetSound(R)'
  <2> DEFINE r == HelloTimerExpire(n, node[n], InRange[n])
             p == Purge(n, node[n])
  <2>1. Proper(p, Linked(n), R[n])
    BY <1>1, PurgeProper DEF Good
  <2>2. r.out \subseteq Updates(n) \cup {Hello(n, m) : m \in InRange[n]}
    BY <1>1, HelloTimerExpireFine
  <2>3. r.s = p.s /\ r.out = p.out \cup {Hello(n, m) : m \in InRange[n]}
    BY DEF HelloTimerExpire
  <2>4. Run(n, r)
    BY <1>5 DEF HelloTimer
  <2> HIDE DEF r, p
  <2>5. r.out \cap Updates(n) \subseteq p.out
    BY <2>3 DEF Hello, Updates
  <2>6. Sound(r.s, Linked(n), R[n]) /\ Honest(r.out \cap Updates(n), Linked(n), R[n])
    BY <2>1, <2>3, <2>5 DEF Proper, Honest
  <2> QED BY <2>2, <2>4, <2>6, RunSound
<1>6. ASSUME NEW n \in Node, NTimer(n) PROVE NetSound(R)'
  <2>1. Fine(n, node[n], NTimerExpire(n, node[n]))
    BY <1>1, NTimerExpireFine
  <2>2. Proper(NTimerExpire(n, node[n]), Linked(n), R[n])
    BY <1>1, TimedPurgeProper
  <2> QED BY <1>6, <2>1, <2>2, RunProper DEF NTimer, Fine
<1>7. ASSUME NEW n \in Node, NEW m \in Node, NEW match \in BOOLEAN, TxError(n, m, match)
      PROVE  NetSound(R)'
  <2>1. Fine(n, node[n], NotifyTxError(n, node[n], m, match))
    BY <1>1, NotifyTxErrorFine
  <2>2. Proper(NotifyTxError(n, node[n], m, match), Linked(n), R[n])
    BY <1>1, TimedPurgeProper
  <2> QED BY <1>7, <2>1, <2>2, RunProper DEF TxError, Fine
<1>8. ASSUME NEW n \in Node, NEW t, Run(n, [s |-> t, out |-> {}]), Sound(t, Linked(n), R[n])
      PROVE  NetSound(R)'
  <2> DEFINE r == [s |-> t, out |-> {}]
  <2>1. r.out = {} /\ r.s = t
    OBVIOUS
  <2> HIDE DEF r
  <2>2. Proper(r, Linked(n), R[n])
    BY <1>8, <2>1 DEF Proper, Honest
  <2> QED BY <1>8, <2>1, <2>2, RunProper DEF r
<1>9. ASSUME NEW n \in Node, NEW m \in Node, NeighborExpires(n, m) PROVE NetSound(R)'
  <2> DEFINE t == [node[n] EXCEPT !.expired = @ \cup {m}]
  <2>1. node[n] \in NodeState
    BY <1>1 DEF Good, Tables
  <2>2. t.nb = node[n].nb /\ t.ft = node[n].ft /\ t.dvt = node[n].dvt
    BY <2>1 DEF NodeState
  <2>3. Run(n, [s |-> t, out |-> {}])
    BY <1>9 DEF NeighborExpires
  <2> HIDE DEF t
  <2>4. Sound(t, Linked(n), R[n])
    BY <1>1, <2>2 DEF Sound, Neighbors
  <2> QED BY <1>8, <2>3, <2>4
<1>10. ASSUME NEW n \in Node, NEW e \in PendingReply, PendingReplyExpires(n, e)
       PROVE  NetSound(R)'
  <2> DEFINE t == [node[n] EXCEPT !.late = @ \cup {e}]
  <2>1. node[n] \in NodeState
    BY <1>1 DEF Good, Tables
  <2>2. t.nb = node[n].nb /\ t.ft = node[n].ft /\ t.dvt = node[n].dvt
    BY <2>1 DEF NodeState
  <2>3. Run(n, [s |-> t, out |-> {}])
    BY <1>10 DEF PendingReplyExpires
  <2> HIDE DEF t
  <2>4. Sound(t, Linked(n), R[n])
    BY <1>1, <2>2 DEF Sound, Neighbors
  <2> QED BY <1>8, <2>3, <2>4
<1>11. ASSUME NEW n \in Node, InterfaceDown(n) PROVE NetSound(R)'
  BY <1>1, <1>8, <1>11, NotifyInterfaceSound DEF InterfaceDown
<1>12. ASSUME NEW n \in Node, InterfaceUp(n) PROVE NetSound(R)'
  BY <1>1, <1>8, <1>12, NotifyInterfaceSound DEF InterfaceUp
<1> QED BY <1>2, <1>3, <1>4, <1>5, <1>6, <1>7, <1>9, <1>10, <1>11, <1>12
        DEF Next, Hellos, InterfaceEvents, Failures, Others

-----------------------------------------------------------------------------
(* No node is ever said to be unreachable. *)

ActiveRoutes == [n \in Node |-> [d \in Node |-> {rt \in Entry : rt.state = "ACTIVE"}]]

\* The routes that ACTIVE routes make at the receivers of UPDATEs are ACTIVE.
LEMMA ActiveAccounts ==
  ASSUME Inv, NetSound(ActiveRoutes)
  PROVE  Accounts(ActiveRoutes)
<1>1. ASSUME NEW n \in Node, NEW m \in Linked(n) \cap Node
      PROVE  DirectRoute(m) \in ActiveRoutes[n][m]
  BY DEF ActiveRoutes, DirectRoute, Entry, Dest, RouteState
<1>2. ASSUME NEW msg \in net, msg.type = "UPDATE", msg.dst \in Node
      PROVE  [hops |-> HopCount(msg.hops), next |-> msg.from, state |-> msg.state]
               \in ActiveRoutes[msg.to][msg.dst]
  <2>1. msg \in Messages
    BY DEF Inv
  <2>2. /\ msg.to \in Node /\ msg.from \in Node
        /\ msg.hops \in 0..255 /\ msg.state \in RouteState
    BY <1>2, <2>1 DEF Messages, Updates, HellosOf, Hello
  <2>3. \E rt \in ActiveRoutes[msg.from][msg.dst] : msg.hops = rt.hops /\ msg.state = rt.state
    BY <1>2 DEF NetSound, Honest
  <2>4. msg.state = "ACTIVE"
    BY <1>2, <2>2, <2>3 DEF ActiveRoutes
  <2>5. HopCount(msg.hops) \in 0..255
    BY <2>2 DEF HopCount
  <2> QED BY <1>2, <2>2, <2>4, <2>5 DEF ActiveRoutes, Entry, Dest
<1> QED BY <1>1, <1>2 DEF Accounts

\* In a network of any size, whatever links and nodes fail, no table and no
\* message says that a node is unreachable: INACTIVE is never said of a node.
THEOREM NodesDoStayActive == Spec => []NodesStayActive
<1>1. Init => NetSound(ActiveRoutes)
  BY InitSound
<1>2. Inv /\ NetSound(ActiveRoutes) /\ [Next]_vars => NetSound(ActiveRoutes)'
  BY ActiveAccounts, NextSound
<1>3. Inv /\ NetSound(ActiveRoutes) => NodesStayActive
  <2> SUFFICES ASSUME Inv, NetSound(ActiveRoutes) PROVE NodesStayActive
    OBVIOUS
  <2>1. ASSUME NEW msg \in net, msg.type = "UPDATE", msg.dst \in Node
        PROVE  msg.state = "ACTIVE"
    <3>1. msg \in Messages
      BY DEF Inv
    <3>2. msg.from \in Node
      BY <3>1 DEF Messages, Updates, HellosOf, Hello
    <3>3. \E rt \in ActiveRoutes[msg.from][msg.dst] : msg.state = rt.state
      BY <2>1 DEF NetSound, Honest
    <3> QED BY <2>1, <3>2, <3>3 DEF ActiveRoutes
  <2>2. ASSUME NEW n \in Node, NEW d \in Node
        PROVE  Active(node[n].ft[d]) /\ \A m \in Node : Active(node[n].dvt[m][d])
    BY DEF NetSound, Sound, ActiveRoutes, Active
  <2> QED BY <2>1, <2>2 DEF NodesStayActive
<1> QED BY <1>1, <1>2, <1>3, Invariant, PTL DEF Spec

-----------------------------------------------------------------------------
(* No node is promised in fewer hops than it is away. *)

\* The nodes of x, and those one hop from them.
Near(x) == x \cup UNION {Linked(m) : m \in x}

LEMMA NearNodes ==
  ASSUME NEW x \in SUBSET Node
  PROVE  Near(x) \in SUBSET Node
<1>1. \A m \in x : Linked(m) \subseteq Node
  BY InRangeAssumption DEF Linked
<1> QED BY <1>1 DEF Near

\* The balls around n that Within grows.
LEMMA WithinRun ==
  ASSUME NEW n \in Node, NEW j \in Nat
  PROVE  \E ball :
           /\ ball[0] = {n} /\ Within(n, j) = ball[j]
           /\ \A i \in 1..j : ball[i] = Near(ball[i-1])
<1> DEFINE S == SUBSET Node
           c == {n}
           G == [i \in 1..j |-> [x \in S |-> Near(x)]]
           F(g) == [i \in 0..j |-> IF i = 0 THEN {n}
                                   ELSE g[i-1] \cup UNION {Linked(m) : m \in g[i-1]}]
           ball == CHOOSE g : g = F(g)
<1>1. Within(n, j) = ball[j]
  BY DEF Within
<1>2. c \in S /\ G \in [1..j -> [S -> S]]
  BY NearNodes
<1> HIDE DEF G, c, S
<1>3. PICK f : f \in Iterations(S, j, c, G)
  <2>1. Iterations(S, j, c, G) # {}
    BY <1>2, IterationExists
  <2> QED BY <2>1
<1>4. f = F(f)
  <2>1. f \in [0..j -> S] /\ f[0] = c /\ \A i \in 1..j : f[i] = G[i][f[i-1]]
    BY <1>3 DEF Iterations
  <2>2. ASSUME NEW i \in 0..j PROVE f[i] = F(f)[i]
    <3>1. CASE i = 0
      BY <2>1, <3>1 DEF c
    <3>2. CASE i # 0
      <4>1. i \in 1..j /\ i-1 \in 0..j
        BY <3>2
      <4>2. f[i-1] \in S
        BY <2>1, <4>1
      <4>3. f[i] = Near(f[i-1])
        BY <2>1, <4>1, <4>2 DEF G
      <4> QED BY <3>2, <4>3 DEF Near
    <3> QED BY <3>1, <3>2
  <2> QED BY <2>1, <2>2
<1> HIDE DEF F
<1>5. ball = F(ball)
  BY <1>4
<1> HIDE DEF ball
<1>6. ball[0] = {n}
  BY <1>5 DEF F
<1>7. ASSUME NEW i \in 1..j PROVE ball[i] = Near(ball[i-1])
  <2>1. i \in 0..j /\ i # 0
    OBVIOUS
  <2> QED BY <1>5, <2>1 DEF F, Near
<1> QED BY <1>1, <1>6, <1>7

\* A node over a link is within one hop.
LEMMA WithinOne ==
  ASSUME NEW n \in Node, NEW m \in Linked(n)
  PROVE  m \in Within(n, 1)
<1>1. PICK ball :
        /\ ball[0] = {n} /\ Within(n, 1) = ball[1]
        /\ \A i \in 1..1 : ball[i] = Near(ball[i-1])
  BY WithinRun
<1>2. ball[1] = Near({n})
  BY <1>1
<1> QED BY <1>1, <1>2 DEF Near

\* What is within j hops of a node over a link is within j+1 hops.
LEMMA WithinNext ==
  ASSUME NEW n \in Node, NEW m \in Linked(n), m \in Node, NEW j \in Nat
  PROVE  Within(m, j) \subseteq Within(n, j+1)
<1>1. PICK f :
        /\ f[0] = {m} /\ Within(m, j) = f[j]
        /\ \A i \in 1..j : f[i] = Near(f[i-1])
  BY WithinRun
<1>2. PICK g :
        /\ g[0] = {n} /\ Within(n, j+1) = g[j+1]
        /\ \A i \in 1..(j+1) : g[i] = Near(g[i-1])
  <2>1. j+1 \in Nat
    OBVIOUS
  <2> QED BY <2>1, WithinRun
<1> DEFINE T == [i \in 0..j |-> SUBSET g[i+1]]
<1>3. f[0] \in T[0]
  <2>1. 1 \in 1..(j+1) /\ 0 \in 0..j
    OBVIOUS
  <2>2. g[1] = Near({n})
    BY <1>2, <2>1
  <2>3. m \in g[1]
    BY <2>2 DEF Near
  <2> QED BY <1>1, <2>1, <2>3
<1>4. ASSUME NEW i \in 1..j, f[i-1] \in T[i-1] PROVE f[i] \in T[i]
  <2>1. i-1 \in 0..j /\ i \in 0..j /\ i+1 \in 1..(j+1) /\ i-1+1 = i /\ i+1-1 = i
    OBVIOUS
  <2>2. f[i-1] \subseteq g[i]
    BY <1>4, <2>1
  <2>3. f[i] = Near(f[i-1]) /\ g[i+1] = Near(g[i])
    BY <1>1, <1>2, <2>1
  <2>4. f[i] \subseteq g[i+1]
    BY <2>2, <2>3 DEF Near
  <2> QED BY <2>1, <2>4
<1>5. \A i \in 0..j : f[i] \in T[i]
  <2> HIDE DEF T
  <2> QED BY <1>3, <1>4, Invariance
<1>6. f[j] \subseteq g[j+1]
  <2>1. j \in 0..j
    OBVIOUS
  <2>2. T[j] = SUBSET g[j+1]
    BY <2>1
  <2> HIDE DEF T
  <2> QED BY <1>5, <2>1, <2>2
<1> QED BY <1>1, <1>2, <1>6

\* The routes that promise no less than the distance.
RealRoutes == [n \in Node |-> [d \in Node |-> {rt \in Entry : d \in Within(n, rt.hops)}]]

\* As long as no count is 255, the receiver of an UPDATE adds one hop to a true
\* promise, and is one hop further away.
LEMMA RealAccounts ==
  ASSUME Inv, CountsFit, NetSound(RealRoutes)
  PROVE  Accounts(RealRoutes)
<1>1. ASSUME NEW n \in Node, NEW m \in Linked(n) \cap Node
      PROVE  DirectRoute(m) \in RealRoutes[n][m]
  <2>1. DirectRoute(m) \in Entry /\ DirectRoute(m).hops = 1
    BY DEF DirectRoute, Entry, Dest, RouteState
  <2>2. m \in Within(n, 1)
    BY WithinOne
  <2> QED BY <2>1, <2>2 DEF RealRoutes
<1>2. ASSUME NEW msg \in net, msg.type = "UPDATE", msg.dst \in Node
      PROVE  [hops |-> HopCount(msg.hops), next |-> msg.from, state |-> msg.state]
               \in RealRoutes[msg.to][msg.dst]
  <2> DEFINE rt == [hops |-> HopCount(msg.hops), next |-> msg.from, state |-> msg.state]
  <2>1. msg \in Messages
    BY DEF Inv
  <2>2. /\ msg.to \in Node /\ msg.from \in Node
        /\ msg.hops \in 0..255 /\ msg.state \in RouteState
    BY <1>2, <2>1 DEF Messages, Updates, HellosOf, Hello
  <2>3. \E x \in RealRoutes[msg.from][msg.dst] : msg.hops = x.hops
    BY <1>2 DEF NetSound, Honest
  <2>4. msg.dst \in Within(msg.from, msg.hops)
    BY <1>2, <2>2, <2>3 DEF RealRoutes
  <2>5. msg.from \in Linked(msg.to)
    <3>1. msg.to \in Linked(msg.from)
      BY DEF NetSound
    <3> QED BY <2>2, <3>1 DEF Linked
  <2>6. HopCount(msg.hops) = msg.hops + 1 /\ msg.hops + 1 \in 0..255
    BY <1>2, <2>2 DEF CountsFit, HopCount
  <2>7. msg.dst \in Within(msg.to, msg.hops + 1)
    BY <2>2, <2>4, <2>5, WithinNext
  <2>8. rt \in Entry /\ rt.hops = msg.hops + 1
    BY <2>2, <2>6 DEF Entry, Dest
  <2> QED BY <1>2, <2>2, <2>7, <2>8 DEF RealRoutes
<1> QED BY <1>1, <1>2 DEF Accounts

\* Messages are not forgotten.
LEMMA NetGrows ==
  ASSUME [Next]_vars
  PROVE  net \subseteq net'
BY DEF Next, vars, Hellos, InterfaceEvents, Failures, Others, DeliverHello, DeliverUpdate,
       HelloTimer, NTimer, NeighborExpires, PendingReplyExpires, TxError, InterfaceDown,
       InterfaceUp, Run

\* In a network of any size and shape, whatever is lost, delayed or repeated, and
\* whatever fails: as long as hop counts fit, no table or message promises a node
\* in fewer hops than it is away.
THEOREM HopsAreReal == Spec => []HopsReal
<1> DEFINE Real == CountsFit => NetSound(RealRoutes)
<1>1. Init => Real
  BY InitSound
<1>2. Inv /\ Real /\ [Next]_vars => Real'
  <2> SUFFICES ASSUME Inv, Real, [Next]_vars, CountsFit'
               PROVE  NetSound(RealRoutes)'
    OBVIOUS
  <2>1. CountsFit
    BY NetGrows DEF CountsFit
  <2>2. Accounts(RealRoutes) /\ NetSound(RealRoutes)
    BY <2>1, RealAccounts
  <2> QED BY <2>2, NextSound
<1>3. Inv /\ Real => HopsReal
  <2> SUFFICES ASSUME Inv, NetSound(RealRoutes), CountsFit PROVE HopsReal
    BY DEF HopsReal
  <2>1. ASSUME NEW msg \in net, msg.type = "UPDATE", msg.dst \in Node
        PROVE  msg.dst \in Within(msg.from, msg.hops)
    <3>1. msg \in Messages
      BY DEF Inv
    <3>2. msg.from \in Node
      BY <2>1, <3>1 DEF Messages, Updates, HellosOf, Hello
    <3>3. \E rt \in RealRoutes[msg.from][msg.dst] : msg.hops = rt.hops
      BY <2>1 DEF NetSound, Honest
    <3> QED BY <2>1, <3>2, <3>3 DEF RealRoutes
  <2>2. ASSUME NEW n \in Node, NEW d \in Node, node[n].ft[d] # NoRoute
        PROVE  d \in Within(n, node[n].ft[d].hops)
    BY <2>2 DEF NetSound, Sound, RealRoutes
  <2> QED BY <2>1, <2>2 DEF HopsReal
<1> QED BY <1>1, <1>2, <1>3, Invariant, PTL DEF Spec
=============================================================================
