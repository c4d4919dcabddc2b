---------------------------- MODULE BsdvrNetwork ----------------------------
(***************************************************************************)
(* BSDVR nodes that exchange HELLOs and UPDATEs over an unreliable         *)
(* datagram network.  The network keeps every message that was sent and    *)
(* delivers any of them at any time: so a message may be lost (it is never *)
(* delivered), delayed, overtaken or delivered more than once.  HELLOs     *)
(* reach the nodes in radio range.                                         *)
(***************************************************************************)
EXTENDS BsdvrControlPlane

CONSTANT InRange  \* InRange[n]: the nodes that hear n's broadcasts

ASSUME InRangeAssumption ==
  /\ InRange \in [Node -> SUBSET Node]
  /\ \A n \in Node : n \notin InRange[n]

VARIABLES
  node,   \* the state of every node
  net     \* the messages sent so far

vars == <<node, net>>

Init == node = [n \in Node |-> InitialState] /\ net = {}

\* Node n runs a handler with result r.
Run(n, r) ==
  /\ node' = [node EXCEPT ![n] = r.s]
  /\ net' = net \cup r.out

\* RecvBsdv: a message reaches an open socket; the slip lets it reach a closed one.
DeliverHelloAnyTime(msg) ==
  /\ msg.type = "HELLO"
  /\ Run(msg.to, ProcessHello(msg.to, node[msg.to], msg.from))

DeliverHello(msg) ==
  /\ msg.type = "HELLO" /\ node[msg.to].up
  /\ Run(msg.to, ProcessHello(msg.to, node[msg.to], msg.from))

DeliverUpdate(msg) ==
  /\ msg.type = "UPDATE" /\ node[msg.to].up
  /\ Run(msg.to, RecvUpdate(msg.to, node[msg.to], msg.from, msg.dst, msg.hops, msg.state))

HelloTimer(n) ==
  /\ node[n].htimer
  /\ Run(n, HelloTimerExpire(n, node[n], InRange[n]))

NTimer(n) ==
  /\ node[n].ntimer
  /\ Run(n, NTimerExpire(n, node[n]))

NeighborExpires(n, m) ==
  /\ m \in Neighbors(node[n]) \ node[n].expired
  /\ Run(n, [s |-> [node[n] EXCEPT !.expired = @ \cup {m}], out |-> {}])

PendingReplyExpires(n, e) ==
  /\ e \in Elems(node[n].prq) \ node[n].late
  /\ Run(n, [s |-> [node[n] EXCEPT !.late = @ \cup {e}], out |-> {}])

TxError(n, m, match) ==
  /\ node[n].up /\ m # n
  /\ Run(n, NotifyTxError(n, node[n], m, match))

InterfaceDown(n) ==
  /\ node[n].up
  /\ Run(n, [s |-> NotifyInterfaceDown(node[n]), out |-> {}])

InterfaceUp(n) ==
  /\ ~node[n].up
  /\ Run(n, [s |-> NotifyInterfaceUp(node[n]), out |-> {}])

Hellos == \E n \in Node : HelloTimer(n)

InterfaceEvents == \E n \in Node : InterfaceDown(n) \/ InterfaceUp(n)

\* A neighbour is given up: silence, or a frame the MAC could not deliver.
Failures ==
  \/ \E n, m \in Node : NeighborExpires(n, m)
  \/ \E n, m \in Node, match \in BOOLEAN : TxError(n, m, match)

Others ==
  \/ \E msg \in net : DeliverHello(msg) \/ DeliverUpdate(msg)
  \/ \E n \in Node : NTimer(n)
  \/ \E n \in Node, e \in PendingReply : PendingReplyExpires(n, e)

Next == Hellos \/ InterfaceEvents \/ Failures \/ Others

Spec == Init /\ [][Next]_vars

-----------------------------------------------------------------------------

\* No node is told about itself, or about its neighbour by that neighbour, and so
\* no table of a node has a route to that node, although updates are sent on
\* five paths (new neighbour, changed routes, link failure, immediate and
\* pending replies) that filter the destination in different ways.
NoSelfRoutes ==
  /\ \A msg \in net : msg.type = "UPDATE" => msg.dst \notin {msg.from, msg.to}
  /\ \A n \in Node : /\ node[n].ft[n] = NoRoute
                     /\ \A m \in Node : node[n].dvt[m][n] = NoRoute

Active(rt) == rt = NoRoute \/ rt.state = "ACTIVE"

\* The binary state never leaves ACTIVE for a node: whatever links and nodes
\* fail, no table and no message says that a node is unreachable.  Only the
\* broadcast record, whose next hop has no table, becomes INACTIVE.
NodesStayActive ==
  /\ \A msg \in net : msg.type = "UPDATE" /\ msg.dst \in Node => msg.state = "ACTIVE"
  /\ \A n, d \in Node : /\ Active(node[n].ft[d])
                        /\ \A m \in Node : Active(node[n].dvt[m][d])

\* The nodes that n hears or is heard by.
Linked(n) == InRange[n] \cup {m \in Node : n \in InRange[m]}

\* The nodes within k hops of n.
Within(n, k) ==
  LET ball[i \in 0..k] ==
        IF i = 0 THEN {n} ELSE ball[i-1] \cup UNION {Linked(m) : m \in ball[i-1]}
  IN  ball[k]

\* No node has advertised the largest hop count that a uint8_t holds.
CountsFit == \A msg \in net : msg.type = "UPDATE" /\ msg.dst \in Node => msg.hops < 255

\* No table or message promises a node in fewer hops than it is away, although
\* rows outlive the links they were learned over and come back after restarts.
HopsReal ==
  CountsFit =>
    /\ \A msg \in net : msg.type = "UPDATE" /\ msg.dst \in Node =>
         msg.dst \in Within(msg.from, msg.hops)
    /\ \A n, d \in Node : LET rt == node[n].ft[d] IN rt # NoRoute =>
         d \in Within(n, rt.hops)

\* Every node, seen on its own, behaves as BsdvrNode says: what the other nodes
\* do to it through the network is what BsdvrNode's environment may do.
NodeSpec(n) == INSTANCE BsdvrNode WITH self <- n, HopCounts <- 0..255, node <- node[n]

NodesImplementNode ==
  /\ \A n \in Node : NodeSpec(n)!Init
  /\ [][\A n \in Node : node'[n] # node[n] => NodeSpec(n)!Next]_vars
=============================================================================
