----------------------------- MODULE BsdvrNode -----------------------------
(***************************************************************************)
(* One BSDVR node in an arbitrary environment: any neighbour may send any  *)
(* HELLO or UPDATE at any time, time may pass at any point, frames may be  *)
(* lost, and the interface may go down and come up.  The environment is    *)
(* held to one thing, which BsdvrNetwork shows the protocol respects: an   *)
(* UPDATE is about neither its sender nor its receiver.                    *)
(***************************************************************************)
EXTENDS BsdvrControlPlane

CONSTANTS
  self,       \* this node's main address
  HopCounts   \* the hop counts the environment advertises

ASSUME SelfAssumption == self \in Node
ASSUME HopCountsAssumption == HopCounts \subseteq 0..255

VARIABLE node  \* the state of the RoutingProtocol object, a NodeState

Peer == Node \ {self}

Init == node = InitialState

\* A HELLO from m arrives on the open socket.
ReceiveHello(m) ==
  /\ node.up
  /\ node' = ProcessHello(self, node, m).s

\* An UPDATE from m arrives: m reaches d in hops hops.
ReceiveUpdate(m, d, hops, state) ==
  /\ node.up
  /\ node' = RecvUpdate(self, node, m, d, hops, state).s

\* m has not been heard of for a hello interval.
NeighborExpires(m) ==
  /\ m \in Neighbors(node) \ node.expired
  /\ node' = [node EXCEPT !.expired = @ \cup {m}]

\* A pending reply has waited for MaxPRQueueTime.
PendingReplyExpires(e) ==
  /\ e \in Elems(node.prq) \ node.late
  /\ node' = [node EXCEPT !.late = @ \cup {e}]

NTimer ==
  /\ node.ntimer
  /\ node' = NTimerExpire(self, node).s

HelloTimer ==
  /\ node.htimer
  /\ node' = HelloTimerExpire(self, node, {}).s

\* The MAC gives up on a frame to m, and the trace source DroppedMpdu is
\* connected while the interface is up.
TxError(m, match) ==
  /\ node.up
  /\ node' = NotifyTxError(self, node, m, match).s

InterfaceDown ==
  /\ node.up
  /\ node' = NotifyInterfaceDown(node)

InterfaceUp ==
  /\ ~node.up
  /\ node' = NotifyInterfaceUp(node)

ReceiveSomeUpdate ==
  \E m \in Peer, hops \in HopCounts, state \in RouteState :
    \E d \in Dest \ {self, m} : ReceiveUpdate(m, d, hops, state)

InterfaceEvent == InterfaceDown \/ InterfaceUp

OtherEvent ==
  \/ \E m \in Peer : ReceiveHello(m)
  \/ \E m \in Peer : NeighborExpires(m)
  \/ \E e \in PendingReply : PendingReplyExpires(e)
  \/ NTimer
  \/ HelloTimer
  \/ \E m \in Peer, match \in BOOLEAN : TxError(m, match)

Next == OtherEvent \/ InterfaceEvent \/ ReceiveSomeUpdate

Spec == Init /\ [][Next]_node

-----------------------------------------------------------------------------
(* Correctness. *)

\* The node's state is a NodeState: hop counts stay in a byte, next hops are
\* addresses, and every table keeps its shape whatever order handlers run in.
TypeOK == node \in NodeState

\* Every installed route except the node's own broadcast record rests on a row
\* of its next hop's table: RemoveFakeRoutes never takes away the row under an
\* installed route, so RefreshForwardingTable always finds it.
RoutesBacked == Backed(node)

\* A row of m's table names m as the next hop and is never about this node, so a
\* route copied from it forwards to the node that advertised it; and m's row
\* about itself is the ACTIVE one-hop route as long as it exists, because
\* SendUpdateOnLinkFailure runs while the failed link is still in m_nb and
\* UpdateDistanceVectorTable then stores nothing.
RowsOwned == Owned(self, node)

\* m_nb lists a neighbour once, all of them have a table, only listed neighbours
\* can be expired, and while there is a neighbour m_ntimer runs, although Purge
\* returns on an empty m_nb without scheduling it again.
NeighborsWatched == Watched(self, node)

\* The pending reply queue holds at most MaxPRQueueLen entries, no entry twice,
\* and never a reply to a neighbour about that neighbour or this node.
PendingRepliesBounded == Queued(self, node)

\* Whenever ComputeForwardingTable runs, it settles: of a destination that some
\* neighbour has a row for, the installed route agrees with its next hop's row,
\* and by isBetterRoute no neighbour's row would replace it in another pass.
ComputeSettles ==
  LET t == ComputeForwardingTable(node)
  IN  \A m \in Neighbors(t), d \in Dest : t.dvt[m][d] # NoRoute =>
        /\ t.ft[d] = RefreshForwardingTable(t, d, t.ft[d])
        /\ ~isBetterRoute(t.dvt[m][d], t.ft[d])

\* A step of the node never uninstalls a route, except by taking the interface
\* down: link failures, expiries and INACTIVE updates only change routes.
RoutesPersist ==
  [][\A d \in Dest : node.ft[d] # NoRoute /\ node'.ft[d] = NoRoute => ~node'.up]_node

-----------------------------------------------------------------------------
(* What the repository says and the code does not do. *)

\* bsdvr.cc:991: "the best routes are computed and added/updated in the
\* forwarding table".  An ACTIVE route that ComputeForwardingTable leaves
\* installed is no longer than the ACTIVE row of any current neighbour.
BestRoutesInstalled ==
  LET t == ComputeForwardingTable(node)
  IN  \A m \in Neighbors(t), d \in Node :
        /\ t.dvt[m][d] # NoRoute /\ t.dvt[m][d].state = "ACTIVE"
        /\ t.ft[d] # NoRoute /\ t.ft[d].state = "ACTIVE"
        => t.ft[d].hops <= t.dvt[m][d].hops

\* bsdvr.cc:992: "the new changes in forwarding table are extracted and
\* broadcasted to current neighbors".  A destination whose installed route gets
\* another hop count or state in ComputeForwardingTable is in the list of changes.
ChangesExtracted ==
  LET t == ComputeForwardingTable(node)
  IN  \A d \in Node \ {self} :
        /\ node.ft[d] # NoRoute
        /\ <<node.ft[d].hops, node.ft[d].state>> # <<t.ft[d].hops, t.ft[d].state>>
        => d \in Changes(self, node, t)

\* bsdvr.h:290: "Send Update(s) to other acive neighbor(s) when link fails with a
\* neighbor".  When m_ntimer finds the link to m down and m is reached through
\* it, every remaining neighbour is sent an UPDATE about m.
LinkFailureAnnounced ==
  \A m \in node.expired \ Filtered, ne \in Neighbors(node) \ node.expired :
    node.ft[m] # NoRoute /\ node.ft[m].next = m =>
      \E u \in NTimerExpire(self, node).out : u.to = ne /\ u.dst = m

\* bsdvr.h:177: "Every HelloInterval the node checks whether it has sent a
\* broadcast".  With HELLOs enabled, a node that is up has m_htimer scheduled.
HelloTimerRuns == EnableHello /\ node.up => node.htimer
=============================================================================
