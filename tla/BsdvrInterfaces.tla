-------------------------- MODULE BsdvrInterfaces --------------------------
(***************************************************************************)
(* One BSDVR node with several interfaces and addresses: the sockets that  *)
(* NotifyInterfaceUp, NotifyInterfaceDown, NotifyAddAddress and            *)
(* NotifyRemoveAddress open and close, and the handlers of                 *)
(* BsdvrControlPlane run over them.  Here a RoutingTableEntry also has its *)
(* m_iface, and SendUpdate needs a socket for it: NS_ASSERT (socket), or   *)
(* the program ends.                                                       *)
(*                                                                         *)
(* Interfaces share one subnet.  What ns-3 does is modelled as far as the  *)
(* code relies on it: an address is removed before, and added before, the  *)
(* node is notified; binding a second socket to an address fails, and      *)
(* closing a socket frees its address; a closed or unbound socket receives *)
(* nothing; and looking up an address that no interface has ends the       *)
(* program.  An interface without an address is neither taken up nor down, *)
(* for Ipv4Interface::GetAddress asserts that there is one.                *)
(*                                                                         *)
(* OpenedIfBound, ClosedUnseen, DeleteAllRoutesButBroadcast and            *)
(* LastSocketKeepsNeighbors are the operators after them with a slip a     *)
(* programmer could make; nothing uses them.                               *)
(***************************************************************************)
EXTENDS BsdvrControlPlane, FiniteSets

CONSTANTS
  Interface,
  Address,    \* this node's addresses
  On,         \* the interface an address may be assigned to
  NoAddress,  \* no address
  HopCounts   \* the hop counts the environment advertises

ASSUME AddressAssumption == Address \subseteq Node
ASSUME OnAssumption == On \in [Address -> Interface]
ASSUME NoAddressAssumption == NoAddress \notin Address
ASSUME HopCountsAssumption == HopCounts \subseteq 0..255

Remote == Node \ Address

\* An entry with its m_iface.
IfaceEntry == [hops : 0..255, next : Dest, state : RouteState, iface : Address]

ASSUME IfaceNoRouteAssumption == NoRoute \notin IfaceEntry

Via(rt, a) == [hops |-> rt.hops, next |-> rt.next, state |-> rt.state, iface |-> a]

VARIABLES
  node,    \* the RoutingProtocol object, as in BsdvrControlPlane
  main,    \* m_mainAddress
  addrs,   \* the addresses of each interface, in their order
  up,      \* the interfaces that are up
  uni,     \* the addresses m_socketAddresses has a socket for
  sub,     \* m_socketSubnetBroadcastAddresses
  used,    \* the addresses that were in uni at some time
  halted   \* an assertion failed

vars == <<node, main, addrs, up, uni, sub, used, halted>>

\* Of the sockets in m_socketSubnetBroadcastAddresses, live[i] is the address
\* kept for the one that is bound to i's broadcast address, and deaf[a] counts
\* those for a that are closed or not bound.
SubnetSockets == [live : [Interface -> Address \cup {NoAddress}], deaf : [Address -> Nat]]

Init ==
  /\ node = [InitialState EXCEPT !.up = FALSE, !.ft = [d \in Dest |-> NoRoute]]
  /\ main = NoAddress /\ up = {} /\ uni = {} /\ used = {} /\ halted = FALSE
  /\ addrs \in [Interface -> {<<a>> : a \in Address}]
  /\ \A i \in Interface : On[Head(addrs[i])] = i
  /\ sub = [live |-> [i \in Interface |-> NoAddress], deaf |-> [a \in Address |-> 0]]

-----------------------------------------------------------------------------
(* Sockets and the routes that come and go with them. *)

OpenedIfBound(subs, a) ==
  IF subs.live[On[a]] = NoAddress THEN [subs EXCEPT !.live[On[a]] = a] ELSE subs

\* A new subnet broadcast socket for a is bound unless an older one still is.
Opened(subs, a) ==
  IF subs.live[On[a]] = NoAddress
  THEN [subs EXCEPT !.live[On[a]] = a] ELSE [subs EXCEPT !.deaf[a] = @ + 1]

ClosedUnseen(subs, a) ==
  {[subs EXCEPT !.live[On[a]] = NoAddress], [subs EXCEPT !.deaf[a] = @ - 1]}

\* FindSubnetBroadcastSocketWithInterfaceAddress goes by the address a alone and
\* takes the first in the order of pointers: subs without the one it finds.
Closed(subs, a) ==
  {t \in {[subs EXCEPT !.live[On[a]] = NoAddress]} : subs.live[On[a]] = a} \cup
  {t \in {[subs EXCEPT !.deaf[a] = @ - 1]} : subs.deaf[a] > 0}

\* NotifyRemoveAddress closes it, but takes it out of the other map.
ClosedAndKept(subs, a) == {[t EXCEPT !.deaf[a] = @ + 1] : t \in Closed(subs, a)}

\* AddRoute keeps an existing broadcast record.
WithBroadcast(s, a) ==
  [s EXCEPT !.up = TRUE,
            !.ft[Bcast] = IF @ = NoRoute THEN Via(DirectRoute(Bcast), a) ELSE @]

DeleteAllRoutesButBroadcast(s, a) ==
  [s EXCEPT !.ft = [d \in Dest |->
     IF d # Bcast /\ s.ft[d] # NoRoute /\ s.ft[d].iface = a THEN NoRoute ELSE s.ft[d]]]

\* DeleteAllRoutesFromInterface; the distance vector table keeps its rows.
DeleteAllRoutesFromInterface(s, a) ==
  [s EXCEPT !.ft = [d \in Dest |->
     IF s.ft[d] # NoRoute /\ s.ft[d].iface = a THEN NoRoute ELSE s.ft[d]]]

InterfaceUp(i) ==
  LET a == Head(addrs[i])
  IN  /\ i \notin up /\ addrs[i] # << >>
      /\ up' = up \cup {i}
      /\ main' = IF main = NoAddress THEN a ELSE main
      /\ uni' = uni \cup {a} /\ used' = used \cup {a}
      /\ sub' = Opened(sub, a)
      /\ node' = WithBroadcast(node, a)
      /\ UNCHANGED <<addrs, halted>>

\* Without sockets, m_htimer, m_nb and the forwarding table are cleared.
LastSocketKeepsNeighbors(s) ==
  [s EXCEPT !.up = FALSE, !.htimer = FALSE, !.ft = [d \in Dest |-> NoRoute]]

LastSocket(s) == NotifyInterfaceDown(s)

InterfaceDown(i) ==
  LET a == Head(addrs[i])
      found == a \in uni /\ Closed(sub, a) # {}
  IN  /\ i \in up /\ addrs[i] # << >>
      /\ up' = up \ {i} /\ uni' = uni \ {a}
      /\ IF found THEN sub' \in Closed(sub, a) ELSE sub' = sub
      /\ node' = IF uni' = {} THEN LastSocket(node) ELSE DeleteAllRoutesFromInterface(node, a)
      /\ halted' = ~found
      /\ UNCHANGED <<main, addrs, used>>

\* Only the first address of an interface that is up gets sockets.
AddAddress(a) ==
  LET i == On[a]
  IN  /\ a \notin Elems(addrs[i])
      /\ addrs' = [addrs EXCEPT ![i] = Append(@, a)]
      /\ IF i \in up /\ addrs[i] = << >>
         THEN /\ uni' = uni \cup {a} /\ used' = used \cup {a}
              /\ sub' = Opened(sub, a)
              /\ node' = WithBroadcast(node, a)
         ELSE UNCHANGED <<node, uni, sub, used>>
      /\ UNCHANGED <<main, up, halted>>

\* The sockets of an address go with it, and the next address of its interface,
\* if there is one, gets new ones.
RemoveAddress(a) ==
  LET i == On[a]
      rest == Without(addrs[i], {a})
      next == {b \in {rest[k] : k \in 1..Len(rest)} : b = Head(rest)}
      s == DeleteAllRoutesFromInterface(node, a)
      closed == IF Closed(sub, a) = {} THEN {sub} ELSE ClosedAndKept(sub, a)
  IN  /\ a \in Elems(addrs[i])
      /\ addrs' = [addrs EXCEPT ![i] = rest]
      /\ IF a \notin uni THEN UNCHANGED <<node, uni, sub, used>>
         ELSE /\ uni' = (uni \ {a}) \cup next /\ used' = used \cup next
              /\ \E subs \in closed :
                   sub' = IF next = {} THEN subs ELSE Opened(subs, Head(rest))
              /\ node' = IF uni' = {} THEN LastSocket(s)
                         ELSE IF next = {} THEN s ELSE WithBroadcast(s, Head(rest))
      /\ UNCHANGED <<main, up, halted>>

-----------------------------------------------------------------------------
(* The handlers of BsdvrControlPlane.  Each step of the node's state that    *)
(* sends UPDATEs needs a socket for the m_iface of every route it sends.     *)

\* The m_iface of the routes that the messages out, sent in state s, are about.
SentVia(s, out) == {s.ft[u.dst].iface : u \in out}

\* The same for all the link failures of a Purge, each after its own computation.
PurgeVia(s) ==
  LET fail[k \in 0..Len(s.nb)] ==
        IF k = 0 THEN [s |-> s, via |-> {}]
        ELSE IF s.nb[k] \notin s.expired THEN fail[k-1]
        ELSE LET r == SendUpdateOnLinkFailure(main, fail[k-1].s, s.nb[k])
             IN  [s |-> r.s, via |-> fail[k-1].via \cup SentVia(r.s, r.out)]
  IN  fail[Len(s.nb)].via

\* The node's state becomes s, or an assertion fails on the way.
Becomes(s, via) ==
  /\ node' = s /\ halted' = (via \ uni # {})
  /\ UNCHANGED <<main, addrs, up, uni, sub, used>>

Halt ==
  /\ halted' = TRUE
  /\ UNCHANGED <<node, main, addrs, up, uni, sub, used>>

\* RouteInput delivers a HELLO to i's broadcast address if m_socketAddresses has
\* an address of i; RecvBsdv and ProcessHello take it to have come to the address
\* kept for the socket that hears it, which tells the interface.
ReceiveHello(m, i) ==
  LET a == sub.live[i]
      iface == Head(addrs[i])
      new == EnableHello /\ m \notin Neighbors(node)
      u == IF EnableHello THEN NeighborUpdate(main, node, m).s ELSE node
      v == [u EXCEPT !.known = @ \cup {m}]
      w == ComputeForwardingTable([v EXCEPT !.dvt[m][m] = Via(DirectRoute(m), iface)])
      failed == IF new THEN PurgeVia([node EXCEPT !.nb = Append(@, m)]) ELSE {}
  IN  /\ \E b \in uni : On[b] = i
      /\ a # NoAddress
      /\ IF a \notin Elems(addrs[i]) THEN Halt
         ELSE IF v.dvt[m][m] = NoRoute
         THEN Becomes(w, failed \cup SentVia(w, SendTriggeredUpdateToNeighbor(main, w, m)))
         ELSE Becomes([v EXCEPT !.dvt[m][m] =
                         [@ EXCEPT !.hops = 1, !.next = m, !.iface = iface]], failed)

\* RecvUpdate of an UPDATE from m to the address a.
ReceiveUpdate(m, a, d, hops, state) ==
  LET rt == [hops |-> HopCount(hops), next |-> m, state |-> state,
             iface |-> Head(addrs[On[a]])]
      u == UpdateDistanceVectorTable(node, m, d, rt)
      t == ComputeForwardingTable(u)
      r == IF state = "INACTIVE" /\ d # m
           THEN RetransmitToNeighbor(main, t, m, d, hops) ELSE [s |-> t, out |-> {}]
      out == SendTriggeredUpdateChangesToNeighbors(main, t, Changes(main, u, t), {}) \cup r.out
  IN  /\ a \in uni
      /\ IF a \notin Elems(addrs[On[a]]) THEN Halt ELSE Becomes(r.s, SentVia(t, out))

NeighborExpires(m) ==
  /\ m \in Neighbors(node) \ node.expired
  /\ Becomes([node EXCEPT !.expired = @ \cup {m}], {})

PendingReplyExpires(e) ==
  /\ e \in Elems(node.prq) \ node.late
  /\ Becomes([node EXCEPT !.late = @ \cup {e}], {})

NTimer ==
  /\ node.ntimer
  /\ Becomes(NTimerExpire(main, node).s, PurgeVia(node))

HelloTimer ==
  /\ node.htimer
  /\ Becomes(HelloTimerExpire(main, node, {}).s, PurgeVia(node))

TxError(m) ==
  /\ up # {} /\ m \in Neighbors(node)
  /\ Becomes(NotifyTxError(main, node, m, TRUE).s,
             PurgeVia([node EXCEPT !.expired = @ \cup {m}]))

-----------------------------------------------------------------------------

InterfaceEvent ==
  /\ ~halted
  /\ \/ \E i \in Interface : InterfaceUp(i) \/ InterfaceDown(i)
     \/ \E a \in Address : AddAddress(a) \/ RemoveAddress(a)

Message ==
  /\ ~halted
  /\ \/ \E m \in Remote, i \in Interface : ReceiveHello(m, i)
     \/ \E m \in Remote, a \in Address, hops \in HopCounts, state \in RouteState :
          \E d \in Dest \ {a, m} : ReceiveUpdate(m, a, d, hops, state)

OtherEvent ==
  /\ ~halted
  /\ \/ \E m \in Remote : NeighborExpires(m) \/ TxError(m)
     \/ \E e \in PendingReply : PendingReplyExpires(e)
     \/ NTimer \/ HelloTimer

Next == InterfaceEvent \/ Message \/ OtherEvent

Spec == Init /\ [][Next]_vars

-----------------------------------------------------------------------------

\* The variables have their types; routes and rows name an interface address
\* that had a socket.
TypeOK ==
  /\ node.nb \in Seq(Remote) /\ node.expired \subseteq Remote
  /\ \A d \in Dest : \A rt \in {node.ft[d]} \cup {node.dvt[m][d] : m \in Node} :
       rt \in IfaceEntry \cup {NoRoute} /\ (rt # NoRoute => rt.iface \in used)
  /\ main \in Address \cup {NoAddress} /\ up \subseteq Interface
  /\ \A i \in Interface : \A a \in Elems(addrs[i]) : On[a] = i
  /\ uni \subseteq used /\ used \subseteq Address /\ halted \in BOOLEAN
  /\ sub \in SubnetSockets

\* Whatever interfaces and addresses did, the first address of every interface
\* that is up has its unicast socket, and no other address has one; the
\* interface has a bound subnet broadcast socket, so that HELLOs are heard; and
\* the other map has an entry for that address.  So neither assertion of
\* NotifyInterfaceDown (bsdvr.cc:639 and 646) fails, although NotifyRemoveAddress
\* takes the subnet broadcast socket out of the wrong map (bsdvr.cc:736).
SocketsMatch ==
  LET heard == {i \in up : addrs[i] # << >>}
  IN  /\ uni = {Head(addrs[i]) : i \in heard}
      /\ \A i \in heard : sub.live[i] # NoAddress /\ Closed(sub, Head(addrs[i])) # {}

\* A node that had sockets for a single address never ends with a failed
\* assertion, and all its routes can be sent in UPDATEs: rows of the distance
\* vector table survive their interface (bsdvr.cc:660), and come back into the
\* forwarding table with it, but never while the interface is down.
OneAddressNeverHalts ==
  Cardinality(used) <= 1 =>
    /\ ~halted
    /\ \A d \in Dest : node.ft[d] # NoRoute => node.ft[d].iface \in uni

\* A route is uninstalled only with the socket of its interface or with the last
\* socket, and with the socket go all the routes of the interface, also when a
\* new socket is opened in the same step.
RoutesLeaveWithSocket ==
  [][/\ \A d \in Dest : node.ft[d] # NoRoute /\ node'.ft[d] = NoRoute =>
          uni' = {} \/ node.ft[d].iface \in uni \ uni'
     /\ \A d \in Dest : node'.ft[d] # NoRoute => node'.ft[d].iface \notin uni \ uni'
    ]_vars

\* The node's state without the m_iface of its routes and rows.
Plain(rt) ==
  IF rt = NoRoute THEN NoRoute ELSE [hops |-> rt.hops, next |-> rt.next, state |-> rt.state]

PlainNode ==
  [node EXCEPT !.ft = [d \in Dest |-> Plain(@[d])],
               !.dvt = [m \in Node |-> [d \in Dest |-> Plain(@[m][d])]]]

\* The node as BsdvrNode sees it: until the first socket is opened it is taken as
\* if it were, because that is where BsdvrNode begins.
NodeView == IF used = {} THEN NotifyInterfaceUp(PlainNode) ELSE PlainNode

NodeSpec(a) == INSTANCE BsdvrNode WITH self <- a, node <- NodeView

\* As long as a node has had sockets for no address but a, it behaves as BsdvrNode,
\* from its initial state on: with a removed and added again, with interfaces going
\* up and down and with addresses that get no sockets.  So what every behaviour of
\* BsdvrNode does and never does holds of it until a second address gets a socket,
\* and interfaces are what BsdvrNode leaves out.
OneAddressImplementsNode ==
  /\ \A a \in Address : NodeSpec(a)!Init
  /\ [][\A a \in Address :
          used' \subseteq {a} /\ NodeView' # NodeView => NodeSpec(a)!Next]_vars

-----------------------------------------------------------------------------
(* What the repository says and the code does not do. *)

\* bsdvr.cc:1115: "NS_ASSERT (socket)".  Whatever interfaces and addresses came and
\* went, SendUpdate finds a socket for the interface of every route that it sends,
\* and no other assertion fails either.
NeverHalts == ~halted
=============================================================================
