--------------------------- MODULE BsdvrDataPlane ---------------------------
(***************************************************************************)
(* The data plane of ns3::bsdvr::RoutingProtocol: what one node does with  *)
(* the packets its applications send and with those that come in, while    *)
(* its control plane changes the forwarding table.  The control plane is   *)
(* the environment here; all it is known to do is what BsdvrNode's         *)
(* RoutesPersist says: only an interface that goes down removes routes.    *)
(*                                                                         *)
(* A route is its output device.  Its state is left out: it selects the    *)
(* statuses that Dequeue compares, and those comparisons are arbitrary.    *)
(* Its m_iface is left out too: it may be of another interface than the    *)
(* device, since ProcessHello changes the device of an Ipv4Route that the  *)
(* forwarding table shares and not the table's m_iface (bsdvr.cc:904).     *)
(*                                                                         *)
(* The callbacks that RouteInput is given are there, and whether an        *)
(* address is one of this node's is left open.                             *)
(*                                                                         *)
(* NotifyInterfaceDownKeeps is NotifyInterfaceDown with a slip a           *)
(* programmer could make; nothing uses it.                                 *)
(***************************************************************************)
EXTENDS BsdvrPacketBuffer

CONSTANTS
  NoRoute,          \* "the forwarding table has no such key"
  Bcast,            \* the subnet broadcast address, one of Dest
  Foreign,          \* a packet from another node
  Local,            \* LocalDeliverCallback, where others are output devices
  EnableBroadcast,  \* attribute EnableBroadcast
  MaxLens,          \* the values attribute MaxQueueLen takes, at any time
  MaxLoop           \* a bound on the packets on the loopback device

ASSUME BcastAssumption == Bcast \in Dest
ASSUME NoRouteAssumption == NoRoute \notin Device
ASSUME ForeignAssumption == Foreign \notin Packet
ASSUME EnableBroadcastAssumption == EnableBroadcast \in BOOLEAN
ASSUME MaxLensAssumption == MaxLens \subseteq Nat /\ MaxLens # {}

VARIABLES
  sockets,  \* the devices m_socketAddresses has a socket for
  ft,       \* the forwarding table
  queue,    \* m_queue
  maxLen,   \* its m_maxLen
  cut,      \* m_maxLen was last set below the length the queue had then
  loop,     \* packets on the loopback device, on their way to RouteInput
  out       \* what the last step sent (as a route it returned or by a callback)

vars == <<sockets, ft, queue, maxLen, cut, loop, out>>

FT == [Dest -> Device \cup {NoRoute}]

Sent(p, dst, dev) == [pkt |-> p, dst |-> dst, dev |-> dev]

Init ==
  /\ sockets = {} /\ ft = [d \in Dest |-> NoRoute]
  /\ queue = << >> /\ maxLen \in MaxLens /\ cut = FALSE
  /\ loop = {} /\ out = {}

-----------------------------------------------------------------------------
(* Packets of this node's applications. *)

\* RouteOutput with a route; without an interface it returns an error, and so it
\* does when the route leads through another device than the sender fixed.
RouteOutput(p) ==
  LET dev == ft[Dst[p]]
      found == sockets # {} /\ Oif[p] \in {NoDevice, dev}
  IN  /\ sockets # {} => dev # NoRoute
      /\ out' = IF found THEN {Sent(p, Dst[p], dev)} ELSE {}
      /\ UNCHANGED <<sockets, ft, queue, maxLen, cut, loop>>

\* LoopbackRoute looks for the address of a socket, one of the device oif if the
\* caller fixed it, and asserts that it found one.
MayLoop(oif) == oif \in sockets \cup {NoDevice}

\* A caller that wants a source address and has no packet yet gets the loopback
\* route, also when there is a route, and nothing travels.  Without sockets the
\* address is read past the end of a map; it may be any, and is left out.
RouteOutputNoPacket(oif) ==
  /\ MayLoop(oif)
  /\ out' = {} /\ UNCHANGED <<sockets, ft, queue, maxLen, cut, loop>>

\* RouteOutput without a route: the packet goes to the loopback device, tagged.
LoopbackRoute(p) ==
  /\ sockets # {} /\ ft[Dst[p]] = NoRoute /\ MayLoop(Oif[p])
  /\ Cardinality(loop \cup {p}) <= MaxLoop
  /\ loop' = loop \cup {p}
  /\ out' = {} /\ UNCHANGED <<sockets, ft, queue, maxLen, cut>>

\* RouteInput from the loopback device: whether or not there is a route by now,
\* the packet is buffered, unless all interfaces are gone.
DeferredRouteOutput(p) ==
  /\ p \in loop /\ loop' = loop \ {p}
  /\ IF sockets = {} THEN queue' = queue ELSE queue' \in Enqueue(queue, maxLen, p)
  /\ out' = {} /\ UNCHANGED <<sockets, ft, maxLen, cut>>

-----------------------------------------------------------------------------
(* Packets from other nodes.  RouteInput ignores what comes from an own      *)
(* address and what goes to a multicast group.                               *)

\* What ucb is given for a packet to dst.
Forwarded(dst) == {Sent(Foreign, dst, dev) : dev \in {ft[dst]} \ {NoRoute}}

\* Forwarding; without a route, or with forwarding disabled, nothing is sent.
Forwarding(dst) ==
  /\ sockets # {} /\ dst # Bcast
  /\ out' \in {Forwarded(dst), {}}
  /\ UNCHANGED <<sockets, ft, queue, maxLen, cut, loop>>

\* A packet to an address of this node is delivered.
DeliverLocally(dst) ==
  /\ sockets # {} /\ dst # Bcast
  /\ out' = {Sent(Foreign, dst, Local)}
  /\ UNCHANGED <<sockets, ft, queue, maxLen, cut, loop>>

\* A broadcast is delivered, and passed on unless its TTL is used up or it is
\* one of BSDVR's own.  The forwarding table has no key 255.255.255.255.
ReceiveBroadcast(more) ==
  /\ sockets # {}
  /\ out' = {Sent(Foreign, Bcast, Local)} \cup
            (IF EnableBroadcast /\ more THEN Forwarded(Bcast) ELSE {})
  /\ UNCHANGED <<sockets, ft, queue, maxLen, cut, loop>>

-----------------------------------------------------------------------------
(* The control plane. *)

\* A computation of the forwarding table.
Computed == {new \in FT : \A d \in Dest : ft[d] # NoRoute => new[d] # NoRoute}

\* The end of RecvUpdate: SendPacketFromQueue for every destination in the
\* table.  The first packet of a destination that does not fit ends the loop.
Flush(new) ==
  \E sent \in SUBSET Sendable(queue, new), unfit \in SUBSET Unfit(queue, new) :
    /\ \A i, j \in unfit : Dst[queue[i].pkt] = Dst[queue[j].pkt] => i = j
    /\ queue' = Dequeue(queue, sent \cup unfit)
    /\ out' = {Sent(queue[i].pkt, Dst[queue[i].pkt], new[Dst[queue[i].pkt]]) : i \in sent}

RecvUpdate ==
  /\ sockets # {}
  /\ ft' \in Computed
  /\ Flush(ft')
  /\ UNCHANGED <<sockets, maxLen, cut, loop>>

\* ProcessHello, the timers and NotifyTxError compute the table and send nothing;
\* ProcessHello may also change the device of an installed route.
ComputeForwardingTable ==
  /\ sockets # {}
  /\ ft' \in Computed
  /\ out' = {} /\ UNCHANGED <<sockets, queue, maxLen, cut, loop>>

NotifyInterfaceUp(dev) ==
  /\ dev \notin sockets
  /\ sockets' = sockets \cup {dev}
  /\ ft' = [ft EXCEPT ![Bcast] = IF @ = NoRoute THEN dev ELSE @]
  /\ out' = {} /\ UNCHANGED <<queue, maxLen, cut, loop>>

NotifyInterfaceDownKeeps(dev) ==
  /\ dev \in sockets
  /\ sockets' = sockets \ {dev}
  /\ \E gone \in SUBSET Dest :
       ft' = [d \in Dest |-> IF d \in gone THEN NoRoute ELSE ft[d]]
  /\ out' = {} /\ UNCHANGED <<queue, maxLen, cut, loop>>

\* An interface takes the routes with its m_iface along, whatever their devices
\* are; the last one takes the whole table.  The buffer stays.
NotifyInterfaceDown(dev) ==
  /\ dev \in sockets
  /\ sockets' = sockets \ {dev}
  /\ \E gone \in SUBSET Dest :
       /\ sockets' = {} => gone = Dest
       /\ ft' = [d \in Dest |-> IF d \in gone THEN NoRoute ELSE ft[d]]
  /\ out' = {} /\ UNCHANGED <<queue, maxLen, cut, loop>>

SetMaxQueueLen(len) ==
  /\ maxLen' = len /\ cut' = (len < Len(queue))
  /\ out' = {} /\ UNCHANGED <<sockets, ft, queue, loop>>

\* BsdvrQueue::DropPacketWithDst, which has no caller yet.
DropPackets(dst) ==
  /\ queue' = DropPacketWithDst(queue, dst)
  /\ out' = {} /\ UNCHANGED <<sockets, ft, maxLen, cut, loop>>

-----------------------------------------------------------------------------

Next ==
  \/ \E p \in Packet : RouteOutput(p) \/ LoopbackRoute(p) \/ DeferredRouteOutput(p)
  \/ \E oif \in Device \cup {NoDevice} : RouteOutputNoPacket(oif)
  \/ \E dst \in Dest : Forwarding(dst) \/ DeliverLocally(dst) \/ DropPackets(dst)
  \/ \E more \in BOOLEAN : ReceiveBroadcast(more)
  \/ RecvUpdate \/ ComputeForwardingTable
  \/ \E dev \in Device : NotifyInterfaceUp(dev) \/ NotifyInterfaceDown(dev)
  \/ \E len \in MaxLens : SetMaxQueueLen(len)

Spec == Init /\ [][Next]_vars

-----------------------------------------------------------------------------

\* The variables have their types, and a node without interfaces has no routes.
TypeOK ==
  /\ sockets \subseteq Device /\ ft \in FT
  /\ queue \in Seq(QueueEntry) /\ maxLen \in MaxLens /\ cut \in BOOLEAN
  /\ loop \subseteq Packet
  /\ out \subseteq [pkt : Packet \cup {Foreign}, dst : Dest, dev : Device \cup {Local}]
  /\ sockets = {} => \A d \in Dest : ft[d] = NoRoute

\* The buffer holds no packet twice and, however often packets are forwarded
\* and none is taken out, no more than "the maximum number of packets that we
\* allow" (rqueue.h:480), unless that number was set below what it held: it is
\* compared for equality (rqueue.cc:171).
BufferBounded ==
  /\ Cardinality(Packets(queue)) = Len(queue)
  /\ ~cut => Len(queue) <= maxLen

Kept == loop \cup Packets(queue)

\* From RouteOutput's loopback route on, a packet is kept through UPDATEs,
\* flushes and interfaces that go down.  It is lost only one at a time, in a
\* full buffer or on a node without interfaces, or with all that are buffered
\* for its destination (DropPacketWithDst).
PacketsKept ==
  [][\/ Kept \subseteq Kept'
     \/ /\ loop' # loop /\ Cardinality(Kept \ Kept') = 1
        /\ sockets = {} \/ Len(queue) = maxLen
     \/ /\ loop' = loop
        /\ \E d \in Dest : Packets(queue') = {p \in Packets(queue) : Dst[p] # d}]_vars

\* A packet whose sender fixed the output device (bsdvr.cc:109) leaves through
\* another one only if it had been dequeued before: the device is forgotten with
\* the first attempt, also when that attempt "dropped" the packet.
DeviceKept ==
  [][\A o \in out' :
       o.pkt \in Packet /\ Oif[o.pkt] \notin {NoDevice, o.dev} =>
         \E i \in 1..Len(queue) : queue[i] = [pkt |-> o.pkt, tagged |-> FALSE]]_vars
=============================================================================
