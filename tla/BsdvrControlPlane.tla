------------------------- MODULE BsdvrControlPlane -------------------------
(***************************************************************************)
(* The control plane of ns3::bsdvr::RoutingProtocol as operators on the    *)
(* state of one node.  Every handler maps the node's state to a record     *)
(* [s |-> the new state, out |-> the messages it hands to its socket].     *)
(* The specifications BsdvrNode and BsdvrNetwork turn handlers into        *)
(* actions.                                                                *)
(*                                                                         *)
(* A node has one interface, so the interface, the device and the origin   *)
(* of an UPDATE are all determined by the node that sends it.  The         *)
(* loopback record of the forwarding table is left out: no handler reads,  *)
(* changes or advertises it.                                               *)
(*                                                                         *)
(* An operator whose name extends the name of the operator after it is     *)
(* that operator with a slip a programmer could make; no definition uses   *)
(* it.  They show that the properties depend on what they replace.         *)
(***************************************************************************)
EXTENDS OrderedSets

CONSTANTS
  Node,            \* the addresses of the nodes
  Bcast,           \* the subnet broadcast address, a destination of its own
  NoRoute,         \* "the map has no such key"
  Filtered,        \* nodes whose address lies in 10.1.1.1 .. 10.1.1.50
  EnableHello,     \* attribute EnableHello
  MaxPRQueueLen    \* attribute MaxPRQueueLen

BSDVR_THRESHOLD == 16

Dest == Node \cup {Bcast}

RouteState == {"ACTIVE", "INACTIVE"}

\* A RoutingTableEntry; the hop count is computed in a uint8_t.
Entry == [hops : 0..255, next : Dest, state : RouteState]

Route == Entry \cup {NoRoute}

\* The constructor's entry for a node (or broadcast address) one hop away.
DirectRoute(m) == [hops |-> 1, next |-> m, state |-> "ACTIVE"]

PendingReply == [ne : Node, dst : Dest]

\* nb, expired : m_nb in its order, and those whose m_expireTime has passed
\* ntimer, htimer : m_ntimer and m_htimer are scheduled
\* ft : the forwarding table;  known, dvt : the outer keys of the distance
\* vector table, and its rows;  prq, late : m_prqueue, and the entries in it
\* whose pending time has run out;  up : the interface's sockets are open
NodeState ==
  [nb : Seq(Node), expired : SUBSET Node, ntimer : BOOLEAN, htimer : BOOLEAN,
   ft : [Dest -> Route], known : SUBSET Node, dvt : [Node -> [Dest -> Route]],
   prq : Seq(PendingReply), late : SUBSET PendingReply, up : BOOLEAN]

\* Messages from n to m: a HELLO, and an UPDATE that n has the route rt to d.
Hello(n, m) == [type |-> "HELLO", from |-> n, to |-> m]

Update(n, m, d, rt) ==
  [type |-> "UPDATE", from |-> n, to |-> m, dst |-> d, hops |-> rt.hops, state |-> rt.state]

ASSUME BcastAssumption == Bcast \notin Node
ASSUME NoRouteAssumption == NoRoute \notin Entry
ASSUME FilteredAssumption == Filtered \subseteq Node
ASSUME EnableHelloAssumption == EnableHello \in BOOLEAN
ASSUME MaxPRQueueLenAssumption == MaxPRQueueLen \in Nat \ {0}

-----------------------------------------------------------------------------

Neighbors(s) == Elems(s.nb)

-----------------------------------------------------------------------------
(* The route computation. *)

\* TRUE when r2 beats r1, in the code's own words "new" and "curr".
isBetterRoute(r1, r2) ==
  \/ r1.state = r2.state /\ r1.hops > r2.hops
  \/ r2.state = "ACTIVE" /\ r1.state = "INACTIVE" /\ r2.hops < BSDVR_THRESHOLD
  \/ r2.state = "INACTIVE" /\ r1.state = "ACTIVE" /\ r1.hops > BSDVR_THRESHOLD

\* The installed route rt to d, brought up to date with its next hop's row.
RefreshForwardingTable(s, d, rt) ==
  IF rt.next \in s.known
  THEN IF s.dvt[rt.next][d] # NoRoute THEN s.dvt[rt.next][d] ELSE rt
  ELSE [rt EXCEPT !.state = "INACTIVE"]

\* One turn of the loop over the neighbours: neighbour i against the route rt
\* that is installed for d so far.
VisitUnrefreshed(s, d, rt, i) ==
  LET new == s.dvt[i][d]
  IN  IF i \notin s.known \/ new = NoRoute THEN rt
      ELSE IF rt = NoRoute \/ isBetterRoute(new, rt) THEN new ELSE rt

Visit(s, d, rt, i) ==
  LET new == s.dvt[i][d]
      curr == RefreshForwardingTable(s, d, rt)
  IN  IF i \notin s.known \/ new = NoRoute THEN rt
      ELSE IF rt = NoRoute \/ isBetterRoute(new, curr) THEN new ELSE curr

ComputeRoute(s, d) ==
  LET run[k \in 0..Len(s.nb)] ==
        IF k = 0 THEN s.ft[d] ELSE Visit(s, d, run[k-1], s.nb[k])
  IN  run[Len(s.nb)]

\* The loop over destinations is independent per destination: visiting d reads
\* and writes ft[d] only.
ComputeForwardingTable(s) == [s EXCEPT !.ft = [d \in Dest |-> ComputeRoute(s, d)]]

\* The list ComputeForwardingTable returns, as a set.  An existing route that
\* changes is appended only if it is in the list already, so the destinations
\* in the list are those that had no route before.
Changes(self, s, t) == {d \in Dest \ {self} : s.ft[d] = NoRoute /\ t.ft[d] # NoRoute}

\* Destinations whose installed route an INACTIVE rt from nxtHp puts in doubt.
FakeDsts(s, nxtHp, dst, rt) ==
  {c \in Dest : /\ s.ft[c] # NoRoute
                /\ s.ft[c].state = "ACTIVE" /\ rt.state = "INACTIVE"
                /\ s.ft[c].next = nxtHp
                /\ c = dst \/ (nxtHp = dst /\ nxtHp \in Neighbors(s))}

\* i's row about a destination c in doubt goes, unless i is the next hop.
ErasedAtNextHop(s, i, c) == i \in Neighbors(s) /\ i \in s.known

Erased(s, i, c) == i \in Neighbors(s) /\ i \in s.known /\ i # s.ft[c].next

RemoveFakeRoutesInstalled(s, nxtHp, dst, rt) ==
  LET fake == FakeDsts(s, nxtHp, dst, rt)
  IN  [s EXCEPT !.ft = [c \in Dest |-> IF c \in fake THEN NoRoute ELSE @[c]]]

RemoveFakeRoutes(s, nxtHp, dst, rt) ==
  LET fake == FakeDsts(s, nxtHp, dst, rt)
  IN  [s EXCEPT !.dvt = [i \in Node |-> [c \in Dest |->
         IF c \in fake /\ Erased(s, i, c) THEN NoRoute ELSE s.dvt[i][c]]]]

\* A row that comes from a current neighbour with a table is not stored.
UpdateDistanceVectorTableAlways(s, nxtHp, dst, rt) ==
  LET t == IF s.ft[dst] # NoRoute THEN RemoveFakeRoutes(s, nxtHp, dst, rt) ELSE s
  IN  [t EXCEPT !.known = @ \cup {nxtHp}, !.dvt[nxtHp][dst] = rt]

UpdateDistanceVectorTable(s, nxtHp, dst, rt) ==
  LET t == IF s.ft[dst] # NoRoute THEN RemoveFakeRoutes(s, nxtHp, dst, rt) ELSE s
  IN  IF nxtHp \in Neighbors(s) /\ nxtHp \in s.known THEN t
      ELSE [t EXCEPT !.known = @ \cup {nxtHp}, !.dvt[nxtHp][dst] = rt]

-----------------------------------------------------------------------------
(* Sending. *)

SendUpdate(self, s, d, ne) == Update(self, ne, d, s.ft[d])

SendTriggeredUpdateUnfiltered(self, s, ne) ==
  {SendUpdate(self, s, d, ne) : d \in {c \in Dest \ {self} : s.ft[c] # NoRoute}}

SendTriggeredUpdateToNeighbor(self, s, ne) ==
  {SendUpdate(self, s, d, ne) : d \in {c \in Dest \ {self, ne} : s.ft[c] # NoRoute}}

SendTriggeredUpdateChangesToNeighbors(self, s, changes, nex) ==
  UNION {{SendUpdate(self, s, d, ne) : d \in {c \in changes \ {ne} : s.ft[c] # NoRoute}}
         : ne \in Neighbors(s) \ nex}

\* The reply that may restore ne's route to d: ne is still a neighbour, and the
\* installed route is ACTIVE and does not lead through ne.
MayReply(s, ne, d) ==
  /\ ne \notin Filtered
  /\ s.ft[d] # NoRoute /\ ne \in Neighbors(s)
  /\ s.ft[d].state = "ACTIVE" /\ s.ft[d].next # ne

-----------------------------------------------------------------------------
(* Link failure. *)

SendUpdateOnLinkFailure(self, s, ne) ==
  IF ne \in Filtered \/ ne \notin s.known \/ s.dvt[ne][ne] = NoRoute
  THEN [s |-> s, out |-> {}]
  ELSE LET rt == [s.dvt[ne][ne] EXCEPT !.state = "INACTIVE"]
           u == UpdateDistanceVectorTable(s, ne, ne, rt)
           t == ComputeForwardingTable(u)
       IN  [s |-> t,
            out |-> SendTriggeredUpdateChangesToNeighbors(self, t, Changes(self, u, t), {ne})]

\* Neighbors::Purge: the callback runs for every closed neighbour, in the order
\* of m_nb and while all of them are still in m_nb; then they are erased and
\* m_ntimer is scheduled again.  An empty m_nb returns first.
Purge(self, s) ==
  LET fail[k \in 0..Len(s.nb)] ==
        IF k = 0 THEN [s |-> s, out |-> {}]
        ELSE IF s.nb[k] \notin s.expired THEN fail[k-1]
        ELSE LET r == SendUpdateOnLinkFailure(self, fail[k-1].s, s.nb[k])
             IN  [s |-> r.s, out |-> fail[k-1].out \cup r.out]
      last == fail[Len(s.nb)]
  IN  IF s.nb = << >> THEN [s |-> s, out |-> {}]
      ELSE [s |-> [last.s EXCEPT !.nb = Without(s.nb, s.expired),
                                 !.expired = {}, !.ntimer = TRUE],
            out |-> last.out]

\* Neighbors::Update: a known neighbour lives on, a new one is appended.
NeighborUpdateUnwatched(self, s, m) ==
  IF m \in Neighbors(s)
  THEN [s |-> [s EXCEPT !.expired = @ \ {m}], out |-> {}]
  ELSE [s |-> [s EXCEPT !.nb = Append(@, m)], out |-> {}]

NeighborUpdate(self, s, m) ==
  IF m \in Neighbors(s)
  THEN [s |-> [s EXCEPT !.expired = @ \ {m}], out |-> {}]
  ELSE Purge(self, [s EXCEPT !.nb = Append(@, m)])

\* Neighbors::ProcessTxError for a frame to m: m's entry closes if it holds m's
\* hardware address (match), and all closed entries are purged.
NotifyTxError(self, s, m, match) ==
  Purge(self, IF match THEN [s EXCEPT !.expired = @ \cup ({m} \cap Neighbors(s))] ELSE s)

-----------------------------------------------------------------------------
(* Pending replies. *)

\* A full queue drops its most aged entry.
MakeRoom(q) == IF Len(q) = MaxPRQueueLen THEN Tail(q) ELSE q

EnqueueTwice(self, s, en) ==
  LET due == {e \in Elems(s.prq) : e \in s.late /\ MayReply(s, e.ne, e.dst)}
      q == Without(s.prq, s.late)
  IN  [s |-> [s EXCEPT !.prq = Append(MakeRoom(q), en), !.late = {}],
       out |-> {SendUpdate(self, s, e.dst, e.ne) : e \in due}]

\* BsdvrPendingReplyQueue::Enqueue.  It purges first, and the purge sends the
\* replies that are due.
Enqueue(self, s, en) ==
  LET due == {e \in Elems(s.prq) : e \in s.late /\ MayReply(s, e.ne, e.dst)}
      q == Without(s.prq, s.late)
  IN  [s |-> [s EXCEPT !.prq = IF en \in Elems(q) THEN q ELSE Append(MakeRoom(q), en),
                       !.late = {}],
       out |-> {SendUpdate(self, s, e.dst, e.ne) : e \in due}]

\* c1, c2 and c5 are the code's costs; c3 = c1 - 1, so c3 = 0 is c1 = 1 and
\* c5 = c2 + c3 is c5 + 1 = c1 + c2 (also when c1 = 0 wraps c3 around).
RetransmitToNeighbor(self, s, ne, d, hops) ==
  LET c1 == s.ft[d].hops
      c2 == hops
      nxtHp == s.ft[d].next
      c5 == IF nxtHp \in s.known /\ s.dvt[nxtHp][ne] # NoRoute
            THEN s.dvt[nxtHp][ne].hops ELSE 0
  IN  IF ~MayReply(s, ne, d) THEN [s |-> s, out |-> {}]
      ELSE IF c1 = 1 \/ c5 + 1 = c1 + c2
      THEN [s |-> s, out |-> {SendUpdate(self, s, d, ne)}]
      ELSE Enqueue(self, s, [ne |-> ne, dst |-> d])

-----------------------------------------------------------------------------
(* The handlers of messages, timers and interface events. *)

\* RecvHello and ProcessHello.
ProcessHello(self, s, m) ==
  LET u == IF EnableHello THEN NeighborUpdate(self, s, m) ELSE [s |-> s, out |-> {}]
      v == [u.s EXCEPT !.known = @ \cup {m}]
      w == ComputeForwardingTable([v EXCEPT !.dvt[m][m] = DirectRoute(m)])
  IN  IF v.dvt[m][m] = NoRoute
      THEN [s |-> w, out |-> u.out \cup SendTriggeredUpdateToNeighbor(self, w, m)]
      ELSE [s |-> [v EXCEPT !.dvt[m][m] = [@ EXCEPT !.hops = 1, !.next = m]],
            out |-> u.out]

\* One hop more than the sender's count, in a uint8_t.
HopCountKept(hops) == hops

HopCountWide(hops) == hops + 1

HopCount(hops) == (hops + 1) % 256

RecvUpdate(self, s, m, d, hops, state) ==
  LET rt == [hops |-> HopCount(hops), next |-> m, state |-> state]
      u == UpdateDistanceVectorTable(s, m, d, rt)
      t == ComputeForwardingTable(u)
      r == IF state = "INACTIVE" /\ d # m
           THEN RetransmitToNeighbor(self, t, m, d, hops) ELSE [s |-> t, out |-> {}]
  IN  [s |-> r.s,
       out |-> r.out \cup
               SendTriggeredUpdateChangesToNeighbors(self, t, Changes(self, u, t), {})]

\* m_ntimer fires: the expired timer is not running while Purge executes.
NTimerExpire(self, s) == Purge(self, [s EXCEPT !.ntimer = FALSE])

\* HelloTimerExpire: m_lastBcastTime is always 0, so every expiry purges the
\* neighbours, sends a HELLO to whoever is in range, and schedules the next.
HelloTimerExpire(self, s, range) ==
  LET p == Purge(self, s) IN [s |-> p.s, out |-> p.out \cup {Hello(self, m) : m \in range}]

NotifyInterfaceDown(s) ==
  [s EXCEPT !.up = FALSE, !.htimer = FALSE, !.nb = << >>, !.expired = {},
            !.ft = [d \in Dest |-> NoRoute]]

\* AddRoute keeps an existing record.
NotifyInterfaceUp(s) ==
  [s EXCEPT !.up = TRUE,
            !.ft[Bcast] = IF @ = NoRoute THEN DirectRoute(Bcast) ELSE @]

\* The state after SetIpv4, Start, the first NotifyInterfaceUp and DoInitialize.
InitialState ==
  NotifyInterfaceUp(
    [nb |-> << >>, expired |-> {}, ntimer |-> EnableHello, htimer |-> EnableHello,
     ft |-> [d \in Dest |-> NoRoute], known |-> {},
     dvt |-> [m \in Node |-> [d \in Dest |-> NoRoute]],
     prq |-> << >>, late |-> {}, up |-> FALSE])

-----------------------------------------------------------------------------
(* What holds of the state s of node n between handlers. *)

\* Every route except the broadcast record rests on a row of its next hop.
Backed(s) ==
  \A d \in Dest : s.ft[d] # NoRoute =>
    \/ d = Bcast /\ s.ft[d].next = Bcast
    \/ s.ft[d].next \in s.known /\ s.dvt[s.ft[d].next][d] # NoRoute

\* A row of m's table leads to m, and is about neither n nor, unless it is the
\* direct route, m.  So n has no route to itself.
Owned(n, s) ==
  /\ s.ft[n] = NoRoute
  /\ \A m \in Node, d \in Dest : s.dvt[m][d] # NoRoute =>
       /\ s.dvt[m][d].next = m /\ m \in s.known \ {n} /\ d # n
       /\ d = m => s.dvt[m][d] = DirectRoute(m)

\* Neighbours are listed once, have a table, and are watched by m_ntimer.
Watched(n, s) ==
  /\ Distinct(s.nb)
  /\ Neighbors(s) \subseteq s.known \ {n}
  /\ s.expired \subseteq Neighbors(s)
  /\ s.nb # << >> => s.ntimer

\* The pending reply queue is bounded, has no duplicates and no pointless entry.
Queued(n, s) ==
  /\ Len(s.prq) <= MaxPRQueueLen
  /\ Distinct(s.prq)
  /\ s.late \subseteq Elems(s.prq)
  /\ \A e \in Elems(s.prq) : e.ne # e.dst /\ n \notin {e.ne, e.dst}
=============================================================================
