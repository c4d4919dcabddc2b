------------------------ MODULE BsdvrDataPlaneProofs ------------------------
(***************************************************************************)
(* Proofs about BsdvrDataPlane, whatever the packets, devices and routes:  *)
(* the buffer is bounded and holds no packet twice, no packet is lost      *)
(* silently, and a fixed device is forgotten in one way only.              *)
(***************************************************************************)
EXTENDS BsdvrDataPlane, RecursionLemmas

USE DstAssumption, OifAssumption, NoDeviceAssumption

-----------------------------------------------------------------------------
(* The buffer's operations. *)

\* No packet is in the buffer twice.
OncePacked(q) == \A i, j \in 1..Len(q) : q[i].pkt = q[j].pkt => i = j

LEMMA OncePackedCount ==
  ASSUME NEW q \in Seq(QueueEntry), OncePacked(q)
  PROVE  Cardinality(Packets(q)) = Len(q)
<1> DEFINE S == 1..Len(q)
           f == [i \in S |-> q[i].pkt]
<1>1. IsFiniteSet(S) /\ Cardinality(S) = Len(q)
  BY CountTo
<1>2. \A i, j \in S : f[i] = f[j] => i = j
  BY DEF OncePacked
<1>3. Packets(q) = {f[i] : i \in S}
  BY DEF Packets
<1> HIDE DEF S, f
<1> QED BY <1>1, <1>2, <1>3, InjectiveImage

\* A new entry at the end of a buffer that does not hold its packet.
LEMMA Appended ==
  ASSUME NEW q \in Seq(QueueEntry), OncePacked(q), NEW p \in Packet, p \notin Packets(q)
  PROVE  LET new == Append(q, [pkt |-> p, tagged |-> TRUE])
         IN  /\ new \in Seq(QueueEntry) /\ OncePacked(new)
             /\ Len(new) = Len(q) + 1 /\ Packets(new) = Packets(q) \cup {p}
<1> DEFINE en == [pkt |-> p, tagged |-> TRUE]
           new == Append(q, en)
<1>1. en \in QueueEntry /\ en.pkt = p
  BY DEF QueueEntry
<1> HIDE DEF en
<1>2. /\ new \in Seq(QueueEntry) /\ Len(new) = Len(q) + 1 /\ new[Len(q) + 1] = en
      /\ \A i \in 1..Len(q) : new[i] = q[i]
  BY <1>1
<1>3. \A i \in 1..Len(new) : i = Len(q) + 1 \/ i \in 1..Len(q)
  BY <1>2
<1>4. Len(q) + 1 \in 1..Len(new) /\ \A i \in 1..Len(q) : i \in 1..Len(new)
  BY <1>2
<1> HIDE DEF new
<1>5. Packets(new) = Packets(q) \cup {p}
  BY <1>1, <1>2, <1>3, <1>4 DEF Packets
<1>6. OncePacked(new)
  <2>1. \A i \in 1..Len(q) : q[i].pkt # p
    BY DEF Packets
  <2> QED BY <1>1, <1>2, <1>3, <2>1 DEF OncePacked
<1> QED BY <1>2, <1>5, <1>6 DEF new, en

\* Taking entries out leaves their packets out.
LEMMA PicksOncePacked ==
  ASSUME NEW q \in Seq(QueueEntry), OncePacked(q), NEW w \in Seq(QueueEntry), NEW S,
         NEW e, Picks(e, w, q, Len(q), S)
  PROVE  /\ OncePacked(w)
         /\ Packets(w) = {en.pkt : en \in Elems(q) \ S}
<1>1. Distinct(q)
  BY DEF Distinct, OncePacked
<1>2. Elems(w) = Elems(q) \ S /\ Distinct(w)
  BY <1>1, PicksElems
<1>3. OncePacked(w)
  <2>1. ASSUME NEW i \in 1..Len(w), NEW j \in 1..Len(w), w[i].pkt = w[j].pkt PROVE w[i] = w[j]
    <3>1. /\ e[i] \in 1..Len(q) /\ e[j] \in 1..Len(q)
          /\ w[i] = q[e[i]] /\ w[j] = q[e[j]]
      BY DEF Picks
    <3> QED BY <2>1, <3>1 DEF OncePacked
  <2> QED BY <1>2, <2>1 DEF Distinct, OncePacked
<1>4. Packets(w) = {en.pkt : en \in Elems(w)}
  BY DEF Packets, Elems
<1> QED BY <1>2, <1>3, <1>4

\* What a successful DropPolicy leaves.
LEMMA Dropped ==
  ASSUME NEW q \in Seq(QueueEntry), OncePacked(q), NEW rest \in DropPolicy(q)
  PROVE  /\ rest \in Seq(QueueEntry) /\ OncePacked(rest) /\ Len(rest) = Len(q) - 1
         /\ \E r \in Packets(q) : Packets(rest) = Packets(q) \ {r}
<1>1. PICK i \in 1..Len(q) : rest = RemoveAt(q, i)
  BY DEF DropPolicy
<1>2. Distinct(q)
  BY DEF Distinct, OncePacked
<1>3. rest \in Seq(QueueEntry) /\ Len(rest) = Len(q) - 1
  BY <1>1, RemovedAt
<1>4. PICK e : Picks(e, rest, q, Len(q), {q[i]})
  BY <1>1, <1>2, RemovedPicks
<1>5. OncePacked(rest) /\ Packets(rest) = {en.pkt : en \in Elems(q) \ {q[i]}}
  BY <1>3, <1>4, PicksOncePacked
<1>6. {en.pkt : en \in Elems(q) \ {q[i]}} = Packets(q) \ {q[i].pkt}
  BY DEF Elems, Packets, OncePacked
<1>7. q[i].pkt \in Packets(q)
  BY DEF Packets
<1> QED BY <1>3, <1>5, <1>6, <1>7

\* Enqueue adds the packet or refuses it; it makes room for it, in a buffer
\* that is exactly full, by taking out at most one other.
LEMMA Enqueued ==
  ASSUME NEW q \in Seq(QueueEntry), OncePacked(q), NEW maxl \in Nat, NEW p \in Packet,
         NEW new \in Enqueue(q, maxl, p)
  PROVE  /\ new \in Seq(QueueEntry) /\ OncePacked(new)
         /\ Len(q) <= maxl => Len(new) <= maxl
         /\ \/ Packets(new) = Packets(q) \cup {p}
            \/ new = q /\ Len(q) = maxl
            \/ /\ Len(q) = maxl
               /\ \E r \in Packets(q) : Packets(new) = (Packets(q) \ {r}) \cup {p}
<1> DEFINE en == [pkt |-> p, tagged |-> TRUE]
<1>1. CASE p \in Packets(q)
  <2>1. new = q
    BY <1>1 DEF Enqueue
  <2> QED BY <1>1, <2>1
<1>2. CASE p \notin Packets(q) /\ Len(q) # maxl
  <2>1. new = Append(q, en)
    BY <1>2 DEF Enqueue
  <2>2. /\ new \in Seq(QueueEntry) /\ OncePacked(new)
        /\ Len(new) = Len(q) + 1 /\ Packets(new) = Packets(q) \cup {p}
    BY <1>2, <2>1, Appended
  <2> QED BY <1>2, <2>2
<1>3. CASE p \notin Packets(q) /\ Len(q) = maxl /\ new # q
  <2>1. PICK rest \in DropPolicy(q) : new = Append(rest, en)
    BY <1>3 DEF Enqueue
  <2>2. /\ rest \in Seq(QueueEntry) /\ OncePacked(rest) /\ Len(rest) = Len(q) - 1
    BY Dropped
  <2>3. PICK r \in Packets(q) : Packets(rest) = Packets(q) \ {r}
    BY Dropped
  <2>4. /\ new \in Seq(QueueEntry) /\ OncePacked(new)
        /\ Len(new) = Len(rest) + 1 /\ Packets(new) = Packets(rest) \cup {p}
    BY <1>3, <2>1, <2>2, <2>3, Appended
  <2> QED BY <1>3, <2>2, <2>3, <2>4
<1>4. CASE new = q /\ Len(q) = maxl
  BY <1>4
<1> QED BY <1>1, <1>2, <1>3, <1>4

\* Dequeue only takes tags off.
LEMMA Dequeued ==
  ASSUME NEW q \in Seq(QueueEntry), OncePacked(q), NEW taken
  PROVE  LET new == Dequeue(q, taken)
         IN  /\ new \in Seq(QueueEntry) /\ OncePacked(new)
             /\ Len(new) = Len(q) /\ Packets(new) = Packets(q)
<1> DEFINE new == Dequeue(q, taken)
<1>1. ASSUME NEW i \in 1..Len(q)
      PROVE  LET en == IF i \in taken THEN [q[i] EXCEPT !.tagged = FALSE] ELSE q[i]
             IN  en \in QueueEntry /\ en.pkt = q[i].pkt
  <2>1. q[i] \in QueueEntry
    OBVIOUS
  <2>2. [q[i] EXCEPT !.tagged = FALSE] \in QueueEntry /\ [q[i] EXCEPT !.tagged = FALSE].pkt = q[i].pkt
    BY <2>1 DEF QueueEntry
  <2> QED BY <2>1, <2>2
<1>2. /\ new \in Seq(QueueEntry) /\ Len(new) = Len(q)
      /\ \A i \in 1..Len(q) : new[i].pkt = q[i].pkt
  BY <1>1 DEF Dequeue
<1> HIDE DEF new
<1>3. OncePacked(new)
  BY <1>2 DEF OncePacked
<1>4. Packets(new) = Packets(q)
  BY <1>2 DEF Packets
<1> QED BY <1>2, <1>3, <1>4 DEF new

\* DropPacketWithDst takes out what is bound for dst, and nothing else.
LEMMA DroppedDst ==
  ASSUME NEW q \in Seq(QueueEntry), OncePacked(q), NEW dst
  PROVE  LET new == DropPacketWithDst(q, dst)
         IN  /\ new \in Seq(QueueEntry) /\ OncePacked(new) /\ Len(new) <= Len(q)
             /\ Packets(new) = {p \in Packets(q) : Dst[p] # dst}
<1> DEFINE S == {en \in Elems(q) : Dst[en.pkt] = dst}
           new == Without(q, S)
<1>1. new \in Seq(QueueEntry) /\ Len(new) <= Len(q)
  BY WithoutElems
<1>2. PICK e : Picks(e, new, q, Len(q), S)
  BY WithoutPicks
<1>3. OncePacked(new) /\ Packets(new) = {en.pkt : en \in Elems(q) \ S}
  BY <1>1, <1>2, PicksOncePacked
<1>4. {en.pkt : en \in Elems(q) \ S} = {p \in Packets(q) : Dst[p] # dst}
  BY DEF Packets, Elems
<1> QED BY <1>1, <1>3, <1>4 DEF DropPacketWithDst

-----------------------------------------------------------------------------
(* The invariants. *)

\* With the types, that no packet is buffered twice: Enqueue makes room before
\* it adds a packet, and adds none the buffer holds.
Inv ==
  /\ TypeOK /\ OncePacked(queue)
  /\ ~cut => Len(queue) <= maxLen

OutType == [pkt : Packet \cup {Foreign}, dst : Dest, dev : Device \cup {Local}]

LEMMA InitInv == Init => Inv
<1> SUFFICES ASSUME Init PROVE Inv
  OBVIOUS
<1>1. queue \in Seq(QueueEntry) /\ Len(queue) = 0
  BY DEF Init
<1>2. maxLen \in Nat
  BY MaxLensAssumption DEF Init
<1>3. TypeOK
  BY <1>1 DEF Init, TypeOK, FT
<1>4. OncePacked(queue)
  BY <1>1 DEF OncePacked
<1>5. Len(queue) <= maxLen
  BY <1>1, <1>2
<1> QED BY <1>3, <1>4, <1>5 DEF Inv

\* Flush sends packets of the buffer along the routes of new, and keeps the
\* buffer but for the tags.
LEMMA Flushed ==
  ASSUME Inv, NEW new \in FT, Flush(new)
  PROVE  /\ queue' \in Seq(QueueEntry) /\ OncePacked(queue)'
         /\ Len(queue') = Len(queue) /\ Packets(queue') = Packets(queue)
         /\ \A o \in out' : \E i \in Sendable(queue, new) :
              LET p == queue[i].pkt IN o = Sent(p, Dst[p], new[Dst[p]])
<1>1. PICK sent \in SUBSET Sendable(queue, new), unfit \in SUBSET Unfit(queue, new) :
        /\ queue' = Dequeue(queue, sent \cup unfit)
        /\ out' = {Sent(queue[i].pkt, Dst[queue[i].pkt], new[Dst[queue[i].pkt]]) : i \in sent}
  BY DEF Flush
<1>2. queue \in Seq(QueueEntry) /\ OncePacked(queue)
  BY DEF Inv, TypeOK
<1>3. /\ queue' \in Seq(QueueEntry) /\ OncePacked(queue')
      /\ Len(queue') = Len(queue) /\ Packets(queue') = Packets(queue)
  BY <1>1, <1>2, Dequeued
<1>4. \A o \in out' : \E i \in Sendable(queue, new) :
        o = Sent(queue[i].pkt, Dst[queue[i].pkt], new[Dst[queue[i].pkt]])
  BY <1>1
<1> QED BY <1>3, <1>4 DEF OncePacked

LEMMA SendableTyped ==
  ASSUME Inv, NEW new \in FT, NEW i \in Sendable(queue, new)
  PROVE  LET p == queue[i].pkt
         IN  /\ i \in 1..Len(queue) /\ queue[i] \in QueueEntry
             /\ p \in Packet /\ Dst[p] \in Dest /\ new[Dst[p]] \in Device
             /\ queue[i].tagged => Oif[p] \in {NoDevice, new[Dst[p]]}
<1>1. i \in 1..Len(queue) /\ new[Dst[queue[i].pkt]] \in Device
      /\ (queue[i].tagged => Oif[queue[i].pkt] \in {NoDevice, new[Dst[queue[i].pkt]]})
  BY DEF Sendable, Fits
<1>2. queue[i] \in QueueEntry
  BY <1>1 DEF Inv, TypeOK
<1> QED BY <1>1, <1>2 DEF QueueEntry

\* Every step keeps the invariant.
LEMMA NextInv == Inv /\ [Next]_vars => Inv'
<1> SUFFICES ASSUME Inv, [Next]_vars PROVE Inv'
  OBVIOUS
<1>0. /\ sockets \subseteq Device /\ ft \in FT
      /\ queue \in Seq(QueueEntry) /\ maxLen \in MaxLens /\ maxLen \in Nat /\ cut \in BOOLEAN
      /\ loop \subseteq Packet /\ out \subseteq OutType
      /\ sockets = {} => \A d \in Dest : ft[d] = NoRoute
      /\ OncePacked(queue) /\ (~cut => Len(queue) <= maxLen) /\ Len(queue) \in Nat
  BY MaxLensAssumption DEF Inv, TypeOK, OutType
<1>1. ASSUME NEW p \in Packet, RouteOutput(p) PROVE Inv'
  <2>1. out' \subseteq OutType
    BY <1>0, <1>1 DEF RouteOutput, OutType, Sent, FT
  <2> QED BY <1>0, <1>1, <2>1 DEF Inv, TypeOK, OutType, OncePacked, RouteOutput
<1>2. ASSUME NEW p \in Packet, LoopbackRoute(p) PROVE Inv'
  BY <1>0, <1>2 DEF Inv, TypeOK, OncePacked, LoopbackRoute
<1>3. ASSUME NEW p \in Packet, DeferredRouteOutput(p) PROVE Inv'
  <2>1. /\ queue' \in Seq(QueueEntry) /\ OncePacked(queue')
        /\ Len(queue) <= maxLen => Len(queue') <= maxLen
    <3>1. CASE sockets = {}
      BY <1>0, <1>3, <3>1 DEF DeferredRouteOutput
    <3>2. CASE sockets # {}
      <4>1. queue' \in Enqueue(queue, maxLen, p)
        BY <1>3, <3>2 DEF DeferredRouteOutput
      <4> QED BY <1>0, <4>1, Enqueued
    <3> QED BY <3>1, <3>2
  <2> QED BY <1>0, <1>3, <2>1 DEF Inv, TypeOK, OncePacked, DeferredRouteOutput
<1>4. ASSUME NEW dst \in Dest, Forwarding(dst) PROVE Inv'
  <2>1. out' \subseteq OutType
    BY <1>0, <1>4 DEF Forwarding, Forwarded, OutType, Sent, FT
  <2> QED BY <1>0, <1>4, <2>1 DEF Inv, TypeOK, OutType, OncePacked, Forwarding
<1>5. ASSUME NEW more \in BOOLEAN, ReceiveBroadcast(more) PROVE Inv'
  <2>1. out' \subseteq OutType
    BY <1>0, <1>5, BcastAssumption DEF ReceiveBroadcast, Forwarded, OutType, Sent, FT
  <2> QED BY <1>0, <1>5, <2>1 DEF Inv, TypeOK, OutType, OncePacked, ReceiveBroadcast
<1>6. CASE RecvUpdate
  <2>1. ft' \in FT /\ Flush(ft')
    BY <1>6 DEF RecvUpdate, Computed
  <2>2. out' \subseteq OutType
    <3>1. ASSUME NEW o \in out' PROVE o \in OutType
      <4>1. PICK i \in Sendable(queue, ft') :
              o = Sent(queue[i].pkt, Dst[queue[i].pkt], ft'[Dst[queue[i].pkt]])
        BY <2>1, <3>1, Flushed
      <4> QED BY <2>1, <4>1, SendableTyped DEF OutType, Sent
    <3> QED BY <3>1
  <2>3. queue' \in Seq(QueueEntry) /\ OncePacked(queue)' /\ Len(queue') = Len(queue)
    BY <2>1, Flushed
  <2> QED BY <1>0, <1>6, <2>1, <2>2, <2>3 DEF Inv, TypeOK, OutType, OncePacked, RecvUpdate
<1>7. CASE ComputeForwardingTable
  BY <1>0, <1>7 DEF Inv, TypeOK, OncePacked, ComputeForwardingTable, Computed
<1>8. ASSUME NEW dev \in Device, NotifyInterfaceUp(dev) PROVE Inv'
  BY <1>0, <1>8, BcastAssumption DEF Inv, TypeOK, OncePacked, NotifyInterfaceUp, FT
<1>9. ASSUME NEW dev \in Device, NotifyInterfaceDown(dev) PROVE Inv'
  <2>1. ft' \in FT /\ (sockets' = {} => \A d \in Dest : ft'[d] = NoRoute)
    BY <1>0, <1>9 DEF NotifyInterfaceDown, FT
  <2>2. sockets' \subseteq Device /\ out' = {} /\ UNCHANGED <<queue, maxLen, cut, loop>>
    BY <1>0, <1>9 DEF NotifyInterfaceDown
  <2> QED BY <1>0, <2>1, <2>2 DEF Inv, TypeOK, OncePacked
<1>10. ASSUME NEW len \in MaxLens, SetMaxQueueLen(len) PROVE Inv'
  <2>1. /\ maxLen' = len /\ out' = {} /\ UNCHANGED <<sockets, ft, queue, loop>>
        /\ cut' \in BOOLEAN
    BY <1>10 DEF SetMaxQueueLen
  <2>2. ~cut' => Len(queue') <= maxLen'
    <3>1. len \in Nat /\ Len(queue) \in Nat
      BY <1>0, MaxLensAssumption
    <3>2. cut' = (len < Len(queue))
      BY <1>10 DEF SetMaxQueueLen
    <3>3. CASE len < Len(queue)
      <4>1. cut' = TRUE
        BY <3>2, <3>3
      <4> QED BY <4>1
    <3>4. CASE ~(len < Len(queue))
      BY <2>1, <3>1, <3>4
    <3> QED BY <3>3, <3>4
  <2>3. TypeOK' /\ OncePacked(queue)'
    BY <1>0, <1>10, <2>1 DEF TypeOK, OncePacked
  <2> QED BY <2>2, <2>3 DEF Inv
<1>11. ASSUME NEW dst \in Dest, DropPackets(dst) PROVE Inv'
  <2>1. queue' \in Seq(QueueEntry) /\ OncePacked(queue') /\ Len(queue') <= Len(queue)
    BY <1>0, <1>11, DroppedDst DEF DropPackets
  <2>2. Len(queue') \in Nat
    BY <2>1
  <2> QED BY <1>0, <1>11, <2>1, <2>2 DEF Inv, TypeOK, OncePacked, DropPackets
<1>12. CASE UNCHANGED vars
  BY <1>12 DEF Inv, TypeOK, OncePacked, vars
<1>13. ASSUME NEW oif, RouteOutputNoPacket(oif) PROVE Inv'
  BY <1>0, <1>13 DEF Inv, TypeOK, OncePacked, RouteOutputNoPacket
<1>14. ASSUME NEW dst \in Dest, DeliverLocally(dst) PROVE Inv'
  <2>1. out' \subseteq OutType
    BY <1>14 DEF DeliverLocally, OutType, Sent
  <2> QED BY <1>0, <1>14, <2>1 DEF Inv, TypeOK, OutType, OncePacked, DeliverLocally
<1> QED BY <1>1, <1>2, <1>3, <1>4, <1>5, <1>6, <1>7, <1>8, <1>9, <1>10, <1>11, <1>12,
           <1>13, <1>14 DEF Next

LEMMA InvHolds == Spec => []Inv
BY InitInv, NextInv, PTL DEF Spec

\* The buffer, the forwarding table and what is sent keep their types, and a node
\* without interfaces has no routes.
THEOREM TypeCorrect == Spec => []TypeOK
<1>1. Inv => TypeOK
  BY DEF Inv
<1> QED BY <1>1, InvHolds, PTL

\* The buffer holds no packet twice and never more than the maximum, unless the
\* maximum was set below what it held.
THEOREM BufferStaysBounded == Spec => []BufferBounded
<1>1. Inv => BufferBounded
  BY OncePackedCount DEF Inv, TypeOK, BufferBounded
<1> QED BY <1>1, InvHolds, PTL

-----------------------------------------------------------------------------
(* What is sent, and what is lost. *)

\* A packet on its way to the buffer or in it is lost one at a time, in a full
\* buffer or on a node without interfaces, or with all that go where it goes.
THEOREM PacketsStay == Spec => PacketsKept
<1> DEFINE One == loop' # loop /\ Cardinality(Kept \ Kept') = 1
                  /\ (sockets = {} \/ Len(queue) = maxLen)
           ForOne == loop' = loop /\ \E d \in Dest :
                       Packets(queue') = {p \in Packets(queue) : Dst[p] # d}
           A == Kept \subseteq Kept' \/ One \/ ForOne
<1>1. Inv /\ [Next]_vars => [A]_vars
  <2> SUFFICES ASSUME Inv, Next PROVE A
    OBVIOUS
  <2>1. ASSUME UNCHANGED <<queue, loop>> PROVE A
    BY <2>1 DEF Kept, Packets
  <2>2. ASSUME NEW p \in Packet, LoopbackRoute(p) PROVE A
    BY <2>2 DEF LoopbackRoute, Kept, Packets
  <2>3. ASSUME NEW p \in Packet, DeferredRouteOutput(p) PROVE A
    <3>0. p \in loop /\ loop' = loop \ {p} /\ loop' # loop
      BY <2>3 DEF DeferredRouteOutput
    <3>1. ASSUME NEW r, Kept \ Kept' \subseteq {r}, sockets = {} \/ Len(queue) = maxLen PROVE A
      <4>1. Kept \subseteq Kept' \/ Kept \ Kept' = {r}
        BY <3>1
      <4>2. Cardinality({r}) = 1
        BY FS_Singleton
      <4> QED BY <3>0, <3>1, <4>1, <4>2
    <3>2. CASE sockets = {}
      <4>1. Kept \ Kept' \subseteq {p}
        BY <2>3, <3>0, <3>2 DEF DeferredRouteOutput, Kept, Packets
      <4> QED BY <3>1, <3>2, <4>1
    <3>3. CASE sockets # {}
      <4>1. queue' \in Enqueue(queue, maxLen, p)
        BY <2>3, <3>3 DEF DeferredRouteOutput
      <4>2. queue \in Seq(QueueEntry) /\ OncePacked(queue) /\ maxLen \in Nat
        BY MaxLensAssumption DEF Inv, TypeOK
      <4>3. \/ Packets(queue') = Packets(queue) \cup {p}
            \/ queue' = queue /\ Len(queue) = maxLen
            \/ /\ Len(queue) = maxLen
               /\ \E r \in Packets(queue) : Packets(queue') = (Packets(queue) \ {r}) \cup {p}
        BY <4>1, <4>2, Enqueued
      <4>4. CASE Packets(queue') = Packets(queue) \cup {p}
        BY <3>0, <4>4 DEF Kept, Packets
      <4>5. CASE queue' = queue /\ Len(queue) = maxLen
        <5>1. Kept \ Kept' \subseteq {p}
          BY <3>0, <4>5 DEF Kept, Packets
        <5> QED BY <3>1, <4>5, <5>1
      <4>6. ASSUME Len(queue) = maxLen, NEW r \in Packets(queue),
                   Packets(queue') = (Packets(queue) \ {r}) \cup {p}
            PROVE  A
        <5>1. Kept \ Kept' \subseteq {r}
          BY <3>0, <4>6 DEF Kept, Packets
        <5> QED BY <3>1, <4>6, <5>1
      <4> QED BY <4>3, <4>4, <4>5, <4>6
    <3> QED BY <3>2, <3>3
  <2>4. CASE RecvUpdate
    <3>1. Packets(queue') = Packets(queue) /\ loop' = loop
      BY <2>4, Flushed DEF RecvUpdate, Computed
    <3> QED BY <3>1 DEF Kept, Packets
  <2>5. ASSUME NEW dst \in Dest, DropPackets(dst) PROVE A
    <3>1. Packets(queue') = {p \in Packets(queue) : Dst[p] # dst}
      BY <2>5, DroppedDst DEF DropPackets, Inv, TypeOK
    <3>2. loop' = loop
      BY <2>5 DEF DropPackets
    <3> QED BY <3>1, <3>2
  <2> QED BY <2>1, <2>2, <2>3, <2>4, <2>5
          DEF Next, RouteOutput, RouteOutputNoPacket, Forwarding, DeliverLocally,
              ReceiveBroadcast, ComputeForwardingTable,
              NotifyInterfaceUp, NotifyInterfaceDown, SetMaxQueueLen
<1> QED BY <1>1, InvHolds, PTL DEF Spec, PacketsKept

\* A packet whose sender fixed the device leaves through another one only if it
\* was dequeued before.
THEOREM DeviceStays == Spec => DeviceKept
<1> DEFINE A == \A o \in out' :
                  o.pkt \in Packet /\ Oif[o.pkt] \notin {NoDevice, o.dev} =>
                    \E i \in 1..Len(queue) : queue[i] = [pkt |-> o.pkt, tagged |-> FALSE]
<1>1. Inv /\ [Next]_vars => [A]_vars
  <2> SUFFICES ASSUME Inv, Next PROVE A
    OBVIOUS
  <2>1. ASSUME out' = {} PROVE A
    BY <2>1
  <2>2. ASSUME NEW p \in Packet, RouteOutput(p) PROVE A
    BY <2>2 DEF RouteOutput, Sent
  <2>3. ASSUME NEW dst \in Dest, Forwarding(dst) PROVE A
    BY <2>3, ForeignAssumption DEF Forwarding, Forwarded, Sent
  <2>4. ASSUME NEW more \in BOOLEAN, ReceiveBroadcast(more) PROVE A
    BY <2>4, ForeignAssumption DEF ReceiveBroadcast, Forwarded, Sent
  <2>5. CASE RecvUpdate
    <3>1. ft' \in FT /\ Flush(ft')
      BY <2>5 DEF RecvUpdate, Computed
    <3>2. ASSUME NEW o \in out', Oif[o.pkt] \notin {NoDevice, o.dev}
          PROVE  \E i \in 1..Len(queue) : queue[i] = [pkt |-> o.pkt, tagged |-> FALSE]
      <4>1. PICK i \in Sendable(queue, ft') :
              o = Sent(queue[i].pkt, Dst[queue[i].pkt], ft'[Dst[queue[i].pkt]])
        BY <3>1, <3>2, Flushed
      <4>2. o.pkt = queue[i].pkt /\ o.dev = ft'[Dst[queue[i].pkt]]
        BY <4>1 DEF Sent
      <4>3. /\ i \in 1..Len(queue) /\ queue[i] \in QueueEntry
            /\ queue[i].tagged => Oif[o.pkt] \in {NoDevice, o.dev}
        BY <3>1, <4>1, <4>2, SendableTyped
      <4>4. queue[i].tagged = FALSE
        BY <3>2, <4>3 DEF QueueEntry
      <4>5. queue[i] = [pkt |-> o.pkt, tagged |-> FALSE]
        BY <4>2, <4>3, <4>4 DEF QueueEntry
      <4> QED BY <4>3, <4>5
    <3> QED BY <3>2
  <2>6. ASSUME NEW dst \in Dest, DeliverLocally(dst) PROVE A
    BY <2>6, ForeignAssumption DEF DeliverLocally, Sent
  <2> QED BY <2>1, <2>2, <2>3, <2>4, <2>5, <2>6
          DEF Next, RouteOutputNoPacket, LoopbackRoute, DeferredRouteOutput, ComputeForwardingTable,
              NotifyInterfaceUp, NotifyInterfaceDown, SetMaxQueueLen, DropPackets
<1> QED BY <1>1, InvHolds, PTL DEF Spec, DeviceKept
=============================================================================
