----------------------- MODULE BsdvrInterfacesProofs -----------------------
(***************************************************************************)
(* Proofs about BsdvrInterfaces: its type invariant, that sockets match    *)
(* addresses, when routes leave, that a node with one address never runs   *)
(* into a failed assertion, and that it behaves as BsdvrNode.  The         *)
(* handlers of BsdvrControlPlane are taken here with entries that have an  *)
(* m_iface, of which the proofs say where it comes from, and that no       *)
(* handler does anything else than it does without.                        *)
(***************************************************************************)
EXTENDS BsdvrInterfaces, BsdvrControlPlaneProofs

\* The entries and routes with an m_iface in A.
EntriesVia(A) == {rt \in IfaceEntry : rt.iface \in A}

RoutesVia(A) == EntriesVia(A) \cup {NoRoute}

\* The states of the node when A are the addresses that had sockets.
StatesVia(A) ==
  [nb : Seq(Remote), expired : SUBSET Remote, ntimer : BOOLEAN, htimer : BOOLEAN,
   ft : [Dest -> RoutesVia(A)], known : SUBSET Remote, dvt : [Node -> [Dest -> RoutesVia(A)]],
   prq : Seq(PendingReply), late : SUBSET PendingReply, up : BOOLEAN]

\* t follows s in a handler that neither loses a route nor touches m_nb or the sockets.
Follows(s, t, A) == t \in StatesVia(A) /\ t.nb = s.nb /\ t.up = s.up /\ Keeps(s, t)

\* The UPDATEs that a node whose m_mainAddress is n may send.
UpdatesFrom(n) ==
  [type : {"UPDATE"}, from : {n}, to : Remote, dst : Dest, hops : 0..255, state : RouteState]

\* Every message in out is one of them, about a route of s.
Installed(n, s, out) == out \subseteq UpdatesFrom(n) /\ \A u \in out : s.ft[u.dst] # NoRoute

-----------------------------------------------------------------------------
(* The handlers on entries with an m_iface. *)

LEMMA RemoteNode == Remote \subseteq Node /\ Remote \subseteq Dest
BY DEF Remote, Dest

\* Entries are never NoRoute, and stay what they are when they get INACTIVE.
LEMMA InactiveVia ==
  ASSUME NEW A, NEW rt \in EntriesVia(A)
  PROVE  /\ rt # NoRoute
         /\ [rt EXCEPT !.state = "INACTIVE"] \in EntriesVia(A)
BY IfaceNoRouteAssumption DEF EntriesVia, IfaceEntry, RouteState

\* The states for A are states for a larger B.
LEMMA StatesMonotone ==
  ASSUME NEW A, NEW B, A \subseteq B
  PROVE  EntriesVia(A) \subseteq EntriesVia(B) /\ StatesVia(A) \subseteq StatesVia(B)
<1>1. EntriesVia(A) \subseteq EntriesVia(B) /\ RoutesVia(A) \subseteq RoutesVia(B)
  BY DEF EntriesVia, RoutesVia
<1>2. StatesVia(A) \subseteq StatesVia(B)
  BY <1>1 DEF StatesVia
<1> QED BY <1>1, <1>2

\* UPDATEs about installed routes need sockets of addresses in A only.
LEMMA SentViaUsed ==
  ASSUME NEW A, NEW n, NEW s \in StatesVia(A), NEW out, Installed(n, s, out)
  PROVE  SentVia(s, out) \subseteq A
<1>1. ASSUME NEW u \in out PROVE s.ft[u.dst].iface \in A
  <2>1. u.dst \in Dest /\ s.ft[u.dst] # NoRoute
    BY DEF Installed, UpdatesFrom
  <2>2. s.ft[u.dst] \in RoutesVia(A)
    BY <2>1 DEF StatesVia
  <2> QED BY <2>1, <2>2 DEF RoutesVia, EntriesVia
<1> QED BY <1>1 DEF SentVia

LEMMA VisitVia ==
  ASSUME NEW A, NEW s \in StatesVia(A), NEW d \in Dest, NEW rt \in RoutesVia(A), NEW i \in Node
  PROVE  /\ Visit(s, d, rt, i) \in RoutesVia(A)
         /\ rt # NoRoute => Visit(s, d, rt, i) # NoRoute
<1> DEFINE new == s.dvt[i][d]
           curr == RefreshForwardingTable(s, d, rt)
<1>1. /\ s.dvt \in [Node -> [Dest -> RoutesVia(A)]] /\ s.known \subseteq Node
      /\ new \in RoutesVia(A)
  BY RemoteNode DEF StatesVia
<1>2. ASSUME rt # NoRoute PROVE curr \in RoutesVia(A) /\ curr # NoRoute
  <2>1. rt \in EntriesVia(A)
    BY <1>2 DEF RoutesVia
  <2>2. CASE rt.next \in s.known /\ s.dvt[rt.next][d] # NoRoute
    BY <1>1, <2>2 DEF RefreshForwardingTable
  <2>3. CASE rt.next \in s.known /\ s.dvt[rt.next][d] = NoRoute
    BY <1>2, <2>3 DEF RefreshForwardingTable
  <2>4. CASE rt.next \notin s.known
    <3>1. curr = [rt EXCEPT !.state = "INACTIVE"]
      BY <2>4 DEF RefreshForwardingTable
    <3>2. curr \in EntriesVia(A)
      BY <2>1, <3>1, InactiveVia
    <3> QED BY <3>2, InactiveVia DEF RoutesVia
  <2> QED BY <2>2, <2>3, <2>4
<1> HIDE DEF new, curr
<1>3. \/ Visit(s, d, rt, i) = rt
      \/ new # NoRoute /\ Visit(s, d, rt, i) = new
      \/ rt # NoRoute /\ Visit(s, d, rt, i) = curr
  BY DEF Visit, new, curr
<1> QED BY <1>1, <1>2, <1>3

LEMMA ComputeForwardingTableVia ==
  ASSUME NEW A, NEW s \in StatesVia(A)
  PROVE  Follows(s, ComputeForwardingTable(s), A)
<1> DEFINE ft == [d \in Dest |-> ComputeRoute(s, d)]
           t == ComputeForwardingTable(s)
<1>1. s.nb \in Seq(Remote) /\ s.nb \in Seq(Node) /\ s.ft \in [Dest -> RoutesVia(A)]
  BY RemoteNode DEF StatesVia
<1>2. t = [s EXCEPT !.ft = ft]
  BY DEF ComputeForwardingTable
<1>3. ASSUME NEW d \in Dest PROVE ft[d] \in RoutesVia(A)
  <2>1. \A x \in RoutesVia(A), i \in Node : Visit(s, d, x, i) \in RoutesVia(A)
    BY VisitVia
  <2> QED BY <1>1, <2>1, ComputeRouteIn
<1>4. ASSUME NEW d \in Dest, s.ft[d] # NoRoute PROVE ft[d] # NoRoute
  <2> DEFINE S == RoutesVia(A) \ {NoRoute}
  <2>1. s.ft[d] \in S /\ \A x \in S, i \in Node : Visit(s, d, x, i) \in S
    BY <1>1, <1>4, VisitVia
  <2>2. ComputeRoute(s, d) \in S
    <3> HIDE DEF S
    <3> QED BY <1>1, <2>1, ComputeRouteIn
  <2> QED BY <2>2
<1> HIDE DEF ft, t
<1>5. ft \in [Dest -> RoutesVia(A)]
  BY <1>3 DEF ft
<1>6. t \in StatesVia(A) /\ t.nb = s.nb /\ t.up = s.up /\ t.ft = ft
  BY <1>2, <1>5 DEF StatesVia
<1> QED BY <1>4, <1>6 DEF Follows, Keeps, t

LEMMA UpdateDistanceVectorTableVia ==
  ASSUME NEW A, NEW s \in StatesVia(A), NEW m \in Remote, NEW d \in Dest, NEW rt \in EntriesVia(A)
  PROVE  LET u == UpdateDistanceVectorTable(s, m, d, rt)
         IN  Follows(s, u, A) /\ u.ft = s.ft
<1> DEFINE u == UpdateDistanceVectorTable(s, m, d, rt)
           t == IF s.ft[d] # NoRoute THEN RemoveFakeRoutes(s, m, d, rt) ELSE s
           dvt == [i \in Node |-> [c \in Dest |->
                     IF c \in FakeDsts(s, m, d, rt) /\ Erased(s, i, c) THEN NoRoute ELSE s.dvt[i][c]]]
<1>1. s.dvt \in [Node -> [Dest -> RoutesVia(A)]] /\ NoRoute \in RoutesVia(A) /\ rt \in RoutesVia(A)
  BY DEF StatesVia, RoutesVia
<1>2. dvt \in [Node -> [Dest -> RoutesVia(A)]]
  BY <1>1
<1>3. t = s \/ t = [s EXCEPT !.dvt = dvt]
  BY DEF RemoveFakeRoutes
<1> HIDE DEF dvt
<1>4. u = t \/ u = [t EXCEPT !.known = t.known \cup {m}, !.dvt[m][d] = rt]
  BY DEF UpdateDistanceVectorTable
<1> HIDE DEF t, u
<1>5. t \in StatesVia(A) /\ t.nb = s.nb /\ t.up = s.up /\ t.ft = s.ft
  BY <1>2, <1>3 DEF StatesVia
<1>6. m \in Node
  BY RemoteNode
<1>7. u \in StatesVia(A) /\ u.nb = s.nb /\ u.up = s.up /\ u.ft = s.ft
  <2>1. CASE u = t
    BY <1>5, <2>1
  <2>2. CASE u # t
    <3> DEFINE new == [t.dvt EXCEPT ![m][d] = rt]
               known == t.known \cup {m}
    <3>1. new \in [Node -> [Dest -> RoutesVia(A)]]
      BY <1>1, <1>5, <1>6 DEF StatesVia
    <3>2. known \in SUBSET Remote
      BY <1>5 DEF StatesVia
    <3>3. u = [t EXCEPT !.known = known, !.dvt = new]
      BY <1>4, <1>5, <2>2 DEF StatesVia
    <3> HIDE DEF new, known
    <3> QED BY <1>5, <3>1, <3>2, <3>3 DEF StatesVia
  <2> QED BY <2>1, <2>2
<1> QED BY <1>7 DEF Follows, Keeps, u

LEMMA SendUpdateInstalled ==
  ASSUME NEW A, NEW n, NEW s \in StatesVia(A), NEW d \in Dest, s.ft[d] # NoRoute, NEW ne \in Remote
  PROVE  SendUpdate(n, s, d, ne) \in UpdatesFrom(n) /\ SendUpdate(n, s, d, ne).dst = d
<1>1. s.ft[d] \in IfaceEntry
  BY DEF StatesVia, RoutesVia, EntriesVia
<1> QED BY <1>1 DEF IfaceEntry, UpdatesFrom, SendUpdate, Update

LEMMA ChangesInstalled ==
  ASSUME NEW A, NEW n, NEW u, NEW t \in StatesVia(A), NEW nex
  PROVE  Installed(n, t, SendTriggeredUpdateChangesToNeighbors(n, t, Changes(n, u, t), nex))
<1>1. Neighbors(t) \subseteq Remote
  BY DEF StatesVia, Neighbors, Elems
<1>2. ASSUME NEW ne \in Neighbors(t), NEW d \in Changes(n, u, t)
      PROVE  /\ t.ft[d] # NoRoute /\ SendUpdate(n, t, d, ne) \in UpdatesFrom(n)
             /\ SendUpdate(n, t, d, ne).dst = d
  BY <1>1, SendUpdateInstalled DEF Changes
<1> QED BY <1>2 DEF Installed, SendTriggeredUpdateChangesToNeighbors

LEMMA ToNeighborInstalled ==
  ASSUME NEW A, NEW n, NEW t \in StatesVia(A), NEW m \in Remote
  PROVE  Installed(n, t, SendTriggeredUpdateToNeighbor(n, t, m))
<1>1. ASSUME NEW d \in Dest, t.ft[d] # NoRoute
      PROVE  SendUpdate(n, t, d, m) \in UpdatesFrom(n) /\ SendUpdate(n, t, d, m).dst = d
  BY <1>1, SendUpdateInstalled
<1> QED BY <1>1 DEF Installed, SendTriggeredUpdateToNeighbor

LEMMA SendUpdateOnLinkFailureVia ==
  ASSUME NEW A, NEW n, NEW s \in StatesVia(A), NEW ne \in Remote
  PROVE  LET r == SendUpdateOnLinkFailure(n, s, ne)
         IN  Follows(s, r.s, A) /\ Installed(n, r.s, r.out)
<1> DEFINE r == SendUpdateOnLinkFailure(n, s, ne)
           rt == [s.dvt[ne][ne] EXCEPT !.state = "INACTIVE"]
           u == UpdateDistanceVectorTable(s, ne, ne, rt)
           t == ComputeForwardingTable(u)
           out == SendTriggeredUpdateChangesToNeighbors(n, t, Changes(n, u, t), {ne})
<1>1. CASE ne \in Filtered \/ ne \notin s.known \/ s.dvt[ne][ne] = NoRoute
  <2>1. r = [s |-> s, out |-> {}]
    BY <1>1 DEF SendUpdateOnLinkFailure
  <2> QED BY <2>1 DEF Follows, Keeps, Installed
<1>2. CASE ~(ne \in Filtered \/ ne \notin s.known \/ s.dvt[ne][ne] = NoRoute)
  <2>1. r = [s |-> t, out |-> out]
    BY <1>2 DEF SendUpdateOnLinkFailure
  <2>2. s.dvt[ne][ne] \in EntriesVia(A)
    BY <1>2, RemoteNode DEF StatesVia, RoutesVia
  <2>3. rt \in EntriesVia(A)
    BY <2>2, InactiveVia
  <2> HIDE DEF rt
  <2>4. Follows(s, u, A)
    BY <2>3, RemoteNode, UpdateDistanceVectorTableVia
  <2> HIDE DEF u
  <2>5. Follows(u, t, A)
    BY <2>4, ComputeForwardingTableVia DEF Follows
  <2>6. Follows(s, t, A)
    BY <2>4, <2>5 DEF Follows, Keeps
  <2>7. Installed(n, t, out)
    BY <2>6, ChangesInstalled DEF Follows
  <2> QED BY <2>1, <2>6, <2>7
<1> QED BY <1>1, <1>2

LEMMA PurgeFollows ==
  ASSUME NEW A, NEW n, NEW s \in StatesVia(A)
  PROVE  LET r == Purge(n, s)
         IN  /\ r.s \in StatesVia(A) /\ r.s.up = s.up /\ Keeps(s, r.s)
             /\ s.nb = << >> => r.s = s
<1> DEFINE c == [s |-> s, out |-> {}]
           S == {x \in [s : StatesVia(A), out : SUBSET UpdatesFrom(n)] : Follows(s, x.s, A)}
           r == Purge(n, s)
<1>1. s.nb \in Seq(Remote) /\ Len(s.nb) \in Nat
  BY DEF StatesVia
<1>2. CASE s.nb = << >>
  <2>1. r.s = s
    BY <1>2 DEF Purge
  <2> QED BY <2>1 DEF Keeps
<1>3. CASE s.nb # << >>
  <2>1. c \in S
    BY DEF Follows, Keeps
  <2>2. ASSUME NEW k \in 1..Len(s.nb), NEW x \in S
        PROVE  AfterFailure(n, s, x, k) \in S
    <3> DEFINE y == SendUpdateOnLinkFailure(n, x.s, s.nb[k])
    <3>1. x.s \in StatesVia(A) /\ x.out \subseteq UpdatesFrom(n) /\ s.nb[k] \in Remote
      BY <1>1
    <3>2. Follows(x.s, y.s, A) /\ y.out \subseteq UpdatesFrom(n)
      BY <3>1, SendUpdateOnLinkFailureVia DEF Installed
    <3> HIDE DEF y
    <3>3. Follows(s, y.s, A)
      BY <3>2 DEF Follows, Keeps
    <3>4. [s |-> y.s, out |-> x.out \cup y.out] \in S
      BY <3>1, <3>2, <3>3 DEF Follows
    <3> QED BY <3>4 DEF y, AfterFailure
  <2>3. PICK last \in S :
          r = [s |-> [last.s EXCEPT !.nb = Without(s.nb, s.expired), !.expired = {}, !.ntimer = TRUE],
               out |-> last.out]
    <3> HIDE DEF S
    <3> QED BY <1>1, <1>3, <2>1, <2>2, PurgeIn
  <2> DEFINE nb == Without(s.nb, s.expired)
  <2>4. nb \in Seq(Remote)
    BY <1>1, WithoutElems
  <2>5. r.s = [last.s EXCEPT !.nb = nb, !.expired = {}, !.ntimer = TRUE]
    BY <2>3
  <2> HIDE DEF nb, r
  <2>6. last.s \in StatesVia(A) /\ last.s.up = s.up /\ Keeps(s, last.s)
    BY DEF Follows
  <2>7. r.s \in StatesVia(A) /\ r.s.up = s.up /\ r.s.ft = last.s.ft
    BY <2>4, <2>5, <2>6 DEF StatesVia
  <2> QED BY <1>3, <2>6, <2>7 DEF Keeps, r
<1> QED BY <1>2, <1>3

\* The addresses that the UPDATEs of a Purge need sockets for, if a turn of its
\* loop does not leave a set S.
LEMMA PurgeViaRun ==
  ASSUME NEW s, Len(s.nb) \in Nat, NEW S, [s |-> s, via |-> {}] \in S,
         \A k \in 1..Len(s.nb), x \in S :
           LET y == SendUpdateOnLinkFailure(main, x.s, s.nb[k])
           IN  [s |-> y.s, via |-> x.via \cup SentVia(y.s, y.out)] \in S
  PROVE  /\ \E last \in S : PurgeVia(s) = last.via
         /\ s.nb = << >> => PurgeVia(s) = {}
<1> DEFINE L == Len(s.nb)
           c == [s |-> s, via |-> {}]
           X(x, k) == SendUpdateOnLinkFailure(main, x.s, s.nb[k])
           Step(x, k) == IF s.nb[k] \notin s.expired THEN x
                         ELSE [s |-> X(x, k).s, via |-> x.via \cup SentVia(X(x, k).s, X(x, k).out)]
           G == [k \in 1..L |-> [x \in S |-> Step(x, k)]]
           F(g) == [k \in 0..L |->
                      IF k = 0 THEN c
                      ELSE IF s.nb[k] \notin s.expired THEN g[k-1]
                      ELSE LET r == SendUpdateOnLinkFailure(main, g[k-1].s, s.nb[k])
                           IN  [s |-> r.s, via |-> g[k-1].via \cup SentVia(r.s, r.out)]]
           fail == CHOOSE g : g = F(g)
           last == fail[L]
<1>1. PurgeVia(s) = last.via
  BY DEF PurgeVia
<1>2. L \in Nat /\ c \in S /\ c.via = {} /\ (s.nb = << >> => L = 0)
  OBVIOUS
<1>3. ASSUME NEW k \in 1..L, NEW x \in S PROVE Step(x, k) \in S
  OBVIOUS
<1> HIDE DEF L, c, Step
<1>4. G \in [1..L -> [S -> S]]
  BY <1>3
<1> HIDE DEF G
<1>5. PICK f : f \in Iterations(S, L, c, G)
  <2>1. Iterations(S, L, c, G) # {}
    BY <1>2, <1>4, IterationExists
  <2> QED BY <2>1
<1>6. f = F(f)
  <2>1. f \in [0..L -> S] /\ f[0] = c /\ \A k \in 1..L : f[k] = G[k][f[k-1]]
    BY <1>5 DEF Iterations
  <2>2. ASSUME NEW k \in 1..L PROVE f[k] = F(f)[k]
    <3>1. k-1 \in 0..L /\ k \in 0..L /\ k # 0
      BY <1>2
    <3>2. f[k-1] \in S
      BY <3>1, <2>1
    <3>3. f[k] = Step(f[k-1], k)
      BY <2>1, <3>2 DEF G
    <3> QED BY <3>1, <3>3 DEF Step
  <2>3. ASSUME NEW k \in 0..L PROVE k # 0 => k \in 1..L
    BY <1>2
  <2>4. ASSUME NEW k \in 0..L PROVE f[k] = F(f)[k]
    BY <2>1, <2>2, <2>3
  <2> QED BY <2>1, <2>4
<1> HIDE DEF F
<1>7. fail = F(fail)
  BY <1>6
<1> HIDE DEF fail
<1>8. fail[0] = c /\ \A k \in 1..L : fail[k] = Step(fail[k-1], k)
  <2>1. 0 \in 0..L /\ \A k \in 1..L : k \in 0..L /\ k # 0
    BY <1>2
  <2>2. fail[0] = c
    BY <1>7, <2>1 DEF F
  <2>3. ASSUME NEW k \in 1..L PROVE fail[k] = Step(fail[k-1], k)
    <3>1. k \in 0..L /\ k # 0
      BY <2>1
    <3> QED BY <1>7, <3>1 DEF F, Step
  <2> QED BY <2>2, <2>3
<1> DEFINE T == [k \in 0..L |-> S]
<1>9. T[0] = S /\ T[L] = S /\ \A k \in 1..L : T[k] = S /\ T[k-1] = S
  BY <1>2
<1> HIDE DEF T
<1>10. fail[0] \in T[0] /\ \A k \in 1..L : fail[k-1] \in T[k-1] => fail[k] \in T[k]
  BY <1>2, <1>3, <1>8, <1>9
<1>11. \A k \in 0..L : fail[k] \in T[k]
  BY <1>2, <1>10, Invariance
<1>12. last \in S
  BY <1>2, <1>9, <1>11
<1> QED BY <1>1, <1>2, <1>8, <1>12

LEMMA PurgeViaUsed ==
  ASSUME NEW A, NEW s \in StatesVia(A)
  PROVE  PurgeVia(s) \subseteq A /\ (s.nb = << >> => PurgeVia(s) = {})
<1> DEFINE S == [s : StatesVia(A), via : SUBSET A]
<1>1. s.nb \in Seq(Remote) /\ Len(s.nb) \in Nat /\ [s |-> s, via |-> {}] \in S
  BY DEF StatesVia
<1>2. ASSUME NEW k \in 1..Len(s.nb), NEW x \in S
      PROVE  LET y == SendUpdateOnLinkFailure(main, x.s, s.nb[k])
             IN  [s |-> y.s, via |-> x.via \cup SentVia(y.s, y.out)] \in S
  <2> DEFINE y == SendUpdateOnLinkFailure(main, x.s, s.nb[k])
  <2>1. x.s \in StatesVia(A) /\ x.via \subseteq A /\ s.nb[k] \in Remote
    BY <1>1
  <2>2. y.s \in StatesVia(A) /\ Installed(main, y.s, y.out)
    BY <2>1, SendUpdateOnLinkFailureVia DEF Follows
  <2>3. SentVia(y.s, y.out) \subseteq A
    BY <2>2, SentViaUsed
  <2> HIDE DEF y
  <2>4. [s |-> y.s, via |-> x.via \cup SentVia(y.s, y.out)] \in S
    BY <2>1, <2>2, <2>3
  <2> QED BY <2>4 DEF y
<1>3. /\ \E last \in S : PurgeVia(s) = last.via
      /\ s.nb = << >> => PurgeVia(s) = {}
  <2> HIDE DEF S
  <2> QED BY <1>1, <1>2, PurgeViaRun
<1> QED BY <1>3

\* A row of m's table is set to rt.
LEMMA RowVia ==
  ASSUME NEW A, NEW s \in StatesVia(A), NEW m \in Remote, NEW d \in Dest, NEW rt \in EntriesVia(A)
  PROVE  LET t == [s EXCEPT !.dvt[m][d] = rt]
         IN  t \in StatesVia(A) /\ t.ft = s.ft /\ t.nb = s.nb /\ t.up = s.up
<1> DEFINE dvt == [s.dvt EXCEPT ![m][d] = rt]
<1>1. dvt \in [Node -> [Dest -> RoutesVia(A)]]
  BY RemoteNode DEF StatesVia, RoutesVia
<1>2. [s EXCEPT !.dvt[m][d] = rt] = [s EXCEPT !.dvt = dvt]
  BY DEF StatesVia
<1> HIDE DEF dvt
<1> QED BY <1>1, <1>2 DEF StatesVia

LEMMA NeighborUpdateFollows ==
  ASSUME NEW A, NEW n, NEW s \in StatesVia(A), NEW m \in Remote
  PROVE  LET r == NeighborUpdate(n, s, m) IN r.s \in StatesVia(A) /\ r.s.up = s.up /\ Keeps(s, r.s)
<1> DEFINE nb == Append(s.nb, m)
           t == [s EXCEPT !.nb = nb]
           v == [s EXCEPT !.expired = s.expired \ {m}]
<1>1. CASE m \in Neighbors(s)
  <2>1. NeighborUpdate(n, s, m).s = v
    BY <1>1 DEF NeighborUpdate
  <2>2. v \in StatesVia(A) /\ v.up = s.up /\ v.ft = s.ft
    BY DEF StatesVia
  <2> HIDE DEF v
  <2> QED BY <2>1, <2>2 DEF Keeps
<1>2. CASE m \notin Neighbors(s)
  <2>1. NeighborUpdate(n, s, m) = Purge(n, t)
    BY <1>2 DEF NeighborUpdate
  <2>2. nb \in Seq(Remote)
    BY DEF StatesVia
  <2> HIDE DEF nb
  <2>3. t \in StatesVia(A) /\ t.up = s.up /\ t.ft = s.ft
    BY <2>2 DEF StatesVia
  <2> HIDE DEF t
  <2>4. Purge(n, t).s \in StatesVia(A) /\ Purge(n, t).s.up = t.up /\ Keeps(t, Purge(n, t).s)
    BY <2>3, PurgeFollows
  <2>5. Keeps(s, Purge(n, t).s)
    BY <2>3, <2>4 DEF Keeps
  <2> QED BY <2>1, <2>3, <2>4, <2>5
<1> QED BY <1>1, <1>2

LEMMA EnqueueFollows ==
  ASSUME NEW A, NEW n, NEW s \in StatesVia(A), NEW en \in PendingReply
  PROVE  LET r == Enqueue(n, s, en)
         IN  /\ r.s \in StatesVia(A) /\ r.s.ft = s.ft /\ r.s.nb = s.nb /\ r.s.up = s.up
             /\ Installed(n, s, r.out)
<1> DEFINE r == Enqueue(n, s, en)
           q == Without(s.prq, s.late)
           room == MakeRoom(q)
           prq == IF en \in Elems(q) THEN q ELSE Append(room, en)
           due == {e \in Elems(s.prq) : e \in s.late /\ MayReply(s, e.ne, e.dst)}
<1>1. r.s = [s EXCEPT !.prq = prq, !.late = {}] /\ r.out = {SendUpdate(n, s, e.dst, e.ne) : e \in due}
  BY DEF Enqueue
<1>2. s.prq \in Seq(PendingReply) /\ Neighbors(s) \subseteq Remote
  BY DEF StatesVia, Neighbors, Elems
<1>3. q \in Seq(PendingReply)
  BY <1>2, WithoutElems
<1> HIDE DEF q
<1>4. room \in Seq(PendingReply)
  <2>1. CASE Len(q) = MaxPRQueueLen
    <3>1. q # << >>
      BY <1>3, <2>1, MaxPRQueueLenAssumption
    <3> QED BY <1>3, <2>1, <3>1 DEF MakeRoom
  <2>2. CASE Len(q) # MaxPRQueueLen
    BY <1>3, <2>2 DEF MakeRoom
  <2> QED BY <2>1, <2>2
<1> HIDE DEF room
<1>5. prq \in Seq(PendingReply)
  BY <1>3, <1>4
<1> HIDE DEF prq, r
<1>6. r.s \in StatesVia(A) /\ r.s.ft = s.ft /\ r.s.nb = s.nb /\ r.s.up = s.up
  BY <1>1, <1>5 DEF StatesVia
<1>7. ASSUME NEW d \in Dest, NEW ne \in Remote, s.ft[d] # NoRoute
      PROVE  SendUpdate(n, s, d, ne) \in UpdatesFrom(n) /\ SendUpdate(n, s, d, ne).dst = d
  BY <1>7, SendUpdateInstalled
<1>8. ASSUME NEW e \in due
      PROVE  /\ s.ft[e.dst] # NoRoute /\ SendUpdate(n, s, e.dst, e.ne) \in UpdatesFrom(n)
             /\ SendUpdate(n, s, e.dst, e.ne).dst = e.dst
  <2>1. e \in Elems(s.prq) /\ MayReply(s, e.ne, e.dst)
    OBVIOUS
  <2>2. e \in PendingReply
    BY <1>2, <2>1 DEF Elems
  <2>3. e.dst \in Dest /\ e.ne \in Remote /\ s.ft[e.dst] # NoRoute
    BY <1>2, <2>1, <2>2 DEF MayReply, PendingReply
  <2> QED BY <1>7, <2>3
<1> HIDE DEF due
<1>9. Installed(n, s, r.out)
  BY <1>1, <1>8 DEF Installed
<1> QED BY <1>6, <1>9 DEF r

LEMMA RetransmitToNeighborFollows ==
  ASSUME NEW A, NEW n, NEW s \in StatesVia(A), NEW m \in Remote, NEW d \in Dest, NEW hops
  PROVE  LET r == RetransmitToNeighbor(n, s, m, d, hops)
         IN  /\ r.s \in StatesVia(A) /\ r.s.ft = s.ft /\ r.s.nb = s.nb /\ r.s.up = s.up
             /\ Installed(n, s, r.out)
<1> DEFINE r == RetransmitToNeighbor(n, s, m, d, hops)
           en == [ne |-> m, dst |-> d]
<1>1. \/ r = [s |-> s, out |-> {}]
      \/ MayReply(s, m, d) /\ r = [s |-> s, out |-> {SendUpdate(n, s, d, m)}]
      \/ r = Enqueue(n, s, en)
  BY DEF RetransmitToNeighbor
<1>2. ASSUME MayReply(s, m, d) PROVE Installed(n, s, {SendUpdate(n, s, d, m)})
  BY <1>2, SendUpdateInstalled DEF MayReply, Installed
<1>3. en \in PendingReply
  BY RemoteNode DEF PendingReply
<1> HIDE DEF r, en
<1>4. CASE r = [s |-> s, out |-> {}]
  BY <1>4 DEF Installed, r
<1>5. CASE MayReply(s, m, d) /\ r = [s |-> s, out |-> {SendUpdate(n, s, d, m)}]
  BY <1>2, <1>5 DEF r
<1>6. CASE r = Enqueue(n, s, en)
  BY <1>3, <1>6, EnqueueFollows DEF r
<1> QED BY <1>1, <1>4, <1>5, <1>6

-----------------------------------------------------------------------------
(* Sockets. *)

\* i's broadcast address is heard, and there is a subnet broadcast socket for a.
Heard(subs, i, a) == subs.live[i] # NoAddress /\ Closed(subs, a) # {}

\* t is subs but for the sockets of interface i.
SameElsewhere(subs, t, i) ==
  /\ \A j \in Interface \ {i} : t.live[j] = subs.live[j]
  /\ \A b \in Address : On[b] # i => t.deaf[b] = subs.deaf[b]

\* A bound socket is the one it was, or is bound to i for an address in B.
BoundFor(subs, t, i, B) ==
  \A j \in Interface : t.live[j] \in {subs.live[j], NoAddress} \/ (j = i /\ t.live[j] \in B)

LEMMA ClosedNonempty ==
  ASSUME NEW subs, NEW a
  PROVE  Closed(subs, a) # {} <=> subs.live[On[a]] = a \/ subs.deaf[a] > 0
BY DEF Closed

LEMMA HeardElsewhere ==
  ASSUME NEW subs, NEW t, NEW i \in Interface, SameElsewhere(subs, t, i),
         NEW j \in Interface \ {i}, NEW a \in Address, On[a] = j, Heard(subs, j, a)
  PROVE  Heard(t, j, a)
BY ClosedNonempty DEF Heard, SameElsewhere

LEMMA ClosedSockets ==
  ASSUME NEW subs \in SubnetSockets, NEW a \in Address, NEW t \in Closed(subs, a)
  PROVE  t \in SubnetSockets /\ SameElsewhere(subs, t, On[a]) /\ BoundFor(subs, t, On[a], {})
<1>1. On[a] \in Interface
  BY OnAssumption
<1>2. CASE t = [subs EXCEPT !.live[On[a]] = NoAddress]
  BY <1>1, <1>2 DEF SubnetSockets, SameElsewhere, BoundFor
<1>3. CASE t = [subs EXCEPT !.deaf[a] = @ - 1] /\ subs.deaf[a] > 0
  <2>1. subs.deaf[a] - 1 \in Nat
    BY <1>3 DEF SubnetSockets
  <2> QED BY <1>1, <1>3, <2>1 DEF SubnetSockets, SameElsewhere, BoundFor
<1> QED BY <1>2, <1>3 DEF Closed

LEMMA OpenedSockets ==
  ASSUME NEW subs \in SubnetSockets, NEW a \in Address
  PROVE  LET t == Opened(subs, a)
         IN  /\ t \in SubnetSockets /\ SameElsewhere(subs, t, On[a])
             /\ BoundFor(subs, t, On[a], {a}) /\ Heard(t, On[a], a)
<1> DEFINE t == Opened(subs, a)
<1>1. On[a] \in Interface /\ a # NoAddress
  BY OnAssumption, NoAddressAssumption
<1>2. CASE subs.live[On[a]] = NoAddress
  <2>1. t = [subs EXCEPT !.live[On[a]] = a]
    BY <1>2 DEF Opened
  <2> HIDE DEF t
  <2>2. t \in SubnetSockets /\ t.live[On[a]] = a
    BY <1>1, <2>1 DEF SubnetSockets
  <2>3. Heard(t, On[a], a)
    BY <1>1, <2>2, ClosedNonempty DEF Heard
  <2>4. SameElsewhere(subs, t, On[a]) /\ BoundFor(subs, t, On[a], {a})
    BY <1>1, <2>1 DEF SubnetSockets, SameElsewhere, BoundFor
  <2> QED BY <2>2, <2>3, <2>4 DEF t
<1>3. CASE subs.live[On[a]] # NoAddress
  <2>1. t = [subs EXCEPT !.deaf[a] = @ + 1]
    BY <1>3 DEF Opened
  <2> HIDE DEF t
  <2>2. t \in SubnetSockets /\ t.live = subs.live /\ t.deaf[a] > 0
    BY <2>1 DEF SubnetSockets
  <2>3. Heard(t, On[a], a)
    BY <1>3, <2>2, ClosedNonempty DEF Heard
  <2>4. SameElsewhere(subs, t, On[a]) /\ BoundFor(subs, t, On[a], {a})
    BY <2>1 DEF SubnetSockets, SameElsewhere, BoundFor
  <2> QED BY <2>2, <2>3, <2>4 DEF t
<1> QED BY <1>2, <1>3

\* What NotifyRemoveAddress leaves of the sockets of a.
LEMMA ClosedAndKeptSockets ==
  ASSUME NEW subs \in SubnetSockets, NEW a \in Address,
         NEW t \in IF Closed(subs, a) = {} THEN {subs} ELSE ClosedAndKept(subs, a)
  PROVE  t \in SubnetSockets /\ SameElsewhere(subs, t, On[a]) /\ BoundFor(subs, t, On[a], {})
<1>1. CASE t = subs
  BY <1>1 DEF SameElsewhere, BoundFor
<1>2. CASE t # subs
  <2>1. PICK c \in Closed(subs, a) : t = [c EXCEPT !.deaf[a] = @ + 1]
    BY <1>2 DEF ClosedAndKept
  <2>2. c \in SubnetSockets /\ SameElsewhere(subs, c, On[a]) /\ BoundFor(subs, c, On[a], {})
    BY ClosedSockets
  <2>3. t \in SubnetSockets /\ t.live = c.live /\ \A b \in Address \ {a} : t.deaf[b] = c.deaf[b]
    BY <2>1, <2>2 DEF SubnetSockets
  <2> QED BY <2>2, <2>3 DEF SameElsewhere, BoundFor
<1> QED BY <1>1, <1>2

\* Two changes of the sockets of one interface.
LEMMA SocketsAgain ==
  ASSUME NEW subs, NEW t, NEW v, NEW i, NEW B, SameElsewhere(subs, t, i), SameElsewhere(t, v, i),
         BoundFor(subs, t, i, {}), BoundFor(t, v, i, B)
  PROVE  SameElsewhere(subs, v, i) /\ BoundFor(subs, v, i, B)
BY DEF SameElsewhere, BoundFor

-----------------------------------------------------------------------------
(* Interfaces, addresses and sockets between handlers. *)

\* m_mainAddress is an address that had a socket, and is there with the first one;
\* a bound socket is for an address of its interface that had one.
SocketsInv ==
  /\ main \in used \cup {NoAddress} /\ (up \cup used # {} => main \in used)
  /\ up \subseteq Interface
  /\ addrs \in [Interface -> Seq(Address)]
  /\ \A i \in Interface : \A a \in Elems(addrs[i]) : On[a] = i
  /\ uni \subseteq used /\ used \subseteq Address /\ IsFiniteSet(used)
  /\ sub \in SubnetSockets
  /\ \A i \in Interface : sub.live[i] # NoAddress => sub.live[i] \in used /\ On[sub.live[i]] = i
  /\ SocketsMatch

\* Of the addresses of an interface, the first has a unicast socket, if the
\* interface is up, and no other.
LEMMA SocketsOf ==
  ASSUME SocketsInv, NEW i \in Interface
  PROVE  /\ \A a \in uni : On[a] = i => i \in up /\ addrs[i] # << >> /\ a = Head(addrs[i])
         /\ i \in up /\ addrs[i] # << >> =>
              /\ Head(addrs[i]) \in uni /\ On[Head(addrs[i])] = i
              /\ Heard(sub, i, Head(addrs[i]))
<1>1. \A j \in Interface : addrs[j] # << >> => Head(addrs[j]) \in Address /\ On[Head(addrs[j])] = j
  BY HeadOf DEF SocketsInv
<1>2. \A a \in uni : \E j \in up : j \in Interface /\ addrs[j] # << >> /\ a = Head(addrs[j])
  BY DEF SocketsInv, SocketsMatch
<1>3. i \in up /\ addrs[i] # << >> => Head(addrs[i]) \in uni /\ Heard(sub, i, Head(addrs[i]))
  BY DEF SocketsInv, SocketsMatch, Heard
<1> QED BY <1>1, <1>2, <1>3

\* A step that changes nothing but interface i keeps SocketsMatch if it leaves i's
\* first address, if there is one and i is up, with its sockets, and no other.
LEMMA SocketsMatchStep ==
  ASSUME SocketsInv, NEW i \in Interface, up' \subseteq Interface,
         addrs' \in [Interface -> Seq(Address)],
         \A j \in Interface \ {i} : (j \in up' <=> j \in up) /\ addrs'[j] = addrs[j],
         \A a \in Address : On[a] # i => (a \in uni' <=> a \in uni),
         uni' \subseteq Address, SameElsewhere(sub, sub', i),
         \A a \in uni' : On[a] = i => i \in up' /\ addrs'[i] # << >> /\ a = Head(addrs'[i]),
         i \in up' /\ addrs'[i] # << >> =>
           Head(addrs'[i]) \in uni' /\ Heard(sub', i, Head(addrs'[i]))
  PROVE  SocketsMatch'
<1> DEFINE heard == {j \in up' : addrs'[j] # << >>}
<1>1. \A a \in uni : a \in Address /\ On[a] \in Interface
  BY OnAssumption DEF SocketsInv
<1>2. ASSUME NEW j \in heard PROVE Head(addrs'[j]) \in uni' /\ Heard(sub', j, Head(addrs'[j]))
  <2>1. CASE j = i
    BY <2>1
  <2>2. CASE j # i
    <3>1. j \in Interface \ {i} /\ j \in up /\ addrs[j] # << >> /\ addrs'[j] = addrs[j]
      BY <2>2
    <3>2. Head(addrs[j]) \in uni /\ On[Head(addrs[j])] = j /\ Heard(sub, j, Head(addrs[j]))
      BY <3>1, SocketsOf
    <3>3. Head(addrs[j]) \in Address
      BY <1>1, <3>2
    <3>4. Heard(sub', j, Head(addrs[j]))
      BY <3>1, <3>2, <3>3, HeardElsewhere
    <3> QED BY <3>1, <3>2, <3>3, <3>4
  <2> QED BY <2>1, <2>2
<1>3. ASSUME NEW a \in uni' PROVE \E j \in heard : a = Head(addrs'[j])
  <2>1. CASE On[a] = i
    BY <2>1
  <2>2. CASE On[a] # i
    <3>1. a \in uni /\ On[a] \in Interface \ {i}
      BY <1>1, <2>2
    <3>2. On[a] \in up /\ addrs[On[a]] # << >> /\ a = Head(addrs[On[a]])
      BY <3>1, SocketsOf
    <3>3. On[a] \in heard /\ a = Head(addrs'[On[a]])
      BY <3>1, <3>2
    <3> QED BY <3>3
  <2> QED BY <2>1, <2>2
<1>4. uni' = {Head(addrs'[j]) : j \in heard}
  BY <1>2, <1>3
<1>5. \A j \in heard : sub'.live[j] # NoAddress /\ Closed(sub', Head(addrs'[j])) # {}
  BY <1>2 DEF Heard
<1> QED BY <1>4, <1>5 DEF SocketsMatch, Closed

\* The same for the addresses of bound sockets.
LEMMA LiveStep ==
  ASSUME SocketsInv, NEW i \in Interface, NEW B, BoundFor(sub, sub', i, B),
         used \subseteq used', B \subseteq used', \A b \in B : On[b] = i
  PROVE  \A j \in Interface :
           sub'.live[j] # NoAddress => sub'.live[j] \in used' /\ On[sub'.live[j]] = j
BY DEF SocketsInv, BoundFor

LEMMA InterfaceUpSockets ==
  ASSUME SocketsInv, NEW i \in Interface, InterfaceUp(i)
  PROVE  SocketsInv'
<1> DEFINE a == Head(addrs[i])
<1>1. /\ i \notin up /\ addrs[i] # << >> /\ up' = up \cup {i} /\ addrs' = addrs
      /\ main' = (IF main = NoAddress THEN a ELSE main)
      /\ uni' = uni \cup {a} /\ used' = used \cup {a}
      /\ sub' = Opened(sub, a)
  BY DEF InterfaceUp
<1>2. addrs[i] \in Seq(Address) /\ a \in Address /\ a \in Elems(addrs[i]) /\ On[a] = i
  BY <1>1, HeadOf DEF SocketsInv
<1>3. /\ sub' \in SubnetSockets /\ SameElsewhere(sub, sub', i)
      /\ BoundFor(sub, sub', i, {a}) /\ Heard(sub', i, a)
  <2>1. sub \in SubnetSockets
    BY DEF SocketsInv
  <2> HIDE DEF a
  <2> QED BY <1>1, <1>2, <2>1, OpenedSockets
<1>4. \A b \in uni' : On[b] = i => b = a
  BY <1>1, SocketsOf
<1> HIDE DEF a
<1>5. IsFiniteSet(used')
  BY <1>1, FS_AddElement DEF SocketsInv
<1>6. \A j \in Interface :
        sub'.live[j] # NoAddress => sub'.live[j] \in used' /\ On[sub'.live[j]] = j
  BY <1>1, <1>2, <1>3, LiveStep
<1>7. up' \subseteq Interface /\ uni' \subseteq used' /\ used' \subseteq Address
  BY <1>1, <1>2 DEF SocketsInv
<1>8. SocketsMatch'
  <2>1. addrs' \in [Interface -> Seq(Address)] /\ addrs'[i] = addrs[i] /\ i \in up'
    BY <1>1 DEF SocketsInv
  <2>2. \A j \in Interface \ {i} : (j \in up' <=> j \in up) /\ addrs'[j] = addrs[j]
    BY <1>1
  <2>3. \A b \in Address : On[b] # i => (b \in uni' <=> b \in uni)
    BY <1>1, <1>2
  <2> QED BY <1>1, <1>3, <1>4, <1>7, <2>1, <2>2, <2>3, SocketsMatchStep DEF a
<1>9. main' \in used'
  BY <1>1 DEF SocketsInv
<1> QED BY <1>1, <1>2, <1>3, <1>5, <1>6, <1>7, <1>8, <1>9 DEF SocketsInv

LEMMA InterfaceDownSockets ==
  ASSUME SocketsInv, NEW i \in Interface, InterfaceDown(i)
  PROVE  /\ SocketsInv' /\ halted' = FALSE
         /\ Head(addrs[i]) \in uni /\ uni' = uni \ {Head(addrs[i])} /\ used' = used
<1> DEFINE a == Head(addrs[i])
<1>1. i \in up /\ addrs[i] # << >>
  BY DEF InterfaceDown
<1>2. a \in uni /\ On[a] = i /\ Heard(sub, i, a)
  BY <1>1, SocketsOf
<1>3. a \in Address
  BY <1>2 DEF SocketsInv
<1>4. /\ up' = up \ {i} /\ uni' = uni \ {a} /\ sub' \in Closed(sub, a) /\ halted' = FALSE
      /\ addrs' = addrs /\ main' = main /\ used' = used
  BY <1>2 DEF InterfaceDown, Heard
<1>5. sub' \in SubnetSockets /\ SameElsewhere(sub, sub', i) /\ BoundFor(sub, sub', i, {})
  BY <1>2, <1>3, <1>4, ClosedSockets DEF SocketsInv
<1>6. \A j \in Interface :
        sub'.live[j] # NoAddress => sub'.live[j] \in used' /\ On[sub'.live[j]] = j
  BY <1>4, <1>5, LiveStep
<1>7. \A b \in uni' : On[b] # i
  BY <1>4, SocketsOf
<1> HIDE DEF a
<1>8. up' \subseteq Interface /\ uni' \subseteq used' /\ used' \subseteq Address /\ i \notin up'
  BY <1>4 DEF SocketsInv
<1>9. SocketsMatch'
  <2>1. addrs' \in [Interface -> Seq(Address)]
    BY <1>4 DEF SocketsInv
  <2>2. \A j \in Interface \ {i} : (j \in up' <=> j \in up) /\ addrs'[j] = addrs[j]
    BY <1>4
  <2>3. \A b \in Address : On[b] # i => (b \in uni' <=> b \in uni)
    BY <1>2, <1>4
  <2> QED BY <1>5, <1>7, <1>8, <2>1, <2>2, <2>3, SocketsMatchStep
<1> QED BY <1>2, <1>4, <1>5, <1>6, <1>8, <1>9 DEF SocketsInv, a

LEMMA AddAddressSockets ==
  ASSUME SocketsInv, NEW a \in Address, AddAddress(a)
  PROVE  SocketsInv' /\ uni \subseteq uni' /\ used \subseteq used' /\ halted' = halted
<1> DEFINE i == On[a]
           opens == i \in up /\ addrs[i] = << >>
<1>1. i \in Interface /\ addrs[i] \in Seq(Address)
  BY OnAssumption DEF SocketsInv
<1>2. /\ addrs' = [addrs EXCEPT ![i] = Append(addrs[i], a)]
      /\ opens => uni' = uni \cup {a} /\ used' = used \cup {a} /\ sub' = Opened(sub, a)
      /\ ~opens => uni' = uni /\ used' = used /\ sub' = sub
      /\ main' = main /\ up' = up /\ halted' = halted
  BY <1>1 DEF AddAddress, SocketsInv
<1> HIDE DEF i
<1>3. /\ addrs' \in [Interface -> Seq(Address)]
      /\ addrs'[i] # << >> /\ Elems(addrs'[i]) = Elems(addrs[i]) \cup {a}
      /\ Head(addrs'[i]) = IF addrs[i] = << >> THEN a ELSE Head(addrs[i])
      /\ \A j \in Interface \ {i} : addrs'[j] = addrs[j]
  <2> DEFINE w == Append(addrs[i], a)
  <2>1. /\ w \in Seq(Address) /\ w # << >> /\ Elems(w) = Elems(addrs[i]) \cup {a}
        /\ Head(w) = IF addrs[i] = << >> THEN a ELSE Head(addrs[i])
    BY <1>1, AppendHead
  <2>2. addrs' = [addrs EXCEPT ![i] = w]
    BY <1>2
  <2> HIDE DEF w
  <2>3. addrs'[i] = w /\ addrs' \in [Interface -> Seq(Address)]
        /\ \A j \in Interface \ {i} : addrs'[j] = addrs[j]
    BY <1>1, <2>1, <2>2 DEF SocketsInv
  <2> QED BY <2>1, <2>3
<1>4. \A j \in Interface : \A b \in Elems(addrs'[j]) : On[b] = j
  BY <1>3 DEF SocketsInv, i
<1>5. /\ sub' \in SubnetSockets /\ SameElsewhere(sub, sub', i)
      /\ \E B : BoundFor(sub, sub', i, B) /\ B \subseteq used' /\ \A b \in B : On[b] = i
      /\ opens => Heard(sub', i, a)
  <2>1. sub \in SubnetSockets
    BY DEF SocketsInv
  <2>2. CASE opens
    <3>1. /\ sub' \in SubnetSockets /\ SameElsewhere(sub, sub', i)
          /\ BoundFor(sub, sub', i, {a}) /\ Heard(sub', i, a)
      BY <1>2, <2>1, <2>2, OpenedSockets DEF i
    <3>2. \A b \in {a} : b \in used' /\ On[b] = i
      BY <1>2, <2>2 DEF i
    <3> QED BY <3>1, <3>2
  <2>3. CASE ~opens
    <3>1. SameElsewhere(sub, sub', i) /\ BoundFor(sub, sub', i, {})
      BY <1>2, <2>3 DEF SameElsewhere, BoundFor
    <3> QED BY <1>2, <2>1, <2>3, <3>1
  <2> QED BY <2>2, <2>3
<1>6. used \subseteq used' /\ IsFiniteSet(used') /\ used' \subseteq Address
      /\ uni' \subseteq used' /\ uni \subseteq uni'
  <2>1. uni \subseteq used /\ IsFiniteSet(used) /\ used \subseteq Address
    BY DEF SocketsInv
  <2>2. IsFiniteSet(used \cup {a})
    BY <2>1, FS_AddElement
  <2> HIDE DEF opens
  <2> QED BY <1>2, <2>1, <2>2
<1>7. \A j \in Interface :
        sub'.live[j] # NoAddress => sub'.live[j] \in used' /\ On[sub'.live[j]] = j
  BY <1>1, <1>5, <1>6, LiveStep
<1>8. SocketsMatch'
  <2>1. up' \subseteq Interface /\ uni' \subseteq Address
    BY <1>2, <1>6 DEF SocketsInv
  <2>2. \A j \in Interface \ {i} : (j \in up' <=> j \in up) /\ addrs'[j] = addrs[j]
    BY <1>2, <1>3
  <2>3. \A b \in Address : On[b] # i => (b \in uni' <=> b \in uni)
    BY <1>2 DEF i
  <2>4. \A b \in uni' : On[b] = i => i \in up' /\ addrs'[i] # << >> /\ b = Head(addrs'[i])
    BY <1>1, <1>2, <1>3, SocketsOf
  <2>5. i \in up' /\ addrs'[i] # << >> =>
          Head(addrs'[i]) \in uni' /\ Heard(sub', i, Head(addrs'[i]))
    BY <1>1, <1>2, <1>3, <1>5, SocketsOf
  <2> HIDE DEF opens
  <2> QED BY <1>1, <1>3, <1>5, <2>1, <2>2, <2>3, <2>4, <2>5, SocketsMatchStep
<1> QED BY <1>2, <1>3, <1>4, <1>5, <1>6, <1>7, <1>8 DEF SocketsInv

\* What RemoveAddress(a) does to the sockets when the interface keeps no address,
\* and when h is its next one; s is the node without the routes through a.
Unaddressed(a, s) ==
  /\ uni' = uni \ {a} /\ used' = used
  /\ node' = IF uni' = {} THEN LastSocket(s) ELSE s

Readdressed(a, h, s) ==
  /\ h \in Address \ {a} /\ On[h] = On[a]
  /\ uni' = (uni \ {a}) \cup {h} /\ used' = used \cup {h}
  /\ node' = WithBroadcast(s, h)

LEMMA RemoveAddressSockets ==
  ASSUME SocketsInv, NEW a \in Address, RemoveAddress(a)
  PROVE  /\ SocketsInv' /\ halted' = halted
         /\ \/ a \notin uni /\ UNCHANGED <<node, uni, used>>
            \/ a \in uni /\ Unaddressed(a, DeleteAllRoutesFromInterface(node, a))
            \/ /\ a \in uni
               /\ \E h \in Address : Readdressed(a, h, DeleteAllRoutesFromInterface(node, a))
<1> DEFINE i == On[a]
           rest == Without(addrs[i], {a})
           h == Head(rest)
           next == {b \in {rest[k] : k \in 1..Len(rest)} : b = h}
           s == DeleteAllRoutesFromInterface(node, a)
           closed == IF Closed(sub, a) = {} THEN {sub} ELSE ClosedAndKept(sub, a)
<1>1. i \in Interface /\ addrs[i] \in Seq(Address) /\ sub \in SubnetSockets
  BY OnAssumption DEF SocketsInv
<1>2. /\ a \in Elems(addrs[i]) /\ addrs' = [addrs EXCEPT ![i] = rest]
      /\ main' = main /\ up' = up /\ halted' = halted
      /\ a \notin uni => node' = node /\ uni' = uni /\ sub' = sub /\ used' = used
      /\ a \in uni =>
           /\ uni' = (uni \ {a}) \cup next /\ used' = used \cup next
           /\ \E subs \in closed : sub' = IF next = {} THEN subs ELSE Opened(subs, h)
           /\ node' = IF uni' = {} THEN LastSocket(s)
                      ELSE IF next = {} THEN s ELSE WithBroadcast(s, h)
  BY DEF RemoveAddress
<1>3. /\ rest \in Seq(Address) /\ Elems(rest) = Elems(addrs[i]) \ {a}
      /\ addrs[i] # << >> /\ Head(addrs[i]) # a => rest # << >> /\ Head(rest) = Head(addrs[i])
  BY <1>1, WithoutHead
<1>4. /\ rest = << >> => next = {}
      /\ rest # << >> => next = {h} /\ h \in Address \ {a} /\ On[h] = i
  <2>1. next = {b \in Elems(rest) : b = h}
    BY DEF Elems
  <2> HIDE DEF next, rest, i
  <2>2. CASE rest = << >>
    BY <2>1, <2>2 DEF Elems
  <2>3. CASE rest # << >>
    <3>1. h \in Address /\ h \in Elems(rest)
      BY <1>3, <2>3, HeadOf
    <3>2. h # a /\ On[h] = i
      BY <1>1, <1>3, <3>1 DEF SocketsInv
    <3> QED BY <2>1, <3>1, <3>2, <2>3
  <2> QED BY <2>2, <2>3
<1> HIDE DEF next
<1>5. a \in uni => i \in up /\ addrs[i] # << >> /\ Head(addrs[i]) = a
  BY <1>1, SocketsOf
<1> HIDE DEF i, rest, s, closed
<1>6. /\ addrs' \in [Interface -> Seq(Address)] /\ addrs'[i] = rest
      /\ \A j \in Interface \ {i} : addrs'[j] = addrs[j]
  BY <1>1, <1>2, <1>3 DEF SocketsInv
<1>7. \A j \in Interface : \A b \in Elems(addrs'[j]) : On[b] = j
  BY <1>1, <1>3, <1>6 DEF SocketsInv
<1>8. /\ sub' \in SubnetSockets /\ SameElsewhere(sub, sub', i)
      /\ \E B : BoundFor(sub, sub', i, B) /\ B \subseteq used' /\ \A b \in B : On[b] = i
      /\ a \in uni /\ rest # << >> => Heard(sub', i, h)
  <2>1. CASE a \notin uni
    <3>1. SameElsewhere(sub, sub', i) /\ BoundFor(sub, sub', i, {})
      BY <1>2, <2>1 DEF SameElsewhere, BoundFor
    <3> QED BY <1>1, <1>2, <2>1, <3>1
  <2>2. CASE a \in uni
    <3>1. PICK subs \in closed : sub' = IF next = {} THEN subs ELSE Opened(subs, h)
      BY <1>2, <2>2
    <3>2. subs \in SubnetSockets /\ SameElsewhere(sub, subs, i) /\ BoundFor(sub, subs, i, {})
      BY <1>1, ClosedAndKeptSockets DEF closed, i
    <3>3. CASE rest = << >>
      BY <1>4, <3>1, <3>2, <3>3
    <3>4. CASE rest # << >>
      <4>1. sub' = Opened(subs, h) /\ h \in Address /\ On[h] = i /\ h \in used'
        BY <1>2, <1>4, <2>2, <3>1, <3>4
      <4> HIDE DEF h
      <4>2. /\ sub' \in SubnetSockets /\ SameElsewhere(subs, sub', i)
            /\ BoundFor(subs, sub', i, {h}) /\ Heard(sub', i, h)
        BY <3>2, <4>1, OpenedSockets
      <4>3. SameElsewhere(sub, sub', i) /\ BoundFor(sub, sub', i, {h})
        BY <3>2, <4>2, SocketsAgain
      <4>4. \A b \in {h} : b \in used' /\ On[b] = i
        BY <4>1
      <4> QED BY <4>2, <4>3, <4>4
    <3> QED BY <3>3, <3>4
  <2> QED BY <2>1, <2>2
<1> HIDE DEF h
<1>9. next = {} \/ next = {h}
  BY <1>4
<1>10. used \subseteq used' /\ IsFiniteSet(used') /\ used' \subseteq Address /\ uni' \subseteq used'
  <2>1. uni \subseteq used /\ IsFiniteSet(used) /\ used \subseteq Address
    BY DEF SocketsInv
  <2>2. IsFiniteSet(used \cup {h})
    BY <2>1, FS_AddElement
  <2> QED BY <1>2, <1>4, <2>1, <2>2
<1>11. \A j \in Interface :
         sub'.live[j] # NoAddress => sub'.live[j] \in used' /\ On[sub'.live[j]] = j
  BY <1>1, <1>8, <1>10, LiveStep
<1>12. SocketsMatch'
  <2>1. up' \subseteq Interface /\ uni' \subseteq Address
    BY <1>2, <1>10 DEF SocketsInv
  <2>2. \A j \in Interface \ {i} : (j \in up' <=> j \in up) /\ addrs'[j] = addrs[j]
    BY <1>2, <1>6
  <2>3. \A b \in Address : On[b] # i => (b \in uni' <=> b \in uni)
    BY <1>2, <1>4 DEF i
  <2>4. /\ \A b \in uni' : On[b] = i => i \in up' /\ rest # << >> /\ b = Head(rest)
        /\ i \in up' /\ rest # << >> => Head(rest) \in uni' /\ Heard(sub', i, Head(rest))
    <3>1. CASE a \in uni
      <4>1. \A b \in uni : On[b] = i => b = a
        <5>1. \A b \in uni : On[b] = i => b = Head(addrs[i])
          BY <1>1, SocketsOf
        <5> QED BY <1>5, <3>1, <5>1
      <4> QED BY <1>2, <1>4, <1>5, <1>8, <3>1, <4>1 DEF h
    <3>2. CASE a \notin uni
      <4>1. uni' = uni /\ sub' = sub /\ up' = up
        BY <1>2, <3>2
      <4>2. /\ \A b \in uni : On[b] = i => i \in up /\ addrs[i] # << >> /\ b = Head(addrs[i])
            /\ i \in up /\ addrs[i] # << >> =>
                 Head(addrs[i]) \in uni /\ Heard(sub, i, Head(addrs[i]))
        BY <1>1, SocketsOf
      <4>3. addrs[i] # << >>
        BY <1>2 DEF Elems
      <4>4. i \in up => Head(addrs[i]) # a
        BY <3>2, <4>2, <4>3
      <4> QED BY <1>3, <4>1, <4>2, <4>3, <4>4
    <3> QED BY <3>1, <3>2
  <2> QED BY <1>1, <1>6, <1>8, <2>1, <2>2, <2>3, <2>4, SocketsMatchStep
<1>13. SocketsInv'
  BY <1>2, <1>6, <1>7, <1>8, <1>10, <1>11, <1>12 DEF SocketsInv
<1>14. CASE a \notin uni
  BY <1>2, <1>13, <1>14
<1>15. CASE a \in uni /\ rest = << >>
  BY <1>2, <1>4, <1>13, <1>15 DEF Unaddressed, s
<1>16. CASE a \in uni /\ rest # << >>
  BY <1>2, <1>4, <1>13, <1>16 DEF Readdressed, s, i
<1> QED BY <1>14, <1>15, <1>16

-----------------------------------------------------------------------------
(* The node between handlers. *)

\* Its entries name addresses that had sockets; without sockets it has neither
\* neighbours nor routes, whatever its distance vector table holds, and with one it
\* counts as up.
NodeInv ==
  /\ node \in StatesVia(used) /\ node.up = (uni # {})
  /\ uni = {} => node.nb = << >> /\ \A d \in Dest : node.ft[d] = NoRoute

Alike(A) == \A a, b \in A : a = b

\* The inductive invariant.
IInv ==
  /\ SocketsInv /\ NodeInv /\ halted \in BOOLEAN
  /\ Alike(used) => ~halted

\* The step that RoutesLeaveWithSocket says every step is.
RoutesLeave ==
  /\ \A d \in Dest : node.ft[d] # NoRoute /\ node'.ft[d] = NoRoute =>
       uni' = {} \/ node.ft[d].iface \in uni \ uni'
  /\ \A d \in Dest : node'.ft[d] # NoRoute => node'.ft[d].iface \notin uni \ uni'

LEMMA SocketsUnchanged ==
  ASSUME SocketsInv, UNCHANGED <<main, addrs, up, uni, sub, used>>
  PROVE  SocketsInv'
<1>1. \A a : Closed(sub, a)' = Closed(sub, a)
  BY DEF Closed
<1>2. SocketsMatch'
  BY <1>1 DEF SocketsInv, SocketsMatch
<1> QED BY <1>2 DEF SocketsInv

\* A step to state s whose UPDATEs need sockets for the addresses via.
LEMMA BecomesInv ==
  ASSUME IInv, NEW s \in StatesVia(used), s.up = node.up, Keeps(node, s), NEW via, via \subseteq used,
         uni = {} => s.nb = << >> /\ (\A d \in Dest : s.ft[d] = NoRoute) /\ via = {},
         Becomes(s, via)
  PROVE  IInv' /\ RoutesLeave
<1>1. node' = s /\ halted' = (via \ uni # {}) /\ UNCHANGED <<main, addrs, up, uni, sub, used>>
  BY DEF Becomes
<1>2. SocketsInv'
  BY <1>1, SocketsUnchanged DEF IInv
<1>3. NodeInv'
  BY <1>1 DEF IInv, NodeInv, StatesVia, RoutesVia, EntriesVia
<1>4. Alike(used) => via \ uni = {}
  BY DEF Alike, IInv, SocketsInv
<1>5. halted' \in BOOLEAN /\ (Alike(used') => ~halted')
  BY <1>1, <1>4 DEF Alike
<1>6. RoutesLeave
  BY <1>1 DEF RoutesLeave, Keeps
<1> QED BY <1>2, <1>3, <1>5, <1>6 DEF IInv, Alike

LEMMA NeighborExpiresInv ==
  ASSUME IInv, NEW m \in Remote, NeighborExpires(m)
  PROVE  IInv' /\ RoutesLeave
<1> DEFINE s == [node EXCEPT !.expired = node.expired \cup {m}]
<1>1. Becomes(s, {})
  BY DEF NeighborExpires
<1>2. s \in StatesVia(used) /\ s.ft = node.ft /\ s.nb = node.nb /\ s.up = node.up
  BY DEF IInv, NodeInv, StatesVia
<1> HIDE DEF s
<1> QED BY <1>1, <1>2, BecomesInv DEF IInv, NodeInv, Keeps

LEMMA PendingReplyExpiresInv ==
  ASSUME IInv, NEW e \in PendingReply, PendingReplyExpires(e)
  PROVE  IInv' /\ RoutesLeave
<1> DEFINE s == [node EXCEPT !.late = node.late \cup {e}]
<1>1. Becomes(s, {})
  BY DEF PendingReplyExpires
<1>2. s \in StatesVia(used) /\ s.ft = node.ft /\ s.nb = node.nb /\ s.up = node.up
  BY DEF IInv, NodeInv, StatesVia
<1> HIDE DEF s
<1> QED BY <1>1, <1>2, BecomesInv DEF IInv, NodeInv, Keeps

\* A purge of t, which differs from the node in m_ntimer or who expired at most,
\* that needs the sockets that a purge of v needs.
LEMMA PurgeInv ==
  ASSUME IInv, NEW t \in StatesVia(used), t.ft = node.ft, t.nb = node.nb, t.up = node.up,
         NEW v \in StatesVia(used), v.nb = node.nb,
         Becomes(Purge(main, t).s, PurgeVia(v))
  PROVE  IInv' /\ RoutesLeave
<1> DEFINE s == Purge(main, t).s
           via == PurgeVia(v)
<1>1. s \in StatesVia(used) /\ s.up = t.up /\ Keeps(t, s) /\ (t.nb = << >> => s = t)
  BY PurgeFollows
<1>2. via \subseteq used /\ (v.nb = << >> => via = {})
  BY PurgeViaUsed
<1>3. Becomes(s, via)
  OBVIOUS
<1> HIDE DEF s, via
<1>4. uni = {} => s.nb = << >> /\ (\A d \in Dest : s.ft[d] = NoRoute) /\ via = {}
  BY <1>1, <1>2 DEF IInv, NodeInv
<1>5. Keeps(node, s)
  BY <1>1 DEF Keeps
<1> QED BY <1>1, <1>2, <1>3, <1>4, <1>5, BecomesInv

LEMMA TimersInv ==
  ASSUME IInv, NTimer \/ HelloTimer
  PROVE  IInv' /\ RoutesLeave
<1> DEFINE t == [node EXCEPT !.ntimer = FALSE]
<1>1. node \in StatesVia(used)
  BY DEF IInv, NodeInv
<1>2. t \in StatesVia(used) /\ t.ft = node.ft /\ t.nb = node.nb /\ t.up = node.up
  BY <1>1 DEF StatesVia
<1>3. CASE NTimer
  <2>1. Becomes(Purge(main, t).s, PurgeVia(node))
    BY <1>3 DEF NTimer, NTimerExpire
  <2> HIDE DEF t
  <2> QED BY <1>1, <1>2, <2>1, PurgeInv
<1>4. CASE HelloTimer
  <2>1. Becomes(Purge(main, node).s, PurgeVia(node))
    BY <1>4 DEF HelloTimer, HelloTimerExpire
  <2> QED BY <1>1, <2>1, PurgeInv
<1> QED BY <1>3, <1>4

LEMMA TxErrorInv ==
  ASSUME IInv, NEW m \in Remote, TxError(m)
  PROVE  IInv' /\ RoutesLeave
<1> DEFINE t == [node EXCEPT !.expired = node.expired \cup ({m} \cap Neighbors(node))]
           v == [node EXCEPT !.expired = node.expired \cup {m}]
<1>1. node \in StatesVia(used)
  BY DEF IInv, NodeInv
<1>2. t \in StatesVia(used) /\ t.ft = node.ft /\ t.nb = node.nb /\ t.up = node.up
  BY <1>1 DEF StatesVia
<1>3. v \in StatesVia(used) /\ v.nb = node.nb
  BY <1>1 DEF StatesVia
<1>4. Becomes(Purge(main, t).s, PurgeVia(v))
  BY DEF TxError, NotifyTxError
<1> HIDE DEF t, v
<1> QED BY <1>2, <1>3, <1>4, PurgeInv

\* An address with a unicast socket is an address of its interface, the first.
LEMMA SocketAddress ==
  ASSUME IInv, NEW b \in uni
  PROVE  /\ b \in used /\ b \in Address /\ On[b] \in Interface
         /\ b = Head(addrs[On[b]]) /\ b \in Elems(addrs[On[b]])
<1>1. b \in used /\ b \in Address /\ On[b] \in Interface /\ addrs \in [Interface -> Seq(Address)]
  BY OnAssumption DEF IInv, SocketsInv
<1>2. addrs[On[b]] # << >> /\ b = Head(addrs[On[b]])
  BY <1>1, SocketsOf DEF IInv
<1> QED BY <1>1, <1>2, HeadOf

\* With one address, the socket that hears a HELLO is the one of an address that
\* the interface has.
LEMMA ReceiveHelloInv ==
  ASSUME IInv, ~halted, NEW m \in Remote, NEW i \in Interface, ReceiveHello(m, i)
  PROVE  IInv' /\ RoutesLeave
<1> DEFINE a == sub.live[i]
           iface == Head(addrs[i])
           new == EnableHello /\ m \notin Neighbors(node)
           u == IF EnableHello THEN NeighborUpdate(main, node, m).s ELSE node
           v == [u EXCEPT !.known = u.known \cup {m}]
           direct == Via(DirectRoute(m), iface)
           x == [v EXCEPT !.dvt[m][m] = direct]
           w == ComputeForwardingTable(x)
           old == [v.dvt[m][m] EXCEPT !.hops = 1, !.next = m, !.iface = iface]
           y == [v EXCEPT !.dvt[m][m] = old]
           nb == Append(node.nb, m)
           t == [node EXCEPT !.nb = nb]
           failed == IF new THEN PurgeVia(t) ELSE {}
           out == SendTriggeredUpdateToNeighbor(main, w, m)
<1>1. PICK b \in uni : On[b] = i
  BY DEF ReceiveHello
<1>2. iface = b /\ iface \in used /\ iface \in Address /\ b \in Elems(addrs[i])
  BY <1>1, SocketAddress
<1>3. node \in StatesVia(used) /\ m \in Node /\ m \in Dest
  BY RemoteNode DEF IInv, NodeInv
<1>4. failed \subseteq used
  <2>1. nb \in Seq(Remote)
    BY <1>3 DEF StatesVia
  <2> HIDE DEF nb
  <2>2. t \in StatesVia(used)
    BY <1>3, <2>1 DEF StatesVia
  <2> HIDE DEF t
  <2> QED BY <2>2, PurgeViaUsed
<1>5. u \in StatesVia(used) /\ u.up = node.up /\ Keeps(node, u)
  <2>1. /\ NeighborUpdate(main, node, m).s \in StatesVia(used)
        /\ NeighborUpdate(main, node, m).s.up = node.up
        /\ Keeps(node, NeighborUpdate(main, node, m).s)
    BY <1>3, NeighborUpdateFollows
  <2> QED BY <1>3, <2>1 DEF Keeps
<1>6. \/ a \notin Elems(addrs[i]) /\ Halt
      \/ v.dvt[m][m] = NoRoute /\ Becomes(w, failed \cup SentVia(w, out))
      \/ v.dvt[m][m] # NoRoute /\ Becomes(y, failed)
  BY DEF ReceiveHello
<1>7. a # NoAddress
  BY DEF ReceiveHello
<1> HIDE DEF a, iface, u, failed
<1>8. v \in StatesVia(used) /\ v.up = u.up /\ v.ft = u.ft
  BY <1>5 DEF StatesVia
<1> HIDE DEF v
<1>9. CASE a \notin Elems(addrs[i]) /\ Halt
  <2>1. /\ node' = node /\ halted' = TRUE
        /\ UNCHANGED <<main, addrs, up, uni, sub, used>>
    BY <1>9 DEF Halt
  <2>2. a \in used /\ a # b /\ b \in used
    BY <1>2, <1>7, <1>9 DEF IInv, SocketsInv, a
  <2>3. ~Alike(used)
    BY <2>2 DEF Alike
  <2>4. SocketsInv'
    BY <2>1, SocketsUnchanged DEF IInv
  <2>5. NodeInv'
    BY <2>1 DEF IInv, NodeInv, StatesVia, RoutesVia, EntriesVia
  <2> QED BY <2>1, <2>3, <2>4, <2>5 DEF IInv, Alike, RoutesLeave
<1>10. CASE v.dvt[m][m] = NoRoute /\ Becomes(w, failed \cup SentVia(w, out))
  <2>1. direct \in EntriesVia(used)
    BY <1>2, <1>3 DEF Via, DirectRoute, EntriesVia, IfaceEntry, RouteState
  <2> HIDE DEF direct
  <2>2. x \in StatesVia(used) /\ x.up = v.up /\ x.ft = v.ft
    BY <1>3, <1>8, <2>1, RowVia
  <2> HIDE DEF x
  <2>3. Follows(x, w, used)
    BY <2>2, ComputeForwardingTableVia
  <2> HIDE DEF w
  <2>4. w \in StatesVia(used) /\ w.up = node.up /\ Keeps(node, w)
    BY <1>5, <1>8, <2>2, <2>3 DEF Follows, Keeps
  <2>5. Installed(main, w, out)
    BY <2>4, ToNeighborInstalled
  <2>6. SentVia(w, out) \subseteq used
    BY <2>4, <2>5, SentViaUsed
  <2>7. failed \cup SentVia(w, out) \subseteq used
    BY <1>4, <2>6
  <2> QED BY <1>1, <1>10, <2>4, <2>7, BecomesInv
<1>11. CASE v.dvt[m][m] # NoRoute /\ Becomes(y, failed)
  <2>1. v.dvt[m][m] \in EntriesVia(used)
    BY <1>3, <1>8, <1>11 DEF StatesVia, RoutesVia
  <2>2. old \in EntriesVia(used)
    <3> DEFINE rt == v.dvt[m][m]
    <3>1. rt \in IfaceEntry /\ old = [rt EXCEPT !.hops = 1, !.next = m, !.iface = iface]
      BY <2>1 DEF EntriesVia
    <3> HIDE DEF rt, old
    <3>2. old = [hops |-> 1, next |-> m, state |-> rt.state, iface |-> iface]
      BY <3>1 DEF IfaceEntry
    <3>3. rt.state \in RouteState
      BY <3>1 DEF IfaceEntry
    <3>4. old \in IfaceEntry /\ old.iface = iface
      BY <1>2, <1>3, <3>2, <3>3 DEF IfaceEntry
    <3> QED BY <1>2, <3>4 DEF EntriesVia
  <2> HIDE DEF old
  <2>3. y \in StatesVia(used) /\ y.up = v.up /\ y.ft = v.ft
    BY <1>3, <1>8, <2>2, RowVia
  <2> HIDE DEF y
  <2>4. y.up = node.up /\ Keeps(node, y)
    BY <1>5, <1>8, <2>3 DEF Keeps
  <2> QED BY <1>1, <1>4, <1>11, <2>3, <2>4, BecomesInv
<1> QED BY <1>6, <1>9, <1>10, <1>11

LEMMA ReceiveUpdateInv ==
  ASSUME IInv, NEW m \in Remote, NEW a \in Address, NEW d \in Dest, NEW hops \in HopCounts,
         NEW state \in RouteState, ReceiveUpdate(m, a, d, hops, state)
  PROVE  IInv' /\ RoutesLeave
<1> DEFINE rt == [hops |-> HopCount(hops), next |-> m, state |-> state,
                  iface |-> Head(addrs[On[a]])]
           u == UpdateDistanceVectorTable(node, m, d, rt)
           t == ComputeForwardingTable(u)
           r == IF state = "INACTIVE" /\ d # m
                THEN RetransmitToNeighbor(main, t, m, d, hops) ELSE [s |-> t, out |-> {}]
           changed == SendTriggeredUpdateChangesToNeighbors(main, t, Changes(main, u, t), {})
           out == changed \cup r.out
<1>1. a \in uni
  BY DEF ReceiveUpdate
<1>2. Head(addrs[On[a]]) = a /\ a \in used /\ a \in Elems(addrs[On[a]])
  BY <1>1, SocketAddress
<1>3. Becomes(r.s, SentVia(t, out))
  BY <1>2 DEF ReceiveUpdate
<1>4. node \in StatesVia(used) /\ m \in Dest
  BY RemoteNode DEF IInv, NodeInv
<1>5. rt \in EntriesVia(used)
  <2>1. HopCount(hops) \in 0..255
    BY HopCountsAssumption DEF HopCount
  <2> QED BY <1>2, <1>4, <2>1 DEF EntriesVia, IfaceEntry
<1> HIDE DEF rt
<1>6. Follows(node, u, used)
  BY <1>4, <1>5, UpdateDistanceVectorTableVia
<1> HIDE DEF u
<1>7. Follows(u, t, used)
  BY <1>6, ComputeForwardingTableVia DEF Follows
<1>8. t \in StatesVia(used) /\ t.up = node.up /\ Keeps(node, t)
  BY <1>6, <1>7 DEF Follows, Keeps
<1>9. Installed(main, t, changed)
  BY <1>8, ChangesInstalled
<1> HIDE DEF t, changed
<1>10. r.s \in StatesVia(used) /\ r.s.up = t.up /\ r.s.ft = t.ft /\ Installed(main, t, r.out)
  <2>1. CASE state = "INACTIVE" /\ d # m
    BY <1>8, <2>1, RetransmitToNeighborFollows
  <2>2. CASE ~(state = "INACTIVE" /\ d # m)
    BY <1>8, <2>2 DEF Installed
  <2> QED BY <2>1, <2>2
<1> HIDE DEF r
<1>11. Installed(main, t, out)
  BY <1>9, <1>10 DEF Installed
<1>12. SentVia(t, out) \subseteq used
  BY <1>8, <1>11, SentViaUsed
<1>13. r.s.up = node.up /\ Keeps(node, r.s)
  BY <1>8, <1>10 DEF Keeps
<1> QED BY <1>1, <1>3, <1>10, <1>12, <1>13, BecomesInv

\* The operators that open and close sockets, on the node's state.
LEMMA WithBroadcastVia ==
  ASSUME NEW A, A \subseteq Address, NEW s \in StatesVia(A), NEW a \in A
  PROVE  LET t == WithBroadcast(s, a)
         IN  /\ t \in StatesVia(A) /\ t.up = TRUE /\ Keeps(s, t)
             /\ \A d \in Dest : t.ft[d] # NoRoute => t.ft[d] = s.ft[d] \/ t.ft[d].iface = a
<1> DEFINE rt == Via(DirectRoute(Bcast), a)
           new == IF s.ft[Bcast] = NoRoute THEN rt ELSE s.ft[Bcast]
           t == WithBroadcast(s, a)
<1>1. s.ft \in [Dest -> RoutesVia(A)] /\ Bcast \in Dest
  BY DEF StatesVia, Dest
<1>2. rt \in EntriesVia(A) /\ rt.iface = a
  BY <1>1 DEF Via, DirectRoute, EntriesVia, IfaceEntry, RouteState
<1>3. rt # NoRoute
  BY <1>2, InactiveVia
<1> HIDE DEF rt
<1>4. new \in RoutesVia(A) /\ new # NoRoute /\ (new = s.ft[Bcast] \/ new.iface = a)
  BY <1>1, <1>2, <1>3 DEF RoutesVia
<1>5. t = [s EXCEPT !.up = TRUE, !.ft = [s.ft EXCEPT ![Bcast] = new]]
  BY DEF WithBroadcast, rt, StatesVia
<1> HIDE DEF new, t
<1>6. t \in StatesVia(A) /\ t.up = TRUE /\ t.ft = [s.ft EXCEPT ![Bcast] = new]
  BY <1>1, <1>4, <1>5 DEF StatesVia
<1> QED BY <1>1, <1>4, <1>6 DEF Keeps, t

LEMMA DeleteAllRoutesVia ==
  ASSUME NEW A, NEW s \in StatesVia(A), NEW a
  PROVE  LET t == DeleteAllRoutesFromInterface(s, a)
         IN  /\ t \in StatesVia(A) /\ t.up = s.up
             /\ \A d \in Dest :
                  /\ t.ft[d] # NoRoute => t.ft[d].iface # a
                  /\ s.ft[d] # NoRoute /\ t.ft[d] = NoRoute => s.ft[d].iface = a
<1> DEFINE ft == [d \in Dest |->
                    IF s.ft[d] # NoRoute /\ s.ft[d].iface = a THEN NoRoute ELSE s.ft[d]]
           t == DeleteAllRoutesFromInterface(s, a)
<1>1. ft \in [Dest -> RoutesVia(A)]
  BY DEF StatesVia, RoutesVia
<1>2. t = [s EXCEPT !.ft = ft]
  BY DEF DeleteAllRoutesFromInterface
<1>3. \A d \in Dest :
        /\ ft[d] # NoRoute => ft[d].iface # a
        /\ s.ft[d] # NoRoute /\ ft[d] = NoRoute => s.ft[d].iface = a
  OBVIOUS
<1> HIDE DEF ft, t
<1>4. t \in StatesVia(A) /\ t.up = s.up /\ t.ft = ft
  BY <1>1, <1>2 DEF StatesVia
<1> QED BY <1>3, <1>4 DEF t

LEMMA LastSocketVia ==
  ASSUME NEW A, NEW s \in StatesVia(A)
  PROVE  LET t == LastSocket(s)
         IN  /\ t \in StatesVia(A) /\ t.up = FALSE /\ t.nb = << >>
             /\ \A d \in Dest : t.ft[d] = NoRoute
<1> DEFINE ft == [d \in Dest |-> NoRoute]
           t == LastSocket(s)
<1>1. ft \in [Dest -> RoutesVia(A)] /\ << >> \in Seq(Remote)
  BY DEF RoutesVia
<1>2. t = [s EXCEPT !.up = FALSE, !.htimer = FALSE, !.nb = << >>, !.expired = {}, !.ft = ft]
  BY DEF LastSocket, NotifyInterfaceDown
<1>3. \A d \in Dest : ft[d] = NoRoute
  OBVIOUS
<1> HIDE DEF ft, t
<1>4. t \in StatesVia(A) /\ t.up = FALSE /\ t.nb = << >> /\ t.ft = ft
  BY <1>1, <1>2 DEF StatesVia
<1> QED BY <1>3, <1>4 DEF t

LEMMA InterfaceUpInv ==
  ASSUME IInv, ~halted, NEW i \in Interface, InterfaceUp(i)
  PROVE  IInv' /\ RoutesLeave
<1> DEFINE a == Head(addrs[i])
<1>1. SocketsInv'
  BY InterfaceUpSockets DEF IInv
<1>2. /\ uni' = uni \cup {a} /\ used' = used \cup {a} /\ halted' = halted
      /\ node' = WithBroadcast(node, a)
  BY DEF InterfaceUp
<1> HIDE DEF a
<1>3. used' \subseteq Address /\ a \in used' /\ node \in StatesVia(used')
  BY <1>1, <1>2, StatesMonotone DEF IInv, SocketsInv, NodeInv
<1>4. node' \in StatesVia(used') /\ node'.up = TRUE /\ Keeps(node, node')
  BY <1>2, <1>3, WithBroadcastVia
<1>5. NodeInv'
  BY <1>2, <1>4 DEF NodeInv, StatesVia, RoutesVia, EntriesVia
<1>6. RoutesLeave
  BY <1>2, <1>4 DEF RoutesLeave, Keeps
<1> QED BY <1>1, <1>2, <1>5, <1>6 DEF IInv, Alike

LEMMA InterfaceDownInv ==
  ASSUME IInv, NEW i \in Interface, InterfaceDown(i)
  PROVE  IInv' /\ RoutesLeave
<1> DEFINE a == Head(addrs[i])
           s == DeleteAllRoutesFromInterface(node, a)
<1>1. SocketsInv' /\ halted' = FALSE /\ a \in uni /\ uni' = uni \ {a} /\ used' = used
  BY InterfaceDownSockets DEF IInv
<1>2. node' = IF uni' = {} THEN LastSocket(node) ELSE s
  BY DEF InterfaceDown
<1>3. node \in StatesVia(used)
  BY DEF IInv, NodeInv
<1> HIDE DEF a
<1>4. /\ s \in StatesVia(used) /\ s.up = node.up
      /\ \A d \in Dest :
           /\ s.ft[d] # NoRoute => s.ft[d].iface # a
           /\ node.ft[d] # NoRoute /\ s.ft[d] = NoRoute => node.ft[d].iface = a
  BY <1>3, DeleteAllRoutesVia
<1> HIDE DEF s
<1>5. CASE uni' = {}
  <2>1. /\ node' \in StatesVia(used') /\ node'.up = FALSE /\ node'.nb = << >>
        /\ \A d \in Dest : node'.ft[d] = NoRoute
    BY <1>1, <1>2, <1>3, <1>5, LastSocketVia
  <2>2. NodeInv'
    BY <1>5, <2>1 DEF NodeInv, StatesVia, RoutesVia, EntriesVia
  <2> QED BY <1>1, <1>5, <2>1, <2>2 DEF IInv, Alike, RoutesLeave
<1>6. CASE uni' # {}
  <2>1. node' = s
    BY <1>2, <1>6
  <2>2. NodeInv'
    BY <1>1, <1>4, <1>6, <2>1 DEF IInv, NodeInv, StatesVia, RoutesVia, EntriesVia
  <2> QED BY <1>1, <1>4, <2>1, <2>2 DEF IInv, Alike, RoutesLeave
<1> QED BY <1>5, <1>6

LEMMA AddAddressInv ==
  ASSUME IInv, ~halted, NEW a \in Address, AddAddress(a)
  PROVE  IInv' /\ RoutesLeave
<1>1. SocketsInv' /\ uni \subseteq uni' /\ used \subseteq used' /\ halted' = halted
  BY AddAddressSockets DEF IInv
<1>2. \/ UNCHANGED <<node, uni, used>>
      \/ uni' = uni \cup {a} /\ used' = used \cup {a} /\ node' = WithBroadcast(node, a)
  BY DEF AddAddress
<1>3. node \in StatesVia(used)
  BY DEF IInv, NodeInv
<1>4. CASE UNCHANGED <<node, uni, used>>
  <2>1. NodeInv'
    BY <1>3, <1>4 DEF IInv, NodeInv, StatesVia, RoutesVia, EntriesVia
  <2> QED BY <1>1, <1>4, <2>1 DEF IInv, Alike, RoutesLeave
<1>5. CASE uni' = uni \cup {a} /\ used' = used \cup {a} /\ node' = WithBroadcast(node, a)
  <2>1. used' \subseteq Address /\ a \in used' /\ node \in StatesVia(used')
    BY <1>1, <1>3, <1>5, StatesMonotone DEF SocketsInv
  <2>2. node' \in StatesVia(used') /\ node'.up = TRUE /\ Keeps(node, node')
    BY <1>5, <2>1, WithBroadcastVia
  <2>3. NodeInv'
    BY <1>5, <2>2 DEF NodeInv, StatesVia, RoutesVia, EntriesVia
  <2>4. RoutesLeave
    BY <1>1, <2>2 DEF RoutesLeave, Keeps
  <2>5. Alike(used') => ~halted'
    BY <1>1, <1>5 DEF IInv
  <2> QED BY <1>1, <2>3, <2>4, <2>5 DEF IInv, Alike
<1> QED BY <1>2, <1>4, <1>5

\* The routes through a leave with its socket, and the broadcast record that comes
\* back in the same step goes through the new one.
LEMMA RemoveAddressInv ==
  ASSUME IInv, ~halted, NEW a \in Address, RemoveAddress(a)
  PROVE  IInv' /\ RoutesLeave
<1> DEFINE s == DeleteAllRoutesFromInterface(node, a)
<1>1. /\ SocketsInv' /\ halted' = halted
      /\ \/ a \notin uni /\ UNCHANGED <<node, uni, used>>
         \/ a \in uni /\ Unaddressed(a, s)
         \/ a \in uni /\ \E h \in Address : Readdressed(a, h, s)
  BY RemoveAddressSockets DEF IInv
<1>2. node \in StatesVia(used)
  BY DEF IInv, NodeInv
<1>3. /\ s \in StatesVia(used) /\ s.up = node.up
      /\ \A d \in Dest :
           /\ s.ft[d] # NoRoute => s.ft[d].iface # a
           /\ node.ft[d] # NoRoute /\ s.ft[d] = NoRoute => node.ft[d].iface = a
  BY <1>2, DeleteAllRoutesVia
<1> HIDE DEF s
<1>4. SUFFICES NodeInv' /\ RoutesLeave
  BY <1>1, <1>4 DEF IInv
<1>5. CASE UNCHANGED <<node, uni, used>>
  <2>1. NodeInv'
    BY <1>2, <1>5 DEF IInv, NodeInv, StatesVia, RoutesVia, EntriesVia
  <2> QED BY <1>5, <2>1 DEF RoutesLeave
<1>6. CASE a \in uni /\ Unaddressed(a, s)
  <2>1. uni' = uni \ {a} /\ used' = used /\ node' = IF uni' = {} THEN LastSocket(s) ELSE s
    BY <1>6 DEF Unaddressed
  <2>2. CASE uni' = {}
    <3>1. /\ node' \in StatesVia(used') /\ node'.up = FALSE /\ node'.nb = << >>
          /\ \A d \in Dest : node'.ft[d] = NoRoute
      BY <1>3, <2>1, <2>2, LastSocketVia
    <3>2. NodeInv'
      BY <2>2, <3>1 DEF NodeInv, StatesVia, RoutesVia, EntriesVia
    <3> QED BY <2>2, <3>1, <3>2 DEF RoutesLeave
  <2>3. CASE uni' # {}
    <3>1. node' = s
      BY <2>1, <2>3
    <3>2. NodeInv'
      BY <1>3, <1>6, <2>1, <2>3, <3>1 DEF IInv, NodeInv, StatesVia, RoutesVia, EntriesVia
    <3> QED BY <1>3, <1>6, <2>1, <3>1, <3>2 DEF RoutesLeave
  <2> QED BY <2>2, <2>3
<1>7. ASSUME NEW h \in Address, a \in uni, Readdressed(a, h, s)
      PROVE  NodeInv' /\ RoutesLeave
  <2>1. /\ h # a /\ uni' = (uni \ {a}) \cup {h} /\ used' = used \cup {h}
        /\ node' = WithBroadcast(s, h)
    BY <1>7 DEF Readdressed
  <2>2. used' \subseteq Address /\ h \in used' /\ s \in StatesVia(used')
    BY <1>1, <1>3, <2>1, StatesMonotone DEF SocketsInv
  <2>3. /\ node' \in StatesVia(used') /\ node'.up = TRUE /\ Keeps(s, node')
        /\ \A d \in Dest : node'.ft[d] # NoRoute => node'.ft[d] = s.ft[d] \/ node'.ft[d].iface = h
    <3> DEFINE t == WithBroadcast(s, h)
    <3>1. /\ t \in StatesVia(used') /\ t.up = TRUE /\ Keeps(s, t)
          /\ \A d \in Dest : t.ft[d] # NoRoute => t.ft[d] = s.ft[d] \/ t.ft[d].iface = h
      BY <2>2, WithBroadcastVia
    <3> HIDE DEF t
    <3>2. node' = t
      BY <2>1 DEF t
    <3> QED BY <3>1, <3>2
  <2>4. NodeInv'
    BY <2>1, <2>3 DEF NodeInv, StatesVia, RoutesVia, EntriesVia
  <2>5. \A b \in uni \ uni' : b = a
    BY <2>1
  <2>6. ASSUME NEW d \in Dest, node.ft[d] # NoRoute, node'.ft[d] = NoRoute
        PROVE  uni' = {} \/ node.ft[d].iface \in uni \ uni'
    BY <1>3, <1>7, <2>1, <2>3, <2>6 DEF Keeps
  <2>7. ASSUME NEW d \in Dest, node'.ft[d] # NoRoute
        PROVE  node'.ft[d].iface \notin uni \ uni'
    BY <1>3, <2>1, <2>3, <2>5, <2>7
  <2> QED BY <2>4, <2>6, <2>7 DEF RoutesLeave
<1> QED BY <1>1, <1>5, <1>6, <1>7

-----------------------------------------------------------------------------
(* What BsdvrNode sees of the node: the handlers of BsdvrControlPlane on     *)
(* entries without their m_iface do what they do on entries with it.         *)

\* What BsdvrNode sees of a table, of all tables, and of the node's state s.
PlainTable(f) == [d \in Dest |-> Plain(f[d])]

PlainTables(g) == [m \in Node |-> PlainTable(g[m])]

View(s) == [s EXCEPT !.ft = PlainTable(s.ft), !.dvt = PlainTables(s.dvt)]

LEMMA NodeViewIsView ==
  NodeView = IF used = {} THEN NotifyInterfaceUp(View(node)) ELSE View(node)
BY DEF NodeView, PlainNode, View, PlainTable, PlainTables

\* A route and what BsdvrNode sees of it.
LEMMA PlainRoute ==
  ASSUME NEW A, NEW rt \in RoutesVia(A)
  PROVE  /\ rt = NoRoute <=> Plain(rt) = NoRoute
         /\ rt # NoRoute =>
              /\ Plain(rt) = [hops |-> rt.hops, next |-> rt.next, state |-> rt.state]
              /\ Plain(rt).hops = rt.hops /\ Plain(rt).next = rt.next
              /\ Plain(rt).state = rt.state
              /\ Plain(rt) \in Entry /\ rt \in EntriesVia(A)
<1>1. CASE rt = NoRoute
  BY <1>1 DEF Plain
<1>2. CASE rt # NoRoute
  <2>1. rt \in EntriesVia(A) /\ rt \in IfaceEntry
    BY <1>2 DEF RoutesVia, EntriesVia
  <2>2. Plain(rt) = [hops |-> rt.hops, next |-> rt.next, state |-> rt.state]
    BY <1>2 DEF Plain
  <2>3. Plain(rt) \in Entry
    BY <2>1, <2>2 DEF IfaceEntry, Entry
  <2> QED BY <1>2, <2>1, <2>2, <2>3, NoRouteAssumption
<1> QED BY <1>1, <1>2

\* An entry gets INACTIVE, and so does what BsdvrNode sees of it.
LEMMA PlainInactive ==
  ASSUME NEW A, NEW rt \in EntriesVia(A)
  PROVE  Plain([rt EXCEPT !.state = "INACTIVE"]) = [Plain(rt) EXCEPT !.state = "INACTIVE"]
<1> DEFINE x == [rt EXCEPT !.state = "INACTIVE"]
<1>1. rt \in IfaceEntry /\ rt # NoRoute /\ x # NoRoute
  BY InactiveVia DEF EntriesVia
<1>2. x.hops = rt.hops /\ x.next = rt.next /\ x.state = "INACTIVE"
  BY <1>1 DEF IfaceEntry
<1> HIDE DEF x
<1>3. /\ Plain(x) = [hops |-> x.hops, next |-> x.next, state |-> x.state]
      /\ Plain(rt) = [hops |-> rt.hops, next |-> rt.next, state |-> rt.state]
  BY <1>1 DEF Plain
<1>4. Plain(x) = [Plain(rt) EXCEPT !.state = "INACTIVE"]
  BY <1>2, <1>3
<1> QED BY <1>4 DEF x

\* The view of a state, field by field.
LEMMA ViewFields ==
  ASSUME NEW A, NEW s \in StatesVia(A)
  PROVE  /\ View(s).nb = s.nb /\ View(s).expired = s.expired /\ View(s).known = s.known
         /\ View(s).ntimer = s.ntimer /\ View(s).htimer = s.htimer
         /\ View(s).prq = s.prq /\ View(s).late = s.late /\ View(s).up = s.up
         /\ Neighbors(View(s)) = Neighbors(s)
         /\ View(s).ft = PlainTable(s.ft) /\ View(s).dvt = PlainTables(s.dvt)
         /\ \A d \in Dest : s.ft[d] \in RoutesVia(A) /\ View(s).ft[d] = Plain(s.ft[d])
         /\ \A m \in Node, d \in Dest :
              s.dvt[m][d] \in RoutesVia(A) /\ View(s).dvt[m][d] = Plain(s.dvt[m][d])
<1>1. /\ View(s).nb = s.nb /\ View(s).expired = s.expired /\ View(s).known = s.known
      /\ View(s).ntimer = s.ntimer /\ View(s).htimer = s.htimer
      /\ View(s).prq = s.prq /\ View(s).late = s.late /\ View(s).up = s.up
      /\ View(s).ft = PlainTable(s.ft) /\ View(s).dvt = PlainTables(s.dvt)
  BY DEF View, StatesVia
<1>2. Neighbors(View(s)) = Neighbors(s)
  BY <1>1 DEF Neighbors
<1>3. \A d \in Dest : s.ft[d] \in RoutesVia(A) /\ View(s).ft[d] = Plain(s.ft[d])
  BY <1>1 DEF PlainTable, StatesVia
<1>4. \A m \in Node, d \in Dest :
        s.dvt[m][d] \in RoutesVia(A) /\ View(s).dvt[m][d] = Plain(s.dvt[m][d])
  BY <1>1 DEF PlainTable, PlainTables, StatesVia
<1> QED BY <1>1, <1>2, <1>3, <1>4

\* A turn of the loop over the neighbours in the view.
LEMMA VisitPlain ==
  ASSUME NEW A, NEW s \in StatesVia(A), NEW d \in Dest, NEW rt \in RoutesVia(A), NEW i \in Node
  PROVE  Visit(View(s), d, Plain(rt), i) = Plain(Visit(s, d, rt, i))
<1> DEFINE new == s.dvt[i][d]
           curr == RefreshForwardingTable(s, d, rt)
<1>1. /\ s.known \subseteq Node /\ View(s).known = s.known
      /\ new \in RoutesVia(A) /\ View(s).dvt[i][d] = Plain(new)
  <2>1. s.known \subseteq Node
    BY RemoteNode DEF StatesVia
  <2>2. View(s).known = s.known
    BY ViewFields
  <2>3. new \in RoutesVia(A) /\ View(s).dvt[i][d] = Plain(new)
    BY ViewFields
  <2> QED BY <2>1, <2>2, <2>3
<1>2. ASSUME rt # NoRoute
      PROVE  /\ RefreshForwardingTable(View(s), d, Plain(rt)) = Plain(curr)
             /\ curr \in RoutesVia(A) /\ curr # NoRoute
  <2>1. rt \in EntriesVia(A) /\ Plain(rt).next = rt.next /\ rt.next \in Dest
    BY <1>2, PlainRoute DEF EntriesVia, IfaceEntry
  <2>2. CASE rt.next \in s.known
    <3>1. /\ s.dvt[rt.next][d] \in RoutesVia(A)
          /\ View(s).dvt[rt.next][d] = Plain(s.dvt[rt.next][d])
      BY <1>1, <2>2, ViewFields
    <3>2. s.dvt[rt.next][d] # NoRoute <=> View(s).dvt[rt.next][d] # NoRoute
      BY <3>1, PlainRoute
    <3> QED BY <1>1, <1>2, <2>1, <2>2, <3>1, <3>2 DEF RefreshForwardingTable
  <2>3. CASE rt.next \notin s.known
    <3>1. /\ curr = [rt EXCEPT !.state = "INACTIVE"]
          /\ RefreshForwardingTable(View(s), d, Plain(rt)) = [Plain(rt) EXCEPT !.state = "INACTIVE"]
      BY <1>1, <2>1, <2>3 DEF RefreshForwardingTable
    <3>2. curr \in EntriesVia(A)
      BY <2>1, <3>1, InactiveVia
    <3>3. Plain(curr) = [Plain(rt) EXCEPT !.state = "INACTIVE"]
      BY <2>1, <3>1, PlainInactive
    <3> QED BY <3>1, <3>2, <3>3, InactiveVia DEF RoutesVia
  <2> QED BY <2>2, <2>3
<1> HIDE DEF new, curr
<1>3. new = NoRoute <=> Plain(new) = NoRoute
  BY <1>1, PlainRoute
<1>4. rt = NoRoute <=> Plain(rt) = NoRoute
  BY PlainRoute
<1>5. ASSUME rt # NoRoute, new # NoRoute
      PROVE  isBetterRoute(Plain(new), Plain(curr)) <=> isBetterRoute(new, curr)
  <2>1. /\ Plain(new).hops = new.hops /\ Plain(new).state = new.state
        /\ Plain(curr).hops = curr.hops /\ Plain(curr).state = curr.state
    BY <1>1, <1>2, <1>5, PlainRoute
  <2> QED BY <2>1 DEF isBetterRoute
<1>6. Visit(s, d, rt, i) =
        IF i \notin s.known \/ new = NoRoute THEN rt
        ELSE IF rt = NoRoute \/ isBetterRoute(new, curr) THEN new ELSE curr
  BY DEF Visit, new, curr
<1>7. Visit(View(s), d, Plain(rt), i) =
        IF i \notin s.known \/ Plain(new) = NoRoute THEN Plain(rt)
        ELSE IF Plain(rt) = NoRoute
                \/ isBetterRoute(Plain(new), RefreshForwardingTable(View(s), d, Plain(rt)))
             THEN Plain(new) ELSE RefreshForwardingTable(View(s), d, Plain(rt))
  BY <1>1 DEF Visit
<1> QED BY <1>2, <1>3, <1>4, <1>5, <1>6, <1>7

\* The loop over the neighbours in the view.
LEMMA ComputeRoutePlain ==
  ASSUME NEW A, NEW s \in StatesVia(A), NEW d \in Dest
  PROVE  ComputeRoute(View(s), d) = Plain(ComputeRoute(s, d))
<1> DEFINE v == View(s)
           L == Len(s.nb)
           S == RoutesVia(A)
           P == {Plain(x) : x \in S}
<1>1. s.nb \in Seq(Node) /\ L \in Nat /\ s.ft[d] \in S
  BY RemoteNode DEF StatesVia
<1>2. v.nb = s.nb /\ v.ft[d] = Plain(s.ft[d])
  BY ViewFields
<1>3. \A x \in S, i \in Node :
        /\ Visit(s, d, x, i) \in S
        /\ Visit(v, d, Plain(x), i) = Plain(Visit(s, d, x, i))
  BY VisitVia, VisitPlain
<1> HIDE DEF v, S
<1>4. PICK run :
        /\ \A k \in 0..L : run[k] \in S
        /\ run[0] = s.ft[d] /\ ComputeRoute(s, d) = run[L]
        /\ \A k \in 1..L : run[k] = Visit(s, d, run[k-1], s.nb[k])
  BY <1>1, <1>3, ComputeRouteRun
<1>5. v.ft[d] \in P /\ \A y \in P, i \in Node : Visit(v, d, y, i) \in P
  BY <1>1, <1>2, <1>3
<1> HIDE DEF P
<1>6. PICK plain :
        /\ plain[0] = v.ft[d] /\ ComputeRoute(v, d) = plain[L]
        /\ \A k \in 1..L : plain[k] = Visit(v, d, plain[k-1], s.nb[k])
  BY <1>1, <1>2, <1>5, ComputeRouteRun
<1> DEFINE T == [k \in 0..L |-> {Plain(run[k])}]
<1>7. \A k \in 0..L : T[k] = {Plain(run[k])}
  OBVIOUS
<1> HIDE DEF T
<1>8. plain[0] \in T[0]
  BY <1>1, <1>2, <1>4, <1>6, <1>7
<1>9. ASSUME NEW k \in 1..L, plain[k-1] \in T[k-1] PROVE plain[k] \in T[k]
  <2>1. k \in 0..L /\ k-1 \in 0..L /\ s.nb[k] \in Node
    BY <1>1
  <2>2. plain[k-1] = Plain(run[k-1]) /\ run[k-1] \in S
    BY <1>4, <1>7, <1>9, <2>1
  <2>3. plain[k] = Plain(run[k])
    BY <1>3, <1>4, <1>6, <2>1, <2>2
  <2> QED BY <1>7, <2>1, <2>3
<1>10. \A k \in 0..L : plain[k] \in T[k]
  BY <1>1, <1>8, <1>9, Invariance
<1>11. plain[L] = Plain(run[L])
  BY <1>1, <1>7, <1>10
<1> QED BY <1>4, <1>6, <1>11 DEF v

LEMMA ComputeForwardingTableView ==
  ASSUME NEW A, NEW s \in StatesVia(A)
  PROVE  ComputeForwardingTable(View(s)) = View(ComputeForwardingTable(s))
<1> DEFINE ft == [d \in Dest |-> ComputeRoute(s, d)]
<1>1. [d \in Dest |-> ComputeRoute(View(s), d)] = PlainTable(ft)
  BY ComputeRoutePlain DEF PlainTable
<1> HIDE DEF ft
<1>2. ComputeForwardingTable(View(s)) = [View(s) EXCEPT !.ft = PlainTable(ft)]
  BY <1>1 DEF ComputeForwardingTable
<1>3. ComputeForwardingTable(s) = [s EXCEPT !.ft = ft]
  BY DEF ComputeForwardingTable, ft
<1>4. View([s EXCEPT !.ft = ft]) = [View(s) EXCEPT !.ft = PlainTable(ft)]
  BY DEF View, StatesVia
<1> QED BY <1>2, <1>3, <1>4

\* A row about d of m's table, in the view.
LEMMA RowView ==
  ASSUME NEW A, NEW s \in StatesVia(A), NEW m \in Node, NEW d \in Dest, NEW rt
  PROVE  View([s EXCEPT !.dvt[m][d] = rt]) = [View(s) EXCEPT !.dvt[m][d] = Plain(rt)]
<1> DEFINE g == [s.dvt EXCEPT ![m][d] = rt]
           h == [PlainTables(s.dvt) EXCEPT ![m][d] = Plain(rt)]
<1>1. s.dvt \in [Node -> [Dest -> RoutesVia(A)]]
  BY DEF StatesVia
<1>2. PlainTables(g) = h
  BY <1>1 DEF PlainTable, PlainTables
<1>3. [s EXCEPT !.dvt[m][d] = rt] = [s EXCEPT !.dvt = g]
  BY DEF StatesVia
<1>4. View(s).dvt = PlainTables(s.dvt)
  BY ViewFields
<1>5. [View(s) EXCEPT !.dvt[m][d] = Plain(rt)] = [View(s) EXCEPT !.dvt = h]
  BY <1>4
<1> HIDE DEF g, h
<1>6. View([s EXCEPT !.dvt = g]) = [View(s) EXCEPT !.dvt = PlainTables(g)]
  BY DEF View, StatesVia
<1> QED BY <1>2, <1>3, <1>5, <1>6

LEMMA RemoveFakeRoutesView ==
  ASSUME NEW A, NEW s \in StatesVia(A), NEW m \in Node, NEW d \in Dest, NEW rt \in EntriesVia(A)
  PROVE  RemoveFakeRoutes(View(s), m, d, Plain(rt)) = View(RemoveFakeRoutes(s, m, d, rt))
<1> DEFINE v == View(s)
           fake == FakeDsts(s, m, d, rt)
           g == [i \in Node |-> [c \in Dest |->
                   IF c \in fake /\ Erased(s, i, c) THEN NoRoute ELSE s.dvt[i][c]]]
           h == [i \in Node |-> [c \in Dest |->
                   IF c \in fake /\ Erased(v, i, c) THEN NoRoute ELSE v.dvt[i][c]]]
<1>1. Plain(rt).state = rt.state
  BY InactiveVia, PlainRoute DEF RoutesVia
<1>2. Neighbors(v) = Neighbors(s) /\ v.known = s.known
  BY ViewFields
<1>3. \A c \in Dest :
        /\ v.ft[c] = NoRoute <=> s.ft[c] = NoRoute
        /\ s.ft[c] # NoRoute => v.ft[c].state = s.ft[c].state /\ v.ft[c].next = s.ft[c].next
  BY ViewFields, PlainRoute
<1>4. \A i \in Node, c \in Dest : v.dvt[i][c] = Plain(s.dvt[i][c])
  BY ViewFields
<1>5. View([s EXCEPT !.dvt = g]) = [v EXCEPT !.dvt = PlainTables(g)]
  BY DEF View, StatesVia
<1>6. RemoveFakeRoutes(s, m, d, rt) = [s EXCEPT !.dvt = g]
  BY DEF RemoveFakeRoutes
<1> HIDE DEF v, g
<1>7. FakeDsts(v, m, d, Plain(rt)) = fake
  BY <1>1, <1>2, <1>3 DEF FakeDsts
<1>8. \A i \in Node, c \in fake : Erased(v, i, c) <=> Erased(s, i, c)
  BY <1>2, <1>3 DEF Erased, FakeDsts
<1> HIDE DEF fake
<1>9. RemoveFakeRoutes(v, m, d, Plain(rt)) = [v EXCEPT !.dvt = h]
  BY <1>7 DEF RemoveFakeRoutes
<1>10. \A i \in Node, c \in Dest :
         (IF c \in fake /\ Erased(v, i, c) THEN NoRoute ELSE v.dvt[i][c]) =
         Plain(IF c \in fake /\ Erased(s, i, c) THEN NoRoute ELSE s.dvt[i][c])
  BY <1>4, <1>8 DEF Plain
<1>11. h = PlainTables(g)
  BY <1>10 DEF PlainTables, PlainTable, g
<1> QED BY <1>5, <1>6, <1>9, <1>11 DEF v

LEMMA UpdateDistanceVectorTableView ==
  ASSUME NEW A, NEW s \in StatesVia(A), NEW m \in Remote, NEW d \in Dest, NEW rt \in EntriesVia(A)
  PROVE  UpdateDistanceVectorTable(View(s), m, d, Plain(rt)) =
         View(UpdateDistanceVectorTable(s, m, d, rt))
<1> DEFINE v == View(s)
           t == IF s.ft[d] # NoRoute THEN RemoveFakeRoutes(s, m, d, rt) ELSE s
           w == IF v.ft[d] # NoRoute THEN RemoveFakeRoutes(v, m, d, Plain(rt)) ELSE v
           stays == m \in Neighbors(s) /\ m \in s.known
<1>1. m \in Node
  BY RemoteNode
<1>2. Neighbors(v) = Neighbors(s) /\ v.known = s.known /\ (v.ft[d] = NoRoute <=> s.ft[d] = NoRoute)
  BY ViewFields, PlainRoute
<1>3. w = View(t)
  BY <1>1, <1>2, RemoveFakeRoutesView
<1>4. /\ UpdateDistanceVectorTable(s, m, d, rt) =
           IF stays THEN t ELSE [t EXCEPT !.known = @ \cup {m}, !.dvt[m][d] = rt]
      /\ UpdateDistanceVectorTable(v, m, d, Plain(rt)) =
           IF stays THEN w ELSE [w EXCEPT !.known = @ \cup {m}, !.dvt[m][d] = Plain(rt)]
  BY <1>2 DEF UpdateDistanceVectorTable
<1>5. t \in StatesVia(A)
  <2> DEFINE dvt == [i \in Node |-> [c \in Dest |->
                       IF c \in FakeDsts(s, m, d, rt) /\ Erased(s, i, c)
                       THEN NoRoute ELSE s.dvt[i][c]]]
  <2>1. dvt \in [Node -> [Dest -> RoutesVia(A)]]
    BY DEF StatesVia, RoutesVia
  <2>2. t = s \/ t = [s EXCEPT !.dvt = dvt]
    BY DEF RemoveFakeRoutes
  <2> HIDE DEF t, dvt
  <2> QED BY <2>1, <2>2 DEF StatesVia
<1> HIDE DEF v, t, w, stays
<1> DEFINE known == t.known \cup {m}
           x == [t EXCEPT !.known = known]
<1>6. known \in SUBSET Remote
  BY <1>5 DEF StatesVia
<1>7. /\ [t EXCEPT !.known = @ \cup {m}, !.dvt[m][d] = rt] = [x EXCEPT !.dvt[m][d] = rt]
      /\ View(x) = [View(t) EXCEPT !.known = known]
  BY <1>5 DEF StatesVia, View
<1>8. [w EXCEPT !.known = @ \cup {m}, !.dvt[m][d] = Plain(rt)] = [View(x) EXCEPT !.dvt[m][d] = Plain(rt)]
  <2>1. w.known = t.known
    BY <1>3, <1>5, ViewFields
  <2>2. [w EXCEPT !.known = @ \cup {m}, !.dvt[m][d] = Plain(rt)] =
        [[w EXCEPT !.known = w.known \cup {m}] EXCEPT !.dvt[m][d] = Plain(rt)]
    BY <1>3, <1>5 DEF StatesVia, View
  <2> QED BY <1>3, <1>7, <2>1, <2>2
<1> HIDE DEF known
<1>9. x \in StatesVia(A)
  BY <1>5, <1>6 DEF StatesVia
<1> HIDE DEF x
<1>10. View([x EXCEPT !.dvt[m][d] = rt]) = [View(x) EXCEPT !.dvt[m][d] = Plain(rt)]
  BY <1>1, <1>9, RowView
<1> QED BY <1>3, <1>4, <1>7, <1>8, <1>10 DEF v

\* The messages about the view are those about the state.
LEMMA SendUpdateView ==
  ASSUME NEW A, NEW n, NEW s \in StatesVia(A), NEW d \in Dest, s.ft[d] # NoRoute, NEW ne
  PROVE  View(s).ft[d] # NoRoute /\ SendUpdate(n, View(s), d, ne) = SendUpdate(n, s, d, ne)
<1>1. /\ View(s).ft[d] # NoRoute
      /\ View(s).ft[d].hops = s.ft[d].hops /\ View(s).ft[d].state = s.ft[d].state
  BY ViewFields, PlainRoute
<1> QED BY <1>1 DEF SendUpdate, Update

LEMMA ChangesView ==
  ASSUME NEW A, NEW n, NEW u \in StatesVia(A), NEW t \in StatesVia(A), NEW nex
  PROVE  SendTriggeredUpdateChangesToNeighbors(n, View(t), Changes(n, View(u), View(t)), nex) =
         SendTriggeredUpdateChangesToNeighbors(n, t, Changes(n, u, t), nex)
<1> DEFINE C == Changes(n, u, t)
           B(ne) == {d \in C \ {ne} : t.ft[d] # NoRoute}
<1>1. \A d \in Dest : /\ View(u).ft[d] = NoRoute <=> u.ft[d] = NoRoute
                      /\ View(t).ft[d] = NoRoute <=> t.ft[d] = NoRoute
  BY ViewFields, PlainRoute
<1>2. Changes(n, View(u), View(t)) = C /\ C \subseteq Dest
  BY <1>1 DEF Changes
<1>3. Neighbors(View(t)) = Neighbors(t)
  BY ViewFields
<1> HIDE DEF C
<1>4. \A ne : {d \in C \ {ne} : View(t).ft[d] # NoRoute} = B(ne)
  BY <1>1, <1>2
<1>5. \A ne, d : d \in B(ne) => SendUpdate(n, View(t), d, ne) = SendUpdate(n, t, d, ne)
  BY <1>2, SendUpdateView
<1>6. SendTriggeredUpdateChangesToNeighbors(n, t, C, nex) =
        UNION {{SendUpdate(n, t, d, ne) : d \in B(ne)} : ne \in Neighbors(t) \ nex}
  BY DEF SendTriggeredUpdateChangesToNeighbors
<1> HIDE DEF B
<1>7. SendTriggeredUpdateChangesToNeighbors(n, View(t), C, nex) =
        UNION {{SendUpdate(n, View(t), d, ne) : d \in B(ne)} : ne \in Neighbors(t) \ nex}
  BY <1>3, <1>4 DEF SendTriggeredUpdateChangesToNeighbors
<1> DEFINE F(ne) == {SendUpdate(n, View(t), d, ne) : d \in B(ne)}
           G(ne) == {SendUpdate(n, t, d, ne) : d \in B(ne)}
           X == Neighbors(t) \ nex
<1>8. \A ne : F(ne) = G(ne)
  BY <1>5
<1>9. /\ SendTriggeredUpdateChangesToNeighbors(n, View(t), C, nex) = UNION {F(ne) : ne \in X}
      /\ SendTriggeredUpdateChangesToNeighbors(n, t, C, nex) = UNION {G(ne) : ne \in X}
  BY <1>6, <1>7
<1> HIDE DEF F, G, X
<1>10. {F(ne) : ne \in X} = {G(ne) : ne \in X}
  BY <1>8
<1> QED BY <1>2, <1>9, <1>10 DEF C

LEMMA SendUpdateOnLinkFailureView ==
  ASSUME NEW A, NEW n, NEW s \in StatesVia(A), NEW ne \in Remote
  PROVE  LET r == SendUpdateOnLinkFailure(n, s, ne)
         IN  SendUpdateOnLinkFailure(n, View(s), ne) = [s |-> View(r.s), out |-> r.out]
<1> DEFINE v == View(s)
           fails(x) == ~(ne \in Filtered \/ ne \notin x.known \/ x.dvt[ne][ne] = NoRoute)
           rt == [s.dvt[ne][ne] EXCEPT !.state = "INACTIVE"]
           u == UpdateDistanceVectorTable(s, ne, ne, rt)
           t == ComputeForwardingTable(u)
<1>1. /\ ne \in Node /\ ne \in Dest /\ v.known = s.known
      /\ s.dvt[ne][ne] \in RoutesVia(A) /\ v.dvt[ne][ne] = Plain(s.dvt[ne][ne])
  BY RemoteNode, ViewFields
<1>2. v.dvt[ne][ne] = NoRoute <=> s.dvt[ne][ne] = NoRoute
  BY <1>1, PlainRoute
<1>3. CASE ~fails(s)
  BY <1>1, <1>2, <1>3 DEF SendUpdateOnLinkFailure
<1>4. CASE fails(s)
  <2>1. s.dvt[ne][ne] \in EntriesVia(A)
    BY <1>1, <1>4 DEF RoutesVia
  <2>2. rt \in EntriesVia(A) /\ Plain(rt) = [v.dvt[ne][ne] EXCEPT !.state = "INACTIVE"]
    BY <1>1, <2>1, InactiveVia, PlainInactive
  <2>3. SendUpdateOnLinkFailure(n, s, ne) =
          [s |-> t, out |-> SendTriggeredUpdateChangesToNeighbors(n, t, Changes(n, u, t), {ne})]
    BY <1>4 DEF SendUpdateOnLinkFailure
  <2> DEFINE pu == UpdateDistanceVectorTable(v, ne, ne, Plain(rt))
             pt == ComputeForwardingTable(pu)
  <2>4. SendUpdateOnLinkFailure(n, v, ne) =
          [s |-> pt, out |-> SendTriggeredUpdateChangesToNeighbors(n, pt, Changes(n, pu, pt), {ne})]
    BY <1>1, <1>2, <1>4, <2>2 DEF SendUpdateOnLinkFailure
  <2> HIDE DEF rt
  <2>5. pu = View(u) /\ u \in StatesVia(A)
    BY <1>1, <2>2, UpdateDistanceVectorTableView, UpdateDistanceVectorTableVia DEF Follows
  <2> HIDE DEF u, pu
  <2>6. pt = View(t) /\ t \in StatesVia(A)
    BY <2>5, ComputeForwardingTableView, ComputeForwardingTableVia DEF Follows
  <2> HIDE DEF t, pt
  <2>7. SendTriggeredUpdateChangesToNeighbors(n, View(t), Changes(n, View(u), View(t)), {ne}) =
        SendTriggeredUpdateChangesToNeighbors(n, t, Changes(n, u, t), {ne})
    BY <2>5, <2>6, ChangesView
  <2> QED BY <2>3, <2>4, <2>5, <2>6, <2>7
<1> QED BY <1>3, <1>4

\* A purge in the view.
LEMMA PurgeView ==
  ASSUME NEW A, NEW n, NEW s \in StatesVia(A)
  PROVE  Purge(n, View(s)).s = View(Purge(n, s).s)
<1> DEFINE v == View(s)
           L == Len(s.nb)
           S == {x \in [s : StatesVia(A), out : SUBSET UpdatesFrom(n)] : TRUE}
           ViewOf(x) == [s |-> View(x.s), out |-> x.out]
           P == {ViewOf(x) : x \in S}
<1>1. s.nb \in Seq(Remote) /\ L \in Nat /\ \A k \in 1..L : s.nb[k] \in Remote
  BY DEF StatesVia
<1>2. v.nb = s.nb /\ v.expired = s.expired
  BY ViewFields
<1>3. CASE s.nb = << >>
  BY <1>2, <1>3 DEF Purge
<1>4. CASE s.nb # << >>
  <2>1. [s |-> s, out |-> {}] \in S /\ [s |-> v, out |-> {}] = ViewOf([s |-> s, out |-> {}])
    OBVIOUS
  <2>2. ASSUME NEW k \in 1..L, NEW x \in S
        PROVE  /\ AfterFailure(n, s, x, k) \in S
               /\ AfterFailure(n, v, ViewOf(x), k) = ViewOf(AfterFailure(n, s, x, k))
    <3> DEFINE y == SendUpdateOnLinkFailure(n, x.s, s.nb[k])
    <3>1. x.s \in StatesVia(A) /\ x.out \subseteq UpdatesFrom(n) /\ s.nb[k] \in Remote
      BY <1>1
    <3>2. y.s \in StatesVia(A) /\ y.out \subseteq UpdatesFrom(n)
      BY <3>1, SendUpdateOnLinkFailureVia DEF Installed, Follows
    <3>3. SendUpdateOnLinkFailure(n, View(x.s), s.nb[k]) = [s |-> View(y.s), out |-> y.out]
      BY <3>1, SendUpdateOnLinkFailureView
    <3>4. AfterFailure(n, s, x, k) = [s |-> y.s, out |-> x.out \cup y.out]
      BY DEF AfterFailure
    <3> DEFINE z == SendUpdateOnLinkFailure(n, View(x.s), s.nb[k])
    <3>5. ViewOf(x).s = View(x.s) /\ ViewOf(x).out = x.out /\ v.nb[k] = s.nb[k]
      BY <1>2
    <3> HIDE DEF v, ViewOf, S
    <3>6. AfterFailure(n, v, ViewOf(x), k) = [s |-> z.s, out |-> x.out \cup z.out]
      BY <3>5 DEF AfterFailure
    <3>7. z.s = View(y.s) /\ z.out = y.out
      BY <3>3
    <3> HIDE DEF y, z
    <3>8. AfterFailure(n, v, ViewOf(x), k) = [s |-> View(y.s), out |-> x.out \cup y.out]
      BY <3>6, <3>7
    <3> QED BY <3>1, <3>2, <3>4, <3>8 DEF S, ViewOf
  <2> HIDE DEF S, ViewOf, v
  <2>3. PICK run :
          /\ \A k \in 0..L : run[k] \in S
          /\ run[0] = [s |-> s, out |-> {}]
          /\ \A k \in 1..L :
               run[k] = IF s.nb[k] \notin s.expired THEN run[k-1] ELSE AfterFailure(n, s, run[k-1], k)
          /\ Purge(n, s) = Purged(s, run[L])
    BY <1>1, <1>4, <2>1, <2>2, PurgeRun
  <2>4. [s |-> v, out |-> {}] \in P /\ \A k \in 1..L, y \in P : AfterFailure(n, v, y, k) \in P
    BY <2>1, <2>2
  <2> HIDE DEF P
  <2>5. PICK plain :
          /\ plain[0] = [s |-> v, out |-> {}]
          /\ \A k \in 1..L :
               plain[k] = IF s.nb[k] \notin s.expired THEN plain[k-1]
                          ELSE AfterFailure(n, v, plain[k-1], k)
          /\ Purge(n, v) = Purged(v, plain[L])
    BY <1>1, <1>2, <1>4, <2>4, PurgeRun
  <2> DEFINE T == [k \in 0..L |-> {ViewOf(run[k])}]
  <2>6. \A k \in 0..L : T[k] = {ViewOf(run[k])}
    OBVIOUS
  <2> HIDE DEF T
  <2>7. plain[0] \in T[0]
    BY <1>1, <2>1, <2>3, <2>5, <2>6
  <2>8. ASSUME NEW k \in 1..L, plain[k-1] \in T[k-1] PROVE plain[k] \in T[k]
    <3>1. k \in 0..L /\ k-1 \in 0..L
      BY <1>1
    <3>2. plain[k-1] = ViewOf(run[k-1]) /\ run[k-1] \in S
      BY <2>3, <2>6, <2>8, <3>1
    <3>3. AfterFailure(n, v, plain[k-1], k) = ViewOf(AfterFailure(n, s, run[k-1], k))
      BY <2>2, <3>2
    <3>4. plain[k] = ViewOf(run[k])
      BY <2>3, <2>5, <3>2, <3>3
    <3> QED BY <2>6, <3>1, <3>4
  <2>9. \A k \in 0..L : plain[k] \in T[k]
    BY <1>1, <2>7, <2>8, Invariance
  <2>10. plain[L] = ViewOf(run[L]) /\ run[L] \in S
    BY <1>1, <2>3, <2>6, <2>9
  <2> DEFINE x == run[L].s
             nb == Without(s.nb, s.expired)
  <2>11. x \in StatesVia(A) /\ plain[L].s = View(x)
    BY <2>10 DEF S, ViewOf
  <2>12. /\ Purge(n, s).s = [x EXCEPT !.nb = nb, !.expired = {}, !.ntimer = TRUE]
         /\ Purge(n, v).s = [View(x) EXCEPT !.nb = nb, !.expired = {}, !.ntimer = TRUE]
    BY <1>2, <2>3, <2>5, <2>11 DEF Purged
  <2> HIDE DEF x, nb
  <2>13. [View(x) EXCEPT !.nb = nb, !.expired = {}, !.ntimer = TRUE] =
         View([x EXCEPT !.nb = nb, !.expired = {}, !.ntimer = TRUE])
    BY <2>11 DEF View, StatesVia
  <2> QED BY <2>12, <2>13 DEF v
<1> QED BY <1>3, <1>4

\* View commutes with setting a field that has no route in it.
LEMMA FieldsView ==
  ASSUME NEW A, NEW s \in StatesVia(A), NEW x, NEW y
  PROVE  /\ View([s EXCEPT !.nb = x]) = [View(s) EXCEPT !.nb = x]
         /\ View([s EXCEPT !.expired = x]) = [View(s) EXCEPT !.expired = x]
         /\ View([s EXCEPT !.ntimer = x]) = [View(s) EXCEPT !.ntimer = x]
         /\ View([s EXCEPT !.known = x]) = [View(s) EXCEPT !.known = x]
         /\ View([s EXCEPT !.late = x]) = [View(s) EXCEPT !.late = x]
         /\ View([s EXCEPT !.prq = x, !.late = y]) = [View(s) EXCEPT !.prq = x, !.late = y]
<1>1. View([s EXCEPT !.nb = x]) = [View(s) EXCEPT !.nb = x]
  BY DEF View, StatesVia
<1>2. View([s EXCEPT !.expired = x]) = [View(s) EXCEPT !.expired = x]
  BY DEF View, StatesVia
<1>3. View([s EXCEPT !.ntimer = x]) = [View(s) EXCEPT !.ntimer = x]
  BY DEF View, StatesVia
<1>4. View([s EXCEPT !.known = x]) = [View(s) EXCEPT !.known = x]
  BY DEF View, StatesVia
<1>5. View([s EXCEPT !.late = x]) = [View(s) EXCEPT !.late = x]
  BY DEF View, StatesVia
<1>6. View([s EXCEPT !.prq = x, !.late = y]) = [View(s) EXCEPT !.prq = x, !.late = y]
  BY DEF View, StatesVia
<1> QED BY <1>1, <1>2, <1>3, <1>4, <1>5, <1>6

LEMMA NeighborUpdateView ==
  ASSUME NEW A, NEW n, NEW s \in StatesVia(A), NEW m \in Remote
  PROVE  NeighborUpdate(n, View(s), m).s = View(NeighborUpdate(n, s, m).s)
<1> DEFINE v == View(s)
           nb == Append(s.nb, m)
           t == [s EXCEPT !.nb = nb]
           expired == s.expired \ {m}
<1>1. Neighbors(v) = Neighbors(s) /\ v.nb = s.nb /\ v.expired = s.expired
  BY ViewFields
<1>2. CASE m \in Neighbors(s)
  <2>1. NeighborUpdate(n, s, m).s = [s EXCEPT !.expired = expired]
    BY <1>2 DEF NeighborUpdate
  <2>2. NeighborUpdate(n, v, m).s = [v EXCEPT !.expired = v.expired \ {m}]
    BY <1>1, <1>2 DEF NeighborUpdate
  <2>3. [v EXCEPT !.expired = v.expired \ {m}] = [v EXCEPT !.expired = expired]
    BY <1>1
  <2> HIDE DEF expired
  <2>4. View([s EXCEPT !.expired = expired]) = [v EXCEPT !.expired = expired]
    BY FieldsView
  <2> QED BY <2>1, <2>2, <2>3, <2>4
<1>3. CASE m \notin Neighbors(s)
  <2>1. NeighborUpdate(n, s, m) = Purge(n, t)
    BY <1>3 DEF NeighborUpdate
  <2>2. NeighborUpdate(n, v, m) = Purge(n, [v EXCEPT !.nb = Append(v.nb, m)])
    BY <1>1, <1>3 DEF NeighborUpdate
  <2>3. [v EXCEPT !.nb = Append(v.nb, m)] = [v EXCEPT !.nb = nb]
    BY <1>1
  <2>4. nb \in Seq(Remote)
    BY DEF StatesVia
  <2> HIDE DEF nb
  <2>5. t \in StatesVia(A)
    BY <2>4 DEF StatesVia
  <2>6. View(t) = [v EXCEPT !.nb = nb]
    BY FieldsView
  <2> HIDE DEF t, v
  <2>7. Purge(n, View(t)).s = View(Purge(n, t).s)
    BY <2>5, PurgeView
  <2> QED BY <2>1, <2>2, <2>3, <2>6, <2>7 DEF v
<1> QED BY <1>2, <1>3

LEMMA MayReplyView ==
  ASSUME NEW A, NEW s \in StatesVia(A), NEW m, NEW d \in Dest
  PROVE  MayReply(View(s), m, d) <=> MayReply(s, m, d)
<1>1. /\ View(s).ft[d] = NoRoute <=> s.ft[d] = NoRoute
      /\ s.ft[d] # NoRoute =>
           View(s).ft[d].state = s.ft[d].state /\ View(s).ft[d].next = s.ft[d].next
      /\ Neighbors(View(s)) = Neighbors(s)
  BY ViewFields, PlainRoute
<1> QED BY <1>1 DEF MayReply

LEMMA EnqueueView ==
  ASSUME NEW A, NEW n, NEW s \in StatesVia(A), NEW en
  PROVE  Enqueue(n, View(s), en).s = View(Enqueue(n, s, en).s)
<1> DEFINE queue(x) == IF en \in Elems(Without(x.prq, x.late)) THEN Without(x.prq, x.late)
                       ELSE Append(MakeRoom(Without(x.prq, x.late)), en)
<1>1. \A x : Enqueue(n, x, en).s = [x EXCEPT !.prq = queue(x), !.late = {}]
  BY DEF Enqueue
<1>2. queue(View(s)) = queue(s)
  BY ViewFields
<1> HIDE DEF queue
<1> DEFINE q == queue(s)
<1>3. /\ Enqueue(n, View(s), en).s = [View(s) EXCEPT !.prq = q, !.late = {}]
      /\ Enqueue(n, s, en).s = [s EXCEPT !.prq = q, !.late = {}]
  BY <1>1, <1>2
<1> HIDE DEF q
<1>4. View([s EXCEPT !.prq = q, !.late = {}]) = [View(s) EXCEPT !.prq = q, !.late = {}]
  BY DEF View, StatesVia
<1> QED BY <1>3, <1>4

LEMMA RetransmitToNeighborView ==
  ASSUME NEW A, NEW n, NEW s \in StatesVia(A), NEW m \in Remote, NEW d \in Dest, NEW hops
  PROVE  RetransmitToNeighbor(n, View(s), m, d, hops).s =
         View(RetransmitToNeighbor(n, s, m, d, hops).s)
<1> DEFINE cost(x) == IF x.ft[d].next \in x.known /\ x.dvt[x.ft[d].next][m] # NoRoute
                      THEN x.dvt[x.ft[d].next][m].hops ELSE 0
           direct(x) == x.ft[d].hops = 1 \/ cost(x) + 1 = x.ft[d].hops + hops
<1>1. \A x : RetransmitToNeighbor(n, x, m, d, hops).s =
               IF MayReply(x, m, d) /\ ~direct(x)
               THEN Enqueue(n, x, [ne |-> m, dst |-> d]).s ELSE x
  BY DEF RetransmitToNeighbor
<1>2. ASSUME s.ft[d] # NoRoute PROVE direct(View(s)) <=> direct(s)
  <2>1. /\ View(s).ft[d].hops = s.ft[d].hops /\ View(s).ft[d].next = s.ft[d].next
        /\ View(s).known = s.known /\ s.known \subseteq Node /\ m \in Dest
    <3>1. View(s).ft[d].hops = s.ft[d].hops /\ View(s).ft[d].next = s.ft[d].next
      BY <1>2, ViewFields, PlainRoute
    <3>2. View(s).known = s.known
      BY ViewFields
    <3>3. s.known \subseteq Node /\ m \in Dest
      BY RemoteNode DEF StatesVia
    <3> QED BY <3>1, <3>2, <3>3
  <2>2. \A k \in Node :
          /\ View(s).dvt[k][m] = NoRoute <=> s.dvt[k][m] = NoRoute
          /\ s.dvt[k][m] # NoRoute => View(s).dvt[k][m].hops = s.dvt[k][m].hops
    BY <2>1, ViewFields, PlainRoute
  <2>3. cost(View(s)) = cost(s)
    BY <2>1, <2>2
  <2> HIDE DEF cost
  <2> QED BY <2>1, <2>3
<1> HIDE DEF direct
<1>3. MayReply(View(s), m, d) <=> MayReply(s, m, d)
  BY MayReplyView
<1>4. MayReply(s, m, d) => s.ft[d] # NoRoute
  BY DEF MayReply
<1> QED BY <1>1, <1>2, <1>3, <1>4, EnqueueView

\* An entry that is given an m_iface, in the view.
LEMMA PlainVia ==
  ASSUME NEW rt \in Entry, NEW a \in Address
  PROVE  Via(rt, a) \in IfaceEntry /\ Via(rt, a).iface = a /\ Plain(Via(rt, a)) = rt
<1>1. /\ Via(rt, a) = [hops |-> rt.hops, next |-> rt.next, state |-> rt.state, iface |-> a]
      /\ rt.hops \in 0..255 /\ rt.next \in Dest /\ rt.state \in RouteState
      /\ rt = [hops |-> rt.hops, next |-> rt.next, state |-> rt.state]
  BY DEF Via, Entry
<1>2. Via(rt, a) \in IfaceEntry
  BY <1>1 DEF IfaceEntry
<1>3. Via(rt, a) # NoRoute
  BY <1>2, IfaceNoRouteAssumption
<1>4. Plain(Via(rt, a)) = [hops |-> rt.hops, next |-> rt.next, state |-> rt.state]
  BY <1>1, <1>3 DEF Plain
<1> QED BY <1>1, <1>2, <1>4

\* The state in which ReceiveHello leaves the node, where iface is the interface
\* address and the HELLO is from m.
Hearing(n, s, m) == IF EnableHello THEN NeighborUpdate(n, s, m).s ELSE s

AfterHello(n, s, m, iface) ==
  LET v == [Hearing(n, s, m) EXCEPT !.known = @ \cup {m}]
  IN  IF v.dvt[m][m] = NoRoute
      THEN ComputeForwardingTable([v EXCEPT !.dvt[m][m] = Via(DirectRoute(m), iface)])
      ELSE [v EXCEPT !.dvt[m][m] = [@ EXCEPT !.hops = 1, !.next = m, !.iface = iface]]

LEMMA ProcessHelloView ==
  ASSUME NEW A, A \subseteq Address, NEW n, NEW s \in StatesVia(A), NEW m \in Remote, NEW a \in A
  PROVE  ProcessHello(n, View(s), m).s = View(AfterHello(n, s, m, a))
<1> DEFINE u == Hearing(n, s, m)
           known == u.known \cup {m}
           v == [u EXCEPT !.known = known]
           direct == Via(DirectRoute(m), a)
           x == [v EXCEPT !.dvt[m][m] = direct]
           old == [v.dvt[m][m] EXCEPT !.hops = 1, !.next = m, !.iface = a]
           y == [v EXCEPT !.dvt[m][m] = old]
           pu == Hearing(n, View(s), m)
           pv == [pu EXCEPT !.known = pu.known \cup {m}]
<1>1. m \in Node /\ m \in Dest
  BY RemoteNode
<1>2. /\ pu = View(u) /\ u \in StatesVia(A)
  BY NeighborUpdateView, NeighborUpdateFollows DEF Hearing
<1>3. AfterHello(n, s, m, a) = IF v.dvt[m][m] = NoRoute THEN ComputeForwardingTable(x) ELSE y
  BY DEF AfterHello
<1>4. ProcessHello(n, View(s), m).s =
        IF pv.dvt[m][m] = NoRoute
        THEN ComputeForwardingTable([pv EXCEPT !.dvt[m][m] = DirectRoute(m)])
        ELSE [pv EXCEPT !.dvt[m][m] = [pv.dvt[m][m] EXCEPT !.hops = 1, !.next = m]]
  BY DEF ProcessHello, Hearing
<1> HIDE DEF u, pu
<1>5. known \in SUBSET Remote /\ pu.known = u.known
  BY <1>2, ViewFields DEF StatesVia
<1>6. pv = [View(u) EXCEPT !.known = known]
  BY <1>2, <1>5
<1> HIDE DEF known, pv
<1>7. v \in StatesVia(A)
  BY <1>2, <1>5 DEF StatesVia
<1>8. pv = View(v)
  <2>1. View(v) = [View(u) EXCEPT !.known = known]
    BY <1>2 DEF View, StatesVia
  <2> QED BY <1>6, <2>1
<1> HIDE DEF v
<1>9. /\ v.dvt[m][m] \in RoutesVia(A) /\ pv.dvt[m][m] = Plain(v.dvt[m][m])
      /\ pv.dvt[m][m] = NoRoute <=> v.dvt[m][m] = NoRoute
  BY <1>1, <1>7, <1>8, ViewFields, PlainRoute
<1>10. CASE v.dvt[m][m] = NoRoute
  <2>1. DirectRoute(m) \in Entry
    BY <1>1 DEF DirectRoute, Entry, RouteState
  <2>2. direct \in EntriesVia(A) /\ Plain(direct) = DirectRoute(m)
    BY <2>1, PlainVia DEF EntriesVia
  <2> HIDE DEF direct
  <2>3. View(x) = [pv EXCEPT !.dvt[m][m] = DirectRoute(m)]
    BY <1>1, <1>7, <1>8, <2>2, RowView
  <2>4. x \in StatesVia(A)
    BY <1>1, <1>7, <2>2, RowVia
  <2> HIDE DEF x
  <2>5. ComputeForwardingTable(View(x)) = View(ComputeForwardingTable(x))
    BY <2>4, ComputeForwardingTableView
  <2> QED BY <1>3, <1>4, <1>9, <1>10, <2>3, <2>5
<1>11. CASE v.dvt[m][m] # NoRoute
  <2>1. v.dvt[m][m] \in EntriesVia(A)
    BY <1>9, <1>11 DEF RoutesVia
  <2> DEFINE rt == v.dvt[m][m]
  <2>2. Plain(old) = [Plain(rt) EXCEPT !.hops = 1, !.next = m]
    <3>1. rt \in EntriesVia(A) /\ old = [rt EXCEPT !.hops = 1, !.next = m, !.iface = a]
      BY <2>1
    <3> HIDE DEF rt, old
    <3>2. old \in EntriesVia(A) /\ Plain(old) = [hops |-> 1, next |-> m, state |-> Plain(rt).state]
      <4>1. rt \in IfaceEntry
        BY <3>1 DEF EntriesVia
      <4>2. old = [hops |-> 1, next |-> m, state |-> rt.state, iface |-> a]
        BY <3>1, <4>1 DEF IfaceEntry
      <4>3. rt.state \in RouteState
        BY <4>1 DEF IfaceEntry
      <4>4. old \in EntriesVia(A)
        BY <1>1, <4>2, <4>3 DEF EntriesVia, IfaceEntry
      <4>5. old # NoRoute /\ rt # NoRoute
        BY <3>1, <4>4, InactiveVia
      <4>6. Plain(old) = [hops |-> old.hops, next |-> old.next, state |-> old.state]
        BY <4>5 DEF Plain
      <4>7. Plain(rt).state = rt.state
        BY <3>1, <4>5, PlainRoute DEF RoutesVia
      <4> QED BY <4>2, <4>4, <4>6, <4>7
    <3> DEFINE p == Plain(rt)
               new == [p EXCEPT !.hops = 1, !.next = m]
    <3>3. p \in Entry
      BY <3>1, PlainRoute, InactiveVia DEF RoutesVia
    <3> HIDE DEF p
    <3>4. new = [p EXCEPT !.hops = 1, !.next = m]
      OBVIOUS
    <3> HIDE DEF new
    <3>5. new = [hops |-> 1, next |-> m, state |-> p.state]
      BY <3>3, <3>4 DEF Entry
    <3> QED BY <3>2, <3>5 DEF p, new
  <2> HIDE DEF old
  <2>3. View(y) = [pv EXCEPT !.dvt[m][m] = Plain(old)]
    BY <1>1, <1>7, <1>8, RowView
  <2> HIDE DEF y
  <2> QED BY <1>3, <1>4, <1>9, <1>11, <2>2, <2>3
<1> QED BY <1>10, <1>11

\* The route of an UPDATE, and the state in which ReceiveUpdate leaves the node with
\* the route rt.
AdvertisedRoute(m, hops, state, iface) ==
  [hops |-> HopCount(hops), next |-> m, state |-> state, iface |-> iface]

AfterUpdate(n, s, m, d, hops, rt) ==
  LET t == ComputeForwardingTable(UpdateDistanceVectorTable(s, m, d, rt))
  IN  IF rt.state = "INACTIVE" /\ d # m THEN RetransmitToNeighbor(n, t, m, d, hops).s ELSE t

LEMMA RecvUpdateView ==
  ASSUME NEW A, A \subseteq Address, NEW n, NEW s \in StatesVia(A), NEW m \in Remote, NEW a \in A,
         NEW d \in Dest, NEW hops, HopCount(hops) \in 0..255, NEW state \in RouteState, NEW rt,
         rt = AdvertisedRoute(m, hops, state, a)
  PROVE  RecvUpdate(n, View(s), m, d, hops, state).s = View(AfterUpdate(n, s, m, d, hops, rt))
<1> DEFINE plain == [hops |-> HopCount(hops), next |-> m, state |-> state]
           u == UpdateDistanceVectorTable(s, m, d, rt)
           t == ComputeForwardingTable(u)
           pt == ComputeForwardingTable(UpdateDistanceVectorTable(View(s), m, d, plain))
<1>1. plain \in Entry /\ rt = Via(plain, a) /\ rt.state = state
  BY RemoteNode DEF Entry, Via, AdvertisedRoute
<1>2. rt \in EntriesVia(A) /\ Plain(rt) = plain
  <2> HIDE DEF plain
  <2> QED BY <1>1, PlainVia DEF EntriesVia
<1>3. AfterUpdate(n, s, m, d, hops, rt) =
        IF state = "INACTIVE" /\ d # m THEN RetransmitToNeighbor(n, t, m, d, hops).s ELSE t
  BY <1>1 DEF AfterUpdate
<1>4. RecvUpdate(n, View(s), m, d, hops, state).s =
        IF state = "INACTIVE" /\ d # m THEN RetransmitToNeighbor(n, pt, m, d, hops).s ELSE pt
  BY DEF RecvUpdate
<1> HIDE DEF plain
<1>5. u \in StatesVia(A) /\ UpdateDistanceVectorTable(View(s), m, d, plain) = View(u)
  BY <1>2, UpdateDistanceVectorTableView, UpdateDistanceVectorTableVia DEF Follows
<1> HIDE DEF u
<1>6. t \in StatesVia(A) /\ pt = View(t)
  BY <1>5, ComputeForwardingTableView, ComputeForwardingTableVia DEF Follows
<1> HIDE DEF t, pt
<1>7. RetransmitToNeighbor(n, View(t), m, d, hops).s = View(RetransmitToNeighbor(n, t, m, d, hops).s)
  BY <1>6, RetransmitToNeighborView
<1> QED BY <1>3, <1>4, <1>6, <1>7

LEMMA WithBroadcastView ==
  ASSUME NEW A, NEW s \in StatesVia(A), NEW a \in Address
  PROVE  NotifyInterfaceUp(View(s)) = View(WithBroadcast(s, a))
<1> DEFINE rt == Via(DirectRoute(Bcast), a)
           new == IF s.ft[Bcast] = NoRoute THEN rt ELSE s.ft[Bcast]
           ft == [s.ft EXCEPT ![Bcast] = new]
           plain == IF View(s).ft[Bcast] = NoRoute THEN DirectRoute(Bcast) ELSE View(s).ft[Bcast]
           pft == [View(s).ft EXCEPT ![Bcast] = plain]
<1>1. Bcast \in Dest /\ s.ft \in [Dest -> RoutesVia(A)]
  BY DEF Dest, StatesVia
<1>2. Plain(rt) = DirectRoute(Bcast)
  <2>1. DirectRoute(Bcast) \in Entry
    BY <1>1 DEF DirectRoute, Entry, RouteState
  <2> QED BY <2>1, PlainVia
<1>3. /\ View(s).ft[Bcast] = Plain(s.ft[Bcast])
      /\ View(s).ft[Bcast] = NoRoute <=> s.ft[Bcast] = NoRoute
  BY <1>1, ViewFields, PlainRoute
<1>4. WithBroadcast(s, a) = [s EXCEPT !.up = TRUE, !.ft = ft]
  BY DEF WithBroadcast, StatesVia
<1>5. NotifyInterfaceUp(View(s)) = [View(s) EXCEPT !.up = TRUE, !.ft = pft]
  BY DEF NotifyInterfaceUp, View, StatesVia
<1> HIDE DEF rt
<1>6. plain = Plain(new)
  BY <1>2, <1>3
<1> HIDE DEF new, plain
<1>7. pft = PlainTable(ft)
  <2>1. View(s).ft = PlainTable(s.ft)
    BY ViewFields
  <2> QED BY <1>1, <1>6, <2>1 DEF PlainTable
<1> HIDE DEF ft, pft
<1>8. View([s EXCEPT !.up = TRUE, !.ft = ft]) = [View(s) EXCEPT !.up = TRUE, !.ft = PlainTable(ft)]
  BY DEF View, StatesVia
<1> QED BY <1>4, <1>5, <1>7, <1>8

\* The last socket is closed, with or without the routes through it deleted before.
LEMMA LastSocketView ==
  ASSUME NEW A, NEW s \in StatesVia(A), NEW a
  PROVE  /\ NotifyInterfaceDown(View(s)) = View(LastSocket(s))
         /\ LastSocket(DeleteAllRoutesFromInterface(s, a)) = LastSocket(s)
<1> DEFINE ft == [d \in Dest |-> NoRoute]
           rest == [d \in Dest |->
                      IF s.ft[d] # NoRoute /\ s.ft[d].iface = a THEN NoRoute ELSE s.ft[d]]
<1>1. ft = PlainTable(ft)
  BY DEF PlainTable, Plain
<1>2. \A x : LastSocket(x) =
               [x EXCEPT !.up = FALSE, !.htimer = FALSE, !.nb = << >>, !.expired = {}, !.ft = ft]
  BY DEF LastSocket, NotifyInterfaceDown
<1>3. NotifyInterfaceDown(View(s)) =
        [View(s) EXCEPT !.up = FALSE, !.htimer = FALSE, !.nb = << >>, !.expired = {}, !.ft = ft]
  BY DEF NotifyInterfaceDown
<1>4. DeleteAllRoutesFromInterface(s, a) = [s EXCEPT !.ft = rest]
  BY DEF DeleteAllRoutesFromInterface
<1> HIDE DEF ft, rest
<1>5. View([s EXCEPT !.up = FALSE, !.htimer = FALSE, !.nb = << >>, !.expired = {}, !.ft = ft]) =
      [View(s) EXCEPT !.up = FALSE, !.htimer = FALSE, !.nb = << >>, !.expired = {},
                      !.ft = PlainTable(ft)]
  BY DEF View, StatesVia
<1>6. NotifyInterfaceDown(View(s)) = View(LastSocket(s))
  BY <1>1, <1>2, <1>3, <1>5
<1>7. LastSocket([s EXCEPT !.ft = rest]) = LastSocket(s)
  BY <1>2 DEF StatesVia
<1> QED BY <1>4, <1>6, <1>7

\* A purge after a transmission error, and the two timers, which purge as well.
LEMMA NotifyTxErrorView ==
  ASSUME NEW A, NEW n, NEW s \in StatesVia(A), NEW m
  PROVE  NotifyTxError(n, View(s), m, TRUE).s = View(NotifyTxError(n, s, m, TRUE).s)
<1> DEFINE expired == s.expired \cup ({m} \cap Neighbors(s))
           t == [s EXCEPT !.expired = expired]
           v == View(s)
<1>1. NotifyTxError(n, s, m, TRUE) = Purge(n, t)
  BY DEF NotifyTxError
<1>2. NotifyTxError(n, v, m, TRUE) = Purge(n, [v EXCEPT !.expired = v.expired \cup ({m} \cap Neighbors(v))])
  BY DEF NotifyTxError
<1>3. v.expired = s.expired /\ Neighbors(v) = Neighbors(s)
  BY ViewFields
<1>4. [v EXCEPT !.expired = v.expired \cup ({m} \cap Neighbors(v))] = [v EXCEPT !.expired = expired]
  BY <1>3
<1>5. Neighbors(s) \subseteq Remote
  BY DEF StatesVia, Neighbors, Elems
<1>6. expired \in SUBSET Remote
  BY <1>5 DEF StatesVia
<1> HIDE DEF expired
<1>7. t \in StatesVia(A)
  BY <1>6 DEF StatesVia
<1>8. View(t) = [v EXCEPT !.expired = expired]
  BY DEF View, StatesVia
<1> HIDE DEF t, v
<1>9. Purge(n, View(t)).s = View(Purge(n, t).s)
  BY <1>7, PurgeView
<1> QED BY <1>1, <1>2, <1>4, <1>8, <1>9 DEF v

LEMMA TimersView ==
  ASSUME NEW A, NEW n, NEW s \in StatesVia(A)
  PROVE  /\ NTimerExpire(n, View(s)).s = View(NTimerExpire(n, s).s)
         /\ HelloTimerExpire(n, View(s), {}).s = View(HelloTimerExpire(n, s, {}).s)
<1> DEFINE t == [s EXCEPT !.ntimer = FALSE]
<1>1. t \in StatesVia(A)
  BY DEF StatesVia
<1>2. View(t) = [View(s) EXCEPT !.ntimer = FALSE]
  BY DEF View, StatesVia
<1>3. NTimerExpire(n, s) = Purge(n, t) /\ NTimerExpire(n, View(s)) = Purge(n, View(t))
  BY <1>2 DEF NTimerExpire
<1> HIDE DEF t
<1>4. NTimerExpire(n, View(s)).s = View(NTimerExpire(n, s).s)
  BY <1>1, <1>3, PurgeView
<1>5. \A x : HelloTimerExpire(n, x, {}).s = Purge(n, x).s
  BY DEF HelloTimerExpire
<1> QED BY <1>4, <1>5, PurgeView

-----------------------------------------------------------------------------
(* The instance NodeSpec(k) of BsdvrNode has a copy of every operator of   *)
(* BsdvrControlPlane that BsdvrNode uses.  Each lemma says of one operator *)
(* that the copy and the operator are the same.                            *)

(* Neighbours and queues. *)

\* Neighbors in NodeSpec(k).
LEMMA SameNeighbors ==
  ASSUME NEW k, NEW s
  PROVE  NodeSpec(k)!Neighbors(s) = Neighbors(s)
BY DEF NodeSpec!Neighbors, NodeSpec!Elems, Neighbors, Elems

\* Without in NodeSpec(k).
LEMMA SameWithout ==
  ASSUME NEW k, NEW q, NEW S
  PROVE  NodeSpec(k)!Without(q, S) = Without(q, S)
BY DEF NodeSpec!Without, Without

-----------------------------------------------------------------------------
(* Routes and tables. *)

\* ComputeRoute in NodeSpec(k).
LEMMA SameComputeRoute ==
  ASSUME NEW k, NEW s, NEW d
  PROVE  NodeSpec(k)!ComputeRoute(s, d) = ComputeRoute(s, d)
BY Zenon
DEF NodeSpec!ComputeRoute, NodeSpec!Visit, NodeSpec!RefreshForwardingTable,
    NodeSpec!isBetterRoute, NodeSpec!BSDVR_THRESHOLD, ComputeRoute, Visit,
    RefreshForwardingTable, isBetterRoute, BSDVR_THRESHOLD

\* ComputeForwardingTable in NodeSpec(k).
LEMMA SameComputeForwardingTable ==
  ASSUME NEW k, NEW s
  PROVE  NodeSpec(k)!ComputeForwardingTable(s) = ComputeForwardingTable(s)
BY SameComputeRoute
DEF NodeSpec!ComputeForwardingTable, NodeSpec!Dest, ComputeForwardingTable, Dest

\* RemoveFakeRoutes in NodeSpec(k).
LEMMA SameRemoveFakeRoutes ==
  ASSUME NEW k, NEW s, NEW m, NEW d, NEW rt
  PROVE  NodeSpec(k)!RemoveFakeRoutes(s, m, d, rt) = RemoveFakeRoutes(s, m, d, rt)
<1>1. NodeSpec(k)!FakeDsts(s, m, d, rt) = FakeDsts(s, m, d, rt)
  BY SameNeighbors DEF NodeSpec!FakeDsts, NodeSpec!Dest, FakeDsts, Dest
<1>2. \A i, c : NodeSpec(k)!Erased(s, i, c) = Erased(s, i, c)
  BY SameNeighbors DEF NodeSpec!Erased, Erased
<1> QED BY <1>1, <1>2 DEF NodeSpec!RemoveFakeRoutes, NodeSpec!Dest, RemoveFakeRoutes, Dest

\* UpdateDistanceVectorTable in NodeSpec(k).
LEMMA SameUpdateDistanceVectorTable ==
  ASSUME NEW k, NEW s, NEW m, NEW d, NEW rt
  PROVE  NodeSpec(k)!UpdateDistanceVectorTable(s, m, d, rt) =
         UpdateDistanceVectorTable(s, m, d, rt)
BY SameNeighbors, SameRemoveFakeRoutes
DEF NodeSpec!UpdateDistanceVectorTable, UpdateDistanceVectorTable

-----------------------------------------------------------------------------
(* Sending, link failure and the neighbour table. *)

\* SendTriggeredUpdateToNeighbor in NodeSpec(k).
LEMMA SameSendTriggeredUpdateToNeighbor ==
  ASSUME NEW k, NEW n, NEW s, NEW m
  PROVE  NodeSpec(k)!SendTriggeredUpdateToNeighbor(n, s, m) =
         SendTriggeredUpdateToNeighbor(n, s, m)
BY DEF NodeSpec!SendTriggeredUpdateToNeighbor, NodeSpec!SendUpdate, NodeSpec!Update,
       NodeSpec!Dest, SendTriggeredUpdateToNeighbor, SendUpdate, Update, Dest

\* Changes in NodeSpec(k).
LEMMA SameChanges ==
  ASSUME NEW k, NEW n, NEW s, NEW t
  PROVE  NodeSpec(k)!Changes(n, s, t) = Changes(n, s, t)
BY DEF NodeSpec!Changes, NodeSpec!Dest, Changes, Dest

\* SendTriggeredUpdateChangesToNeighbors in NodeSpec(k).
LEMMA SameSendTriggeredUpdateChangesToNeighbors ==
  ASSUME NEW k, NEW n, NEW s, NEW c, NEW nex
  PROVE  NodeSpec(k)!SendTriggeredUpdateChangesToNeighbors(n, s, c, nex) =
         SendTriggeredUpdateChangesToNeighbors(n, s, c, nex)
BY SameNeighbors
DEF NodeSpec!SendTriggeredUpdateChangesToNeighbors, NodeSpec!SendUpdate, NodeSpec!Update,
    SendTriggeredUpdateChangesToNeighbors, SendUpdate, Update

\* SendUpdateOnLinkFailure in NodeSpec(k).
LEMMA SameSendUpdateOnLinkFailure ==
  ASSUME NEW k, NEW n, NEW s, NEW m
  PROVE  NodeSpec(k)!SendUpdateOnLinkFailure(n, s, m) = SendUpdateOnLinkFailure(n, s, m)
BY SameUpdateDistanceVectorTable, SameComputeForwardingTable, SameChanges,
   SameSendTriggeredUpdateChangesToNeighbors
DEF NodeSpec!SendUpdateOnLinkFailure, SendUpdateOnLinkFailure

\* Purge in NodeSpec(k).
LEMMA SamePurge ==
  ASSUME NEW k, NEW n, NEW s
  PROVE  NodeSpec(k)!Purge(n, s) = Purge(n, s)
BY ZenonT(40), SameSendUpdateOnLinkFailure, SameWithout
DEF NodeSpec!Purge, Purge

\* NeighborUpdate in NodeSpec(k).
LEMMA SameNeighborUpdate ==
  ASSUME NEW k, NEW n, NEW s, NEW m
  PROVE  NodeSpec(k)!NeighborUpdate(n, s, m) = NeighborUpdate(n, s, m)
BY SameNeighbors, SamePurge
DEF NodeSpec!NeighborUpdate, NeighborUpdate

-----------------------------------------------------------------------------
(* Pending replies. *)

\* MayReply in NodeSpec(k).
LEMMA SameMayReply ==
  ASSUME NEW k, NEW s, NEW m, NEW d
  PROVE  NodeSpec(k)!MayReply(s, m, d) = MayReply(s, m, d)
BY SameNeighbors
DEF NodeSpec!MayReply, MayReply

\* Enqueue in NodeSpec(k).
LEMMA SameEnqueue ==
  ASSUME NEW k, NEW n, NEW s, NEW e
  PROVE  NodeSpec(k)!Enqueue(n, s, e) = Enqueue(n, s, e)
BY SameWithout, SameMayReply
DEF NodeSpec!Enqueue, NodeSpec!Elems, NodeSpec!MakeRoom, NodeSpec!SendUpdate,
    NodeSpec!Update, Enqueue, Elems, MakeRoom, SendUpdate, Update

\* RetransmitToNeighbor in NodeSpec(k).
LEMMA SameRetransmitToNeighbor ==
  ASSUME NEW k, NEW n, NEW s, NEW m, NEW d, NEW h
  PROVE  NodeSpec(k)!RetransmitToNeighbor(n, s, m, d, h) =
         RetransmitToNeighbor(n, s, m, d, h)
BY SameMayReply, SameEnqueue
DEF NodeSpec!RetransmitToNeighbor, NodeSpec!SendUpdate, NodeSpec!Update,
    RetransmitToNeighbor, SendUpdate, Update

-----------------------------------------------------------------------------
(* Handlers. *)

\* ProcessHello in NodeSpec(k).
LEMMA SameProcessHello ==
  ASSUME NEW k, NEW n, NEW s, NEW m
  PROVE  NodeSpec(k)!ProcessHello(n, s, m) = ProcessHello(n, s, m)
BY SameNeighborUpdate, SameComputeForwardingTable, SameSendTriggeredUpdateToNeighbor
DEF NodeSpec!ProcessHello, NodeSpec!DirectRoute, ProcessHello, DirectRoute

\* RecvUpdate in NodeSpec(k).
LEMMA SameRecvUpdate ==
  ASSUME NEW k, NEW n, NEW s, NEW m, NEW d, NEW h, NEW st
  PROVE  NodeSpec(k)!RecvUpdate(n, s, m, d, h, st) = RecvUpdate(n, s, m, d, h, st)
BY ZenonT(40), SameUpdateDistanceVectorTable, SameComputeForwardingTable, SameRetransmitToNeighbor,
   SameChanges, SameSendTriggeredUpdateChangesToNeighbors
DEF NodeSpec!RecvUpdate, NodeSpec!HopCount, RecvUpdate, HopCount

\* NTimerExpire in NodeSpec(k).
LEMMA SameNTimerExpire ==
  ASSUME NEW k, NEW n, NEW s
  PROVE  NodeSpec(k)!NTimerExpire(n, s) = NTimerExpire(n, s)
BY SamePurge
DEF NodeSpec!NTimerExpire, NTimerExpire

\* HelloTimerExpire in NodeSpec(k).
LEMMA SameHelloTimerExpire ==
  ASSUME NEW k, NEW n, NEW s, NEW r
  PROVE  NodeSpec(k)!HelloTimerExpire(n, s, r) = HelloTimerExpire(n, s, r)
BY SamePurge
DEF NodeSpec!HelloTimerExpire, NodeSpec!Hello, HelloTimerExpire, Hello

\* NotifyTxError in NodeSpec(k).
LEMMA SameNotifyTxError ==
  ASSUME NEW k, NEW n, NEW s, NEW m, NEW match
  PROVE  NodeSpec(k)!NotifyTxError(n, s, m, match) = NotifyTxError(n, s, m, match)
BY SameNeighbors, SamePurge
DEF NodeSpec!NotifyTxError, NotifyTxError

\* NotifyInterfaceDown in NodeSpec(k).
LEMMA SameNotifyInterfaceDown ==
  ASSUME NEW k, NEW s
  PROVE  NodeSpec(k)!NotifyInterfaceDown(s) = NotifyInterfaceDown(s)
BY DEF NodeSpec!NotifyInterfaceDown, NodeSpec!Dest, NotifyInterfaceDown, Dest

\* NotifyInterfaceUp in NodeSpec(k).
LEMMA SameNotifyInterfaceUp ==
  ASSUME NEW k, NEW s
  PROVE  NodeSpec(k)!NotifyInterfaceUp(s) = NotifyInterfaceUp(s)
BY DEF NodeSpec!NotifyInterfaceUp, NodeSpec!DirectRoute, NotifyInterfaceUp, DirectRoute

-----------------------------------------------------------------------------
(* A node with one address behaves as BsdvrNode. *)

\* What BsdvrNode calls self is m_mainAddress, its interface is up as long as there
\* is a socket, and its neighbours are not this node.
LEMMA OneAddress ==
  ASSUME IInv, NEW a \in Address, used = {a}
  PROVE  /\ main = a /\ node \in StatesVia({a}) /\ uni \subseteq {a}
         /\ NodeView = View(node) /\ NodeView.up = (uni # {})
         /\ Remote \subseteq NodeSpec(a)!Peer
<1>1. main = a /\ uni \subseteq {a} /\ node \in StatesVia({a}) /\ node.up = (uni # {})
  BY DEF IInv, SocketsInv, NodeInv
<1>2. NodeView = View(node) /\ View(node).up = node.up
  BY <1>1, NodeViewIsView, ViewFields
<1>3. Remote \subseteq NodeSpec(a)!Peer
  BY DEF Remote, NodeSpec!Peer
<1> QED BY <1>1, <1>2, <1>3

LEMMA NextView ==
  NodeView' = IF used' = {} THEN NotifyInterfaceUp(View(node')) ELSE View(node')
BY DEF NodeView, PlainNode, View, PlainTable, PlainTables, NotifyInterfaceUp, DirectRoute

LEMMA ReceiveHelloStep ==
  ASSUME IInv, NEW a \in Address, used = {a}, used' = {a}, NEW m \in Remote,
         NEW i \in Interface, ReceiveHello(m, i), NodeView' # NodeView
  PROVE  NodeSpec(a)!Next
<1> DEFINE iface == Head(addrs[i])
<1>1. PICK b \in uni : On[b] = i
  BY DEF ReceiveHello
<1>2. iface = a
  BY <1>1, OneAddress, SocketAddress
<1>3. node' # node
  BY NodeViewIsView, NextView
<1>4. node' = AfterHello(main, node, m, iface)
  BY <1>3 DEF ReceiveHello, Halt, Becomes, AfterHello, Hearing
<1> HIDE DEF iface
<1>5. NodeView' = ProcessHello(a, NodeView, m).s
  <2>1. node \in StatesVia({a}) /\ main = a /\ NodeView = View(node)
    BY OneAddress
  <2>2. ProcessHello(a, View(node), m).s = View(AfterHello(a, node, m, a))
    BY <2>1, ProcessHelloView
  <2> QED BY <1>2, <1>4, <2>1, <2>2, NextView
<1>6. NodeSpec(a)!ReceiveHello(m) /\ m \in NodeSpec(a)!Peer
  BY <1>1, <1>5, OneAddress, SameProcessHello DEF NodeSpec!ReceiveHello
<1> QED BY <1>6 DEF NodeSpec!Next, NodeSpec!OtherEvent

LEMMA ReceiveUpdateStep ==
  ASSUME IInv, NEW a \in Address, used = {a}, used' = {a}, NEW m \in Remote, NEW b \in Address,
         NEW hops \in HopCounts, NEW state \in RouteState, NEW d \in Dest \ {b, m},
         ReceiveUpdate(m, b, d, hops, state)
  PROVE  NodeSpec(a)!Next
<1> DEFINE rt == [hops |-> HopCount(hops), next |-> m, state |-> state,
                  iface |-> Head(addrs[On[b]])]
<1>1. b \in uni /\ b = a
  BY OneAddress DEF ReceiveUpdate
<1>2. Head(addrs[On[b]]) = a /\ b \in Elems(addrs[On[b]])
  BY <1>1, SocketAddress
<1>3. rt.state = state /\ rt = AdvertisedRoute(m, hops, state, a)
  BY <1>2 DEF AdvertisedRoute
<1>4. node' = AfterUpdate(main, node, m, d, hops, rt)
  BY <1>2, <1>3 DEF ReceiveUpdate, Becomes, AfterUpdate
<1> HIDE DEF rt
<1>5. HopCount(hops) \in 0..255
  BY HopCountsAssumption DEF HopCount
<1>6. NodeView' = RecvUpdate(a, NodeView, m, d, hops, state).s
  <2>1. node \in StatesVia({a}) /\ main = a /\ NodeView = View(node)
    BY OneAddress
  <2>2. RecvUpdate(a, View(node), m, d, hops, state).s =
        View(AfterUpdate(a, node, m, d, hops, rt))
    <3> DEFINE A == {a}
    <3>1. A \subseteq Address /\ a \in A /\ d \in Dest /\ node \in StatesVia(A)
      BY <2>1
    <3> HIDE DEF A
    <3> QED BY <1>3, <1>5, <3>1, RecvUpdateView
  <2> QED BY <1>4, <2>1, <2>2, NextView
<1>7. /\ NodeSpec(a)!ReceiveUpdate(m, d, hops, state) /\ m \in NodeSpec(a)!Peer
      /\ state \in NodeSpec(a)!RouteState /\ d \in NodeSpec(a)!Dest \ {a, m}
  BY <1>1, <1>6, OneAddress, SameRecvUpdate
     DEF NodeSpec!ReceiveUpdate, NodeSpec!RouteState, NodeSpec!Dest, RouteState, Dest
<1> QED BY <1>7 DEF NodeSpec!Next, NodeSpec!ReceiveSomeUpdate

LEMMA OtherEventStep ==
  ASSUME IInv, NEW a \in Address, used = {a}, used' = {a}, OtherEvent
  PROVE  NodeSpec(a)!Next
<1>1. NodeView = View(node) /\ node \in StatesVia({a}) /\ main = a
  BY OneAddress
<1>2. /\ Neighbors(NodeView) = Neighbors(node) /\ NodeView.expired = node.expired
      /\ NodeView.prq = node.prq /\ NodeView.late = node.late
      /\ NodeView.ntimer = node.ntimer /\ NodeView.htimer = node.htimer
  BY <1>1, ViewFields
<1>3. ASSUME NEW m \in Remote, NeighborExpires(m) PROVE NodeSpec(a)!Next
  <2> DEFINE expired == node.expired \cup {m}
  <2>1. m \in Neighbors(node) \ node.expired /\ node' = [node EXCEPT !.expired = expired]
    BY <1>3 DEF NeighborExpires, Becomes
  <2>2. View(node') = [View(node) EXCEPT !.expired = expired]
    <3> HIDE DEF expired
    <3> QED BY <1>1, <2>1 DEF View, StatesVia
  <2>3. NodeView' = [NodeView EXCEPT !.expired = NodeView.expired \cup {m}]
    BY <1>1, <1>2, <2>2, NextView
  <2>4. NodeSpec(a)!NeighborExpires(m) /\ m \in NodeSpec(a)!Peer
    BY <1>2, <2>1, <2>3, OneAddress, SameNeighbors DEF NodeSpec!NeighborExpires
  <2> QED BY <2>4 DEF NodeSpec!Next, NodeSpec!OtherEvent
<1>4. ASSUME NEW m \in Remote, TxError(m) PROVE NodeSpec(a)!Next
  <2>1. m \in Neighbors(node) /\ node' = NotifyTxError(a, node, m, TRUE).s
    BY <1>1, <1>4 DEF TxError, Becomes
  <2>2. NodeView' = NotifyTxError(a, NodeView, m, TRUE).s
    BY <1>1, <2>1, NextView, NotifyTxErrorView
  <2>3. NodeView.up
    <3>1. node.nb # << >>
      BY <2>1 DEF Neighbors, Elems
    <3> QED BY <3>1, OneAddress DEF IInv, NodeInv
  <2>4. NodeSpec(a)!TxError(m, TRUE) /\ m \in NodeSpec(a)!Peer
    BY <2>2, <2>3, OneAddress, SameNotifyTxError DEF NodeSpec!TxError
  <2> QED BY <2>4 DEF NodeSpec!Next, NodeSpec!OtherEvent
<1>5. ASSUME NEW e \in PendingReply, PendingReplyExpires(e) PROVE NodeSpec(a)!Next
  <2> DEFINE late == node.late \cup {e}
  <2>1. e \in Elems(node.prq) \ node.late /\ node' = [node EXCEPT !.late = late]
    BY <1>5 DEF PendingReplyExpires, Becomes
  <2>2. View(node') = [View(node) EXCEPT !.late = late]
    <3> HIDE DEF late
    <3> QED BY <1>1, <2>1 DEF View, StatesVia
  <2>3. NodeView' = [NodeView EXCEPT !.late = NodeView.late \cup {e}]
    BY <1>1, <1>2, <2>2, NextView
  <2>4. NodeSpec(a)!PendingReplyExpires(e)
    BY <1>2, <2>1, <2>3 DEF NodeSpec!PendingReplyExpires, NodeSpec!Elems, Elems
  <2>5. e \in NodeSpec(a)!PendingReply
    BY DEF NodeSpec!PendingReply, NodeSpec!Dest, PendingReply, Dest
  <2> QED BY <2>4, <2>5 DEF NodeSpec!Next, NodeSpec!OtherEvent
<1>6. CASE NTimer
  <2>1. node.ntimer /\ node' = NTimerExpire(a, node).s
    BY <1>1, <1>6 DEF NTimer, Becomes
  <2>2. NodeView' = NTimerExpire(a, NodeView).s
    BY <1>1, <2>1, NextView, TimersView
  <2>3. NodeSpec(a)!NTimer
    BY <1>2, <2>1, <2>2, SameNTimerExpire DEF NodeSpec!NTimer
  <2> QED BY <2>3 DEF NodeSpec!Next, NodeSpec!OtherEvent
<1>7. CASE HelloTimer
  <2>1. node.htimer /\ node' = HelloTimerExpire(a, node, {}).s
    BY <1>1, <1>7 DEF HelloTimer, Becomes
  <2>2. NodeView' = HelloTimerExpire(a, NodeView, {}).s
    BY <1>1, <2>1, NextView, TimersView
  <2>3. NodeSpec(a)!HelloTimer
    BY <1>2, <2>1, <2>2, SameHelloTimerExpire DEF NodeSpec!HelloTimer
  <2> QED BY <2>3 DEF NodeSpec!Next, NodeSpec!OtherEvent
<1> QED BY <1>3, <1>4, <1>5, <1>6, <1>7 DEF OtherEvent

\* The only address gets its sockets again: BsdvrNode's interface comes up.
LEMMA OpenedStep ==
  ASSUME IInv, NEW a \in Address, used = {a}, used' = {a}, uni = {},
         node' = WithBroadcast(node, a)
  PROVE  NodeSpec(a)!Next
<1>1. node \in StatesVia(used) /\ node.up = FALSE
  BY DEF IInv, NodeInv
<1>2. NodeView = View(node) /\ NodeView.up = FALSE
  BY <1>1, NodeViewIsView, ViewFields
<1>3. NodeView' = NotifyInterfaceUp(NodeView)
  <2>1. NotifyInterfaceUp(View(node)) = View(WithBroadcast(node, a))
    BY <1>1, WithBroadcastView
  <2> QED BY <1>2, <2>1, NextView
<1>4. NodeSpec(a)!InterfaceUp
  BY <1>2, <1>3, SameNotifyInterfaceUp DEF NodeSpec!InterfaceUp
<1> QED BY <1>4 DEF NodeSpec!Next, NodeSpec!InterfaceEvent

\* It loses them: BsdvrNode's interface goes down.
LEMMA ClosedStep ==
  ASSUME IInv, NEW a \in Address, used = {a}, used' = {a}, uni # {}, node' = LastSocket(node)
  PROVE  NodeSpec(a)!Next
<1>1. node \in StatesVia({a}) /\ NodeView = View(node) /\ NodeView.up
  BY OneAddress
<1>2. NodeView' = NotifyInterfaceDown(NodeView)
  <2>1. NotifyInterfaceDown(View(node)) = View(LastSocket(node))
    BY <1>1, LastSocketView
  <2> QED BY <1>1, <2>1, NextView
<1>3. NodeSpec(a)!InterfaceDown
  BY <1>1, <1>2, SameNotifyInterfaceDown DEF NodeSpec!InterfaceDown
<1> QED BY <1>3 DEF NodeSpec!Next, NodeSpec!InterfaceEvent

LEMMA InterfaceUpStep ==
  ASSUME IInv, NEW a \in Address, used = {a}, used' = {a}, NEW i \in Interface, InterfaceUp(i)
  PROVE  NodeSpec(a)!Next
<1>1. /\ i \notin up /\ addrs[i] # << >> /\ used' = used \cup {Head(addrs[i])}
      /\ node' = WithBroadcast(node, Head(addrs[i]))
  BY DEF InterfaceUp
<1>2. Head(addrs[i]) = a
  BY <1>1
<1>3. On[a] = i
  BY <1>1, <1>2, HeadOf DEF IInv, SocketsInv
<1>4. uni = {}
  <2>1. uni \subseteq {a}
    BY <1>2 DEF IInv, SocketsInv
  <2>2. a \notin uni
    BY <1>1, <1>3, SocketsOf DEF IInv
  <2> QED BY <2>1, <2>2
<1> QED BY <1>1, <1>2, <1>4, OpenedStep

LEMMA AddAddressStep ==
  ASSUME IInv, NEW a \in Address, used = {a}, used' = {a}, NEW b \in Address, AddAddress(b),
         NodeView' # NodeView
  PROVE  NodeSpec(a)!Next
<1>1. node' # node
  BY NodeViewIsView, NextView
<1>2. addrs[On[b]] = << >> /\ used' = used \cup {b} /\ node' = WithBroadcast(node, b)
  BY <1>1 DEF AddAddress
<1>3. b = a
  BY <1>2
<1>4. uni = {}
  <2>1. uni \subseteq {a} /\ On[a] \in Interface
    BY <1>3, OnAssumption DEF IInv, SocketsInv
  <2>2. a \notin uni
    BY <1>2, <1>3, <2>1, SocketsOf DEF IInv
  <2> QED BY <2>1, <2>2
<1> QED BY <1>2, <1>3, <1>4, OpenedStep

LEMMA InterfaceDownStep ==
  ASSUME IInv, NEW a \in Address, used = {a}, used' = {a}, NEW i \in Interface, InterfaceDown(i)
  PROVE  NodeSpec(a)!Next
<1> DEFINE b == Head(addrs[i])
<1>1. b \in uni /\ uni' = uni \ {b} /\ used' = used
  BY InterfaceDownSockets DEF IInv
<1>2. uni' = {} /\ uni # {}
  BY <1>1, OneAddress
<1>3. node' = LastSocket(node)
  BY <1>2 DEF InterfaceDown
<1> QED BY <1>1, <1>2, <1>3, ClosedStep

LEMMA RemoveAddressStep ==
  ASSUME IInv, NEW a \in Address, used = {a}, used' = {a}, NEW b \in Address, RemoveAddress(b),
         NodeView' # NodeView
  PROVE  NodeSpec(a)!Next
<1> DEFINE s == DeleteAllRoutesFromInterface(node, b)
<1>1. node' # node
  BY NodeViewIsView, NextView
<1>2. b \in uni /\ (Unaddressed(b, s) \/ \E h \in Address : Readdressed(b, h, s))
  BY <1>1, RemoveAddressSockets DEF IInv
<1>4. b = a
  BY <1>2 DEF IInv, SocketsInv
<1>5. Unaddressed(b, s)
  <2>1. \A h \in Address : ~Readdressed(b, h, s)
    BY <1>4 DEF Readdressed
  <2> QED BY <1>2, <2>1
<1>6. uni' = {} /\ node' = LastSocket(s)
  <2>1. uni' = {}
    BY <1>4, <1>5, OneAddress DEF Unaddressed
  <2> QED BY <1>5, <2>1 DEF Unaddressed
<1>7. node' = LastSocket(node)
  <2>1. node \in StatesVia({a})
    BY <1>4, OneAddress
  <2> QED BY <1>6, <2>1, LastSocketView
<1> QED BY <1>2, <1>4, <1>7, ClosedStep

\* Before the first socket is opened the tables are empty, and only timers run.  The
\* first socket is opened without BsdvrNode noticing it.
LEMMA FirstSocketStep ==
  ASSUME IInv, Next, NEW a \in Address, used = {}, used' \subseteq {a}, NodeView' # NodeView
  PROVE  NodeSpec(a)!Next
<1> DEFINE v == NotifyInterfaceUp(View(node))
<1>1. /\ uni = {} /\ node \in StatesVia({}) /\ node.nb = << >> /\ Neighbors(node) = {}
      /\ NodeView = v
  <2>1. uni = {} /\ node \in StatesVia({}) /\ node.nb = << >>
    BY DEF IInv, SocketsInv, NodeInv
  <2>2. Neighbors(node) = {}
    BY <2>1 DEF Neighbors, Elems
  <2> QED BY <2>1, <2>2, NodeViewIsView
<1>2. ~(node' = node /\ used' = used)
  BY NodeViewIsView, NextView
<1>3. \A b \in Address : ~(node' = WithBroadcast(node, b) /\ used' = used \cup {b})
  <2> SUFFICES ASSUME NEW b \in Address, node' = WithBroadcast(node, b), used' = used \cup {b}
               PROVE  FALSE
    OBVIOUS
  <2>1. NotifyInterfaceUp(View(node)) = View(WithBroadcast(node, b))
    BY <1>1, WithBroadcastView
  <2>2. NodeView' = View(WithBroadcast(node, b))
    BY NextView
  <2> QED BY <1>1, <2>1, <2>2
<1>4. CASE InterfaceEvent
  <2>1. ASSUME NEW i \in Interface, InterfaceUp(i) PROVE FALSE
    <3>1. addrs[i] \in Seq(Address) /\ addrs[i] # << >>
      BY <2>1 DEF IInv, SocketsInv, InterfaceUp
    <3>2. Head(addrs[i]) \in Address
      BY <3>1
    <3> QED BY <1>3, <2>1, <3>2 DEF InterfaceUp
  <2>2. ASSUME NEW i \in Interface, InterfaceDown(i) PROVE FALSE
    BY <1>1, <2>2, InterfaceDownSockets DEF IInv
  <2>3. ASSUME NEW b \in Address, AddAddress(b) PROVE FALSE
    BY <1>2, <1>3, <2>3 DEF AddAddress
  <2>4. ASSUME NEW b \in Address, RemoveAddress(b) PROVE FALSE
    BY <1>1, <1>2, <2>4 DEF RemoveAddress
  <2> QED BY <1>4, <2>1, <2>2, <2>3, <2>4 DEF InterfaceEvent
<1>5. CASE Message
  BY <1>1, <1>5 DEF Message, ReceiveHello, ReceiveUpdate
<1> HIDE DEF v
<1>6. /\ v.prq = node.prq /\ v.late = node.late /\ v.nb = << >>
      /\ v.ntimer = node.ntimer /\ v.htimer = node.htimer
  <2>1. /\ View(node).prq = node.prq /\ View(node).late = node.late /\ View(node).nb = << >>
        /\ View(node).ntimer = node.ntimer /\ View(node).htimer = node.htimer
    BY <1>1, ViewFields
  <2> QED BY <1>1, <2>1 DEF v, NotifyInterfaceUp, View, StatesVia
<1>7. ASSUME NEW e \in PendingReply, PendingReplyExpires(e) PROVE NodeSpec(a)!Next
  <2> DEFINE late == node.late \cup {e}
  <2>1. e \in Elems(node.prq) \ node.late /\ node' = [node EXCEPT !.late = late] /\ used' = {}
    BY <1>7 DEF PendingReplyExpires, Becomes
  <2>2. NotifyInterfaceUp(View(node')) = [v EXCEPT !.late = late]
    <3> HIDE DEF late
    <3> QED BY <1>1, <2>1 DEF v, NotifyInterfaceUp, View, StatesVia
  <2>3. NodeView' = [NodeView EXCEPT !.late = NodeView.late \cup {e}]
    BY <1>1, <1>6, <2>1, <2>2, NextView
  <2>4. NodeSpec(a)!PendingReplyExpires(e)
    BY <1>1, <1>6, <2>1, <2>3 DEF NodeSpec!PendingReplyExpires, NodeSpec!Elems, Elems
  <2>5. e \in NodeSpec(a)!PendingReply
    BY DEF NodeSpec!PendingReply, NodeSpec!Dest, PendingReply, Dest
  <2> QED BY <2>4, <2>5 DEF NodeSpec!Next, NodeSpec!OtherEvent
<1>8. CASE NTimer
  <2>1. node.ntimer /\ node' = [node EXCEPT !.ntimer = FALSE] /\ used' = {}
    <3>1. node' = Purge(main, [node EXCEPT !.ntimer = FALSE]).s
      BY <1>8 DEF NTimer, Becomes, NTimerExpire
    <3>2. [node EXCEPT !.ntimer = FALSE].nb = << >>
      BY <1>1 DEF StatesVia
    <3> QED BY <1>8, <3>1, <3>2 DEF NTimer, Becomes, Purge
  <2>2. NotifyInterfaceUp(View(node')) = [v EXCEPT !.ntimer = FALSE]
    BY <1>1, <2>1 DEF v, NotifyInterfaceUp, View, StatesVia
  <2>3. NTimerExpire(a, v).s = [v EXCEPT !.ntimer = FALSE]
    <3>1. [v EXCEPT !.ntimer = FALSE].nb = v.nb
      BY <1>1 DEF v, NotifyInterfaceUp, View, StatesVia
    <3> QED BY <1>6, <3>1 DEF NTimerExpire, Purge
  <2>4. NodeView' = NTimerExpire(a, NodeView).s
    BY <1>1, <2>1, <2>2, <2>3, NextView
  <2>5. NodeSpec(a)!NTimer
    BY <1>1, <1>6, <2>1, <2>4, SameNTimerExpire DEF NodeSpec!NTimer
  <2> QED BY <2>5 DEF NodeSpec!Next, NodeSpec!OtherEvent
<1>9. CASE HelloTimer
  <2>1. node' = node
    BY <1>1, <1>9 DEF HelloTimer, Becomes, HelloTimerExpire, Purge
  <2> QED BY <1>2, <1>9, <2>1 DEF HelloTimer, Becomes
<1>10. CASE OtherEvent
  BY <1>1, <1>7, <1>8, <1>9, <1>10 DEF OtherEvent, NeighborExpires, TxError
<1> QED BY <1>4, <1>5, <1>10 DEF Next

\* An address that had a socket keeps the mark of it.
LEMMA UsedGrows ==
  ASSUME IInv, Next
  PROVE  used \subseteq used'
<1>1. CASE InterfaceEvent
  BY <1>1 DEF InterfaceEvent, InterfaceUp, InterfaceDown, AddAddress, RemoveAddress
<1>2. CASE Message
  <2>1. ASSUME NEW m, NEW i, ReceiveHello(m, i) PROVE used' = used
    BY <2>1 DEF ReceiveHello, Halt, Becomes
  <2>2. ASSUME NEW m, NEW b, NEW d, NEW hops, NEW state, ReceiveUpdate(m, b, d, hops, state)
        PROVE  used' = used
    BY <2>2 DEF ReceiveUpdate, Halt, Becomes
  <2> QED BY <1>2, <2>1, <2>2 DEF Message
<1>3. CASE OtherEvent
  BY <1>3 DEF OtherEvent, NeighborExpires, TxError, PendingReplyExpires, NTimer, HelloTimer,
              Becomes
<1> QED BY <1>1, <1>2, <1>3 DEF Next

\* The whole step relation.
LEMMA NodeStep ==
  ASSUME IInv, Next, NEW a \in Address, used' \subseteq {a}, NodeView' # NodeView
  PROVE  NodeSpec(a)!Next
<1>1. CASE used = {}
  BY <1>1, FirstSocketStep
<1>2. CASE used # {}
  <2>1. used = {a} /\ used' = {a}
    BY <1>2, UsedGrows
  <2>2. CASE InterfaceEvent
    BY <2>1, <2>2, InterfaceUpStep, InterfaceDownStep, AddAddressStep, RemoveAddressStep
       DEF InterfaceEvent
  <2>3. CASE Message
    BY <2>1, <2>3, ReceiveHelloStep, ReceiveUpdateStep DEF Message
  <2>4. CASE OtherEvent
    BY <2>1, <2>4, OtherEventStep
  <2> QED BY <2>2, <2>3, <2>4 DEF Next
<1> QED BY <1>1, <1>2

\* A node that has had no socket is in BsdvrNode's initial state.
LEMMA NodeInit ==
  ASSUME Init, NEW a \in Address
  PROVE  NodeSpec(a)!Init
<1> DEFINE ft == [d \in Dest |-> NoRoute]
           dvt == [m \in Node |-> ft]
           new == [nb |-> << >>, expired |-> {}, ntimer |-> EnableHello, htimer |-> EnableHello,
                   ft |-> ft, known |-> {}, dvt |-> dvt, prq |-> << >>, late |-> {}, up |-> FALSE]
<1>1. InitialState = NotifyInterfaceUp(new) /\ node = new /\ used = {}
  BY DEF Init, InitialState, NotifyInterfaceUp
<1>2. ft = PlainTable(ft) /\ dvt = PlainTables(dvt)
  BY DEF PlainTable, PlainTables, Plain
<1> HIDE DEF ft, dvt
<1>3. View(new) = new
  <2>1. new.ft = ft /\ new.dvt = dvt
    OBVIOUS
  <2>2. View(new) = [new EXCEPT !.ft = PlainTable(ft), !.dvt = PlainTables(dvt)]
    BY <2>1 DEF View
  <2>3. View(new) = [new EXCEPT !.ft = ft, !.dvt = dvt]
    BY <1>2, <2>2
  <2> QED BY <2>3
<1>4. NodeView = InitialState
  BY <1>1, <1>3, NodeViewIsView
<1>5. NodeSpec(a)!InitialState = InitialState
  BY SameNotifyInterfaceUp DEF NodeSpec!InitialState, NodeSpec!Dest, InitialState, Dest
<1> QED BY <1>4, <1>5 DEF NodeSpec!Init

-----------------------------------------------------------------------------
(* The theorems. *)

LEMMA InitInv == Init => IInv
<1> SUFFICES ASSUME Init PROVE IInv
  OBVIOUS
<1>1. /\ main = NoAddress /\ up = {} /\ uni = {} /\ used = {} /\ halted = FALSE
      /\ addrs \in [Interface -> {<<a>> : a \in Address}]
      /\ \A i \in Interface : On[Head(addrs[i])] = i
      /\ sub = [live |-> [i \in Interface |-> NoAddress], deaf |-> [a \in Address |-> 0]]
  BY DEF Init
<1>2. ASSUME NEW i \in Interface
      PROVE  addrs[i] \in Seq(Address) /\ \A a \in Elems(addrs[i]) : On[a] = i
  <2>1. PICK a \in Address : addrs[i] = <<a>>
    BY <1>1
  <2>2. addrs[i] \in Seq(Address) /\ Elems(addrs[i]) = {a} /\ Head(addrs[i]) = a
    BY <2>1 DEF Elems
  <2> QED BY <1>1, <2>2
<1>3. addrs \in [Interface -> Seq(Address)]
  BY <1>1, <1>2
<1>4. sub \in SubnetSockets /\ \A i \in Interface : sub.live[i] = NoAddress
  BY <1>1 DEF SubnetSockets
<1>5. SocketsMatch
  BY <1>1 DEF SocketsMatch
<1>6. SocketsInv
  BY <1>1, <1>2, <1>3, <1>4, <1>5, FS_EmptySet DEF SocketsInv
<1> DEFINE ft == [d \in Dest |-> NoRoute]
           dvt == [m \in Node |-> [d \in Dest |-> NoRoute]]
<1>7. /\ ft \in [Dest -> RoutesVia({})] /\ dvt \in [Node -> [Dest -> RoutesVia({})]]
      /\ \A d \in Dest : ft[d] = NoRoute
      /\ << >> \in Seq(Remote) /\ << >> \in Seq(PendingReply)
  BY DEF RoutesVia
<1>8. node = [nb |-> << >>, expired |-> {}, ntimer |-> EnableHello, htimer |-> EnableHello,
              ft |-> ft, known |-> {}, dvt |-> dvt, prq |-> << >>, late |-> {}, up |-> FALSE]
  BY DEF Init, InitialState, NotifyInterfaceUp
<1> HIDE DEF ft, dvt
<1>9. NodeInv
  BY <1>1, <1>7, <1>8, EnableHelloAssumption DEF NodeInv, StatesVia
<1> QED BY <1>1, <1>6, <1>9 DEF IInv

LEMMA NextInv ==
  ASSUME IInv, [Next]_vars
  PROVE  IInv' /\ (RoutesLeave \/ UNCHANGED vars)
<1>1. CASE UNCHANGED vars
  <2>1. SocketsInv'
    BY <1>1, SocketsUnchanged DEF IInv, vars
  <2>2. NodeInv'
    BY <1>1 DEF IInv, NodeInv, vars, StatesVia, RoutesVia, EntriesVia
  <2> QED BY <1>1, <2>1, <2>2 DEF IInv, Alike, vars
<1>2. CASE InterfaceEvent
  BY <1>2, InterfaceUpInv, InterfaceDownInv, AddAddressInv, RemoveAddressInv DEF InterfaceEvent
<1>3. CASE Message
  BY <1>3, ReceiveHelloInv, ReceiveUpdateInv DEF Message
<1>4. CASE OtherEvent
  BY <1>4, NeighborExpiresInv, TxErrorInv, PendingReplyExpiresInv, TimersInv DEF OtherEvent
<1> QED BY <1>1, <1>2, <1>3, <1>4 DEF Next

\* The inductive invariant holds in every reachable state.
LEMMA AlwaysIInv == Spec => []IInv
<1>1. IInv /\ [Next]_vars => IInv'
  BY NextInv
<1> QED BY <1>1, InitInv, PTL DEF Spec

\* Of TypeOK, what could be wrong is the m_iface: every route and every row names
\* an address that RoutingProtocol opened a socket for at some time.
THEOREM TypeCorrect == Spec => []TypeOK
<1>1. ASSUME IInv PROVE TypeOK
  <2>1. node \in StatesVia(used)
    BY <1>1 DEF IInv, NodeInv
  <2>2. ASSUME NEW d \in Dest, NEW rt \in {node.ft[d]} \cup {node.dvt[m][d] : m \in Node}
        PROVE  rt \in IfaceEntry \cup {NoRoute} /\ (rt # NoRoute => rt.iface \in used)
    <3>1. rt \in RoutesVia(used)
      BY <2>1, <2>2 DEF StatesVia
    <3> QED BY <3>1 DEF RoutesVia, EntriesVia
  <2>3. node.nb \in Seq(Remote) /\ node.expired \subseteq Remote
    BY <2>1 DEF StatesVia
  <2> QED BY <1>1, <2>2, <2>3 DEF TypeOK, IInv, SocketsInv
<1> QED BY <1>1, AlwaysIInv, PTL

\* The sockets match the interfaces and their addresses whatever notifications come
\* in which order, so that neither assertion of NotifyInterfaceDown fails.
THEOREM SocketsDoMatch == Spec => []SocketsMatch
<1>1. IInv => SocketsMatch
  BY DEF IInv, SocketsInv
<1> QED BY <1>1, AlwaysIInv, PTL

\* A node that had sockets for one address only never misses a socket when it sends
\* an UPDATE, and never looks up an interface by an address that is gone.
THEOREM OneAddressDoesNotHalt == Spec => []OneAddressNeverHalts
<1>1. ASSUME IInv, Cardinality(used) <= 1
      PROVE  ~halted /\ \A d \in Dest : node.ft[d] # NoRoute => node.ft[d].iface \in uni
  <2>1. IsFiniteSet(used) /\ uni \subseteq used
    BY <1>1 DEF IInv, SocketsInv
  <2>2. ASSUME NEW a \in used, NEW b \in used PROVE a = b
    <3>1. Cardinality(used) \in Nat
      BY <2>1, FS_CardinalityType
    <3>2. IsFiniteSet(used \ {a}) /\ Cardinality(used \ {a}) = Cardinality(used) - 1
      BY <2>1, FS_RemoveElement
    <3>3. Cardinality(used \ {a}) \in Nat
      BY <3>2, FS_CardinalityType
    <3>4. Cardinality(used \ {a}) = 0
      BY <1>1, <3>1, <3>2, <3>3
    <3>5. used \ {a} = {}
      BY <3>2, <3>4, FS_EmptySet
    <3> QED BY <3>5
  <2>3. ~halted
    BY <1>1, <2>2 DEF IInv, Alike
  <2>4. ASSUME NEW d \in Dest, node.ft[d] # NoRoute PROVE node.ft[d].iface \in uni
    <3>1. node.ft[d].iface \in used
      BY <1>1, <2>4 DEF IInv, NodeInv, StatesVia, RoutesVia, EntriesVia
    <3>2. uni # {}
      BY <1>1, <2>4 DEF IInv, NodeInv
    <3> QED BY <2>1, <2>2, <3>1, <3>2
  <2> QED BY <2>3, <2>4
<1>2. IInv => OneAddressNeverHalts
  BY <1>1 DEF OneAddressNeverHalts
<1> QED BY <1>2, AlwaysIInv, PTL

\* Routes leave with the socket of their interface address, and only with it or
\* with the last socket.
THEOREM RoutesDoLeaveWithSocket == Spec => RoutesLeaveWithSocket
<1>1. IInv /\ [Next]_vars => [RoutesLeave]_vars
  BY NextInv
<1>2. Spec => [][RoutesLeave]_vars
  BY <1>1, AlwaysIInv, PTL DEF Spec
<1> QED BY <1>2 DEF RoutesLeaveWithSocket, RoutesLeave

\* As long as a node has had sockets for no address but a, it is a BsdvrNode, from its
\* initial state on.
THEOREM OneAddressDoesImplementNode == Spec => OneAddressImplementsNode
<1> DEFINE Implements ==
             \A a \in Address :
               used' \subseteq {a} /\ NodeView' # NodeView => NodeSpec(a)!Next
<1>1. IInv /\ [Next]_vars => [Implements]_vars
  BY NodeStep
<1>2. Spec => [][Implements]_vars
  BY <1>1, AlwaysIInv, PTL DEF Spec
<1>3. Init => \A a \in Address : NodeSpec(a)!Init
  BY NodeInit
<1>4. Spec => \A a \in Address : NodeSpec(a)!Init
  BY <1>3, PTL DEF Spec
<1> QED BY <1>2, <1>4 DEF OneAddressImplementsNode
=============================================================================
