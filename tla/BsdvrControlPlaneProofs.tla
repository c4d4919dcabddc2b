---------------------- MODULE BsdvrControlPlaneProofs ----------------------
(***************************************************************************)
(* What the handlers of BsdvrControlPlane preserve, and what they send.    *)
(***************************************************************************)
EXTENDS BsdvrControlPlane, RecursionLemmas

\* What holds of the tables of node n even in the middle of a handler.
Tables(n, s) ==
  /\ s \in NodeState
  /\ n \notin Neighbors(s)
  /\ Backed(s)
  /\ Owned(n, s)

\* t has a route to every destination that s has one to.
Keeps(s, t) == \A d \in Dest : s.ft[d] # NoRoute => t.ft[d] # NoRoute

\* t differs from s in its tables at most, and has the routes and tables of s.
OnlyTables(s, t) ==
  /\ t = [s EXCEPT !.ft = t.ft, !.dvt = t.dvt, !.known = t.known]
  /\ s.known \subseteq t.known
  /\ Keeps(s, t)

\* The UPDATEs that node n sends: never to itself, and about neither end.
Updates(n) ==
  {u \in [type : {"UPDATE"}, from : {n}, to : Node, dst : Dest,
          hops : 0..255, state : RouteState] : u.to # n /\ u.dst \notin {n, u.to}}

-----------------------------------------------------------------------------

\* A node is not its own neighbour.
LEMMA NeighborsNodes ==
  ASSUME NEW n, NEW s, Tables(n, s)
  PROVE  Neighbors(s) \subseteq Node \ {n}
<1>1. s.nb \in Seq(Node)
  BY DEF Tables, NodeState
<1> QED BY <1>1 DEF Tables, Neighbors, Elems

\* Tables holds of a state with the same tables, perhaps with an empty one more.
LEMMA SameTables ==
  ASSUME NEW n, NEW s, Tables(n, s), NEW t \in NodeState, n \notin Neighbors(t),
         t.ft = s.ft, t.dvt = s.dvt, s.known \subseteq t.known
  PROVE  Tables(n, t)
<1>1. Backed(t)
  BY DEF Tables, Backed
<1>2. Owned(n, t)
  BY DEF Tables, Owned
<1> QED BY <1>1, <1>2 DEF Tables

LEMMA OnlyTablesAgain ==
  ASSUME NEW s \in NodeState, NEW t, NEW u, OnlyTables(s, t), OnlyTables(t, u)
  PROVE  OnlyTables(s, u)
<1>1. t = [s EXCEPT !.ft = t.ft, !.dvt = t.dvt, !.known = t.known]
  BY DEF OnlyTables
<1>2. u = [[s EXCEPT !.ft = t.ft, !.dvt = t.dvt, !.known = t.known]
              EXCEPT !.ft = u.ft, !.dvt = u.dvt, !.known = u.known]
  BY <1>1 DEF OnlyTables
<1> QED BY <1>2 DEF OnlyTables, Keeps, NodeState

-----------------------------------------------------------------------------
(* The route computation. *)

\* The values that the route to d may have while ComputeForwardingTable runs.
RoutesTo(n, s, d) ==
  {rt \in Route : rt # NoRoute =>
     /\ d # n
     /\ \/ d = Bcast /\ rt.next = Bcast
        \/ rt.next \in s.known /\ s.dvt[rt.next][d] # NoRoute}

\* One turn of the loop over the neighbours stays among these values.
LEMMA VisitRoutes ==
  ASSUME NEW n \in Node, NEW s, Tables(n, s), NEW d \in Dest,
         NEW rt \in RoutesTo(n, s, d), NEW i \in Node
  PROVE  /\ Visit(s, d, rt, i) \in RoutesTo(n, s, d)
         /\ rt # NoRoute => Visit(s, d, rt, i) # NoRoute
<1> DEFINE new == s.dvt[i][d]
           curr == RefreshForwardingTable(s, d, rt)
<1>1. /\ s.dvt \in [Node -> [Dest -> Route]]
      /\ s.known \in SUBSET Node
      /\ Bcast \notin Node
  BY BcastAssumption DEF Tables, NodeState
<1>2. ASSUME NEW m \in s.known, s.dvt[m][d] # NoRoute
      PROVE  s.dvt[m][d] \in RoutesTo(n, s, d)
  BY <1>1, <1>2 DEF Tables, Owned, RoutesTo
<1>3. CASE i \notin s.known \/ new = NoRoute
  BY <1>3 DEF Visit
<1>4. CASE i \in s.known /\ new # NoRoute
  <2>1. new \in RoutesTo(n, s, d)
    BY <1>2, <1>4
  <2>2. ASSUME rt # NoRoute PROVE curr \in RoutesTo(n, s, d) /\ curr # NoRoute
    <3>1. CASE rt.next \in s.known /\ s.dvt[rt.next][d] # NoRoute
      BY <3>1, <1>2 DEF RefreshForwardingTable
    <3>2. CASE ~(rt.next \in s.known /\ s.dvt[rt.next][d] # NoRoute)
      <4>1. d = Bcast /\ rt.next = Bcast /\ d # n /\ rt \in Entry
        BY <2>2, <3>2 DEF RoutesTo, Route
      <4>2. curr = [rt EXCEPT !.state = "INACTIVE"]
        BY <4>1, <1>1 DEF RefreshForwardingTable
      <4>3. curr \in Entry /\ curr.next = Bcast
        BY <4>1, <4>2 DEF Entry, RouteState
      <4> QED BY <4>1, <4>3, NoRouteAssumption DEF RoutesTo, Route
    <3> QED BY <3>1, <3>2
  <2> HIDE DEF new, curr
  <2>3. Visit(s, d, rt, i) = IF rt = NoRoute \/ isBetterRoute(new, curr) THEN new ELSE curr
    BY <1>4 DEF Visit, new, curr
  <2> QED BY <1>4, <2>1, <2>2, <2>3 DEF new
<1> QED BY <1>3, <1>4

\* The values that the route to d takes in the loop over the neighbours, if a
\* turn of the loop does not leave a set S of routes.
LEMMA ComputeRouteRun ==
  ASSUME NEW s, NEW d, NEW S, s.ft[d] \in S, s.nb \in Seq(Node),
         \A x \in S, i \in Node : Visit(s, d, x, i) \in S
  PROVE  \E run :
           /\ \A k \in 0..Len(s.nb) : run[k] \in S
           /\ run[0] = s.ft[d] /\ ComputeRoute(s, d) = run[Len(s.nb)]
           /\ \A k \in 1..Len(s.nb) : run[k] = Visit(s, d, run[k-1], s.nb[k])
<1> DEFINE n == Len(s.nb)
           c == s.ft[d]
           G == [k \in 1..n |-> [x \in S |-> Visit(s, d, x, s.nb[k])]]
           F(g) == [k \in 0..n |-> IF k = 0 THEN c ELSE Visit(s, d, g[k-1], s.nb[k])]
           run == CHOOSE g : g = F(g)
<1>1. n \in Nat /\ c \in S /\ \A k \in 1..n : s.nb[k] \in Node
  OBVIOUS
<1>2. ComputeRoute(s, d) = run[n]
  BY DEF ComputeRoute
<1> HIDE DEF n, c
<1>3. G \in [1..n -> [S -> S]]
  BY <1>1
<1> HIDE DEF G
<1>4. PICK f : f \in Iterations(S, n, c, G)
  <2>1. Iterations(S, n, c, G) # {}
    BY <1>1, <1>3, IterationExists
  <2> QED BY <2>1
<1>5. f = F(f)
  <2>1. f \in [0..n -> S] /\ f[0] = c /\ \A k \in 1..n : f[k] = G[k][f[k-1]]
    BY <1>4 DEF Iterations
  <2>2. ASSUME NEW k \in 1..n PROVE f[k] = Visit(s, d, f[k-1], s.nb[k])
    <3>1. k-1 \in 0..n BY <1>1
    <3>2. f[k-1] \in S BY <3>1, <2>1
    <3>3. G[k][f[k-1]] = Visit(s, d, f[k-1], s.nb[k])
      BY <3>2 DEF G
    <3> QED BY <3>3, <2>1
  <2>3. ASSUME NEW k \in 0..n PROVE k # 0 => k \in 1..n BY <1>1
  <2>4. ASSUME NEW k \in 0..n PROVE f[k] = F(f)[k]
    BY <2>1, <2>2, <2>3
  <2> QED BY <2>1, <2>4
<1> HIDE DEF F
<1>6. run = F(run)
  BY <1>5
<1> HIDE DEF run
<1>7. run[0] = c /\ \A k \in 1..n : run[k] = Visit(s, d, run[k-1], s.nb[k])
  BY <1>1, <1>6 DEF F
<1> DEFINE T == [k \in 0..n |-> S]
<1>8. T[0] = S /\ T[n] = S /\ \A k \in 1..n : T[k] = S /\ T[k-1] = S
  BY <1>1
<1> HIDE DEF T
<1>9. run[0] \in T[0] /\ \A k \in 1..n : run[k-1] \in T[k-1] => run[k] \in T[k]
  BY <1>1, <1>7, <1>8
<1>10. \A k \in 0..n : run[k] \in T[k]
  BY <1>1, <1>9, Invariance
<1>11. \A k \in 0..n : run[k] \in S
  BY <1>10 DEF T
<1> QED BY <1>1, <1>2, <1>7, <1>11 DEF n, c

\* A loop that stays in a set S ends in it.
LEMMA ComputeRouteIn ==
  ASSUME NEW s, NEW d, NEW S, s.ft[d] \in S, s.nb \in Seq(Node),
         \A x \in S, i \in Node : Visit(s, d, x, i) \in S
  PROVE  ComputeRoute(s, d) \in S
<1>1. Len(s.nb) \in Nat
  OBVIOUS
<1> QED BY <1>1, ComputeRouteRun

\* ComputeForwardingTable changes the forwarding table only, and keeps it
\* backed and without a route to the node itself.
LEMMA ComputeForwardingTableTables ==
  ASSUME NEW n \in Node, NEW s, Tables(n, s)
  PROVE  LET t == ComputeForwardingTable(s)
         IN  /\ Tables(n, t) /\ OnlyTables(s, t)
             /\ t.dvt = s.dvt /\ t.known = s.known
<1> DEFINE ft == [d \in Dest |-> ComputeRoute(s, d)]
           t == ComputeForwardingTable(s)
<1>1. s \in NodeState /\ s.nb \in Seq(Node)
  BY DEF Tables, NodeState
<1>2. t = [s EXCEPT !.ft = ft] /\ t.ft = ft
  BY <1>1 DEF ComputeForwardingTable, NodeState
<1>3. ASSUME NEW d \in Dest PROVE ft[d] \in RoutesTo(n, s, d)
  <2>1. s.ft[d] \in RoutesTo(n, s, d)
    BY <1>1 DEF RoutesTo, Tables, Backed, Owned, NodeState
  <2>2. \A x \in RoutesTo(n, s, d), i \in Node : Visit(s, d, x, i) \in RoutesTo(n, s, d)
    BY VisitRoutes
  <2>3. ComputeRoute(s, d) \in RoutesTo(n, s, d)
    BY <2>1, <2>2, <1>1, ComputeRouteIn
  <2> QED BY <2>3
<1>4. ASSUME NEW d \in Dest, s.ft[d] # NoRoute PROVE ft[d] # NoRoute
  <2> DEFINE S == RoutesTo(n, s, d) \ {NoRoute}
  <2>1. s.ft[d] \in S
    BY <1>1, <1>4 DEF RoutesTo, Tables, Backed, Owned, NodeState
  <2>2. \A x \in S, i \in Node : Visit(s, d, x, i) \in S
    BY VisitRoutes
  <2>3. ComputeRoute(s, d) \in S
    <3> HIDE DEF S
    <3> QED BY <2>1, <2>2, <1>1, ComputeRouteIn
  <2> QED BY <2>3
<1> HIDE DEF ft, t
<1>5. ft \in [Dest -> Route]
  BY <1>3 DEF RoutesTo, ft
<1>6. t \in NodeState
  BY <1>1, <1>2, <1>5 DEF NodeState
<1>7. t.known = s.known /\ t.dvt = s.dvt /\ t.nb = s.nb
  BY <1>1, <1>2 DEF NodeState
<1>8. Backed(t)
  BY <1>2, <1>3, <1>7 DEF Backed, RoutesTo
<1>9. t.ft[n] = NoRoute
  BY <1>2, <1>3 DEF RoutesTo, Dest
<1>10. Owned(n, t)
  BY <1>7, <1>9 DEF Owned, Tables
<1>11. OnlyTables(s, t)
  BY <1>1, <1>2, <1>4, <1>7 DEF OnlyTables, Keeps, NodeState
<1> QED BY <1>6, <1>7, <1>8, <1>10, <1>11 DEF Tables, Neighbors, t

\* x, the route installed for d, agrees with its next hop's row and stands up
\* to i's row, if i has one.
Settled(s, d, i, x) ==
  i \in s.known /\ s.dvt[i][d] # NoRoute =>
    /\ x # NoRoute /\ x = RefreshForwardingTable(s, d, x)
    /\ ~isBetterRoute(s.dvt[i][d], x)

\* No route beats itself, and what a better route replaced stays beaten: the
\* comparison has no cycles, whatever its direction.
LEMMA BetterRouteOrder ==
  ASSUME NEW x \in Entry
  PROVE  /\ ~isBetterRoute(x, x)
         /\ \A y, z \in Entry : isBetterRoute(y, x) /\ ~isBetterRoute(z, x) => ~isBetterRoute(z, y)
<1>1. x.hops \in Int /\ x.state \in RouteState
  BY DEF Entry
<1>2. ASSUME NEW y \in Entry, NEW z \in Entry, isBetterRoute(y, x), ~isBetterRoute(z, x)
      PROVE  ~isBetterRoute(z, y)
  <2>1. /\ y.hops \in Int /\ y.state \in RouteState
        /\ z.hops \in Int /\ z.state \in RouteState
    BY DEF Entry
  <2> QED BY <1>1, <1>2, <2>1 DEF isBetterRoute, RouteState, BSDVR_THRESHOLD
<1> QED BY <1>1, <1>2 DEF isBetterRoute, RouteState, BSDVR_THRESHOLD

\* Visiting i settles the route with respect to i, and unsettles it for nobody.
LEMMA VisitSettles ==
  ASSUME NEW n \in Node, NEW s, Tables(n, s), NEW d \in Dest,
         NEW rt \in RoutesTo(n, s, d), NEW i \in Node
  PROVE  LET x == Visit(s, d, rt, i)
         IN  /\ Settled(s, d, i, x)
             /\ \A j \in Node : Settled(s, d, j, rt) => Settled(s, d, j, x)
<1> DEFINE x == Visit(s, d, rt, i)
           new == s.dvt[i][d]
           curr == RefreshForwardingTable(s, d, rt)
<1>1. s.dvt \in [Node -> [Dest -> Route]] /\ s.known \in SUBSET Node
  BY DEF Tables, NodeState
<1>2. \A j \in Node : s.dvt[j][d] # NoRoute => s.dvt[j][d] \in Entry /\ s.dvt[j][d].next = j
  BY <1>1 DEF Tables, Owned, Route
<1>3. ASSUME NEW y \in Entry
      PROVE  LET z == RefreshForwardingTable(s, d, y)
             IN  z \in Entry /\ z = RefreshForwardingTable(s, d, z)
  <2> DEFINE z == RefreshForwardingTable(s, d, y)
  <2>1. CASE y.next \in s.known /\ s.dvt[y.next][d] # NoRoute
    <3>1. z = s.dvt[y.next][d] /\ z \in Entry /\ z.next = y.next
      BY <1>1, <1>2, <2>1 DEF RefreshForwardingTable
    <3> QED BY <2>1, <3>1 DEF RefreshForwardingTable
  <2>2. CASE y.next \in s.known /\ s.dvt[y.next][d] = NoRoute
    <3>1. z = y
      BY <2>2 DEF RefreshForwardingTable
    <3> QED BY <3>1
  <2>3. CASE y.next \notin s.known
    <3>1. z = [y EXCEPT !.state = "INACTIVE"]
      BY <2>3 DEF RefreshForwardingTable
    <3>2. z \in Entry /\ z.next = y.next /\ [z EXCEPT !.state = "INACTIVE"] = z
      BY <3>1 DEF Entry, RouteState
    <3> HIDE DEF z
    <3>3. z = RefreshForwardingTable(s, d, z)
      BY <2>3, <3>2 DEF RefreshForwardingTable
    <3> QED BY <3>2, <3>3 DEF z
  <2> QED BY <2>1, <2>2, <2>3
<1>4. CASE i \notin s.known \/ new = NoRoute
  <2>1. x = rt
    BY <1>4 DEF Visit
  <2> HIDE DEF x
  <2> QED BY <1>4, <2>1 DEF Settled, x
<1>5. CASE i \in s.known /\ new # NoRoute
  <2>1. new \in Entry /\ new = RefreshForwardingTable(s, d, new)
    BY <1>2, <1>5 DEF RefreshForwardingTable
  <2>2. ~isBetterRoute(new, new)
    BY <2>1, BetterRouteOrder
  <2>3. x = IF rt = NoRoute \/ isBetterRoute(new, curr) THEN new ELSE curr
    BY <1>5 DEF Visit
  <2> HIDE DEF x, new, curr
  <2>4. CASE rt = NoRoute
    <3>1. x = new
      BY <2>3, <2>4
    <3>2. Settled(s, d, i, new)
      BY <2>1, <2>2, NoRouteAssumption DEF Settled, new
    <3>3. \A j \in Node : Settled(s, d, j, rt) => Settled(s, d, j, new)
      BY <2>4 DEF Settled
    <3> QED BY <3>1, <3>2, <3>3 DEF x
  <2>5. CASE rt # NoRoute
    <3>1. rt \in Entry
      BY <2>5 DEF RoutesTo, Route
    <3>2. curr \in Entry /\ curr = RefreshForwardingTable(s, d, curr)
      BY <1>3, <3>1 DEF curr
    <3>3. x \in Entry /\ x # NoRoute /\ x = RefreshForwardingTable(s, d, x)
      BY <2>1, <2>3, <3>2, NoRouteAssumption
    <3>4. ~isBetterRoute(new, x)
      BY <2>2, <2>3, <2>5
    <3>5. ASSUME NEW j \in Node, Settled(s, d, j, rt),
                 j \in s.known, s.dvt[j][d] # NoRoute
          PROVE  ~isBetterRoute(s.dvt[j][d], x)
      <4>1. rt = curr /\ ~isBetterRoute(s.dvt[j][d], curr) /\ s.dvt[j][d] \in Entry
        BY <1>2, <3>5 DEF Settled, curr
      <4>2. CASE isBetterRoute(new, curr)
        BY <2>1, <2>3, <3>2, <4>1, <4>2, BetterRouteOrder
      <4>3. CASE ~isBetterRoute(new, curr)
        BY <2>3, <2>5, <4>1, <4>3
      <4> QED BY <4>2, <4>3
    <3>6. Settled(s, d, i, x)
      BY <3>3, <3>4 DEF Settled, new
    <3>7. \A j \in Node : Settled(s, d, j, rt) => Settled(s, d, j, x)
      BY <3>3, <3>5 DEF Settled
    <3> QED BY <3>6, <3>7 DEF x
  <2> QED BY <2>4, <2>5
<1> QED BY <1>4, <1>5

\* After the loop the route is settled with respect to every neighbour.
LEMMA ComputeRouteSettles ==
  ASSUME NEW n \in Node, NEW s, Tables(n, s), NEW d \in Dest, NEW m \in Neighbors(s)
  PROVE  Settled(s, d, m, ComputeRoute(s, d))
<1> DEFINE S == RoutesTo(n, s, d)
           L == Len(s.nb)
<1>1. s \in NodeState /\ s.nb \in Seq(Node) /\ L \in Nat /\ \A k \in 1..L : s.nb[k] \in Node
  BY DEF Tables, NodeState
<1>2. s.ft[d] \in S
  BY <1>1 DEF RoutesTo, Tables, Backed, Owned, NodeState
<1>3. \A x \in S, i \in Node : Visit(s, d, x, i) \in S
  BY VisitRoutes
<1> HIDE DEF S
<1>4. PICK run :
        /\ \A k \in 0..L : run[k] \in S
        /\ run[0] = s.ft[d] /\ ComputeRoute(s, d) = run[L]
        /\ \A k \in 1..L : run[k] = Visit(s, d, run[k-1], s.nb[k])
  BY <1>1, <1>2, <1>3, ComputeRouteRun
<1> HIDE DEF L
<1> DEFINE W(k) == {x \in S : \A j \in 1..k : Settled(s, d, s.nb[j], x)}
           T == [k \in 0..L |-> W(k)]
<1>5. run[0] \in T[0]
  BY <1>1, <1>4
<1>6. ASSUME NEW k \in 1..L, run[k-1] \in T[k-1] PROVE run[k] \in T[k]
  <2>1. k-1 \in 0..L /\ k \in 0..L /\ T[k] = W(k) /\ T[k-1] = W(k-1)
    BY <1>1
  <2>2. /\ run[k-1] \in S /\ run[k] \in S /\ s.nb[k] \in Node
        /\ run[k] = Visit(s, d, run[k-1], s.nb[k])
        /\ \A j \in 1..(k-1) : Settled(s, d, s.nb[j], run[k-1]) /\ s.nb[j] \in Node
    BY <1>1, <1>4, <1>6, <2>1
  <2>3. /\ Settled(s, d, s.nb[k], run[k])
        /\ \A j \in Node : Settled(s, d, j, run[k-1]) => Settled(s, d, j, run[k])
    BY <2>2, VisitSettles DEF S
  <2>4. ASSUME NEW j \in 1..k PROVE Settled(s, d, s.nb[j], run[k])
    <3>1. j = k \/ j \in 1..(k-1)
      BY <1>1
    <3> QED BY <2>2, <2>3, <3>1
  <2>5. run[k] \in W(k)
    BY <2>2, <2>4
  <2> QED BY <2>1, <2>5
<1>7. \A k \in 0..L : run[k] \in T[k]
  <2> HIDE DEF T
  <2> QED BY <1>1, <1>5, <1>6, Invariance
<1>8. \A j \in 1..L : Settled(s, d, s.nb[j], run[L])
  BY <1>1, <1>7
<1>9. PICK j \in 1..L : m = s.nb[j]
  BY DEF Neighbors, Elems, L
<1> QED BY <1>4, <1>8, <1>9

-----------------------------------------------------------------------------
(* The distance vector table. *)

\* RemoveFakeRoutes takes rows away, and never the row under a route.
LEMMA RemoveFakeRoutesTables ==
  ASSUME NEW n \in Node, NEW s, Tables(n, s), NEW m, NEW d, NEW rt
  PROVE  LET t == RemoveFakeRoutes(s, m, d, rt)
         IN  Tables(n, t) /\ t = [s EXCEPT !.dvt = t.dvt]
<1> DEFINE t == RemoveFakeRoutes(s, m, d, rt)
           fake == FakeDsts(s, m, d, rt)
           dvt == [i \in Node |-> [c \in Dest |->
                     IF c \in fake /\ Erased(s, i, c) THEN NoRoute ELSE s.dvt[i][c]]]
<1>1. s \in NodeState /\ s.dvt \in [Node -> [Dest -> Route]]
  BY DEF Tables, NodeState
<1>2. t = [s EXCEPT !.dvt = dvt]
  BY DEF RemoveFakeRoutes
<1>3. \A i \in Node, c \in Dest :
        /\ dvt[i][c] \in {s.dvt[i][c], NoRoute}
        /\ i = s.ft[c].next => dvt[i][c] = s.dvt[i][c]
  BY DEF Erased
<1>4. dvt \in [Node -> [Dest -> Route]]
  BY <1>1 DEF Route
<1> HIDE DEF dvt, t
<1>5. /\ t \in NodeState /\ t.dvt = dvt
      /\ t.nb = s.nb /\ t.ft = s.ft /\ t.known = s.known
  BY <1>1, <1>2, <1>4 DEF NodeState
<1>6. Backed(t)
  <2>1. ASSUME NEW c \in Dest, s.ft[c] # NoRoute, s.ft[c].next \in s.known,
               s.dvt[s.ft[c].next][c] # NoRoute
        PROVE  dvt[s.ft[c].next][c] # NoRoute
    BY <1>1, <1>3, <2>1 DEF NodeState
  <2> QED BY <2>1, <1>5 DEF Backed, Tables
<1>7. Owned(n, t)
  BY <1>3, <1>5 DEF Owned, Tables
<1> QED BY <1>2, <1>5, <1>6, <1>7 DEF Tables, Neighbors, t

\* UpdateDistanceVectorTable keeps the tables if the new row leads to its owner,
\* is not about n, and is not about its owner unless it will not be stored.
LEMMA UpdateDistanceVectorTableTables ==
  ASSUME NEW n \in Node, NEW s, Tables(n, s), NEW m \in Node \ {n}, NEW d \in Dest \ {n},
         NEW rt \in Entry, rt.next = m,
         d = m => m \in Neighbors(s) /\ m \in s.known
  PROVE  LET u == UpdateDistanceVectorTable(s, m, d, rt)
         IN  Tables(n, u) /\ OnlyTables(s, u)
<1> DEFINE t == IF s.ft[d] # NoRoute THEN RemoveFakeRoutes(s, m, d, rt) ELSE s
           u == UpdateDistanceVectorTable(s, m, d, rt)
           new == [t EXCEPT !.known = @ \cup {m}, !.dvt[m][d] = rt]
<1>1. s \in NodeState
  BY DEF Tables
<1>2. Tables(n, t) /\ t = [s EXCEPT !.dvt = t.dvt]
  BY <1>1, RemoveFakeRoutesTables DEF NodeState
<1>3. u = IF m \in Neighbors(s) /\ m \in s.known THEN t ELSE new
  BY DEF UpdateDistanceVectorTable
<1> HIDE DEF t, u
<1>4. /\ t \in NodeState /\ t.nb = s.nb /\ t.known = s.known /\ t.ft = s.ft
      /\ t.dvt \in [Node -> [Dest -> Route]]
  BY <1>1, <1>2 DEF NodeState, Tables
<1>5. CASE m \in Neighbors(s) /\ m \in s.known
  <2>1. u = t /\ u.known = s.known
    BY <1>3, <1>4, <1>5
  <2>2. OnlyTables(s, u)
    BY <2>1, <1>1, <1>2, <1>4 DEF NodeState, OnlyTables, Keeps
  <2> QED BY <2>1, <2>2, <1>2 DEF u
<1>6. CASE ~(m \in Neighbors(s) /\ m \in s.known)
  <2>1. d # m
    BY <1>6
  <2> DEFINE dvt == [t.dvt EXCEPT ![m][d] = rt]
  <2>2. dvt \in [Node -> [Dest -> Route]]
    BY <1>4 DEF Route
  <2>3. \A i \in Node, c \in Dest :
          dvt[i][c] = IF i = m /\ c = d THEN rt ELSE t.dvt[i][c]
    BY <1>4
  <2>4. u = [t EXCEPT !.known = @ \cup {m}, !.dvt = dvt]
    BY <1>3, <1>6
  <2> HIDE DEF dvt
  <2>5. /\ u \in NodeState /\ u.dvt = dvt /\ u.known = t.known \cup {m}
        /\ u.nb = t.nb /\ u.ft = t.ft
    BY <1>4, <2>2, <2>4 DEF NodeState
  <2>6. rt # NoRoute
    BY NoRouteAssumption
  <2>7. Backed(u)
    <3>1. ASSUME NEW c \in Dest, u.ft[c] # NoRoute
          PROVE  \/ c = Bcast /\ u.ft[c].next = Bcast
                 \/ u.ft[c].next \in u.known /\ u.dvt[u.ft[c].next][c] # NoRoute
      <4>1. CASE c = Bcast /\ t.ft[c].next = Bcast
        BY <4>1, <2>5
      <4>2. CASE t.ft[c].next \in t.known /\ t.dvt[t.ft[c].next][c] # NoRoute
        <5>1. t.ft[c].next \in Node
          BY <4>2, <1>4 DEF NodeState
        <5> QED BY <5>1, <4>2, <2>3, <2>5, <2>6
      <4> QED BY <4>1, <4>2, <3>1, <1>2, <2>5 DEF Tables, Backed
    <3> QED BY <3>1 DEF Backed
  <2>8. Owned(n, u)
    <3>1. u.ft[n] = NoRoute
      BY <1>2, <2>5 DEF Tables, Owned
    <3>2. ASSUME NEW i \in Node, NEW c \in Dest, u.dvt[i][c] # NoRoute
          PROVE  /\ u.dvt[i][c].next = i /\ i \in u.known \ {n} /\ c # n
                 /\ c = i => u.dvt[i][c] = DirectRoute(i)
      <4>1. CASE i = m /\ c = d
        BY <4>1, <2>1, <2>3, <2>5
      <4>2. CASE ~(i = m /\ c = d)
        <5>1. u.dvt[i][c] = t.dvt[i][c]
          BY <4>2, <2>3, <2>5
        <5> QED BY <5>1, <3>2, <1>2, <2>5 DEF Tables, Owned
      <4> QED BY <4>1, <4>2
    <3> QED BY <3>1, <3>2 DEF Owned
  <2>9. n \notin Neighbors(u)
    BY <1>2, <2>5 DEF Tables, Neighbors
  <2>10. OnlyTables(s, u)
    <3>1. t = [s EXCEPT !.dvt = t.dvt]
      BY <1>2
    <3>2. u = [[s EXCEPT !.dvt = t.dvt] EXCEPT !.known = u.known, !.dvt = u.dvt]
      BY <3>1, <2>4, <2>5
    <3> QED BY <3>2, <1>1, <1>4, <2>5 DEF NodeState, OnlyTables, Keeps
  <2> QED BY <2>5, <2>7, <2>8, <2>9, <2>10 DEF Tables, u
<1> QED BY <1>5, <1>6 DEF u

-----------------------------------------------------------------------------
(* Sending. *)

\* An UPDATE about an installed route is one of n's, if it is about neither end.
LEMMA SendUpdateUpdates ==
  ASSUME NEW n \in Node, NEW s, Tables(n, s), NEW m \in Node \ {n}, NEW d \in Dest \ {n, m},
         s.ft[d] # NoRoute
  PROVE  SendUpdate(n, s, d, m) \in Updates(n)
<1>1. s.ft[d] \in Entry
  BY DEF Tables, NodeState, Route
<1>2. s.ft[d].hops \in 0..255 /\ s.ft[d].state \in RouteState
  BY <1>1 DEF Entry
<1> QED BY <1>2 DEF SendUpdate, Update, Updates

LEMMA ChangesUpdates ==
  ASSUME NEW n \in Node, NEW s, Tables(n, s), NEW changes, changes \subseteq Dest \ {n}, NEW nex
  PROVE  SendTriggeredUpdateChangesToNeighbors(n, s, changes, nex) \subseteq Updates(n)
<1>1. ASSUME NEW m \in Neighbors(s) PROVE m \in Node \ {n}
  BY NeighborsNodes
<1>2. ASSUME NEW m \in Neighbors(s), NEW d \in changes \ {m}, s.ft[d] # NoRoute
      PROVE  SendUpdate(n, s, d, m) \in Updates(n)
  BY <1>1, <1>2, SendUpdateUpdates
<1> QED BY <1>2 DEF SendTriggeredUpdateChangesToNeighbors

-----------------------------------------------------------------------------
(* Link failure. *)

LEMMA SendUpdateOnLinkFailureTables ==
  ASSUME NEW n \in Node, NEW s, Tables(n, s), NEW m \in Neighbors(s)
  PROVE  LET r == SendUpdateOnLinkFailure(n, s, m)
         IN  /\ Tables(n, r.s) /\ OnlyTables(s, r.s)
             /\ r.out \subseteq Updates(n)
<1> DEFINE r == SendUpdateOnLinkFailure(n, s, m)
           rt == [s.dvt[m][m] EXCEPT !.state = "INACTIVE"]
           u == UpdateDistanceVectorTable(s, m, m, rt)
           t == ComputeForwardingTable(u)
           out == SendTriggeredUpdateChangesToNeighbors(n, t, Changes(n, u, t), {m})
<1>1. s \in NodeState /\ m \in Neighbors(s) /\ m \in Node \ {n} /\ m \in Dest \ {n}
  BY NeighborsNodes DEF Tables, Dest
<1>2. CASE m \in Filtered \/ m \notin s.known \/ s.dvt[m][m] = NoRoute
  <2>1. r = [s |-> s, out |-> {}]
    BY <1>2 DEF SendUpdateOnLinkFailure
  <2>2. OnlyTables(s, s)
    BY <1>1 DEF OnlyTables, Keeps, NodeState
  <2> QED BY <2>1, <2>2
<1>3. CASE m \notin Filtered /\ m \in s.known /\ s.dvt[m][m] # NoRoute
  <2>1. rt \in Entry /\ rt.next = m
    <3>1. s.dvt[m][m] = DirectRoute(m)
      BY <1>1, <1>3 DEF Tables, Owned
    <3> QED BY <3>1, <1>1 DEF DirectRoute, Entry, RouteState
  <2>2. r = [s |-> t, out |-> out]
    BY <1>3 DEF SendUpdateOnLinkFailure
  <2> HIDE DEF rt, r
  <2>3. Tables(n, u) /\ OnlyTables(s, u)
    BY <1>1, <1>3, <2>1, UpdateDistanceVectorTableTables
  <2> HIDE DEF u
  <2>4. Tables(n, t) /\ OnlyTables(u, t)
    BY <2>3, ComputeForwardingTableTables
  <2> HIDE DEF t
  <2>5. OnlyTables(s, t)
    BY <1>1, <2>3, <2>4, OnlyTablesAgain
  <2>6. out \subseteq Updates(n)
    BY <2>4, ChangesUpdates DEF Changes
  <2> HIDE DEF out
  <2> QED BY <2>2, <2>4, <2>5, <2>6 DEF r
<1> QED BY <1>2, <1>3

\* x, the result of the callbacks of Purge so far, after the one for the neighbour
\* at k.
AfterFailure(n, s, x, k) ==
  LET y == SendUpdateOnLinkFailure(n, x.s, s.nb[k])
  IN  [s |-> y.s, out |-> x.out \cup y.out]

\* The result of Purge if that of the callbacks is x.
Purged(s, x) ==
  [s |-> [x.s EXCEPT !.nb = Without(s.nb, s.expired), !.expired = {}, !.ntimer = TRUE],
   out |-> x.out]

\* The results of the callbacks of Purge, one after the other, if none leaves a set
\* S of results.
LEMMA PurgeRun ==
  ASSUME NEW n, NEW s, s.nb # << >>, Len(s.nb) \in Nat, NEW S, [s |-> s, out |-> {}] \in S,
         \A k \in 1..Len(s.nb), x \in S : AfterFailure(n, s, x, k) \in S
  PROVE  \E run :
           /\ \A k \in 0..Len(s.nb) : run[k] \in S
           /\ run[0] = [s |-> s, out |-> {}]
           /\ \A k \in 1..Len(s.nb) :
                run[k] = IF s.nb[k] \notin s.expired THEN run[k-1]
                         ELSE AfterFailure(n, s, run[k-1], k)
           /\ Purge(n, s) = Purged(s, run[Len(s.nb)])
<1> DEFINE L == Len(s.nb)
           c == [s |-> s, out |-> {}]
           Step(x, k) == IF s.nb[k] \notin s.expired THEN x ELSE AfterFailure(n, s, x, k)
           G == [k \in 1..L |-> [x \in S |-> Step(x, k)]]
           F(g) == [k \in 0..L |->
                      IF k = 0 THEN c
                      ELSE IF s.nb[k] \notin s.expired THEN g[k-1]
                      ELSE LET y == SendUpdateOnLinkFailure(n, g[k-1].s, s.nb[k])
                           IN  [s |-> y.s, out |-> g[k-1].out \cup y.out]]
           fail == CHOOSE g : g = F(g)
           last == fail[L]
<1>1. Purge(n, s) = Purged(s, last)
  BY DEF Purge, Purged
<1>2. L \in Nat /\ c \in S
  OBVIOUS
<1>3. ASSUME NEW k \in 1..L, NEW x \in S PROVE Step(x, k) \in S
  OBVIOUS
<1> HIDE DEF L, c, Step
<1>4. G \in [1..L -> [S -> S]]
  BY <1>3
<1> HIDE DEF G
<1>5. PICK f : f \in Iterations(S, L, c, G)
  <2>1. Iterations(S, L, c, G) # {}
    BY <1>2, <1>4, IterationExists
  <2> QED BY <2>1
<1>6. f = F(f)
  <2>1. f \in [0..L -> S] /\ f[0] = c /\ \A k \in 1..L : f[k] = G[k][f[k-1]]
    BY <1>5 DEF Iterations
  <2>2. ASSUME NEW k \in 1..L PROVE f[k] = F(f)[k]
    <3>1. k-1 \in 0..L /\ k \in 0..L /\ k # 0
      BY <1>2
    <3>2. f[k-1] \in S
      BY <3>1, <2>1
    <3>3. f[k] = Step(f[k-1], k)
      BY <2>1, <3>2 DEF G
    <3> QED BY <3>1, <3>3 DEF Step, AfterFailure
  <2>3. ASSUME NEW k \in 0..L PROVE k # 0 => k \in 1..L
    BY <1>2
  <2>4. ASSUME NEW k \in 0..L PROVE f[k] = F(f)[k]
    BY <2>1, <2>2, <2>3
  <2> QED BY <2>1, <2>4
<1> HIDE DEF F
<1>7. fail = F(fail)
  BY <1>6
<1> HIDE DEF fail
<1>8. fail[0] = c /\ \A k \in 1..L : fail[k] = Step(fail[k-1], k)
  <2>1. 0 \in 0..L /\ \A k \in 1..L : k \in 0..L /\ k # 0
    BY <1>2
  <2>2. fail[0] = c
    BY <1>7, <2>1 DEF F
  <2>3. ASSUME NEW k \in 1..L PROVE fail[k] = Step(fail[k-1], k)
    <3>1. k \in 0..L /\ k # 0
      BY <2>1
    <3> QED BY <1>7, <3>1 DEF F, Step, AfterFailure
  <2> QED BY <2>2, <2>3
<1> DEFINE T == [k \in 0..L |-> S]
<1>9. T[0] = S /\ T[L] = S /\ \A k \in 1..L : T[k] = S /\ T[k-1] = S
  BY <1>2
<1> HIDE DEF T
<1>10. fail[0] \in T[0] /\ \A k \in 1..L : fail[k-1] \in T[k-1] => fail[k] \in T[k]
  BY <1>2, <1>3, <1>8, <1>9
<1>11. \A k \in 0..L : fail[k] \in T[k]
  BY <1>2, <1>10, Invariance
<1>12. \A k \in 0..L : fail[k] \in S
  BY <1>11 DEF T
<1> QED BY <1>1, <1>8, <1>12 DEF L, c, Step

\* A Purge whose callbacks stay in S ends with a result in S.
LEMMA PurgeIn ==
  ASSUME NEW n, NEW s, s.nb # << >>, Len(s.nb) \in Nat, NEW S, [s |-> s, out |-> {}] \in S,
         \A k \in 1..Len(s.nb), x \in S : AfterFailure(n, s, x, k) \in S
  PROVE  \E last \in S :
           Purge(n, s) = [s |-> [last.s EXCEPT !.nb = Without(s.nb, s.expired),
                                               !.expired = {}, !.ntimer = TRUE],
                          out |-> last.out]
<1>1. \E last \in S : Purge(n, s) = Purged(s, last)
  <2>1. Len(s.nb) \in 0..Len(s.nb)
    OBVIOUS
  <2> QED BY <2>1, PurgeRun
<1> QED BY <1>1 DEF Purged

\* Purge keeps the tables, adds no neighbour and lists none twice, forgets the
\* expired ones, and leaves m_ntimer scheduled if a neighbour is left.
LEMMA PurgeTables ==
  ASSUME NEW n \in Node, NEW s, Tables(n, s), Distinct(s.nb), s.expired \subseteq Neighbors(s)
  PROVE  LET r == Purge(n, s)
         IN  /\ Tables(n, r.s) /\ s.known \subseteq r.s.known /\ Keeps(s, r.s)
             /\ r.out \subseteq Updates(n)
             /\ Distinct(r.s.nb) /\ Neighbors(r.s) \subseteq Neighbors(s)
             /\ r.s.expired = {} /\ (r.s.nb # << >> => r.s.ntimer)
             /\ r.s.prq = s.prq /\ r.s.late = s.late
<1> DEFINE r == Purge(n, s)
           L == Len(s.nb)
           c == [s |-> s, out |-> {}]
           S == {x \in [s : NodeState, out : SUBSET Updates(n)] :
                   Tables(n, x.s) /\ OnlyTables(s, x.s)}
<1>1. s \in NodeState /\ s.nb \in Seq(Node) /\ L \in Nat
  BY DEF Tables, NodeState
<1>2. CASE s.nb = << >>
  <2>1. r = [s |-> s, out |-> {}]
    BY <1>2 DEF Purge
  <2>2. s.expired = {}
    BY <1>2 DEF Neighbors, Elems
  <2> QED BY <1>2, <2>1, <2>2 DEF Keeps
<1>3. CASE s.nb # << >>
  <2>1. c \in S
    BY <1>1 DEF OnlyTables, Keeps, NodeState
  <2>2. ASSUME NEW k \in 1..L, NEW x \in S
        PROVE  AfterFailure(n, s, x, k) \in S
    <3> DEFINE y == SendUpdateOnLinkFailure(n, x.s, s.nb[k])
    <3>1. /\ x.s \in NodeState /\ x.out \subseteq Updates(n)
          /\ Tables(n, x.s) /\ OnlyTables(s, x.s) /\ s.nb[k] \in Neighbors(s)
      BY <1>1 DEF Neighbors, Elems
    <3>2. s.nb[k] \in Neighbors(x.s)
      BY <1>1, <3>1 DEF OnlyTables, NodeState, Neighbors
    <3>3. /\ Tables(n, y.s) /\ OnlyTables(x.s, y.s) /\ y.out \subseteq Updates(n)
      BY <3>1, <3>2, SendUpdateOnLinkFailureTables
    <3> HIDE DEF y
    <3>4. OnlyTables(s, y.s)
      BY <1>1, <3>1, <3>3, OnlyTablesAgain
    <3>5. y.s \in NodeState
      BY <3>3 DEF Tables
    <3>6. [s |-> y.s, out |-> x.out \cup y.out] \in S
      BY <3>1, <3>3, <3>4, <3>5
    <3> QED BY <3>6 DEF y, AfterFailure
  <2>3. PICK last \in S :
          r = [s |-> [last.s EXCEPT !.nb = Without(s.nb, s.expired), !.expired = {}, !.ntimer = TRUE],
               out |-> last.out]
    <3> HIDE DEF S
    <3> QED BY <1>1, <1>3, <2>1, <2>2, PurgeIn
  <2> DEFINE nb == Without(s.nb, s.expired)
  <2>4. /\ nb \in Seq(Node) /\ Elems(nb) \subseteq Neighbors(s) /\ Distinct(nb)
    BY <1>1, WithoutElems DEF Neighbors
  <2> HIDE DEF nb
  <2>5. /\ last.s \in NodeState /\ last.out \subseteq Updates(n)
         /\ Tables(n, last.s) /\ OnlyTables(s, last.s)
    OBVIOUS
  <2>6. /\ r.s = [last.s EXCEPT !.nb = nb, !.expired = {}, !.ntimer = TRUE]
         /\ r.out = last.out
    BY <2>3 DEF nb
  <2> HIDE DEF r
  <2>7. /\ r.s \in NodeState /\ r.s.nb = nb /\ r.s.expired = {} /\ r.s.ntimer = TRUE
         /\ r.s.ft = last.s.ft /\ r.s.dvt = last.s.dvt /\ r.s.known = last.s.known
         /\ r.s.prq = last.s.prq /\ r.s.late = last.s.late
    BY <2>4, <2>5, <2>6 DEF NodeState
  <2>8. last.s.prq = s.prq /\ last.s.late = s.late /\ s.known \subseteq last.s.known
    BY <1>1, <2>5 DEF OnlyTables, NodeState
  <2>9. Tables(n, r.s)
    <3>1. n \notin Neighbors(r.s)
      BY <2>4, <2>7 DEF Neighbors, Tables
    <3> QED BY <2>5, <2>7, <3>1, SameTables
  <2>10. Keeps(s, r.s)
    BY <2>5, <2>7 DEF OnlyTables, Keeps
  <2> QED BY <2>4, <2>5, <2>6, <2>7, <2>8, <2>9, <2>10 DEF r, Neighbors
<1> QED BY <1>2, <1>3

-----------------------------------------------------------------------------
(* Handlers: what holds between them, Good, holds after each of them again,  *)
(* and what they send is among Updates.                                      *)

Good(n, s) == Tables(n, s) /\ Watched(n, s) /\ Queued(n, s)

\* A handler of node n that turns s into result r does as it should.
Fine(n, s, r) == Good(n, r.s) /\ Keeps(s, r.s) /\ r.out \subseteq Updates(n)

\* A handler that only changes tables leaves the neighbours and the queue good.
LEMMA OnlyTablesGood ==
  ASSUME NEW n, NEW s \in NodeState, Watched(n, s), Queued(n, s),
         NEW t, OnlyTables(s, t), Tables(n, t)
  PROVE  Good(n, t)
<1>1. /\ t.nb = s.nb /\ t.expired = s.expired /\ t.ntimer = s.ntimer
      /\ t.prq = s.prq /\ t.late = s.late /\ s.known \subseteq t.known
  BY DEF OnlyTables, NodeState
<1>2. Watched(n, t)
  BY <1>1 DEF Watched, Neighbors
<1>3. Queued(n, t)
  BY <1>1 DEF Queued
<1> QED BY <1>2, <1>3 DEF Good

\* Neighbors::Update leaves m to be given a table if it was new.
LEMMA NeighborUpdateFine ==
  ASSUME NEW n \in Node, NEW s, Good(n, s), NEW m \in Node \ {n}
  PROVE  LET r == NeighborUpdate(n, s, m)
         IN  /\ Tables(n, r.s) /\ Queued(n, r.s)
             /\ Keeps(s, r.s)
             /\ s.known \subseteq r.s.known /\ Neighbors(r.s) \subseteq Neighbors(s) \cup {m}
             /\ Distinct(r.s.nb) /\ r.s.expired \subseteq Neighbors(r.s)
             /\ r.s.nb # << >> => r.s.ntimer
             /\ r.out \subseteq Updates(n)
<1> DEFINE r == NeighborUpdate(n, s, m)
           t == [s EXCEPT !.nb = Append(s.nb, m)]
           v == [s EXCEPT !.expired = s.expired \ {m}]
<1>1. s \in NodeState /\ s.nb \in Seq(Node) /\ Tables(n, s)
  BY DEF Good, Tables, NodeState
<1>2. /\ Distinct(s.nb) /\ s.expired \subseteq Neighbors(s) /\ (s.nb # << >> => s.ntimer)
      /\ Queued(n, s)
  BY DEF Good, Watched
<1>3. CASE m \in Neighbors(s)
  <2>1. r = [s |-> v, out |-> {}]
    BY <1>3 DEF NeighborUpdate
  <2>2. /\ v \in NodeState /\ v.nb = s.nb /\ v.expired = s.expired \ {m} /\ v.ntimer = s.ntimer
        /\ v.ft = s.ft /\ v.dvt = s.dvt /\ v.known = s.known
        /\ v.prq = s.prq /\ v.late = s.late
    BY <1>1 DEF NodeState
  <2> HIDE DEF v
  <2>3. Neighbors(v) = Neighbors(s) /\ n \notin Neighbors(v)
    BY <1>1, <2>2 DEF Neighbors, Tables
  <2>4. Tables(n, v)
    BY <1>1, <2>2, <2>3, SameTables
  <2>5. Queued(n, v)
    BY <1>2, <2>2 DEF Queued
  <2> QED BY <1>2, <2>1, <2>2, <2>3, <2>4, <2>5 DEF Keeps
<1>4. CASE m \notin Neighbors(s)
  <2>1. r = Purge(n, t)
    BY <1>4 DEF NeighborUpdate
  <2>2. /\ t \in NodeState /\ t.nb = Append(s.nb, m) /\ t.expired = s.expired
        /\ t.ft = s.ft /\ t.dvt = s.dvt /\ t.known = s.known
        /\ t.prq = s.prq /\ t.late = s.late
    <3> DEFINE nb == Append(s.nb, m)
    <3>1. nb \in Seq(Node)
      BY <1>1
    <3> HIDE DEF nb
    <3>2. t = [s EXCEPT !.nb = nb]
      BY DEF nb
    <3> QED BY <1>1, <3>1, <3>2 DEF NodeState, nb
  <2> HIDE DEF t, r
  <2>3. m \notin Elems(s.nb) /\ m \in Node
    BY <1>4 DEF Neighbors
  <2>4. Neighbors(t) = Neighbors(s) \cup {m} /\ Distinct(t.nb)
    BY <1>1, <1>2, <2>2, <2>3, AppendDistinct DEF Neighbors
  <2>6. Tables(n, t)
    <3>1. n \notin Neighbors(t)
      BY <1>1, <2>4 DEF Tables
    <3> QED BY <1>1, <2>2, <3>1, SameTables
  <2>7. t.expired \subseteq Neighbors(t)
    BY <1>2, <2>2, <2>4
  <2>8. /\ Tables(n, r.s) /\ t.known \subseteq r.s.known /\ Keeps(t, r.s)
        /\ r.out \subseteq Updates(n)
        /\ Distinct(r.s.nb) /\ Neighbors(r.s) \subseteq Neighbors(t)
        /\ r.s.expired = {} /\ (r.s.nb # << >> => r.s.ntimer)
        /\ r.s.prq = t.prq /\ r.s.late = t.late
    BY <2>1, <2>4, <2>6, <2>7, PurgeTables
  <2>9. Queued(n, r.s)
    BY <1>2, <2>2, <2>8 DEF Queued
  <2> QED BY <2>2, <2>4, <2>8, <2>9 DEF r, Keeps
<1> QED BY <1>3, <1>4

\* A purge of a node whose m_ntimer may just have fired.
LEMMA PurgeFine ==
  ASSUME NEW n \in Node, NEW s, Tables(n, s), Queued(n, s), Distinct(s.nb),
         Neighbors(s) \subseteq s.known, s.expired \subseteq Neighbors(s)
  PROVE  Fine(n, s, Purge(n, s))
<1> DEFINE r == Purge(n, s)
<1>1. /\ Tables(n, r.s) /\ s.known \subseteq r.s.known /\ Keeps(s, r.s)
      /\ r.out \subseteq Updates(n)
      /\ Distinct(r.s.nb) /\ Neighbors(r.s) \subseteq Neighbors(s)
      /\ r.s.expired = {} /\ (r.s.nb # << >> => r.s.ntimer)
      /\ r.s.prq = s.prq /\ r.s.late = s.late
  BY PurgeTables
<1> HIDE DEF r
<1>2. Queued(n, r.s)
  BY <1>1 DEF Queued
<1>3. Watched(n, r.s)
  BY <1>1 DEF Watched, Tables
<1> QED BY <1>1, <1>2, <1>3 DEF Fine, Good, r

LEMMA NTimerExpireFine ==
  ASSUME NEW n \in Node, NEW s, Good(n, s)
  PROVE  Fine(n, s, NTimerExpire(n, s))
<1> DEFINE t == [s EXCEPT !.ntimer = FALSE]
<1>1. s \in NodeState
  BY DEF Good, Tables
<1>2. /\ t \in NodeState /\ t.nb = s.nb /\ t.expired = s.expired
      /\ t.ft = s.ft /\ t.dvt = s.dvt /\ t.known = s.known
      /\ t.prq = s.prq /\ t.late = s.late
  BY <1>1 DEF NodeState
<1>3. NTimerExpire(n, s) = Purge(n, t)
  BY DEF NTimerExpire
<1> HIDE DEF t
<1>4. Tables(n, t)
  BY <1>2, SameTables DEF Good, Tables, Neighbors
<1>5. Queued(n, t)
  BY <1>2 DEF Good, Queued
<1>6. /\ Distinct(t.nb) /\ Neighbors(t) \subseteq t.known /\ t.expired \subseteq Neighbors(t)
  BY <1>2 DEF Good, Watched, Neighbors
<1>7. Fine(n, t, Purge(n, t))
  BY <1>4, <1>5, <1>6, PurgeFine
<1> QED BY <1>2, <1>3, <1>7 DEF Fine, Keeps

LEMMA NotifyTxErrorFine ==
  ASSUME NEW n \in Node, NEW s, Good(n, s), NEW m, NEW match
  PROVE  Fine(n, s, NotifyTxError(n, s, m, match))
<1> DEFINE t == IF match THEN [s EXCEPT !.expired = s.expired \cup ({m} \cap Neighbors(s))] ELSE s
<1>1. s \in NodeState /\ Neighbors(s) \subseteq Node
  BY NeighborsNodes DEF Good, Tables
<1>2. /\ t \in NodeState /\ t.nb = s.nb
      /\ t.expired \in {s.expired, s.expired \cup ({m} \cap Neighbors(s))}
      /\ t.ft = s.ft /\ t.dvt = s.dvt /\ t.known = s.known
      /\ t.prq = s.prq /\ t.late = s.late
  BY <1>1 DEF NodeState
<1>3. NotifyTxError(n, s, m, match) = Purge(n, t)
  BY DEF NotifyTxError
<1> HIDE DEF t
<1>4. Tables(n, t)
  BY <1>2, SameTables DEF Good, Tables, Neighbors
<1>5. Queued(n, t)
  BY <1>2 DEF Good, Queued
<1>6. /\ Distinct(t.nb) /\ Neighbors(t) \subseteq t.known /\ t.expired \subseteq Neighbors(t)
  BY <1>2 DEF Good, Watched, Neighbors
<1>7. Fine(n, t, Purge(n, t))
  BY <1>4, <1>5, <1>6, PurgeFine
<1> QED BY <1>2, <1>3, <1>7 DEF Fine, Keeps

\* The purge on m_htimer; the HELLOs that follow it are not UPDATEs.
LEMMA HelloTimerExpireFine ==
  ASSUME NEW n \in Node, NEW s, Good(n, s), NEW range
  PROVE  LET r == HelloTimerExpire(n, s, range)
         IN  /\ Good(n, r.s) /\ Keeps(s, r.s)
             /\ r.out \subseteq Updates(n) \cup {Hello(n, m) : m \in range}
<1>1. Tables(n, s) /\ Queued(n, s) /\ Distinct(s.nb) /\ Neighbors(s) \subseteq s.known
      /\ s.expired \subseteq Neighbors(s)
  BY DEF Good, Watched
<1>2. Fine(n, s, Purge(n, s))
  BY <1>1, PurgeFine
<1> QED BY <1>2 DEF Fine, HelloTimerExpire

\* A handler that only puts off replies, or sends those that are due.
LEMMA EnqueueFine ==
  ASSUME NEW n \in Node, NEW s, Good(n, s), NEW en \in PendingReply,
         en.ne # en.dst, n \notin {en.ne, en.dst}
  PROVE  Fine(n, s, Enqueue(n, s, en))
<1> DEFINE r == Enqueue(n, s, en)
           q == Without(s.prq, s.late)
           room == MakeRoom(q)
           prq == IF en \in Elems(q) THEN q ELSE Append(room, en)
           due == {e \in Elems(s.prq) : e \in s.late /\ MayReply(s, e.ne, e.dst)}
<1>1. /\ s \in NodeState /\ s.prq \in Seq(PendingReply) /\ Tables(n, s)
      /\ Distinct(s.prq) /\ Len(s.prq) <= MaxPRQueueLen
      /\ \A e \in Elems(s.prq) : e.ne # e.dst /\ n \notin {e.ne, e.dst}
  BY DEF Good, Tables, Queued, NodeState
<1>2. r.s = [s EXCEPT !.prq = prq, !.late = {}]
  BY DEF Enqueue
<1>3. r.out = {SendUpdate(n, s, e.dst, e.ne) : e \in due}
  BY DEF Enqueue
<1>4. /\ q \in Seq(PendingReply) /\ Len(q) <= MaxPRQueueLen
      /\ Elems(q) \subseteq Elems(s.prq) /\ Distinct(q)
  <2>1. Len(q) \in Nat /\ Len(s.prq) \in Nat /\ MaxPRQueueLen \in Nat
    BY <1>1, WithoutElems, MaxPRQueueLenAssumption
  <2>2. /\ q \in Seq(PendingReply) /\ Len(q) <= Len(s.prq)
        /\ Elems(q) \subseteq Elems(s.prq) /\ Distinct(q)
    BY <1>1, WithoutElems
  <2> QED BY <1>1, <2>1, <2>2
<1> HIDE DEF q
<1>5. /\ room \in Seq(PendingReply) /\ Len(room) \in Nat /\ Len(room) < MaxPRQueueLen
      /\ Elems(room) \subseteq Elems(q) /\ Distinct(room)
  <2>1. CASE Len(q) = MaxPRQueueLen
    <3>1. q # << >> /\ Len(q) \in Nat
      BY <1>4, <2>1, MaxPRQueueLenAssumption
    <3>2. /\ Tail(q) \in Seq(PendingReply) /\ Len(Tail(q)) = Len(q) - 1
          /\ \A i \in 1..Len(Tail(q)) : Tail(q)[i] = q[i+1] /\ i+1 \in 1..Len(q)
      BY <1>4, <3>1
    <3>3. room = Tail(q)
      BY <2>1 DEF MakeRoom
    <3> HIDE DEF room
    <3>4. Elems(room) \subseteq Elems(q)
      BY <3>2, <3>3 DEF Elems
    <3>5. ASSUME NEW i \in 1..Len(room), NEW j \in 1..Len(room), room[i] = room[j]
          PROVE  i = j
      <4>1. q[i+1] = q[j+1] /\ i+1 \in 1..Len(q) /\ j+1 \in 1..Len(q)
        BY <3>2, <3>3, <3>5
      <4>2. i+1 = j+1
        BY <1>4, <4>1 DEF Distinct
      <4> QED BY <3>1, <3>2, <3>3, <4>2
    <3> QED BY <2>1, <3>1, <3>2, <3>3, <3>4, <3>5, MaxPRQueueLenAssumption DEF Distinct
  <2>2. CASE Len(q) # MaxPRQueueLen
    BY <1>4, <2>2, MaxPRQueueLenAssumption DEF MakeRoom
  <2> QED BY <2>1, <2>2
<1> HIDE DEF room
<1>6. /\ prq \in Seq(PendingReply) /\ Len(prq) <= MaxPRQueueLen /\ Distinct(prq)
      /\ Elems(prq) \subseteq Elems(s.prq) \cup {en}
  <2>1. CASE en \in Elems(q)
    BY <1>4, <2>1
  <2>2. CASE en \notin Elems(q)
    <3>1. prq = Append(room, en) /\ en \notin Elems(room)
      BY <1>5, <2>2
    <3> HIDE DEF prq
    <3>2. /\ prq \in Seq(PendingReply) /\ Len(prq) = Len(room) + 1
          /\ Elems(prq) = Elems(room) \cup {en} /\ Distinct(prq)
      BY <1>5, <3>1, AppendDistinct
    <3> QED BY <1>4, <1>5, <3>2, MaxPRQueueLenAssumption
  <2> QED BY <2>1, <2>2
<1> HIDE DEF prq
<1> HIDE DEF r
<1>7. /\ r.s \in NodeState /\ r.s.prq = prq /\ r.s.late = {}
      /\ r.s.ft = s.ft /\ r.s.dvt = s.dvt /\ r.s.known = s.known
      /\ r.s.nb = s.nb /\ r.s.expired = s.expired /\ r.s.ntimer = s.ntimer
  BY <1>1, <1>2, <1>6 DEF NodeState
<1>8. Tables(n, r.s)
  BY <1>1, <1>7, SameTables DEF Tables, Neighbors
<1>9. Watched(n, r.s)
  BY <1>7 DEF Good, Watched, Neighbors
<1>10. Queued(n, r.s)
  BY <1>1, <1>6, <1>7 DEF Queued
<1>11. r.out \subseteq Updates(n)
  <2>1. ASSUME NEW e \in due PROVE SendUpdate(n, s, e.dst, e.ne) \in Updates(n)
    <3>1. e \in PendingReply /\ e.ne # e.dst /\ n \notin {e.ne, e.dst}
      BY <1>1 DEF Elems
    <3>2. e.ne \in Node \ {n} /\ e.dst \in Dest \ {n, e.ne}
      BY <3>1 DEF PendingReply
    <3>3. s.ft[e.dst] # NoRoute
      BY DEF MayReply
    <3> QED BY <1>1, <3>2, <3>3, SendUpdateUpdates
  <2> QED BY <1>3, <2>1
<1> QED BY <1>7, <1>8, <1>9, <1>10, <1>11 DEF Fine, Good, Keeps, r

LEMMA RetransmitToNeighborFine ==
  ASSUME NEW n \in Node, NEW s, Good(n, s), NEW m \in Node \ {n}, NEW d \in Dest \ {n, m},
         NEW hops
  PROVE  Fine(n, s, RetransmitToNeighbor(n, s, m, d, hops))
<1> DEFINE r == RetransmitToNeighbor(n, s, m, d, hops)
           en == [ne |-> m, dst |-> d]
<1>1. Fine(n, s, [s |-> s, out |-> {}])
  BY DEF Fine, Keeps
<1>2. ASSUME MayReply(s, m, d) PROVE Fine(n, s, [s |-> s, out |-> {SendUpdate(n, s, d, m)}])
  <2>1. s.ft[d] # NoRoute
    BY <1>2 DEF MayReply
  <2>2. SendUpdate(n, s, d, m) \in Updates(n)
    BY <2>1, SendUpdateUpdates DEF Good
  <2> QED BY <2>2 DEF Fine, Keeps
<1>3. Fine(n, s, Enqueue(n, s, en))
  <2>1. en \in PendingReply /\ en.ne # en.dst /\ n \notin {en.ne, en.dst}
    BY DEF PendingReply
  <2> QED BY <2>1, EnqueueFine
<1>4. \/ r = [s |-> s, out |-> {}]
      \/ MayReply(s, m, d) /\ r = [s |-> s, out |-> {SendUpdate(n, s, d, m)}]
      \/ r = Enqueue(n, s, en)
  BY DEF RetransmitToNeighbor
<1> QED BY <1>1, <1>2, <1>3, <1>4

\* The direct route as m's first row about itself.
LEMMA DirectRowTables ==
  ASSUME NEW n \in Node, NEW v, Tables(n, v), NEW m \in Node \ {n}, m \in v.known,
         NEW x \in NodeState, x.ft = v.ft, x.known = v.known, x.nb = v.nb,
         \A i \in Node, c \in Dest :
           x.dvt[i][c] = IF i = m /\ c = m THEN DirectRoute(m) ELSE v.dvt[i][c]
  PROVE  Tables(n, x)
<1>1. DirectRoute(m) \in Entry /\ v.known \subseteq Node
  BY DEF DirectRoute, Entry, Dest, RouteState, Tables, NodeState
<1>2. Backed(x)
  <2>1. ASSUME NEW c \in Dest, v.ft[c] # NoRoute, v.ft[c].next \in v.known,
               v.dvt[v.ft[c].next][c] # NoRoute
        PROVE  x.dvt[v.ft[c].next][c] # NoRoute
    BY <1>1, <2>1, NoRouteAssumption
  <2> QED BY <2>1 DEF Tables, Backed
<1>3. Owned(n, x)
  <2>1. ASSUME NEW i \in Node, NEW c \in Dest, x.dvt[i][c] # NoRoute
        PROVE  /\ x.dvt[i][c].next = i /\ i \in x.known \ {n} /\ c # n
               /\ c = i => x.dvt[i][c] = DirectRoute(i)
    <3>1. CASE i = m /\ c = m
      BY <3>1 DEF DirectRoute
    <3>2. CASE ~(i = m /\ c = m)
      BY <3>2, <2>1 DEF Tables, Owned
    <3> QED BY <3>1, <3>2
  <2>2. x.ft[n] = NoRoute
    BY DEF Tables, Owned
  <2> QED BY <2>1, <2>2 DEF Owned
<1> QED BY <1>2, <1>3 DEF Tables, Neighbors

\* The route in ProcessHello, or the hop count that it writes again.
LEMMA ProcessHelloFine ==
  ASSUME NEW n \in Node, NEW s, Good(n, s), NEW m \in Node \ {n}
  PROVE  Fine(n, s, ProcessHello(n, s, m))
<1> DEFINE r == ProcessHello(n, s, m)
           u == IF EnableHello THEN NeighborUpdate(n, s, m) ELSE [s |-> s, out |-> {}]
           v == [u.s EXCEPT !.known = u.s.known \cup {m}]
           x == [v EXCEPT !.dvt = [v.dvt EXCEPT ![m][m] = DirectRoute(m)]]
           w == ComputeForwardingTable(x)
           y == [v EXCEPT !.dvt = [v.dvt EXCEPT ![m][m] = [v.dvt[m][m] EXCEPT !.hops = 1, !.next = m]]]
<1>1. /\ Tables(n, u.s) /\ Queued(n, u.s)
      /\ Neighbors(u.s) \subseteq u.s.known \cup {m}
      /\ Distinct(u.s.nb) /\ u.s.expired \subseteq Neighbors(u.s)
      /\ (u.s.nb # << >> => u.s.ntimer)
      /\ u.out \subseteq Updates(n) /\ Keeps(s, u.s)
  <2>1. CASE EnableHello
    <3>1. u = NeighborUpdate(n, s, m)
      BY <2>1
    <3> HIDE DEF u
    <3>2. Neighbors(s) \subseteq s.known
      BY DEF Good, Watched
    <3> QED BY <3>1, <3>2, NeighborUpdateFine
  <2>2. CASE ~EnableHello
    <3>1. u.s = s /\ u.out = {}
      BY <2>2
    <3> HIDE DEF u
    <3> QED BY <3>1 DEF Good, Watched, Keeps
  <2> QED BY <2>1, <2>2
<1>2. r = IF v.dvt[m][m] = NoRoute
          THEN [s |-> w, out |-> u.out \cup SendTriggeredUpdateToNeighbor(n, w, m)]
          ELSE [s |-> y, out |-> u.out]
  BY DEF ProcessHello
<1> HIDE DEF u, r
<1>3. /\ v \in NodeState /\ v.dvt = u.s.dvt /\ v.known = u.s.known \cup {m} /\ v.ft = u.s.ft
      /\ v.nb = u.s.nb /\ v.expired = u.s.expired /\ v.ntimer = u.s.ntimer
      /\ v.prq = u.s.prq /\ v.late = u.s.late /\ Keeps(s, v)
  BY <1>1 DEF Tables, Keeps, NodeState
<1> HIDE DEF v
<1>4. Tables(n, v)
  BY <1>1, <1>3, SameTables DEF Tables, Neighbors
<1>5. Watched(n, v) /\ Queued(n, v)
  BY <1>1, <1>3 DEF Watched, Queued, Neighbors, Tables
<1>6. v.dvt \in [Node -> [Dest -> Route]] /\ m \in Dest /\ DirectRoute(m) \in Entry
  <2>1. v.dvt \in [Node -> [Dest -> Route]]
    BY <1>3 DEF NodeState
  <2>2. DirectRoute(m) \in Entry
    BY DEF DirectRoute, Entry, Dest, RouteState
  <2> QED BY <2>1, <2>2 DEF Dest
<1>7. CASE v.dvt[m][m] = NoRoute
  <2>1. Tables(n, x) /\ OnlyTables(v, x)
    <3> DEFINE dvt == [v.dvt EXCEPT ![m][m] = DirectRoute(m)]
    <3>1. dvt \in [Node -> [Dest -> Route]]
      BY <1>6 DEF Route
    <3>2. \A i \in Node, c \in Dest :
            dvt[i][c] = IF i = m /\ c = m THEN DirectRoute(m) ELSE v.dvt[i][c]
      BY <1>6
    <3> HIDE DEF dvt
    <3>3. /\ x \in NodeState /\ x.dvt = dvt /\ x.ft = v.ft /\ x.known = v.known /\ x.nb = v.nb
          /\ OnlyTables(v, x)
      BY <1>3, <3>1 DEF NodeState, OnlyTables, Keeps, dvt
    <3> HIDE DEF x
    <3>4. Tables(n, x)
      <4>1. \A i \in Node, c \in Dest :
              x.dvt[i][c] = IF i = m /\ c = m THEN DirectRoute(m) ELSE v.dvt[i][c]
        BY <3>2, <3>3
      <4>2. Tables(n, v) /\ m \in v.known
        BY <1>3, <1>4
      <4> QED BY <3>3, <4>1, <4>2, DirectRowTables
    <3> QED BY <3>3, <3>4
  <2> HIDE DEF x
  <2>2. Tables(n, w) /\ OnlyTables(x, w)
    BY <2>1, ComputeForwardingTableTables
  <2> HIDE DEF w
  <2>3. OnlyTables(v, w)
    BY <1>3, <2>1, <2>2, OnlyTablesAgain
  <2>4. Good(n, w)
    BY <1>3, <1>5, <2>2, <2>3, OnlyTablesGood
  <2>5. SendTriggeredUpdateToNeighbor(n, w, m) \subseteq Updates(n)
    BY <2>2, SendUpdateUpdates DEF SendTriggeredUpdateToNeighbor
  <2>6. Keeps(s, w)
    BY <1>3, <2>3 DEF OnlyTables, Keeps
  <2> QED BY <1>1, <1>2, <1>7, <2>4, <2>5, <2>6 DEF Fine, r
<1>8. CASE v.dvt[m][m] # NoRoute
  <2>1. v.dvt[m][m] = DirectRoute(m)
    BY <1>4, <1>6, <1>8 DEF Tables, Owned
  <2>2. [v.dvt[m][m] EXCEPT !.hops = 1, !.next = m] = v.dvt[m][m]
    <3> DEFINE rt == v.dvt[m][m]
    <3>1. rt \in [hops : 0..255, next : Dest, state : RouteState]
      BY <1>6, <2>1 DEF Entry
    <3>2. rt.hops = 1 /\ rt.next = m
      BY <2>1 DEF DirectRoute
    <3> HIDE DEF rt
    <3>3. [rt EXCEPT !.hops = 1, !.next = m] = rt
      BY <3>1, <3>2
    <3> QED BY <3>3 DEF rt
  <2>3. [v.dvt EXCEPT ![m][m] = v.dvt[m][m]] = v.dvt
    BY <1>6
  <2>4. y = v
    BY <1>3, <2>2, <2>3 DEF NodeState
  <2> HIDE DEF y
  <2> QED BY <1>1, <1>2, <1>3, <1>4, <1>5, <1>8, <2>4 DEF Fine, Good, r
<1> QED BY <1>7, <1>8

LEMMA RecvUpdateFine ==
  ASSUME NEW n \in Node, NEW s, Good(n, s), NEW m \in Node \ {n}, NEW d \in Dest \ {n, m},
         NEW hops \in 0..255, NEW state \in RouteState
  PROVE  Fine(n, s, RecvUpdate(n, s, m, d, hops, state))
<1> DEFINE rt == [hops |-> HopCount(hops), next |-> m, state |-> state]
           u == UpdateDistanceVectorTable(s, m, d, rt)
           t == ComputeForwardingTable(u)
           r == IF state = "INACTIVE" /\ d # m
                THEN RetransmitToNeighbor(n, t, m, d, hops) ELSE [s |-> t, out |-> {}]
           out == SendTriggeredUpdateChangesToNeighbors(n, t, Changes(n, u, t), {})
<1>1. RecvUpdate(n, s, m, d, hops, state) = [s |-> r.s, out |-> r.out \cup out]
  BY DEF RecvUpdate
<1>2. rt \in Entry /\ rt.next = m
  BY DEF HopCount, Entry, Dest
<1> HIDE DEF rt
<1>3. Tables(n, u) /\ OnlyTables(s, u)
  BY <1>2, UpdateDistanceVectorTableTables DEF Good
<1> HIDE DEF u
<1>4. Tables(n, t) /\ OnlyTables(u, t)
  BY <1>3, ComputeForwardingTableTables
<1> HIDE DEF t
<1>5. OnlyTables(s, t)
  BY <1>3, <1>4, OnlyTablesAgain DEF Good, Tables
<1>6. Good(n, t)
  BY <1>4, <1>5, OnlyTablesGood DEF Good, Tables
<1>7. Fine(n, s, r)
  <2>1. Fine(n, s, [s |-> t, out |-> {}])
    BY <1>5, <1>6 DEF Fine, OnlyTables
  <2>2. Fine(n, s, RetransmitToNeighbor(n, t, m, d, hops))
    <3>1. Fine(n, t, RetransmitToNeighbor(n, t, m, d, hops))
      BY <1>6, RetransmitToNeighborFine
    <3> QED BY <1>5, <3>1 DEF Fine, OnlyTables, Keeps
  <2> QED BY <2>1, <2>2
<1> HIDE DEF r
<1>8. out \subseteq Updates(n)
  BY <1>4, ChangesUpdates DEF Changes
<1> HIDE DEF out
<1> QED BY <1>1, <1>7, <1>8 DEF Fine

LEMMA NotifyInterfaceDownGood ==
  ASSUME NEW n \in Node, NEW s, Good(n, s)
  PROVE  Good(n, NotifyInterfaceDown(s))
<1> DEFINE t == NotifyInterfaceDown(s)
           ft == [d \in Dest |-> NoRoute]
<1>1. s \in NodeState
  BY DEF Good, Tables
<1>2. ft \in [Dest -> Route]
  BY DEF Route
<1>3. t = [s EXCEPT !.up = FALSE, !.htimer = FALSE, !.nb = << >>, !.expired = {}, !.ft = ft]
  BY DEF NotifyInterfaceDown
<1> HIDE DEF t, ft
<1>4. /\ t \in NodeState /\ t.nb = << >> /\ t.expired = {} /\ t.ft = ft
      /\ t.dvt = s.dvt /\ t.known = s.known /\ t.prq = s.prq /\ t.late = s.late
  <2> DEFINE nb == << >>
  <2>1. nb \in Seq(Node)
    OBVIOUS
  <2>2. t = [s EXCEPT !.up = FALSE, !.htimer = FALSE, !.nb = nb, !.expired = {}, !.ft = ft]
    BY <1>3
  <2> HIDE DEF nb
  <2>3. /\ t \in NodeState /\ t.nb = nb /\ t.expired = {} /\ t.ft = ft
        /\ t.dvt = s.dvt /\ t.known = s.known /\ t.prq = s.prq /\ t.late = s.late
    BY <1>1, <1>2, <2>1, <2>2 DEF NodeState
  <2> QED BY <2>3 DEF nb
<1>5. Neighbors(t) = {}
  BY <1>4 DEF Neighbors, Elems
<1>6. Backed(t)
  BY <1>4 DEF Backed, ft
<1>7. Owned(n, t)
  BY <1>4 DEF Good, Tables, Owned, ft, Dest
<1>8. Watched(n, t)
  BY <1>4, <1>5 DEF Watched, Distinct
<1>9. Queued(n, t)
  BY <1>4 DEF Good, Queued
<1> QED BY <1>4, <1>5, <1>6, <1>7, <1>8, <1>9 DEF Good, Tables, t

LEMMA NotifyInterfaceUpGood ==
  ASSUME NEW n \in Node, NEW s, Good(n, s)
  PROVE  Good(n, NotifyInterfaceUp(s)) /\ Keeps(s, NotifyInterfaceUp(s))
<1> DEFINE t == NotifyInterfaceUp(s)
           rt == IF s.ft[Bcast] = NoRoute THEN DirectRoute(Bcast) ELSE s.ft[Bcast]
           ft == [s.ft EXCEPT ![Bcast] = rt]
<1>1. s \in NodeState /\ s.ft \in [Dest -> Route] /\ Bcast \in Dest /\ n # Bcast
  BY BcastAssumption DEF Good, Tables, NodeState, Dest
<1>2. DirectRoute(Bcast) \in Entry
  BY DEF DirectRoute, Entry, Dest, RouteState
<1>3. rt \in Route /\ (rt # NoRoute /\ s.ft[Bcast] = NoRoute => rt.next = Bcast)
  BY <1>1, <1>2 DEF DirectRoute, Route
<1>4. t = [s EXCEPT !.up = TRUE, !.ft = ft]
  BY <1>1 DEF NotifyInterfaceUp
<1>5. ft \in [Dest -> Route] /\ \A d \in Dest : ft[d] = IF d = Bcast THEN rt ELSE s.ft[d]
  BY <1>1, <1>3
<1>6. s.ft[Bcast] # NoRoute => rt = s.ft[Bcast]
  OBVIOUS
<1> HIDE DEF t, ft, rt
<1>7. /\ t \in NodeState /\ t.nb = s.nb /\ t.expired = s.expired /\ t.ntimer = s.ntimer
      /\ t.ft = ft /\ t.dvt = s.dvt /\ t.known = s.known /\ t.prq = s.prq /\ t.late = s.late
  BY <1>1, <1>4, <1>5 DEF NodeState
<1>8. Backed(t)
  <2>1. Backed(s)
    BY DEF Good, Tables
  <2> QED BY <1>3, <1>5, <1>6, <1>7, <2>1 DEF Backed
<1>9. Owned(n, t)
  BY <1>1, <1>5, <1>7 DEF Good, Tables, Owned, Dest
<1>10. Watched(n, t)
  BY <1>7 DEF Good, Watched, Neighbors
<1>11. Queued(n, t)
  BY <1>7 DEF Good, Queued
<1>12. n \notin Neighbors(t)
  BY <1>7 DEF Good, Tables, Neighbors
<1>13. Keeps(s, t)
  BY <1>2, <1>5, <1>6, <1>7 DEF Keeps
<1> QED BY <1>7, <1>8, <1>9, <1>10, <1>11, <1>12, <1>13 DEF Good, Tables, t

LEMMA InitialStateGood ==
  ASSUME NEW n \in Node
  PROVE  Good(n, InitialState)
<1> DEFINE ft == [d \in Dest |-> NoRoute]
           dvt == [m \in Node |-> ft]
           s == [nb |-> << >>, expired |-> {}, ntimer |-> EnableHello, htimer |-> EnableHello,
                 ft |-> ft, known |-> {}, dvt |-> dvt, prq |-> << >>, late |-> {}, up |-> FALSE]
<1>1. InitialState = NotifyInterfaceUp(s)
  BY DEF InitialState
<1>2. /\ ft \in [Dest -> Route] /\ dvt \in [Node -> [Dest -> Route]]
      /\ \A d \in Dest : ft[d] = NoRoute
      /\ \A m \in Node, d \in Dest : dvt[m][d] = NoRoute
  BY DEF Route
<1> HIDE DEF ft, dvt
<1>3. << >> \in Seq(Node) /\ << >> \in Seq(PendingReply) /\ Len(<< >>) = 0
  OBVIOUS
<1>4. s \in NodeState
  BY <1>2, <1>3, EnableHelloAssumption DEF NodeState
<1>5. s.nb = << >> /\ s.expired = {} /\ s.ft = ft /\ s.dvt = dvt /\ s.prq = << >> /\ s.late = {}
  OBVIOUS
<1> HIDE DEF s
<1>6. Neighbors(s) = {} /\ Elems(s.prq) = {} /\ Distinct(s.nb) /\ Distinct(s.prq)
  BY <1>3, <1>5 DEF Neighbors, Elems, Distinct
<1>7. Backed(s)
  BY <1>2, <1>5 DEF Backed
<1>8. Owned(n, s)
  BY <1>2, <1>5 DEF Owned, Dest
<1>9. Watched(n, s)
  BY <1>5, <1>6 DEF Watched
<1>10. Queued(n, s)
  BY <1>3, <1>5, <1>6, MaxPRQueueLenAssumption DEF Queued
<1>11. Good(n, s)
  BY <1>4, <1>6, <1>7, <1>8, <1>9, <1>10 DEF Good, Tables
<1> QED BY <1>1, <1>11, NotifyInterfaceUpGood

\* Time passes for a neighbour, and for a pending reply.
LEMMA NeighborExpiresGood ==
  ASSUME NEW n \in Node, NEW s, Good(n, s), NEW m \in Neighbors(s)
  PROVE  LET t == [s EXCEPT !.expired = @ \cup {m}] IN Good(n, t) /\ Keeps(s, t)
<1> DEFINE t == [s EXCEPT !.expired = s.expired \cup {m}]
<1>1. s \in NodeState /\ m \in Node /\ m \in Neighbors(s)
  BY NeighborsNodes DEF Good, Tables
<1>2. /\ t \in NodeState /\ t.nb = s.nb /\ t.expired = s.expired \cup {m} /\ t.ntimer = s.ntimer
      /\ t.ft = s.ft /\ t.dvt = s.dvt /\ t.known = s.known /\ t.prq = s.prq /\ t.late = s.late
  BY <1>1 DEF NodeState
<1> HIDE DEF t
<1>3. Tables(n, t)
  BY <1>2, SameTables DEF Good, Tables, Neighbors
<1>4. Watched(n, t)
  BY <1>1, <1>2 DEF Good, Watched, Neighbors
<1>5. Queued(n, t)
  BY <1>2 DEF Good, Queued
<1> QED BY <1>2, <1>3, <1>4, <1>5 DEF Good, Keeps, t

LEMMA PendingReplyExpiresGood ==
  ASSUME NEW n \in Node, NEW s, Good(n, s), NEW e \in Elems(s.prq)
  PROVE  LET t == [s EXCEPT !.late = @ \cup {e}] IN Good(n, t) /\ Keeps(s, t)
<1> DEFINE t == [s EXCEPT !.late = s.late \cup {e}]
<1>1. s \in NodeState /\ e \in PendingReply /\ e \in Elems(s.prq)
  BY DEF Good, Tables, NodeState, Elems
<1>2. /\ t \in NodeState /\ t.nb = s.nb /\ t.expired = s.expired /\ t.ntimer = s.ntimer
      /\ t.ft = s.ft /\ t.dvt = s.dvt /\ t.known = s.known
      /\ t.prq = s.prq /\ t.late = s.late \cup {e}
  BY <1>1 DEF NodeState
<1> HIDE DEF t
<1>3. Tables(n, t)
  BY <1>2, SameTables DEF Good, Tables, Neighbors
<1>4. Watched(n, t)
  BY <1>2 DEF Good, Watched, Neighbors
<1>5. Queued(n, t)
  BY <1>1, <1>2 DEF Good, Queued
<1> QED BY <1>2, <1>3, <1>4, <1>5 DEF Good, Keeps, t

-----------------------------------------------------------------------------
(* Where routes come from.  R[d] stands for the routes to node d that the    *)
(* network can account for, L for the nodes it links to the node: a handler  *)
(* makes no route to a node up, and tells its neighbours of none but these.  *)

Sound(s, L, R) ==
  /\ Neighbors(s) \subseteq L
  /\ \A d \in Node : s.ft[d] \in R[d] \cup {NoRoute}
  /\ \A m, d \in Node : s.dvt[m][d] \in R[d] \cup {NoRoute}

\* The UPDATEs in out go to linked nodes, and pass on a route of R.
Honest(out, L, R) ==
  \A u \in out :
    /\ u.to \in L
    /\ u.dst \in Node => \E rt \in R[u.dst] : u.hops = rt.hops /\ u.state = rt.state

\* The loop over the neighbours selects among rows: for a node, whose routes are
\* backed, it never turns a route INACTIVE.
LEMMA ComputeForwardingTableSound ==
  ASSUME NEW n \in Node, NEW s, Tables(n, s), NEW L, NEW R, Sound(s, L, R)
  PROVE  Sound(ComputeForwardingTable(s), L, R)
<1> DEFINE t == ComputeForwardingTable(s)
<1>1. s \in NodeState /\ s.nb \in Seq(Node) /\ s.known \in SUBSET Node
  BY DEF Tables, NodeState
<1>2. /\ t.dvt = s.dvt /\ t.nb = s.nb
      /\ \A d \in Dest : t.ft[d] = ComputeRoute(s, d)
  BY <1>1 DEF ComputeForwardingTable, NodeState
<1> HIDE DEF t
<1>3. ASSUME NEW d \in Node PROVE t.ft[d] \in R[d] \cup {NoRoute}
  <2> DEFINE A == R[d] \cup {NoRoute}
             S == RoutesTo(n, s, d) \cap A
  <2>1. d \in Dest /\ d # Bcast
    BY BcastAssumption DEF Dest
  <2>2. s.ft[d] \in S
    BY <1>1, <2>1 DEF RoutesTo, Tables, Backed, Owned, NodeState, Sound
  <2>3. ASSUME NEW x \in S, NEW i \in Node PROVE Visit(s, d, x, i) \in S
    <3>1. Visit(s, d, x, i) \in RoutesTo(n, s, d)
      BY <2>1, VisitRoutes
    <3>2. s.dvt[i][d] \in A
      BY DEF Sound
    <3>3. x # NoRoute => RefreshForwardingTable(s, d, x) \in A
      BY <1>1, <2>1 DEF RoutesTo, RefreshForwardingTable, Sound
    <3>4. \/ Visit(s, d, x, i) \in {x, s.dvt[i][d]}
          \/ x # NoRoute /\ Visit(s, d, x, i) = RefreshForwardingTable(s, d, x)
      BY DEF Visit
    <3> QED BY <3>1, <3>2, <3>3, <3>4
  <2> HIDE DEF S
  <2>4. ComputeRoute(s, d) \in S
    BY <1>1, <2>2, <2>3, ComputeRouteIn
  <2> QED BY <1>2, <2>1, <2>4 DEF S
<1>4. Neighbors(t) = Neighbors(s)
  BY <1>2 DEF Neighbors
<1> QED BY <1>2, <1>3, <1>4 DEF Sound, t

\* A row that is stored must be a route of R.
LEMMA UpdateDistanceVectorTableSound ==
  ASSUME NEW s \in NodeState, NEW L, NEW R, Sound(s, L, R), NEW m \in Node, NEW d \in Dest,
         NEW rt, d \in Node => rt \in R[d] \/ (m \in Neighbors(s) /\ m \in s.known)
  PROVE  Sound(UpdateDistanceVectorTable(s, m, d, rt), L, R)
<1> DEFINE t == IF s.ft[d] # NoRoute THEN RemoveFakeRoutes(s, m, d, rt) ELSE s
           u == UpdateDistanceVectorTable(s, m, d, rt)
           new == [t EXCEPT !.known = t.known \cup {m},
                            !.dvt = [t.dvt EXCEPT ![m] = [t.dvt[m] EXCEPT ![d] = rt]]]
<1>1. s.dvt \in [Node -> [Dest -> Route]] /\ Node \subseteq Dest
  BY DEF NodeState, Dest
<1>2. /\ t.nb = s.nb /\ t.ft = s.ft /\ t.known = s.known
      /\ DOMAIN t.dvt = Node /\ \A i \in Node : DOMAIN t.dvt[i] = Dest
      /\ t = [s EXCEPT !.dvt = t.dvt]
      /\ \A i, c \in Node : t.dvt[i][c] \in {s.dvt[i][c], NoRoute}
  BY <1>1 DEF RemoveFakeRoutes, NodeState
<1>3. u = IF m \in Neighbors(s) /\ m \in s.known THEN t ELSE new
  BY DEF UpdateDistanceVectorTable
<1> HIDE DEF t, u
<1>4. Sound(t, L, R)
  BY <1>2 DEF Sound, Neighbors
<1>5. CASE m \in Neighbors(s) /\ m \in s.known
  BY <1>3, <1>4, <1>5 DEF u
<1>6. CASE ~(m \in Neighbors(s) /\ m \in s.known)
  <2> DEFINE dvt == [t.dvt EXCEPT ![m] = [t.dvt[m] EXCEPT ![d] = rt]]
  <2>1. \A i, c \in Node : dvt[i][c] = IF i = m /\ c = d THEN rt ELSE t.dvt[i][c]
    BY <1>1, <1>2
  <2>2. u = [t EXCEPT !.known = t.known \cup {m}, !.dvt = dvt]
    BY <1>3, <1>6
  <2> HIDE DEF dvt
  <2>3. u.nb = t.nb /\ u.ft = t.ft /\ u.dvt = dvt
    BY <1>2, <2>2 DEF NodeState
  <2>4. ASSUME NEW i \in Node, NEW c \in Node PROVE u.dvt[i][c] \in R[c] \cup {NoRoute}
    BY <1>4, <1>6, <2>1, <2>3 DEF Sound
  <2> QED BY <1>4, <2>3, <2>4 DEF Sound, Neighbors, u
<1> QED BY <1>5, <1>6

LEMMA SendUpdateHonest ==
  ASSUME NEW n, NEW s, NEW L, NEW R, Sound(s, L, R), NEW m \in L, NEW d,
         s.ft[d] # NoRoute
  PROVE  Honest({SendUpdate(n, s, d, m)}, L, R)
BY DEF Honest, Sound, SendUpdate, Update

LEMMA ChangesHonest ==
  ASSUME NEW n, NEW s, NEW L, NEW R, Sound(s, L, R), NEW changes, NEW nex
  PROVE  Honest(SendTriggeredUpdateChangesToNeighbors(n, s, changes, nex), L, R)
<1>1. ASSUME NEW m \in Neighbors(s), NEW d \in changes \ {m}, s.ft[d] # NoRoute
      PROVE  Honest({SendUpdate(n, s, d, m)}, L, R)
  BY <1>1, SendUpdateHonest DEF Sound
<1> QED BY <1>1 DEF SendTriggeredUpdateChangesToNeighbors, Honest

\* A handler's result r is accounted for.
Proper(r, L, R) == Sound(r.s, L, R) /\ Honest(r.out, L, R)

\* The INACTIVE row of a lost neighbour is not stored: it only sets off a
\* computation over the rows that were there.
LEMMA SendUpdateOnLinkFailureProper ==
  ASSUME NEW n \in Node, NEW s, Tables(n, s), NEW L, NEW R, Sound(s, L, R),
         NEW m \in Neighbors(s)
  PROVE  Proper(SendUpdateOnLinkFailure(n, s, m), L, R)
<1> DEFINE r == SendUpdateOnLinkFailure(n, s, m)
           rt == [s.dvt[m][m] EXCEPT !.state = "INACTIVE"]
           u == UpdateDistanceVectorTable(s, m, m, rt)
           t == ComputeForwardingTable(u)
           out == SendTriggeredUpdateChangesToNeighbors(n, t, Changes(n, u, t), {m})
<1>1. s \in NodeState /\ m \in Node \ {n} /\ m \in Dest \ {n}
  BY NeighborsNodes DEF Tables, Dest
<1>2. CASE m \in Filtered \/ m \notin s.known \/ s.dvt[m][m] = NoRoute
  BY <1>2 DEF SendUpdateOnLinkFailure, Proper, Honest
<1>3. CASE m \notin Filtered /\ m \in s.known /\ s.dvt[m][m] # NoRoute
  <2>1. rt \in Entry /\ rt.next = m
    <3>1. s.dvt[m][m] = DirectRoute(m)
      BY <1>1, <1>3 DEF Tables, Owned
    <3> QED BY <3>1, <1>1 DEF DirectRoute, Entry, RouteState
  <2>2. r = [s |-> t, out |-> out]
    BY <1>3 DEF SendUpdateOnLinkFailure
  <2> HIDE DEF rt, r
  <2>3. Tables(n, u) /\ Sound(u, L, R)
    BY <1>1, <1>3, <2>1, UpdateDistanceVectorTableTables, UpdateDistanceVectorTableSound
  <2> HIDE DEF u
  <2>4. Sound(t, L, R)
    BY <2>3, ComputeForwardingTableSound
  <2> HIDE DEF t
  <2>5. Honest(out, L, R)
    BY <2>4, ChangesHonest
  <2> HIDE DEF out
  <2> QED BY <2>2, <2>4, <2>5 DEF r, Proper
<1> QED BY <1>2, <1>3

LEMMA PurgeProper ==
  ASSUME NEW n \in Node, NEW s, Tables(n, s), NEW L, NEW R, Sound(s, L, R)
  PROVE  Proper(Purge(n, s), L, R)
<1> DEFINE c == [s |-> s, out |-> {}]
           S == {x \in [s : NodeState, out : SUBSET Updates(n)] :
                   Tables(n, x.s) /\ OnlyTables(s, x.s) /\ Proper(x, L, R)}
<1>1. s \in NodeState /\ s.nb \in Seq(Node) /\ Len(s.nb) \in Nat
  BY DEF Tables, NodeState
<1>2. CASE s.nb = << >>
  BY <1>2 DEF Purge, Proper, Honest
<1>3. CASE s.nb # << >>
  <2>1. c \in S
    BY <1>1 DEF OnlyTables, Keeps, NodeState, Proper, Honest
  <2>2. ASSUME NEW k \in 1..Len(s.nb), NEW x \in S
        PROVE  AfterFailure(n, s, x, k) \in S
    <3> DEFINE y == SendUpdateOnLinkFailure(n, x.s, s.nb[k])
               z == [s |-> y.s, out |-> x.out \cup y.out]
    <3>1. /\ x.s \in NodeState /\ x.out \subseteq Updates(n) /\ Proper(x, L, R)
          /\ Tables(n, x.s) /\ OnlyTables(s, x.s) /\ s.nb[k] \in Neighbors(s)
      BY <1>1 DEF Neighbors, Elems
    <3>2. s.nb[k] \in Neighbors(x.s)
      BY <1>1, <3>1 DEF OnlyTables, NodeState, Neighbors
    <3>3. /\ Tables(n, y.s) /\ OnlyTables(x.s, y.s) /\ y.out \subseteq Updates(n)
      BY <3>1, <3>2, SendUpdateOnLinkFailureTables
    <3>4. Proper(y, L, R)
      BY <3>1, <3>2, SendUpdateOnLinkFailureProper DEF Proper
    <3> HIDE DEF y
    <3>5. OnlyTables(s, y.s) /\ y.s \in NodeState
      BY <1>1, <3>1, <3>3, OnlyTablesAgain DEF Tables
    <3>6. Proper(z, L, R)
      BY <3>1, <3>4 DEF Proper, Honest
    <3>7. z \in S
      BY <3>1, <3>3, <3>5, <3>6
    <3> QED BY <3>7 DEF y, AfterFailure
  <2>3. PICK last \in S :
          Purge(n, s) = [s |-> [last.s EXCEPT !.nb = Without(s.nb, s.expired),
                                              !.expired = {}, !.ntimer = TRUE],
                         out |-> last.out]
    <3> HIDE DEF S
    <3> QED BY <1>1, <1>3, <2>1, <2>2, PurgeIn
  <2> DEFINE r == Purge(n, s)
             nb == Without(s.nb, s.expired)
  <2>4. Elems(nb) \subseteq Neighbors(s)
    BY <1>1, WithoutElems DEF Neighbors
  <2>5. r = [s |-> [last.s EXCEPT !.nb = nb, !.expired = {}, !.ntimer = TRUE], out |-> last.out]
    BY <2>3
  <2> HIDE DEF nb, r
  <2>6. last.s \in NodeState /\ Proper(last, L, R)
    OBVIOUS
  <2>7. /\ r.s.nb = nb /\ r.s.ft = last.s.ft /\ r.s.dvt = last.s.dvt /\ r.out = last.out
    BY <2>5, <2>6 DEF NodeState
  <2>8. Neighbors(r.s) \subseteq L
    BY <2>4, <2>7 DEF Neighbors, Sound
  <2> QED BY <2>6, <2>7, <2>8 DEF Proper, Sound, r
<1> QED BY <1>2, <1>3

LEMMA NeighborUpdateProper ==
  ASSUME NEW n \in Node, NEW s, Good(n, s), NEW L, NEW R, Sound(s, L, R),
         NEW m \in Node \ {n}, m \in L
  PROVE  Proper(NeighborUpdate(n, s, m), L, R)
<1> DEFINE nb == Append(s.nb, m)
           t == [s EXCEPT !.nb = nb]
           v == [s EXCEPT !.expired = s.expired \ {m}]
<1>1. s \in NodeState /\ s.nb \in Seq(Node) /\ Tables(n, s) /\ Distinct(s.nb)
  BY DEF Good, Tables, NodeState, Watched
<1>2. CASE m \in Neighbors(s)
  <2>1. NeighborUpdate(n, s, m) = [s |-> v, out |-> {}]
    BY <1>2 DEF NeighborUpdate
  <2>2. v.nb = s.nb /\ v.ft = s.ft /\ v.dvt = s.dvt
    BY <1>1 DEF NodeState
  <2> HIDE DEF v
  <2> QED BY <2>1, <2>2 DEF Proper, Sound, Honest, Neighbors
<1>3. CASE m \notin Neighbors(s)
  <2>1. NeighborUpdate(n, s, m) = Purge(n, t)
    BY <1>3 DEF NeighborUpdate
  <2>2. nb \in Seq(Node) /\ Elems(nb) = Neighbors(s) \cup {m}
    BY <1>1, <1>3, AppendDistinct DEF Neighbors
  <2> HIDE DEF nb
  <2>3. t \in NodeState /\ t.nb = nb /\ t.ft = s.ft /\ t.dvt = s.dvt /\ t.known = s.known
    BY <1>1, <2>2 DEF NodeState
  <2> HIDE DEF t
  <2>4. Neighbors(t) = Neighbors(s) \cup {m}
    BY <2>2, <2>3 DEF Neighbors
  <2>5. Tables(n, t)
    <3>1. n \notin Neighbors(t)
      BY <1>1, <2>4 DEF Tables
    <3> QED BY <1>1, <2>3, <3>1, SameTables
  <2>6. Sound(t, L, R)
    BY <2>3, <2>4 DEF Sound
  <2> QED BY <2>1, <2>5, <2>6, PurgeProper
<1> QED BY <1>2, <1>3

\* A purge that a timer or a failed transmission sets off.
LEMMA TimedPurgeProper ==
  ASSUME NEW n \in Node, NEW s, Good(n, s), NEW L, NEW R, Sound(s, L, R)
  PROVE  /\ Proper(NTimerExpire(n, s), L, R)
         /\ \A m, match : Proper(NotifyTxError(n, s, m, match), L, R)
<1>1. s \in NodeState /\ Tables(n, s) /\ Neighbors(s) \subseteq Node
  BY NeighborsNodes DEF Good, Tables
<1>2. ASSUME NEW t \in NodeState, t.nb = s.nb, t.ft = s.ft, t.dvt = s.dvt, t.known = s.known
      PROVE  Proper(Purge(n, t), L, R)
  <2>1. Tables(n, t)
    BY <1>1, <1>2, SameTables DEF Tables, Neighbors
  <2>2. Sound(t, L, R)
    BY <1>2 DEF Sound, Neighbors
  <2> QED BY <2>1, <2>2, PurgeProper
<1>3. Proper(NTimerExpire(n, s), L, R)
  <2> DEFINE t == [s EXCEPT !.ntimer = FALSE]
  <2>1. t \in NodeState /\ t.nb = s.nb /\ t.ft = s.ft /\ t.dvt = s.dvt /\ t.known = s.known
    BY <1>1 DEF NodeState
  <2> HIDE DEF t
  <2>2. Proper(Purge(n, t), L, R)
    BY <1>2, <2>1
  <2> QED BY <2>2 DEF NTimerExpire, t
<1>4. ASSUME NEW m, NEW match PROVE Proper(NotifyTxError(n, s, m, match), L, R)
  <2> DEFINE t == IF match THEN [s EXCEPT !.expired = s.expired \cup ({m} \cap Neighbors(s))] ELSE s
  <2>1. t \in NodeState /\ t.nb = s.nb /\ t.ft = s.ft /\ t.dvt = s.dvt /\ t.known = s.known
    BY <1>1 DEF NodeState
  <2>2. NotifyTxError(n, s, m, match) = Purge(n, t)
    BY DEF NotifyTxError
  <2> HIDE DEF t
  <2> QED BY <1>2, <2>1, <2>2
<1> QED BY <1>3, <1>4

\* Replies, immediate or put off, are about installed routes.
LEMMA RetransmitToNeighborProper ==
  ASSUME NEW n \in Node, NEW s, Good(n, s), NEW L, NEW R, Sound(s, L, R),
         NEW m, NEW d, NEW hops
  PROVE  Proper(RetransmitToNeighbor(n, s, m, d, hops), L, R)
<1> DEFINE r == RetransmitToNeighbor(n, s, m, d, hops)
           en == [ne |-> m, dst |-> d]
           w == Enqueue(n, s, en)
<1>1. s \in NodeState
  BY DEF Good, Tables
<1>2. ASSUME NEW i, NEW c, MayReply(s, i, c)
      PROVE  Honest({SendUpdate(n, s, c, i)}, L, R)
  BY <1>2, SendUpdateHonest DEF MayReply, Sound
<1>3. w.s.nb = s.nb /\ w.s.ft = s.ft /\ w.s.dvt = s.dvt
  BY <1>1 DEF Enqueue, NodeState
<1>4. Honest(w.out, L, R)
  BY <1>2 DEF Enqueue, Honest
<1> HIDE DEF w
<1>5. Proper(w, L, R)
  BY <1>3, <1>4 DEF Proper, Sound, Neighbors
<1>6. ASSUME MayReply(s, m, d) PROVE Proper([s |-> s, out |-> {SendUpdate(n, s, d, m)}], L, R)
  BY <1>2, <1>6 DEF Proper
<1>7. Proper([s |-> s, out |-> {}], L, R)
  BY DEF Proper, Honest
<1>8. \/ r = [s |-> s, out |-> {}]
      \/ MayReply(s, m, d) /\ r = [s |-> s, out |-> {SendUpdate(n, s, d, m)}]
      \/ r = w
  BY DEF RetransmitToNeighbor, w
<1> QED BY <1>5, <1>6, <1>7, <1>8

\* The one place where a node makes a route up: the direct route to the sender.
LEMMA ProcessHelloProper ==
  ASSUME NEW n \in Node, NEW s, Good(n, s), NEW L, NEW R, Sound(s, L, R),
         NEW m \in Node \ {n}, m \in L, DirectRoute(m) \in R[m]
  PROVE  Proper(ProcessHello(n, s, m), L, R)
<1> DEFINE r == ProcessHello(n, s, m)
           u == IF EnableHello THEN NeighborUpdate(n, s, m) ELSE [s |-> s, out |-> {}]
           v == [u.s EXCEPT !.known = u.s.known \cup {m}]
           x == [v EXCEPT !.dvt = [v.dvt EXCEPT ![m][m] = DirectRoute(m)]]
           w == ComputeForwardingTable(x)
           y == [v EXCEPT !.dvt = [v.dvt EXCEPT ![m][m] = [v.dvt[m][m] EXCEPT !.hops = 1, !.next = m]]]
<1>1. Tables(n, u.s) /\ Proper(u, L, R)
  <2>1. CASE EnableHello
    <3>1. u = NeighborUpdate(n, s, m)
      BY <2>1
    <3> HIDE DEF u
    <3> QED BY <3>1, NeighborUpdateFine, NeighborUpdateProper
  <2>2. CASE ~EnableHello
    <3>1. u.s = s /\ u.out = {}
      BY <2>2
    <3> HIDE DEF u
    <3> QED BY <3>1 DEF Good, Proper, Honest
  <2> QED BY <2>1, <2>2
<1>2. r = IF v.dvt[m][m] = NoRoute
          THEN [s |-> w, out |-> u.out \cup SendTriggeredUpdateToNeighbor(n, w, m)]
          ELSE [s |-> y, out |-> u.out]
  BY DEF ProcessHello
<1> HIDE DEF u, r
<1>3. /\ v \in NodeState /\ v.nb = u.s.nb /\ v.ft = u.s.ft /\ v.dvt = u.s.dvt
      /\ v.known = u.s.known \cup {m}
  BY <1>1 DEF Tables, NodeState
<1> HIDE DEF v
<1>4. Tables(n, v) /\ Sound(v, L, R)
  BY <1>1, <1>3, SameTables DEF Tables, Neighbors, Proper, Sound
<1>5. v.dvt \in [Node -> [Dest -> Route]] /\ m \in Dest /\ DirectRoute(m) \in Entry
  <2>1. v.dvt \in [Node -> [Dest -> Route]]
    BY <1>3 DEF NodeState
  <2>2. DirectRoute(m) \in Entry
    BY DEF DirectRoute, Entry, Dest, RouteState
  <2> QED BY <2>1, <2>2 DEF Dest
<1>6. CASE v.dvt[m][m] = NoRoute
  <2>1. Tables(n, x) /\ Sound(x, L, R)
    <3> DEFINE dvt == [v.dvt EXCEPT ![m][m] = DirectRoute(m)]
    <3>1. dvt \in [Node -> [Dest -> Route]]
      BY <1>5 DEF Route
    <3>2. \A i \in Node, c \in Dest :
            dvt[i][c] = IF i = m /\ c = m THEN DirectRoute(m) ELSE v.dvt[i][c]
      BY <1>5
    <3> HIDE DEF dvt
    <3>3. x \in NodeState /\ x.dvt = dvt /\ x.ft = v.ft /\ x.known = v.known /\ x.nb = v.nb
      BY <1>3, <3>1 DEF NodeState, dvt
    <3> HIDE DEF x
    <3>4. Tables(n, x)
      <4>1. \A i \in Node, c \in Dest :
              x.dvt[i][c] = IF i = m /\ c = m THEN DirectRoute(m) ELSE v.dvt[i][c]
        BY <3>2, <3>3
      <4>2. Tables(n, v) /\ m \in v.known
        BY <1>3, <1>4
      <4> QED BY <3>3, <4>1, <4>2, DirectRowTables
    <3>5. Sound(x, L, R)
      BY <1>4, <3>2, <3>3 DEF Sound, Neighbors, Dest
    <3> QED BY <3>4, <3>5
  <2> HIDE DEF x
  <2>2. Tables(n, w) /\ Sound(w, L, R)
    BY <2>1, ComputeForwardingTableTables, ComputeForwardingTableSound
  <2> HIDE DEF w
  <2>3. Honest(SendTriggeredUpdateToNeighbor(n, w, m), L, R)
    <3>1. ASSUME NEW d, w.ft[d] # NoRoute PROVE Honest({SendUpdate(n, w, d, m)}, L, R)
      BY <2>2, <3>1, SendUpdateHonest
    <3> QED BY <3>1 DEF SendTriggeredUpdateToNeighbor, Honest
  <2> QED BY <1>1, <1>2, <1>6, <2>2, <2>3 DEF Proper, Honest, r
<1>7. CASE v.dvt[m][m] # NoRoute
  <2>1. v.dvt[m][m] = DirectRoute(m)
    BY <1>4, <1>5, <1>7 DEF Tables, Owned
  <2> DEFINE row == [v.dvt[m][m] EXCEPT !.hops = 1, !.next = m]
             dvt == [v.dvt EXCEPT ![m][m] = row]
  <2>2. row = DirectRoute(m)
    <3> DEFINE rt == v.dvt[m][m]
    <3>1. rt \in [hops : 0..255, next : Dest, state : RouteState] /\ rt.hops = 1 /\ rt.next = m
      BY <1>5, <2>1 DEF Entry, DirectRoute
    <3> HIDE DEF rt
    <3>2. [rt EXCEPT !.hops = 1, !.next = m] = rt
      BY <3>1
    <3> QED BY <2>1, <3>2 DEF rt
  <2> HIDE DEF row
  <2>3. \A i, c \in Node : dvt[i][c] = v.dvt[i][c]
    BY <1>5, <2>1, <2>2 DEF Dest
  <2>4. y = [v EXCEPT !.dvt = dvt]
    BY DEF row
  <2> HIDE DEF dvt
  <2>5. y.nb = v.nb /\ y.ft = v.ft /\ y.dvt = dvt
    BY <1>3, <2>4 DEF NodeState
  <2> HIDE DEF y
  <2>6. Sound(y, L, R)
    BY <1>4, <2>3, <2>5 DEF Sound, Neighbors
  <2> QED BY <1>1, <1>2, <1>7, <2>6 DEF Proper, r
<1> QED BY <1>6, <1>7

\* A row from a received UPDATE must be a route of R.
LEMMA RecvUpdateProper ==
  ASSUME NEW n \in Node, NEW s, Good(n, s), NEW L, NEW R, Sound(s, L, R),
         NEW m \in Node \ {n}, NEW d \in Dest \ {n, m},
         NEW hops \in 0..255, NEW state \in RouteState,
         d \in Node => [hops |-> HopCount(hops), next |-> m, state |-> state] \in R[d]
  PROVE  Proper(RecvUpdate(n, s, m, d, hops, state), L, R)
<1> DEFINE rt == [hops |-> HopCount(hops), next |-> m, state |-> state]
           u == UpdateDistanceVectorTable(s, m, d, rt)
           t == ComputeForwardingTable(u)
           r == IF state = "INACTIVE" /\ d # m
                THEN RetransmitToNeighbor(n, t, m, d, hops) ELSE [s |-> t, out |-> {}]
           out == SendTriggeredUpdateChangesToNeighbors(n, t, Changes(n, u, t), {})
<1>1. RecvUpdate(n, s, m, d, hops, state) = [s |-> r.s, out |-> r.out \cup out]
  BY DEF RecvUpdate
<1>2. rt \in Entry /\ rt.next = m
  BY DEF HopCount, Entry, Dest
<1>3. d \in Node => rt \in R[d]
  OBVIOUS
<1> HIDE DEF rt
<1>4. s \in NodeState /\ Tables(n, s) /\ Watched(n, s) /\ Queued(n, s)
  BY DEF Good, Tables
<1>5. Tables(n, u) /\ OnlyTables(s, u) /\ Sound(u, L, R)
  BY <1>2, <1>3, <1>4, UpdateDistanceVectorTableTables, UpdateDistanceVectorTableSound
<1> HIDE DEF u
<1>6. Tables(n, t) /\ OnlyTables(u, t) /\ Sound(t, L, R)
  BY <1>5, ComputeForwardingTableTables, ComputeForwardingTableSound
<1> HIDE DEF t
<1>7. Good(n, t)
  BY <1>4, <1>5, <1>6, OnlyTablesAgain, OnlyTablesGood
<1>8. Proper(r, L, R)
  <2>1. Proper([s |-> t, out |-> {}], L, R)
    BY <1>6 DEF Proper, Honest
  <2> QED BY <1>6, <1>7, <2>1, RetransmitToNeighborProper
<1> HIDE DEF r
<1>9. Honest(out, L, R)
  BY <1>6, ChangesHonest
<1> HIDE DEF out
<1> QED BY <1>1, <1>8, <1>9 DEF Proper, Honest

LEMMA NotifyInterfaceSound ==
  ASSUME NEW n \in Node, NEW s, Good(n, s), NEW L, NEW R, Sound(s, L, R)
  PROVE  Sound(NotifyInterfaceDown(s), L, R) /\ Sound(NotifyInterfaceUp(s), L, R)
<1>1. s \in NodeState /\ s.ft \in [Dest -> Route]
  BY DEF Good, Tables, NodeState
<1>2. Sound(NotifyInterfaceDown(s), L, R)
  <2> DEFINE t == NotifyInterfaceDown(s)
             nb == << >>
             ft == [d \in Dest |-> NoRoute]
  <2>1. t = [s EXCEPT !.up = FALSE, !.htimer = FALSE, !.nb = nb, !.expired = {}, !.ft = ft]
    BY DEF NotifyInterfaceDown
  <2>2. Elems(nb) = {} /\ \A d \in Node : ft[d] = NoRoute
    BY DEF Elems, Dest
  <2> HIDE DEF t, nb, ft
  <2>3. t.nb = nb /\ t.ft = ft /\ t.dvt = s.dvt
    BY <1>1, <2>1 DEF NodeState
  <2> QED BY <2>2, <2>3 DEF Sound, Neighbors, t
<1>3. Sound(NotifyInterfaceUp(s), L, R)
  <2> DEFINE t == NotifyInterfaceUp(s)
             rt == IF s.ft[Bcast] = NoRoute THEN DirectRoute(Bcast) ELSE s.ft[Bcast]
             ft == [s.ft EXCEPT ![Bcast] = rt]
  <2>1. t = [s EXCEPT !.up = TRUE, !.ft = ft]
    BY DEF NotifyInterfaceUp
  <2>2. \A d \in Node : ft[d] = s.ft[d]
    BY <1>1, BcastAssumption DEF Dest
  <2> HIDE DEF t, ft
  <2>3. t.nb = s.nb /\ t.ft = ft /\ t.dvt = s.dvt
    BY <1>1, <2>1 DEF NodeState
  <2> QED BY <2>2, <2>3 DEF Sound, Neighbors, t
<1> QED BY <1>2, <1>3

LEMMA InitialStateSound ==
  ASSUME NEW L, NEW R
  PROVE  Sound(InitialState, L, R)
<1> DEFINE ft == [d \in Dest |-> NoRoute]
           dvt == [m \in Node |-> ft]
           nb == << >>
           s == [nb |-> nb, expired |-> {}, ntimer |-> EnableHello, htimer |-> EnableHello,
                 ft |-> ft, known |-> {}, dvt |-> dvt, prq |-> << >>, late |-> {}, up |-> FALSE]
           t == NotifyInterfaceUp(s)
<1>1. InitialState = t
  BY DEF InitialState
<1>2. t.nb = nb /\ t.dvt = dvt /\ t.ft = [ft EXCEPT ![Bcast] = DirectRoute(Bcast)]
  BY DEF NotifyInterfaceUp, Dest
<1>3. \A d \in Node : t.ft[d] = NoRoute
  BY <1>2, BcastAssumption DEF Dest
<1>4. \A m, d \in Node : t.dvt[m][d] = NoRoute
  BY <1>2 DEF Dest
<1>5. Neighbors(t) = {}
  BY <1>2 DEF Neighbors, Elems
<1> HIDE DEF t
<1> QED BY <1>1, <1>3, <1>4, <1>5 DEF Sound
=============================================================================
