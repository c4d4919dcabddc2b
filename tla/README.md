# A TLA+ model of BSDVR-NS3

BSDVR ("binary state distance vector routing") is a MANET routing protocol
written as an ns-3 module. This directory models the routing protocol object of
`src/model/` in TLA+, checks it with TLC on small instances and proves most
of the safety properties with TLAPS for all instances.

## 1. The system

One object of class `RoutingProtocol` runs on every node. It is single-threaded:
the ns-3 simulator calls one handler at a time and every handler runs to its end.
What makes it hard is the order of handlers, on one node and across nodes.

| component | state | operations | source |
|---|---|---|---|
| control plane | forwarding table, distance vector table (one table per neighbour) | receive HELLO, receive UPDATE, link failure, route computation, replies | `bsdvr.cc` 855-1626 |
| neighbour table | `m_nb`, expiry times, `m_ntimer` | Update, Purge, ProcessTxError, Clear | `bsdvr-neighbor.*` |
| pending reply queue | `m_prqueue`, time-out, maximum length | Enqueue, Purge, Dequeue, DropEntryWithNeighbor | `bsdvr-rqueue.*`, first half |
| HELLO timer | `m_htimer` | HelloTimerExpire, SendHello | `bsdvr.cc` 802-819, 1036-1070 |
| routing tables | two maps of `RoutingTableEntry` | LookupRoute, AddRoute, Update, Clear, DeleteAllRoutesFromInterface | `bsdvr-rtable.*` |
| packet buffer | `m_queue`, status of every packet | Enqueue, Dequeue, DropPolicy, DropPacketWithDst | `bsdvr-rqueue.*`, second half |
| data plane | none of its own | RouteOutput, RouteInput, Forwarding, DeferredRouteOutput, SendPacketFromQueue | `bsdvr.cc` 262-524, 1071-1094 |
| interfaces | two maps from sockets to addresses | NotifyInterfaceUp/Down, NotifyAdd/RemoveAddress | `bsdvr.cc` 545-800 |
| packet headers | - | serialise, deserialise | `bsdvr-packet.*` |
| helper, example, test, documentation | - | - | `helper/`, `examples/`, `test/`, `doc/` |

How they interact:

- A HELLO (`RecvHello`, `ProcessHello`) enters the neighbour table and, when the
  sender has no row about itself yet, the distance vector table; then the whole
  forwarding table is sent to the sender.
- An UPDATE (`RecvUpdate`) goes to the distance vector table, from there by
  `ComputeForwardingTable` to the forwarding table, and what is new there is sent
  to all neighbours. An INACTIVE UPDATE may be answered with an own route, at once
  or through the pending reply queue (`RetransmitToNeighbor`).
- `Neighbors::Purge` runs from `m_ntimer`, from the HELLO timer, from a new
  neighbour and from a transmission error. It calls back `SendUpdateOnLinkFailure`
  for every closed neighbour and only then erases them.
- `BsdvrPendingReplyQueue::Purge` runs only from `Enqueue`, and calls back
  `SendUpdateOnPendingReplyEntryTimeout` for every expired entry.
- An interface that goes down clears the neighbour table and the forwarding table
  and cancels the HELLO timer; the distance vector table, `m_ntimer` and the
  pending replies survive. When it is not the last one, only the forwarding
  table's routes over it go.
- An application's packet without a route goes to the loopback device with a tag
  (`RouteOutput`), comes back to `RouteInput` and is buffered
  (`DeferredRouteOutput`). The end of `RecvUpdate`, and nothing else, sends from
  the buffer what the forwarding table has a route for (`SendPacketFromQueue`).
- An address that is removed takes its sockets along, and the next address of the
  interface gets new ones. `SendUpdate` asserts that there is a socket for the
  address a route was learnt on.

What is hard here: UPDATEs are unacknowledged datagrams, sent once; what a node
stores depends on whether an UPDATE comes before or after a HELLO of the same
node or a purge; callbacks run in the middle of an operation on the structure
they read; two timers are started and stopped by different handlers; tables hold
copies of each other's rows; hop counts are bytes. `PROJECT.json` lists the
hazards one by one with their lines and the properties that cover them.

What makes each component correct:

- *tables*: an installed route rests on a row of its next hop; rows are about
  others and lead to their owner; route computation reaches a fixed point;
- *neighbour table*: nobody is dropped early, everybody silent is dropped in time,
  and the timer that does so is running whenever it is needed;
- *pending replies*: bounded, in order, not early, not twice, not lost;
- *network*: no node learns a route to itself, hop counts never promise too much,
  messages may be lost, late, reordered or repeated;
- *packet buffer and data plane*: bounded, no packet twice, none lost but where the
  buffer is full or the node has no interface, packets leave by the device their
  sender fixed;
- *interfaces*: every address in use has its sockets and no other has, routes go
  with the sockets they need, and no assertion fails.

## 2. Modules

| module | models |
|---|---|
| `BsdvrControlPlane` | the handlers, as operators from a node's state to a new state and the messages sent; no variables |
| `BsdvrNode` | one node in an arbitrary environment; one action per handler |
| `BsdvrNetwork` | several nodes and the network between them |
| `BsdvrNeighbor` | the neighbour table with its timers, in discrete time |
| `NeighborService` | the abstract specification of the neighbour table: who is a member after which silence |
| `BsdvrPendingReplyQueue` | the pending reply queue in discrete time |
| `BsdvrPacketBuffer` | the packet buffer, as operators; no variables |
| `BsdvrDataPlane` | one node's packets, its packet buffer and its forwarding table, under any control plane |
| `BsdvrInterfaces` | one node with several interfaces and addresses: the handlers of `BsdvrControlPlane` over the sockets, with the assertion in `SendUpdate` |
| `OrderedSets` | a sequence used as an ordered set, as the code uses its vectors: its elements, and what erase-remove_if leaves of it |
| `MC...` | instances for TLC; `MCBsdvrNode`, `MCBsdvrNetwork` and `MCBsdvrInterfaces` add the counters that bound a run |
| `BsdvrNeighborProofs` | theorems about `BsdvrNeighbor` |
| `BsdvrControlPlaneProofs` | lemmas: what each handler preserves and what it sends |
| `BsdvrNodeProofs` | theorems about `BsdvrNode` |
| `BsdvrNetworkProofs` | theorems about `BsdvrNetwork` |
| `BsdvrDataPlaneProofs` | theorems about `BsdvrDataPlane` and the buffer in it |
| `BsdvrPendingReplyQueueProofs` | theorems about `BsdvrPendingReplyQueue` |
| `BsdvrInterfacesProofs` | theorems about `BsdvrInterfaces` |
| `RecursionLemmas` | lemmas about functions defined by recursion over `0..n`, and about sequences used as ordered sets |

### State and code

A node's state (`NodeState`) has the fields `nb` (`m_nb`, in order), `expired`
(the members of `m_nb` whose `m_expireTime` has passed), `ntimer` and `htimer`
(the timer is scheduled), `ft` (`m_ForwardingTable`), `known` and `dvt` (the outer
keys and the rows of `m_DistanceVectorTable`), `prq` and `late` (`m_prqueue` and
the entries in it whose time has run out) and `up` (the sockets are open). Time
is abstracted in `BsdvrNode` and `BsdvrNetwork`: an entry expires at any moment
(`NeighborExpires`, `PendingReplyExpires`) and a scheduled timer fires at any
moment (`NTimer`, `HelloTimer`), so every order that times could give is covered,
and some that they could not. `BsdvrNeighbor` and `BsdvrPendingReplyQueue` have
the times.

Every handler is one step, with everything it calls. The loops of the code over
`m_nb` and over the tables are the recursive functions in `ComputeRoute`, `Purge`
and `Without`; the loop over destinations in `ComputeForwardingTable` is a
function over `Dest`, because visiting one destination reads and writes only that
destination's entry. A route is hop count, next hop and state: the device, the
interface and the origin of an UPDATE follow from the sender, as every node has
one interface. `NoRoute` stands for a missing map entry. Addresses are model
values; the broadcast address `Bcast` is a destination of its own, because
`NotifyInterfaceUp` puts a record for it into the forwarding table and nothing
stops it from being advertised. `Filtered` is the set of nodes in 10.1.1.1 to
10.1.1.50, which the code answers and reports nothing about.

The network (`net`) is the set of all messages sent, and any of them may be
delivered at any time: this covers loss, delay, reordering and duplication.
`InRange` is the radio topology.

`BsdvrDataPlane` has the packets on the loopback device (`loop`), the buffer
(`queue`, with `maxLen`), the forwarding table as a function from destinations to
output devices, and what the last step sent (`out`). The control plane is its
environment: a computation may install and change any route and remove none, which
is what `RoutesDoPersist` proves of `BsdvrNode`. An interface that goes down may take
any routes along: `DeleteAllRoutesFromInterface` (`bsdvr-rtable.cc:150`) compares
`m_iface`, which the model leaves out, because a HELLO changes the device of a route
and not that (`bsdvr.cc:904`). `RouteOutput` without a packet, for a route's source
address, and packets for this node have their actions. `Status (s)` (`bsdvr-rqueue.h:25`)
has an empty body and no initialisers, so `p_status` and `p_valid` of every status,
and of the temporary in every comparison, hold whatever was in memory. The program
may therefore take any branch on a status, and the model does: `Dequeue` may return
any packet for its destination, also one sent before, and `DropPolicy` may drop any
packet or find none. `cut` is a history variable that tells whether the attribute
`MaxQueueLen` was last set below the buffer's length.

`BsdvrInterfaces` has the addresses of each interface in order (`addrs`), the
unicast sockets by address (`uni`) and the subnet broadcast sockets (`sub`). Of the
latter only one per interface can be bound at a time; the map may also hold sockets
that are closed (`bsdvr.cc:736`) or failed to bind, and only their number for each
address matters, because the code finds a socket by the address kept with it.
`halted` says that an assertion failed; no step follows. A route has its `m_iface`
here. `used`, the addresses that ever had a socket, is a history variable. `NodeView`
is the state of `BsdvrNode` that this node's state stands for; `BsdvrNode` starts with
its sockets open, so until the first socket is open that is a node whose interface
has just come up. What ns-3 does is modelled as far as this code sees it, and said
in the module's head.

An operator or action whose name extends the name of the
definition after it (`VisitUnrefreshed` before `Visit`) is that definition with
one plausible slip. No specification uses it. With the slip put in the place of
the definition, TLC finds the property it is listed with in `PROJECT.json`
violated, which shows that the property depends on that piece of the code.

## 3. What the runs check

### Properties that hold

`node_tables` (`MCBsdvrNode.cfg`): nodes a, b, c, self = a, so two neighbours in
an arbitrary order in `m_nb`; three UPDATEs and two interface events, any number
of HELLOs, expiries, timers and lost frames. Three UPDATEs give a row for a third
node through each neighbour and one change, or a route, a pending reply and a
repeated one. The advertised hop counts 15, 16 and 255 become 16 (neither
comparison with the threshold holds), 17 (above it) and 0 (wrapped). c is in
`Filtered`, so every handler runs for a node of that block and for one outside it.
Deadlock is not checked: a node whose interface is down and whose
timers have stopped does stop.

- `RoutesBacked`: every installed route rests on a row of its next hop's table,
  although `RemoveFakeRoutes` erases rows.
- `RowsOwned`: rows lead to their owner, are never about this node, and the
  owner's direct row is ACTIVE with one hop as long as it exists.
- `NeighborsWatched`: while there is a neighbour `m_ntimer` is scheduled; a
  neighbour is listed once and has a table.
- `PendingRepliesBounded`: the queue's bound, no duplicates, no pointless reply. The
  queue has at most one reply here; a full queue is left to run `pending_queue` and
  the bound to the theorem.
- `ComputeSettles`: a second pass of `ComputeForwardingTable` would change nothing.
- `RoutesPersist`: routes change, but only an interface going down removes them.

`network` (`MCBsdvrNetwork.cfg`): a - b - c in a line, one failure (an expiry or a
transmission error) and one interface event, everything else unbounded; the set
of possible messages is finite, so the state space is. A line of three nodes is
the smallest topology with a route that is not direct, and with one failure a
node learns routes from both sides. c is in `Filtered`, the block of addresses that
the code reports no link failures and no pending replies to.

- `NoSelfRoutes`: no node is told about itself or has a route to itself.
- `HopsReal`: a route, row or UPDATE to another node never counts fewer hops than a
  path of nodes that hear each other has, until some node has advertised 255 hops:
  the receiver adds one in a `uint8_t`, and a count that wraps promises 0 hops.
- `NodesStayActive`: the binary state never becomes INACTIVE for a node, neither
  in a table nor in a message. This is a property of the code as it is, and a
  surprising one: see `LinkFailureAnnounced` below.
- `NodesImplementNode`: every node of the network behaves as `BsdvrNode`. So what
  is shown of a node in an arbitrary environment holds in the network, and the
  assumption `BsdvrNode` makes (an UPDATE is about neither its sender nor its
  receiver) is met.

`neighbors` (`MCBsdvrNeighbor.cfg`): two peers, HELLO interval 2, purge delay 3.
Two peers can be in any relative phase, and the two different periods let every
order of expiry, purge and HELLO occur; times are relative, so the run is
exhaustive without a bound on time. Deadlock is checked.

- `PurgeInTime`, and `ServiceSpec`: the table implements `NeighborService`.
- `SilentNeighborsLeave`: under weak fairness of time and of the two timers. The
  simulator's event list executes every scheduled event, and simulated time goes
  on to the next event; nothing is assumed about HELLOs or interfaces.

`pending_queue` (`MCBsdvrPendingReplyQueue.cfg`): two neighbours and two
destinations, so four replies; a time-out of 1 or 2 and a maximum length of 1, 2 or
3, either of which may change at any time. Entries with different time-outs, a
queue that is full and one that is longer than its bound all occur. `Dequeue` and
`DropEntryWithNeighbor` have no caller in the code and are called at any time here.

- `QueueAged`: entries with the same time-out are in the order of their age, so the
  front is the most aged; no reply is there twice.
- `RepliesHeldBack`: no early or repeated reply, and none lost except the oldest
  waiting one of a full queue, or by the two operations just named.

`data_plane` (`MCBsdvrDataPlane.cfg`): three packets, two for one destination and one
to the broadcast address, which has a route from the start; one is free to leave by
any device, the other two are bound to different devices. Two devices, so a route
can be wrong for a packet, and change to be right. A maximum length of 1 or 2 that
may change at any time, so the buffer is empty, full and overfull (`cut`);
`MaxLoop = 2` packets are on the loopback device at once, so they reach the buffer
in either order. Nothing else is bounded. Deadlock is checked.

- `BufferBounded`: whatever the statuses are, the buffer holds no packet twice and
  no more than `MaxQueueLen`, unless that was set below what it held.
- `PacketsKept`: the only ways a packet that asked for a route can be lost.
- `DeviceKept`: a packet leaves by another device than its sender fixed only when
  it had been dequeued before, since the tag that names the device is gone then.

`interfaces` (`MCBsdvrInterfaces.cfg`): an interface with one address that may get a
second, an interface with a third address, and two other nodes. `MaxInputs = 5`
HELLOs, UPDATEs and events of interfaces and addresses in all, any number of
expiries, timers and lost frames. Five inputs are enough for a first address that is
replaced and added again, with an interface that goes down and comes up after
that; for a pending reply that becomes due; and for the assertion failure that
`socket_assertion` shows. The other two nodes are symmetric. Deadlock is not checked: after an
assertion failed nothing happens, and a node without interfaces may stop.

- `SocketsMatch`: the first address of every interface that is up has its sockets,
  no other has, and neither assertion in `NotifyInterfaceDown` can fail, although a
  closed subnet broadcast socket stays in its map. This rests on what the module's
  head says of ns-3: closing a socket frees what it was bound to, and binding to
  what is taken fails.
- `RoutesLeaveWithSocket`: routes go with their socket and not otherwise.
- `OneAddressNeverHalts`: with one address in use, however often it goes and comes,
  the assertion in `SendUpdate` does not fail.
- `OneAddressImplementsNode`: and the node behaves as `BsdvrNode`, from the initial
  state on and for as long as no second address gets a socket. This is what justifies
  leaving interfaces and addresses out of `BsdvrNode` and `BsdvrNetwork`: what holds
  of every behaviour of `BsdvrNode` up to some state holds of `NodeView` up to there.

### Where the code does not do what its comments say

Each of these runs has one property that states a comment or, in the last, an
assertion, and TLC refutes it.

- `best_routes`: `ComputeForwardingTable` passes its arguments to `isBetterRoute`
  in the wrong order and installs the longer of two ACTIVE routes.
- `changes`: a changed route gets into the list of changes only if it is there
  already, so changes are never sent.
- `link_failure`: the link failure handler runs while the failed neighbour is
  still in `m_nb`, and `UpdateDistanceVectorTable` ignores UPDATEs about current
  neighbours: nothing is stored, computed or sent, and the route stays ACTIVE.
- `hello_timer`: after an interface went down and came up no HELLO is sent.
- `late_replies`: expired pending replies wait for the next `Enqueue`, possibly
  for ever. Fairness: time passes.
- `socket_assertion`: with two interfaces `NS_ASSERT (socket)` (`bsdvr.cc:1115`)
  fails: Up i2, HELLO of m on i2, Up i1, Down i2, HELLO of x on i1. The row of m
  survived its interface, the computation after x's HELLO installs it again, and
  `SendTriggeredUpdateToNeighbor` has no socket to send it to x. The same happens
  after an address is replaced by another.

More was found while modelling that has no run. Where one of these contradicts a
comment or an assertion, the place is named:

- After one failure two nodes can use each other as next hop, which no comment
  excludes. In a line a - b - c, b loses c and then stores an UPDATE of c about a,
  with 3 hops, because c is no neighbour; it hears a HELLO of c again, and the next
  computation installs the 3 hops via c over the direct route to a, for the swapped
  arguments that `best_routes` is about (`bsdvr.cc:1517`).
- If the link to c fails again in that state, `SendUpdateOnLinkFailure` calls
  `RemoveFakeRoutes`, which erases the direct row of a, a live neighbour, because the
  route to a is via c. `bsdvr.h:331` says "doesnot remove direct neighbor routes".
- A pending reply queue, or a packet buffer, that is longer than a newly set maximum
  is never cut and keeps growing (`bsdvr-rqueue.cc:41` and `:171` compare with `==`).
  `bsdvr-rqueue.h:406` and `:480` call it the maximum that may be buffered.
  The two runs about the queues have the configuration, and their properties are
  about everything else.
- A subnet broadcast socket labelled with a removed address may still be the bound
  one. A HELLO it hears makes `ProcessHello` look up an interface for an address
  that is gone (`bsdvr.cc:889`), which ends the program.
- Packets are never taken out of the buffer by `Dequeue`, and may be sent several
  times; with a full buffer it depends on uninitialised memory whether a new packet
  is taken.
- The device a sender fixed is forgotten when the packet is first dequeued, also when
  it is then kept because of that device (`bsdvr.cc:1081`).
- `ProcessHello` computes routes but does not flush the buffer: packets for a new
  neighbour wait for the next UPDATE.

## 4. What is proved

The theorems hold for all values of the constants that satisfy the assumptions
stated next to them: any set of nodes, any hop counts in a byte, `EnableHello` on
or off, any positive `MaxPRQueueLen`, any radio range, any interfaces, addresses,
packets and devices. The assumptions give constants their types and say that the
values that stand for "none" (`NoRoute`, `NoAddress`, `NoDevice`, `Off`, `Foreign`)
are none of the values they could be mistaken for. No further assumption is made.

**Nodes** (`BsdvrNodeProofs`). Every property of the run `node_tables` is a
theorem: `TypeCorrect`, `RoutesAreBacked`, `RowsAreOwned`, `NeighborsAreWatched`,
`PendingRepliesAreBounded`, `ComputationSettles` and `RoutesDoPersist`. None of the
first five invariants is inductive alone. `RoutesBacked` needs `RowsOwned`, since a
new route is a row and its next hop must be the row's owner; `RowsOwned` needs to
know that the neighbour whose link fails is in `m_nb`; the messages sent are about
neither end only because `m_nb` and the queue say so. So the inductive invariant is
their conjunction, `Good`, and `BsdvrControlPlaneProofs` has one lemma for each
handler: from a good state it goes to a good one, keeps every route, and sends
UPDATEs in `Updates(n)` only. In the middle of a handler less holds, and that is
`Tables`: the neighbour table is between a new neighbour and its first row, or
`m_ntimer` has just fired. `ComputationSettles` rests on `BetterRouteOrder`: what
`isBetterRoute` replaced never comes back, in whichever direction it compares.

**Loops.** The loops over `m_nb`, `m_prqueue` and `m_queue` are functions `f[k]`
defined from `f[k-1]`. That such a function exists (`IterationExists`), and that what
holds of `f[0]` and passes from `f[k-1]` to `f[k]` holds of them all (`Invariance`), is
proved in `RecursionLemmas` from the well-foundedness of inclusion on finite sets.
`ComputeRouteRun`, `PurgeRun`, `PurgeViaRun` and `WithoutRun` apply it to the four
loops. Of a queue that loses elements, `Picks` says which positions are left:
`Without`, `RemoveAt` and `Tail` keep the order of what they keep.

**Network** (`BsdvrNetworkProofs`). `NoSelfRoutesHolds`, and `NodesImplementNodeHolds`:
each node of a network is a `BsdvrNode`, whatever the others do. The invariant is
that all nodes are `Good` and all messages are HELLOs or in some `Updates(n)`. In
the instance `NodeSpec(k)` every handler is a copy of the one in `BsdvrControlPlane`;
a section of lemmas shows, operator by operator, that they are the same.
`NodesDoStayActive` and `HopsAreReal` are about what routes say, and share their
argument. `Sound(s, L, R)` says that s has neighbours in L only and that its routes
and rows are in R, a set of accountable routes for each destination; `Honest` says
it of UPDATEs. One lemma per handler shows that it turns a sound state into a sound
one and sends honest UPDATEs, provided R is closed under what the handlers do to
routes. With `ActiveRoutes` for R (ACTIVE, or the broadcast record) this gives
`NodesStayActive`: the link failure handler stores nothing, and all else copies what
rows and UPDATEs say. With `RealRoutes` for R (at least as many hops as the
destination is away) it gives `HopsReal`: what is within h hops of m is within h + 1 of a
node linked to m, which the lemmas about `Within` prove from its recursion. Messages
stay in `net`, so `CountsFit` never becomes true again, and the invariant needs to
hold only until it is false.

**Data plane** (`BsdvrDataPlaneProofs`). Every property of the run `data_plane` is a
theorem, for any packets, destinations, devices and lengths, and for every value
the uninitialised statuses may have. The inductive invariant is `TypeOK`, that the
queue has each packet once, and that it is no longer than `maxLen` unless `cut`.
`PacketsKept` and `DeviceKept` are about one step, and follow from what `Enqueue`, `Dequeue` and `DropPacketWithDst` leave in the queue. `ForeignAssumption`
says that a packet of another node is none of this node's.

**Pending replies** (`BsdvrPendingReplyQueueProofs`). `QueueStaysAged` and
`RepliesStay`, for any neighbours, destinations, lengths and time-outs, changed at any
time. `QueueAged` is inductive with the ranges of the two attributes: entries keep
their order when others leave (`Picks`), all of them age together, and a new one has
its whole time-out left.

**Interfaces** (`BsdvrInterfacesProofs`). `TypeCorrect`, `SocketsDoMatch`,
`OneAddressDoesNotHalt` and `RoutesDoLeaveWithSocket`, for any interfaces, addresses
and nodes. The inductive invariant `IInv` has three parts. `SocketsInv`: sockets match
(`SocketsMatch`), and the bound subnet broadcast socket of an interface is kept for an
address of that interface; it is inductive by itself, whatever the routing tables
hold. `NodeInv`: all entries, also those the distance vector table keeps when their
interface is gone, name addresses that had a socket, and a node without sockets has
neither neighbours nor routes; `node.up` says whether there are sockets. The last part
is that no assertion failed as long as at most one address was used: then each entry
names it, it has a socket whenever there is anything to send, and the socket that
hears a HELLO is its own. `NodeInv` needs the handlers on entries with an `m_iface`,
`Follows` in the lemmas.
`OneAddressDoesImplementNode` is the refinement: the initial `NodeView` is an initial
state of `BsdvrNode` (`NodeInit`), and each step of a node that had sockets for one
address only is a step of `BsdvrNode` on `NodeView` (`View(node)` in the proofs), or
leaves it alone. Before the first socket only timers run, on empty tables; the step
that opens it leads from one state with an open interface to another
(`FirstSocketStep`). One lemma per operator (`...View`) says that leaving out
the `m_iface` before or after it is the same; for the loops over the neighbours the
two runs are compared turn by turn (`ComputeRoutePlain`, `PurgeView`). Then each
action has a lemma (`...Step`) that names the step of `BsdvrNode` it is: from
`SocketsInv` the address is `m_mainAddress`, an address that gets sockets had none,
so `InterfaceUp` and `AddAddress` are the interface coming up, and when it loses them
none are left, so `InterfaceDown` and `RemoveAddress` are the interface going down.

**Neighbour table** (`BsdvrNeighborProofs`). For every set of peers, every HELLO
interval and every purge delay: `TypeCorrect`, `PurgeInTimeHolds`
(`Spec => []PurgeInTime`) and `TableImplementsService` (`Spec => ServiceSpec`). The inductive invariant is
`TypeOK /\ PurgeInTime`: the type invariant bounds expiry times from below by the
purge delay, and only `PurgeInTime` keeps `Tick` from crossing that bound;
`PurgeInTime` in turn needs the types. A purge establishes both from any table
(`PurgeInv`). For the refinement, `PurgeChange` shows once that a purge is a `Change`
of the service, and every action follows from it.

Only model-checked: `SilentNeighborsLeave`, which is a liveness property and so out of
the prover's reach. Every other property of a passing run is a theorem. Induction
over data and RECURSIVE operators are out of the prover's reach too; no module has
either.

## 5. What is not modelled, and the plan

Planned next: what remains of `Good`, the inductive invariant of `BsdvrNode`, with a
second address, where the rows of a node may name an address that is gone.

Not modelled, of the parts that are:

- *data plane*: source addresses of routes (without sockets the one of a loopback
  route is read past the end of a map); `m_iface` (section 2); error callbacks; and
  that a packet sent and the table share one `Ipv4Route` object; the assertion in `LoopbackRoute` that a
  device the sender fixed has a socket is a precondition on callers outside `src/`,
  and so is that `m_lo` and `m_ipv4` are set.
- *interfaces*: every interface is on the same subnet and has a broadcast address
  distinct from its address; an interface without an address is neither taken up nor
  down (ns-3 asserts that it has one); `DoDispose`, which ends the program; and the
  ARP caches, of which `BsdvrNeighbor` has the one of its interface.
- *network*: its nodes have one interface with one address each
  (`OneAddressImplementsNode`), and packets are not forwarded along the forwarding
  tables of several nodes; that those tables can contain loops is in the list of section 3.
- *pending replies*: `MaxPRQueueLen = 0`, for which `Enqueue` takes the front of an
  empty vector.

Left out for good: the byte layout of the headers (written and read back word by
word, no control flow), logging and printing, random streams, the helper, the
example and the test suite (which asserts nothing), and the code of ns-3 itself:
timers, sockets, ARP cache and channel are modelled from how this code uses them.
`IsNeighbor`, `GetExpireTime`, `DeleteRoute` and `SetEntryState` have no caller.
