------------------------- MODULE BsdvrPacketBuffer -------------------------
(***************************************************************************)
(* ns3::bsdvr::BsdvrQueue, the packets that wait for a route, as operators *)
(* on a sequence of entries.  A packet's destination and the device its    *)
(* sender fixed never change; tagged says that it still carries the        *)
(* DeferredRouteOutputTag with that device.                                *)
(*                                                                         *)
(* Status (s) leaves both of its members uninitialised, so each comparison *)
(* of an entry's status, with whatever constant, has an arbitrary result:  *)
(* DropPolicy may drop any entry or find none, and Dequeue may return any  *)
(* entry for its destination or none, whatever was forwarded before.       *)
(*                                                                         *)
(* EnqueueUnbounded, FitsAnywhere and DequeueErases are Enqueue, Fits and  *)
(* Dequeue with a slip a programmer could make; nothing uses them.         *)
(***************************************************************************)
EXTENDS OrderedSets, FiniteSets, SequencesExt

CONSTANTS
  Packet,   \* packets this node sends; a uid and a destination make a packet
  Dest,     \* destinations
  Device,   \* this node's network devices, one interface each
  NoDevice, \* -1: any device will do
  Dst,      \* the destination of a packet
  Oif       \* the output device its sender fixed, or NoDevice

ASSUME DstAssumption == Dst \in [Packet -> Dest]
ASSUME OifAssumption == Oif \in [Packet -> Device \cup {NoDevice}]
ASSUME NoDeviceAssumption == NoDevice \notin Device

QueueEntry == [pkt : Packet, tagged : BOOLEAN]

Packets(q) == {q[i].pkt : i \in 1..Len(q)}

DropPacketWithDst(q, dst) == Without(q, {en \in Elems(q) : Dst[en.pkt] = dst})

\* What a successful DropPolicy may leave of q.
DropPolicy(q) == {RemoveAt(q, i) : i \in 1..Len(q)}

EnqueueUnbounded(q, maxLen, p) ==
  IF p \in Packets(q) THEN {q} ELSE {Append(q, [pkt |-> p, tagged |-> TRUE])}

\* What Enqueue may make of q.  A full buffer whose DropPolicy fails refuses p;
\* a buffer longer than maxLen is not full.
Enqueue(q, maxLen, p) ==
  LET new == [pkt |-> p, tagged |-> TRUE]
  IN  IF p \in Packets(q) THEN {q}
      ELSE IF Len(q) # maxLen THEN {Append(q, new)}
      ELSE {q} \cup {Append(rest, new) : rest \in DropPolicy(q)}

FitsAnywhere(en, dev) == TRUE

\* SendPacketFromQueue's check: the tag, if there is one, allows the device.
Fits(en, dev) == en.tagged => Oif[en.pkt] \in {NoDevice, dev}

\* The indices of q that SendPacketFromQueue may take out for the devices that
\* ft gives, those it sends and those that do not fit.  RecvUpdate's question to
\* Find is part of them: without a packet there is no index.
Sendable(q, ft) == {i \in 1..Len(q) : ft[Dst[q[i].pkt]] \in Device /\ Fits(q[i], ft[Dst[q[i].pkt]])}

Unfit(q, ft) == {i \in 1..Len(q) : ft[Dst[q[i].pkt]] \in Device /\ ~Fits(q[i], ft[Dst[q[i].pkt]])}

DequeueErases(q, taken) ==
  Without(q, {q[i] : i \in taken})

\* Dequeue keeps the entry and RemovePacketTag takes its tag, sent or not.
Dequeue(q, taken) ==
  [i \in 1..Len(q) |-> IF i \in taken THEN [q[i] EXCEPT !.tagged = FALSE] ELSE q[i]]
=============================================================================
