----------------------- MODULE BsdvrPendingReplyQueue -----------------------
(***************************************************************************)
(* ns3::bsdvr::BsdvrPendingReplyQueue in discrete time: the replies that   *)
(* RetransmitToNeighbor holds back so that bad news can overtake them.     *)
(* BsdvrControlPlane!Enqueue is the same operation without time, with the  *)
(* callback's answer; here the callback's calls are recorded in called.    *)
(*                                                                         *)
(* Times are relative to now: left is m_time - now, and an entry that has  *)
(* expired stays at -1, because only the sign of a negative time matters.  *)
(* wait, which only the properties read, is the time-out the entry got.    *)
(*                                                                         *)
(* Dequeue and DropEntryWithNeighbor are public and have no caller yet;    *)
(* here anybody may call them at any time.                                 *)
(*                                                                         *)
(* EnqueueTwice and LateAtOnce are Enqueue and Late with a slip a          *)
(* programmer could make; nothing uses them.                               *)
(***************************************************************************)
EXTENDS OrderedSets, FiniteSets, SequencesExt

CONSTANTS
  Neighbor, Destination,  \* the addresses in replies
  Timeouts,               \* the values attribute MaxPRQueueTime takes, at any time
  MaxLens                 \* the values attribute MaxPRQueueLen takes, at any time

ASSUME TimeoutsAssumption == Timeouts \subseteq Nat /\ Timeouts # {}
ASSUME MaxLensAssumption == MaxLens \subseteq Nat \ {0} /\ MaxLens # {}

VARIABLES
  queue,    \* m_prqueue
  maxLen,   \* m_maxLen
  timeout,  \* m_timeout
  called    \* the replies the last step handed to the callback

vars == <<queue, maxLen, timeout, called>>

\* What a PendingReplyEntry asks for: a reply to ne about dst.
Reply == [ne : Neighbor, dst : Destination]

Replies(q) == {q[i].reply : i \in 1..Len(q)}

\* IsExpired.
LateAtOnce(en) == en.left <= 0

Late(en) == en.left < 0

\* The entries Purge takes out and hands to the callback.
Due == {en \in Elems(queue) : Late(en)}

Init == queue = << >> /\ maxLen \in MaxLens /\ timeout \in Timeouts /\ called = {}

\* SetPendingTime (m_timeout) for a new entry.
NewEntry(reply) == [reply |-> reply, left |-> timeout, wait |-> timeout]

EnqueueTwice(reply) ==
  LET q == Without(queue, Due)
      room == IF Len(q) = maxLen THEN Tail(q) ELSE q
  IN  /\ called' = {en.reply : en \in Due}
      /\ queue' = Append(room, NewEntry(reply))
      /\ UNCHANGED <<maxLen, timeout>>

\* Enqueue purges first: the callback gets the late entries.
Enqueue(reply) ==
  LET q == Without(queue, Due)
      room == IF Len(q) = maxLen THEN Tail(q) ELSE q
  IN  /\ called' = {en.reply : en \in Due}
      /\ queue' = IF reply \in Replies(q) THEN q
                  ELSE Append(room, NewEntry(reply))
      /\ UNCHANGED <<maxLen, timeout>>

\* The first entry for ne is taken out.
Dequeue(ne) ==
  \E i \in 1..Len(queue) :
    /\ queue[i].reply.ne = ne
    /\ \A j \in 1..(i-1) : queue[j].reply.ne # ne
    /\ queue' = RemoveAt(queue, i)
    /\ called' = {} /\ UNCHANGED <<maxLen, timeout>>

\* All entries for ne go, without a purge and without the callback.
DropEntryWithNeighbor(ne) ==
  /\ queue' = Without(queue, {en \in Elems(queue) : en.reply.ne = ne})
  /\ called' = {} /\ UNCHANGED <<maxLen, timeout>>

\* The attributes may change while entries wait.
SetMaxQueueLen(len) ==
  /\ maxLen' = len
  /\ called' = {} /\ UNCHANGED <<queue, timeout>>

SetQueueTimeout(t) ==
  /\ timeout' = t
  /\ called' = {} /\ UNCHANGED <<queue, maxLen>>

\* One unit of time passes.
Tick ==
  /\ queue' = [i \in 1..Len(queue) |->
                 [queue[i] EXCEPT !.left = IF @ < 0 THEN @ ELSE @ - 1]]
  /\ called' = {} /\ UNCHANGED <<maxLen, timeout>>

\* What the program does with its queue.
Used ==
  \/ \E reply \in Reply : Enqueue(reply)
  \/ \E len \in MaxLens : SetMaxQueueLen(len)
  \/ \E t \in Timeouts : SetQueueTimeout(t)
  \/ Tick

Next ==
  \/ Used
  \/ \E ne \in Neighbor : Dequeue(ne) \/ DropEntryWithNeighbor(ne)

Spec == Init /\ [][Next]_vars

\* The program as it is.  Time passes; nothing else is promised, Enqueue depends
\* on the neighbours.
FairSpec == Init /\ [][Used]_vars /\ WF_vars(Tick)

-----------------------------------------------------------------------------

\* Entries that got the same time-out are ordered by the time they have left,
\* and none is there twice, however Purge and Enqueue mix: so as long as the
\* attribute is left alone, erasing the front "drops the most aged entry"
\* (rqueue.cc:43).
QueueAged ==
  /\ queue \in Seq([reply : Reply, left : Int, wait : Timeouts])
  /\ \A i \in 1..Len(queue) : queue[i].left \in -1..queue[i].wait
  /\ \A i, j \in 1..Len(queue) : i < j =>
       /\ queue[i].reply # queue[j].reply
       /\ queue[i].wait = queue[j].wait => queue[i].left <= queue[j].left

\* Entry i leaves with the neighbour it is for: it is that neighbour's first, or
\* nothing for that neighbour stays.
TakenOut(i) ==
  LET ne == queue[i].reply.ne
  IN  \/ \A j \in 1..(i-1) : queue[j].reply.ne # ne
      \/ \A reply \in Replies(queue') : reply.ne # ne

\* A reply is held back for longer than its time-out before the callback sends
\* it, and is sent once.  It is lost without being sent only when its neighbour's
\* entries are taken out, by a step that sends nothing, or as the oldest entry that
\* was still waiting in a full queue; Enqueue, the one caller there is, loses it in
\* no other way.
RepliesHeldBack ==
  [][\A i \in 1..Len(queue) :
       LET en == queue[i]
           sent == en.reply \in called'
           stays == en.reply \in Replies(queue')
           ahead == {j \in 1..(i-1) : queue[j].left >= 0}
           waiting == {j \in 1..Len(queue) : queue[j].left >= 0}
       IN  /\ sent => en.left < 0
           /\ sent /\ stays =>
                \E j \in 1..Len(queue') : queue'[j] = NewEntry(en.reply)
           /\ ~sent /\ ~stays =>
                \/ ahead = {} /\ Cardinality(waiting) = maxLen
                \/ TakenOut(i) /\ Len(queue') < Len(queue) /\ called' = {}]_vars

-----------------------------------------------------------------------------
(* What the repository says and the code does not do. *)

\* bsdvr.h:294: "Send Update to neighbor when its pending reply entry timer
\* expires".  A reply whose time has run out is eventually handed to the callback
\* (or is not late any more).
PendingRepliesHandled ==
  \A reply \in Reply :
    (\E i \in 1..Len(queue) : queue[i].reply = reply /\ Late(queue[i]))
      ~> reply \in called
=============================================================================
