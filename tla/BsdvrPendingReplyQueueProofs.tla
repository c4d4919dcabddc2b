-------------------- MODULE BsdvrPendingReplyQueueProofs --------------------
(***************************************************************************)
(* Proofs about BsdvrPendingReplyQueue, for any lengths and time-outs: the *)
(* queue is ordered by age, and a reply leaves it only as it should.       *)
(***************************************************************************)
EXTENDS BsdvrPendingReplyQueue, RecursionLemmas

USE TimeoutsAssumption, MaxLensAssumption

Entry == [reply : Reply, left : Int, wait : Timeouts]

\* What QueueAged says of the queue, of any sequence of entries.
Aged(q) ==
  /\ q \in Seq(Entry)
  /\ \A i \in 1..Len(q) : q[i].left \in -1..q[i].wait
  /\ \A i, j \in 1..Len(q) : i < j =>
       /\ q[i].reply # q[j].reply
       /\ q[i].wait = q[j].wait => q[i].left <= q[j].left

\* With the attributes' types, QueueAged is inductive.
Inv == Aged(queue) /\ maxLen \in MaxLens /\ timeout \in Timeouts

LEMMA AgedEntries ==
  ASSUME NEW q, Aged(q), NEW i \in 1..Len(q)
  PROVE  /\ q[i] \in Entry /\ q[i].left \in Int /\ q[i].wait \in Nat
         /\ q[i].left \in -1..q[i].wait
<1>1. q \in Seq(Entry)
  BY DEF Aged
<1>2. q[i] \in Entry
  BY <1>1
<1> QED BY <1>2 DEF Aged, Entry

LEMMA AgedReplies ==
  ASSUME NEW q, Aged(q), NEW i \in 1..Len(q), NEW j \in 1..Len(q), q[i].reply = q[j].reply
  PROVE  i = j
<1>1. q \in Seq(Entry) /\ (i < j => q[i].reply # q[j].reply) /\ (j < i => q[j].reply # q[i].reply)
  BY DEF Aged
<1> QED BY <1>1

LEMMA AgedDistinct ==
  ASSUME NEW q, Aged(q)
  PROVE  Distinct(q)
BY AgedReplies DEF Distinct

\* Purging, dropping and making room leave what stays in its order.
LEMMA PicksAged ==
  ASSUME NEW q, Aged(q), NEW w \in Seq(Entry), NEW S, NEW e, Picks(e, w, q, Len(q), S)
  PROVE  Aged(w)
<1>1. q \in Seq(Entry)
  BY DEF Aged
<1>2. ASSUME NEW i \in 1..Len(w) PROVE w[i].left \in -1..w[i].wait
  <2>1. e[i] \in 1..Len(q) /\ w[i] = q[e[i]]
    BY DEF Picks
  <2> QED BY <2>1 DEF Aged
<1>3. ASSUME NEW i \in 1..Len(w), NEW j \in 1..Len(w), i < j
      PROVE  /\ w[i].reply # w[j].reply
             /\ w[i].wait = w[j].wait => w[i].left <= w[j].left
  <2>1. /\ e[i] \in 1..Len(q) /\ w[i] = q[e[i]]
        /\ e[j] \in 1..Len(q) /\ w[j] = q[e[j]] /\ e[i] < e[j]
    BY <1>3 DEF Picks
  <2> QED BY <2>1 DEF Aged
<1> QED BY <1>2, <1>3 DEF Aged

LEMMA AppendAged ==
  ASSUME NEW q, Aged(q), NEW reply \in Reply, reply \notin Replies(q), timeout \in Timeouts
  PROVE  Aged(Append(q, NewEntry(reply)))
<1> DEFINE en == NewEntry(reply)
           w == Append(q, en)
<1>1. q \in Seq(Entry) /\ Len(q) \in Nat
  BY DEF Aged
<1>2. en \in Entry /\ en.reply = reply /\ en.left = timeout /\ en.wait = timeout /\ timeout \in Nat
  BY DEF NewEntry, Entry
<1> HIDE DEF en
<1>3. /\ w \in Seq(Entry) /\ Len(w) = Len(q) + 1 /\ w[Len(q) + 1] = en
      /\ \A i \in 1..Len(q) : w[i] = q[i]
  BY <1>1, <1>2
<1>4. \A i \in 1..Len(w) : i \in 1..Len(q) \/ i = Len(q) + 1
  BY <1>1, <1>3
<1> HIDE DEF w
<1>5. \A i \in 1..Len(w) : w[i].left \in -1..w[i].wait
  BY <1>2, <1>3, <1>4 DEF Aged
<1>6. ASSUME NEW i \in 1..Len(w), NEW j \in 1..Len(w), i < j
      PROVE  /\ w[i].reply # w[j].reply
             /\ w[i].wait = w[j].wait => w[i].left <= w[j].left
  <2>1. i \in 1..Len(q)
    BY <1>1, <1>3, <1>6
  <2>2. CASE j \in 1..Len(q)
    BY <1>3, <1>6, <2>1, <2>2 DEF Aged
  <2>3. CASE j = Len(q) + 1
    <3>1. w[i] = q[i] /\ w[j] = en
      BY <1>3, <2>1, <2>3
    <3>2. q[i].reply # reply
      BY <2>1 DEF Replies
    <3>3. q[i].left \in -1..q[i].wait /\ q[i].wait \in Nat
      BY <2>1, AgedEntries
    <3> QED BY <1>2, <3>1, <3>2, <3>3
  <2> QED BY <1>4, <2>2, <2>3
<1> QED BY <1>3, <1>5, <1>6 DEF Aged, w, en

\* What Purge leaves, and the room Enqueue then makes in it.
Purged == Without(queue, Due)

Room == IF Len(Purged) = maxLen THEN Tail(Purged) ELSE Purged

LEMMA PurgeAged ==
  ASSUME Inv
  PROVE  /\ Aged(Purged) /\ Purged \in Seq(Entry)
         /\ Elems(Purged) = Elems(queue) \ Due
         /\ \E e : Picks(e, Purged, queue, Len(queue), Due)
<1>1. queue \in Seq(Entry) /\ Aged(queue)
  BY DEF Inv, Aged
<1>2. Purged \in Seq(Entry) /\ \E e : Picks(e, Purged, queue, Len(queue), Due)
  BY <1>1, WithoutPicks DEF Purged
<1>3. Elems(Purged) = Elems(queue) \ Due
  BY <1>1, WithoutElems DEF Purged
<1>4. PICK e : Picks(e, Purged, queue, Len(queue), Due)
  BY <1>2
<1>5. Aged(Purged)
  BY <1>1, <1>2, <1>4, PicksAged
<1> QED BY <1>2, <1>3, <1>5

LEMMA RoomAged ==
  ASSUME Inv
  PROVE  /\ Aged(Room) /\ Room \in Seq(Entry) /\ Elems(Room) \subseteq Elems(Purged)
         /\ \A en \in Elems(Purged) : en \notin Elems(Room) =>
              Len(Purged) = maxLen /\ Len(Purged) # 0 /\ en = Purged[1]
<1>1. Aged(Purged) /\ Purged \in Seq(Entry) /\ Distinct(Purged)
  BY PurgeAged, AgedDistinct
<1>2. CASE Len(Purged) = maxLen
  <2>1. Purged # << >> /\ Len(Purged) # 0
    BY <1>1, <1>2 DEF Inv
  <2>2. Room = Tail(Purged)
    BY <1>2 DEF Room
  <2>3. Room \in Seq(Entry) /\ \E e : Picks(e, Room, Purged, Len(Purged), {Purged[1]})
    BY <1>1, <2>1, <2>2, TailPicks
  <2>4. PICK e : Picks(e, Room, Purged, Len(Purged), {Purged[1]})
    BY <2>3
  <2>5. Aged(Room)
    BY <1>1, <2>3, <2>4, PicksAged
  <2>6. Elems(Room) = Elems(Purged) \ {Purged[1]}
    BY <1>1, <2>3, <2>4, PicksElems
  <2> QED BY <1>2, <2>1, <2>3, <2>5, <2>6
<1>3. CASE Len(Purged) # maxLen
  BY <1>1, <1>3 DEF Room
<1> QED BY <1>2, <1>3

\* The replies of a sequence are those of its elements.
LEMMA RepliesElems ==
  ASSUME NEW q
  PROVE  Replies(q) = {en.reply : en \in Elems(q)}
BY DEF Replies, Elems

-----------------------------------------------------------------------------
(* The order of the queue. *)

LEMMA InitInv == Init => Inv
<1> SUFFICES ASSUME Init PROVE Inv
  OBVIOUS
<1>1. queue \in Seq(Entry) /\ Len(queue) = 0
  BY DEF Init
<1>2. Aged(queue)
  BY <1>1 DEF Aged
<1> QED BY <1>2 DEF Inv, Init

\* What Enqueue does, in terms of Purged and Room.
LEMMA EnqueueAged ==
  ASSUME Inv, NEW reply \in Reply, Enqueue(reply)
  PROVE  /\ called' = {en.reply : en \in Due}
         /\ UNCHANGED <<maxLen, timeout>>
         /\ \/ reply \in Replies(Purged) /\ queue' = Purged
            \/ /\ reply \notin Replies(Purged) /\ reply \notin Replies(Room)
               /\ queue' = Append(Room, NewEntry(reply))
         /\ Aged(queue')
<1>1. /\ called' = {en.reply : en \in Due} /\ UNCHANGED <<maxLen, timeout>>
      /\ queue' = IF reply \in Replies(Purged) THEN Purged ELSE Append(Room, NewEntry(reply))
  BY DEF Enqueue, Purged, Room
<1>2. /\ Aged(Purged) /\ Purged \in Seq(Entry)
      /\ Aged(Room) /\ Room \in Seq(Entry) /\ Elems(Room) \subseteq Elems(Purged)
  BY PurgeAged, RoomAged
<1>3. reply \notin Replies(Purged) => reply \notin Replies(Room)
  BY <1>2, RepliesElems
<1>4. reply \notin Replies(Room) => Aged(Append(Room, NewEntry(reply)))
  BY <1>2, AppendAged DEF Inv
<1> QED BY <1>1, <1>2, <1>3, <1>4

\* Time passes alike for all entries.
LEMMA TickAged ==
  ASSUME Inv, Tick
  PROVE  Aged(queue') /\ Replies(queue') = Replies(queue)
<1>1. /\ queue \in Seq(Entry)
      /\ \A i \in 1..Len(queue) : queue[i].left \in -1..queue[i].wait
      /\ \A i, j \in 1..Len(queue) : i < j =>
           /\ queue[i].reply # queue[j].reply
           /\ queue[i].wait = queue[j].wait => queue[i].left <= queue[j].left
  BY DEF Inv, Aged
<1>2. ASSUME NEW i \in 1..Len(queue)
      PROVE  LET en == [queue[i] EXCEPT !.left = IF @ < 0 THEN @ ELSE @ - 1]
             IN  /\ en \in Entry /\ en.reply = queue[i].reply /\ en.wait = queue[i].wait
                 /\ en.left = IF queue[i].left < 0 THEN queue[i].left ELSE queue[i].left - 1
  <2>1. queue[i] \in Entry
    BY <1>1
  <2> QED BY <2>1 DEF Entry
<1>3. queue' = [i \in 1..Len(queue) |->
                  [queue[i] EXCEPT !.left = IF @ < 0 THEN @ ELSE @ - 1]]
  BY DEF Tick
<1>4. /\ queue' \in Seq(Entry) /\ Len(queue') = Len(queue)
      /\ \A i \in 1..Len(queue) :
           /\ queue'[i].reply = queue[i].reply /\ queue'[i].wait = queue[i].wait
           /\ queue'[i].left = IF queue[i].left < 0 THEN queue[i].left ELSE queue[i].left - 1
  <2> DEFINE en(i) == [queue[i] EXCEPT !.left = IF @ < 0 THEN @ ELSE @ - 1]
  <2>1. ASSUME NEW i \in 1..Len(queue)
        PROVE  /\ en(i) \in Entry /\ en(i).reply = queue[i].reply /\ en(i).wait = queue[i].wait
               /\ en(i).left = IF queue[i].left < 0 THEN queue[i].left ELSE queue[i].left - 1
    BY <1>2
  <2>2. queue' = [i \in 1..Len(queue) |-> en(i)] /\ Len(queue) \in Nat
    BY <1>1, <1>3
  <2> HIDE DEF en
  <2>3. queue' \in Seq(Entry) /\ Len(queue') = Len(queue)
    BY <2>1, <2>2
  <2>4. \A i \in 1..Len(queue) : queue'[i] = en(i)
    BY <2>2
  <2> QED BY <2>1, <2>3, <2>4
<1>5. \A i \in 1..Len(queue) :
        queue[i].left \in -1..queue[i].wait /\ queue[i].wait \in Nat /\ queue[i].left \in Int
  BY AgedEntries DEF Inv
<1>6. ASSUME NEW i \in 1..Len(queue')
      PROVE  queue'[i].left \in -1..queue'[i].wait
  <2>0. i \in 1..Len(queue)
    BY <1>4
  <2>1. /\ queue'[i].wait = queue[i].wait
        /\ queue'[i].left = IF queue[i].left < 0 THEN queue[i].left ELSE queue[i].left - 1
    BY <1>4, <2>0, Zenon
  <2>2. queue[i].left \in -1..queue[i].wait /\ queue[i].wait \in Nat /\ queue[i].left \in Int
    BY <1>5, <2>0, Zenon
  <2> QED BY <2>1, <2>2
<1>7. ASSUME NEW i \in 1..Len(queue'), NEW j \in 1..Len(queue'), i < j
      PROVE  /\ queue'[i].reply # queue'[j].reply
             /\ queue'[i].wait = queue'[j].wait => queue'[i].left <= queue'[j].left
  <2>0. i \in 1..Len(queue) /\ j \in 1..Len(queue)
    BY <1>4
  <2>1. /\ queue'[i].reply = queue[i].reply /\ queue'[i].wait = queue[i].wait
        /\ queue'[i].left = IF queue[i].left < 0 THEN queue[i].left ELSE queue[i].left - 1
        /\ queue'[j].reply = queue[j].reply /\ queue'[j].wait = queue[j].wait
        /\ queue'[j].left = IF queue[j].left < 0 THEN queue[j].left ELSE queue[j].left - 1
    BY <1>4, <2>0, Zenon
  <2>2. /\ queue[i].reply # queue[j].reply
        /\ queue[i].wait = queue[j].wait => queue[i].left <= queue[j].left
    BY <1>1, <1>7, <2>0, Zenon
  <2>3. queue[i].left \in Int /\ queue[j].left \in Int
    BY <1>5, <2>0, Zenon
  <2>4. queue'[i].reply # queue'[j].reply
    BY <2>1, <2>2, Zenon
  <2>5. ASSUME queue'[i].wait = queue'[j].wait PROVE queue'[i].left <= queue'[j].left
    <3>1. queue[i].left <= queue[j].left
      BY <2>1, <2>2, <2>5, Zenon
    <3> QED BY <2>1, <2>3, <3>1
  <2> QED BY <2>4, <2>5
<1>8. Replies(queue') = Replies(queue)
  BY <1>4 DEF Replies
<1> QED BY <1>4, <1>6, <1>7, <1>8 DEF Aged

\* What Dequeue takes out, and what that leaves.
LEMMA DequeueAged ==
  ASSUME Inv, NEW ne \in Neighbor, Dequeue(ne)
  PROVE  /\ Aged(queue') /\ Len(queue') < Len(queue) /\ called' = {}
         /\ UNCHANGED <<maxLen, timeout>>
         /\ \E i \in 1..Len(queue) :
              /\ queue[i].reply.ne = ne
              /\ \A j \in 1..(i-1) : queue[j].reply.ne # ne
              /\ Elems(queue') = Elems(queue) \ {queue[i]}
<1>1. Aged(queue) /\ queue \in Seq(Entry) /\ Distinct(queue)
  BY AgedDistinct DEF Inv, Aged
<1>2. PICK i \in 1..Len(queue) :
        /\ queue[i].reply.ne = ne
        /\ \A j \in 1..(i-1) : queue[j].reply.ne # ne
        /\ queue' = RemoveAt(queue, i)
        /\ called' = {} /\ UNCHANGED <<maxLen, timeout>>
  BY DEF Dequeue
<1>3. queue' \in Seq(Entry) /\ \E e : Picks(e, queue', queue, Len(queue), {queue[i]})
  BY <1>1, <1>2, RemovedPicks
<1>4. PICK e : Picks(e, queue', queue, Len(queue), {queue[i]})
  BY <1>3
<1>5. Aged(queue')
  BY <1>1, <1>3, <1>4, PicksAged
<1>6. /\ Elems(queue') = Elems(queue) \ {queue[i]}
      /\ Elems(queue) \cap {queue[i]} # {} => Len(queue') < Len(queue)
  BY <1>1, <1>3, <1>4, PicksElems
<1>7. queue[i] \in Elems(queue)
  BY DEF Elems
<1> QED BY <1>2, <1>5, <1>6, <1>7

LEMMA DropAged ==
  ASSUME Inv, NEW ne \in Neighbor, DropEntryWithNeighbor(ne)
  PROVE  LET gone == {en \in Elems(queue) : en.reply.ne = ne}
         IN  /\ Aged(queue') /\ called' = {} /\ UNCHANGED <<maxLen, timeout>>
             /\ Elems(queue') = Elems(queue) \ gone
             /\ gone # {} => Len(queue') < Len(queue)
<1> DEFINE gone == {en \in Elems(queue) : en.reply.ne = ne}
<1>1. Aged(queue) /\ queue \in Seq(Entry)
  BY DEF Inv, Aged
<1>2. queue' = Without(queue, gone) /\ called' = {} /\ UNCHANGED <<maxLen, timeout>>
  BY DEF DropEntryWithNeighbor
<1>3. Elems(queue) \cap gone = gone
  OBVIOUS
<1> HIDE DEF gone
<1>4. queue' \in Seq(Entry) /\ \E e : Picks(e, queue', queue, Len(queue), gone)
  BY <1>1, <1>2, WithoutPicks
<1>5. PICK e : Picks(e, queue', queue, Len(queue), gone)
  BY <1>4
<1>6. Aged(queue')
  BY <1>1, <1>4, <1>5, PicksAged
<1>7. Elems(queue') = Elems(queue) \ gone /\ (Elems(queue) \cap gone # {} => Len(queue') < Len(queue))
  BY <1>1, <1>4, <1>5, PicksElems
<1> QED BY <1>2, <1>3, <1>6, <1>7 DEF gone

LEMMA NextInv == Inv /\ [Next]_vars => Inv'
<1> SUFFICES ASSUME Inv, [Next]_vars PROVE Inv'
  OBVIOUS
<1>1. ASSUME NEW reply \in Reply, Enqueue(reply) PROVE Inv'
  BY <1>1, EnqueueAged DEF Inv, Aged
<1>2. ASSUME NEW len \in MaxLens, SetMaxQueueLen(len) PROVE Inv'
  BY <1>2 DEF SetMaxQueueLen, Inv, Aged
<1>3. ASSUME NEW t \in Timeouts, SetQueueTimeout(t) PROVE Inv'
  BY <1>3 DEF SetQueueTimeout, Inv, Aged
<1>4. CASE Tick
  <2>1. UNCHANGED <<maxLen, timeout>>
    BY <1>4 DEF Tick
  <2> QED BY <1>4, <2>1, TickAged DEF Inv, Aged
<1>5. ASSUME NEW ne \in Neighbor, Dequeue(ne) PROVE Inv'
  BY <1>5, DequeueAged DEF Inv, Aged
<1>6. ASSUME NEW ne \in Neighbor, DropEntryWithNeighbor(ne) PROVE Inv'
  BY <1>6, DropAged DEF Inv, Aged
<1>7. CASE UNCHANGED vars
  BY <1>7 DEF vars, Inv, Aged
<1> QED BY <1>1, <1>2, <1>3, <1>4, <1>5, <1>6, <1>7 DEF Next, Used

LEMMA InvHolds == Spec => []Inv
BY InitInv, NextInv, PTL DEF Spec

\* Entries that got the same time-out are ordered by the time they have left, so
\* that the front is the oldest, and no reply is held back twice.
THEOREM QueueStaysAged == Spec => []QueueAged
<1>1. Inv => QueueAged
  BY DEF Inv, Aged, Entry, QueueAged
<1> QED BY <1>1, InvHolds, PTL

-----------------------------------------------------------------------------
(* How replies leave the queue. *)

\* A reply is held back for longer than its time-out and sent once, and it is
\* lost only with its neighbour's entries or as the oldest one that still waits
\* in a full queue.
THEOREM RepliesStay == Spec => RepliesHeldBack
<1> DEFINE Held(i) ==
             LET en == queue[i]
                 sent == en.reply \in called'
                 stays == en.reply \in Replies(queue')
                 ahead == {j \in 1..(i-1) : queue[j].left >= 0}
                 waiting == {j \in 1..Len(queue) : queue[j].left >= 0}
             IN  /\ sent => en.left < 0
                 /\ sent /\ stays =>
                      \E j \in 1..Len(queue') : queue'[j] = NewEntry(en.reply)
                 /\ ~sent /\ ~stays =>
                      \/ ahead = {} /\ Cardinality(waiting) = maxLen
                      \/ TakenOut(i) /\ Len(queue') < Len(queue) /\ called' = {}
           A == \A i \in 1..Len(queue) : Held(i)
<1>1. Inv /\ [Next]_vars => [A]_vars
  <2> SUFFICES ASSUME Inv, Next, NEW i \in 1..Len(queue) PROVE Held(i)
    OBVIOUS
  <2> DEFINE en == queue[i]
  <2>0. /\ Aged(queue) /\ queue \in Seq(Entry) /\ Len(queue) \in Nat
        /\ en \in Elems(queue) /\ en.reply \in Replies(queue)
        /\ \A j \in 1..Len(queue) : queue[j].left \in Int
    BY AgedEntries DEF Inv, Aged, Elems, Replies
  <2>1. ASSUME NEW reply \in Reply, Enqueue(reply) PROVE Held(i)
    <3>1. /\ called' = {x.reply : x \in Due}
          /\ \/ reply \in Replies(Purged) /\ queue' = Purged
             \/ reply \notin Replies(Room) /\ queue' = Append(Room, NewEntry(reply))
      BY <2>1, EnqueueAged
    <3>2. en.reply \in called' <=> en \in Due
      <4>1. ASSUME NEW x \in Due, x.reply = en.reply PROVE x = en
        BY <2>0, <4>1, AgedReplies DEF Due, Elems
      <4> QED BY <3>1, <4>1
    <3>3. en \in Due <=> en.left < 0
      BY <2>0 DEF Due, Late
    <3>4. /\ Purged \in Seq(Entry) /\ Len(Purged) \in Nat
          /\ Elems(Purged) = Elems(queue) \ Due
          /\ \E e : Picks(e, Purged, queue, Len(queue), Due)
      BY PurgeAged
    <3>5. /\ Room \in Seq(Entry) /\ Elems(Room) \subseteq Elems(Purged)
          /\ \A x \in Elems(Purged) : x \notin Elems(Room) =>
               Len(Purged) = maxLen /\ Len(Purged) # 0 /\ x = Purged[1]
      BY RoomAged
    <3>6. ASSUME queue' = Append(Room, NewEntry(reply))
          PROVE  /\ Len(queue') \in 1..Len(queue') /\ queue'[Len(queue')] = NewEntry(reply)
                 /\ Elems(queue') = Elems(Room) \cup {NewEntry(reply)}
                 /\ Replies(queue') = Replies(Room) \cup {reply}
      <4>1. NewEntry(reply) \in Entry /\ NewEntry(reply).reply = reply
        BY DEF Inv, NewEntry, Entry
      <4> HIDE DEF Inv
      <4>2. /\ Len(queue') = Len(Room) + 1 /\ Len(Room) \in Nat
            /\ queue'[Len(Room) + 1] = NewEntry(reply)
            /\ \A j \in 1..Len(Room) : queue'[j] = Room[j]
        BY <3>5, <3>6, <4>1
      <4>3. /\ \A j \in 1..Len(queue') : j \in 1..Len(Room) \/ j = Len(Room) + 1
            /\ Len(queue') \in 1..Len(queue')
            /\ \A j \in 1..Len(Room) : j \in 1..Len(queue')
        BY <4>2
      <4>4. Elems(queue') = Elems(Room) \cup {NewEntry(reply)}
        BY <4>2, <4>3 DEF Elems
      <4>5. Replies(queue') = Replies(Room) \cup {reply}
        BY <4>1, <4>4, RepliesElems
      <4> QED BY <4>2, <4>3, <4>4, <4>5
    <3>7. ASSUME en \in Due, en.reply \in Replies(queue')
          PROVE  \E j \in 1..Len(queue') : queue'[j] = NewEntry(en.reply)
      <4>1. en.reply \notin Replies(Purged)
        <5>1. ASSUME NEW x \in Elems(Purged), x.reply = en.reply PROVE FALSE
          <6>1. x \in Elems(queue) /\ x \notin Due
            BY <3>4
          <6>2. x = en
            BY <2>0, <5>1, <6>1, AgedReplies DEF Elems
          <6> QED BY <3>7, <6>1, <6>2
        <5> QED BY <5>1, RepliesElems
      <4>2. en.reply \notin Replies(Room)
        BY <3>5, <4>1, RepliesElems
      <4>3. queue' = Append(Room, NewEntry(reply))
        BY <3>1, <3>7, <4>1
      <4>4. en.reply = reply
        BY <3>6, <3>7, <4>2, <4>3
      <4> QED BY <3>6, <4>3, <4>4
    <3>8. ASSUME en \notin Due, en.reply \notin Replies(queue')
          PROVE  /\ {j \in 1..(i-1) : queue[j].left >= 0} = {}
                 /\ Cardinality({j \in 1..Len(queue) : queue[j].left >= 0}) = maxLen
      <4>1. en \in Elems(Purged)
        BY <2>0, <3>4, <3>8
      <4>2. queue' = Append(Room, NewEntry(reply))
        <5>1. en.reply \in Replies(Purged)
          BY <4>1, RepliesElems
        <5> QED BY <3>1, <3>8, <5>1
      <4>3. en \notin Elems(Room)
        <5>1. en.reply \notin Replies(Room)
          BY <3>6, <3>8, <4>2
        <5> QED BY <5>1, RepliesElems
      <4>4. Len(Purged) = maxLen /\ Len(Purged) # 0 /\ en = Purged[1]
        BY <3>5, <4>1, <4>3
      <4>5. PICK e : Picks(e, Purged, queue, Len(queue), Due)
        BY <3>4
      <4>6. \A j \in 1..Len(queue) : queue[j] \notin Due <=> queue[j].left >= 0
        BY <2>0 DEF Due, Late, Elems
      <4>7. Cardinality({j \in 1..Len(queue) : queue[j] \notin Due}) = Len(Purged)
        BY <2>0, <3>4, <4>5, PicksCount
      <4>8. {j \in 1..Len(queue) : queue[j] \notin Due} = {j \in 1..Len(queue) : queue[j].left >= 0}
        BY <4>6
      <4>9. ASSUME NEW j \in 1..(i-1), queue[j].left >= 0 PROVE FALSE
        <5>1. j \in 1..Len(queue) /\ j < i
          BY <2>0
        <5>2. PICK k \in 1..Len(Purged) : e[k] = j
          BY <4>5, <4>6, <4>9, <5>1 DEF Picks
        <5>3. 1 \in 1..Len(Purged) /\ e[1] \in 1..Len(queue) /\ queue[e[1]] = en
          <6>1. 1 \in 1..Len(Purged)
            BY <3>4, <4>4
          <6>2. e[1] \in 1..Len(queue) /\ Purged[1] = queue[e[1]]
            BY <4>5, <6>1 DEF Picks
          <6> QED BY <4>4, <6>1, <6>2
        <5>4. e[1] = i
          BY <2>0, <5>3, AgedReplies
        <5>5. k = 1 \/ 1 < k
          BY <3>4
        <5>6. 1 < k => e[1] < e[k]
          BY <4>5, <5>3 DEF Picks
        <5> QED BY <5>1, <5>2, <5>4, <5>5, <5>6
      <4> QED BY <4>4, <4>7, <4>8, <4>9
    <3> QED BY <3>2, <3>3, <3>7, <3>8
  <2>2. ASSUME called' = {}, Replies(queue') = Replies(queue) PROVE Held(i)
    BY <2>0, <2>2
  <2>3. CASE Tick
    BY <2>2, <2>3, TickAged DEF Tick
  <2>4. ASSUME NEW len \in MaxLens, SetMaxQueueLen(len) PROVE Held(i)
    BY <2>2, <2>4 DEF SetMaxQueueLen, Replies
  <2>5. ASSUME NEW t \in Timeouts, SetQueueTimeout(t) PROVE Held(i)
    BY <2>2, <2>5 DEF SetQueueTimeout, Replies
  <2>6. ASSUME NEW ne \in Neighbor, Dequeue(ne) PROVE Held(i)
    <3>1. PICK k \in 1..Len(queue) :
            /\ queue[k].reply.ne = ne
            /\ \A j \in 1..(k-1) : queue[j].reply.ne # ne
            /\ Elems(queue') = Elems(queue) \ {queue[k]}
      BY <2>6, DequeueAged
    <3>2. called' = {} /\ Len(queue') < Len(queue)
      BY <2>6, DequeueAged
    <3>3. ASSUME en.reply \notin Replies(queue') PROVE TakenOut(i)
      <4>1. en \notin Elems(queue')
        BY <3>3, RepliesElems
      <4>2. en = queue[k]
        BY <2>0, <3>1, <4>1
      <4>3. i = k
        BY <2>0, <4>2, AgedReplies
      <4> QED BY <3>1, <4>3 DEF TakenOut
    <3> QED BY <3>2, <3>3
  <2>7. ASSUME NEW ne \in Neighbor, DropEntryWithNeighbor(ne) PROVE Held(i)
    <3> DEFINE gone == {x \in Elems(queue) : x.reply.ne = ne}
    <3>1. /\ called' = {} /\ Elems(queue') = Elems(queue) \ gone
          /\ gone # {} => Len(queue') < Len(queue)
      BY <2>7, DropAged
    <3>2. ASSUME en.reply \notin Replies(queue') PROVE TakenOut(i) /\ Len(queue') < Len(queue)
      <4>1. en \notin Elems(queue')
        BY <3>2, RepliesElems
      <4>2. en \in gone
        BY <2>0, <3>1, <4>1
      <4>3. \A reply \in Replies(queue') : reply.ne # ne
        BY <3>1, RepliesElems
      <4> QED BY <3>1, <4>2, <4>3 DEF TakenOut
    <3> QED BY <3>1, <3>2
  <2> QED BY <2>1, <2>3, <2>4, <2>5, <2>6, <2>7 DEF Next, Used
<1> QED BY <1>1, InvHolds, PTL DEF Spec, RepliesHeldBack
=============================================================================
