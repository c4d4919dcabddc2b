------------------------ MODULE BsdvrNeighborProofs ------------------------
(* Proofs about BsdvrNeighbor: its invariants, and that it implements        *)
(* NeighborService.                                                         *)
EXTENDS BsdvrNeighbor, TLAPS

\* Typing and PurgeInTime are inductive together: Tick needs the distance of
\* every expiry to the next purge to keep the expiry times in range.
Inv == TypeOK /\ PurgeInTime

USE HelloIntervalAssumption, DelayAssumption, OffAssumption

\* A purge establishes the invariant whatever the tables were before.
LEMMA PurgeInv ==
  ASSUME NEW table \in SUBSET Peer, NEW l, NEW hw, NEW close, hw \subseteq table,
         \A m \in table : l[m] \in (-Delay)..HelloInterval,
         ntimer \in Timer(Delay), Purge(table, l, hw, close)
  PROVE  /\ nb' \subseteq Peer /\ mac' \subseteq nb'
         /\ left' \in [Peer -> (-Delay)..HelloInterval]
         /\ ntimer' \in Timer(Delay)
         /\ PurgeInTime'
<1> DEFINE kept == {m \in table : l[m] >= 0} \ close
<1>1. nb' = kept /\ mac' = hw \cap kept
  BY DEF Purge
<1>2. left' = [m \in Peer |-> IF m \in kept THEN l[m] ELSE 0]
  BY DEF Purge
<1>3. left' \in [Peer -> (-Delay)..HelloInterval]
  BY <1>2
<1>4. ntimer' \in Timer(Delay)
  BY DEF Purge, Timer
<1>5. PurgeInTime'
  <2>1. SUFFICES ASSUME NEW m \in kept
                 PROVE  ntimer' # Off /\ ntimer' <= left'[m] + Delay
    BY <1>1 DEF PurgeInTime
  <2>2. ntimer' = Delay
    BY DEF Purge
  <2>3. left'[m] = l[m] /\ l[m] >= 0 /\ l[m] \in Int
    BY <1>2
  <2> QED BY <2>2, <2>3
<1> QED BY <1>1, <1>3, <1>4, <1>5

LEMMA InitInv == Init => Inv
BY DEF Init, Inv, TypeOK, PurgeInTime, Timer

LEMMA NextInv == Inv /\ [Next]_vars => Inv'
<1> SUFFICES ASSUME Inv, [Next]_vars PROVE Inv'
  OBVIOUS
<1> USE DEF Inv, TypeOK
<1>1. ASSUME NEW m \in Peer, Update(m) PROVE Inv'
  <2>1. PICK known \in {{}, {m}} :
          IF m \in nb
          THEN /\ left' = [left EXCEPT ![m] = IF @ > HelloInterval THEN @ ELSE HelloInterval]
               /\ mac' = mac \cup known
               /\ UNCHANGED <<nb, ntimer>>
          ELSE Purge(nb \cup {m}, [left EXCEPT ![m] = HelloInterval], mac \cup known, {})
    BY <1>1 DEF Update
  <2>2. up' \in BOOLEAN /\ htimer' \in Timer(HelloInterval)
    BY <1>1 DEF Update
  <2>3. CASE m \in nb
    <3>1. left' = [left EXCEPT ![m] = HelloInterval]
      BY <2>1, <2>3
    <3>2. PurgeInTime'
      BY <2>1, <2>3, <3>1 DEF PurgeInTime, Timer
    <3> QED BY <2>1, <2>2, <2>3, <3>1, <3>2
  <2>4. CASE m \notin nb
    <3> DEFINE l == [left EXCEPT ![m] = HelloInterval]
    <3>1. \A k \in nb \cup {m} : l[k] \in (-Delay)..HelloInterval
      OBVIOUS
    <3>2. Purge(nb \cup {m}, l, mac \cup known, {})
      BY <2>1, <2>4
    <3>3. mac \cup known \subseteq nb \cup {m}
      OBVIOUS
    <3> HIDE DEF l
    <3> QED BY <2>2, <3>1, <3>2, <3>3, PurgeInv
  <2> QED BY <2>3, <2>4
<1>2. ASSUME NEW m \in Peer, ProcessTxError(m) PROVE Inv'
  BY <1>2, PurgeInv DEF ProcessTxError
<1>3. CASE NTimerExpire
  <2>1. CASE nb = {}
    BY <1>3, <2>1 DEF NTimerExpire, PurgeInTime, Timer
  <2>2. CASE nb # {}
    BY <1>3, <2>2, PurgeInv DEF NTimerExpire
  <2> QED BY <2>1, <2>2
<1>4. CASE HelloTimerExpire
  <2>1. htimer' \in Timer(HelloInterval) /\ up' \in BOOLEAN
    BY <1>4 DEF HelloTimerExpire, Timer
  <2> QED BY <1>4, <2>1, PurgeInv DEF HelloTimerExpire
<1>5. CASE InterfaceDown
  <2>1. nb' = {} /\ mac' = {} /\ left' = [m \in Peer |-> 0] /\ ntimer' = ntimer
    BY <1>5 DEF InterfaceDown
  <2>2. htimer' = Off /\ up' = FALSE
    BY <1>5 DEF InterfaceDown
  <2>3. left' \in [Peer -> (-Delay)..HelloInterval]
    BY <2>1
  <2>4. htimer' \in Timer(HelloInterval) /\ up' \in BOOLEAN
    BY <2>2 DEF Timer
  <2> QED BY <2>1, <2>3, <2>4 DEF PurgeInTime
<1>6. CASE InterfaceUp
  BY <1>6 DEF InterfaceUp, PurgeInTime
<1>7. CASE Tick
  <2>1. ntimer' \in Timer(Delay) /\ htimer' \in Timer(HelloInterval)
    BY <1>7 DEF Tick, Elapse, Timer
  <2>2. ASSUME NEW m \in nb
        PROVE  left[m] - 1 \in (-Delay)..HelloInterval /\ ntimer - 1 <= left[m] - 1 + Delay
    BY <1>7, <2>2 DEF Tick, PurgeInTime, Timer
  <2>3. left' \in [Peer -> (-Delay)..HelloInterval]
    BY <1>7, <2>2 DEF Tick
  <2>4. PurgeInTime'
    BY <1>7, <2>2 DEF Tick, Elapse, PurgeInTime, Timer
  <2> QED BY <1>7, <2>1, <2>3, <2>4 DEF Tick
<1>8. CASE UNCHANGED vars
  BY <1>8 DEF vars, PurgeInTime
<1> QED BY <1>1, <1>2, <1>3, <1>4, <1>5, <1>6, <1>7, <1>8 DEF Next

\* The table keeps its types: only neighbours have a MAC address, and neither an
\* expiry time nor a timer ever leaves its range, whatever the delays.
THEOREM TypeCorrect == Spec => []TypeOK
<1>1. Spec => []Inv
  BY InitInv, NextInv, PTL DEF Spec
<1>2. Inv => TypeOK
  BY DEF Inv
<1> QED BY <1>1, <1>2, PTL

\* Neighbours are purged in time: in every reachable state with a neighbour,
\* m_ntimer is scheduled, and no later than Delay after the neighbour's expiry.
THEOREM PurgeInTimeHolds == Spec => []PurgeInTime
<1>1. Spec => []Inv
  BY InitInv, NextInv, PTL DEF Spec
<1>2. Inv => PurgeInTime
  BY DEF Inv
<1> QED BY <1>1, <1>2, PTL

-----------------------------------------------------------------------------
(* Refinement: every step of the table is a step of the service or none. *)

\* The mapping of left to the service's silence.
Silence == [m \in Peer |-> IF m \in nb THEN HelloInterval - left[m] ELSE 0]

LEMMA InitService == Init => Service!Init
BY DEF Init, Service!Init

\* A purge of table makes overdue members leave, close too, and joined join.
LEMMA PurgeChange ==
  ASSUME TypeOK, NEW joined \in SUBSET (Peer \ nb), NEW hw, NEW close \in SUBSET nb,
         NEW l, l = [m \in Peer |-> IF m \in joined THEN HelloInterval ELSE left[m]],
         Purge(nb \cup joined, l, hw, close)
  PROVE  \E out \in SUBSET Service!Overdue : Service!Change(out \cup close, joined)
<1> DEFINE out == {m \in nb : left[m] < 0}
           kept == {m \in nb \cup joined : l[m] >= 0} \ close
<1> HIDE DEF out, kept
<1>a. HelloInterval \in Nat
  OBVIOUS
<1>0. nb \subseteq Peer /\ \A m \in Peer : left[m] \in Int
  BY DEF TypeOK
<1>1. \A m \in nb : l[m] = left[m] /\ left[m] \in Int
  BY <1>0
<1>2. \A m \in joined : l[m] = HelloInterval
  OBVIOUS
<1>3. out \in SUBSET Service!Overdue
  <2>1. ASSUME NEW m \in nb, left[m] < 0 PROVE HelloInterval - left[m] > HelloInterval
    <3>1. left[m] \in Int
      BY <1>1
    <3> QED BY <1>a, <2>1, <3>1
  <2> QED BY <1>0, <2>1 DEF Service!Overdue, out
<1>4. nb' = kept /\ left' = [m \in Peer |-> IF m \in kept THEN l[m] ELSE 0]
  BY DEF Purge, kept
<1>5. kept = (nb \ (out \cup close)) \cup joined
  <2>1. ASSUME NEW m \in joined PROVE m \notin close /\ l[m] >= 0
    <3>1. l[m] \in Nat
      BY <1>a, <1>2
    <3> QED BY <3>1
  <2>2. ASSUME NEW m \in nb PROVE m \notin joined /\ (l[m] >= 0 <=> ~(left[m] < 0))
    <3>1. l[m] = left[m] /\ left[m] \in Int
      BY <1>1
    <3>2. left[m] >= 0 <=> ~(left[m] < 0)
      BY <3>1
    <3>3. m \notin joined
      OBVIOUS
    <3> QED BY <3>1, <3>2, <3>3
  <2> QED BY <2>1, <2>2 DEF kept, out
<1>6. Silence' = [m \in Peer |-> IF m \in nb \ ((out \cup close) \cup joined)
                                 THEN Silence[m] ELSE 0]
  <2>1. SUFFICES ASSUME NEW m \in Peer
                 PROVE  (IF m \in kept THEN HelloInterval - left'[m] ELSE 0)
                        = (IF m \in nb \ ((out \cup close) \cup joined)
                           THEN Silence[m] ELSE 0)
    BY <1>4 DEF Silence
  <2>2. CASE m \in joined
    BY <1>2, <1>4, <1>5, <2>2
  <2>3. CASE m \in nb
    BY <1>1, <1>4, <1>5, <2>3 DEF Silence
  <2>4. CASE m \notin nb \cup joined
    BY <1>5, <2>4
  <2> QED BY <2>2, <2>3, <2>4
<1>7. Service!Change(out \cup close, joined)
  BY <1>4, <1>5, <1>6 DEF Service!Change, Silence
<1> QED BY <1>3, <1>7

LEMMA NextService == Inv /\ [Next]_vars => [Service!Next]_(Service!vars)
<1> SUFFICES ASSUME Inv, [Next]_vars PROVE [Service!Next]_(Service!vars)
  OBVIOUS
<1> USE DEF Inv
<1>1. ASSUME NEW m \in Peer, Update(m) PROVE Service!Next
  <2>1. CASE m \in nb
    <3>1. left' = [left EXCEPT ![m] = HelloInterval] /\ nb' = nb
      BY <1>1, <2>1 DEF Update, TypeOK
    <3>2. Silence' = [k \in Peer |-> IF k \in nb \ {m} THEN Silence[k] ELSE 0]
      BY <2>1, <3>1 DEF Silence, TypeOK
    <3>3. Service!Change({}, {m})
      BY <2>1, <3>1, <3>2 DEF Service!Change, Silence
    <3>4. Service!Heard(m)
      BY <3>3 DEF Service!Heard
    <3> QED BY <3>4 DEF Service!Next
  <2>2. CASE m \notin nb
    <3>1. PICK known \in {{}, {m}} :
            Purge(nb \cup {m}, [left EXCEPT ![m] = HelloInterval], mac \cup known, {})
      BY <1>1, <2>2 DEF Update
    <3>2. [left EXCEPT ![m] = HelloInterval]
          = [k \in Peer |-> IF k \in {m} THEN HelloInterval ELSE left[k]]
      BY DEF TypeOK
    <3>3. PICK out \in SUBSET Service!Overdue : Service!Change(out \cup {}, {m})
      BY <2>2, <3>1, <3>2, PurgeChange
    <3>4. out \in SUBSET (Service!Overdue \ {m})
      BY <2>2 DEF Service!Overdue
    <3>5. out \cup {} = out
      OBVIOUS
    <3>6. Service!Heard(m)
      BY <3>3, <3>4, <3>5 DEF Service!Heard
    <3> QED BY <3>6 DEF Service!Next
  <2> QED BY <2>1, <2>2
<1>2. ASSUME NEW close \in SUBSET nb, Purge(nb, left, mac, close)
      PROVE  \E out \in SUBSET Service!Overdue : Service!Change(out \cup close, {})
  <2>1. left = [k \in Peer |-> IF k \in {} THEN HelloInterval ELSE left[k]]
    BY DEF TypeOK
  <2>2. nb \cup {} = nb
    OBVIOUS
  <2>3. Purge(nb \cup {}, left, mac, close)
    BY <1>2, <2>2
  <2>4. {} \in SUBSET (Peer \ nb) /\ TypeOK
    OBVIOUS
  <2> QED BY <2>1, <2>3, <2>4, PurgeChange
<1>3. ASSUME Purge(nb, left, mac, {}) PROVE Service!Next
  <2>1. PICK out \in SUBSET Service!Overdue : Service!Change(out \cup {}, {})
    BY <1>2, <1>3
  <2>2. out \cup {} = out
    OBVIOUS
  <2> QED BY <2>1, <2>2 DEF Service!Next, Service!GiveUp
<1>4. ASSUME NEW m \in Peer, ProcessTxError(m) PROVE Service!Next
  <2>1. CASE m \in mac
    <3>1. m \in nb /\ {m} \cap mac = {m} /\ {m} \in SUBSET nb
      BY <2>1 DEF TypeOK
    <3>2. PICK out \in SUBSET Service!Overdue : Service!Change(out \cup {m}, {})
      BY <1>2, <1>4, <3>1 DEF ProcessTxError
    <3> QED BY <3>1, <3>2 DEF Service!Next, Service!Unreachable
  <2>2. CASE m \notin mac
    <3>1. {m} \cap mac = {}
      BY <2>2
    <3> QED BY <1>3, <1>4, <3>1 DEF ProcessTxError
  <2> QED BY <2>1, <2>2
<1>5. CASE NTimerExpire
  <2>1. CASE nb = {}
    BY <1>5, <2>1 DEF NTimerExpire, Service!vars
  <2>2. CASE nb # {}
    BY <1>3, <1>5, <2>2 DEF NTimerExpire
  <2> QED BY <2>1, <2>2
<1>6. CASE HelloTimerExpire
  BY <1>3, <1>6 DEF HelloTimerExpire
<1>7. CASE InterfaceDown
  <2>1. nb' = {}
    BY <1>7 DEF InterfaceDown
  <2>2. Service!Change(nb, {})
    BY <2>1 DEF Service!Change
  <2> QED BY <2>2 DEF Service!Next, Service!Clear
<1>8. CASE InterfaceUp
  BY <1>8 DEF InterfaceUp, Service!vars
<1>9. CASE Tick
  <2>2. \A m \in nb : left[m] > -Delay /\ left[m] \in Int
    BY <1>9 DEF Tick, PurgeInTime, TypeOK, Timer
  <2>0. Delay \in Nat
    BY DelayAssumption
  <2>1. nb' = nb /\ left' = [m \in Peer |-> IF m \in nb THEN left[m] - 1 ELSE 0]
    BY <1>9, <2>0, <2>2 DEF Tick
  <2>3. \A m \in nb : Silence[m] < HelloInterval + Delay
    BY <2>2 DEF Silence, TypeOK
  <2>4. Silence' = [m \in Peer |-> IF m \in nb THEN Silence[m] + 1 ELSE 0]
    BY <2>1, <2>2 DEF Silence, TypeOK
  <2> QED BY <2>1, <2>3, <2>4 DEF Service!Next, Service!Tick, Silence
<1>10. CASE UNCHANGED vars
  BY <1>10 DEF vars, Service!vars
<1> QED BY <1>1, <1>4, <1>5, <1>6, <1>7, <1>8, <1>9, <1>10 DEF Next

\* The neighbour table implements the service: no neighbour is dropped within
\* HelloInterval of its last HELLO unless the MAC or the interface fails, and
\* none is kept for more than HelloInterval + Delay of silence.
THEOREM TableImplementsService == Spec => ServiceSpec
<1>1. Spec => []Inv
  BY InitInv, NextInv, PTL DEF Spec
<1> QED BY <1>1, InitService, NextService, PTL DEF Spec, ServiceSpec, Service!Spec
=============================================================================
