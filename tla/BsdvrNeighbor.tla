--------------------------- MODULE BsdvrNeighbor ---------------------------
(***************************************************************************)
(* ns3::bsdvr::Neighbors and the timers around it, in discrete time.  All  *)
(* times are kept relative to now: left[m] is m_expireTime - now, timers   *)
(* count down to 0, and Tick lets one unit of time pass.  A timer that has *)
(* reached 0 fires before time passes, as in the simulator's event list;   *)
(* events of one instant happen in any order.                              *)
(*                                                                         *)
(* A definition whose name extends the name of the one after it is that    *)
(* definition with a slip a programmer could make; nothing uses it.        *)
(***************************************************************************)
EXTENDS Integers

CONSTANTS
  Peer,           \* the nodes whose HELLOs may arrive
  HelloInterval,  \* attribute HelloInterval, the argument of Update
  Delay,          \* m_ntimer's delay, fixed by the constructor of Neighbors
  Off             \* a timer that is not running

ASSUME HelloIntervalAssumption == HelloInterval \in Nat \ {0}
ASSUME DelayAssumption == Delay \in Nat \ {0}
ASSUME OffAssumption == Off \notin Int

VARIABLES
  nb,      \* m_nb, as the set of its addresses
  left,    \* left[m] for m in nb: m_expireTime - now; 0 for the others
  mac,     \* the m in nb whose m_hardwareAddress is known
  ntimer,  \* time left on m_ntimer
  htimer,  \* time left on the protocol's m_htimer
  up       \* the protocol's interface is up

vars == <<nb, left, mac, ntimer, htimer, up>>

Timer(max) == 0..max \cup {Off}

TypeOK ==
  /\ nb \subseteq Peer /\ mac \subseteq nb
  /\ left \in [Peer -> (-Delay)..HelloInterval]
  /\ ntimer \in Timer(Delay) /\ htimer \in Timer(HelloInterval)
  /\ up \in BOOLEAN

\* Start schedules m_ntimer and DoInitialize schedules m_htimer.
Init ==
  /\ nb = {} /\ left = [m \in Peer |-> 0] /\ mac = {}
  /\ ntimer = Delay /\ htimer \in 0..HelloInterval /\ up = TRUE

\* Purge, on the table with addresses table, expiry times l, hardware addresses
\* hw and closed entries close.  An empty table returns without scheduling.
PurgeEarly(table, l, hw, close) ==
  LET kept == {m \in table : l[m] > 0} \ close
  IN  /\ nb' = kept
      /\ left' = [m \in Peer |-> IF m \in kept THEN l[m] ELSE 0]
      /\ mac' = hw \cap kept
      /\ ntimer' = IF table = {} THEN ntimer ELSE Delay

Purge(table, l, hw, close) ==
  LET kept == {m \in table : l[m] >= 0} \ close
  IN  /\ nb' = kept
      /\ left' = [m \in Peer |-> IF m \in kept THEN l[m] ELSE 0]
      /\ mac' = hw \cap kept
      /\ ntimer' = IF table = {} THEN ntimer ELSE Delay

\* A HELLO from m arrives.  The ARP cache may or may not know m.
Update(m) ==
  /\ up
  /\ \E known \in {{}, {m}} :
       IF m \in nb
       THEN /\ left' = [left EXCEPT ![m] = IF @ > HelloInterval THEN @ ELSE HelloInterval]
            /\ mac' = mac \cup known
            /\ UNCHANGED <<nb, ntimer>>
       ELSE Purge(nb \cup {m}, [left EXCEPT ![m] = HelloInterval], mac \cup known, {})
  /\ UNCHANGED <<htimer, up>>

NTimerExpireOnce ==
  /\ ntimer = 0
  /\ LET kept == {m \in nb : left[m] >= 0}
     IN  /\ nb' = kept /\ mac' = mac \cap kept
         /\ left' = [m \in Peer |-> IF m \in kept THEN left[m] ELSE 0]
  /\ ntimer' = Off
  /\ UNCHANGED <<htimer, up>>

\* m_ntimer fires; it is not running while Purge executes.
NTimerExpire ==
  /\ ntimer = 0
  /\ IF nb = {} THEN ntimer' = Off /\ UNCHANGED <<nb, left, mac>>
     ELSE Purge(nb, left, mac, {})
  /\ UNCHANGED <<htimer, up>>

\* m_htimer fires: SendHello purges, and the timer is scheduled again.
HelloTimerExpire ==
  /\ htimer = 0
  /\ Purge(nb, left, mac, {})
  /\ htimer' = HelloInterval
  /\ UNCHANGED up

\* The MAC drops a frame to m: m is closed if its hardware address is known.
ProcessTxError(m) ==
  /\ up
  /\ Purge(nb, left, mac, {m} \cap mac)
  /\ UNCHANGED <<htimer, up>>

InterfaceDownKeepsMac ==
  /\ up
  /\ up' = FALSE /\ htimer' = Off
  /\ nb' = {} /\ left' = [m \in Peer |-> 0]
  /\ UNCHANGED <<ntimer, mac>>

\* NotifyInterfaceDown: m_nb.Clear () and m_htimer.Cancel (); m_ntimer runs on.
InterfaceDown ==
  /\ up
  /\ up' = FALSE /\ htimer' = Off
  /\ nb' = {} /\ left' = [m \in Peer |-> 0] /\ mac' = {}
  /\ UNCHANGED ntimer

InterfaceUp == ~up /\ up' = TRUE /\ UNCHANGED <<nb, left, mac, ntimer, htimer>>

Elapse(t) == IF t = Off THEN Off ELSE t - 1

\* One unit of time passes.  How long a neighbour is overdue is not counted
\* beyond Delay + 1, which PurgeInTime says no neighbour reaches.
Tick ==
  /\ ntimer # 0 /\ htimer # 0
  /\ left' = [m \in Peer |-> IF m \notin nb THEN 0
                             ELSE IF left[m] < -Delay THEN left[m] ELSE left[m] - 1]
  /\ ntimer' = Elapse(ntimer) /\ htimer' = Elapse(htimer)
  /\ UNCHANGED <<nb, mac, up>>

Next ==
  \/ \E m \in Peer : Update(m) \/ ProcessTxError(m)
  \/ NTimerExpire \/ HelloTimerExpire
  \/ InterfaceDown \/ InterfaceUp
  \/ Tick

Spec == Init /\ [][Next]_vars

FairSpec == Spec /\ WF_vars(Tick) /\ WF_vars(NTimerExpire) /\ WF_vars(HelloTimerExpire)

-----------------------------------------------------------------------------

\* While there are neighbours m_ntimer runs, and it fires before any of them has
\* been expired for longer than its delay.
PurgeInTime ==
  nb # {} => /\ ntimer # Off
             /\ \A m \in nb : ntimer <= left[m] + Delay

\* The table implements the service: a neighbour is kept while its last HELLO is
\* no older than HelloInterval, and for at most Delay longer.
Service ==
  INSTANCE NeighborService
    WITH Patience <- HelloInterval, Slack <- Delay, members <- nb,
         silence <- [m \in Peer |-> IF m \in nb THEN HelloInterval - left[m] ELSE 0]

ServiceSpec == Service!Spec

\* A neighbour that falls silent is dropped.
SilentNeighborsLeave == \A m \in Peer : m \in nb /\ left[m] < 0 ~> m \notin nb \/ left[m] >= 0
=============================================================================
