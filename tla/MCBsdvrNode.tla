---------------------------- MODULE MCBsdvrNode ----------------------------
(***************************************************************************)
(* BsdvrNode for TLC.  The tables grow with every UPDATE, so the number of *)
(* UPDATEs and of interface events is bounded; HELLOs, expiries, timers    *)
(* and lost frames are not.                                                *)
(***************************************************************************)
EXTENDS BsdvrNode, TLC

CONSTANTS MaxUpdates, MaxInterfaceEvents

VARIABLES updates, interfaceEvents

MCInit == Init /\ updates = 0 /\ interfaceEvents = 0

MCNext ==
  \/ /\ updates < MaxUpdates /\ updates' = updates + 1
     /\ ReceiveSomeUpdate /\ UNCHANGED interfaceEvents
  \/ /\ interfaceEvents < MaxInterfaceEvents /\ interfaceEvents' = interfaceEvents + 1
     /\ InterfaceEvent /\ UNCHANGED updates
  \/ OtherEvent /\ UNCHANGED <<updates, interfaceEvents>>

MCVars == <<node, updates, interfaceEvents>>

MCSpec == MCInit /\ [][MCNext]_MCVars

Symmetry == Permutations(Peer)
=============================================================================
