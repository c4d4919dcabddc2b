------------------------- MODULE MCBsdvrInterfaces -------------------------
(***************************************************************************)
(* BsdvrInterfaces for TLC: one interface that has or may get two          *)
(* addresses and one that has a third.  Messages and the events of         *)
(* interfaces and addresses are bounded together; timers, expiries and     *)
(* lost frames are not.                                                    *)
(***************************************************************************)
EXTENDS BsdvrInterfaces, TLC

CONSTANTS a1, a2, b1, i1, i2, MaxInputs

MCOn == (a1 :> i1) @@ (a2 :> i1) @@ (b1 :> i2)

VARIABLE inputs

MCInit == Init /\ addrs[i1] = <<a1>> /\ inputs = 0

MCNext ==
  \/ /\ inputs < MaxInputs /\ inputs' = inputs + 1
     /\ Message \/ InterfaceEvent
  \/ OtherEvent /\ UNCHANGED inputs

MCSpec == MCInit /\ [][MCNext]_<<vars, inputs>>

Symmetry == Permutations(Remote)
=============================================================================
