-------------------------- MODULE MCBsdvrDataPlane --------------------------
(* A small instance of BsdvrDataPlane for TLC: two packets to a, one of them *)
(* bound to a device, and a broadcast bound to the other device.             *)
EXTENDS BsdvrDataPlane, TLC

CONSTANTS a, e1, e2, p1, p2, p3

MCDst == (p1 :> a) @@ (p2 :> a) @@ (p3 :> Bcast)

MCOif == (p1 :> NoDevice) @@ (p2 :> e1) @@ (p3 :> e2)
=============================================================================
