--------------------------- MODULE MCBsdvrNetwork ---------------------------
(***************************************************************************)
(* BsdvrNetwork for TLC.  A failure lets a node learn from its former      *)
(* neighbour and an interface event makes it learn again, so both are      *)
(* bounded; HELLOs, deliveries and timers are not.                         *)
(***************************************************************************)
EXTENDS BsdvrNetwork, TLC

CONSTANTS a, b, c, MaxFailures, MaxInterfaceEvents

VARIABLES failures, interfaceEvents

Line == (a :> {b}) @@ (b :> {a, c}) @@ (c :> {b})

MCInit == Init /\ failures = 0 /\ interfaceEvents = 0

MCNext ==
  \/ /\ failures < MaxFailures /\ failures' = failures + 1
     /\ Failures /\ UNCHANGED interfaceEvents
  \/ /\ interfaceEvents < MaxInterfaceEvents /\ interfaceEvents' = interfaceEvents + 1
     /\ InterfaceEvents /\ UNCHANGED failures
  \/ (Hellos \/ Others) /\ UNCHANGED <<failures, interfaceEvents>>

MCVars == <<vars, failures, interfaceEvents>>

MCSpec == MCInit /\ [][MCNext]_MCVars
=============================================================================
