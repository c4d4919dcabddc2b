-------------------------- MODULE NeighborService --------------------------
(***************************************************************************)
(* What the neighbour table promises the routing protocol, in time.  A     *)
(* node becomes a member when a HELLO from it arrives.  A member leaves    *)
(* only after it was silent for longer than Patience, or because the MAC   *)
(* reported it unreachable, or because the interface went down; and no     *)
(* member is silent for longer than Patience + Slack.                      *)
(***************************************************************************)
EXTENDS Integers

CONSTANTS
  Peer,      \* the nodes that may become neighbours
  Patience,  \* how long a silent member is surely kept
  Slack      \* by how much a silent member may outlive its time

VARIABLES
  members,   \* the neighbours
  silence    \* for how long each member has been silent; 0 for the others

vars == <<members, silence>>

Init == members = {} /\ silence = [m \in Peer |-> 0]

Overdue == {m \in members : silence[m] > Patience}

\* left leave and joined join; a node that is no member has no silence.
Change(left, joined) ==
  /\ members' = (members \ left) \cup joined
  /\ silence' = [m \in Peer |-> IF m \in members \ (left \cup joined)
                                THEN silence[m] ELSE 0]

\* m is heard, and some overdue members may be noticed on that occasion.
Heard(m) == \E left \in SUBSET (Overdue \ {m}) : Change(left, {m})

GiveUp == \E left \in SUBSET Overdue : Change(left, {})

\* The MAC reports m unreachable.
Unreachable(m) ==
  /\ m \in members
  /\ \E left \in SUBSET Overdue : Change(left \cup {m}, {})

Clear == Change(members, {})

Tick ==
  /\ \A m \in members : silence[m] < Patience + Slack
  /\ silence' = [m \in Peer |-> IF m \in members THEN silence[m] + 1 ELSE 0]
  /\ UNCHANGED members

Next ==
  \/ \E m \in Peer : Heard(m) \/ Unreachable(m)
  \/ GiveUp \/ Clear \/ Tick

Spec == Init /\ [][Next]_vars
=============================================================================
