---------------------------- MODULE MCJoinedRooms ----------------------------
(* Instance of JoinedRooms for TLC: one room with two participants, and one that *)
(* the device only knows from a tab without a name.                           *)
EXTENDS JoinedRooms, TLC

CONSTANTS gu, bot, k1, k2

Kinds == (gu :> "human") @@ (bot :> "agent")
Participants == (k1 :> {gu, bot}) @@ (k2 :> {})
\* The history of rooms and the opening of rooms meet only in the rows: an instance
\* has the one or the other under way.
OneConcern ==
  \/ stranded = {} /\ \A t \in Tasks : task[t] = Idle /\ \A k \in Keys : state[k] = "absent"
  \/ opened = NotOpened /\ \A k \in Keys : listed[k] = NoRow /\ tokens[k] = {}

Symmetric == Permutations(Tasks)
==============================================================================
