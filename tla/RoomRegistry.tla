---------------------------- MODULE RoomRegistry ----------------------------
(***************************************************************************)
(* What the room manager of a node promises about addresses, without its   *)
(* goroutines and locks: an address starts out unused, denotes one room    *)
(* for an uninterrupted time, and is retired for good.  While the node is  *)
(* up every address in use is retired in the end.                          *)
(***************************************************************************)
CONSTANTS Address, Room, NoRoom

VARIABLES
  roomOf,   \* the room an address denotes or denoted
  retired,  \* the addresses whose room is gone
  down      \* the node has died

vars == <<roomOf, retired, down>>

Init ==
  /\ roomOf = [a \in Address |-> NoRoom]
  /\ retired = {}
  /\ down = FALSE

\* An unused address comes to denote a room that no address ever denoted.
Publish(a, r) ==
  /\ ~down
  /\ roomOf[a] = NoRoom
  /\ \A b \in Address : roomOf[b] # r
  /\ roomOf' = [roomOf EXCEPT ![a] = r]
  /\ UNCHANGED <<retired, down>>

Retire(a) ==
  /\ ~down
  /\ roomOf[a] # NoRoom
  /\ a \notin retired
  /\ retired' = retired \cup {a}
  /\ UNCHANGED <<roomOf, down>>

GoDown == ~down /\ down' = TRUE /\ UNCHANGED <<roomOf, retired>>

Next ==
  \/ \E a \in Address : Retire(a) \/ \E r \in Room : Publish(a, r)
  \/ GoDown

Spec == Init /\ [][Next]_vars /\ \A a \in Address : WF_vars(Retire(a))
=============================================================================
