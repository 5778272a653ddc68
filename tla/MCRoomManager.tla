--------------------------- MODULE MCRoomManager ---------------------------
(* Instances of RoomManager for TLC. *)
EXTENDS RoomManager, TLC

\* Requests, connections and room objects are interchangeable.
Symmetry == Permutations(Handler) \cup Permutations(Connection) \cup Permutations(Room)
               \cup Permutations(Address)
=============================================================================
