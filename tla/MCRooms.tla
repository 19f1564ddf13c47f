------------------------------ MODULE MCRooms ------------------------------
(* Bounds and symmetry for model-checking Rooms.                           *)
EXTENDS Rooms, TLC

CONSTANTS c1, c2, s1, s2

Twice    == {c1, c2}
TwoSongs == {s1, s2}
All      == DOMAIN Plan
Orders   == {<<>>, <<s1>>, <<s2>>, <<s1, s2>>, <<s2, s1>>}
Symmetry == Permutations(Calls) \cup Permutations(Songs)
=============================================================================
