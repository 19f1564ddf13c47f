---------------------------- MODULE MCRoomQueue ----------------------------
(* Small instances of RoomQueue: who submits what. *)
EXTENDS RoomQueue, TLC

CONSTANTS e1, e2, e3, s1, s2
\* e1 and e2 are of one session.
TwoSessions == (e1 :> s1) @@ (e2 :> s1) @@ (e3 :> s2)
\* e1 and e2 differ in nothing, nor do the poppers, nor the inboundLoops.
QueueSymmetry == Permutations(Poppers) \cup Permutations(Loops) \cup Permutations({e1, e2})
=============================================================================
