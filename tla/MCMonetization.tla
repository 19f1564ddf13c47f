--------------------------- MODULE MCMonetization ---------------------------
(* Small instances of Monetization: two users, a room of one of them. *)
EXTENDS Monetization, TLC

CONSTANTS ann, bob, room
BobsRoom == room :> bob
\* Levels that a tip passes one or two of, and a table that lacks a target.
Targets == <<2, 3, 0>>
\* Minutes below, at and above the caps.
Minutes == (ann :> ((ann :> 5) @@ (bob :> 9))) @@ (bob :> ((ann :> 1) @@ (bob :> 5)))
CallSymmetry == Permutations(Calls)
=============================================================================
