------------------------------- MODULE MCHub -------------------------------
(* Small instances of Hub: who the connections are. *)
EXTENDS Hub, TLC

CONSTANTS c1, c2, c3, s1, s2, u1, ip1, ip2

\* c2 and c3 share one browser session.
TwinSessions   == (c1 :> s1) @@ (c2 :> s2) @@ (c3 :> s2)
\* Two tabs of one session.
PairSessions   == (c1 :> s1) @@ (c2 :> s1)
DistinctPair   == (c1 :> s1) @@ (c2 :> s2)
PairUsers      == (c1 :> u1) @@ (c2 :> u1)
AnonPair       == (c1 :> Nobody) @@ (c2 :> Nobody)
PairIps        == (c1 :> ip1) @@ (c2 :> ip1)
\* Nobody is logged in; two of three are behind one address.
AllAnonymous   == (c1 :> Nobody) @@ (c2 :> Nobody) @@ (c3 :> Nobody)
SharedIps      == (c1 :> ip1) @@ (c2 :> ip1) @@ (c3 :> ip2)
HubSymmetry == Permutations(Hubs)
=============================================================================
