----------------------------- MODULE MCAccounts -----------------------------
(* Bounds and symmetry for model-checking Accounts.                        *)
EXTENDS Accounts, TLC

CONSTANTS c1, c2, b1, b2

Twice    == {c1, c2}
OneByOne == {c1}
Tabs     == {b1, b2}
OneTab   == {b1}
All      == DOMAIN Plan
Editing  == {"profile"}
Verifying == {"verify", "resend"}
Symmetry == Permutations(Calls) \cup Permutations(Browsers)
=============================================================================
