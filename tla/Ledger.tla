------------------------------- MODULE Ledger -------------------------------
(***************************************************************************)
(* What the neon currency promises, whatever the transactions of           *)
(* store/monetization.go do inside: a purchase and the pack it credits are *)
(* one step, a tip moves its amount from one wallet to one room in one     *)
(* step and never more than the wallet holds, and a room's tube shows a    *)
(* level that depends on nothing but what the room was given.              *)
(***************************************************************************)
EXTENDS Integers

CONSTANTS Users, Rooms,
          Packs,         \* the amounts one can buy
          Grants,        \* the balances an admin sets
          Opening,       \* what everybody bought before
          Tips,          \* the amounts one can send
          MaxLevel,
          FirstTarget,   \* what fills a new tube
          LevelTarget    \* what fills a tube of each level, when it has levelled up

VARIABLES wallet, paid, given, tube
vars == <<wallet, paid, given, tube>>

LevelAfter(ups) == (ups % MaxLevel) + 1

\* What k level-ups cost, and how many of them an amount pays for.
Cost[k \in Nat] ==
    IF k = 0 THEN 0
    ELSE Cost[k - 1] + (IF k = 1 THEN FirstTarget ELSE LevelTarget[LevelAfter(k - 1)])
PaidUps(n) == CHOOSE k \in 0..n : Cost[k] <= n /\ n < Cost[k + 1]

EmptyTube == [level |-> 1, fill |-> 0, target |-> FirstTarget]
Display(n) ==
    LET ups == PaidUps(n)
    IN [level |-> LevelAfter(ups), fill |-> n - Cost[ups], target |-> Cost[ups + 1] - Cost[ups]]

Init ==
    /\ wallet = [u \in Users |-> Opening] /\ paid = wallet
    /\ given = [r \in Rooms |-> 0] /\ tube = [r \in Rooms |-> EmptyTube]

Buy(u, n) ==
    /\ wallet' = [wallet EXCEPT ![u] = @ + n] /\ paid' = [paid EXCEPT ![u] = @ + n]
    /\ UNCHANGED <<given, tube>>

Grant(u, n) ==
    /\ wallet' = [wallet EXCEPT ![u] = n]
    /\ UNCHANGED <<paid, given, tube>>

Tip(u, r, n) ==
    /\ n <= wallet[u]
    /\ wallet' = [wallet EXCEPT ![u] = @ - n]
    /\ given' = [given EXCEPT ![r] = @ + n]
    /\ tube' = [tube EXCEPT ![r].fill = @ + n]
    /\ UNCHANGED paid

Settle(r) ==
    /\ tube' = [tube EXCEPT ![r] = Display(given[r])]
    /\ UNCHANGED <<wallet, paid, given>>

Next ==
    \/ \E u \in Users :
         \/ \E n \in Packs : Buy(u, n)
         \/ \E n \in Grants : Grant(u, n)
         \/ \E r \in Rooms, n \in Tips : Tip(u, r, n)
    \/ \E r \in Rooms : Settle(r)

Spec == Init /\ [][Next]_vars
=============================================================================
