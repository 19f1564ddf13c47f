------------------------- MODULE MonetizationProofs -------------------------
(* Proofs about Monetization, for every set of users, rooms and requests.  *)
EXTENDS Monetization, Sums

-----------------------------------------------------------------------------
(* What level-ups cost *)

\* What the k-th level-up costs.
Step(k) == IF k = 1 THEN FirstTarget ELSE TargetOf(Books!LevelAfter(k - 1))

LEMMA LevelsTyped ==
  /\ \A k \in Nat : Books!LevelAfter(k) \in 1..MaxLevel
  /\ \A l \in 1..MaxLevel : TargetOf(l) \in Nat \ {0}
  /\ \A k \in Nat \ {0} : Step(k) \in Nat \ {0}
<1>1. \A k \in Nat : Books!LevelAfter(k) \in 1..MaxLevel
  BY ConstantsOK DEF Books!LevelAfter
<1>2. \A l \in 1..MaxLevel : TargetOf(l) \in Nat \ {0}
  BY ConstantsOK DEF TargetOf
<1>3. ASSUME NEW k \in Nat \ {0} PROVE Step(k) \in Nat \ {0}
  <2>1. k # 1 => k - 1 \in Nat
    OBVIOUS
  <2> QED
    BY <1>1, <1>2, <2>1, ConstantsOK DEF Step
<1> QED
  BY <1>1, <1>2, <1>3

\* The level after one more: the last is followed by the first.
LEMMA NextLevel ==
  ASSUME NEW k \in Nat
  PROVE  Books!LevelAfter(k + 1) = IF Books!LevelAfter(k) + 1 > MaxLevel THEN 1
                                   ELSE Books!LevelAfter(k) + 1
<1>1. (k + 1) % MaxLevel = IF (k % MaxLevel) + 1 = MaxLevel THEN 0 ELSE (k % MaxLevel) + 1
  BY NextRemainder, ConstantsOK
<1>2. k % MaxLevel \in 0..(MaxLevel - 1) /\ MaxLevel \in Nat \ {0}
  BY Divide, ConstantsOK
<1> QED
  BY <1>1, <1>2 DEF Books!LevelAfter

\* The recursion that defines the cost has a solution: each longer table extends the last.
Table(f, n) == f \in [0..n -> Nat] /\ f[0] = 0 /\ \A k \in 1..n : f[k] = f[k - 1] + Step(k)

LEMMA TableExists == \A n \in Nat : \E f : Table(f, n)
<1> DEFINE Good == {n \in Nat : \E f : Table(f, n)}
<1>1. 0 \in Good
  <2>1. Table([k \in 0..0 |-> 0], 0)
    BY DEF Table
  <2> QED
    BY <2>1
<1>2. ASSUME NEW n \in Nat, n \in Good PROVE n + 1 \in Good
  <2>1. PICK f : Table(f, n)
    BY <1>2
  <2> DEFINE more == [k \in 0..(n + 1) |-> IF k = n + 1 THEN f[n] + Step(n + 1) ELSE f[k]]
  <2>2. Step(n + 1) \in Nat
    BY LevelsTyped
  <2>3. Table(more, n + 1)
    BY <2>1, <2>2 DEF Table
  <2> QED
    BY <2>3
<1> HIDE DEF Good
<1>3. Nat \subseteq Good
  BY <1>1, <1>2, NatInSet
<1> QED
  BY <1>3 DEF Good

LEMMA TableUnique ==
  ASSUME NEW n \in Nat, NEW m \in Nat, NEW f, NEW g, Table(f, n), Table(g, m)
  PROVE  \A k \in Nat : k <= n /\ k <= m => f[k] = g[k]
<1> DEFINE Good == {k \in Nat : k <= n /\ k <= m => f[k] = g[k]}
<1>1. 0 \in Good
  BY DEF Table
<1>2. ASSUME NEW k \in Nat, k \in Good PROVE k + 1 \in Good
  BY <1>2 DEF Table
<1> HIDE DEF Good
<1>3. Nat \subseteq Good
  BY <1>1, <1>2, NatInSet
<1> QED
  BY <1>3 DEF Good

LEMMA CostStep ==
  /\ Books!Cost \in [Nat -> Nat] /\ Books!Cost[0] = 0
  /\ \A k \in Nat : Books!Cost[k + 1] = Books!Cost[k] + Step(k + 1)
<1> DEFINE Levels == [l \in 1..MaxLevel |-> TargetOf(l)]
           P(f) == f = [k \in Nat |-> IF k = 0 THEN 0
                                      ELSE f[k - 1] + (IF k = 1 THEN FirstTarget
                                                       ELSE Levels[Books!LevelAfter(k - 1)])]
           table == [n \in Nat |-> CHOOSE f : Table(f, n)]
           cost == [k \in Nat |-> table[k][k]]
<1>1. \A n \in Nat : Table(table[n], n)
  BY TableExists
<1> HIDE DEF table
<1>2. ASSUME NEW k \in Nat PROVE table[k + 1][k + 1] = table[k][k] + Step(k + 1)
  <2>1. Table(table[k], k) /\ Table(table[k + 1], k + 1) /\ k + 1 \in Nat
    BY <1>1
  <2>2. table[k + 1][k] = table[k][k]
    BY <2>1, TableUnique
  <2> QED
    BY <2>1, <2>2 DEF Table
<1>3. \A k \in Nat : table[k][k] \in Nat
  BY <1>1 DEF Table
<1>4. table[0][0] = 0
  BY <1>1 DEF Table
<1>5. ASSUME NEW k \in Nat \ {0}
      PROVE  Step(k) = IF k = 1 THEN FirstTarget ELSE Levels[Books!LevelAfter(k - 1)]
  <2>1. k - 1 \in Nat /\ Books!LevelAfter(k - 1) \in 1..MaxLevel
    BY LevelsTyped
  <2> QED
    BY <2>1 DEF Step
<1> HIDE DEF Levels
<1>6. P(cost)
  <2>1. ASSUME NEW k \in Nat
        PROVE  cost[k] = IF k = 0 THEN 0
                         ELSE cost[k - 1] + (IF k = 1 THEN FirstTarget
                                             ELSE Levels[Books!LevelAfter(k - 1)])
    <3>1. CASE k = 0
      BY <3>1, <1>4
    <3>2. CASE k # 0
      <4>1. k - 1 \in Nat /\ k \in Nat \ {0} /\ k = (k - 1) + 1
        BY <3>2
      <4>2. table[k][k] = table[k - 1][k - 1] + Step(k)
        BY <4>1, <1>2
      <4> QED
        BY <4>1, <4>2, <1>5, <3>2
    <3> QED
      BY <3>1, <3>2
  <2> QED
    BY <2>1
<1>7. P(Books!Cost)
  <2>1. \E f : P(f)
    BY <1>6
  <2> QED
    BY <2>1 DEF Books!Cost, Levels
<1> HIDE DEF cost
<1>8. /\ Books!Cost[0] = 0
      /\ \A k \in Nat : Books!Cost[k + 1] = Books!Cost[k] + Step(k + 1)
  <2>1. Books!Cost[0] = 0
    BY <1>7
  <2>2. ASSUME NEW k \in Nat PROVE Books!Cost[k + 1] = Books!Cost[k] + Step(k + 1)
    <3>1. k + 1 \in Nat \ {0} /\ (k + 1) - 1 = k
      OBVIOUS
    <3>2. Books!Cost[k + 1] = Books!Cost[(k + 1) - 1] + (IF k + 1 = 1 THEN FirstTarget
                                     ELSE Levels[Books!LevelAfter((k + 1) - 1)])
      BY <1>7, <3>1
    <3> HIDE DEF P
    <3> QED
      BY <3>1, <3>2, <1>5
  <2> QED
    BY <2>1, <2>2
<1>9. \A k \in Nat : Books!Cost[k] \in Nat
  <2> DEFINE Good == {k \in Nat : Books!Cost[k] \in Nat}
  <2>1. ASSUME NEW k \in Nat, k \in Good PROVE k + 1 \in Good
    <3>1. Step(k + 1) \in Nat /\ k + 1 \in Nat
      BY LevelsTyped
    <3>2. Books!Cost[k + 1] = Books!Cost[k] + Step(k + 1)
      BY <1>8
    <3> QED
      BY <2>1, <3>1, <3>2
  <2> HIDE DEF Good
  <2>2. 0 \in Good
    BY <1>8 DEF Good
  <2>3. Nat \subseteq Good
    BY <2>1, <2>2, NatInSet
  <2> QED
    BY <2>3 DEF Good
<1>10. Books!Cost = [k \in Nat |-> Books!Cost[k]]
  BY <1>7
<1> QED
  BY <1>8, <1>9, <1>10

\* More level-ups cost more, at least one each.
LEMMA CostGrows ==
  /\ \A k \in Nat : k <= Books!Cost[k]
  /\ \A j, k \in Nat : j < k => Books!Cost[j] < Books!Cost[k]
<1> DEFINE Dear == {k \in Nat : k <= Books!Cost[k]}
           Above == {k \in Nat : \A j \in Nat : j < k => Books!Cost[j] < Books!Cost[k]}
<1>1. ASSUME NEW k \in Nat
      PROVE  Books!Cost[k] \in Nat /\ Books!Cost[k + 1] \in Nat /\ Books!Cost[k + 1] > Books!Cost[k]
  <2>1. k + 1 \in Nat \ {0}
    OBVIOUS
  <2>2. Step(k + 1) \in Nat \ {0}
    BY <2>1, LevelsTyped
  <2> QED
    BY <2>1, <2>2, CostStep
<1>2. 0 \in Dear /\ 0 \in Above
  BY CostStep
<1>3. \A k \in Nat : k \in Dear => k + 1 \in Dear
  BY <1>1
<1>4. ASSUME NEW k \in Nat, k \in Above PROVE k + 1 \in Above
  BY <1>1, <1>4
<1> HIDE DEF Dear, Above
<1>5. Nat \subseteq Dear /\ Nat \subseteq Above
  BY <1>2, <1>3, <1>4, NatInSet
<1> QED
  BY <1>5 DEF Dear, Above

\* One number of level-ups is what an amount pays for.
LEMMA PaidUpsIs ==
  ASSUME NEW n \in Nat, NEW k \in Nat, Books!Cost[k] <= n, n < Books!Cost[k + 1]
  PROVE  Books!PaidUps(n) = k
<1>1. \A j \in Nat : Books!Cost[j] \in Nat
  BY CostStep
<1>2. k \in 0..n
  BY <1>1, CostGrows
<1>3. ASSUME NEW j \in 0..n, Books!Cost[j] <= n, n < Books!Cost[j + 1] PROVE j = k
  <2>1. ~ (j + 1 <= k)
    <3>1. j + 1 = k \/ j + 1 < k => Books!Cost[j + 1] <= Books!Cost[k]
      BY <1>1, CostGrows
    <3> QED
      BY <3>1, <1>3, <1>1
  <2>2. ~ (k + 1 <= j)
    <3>1. k + 1 = j \/ k + 1 < j => Books!Cost[k + 1] <= Books!Cost[j]
      BY <1>1, CostGrows
    <3> QED
      BY <3>1, <1>3, <1>1
  <2> QED
    BY <2>1, <2>2
<1> QED
  BY <1>2, <1>3 DEF Books!PaidUps

-----------------------------------------------------------------------------
(* The shapes of a call *)

Spending  == [pc: {"debit", "pour", "commit", "resolve"}, user: Users, room: Rooms, amount: Tips]
Levelling == [pc: {"level"}, room: Rooms, row: TubeRow]
Computing == [pc: {"minutes"}, cents: Nat]
Paying    == [pc: {"month", "clear", "pay"}, cents: Nat, minutes: [Users -> Nat],
              due: SUBSET Users, serial: Nat]
AllCalls  == {Idle} \cup TipCall \cup PlusCall \cup DJCall \cup PoolCall

\* A call's program counter tells its shape.
LEMMA CallShapes ==
  ASSUME NEW x \in AllCalls
  PROVE  /\ x.pc \in {"debit", "pour", "commit", "resolve"} => x \in Spending
         /\ x.pc = "level" => x \in Levelling
         /\ x.pc \in {"grantFlag", "grantRow", "dropFlag", "dropRow"} => x \in PlusCall
         /\ x.pc = "djInsert" => x \in DJCall
         /\ x.pc = "minutes" => x \in Computing
         /\ x.pc \in {"month", "clear", "pay"} => x \in Paying
BY DEF AllCalls, Idle, TipCall, PlusCall, DJCall, PoolCall, Spending, Levelling, Computing, Paying

LEMMA ShapesAreCalls ==
  /\ Idle \in AllCalls /\ Idle.pc = "idle"
  /\ Spending \subseteq AllCalls /\ Levelling \subseteq AllCalls /\ PlusCall \subseteq AllCalls
  /\ DJCall \subseteq AllCalls /\ Computing \subseteq AllCalls /\ Paying \subseteq AllCalls
BY DEF AllCalls, Idle, TipCall, PoolCall, Spending, Levelling, Computing, Paying

NeonTyped == /\ neon \in [Users -> Nat] /\ bought \in [Users -> Nat] /\ tips \in [Rooms -> Nat]
             /\ tube \in [Rooms -> TubeRow] /\ deleted \subseteq Rooms /\ unsettled \subseteq Rooms
PlusTyped == /\ plus \in [Users -> BOOLEAN] /\ expiry \in [Users -> {"none", "ahead", "past"}]
             /\ plusRow \in [Users -> {"none", "active", "cancelled"}]
             /\ cached \in [Users -> BOOLEAN] /\ djSubs \in [Users \X Users -> Nat]
             /\ torn \subseteq Users /\ doubled \subseteq Users \X Users
PoolTyped == /\ month \in Nat /\ listened \in Nat /\ shares \subseteq ShareRow
             /\ poolTorn \in BOOLEAN
CallTyped == call \in [Calls -> AllCalls] /\ requests \in 0..MaxRequests

LEMMA TypeParts == TypeOK <=> NeonTyped /\ PlusTyped /\ PoolTyped /\ CallTyped
BY DEF TypeOK, NeonTyped, PlusTyped, PoolTyped, CallTyped, AllCalls

-----------------------------------------------------------------------------
(* Inductive invariants *)

\* The row locks: of two transactions that hold a user's row, or a tube's, one waits; a
\* transaction that has debited finds the balance it has checked; the creators a
\* computation still has to pay have minutes, and before it pays they are all who have.
LockInv ==
    /\ \A b, c \in Calls : At(b, {"pour", "commit"}) /\ At(c, {"pour", "commit"})
                           /\ call[b].user = call[c].user => b = c
    /\ \A c \in Calls : At(c, {"pour", "commit"}) => call[c].amount <= neon[call[c].user]
    /\ \A b, c \in Calls : At(b, {"commit", "level"}) /\ At(c, {"commit", "level"})
                           /\ call[b].room = call[c].room => b = c
DueInv == \A c \in Calls :
    /\ At(c, {"month", "clear", "pay"}) => \A d \in call[c].due : call[c].minutes[d] > 0
    /\ At(c, {"month", "clear"}) => \A d \in Users : call[c].minutes[d] > 0 => d \in call[c].due

\* A tube row after k level-ups of what its room was given.
PaidLevels(row, n, k) ==
    /\ row.level = Books!LevelAfter(k)
    /\ row.fill = n - Books!Cost[k]
    /\ row.target = Step(k + 1)
LevelInv ==
    /\ \A r \in Rooms : \E k \in Nat : PaidLevels(tube[r], tips[r], k)
    /\ \A c \in Calls : At(c, {"level"}) =>
         \E k \in Nat : PaidLevels(call[c].row, tips[call[c].room], k)

\* Unless a user's Plus was written by two at once, whoever is between the two statements
\* is alone there and has left the flag as its row is going to say; the same for the
\* subscription of a pair, which an insert under way found missing.
PlusInv ==
    \A u \in Users \ torn :
      /\ \A b, c \in HalfWay(u) : b = c
      /\ \A c \in HalfWay(u) : plus[u] <=> At(c, {"grantRow"})
      /\ HalfWay(u) = {} => (plus[u] <=> plusRow[u] = "active")
Inserting(p) == {c \in Calls : At(c, {"djInsert"}) /\ <<call[c].user, call[c].dj>> = p}
DJInv ==
    \A p \in (Users \X Users) \ doubled :
      /\ \A b, c \in Inserting(p) : b = c
      /\ Inserting(p) # {} => djSubs[p] = 0
      /\ djSubs[p] <= 1

\* What a computation has paid out of its minutes, and to whom it still owes a share.
SharedOut(cents, minutes, due) ==
    /\ \A s, t \in shares : s.creator = t.creator => s = t
    /\ \A s \in shares :
         /\ s.creator \notin due /\ minutes[s.creator] > 0
         /\ s.minutes = minutes[s.creator]
         /\ s.cents = (cents * minutes[s.creator]) \div SumFunction(minutes)
    /\ \A d \in Users : minutes[d] > 0 => d \in due \/ \E s \in shares : s.creator = d
Writing == {c \in Calls : At(c, {"clear", "pay"})}
PoolInv ==
    \/ poolTorn
    \/ /\ \A b, c \in Writing : b = c
       /\ \A c \in Writing :
            /\ month = call[c].cents /\ listened = SumFunction(call[c].minutes)
            /\ At(c, {"pay"}) => SharedOut(month, call[c].minutes, call[c].due)
       /\ Writing = {} => \E minutes \in [Users -> Nat] :
                            listened = SumFunction(minutes) /\ SharedOut(month, minutes, {})

-----------------------------------------------------------------------------
(* The amounts are numbers *)

LEMMA MinIsNat == ASSUME NEW a \in Nat, NEW b \in Nat PROVE Min({a, b}) \in Nat
<1>1. \E x \in {a, b} : \A y \in {a, b} : x <= y
  OBVIOUS
<1>2. Min({a, b}) \in {a, b}
  BY <1>1 DEF Min
<1> QED
  BY <1>2

LEMMA MinutesTyped == ASSUME NEW d \in Users PROVE MinutesOf(d) \in Nat
<1> DEFINE S == {u \in Users \ {d} : IsPlus(u)}
           w == [u \in S |-> Min({PairCap, Heard[u][d]})]
           P(it) == it = [s \in SUBSET S |-> IF s = {} THEN 0
                          ELSE Min({PairCap, Heard[CHOOSE x \in s : TRUE][d]})
                               + it[s \ {CHOOSE x \in s : TRUE}]]
           total == (CHOOSE it : P(it))[S]
<1>1. IsFiniteSet(S)
  BY ConstantsOK, FS_Subset
<1>2. w \in [S -> Nat]
  <2>1. \A u \in S : Heard[u][d] \in Nat /\ PairCap \in Nat
    BY ConstantsOK
  <2> QED
    BY <2>1, MinIsNat
<1>3. PICK it : SumsUp(it, w, S)
  BY <1>1, <1>2, SumExists, Zenon
<1>4. ASSUME NEW s \in SUBSET S, s # {}
      PROVE  w[CHOOSE x \in s : TRUE] = Min({PairCap, Heard[CHOOSE x \in s : TRUE][d]})
  <2>1. (CHOOSE x \in s : TRUE) \in S
    BY <1>4
  <2> HIDE DEF S
  <2> QED
    BY <2>1
<1>5. \A i : P(i) <=> SumsUp(i, w, S)
  <2> HIDE DEF S, w
  <2>1. ASSUME NEW i, NEW s \in SUBSET S
        PROVE  SumStep(i, w, s) = IF s = {} THEN 0
                                  ELSE Min({PairCap, Heard[CHOOSE x \in s : TRUE][d]})
                                       + i[s \ {CHOOSE x \in s : TRUE}]
    <3>1. CASE s = {}
      BY <3>1 DEF SumStep
    <3>2. CASE s # {}
      BY <1>4, <3>2 DEF SumStep
    <3> QED
      BY <3>1, <3>2
  <2>2. ASSUME NEW i
        PROVE  [s \in SUBSET S |-> SumStep(i, w, s)]
                 = [s \in SUBSET S |-> IF s = {} THEN 0
                                        ELSE Min({PairCap, Heard[CHOOSE x \in s : TRUE][d]})
                                             + i[s \ {CHOOSE x \in s : TRUE}]]
    BY <2>1
  <2> QED
    BY <2>2 DEF SumsUp
<1>6. SumsUp(CHOOSE i : P(i), w, S)
  <2> HIDE DEF P
  <2>1. P(CHOOSE i : P(i))
    BY <1>3, <1>5
  <2> QED
    BY <2>1, <1>5
<1>7. total \in Nat
  <2> HIDE DEF P, S, w
  <2>1. Adds(CHOOSE i : P(i), w, S)
    BY <1>1, <1>2, <1>6, SumRemoves
  <2> QED
    BY <2>1 DEF Adds
<1>8. MinutesOf(d) = Min({CreatorCap, total})
  BY DEF MinutesOf, MapThenSumSet, MapThenFoldSet
<1> HIDE DEF total
<1> QED
  BY <1>7, <1>8, MinIsNat, ConstantsOK

LEMMA RevenueTyped == ASSUME NEW pct \in Pcts PROVE (Revenue * pct) \div 100 \in Nat
<1>1. Cardinality({u \in Users : plusRow[u] # "none"}) \in Nat
  BY ConstantsOK, FS_Subset, FS_CardinalityType
<1>2. Revenue \in Nat /\ pct \in Nat
  BY <1>1, ConstantsOK DEF Revenue
<1>3. Revenue * pct \in Nat
  BY <1>2
<1> QED
  BY <1>3

LEMMA ShareTyped ==
  ASSUME TypeOK, DueInv, NEW c \in Calls, At(c, {"pay"}), NEW d \in Users, d \in call[c].due
  PROVE  ShareOf(c, d) \in Nat /\ SumFunction(call[c].minutes) \in Nat \ {0}
<1>1. call[c] \in Paying
  BY TypeParts, CallShapes DEF CallTyped, At
<1>2. /\ call[c].minutes \in [Users -> Nat] /\ call[c].minutes[d] > 0 /\ call[c].cents \in Nat
      /\ call[c].minutes[d] \in Nat
  BY <1>1 DEF Paying, DueInv, At
<1>3. SumFunction(call[c].minutes) \in Nat /\ call[c].minutes[d] <= SumFunction(call[c].minutes)
  BY <1>2, SumFunctionFacts, ConstantsOK
<1>4. SumFunction(call[c].minutes) \in Nat \ {0}
  BY <1>2, <1>3
<1>5. call[c].cents * call[c].minutes[d] \in Nat
  BY <1>2
<1> QED
  BY <1>4, <1>5, Divide DEF ShareOf

-----------------------------------------------------------------------------
(* Type correctness *)

LEMMA GotoTyped ==
  ASSUME CallTyped, NEW c \in Calls, NEW x \in AllCalls, Goto(c, x) PROVE CallTyped'
BY DEF CallTyped, Goto

LEMMA BeginTyped ==
  ASSUME CallTyped, NEW c \in Calls, NEW x \in AllCalls, Begin(c, x) PROVE CallTyped'
BY ConstantsOK DEF CallTyped, Begin

LEMMA RowsStayTyped ==
  /\ NeonTyped /\ UNCHANGED neonVars => NeonTyped'
  /\ PlusTyped /\ UNCHANGED plusVars => PlusTyped'
  /\ PoolTyped /\ UNCHANGED poolVars => PoolTyped'
BY DEF NeonTyped, PlusTyped, PoolTyped, neonVars, plusVars, poolVars

LEMMA TypeCalls ==
  ASSUME TypeOK, NEW c \in Calls
  PROVE  /\ call[c] \in AllCalls
         /\ At(c, {"debit", "pour", "commit", "resolve"}) => call[c] \in Spending
         /\ At(c, {"level"}) => call[c] \in Levelling
         /\ At(c, {"grantFlag", "grantRow", "dropFlag", "dropRow"}) => call[c] \in PlusCall
         /\ At(c, {"djInsert"}) => call[c] \in DJCall
         /\ At(c, {"minutes"}) => call[c] \in Computing
         /\ At(c, {"month", "clear", "pay"}) => call[c] \in Paying
<1>1. call[c] \in AllCalls
  BY TypeParts DEF CallTyped
<1> QED
  BY <1>1, CallShapes DEF At

\* The requests that are answered or have begun, and the neon they write at once.
LEMMA RequestTyped ==
  ASSUME TypeOK, NEW c \in Calls, Requests(c) PROVE TypeOK'
<1>1. NeonTyped /\ PlusTyped /\ PoolTyped /\ CallTyped
  BY TypeParts
<1>2. ASSUME NEW u \in Users, NEW n \in Packs, BuyNeon(c, u, n) PROVE TypeOK'
  <2>1. CallTyped'
    BY <1>1, <1>2, BeginTyped, ShapesAreCalls DEF BuyNeon
  <2>2. NeonTyped'
    <3>1. n \in Nat
      BY ConstantsOK
    <3> QED
      BY <1>1, <1>2, <3>1 DEF BuyNeon, NeonTyped
  <2>3. PlusTyped' /\ PoolTyped'
    BY <1>1, <1>2, RowsStayTyped DEF BuyNeon
  <2> QED
    BY <2>1, <2>2, <2>3, TypeParts, PTL
<1>3. ASSUME NEW u \in Users, NEW n \in Grants, AdminSetNeon(c, u, n) PROVE TypeOK'
  <2>1. CallTyped'
    BY <1>1, <1>3, BeginTyped, ShapesAreCalls DEF AdminSetNeon
  <2>2. NeonTyped'
    BY <1>1, <1>3, ConstantsOK DEF AdminSetNeon, NeonTyped
  <2>3. PlusTyped' /\ PoolTyped'
    BY <1>1, <1>3, RowsStayTyped DEF AdminSetNeon
  <2> QED
    BY <2>1, <2>2, <2>3, TypeParts, PTL
<1>4. ASSUME NEW u \in Users, NEW r \in Rooms, NEW n \in Tips, SendNeon(c, u, r, n) PROVE TypeOK'
  <2> DEFINE x == [pc |-> "debit", user |-> u, room |-> r, amount |-> n]
  <2>1. x \in AllCalls
    BY ShapesAreCalls DEF Spending
  <2>2. Begin(c, x) /\ UNCHANGED <<neonVars, plusVars, poolVars>>
    BY <1>4 DEF SendNeon
  <2> HIDE DEF x
  <2>3. CallTyped' /\ NeonTyped' /\ PlusTyped' /\ PoolTyped'
    BY <1>1, <2>1, <2>2, BeginTyped, RowsStayTyped
  <2> QED
    BY <2>3, TypeParts, PTL
<1>5. ASSUME NEW u \in Users, SubscribePlus(c, u) \/ CancelPlus(c, u) PROVE TypeOK'
  <2>1. PICK p \in {"grantFlag", "dropFlag"} : Begin(c, [pc |-> p, user |-> u])
    BY <1>5 DEF SubscribePlus, CancelPlus
  <2>2. [pc |-> p, user |-> u] \in AllCalls
    BY ShapesAreCalls DEF PlusCall
  <2>3. UNCHANGED <<neonVars, plusVars, poolVars>>
    BY <1>5 DEF SubscribePlus, CancelPlus
  <2>4. CallTyped' /\ NeonTyped' /\ PlusTyped' /\ PoolTyped'
    BY <1>1, <2>1, <2>2, <2>3, BeginTyped, RowsStayTyped
  <2> QED
    BY <2>4, TypeParts, PTL
<1>6. ASSUME NEW u \in Users, NEW grant \in BOOLEAN, AdminSetPlus(c, u, grant) PROVE TypeOK'
  <2>1. CallTyped'
    BY <1>1, <1>6, BeginTyped, ShapesAreCalls DEF AdminSetPlus
  <2>2. NeonTyped' /\ PoolTyped'
    BY <1>1, <1>6, RowsStayTyped DEF AdminSetPlus
  <2>3. IsPlus(u)' \in BOOLEAN
    BY <1>1, <1>6 DEF AdminSetPlus, IsPlus, PlusTyped
  <2>4. PlusTyped'
    BY <1>1, <1>6, <2>3 DEF AdminSetPlus, PlusTyped
  <2> QED
    BY <2>1, <2>2, <2>4, TypeParts, PTL
<1>7. ASSUME NEW u \in Users, NEW d \in Users, SubscribeToDJ(c, u, d) PROVE TypeOK'
  <2> DEFINE x == [pc |-> "djInsert", user |-> u, dj |-> d]
  <2>1. x \in AllCalls
    BY ShapesAreCalls DEF DJCall
  <2>2. Begin(c, x) /\ UNCHANGED <<neonVars, poolVars>>
    BY <1>7 DEF SubscribeToDJ
  <2>3. PlusTyped'
    BY <1>1, <1>7 DEF SubscribeToDJ, PlusTyped
  <2> HIDE DEF x
  <2>4. CallTyped' /\ NeonTyped' /\ PoolTyped'
    BY <1>1, <2>1, <2>2, BeginTyped, RowsStayTyped
  <2> QED
    BY <2>3, <2>4, TypeParts, PTL
<1>8. ASSUME NEW pct \in Pcts, ComputePool(c, pct) PROVE TypeOK'
  <2> DEFINE x == [pc |-> "minutes", cents |-> (Revenue * pct) \div 100]
  <2>1. x \in AllCalls
    BY ShapesAreCalls, RevenueTyped DEF Computing
  <2>2. Begin(c, x) /\ UNCHANGED <<neonVars, plusVars, poolVars>>
    BY <1>8 DEF ComputePool
  <2> HIDE DEF x
  <2>3. CallTyped' /\ NeonTyped' /\ PlusTyped' /\ PoolTyped'
    BY <1>1, <2>1, <2>2, BeginTyped, RowsStayTyped
  <2> QED
    BY <2>3, TypeParts, PTL
<1> QED
  BY <1>2, <1>3, <1>4, <1>5, <1>6, <1>7, <1>8 DEF Requests

LEMMA TipTyped ==
  ASSUME TypeOK, LockInv, NEW c \in Calls, TipSteps(c) PROVE TypeOK'
<1>1. NeonTyped /\ PlusTyped /\ PoolTyped /\ CallTyped
  BY TypeParts
<1>2. ASSUME NEW x \in AllCalls, Goto(c, x), NeonTyped', UNCHANGED <<plusVars, poolVars>> PROVE TypeOK'
  <2>1. CallTyped' /\ PlusTyped' /\ PoolTyped'
    BY <1>1, <1>2, GotoTyped, RowsStayTyped
  <2> QED
    BY <2>1, <1>2, TypeParts, PTL
<1>3. UNCHANGED neonVars => NeonTyped'
  BY <1>1, RowsStayTyped
<1>4. Idle \in AllCalls
  BY ShapesAreCalls
<1>5. CASE Debit(c) \/ Pour(c) \/ FailTip(c)
  <2>1. \A p \in {"pour", "commit"} : [call[c] EXCEPT !.pc = p] \in AllCalls
    BY <1>5, TypeCalls, ShapesAreCalls DEF Debit, Pour, FailTip, At, Spending
  <2> QED
    BY <1>5, <2>1, <1>2, <1>3, <1>4 DEF Debit, Pour, FailTip, Answer
<1>6. CASE CommitTip(c)
  <2>1. call[c] \in Spending /\ At(c, {"commit"})
    BY <1>6, TypeCalls DEF CommitTip, At
  <2>2. [call[c] EXCEPT !.pc = "resolve"] \in AllCalls
    BY <2>1, ShapesAreCalls DEF Spending
  <2>3. /\ call[c].user \in Users /\ call[c].room \in Rooms /\ call[c].amount \in Nat
        /\ call[c].amount <= neon[call[c].user]
    BY <2>1, ConstantsOK DEF Spending, LockInv, At
  <2>4. NeonTyped'
    <3>1. neon' \in [Users -> Nat] /\ tips' \in [Rooms -> Nat]
      BY <1>6, <1>1, <2>3 DEF CommitTip, NeonTyped
    <3>2. tube' \in [Rooms -> TubeRow]
      BY <1>6, <1>1, <2>3 DEF CommitTip, NeonTyped, TubeRow
    <3> QED
      BY <1>6, <1>1, <3>1, <3>2 DEF CommitTip, NeonTyped
  <2> QED
    BY <1>6, <2>2, <2>4, <1>2 DEF CommitTip
<1>7. CASE LockTube(c)
  <2>1. call[c] \in Spending
    BY <1>7, TypeCalls DEF LockTube, At
  <2>2. [pc |-> "level", room |-> call[c].room, row |-> tube[call[c].room]] \in AllCalls
    <3>1. call[c].room \in Rooms /\ tube[call[c].room] \in TubeRow
      BY <2>1, <1>1 DEF Spending, NeonTyped
    <3> QED
      BY <3>1, ShapesAreCalls DEF Levelling
  <2> QED
    BY <1>7, <2>2, <1>2, <1>3 DEF LockTube
<1>8. CASE LevelUp(c)
  <2>1. call[c] \in Levelling
    BY <1>8, TypeCalls DEF LevelUp, At
  <2>2. ASSUME NEW row \in TubeRow, Overflows(row) PROVE LevelledUp(row) \in TubeRow
    <3> DEFINE next == IF row.level + 1 > MaxLevel THEN 1 ELSE row.level + 1
    <3>1. next \in 1..MaxLevel /\ row.fill - row.target \in Nat
      BY <2>2, ConstantsOK DEF TubeRow, Overflows
    <3>2. TargetOf(next) \in Nat /\ next \in Nat
      BY <3>1, LevelsTyped
    <3> HIDE DEF next
    <3>3. [row EXCEPT !.level = next, !.fill = @ - row.target, !.target = TargetOf(next)] \in TubeRow
      BY <3>1, <3>2 DEF TubeRow
    <3> QED
      BY <3>3 DEF LevelledUp, next
  <2>3. [call[c] EXCEPT !.row = LevelledUp(@)] \in AllCalls
    <3>1. call[c].row \in TubeRow
      BY <2>1 DEF Levelling
    <3>2. LevelledUp(call[c].row) \in TubeRow
      BY <3>1, <2>2, <1>8 DEF LevelUp
    <3> QED
      BY <2>1, <3>2, ShapesAreCalls DEF Levelling
  <2> QED
    BY <1>8, <2>3, <1>2, <1>3 DEF LevelUp
<1>9. CASE CommitLevels(c)
  <2>1. call[c] \in Levelling
    BY <1>9, TypeCalls DEF CommitLevels, At
  <2>2. call[c].room \in Rooms /\ call[c].row \in TubeRow
    BY <2>1 DEF Levelling
  <2>3. NeonTyped'
    BY <1>9, <1>1, <2>2 DEF CommitLevels, NeonTyped, TubeRow
  <2> QED
    BY <1>9, <2>3, <1>2, <1>4 DEF CommitLevels, Answer
<1>10. CASE FailResolve(c)
  <2>1. call[c].room \in Rooms
    BY <1>10, TypeCalls DEF FailResolve, At, Spending, Levelling
  <2>2. NeonTyped'
    BY <1>10, <1>1, <2>1 DEF FailResolve, NeonTyped
  <2> QED
    BY <1>10, <2>2, <1>2, <1>4 DEF FailResolve, Answer
<1> QED
  BY <1>5, <1>6, <1>7, <1>8, <1>9, <1>10 DEF TipSteps

LEMMA PlusStepTyped ==
  ASSUME TypeOK, NEW c \in Calls, PlusSteps(c) PROVE TypeOK'
<1>1. NeonTyped /\ PlusTyped /\ PoolTyped /\ CallTyped /\ Idle \in AllCalls
  BY TypeParts, ShapesAreCalls
<1>2. ASSUME NEW x \in AllCalls, Goto(c, x), PlusTyped', UNCHANGED <<neonVars, poolVars>> PROVE TypeOK'
  <2>1. CallTyped' /\ NeonTyped' /\ PoolTyped'
    BY <1>1, <1>2, GotoTyped, RowsStayTyped
  <2> QED
    BY <2>1, <1>2, TypeParts, PTL
<1>3. CASE SetFlag(c)
  <2>1. call[c] \in PlusCall /\ call[c].user \in Users
    BY <1>3, TypeCalls DEF SetFlag, At, PlusCall
  <2>2. \A p \in {"grantRow", "dropRow"} : [call[c] EXCEPT !.pc = p] \in AllCalls
    BY <2>1, ShapesAreCalls DEF PlusCall
  <2>3. PlusTyped'
    BY <1>1, <1>3, <2>1 DEF SetFlag, PlusTyped, At
  <2>4. PICK p \in {"grantRow", "dropRow"} : Goto(c, [call[c] EXCEPT !.pc = p])
    BY <1>3 DEF SetFlag
  <2> QED
    BY <1>3, <2>2, <2>3, <2>4, <1>2 DEF SetFlag
<1>4. CASE WriteRow(c)
  <2>1. call[c].user \in Users
    BY <1>4, TypeCalls DEF WriteRow, At, PlusCall
  <2>2. PlusTyped'
    BY <1>1, <1>4, <2>1 DEF WriteRow, PlusTyped
  <2> QED
    BY <1>1, <1>4, <2>2, <1>2 DEF WriteRow, Answer
<1>5. CASE FailPlus(c)
  <2>1. call[c].user \in Users
    BY <1>5, TypeCalls DEF FailPlus, At, PlusCall
  <2>2. PlusTyped'
    BY <1>1, <1>5, <2>1 DEF FailPlus, PlusTyped
  <2> QED
    BY <1>1, <1>5, <2>2, <1>2 DEF FailPlus, Answer
<1>6. CASE InsertDJSub(c)
  <2>1. call[c].user \in Users /\ call[c].dj \in Users
    BY <1>6, TypeCalls DEF InsertDJSub, At, DJCall
  <2>2. PlusTyped'
    BY <1>1, <1>6, <2>1 DEF InsertDJSub, PlusTyped
  <2> QED
    BY <1>1, <1>6, <2>2, <1>2 DEF InsertDJSub, Answer
<1> QED
  BY <1>3, <1>4, <1>5, <1>6 DEF PlusSteps

LEMMA PoolStepTyped ==
  ASSUME TypeOK, DueInv, NEW c \in Calls, PoolSteps(c) PROVE TypeOK'
<1>1. NeonTyped /\ PlusTyped /\ PoolTyped /\ CallTyped /\ Idle \in AllCalls
  BY TypeParts, ShapesAreCalls
<1>2. ASSUME NEW x \in AllCalls, Goto(c, x), PoolTyped', UNCHANGED <<neonVars, plusVars>> PROVE TypeOK'
  <2>1. CallTyped' /\ NeonTyped' /\ PlusTyped'
    BY <1>1, <1>2, GotoTyped, RowsStayTyped
  <2> QED
    BY <2>1, <1>2, TypeParts, PTL
<1>3. CASE ReadMinutes(c)
  <2>0. PICK read \in SUBSET Users :
             LET minutes == [d \in Users |-> IF d \in read THEN MinutesOf(d) ELSE 0] IN
               Goto(c, [pc |-> "month", cents |-> call[c].cents, minutes |-> minutes,
                        due |-> {d \in Users : minutes[d] > 0}, serial |-> requests])
    BY <1>3 DEF ReadMinutes
  <2> DEFINE minutes == [d \in Users |-> IF d \in read THEN MinutesOf(d) ELSE 0]
             due == {d \in Users : minutes[d] > 0}
             x == [pc |-> "month", cents |-> call[c].cents, minutes |-> minutes, due |-> due,
                   serial |-> requests]
  <2>1. call[c].cents \in Nat
    BY <1>3, TypeCalls DEF ReadMinutes, At, Computing
  <2>2. minutes \in [Users -> Nat]
    BY MinutesTyped
  <2>3. due \in SUBSET Users /\ requests \in Nat
    BY <1>1 DEF CallTyped
  <2>4. Goto(c, x) /\ UNCHANGED <<neonVars, plusVars, poolVars>>
    BY <1>3, <2>0 DEF ReadMinutes
  <2> HIDE DEF minutes, due
  <2>5. x \in AllCalls
    BY <2>1, <2>2, <2>3, ShapesAreCalls DEF Paying
  <2>6. PoolTyped'
    BY <1>1, <2>4, RowsStayTyped
  <2> HIDE DEF x
  <2> QED
    BY <2>4, <2>5, <2>6, <1>2
<1>4. CASE UpsertMonth(c)
  <2>1. call[c] \in Paying
    BY <1>4, TypeCalls DEF UpsertMonth, At
  <2>2. [call[c] EXCEPT !.pc = "clear"] \in AllCalls /\ call[c].cents \in Nat
    BY <2>1, ShapesAreCalls DEF Paying
  <2>3. PoolTyped'
    <3>1. SumFunction(call[c].minutes) \in Nat
      BY <2>1, SumFunctionFacts, ConstantsOK DEF Paying
    <3> QED
      BY <1>1, <1>4, <2>2, <3>1 DEF UpsertMonth, PoolTyped
  <2> QED
    BY <1>4, <2>2, <2>3, <1>2 DEF UpsertMonth
<1>5. CASE ClearShares(c)
  <2>1. call[c] \in Paying
    BY <1>5, TypeCalls DEF ClearShares, At
  <2>2. [call[c] EXCEPT !.pc = "pay"] \in AllCalls
    BY <2>1, ShapesAreCalls DEF Paying
  <2>3. PoolTyped'
    BY <1>1, <1>5 DEF ClearShares, PoolTyped
  <2> QED
    BY <1>5, <2>2, <2>3, <1>2 DEF ClearShares
<1>6. CASE AnswerPool(c)
  <2>1. PoolTyped'
    BY <1>1, <1>6, RowsStayTyped DEF AnswerPool
  <2> QED
    BY <1>1, <1>6, <2>1, <1>2 DEF AnswerPool, Answer
<1>7. CASE FailPool(c)
  <2>1. PoolTyped'
    BY <1>1, <1>7 DEF FailPool, PoolTyped, At
  <2> QED
    BY <1>1, <1>7, <2>1, <1>2 DEF FailPool, Answer
<1>8. ASSUME NEW d \in Users, PayCreator(c, d) PROVE TypeOK'
  <2>1. call[c] \in Paying
    BY <1>8, TypeCalls DEF PayCreator, At
  <2>2. [call[c] EXCEPT !.due = @ \ {d}] \in AllCalls /\ call[c].serial \in Nat
    BY <2>1, ShapesAreCalls DEF Paying
  <2>3. ShareOf(c, d) \in Nat
    BY <1>8, ShareTyped DEF PayCreator
  <2>4. PoolTyped'
    <3> DEFINE s == [serial |-> call[c].serial, creator |-> d,
                     minutes |-> call[c].minutes[d], cents |-> ShareOf(c, d)]
    <3>1. s \in ShareRow
      BY <2>1, <2>2, <2>3 DEF ShareRow, Paying
    <3>2. month' = month /\ listened' = listened /\ (shares' = shares \cup {s} \/ shares' = shares)
          /\ (poolTorn' = poolTorn \/ poolTorn' = TRUE)
      BY <1>8 DEF PayCreator
    <3> HIDE DEF s
    <3> QED
      BY <1>1, <3>1, <3>2 DEF PoolTyped
  <2> QED
    BY <1>8, <2>2, <2>4, <1>2 DEF PayCreator
<1> QED
  BY <1>3, <1>4, <1>5, <1>6, <1>7, <1>8 DEF PoolSteps

LEMMA TypeStep == TypeOK /\ LockInv /\ DueInv /\ [Next]_vars => TypeOK'
<1> SUFFICES ASSUME TypeOK, LockInv, DueInv, [Next]_vars PROVE TypeOK'
  OBVIOUS
<1>1. NeonTyped /\ PlusTyped /\ PoolTyped /\ CallTyped
  BY TypeParts
<1>2. ASSUME NEW u \in Users, RefreshUser(u) \/ Expire(u) PROVE TypeOK'
  <2>1. PlusTyped'
    BY <1>1, <1>2 DEF RefreshUser, Expire, PlusTyped, IsPlus
  <2>2. NeonTyped' /\ PoolTyped' /\ CallTyped'
    BY <1>1, <1>2, RowsStayTyped DEF RefreshUser, Expire, callVars, CallTyped
  <2> QED
    BY <2>1, <2>2, TypeParts, PTL
<1>3. ASSUME NEW r \in Rooms, DeleteRoom(r) PROVE TypeOK'
  <2>1. NeonTyped' /\ PlusTyped' /\ PoolTyped' /\ CallTyped'
    BY <1>1, <1>3, RowsStayTyped DEF DeleteRoom, NeonTyped, callVars, CallTyped
  <2> QED
    BY <2>1, TypeParts, PTL
<1>4. CASE UNCHANGED vars
  <2>1. NeonTyped' /\ PlusTyped' /\ PoolTyped' /\ CallTyped'
    BY <1>1, <1>4, RowsStayTyped DEF vars, callVars, CallTyped
  <2> QED
    BY <2>1, TypeParts, PTL
<1> QED
  BY <1>2, <1>3, <1>4, RequestTyped, TipTyped, PlusStepTyped, PoolStepTyped DEF Next, Rest

-----------------------------------------------------------------------------
(* The locks *)

\* A call moves from call[c] to x: it takes free locks or keeps those it has, and no balance
\* that another transaction has checked is written.
LEMMA LockMove ==
  ASSUME TypeOK, LockInv, NEW c \in Calls, NEW x,
         call' = [call EXCEPT ![c] = x],
         \A b \in Calls \ {c} : At(b, {"pour", "commit"}) =>
            neon'[call[b].user] = neon[call[b].user],
         x.pc \in {"pour", "commit"} => neon' = neon,
         x.pc \in {"pour", "commit"} => /\ x.user = call[c].user /\ x.amount = call[c].amount
                                        /\ \/ At(c, {"pour", "commit"})
                                           \/ /\ UserRowFree(x.user)
                                              /\ x.amount <= neon[x.user],
         x.pc \in {"commit", "level"} => /\ x.room = call[c].room
                                         /\ At(c, {"commit", "level"}) \/ TubeRowFree(x.room)
  PROVE  LockInv'
<1>1. call \in [Calls -> AllCalls]
  BY TypeParts DEF CallTyped
<1>2. call'[c] = x /\ \A b \in Calls \ {c} : call'[b] = call[b]
  BY <1>1
<1>4. ASSUME NEW b \in Calls, NEW d \in Calls, call'[b].pc \in {"pour", "commit"},
             call'[d].pc \in {"pour", "commit"}, call'[b].user = call'[d].user
      PROVE  b = d
  BY <1>2, <1>4 DEF LockInv, At, UserRowFree
<1>5. ASSUME NEW b \in Calls, call'[b].pc \in {"pour", "commit"}
      PROVE  call'[b].amount <= neon'[call'[b].user]
  BY <1>2, <1>5 DEF LockInv, At
<1>6. ASSUME NEW b \in Calls, NEW d \in Calls, call'[b].pc \in {"commit", "level"},
             call'[d].pc \in {"commit", "level"}, call'[b].room = call'[d].room
      PROVE  b = d
  BY <1>2, <1>6 DEF LockInv, At, TubeRowFree
<1> QED
  BY <1>4, <1>5, <1>6 DEF LockInv, At

\* A call that ends up outside the transactions' locked parts.
LEMMA LockLeave ==
  ASSUME TypeOK, LockInv, NEW c \in Calls, NEW x, call' = [call EXCEPT ![c] = x],
         x.pc \notin {"pour", "commit", "level"},
         \A b \in Calls \ {c} : At(b, {"pour", "commit"}) =>
            neon'[call[b].user] = neon[call[b].user]
  PROVE  LockInv'
BY LockMove

LEMMA LockTip == ASSUME TypeOK, LockInv, NEW c \in Calls, TipSteps(c) PROVE LockInv'
<1>0. call \in [Calls -> AllCalls] /\ neon \in [Users -> Nat]
  BY TypeParts DEF CallTyped, NeonTyped
<1>1. CASE Debit(c) /\ neon[call[c].user] >= call[c].amount
  <2> DEFINE x == [call[c] EXCEPT !.pc = "pour"]
  <2>1. call[c] \in Spending /\ call[c].amount \in Nat /\ neon[call[c].user] \in Nat
    BY <1>0, <1>1, TypeCalls, ConstantsOK DEF Debit, At, Spending
  <2>2. x.pc = "pour" /\ x.user = call[c].user /\ x.amount = call[c].amount
    BY <2>1 DEF Spending
  <2>3. call' = [call EXCEPT ![c] = x] /\ neon' = neon /\ UserRowFree(call[c].user)
    BY <1>1 DEF Debit, Goto, neonVars
  <2> HIDE DEF x
  <2>4. x.amount <= neon[x.user]
    BY <1>1, <2>1, <2>2
  <2> QED
    BY <2>2, <2>3, <2>4, LockMove
<1>2. CASE Pour(c) /\ call[c].room \notin deleted
  <2> DEFINE x == [call[c] EXCEPT !.pc = "commit"]
  <2>1. call[c] \in Spending
    BY <1>2, TypeCalls DEF Pour, At
  <2>2. x.pc = "commit" /\ x.user = call[c].user /\ x.amount = call[c].amount /\ x.room = call[c].room
    BY <2>1 DEF Spending
  <2>3. /\ call' = [call EXCEPT ![c] = x] /\ neon' = neon /\ TubeRowFree(call[c].room)
        /\ At(c, {"pour", "commit"})
    BY <1>2 DEF Pour, Goto, neonVars, At
  <2> HIDE DEF x
  <2> QED
    BY <2>2, <2>3, LockMove
<1>3. CASE CommitTip(c)
  <2> DEFINE x == [call[c] EXCEPT !.pc = "resolve"]
  <2>1. call[c] \in Spending /\ At(c, {"pour", "commit"})
    BY <1>3, TypeCalls DEF CommitTip, At
  <2>2. x.pc = "resolve" /\ call' = [call EXCEPT ![c] = x]
    BY <1>3, <2>1 DEF CommitTip, Goto, Spending
  <2>3. ASSUME NEW b \in Calls \ {c}, At(b, {"pour", "commit"})
        PROVE  neon'[call[b].user] = neon[call[b].user]
    <3>1. call[b].user # call[c].user
      BY <2>1, <2>3 DEF LockInv
    <3>2. call[b].user \in Users
      BY <2>3, TypeCalls DEF At, Spending
    <3>3. neon' = [neon EXCEPT ![call[c].user] = @ - call[c].amount]
      BY <1>3 DEF CommitTip
    <3> QED
      BY <1>0, <3>1, <3>2, <3>3
  <2> HIDE DEF x
  <2> QED
    BY <2>2, <2>3, LockLeave
<1>4. CASE LockTube(c)
  <2> DEFINE x == [pc |-> "level", room |-> call[c].room, row |-> tube[call[c].room]]
  <2>1. x.pc = "level" /\ x.room = call[c].room
    OBVIOUS
  <2>2. call' = [call EXCEPT ![c] = x] /\ neon' = neon /\ TubeRowFree(call[c].room)
    BY <1>4 DEF LockTube, Goto, neonVars
  <2> HIDE DEF x
  <2> QED
    BY <2>1, <2>2, LockMove
<1>5. CASE LevelUp(c)
  <2> DEFINE x == [call[c] EXCEPT !.row = LevelledUp(@)]
  <2>1. call[c] \in Levelling
    BY <1>5, TypeCalls DEF LevelUp, At
  <2>2. x.pc = "level" /\ x.room = call[c].room
    BY <2>1 DEF Levelling
  <2>3. call' = [call EXCEPT ![c] = x] /\ neon' = neon /\ At(c, {"commit", "level"})
    BY <1>5 DEF LevelUp, Goto, neonVars, At
  <2> HIDE DEF x
  <2> QED
    BY <2>2, <2>3, LockMove
<1>6. ASSUME Answer(c), neon' = neon PROVE LockInv'
  BY <1>6, LockLeave, ShapesAreCalls DEF Answer, Goto
<1>7. CASE Debit(c) /\ ~ (neon[call[c].user] >= call[c].amount)
  BY <1>6, <1>7 DEF Debit, neonVars
<1>8. CASE Pour(c) /\ call[c].room \in deleted
  BY <1>6, <1>8 DEF Pour, neonVars
<1>9. CASE FailTip(c) \/ CommitLevels(c) \/ FailResolve(c)
  BY <1>6, <1>9 DEF FailTip, CommitLevels, FailResolve, neonVars
<1> QED
  BY <1>1, <1>2, <1>3, <1>4, <1>5, <1>7, <1>8, <1>9 DEF TipSteps

\* Where a step of each kind finds its call, and where it puts it.
Moves(c, from, to) ==
    At(c, from) /\ call' = [call EXCEPT ![c] = call'[c]] /\ call'[c].pc \in to

TipStages  == {"debit", "pour", "commit", "resolve", "level"}
PlusStages == {"grantFlag", "dropFlag", "grantRow", "dropRow", "djInsert"}
PoolStages == {"minutes", "month", "clear", "pay"}

LEMMA MovesSomewhere ==
  ASSUME NEW c \in Calls, NEW from, NEW to, Moves(c, from, to)
  PROVE  At(c, from) /\ \E x : call' = [call EXCEPT ![c] = x] /\ x.pc \in to
<1>1. PICK x : x = call'[c]
  OBVIOUS
<1>2. call' = [call EXCEPT ![c] = x] /\ x.pc \in to
  BY <1>1 DEF Moves
<1> QED
  BY <1>2 DEF Moves

LEMMA RequestMoves ==
  ASSUME TypeOK, NEW c \in Calls, Requests(c)
  PROVE  Moves(c, {"idle"}, {"idle", "debit", "grantFlag", "dropFlag", "djInsert", "minutes"})
<1>1. call \in [Calls -> AllCalls]
  BY TypeParts DEF CallTyped
<1>2. ASSUME NEW u \in Users, (\E n \in Packs : BuyNeon(c, u, n)) \/ (\E n \in Grants : AdminSetNeon(c, u, n))
                              \/ (\E grant \in BOOLEAN : AdminSetPlus(c, u, grant))
      PROVE  Moves(c, {"idle"}, {"idle"})
  BY <1>1, <1>2, ShapesAreCalls DEF BuyNeon, AdminSetNeon, AdminSetPlus, Begin, Moves
<1>3. ASSUME NEW u \in Users, \/ \E r \in Rooms, n \in Tips : SendNeon(c, u, r, n)
                              \/ SubscribePlus(c, u) \/ CancelPlus(c, u)
                              \/ \E d \in Users : SubscribeToDJ(c, u, d)
      PROVE  Moves(c, {"idle"}, {"debit", "grantFlag", "dropFlag", "djInsert"})
  <2>1. CASE \E r \in Rooms, n \in Tips : SendNeon(c, u, r, n)
    BY <1>1, <2>1 DEF SendNeon, Begin, Moves
  <2>2. CASE SubscribePlus(c, u) \/ CancelPlus(c, u)
    BY <1>1, <2>2 DEF SubscribePlus, CancelPlus, Begin, Moves
  <2>3. CASE \E d \in Users : SubscribeToDJ(c, u, d)
    <3>1. PICK d \in Users : Begin(c, [pc |-> "djInsert", user |-> u, dj |-> d])
      BY <2>3 DEF SubscribeToDJ
    <3> QED
      BY <1>1, <3>1 DEF Begin, Moves
  <2> QED
    BY <1>3, <2>1, <2>2, <2>3 DEF Moves
<1>4. ASSUME NEW pct \in Pcts, ComputePool(c, pct) PROVE Moves(c, {"idle"}, {"minutes"})
  BY <1>1, <1>4 DEF ComputePool, Begin, Moves
<1> QED
  BY <1>2, <1>3, <1>4 DEF Requests, Moves

LEMMA TipMoves ==
  ASSUME TypeOK, NEW c \in Calls, TipSteps(c)
  PROVE  Moves(c, TipStages, {"idle", "pour", "commit", "resolve", "level"})
<1>0. call \in [Calls -> AllCalls]
  BY TypeParts DEF CallTyped
<1>1. /\ At(c, {"debit", "pour", "commit", "resolve"}) => \A p : [call[c] EXCEPT !.pc = p].pc = p
      /\ At(c, {"level"}) => \A r : [call[c] EXCEPT !.row = r].pc = "level"
  BY TypeCalls DEF Spending, Levelling
<1>2. CASE Debit(c) \/ Pour(c) \/ CommitTip(c)
  BY <1>0, <1>1, <1>2, ShapesAreCalls DEF Debit, Pour, CommitTip, Answer, Goto, At, Moves, TipStages
<1>3. CASE LockTube(c)
  BY <1>0, <1>3 DEF LockTube, Goto, At, Moves, TipStages
<1>4. CASE LevelUp(c)
  <2>1. [call[c] EXCEPT !.row = LevelledUp(@)].pc = "level"
    BY <1>1, <1>4 DEF LevelUp
  <2> QED
    BY <1>0, <1>4, <2>1 DEF LevelUp, Goto, At, Moves, TipStages
<1>5. CASE FailTip(c) \/ CommitLevels(c) \/ FailResolve(c)
  BY <1>0, <1>5, ShapesAreCalls DEF FailTip, CommitLevels, FailResolve, Answer, Goto, At, Moves, TipStages
<1> QED
  BY <1>2, <1>3, <1>4, <1>5 DEF TipSteps

LEMMA PlusMoves ==
  ASSUME TypeOK, NEW c \in Calls, PlusSteps(c)
  PROVE  Moves(c, PlusStages, {"idle", "grantRow", "dropRow"})
<1>0. call \in [Calls -> AllCalls]
  BY TypeParts DEF CallTyped
<1>1. CASE SetFlag(c)
  <2>1. \A p : [call[c] EXCEPT !.pc = p].pc = p
    BY <1>1, TypeCalls DEF SetFlag, At, PlusCall
  <2> QED
    BY <1>0, <1>1, <2>1 DEF SetFlag, Goto, At, Moves, PlusStages
<1>2. CASE WriteRow(c) \/ FailPlus(c) \/ InsertDJSub(c)
  BY <1>0, <1>2, ShapesAreCalls DEF WriteRow, FailPlus, InsertDJSub, Answer, Goto, At, Moves, PlusStages
<1> QED
  BY <1>1, <1>2 DEF PlusSteps

LEMMA PoolMoves ==
  ASSUME TypeOK, NEW c \in Calls, PoolSteps(c)
  PROVE  Moves(c, PoolStages, {"idle", "month", "clear", "pay"})
<1>0. call \in [Calls -> AllCalls]
  BY TypeParts DEF CallTyped
<1>1. CASE ReadMinutes(c)
  BY <1>0, <1>1 DEF ReadMinutes, Goto, At, Moves, PoolStages
<1>2. CASE UpsertMonth(c) \/ ClearShares(c) \/ \E d \in Users : PayCreator(c, d)
  <2>1. \A p, s : /\ [call[c] EXCEPT !.pc = p].pc = p
                  /\ [call[c] EXCEPT !.due = s].pc = call[c].pc
    BY <1>2, TypeCalls DEF UpsertMonth, ClearShares, PayCreator, At, Paying
  <2>2. CASE UpsertMonth(c)
    BY <1>0, <2>1, <2>2 DEF UpsertMonth, Goto, At, Moves, PoolStages
  <2>3. CASE ClearShares(c)
    BY <1>0, <2>1, <2>3 DEF ClearShares, Goto, At, Moves, PoolStages
  <2>4. ASSUME NEW d \in Users, PayCreator(c, d)
        PROVE  Moves(c, PoolStages, {"idle", "month", "clear", "pay"})
    BY <1>0, <2>1, <2>4 DEF PayCreator, Goto, At, Moves, PoolStages
  <2> QED
    BY <1>2, <2>2, <2>3, <2>4
<1>3. CASE AnswerPool(c) \/ FailPool(c)
  BY <1>0, <1>3, ShapesAreCalls DEF AnswerPool, FailPool, Answer, Goto, At, Moves, PoolStages
<1> QED
  BY <1>1, <1>2, <1>3 DEF PoolSteps

\* What no transaction of a tip does: it puts a call somewhere else, if anywhere.
Elsewhere(c) == \E x : /\ call' = [call EXCEPT ![c] = x]
                       /\ x.pc \notin {"pour", "commit", "resolve", "level"}
                       /\ ~ At(c, {"pour", "commit", "resolve", "level"})

LEMMA OthersElsewhere ==
  ASSUME TypeOK, NEW c \in Calls, Requests(c) \/ PlusSteps(c) \/ PoolSteps(c) PROVE Elsewhere(c)
<1>1. CASE Requests(c)
  BY <1>1, RequestMoves, MovesSomewhere DEF Elsewhere, At
<1>2. CASE PlusSteps(c)
  BY <1>2, PlusMoves, MovesSomewhere DEF Elsewhere, At, PlusStages
<1>3. CASE PoolSteps(c)
  BY <1>3, PoolMoves, MovesSomewhere DEF Elsewhere, At, PoolStages
<1> QED
  BY <1>1, <1>2, <1>3

LEMMA LockStep == TypeOK /\ LockInv /\ [Next]_vars => LockInv'
<1> SUFFICES ASSUME TypeOK, LockInv, [Next]_vars PROVE LockInv'
  OBVIOUS
<1>1. ASSUME UNCHANGED <<neon, call>> PROVE LockInv'
  BY <1>1 DEF LockInv, At
<1>2. ASSUME NEW c \in Calls, Elsewhere(c), neon' = neon PROVE LockInv'
  BY <1>2, LockLeave DEF Elsewhere
<1>3. ASSUME NEW c \in Calls, NEW u \in Users,
             (\E n \in Packs : BuyNeon(c, u, n)) \/ (\E n \in Grants : AdminSetNeon(c, u, n))
      PROVE  LockInv'
  <2>1. ASSUME NEW b \in Calls, At(b, {"pour", "commit"}) PROVE neon'[call[b].user] = neon[call[b].user]
    <3>1. call[b].user \in Users /\ call[b].user # u
      BY <2>1, <1>3, TypeCalls DEF At, Spending, BuyNeon, AdminSetNeon, UserRowFree
    <3>2. neon \in [Users -> Nat]
      BY TypeParts DEF NeonTyped
    <3>3. \E n : neon' = [neon EXCEPT ![u] = n]
      BY <1>3 DEF BuyNeon, AdminSetNeon
    <3> QED
      BY <3>1, <3>2, <3>3
  <2>2. call' = [call EXCEPT ![c] = Idle]
    BY <1>3 DEF BuyNeon, AdminSetNeon, Begin
  <2> QED
    BY <2>1, <2>2, LockLeave, ShapesAreCalls
<1>4. ASSUME NEW c \in Calls, Requests(c) PROVE LockInv'
  <2>1. Elsewhere(c)
    BY <1>4, OthersElsewhere
  <2>2. \/ \E u \in Users : (\E n \in Packs : BuyNeon(c, u, n)) \/ (\E n \in Grants : AdminSetNeon(c, u, n))
        \/ neon' = neon
    BY <1>4 DEF Requests, SendNeon, SubscribePlus, CancelPlus, AdminSetPlus, SubscribeToDJ,
                ComputePool, neonVars
  <2> QED
    BY <2>1, <2>2, <1>2, <1>3
<1>5. ASSUME NEW c \in Calls, PlusSteps(c) \/ PoolSteps(c) PROVE LockInv'
  <2>1. neon' = neon
    BY <1>5 DEF PlusSteps, SetFlag, WriteRow, FailPlus, InsertDJSub, PoolSteps, ReadMinutes, UpsertMonth,
                ClearShares, PayCreator, AnswerPool, FailPool, neonVars
  <2> QED
    BY <2>1, <1>2, <1>5, OthersElsewhere
<1>6. ASSUME (\E u \in Users : RefreshUser(u) \/ Expire(u)) \/ (\E r \in Rooms : DeleteRoom(r))
             \/ UNCHANGED vars
      PROVE  LockInv'
  BY <1>1, <1>6 DEF RefreshUser, Expire, DeleteRoom, neonVars, callVars, vars
<1> QED
  BY <1>4, <1>5, <1>6, LockTip DEF Next, Rest

LEMMA DueStep == TypeOK /\ DueInv /\ [Next]_vars => DueInv'
<1> SUFFICES ASSUME TypeOK, DueInv, [Next]_vars PROVE DueInv'
  OBVIOUS
<1>0. call \in [Calls -> AllCalls]
  BY TypeParts DEF CallTyped
<1>1. ASSUME NEW c \in Calls, NEW x, call' = [call EXCEPT ![c] = x],
             x.pc \in {"month", "clear", "pay"} => \A d \in x.due : x.minutes[d] > 0,
             x.pc \in {"month", "clear"} => \A d \in Users : x.minutes[d] > 0 => d \in x.due
      PROVE  DueInv'
  BY <1>0, <1>1 DEF DueInv, At
<1>2. ASSUME NEW c \in Calls, NEW x, Begin(c, x), x.pc \notin {"month", "clear", "pay"} PROVE DueInv'
  BY <1>1, <1>2 DEF Begin
<1>3. ASSUME NEW c \in Calls, NEW x, Goto(c, x), x.pc \notin {"month", "clear", "pay"} PROVE DueInv'
  BY <1>1, <1>3 DEF Goto
<1>4. ASSUME NEW c \in Calls, Answer(c) PROVE DueInv'
  BY <1>3, <1>4, ShapesAreCalls DEF Answer
<1>5. ASSUME NEW c \in Calls, Requests(c) PROVE DueInv'
  BY <1>2, <1>5, ShapesAreCalls
     DEF Requests, BuyNeon, AdminSetNeon, SendNeon, SubscribePlus, CancelPlus, AdminSetPlus,
         SubscribeToDJ, ComputePool
<1>6. ASSUME NEW c \in Calls, TipSteps(c) PROVE DueInv'
  <2>1. CASE Debit(c) \/ Pour(c) \/ CommitTip(c)
    <3>1. \A p : [call[c] EXCEPT !.pc = p].pc = p
      BY <2>1, TypeCalls DEF Debit, Pour, CommitTip, At, Spending
    <3>2. CASE Debit(c)
      <4>1. Goto(c, [call[c] EXCEPT !.pc = "pour"]) \/ Answer(c)
        BY <3>2 DEF Debit
      <4> QED
        BY <1>3, <1>4, <3>1, <4>1
    <3>3. CASE Pour(c)
      <4>1. Goto(c, [call[c] EXCEPT !.pc = "commit"]) \/ Answer(c)
        BY <3>3 DEF Pour
      <4> QED
        BY <1>3, <1>4, <3>1, <4>1
    <3>4. CASE CommitTip(c)
      <4>1. Goto(c, [call[c] EXCEPT !.pc = "resolve"])
        BY <3>4 DEF CommitTip
      <4> QED
        BY <1>3, <3>1, <4>1
    <3> QED
      BY <2>1, <3>2, <3>3, <3>4
  <2>2. CASE LockTube(c)
    BY <1>3, <2>2 DEF LockTube
  <2>3. CASE LevelUp(c)
    <3>1. [call[c] EXCEPT !.row = LevelledUp(@)].pc = "level"
      BY <2>3, TypeCalls DEF LevelUp, At, Levelling
    <3> QED
      BY <1>3, <2>3, <3>1 DEF LevelUp
  <2> QED
    BY <1>4, <1>6, <2>1, <2>2, <2>3 DEF TipSteps, FailTip, CommitLevels, FailResolve
<1>7. ASSUME NEW c \in Calls, PlusSteps(c) PROVE DueInv'
  <2>1. CASE SetFlag(c)
    <3>1. \A p : [call[c] EXCEPT !.pc = p].pc = p
      BY <2>1, TypeCalls DEF SetFlag, At, PlusCall
    <3> QED
      BY <1>3, <2>1, <3>1 DEF SetFlag
  <2> QED
    BY <1>4, <1>7, <2>1 DEF PlusSteps, WriteRow, FailPlus, InsertDJSub
<1>8. ASSUME NEW c \in Calls, PoolSteps(c) PROVE DueInv'
  <2>1. CASE ReadMinutes(c)
    <3>0. PICK read \in SUBSET Users :
               LET minutes == [d \in Users |-> IF d \in read THEN MinutesOf(d) ELSE 0] IN
                 Goto(c, [pc |-> "month", cents |-> call[c].cents, minutes |-> minutes,
                          due |-> {d \in Users : minutes[d] > 0}, serial |-> requests])
      BY <2>1 DEF ReadMinutes
    <3> DEFINE minutes == [d \in Users |-> IF d \in read THEN MinutesOf(d) ELSE 0]
               due == {d \in Users : minutes[d] > 0}
               x == [pc |-> "month", cents |-> call[c].cents, minutes |-> minutes, due |-> due,
                     serial |-> requests]
    <3>1. Goto(c, x) /\ \A d \in Users : d \in due <=> minutes[d] > 0
      BY <3>0
    <3>2. due \subseteq Users
      OBVIOUS
    <3> HIDE DEF minutes, due
    <3> QED
      BY <1>1, <3>1, <3>2 DEF Goto
  <2>2. CASE UpsertMonth(c) \/ ClearShares(c) \/ \E d \in Users : PayCreator(c, d)
    <3>1. /\ call[c] \in Paying /\ \A d \in call[c].due : call[c].minutes[d] > 0
          /\ At(c, {"month", "clear"}) => \A d \in Users : call[c].minutes[d] > 0 => d \in call[c].due
      BY <2>2, TypeCalls DEF UpsertMonth, ClearShares, PayCreator, DueInv, At
    <3>2. ASSUME NEW p, NEW d
          PROVE  /\ [call[c] EXCEPT !.pc = p].due = call[c].due
                 /\ [call[c] EXCEPT !.pc = p].minutes = call[c].minutes
                 /\ [call[c] EXCEPT !.pc = p].pc = p
                 /\ [call[c] EXCEPT !.due = @ \ {d}].due = call[c].due \ {d}
                 /\ [call[c] EXCEPT !.due = @ \ {d}].minutes = call[c].minutes
                 /\ [call[c] EXCEPT !.due = @ \ {d}].pc = call[c].pc
      BY <3>1 DEF Paying
    <3>3. PICK x : x = call'[c]
      OBVIOUS
    <3>5. /\ call' = [call EXCEPT ![c] = x] /\ x.due \subseteq call[c].due
          /\ x.minutes = call[c].minutes
          /\ x.pc = "pay" \/ (At(c, {"month"}) /\ x.due = call[c].due)
      <4>1. CASE UpsertMonth(c)
        BY <1>0, <3>2, <3>3, <4>1 DEF UpsertMonth, Goto
      <4>2. CASE ClearShares(c)
        BY <1>0, <3>2, <3>3, <4>2 DEF ClearShares, Goto
      <4>3. CASE \E d \in Users : PayCreator(c, d)
        BY <1>0, <3>2, <3>3, <4>3 DEF PayCreator, Goto, At
      <4> QED
        BY <2>2, <4>1, <4>2, <4>3
    <3>4. x.pc \in {"month", "clear"} => \A d \in Users : x.minutes[d] > 0 => d \in x.due
      BY <3>1, <3>5 DEF At
    <3> QED
      BY <1>1, <3>1, <3>5, <3>4
  <2> QED
    BY <1>4, <1>8, <2>1, <2>2 DEF PoolSteps, AnswerPool, FailPool
<1>9. ASSUME UNCHANGED call PROVE DueInv'
  BY <1>9 DEF DueInv, At
<1> QED
  BY <1>5, <1>6, <1>7, <1>8, <1>9 DEF Next, Rest, RefreshUser, Expire, DeleteRoom, callVars, vars

LEMMA InitInv == Init => TypeOK /\ LockInv /\ DueInv
<1> SUFFICES ASSUME Init PROVE TypeOK /\ LockInv /\ DueInv
  OBVIOUS
<1>1. NeonTyped
  BY ConstantsOK DEF Init, NeonTyped, TubeRow, EmptyTube
<1>2. PlusTyped /\ PoolTyped
  BY DEF Init, PlusTyped, PoolTyped
<1>3. CallTyped
  BY ConstantsOK, ShapesAreCalls DEF Init, CallTyped
<1>4. LockInv /\ DueInv
  BY ShapesAreCalls DEF Init, LockInv, DueInv, At
<1> QED
  BY <1>1, <1>2, <1>3, <1>4, TypeParts

\* Types, and the locks they need: a tip's debit never takes a balance below zero, because the
\* row it has checked stays its own until it commits (store/monetization.go, SpendNeon).
THEOREM TypeCorrect == Spec => [](TypeOK /\ LockInv /\ DueInv)
<1>1. TypeOK /\ LockInv /\ DueInv /\ [Next]_vars => TypeOK' /\ LockInv' /\ DueInv'
  BY TypeStep, LockStep, DueStep
<1> QED
  BY <1>1, InitInv, PTL DEF Spec

-----------------------------------------------------------------------------
(* What a tube shows *)

\* One more level-up is the next one of the ledger.
LEMMA LevelledUpPaid ==
  ASSUME NEW row \in TubeRow, NEW n \in Nat, NEW k \in Nat, PaidLevels(row, n, k)
  PROVE  PaidLevels(LevelledUp(row), n, k + 1)
<1> DEFINE next == IF row.level + 1 > MaxLevel THEN 1 ELSE row.level + 1
           up == [row EXCEPT !.level = next, !.fill = @ - row.target, !.target = TargetOf(next)]
<1>1. next = Books!LevelAfter(k + 1) /\ k + 1 \in Nat
  BY NextLevel DEF PaidLevels
<1>2. /\ Books!Cost[k + 1] = Books!Cost[k] + Step(k + 1) /\ Books!Cost[k] \in Nat
      /\ Step(k + 1) \in Nat
  BY CostStep, LevelsTyped, <1>1
<1>3. Step((k + 1) + 1) = TargetOf(next)
  BY <1>1 DEF Step
<1> HIDE DEF next
<1>4. up.level = next /\ up.fill = row.fill - row.target /\ up.target = TargetOf(next)
  BY DEF TubeRow
<1>5. up.fill = n - Books!Cost[k + 1]
  BY <1>2, <1>4 DEF PaidLevels
<1> HIDE DEF up
<1>6. LevelledUp(row) = up
  BY DEF LevelledUp, up, next
<1> QED
  BY <1>1, <1>3, <1>4, <1>5, <1>6 DEF PaidLevels

\* A row that does not overflow is what the ledger displays.
LEMMA SettledIsDisplayed ==
  ASSUME NEW row \in TubeRow, NEW n \in Nat, NEW k \in Nat, PaidLevels(row, n, k), ~Overflows(row)
  PROVE  [level |-> row.level, fill |-> row.fill, target |-> row.target] = Books!Display(n)
<1>1. /\ Books!Cost[k + 1] = Books!Cost[k] + Step(k + 1) /\ Books!Cost[k] \in Nat
      /\ Step(k + 1) \in Nat \ {0} /\ k + 1 \in Nat
  BY CostStep, LevelsTyped
<1>2. row.fill < row.target /\ row.fill \in Nat
  BY <1>1 DEF PaidLevels, Overflows, TubeRow
<1>3. Books!Cost[k] <= n /\ n < Books!Cost[k + 1]
  BY <1>1, <1>2 DEF PaidLevels
<1>4. Books!PaidUps(n) = k
  BY <1>3, PaidUpsIs
<1>5. Books!Cost[k + 1] - Books!Cost[k] = Step(k + 1)
  BY <1>1
<1> QED
  BY <1>4, <1>5 DEF Books!Display, PaidLevels

\* Only a tip that commits, a level-up and its commit touch what the levels are about.
LevelQuiet ==
    /\ UNCHANGED <<tube, tips>>
    /\ \/ UNCHANGED call
       \/ \E c \in Calls : \E x : call' = [call EXCEPT ![c] = x] /\ x.pc # "level"

LEMMA QuietKeepsLevels == ASSUME TypeOK, LevelInv, LevelQuiet PROVE LevelInv'
<1>1. call \in [Calls -> AllCalls]
  BY TypeParts DEF CallTyped
<1>2. \A r \in Rooms : \E k \in Nat : PaidLevels(tube'[r], tips'[r], k)
  BY DEF LevelQuiet, LevelInv
<1>3. ASSUME NEW c \in Calls, call'[c].pc = "level"
      PROVE  \E k \in Nat : PaidLevels(call'[c].row, tips'[call'[c].room], k)
  <2>1. call'[c] = call[c] /\ tips' = tips
    BY <1>1, <1>3 DEF LevelQuiet
  <2> QED
    BY <2>1, <1>3 DEF LevelInv, At
<1> QED
  BY <1>2, <1>3 DEF LevelInv, At

LEMMA ElsewhereIsQuiet ==
  ASSUME NEW c \in Calls, Elsewhere(c), UNCHANGED <<tube, tips>> PROVE LevelQuiet
BY DEF Elsewhere, LevelQuiet

LEMMA RequestsLeaveRooms ==
  ASSUME NEW c \in Calls, Requests(c) \/ PlusSteps(c) \/ PoolSteps(c)
  PROVE  UNCHANGED <<tube, tips, deleted, unsettled>>
BY DEF Requests, BuyNeon, AdminSetNeon, SendNeon, SubscribePlus, CancelPlus, AdminSetPlus, SubscribeToDJ,
       ComputePool, PlusSteps, SetFlag, WriteRow, FailPlus, InsertDJSub, PoolSteps, ReadMinutes,
       UpsertMonth, ClearShares, PayCreator, AnswerPool, FailPool, neonVars

LEMMA OutsideLeavesRooms ==
  ASSUME (\E u \in Users : RefreshUser(u) \/ Expire(u)) \/ (\E r \in Rooms : DeleteRoom(r))
         \/ UNCHANGED vars
  PROVE  UNCHANGED <<neon, bought, tube, tips, unsettled, call>>
BY DEF RefreshUser, Expire, DeleteRoom, neonVars, callVars, vars

LEMMA LevelStep == TypeOK /\ LockInv /\ LevelInv /\ [Next]_vars => LevelInv'
<1> SUFFICES ASSUME TypeOK, LockInv, LevelInv, [Next]_vars PROVE LevelInv'
  OBVIOUS
<1>0. call \in [Calls -> AllCalls] /\ tube \in [Rooms -> TubeRow] /\ tips \in [Rooms -> Nat]
  BY TypeParts DEF CallTyped, NeonTyped
<1>1. ASSUME NEW c \in Calls, Requests(c) \/ PlusSteps(c) \/ PoolSteps(c) PROVE LevelInv'
  BY <1>1, OthersElsewhere, RequestsLeaveRooms, ElsewhereIsQuiet, QuietKeepsLevels
<1>2. ASSUME (\E u \in Users : RefreshUser(u) \/ Expire(u)) \/ (\E r \in Rooms : DeleteRoom(r))
             \/ UNCHANGED vars
      PROVE  LevelInv'
  <2>1. LevelQuiet
    BY <1>2, OutsideLeavesRooms DEF LevelQuiet
  <2> QED
    BY <2>1, QuietKeepsLevels
<1>3. ASSUME NEW c \in Calls, Debit(c) \/ Pour(c) \/ FailTip(c) \/ FailResolve(c) PROVE LevelInv'
  <2>1. \A p : call[c] \in Spending => [call[c] EXCEPT !.pc = p].pc = p
    BY DEF Spending
  <2>2. ~ At(c, {"level"}) => call[c] \in Spending
    BY <1>3, TypeCalls DEF Debit, Pour, FailTip, FailResolve, At
  <2>3. \E x : Goto(c, x) /\ x.pc # "level"
    BY <1>3, <2>1, <2>2, ShapesAreCalls DEF Debit, Pour, FailTip, FailResolve, Answer, At
  <2>4. UNCHANGED <<tube, tips>>
    BY <1>3 DEF Debit, Pour, FailTip, FailResolve, neonVars
  <2>5. LevelQuiet
    BY <2>3, <2>4 DEF LevelQuiet, Goto
  <2> QED
    BY <2>5, QuietKeepsLevels
<1>4. ASSUME NEW c \in Calls, CommitTip(c) PROVE LevelInv'
  <2> DEFINE t == call[c]
  <2>1. t \in Spending /\ t.room \in Rooms /\ t.amount \in Nat /\ At(c, {"commit", "level"})
    BY <1>4, TypeCalls, ConstantsOK DEF CommitTip, At, Spending
  <2>2. /\ tips' = [tips EXCEPT ![t.room] = @ + t.amount]
        /\ tube' = [tube EXCEPT ![t.room].fill = @ + t.amount, ![t.room].total = @ + t.amount]
        /\ call' = [call EXCEPT ![c] = [t EXCEPT !.pc = "resolve"]]
    BY <1>4 DEF CommitTip, Goto
  <2> HIDE DEF t
  <2>3. ASSUME NEW r \in Rooms PROVE \E k \in Nat : PaidLevels(tube'[r], tips'[r], k)
    <3>1. PICK k \in Nat : PaidLevels(tube[r], tips[r], k)
      BY DEF LevelInv
    <3>2. tube[r] \in TubeRow /\ tips[r] \in Nat /\ Books!Cost[k] \in Nat
      BY <1>0, CostStep
    <3>3. CASE r # t.room
      <4>1. tube'[r] = tube[r] /\ tips'[r] = tips[r]
        BY <1>0, <2>2, <3>3
      <4> QED
        BY <3>1, <4>1
    <3>4. CASE r = t.room
      <4>1. tips'[r] = tips[r] + t.amount
        BY <1>0, <2>2, <3>4
      <4>2. /\ tube'[r].level = tube[r].level /\ tube'[r].target = tube[r].target
            /\ tube'[r].fill = tube[r].fill + t.amount
        BY <1>0, <2>2, <3>2, <3>4 DEF TubeRow
      <4>3. tube'[r].fill = tips'[r] - Books!Cost[k]
        BY <2>1, <3>1, <3>2, <4>1, <4>2 DEF PaidLevels, TubeRow
      <4> QED
        BY <3>1, <4>2, <4>3 DEF PaidLevels
    <3> QED
      BY <3>3, <3>4
  <2>4. ASSUME NEW b \in Calls, call'[b].pc = "level"
        PROVE  \E k \in Nat : PaidLevels(call'[b].row, tips'[call'[b].room], k)
    <3>1. [t EXCEPT !.pc = "resolve"].pc = "resolve"
      BY <2>1 DEF Spending
    <3>2. b # c /\ call'[b] = call[b]
      BY <1>0, <2>2, <2>4, <3>1
    <3>3. At(b, {"commit", "level"}) /\ call[b] \in Levelling
      BY <2>4, <3>2, TypeCalls DEF At
    <3>4. call[b].room # t.room /\ call[b].room \in Rooms
      BY <2>1, <3>2, <3>3 DEF LockInv, t, Levelling
    <3>5. tips'[call[b].room] = tips[call[b].room]
      BY <1>0, <2>2, <3>4
    <3> QED
      BY <2>4, <3>2, <3>5 DEF LevelInv, At
  <2> QED
    BY <2>3, <2>4 DEF LevelInv, At
<1>5. ASSUME NEW c \in Calls, NEW x, call' = [call EXCEPT ![c] = x], UNCHANGED <<tube, tips>>,
             \E k \in Nat : PaidLevels(x.row, tips[x.room], k)
      PROVE  LevelInv'
  BY <1>0, <1>5 DEF LevelInv, At
<1>6. ASSUME NEW c \in Calls, LockTube(c) PROVE LevelInv'
  <2> DEFINE x == [pc |-> "level", room |-> call[c].room, row |-> tube[call[c].room]]
  <2>1. call[c].room \in Rooms
    BY <1>6, TypeCalls DEF LockTube, At, Spending
  <2>2. \E k \in Nat : PaidLevels(x.row, tips[x.room], k)
    BY <2>1 DEF LevelInv
  <2>3. call' = [call EXCEPT ![c] = x] /\ UNCHANGED <<tube, tips>>
    BY <1>6 DEF LockTube, Goto, neonVars
  <2> HIDE DEF x
  <2> QED
    BY <1>5, <2>2, <2>3
<1>7. ASSUME NEW c \in Calls, LevelUp(c) PROVE LevelInv'
  <2> DEFINE x == [call[c] EXCEPT !.row = LevelledUp(@)]
  <2>1. call[c] \in Levelling /\ At(c, {"level"})
    BY <1>7, TypeCalls DEF LevelUp, At
  <2>2. call[c].room \in Rooms /\ call[c].row \in TubeRow /\ tips[call[c].room] \in Nat
    BY <1>0, <2>1 DEF Levelling
  <2>3. PICK k \in Nat : PaidLevels(call[c].row, tips[call[c].room], k)
    BY <2>1 DEF LevelInv
  <2>4. PaidLevels(LevelledUp(call[c].row), tips[call[c].room], k + 1) /\ k + 1 \in Nat
    BY <2>2, <2>3, LevelledUpPaid
  <2>5. x.row = LevelledUp(call[c].row) /\ x.room = call[c].room
    BY <2>1 DEF Levelling
  <2>6. call' = [call EXCEPT ![c] = x] /\ UNCHANGED <<tube, tips>>
    BY <1>7 DEF LevelUp, Goto, neonVars
  <2> HIDE DEF x
  <2> QED
    BY <1>5, <2>4, <2>5, <2>6
<1>8. ASSUME NEW c \in Calls, CommitLevels(c) PROVE LevelInv'
  <2>1. call[c] \in Levelling /\ At(c, {"level"})
    BY <1>8, TypeCalls DEF CommitLevels, At
  <2> DEFINE q == call[c].room
             row == [call[c].row EXCEPT !.total = tube[q].total]
  <2>2. q \in Rooms /\ call[c].row \in TubeRow
    BY <2>1 DEF Levelling
  <2>3. PICK k \in Nat : PaidLevels(call[c].row, tips[q], k)
    BY <2>1 DEF LevelInv
  <2>4. row.level = call[c].row.level /\ row.fill = call[c].row.fill /\ row.target = call[c].row.target
    BY <2>2 DEF TubeRow
  <2>5. tube' = [tube EXCEPT ![q] = row] /\ tips' = tips /\ call' = [call EXCEPT ![c] = Idle]
    BY <1>8 DEF CommitLevels, Answer, Goto
  <2> HIDE DEF q, row
  <2>6. PaidLevels(row, tips[q], k)
    BY <2>3, <2>4 DEF PaidLevels
  <2>7. \A r \in Rooms : \E j \in Nat : PaidLevels(tube'[r], tips'[r], j)
    BY <1>0, <2>2, <2>5, <2>6 DEF LevelInv
  <2>8. \A b \in Calls : call'[b].pc = "level" =>
           \E j \in Nat : PaidLevels(call'[b].row, tips'[call'[b].room], j)
    BY <1>0, <2>5, ShapesAreCalls DEF LevelInv, At
  <2> QED
    BY <2>7, <2>8 DEF LevelInv, At
<1> QED
  BY <1>1, <1>2, <1>3, <1>4, <1>6, <1>7, <1>8 DEF Next, Rest, TipSteps

LEMMA InitLevels == Init => LevelInv
<1> SUFFICES ASSUME Init PROVE LevelInv
  OBVIOUS
<1>1. Books!LevelAfter(0) = 1 /\ Books!Cost[0] = 0 /\ Step(0 + 1) = FirstTarget
  BY CostStep, ConstantsOK DEF Books!LevelAfter, Step
<1>2. ASSUME NEW r \in Rooms PROVE PaidLevels(tube[r], tips[r], 0)
  BY <1>1 DEF Init, EmptyTube, PaidLevels
<1> QED
  BY <1>2, ShapesAreCalls DEF Init, LevelInv, At

-----------------------------------------------------------------------------
(* The rows keep the ledger *)

\* What the ledger sees of a tube row, and of all.
Face(row) == [level |-> row.level, fill |-> row.fill, target |-> row.target]
Faces == [r \in Rooms |-> Face(tube[r])]

LEMMA SameBooks == UNCHANGED <<neon, bought, tips, tube>> => UNCHANGED Books!vars
BY DEF Books!vars

\* A tip's transaction is one transfer of the ledger, and of an amount the sender has.
LEMMA CommitIsTip ==
  ASSUME TypeOK, LockInv, NEW c \in Calls, CommitTip(c)
  PROVE  \E u \in Users : \E r \in Rooms, n \in Tips : Books!Tip(u, r, n)
<1> DEFINE t == call[c]
<1>0. tube \in [Rooms -> TubeRow] /\ neon \in [Users -> Nat] /\ tips \in [Rooms -> Nat]
  BY TypeParts DEF NeonTyped
<1>1. t \in Spending /\ At(c, {"commit"})
  BY TypeCalls DEF CommitTip, At
<1>2. t.user \in Users /\ t.room \in Rooms /\ t.amount \in Tips /\ t.amount <= neon[t.user]
  BY <1>1 DEF Spending, LockInv, At
<1>3. /\ neon' = [neon EXCEPT ![t.user] = @ - t.amount]
      /\ tips' = [tips EXCEPT ![t.room] = @ + t.amount]
      /\ tube' = [tube EXCEPT ![t.room].fill = @ + t.amount, ![t.room].total = @ + t.amount]
      /\ bought' = bought
  BY DEF CommitTip
<1> HIDE DEF t
<1>4. Faces' = [Faces EXCEPT ![t.room].fill = @ + t.amount]
  <2>1. ASSUME NEW r \in Rooms
        PROVE  Face(tube'[r]) = IF r = t.room THEN [Face(tube[r]) EXCEPT !.fill = @ + t.amount]
                                ELSE Face(tube[r])
    <3>1. tube[r] \in TubeRow
      BY <1>0
    <3>2. CASE r = t.room
      <4>1. /\ tube'[r].level = tube[r].level /\ tube'[r].target = tube[r].target
            /\ tube'[r].fill = tube[r].fill + t.amount
        BY <1>0, <1>3, <3>1, <3>2 DEF TubeRow
      <4> QED
        BY <4>1, <3>2 DEF Face
    <3>3. CASE r # t.room
      BY <1>0, <1>3, <3>3
    <3> QED
      BY <3>2, <3>3
  <2>2. Faces' = [r \in Rooms |-> Face(tube'[r])]
    BY DEF Faces, Face
  <2>3. [Faces EXCEPT ![t.room].fill = @ + t.amount]
          = [r \in Rooms |-> IF r = t.room THEN [Face(tube[r]) EXCEPT !.fill = @ + t.amount]
                             ELSE Face(tube[r])]
    BY DEF Faces
  <2> QED
    BY <2>1, <2>2, <2>3
<1>5. PICK u \in Users, r \in Rooms, n \in Tips : u = t.user /\ r = t.room /\ n = t.amount
  BY <1>2
<1>6. Books!Tip(u, r, n)
  BY <1>2, <1>3, <1>4, <1>5 DEF Books!Tip, Faces, Face
<1> QED
  BY <1>6

\* Whatever a level-up read and wrote, it ends in what the ledger shows for the room.
LEMMA CommitIsSettle ==
  ASSUME TypeOK, LevelInv, NEW c \in Calls, CommitLevels(c)
  PROVE  \E r \in Rooms : Books!Settle(r)
<1> DEFINE q == call[c].room
           row == [call[c].row EXCEPT !.total = tube[q].total]
<1>0. tube \in [Rooms -> TubeRow] /\ tips \in [Rooms -> Nat]
  BY TypeParts DEF NeonTyped
<1>1. call[c] \in Levelling /\ At(c, {"level"}) /\ ~Overflows(call[c].row)
  BY TypeCalls DEF CommitLevels, At
<1>2. q \in Rooms /\ call[c].row \in TubeRow /\ tips[q] \in Nat
  BY <1>0, <1>1 DEF Levelling
<1>3. PICK k \in Nat : PaidLevels(call[c].row, tips[q], k)
  BY <1>1 DEF LevelInv
<1>4. Face(call[c].row) = Books!Display(tips[q])
  BY <1>1, <1>2, <1>3, SettledIsDisplayed DEF Face
<1>5. Face(row) = Face(call[c].row)
  BY <1>2 DEF Face, TubeRow
<1>6. tube' = [tube EXCEPT ![q] = row] /\ UNCHANGED <<neon, bought, tips>>
  BY DEF CommitLevels
<1> HIDE DEF q, row
<1>7. Faces' = [Faces EXCEPT ![q] = Books!Display(tips[q])]
  <2>1. \A r \in Rooms : Face(tube'[r]) = IF r = q THEN Books!Display(tips[q]) ELSE Face(tube[r])
    BY <1>0, <1>2, <1>4, <1>5, <1>6
  <2>2. Faces' = [r \in Rooms |-> Face(tube'[r])]
    BY DEF Faces, Face
  <2>3. [Faces EXCEPT ![q] = Books!Display(tips[q])]
          = [r \in Rooms |-> IF r = q THEN Books!Display(tips[q]) ELSE Face(tube[r])]
    BY DEF Faces
  <2> QED
    BY <2>1, <2>2, <2>3
<1>8. PICK r \in Rooms : r = q
  BY <1>2
<1>9. Books!Settle(r)
  BY <1>6, <1>7, <1>8 DEF Books!Settle, Faces, Face
<1> QED
  BY <1>9

LEMMA BooksStep ==
  TypeOK /\ LockInv /\ LevelInv /\ [Next]_vars => [Books!Next]_(Books!vars)
<1> SUFFICES ASSUME TypeOK, LockInv, LevelInv, [Next]_vars PROVE Books!Next \/ UNCHANGED Books!vars
  OBVIOUS
<1>1. ASSUME NEW c \in Calls, NEW u \in Users, NEW n \in Packs, BuyNeon(c, u, n) PROVE Books!Next
  <2>1. Books!Buy(u, n)
    BY <1>1 DEF BuyNeon, Books!Buy
  <2> QED
    BY <2>1 DEF Books!Next
<1>2. ASSUME NEW c \in Calls, NEW u \in Users, NEW n \in Grants, AdminSetNeon(c, u, n) PROVE Books!Next
  <2>1. Books!Grant(u, n)
    BY <1>2 DEF AdminSetNeon, Books!Grant
  <2> QED
    BY <2>1 DEF Books!Next
<1>3. ASSUME NEW c \in Calls, Requests(c) PROVE Books!Next \/ UNCHANGED Books!vars
  <2>1. \/ \E u \in Users : (\E n \in Packs : BuyNeon(c, u, n)) \/ (\E n \in Grants : AdminSetNeon(c, u, n))
        \/ UNCHANGED <<neon, bought>>
    BY <1>3 DEF Requests, SendNeon, SubscribePlus, CancelPlus, AdminSetPlus, SubscribeToDJ,
                ComputePool, neonVars
  <2>2. UNCHANGED <<tube, tips>>
    BY <1>3, RequestsLeaveRooms
  <2> QED
    BY <1>1, <1>2, <2>1, <2>2, SameBooks
<1>4. ASSUME NEW c \in Calls, PlusSteps(c) \/ PoolSteps(c) PROVE UNCHANGED Books!vars
  <2>1. UNCHANGED <<neon, bought, tips, tube>>
    BY <1>4 DEF PlusSteps, SetFlag, WriteRow, FailPlus, InsertDJSub, PoolSteps, ReadMinutes, UpsertMonth,
                ClearShares, PayCreator, AnswerPool, FailPool, neonVars
  <2> QED
    BY <2>1, SameBooks
<1>5. ASSUME NEW c \in Calls, CommitTip(c) PROVE Books!Next
  BY <1>5, CommitIsTip DEF Books!Next
<1>6. ASSUME NEW c \in Calls, CommitLevels(c) PROVE Books!Next
  BY <1>6, CommitIsSettle DEF Books!Next
<1>7. ASSUME NEW c \in Calls, Debit(c) \/ Pour(c) \/ FailTip(c) \/ LockTube(c) \/ LevelUp(c) \/ FailResolve(c)
      PROVE  UNCHANGED Books!vars
  <2>1. UNCHANGED <<neon, bought, tips, tube>>
    BY <1>7 DEF Debit, Pour, FailTip, LockTube, LevelUp, FailResolve, neonVars
  <2> QED
    BY <2>1, SameBooks
<1>8. ASSUME (\E u \in Users : RefreshUser(u) \/ Expire(u)) \/ (\E r \in Rooms : DeleteRoom(r))
             \/ UNCHANGED vars
      PROVE  UNCHANGED Books!vars
  BY <1>8, OutsideLeavesRooms, SameBooks
<1> QED
  BY <1>3, <1>4, <1>5, <1>6, <1>7, <1>8 DEF Next, Rest, TipSteps

LEMMA BooksInit == Init => Books!Init
BY DEF Init, Books!Init, EmptyTube, Books!EmptyTube

\* The transactions of monetization.go implement the ledger: buying, granting, tipping and
\* levelling up are single steps of it, whatever interleaves with their statements.
THEOREM LedgerKept == Spec => KeepsTheLedger
<1>1. TypeOK /\ LockInv /\ LevelInv /\ [Next]_vars => LevelInv' /\ [Books!Next]_(Books!vars)
  BY LevelStep, BooksStep
<1>2. Init => LevelInv /\ Books!Init
  BY InitLevels, BooksInit
<1>3. Spec => Books!Init /\ [][Books!Next]_(Books!vars)
  BY <1>1, <1>2, TypeCorrect, PTL DEF Spec
<1> QED
  BY <1>3 DEF KeepsTheLedger, Books!Spec

-----------------------------------------------------------------------------
(* An overflow has somebody to resolve it *)

Pending(r) == \/ ~Overflows(tube[r]) \/ r \in unsettled
              \/ \E c \in Calls : At(c, {"resolve", "level"}) /\ call[c].room = r

\* A step that writes no tube and takes no call away from a tube it is to level up.
LEMMA KeepsPending ==
  ASSUME TypeOK, OverflowIsPending, UNCHANGED <<tube, tips>>, unsettled \subseteq unsettled',
         \A c \in Calls : At(c, {"resolve", "level"}) =>
           \/ call'[c].pc \in {"resolve", "level"} /\ call'[c].room = call[c].room
           \/ call[c].room \in unsettled'
  PROVE  OverflowIsPending'
BY DEF OverflowIsPending, At

LEMMA PendingStep == TypeOK /\ OverflowIsPending /\ [Next]_vars => OverflowIsPending'
<1> SUFFICES ASSUME TypeOK, OverflowIsPending, [Next]_vars PROVE OverflowIsPending'
  OBVIOUS
<1>0. call \in [Calls -> AllCalls] /\ tube \in [Rooms -> TubeRow] /\ tips \in [Rooms -> Nat]
  BY TypeParts DEF CallTyped, NeonTyped
<1>1. ASSUME NEW c \in Calls, NEW x, call' = [call EXCEPT ![c] = x], ~ At(c, {"resolve", "level"}),
             UNCHANGED <<tube, tips, unsettled>>
      PROVE  OverflowIsPending'
  <2>1. \A b \in Calls : At(b, {"resolve", "level"}) => call'[b] = call[b]
    BY <1>0, <1>1
  <2> QED
    BY <1>1, <2>1, KeepsPending DEF At
<1>2. ASSUME NEW c \in Calls, Requests(c) \/ PlusSteps(c) \/ PoolSteps(c) PROVE OverflowIsPending'
  <2>1. UNCHANGED <<tube, tips, unsettled>>
    BY <1>2, RequestsLeaveRooms
  <2>2. Elsewhere(c)
    BY <1>2, OthersElsewhere
  <2> QED
    BY <2>1, <2>2, <1>1 DEF Elsewhere, At
<1>3. ASSUME UNCHANGED <<tube, tips, unsettled, call>> PROVE OverflowIsPending'
  BY <1>3, KeepsPending DEF At
<1>4. ASSUME NEW c \in Calls, Debit(c) \/ Pour(c) \/ FailTip(c) PROVE OverflowIsPending'
  <2>1. UNCHANGED <<tube, tips, unsettled>> /\ ~ At(c, {"resolve", "level"})
    BY <1>4 DEF Debit, Pour, FailTip, neonVars, At
  <2>2. \E x : call' = [call EXCEPT ![c] = x]
    BY <1>4 DEF Debit, Pour, FailTip, Answer, Goto
  <2> QED
    BY <2>1, <2>2, <1>1
<1>5. ASSUME NEW c \in Calls, CommitTip(c) PROVE OverflowIsPending'
  <2> DEFINE t == call[c]
             x == [t EXCEPT !.pc = "resolve"]
  <2>1. t \in Spending /\ t.room \in Rooms /\ t.amount \in Nat /\ At(c, {"commit"})
    BY <1>5, TypeCalls, ConstantsOK DEF CommitTip, At, Spending
  <2>2. /\ tips' = [tips EXCEPT ![t.room] = @ + t.amount] /\ unsettled' = unsettled
        /\ tube' = [tube EXCEPT ![t.room].fill = @ + t.amount, ![t.room].total = @ + t.amount]
        /\ call' = [call EXCEPT ![c] = x]
    BY <1>5 DEF CommitTip, Goto
  <2>3. x.pc = "resolve" /\ x.room = t.room
    BY <2>1 DEF Spending
  <2>4. \A b \in Calls : At(b, {"resolve", "level"}) => call'[b] = call[b]
    BY <1>0, <2>1, <2>2 DEF At, t
  <2> HIDE DEF t, x
  <2>5. call'[c] = x
    BY <1>0, <2>2
  <2>6. ASSUME NEW r \in Rooms PROVE tube'[r].total = tips'[r] /\ Pending(r)'
    <3>1. tube[r] \in TubeRow /\ tube[r].total = tips[r]
      BY <1>0 DEF OverflowIsPending
    <3>2. CASE r = t.room
      <4>1. tube'[r].total = tube[r].total + t.amount /\ tips'[r] = tips[r] + t.amount
        BY <1>0, <2>2, <3>1, <3>2 DEF TubeRow
      <4>2. Pending(r)'
        BY <2>3, <2>5, <3>2 DEF Pending, At
      <4> QED
        BY <4>1, <4>2, <3>1
    <3>3. CASE r # t.room
      <4>1. tube'[r] = tube[r] /\ tips'[r] = tips[r]
        BY <1>0, <2>2, <3>3
      <4>2. Pending(r)
        BY DEF OverflowIsPending, Pending
      <4>3. Pending(r)'
        BY <4>1, <4>2, <2>2, <2>4 DEF Pending, At
      <4> QED
        BY <4>1, <4>3, <3>1
    <3> QED
      BY <3>2, <3>3
  <2> QED
    BY <2>6 DEF OverflowIsPending, Pending
<1>6. ASSUME NEW c \in Calls, LockTube(c) \/ LevelUp(c) PROVE OverflowIsPending'
  <2>1. PICK x : /\ call' = [call EXCEPT ![c] = x] /\ x.pc = "level" /\ x.room = call[c].room
                 /\ UNCHANGED <<tube, tips, unsettled>>
    <3>1. CASE LockTube(c)
      BY <3>1 DEF LockTube, Goto, neonVars
    <3>2. CASE LevelUp(c)
      <4>1. call[c] \in Levelling
        BY <3>2, TypeCalls DEF LevelUp, At
      <4> QED
        BY <3>2, <4>1 DEF LevelUp, Goto, neonVars, Levelling
    <3> QED
      BY <1>6, <3>1, <3>2
  <2>2. \A b \in Calls : call'[b] = IF b = c THEN x ELSE call[b]
    BY <1>0, <2>1
  <2> QED
    BY <2>1, <2>2, KeepsPending DEF At
<1>7. ASSUME NEW c \in Calls, CommitLevels(c) PROVE OverflowIsPending'
  <2>1. call[c] \in Levelling /\ At(c, {"level"}) /\ ~Overflows(call[c].row)
    BY <1>7, TypeCalls DEF CommitLevels, At
  <2> DEFINE q == call[c].room
             row == [call[c].row EXCEPT !.total = tube[q].total]
  <2>2. q \in Rooms /\ call[c].row \in TubeRow
    BY <2>1 DEF Levelling
  <2>3. row.fill = call[c].row.fill /\ row.target = call[c].row.target /\ row.total = tube[q].total
    BY <2>2 DEF TubeRow
  <2>4. /\ tube' = [tube EXCEPT ![q] = row] /\ tips' = tips /\ call' = [call EXCEPT ![c] = Idle]
        /\ unsettled' = unsettled \ {q}
    BY <1>7 DEF CommitLevels, Answer, Goto
  <2>5. ~Overflows(row)
    BY <2>1, <2>3 DEF Overflows
  <2>6. \A b \in Calls \ {c} : call'[b] = call[b]
    BY <1>0, <2>4
  <2>7. call[c].room = q
    OBVIOUS
  <2> HIDE DEF q, row
  <2>8. ASSUME NEW r \in Rooms PROVE tube'[r].total = tips'[r] /\ Pending(r)'
    <3>1. tube[r].total = tips[r] /\ Pending(r)
      BY DEF OverflowIsPending, Pending
    <3>2. CASE r = q
      <4>1. tube'[r] = row
        BY <1>0, <2>4, <3>2
      <4> QED
        BY <4>1, <3>1, <3>2, <2>3, <2>4, <2>5 DEF Pending
    <3>3. CASE r # q
      <4>1. tube'[r] = tube[r]
        BY <1>0, <2>4, <3>3
      <4>2. \A b \in Calls : At(b, {"resolve", "level"}) /\ call[b].room = r => call'[b] = call[b]
        BY <2>6, <2>7, <3>3
      <4> QED
        BY <4>1, <4>2, <3>1, <3>3, <2>4 DEF Pending, At
    <3> QED
      BY <3>2, <3>3
  <2> QED
    BY <2>8 DEF OverflowIsPending, Pending
<1>8. ASSUME NEW c \in Calls, FailResolve(c) PROVE OverflowIsPending'
  <2>1. /\ UNCHANGED <<tube, tips>> /\ unsettled' = unsettled \cup {call[c].room}
        /\ call' = [call EXCEPT ![c] = Idle]
    BY <1>8 DEF FailResolve, Answer, Goto
  <2>2. \A b \in Calls \ {c} : call'[b] = call[b]
    BY <1>0, <2>1
  <2> QED
    BY <2>1, <2>2, KeepsPending DEF At
<1> QED
  BY <1>2, <1>3, <1>4, <1>5, <1>6, <1>7, <1>8, OutsideLeavesRooms DEF Next, Rest, TipSteps

\* A tube that overflows waits for nobody in vain: the tip that filled it, or another, is on
\* its way to level it up, unless that failed; and its total is what its room was sent.
THEOREM OverflowPending == Spec => []OverflowIsPending
<1>1. Init => OverflowIsPending
  BY ConstantsOK DEF Init, OverflowIsPending, Overflows, EmptyTube
<1> QED
  BY <1>1, PendingStep, TypeCorrect, PTL DEF Spec

-----------------------------------------------------------------------------
(* Plus and its row, a DJ and their subscribers *)

\* A step of others leaves whoever is half way through where it is.
LEMMA KeepsPlus ==
  ASSUME TypeOK, PlusInv, torn \subseteq torn', plusRow' = plusRow,
         \A u \in Users \ torn' : plus'[u] = plus[u],
         \/ UNCHANGED call
         \/ \E c \in Calls : \E x : /\ call' = [call EXCEPT ![c] = x]
                                    /\ x.pc \notin {"grantRow", "dropRow"} /\ ~ At(c, {"grantRow", "dropRow"})
  PROVE  PlusInv'
<1>0. call \in [Calls -> AllCalls]
  BY TypeParts DEF CallTyped
<1>1. \A c \in Calls : call[c].pc \in {"grantRow", "dropRow"} \/ call'[c].pc \in {"grantRow", "dropRow"} =>
                         call'[c] = call[c]
  BY <1>0 DEF At
<1>2. \A u \in Users : HalfWay(u)' = HalfWay(u)
  BY <1>1 DEF HalfWay, At
<1>3. ASSUME NEW u \in Users, NEW c \in HalfWay(u) PROVE At(c, {"grantRow"})' <=> At(c, {"grantRow"})
  BY <1>1, <1>3 DEF HalfWay, At
<1>4. ASSUME NEW u \in Users \ torn'
      PROVE  /\ \A b, c \in HalfWay(u)' : b = c
             /\ \A c \in HalfWay(u)' : plus'[u] <=> At(c, {"grantRow"})'
             /\ HalfWay(u)' = {} => (plus'[u] <=> plusRow'[u] = "active")
  BY <1>2, <1>3, <1>4 DEF PlusInv
<1> QED
  BY <1>4 DEF PlusInv

LEMMA PlusInvStep == TypeOK /\ PlusInv /\ [Next]_vars => PlusInv'
<1> SUFFICES ASSUME TypeOK, PlusInv, [Next]_vars PROVE PlusInv'
  OBVIOUS
<1>0. /\ call \in [Calls -> AllCalls] /\ plus \in [Users -> BOOLEAN]
      /\ plusRow \in [Users -> {"none", "active", "cancelled"}]
  BY TypeParts DEF CallTyped, PlusTyped
<1>1. ASSUME NEW c \in Calls, Requests(c) PROVE PlusInv'
  <2>1. Moves(c, {"idle"}, {"idle", "debit", "grantFlag", "dropFlag", "djInsert", "minutes"})
    BY <1>1, RequestMoves
  <2>2. torn \subseteq torn' /\ plusRow' = plusRow /\ \A u \in Users \ torn' : plus'[u] = plus[u]
    BY <1>0, <1>1 DEF Requests, BuyNeon, AdminSetNeon, SendNeon, SubscribePlus, CancelPlus, AdminSetPlus,
              SubscribeToDJ, ComputePool, plusVars
  <2> QED
    BY <2>1, <2>2, MovesSomewhere, KeepsPlus DEF At
<1>2. ASSUME NEW c \in Calls, TipSteps(c) \/ PoolSteps(c) \/ InsertDJSub(c) PROVE PlusInv'
  <2>1. UNCHANGED <<plus, plusRow, torn>>
    BY <1>2 DEF TipSteps, Debit, Pour, CommitTip, FailTip, LockTube, LevelUp, CommitLevels, FailResolve,
                PoolSteps, ReadMinutes, UpsertMonth, ClearShares, PayCreator, AnswerPool, FailPool,
                InsertDJSub, plusVars
  <2>2. CASE TipSteps(c)
    BY <2>1, <2>2, TipMoves, MovesSomewhere, KeepsPlus DEF At, TipStages
  <2>3. CASE PoolSteps(c)
    BY <2>1, <2>3, PoolMoves, MovesSomewhere, KeepsPlus DEF At, PoolStages
  <2>4. CASE InsertDJSub(c)
    BY <2>1, <2>4, KeepsPlus, ShapesAreCalls DEF InsertDJSub, Answer, Goto, At
  <2> QED
    BY <1>2, <2>2, <2>3, <2>4
<1>3. ASSUME NEW c \in Calls, SetFlag(c) PROVE PlusInv'
  <2> DEFINE q == call[c].user
             grant == At(c, {"grantFlag"})
             x == [call[c] EXCEPT !.pc = IF grant THEN "grantRow" ELSE "dropRow"]
  <2>1. call[c] \in PlusCall /\ q \in Users /\ ~ At(c, {"grantRow", "dropRow"})
    BY <1>3, TypeCalls DEF SetFlag, At, PlusCall
  <2>2. /\ plus' = [plus EXCEPT ![q] = grant] /\ plusRow' = plusRow
        /\ torn' = IF HalfWay(q) = {} THEN torn \ {q} ELSE torn \cup {q}
        /\ call' = [call EXCEPT ![c] = x]
    BY <1>3 DEF SetFlag, Goto
  <2>3. x.pc = (IF grant THEN "grantRow" ELSE "dropRow") /\ x.user = q
    BY <2>1 DEF PlusCall
  <2>4. c \notin HalfWay(q) /\ \A u \in Users : c \notin HalfWay(u)
    BY <2>1 DEF HalfWay
  <2>5. grant \in BOOLEAN
    BY DEF At
  <2> HIDE DEF q, x, grant
  <2>6. \A b \in Calls : call'[b] = IF b = c THEN x ELSE call[b]
    BY <1>0, <2>2
  <2>7. \A u \in Users : HalfWay(u)' = IF u = q THEN HalfWay(u) \cup {c} ELSE HalfWay(u)
    BY <2>3, <2>4, <2>6 DEF HalfWay, At
  <2>8. ASSUME NEW u \in Users \ torn'
        PROVE  /\ \A b, d \in HalfWay(u)' : b = d
               /\ \A b \in HalfWay(u)' : plus'[u] <=> At(b, {"grantRow"})'
               /\ HalfWay(u)' = {} => (plus'[u] <=> plusRow'[u] = "active")
    <3>1. CASE u = q
      <4>1. HalfWay(u)' = {c}
        BY <2>2, <2>7, <2>8, <3>1
      <4>2. At(c, {"grantRow"})' <=> grant
        BY <2>3, <2>6 DEF At
      <4>3. plus'[u] = grant
        BY <1>0, <2>1, <2>2, <3>1
      <4> QED
        BY <4>1, <4>2, <4>3
    <3>2. CASE u # q
      <4>1. HalfWay(u)' = HalfWay(u) /\ u \notin torn /\ plus'[u] = plus[u] /\ plusRow'[u] = plusRow[u]
        BY <1>0, <2>2, <2>7, <2>8, <3>2
      <4>2. \A b \in HalfWay(u) : At(b, {"grantRow"})' <=> At(b, {"grantRow"})
        BY <2>4, <2>6 DEF At, HalfWay
      <4> QED
        BY <4>1, <4>2 DEF PlusInv
    <3> QED
      BY <3>1, <3>2
  <2> QED
    BY <2>8 DEF PlusInv
<1>4. ASSUME NEW c \in Calls, WriteRow(c) \/ (FailPlus(c) /\ At(c, {"grantRow", "dropRow"})) PROVE PlusInv'
  <2> DEFINE q == call[c].user
  <2>1. q \in Users /\ At(c, {"grantRow", "dropRow"}) /\ c \in HalfWay(q)
    BY <1>4, TypeCalls DEF WriteRow, At, PlusCall, HalfWay
  <2>2. plus' = plus /\ call' = [call EXCEPT ![c] = Idle]
    BY <1>4 DEF WriteRow, FailPlus, Answer, Goto
  <2>3. \/ torn' = torn \cup {q} /\ plusRow' = plusRow
        \/ /\ torn' = torn
           /\ plusRow' = [plusRow EXCEPT ![q] = IF At(c, {"grantRow"}) THEN "active"
                                                ELSE IF @ = "active" THEN "cancelled" ELSE @]
    BY <1>4 DEF WriteRow, FailPlus
  <2>4. \A b \in HalfWay(q) : call[b].user = q
    BY DEF HalfWay
  <2>5. \A u \in Users : u # q => c \notin HalfWay(u)
    BY DEF HalfWay
  <2> HIDE DEF q
  <2>6. \A b \in Calls : call'[b] = IF b = c THEN Idle ELSE call[b]
    BY <1>0, <2>2
  <2>7. \A u \in Users : HalfWay(u)' = HalfWay(u) \ {c}
    BY <2>6, ShapesAreCalls DEF HalfWay, At
  <2>8. ASSUME NEW u \in Users \ torn'
        PROVE  /\ \A b, d \in HalfWay(u)' : b = d
               /\ \A b \in HalfWay(u)' : plus'[u] <=> At(b, {"grantRow"})'
               /\ HalfWay(u)' = {} => (plus'[u] <=> plusRow'[u] = "active")
    <3>0. u \in Users \ torn
      BY <2>3, <2>8
    <3>1. CASE u = q
      <4>1. HalfWay(u)' = {}
        BY <2>1, <2>7, <3>0, <3>1 DEF PlusInv
      <4>2. plus[u] <=> At(c, {"grantRow"})
        BY <2>1, <3>0, <3>1 DEF PlusInv
      <4>3. plusRow' = [plusRow EXCEPT ![q] = IF At(c, {"grantRow"}) THEN "active"
                                              ELSE IF @ = "active" THEN "cancelled" ELSE @]
        BY <2>3, <2>8, <3>1
      <4>4. plusRow'[u] = "active" <=> At(c, {"grantRow"})
        BY <1>0, <2>1, <4>3, <3>1
      <4> QED
        BY <4>1, <4>2, <4>4, <2>2
    <3>2. CASE u # q
      <4>1. HalfWay(u)' = HalfWay(u) /\ plusRow'[u] = plusRow[u]
        BY <1>0, <2>3, <2>5, <2>7, <3>2
      <4>2. \A b \in HalfWay(u) : At(b, {"grantRow"})' <=> At(b, {"grantRow"})
        BY <2>5, <2>6, <3>2 DEF At, HalfWay
      <4> QED
        BY <3>0, <4>1, <4>2, <2>2 DEF PlusInv
    <3> QED
      BY <3>1, <3>2
  <2> QED
    BY <2>8 DEF PlusInv
<1>5. ASSUME NEW c \in Calls, FailPlus(c), ~ At(c, {"grantRow", "dropRow"}) PROVE PlusInv'
  BY <1>5, KeepsPlus, ShapesAreCalls DEF FailPlus, Answer, Goto
<1>6. ASSUME (\E u \in Users : RefreshUser(u) \/ Expire(u)) \/ (\E r \in Rooms : DeleteRoom(r))
             \/ UNCHANGED vars
      PROVE  PlusInv'
  <2>1. UNCHANGED <<plus, plusRow, torn, call>>
    BY <1>6 DEF RefreshUser, Expire, DeleteRoom, plusVars, callVars, vars
  <2> QED
    BY <2>1, KeepsPlus
<1> QED
  BY <1>1, <1>2, <1>3, <1>4, <1>5, <1>6 DEF Next, Rest, PlusSteps

\* A step of others leaves the inserts under way where they are.
LEMMA KeepsDJ ==
  ASSUME TypeOK, DJInv, UNCHANGED <<djSubs, doubled>>,
         \/ UNCHANGED call
         \/ \E c \in Calls : \E x : /\ call' = [call EXCEPT ![c] = x]
                                    /\ x.pc # "djInsert" /\ ~ At(c, {"djInsert"})
  PROVE  DJInv'
<1>0. call \in [Calls -> AllCalls]
  BY TypeParts DEF CallTyped
<1>1. \A c \in Calls : call[c].pc = "djInsert" \/ call'[c].pc = "djInsert" => call'[c] = call[c]
  BY <1>0 DEF At
<1>2. \A p \in Users \X Users : Inserting(p)' = Inserting(p)
  BY <1>1 DEF Inserting, At
<1> QED
  BY <1>2 DEF DJInv

LEMMA DJInvStep == TypeOK /\ DJInv /\ [Next]_vars => DJInv'
<1> SUFFICES ASSUME TypeOK, DJInv, [Next]_vars PROVE DJInv'
  OBVIOUS
<1>0. /\ call \in [Calls -> AllCalls] /\ djSubs \in [Users \X Users -> Nat]
  BY TypeParts DEF CallTyped, PlusTyped
<1>1. ASSUME NEW c \in Calls, NEW u \in Users, NEW d \in Users, SubscribeToDJ(c, u, d) PROVE DJInv'
  <2> DEFINE x == [pc |-> "djInsert", user |-> u, dj |-> d]
             q == <<u, d>>
  <2>1. /\ djSubs' = djSubs /\ djSubs[q] = 0 /\ call' = [call EXCEPT ![c] = x] /\ At(c, {"idle"})
        /\ doubled' = IF \E b \in Calls : call[b] = x THEN doubled \cup {q} ELSE doubled
    BY <1>1 DEF SubscribeToDJ, Begin
  <2>2. \A b \in Calls : b \in Inserting(q) => call[b] = x
    <3> SUFFICES ASSUME NEW b \in Calls, b \in Inserting(q) PROVE call[b] = x
      OBVIOUS
    <3>1. call[b] \in DJCall /\ call[b].user = u /\ call[b].dj = d
      BY TypeCalls DEF Inserting, At
    <3> QED
      BY <3>1 DEF DJCall
  <2>3. x.pc = "djInsert" /\ <<x.user, x.dj>> = q /\ q \in Users \X Users
    OBVIOUS
  <2> HIDE DEF x, q
  <2>4. \A b \in Calls : call'[b] = IF b = c THEN x ELSE call[b]
    BY <1>0, <2>1
  <2>5. \A p \in Users \X Users : Inserting(p)' = IF p = q THEN Inserting(p) \cup {c} ELSE Inserting(p)
    BY <2>1, <2>3, <2>4 DEF Inserting, At
  <2>6. ASSUME NEW p \in (Users \X Users) \ doubled'
        PROVE  /\ \A b, e \in Inserting(p)' : b = e
               /\ Inserting(p)' # {} => djSubs'[p] = 0
               /\ djSubs'[p] <= 1
    <3>1. p \notin doubled
      BY <2>1, <2>6
    <3>2. CASE p = q
      <4>1. Inserting(p) = {}
        BY <2>1, <2>2, <2>6, <3>2 DEF Inserting
      <4>2. Inserting(p)' = {c}
        BY <2>5, <4>1, <3>2
      <4> QED
        BY <4>2, <2>1, <3>2
    <3>3. CASE p # q
      BY <3>1, <3>3, <2>1, <2>5 DEF DJInv
    <3> QED
      BY <3>2, <3>3
  <2> QED
    BY <2>6 DEF DJInv
<1>2. ASSUME NEW c \in Calls, InsertDJSub(c) PROVE DJInv'
  <2> DEFINE q == <<call[c].user, call[c].dj>>
  <2>1. call[c] \in DJCall /\ c \in Inserting(q) /\ q \in Users \X Users
    BY <1>2, TypeCalls DEF InsertDJSub, At, Inserting, DJCall
  <2>2. /\ djSubs' = [djSubs EXCEPT ![q] = @ + 1] \/ djSubs' = djSubs
        /\ doubled' = doubled /\ call' = [call EXCEPT ![c] = Idle]
    BY <1>2 DEF InsertDJSub, Answer, Goto
  <2>3. \A p \in Users \X Users : p # q => c \notin Inserting(p)
    BY DEF Inserting
  <2> HIDE DEF q
  <2>4. \A b \in Calls : call'[b] = IF b = c THEN Idle ELSE call[b]
    BY <1>0, <2>2
  <2>5. \A p \in Users \X Users : Inserting(p)' = Inserting(p) \ {c}
    BY <2>4, ShapesAreCalls DEF Inserting, At
  <2>6. ASSUME NEW p \in (Users \X Users) \ doubled'
        PROVE  /\ \A b, e \in Inserting(p)' : b = e
               /\ Inserting(p)' # {} => djSubs'[p] = 0
               /\ djSubs'[p] <= 1
    <3>1. p \notin doubled /\ djSubs[p] \in Nat
      BY <1>0, <2>2, <2>6
    <3>2. CASE p = q
      <4>1. Inserting(p)' = {} /\ djSubs[p] = 0
        BY <2>1, <2>5, <3>1, <3>2 DEF DJInv
      <4>2. djSubs'[p] <= 1
        BY <1>0, <2>1, <2>2, <3>2, <4>1
      <4> QED
        BY <4>1, <4>2
    <3>3. CASE p # q
      <4>1. Inserting(p)' = Inserting(p) \ {c} /\ c \notin Inserting(p)
        BY <2>3, <2>5, <3>3
      <4>2. Inserting(p)' = Inserting(p)
        BY <4>1
      <4>3. djSubs'[p] = djSubs[p]
        BY <1>0, <2>2, <3>3
      <4> QED
        BY <3>1, <4>2, <4>3 DEF DJInv
    <3> QED
      BY <3>2, <3>3
  <2> QED
    BY <2>6 DEF DJInv
<1>3. ASSUME NEW c \in Calls, TipSteps(c) \/ PoolSteps(c) \/ SetFlag(c) \/ WriteRow(c) \/ FailPlus(c)
      PROVE  DJInv'
  <2>1. UNCHANGED <<djSubs, doubled>>
    BY <1>3 DEF TipSteps, Debit, Pour, CommitTip, FailTip, LockTube, LevelUp, CommitLevels, FailResolve,
                PoolSteps, ReadMinutes, UpsertMonth, ClearShares, PayCreator, AnswerPool, FailPool,
                SetFlag, WriteRow, FailPlus, plusVars
  <2>2. CASE TipSteps(c)
    BY <2>1, <2>2, TipMoves, MovesSomewhere, KeepsDJ DEF At, TipStages
  <2>3. CASE PoolSteps(c)
    BY <2>1, <2>3, PoolMoves, MovesSomewhere, KeepsDJ DEF At, PoolStages
  <2>4. CASE SetFlag(c) \/ WriteRow(c) \/ FailPlus(c)
    <3>1. PlusSteps(c) /\ ~ At(c, {"djInsert"})
      BY <2>4 DEF PlusSteps, SetFlag, WriteRow, FailPlus, At
    <3> QED
      BY <2>1, <3>1, PlusMoves, MovesSomewhere, KeepsDJ DEF At
  <2> QED
    BY <1>3, <2>2, <2>3, <2>4
<1>4. ASSUME NEW c \in Calls, Requests(c),
             ~ \E u \in Users : \E d \in Users : SubscribeToDJ(c, u, d)
      PROVE  DJInv'
  <2>1. UNCHANGED <<djSubs, doubled>>
    BY <1>4 DEF Requests, BuyNeon, AdminSetNeon, SendNeon, SubscribePlus, CancelPlus, AdminSetPlus,
                ComputePool, plusVars
  <2>2. At(c, {"idle"}) /\ call'[c].pc # "djInsert"
    BY <1>0, <1>4, ShapesAreCalls
       DEF Requests, BuyNeon, AdminSetNeon, SendNeon, SubscribePlus, CancelPlus, AdminSetPlus,
           ComputePool, Begin
  <2>3. PICK x : x = call'[c]
    OBVIOUS
  <2>4. call' = [call EXCEPT ![c] = x]
    BY <1>4, <2>3, RequestMoves DEF Moves
  <2> QED
    BY <2>1, <2>2, <2>3, <2>4, KeepsDJ DEF At
<1>5. ASSUME (\E u \in Users : RefreshUser(u) \/ Expire(u)) \/ (\E r \in Rooms : DeleteRoom(r))
             \/ UNCHANGED vars
      PROVE  DJInv'
  <2>1. UNCHANGED <<djSubs, doubled, call>>
    BY <1>5 DEF RefreshUser, Expire, DeleteRoom, plusVars, callVars, vars
  <2> QED
    BY <2>1, KeepsDJ
<1> QED
  BY <1>1, <1>2, <1>3, <1>4, <1>5 DEF Next, Rest, PlusSteps

\* Plus as the user's row and as the subscription's say, and one subscription of a listener to
\* a DJ, but for what overlapping or failing requests wrote (monetization.go, SubscribePlus,
\* CancelPlus, SubscribeToDJ).
THEOREM SubscriptionsKept == Spec => []SubscriptionsAgree
<1>1. Init => PlusInv /\ DJInv
  BY ShapesAreCalls DEF Init, PlusInv, DJInv, HalfWay, Inserting, At
<1>2. PlusInv /\ DJInv => SubscriptionsAgree
  BY DEF PlusInv, DJInv, SubscriptionsAgree
<1> QED
  BY <1>1, <1>2, PlusInvStep, DJInvStep, TypeCorrect, PTL DEF Spec

-----------------------------------------------------------------------------
(* The creator pool *)

\* The community modules' sum of the cents of the allocations, and of nothing else.
LEMMA CentsAdd ==
  ASSUME PoolTyped, IsFiniteSet(shares)
  PROVE  \E it : /\ Adds(it, [s \in shares |-> s.cents], shares)
                 /\ MapThenSumSet(LAMBDA s : s.cents, shares) = it[shares]
<1> DEFINE w == [s \in shares |-> s.cents]
           P(it) == it = [s \in SUBSET shares |-> IF s = {} THEN 0
                          ELSE (CHOOSE x \in s : TRUE).cents + it[s \ {CHOOSE x \in s : TRUE}]]
<1>1. w \in [shares -> Nat]
  BY DEF PoolTyped, ShareRow
<1>2. PICK it : SumsUp(it, w, shares)
  BY <1>1, SumExists, Zenon
<1>3. ASSUME NEW s \in SUBSET shares, s # {}
      PROVE  w[CHOOSE x \in s : TRUE] = (CHOOSE x \in s : TRUE).cents
  <2>1. (CHOOSE x \in s : TRUE) \in shares
    BY <1>3
  <2> QED
    BY <2>1
<1>4. \A i : P(i) <=> SumsUp(i, w, shares)
  <2> HIDE DEF w
  <2> QED
    BY <1>3 DEF SumsUp, SumStep
<1>5. SumsUp(CHOOSE i : P(i), w, shares)
  <2> HIDE DEF P
  <2>1. P(CHOOSE i : P(i))
    BY <1>2, <1>4
  <2> QED
    BY <2>1, <1>4
<1>6. Adds(CHOOSE i : P(i), w, shares)
  <2> HIDE DEF P, w
  <2> QED
    BY <1>1, <1>5, SumRemoves
<1>7. MapThenSumSet(LAMBDA s : s.cents, shares) = (CHOOSE i : P(i))[shares]
  BY DEF MapThenSumSet, MapThenFoldSet
<1> HIDE DEF P
<1> QED
  BY <1>6, <1>7

\* The community modules' sum of their minutes.
LEMMA MinutesAdd ==
  ASSUME PoolTyped, IsFiniteSet(shares)
  PROVE  \E it : /\ Adds(it, [s \in shares |-> s.minutes], shares)
                 /\ MapThenSumSet(LAMBDA s : s.minutes, shares) = it[shares]
<1> DEFINE w == [s \in shares |-> s.minutes]
           P(it) == it = [s \in SUBSET shares |-> IF s = {} THEN 0
                          ELSE (CHOOSE x \in s : TRUE).minutes + it[s \ {CHOOSE x \in s : TRUE}]]
<1>1. w \in [shares -> Nat]
  BY DEF PoolTyped, ShareRow
<1>2. PICK it : SumsUp(it, w, shares)
  BY <1>1, SumExists, Zenon
<1>3. ASSUME NEW s \in SUBSET shares, s # {}
      PROVE  w[CHOOSE x \in s : TRUE] = (CHOOSE x \in s : TRUE).minutes
  <2>1. (CHOOSE x \in s : TRUE) \in shares
    BY <1>3
  <2> QED
    BY <2>1
<1>4. \A i : P(i) <=> SumsUp(i, w, shares)
  <2> HIDE DEF w
  <2> QED
    BY <1>3 DEF SumsUp, SumStep
<1>5. SumsUp(CHOOSE i : P(i), w, shares)
  <2> HIDE DEF P
  <2>1. P(CHOOSE i : P(i))
    BY <1>2, <1>4
  <2> QED
    BY <2>1, <1>4
<1>6. Adds(CHOOSE i : P(i), w, shares)
  <2> HIDE DEF P, w
  <2> QED
    BY <1>1, <1>5, SumRemoves
<1>7. MapThenSumSet(LAMBDA s : s.minutes, shares) = (CHOOSE i : P(i))[shares]
  BY DEF MapThenSumSet, MapThenFoldSet
<1> HIDE DEF P
<1> QED
  BY <1>6, <1>7

\* A factor cancels.
LEMMA Cancel ==
  ASSUME NEW M \in Nat \ {0}, NEW a \in Int, NEW b \in Int
  PROVE  /\ a * M <= b * M => a <= b
         /\ a * M < b * M => a < b
<1>1. ASSUME NEW d \in Nat PROVE d * M \in Nat
  OBVIOUS
<1>2. b < a => a * M > b * M
  <2> SUFFICES ASSUME b < a PROVE a * M > b * M
    OBVIOUS
  <2>1. (a - b - 1) * M \in Nat
    BY <1>1
  <2>2. (a - b - 1) * M = a * M - b * M - M /\ a * M \in Int /\ b * M \in Int
    OBVIOUS
  <2> QED
    BY <2>1, <2>2
<1>3. a * M \in Int /\ b * M \in Int
  OBVIOUS
<1>4. a = b => a * M = b * M
  OBVIOUS
<1> QED
  BY <1>2, <1>3, <1>4

\* What a share is short of its fraction of the pool.
LEMMA ShareBounds ==
  ASSUME NEW M \in Nat \ {0}, NEW p \in Nat, NEW m \in Nat
  PROVE  LET c == (p * m) \div M IN c \in Nat /\ c * M <= p * m /\ p * m < (c + 1) * M
<1> DEFINE c == (p * m) \div M
           r == (p * m) % M
<1>1. p * m \in Nat
  OBVIOUS
<1>2. c \in Nat /\ r \in 0..(M - 1) /\ p * m = c * M + r
  BY <1>1, Divide
<1> HIDE DEF c, r
<1>3. c * M \in Int /\ (c + 1) * M = c * M + M
  BY <1>2
<1> QED
  BY <1>2, <1>3 DEF c

\* Sums of the shares of some creators, of what they were heard, and how far apart they are.
Who(T) == {s.creator : s \in T}

LEMMA SharesFit ==
  ASSUME PoolTyped, IsFiniteSet(shares), NEW minutes \in [Users -> Nat], SharedOut(month, minutes, {}),
         NEW heard, Adds(heard, minutes, Users),
         NEW it, Adds(it, [s \in shares |-> s.cents], shares),
         NEW T \in SUBSET shares
  PROVE  LET M == SumFunction(minutes) IN
         /\ it[T] * M <= month * heard[Who(T)]
         /\ T # {} => month * heard[Who(T)] < (it[T] + Cardinality(T)) * M
<1> DEFINE M == SumFunction(minutes)
           w == [s \in shares |-> s.cents]
           Fit(U) == /\ it[U] * M <= month * heard[Who(U)]
                     /\ month * heard[Who(U)] <= (it[U] + Cardinality(U)) * M
                     /\ U # {} => month * heard[Who(U)] < (it[U] + Cardinality(U)) * M
           Good == {U \in SUBSET shares : Fit(U)}
<1>0. M \in Nat /\ month \in Nat /\ \A s \in shares : s.creator \in Users /\ s.cents \in Nat
  <2>1. M \in Nat
    BY SumFunctionFacts, ConstantsOK
  <2> HIDE DEF M
  <2> QED
    BY <2>1 DEF PoolTyped, ShareRow
<1>1. /\ it \in [SUBSET shares -> Nat] /\ it[{}] = 0
      /\ \A U \in SUBSET shares : \A s \in U : it[U] = s.cents + it[U \ {s}]
  BY DEF Adds
<1>2. /\ heard \in [SUBSET Users -> Nat] /\ heard[{}] = 0
      /\ \A V \in SUBSET Users : \A u \in V : heard[V] = minutes[u] + heard[V \ {u}]
  BY DEF Adds
<1>3. \A U \in SUBSET shares : Who(U) \in SUBSET Users /\ Cardinality(U) \in Nat
  BY <1>0, FS_Subset, FS_CardinalityType DEF Who
<1>4. {} \in Good
  <2>1. Who({}) = {} /\ Cardinality({}) = 0 /\ {} \in SUBSET shares
    BY FS_EmptySet DEF Who
  <2>2. it[{}] = 0 /\ heard[{}] = 0
    BY <1>1, <1>2
  <2> HIDE DEF M
  <2>3. it[{}] * M = 0 /\ month * heard[Who({})] = 0 /\ (it[{}] + Cardinality({})) * M = 0
    BY <1>0, <2>1, <2>2
  <2>4. Fit({})
    BY <2>3
  <2> HIDE DEF Fit
  <2> QED
    BY <2>1, <2>4
<1>5. ASSUME NEW U \in SUBSET shares, NEW s \in shares \ U, U \in Good PROVE U \cup {s} \in Good
  <2> DEFINE V == U \cup {s}
             m == minutes[s.creator]
             c == s.cents
  <2>1. V \in SUBSET shares /\ s \in V /\ V \ {s} = U
    OBVIOUS
  <2>2. it[V] = c + it[U] /\ it[U] \in Nat /\ c \in Nat
    BY <1>0, <1>1, <2>1
  <2>3. Who(V) = Who(U) \cup {s.creator} /\ s.creator \notin Who(U)
    BY DEF Who, SharedOut
  <2>4. heard[Who(V)] = m + heard[Who(U)] /\ heard[Who(U)] \in Nat /\ m \in Nat /\ m > 0
    <3>1. Who(V) \in SUBSET Users /\ Who(U) \in SUBSET Users /\ Who(V) \ {s.creator} = Who(U)
          /\ s.creator \in Who(V)
      BY <1>3, <2>1, <2>3
    <3>2. m > 0 /\ m \in Nat
      BY <1>0 DEF SharedOut
    <3> QED
      BY <3>1, <3>2, <1>2
  <2>5. Cardinality(V) = Cardinality(U) + 1 /\ Cardinality(U) \in Nat
    BY <1>3, FS_AddElement, FS_Subset
  <2>6. M \in Nat \ {0} /\ c = (month * m) \div M
    <3>1. m <= M
      BY <1>0, SumFunctionFacts, ConstantsOK
    <3> HIDE DEF M
    <3>2. M \in Nat \ {0}
      BY <1>0, <2>4, <3>1
    <3> QED
      BY <3>2 DEF SharedOut, M
  <2>7. c * M <= month * m /\ month * m < (c + 1) * M
    BY <1>0, <2>4, <2>6, ShareBounds
  <2>8. Fit(U)
    BY <1>5
  <2> HIDE DEF V, m, c, M
  <2> DEFINE h == heard[Who(U)]
             a == it[U]
             k == Cardinality(U)
  <2>9. /\ a * M <= month * h /\ month * h <= (a + k) * M
        /\ h \in Nat /\ a \in Nat /\ k \in Nat
    BY <2>2, <2>4, <2>5, <2>8
  <2> HIDE DEF h, a, k
  <2>10. /\ (c + a) * M = c * M + a * M /\ month * (m + h) = month * m + month * h
         /\ ((c + a) + (k + 1)) * M = (c + 1) * M + (a + k) * M
    BY <1>0, <2>2, <2>4, <2>6, <2>9
  <2>11. /\ c * M \in Int /\ a * M \in Int /\ month * m \in Int /\ month * h \in Int
         /\ (c + 1) * M \in Int /\ (a + k) * M \in Int
    BY <1>0, <2>2, <2>4, <2>6, <2>9
  <2>12. /\ (c + a) * M <= month * (m + h)
         /\ month * (m + h) < ((c + a) + (k + 1)) * M
    BY <2>7, <2>9, <2>10, <2>11
  <2>13. it[V] = c + a /\ heard[Who(V)] = m + h /\ Cardinality(V) = k + 1
    BY <2>2, <2>4, <2>5 DEF h, a, k
  <2>14. /\ it[V] * M <= month * heard[Who(V)]
         /\ month * heard[Who(V)] < (it[V] + Cardinality(V)) * M
    BY <2>12, <2>13
  <2>15. month * heard[Who(V)] \in Int /\ (it[V] + Cardinality(V)) * M \in Int
    BY <1>0, <2>2, <2>4, <2>6, <2>9, <2>13
  <2>16. Fit(V)
    BY <2>14, <2>15
  <2> HIDE DEF Fit
  <2> QED
    BY <2>1, <2>16 DEF V
<1> HIDE DEF Good
<1>6. SUBSET shares \subseteq Good
  BY <1>4, <1>5, SubsetsInSet
<1> QED
  BY <1>6 DEF Good

\* Creators without minutes add nothing: those who were paid were heard for all minutes.
LEMMA AllHeard ==
  ASSUME NEW minutes \in [Users -> Nat], NEW heard, Adds(heard, minutes, Users),
         NEW W \in SUBSET Users, \A d \in Users : minutes[d] > 0 => d \in W
  PROVE  heard[Users] = heard[W]
<1> DEFINE Rest0 == Users \ W
           Good == {Z \in SUBSET Rest0 : heard[W \cup Z] = heard[W]}
<1>1. IsFiniteSet(Rest0)
  BY ConstantsOK, FS_Subset
<1>2. {} \in Good
  <2>1. W \cup {} = W
    OBVIOUS
  <2> QED
    BY <2>1
<1>3. ASSUME NEW Z \in SUBSET Rest0, NEW d \in Rest0 \ Z, Z \in Good PROVE Z \cup {d} \in Good
  <2>1. /\ W \cup (Z \cup {d}) \in SUBSET Users /\ d \in W \cup (Z \cup {d})
        /\ (W \cup (Z \cup {d})) \ {d} = W \cup Z /\ W \cup Z \in SUBSET Users
    OBVIOUS
  <2>2. minutes[d] = 0 /\ heard[W \cup Z] = heard[W] /\ heard[W] \in Nat
    BY <1>3 DEF Adds
  <2>3. heard[W \cup (Z \cup {d})] = minutes[d] + heard[W \cup Z]
    BY <2>1 DEF Adds
  <2> QED
    BY <2>2, <2>3
<1>5. W \cup Rest0 = Users
  OBVIOUS
<1> HIDE DEF Good, Rest0
<1>4. SUBSET Rest0 \subseteq Good
  BY <1>1, <1>2, <1>3, SubsetsInSet
<1>6. Rest0 \in Good
  BY <1>4
<1> QED
  BY <1>5, <1>6 DEF Good

\* Nobody's minutes add up to none.
LEMMA NothingHeard == SumFunction([u \in Users |-> 0]) = 0
<1> DEFINE none == [u \in Users |-> 0]
<1>1. none \in [Users -> Nat]
  OBVIOUS
<1>2. \A d \in Users : ~ (none[d] > 0)
  OBVIOUS
<1> HIDE DEF none
<1>3. PICK heard : SumsUp(heard, none, Users) /\ SumFunction(none) = heard[Users]
  BY <1>1, ConstantsOK, SumFunctionIs
<1>4. Adds(heard, none, Users)
  BY <1>1, <1>3, ConstantsOK, SumRemoves
<1>5. heard[Users] = heard[{}]
  BY <1>1, <1>2, <1>4, AllHeard
<1> QED
  BY <1>3, <1>4, <1>5 DEF Adds, none

\* The minutes of some shares are what their creators were heard.
LEMMA MinutesFit ==
  ASSUME PoolTyped, IsFiniteSet(shares), NEW minutes \in [Users -> Nat], SharedOut(month, minutes, {}),
         NEW heard, Adds(heard, minutes, Users),
         NEW at, Adds(at, [s \in shares |-> s.minutes], shares)
  PROVE  at[shares] = heard[Who(shares)]
<1> DEFINE Good == {U \in SUBSET shares : at[U] = heard[Who(U)]}
<1>1. /\ at[{}] = 0 /\ heard[{}] = 0 /\ Who({}) = {}
      /\ \A U \in SUBSET shares : \A s \in U : at[U] = s.minutes + at[U \ {s}]
      /\ \A V \in SUBSET Users : \A u \in V : heard[V] = minutes[u] + heard[V \ {u}]
  BY DEF Adds, Who
<1>2. {} \in Good
  BY <1>1
<1>3. ASSUME NEW U \in SUBSET shares, NEW s \in shares \ U, U \in Good PROVE U \cup {s} \in Good
  <2> DEFINE V == U \cup {s}
  <2>1. V \in SUBSET shares /\ s \in V /\ V \ {s} = U
    OBVIOUS
  <2>2. /\ Who(V) \in SUBSET Users /\ s.creator \in Who(V) /\ Who(V) \ {s.creator} = Who(U)
        /\ s.minutes = minutes[s.creator]
    BY DEF Who, SharedOut, PoolTyped, ShareRow
  <2>3. at[V] = s.minutes + at[U]
    BY <1>1, <2>1
  <2>4. heard[Who(V)] = minutes[s.creator] + heard[Who(U)]
    <3> HIDE DEF V
    <3>1. heard[Who(V)] = minutes[s.creator] + heard[Who(V) \ {s.creator}]
      BY <1>1, <2>2
    <3> QED
      BY <2>2, <3>1
  <2>5. at[U] = heard[Who(U)]
    BY <1>3
  <2> QED
    BY <2>1, <2>2, <2>3, <2>4, <2>5
<1> HIDE DEF Good
<1>4. SUBSET shares \subseteq Good
  BY <1>2, <1>3, SubsetsInSet
<1> QED
  BY <1>4 DEF Good

LEMMA SharedOutIsPaid ==
  ASSUME TypeOK, NEW minutes \in [Users -> Nat], SharedOut(month, minutes, {}),
         listened = SumFunction(minutes)
  PROVE  LET cents == MapThenSumSet(LAMBDA s : s.cents, shares) IN
         /\ \A s, t \in shares : s.creator = t.creator => s = t
         /\ \A s \in shares : /\ s.cents * listened <= month * s.minutes
                              /\ month * s.minutes < (s.cents + 1) * listened
         /\ MapThenSumSet(LAMBDA s : s.minutes, shares) = listened
         /\ cents <= month
         /\ shares # {} => month - cents < Cardinality(shares)
<1> DEFINE cents == MapThenSumSet(LAMBDA s : s.cents, shares)
           M == SumFunction(minutes)
<1>1. PoolTyped
  BY TypeParts
<1>2. IsFiniteSet(shares)
  <2> DEFINE f == [s \in shares |-> s.creator]
  <2>1. f \in Injection(shares, Users)
    BY <1>1 DEF PoolTyped, ShareRow, SharedOut, Injection, IsInjective
  <2> QED
    BY <2>1, ConstantsOK, FS_Injection
<1>3. PICK it : Adds(it, [s \in shares |-> s.cents], shares) /\ cents = it[shares]
  BY <1>1, <1>2, CentsAdd
<1>4. PICK heard : SumsUp(heard, minutes, Users) /\ M = heard[Users]
  BY ConstantsOK, SumFunctionIs
<1>5. Adds(heard, minutes, Users)
  BY <1>4, ConstantsOK, SumRemoves
<1>6. heard[Who(shares)] = M
  <2>1. Who(shares) \in SUBSET Users /\ \A d \in Users : minutes[d] > 0 => d \in Who(shares)
    BY <1>1 DEF SharedOut, Who, PoolTyped, ShareRow
  <2>2. heard[Users] = heard[Who(shares)]
    BY <2>1, <1>5, AllHeard
  <2> QED
    BY <2>2, <1>4
<1>7. /\ cents * M <= month * M
      /\ shares # {} => month * M < (cents + Cardinality(shares)) * M
  <2>1. /\ it[shares] * SumFunction(minutes) <= month * heard[Who(shares)]
        /\ shares # {} => month * heard[Who(shares)] < (it[shares] + Cardinality(shares)) * SumFunction(minutes)
    BY <1>1, <1>2, <1>3, <1>5, SharesFit
  <2> HIDE DEF cents
  <2> QED
    BY <2>1, <1>3, <1>6
<1>8. cents \in Nat /\ Cardinality(shares) \in Nat /\ month \in Nat /\ M \in Nat
  <2>1. it[shares] \in Nat
    BY <1>3 DEF Adds
  <2>2. M \in Nat
    BY SumFunctionFacts, ConstantsOK
  <2> HIDE DEF cents, M
  <2> QED
    BY <2>1, <2>2, <1>1, <1>2, <1>3, FS_CardinalityType DEF PoolTyped
<1>9. \A s \in shares : M > 0
  <2> SUFFICES ASSUME NEW s \in shares PROVE M > 0
    OBVIOUS
  <2>1. minutes[s.creator] > 0 /\ s.creator \in Users /\ minutes[s.creator] \in Nat
    BY <1>1 DEF SharedOut, PoolTyped, ShareRow
  <2>2. minutes[s.creator] <= M
    BY <2>1, SumFunctionFacts, ConstantsOK
  <2> HIDE DEF M
  <2> QED
    BY <2>1, <2>2, <1>8
<1>10. shares = {} => cents = 0
  BY <1>3 DEF Adds
<1>11. MapThenSumSet(LAMBDA s : s.minutes, shares) = M
  <2>1. PICK at : /\ Adds(at, [s \in shares |-> s.minutes], shares)
                  /\ MapThenSumSet(LAMBDA s : s.minutes, shares) = at[shares]
    BY <1>1, <1>2, MinutesAdd
  <2>2. at[shares] = heard[Who(shares)]
    BY <2>1, <1>1, <1>2, <1>5, MinutesFit
  <2> QED
    BY <2>1, <2>2, <1>6
<1>12. ASSUME NEW s \in shares
       PROVE  s.cents * M <= month * s.minutes /\ month * s.minutes < (s.cents + 1) * M
  <2>1. s.minutes \in Nat
    BY <1>1 DEF PoolTyped, ShareRow
  <2>2. s.cents = (month * s.minutes) \div M
    BY DEF SharedOut
  <2> HIDE DEF M
  <2>3. M \in Nat \ {0}
    BY <1>8, <1>9
  <2> QED
    BY <2>1, <2>2, <2>3, <1>8, ShareBounds
<1>13. /\ \A s, t \in shares : s.creator = t.creator => s = t
       /\ M = listened
  BY DEF SharedOut
<1> HIDE DEF cents, M
<1>14. CASE shares # {}
  <2>1. cents <= month /\ month < cents + Cardinality(shares)
    <3>1. M \in Nat \ {0} /\ cents + Cardinality(shares) \in Int /\ cents \in Int /\ month \in Int
      BY <1>8, <1>9, <1>14
    <3> QED
      BY <3>1, <1>7, <1>14, Cancel
  <2> QED
    BY <2>1, <1>8, <1>11, <1>12, <1>13 DEF cents
<1>15. CASE shares = {}
  BY <1>8, <1>10, <1>15, <1>11, <1>13 DEF cents
<1> QED
  BY <1>14, <1>15

\* A step of others leaves the computations that write, and what they write, alone.
LEMMA KeepsPool ==
  ASSUME TypeOK, PoolInv, UNCHANGED poolVars,
         \/ UNCHANGED call
         \/ \E c \in Calls : \E x : /\ call' = [call EXCEPT ![c] = x]
                                    /\ x.pc \notin {"clear", "pay"} /\ ~ At(c, {"clear", "pay"})
  PROVE  PoolInv'
<1>0. call \in [Calls -> AllCalls]
  BY TypeParts DEF CallTyped
<1>1. \A c \in Calls : call[c].pc \in {"clear", "pay"} \/ call'[c].pc \in {"clear", "pay"} =>
                         call'[c] = call[c]
  BY <1>0 DEF At
<1>2. Writing' = Writing /\ \A c \in Writing : call'[c] = call[c]
  BY <1>1 DEF Writing, At
<1>3. UNCHANGED <<shares, month, listened, poolTorn>>
  BY DEF poolVars
<1> QED
  BY <1>2, <1>3 DEF PoolInv, SharedOut, At

LEMMA PoolInvStep == TypeOK /\ DueInv /\ PoolInv /\ [Next]_vars => PoolInv'
<1> SUFFICES ASSUME TypeOK, DueInv, PoolInv, [Next]_vars PROVE PoolInv'
  OBVIOUS
<1>0. /\ call \in [Calls -> AllCalls] /\ poolTorn \in BOOLEAN
  BY TypeParts DEF CallTyped, PoolTyped
<1>1. ASSUME NEW c \in Calls, Requests(c) \/ TipSteps(c) \/ PlusSteps(c) PROVE PoolInv'
  <2>1. UNCHANGED poolVars
    BY <1>1 DEF Requests, BuyNeon, AdminSetNeon, SendNeon, SubscribePlus, CancelPlus, AdminSetPlus,
                SubscribeToDJ, ComputePool, TipSteps, Debit, Pour, CommitTip, FailTip, LockTube, LevelUp,
                CommitLevels, FailResolve, PlusSteps, SetFlag, WriteRow, FailPlus, InsertDJSub
  <2>2. CASE Requests(c)
    BY <2>1, <2>2, RequestMoves, MovesSomewhere, KeepsPool DEF At
  <2>3. CASE TipSteps(c)
    BY <2>1, <2>3, TipMoves, MovesSomewhere, KeepsPool DEF At, TipStages
  <2>4. CASE PlusSteps(c)
    BY <2>1, <2>4, PlusMoves, MovesSomewhere, KeepsPool DEF At, PlusStages
  <2> QED
    BY <1>1, <2>2, <2>3, <2>4
<1>2. ASSUME NEW c \in Calls, ReadMinutes(c) \/ (FailPool(c) /\ ~ At(c, {"clear"})) PROVE PoolInv'
  <2>1. PoolSteps(c) /\ ~ At(c, {"clear", "pay"})
    BY <1>2 DEF PoolSteps, ReadMinutes, FailPool, At
  <2>2. UNCHANGED poolVars
    BY <1>0, <1>2 DEF ReadMinutes, FailPool, poolVars
  <2>3. call'[c].pc \notin {"clear", "pay"}
    BY <1>0, <1>2, ShapesAreCalls DEF ReadMinutes, FailPool, Answer, Goto
  <2>4. PICK x : x = call'[c]
    OBVIOUS
  <2>5. call' = [call EXCEPT ![c] = x]
    BY <2>1, <2>4, PoolMoves DEF Moves
  <2> QED
    BY <2>1, <2>2, <2>3, <2>4, <2>5, KeepsPool
<1>3. ASSUME NEW c \in Calls, FailPool(c) /\ At(c, {"clear"}) PROVE PoolInv'
  BY <1>3 DEF FailPool, PoolInv
<1>4. ASSUME NEW c \in Calls, UpsertMonth(c) PROVE PoolInv'
  <2> DEFINE x == [call[c] EXCEPT !.pc = "clear"]
  <2>1. call[c] \in Paying /\ At(c, {"month"})
    BY <1>4, TypeCalls DEF UpsertMonth, At
  <2>2. x.pc = "clear" /\ x.cents = call[c].cents /\ x.minutes = call[c].minutes
    BY <2>1 DEF Paying
  <2>3. /\ month' = call[c].cents /\ call' = [call EXCEPT ![c] = x]
        /\ listened' = SumFunction(call[c].minutes)
        /\ poolTorn' = \E b \in Calls : At(b, {"clear", "pay"})
    BY <1>4 DEF UpsertMonth, Goto
  <2> HIDE DEF x
  <2>4. CASE \E b \in Calls : At(b, {"clear", "pay"})
    BY <2>3, <2>4 DEF PoolInv
  <2>5. CASE Writing = {}
    <3>1. \A b \in Calls : call'[b] = IF b = c THEN x ELSE call[b]
      BY <1>0, <2>3
    <3>2. Writing' = {c}
      BY <2>2, <2>5, <3>1 DEF Writing, At
    <3>3. /\ month' = call'[c].cents /\ ~ At(c, {"pay"})'
          /\ listened' = SumFunction(call'[c].minutes)
      BY <2>2, <2>3, <3>1 DEF At
    <3> QED
      BY <3>2, <3>3 DEF PoolInv
  <2> QED
    BY <2>4, <2>5 DEF Writing
<1>5. ASSUME NEW c \in Calls, ClearShares(c) \/ (\E d \in Users : PayCreator(c, d)) \/ AnswerPool(c),
             ~ poolTorn
      PROVE  /\ Writing = {c} /\ month = call[c].cents /\ listened = SumFunction(call[c].minutes)
             /\ At(c, {"pay"}) => SharedOut(month, call[c].minutes, call[c].due)
             /\ call[c] \in Paying
  <2>1. c \in Writing /\ At(c, {"clear", "pay"})
    BY <1>5 DEF ClearShares, PayCreator, AnswerPool, Writing, At
  <2> QED
    BY <1>5, <2>1, TypeCalls DEF PoolInv, At
<1>6. ASSUME NEW c \in Calls, ClearShares(c) PROVE PoolInv'
  <2>1. CASE poolTorn
    BY <1>6, <2>1 DEF ClearShares, PoolInv
  <2>2. CASE ~ poolTorn
    <3> DEFINE x == [call[c] EXCEPT !.pc = "pay"]
    <3>1. /\ Writing = {c} /\ month = call[c].cents /\ call[c] \in Paying /\ At(c, {"clear"})
          /\ listened = SumFunction(call[c].minutes)
      BY <1>5, <1>6, <2>2 DEF ClearShares
    <3>2. x.pc = "pay" /\ x.cents = call[c].cents /\ x.minutes = call[c].minutes /\ x.due = call[c].due
      BY <3>1 DEF Paying
    <3>3. /\ call' = [call EXCEPT ![c] = x] /\ month' = month /\ listened' = listened
          /\ shares' = {} /\ poolTorn' = poolTorn
      BY <1>6 DEF ClearShares, Goto
    <3> HIDE DEF x
    <3>4. \A b \in Calls : call'[b] = IF b = c THEN x ELSE call[b]
      BY <1>0, <3>3
    <3>5. Writing' = {c}
      BY <3>1, <3>2, <3>4 DEF Writing, At
    <3>6. month' = call'[c].cents /\ listened' = SumFunction(call'[c].minutes)
      BY <3>1, <3>2, <3>3, <3>4
    <3>7. \A d \in Users : call'[c].minutes[d] > 0 => d \in call'[c].due
      BY <3>1, <3>2, <3>4 DEF DueInv, At
    <3>8. SharedOut(month, call[c].minutes, call[c].due)'
      BY <3>3, <3>7 DEF SharedOut
    <3> QED
      BY <3>5, <3>6, <3>8 DEF PoolInv
  <2> QED
    BY <2>1, <2>2
<1>7. ASSUME NEW c \in Calls, NEW d \in Users, PayCreator(c, d) PROVE PoolInv'
  <2>1. CASE poolTorn'
    BY <2>1 DEF PoolInv
  <2>2. CASE ~ poolTorn'
    <3> DEFINE x == [call[c] EXCEPT !.due = @ \ {d}]
               s == [serial |-> call[c].serial, creator |-> d,
                     minutes |-> call[c].minutes[d], cents |-> ShareOf(c, d)]
    <3>0. ~ poolTorn
      BY <1>7, <2>2 DEF PayCreator
    <3>1. /\ Writing = {c} /\ month = call[c].cents /\ call[c] \in Paying /\ At(c, {"pay"})
          /\ SharedOut(month, call[c].minutes, call[c].due) /\ d \in call[c].due
          /\ listened = SumFunction(call[c].minutes)
      BY <1>5, <1>7, <3>0 DEF PayCreator
    <3>2. /\ x.pc = "pay" /\ x.cents = call[c].cents /\ x.minutes = call[c].minutes
          /\ x.due = call[c].due \ {d}
      BY <3>1 DEF Paying, At
    <3>3. /\ call' = [call EXCEPT ![c] = x] /\ month' = month /\ listened' = listened
          /\ shares' = shares \cup {s}
      BY <1>7, <2>2 DEF PayCreator, Goto
    <3>4. /\ s.creator = d /\ s.minutes = call[c].minutes[d] /\ call[c].minutes[d] > 0
          /\ s.cents = (month * call[c].minutes[d]) \div SumFunction(call[c].minutes)
      BY <3>1 DEF ShareOf, DueInv, At
    <3> HIDE DEF x, s
    <3>5. \A b \in Calls : call'[b] = IF b = c THEN x ELSE call[b]
      BY <1>0, <3>3
    <3>6. Writing' = {c}
      BY <3>1, <3>2, <3>5 DEF Writing, At
    <3>7. /\ month' = call'[c].cents /\ listened' = SumFunction(call'[c].minutes)
          /\ call'[c].minutes = call[c].minutes /\ call'[c].due = call[c].due \ {d}
      BY <3>1, <3>2, <3>3, <3>5
    <3>8. SharedOut(month, call[c].minutes, call[c].due)'
      <4>1. \A a, b \in shares' : a.creator = b.creator => a = b
        BY <3>1, <3>3, <3>4 DEF SharedOut
      <4>2. \A a \in shares' :
              /\ a.creator \notin call[c].due \ {d} /\ call[c].minutes[a.creator] > 0
              /\ a.minutes = call[c].minutes[a.creator]
              /\ a.cents = (month * call[c].minutes[a.creator]) \div SumFunction(call[c].minutes)
        BY <3>1, <3>3, <3>4 DEF SharedOut
      <4>3. \A e \in Users : call[c].minutes[e] > 0 =>
              e \in call[c].due \ {d} \/ \E a \in shares' : a.creator = e
        BY <3>1, <3>3, <3>4 DEF SharedOut
      <4> QED
        BY <3>3, <3>7, <4>1, <4>2, <4>3 DEF SharedOut
    <3> QED
      BY <3>6, <3>7, <3>8 DEF PoolInv
  <2> QED
    BY <2>1, <2>2
<1>8. ASSUME NEW c \in Calls, AnswerPool(c) PROVE PoolInv'
  <2>1. UNCHANGED <<shares, month, listened, poolTorn>> /\ call' = [call EXCEPT ![c] = Idle]
    BY <1>8 DEF AnswerPool, Answer, Goto, poolVars
  <2>2. CASE poolTorn
    BY <2>1, <2>2 DEF PoolInv
  <2>3. CASE ~ poolTorn
    <3>1. /\ Writing = {c} /\ call[c] \in Paying /\ SharedOut(month, call[c].minutes, {})
          /\ listened = SumFunction(call[c].minutes)
      BY <1>5, <1>8, <2>3 DEF AnswerPool
    <3>2. Writing' = {}
      <4>1. \A b \in Calls : call'[b] = IF b = c THEN Idle ELSE call[b]
        BY <1>0, <2>1
      <4> QED
        BY <3>1, <4>1, ShapesAreCalls DEF Writing, At
    <3>3. PICK minutes \in [Users -> Nat] : listened = SumFunction(minutes) /\ SharedOut(month, minutes, {})
      BY <3>1 DEF Paying
    <3>4. listened' = SumFunction(minutes) /\ SharedOut(month, minutes, {})'
      BY <2>1, <3>3 DEF SharedOut
    <3> QED
      BY <3>2, <3>4 DEF PoolInv
  <2> QED
    BY <2>2, <2>3
<1>9. ASSUME (\E u \in Users : RefreshUser(u) \/ Expire(u)) \/ (\E r \in Rooms : DeleteRoom(r))
             \/ UNCHANGED vars
      PROVE  PoolInv'
  <2>1. UNCHANGED <<poolVars, call>>
    BY <1>9 DEF RefreshUser, Expire, DeleteRoom, callVars, vars
  <2> QED
    BY <2>1, KeepsPool
<1> QED
  BY <1>1, <1>2, <1>3, <1>4, <1>6, <1>7, <1>8, <1>9 DEF Next, Rest, PoolSteps

\* Each creator has one allocation of the month and of its pool, to less than a cent, the
\* part that its minutes are of all the month's minutes, none of which is left out; together
\* the allocations are the pool but for less than a cent each.  That is so whatever the
\* minutes were and however much of them was read (monetization.go, ComputeCreatorPool).
THEOREM PoolIsPaidOnce == Spec => []PoolPaidOnce
<1>1. Init => PoolInv
  <2> SUFFICES ASSUME Init PROVE PoolInv
    OBVIOUS
  <2> DEFINE none == [u \in Users |-> 0]
  <2>1. Writing = {}
    BY ShapesAreCalls DEF Init, Writing, At
  <2>2. none \in [Users -> Nat] /\ SharedOut(month, none, {})
    BY DEF Init, SharedOut
  <2>3. listened = SumFunction(none)
    BY NothingHeard DEF Init
  <2> HIDE DEF none
  <2> QED
    BY <2>1, <2>2, <2>3 DEF PoolInv
<1>2. TypeOK /\ PoolInv => PoolPaidOnce
  <2> SUFFICES ASSUME TypeOK, PoolInv, ~ poolTorn, Writing = {} PROVE PoolPaidOnce
    BY DEF PoolPaidOnce, Writing
  <2>1. PICK minutes \in [Users -> Nat] : listened = SumFunction(minutes) /\ SharedOut(month, minutes, {})
    BY DEF PoolInv
  <2> QED
    BY <2>1, SharedOutIsPaid DEF PoolPaidOnce
<1> QED
  BY <1>1, <1>2, PoolInvStep, TypeCorrect, PTL DEF Spec
=============================================================================
