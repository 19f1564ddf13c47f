---------------------------- MODULE Monetization ----------------------------
(***************************************************************************)
(* Neon, tubes, Plus, DJ subscriptions and the creator pool: the requests  *)
(* of handlers/monetization.go, each a call of its own, over the rows of   *)
(* store/monetization.go.                                                  *)
(*                                                                         *)
(* A statement outside a transaction is a step.  Inside one, the step that *)
(* takes a row lock is kept, what the transaction has written stays in its *)
(* call until COMMIT, and any statement may fail, which rolls it back.     *)
(* Whatever changes a locked row waits for the lock.                       *)
(*                                                                         *)
(* Left out: prices, periods, what the calls answer, and the frames a tip  *)
(* sends to its room.  One month of the pool is modelled, the current one. *)
(***************************************************************************)
EXTENDS Integers, FiniteSets, FiniteSetsExt, Functions

CONSTANTS
    Users, Rooms, Owner,   \* Owner[r]: the user who created room r
    Calls,                 \* requests that may run at once
    MaxRequests,           \* bound on the requests over a behaviour
    Packs, Grants, Tips,   \* amounts of neon bought, set by an admin, sent
    Opening,               \* what each user has bought before
    MaxLevel, FirstTarget, LevelTarget,   \* the levels; neon that fills a new tube, and a
                           \* tube that reached each level
    DevPayments,           \* whether purchases work at all
    Price, Pcts,           \* of Plus in cents; percentages of the revenue an admin may share
    Heard, PairCap, CreatorCap  \* minutes each user listened to each creator, and their caps

ASSUME ConstantsOK ==
    /\ IsFiniteSet(Users) /\ Owner \in [Rooms -> Users]
    /\ MaxRequests \in Nat
    /\ Packs \subseteq Nat \ {0} /\ Grants \subseteq Nat /\ Tips \subseteq Nat \ {0}
    /\ Opening \in Nat
    /\ FirstTarget \in Nat \ {0}
    /\ MaxLevel \in Nat \ {0} /\ LevelTarget \in [1..MaxLevel -> Nat]
    /\ DevPayments \in BOOLEAN
    /\ Price \in Nat /\ Pcts \subseteq 1..100
    /\ Heard \in [Users -> [Users -> Nat]] /\ PairCap \in Nat /\ CreatorCap \in Nat

VARIABLES
    neon, bought,   \* users.neon_balance; the sum of each user's neon_purchases
    tips,           \* the sum of each room's neon_transactions
    tube,           \* neon_tubes; a room without a row has the default tube
    deleted,        \* rooms whose row is gone
    plus, expiry,   \* users.is_plus and plus_expires_at
    plusRow,        \* status of the row plus:<user> in subscriptions
    cached,         \* IsPlus of the user as the middleware has it cached
    djSubs,         \* active dj_sub rows of each pair <<user, dj>>
    month, listened,   \* pool_amount_cents and total_plus_minutes of creator_pool_months
    shares,         \* the rows of the month's creator_pool_allocations
    call,           \* what each request is about to do
    requests,       \* requests so far
    unsettled,      \* history: rooms whose last ResolveTubeOverflow failed
    torn, doubled, poolTorn   \* history: users whose Plus, pairs whose subscription and
                              \* whether the pool was written by overlapping or failing calls

neonVars    == <<neon, bought, tips, tube, deleted, unsettled>>
plusVars    == <<plus, expiry, plusRow, cached, djSubs, torn, doubled>>
poolVars    == <<month, listened, shares, poolTorn>>
callVars    == <<call, requests>>
vars == <<neonVars, plusVars, poolVars, callVars>>

Idle == [pc |-> "idle"]
TubeRow == [level: Nat, fill: Nat, target: Nat, total: Nat]
TipCall == [pc: {"debit", "pour", "commit", "resolve"}, user: Users, room: Rooms, amount: Tips]
           \cup [pc: {"level"}, room: Rooms, row: TubeRow]
PlusCall == [pc: {"grantFlag", "grantRow", "dropFlag", "dropRow"}, user: Users]
DJCall == [pc: {"djInsert"}, user: Users, dj: Users]
PoolCall == [pc: {"minutes"}, cents: Nat]
            \cup [pc: {"month", "clear", "pay"}, cents: Nat, minutes: [Users -> Nat],
                  due: SUBSET Users, serial: Nat]

ShareRow == [serial: Nat, creator: Users, minutes: Nat, cents: Nat]
EmptyTube == [level |-> 1, fill |-> 0, target |-> FirstTarget, total |-> 0]

TypeOK ==
    /\ neon \in [Users -> Nat] /\ bought \in [Users -> Nat] /\ tips \in [Rooms -> Nat]
    /\ tube \in [Rooms -> TubeRow] /\ deleted \subseteq Rooms
    /\ plus \in [Users -> BOOLEAN] /\ expiry \in [Users -> {"none", "ahead", "past"}]
    /\ plusRow \in [Users -> {"none", "active", "cancelled"}] /\ cached \in [Users -> BOOLEAN]
    /\ djSubs \in [Users \X Users -> Nat]
    /\ month \in Nat /\ listened \in Nat /\ shares \subseteq ShareRow
    /\ call \in [Calls -> {Idle} \cup TipCall \cup PlusCall \cup DJCall \cup PoolCall]
    /\ requests \in 0..MaxRequests
    /\ unsettled \subseteq Rooms /\ torn \subseteq Users
    /\ doubled \subseteq Users \X Users /\ poolTorn \in BOOLEAN

Init ==
    /\ neon = [u \in Users |-> Opening] /\ bought = neon /\ tips = [r \in Rooms |-> 0]
    /\ tube = [r \in Rooms |-> EmptyTube] /\ deleted = {}
    /\ plus = [u \in Users |-> FALSE] /\ expiry = [u \in Users |-> "none"]
    /\ plusRow = [u \in Users |-> "none"] /\ cached = [u \in Users |-> FALSE]
    /\ djSubs = [p \in Users \X Users |-> 0]
    /\ month = 0 /\ listened = 0 /\ shares = {}
    /\ call = [c \in Calls |-> Idle] /\ requests = 0
    /\ unsettled = {} /\ torn = {} /\ doubled = {} /\ poolTorn = FALSE

-----------------------------------------------------------------------------
At(c, pcs) == call[c].pc \in pcs
Goto(c, next) == call' = [call EXCEPT ![c] = next] /\ UNCHANGED requests
Answer(c) == Goto(c, Idle)
Begin(c, next) ==
    /\ At(c, {"idle"}) /\ requests < MaxRequests
    /\ requests' = requests + 1
    /\ call' = [call EXCEPT ![c] = next]

\* Row locks of the open transactions: SpendNeon holds the user's row from its debit on and
\* the tube's row from its upsert on, ResolveTubeOverflow the tube's row (FOR UPDATE).  A
\* tip on its way to COMMIT also keeps the room's row from being deleted.
UserRowFree(u) == \A c \in Calls : At(c, {"pour", "commit"}) => call[c].user # u
\* Mutant: ResolveTubeOverflow reads without FOR UPDATE.
IgnoresResolver(r) == \A c \in Calls : At(c, {"commit"}) => call[c].room # r
TubeRowFree(r) == \A c \in Calls : At(c, {"commit", "level"}) => call[c].room # r

-----------------------------------------------------------------------------
(* Neon *)

BuyNeon(c, u, n) ==
    /\ DevPayments /\ UserRowFree(u)
    /\ Begin(c, Idle)
    /\ neon' = [neon EXCEPT ![u] = @ + n]
    /\ bought' = [bought EXCEPT ![u] = @ + n]
    /\ UNCHANGED <<tips, tube, deleted, unsettled, plusVars, poolVars>>

\* AdminHandler.UpdateUser writes the balance it is given.
AdminSetNeon(c, u, n) ==
    /\ UserRowFree(u)
    /\ Begin(c, Idle)
    /\ neon' = [neon EXCEPT ![u] = n]
    /\ UNCHANGED <<bought, tips, tube, deleted, unsettled, plusVars, poolVars>>

SendNeon(c, u, r, n) ==
    /\ r \notin deleted /\ Owner[r] # u
    /\ Begin(c, [pc |-> "debit", user |-> u, room |-> r, amount |-> n])
    /\ UNCHANGED <<neonVars, plusVars, poolVars>>

\* Mutant: the debit takes what it is asked for.
DebitsUnchecked(c) ==
    /\ At(c, {"debit"}) /\ UserRowFree(call[c].user)
    /\ Goto(c, [call[c] EXCEPT !.pc = "pour"])
    /\ UNCHANGED <<neonVars, plusVars, poolVars>>

\* UPDATE ... WHERE neon_balance >= $2: no row means an insufficient balance.
Debit(c) ==
    /\ At(c, {"debit"}) /\ UserRowFree(call[c].user)
    /\ IF neon[call[c].user] >= call[c].amount
       THEN Goto(c, [call[c] EXCEPT !.pc = "pour"]) ELSE Answer(c)
    /\ UNCHANGED <<neonVars, plusVars, poolVars>>

\* The ledger row needs the room's; then the tube's row is upserted.
Pour(c) ==
    /\ At(c, {"pour"})
    /\ \/ /\ call[c].room \notin deleted /\ TubeRowFree(call[c].room)
          /\ Goto(c, [call[c] EXCEPT !.pc = "commit"])
       \/ /\ call[c].room \in deleted
          /\ Answer(c)
    /\ UNCHANGED <<neonVars, plusVars, poolVars>>

CommitTip(c) ==
    /\ At(c, {"commit"})
    /\ LET t == call[c] IN
         /\ neon' = [neon EXCEPT ![t.user] = @ - t.amount]
         /\ tips' = [tips EXCEPT ![t.room] = @ + t.amount]
         /\ tube' = [tube EXCEPT ![t.room].fill = @ + t.amount, ![t.room].total = @ + t.amount]
         /\ Goto(c, [t EXCEPT !.pc = "resolve"])
    /\ UNCHANGED <<bought, deleted, unsettled, plusVars, poolVars>>

FailTip(c) ==
    /\ At(c, {"debit", "pour", "commit"})
    /\ Answer(c)
    /\ UNCHANGED <<neonVars, plusVars, poolVars>>

LockTube(c) ==
    /\ At(c, {"resolve"}) /\ TubeRowFree(call[c].room)
    /\ Goto(c, [pc |-> "level", room |-> call[c].room, row |-> tube[call[c].room]])
    /\ UNCHANGED <<neonVars, plusVars, poolVars>>

Overflows(row) == row.target > 0 /\ row.fill >= row.target
TargetOf(l) == IF LevelTarget[l] > 0 THEN LevelTarget[l] ELSE FirstTarget
LevelledUp(row) ==
    LET next == IF row.level + 1 > MaxLevel THEN 1 ELSE row.level + 1
    IN [row EXCEPT !.level = next, !.fill = @ - row.target, !.target = TargetOf(next)]

LevelUp(c) ==
    /\ At(c, {"level"}) /\ Overflows(call[c].row)
    /\ Goto(c, [call[c] EXCEPT !.row = LevelledUp(@)])
    /\ UNCHANGED <<neonVars, plusVars, poolVars>>

\* Mutant: one level per call.
CommitsFirstLevel(c) ==
    /\ At(c, {"level"})
    /\ tube' = [tube EXCEPT ![call[c].room] =
                  IF Overflows(call[c].row) THEN LevelledUp(call[c].row) ELSE call[c].row]
    /\ unsettled' = unsettled \ {call[c].room}
    /\ Answer(c)
    /\ UNCHANGED <<neon, bought, tips, deleted, plusVars, poolVars>>

\* Level, fill and target are written; the total is as it was read, under the lock.
CommitLevels(c) ==
    /\ At(c, {"level"}) /\ ~Overflows(call[c].row)
    /\ tube' = [tube EXCEPT ![call[c].room] = [call[c].row EXCEPT !.total = tube[call[c].room].total]]
    /\ unsettled' = unsettled \ {call[c].room}
    /\ Answer(c)
    /\ UNCHANGED <<neon, bought, tips, deleted, plusVars, poolVars>>

\* The tip stands, the tube keeps its overflow: the next tip resolves it.
FailResolve(c) ==
    /\ At(c, {"resolve", "level"})
    /\ unsettled' = unsettled \cup {call[c].room}
    /\ Answer(c)
    /\ UNCHANGED <<neon, bought, tips, tube, deleted, plusVars, poolVars>>

\* DELETE FROM rooms, by whichever path: rows of neon_transactions forbid it.
DeleteRoom(r) ==
    /\ r \notin deleted /\ tips[r] = 0
    /\ \A c \in Calls : At(c, {"commit"}) => call[c].room # r
    /\ deleted' = deleted \cup {r}
    /\ UNCHANGED <<neon, bought, tips, tube, unsettled, plusVars, poolVars, callVars>>

-----------------------------------------------------------------------------
(* Plus and DJ subscriptions *)

IsPlus(u) == plus[u] /\ expiry[u] # "past"
\* Requests of u between their two statements.
HalfWay(u) == {c \in Calls : At(c, {"grantRow", "dropRow"}) /\ call[c].user = u}

\* The middleware loads the user again once its cache entry has aged.
RefreshUser(u) ==
    /\ cached[u] # IsPlus(u)
    /\ cached' = [cached EXCEPT ![u] = IsPlus(u)]
    /\ UNCHANGED <<neonVars, plus, expiry, plusRow, djSubs, torn, doubled, poolVars, callVars>>

Expire(u) ==
    /\ expiry[u] = "ahead"
    /\ expiry' = [expiry EXCEPT ![u] = "past"]
    /\ UNCHANGED <<neonVars, plus, plusRow, cached, djSubs, torn, doubled, poolVars, callVars>>

SubscribePlus(c, u) ==
    /\ DevPayments /\ ~cached[u]
    /\ Begin(c, [pc |-> "grantFlag", user |-> u])
    /\ UNCHANGED <<neonVars, plusVars, poolVars>>

CancelPlus(c, u) ==
    /\ Begin(c, [pc |-> "dropFlag", user |-> u])
    /\ UNCHANGED <<neonVars, plusVars, poolVars>>

\* The first statement of ActivatePlus and of DeactivatePlus.
SetFlag(c) ==
    /\ At(c, {"grantFlag", "dropFlag"})
    /\ LET u == call[c].user  grant == At(c, {"grantFlag"}) IN
         /\ UserRowFree(u)
         /\ plus' = [plus EXCEPT ![u] = grant]
         /\ expiry' = IF grant THEN [expiry EXCEPT ![u] = "ahead"] ELSE expiry
         /\ torn' = IF HalfWay(u) = {} THEN torn \ {u} ELSE torn \cup {u}
         /\ Goto(c, [call[c] EXCEPT !.pc = IF grant THEN "grantRow" ELSE "dropRow"])
    /\ UNCHANGED <<neonVars, plusRow, cached, djSubs, doubled, poolVars>>

\* Mutant: ON CONFLICT DO NOTHING.
InsertsRowOnce(c) ==
    /\ At(c, {"grantRow", "dropRow"})
    /\ plusRow' = [plusRow EXCEPT ![call[c].user] =
                     IF At(c, {"grantRow"}) THEN (IF @ = "none" THEN "active" ELSE @)
                     ELSE IF @ = "active" THEN "cancelled" ELSE @]
    /\ Answer(c)
    /\ UNCHANGED <<neonVars, plus, expiry, cached, djSubs, torn, doubled, poolVars>>

\* The second statement: an upsert, or an UPDATE of the active row.
WriteRow(c) ==
    /\ At(c, {"grantRow", "dropRow"})
    /\ plusRow' = [plusRow EXCEPT ![call[c].user] =
                     IF At(c, {"grantRow"}) THEN "active"
                     ELSE IF @ = "active" THEN "cancelled" ELSE @]
    /\ Answer(c)
    /\ UNCHANGED <<neonVars, plus, expiry, cached, djSubs, torn, doubled, poolVars>>

FailPlus(c) ==
    /\ At(c, {"grantFlag", "dropFlag", "grantRow", "dropRow"})
    /\ torn' = IF At(c, {"grantRow", "dropRow"}) THEN torn \cup {call[c].user} ELSE torn
    /\ Answer(c)
    /\ UNCHANGED <<neonVars, plus, expiry, plusRow, cached, djSubs, doubled, poolVars>>

\* AdminSetPlus clears the expiry when it grants; UpdateUser drops the cached user.
AdminSetPlus(c, u, grant) ==
    /\ UserRowFree(u)
    /\ Begin(c, Idle)
    /\ plus' = [plus EXCEPT ![u] = grant]
    /\ expiry' = IF grant THEN [expiry EXCEPT ![u] = "none"] ELSE expiry
    /\ cached' = [cached EXCEPT ![u] = IsPlus(u)']
    /\ torn' = torn \cup {u}
    /\ UNCHANGED <<neonVars, plusRow, djSubs, doubled, poolVars>>

SubscribeToDJ(c, u, d) ==
    /\ DevPayments /\ u # d /\ djSubs[<<u, d>>] = 0
    /\ Begin(c, [pc |-> "djInsert", user |-> u, dj |-> d])
    /\ doubled' = IF \E b \in Calls : call[b] = [pc |-> "djInsert", user |-> u, dj |-> d]
                  THEN doubled \cup {<<u, d>>} ELSE doubled
    /\ UNCHANGED <<neonVars, plus, expiry, plusRow, cached, djSubs, torn, poolVars>>

\* The row gets an id of its own; settings and price are read before.
InsertDJSub(c) ==
    /\ At(c, {"djInsert"})
    /\ \/ djSubs' = [djSubs EXCEPT ![<<call[c].user, call[c].dj>>] = @ + 1]
       \/ UNCHANGED djSubs
    /\ Answer(c)
    /\ UNCHANGED <<neonVars, plus, expiry, plusRow, cached, torn, doubled, poolVars>>

-----------------------------------------------------------------------------
(* The creator pool *)

\* The minutes Plus users other than d listened to rooms of d.
MinutesOf(d) ==
    Min({CreatorCap, MapThenSumSet(LAMBDA u : Min({PairCap, Heard[u][d]}),
                                   {u \in Users \ {d} : IsPlus(u)})})
Revenue == Price * Cardinality({u \in Users : plusRow[u] # "none"})

ComputePool(c, pct) ==
    /\ Begin(c, [pc |-> "minutes", cents |-> (Revenue * pct) \div 100])
    /\ UNCHANGED <<neonVars, plusVars, poolVars>>

\* rows.Err() is not asked: a read that breaks off goes on with the rows it has, and those
\* come in the order of their minutes.
ReadMinutes(c) ==
    /\ At(c, {"minutes"})
    /\ \E read \in SUBSET Users :
         /\ \A d \in read, e \in Users \ read : MinutesOf(d) >= MinutesOf(e)
         /\ LET minutes == [d \in Users |-> IF d \in read THEN MinutesOf(d) ELSE 0] IN
              Goto(c, [pc |-> "month", cents |-> call[c].cents, minutes |-> minutes,
                       due |-> {d \in Users : minutes[d] > 0}, serial |-> requests])
    /\ UNCHANGED <<neonVars, plusVars, poolVars>>

\* Only this statement makes the month what this call computed.
UpsertMonth(c) ==
    /\ At(c, {"month"})
    /\ month' = call[c].cents /\ listened' = SumFunction(call[c].minutes)
    /\ poolTorn' = \E b \in Calls : At(b, {"clear", "pay"})
    /\ Goto(c, [call[c] EXCEPT !.pc = "clear"])
    /\ UNCHANGED <<neonVars, plusVars, shares>>

\* Mutant: the month's old allocations stay.
KeepsOldShares(c) ==
    /\ At(c, {"clear"})
    /\ shares' = shares
    /\ Goto(c, [call[c] EXCEPT !.pc = "pay"])
    /\ UNCHANGED <<neonVars, plusVars, month, listened, poolTorn>>

ClearShares(c) ==
    /\ At(c, {"clear"})
    /\ shares' = {}
    /\ Goto(c, [call[c] EXCEPT !.pc = "pay"])
    /\ UNCHANGED <<neonVars, plusVars, month, listened, poolTorn>>

ShareOf(c, d) == (call[c].cents * call[c].minutes[d]) \div SumFunction(call[c].minutes)

\* One INSERT per creator; a failing one is only logged.
PayCreator(c, d) ==
    /\ At(c, {"pay"}) /\ d \in call[c].due
    /\ \/ /\ shares' = shares \cup
               {[serial |-> call[c].serial, creator |-> d,
                 minutes |-> call[c].minutes[d], cents |-> ShareOf(c, d)]}
          /\ UNCHANGED poolTorn
       \/ UNCHANGED shares /\ poolTorn' = TRUE
    /\ Goto(c, [call[c] EXCEPT !.due = @ \ {d}])
    /\ UNCHANGED <<neonVars, plusVars, month, listened>>

AnswerPool(c) ==
    /\ At(c, {"pay"}) /\ call[c].due = {}
    /\ Answer(c)
    /\ UNCHANGED <<neonVars, plusVars, poolVars>>

FailPool(c) ==
    /\ At(c, {"minutes", "month", "clear"})
    /\ poolTorn' = (poolTorn \/ At(c, {"clear"}))
    /\ Answer(c)
    /\ UNCHANGED <<neonVars, plusVars, month, listened, shares>>

-----------------------------------------------------------------------------
\* Nothing is under way.  Every other state has a step: no call waits for ever for a lock.
Rest == (\A c \in Calls : At(c, {"idle"})) /\ UNCHANGED vars

TipSteps(c) ==
    \/ Debit(c) \/ Pour(c) \/ CommitTip(c) \/ FailTip(c)
    \/ LockTube(c) \/ LevelUp(c) \/ CommitLevels(c) \/ FailResolve(c)
PlusSteps(c) == SetFlag(c) \/ WriteRow(c) \/ FailPlus(c) \/ InsertDJSub(c)
PoolSteps(c) ==
    \/ ReadMinutes(c) \/ UpsertMonth(c) \/ ClearShares(c) \/ AnswerPool(c) \/ FailPool(c)
    \/ \E d \in Users : PayCreator(c, d)

Requests(c) ==
    \/ \E u \in Users :
         \/ \E n \in Packs : BuyNeon(c, u, n)
         \/ \E n \in Grants : AdminSetNeon(c, u, n)
         \/ \E r \in Rooms, n \in Tips : SendNeon(c, u, r, n)
         \/ SubscribePlus(c, u) \/ CancelPlus(c, u)
         \/ \E grant \in BOOLEAN : AdminSetPlus(c, u, grant)
         \/ \E d \in Users : SubscribeToDJ(c, u, d)
    \/ \E pct \in Pcts : ComputePool(c, pct)

Next ==
    \/ \E c \in Calls : Requests(c) \/ TipSteps(c) \/ PlusSteps(c) \/ PoolSteps(c)
    \/ \E u \in Users : RefreshUser(u) \/ Expire(u)
    \/ \E r \in Rooms : DeleteRoom(r)
    \/ Rest

Spec == Init /\ [][Next]_vars

-----------------------------------------------------------------------------
(* Properties *)

\* The rows behave like the ledger of Ledger.tla: what several statements and two
\* transactions do to a tip is one transfer and one level-up to what the room was given,
\* also when tips overlap, fail half way, or find the tube overflowing from earlier.
Books == INSTANCE Ledger WITH
            LevelTarget <- [l \in 1..MaxLevel |-> TargetOf(l)],
            wallet <- neon, paid <- bought, given <- tips,
            tube <- [r \in Rooms |-> [level |-> tube[r].level, fill |-> tube[r].fill,
                                      target |-> tube[r].target]]
KeepsTheLedger == Books!Spec

\* A tube that overflows has somebody about to level it up, unless the last one to try
\* failed; and its total is what the ledger rows of its room add up to.
OverflowIsPending ==
    \A r \in Rooms :
      /\ tube[r].total = tips[r]
      /\ \/ ~Overflows(tube[r]) \/ r \in unsettled
         \/ \E c \in Calls : At(c, {"resolve", "level"}) /\ call[c].room = r

\* users.is_plus and the subscription row tell different stories, and a DJ has one
\* subscriber twice, only after two requests overlapped or one failed half way (or an
\* admin set the flag).
SubscriptionsAgree ==
    /\ \A u \in Users \ torn : HalfWay(u) = {} => (plus[u] <=> plusRow[u] = "active")
    /\ \A p \in (Users \X Users) \ doubled : djSubs[p] <= 1

\* The month's allocations name each creator once and pay, to less than a cent, the share
\* of the month's pool that the creator's minutes are of the month's; no minute of the
\* month is left out, so together they are the pool but for less than a cent each.  Unless
\* two computations overlapped or a statement failed.
PoolPaidOnce ==
    \/ poolTorn
    \/ \E c \in Calls : At(c, {"clear", "pay"})
    \/ LET cents == MapThenSumSet(LAMBDA s : s.cents, shares) IN
         /\ \A s, t \in shares : s.creator = t.creator => s = t
         /\ \A s \in shares : /\ s.cents * listened <= month * s.minutes
                              /\ month * s.minutes < (s.cents + 1) * listened
         /\ MapThenSumSet(LAMBDA s : s.minutes, shares) = listened
         /\ cents <= month
         /\ shares # {} => month - cents < Cardinality(shares)
=============================================================================
