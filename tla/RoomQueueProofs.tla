-------------------------- MODULE RoomQueueProofs --------------------------
(* Proofs about RoomQueue, for every set of entries, poppers and sessions.  *)
EXTENDS RoomQueue, FiniteSetTheorems, TLAPS

\* What a move of one submission's handler does to the stages.
LEMMA GotoMoves ==
  ASSUME TypeOK, NEW e \in Entries, NEW s \in Stages, Goto(e, s)
  PROVE  /\ stage' = [stage EXCEPT ![e] = s]
         /\ stage' \in [Entries -> Stages]
         /\ loop' \in [Loops -> Entries \cup {NoEntry}]
BY ConstantsOK DEF Goto, TypeOK

\* Every variable of RoomQueue keeps its type.
THEOREM TypeCorrect == Spec => []TypeOK
<1>1. Init => TypeOK
  BY DEF Init, TypeOK, Policies, Stages
<1>2. TypeOK /\ [Next]_vars => TypeOK'
  <2> SUFFICES ASSUME TypeOK, [Next]_vars PROVE TypeOK'
    OBVIOUS
  <2>1. ASSUME NEW e \in Entries, SubmitOverWS(e) PROVE TypeOK'
    BY <2>1 DEF SubmitOverWS, TypeOK, Stages, rowVars, historyVars, amiss
  <2>2. ASSUME NEW e \in Entries, SubmitOverHTTP(e) PROVE TypeOK'
    <3>1. "policy" \in Stages
      BY DEF Stages
    <3> QED
      BY <2>2, <3>1, GotoMoves DEF SubmitOverHTTP, TypeOK, rowVars, historyVars, amiss
  <2>3. ASSUME NEW e \in Entries, ReadPolicy(e) PROVE TypeOK'
    <3> DEFINE s == IF policy = "closed" /\ e \notin ByDJ THEN "refused"
                    ELSE IF e \in ByDJ \cup OverWS THEN "max" ELSE "count"
    <3>1. s \in Stages
      BY DEF Stages
    <3>2. Goto(e, s)
      BY <2>3 DEF ReadPolicy
    <3> HIDE DEF s
    <3>3. stage' \in [Entries -> Stages] /\ loop' \in [Loops -> Entries \cup {NoEntry}]
      BY <3>1, <3>2, GotoMoves
    <3> QED
      BY <2>3, <3>3 DEF ReadPolicy, TypeOK, rowVars, historyVars, amiss
  <2>4. ASSUME NEW e \in Entries, CountActiveQueueEntriesBySession(e) PROVE TypeOK'
    <3>1. PICK s \in Stages : Goto(e, s)
      BY <2>4 DEF CountActiveQueueEntriesBySession, Counted, Stages
    <3>2. stage' \in [Entries -> Stages] /\ loop' \in [Loops -> Entries \cup {NoEntry}]
      BY <3>1, GotoMoves
    <3> QED
      BY <2>4, <3>2 DEF CountActiveQueueEntriesBySession, TypeOK, rowVars, historyVars, amiss
  <2>5. ASSUME NEW e \in Entries, ReadMaxPosition(e) PROVE TypeOK'
    <3>1. "insert" \in Stages
      BY DEF Stages
    <3>2. stage' \in [Entries -> Stages] /\ loop' \in [Loops -> Entries \cup {NoEntry}]
      BY <2>5, <3>1, GotoMoves DEF ReadMaxPosition
    <3>3. max' \in [Entries -> Nat]
      BY <2>5 DEF ReadMaxPosition, TypeOK, Waiting
    <3> QED
      BY <2>5, <3>2, <3>3 DEF ReadMaxPosition, TypeOK, Waiting, rowVars, amiss
  <2>6. ASSUME NEW e \in Entries, AddToQueue(e) PROVE TypeOK'
    <3>1. "done" \in Stages
      BY DEF Stages
    <3>2. stage' \in [Entries -> Stages] /\ loop' \in [Loops -> Entries \cup {NoEntry}]
      BY <2>6, <3>1, GotoMoves DEF AddToQueue
    <3>3. /\ position' \in [Entries -> Nat] /\ max' \in [Entries -> Nat]
          /\ seen' \in [Entries -> Policies] /\ crossed' \subseteq Entries
      BY <2>6 DEF AddToQueue, Crosses, OfSession, TypeOK, Policies
    <3>4. /\ status' \in [Entries -> {"none", "pending", "approved", "rejected", "played"}]
          /\ approvals' \in [Entries -> Nat]
      BY <2>6 DEF AddToQueue, TypeOK
    <3> QED
      BY <2>6, <3>2, <3>3, <3>4 DEF AddToQueue, TypeOK
  <2>7. ASSUME NEW e \in Entries, Approve(e) PROVE TypeOK'
    BY <2>7 DEF Approve, Crosses, OfSession, TypeOK, handlerVars
  <2>8. ASSUME NEW e \in Entries, Reject(e) PROVE TypeOK'
    BY <2>8 DEF Reject, NoLongerAhead, TypeOK, handlerVars, amiss
  <2>9. ASSUME NEW p \in Poppers, SelectNext(p) PROVE TypeOK'
    BY <2>9 DEF SelectNext, TypeOK, rowVars, handlerVars, historyVars, amiss
  <2>10. ASSUME NEW p \in Poppers, CommitPlayed(p) PROVE TypeOK'
    <3>1. lock[p] \in Entries
      BY <2>10 DEF CommitPlayed, TypeOK
    <3> QED
      BY <2>10, <3>1 DEF CommitPlayed, NoLongerAhead, TypeOK, handlerVars, amiss
  <2>11. ASSUME NEW p \in Poppers, Rollback(p) PROVE TypeOK'
    BY <2>11 DEF Rollback, TypeOK, rowVars, handlerVars, historyVars, amiss
  <2>12. ASSUME NEW p \in Policies, SetPolicy(p) PROVE TypeOK'
    BY <2>12 DEF SetPolicy, TypeOK, rowVars, handlerVars, historyVars, amiss
  <2>13. CASE UNCHANGED vars
    BY <2>13 DEF vars, TypeOK, rowVars, handlerVars, historyVars, amiss
  <2>14. ASSUME NEW e \in Entries, CountFails(e) \/ SubmissionFails(e) PROVE TypeOK'
    <3>1. PICK s \in Stages : Goto(e, s)
      BY <2>14 DEF CountFails, SubmissionFails, Counted, Stages
    <3>2. stage' \in [Entries -> Stages] /\ loop' \in [Loops -> Entries \cup {NoEntry}]
      BY <3>1, GotoMoves
    <3> QED
      BY <2>14, <3>2 DEF CountFails, SubmissionFails, TypeOK, rowVars
  <2> QED
    BY <2>1, <2>2, <2>3, <2>4, <2>5, <2>6, <2>7, <2>8, <2>9, <2>10, <2>11, <2>12, <2>13, <2>14
       DEF Next, Submission, Pop
<1> QED
  BY <1>1, <1>2, PTL DEF Spec

-----------------------------------------------------------------------------
(* What the rows owe to approvals and to locks *)

\* An approved row is an approval not yet played; a locked row is approved and locked by
\* one transaction; a row exists only once its submission is done.
Owed(e) == IF status[e] = "approved" THEN 1 ELSE 0
RowInv ==
    /\ \A e \in Entries : plays[e] + Owed(e) <= approvals[e]
    /\ \A p \in Poppers : lock[p] # NoEntry => status[lock[p]] = "approved"
    /\ \A p, q \in Poppers : lock[p] = lock[q] /\ lock[p] # NoEntry => p = q
    /\ \A e \in Entries : status[e] # "none" => stage[e] = "done"

\* A submission that has not inserted its row leaves rows, locks and history alone.
BeforeInsert(e) == \/ SubmitOverWS(e) \/ SubmitOverHTTP(e) \/ ReadPolicy(e)
                   \/ CountActiveQueueEntriesBySession(e) \/ CountFails(e) \/ ReadMaxPosition(e)
                   \/ (SubmissionFails(e) /\ stage[e] # "insert")

LEMMA BeforeInsertKeepsRows ==
  ASSUME TypeOK, NEW e \in Entries, BeforeInsert(e)
  PROVE  /\ UNCHANGED <<status, position, lock, plays, approvals, crossed>>
         /\ stage[e] \notin {"insert", "done", "failed"}
         /\ \A f \in Entries \ {e} : stage'[f] = stage[f]
<1>1. /\ UNCHANGED <<status, position, lock, plays, approvals, crossed>>
      /\ stage[e] \notin {"insert", "done", "failed"}
  BY DEF BeforeInsert, SubmitOverWS, SubmitOverHTTP, ReadPolicy, ReadMaxPosition, CountFails,
         CountActiveQueueEntriesBySession, SubmissionFails, rowVars, historyVars, amiss
<1>2. SubmitOverWS(e) \/ \E s : Goto(e, s)
  BY DEF BeforeInsert, SubmitOverHTTP, ReadPolicy, ReadMaxPosition, CountFails,
         CountActiveQueueEntriesBySession, SubmissionFails
<1> QED
  BY <1>1, <1>2 DEF SubmitOverWS, Goto, TypeOK

\* A row that is not inserted leaves no more behind than the turn that was taken.
LEMMA InsertFails ==
  ASSUME TypeOK, NEW e \in Entries, SubmissionFails(e), stage[e] = "insert"
  PROVE  /\ UNCHANGED <<status, position, max, lock, plays, approvals, ahead, crossed>>
         /\ stage' = [stage EXCEPT ![e] = "failed"] /\ failed' = failed \cup {e}
         /\ loop' = [l \in Loops |-> IF loop[l] = e THEN NoEntry ELSE loop[l]]
BY DEF SubmissionFails, Goto, Ended, rowVars

LEMMA RowInvStep == TypeOK /\ RowInv /\ [Next]_vars => RowInv'
<1> SUFFICES ASSUME TypeOK, RowInv, [Next]_vars PROVE RowInv'
  OBVIOUS
<1>1. ASSUME NEW e \in Entries, BeforeInsert(e) PROVE RowInv'
  BY <1>1, BeforeInsertKeepsRows DEF RowInv, Owed
<1>10. ASSUME NEW e \in Entries, SubmissionFails(e), stage[e] = "insert" PROVE RowInv'
  BY <1>10, InsertFails DEF RowInv, Owed, TypeOK
<1>2. ASSUME NEW e \in Entries, AddToQueue(e) PROVE RowInv'
  <2>1. status[e] = "none" /\ \A p \in Poppers : lock[p] # e
    BY <1>2, ConstantsOK DEF AddToQueue, RowInv, TypeOK
  <2>2. \A f \in Entries \ {e} : /\ status'[f] = status[f] /\ approvals'[f] = approvals[f]
                                 /\ stage'[f] = stage[f]
    BY <1>2 DEF AddToQueue, Goto, TypeOK
  <2>3. /\ stage'[e] = "done"
        /\ approvals'[e] = approvals[e] + (IF status'[e] = "approved" THEN 1 ELSE 0)
    BY <1>2 DEF AddToQueue, Goto, TypeOK
  <2>4. plays' = plays /\ lock' = lock
    BY <1>2 DEF AddToQueue
  <2>5. \A f \in Entries : plays'[f] + Owed(f)' <= approvals'[f]
    BY <2>1, <2>2, <2>3, <2>4 DEF Owed, RowInv, TypeOK
  <2> QED
    BY <2>1, <2>2, <2>3, <2>4, <2>5 DEF RowInv, TypeOK
<1>3. ASSUME NEW e \in Entries, Approve(e) PROVE RowInv'
  <2>1. \A f \in Entries : plays'[f] + Owed(f)' <= approvals'[f]
    BY <1>3 DEF Approve, RowInv, Owed, TypeOK
  <2> QED
    BY <1>3, <2>1 DEF Approve, RowInv, TypeOK, handlerVars
<1>4. ASSUME NEW e \in Entries, Reject(e) PROVE RowInv'
  <2>1. \A f \in Entries : plays'[f] + Owed(f)' <= approvals'[f]
    BY <1>4 DEF Reject, RowInv, Owed, TypeOK
  <2>2. \A p \in Poppers : lock[p] # e
    BY <1>4 DEF Reject, Locked
  <2> QED
    BY <1>4, <2>1, <2>2 DEF Reject, RowInv, TypeOK, handlerVars
<1>5. ASSUME NEW p \in Poppers, SelectNext(p) PROVE RowInv'
  <2>1. PICK e \in Entries : /\ status[e] = "approved" /\ ~Locked(e)
                             /\ lock' = [lock EXCEPT ![p] = e]
    BY <1>5 DEF SelectNext
  <2>2. UNCHANGED <<status, stage, plays, approvals>>
    BY <1>5 DEF SelectNext, rowVars, handlerVars, historyVars
  <2>3. \A q \in Poppers : lock[q] # e
    BY <2>1 DEF Locked
  <2> QED
    BY <2>1, <2>2, <2>3 DEF RowInv, Owed, TypeOK
<1>6. ASSUME NEW p \in Poppers, CommitPlayed(p) PROVE RowInv'
  <2>1. lock[p] \in Entries /\ status[lock[p]] = "approved"
    BY <1>6 DEF CommitPlayed, RowInv, TypeOK
  <2>2. \A q \in Poppers \ {p} : lock'[q] = lock[q] /\ lock[q] # lock[p]
    BY <1>6 DEF CommitPlayed, RowInv, TypeOK
  <2>3. lock'[p] = NoEntry
    BY <1>6 DEF CommitPlayed, TypeOK
  <2>4. \A f \in Entries : plays'[f] + Owed(f)' <= approvals'[f]
    BY <1>6, <2>1 DEF CommitPlayed, RowInv, Owed, TypeOK
  <2> QED
    BY <1>6, <2>1, <2>2, <2>3, <2>4 DEF CommitPlayed, RowInv, TypeOK, handlerVars
<1>7. ASSUME NEW p \in Poppers, Rollback(p) PROVE RowInv'
  BY <1>7 DEF Rollback, RowInv, Owed, TypeOK, rowVars, handlerVars, historyVars
<1>8. ASSUME NEW p \in Policies, SetPolicy(p) PROVE RowInv'
  BY <1>8 DEF SetPolicy, RowInv, Owed, rowVars, handlerVars, historyVars
<1>9. CASE UNCHANGED vars
  BY <1>9 DEF vars, RowInv, Owed, rowVars, handlerVars, historyVars
<1> QED
  BY <1>1, <1>2, <1>3, <1>4, <1>5, <1>6, <1>7, <1>8, <1>9, <1>10
     DEF Next, Submission, Pop, BeforeInsert

LEMMA RowInvInit == Init => RowInv
BY DEF Init, RowInv, Owed

\* However many goroutines pop and the DJ approves, no entry starts more often than it
\* was approved.
THEOREM QueuePlaysOncePerApproval == Spec => []AtMostOncePerApproval
<1>1. TypeOK /\ RowInv => AtMostOncePerApproval
  BY DEF TypeOK, RowInv, Owed, AtMostOncePerApproval
<1> QED
  BY <1>1, TypeCorrect, RowInvInit, RowInvStep, PTL DEF Spec

-----------------------------------------------------------------------------
(* What the positions owe to the order of submission *)

\* Whoever is ahead of a submission waits, at a position below the one it takes.
AheadInv ==
    \A f \in Entries :
        /\ stage[f] \notin {"insert", "done", "failed"} => ahead[f] = {}
        /\ \A e \in ahead[f] :
             /\ e \in Waiting
             /\ stage[f] = "insert" => position[e] <= max[f]
             /\ stage[f] = "done" => position[e] < position[f]

LEMMA BeforeTurnKeeps ==
  ASSUME TypeOK, NEW e \in Entries, BeforeInsert(e), ~ReadMaxPosition(e)
  PROVE  /\ UNCHANGED <<status, position, max, lock, ahead>>
         /\ stage'[e] \notin {"insert", "done", "failed"}
<1>1. UNCHANGED <<status, position, max, lock, ahead>>
  BY DEF BeforeInsert, SubmitOverWS, SubmitOverHTTP, ReadPolicy, CountFails,
         CountActiveQueueEntriesBySession, SubmissionFails, rowVars, historyVars
<1>2. SubmitOverWS(e) \/ \E s \in Stages \ {"insert", "done", "failed"} : Goto(e, s)
  BY DEF BeforeInsert, SubmitOverHTTP, ReadPolicy, CountFails, Counted, Stages,
         CountActiveQueueEntriesBySession, SubmissionFails
<1> QED
  BY <1>1, <1>2 DEF SubmitOverWS, Goto, TypeOK

LEMMA AheadInvStep == TypeOK /\ RowInv /\ AheadInv /\ [Next]_vars => AheadInv'
<1> SUFFICES ASSUME TypeOK, RowInv, AheadInv, [Next]_vars PROVE AheadInv'
  OBVIOUS
<1>1. ASSUME NEW e \in Entries, BeforeInsert(e), ~ReadMaxPosition(e) PROVE AheadInv'
  <2>1. /\ UNCHANGED <<status, position, max, ahead>>
        /\ stage'[e] \notin {"insert", "done", "failed"}
    BY <1>1, BeforeTurnKeeps
  <2>2. /\ stage[e] \notin {"insert", "done", "failed"}
        /\ \A f \in Entries \ {e} : stage'[f] = stage[f]
    BY <1>1, BeforeInsertKeepsRows
  <2> QED
    BY <2>1, <2>2 DEF AheadInv, Waiting
<1>2. ASSUME NEW e \in Entries, ReadMaxPosition(e) PROVE AheadInv'
  <2>1. /\ UNCHANGED <<status, position>>
        /\ stage'[e] = "insert"
        /\ ahead' = [ahead EXCEPT ![e] = Waiting]
        /\ \A f \in Waiting : position[f] <= max'[e]
    BY <1>2 DEF ReadMaxPosition, Goto, TypeOK, rowVars
  <2>2. \A f \in Entries \ {e} : stage'[f] = stage[f] /\ max'[f] = max[f]
    BY <1>2 DEF ReadMaxPosition, Goto, TypeOK
  <2> QED
    BY <2>1, <2>2 DEF AheadInv, Waiting, TypeOK
<1>3. ASSUME NEW e \in Entries, AddToQueue(e) PROVE AheadInv'
  <2>1. /\ stage[e] = "insert" /\ stage'[e] = "done"
        /\ position'[e] = max[e] + 1
        /\ UNCHANGED ahead
    BY <1>3 DEF AddToQueue, Goto, TypeOK
  <2>2. \A f \in Entries \ {e} : /\ position'[f] = position[f] /\ status'[f] = status[f]
                                 /\ stage'[f] = stage[f] /\ max'[f] = max[f]
    BY <1>3 DEF AddToQueue, Goto, TypeOK
  <2>3. \A f \in Entries : e \notin ahead[f]
    BY <2>1 DEF RowInv, AheadInv, Waiting
  <2>4. \A f \in Entries : \A d \in ahead[f] : d \in Waiting' /\ position'[d] = position[d]
    BY <2>2, <2>3 DEF AheadInv, Waiting, TypeOK
  <2> QED
    BY <2>1, <2>2, <2>4 DEF AheadInv, TypeOK
<1>4. ASSUME NEW e \in Entries, Approve(e) PROVE AheadInv'
  BY <1>4 DEF Approve, AheadInv, Waiting, TypeOK, handlerVars
<1>5. ASSUME NEW e \in Entries, Reject(e) PROVE AheadInv'
  BY <1>5 DEF Reject, NoLongerAhead, AheadInv, Waiting, TypeOK, handlerVars
<1>6. ASSUME NEW p \in Poppers, CommitPlayed(p) PROVE AheadInv'
  BY <1>6 DEF CommitPlayed, NoLongerAhead, AheadInv, Waiting, TypeOK, handlerVars
<1>7. ASSUME NEW p \in Poppers, SelectNext(p) \/ Rollback(p) PROVE AheadInv'
  BY <1>7 DEF SelectNext, Rollback, AheadInv, Waiting, rowVars, handlerVars, historyVars
<1>8. ASSUME NEW p \in Policies, SetPolicy(p) PROVE AheadInv'
  BY <1>8 DEF SetPolicy, AheadInv, Waiting, rowVars, handlerVars, historyVars
<1>9. CASE UNCHANGED vars
  BY <1>9 DEF vars, AheadInv, Waiting, rowVars, handlerVars, historyVars
<1>10. ASSUME NEW e \in Entries, SubmissionFails(e), stage[e] = "insert" PROVE AheadInv'
  BY <1>10, InsertFails DEF AheadInv, Waiting, TypeOK
<1> QED
  BY <1>1, <1>2, <1>3, <1>4, <1>5, <1>6, <1>7, <1>8, <1>9, <1>10
     DEF Next, Submission, Pop, BeforeInsert

\* Only SelectNext locks a row, and it takes the lowest position that is free.
LEMMA SelectsLowest ==
  ASSUME TypeOK, [Next]_vars, NEW p \in Poppers, NEW f \in Entries,
         lock[p] # f, lock'[p] = f
  PROVE  /\ status[f] = "approved"
         /\ \A e \in Entries : status[e] = "approved" /\ ~Locked(e) => position[f] <= position[e]
<1>1. lock # lock'
  OBVIOUS
<1>2. ASSUME NEW q \in Poppers, CommitPlayed(q) \/ Rollback(q) PROVE FALSE
  BY <1>2, ConstantsOK DEF CommitPlayed, Rollback, TypeOK
<1>3. \E q \in Poppers : SelectNext(q)
  BY <1>1, <1>2, BeforeInsertKeepsRows, InsertFails
     DEF Next, vars, Submission, Pop, BeforeInsert, AddToQueue, Approve, Reject, SetPolicy
<1> QED
  BY <1>3 DEF SelectNext, TypeOK

\* Whoever waits when a later submission takes its position is played before it: two
\* concurrent AddToQueue calls may share a position, an earlier one never loses its own.
THEOREM QueueKeepsOrder == Spec => PlaysInOrder
<1>1. TypeOK /\ RowInv /\ AheadInv /\ [Next]_vars =>
        [\A p \in Poppers : \A f \in Entries : lock[p] # f /\ lock'[p] = f =>
           \A e \in ahead[f] : status[e] = "approved" => Locked(e)]_vars
  <2> SUFFICES ASSUME TypeOK, RowInv, AheadInv, [Next]_vars,
                      NEW p \in Poppers, NEW f \in Entries, lock[p] # f, lock'[p] = f,
                      NEW e \in ahead[f], status[e] = "approved", ~Locked(e)
               PROVE  FALSE
    OBVIOUS
  <2>1. stage[f] = "done" /\ position[f] <= position[e]
    BY SelectsLowest DEF RowInv, TypeOK
  <2>2. position[e] < position[f]
    BY <2>1 DEF AheadInv
  <2>3. e \in Entries
    BY DEF TypeOK
  <2> QED
    BY <2>1, <2>2, <2>3 DEF TypeOK
<1>2. Init => AheadInv
  BY DEF Init, AheadInv
<1> QED
  BY <1>1, <1>2, TypeCorrect, RowInvInit, RowInvStep, AheadInvStep, PTL DEF Spec, PlaysInOrder
-----------------------------------------------------------------------------
(* The queue keeps the turns *)

\* A row that is locked is approved, so that who stands somewhere is who waits.
LEMMA StandingIsWaiting ==
  ASSUME RowInv
  PROVE  /\ Order!Present = Waiting
         /\ \A e \in Entries : Locked(e) => status[e] = "approved"
<1>1. \A e \in Entries : Locked(e) => status[e] = "approved"
  BY ConstantsOK DEF RowInv, Locked
<1> QED
  BY <1>1 DEF Order!Present, Waiting, Standing

\* One entry moves, or none.
LEMMA OneMoves ==
  ASSUME NEW e \in Entries, NEW to, Standing(e)' = to,
         \A f \in Entries \ {e} : Standing(f)' = Standing(f)
  PROVE  Order!Move(e, to)
BY DEF Order!Move

LEMMA NobodyMoves ==
  ASSUME \A f \in Entries : Standing(f)' = Standing(f)
  PROVE  [f \in Entries |-> Standing(f)]' = [f \in Entries |-> Standing(f)]
OBVIOUS

\* Nothing of a turn depends on how far a submission is before it reads the highest position.
LEMMA BeforeTurn ==
  ASSUME TypeOK, NEW e \in Entries, BeforeInsert(e), ~ReadMaxPosition(e)
  PROVE  UNCHANGED Order!vars
<1>1. UNCHANGED <<status, lock, ahead>> /\ stage'[e] \notin {"insert", "done", "failed"}
  BY BeforeTurnKeeps
<1>2. stage[e] \notin {"insert", "done", "failed"} /\ \A f \in Entries \ {e} : stage'[f] = stage[f]
  BY BeforeInsertKeepsRows
<1>3. Turn' = Turn
  BY <1>1, <1>2 DEF Turn
<1>4. \A f \in Entries : Standing(f)' = Standing(f)
  BY <1>1 DEF Standing, Locked
<1> QED
  BY <1>1, <1>3, <1>4, NobodyMoves DEF Order!vars

\* Nor on whether the row is inserted after that.
LEMMA TurnWithoutRow ==
  ASSUME TypeOK, NEW e \in Entries, SubmissionFails(e), stage[e] = "insert"
  PROVE  UNCHANGED Order!vars
<1>1. UNCHANGED <<status, lock, ahead>> /\ stage' = [stage EXCEPT ![e] = "failed"]
  BY InsertFails
<1>2. Turn' = Turn
  BY <1>1 DEF Turn, TypeOK
<1>3. \A f \in Entries : Standing(f)' = Standing(f)
  BY <1>1 DEF Standing, Locked
<1> QED
  BY <1>1, <1>2, <1>3, NobodyMoves DEF Order!vars

\* The turn is taken with the reading of the highest position.
LEMMA TakesTurn ==
  ASSUME TypeOK, RowInv, NEW e \in Entries, ReadMaxPosition(e)
  PROVE  Order!TakeTurn(e)
<1>1. /\ UNCHANGED <<status, lock>>
      /\ stage[e] = "max" /\ stage'[e] = "insert"
      /\ \A f \in Entries \ {e} : stage'[f] = stage[f]
      /\ ahead' = [ahead EXCEPT ![e] = Waiting]
  BY DEF ReadMaxPosition, Goto, TypeOK, rowVars
<1>2. e \notin Turn /\ Turn' = Turn \cup {e}
  BY <1>1 DEF Turn
<1>3. \A f \in Entries : Standing(f)' = Standing(f)
  BY <1>1 DEF Standing, Locked
<1> QED
  BY <1>1, <1>2, <1>3, NobodyMoves, StandingIsWaiting DEF Order!TakeTurn

\* The row that is inserted asks, or is granted at once.
LEMMA InsertsTurn ==
  ASSUME TypeOK, RowInv, NEW e \in Entries, AddToQueue(e)
  PROVE  Order!Ask(e) \/ Order!Grant(e)
<1>1. /\ stage[e] = "insert" /\ stage'[e] = "done"
      /\ \A f \in Entries \ {e} : stage'[f] = stage[f] /\ status'[f] = status[f]
      /\ status'[e] \in {"pending", "approved"}
      /\ UNCHANGED <<lock, ahead>>
  BY DEF AddToQueue, Goto, TypeOK
<1>2. status[e] = "none" /\ ~Locked(e)
  BY <1>1, StandingIsWaiting DEF RowInv
<1>3. e \in Turn /\ Turn' = Turn
  BY <1>1 DEF Turn
<1>4. \A f \in Entries \ {e} : Standing(f)' = Standing(f)
  BY <1>1 DEF Standing, Locked
<1>5. /\ Standing(e) = "out"
      /\ Standing(e)' = IF status'[e] = "pending" THEN "asking" ELSE "queued"
  BY <1>1, <1>2 DEF Standing, Locked
<1>6. CASE status'[e] = "pending"
  BY <1>1, <1>3, <1>4, <1>5, <1>6, OneMoves DEF Order!Ask
<1>7. CASE status'[e] = "approved"
  BY <1>1, <1>3, <1>4, <1>5, <1>7, OneMoves DEF Order!Grant
<1> QED
  BY <1>1, <1>6, <1>7

LEMMA ApprovalGrants ==
  ASSUME TypeOK, RowInv, NEW e \in Entries, Approve(e)
  PROVE  Order!Grant(e) \/ UNCHANGED Order!vars
<1>1. /\ status[e] # "none" /\ ~Locked(e)
      /\ status' = [status EXCEPT ![e] = "approved"]
      /\ UNCHANGED <<stage, lock, ahead>>
  BY DEF Approve, handlerVars
<1>2. e \in Turn /\ Turn' = Turn
  BY <1>1 DEF Turn, RowInv
<1>3. /\ \A f \in Entries \ {e} : Standing(f)' = Standing(f)
      /\ Standing(e)' = "queued" /\ Standing(e) \in {"out", "asking", "queued"}
  BY <1>1 DEF Standing, Locked, TypeOK
<1>4. CASE Standing(e) = "queued"
  BY <1>1, <1>2, <1>3, <1>4, NobodyMoves DEF Order!vars
<1>5. CASE Standing(e) # "queued"
  BY <1>1, <1>2, <1>3, <1>5, OneMoves DEF Order!Grant
<1> QED
  BY <1>4, <1>5

\* Who is rejected without waiting is in front of nobody.
LEMMA RejectionRejects ==
  ASSUME TypeOK, RowInv, AheadInv, NEW e \in Entries, Reject(e)
  PROVE  Order!Reject(e) \/ UNCHANGED Order!vars
<1>1. /\ ~Locked(e) /\ status' = [status EXCEPT ![e] = "rejected"]
      /\ UNCHANGED <<stage, lock>>
      /\ ahead' = [f \in Entries |-> ahead[f] \ {e}]
  BY DEF Reject, handlerVars, NoLongerAhead
<1>2. Turn' = Turn
  BY <1>1 DEF Turn
<1>3. /\ \A f \in Entries \ {e} : Standing(f)' = Standing(f)
      /\ Standing(e)' = "out" /\ Standing(e) \in {"out", "asking", "queued"}
  BY <1>1 DEF Standing, Locked, TypeOK
<1>4. CASE Standing(e) = "out"
  <2>1. e \notin Waiting
    BY <1>1, <1>4 DEF Waiting, Standing
  <2>2. ahead' = ahead
    BY <1>1, <2>1 DEF AheadInv, TypeOK
  <2> QED
    BY <1>2, <1>3, <1>4, <2>2, NobodyMoves DEF Order!vars
<1>5. CASE Standing(e) # "out"
  BY <1>1, <1>2, <1>3, <1>5, OneMoves DEF Order!Reject, Order!Out
<1> QED
  BY <1>4, <1>5

\* Whoever is called has the lowest position of those that may be, hence (AheadInv) nobody who
\* is ahead of it is left to be called.
LEMMA SelectionCalls ==
  ASSUME TypeOK, RowInv, AheadInv, NEW p \in Poppers, SelectNext(p)
  PROVE  \E e \in Entries : Order!Call(e)
<1>1. PICK e \in Entries :
        /\ status[e] = "approved" /\ ~Locked(e)
        /\ \A f \in Entries : status[f] = "approved" /\ ~Locked(f) => position[e] <= position[f]
        /\ lock' = [lock EXCEPT ![p] = e]
  BY DEF SelectNext
<1>2. /\ lock[p] = NoEntry
      /\ UNCHANGED <<status, stage, ahead>>
  BY DEF SelectNext, rowVars, handlerVars, historyVars
<1>3. \A f \in Entries \ {e} : Locked(f)' <=> Locked(f)
  BY <1>1, <1>2, ConstantsOK DEF Locked, TypeOK
<1>4. Locked(e)'
  BY <1>1 DEF Locked, TypeOK
<1>5. /\ Standing(e) = "queued" /\ Standing(e)' = "called"
      /\ \A f \in Entries \ {e} : Standing(f)' = Standing(f)
  BY <1>1, <1>2, <1>3, <1>4 DEF Standing
<1>6. ASSUME NEW f \in ahead[e], Standing(f) = "queued" PROVE FALSE
  <2>1. f \in Entries /\ stage[e] = "done"
    BY <1>1 DEF RowInv, TypeOK
  <2>2. position[f] < position[e] /\ position[f] \in Nat /\ position[e] \in Nat
    BY <2>1 DEF AheadInv, TypeOK
  <2>3. position[e] <= position[f]
    BY <1>1, <1>6, <2>1 DEF Standing
  <2> QED
    BY <2>2, <2>3
<1>7. \A f \in ahead[e] : f \in Entries
  BY DEF TypeOK
<1> QED
  BY <1>2, <1>5, <1>6, <1>7, OneMoves DEF Order!Call, Turn

\* A transaction that ends frees its own row and no other, since no other holds that row.
LEMMA EndFreesRow ==
  ASSUME TypeOK, RowInv, NEW p \in Poppers, NEW e \in Entries, lock[p] = e,
         lock' = [lock EXCEPT ![p] = NoEntry]
  PROVE  /\ Standing(e) = "called" /\ status[e] = "approved" /\ ~Locked(e)'
         /\ \A f \in Entries \ {e} : Locked(f)' <=> Locked(f)
<1>1. e # NoEntry
  BY ConstantsOK
<1>2. \A q \in Poppers \ {p} : lock'[q] = lock[q] /\ lock[q] # e
  BY <1>1 DEF RowInv, TypeOK
<1>3. lock'[p] = NoEntry
  BY DEF TypeOK
<1>4. ~Locked(e)'
  BY <1>1, <1>2, <1>3 DEF Locked
<1>5. \A f \in Entries \ {e} : Locked(f)' <=> Locked(f)
  BY <1>2, <1>3, ConstantsOK DEF Locked
<1> QED
  BY <1>1, <1>4, <1>5 DEF Standing, Locked, RowInv

LEMMA CommitPlays ==
  ASSUME TypeOK, RowInv, NEW p \in Poppers, CommitPlayed(p)
  PROVE  \E e \in Entries : Order!Play(e)
<1>1. PICK e \in Entries : e = lock[p]
  BY DEF CommitPlayed, TypeOK
<1>2. /\ lock' = [lock EXCEPT ![p] = NoEntry]
      /\ status' = [status EXCEPT ![e] = "played"]
      /\ stage' = stage
      /\ ahead' = [f \in Entries |-> ahead[f] \ {e}]
  BY <1>1 DEF CommitPlayed, NoLongerAhead, handlerVars
<1>3. /\ Standing(e) = "called" /\ ~Locked(e)'
      /\ \A f \in Entries \ {e} : Locked(f)' <=> Locked(f)
  BY <1>1, <1>2, EndFreesRow
<1>4. /\ status'[e] = "played"
      /\ \A f \in Entries \ {e} : status'[f] = status[f]
  BY <1>2 DEF TypeOK
<1>5. Standing(e)' = "out" /\ \A f \in Entries \ {e} : Standing(f)' = Standing(f)
  BY <1>3, <1>4 DEF Standing
<1>6. Turn' = Turn
  BY <1>2 DEF Turn
<1>7. Order!Move(e, "out")
  BY <1>5, OneMoves
<1> QED
  BY <1>2, <1>3, <1>6, <1>7 DEF Order!Play, Order!Out

LEMMA RollbackPutsBack ==
  ASSUME TypeOK, RowInv, NEW p \in Poppers, Rollback(p)
  PROVE  \E e \in Entries : Order!PutBack(e)
<1>1. PICK e \in Entries : e = lock[p]
  BY DEF Rollback, TypeOK
<1>2. lock' = [lock EXCEPT ![p] = NoEntry] /\ UNCHANGED <<status, stage, ahead>>
  BY DEF Rollback, rowVars, handlerVars, historyVars
<1>3. /\ Standing(e) = "called" /\ status[e] = "approved" /\ ~Locked(e)'
      /\ \A f \in Entries \ {e} : Locked(f)' <=> Locked(f)
  BY <1>1, <1>2, EndFreesRow
<1>4. Standing(e)' = "queued" /\ \A f \in Entries \ {e} : Standing(f)' = Standing(f)
  BY <1>2, <1>3 DEF Standing
<1>5. Turn' = Turn
  BY <1>2 DEF Turn
<1>6. Order!Move(e, "queued")
  BY <1>4, OneMoves
<1> QED
  BY <1>2, <1>3, <1>5, <1>6 DEF Order!PutBack

LEMMA TurnsStep ==
  TypeOK /\ RowInv /\ AheadInv /\ [Next]_vars => [Order!Next]_(Order!vars)
<1> SUFFICES ASSUME TypeOK, RowInv, AheadInv, [Next]_vars
             PROVE  Order!Next \/ UNCHANGED Order!vars
  OBVIOUS
<1>1. ASSUME NEW e \in Entries, BeforeInsert(e) PROVE Order!Next \/ UNCHANGED Order!vars
  BY <1>1, BeforeTurn, TakesTurn DEF Order!Next
<1>2. ASSUME NEW e \in Entries, AddToQueue(e) PROVE Order!Next
  BY <1>2, InsertsTurn DEF Order!Next
<1>3. ASSUME NEW e \in Entries, Approve(e) PROVE Order!Next \/ UNCHANGED Order!vars
  BY <1>3, ApprovalGrants DEF Order!Next
<1>4. ASSUME NEW e \in Entries, Reject(e) PROVE Order!Next \/ UNCHANGED Order!vars
  BY <1>4, RejectionRejects DEF Order!Next
<1>5. ASSUME NEW p \in Poppers, Pop(p) PROVE Order!Next
  BY <1>5, SelectionCalls, CommitPlays, RollbackPutsBack DEF Pop, Order!Next
<1>6. CASE UNCHANGED vars \/ \E p \in Policies : SetPolicy(p)
  <2>1. UNCHANGED <<status, stage, lock, ahead>>
    BY <1>6 DEF vars, SetPolicy, rowVars, handlerVars, historyVars
  <2>2. Turn' = Turn /\ \A f \in Entries : Standing(f)' = Standing(f)
    BY <2>1 DEF Turn, Standing, Locked
  <2> QED
    BY <2>1, <2>2, NobodyMoves DEF Order!vars
<1>7. ASSUME NEW e \in Entries, SubmissionFails(e), stage[e] = "insert"
      PROVE  UNCHANGED Order!vars
  BY <1>7, TurnWithoutRow
<1> QED
  BY <1>1, <1>2, <1>3, <1>4, <1>5, <1>6, <1>7 DEF Next, Submission, BeforeInsert

LEMMA TurnsInit == Init => Order!Init
<1> SUFFICES ASSUME Init PROVE Order!Init
  OBVIOUS
<1>1. Turn = {} /\ \A e \in Entries : ~Locked(e) /\ Standing(e) = "out"
  BY ConstantsOK DEF Init, Turn, Standing, Locked
<1> QED
  BY <1>1 DEF Init, Order!Init

\* The queue keeps its turns, though positions repeat, rows appear long after their turn was
\* taken, and any number of transactions pop at once: an entry is called only when nobody
\* approved is left in front of it, and played once for each time it is granted (AddToQueue,
\* PopNextTrack, UpdateQueueEntryStatus).
THEOREM TurnsKept == Spec => KeepsTheTurns
<1>1. Init => AheadInv
  BY DEF Init, AheadInv
<1> QED
  BY <1>1, TypeCorrect, RowInvInit, RowInvStep, AheadInvStep, TurnsInit, TurnsStep, PTL
     DEF Spec, KeepsTheTurns, Order!Spec

-----------------------------------------------------------------------------
(* What the inboundLoops owe to the quota *)

\* The rows of e's session that wait.
Quota(e) == Cardinality(OfSession(e) \cap Waiting)

\* Submissions that have been taken on and have not ended; those that have been let through.
UnderWay(e)   == stage[e] \notin {"new"} \cup Ended
LetThrough(e) == stage[e] \in {"policy", "max", "insert"}
Handled(e)    == \E l \in Loops : loop[l] = e

\* An inboundLoop is busy with each submission that is under way; once that has been counted,
\* its session has room for it until it is inserted, unless another loop has added to it.
Fits(e) == LetThrough(e) /\ OfSession(e) \subseteq OverWS => Quota(e) < Cap
CapInv ==
    /\ IsFiniteSet(Waiting)
    /\ \A e \in OverWS : UnderWay(e) => Handled(e)
    /\ \A e \in OverWS \ (ByDJ \cup failed \cup crossed) : Fits(e)

LEMMA QuotaTyped ==
  ASSUME CapInv, NEW e \in Entries
  PROVE  Quota(e) \in Nat
BY FS_Subset, FS_CardinalityType DEF CapInv, Quota

\* A quota does not grow when none of the session's rows begins to wait.
LEMMA QuotaShrinks ==
  ASSUME CapInv, NEW e \in Entries, OfSession(e) \cap Waiting' \subseteq Waiting
  PROVE  Quota(e)' \in Nat /\ Quota(e)' <= Quota(e)
<1> DEFINE S == OfSession(e) \cap Waiting
           T == OfSession(e) \cap Waiting'
<1>1. IsFiniteSet(S) /\ T \subseteq S
  BY FS_Subset DEF CapInv
<1>2. IsFiniteSet(T) /\ Cardinality(T) <= Cardinality(S) /\ Cardinality(T) \in Nat
  BY <1>1, FS_Subset, FS_CardinalityType
<1> QED
  BY <1>2 DEF Quota, OfSession

LEMMA FitsStays ==
  ASSUME CapInv, NEW e \in Entries, Fits(e),
         OfSession(e) \subseteq OverWS => OfSession(e) \cap Waiting' \subseteq Waiting,
         stage'[e] = stage[e]
  PROVE  Fits(e)'
<1> SUFFICES ASSUME LetThrough(e)', OfSession(e)' \subseteq OverWS PROVE Quota(e)' < Cap
  BY DEF Fits
<1>1. LetThrough(e) /\ OfSession(e) \subseteq OverWS
  BY DEF LetThrough, OfSession
<1>2. Quota(e) < Cap /\ Quota(e) \in Nat
  BY <1>1, QuotaTyped DEF Fits
<1>3. Quota(e)' \in Nat /\ Quota(e)' <= Quota(e)
  BY <1>1, QuotaShrinks
<1> QED
  BY <1>2, <1>3, ConstantsOK

\* A step that inserts nothing, and takes no submission on or ends it.
LEMMA CapUndisturbed ==
  ASSUME TypeOK, CapInv, Waiting' \subseteq Waiting, UNCHANGED <<stage, loop, failed, crossed>>
  PROVE  CapInv'
<1>1. IsFiniteSet(Waiting')
  BY FS_Subset DEF CapInv
<1>2. \A e \in OverWS : UnderWay(e)' => Handled(e)'
  BY DEF CapInv, UnderWay, Handled
<1>3. ASSUME NEW e \in OverWS \ (ByDJ \cup failed \cup crossed) PROVE Fits(e)'
  <2>1. e \in Entries /\ Fits(e)
    BY <1>3, ConstantsOK DEF CapInv
  <2> QED
    BY <2>1, FitsStays
<1> QED
  BY <1>1, <1>2, <1>3 DEF CapInv

\* The handler of e goes on while no row changes; if it gets past the count, there is room.
LEMMA CapHandler ==
  ASSUME TypeOK, CapInv, NEW e \in Entries, BeforeInsert(e),
         failed \subseteq failed',
         e \in OverWS \ (ByDJ \cup failed' \cup crossed) /\ LetThrough(e)'
            /\ OfSession(e) \subseteq OverWS => Quota(e) < Cap,
         e \in OverWS /\ UnderWay(e)' => Handled(e)',
         \A f \in OverWS \ {e} : Handled(f) => Handled(f)'
  PROVE  CapInv'
<1>1. UNCHANGED <<status, crossed>> /\ \A f \in Entries \ {e} : stage'[f] = stage[f]
  BY BeforeInsertKeepsRows
<1>2. Waiting' = Waiting
  BY <1>1 DEF Waiting
<1>3. \A f \in Entries : Quota(f)' = Quota(f) /\ OfSession(f)' = OfSession(f)
  BY <1>2 DEF Quota, OfSession
<1>4. ASSUME NEW f \in OverWS, UnderWay(f)' PROVE Handled(f)'
  <2>1. CASE f = e
    BY <1>4, <2>1
  <2>2. CASE f # e
    <3>1. f \in Entries /\ UnderWay(f)
      BY <1>1, <1>4, <2>2, ConstantsOK DEF UnderWay
    <3> QED
      BY <2>2, <3>1 DEF CapInv
  <2> QED
    BY <2>1, <2>2
<1>5. ASSUME NEW f \in OverWS \ (ByDJ \cup failed' \cup crossed') PROVE Fits(f)'
  <2>1. CASE f = e
    BY <1>1, <1>3, <1>5, <2>1 DEF Fits
  <2>2. CASE f # e
    <3>1. f \in Entries /\ Fits(f) /\ stage'[f] = stage[f]
      BY <1>1, <1>5, <2>2, ConstantsOK DEF CapInv
    <3> QED
      BY <1>3, <3>1 DEF Fits, LetThrough
  <2> QED
    BY <2>1, <2>2
<1> QED
  BY <1>2, <1>4, <1>5 DEF CapInv

\* A handler that goes on keeps its loop; one that ends frees it, and no other.
LEMMA LoopGoesOn ==
  ASSUME TypeOK, NEW e \in Entries, NEW s \in Stages, Goto(e, s), Handled(e) \/ s \in Ended
  PROVE  /\ stage'[e] = s
         /\ UnderWay(e)' => Handled(e)'
         /\ \A f \in Entries \ {e} : Handled(f) => Handled(f)'
<1>1. stage'[e] = s
  BY DEF Goto, TypeOK
<1>2. \A f \in Entries \ {e} : Handled(f) => Handled(f)'
  BY DEF Goto, Handled
<1>3. CASE s \in Ended
  BY <1>1, <1>2, <1>3 DEF UnderWay, Ended
<1>4. CASE s \notin Ended
  <2>1. Handled(e)'
    BY <1>4 DEF Goto, Handled
  <2> QED
    BY <1>1, <1>2, <2>1
<1> QED
  BY <1>3, <1>4

\* A row of e's session begins to wait: those under way beside it are marked.
LEMMA CapJoins ==
  ASSUME TypeOK, CapInv, NEW e \in Entries, Crosses(e), failed' = failed,
         Waiting' \subseteq Waiting \cup {e},
         stage'[e] \in Ended, \A f \in Entries \ {e} : stage'[f] = stage[f],
         \A f \in Entries \ {e} : Handled(f) => Handled(f)',
         OfSession(e) \subseteq OverWS => e \in OverWS
  PROVE  CapInv'
<1>1. IsFiniteSet(Waiting')
  BY FS_AddElement, FS_Subset DEF CapInv
<1>2. ASSUME NEW f \in OverWS, UnderWay(f)' PROVE Handled(f)'
  <2>1. f \in Entries /\ f # e
    BY <1>2, ConstantsOK DEF UnderWay, Ended
  <2>2. UnderWay(f)
    BY <1>2, <2>1 DEF UnderWay
  <2> QED
    BY <2>1, <2>2 DEF CapInv
<1>3. ASSUME NEW f \in OverWS \ (ByDJ \cup failed' \cup crossed') PROVE Fits(f)'
  <2>1. CASE f = e
    BY <2>1 DEF Fits, LetThrough, Ended
  <2>2. CASE f # e /\ ~LetThrough(f)
    <3>1. ~LetThrough(f)'
      BY <1>3, <2>2, ConstantsOK DEF LetThrough
    <3> QED
      BY <3>1 DEF Fits
  <2>3. CASE f # e /\ LetThrough(f)
    <3>1. f \in Entries /\ UnderWay(f)
      BY <1>3, <2>3, ConstantsOK DEF LetThrough, UnderWay, Ended
    <3>2. Handled(f)
      BY <1>3, <3>1 DEF CapInv
    <3>3. f \notin OfSession(e) /\ f \notin crossed
      BY <1>3, <2>3, <3>1, <3>2 DEF Crosses, Handled
    <3>4. e \notin OfSession(f)
      BY <3>1, <3>3 DEF OfSession
    <3>5. Fits(f)
      BY <1>3, <3>3 DEF CapInv
    <3>6. OfSession(f) \cap Waiting' \subseteq Waiting /\ stage'[f] = stage[f]
      BY <2>3, <3>1, <3>4
    <3> QED
      BY <3>1, <3>5, <3>6, FitsStays
  <2> QED
    BY <2>1, <2>2, <2>3
<1> QED
  BY <1>1, <1>2, <1>3 DEF CapInv

LEMMA CapStep == TypeOK /\ RowInv /\ CapInv /\ [Next]_vars => CapInv'
<1> SUFFICES ASSUME TypeOK, RowInv, CapInv, [Next]_vars PROVE CapInv'
  OBVIOUS
<1>1. ASSUME NEW e \in Entries, SubmitOverWS(e) PROVE CapInv'
  <2>1. PICK l \in Loops : loop[l] = NoEntry /\ loop' = [loop EXCEPT ![l] = e]
    BY <1>1 DEF SubmitOverWS
  <2>2. Handled(e)' /\ \A f \in Entries \ {e} : Handled(f) => Handled(f)'
    BY <2>1, ConstantsOK DEF Handled, TypeOK
  <2>3. stage'[e] = (IF e \in ByDJ THEN "policy" ELSE "count") /\ failed' = failed
    BY <1>1 DEF SubmitOverWS, TypeOK, historyVars, amiss
  <2>4. e \notin ByDJ => ~LetThrough(e)'
    BY <2>3 DEF LetThrough
  <2>5. BeforeInsert(e)
    BY <1>1 DEF BeforeInsert
  <2>6. \A f \in OverWS \ {e} : f \in Entries \ {e}
    BY ConstantsOK
  <2> QED
    BY <2>2, <2>3, <2>4, <2>5, <2>6, CapHandler
<1>2. ASSUME NEW e \in Entries, SubmitOverHTTP(e) PROVE CapInv'
  <2>1. e \notin OverWS /\ BeforeInsert(e) /\ failed' = failed
    BY <1>2 DEF SubmitOverHTTP, BeforeInsert, historyVars, amiss
  <2>2. \A f \in Entries \ {e} : Handled(f) => Handled(f)'
    BY <1>2 DEF SubmitOverHTTP, Goto, Handled
  <2>3. \A f \in OverWS \ {e} : f \in Entries \ {e}
    BY ConstantsOK
  <2> QED
    BY <2>1, <2>2, <2>3, CapHandler
<1>3. ASSUME NEW e \in Entries, NEW s \in Stages, Goto(e, s), BeforeInsert(e), UnderWay(e),
             failed \subseteq failed',
             e \in OverWS \ (ByDJ \cup failed' \cup crossed) /\ s \in {"policy", "max", "insert"}
                /\ OfSession(e) \subseteq OverWS => Quota(e) < Cap
      PROVE  CapInv'
  <2>1. stage'[e] = s /\ \A f \in Entries \ {e} : Handled(f) => Handled(f)'
    BY <1>3 DEF Goto, TypeOK, Handled
  <2>2. e \in OverWS /\ UnderWay(e)' => Handled(e)'
    BY <1>3, LoopGoesOn DEF CapInv
  <2>3. LetThrough(e)' <=> s \in {"policy", "max", "insert"}
    BY <2>1 DEF LetThrough
  <2>4. \A f \in OverWS \ {e} : f \in Entries \ {e}
    BY ConstantsOK
  <2> QED
    BY <1>3, <2>1, <2>2, <2>3, <2>4, CapHandler
<1>4. ASSUME NEW e \in Entries, ReadPolicy(e) PROVE CapInv'
  <2> DEFINE s == IF policy = "closed" /\ e \notin ByDJ THEN "refused"
                  ELSE IF e \in ByDJ \cup OverWS THEN "max" ELSE "count"
  <2>1. s \in Stages /\ Goto(e, s)
    BY <1>4 DEF ReadPolicy, Stages
  <2> HIDE DEF s
  <2>2. /\ stage[e] = "policy" /\ BeforeInsert(e) /\ failed' = failed
        /\ UnderWay(e) /\ LetThrough(e)
    BY <1>4 DEF ReadPolicy, BeforeInsert, UnderWay, LetThrough, Ended, historyVars, amiss
  <2>3. e \in OverWS \ (ByDJ \cup failed \cup crossed) /\ OfSession(e) \subseteq OverWS
          => Quota(e) < Cap
    BY <2>2 DEF CapInv, Fits
  <2> QED
    BY <1>3, <2>1, <2>2, <2>3
<1>5. ASSUME NEW e \in Entries, CountActiveQueueEntriesBySession(e) PROVE CapInv'
  <2> DEFINE s == IF Quota(e) >= Cap THEN "refused" ELSE Counted(e)
  <2>1. s \in Stages /\ Goto(e, s)
    BY <1>5 DEF CountActiveQueueEntriesBySession, Counted, Stages, Quota
  <2>2. Quota(e) \in Nat /\ Cap \in Nat
    BY QuotaTyped, ConstantsOK
  <2>3. s \in {"policy", "max", "insert"} => Quota(e) < Cap
    BY <2>2 DEF Counted
  <2> HIDE DEF s
  <2>4. BeforeInsert(e) /\ failed' = failed /\ UnderWay(e)
    BY <1>5 DEF CountActiveQueueEntriesBySession, BeforeInsert, UnderWay, Ended,
                historyVars, amiss
  <2> QED
    BY <1>3, <2>1, <2>3, <2>4
<1>6. ASSUME NEW e \in Entries, CountFails(e) PROVE CapInv'
  <2>1. Counted(e) \in Stages /\ Goto(e, Counted(e)) /\ failed' = failed \cup {e}
    BY <1>6 DEF CountFails, Counted, Stages
  <2>2. BeforeInsert(e) /\ UnderWay(e)
    BY <1>6 DEF CountFails, BeforeInsert, UnderWay, Ended
  <2> QED
    BY <1>3, <2>1, <2>2
<1>7. ASSUME NEW e \in Entries, ReadMaxPosition(e) PROVE CapInv'
  <2>1. "insert" \in Stages /\ Goto(e, "insert") /\ failed' = failed
    BY <1>7 DEF ReadMaxPosition, Stages, amiss
  <2>2. BeforeInsert(e) /\ UnderWay(e) /\ LetThrough(e)
    BY <1>7 DEF ReadMaxPosition, BeforeInsert, UnderWay, LetThrough, Ended
  <2>3. e \in OverWS \ (ByDJ \cup failed \cup crossed) /\ OfSession(e) \subseteq OverWS
          => Quota(e) < Cap
    BY <2>2 DEF CapInv, Fits
  <2> QED
    BY <1>3, <2>1, <2>2, <2>3
<1>8. ASSUME NEW e \in Entries, SubmissionFails(e), stage[e] # "insert" PROVE CapInv'
  <2>1. "refused" \in Stages /\ Goto(e, "refused") /\ failed' = failed \cup {e}
    BY <1>8 DEF SubmissionFails, Stages
  <2>2. BeforeInsert(e) /\ UnderWay(e)
    BY <1>8 DEF SubmissionFails, BeforeInsert, UnderWay, Ended
  <2> QED
    BY <1>3, <2>1, <2>2
<1>9. ASSUME NEW e \in Entries, SubmissionFails(e), stage[e] = "insert" PROVE CapInv'
  <2>1. /\ UNCHANGED <<status, crossed>> /\ failed' = failed \cup {e}
        /\ stage' = [stage EXCEPT ![e] = "failed"]
        /\ \A f \in Entries \ {e} : Handled(f) => Handled(f)'
    BY <1>9, InsertFails DEF Handled
  <2>2. stage'[e] \in Ended /\ \A f \in Entries \ {e} : stage'[f] = stage[f]
    BY <2>1 DEF Ended, TypeOK
  <2>3. Waiting' = Waiting
    BY <2>1 DEF Waiting
  <2>4. ASSUME NEW f \in OverWS, UnderWay(f)' PROVE Handled(f)'
    <3>1. f \in Entries \ {e} /\ UnderWay(f)
      BY <2>2, <2>4, ConstantsOK DEF UnderWay
    <3> QED
      BY <2>1, <3>1 DEF CapInv
  <2>5. ASSUME NEW f \in OverWS \ (ByDJ \cup failed' \cup crossed') PROVE Fits(f)'
    <3>1. f \in Entries \ {e} /\ Fits(f)
      BY <2>1, <2>5, ConstantsOK DEF CapInv
    <3> QED
      BY <2>2, <2>3, <3>1, FitsStays
  <2> QED
    BY <2>3, <2>4, <2>5 DEF CapInv
<1>10. ASSUME NEW e \in Entries, AddToQueue(e) PROVE CapInv'
  <2>1. /\ Crosses(e) /\ failed' = failed /\ stage'[e] \in Ended
        /\ \A f \in Entries \ {e} : stage'[f] = stage[f] /\ status'[f] = status[f]
        /\ \A f \in Entries \ {e} : Handled(f) => Handled(f)'
    BY <1>10 DEF AddToQueue, Goto, TypeOK, Ended, Handled
  <2>2. Waiting' \subseteq Waiting \cup {e}
    BY <2>1 DEF Waiting
  <2>3. OfSession(e) \subseteq OverWS => e \in OverWS
    BY DEF OfSession
  <2> QED
    BY <2>1, <2>2, <2>3, CapJoins
<1>11. ASSUME NEW e \in Entries, Approve(e) PROVE CapInv'
  <2>1. /\ Crosses(e) /\ failed' = failed /\ UNCHANGED <<stage, loop>>
        /\ status[e] # "none" /\ status' = [status EXCEPT ![e] = "approved"]
    BY <1>11 DEF Approve, handlerVars
  <2>2. stage'[e] \in Ended
    BY <2>1 DEF RowInv, Ended
  <2>3. Waiting' \subseteq Waiting \cup {e}
    BY <2>1 DEF Waiting, TypeOK
  <2>4. \A f \in Entries \ {e} : Handled(f) => Handled(f)'
    BY <2>1 DEF Handled
  <2>5. OfSession(e) \subseteq OverWS => e \in OverWS
    BY DEF OfSession
  <2> QED
    BY <2>1, <2>2, <2>3, <2>4, <2>5, CapJoins
<1>12. ASSUME NEW e \in Entries, Reject(e) PROVE CapInv'
  <2>1. Waiting' \subseteq Waiting /\ UNCHANGED <<stage, loop, failed, crossed>>
    BY <1>12 DEF Reject, Waiting, TypeOK, handlerVars, amiss
  <2> QED
    BY <2>1, CapUndisturbed
<1>13. ASSUME NEW p \in Poppers, Pop(p) PROVE CapInv'
  <2>1. Waiting' \subseteq Waiting /\ UNCHANGED <<stage, loop, failed, crossed>>
    BY <1>13 DEF Pop, SelectNext, CommitPlayed, Rollback, Waiting, TypeOK, rowVars, handlerVars,
                 historyVars, amiss
  <2> QED
    BY <2>1, CapUndisturbed
<1>14. CASE UNCHANGED vars \/ \E p \in Policies : SetPolicy(p)
  <2>1. Waiting' \subseteq Waiting /\ UNCHANGED <<stage, loop, failed, crossed>>
    BY <1>14 DEF vars, SetPolicy, Waiting, rowVars, handlerVars, historyVars, amiss
  <2> QED
    BY <2>1, CapUndisturbed
<1> QED
  BY <1>1, <1>2, <1>4, <1>5, <1>6, <1>7, <1>8, <1>9, <1>10, <1>11, <1>12, <1>13, <1>14
     DEF Next, Submission

LEMMA CapInit == Init => CapInv
<1> SUFFICES ASSUME Init PROVE CapInv
  OBVIOUS
<1>1. Waiting = {}
  BY DEF Init, Waiting
<1>2. \A e \in OverWS : e \in Entries /\ stage[e] = "new"
  BY ConstantsOK DEF Init
<1> QED
  BY <1>1, <1>2, FS_EmptySet DEF CapInv, Fits, UnderWay, LetThrough

\* A session that submits over the WebSocket alone never adds to a full quota, though it is
\* counted three statements before the row is inserted: in between its inboundLoop does nothing
\* else, and who pops only makes room.  The exceptions are the submissions whose count failed,
\* and those beside which the loop of another hub made a row of the session wait
\* (handleInbound, CountActiveQueueEntriesBySession).
THEOREM SubmissionsCapped == Spec => SubmitsWithinCap
<1> DEFINE A == \A e \in Entries \ (ByDJ \cup failed \cup crossed) :
                  OfSession(e) \subseteq OverWS /\ status[e] = "none" /\ status'[e] # "none" =>
                      Cardinality(OfSession(e) \cap Waiting) < Cap
<1>1. TypeOK /\ RowInv /\ CapInv /\ [Next]_vars => [A]_vars
  <2> SUFFICES ASSUME TypeOK, RowInv, CapInv, [Next]_vars,
                      NEW e \in Entries \ (ByDJ \cup failed \cup crossed),
                      OfSession(e) \subseteq OverWS, status[e] = "none", status'[e] # "none"
               PROVE  Quota(e) < Cap
    BY DEF Quota
  <2>1. e \in OverWS
    BY DEF OfSession
  <2>2. ASSUME NEW f \in Entries, f # e, AddToQueue(f) PROVE FALSE
    BY <2>2 DEF AddToQueue, TypeOK
  <2>3. ASSUME NEW p \in Poppers, Pop(p) PROVE FALSE
    BY <2>3 DEF Pop, SelectNext, CommitPlayed, Rollback, RowInv, TypeOK, rowVars
  <2>4. ASSUME NEW f \in Entries, Submission(f), ~AddToQueue(f) PROVE FALSE
    BY <2>4, BeforeInsertKeepsRows, InsertFails DEF Submission, BeforeInsert
  <2>5. AddToQueue(e)
    BY <2>2, <2>3, <2>4 DEF Next, vars, Approve, Reject, SetPolicy, TypeOK, rowVars
  <2>6. LetThrough(e) /\ Fits(e)
    BY <2>1, <2>5 DEF AddToQueue, LetThrough, CapInv
  <2> QED
    BY <2>6 DEF Fits
<1> QED
  BY <1>1, CapInit, CapStep, TypeCorrect, RowInvInit, RowInvStep, PTL DEF Spec, SubmitsWithinCap
=============================================================================
