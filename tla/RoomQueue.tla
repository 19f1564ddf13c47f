----------------------------- MODULE RoomQueue -----------------------------
(***************************************************************************)
(* The request queue of ONE room: rows of queue_entries, and everybody who *)
(* writes them.                                                            *)
(*                                                                         *)
(* A submission reads the room's policy, counts what its session has       *)
(* waiting, reads the highest position and inserts its row, each in a      *)
(* statement of its own, each of which may fail: then the submission is    *)
(* refused, except that a count that fails lets it through.  Those that    *)
(* come over the WebSocket are handled by the hub's inboundLoop one at a   *)
(* time, like the DJ's approvals; but a hub that stops does not wait for   *)
(* its loop, and that of the room's next hub may work beside it.  Those    *)
(* that come over HTTP run concurrently.  PopNextTrack is a transaction    *)
(* that locks the first row it finds unlocked and marks it played; an      *)
(* UPDATE of a locked row waits for the lock.                              *)
(*                                                                         *)
(* The frames about all this are left out, and so is the rate limit, which *)
(* allows ten submissions at once.                                         *)
(***************************************************************************)
EXTENDS Integers, FiniteSets

CONSTANTS Entries, NoEntry,
          Loops,         \* the inboundLoops of the room's hubs, one after the other
          Poppers,       \* goroutines that pop the next track
          Sessions, SessionOf,
          ByDJ,          \* entries the DJ submits
          OverWS,        \* entries submitted over the WebSocket, the others over HTTP
          Cap,           \* tracks a session may have waiting
          Reapproved,    \* entries the DJ approves though they are not pending
          MaxApprovals,  \* bound on the approvals of one entry
          MaxFailures    \* bound on the submissions of which a call fails

ASSUME ConstantsOK ==
    /\ NoEntry \notin Entries /\ SessionOf \in [Entries -> Sessions]
    /\ ByDJ \subseteq Entries /\ OverWS \subseteq Entries
    /\ Cap \in Nat \ {0} /\ Reapproved \subseteq Entries /\ MaxApprovals \in Nat
    /\ MaxFailures \in Nat

VARIABLES
    policy,     \* rooms.request_policy
    status, position,   \* the row of each entry; "none": not inserted
    stage,      \* how far the handler of each submission is
    seen,       \* the policy it read, until its row is inserted
    max,        \* the highest position it read, until then
    loop,       \* the submission each inboundLoop is handling
    lock,       \* per popper: the row its transaction has locked
    plays, approvals,   \* history: how often each entry was popped and approved
    ahead,      \* history: entries that waited when this one's position was taken, and
                \* have waited ever since
    failed,     \* history: submissions of which a call failed
    crossed     \* history: submissions under way in one inboundLoop when another one made a
                \* row of the same session wait

rowVars     == <<status, position>>
handlerVars == <<stage, seen, max, loop>>
amiss       == <<failed, crossed>>
historyVars == <<plays, approvals, ahead, amiss>>
vars == <<policy, rowVars, handlerVars, lock, historyVars>>

Policies == {"open", "approval", "closed"}
Stages   == {"new", "policy", "count", "max", "insert", "done", "refused", "failed"}

TypeOK ==
    /\ policy \in Policies
    /\ status \in [Entries -> {"none", "pending", "approved", "rejected", "played"}]
    /\ position \in [Entries -> Nat]
    /\ stage \in [Entries -> Stages]
    /\ seen \in [Entries -> Policies] /\ max \in [Entries -> Nat]
    /\ loop \in [Loops -> Entries \cup {NoEntry}]
    /\ lock \in [Poppers -> Entries \cup {NoEntry}]
    /\ plays \in [Entries -> Nat] /\ approvals \in [Entries -> Nat]
    /\ ahead \in [Entries -> SUBSET Entries]
    /\ failed \subseteq Entries /\ crossed \subseteq Entries

Init ==
    /\ policy = "open"
    /\ status = [e \in Entries |-> "none"] /\ position = [e \in Entries |-> 0]
    /\ stage = [e \in Entries |-> "new"]
    /\ seen = [e \in Entries |-> "open"] /\ max = [e \in Entries |-> 0]
    /\ loop = [l \in Loops |-> NoEntry]
    /\ lock = [p \in Poppers |-> NoEntry]
    /\ plays = [e \in Entries |-> 0] /\ approvals = [e \in Entries |-> 0]
    /\ ahead = [e \in Entries |-> {}]
    /\ failed = {} /\ crossed = {}

-----------------------------------------------------------------------------
Waiting == {e \in Entries : status[e] \in {"pending", "approved"}}
OfSession(e) == {f \in Entries : SessionOf[f] = SessionOf[e]}
Locked(e) == \E p \in Poppers : lock[p] = e

\* The handler of e goes on; its inboundLoop is free again when it ends.
Ended == {"done", "refused", "failed"}
Goto(e, s) ==
    /\ stage' = [stage EXCEPT ![e] = s]
    /\ loop' = [l \in Loops |-> IF loop[l] = e /\ s \in Ended THEN NoEntry ELSE loop[l]]

\* An inboundLoop that has nothing at hand takes the DJ's next action.
LoopIsFree == \E l \in Loops : loop[l] = NoEntry

\* History: a row of e's session begins to wait while others of it are handled.
Crosses(e) == crossed' = (crossed \cup {f \in OfSession(e) : \E l \in Loops : loop[l] = f}) \ {e}

\* History: e does not wait any more.
NoLongerAhead(e) == ahead' = [f \in Entries |-> ahead[f] \ {e}]

-----------------------------------------------------------------------------
(* Submissions *)

\* The inboundLoop counts before it reads the policy, the HTTP handler afterwards; the DJ
\* is not counted.
SubmitOverWS(e) ==
    /\ e \in OverWS /\ stage[e] = "new"
    /\ stage' = [stage EXCEPT ![e] = IF e \in ByDJ THEN "policy" ELSE "count"]
    /\ \E l \in Loops : loop[l] = NoEntry /\ loop' = [loop EXCEPT ![l] = e]
    /\ UNCHANGED <<policy, rowVars, seen, max, lock, historyVars>>

SubmitOverHTTP(e) ==
    /\ e \notin OverWS /\ stage[e] = "new"
    /\ Goto(e, "policy")
    /\ UNCHANGED <<policy, rowVars, seen, max, lock, historyVars>>

ReadPolicy(e) ==
    /\ stage[e] = "policy"
    /\ seen' = [seen EXCEPT ![e] = policy]
    /\ Goto(e, IF policy = "closed" /\ e \notin ByDJ THEN "refused"
               ELSE IF e \in ByDJ \cup OverWS THEN "max" ELSE "count")
    /\ UNCHANGED <<policy, rowVars, max, lock, historyVars>>

\* Where the count lets a submission through to.
Counted(e) == IF e \in OverWS THEN "policy" ELSE "max"

\* Mutant: approved entries do not count.
CountsPending(e) ==
    /\ stage[e] = "count"
    /\ Goto(e, IF Cardinality({f \in OfSession(e) : status[f] = "pending"}) >= Cap
               THEN "refused" ELSE Counted(e))
    /\ UNCHANGED <<policy, rowVars, seen, max, lock, historyVars>>

CountActiveQueueEntriesBySession(e) ==
    /\ stage[e] = "count"
    /\ Goto(e, IF Cardinality(OfSession(e) \cap Waiting) >= Cap THEN "refused" ELSE Counted(e))
    /\ UNCHANGED <<policy, rowVars, seen, max, lock, historyVars>>

\* err == nil && n >= 10: a count that fails refuses nothing.
CountFails(e) ==
    /\ stage[e] = "count" /\ Cardinality(failed) < MaxFailures
    /\ Goto(e, Counted(e))
    /\ failed' = failed \cup {e}
    /\ UNCHANGED <<policy, rowVars, seen, max, lock, plays, approvals, ahead, crossed>>

\* Mutant: the maximum of the approved entries only.
ReadsMaxApproved(e) ==
    /\ stage[e] = "max"
    /\ \E m \in {0} \cup {position[f] : f \in Entries} :
         /\ \A f \in Entries : status[f] = "approved" => position[f] <= m
         /\ m = 0 \/ \E f \in Entries : status[f] = "approved" /\ position[f] = m
         /\ max' = [max EXCEPT ![e] = m]
    /\ ahead' = [ahead EXCEPT ![e] = Waiting]
    /\ Goto(e, "insert")
    /\ UNCHANGED <<policy, rowVars, seen, lock, plays, approvals, amiss>>

\* AddToQueue reads the maximum, then inserts.
ReadMaxPosition(e) ==
    /\ stage[e] = "max"
    /\ \E m \in {0} \cup {position[f] : f \in Waiting} :
         /\ \A f \in Waiting : position[f] <= m
         /\ max' = [max EXCEPT ![e] = m]
    /\ ahead' = [ahead EXCEPT ![e] = Waiting]
    /\ Goto(e, "insert")
    /\ UNCHANGED <<policy, rowVars, seen, lock, plays, approvals, amiss>>

\* Mutant: the row takes the policy's name as its status.
InsertsPolicy(e) ==
    /\ stage[e] = "insert"
    /\ position' = [position EXCEPT ![e] = max[e] + 1]
    /\ status' = [status EXCEPT ![e] = IF e \in ByDJ THEN "approved" ELSE seen[e]]
    /\ approvals' = [approvals EXCEPT ![e] = @ + 1]
    /\ seen' = [seen EXCEPT ![e] = "open"] /\ max' = [max EXCEPT ![e] = 0]
    /\ Crosses(e)
    /\ Goto(e, "done")
    /\ UNCHANGED <<policy, lock, plays, ahead, failed>>

AddToQueue(e) ==
    /\ stage[e] = "insert"
    /\ position' = [position EXCEPT ![e] = max[e] + 1]
    /\ IF seen[e] = "approval" /\ e \notin ByDJ
       THEN status' = [status EXCEPT ![e] = "pending"] /\ UNCHANGED approvals
       ELSE /\ status' = [status EXCEPT ![e] = "approved"]
            /\ approvals' = [approvals EXCEPT ![e] = @ + 1]
    /\ seen' = [seen EXCEPT ![e] = "open"] /\ max' = [max EXCEPT ![e] = 0]
    /\ Crosses(e)
    /\ Goto(e, "done")
    /\ UNCHANGED <<policy, lock, plays, ahead, failed>>

\* The room is not found, the track is not saved, the highest position is not read: nothing
\* is left of the submission.  Or its row is not inserted, though its position was read.
SubmissionFails(e) ==
    /\ stage[e] \in {"policy", "max", "insert"} /\ Cardinality(failed) < MaxFailures
    /\ Goto(e, IF stage[e] = "insert" THEN "failed" ELSE "refused")
    /\ failed' = failed \cup {e}
    /\ UNCHANGED <<policy, rowVars, seen, max, lock, plays, approvals, ahead, crossed>>

-----------------------------------------------------------------------------
(* The DJ's actions, in an inboundLoop *)

SetPolicy(p) ==
    /\ LoopIsFree
    /\ policy' = p
    /\ UNCHANGED <<rowVars, handlerVars, lock, historyVars>>

\* UpdateQueueEntryStatus, whatever the status was; a locked row makes it wait.
Approve(e) ==
    /\ LoopIsFree /\ ~Locked(e)
    /\ status[e] # "none" /\ (e \in Reapproved \/ status[e] = "pending")
    /\ approvals[e] < MaxApprovals
    /\ status' = [status EXCEPT ![e] = "approved"]
    /\ approvals' = [approvals EXCEPT ![e] = @ + 1]
    /\ Crosses(e)
    /\ UNCHANGED <<policy, position, handlerVars, lock, plays, ahead, failed>>

Reject(e) ==
    /\ LoopIsFree /\ ~Locked(e)
    /\ status[e] # "none"
    /\ status' = [status EXCEPT ![e] = "rejected"]
    /\ NoLongerAhead(e)
    /\ UNCHANGED <<policy, position, handlerVars, lock, plays, approvals, amiss>>

-----------------------------------------------------------------------------
(* PopNextTrack *)

\* Mutant: no FOR UPDATE.
SelectsUnlocked(p) ==
    /\ lock[p] = NoEntry
    /\ \E e \in Entries :
         /\ status[e] = "approved"
         /\ \A f \in Entries : status[f] = "approved" => position[e] <= position[f]
         /\ lock' = [lock EXCEPT ![p] = e]
    /\ UNCHANGED <<policy, rowVars, handlerVars, historyVars>>

\* ORDER BY position, LIMIT 1, FOR UPDATE SKIP LOCKED; rows of one position in any order.
SelectNext(p) ==
    /\ lock[p] = NoEntry
    /\ \E e \in Entries :
         /\ status[e] = "approved" /\ ~Locked(e)
         /\ \A f \in Entries : status[f] = "approved" /\ ~Locked(f) => position[e] <= position[f]
         /\ lock' = [lock EXCEPT ![p] = e]
    /\ UNCHANGED <<policy, rowVars, handlerVars, historyVars>>

CommitPlayed(p) ==
    LET e == lock[p] IN
    /\ e # NoEntry
    /\ status' = [status EXCEPT ![e] = "played"]
    /\ lock' = [lock EXCEPT ![p] = NoEntry]
    /\ plays' = [plays EXCEPT ![e] = @ + 1]
    /\ NoLongerAhead(e)
    /\ UNCHANGED <<policy, position, handlerVars, approvals, amiss>>

Rollback(p) ==
    /\ lock[p] # NoEntry
    /\ lock' = [lock EXCEPT ![p] = NoEntry]
    /\ UNCHANGED <<policy, rowVars, handlerVars, historyVars>>

-----------------------------------------------------------------------------
Submission(e) == \/ SubmitOverWS(e) \/ SubmitOverHTTP(e) \/ ReadPolicy(e)
                 \/ CountActiveQueueEntriesBySession(e) \/ CountFails(e)
                 \/ ReadMaxPosition(e) \/ AddToQueue(e) \/ SubmissionFails(e)
Pop(p) == SelectNext(p) \/ CommitPlayed(p) \/ Rollback(p)

Next == \/ \E e \in Entries : Submission(e) \/ Approve(e) \/ Reject(e)
        \/ \E p \in Poppers : Pop(p)
        \/ \E p \in Policies : SetPolicy(p)

Spec == Init /\ [][Next]_vars

-----------------------------------------------------------------------------
\* Nothing is played more often than it was approved, by policy or by the DJ: goroutines
\* that pop at the same time (a timer and dj_skip) never start the same entry.
AtMostOncePerApproval == \A e \in Entries : plays[e] <= approvals[e]

\* Whoever waited when a later submission took its position plays before it, as long as
\* it keeps waiting: a later entry is only taken when all approved earlier ones are being
\* taken already, whatever was pending, approved or inserted concurrently in between.
PlaysInOrder ==
    [][\A p \in Poppers : \A f \in Entries : lock[p] # f /\ lock'[p] = f =>
         \A e \in ahead[f] : status[e] = "approved" => Locked(e)]_vars

\* A session that only submits over the WebSocket never adds to a full quota, although the
\* count is taken long before the insert: whatever the DJ approves, rejects or approves
\* again, its inboundLoop does nothing else in between.  Only a count that failed, and the
\* loop of another hub of the room that made a row of the session wait in between, let one
\* more in.
SubmitsWithinCap ==
    [][\A e \in Entries \ (ByDJ \cup failed \cup crossed) :
         OfSession(e) \subseteq OverWS /\ status[e] = "none" /\ status'[e] # "none" =>
             Cardinality(OfSession(e) \cap Waiting) < Cap]_vars
-----------------------------------------------------------------------------
(* Refinement *)

\* All this implements the turns of Turns.tla.  A turn is taken when the highest position is
\* read, though the row that shows it comes later, or never, and may share its number; an
\* entry is called when a transaction has locked its row.
Turn == {e \in Entries : stage[e] \in {"insert", "done", "failed"}}
Standing(e) == IF Locked(e) THEN "called"
               ELSE IF status[e] = "approved" THEN "queued"
               ELSE IF status[e] = "pending" THEN "asking" ELSE "out"
Order == INSTANCE Turns WITH
             taken <- Turn, place <- [e \in Entries |-> Standing(e)], before <- ahead
KeepsTheTurns == Order!Spec
=============================================================================
