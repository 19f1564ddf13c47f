------------------------------- MODULE Turns -------------------------------
(***************************************************************************)
(* What the request queue of ONE room promises to those who submit, with   *)
(* no word of positions, locks or policies: everybody takes a turn once    *)
(* and keeps it; one approval is good for one play; and nobody is called   *)
(* while somebody approved, who took an earlier turn and has waited ever   *)
(* since, has not been called.                                             *)
(***************************************************************************)
CONSTANT Entries

VARIABLES
    taken,    \* who has taken a turn
    place,    \* where each stands: "out", "asking", "queued" (approved) or "called"
    before    \* whom each found waiting when it took its turn, and who waits still

vars == <<taken, place, before>>

Present == {e \in Entries : place[e] # "out"}

Init ==
    /\ taken = {}
    /\ place = [e \in Entries |-> "out"]
    /\ before = [e \in Entries |-> {}]

Move(e, to) == place' = [place EXCEPT ![e] = to]

TakeTurn(e) ==
    /\ e \notin taken
    /\ taken' = taken \cup {e} /\ before' = [before EXCEPT ![e] = Present]
    /\ UNCHANGED place

Ask(e) ==
    /\ e \in taken /\ place[e] = "out"
    /\ Move(e, "asking")
    /\ UNCHANGED <<taken, before>>

\* Approved, by policy or by the DJ; once it has played or was rejected, again.
Grant(e) ==
    /\ e \in taken /\ place[e] \in {"out", "asking"}
    /\ Move(e, "queued")
    /\ UNCHANGED <<taken, before>>

Call(e) ==
    /\ place[e] = "queued" /\ \A f \in before[e] : place[f] # "queued"
    /\ Move(e, "called")
    /\ UNCHANGED <<taken, before>>

PutBack(e) ==
    /\ place[e] = "called"
    /\ Move(e, "queued")
    /\ UNCHANGED <<taken, before>>

Out(e) ==
    /\ Move(e, "out") /\ before' = [f \in Entries |-> before[f] \ {e}]
    /\ UNCHANGED taken

Play(e)   == place[e] = "called" /\ Out(e)
Reject(e) == place[e] \in {"asking", "queued"} /\ Out(e)

Next == \E e \in Entries : \/ TakeTurn(e) \/ Ask(e) \/ Grant(e) \/ Call(e)
                           \/ PutBack(e) \/ Play(e) \/ Reject(e)

Spec == Init /\ [][Next]_vars
=============================================================================
