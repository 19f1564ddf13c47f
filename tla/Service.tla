------------------------------ MODULE Service ------------------------------
(***************************************************************************)
(* What the hubs of ONE room promise to those who connect to it, whatever  *)
(* goroutines do inside: one generation serves at a time and none serves   *)
(* twice; whoever it has promised to take in is taken in, unless the room  *)
(* is deleted; it closes when nobody is there or about to be, or because   *)
(* the room is deleted; and once it is closing nobody gets in any more.    *)
(***************************************************************************)
CONSTANTS Conns, Hubs, NoHub

VARIABLES
    serving,    \* the generation that serves the room, or NoHub
    used,       \* those that ever did
    closing,    \* it has made up its mind to close
    expected,   \* who has been promised to be taken in
    clients,    \* who is in
    condemned   \* the room is deleted

vars == <<serving, used, closing, expected, clients, condemned>>

Init ==
    /\ serving = NoHub /\ used = {} /\ closing = FALSE
    /\ expected = {} /\ clients = {}
    /\ condemned \in BOOLEAN

Open(h) ==
    /\ serving = NoHub /\ h \notin used
    /\ serving' = h /\ used' = used \cup {h}
    /\ UNCHANGED <<closing, expected, clients, condemned>>

Promise(c) ==
    /\ serving # NoHub /\ ~closing
    /\ c \notin expected \cup clients
    /\ expected' = expected \cup {c}
    /\ UNCHANGED <<serving, used, closing, clients, condemned>>

Admit(c) ==
    /\ ~closing /\ c \in expected
    /\ expected' = expected \ {c} /\ clients' = clients \cup {c}
    /\ UNCHANGED <<serving, used, closing, condemned>>

TurnAway(c) ==
    /\ closing /\ c \in expected
    /\ expected' = expected \ {c}
    /\ UNCHANGED <<serving, used, closing, clients, condemned>>

Leave(c) ==
    /\ c \in clients
    /\ clients' = clients \ {c}
    /\ UNCHANGED <<serving, used, closing, expected, condemned>>

Delete ==
    /\ condemned' = TRUE
    /\ UNCHANGED <<serving, used, closing, expected, clients>>

\* Only here is anybody let down: by a deletion.
DecideToClose ==
    /\ serving # NoHub /\ ~closing
    /\ (expected = {} /\ clients = {}) \/ condemned
    /\ closing' = TRUE
    /\ UNCHANGED <<serving, used, expected, clients, condemned>>

Close ==
    /\ closing
    /\ serving' = NoHub /\ closing' = FALSE /\ expected' = {} /\ clients' = {}
    /\ UNCHANGED <<used, condemned>>

Next == \/ \E h \in Hubs : Open(h)
        \/ \E c \in Conns : Promise(c) \/ Admit(c) \/ TurnAway(c) \/ Leave(c)
        \/ Delete \/ DecideToClose \/ Close

Spec == Init /\ [][Next]_vars
=============================================================================
