-------------------------------- MODULE Hub --------------------------------
(***************************************************************************)
(* The WebSocket hub of ONE room and everything that can end it.           *)
(*                                                                         *)
(* A connection runs HandleRoomWS, then a ReadPump; the hub's Run loop     *)
(* admits it, drops it and fans broadcasts out to it; a side goroutine     *)
(* (onRegister) does its join-time I/O and another (onUnregister) its      *)
(* leave-time I/O, which also decides whether the hub stops.  Hubs are     *)
(* numbered by generation: when one stops, the manager forgets it and the  *)
(* next connection mints a fresh one for the same room.                    *)
(*                                                                         *)
(* One step is one critical section, one channel hand-over or one call to  *)
(* Redis or Postgres.  Frames are left out (see Frames); what is kept of   *)
(* them is that fanout may find a slow client's buffer full.               *)
(***************************************************************************)
EXTENDS Integers, Sequences, FiniteSets

CONSTANTS Conns,          \* WebSocket connections, each used once
          Hubs,           \* hub generations of the room
          NoConn, NoHub,  \* nil pointers
          Nobody,         \* "no user": anonymous connection, no listen row
          Ended,          \* a listen row whose ended_at is set
          SessionOf,      \* session id each connection presents
          UserOf,         \* its user id, or Nobody
          IpOf,           \* its client address
          DJs,            \* connections whose ticket carries DJ status
          Slow,           \* connections whose send buffer may be full
          MaxConnsPerIP, MaxConnsPerSession,
          InboundCap,     \* capacity of the Inbound channel
          RoomEnds,       \* whether an end-of-room handler may run
          StoreFails      \* whether a call to Redis or Postgres may fail

ASSUME ConstantsOK ==
    /\ NoConn \notin Conns /\ NoHub \notin Hubs /\ Ended \notin {UserOf[c] : c \in Conns}
    /\ IsFiniteSet(Conns)
    /\ DOMAIN SessionOf = Conns /\ DOMAIN UserOf = Conns /\ DOMAIN IpOf = Conns
    /\ DJs \subseteq Conns /\ Slow \subseteq Conns
    /\ MaxConnsPerIP \in Nat \ {0} /\ MaxConnsPerSession \in Nat \ {0}
    /\ InboundCap \in Nat /\ RoomEnds \in BOOLEAN /\ StoreFails \in BOOLEAN

VARIABLES
    hub,          \* HubManager.hubs[roomID]
    started,      \* hubs whose Run loop was started
    loopDone,     \* hubs whose Run loop has returned
    hand,         \* the registration a Run loop has received but not yet acted on
    stopping, quit, once, pendingRegs, members, inbox,   \* per hub
    micActive, micOwner,                                 \* per hub
    stage,        \* per connection: where its handler / reader / leave goroutine is
    hubOf,        \* Client.Hub
    join,         \* per connection: where its onRegister goroutine is
    closed,       \* connections whose done channel is closed
    slot,         \* connections holding an IP slot (release not yet called)
    connsByIP,    \* WSHandler.connsByIP
    listeners,    \* Redis set room:{id}:listeners, of session ids
    listen,       \* Postgres listen_events: row of each session in this room
    room,         \* Postgres rooms row: "never" (live), "live", "offline", "gone"
    ending        \* an end-of-room handler still has to clear the listeners

hubVars  == <<hub, started, loopDone, hand, stopping, quit, once, pendingRegs, members>>
micVars  == <<inbox, micActive, micOwner>>
connVars == <<stage, hubOf, join, closed>>
slotVars == <<slot, connsByIP>>
dbVars   == <<listeners, listen, room, ending>>
vars     == <<hubVars, micVars, connVars, slotVars, dbVars>>

Sessions == {SessionOf[c] : c \in Conns}
Ips      == {IpOf[c] : c \in Conns}
Users    == {UserOf[c] : c \in Conns}

HandlerStages == {"new", "slotted", "admitted", "sending"}
LeaveStages   == {"barrier", "remove", "unlisten", "mic", "everlive", "delete", "clear",
                  "count", "lookup", "decide", "stop", "close", "unlink"}
JoinStages == {"none", "refused", "add", "stale", "listen", "replay", "done"}
Stages == HandlerStages \cup {"open", "leaving"} \cup LeaveStages \cup {"gone", "stranded"}

TypeOK ==
    /\ hub \in Hubs \cup {NoHub}
    /\ started \in SUBSET Hubs /\ loopDone \in SUBSET Hubs
    /\ hand \in [Hubs -> Conns \cup {NoConn}]
    /\ stopping \in SUBSET Hubs /\ quit \in SUBSET Hubs /\ once \in SUBSET Hubs
    /\ pendingRegs \in [Hubs -> Int]
    /\ members \in [Hubs -> SUBSET Conns]
    /\ inbox \in [Hubs -> Seq(DJs \X BOOLEAN)]
    /\ micActive \in [Hubs -> BOOLEAN]
    /\ micOwner \in [Hubs -> Conns \cup {NoConn}]
    /\ stage \in [Conns -> Stages]
    /\ hubOf \in [Conns -> Hubs \cup {NoHub}]
    /\ join \in [Conns -> JoinStages]
    /\ closed \in SUBSET Conns
    /\ slot \in SUBSET Conns
    /\ connsByIP \in [Ips -> Nat]
    /\ listeners \in SUBSET Sessions
    /\ listen \in [Sessions -> Users \cup {Nobody, Ended}]
    /\ room \in {"never", "live", "offline", "gone"}
    /\ ending \in BOOLEAN

Init ==
    /\ hub = NoHub
    /\ started = {} /\ loopDone = {} /\ stopping = {} /\ quit = {} /\ once = {}
    /\ hand = [h \in Hubs |-> NoConn]
    /\ pendingRegs = [h \in Hubs |-> 0]
    /\ members = [h \in Hubs |-> {}]
    /\ inbox = [h \in Hubs |-> <<>>]
    /\ micActive = [h \in Hubs |-> FALSE]
    /\ micOwner = [h \in Hubs |-> NoConn]
    /\ stage = [c \in Conns |-> "new"]
    /\ hubOf = [c \in Conns |-> NoHub]
    /\ join = [c \in Conns |-> "none"]
    /\ closed = {} /\ slot = {}
    /\ connsByIP = [i \in Ips |-> 0]
    /\ listeners = {}
    /\ listen = [s \in Sessions |-> Nobody]
    /\ room = "never"
    /\ ending = FALSE

-----------------------------------------------------------------------------
(* Helpers *)

Goto(c, s) == stage' = [stage EXCEPT ![c] = s]

\* Mutant: no sync.Once.
ReleaseEveryTime(c) ==
    connsByIP' = [connsByIP EXCEPT ![IpOf[c]] = @ - 1] /\ UNCHANGED slot

\* release(), guarded by its sync.Once: a second call does nothing.
Release(c) ==
    IF c \in slot
    THEN /\ slot' = slot \ {c}
         /\ connsByIP' = [connsByIP EXCEPT ![IpOf[c]] = IF @ <= 1 THEN 0 ELSE @ - 1]
    ELSE UNCHANGED slotVars

\* The Run loop is at its select: neither returned nor busy with a registration.
Selecting(h) == h \in started /\ h \notin loopDone /\ hand[h] = NoConn

\* What a write leaves: every caller ignores the error of a call that failed.
Written(new, old) == {new} \cup IF StoreFails THEN {old} ELSE {}

SessionClientCount(h, s) == Cardinality({c \in members[h] : SessionOf[c] = s})

-----------------------------------------------------------------------------
(* HandleRoomWS *)

\* The room row exists and the address is below its cap.
AcquireIPSlot(c) ==
    /\ stage[c] = "new"
    /\ room # "gone"
    /\ connsByIP[IpOf[c]] < MaxConnsPerIP
    /\ slot' = slot \cup {c}
    /\ connsByIP' = [connsByIP EXCEPT ![IpOf[c]] = @ + 1]
    /\ Goto(c, "slotted")
    /\ UNCHANGED <<hubVars, micVars, hubOf, join, closed, dbVars>>

UpgradeFails(c) ==
    /\ stage[c] = "slotted"
    /\ Release(c)
    /\ Goto(c, "gone")
    /\ UNCHANGED <<hubVars, micVars, hubOf, join, closed, dbVars>>

\* HubManager.GetOrCreate: the room's hub, or a fresh one with its Run loop started.
GetOrCreate(h) ==
    \/ hub = h /\ UNCHANGED <<hub, started>>
    \/ hub = NoHub /\ h \notin started /\ hub' = h /\ started' = started \cup {h}

\* The per-session cap only counts clients already in Clients.
Attach(c) ==
    /\ stage[c] = "slotted"
    /\ \E h \in Hubs :
         /\ GetOrCreate(h)
         /\ IF SessionClientCount(h, SessionOf[c]) >= MaxConnsPerSession
            THEN Release(c) /\ Goto(c, "gone") /\ UNCHANGED hubOf
            ELSE /\ hubOf' = [hubOf EXCEPT ![c] = h]
                 /\ Goto(c, "admitted")
                 /\ UNCHANGED slotVars
    /\ UNCHANGED <<loopDone, hand, stopping, quit, once, pendingRegs, members,
                   micVars, join, closed, dbVars>>

\* RegisterClient, first critical section: claim a pending slot unless stopping.
ClaimRegistration(c) ==
    LET h == hubOf[c] IN
    /\ stage[c] = "admitted"
    /\ IF h \in stopping
       THEN Release(c) /\ Goto(c, "gone") /\ UNCHANGED pendingRegs
       ELSE /\ pendingRegs' = [pendingRegs EXCEPT ![h] = @ + 1]
            /\ Goto(c, "sending")
            /\ UNCHANGED slotVars
    /\ UNCHANGED <<hub, started, loopDone, hand, stopping, quit, once, members,
                   micVars, hubOf, join, closed, dbVars>>

\* RegisterClient, select: the loop receives the client (the pumps start) ...
SendRegistration(c) ==
    LET h == hubOf[c] IN
    /\ stage[c] = "sending"
    /\ Selecting(h)
    /\ hand' = [hand EXCEPT ![h] = c]
    /\ Goto(c, "open")
    /\ UNCHANGED <<hub, started, loopDone, stopping, quit, once, pendingRegs, members,
                   micVars, hubOf, join, closed, slotVars, dbVars>>

\* Mutants: the abort keeps its pending count; the send has no quit case.
AbortKeepsCount(c) ==
    /\ stage[c] = "sending" /\ hubOf[c] \in quit
    /\ Release(c) /\ Goto(c, "gone")
    /\ UNCHANGED <<hubVars, micVars, hubOf, join, closed, dbVars>>
NeverAborts(c) == c \notin Conns /\ UNCHANGED vars

\* ... or quit is closed, the slot is given back and the connection dropped.
AbortRegistration(c) ==
    LET h == hubOf[c] IN
    /\ stage[c] = "sending"
    /\ h \in quit
    /\ pendingRegs' = [pendingRegs EXCEPT ![h] = @ - 1]
    /\ Release(c)
    /\ Goto(c, "gone")
    /\ UNCHANGED <<hub, started, loopDone, hand, stopping, quit, once, members,
                   micVars, hubOf, join, closed, dbVars>>

\* The goroutine that waits for Client.Done.
ReleaseOnDone(c) ==
    /\ c \in closed /\ c \in slot
    /\ Release(c)
    /\ UNCHANGED <<hubVars, micVars, connVars, dbVars>>

-----------------------------------------------------------------------------
(* Run: the hub loop *)

\* Mutants: the loop admits whatever it receives; it forgets the pending count.
AdmitsUnchecked(h) ==
    LET c == hand[h] IN
    /\ c # NoConn
    /\ hand' = [hand EXCEPT ![h] = NoConn]
    /\ pendingRegs' = [pendingRegs EXCEPT ![h] = @ - 1]
    /\ members' = [members EXCEPT ![h] = @ \cup {c}]
    /\ join' = [join EXCEPT ![c] = "add"]
    /\ UNCHANGED <<hub, started, loopDone, stopping, quit, once, micVars,
                   stage, hubOf, closed, slotVars, dbVars>>
AdmitsUncounted(h) ==
    LET c == hand[h] IN
    /\ c # NoConn /\ h \notin stopping
    /\ hand' = [hand EXCEPT ![h] = NoConn]
    /\ members' = [members EXCEPT ![h] = @ \cup {c}]
    /\ join' = [join EXCEPT ![c] = "add"]
    /\ UNCHANGED <<hub, started, loopDone, stopping, quit, once, pendingRegs, micVars,
                   stage, hubOf, closed, slotVars, dbVars>>

\* Register case.  A hub that committed to stopping refuses the client: it never
\* enters Clients, its barrier is released and its done channel closed.
HandleRegister(h) ==
    LET c == hand[h] IN
    /\ c # NoConn
    /\ hand' = [hand EXCEPT ![h] = NoConn]
    /\ pendingRegs' = [pendingRegs EXCEPT ![h] = @ - 1]
    /\ IF h \in stopping
       THEN /\ join' = [join EXCEPT ![c] = "refused"]
            /\ closed' = closed \cup {c}
            /\ UNCHANGED members
       ELSE /\ members' = [members EXCEPT ![h] = @ \cup {c}]
            /\ join' = [join EXCEPT ![c] = "add"]
            /\ UNCHANGED closed
    /\ UNCHANGED <<hub, started, loopDone, stopping, quit, once, micVars,
                   stage, hubOf, slotVars, dbVars>>

\* fanout finds the client's buffer full and evicts it.
Evict(h, c) ==
    /\ Selecting(h)
    /\ c \in members[h] \cap Slow
    /\ members' = [members EXCEPT ![h] = @ \ {c}]
    /\ closed' = closed \cup {c}
    /\ UNCHANGED <<hub, started, loopDone, hand, stopping, quit, once, pendingRegs,
                   micVars, stage, hubOf, join, slotVars, dbVars>>

RunReturns(h) ==
    /\ Selecting(h)
    /\ h \in quit
    /\ loopDone' = loopDone \cup {h}
    /\ UNCHANGED <<hub, started, hand, stopping, quit, once, pendingRegs, members,
                   micVars, connVars, slotVars, dbVars>>

-----------------------------------------------------------------------------
(* ReadPump *)

\* The socket dies: the peer left, or WritePump closed it after done.
ReadFails(c) ==
    /\ stage[c] = "open"
    /\ Goto(c, "leaving")
    /\ UNCHANGED <<hubVars, micVars, hubOf, join, closed, slotVars, dbVars>>

\* unregister, select: the loop receives the client and spawns onUnregister ...
Unregister(c) ==
    LET h == hubOf[c] IN
    /\ stage[c] = "leaving"
    /\ Selecting(h)
    /\ members' = [members EXCEPT ![h] = @ \ {c}]
    /\ closed' = IF c \in members[h] THEN closed \cup {c} ELSE closed
    /\ Goto(c, "barrier")
    /\ UNCHANGED <<hub, started, loopDone, hand, stopping, quit, once, pendingRegs,
                   micVars, hubOf, join, slotVars, dbVars>>

\* ... or the hub has quit: only done is closed, and onUnregister never runs.
UnregisterFromDeadHub(c) ==
    /\ stage[c] = "leaving"
    /\ hubOf[c] \in quit
    /\ closed' = closed \cup {c}
    /\ Goto(c, "stranded")
    /\ UNCHANGED <<hubVars, micVars, hubOf, join, slotVars, dbVars>>

\* A DJ's dj_mic action joins the inbound queue.
SendMic(c, on) ==
    LET h == hubOf[c] IN
    /\ stage[c] = "open" /\ c \in DJs
    /\ Len(inbox[h]) < InboundCap
    /\ inbox' = [inbox EXCEPT ![h] = Append(@, <<c, on>>)]
    /\ UNCHANGED <<hubVars, micActive, micOwner, connVars, slotVars, dbVars>>

-----------------------------------------------------------------------------
(* inboundLoop: dj_mic, ignored when its sender is no longer in Clients *)

\* Mutant: the sender is not looked up in Clients.
HandlesMicFromAnyone(h) ==
    /\ inbox[h] # <<>>
    /\ micActive' = [micActive EXCEPT ![h] = Head(inbox[h])[2]]
    /\ micOwner' = [micOwner EXCEPT ![h] = IF Head(inbox[h])[2] THEN Head(inbox[h])[1] ELSE NoConn]
    /\ inbox' = [inbox EXCEPT ![h] = Tail(@)]
    /\ UNCHANGED <<hubVars, connVars, slotVars, dbVars>>

HandleMic(h) ==
    /\ inbox[h] # <<>>
    /\ LET c  == Head(inbox[h])[1]
           on == Head(inbox[h])[2]
       IN  IF c \in members[h]
           THEN /\ micActive' = [micActive EXCEPT ![h] = on]
                /\ micOwner' = [micOwner EXCEPT ![h] = IF on THEN c ELSE NoConn]
           ELSE UNCHANGED <<micActive, micOwner>>
    /\ inbox' = [inbox EXCEPT ![h] = Tail(@)]
    /\ UNCHANGED <<hubVars, connVars, slotVars, dbVars>>

-----------------------------------------------------------------------------
(* onRegister: join-time I/O *)

AddListener(c) ==
    /\ join[c] = "add"
    /\ listeners' \in Written(listeners \cup {SessionOf[c]}, listeners)
    /\ join' = [join EXCEPT ![c] = IF UserOf[c] = Nobody THEN "replay" ELSE "stale"]
    /\ UNCHANGED <<hubVars, micVars, stage, hubOf, closed, slotVars, listen, room, ending>>

EndStaleListenEvents(c) ==
    LET afterEnd == [t \in Sessions |-> IF listen[t] = UserOf[c] THEN Ended ELSE listen[t]] IN
    /\ join[c] = "stale"
    /\ listen' \in Written(afterEnd, listen)
    /\ join' = [join EXCEPT ![c] = "listen"]
    /\ UNCHANGED <<hubVars, micVars, stage, hubOf, closed, slotVars, listeners, room, ending>>

\* An INSERT that fails when the row's id (session and room) exists already, open or
\* ended, or the room is deleted (which also cascades to its rows).
StartListenEvent(c) ==
    LET s == SessionOf[c] IN
    /\ join[c] = "listen"
    /\ listen' \in IF listen[s] = Nobody /\ room # "gone"
                   THEN Written([listen EXCEPT ![s] = UserOf[c]], listen)
                   ELSE {listen}
    /\ join' = [join EXCEPT ![c] = "replay"]
    /\ UNCHANGED <<hubVars, micVars, stage, hubOf, closed, slotVars, listeners, room, ending>>

\* sendInitialState only reads; then close(client.registered).
FinishJoin(c) ==
    /\ join[c] = "replay"
    /\ join' = [join EXCEPT ![c] = "done"]
    /\ UNCHANGED <<hubVars, micVars, stage, hubOf, closed, slotVars, dbVars>>

-----------------------------------------------------------------------------
(* onUnregister: leave-time I/O and the decision to stop the hub *)

\* Mutant: no barrier.
SkipsBarrier(c) ==
    /\ stage[c] = "barrier"
    /\ Goto(c, "remove")
    /\ UNCHANGED <<hubVars, micVars, hubOf, join, closed, slotVars, dbVars>>

\* <-client.registered
PassBarrier(c) ==
    /\ stage[c] = "barrier"
    /\ join[c] \in {"refused", "done"}
    /\ Goto(c, "remove")
    /\ UNCHANGED <<hubVars, micVars, hubOf, join, closed, slotVars, dbVars>>

RemoveListener(c) ==
    /\ stage[c] = "remove"
    /\ listeners' \in Written(listeners \ {SessionOf[c]}, listeners)
    /\ Goto(c, IF UserOf[c] # Nobody THEN "unlisten" ELSE IF c \in DJs THEN "mic" ELSE "count")
    /\ UNCHANGED <<hubVars, micVars, hubOf, join, closed, slotVars, listen, room, ending>>

EndListenEvent(c) ==
    LET s == SessionOf[c] IN
    /\ stage[c] = "unlisten"
    /\ listen' \in Written(IF listen[s] = Nobody THEN listen ELSE [listen EXCEPT ![s] = Ended],
                          listen)
    /\ Goto(c, IF c \in DJs THEN "mic" ELSE "count")
    /\ UNCHANGED <<hubVars, micVars, hubOf, join, closed, slotVars, listeners, room, ending>>

\* Only the connection that turned the mic on clears it.
ClearOwnedMic(c) ==
    LET h == hubOf[c] IN
    /\ stage[c] = "mic"
    /\ IF micOwner[h] = c
       THEN /\ micActive' = [micActive EXCEPT ![h] = FALSE]
            /\ micOwner' = [micOwner EXCEPT ![h] = NoConn]
       ELSE UNCHANGED <<micActive, micOwner>>
    /\ Goto(c, "everlive")
    /\ UNCHANGED <<hubVars, inbox, hubOf, join, closed, slotVars, dbVars>>

\* WasRoomEverLive; an error (a deleted row is one) falls through.
CheckEverLive(c) ==
    /\ stage[c] = "everlive"
    /\ \/ room = "never" /\ Goto(c, "delete")
       \/ (room # "never" \/ StoreFails) /\ Goto(c, "count")
    /\ UNCHANGED <<hubVars, micVars, hubOf, join, closed, slotVars, dbVars>>

\* A delete that fails (rows still refer to the room) changes nothing, and what follows
\* it runs all the same.
DeleteRoom(c) ==
    /\ stage[c] = "delete"
    /\ \/ room' = "gone" /\ listen' = [s \in Sessions |-> Nobody]
       \/ StoreFails /\ UNCHANGED <<room, listen>>
    /\ Goto(c, "clear")
    /\ UNCHANGED <<hubVars, micVars, hubOf, join, closed, slotVars, listeners, ending>>

ClearListeners(c) ==
    /\ stage[c] = "clear"
    /\ listeners' \in Written({}, listeners)
    /\ Goto(c, "stop")
    /\ UNCHANGED <<hubVars, micVars, hubOf, join, closed, slotVars, listen, room, ending>>

\* clientCount() == 0, read without holding anything for later.
CheckEmpty(c) ==
    /\ stage[c] = "count"
    /\ Goto(c, IF members[hubOf[c]] = {} THEN "lookup" ELSE "gone")
    /\ UNCHANGED <<hubVars, micVars, hubOf, join, closed, slotVars, dbVars>>

\* A failed lookup gives no room, which counts as not live.
LookupRoom(c) ==
    /\ stage[c] = "lookup"
    /\ \/ room = "live" /\ Goto(c, "gone")
       \/ (room # "live" \/ StoreFails) /\ Goto(c, "decide")
    /\ UNCHANGED <<hubVars, micVars, hubOf, join, closed, slotVars, dbVars>>

\* Mutant: registrations in flight are not counted.
DecidesOnClients(c) ==
    /\ stage[c] = "decide"
    /\ IF members[hubOf[c]] = {}
       THEN stopping' = stopping \cup {hubOf[c]} /\ Goto(c, "stop")
       ELSE Goto(c, "gone") /\ UNCHANGED stopping
    /\ UNCHANGED <<hub, started, loopDone, hand, quit, once, pendingRegs, members,
                   micVars, hubOf, join, closed, slotVars, dbVars>>

\* Re-check and commit in one critical section.
DecideIdle(c) ==
    LET h == hubOf[c] IN
    /\ stage[c] = "decide"
    /\ IF members[h] = {} /\ pendingRegs[h] = 0
       THEN stopping' = stopping \cup {h} /\ Goto(c, "stop")
       ELSE Goto(c, "gone") /\ UNCHANGED stopping
    /\ UNCHANGED <<hub, started, loopDone, hand, quit, once, pendingRegs, members,
                   micVars, hubOf, join, closed, slotVars, dbVars>>

\* Mutant: no sync.Once.
StopsAgain(c) ==
    /\ stage[c] = "stop"
    /\ once' = once \cup {hubOf[c]} /\ stopping' = stopping \cup {hubOf[c]}
    /\ Goto(c, "close")
    /\ UNCHANGED <<hub, started, loopDone, hand, quit, pendingRegs, members,
                   micVars, hubOf, join, closed, slotVars, dbVars>>

\* stop(): the first caller runs the body, any other just returns.
EnterStop(c) ==
    LET h == hubOf[c] IN
    /\ stage[c] = "stop"
    /\ IF h \in once
       THEN Goto(c, "gone") /\ UNCHANGED <<once, stopping>>
       ELSE /\ once' = once \cup {h}
            /\ stopping' = stopping \cup {h}
            /\ Goto(c, "close")
    /\ UNCHANGED <<hub, started, loopDone, hand, quit, pendingRegs, members,
                   micVars, hubOf, join, closed, slotVars, dbVars>>

CloseQuit(c) ==
    /\ stage[c] = "close"
    /\ quit' = quit \cup {hubOf[c]}
    /\ Goto(c, "unlink")
    /\ UNCHANGED <<hub, started, loopDone, hand, stopping, once, pendingRegs, members,
                   micVars, hubOf, join, closed, slotVars, dbVars>>

\* OnShutdown: HubManager.Remove deletes whatever hub the room has.
RemoveHub(c) ==
    /\ stage[c] = "unlink"
    /\ hub' = NoHub
    /\ Goto(c, "gone")
    /\ UNCHANGED <<started, loopDone, hand, stopping, quit, once, pendingRegs, members,
                   micVars, hubOf, join, closed, slotVars, dbVars>>

-----------------------------------------------------------------------------
(* The room's life as HTTP handlers, hub actions and the idle monitor drive it *)

GoLive ==
    /\ room \in {"never", "offline"}
    /\ room' = "live"
    /\ UNCHANGED <<hubVars, micVars, connVars, slotVars, listeners, listen, ending>>

\* One end at a time: a second one would only clear the same keys again.
EndRoom ==
    /\ RoomEnds /\ room # "gone" /\ ~ending
    /\ room' = "offline"
    /\ ending' = TRUE
    /\ UNCHANGED <<hubVars, micVars, connVars, slotVars, listeners, listen>>

EndRoomClearsListeners ==
    /\ ending
    /\ listeners' \in Written({}, listeners)
    /\ ending' = FALSE
    /\ UNCHANGED <<hubVars, micVars, connVars, slotVars, listen, room>>

\* The idle monitor's tick: a room an hour old that never went live and is not scheduled.
CleanupGhostRooms ==
    /\ room = "never"
    /\ room' = "gone"
    /\ UNCHANGED <<hubVars, micVars, connVars, slotVars, listeners, listen, ending>>

-----------------------------------------------------------------------------
Handler(c) == \/ AcquireIPSlot(c) \/ UpgradeFails(c) \/ Attach(c)
              \/ ClaimRegistration(c) \/ SendRegistration(c) \/ AbortRegistration(c)
              \/ ReleaseOnDone(c)
Reader(c)  == \/ ReadFails(c) \/ Unregister(c) \/ UnregisterFromDeadHub(c)
              \/ \E on \in BOOLEAN : SendMic(c, on)
OnRegister(c)   == AddListener(c) \/ EndStaleListenEvents(c) \/ StartListenEvent(c) \/ FinishJoin(c)
OnUnregister(c) == \/ PassBarrier(c) \/ RemoveListener(c) \/ EndListenEvent(c)
                   \/ ClearOwnedMic(c) \/ CheckEverLive(c) \/ DeleteRoom(c)
                   \/ ClearListeners(c) \/ CheckEmpty(c) \/ LookupRoom(c)
                   \/ DecideIdle(c) \/ EnterStop(c) \/ CloseQuit(c) \/ RemoveHub(c)
Run(h) == HandleRegister(h) \/ RunReturns(h) \/ (\E c \in Conns : Evict(h, c))
RoomLife == GoLive \/ EndRoom \/ EndRoomClearsListeners \/ CleanupGhostRooms

Next == \/ \E c \in Conns : Handler(c) \/ Reader(c) \/ OnRegister(c) \/ OnUnregister(c)
        \/ \E h \in Hubs : Run(h) \/ HandleMic(h)
        \/ RoomLife

Spec == Init /\ [][Next]_vars

(***************************************************************************)
(* Fairness: goroutines are scheduled, Redis and Postgres calls return.    *)
(* The hub's channel hand-overs get strong fairness because Go's select    *)
(* picks uniformly among its ready cases and queues blocked senders in     *)
(* FIFO order.  Peers, DJs and the room's life owe nobody anything; only a *)
(* connection whose done channel is closed must see its read fail          *)
(* (WritePump closes the socket).                                          *)
(***************************************************************************)
Fairness ==
    /\ \A c \in Conns :
         /\ WF_vars(OnRegister(c)) /\ WF_vars(OnUnregister(c))
         /\ WF_vars(Attach(c) \/ ClaimRegistration(c))
         /\ SF_vars(SendRegistration(c)) /\ WF_vars(AbortRegistration(c))
         /\ WF_vars(c \in closed /\ ReadFails(c))
         /\ SF_vars(Unregister(c)) /\ WF_vars(UnregisterFromDeadHub(c))
         /\ WF_vars(ReleaseOnDone(c))
    /\ \A h \in Hubs : WF_vars(HandleRegister(h)) /\ SF_vars(RunReturns(h))

FairSpec == Spec /\ Fairness

-----------------------------------------------------------------------------
(* Safety *)

\* Clients handed to hub h and counted by RegisterClient but not yet in Clients.
InFlight(h) == {c \in Conns : hubOf[c] = h /\ (stage[c] = "sending" \/ hand[h] = c)}

\* pendingRegs counts exactly the registrations in flight: RegisterClient, its abort
\* path and the Register case (both branches) keep it balanced.
PendingRegsExact == \A h \in Hubs : pendingRegs[h] = Cardinality(InFlight(h))

\* Once a hub has committed to stopping nobody enters its client set any more, also
\* a registration that was already in flight (the re-check in Run's Register case).
NoAdmissionAfterStop ==
    [][\A h \in Hubs : h \in stopping => members'[h] \subseteq members[h]]_vars

\* The idle shutdown of onUnregister tears nobody down: from its commitment until the
\* stop body takes over, the hub has no client and no registration about to succeed.
IdleStopStrandsNobody ==
    \A h \in stopping \ once : members[h] = {} /\ InFlight(h) = {}

\* The manager never loses a hub that still serves the room: every hub whose quit is
\* open is the registered one, so a room never has two serving hubs (OnShutdown
\* removes by room id, whichever hub is there).
OneServingHub == \A h \in started : h \notin quit => hub = h

\* What a connection wrote when it joined, its onUnregister takes back: a session that Redis
\* counts, or a listen row left open, always has a connection that started it and still
\* owes the call that ends it.  The registered barrier keeps onUnregister from overtaking
\* onRegister.  (A stranded connection owes it for ever: see README.  StoreFails = FALSE: a
\* write that is lost is not repeated.)
Unsettled(c) == /\ join[c] \in {"stale", "listen", "replay", "done"}
                /\ stage[c] \in {"open", "leaving", "barrier", "remove", "stranded"}
PresenceSettles ==
    /\ \A s \in listeners : \E c \in Conns : SessionOf[c] = s /\ Unsettled(c)
    /\ \A s \in Sessions : listen[s] \in Users \ {Nobody} =>
         \E c \in Conns : /\ SessionOf[c] = s /\ join[c] \in {"replay", "done"}
                          /\ Unsettled(c) \/ stage[c] = "unlisten"

\* While the hub serves, an active mic is held by a connection that is still there or
\* whose onUnregister has not reached the mic yet: a dead connection never holds the
\* room's music paused (dj_mic queued before the departure, handled after it).
MicHeldByLiveOwner ==
    \A h \in Hubs \ quit : micActive[h] =>
        /\ micOwner[h] # NoConn
        /\ \/ micOwner[h] \in members[h]
           \/ stage[micOwner[h]] \in {"open", "leaving", "barrier", "remove", "unlisten", "mic"}

\* The slots of an address are counted exactly, each connection in a serving hub still
\* holds its own, and an address never has more clients there than the cap, however the
\* session-cap check is raced.
SlotsExact ==
    /\ \A i \in Ips : connsByIP[i] = Cardinality({c \in slot : IpOf[c] = i})
    /\ \A h \in Hubs \ quit :
         /\ members[h] \subseteq slot
         /\ \A i \in Ips : Cardinality({c \in members[h] : IpOf[c] = i}) <= MaxConnsPerIP

\* Only the deletion of the room takes a hub down under its clients: while the room
\* exists, a hub that has begun to stop has no client and no registration about to
\* succeed, on every path into stop() (StoreFails = FALSE: a DeleteRoom that fails is
\* followed by stop() all the same).
OnlyDeletionStrands ==
    room # "gone" => \A h \in stopping : members[h] = {} /\ InFlight(h) = {}

\* onUnregister deletes a room only when it was never live.
DeletesOnlyNeverLive == [][room' = "gone" /\ room # "gone" => room = "never"]_vars

\* When every connection has settled and the room never went live, no hub is left
\* registered: the last connection to leave stops it, whatever raced its check.  (A room
\* that ends, or that a late DeleteRoom removes, after its last leaver looked and found
\* it live keeps its hub for ever.)
Settled(c) == stage[c] \in {"new", "gone", "stranded"} /\ join[c] \in {"none", "refused", "done"}
NoIdleHubLeft == (\A c \in Conns : Settled(c)) /\ room = "never" => hub = NoHub

-----------------------------------------------------------------------------
(* Refinement *)

\* All this implements the service that Service.tla promises to those who connect: hubs are
\* opened and closed one after another, and whoever RegisterClient has counted gets into
\* Clients unless the room is deleted, though a loop, any number of handlers and leaving
\* goroutines, sync.Once and the manager's map each take their own steps.  (StoreFails: a
\* room whose DeleteRoom may fail is taken for deleted.)
Expected  == IF hub = NoHub THEN {} ELSE InFlight(hub)
Attended  == IF hub = NoHub THEN {} ELSE members[hub]
Condemned == room = "gone" \/ StoreFails
Door == INSTANCE Service WITH
            serving <- hub, used <- started, closing <- hub \in stopping,
            expected <- Expected, clients <- Attended, condemned <- Condemned
KeepsTheService == Door!Spec

-----------------------------------------------------------------------------
(* Liveness, under FairSpec *)

\* Nobody waits for ever.  RegisterClient and unregister both return, whether the hub they
\* send to is alive or dead (every send also selects on quit); onUnregister gets past its
\* barrier, which onRegister or the refusal releases; and the IP slot of a connection that
\* leaves or is refused comes back on every path (refused, aborted, evicted, unregistered,
\* stranded).
NobodyWaitsForever ==
    \A c \in Conns :
        /\ stage[c] \in {"sending", "leaving"} ~> stage[c] \notin {"sending", "leaving"}
        /\ stage[c] = "barrier" ~> stage[c] # "barrier"
        /\ stage[c] \in {"leaving", "gone"} \/ c \in closed ~> c \notin slot
=============================================================================
