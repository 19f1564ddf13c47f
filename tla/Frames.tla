------------------------------- MODULE Frames -------------------------------
(***************************************************************************)
(* What the clients of ONE hub get to see.                                 *)
(*                                                                         *)
(* Handlers change some state and then enqueue a frame about it; the Run   *)
(* loop is the only consumer of the Broadcast channel and fans each frame  *)
(* out to whoever is in Clients at that moment; onRegister replays a       *)
(* snapshot straight to the new client, beside the channel.  State, frame  *)
(* and snapshot are three separate steps of concurrent goroutines, so the  *)
(* question is what a client shows once everything has settled.            *)
(*                                                                         *)
(* A client's Send buffer is FIFO and drops nothing here (Hub has the      *)
(* eviction), so a frame counts as shown when it is queued for the client. *)
(* Three kinds of state are followed: the listener count, the DJ's mic and *)
(* the chat; the room_ended frame stands for the last words of a hub.      *)
(***************************************************************************)
EXTENDS Integers, Sequences, FiniteSets

CONSTANTS Conns,         \* connections, each used once, each its own session
          DJs,           \* those with DJ status
          Msgs,          \* chat messages, each sent once
          NoConn, NoMsg,
          Scenes,        \* the rooms to choose from: who comes, what is said in them, ...
          BroadcastCap   \* capacity of the Broadcast channel

ASSUME ConstantsOK ==
    /\ NoConn \notin Conns /\ NoMsg \notin Msgs /\ DJs \subseteq Conns
    /\ IsFiniteSet(Conns)
    /\ {"ended", "mic"} \cap Msgs = {}      \* the other keys of audience are no messages
    /\ \A s \in Scenes : /\ s.conns \subseteq Conns /\ s.msgs \subseteq Msgs
                         /\ s.mic \in BOOLEAN /\ s.neverLive \in BOOLEAN
                         /\ s.flaky \in BOOLEAN
    /\ BroadcastCap \in Nat \ {0}

VARIABLES
    scene,      \* ... whether DJs use the mic, whether the room was never live, so that a
                \* leaving DJ deletes it and stops the hub, and whether Redis may fail
    members,    \* Hub.Clients
    loop,       \* the Run loop: "select", "flush" (quit seen) or "returned"
    quit,       \* stop() ran
    channel,    \* Hub.Broadcast
    counted,    \* Redis listeners set
    countMu,    \* who holds countMu, between the mutation and its frame
    count,      \* per connection: the count its mutation returned, not yet said
    miscounted, \* history: the last mutation's SCard failed
    mic, micOwner,
    inbound,    \* frame the inboundLoop has yet to broadcast, or <<>>
    unsaved,    \* message it has yet to hand to persistCh
    persistCh, stored,
    join, leave,           \* per connection: onRegister, onUnregister
    snapshot,              \* per connection: what sendInitialState has read
    shown,                 \* per connection: the last count and mic shown
    seen,                  \* per connection: chat messages and room_ended
    dropped,               \* history: a frame found the channel full
    lastMic,               \* history: the last dj_mic_state enqueued
    audience               \* history: who was in Clients when a message, room_ended or the
                           \* last mic frame was enqueued

loopVars   == <<members, loop, quit>>
countVars  == <<counted, countMu, count, miscounted>>
micVars    == <<mic, micOwner>>
chatVars   == <<unsaved, persistCh, stored>>
connVars   == <<join, leave, snapshot>>
clientVars == <<shown, seen>>
vars == <<scene, loopVars, channel, countVars, micVars, inbound, chatVars, connVars, clientVars,
          dropped, lastMic, audience>>

Frame == ({"count"} \X (0..Cardinality(Conns))) \cup ({"mic"} \X BOOLEAN)
           \cup ({"chat"} \X Msgs) \cup {<<"ended", TRUE>>}

TypeOK ==
    /\ scene \in Scenes
    /\ members \subseteq Conns
    /\ loop \in {"select", "flush", "returned"} /\ quit \in BOOLEAN
    /\ channel \in Seq(Frame) /\ Len(channel) <= BroadcastCap
    /\ counted \subseteq Conns /\ countMu \in Conns \cup {NoConn}
    /\ count \in [Conns -> 0..Cardinality(Conns)] /\ miscounted \in BOOLEAN
    /\ mic \in BOOLEAN /\ micOwner \in Conns \cup {NoConn}
    /\ inbound \in Frame \cup {<<>>}
    /\ unsaved \in Msgs \cup {NoMsg} /\ persistCh \in Seq(Msgs) /\ stored \subseteq Msgs
    /\ join \in [Conns -> {"new", "add", "count", "read", "replay", "mic", "last", "done"}]
    /\ leave \in [Conns -> {"no", "barrier", "count", "mic", "off", "ended", "stop", "done"}]
    /\ snapshot \in [Conns -> [chat : SUBSET Msgs, mic : BOOLEAN]]
    /\ shown \in [Conns -> [count : 0..Cardinality(Conns), mic : BOOLEAN]]
    /\ seen \in [Conns -> SUBSET (Msgs \cup {"ended"})]
    /\ dropped \in BOOLEAN /\ lastMic \in BOOLEAN /\ audience \in [Msgs \cup {"ended", "mic"} -> SUBSET Conns]

Init ==
    /\ scene \in Scenes
    /\ members = {} /\ loop = "select" /\ quit = FALSE /\ channel = <<>>
    /\ counted = {} /\ countMu = NoConn /\ count = [c \in Conns |-> 0] /\ miscounted = FALSE
    /\ mic = FALSE /\ micOwner = NoConn
    /\ inbound = <<>> /\ unsaved = NoMsg /\ persistCh = <<>> /\ stored = {}
    /\ join = [c \in Conns |-> "new"] /\ leave = [c \in Conns |-> "no"]
    /\ snapshot = [c \in Conns |-> [chat |-> {}, mic |-> FALSE]]
    /\ shown = [c \in Conns |-> [count |-> 0, mic |-> FALSE]]
    /\ seen = [c \in Conns |-> {}]
    /\ dropped = FALSE /\ lastMic = FALSE /\ audience = [m \in Msgs \cup {"ended", "mic"} |-> {}]

-----------------------------------------------------------------------------
(* enqueueBroadcast never blocks: a full channel, or a hub that quit, drops. *)

\* Mutant: the capacity is not looked at.
EnqueueAlways(f) ==
    /\ channel' = Append(channel, f) /\ UNCHANGED dropped
    /\ lastMic' = IF f[1] = "mic" THEN f[2] ELSE lastMic

Enqueue(f) ==
    /\ \/ Len(channel) < BroadcastCap /\ channel' = Append(channel, f) /\ UNCHANGED dropped
       \/ quit /\ UNCHANGED <<channel, dropped>>
       \/ Len(channel) = BroadcastCap /\ ~quit /\ dropped' = TRUE /\ UNCHANGED channel
    /\ lastMic' = IF f[1] = "mic" THEN f[2] ELSE lastMic

\* History: who must be shown m, which is being enqueued now; of the mic, a client whose
\* snapshot is still under way may be shown an older state after it.
Heard(m) ==
    audience' = IF quit THEN audience ELSE
        [audience EXCEPT ![m] = IF m = "mic" THEN {c \in members : join[c] = "done"} ELSE members]

-----------------------------------------------------------------------------
(* Run *)

\* The client is visible to broadcasts before its snapshot is read.
Register(c) ==
    /\ loop = "select" /\ ~quit /\ c \in scene.conns /\ join[c] = "new"
    /\ members' = members \cup {c}
    /\ join' = [join EXCEPT ![c] = "add"]
    /\ UNCHANGED <<loop, quit, channel, countVars, micVars, inbound, chatVars, leave, snapshot,
                   clientVars, dropped, lastMic, audience, scene>>

Unregister(c) ==
    /\ loop = "select" /\ c \in members
    /\ members' = members \ {c}
    /\ leave' = [leave EXCEPT ![c] = "barrier"]
    /\ UNCHANGED <<loop, quit, channel, countVars, micVars, inbound, chatVars, join, snapshot,
                   clientVars, dropped, lastMic, audience, scene>>

\* Mutant: the newest frame first.
FanoutNewest ==
    /\ loop # "returned" /\ channel # <<>>
    /\ shown' = [c \in Conns |->
          IF c \in members /\ channel[Len(channel)][1] = "mic"
          THEN [shown[c] EXCEPT !.mic = channel[Len(channel)][2]] ELSE shown[c]]
    /\ channel' = SubSeq(channel, 1, Len(channel) - 1)
    /\ UNCHANGED <<loopVars, countVars, micVars, inbound, chatVars, connVars, seen,
                   dropped, lastMic, audience, scene>>

Fanout ==
    /\ loop # "returned" /\ channel # <<>>
    /\ LET kind  == Head(channel)[1]
           value == Head(channel)[2]
       IN  /\ shown' = [c \in Conns |->
                 IF c \in members /\ kind \in {"count", "mic"}
                 THEN [shown[c] EXCEPT ![kind] = value] ELSE shown[c]]
           /\ seen' = [c \in Conns |->
                 CASE c \in members /\ kind = "chat"  -> seen[c] \cup {value}
                   [] c \in members /\ kind = "ended" -> seen[c] \cup {"ended"}
                   [] OTHER -> seen[c]]
    /\ channel' = Tail(channel)
    /\ UNCHANGED <<loopVars, countVars, micVars, inbound, chatVars, connVars,
                   dropped, lastMic, audience, scene>>

\* The select may pick quit while frames are queued: they are flushed first.
SeeQuit ==
    /\ loop = "select" /\ quit
    /\ loop' = "flush"
    /\ UNCHANGED <<members, quit, channel, countVars, micVars, inbound, chatVars, connVars,
                   clientVars, dropped, lastMic, audience, scene>>

\* Mutant: no flush.
ReturnsAtOnce ==
    /\ loop = "flush"
    /\ loop' = "returned"
    /\ UNCHANGED <<members, quit, channel, countVars, micVars, inbound, chatVars, connVars,
                   clientVars, dropped, lastMic, audience, scene>>

RunReturns ==
    /\ loop = "flush" /\ channel = <<>>
    /\ loop' = "returned"
    /\ UNCHANGED <<members, quit, channel, countVars, micVars, inbound, chatVars, connVars,
                   clientVars, dropped, lastMic, audience, scene>>

-----------------------------------------------------------------------------
(* updateListenerCount: the mutation and its frame under countMu *)

\* SAdd or SRem, whose error nobody looks at, then SCard, whose error makes the count 0.
SAddAndSCard(c, set) ==
    /\ counted' = set \/ (scene.flaky /\ UNCHANGED counted)
    /\ \/ count' = [count EXCEPT ![c] = Cardinality(counted')] /\ miscounted' = FALSE
       \/ scene.flaky /\ count' = [count EXCEPT ![c] = 0] /\ miscounted' = TRUE

\* Mutant: no countMu.
MutatesUnlocked(c, set) == SAddAndSCard(c, set) /\ UNCHANGED countMu

Mutate(c, set) ==
    /\ countMu = NoConn
    /\ countMu' = c
    /\ SAddAndSCard(c, set)

SayCount(c) ==
    /\ Enqueue(<<"count", count[c]>>)
    /\ countMu' = NoConn
    /\ UNCHANGED <<counted, count, miscounted>>

-----------------------------------------------------------------------------
(* onRegister and sendInitialState *)

AddListener(c) ==
    /\ join[c] = "add"
    /\ Mutate(c, counted \cup {c})
    /\ join' = [join EXCEPT ![c] = "count"]
    /\ UNCHANGED <<loopVars, channel, micVars, inbound, chatVars, leave, snapshot, clientVars,
                   dropped, lastMic, audience, scene>>

SayJoined(c) ==
    /\ join[c] = "count"
    /\ SayCount(c)
    /\ join' = [join EXCEPT ![c] = "read"]
    /\ UNCHANGED <<loopVars, micVars, inbound, chatVars, leave, snapshot, clientVars, audience, scene>>

ReadHistory(c) ==
    /\ join[c] = "read"
    /\ snapshot' = [snapshot EXCEPT ![c].chat = stored]
    /\ join' = [join EXCEPT ![c] = "replay"]
    /\ UNCHANGED <<loopVars, channel, countVars, micVars, inbound, chatVars, leave, clientVars,
                   dropped, lastMic, audience, scene>>

ReplayHistory(c) ==
    /\ join[c] = "replay"
    /\ seen' = [seen EXCEPT ![c] = @ \cup snapshot[c].chat]
    /\ join' = [join EXCEPT ![c] = "mic"]
    /\ UNCHANGED <<loopVars, channel, countVars, micVars, inbound, chatVars, leave, snapshot,
                   shown, dropped, lastMic, audience, scene>>

ReadMic(c) ==
    /\ join[c] = "mic"
    /\ snapshot' = [snapshot EXCEPT ![c].mic = mic]
    /\ join' = [join EXCEPT ![c] = "last"]
    /\ UNCHANGED <<loopVars, channel, countVars, micVars, inbound, chatVars, leave, clientVars,
                   dropped, lastMic, audience, scene>>

\* The mic replay, sent after the mutex was given back; then close(registered).
ReplayMic(c) ==
    /\ join[c] = "last"
    /\ shown' = [shown EXCEPT ![c].mic = snapshot[c].mic]
    /\ join' = [join EXCEPT ![c] = "done"]
    /\ UNCHANGED <<loopVars, channel, countVars, micVars, inbound, chatVars, leave, snapshot,
                   seen, dropped, lastMic, audience, scene>>

-----------------------------------------------------------------------------
(* onUnregister *)

RemoveListener(c) ==
    /\ leave[c] = "barrier" /\ join[c] = "done"
    /\ Mutate(c, counted \ {c})
    /\ leave' = [leave EXCEPT ![c] = "count"]
    /\ UNCHANGED <<loopVars, channel, micVars, inbound, chatVars, join, snapshot, clientVars,
                   dropped, lastMic, audience, scene>>

SayLeft(c) ==
    /\ leave[c] = "count"
    /\ SayCount(c)
    /\ leave' = [leave EXCEPT ![c] = IF c \in DJs THEN "mic" ELSE "done"]
    /\ UNCHANGED <<loopVars, micVars, inbound, chatVars, join, snapshot, clientVars, audience, scene>>

AfterMic == IF scene.neverLive THEN "ended" ELSE "done"

ClearOwnedMic(c) ==
    /\ leave[c] = "mic"
    /\ mic' = (mic /\ micOwner # c)
    /\ micOwner' = IF micOwner = c THEN NoConn ELSE micOwner
    /\ leave' = [leave EXCEPT ![c] = IF mic /\ micOwner = c THEN "off" ELSE AfterMic]
    /\ UNCHANGED <<loopVars, channel, countVars, inbound, chatVars, join, snapshot, clientVars,
                   dropped, lastMic, audience, scene>>

SayMicOff(c) ==
    /\ leave[c] = "off"
    /\ Enqueue(<<"mic", FALSE>>) /\ Heard("mic")
    /\ leave' = [leave EXCEPT ![c] = AfterMic]
    /\ UNCHANGED <<loopVars, countVars, micVars, inbound, chatVars, join, snapshot, clientVars, scene>>

SayEnded(c) ==
    /\ leave[c] = "ended"
    /\ Enqueue(<<"ended", TRUE>>)
    /\ Heard("ended")
    /\ leave' = [leave EXCEPT ![c] = "stop"]
    /\ UNCHANGED <<loopVars, countVars, micVars, inbound, chatVars, join, snapshot, clientVars, scene>>

Stop(c) ==
    /\ leave[c] = "stop"
    /\ quit' = TRUE
    /\ leave' = [leave EXCEPT ![c] = "done"]
    /\ UNCHANGED <<members, loop, channel, countVars, micVars, inbound, chatVars, join, snapshot,
                   clientVars, dropped, lastMic, audience, scene>>

-----------------------------------------------------------------------------
(* inboundLoop: one action at a time, and the loop of chat inserts *)

\* dj_mic: the state under mu, its frame afterwards.
HandleMic(c, on) ==
    /\ scene.mic /\ inbound = <<>> /\ unsaved = NoMsg
    /\ c \in DJs \cap members
    /\ mic' = on /\ micOwner' = IF on THEN c ELSE NoConn
    /\ inbound' = <<"mic", on>>
    /\ UNCHANGED <<loopVars, channel, countVars, chatVars, connVars, clientVars,
                   dropped, lastMic, audience, scene>>

\* send_chat, from a connection that may have left since: broadcast first ...
HandleChat(c, m) ==
    /\ inbound = <<>> /\ unsaved = NoMsg
    /\ join[c] # "new"
    /\ m \in scene.msgs \ stored /\ \A i \in DOMAIN persistCh : persistCh[i] # m
    /\ inbound' = <<"chat", m>> /\ unsaved' = m
    /\ UNCHANGED <<loopVars, channel, countVars, micVars, persistCh, stored, connVars,
                   clientVars, dropped, lastMic, audience, scene>>

Say ==
    /\ inbound # <<>>
    /\ Enqueue(inbound) /\ Heard(IF inbound[1] = "chat" THEN inbound[2] ELSE "mic")
    /\ inbound' = <<>>
    /\ UNCHANGED <<loopVars, countVars, micVars, chatVars, connVars, clientVars, scene>>

\* ... then persistChat (persistCh is never full: it holds more than Msgs).
PersistChat ==
    /\ inbound = <<>> /\ unsaved # NoMsg
    /\ persistCh' = Append(persistCh, unsaved)
    /\ unsaved' = NoMsg
    /\ UNCHANGED <<loopVars, channel, countVars, micVars, inbound, stored, connVars, clientVars,
                   dropped, lastMic, audience, scene>>

InsertChat ==
    /\ persistCh # <<>>
    /\ stored' = stored \cup {Head(persistCh)}
    /\ persistCh' = Tail(persistCh)
    /\ UNCHANGED <<loopVars, channel, countVars, micVars, inbound, unsaved, connVars, clientVars,
                   dropped, lastMic, audience, scene>>

-----------------------------------------------------------------------------
Run == Fanout \/ SeeQuit \/ RunReturns \/ (\E c \in Conns : Register(c) \/ Unregister(c))
OnRegister(c) == \/ AddListener(c) \/ SayJoined(c) \/ ReadHistory(c) \/ ReplayHistory(c)
                 \/ ReadMic(c) \/ ReplayMic(c)
OnUnregister(c) == \/ RemoveListener(c) \/ SayLeft(c) \/ ClearOwnedMic(c) \/ SayMicOff(c)
                   \/ SayEnded(c) \/ Stop(c)
Inbound == \/ Say \/ PersistChat \/ InsertChat
           \/ \E c \in Conns : \/ \E on \in BOOLEAN : HandleMic(c, on)
                               \/ \E m \in Msgs : HandleChat(c, m)

Next == Run \/ Inbound \/ \E c \in Conns : OnRegister(c) \/ OnUnregister(c)
Spec == Init /\ [][Next]_vars

-----------------------------------------------------------------------------
\* The hub serves and nothing is under way: no frame queued or about to be, no join or
\* leave unfinished.
Quiescent ==
    /\ ~quit /\ channel = <<>> /\ inbound = <<>> /\ unsaved = NoMsg /\ persistCh = <<>>
    /\ \A c \in Conns : join[c] \in {"new", "done"} /\ leave[c] \in {"no", "done"}

\* Once things settle every client shows how many the listeners set holds: concurrent joins
\* and leaves cannot leave an older count on the screens (countMu; no frame dropped), and a
\* count that Redis did not give, shown as 0, goes with the next one that it gives.
CountsConverge ==
    Quiescent /\ ~dropped /\ ~miscounted =>
        \A c \in members : shown[c].count = Cardinality(counted)

\* What is said in the room is heard in the room: whoever was in Clients when a chat
\* message or the final room_ended was enqueued, and is still there, has been shown it
\* when things have settled or the loop has returned (Run's flush).
SaidIsHeard ==
    (Quiescent \/ loop = "returned") /\ ~dropped =>
        \A m \in Msgs \cup {"ended"} : \A c \in audience[m] \cap members : m \in seen[c]

\* The mic frames reach everyone who had joined, in order: what such a client shows in the
\* end is what the last of them said.
MicHeardInOrder ==
    Quiescent /\ ~dropped => \A c \in audience["mic"] \cap members : shown[c].mic = lastMic

\* A client that joined shows the current mic state once things settle: the snapshot's
\* replay is at worst transiently stale (the interleaving note on sendInitialState).
MicShownIsCurrent ==
    Quiescent /\ ~dropped => \A c \in members : shown[c].mic = mic
=============================================================================
