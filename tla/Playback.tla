------------------------------ MODULE Playback ------------------------------
(***************************************************************************)
(* What ONE room plays: the playback state in Redis, now_playing and the   *)
(* flags of the room in Postgres, and the timer of SyncService that is to  *)
(* pop the next track when the current one ends.                           *)
(*                                                                         *)
(* Whoever changes these does it in several calls: the inboundLoops of the *)
(* hubs the room has had, each one DJ action at a time, and any number of  *)
(* goroutines, of HTTP handlers, of fired timers and of listeners'         *)
(* reports.  A goroutine is the list of calls it still has to make; one    *)
(* step makes one call, which may fail.                                    *)
(*                                                                         *)
(* Time is discrete.  No clock is kept but what is compared with it: how   *)
(* long ago a state was started, how long the timer has left, how long ago *)
(* the room was last advanced, each up to the bound beyond which it no     *)
(* longer matters.  So the state space is finite without bounding time.    *)
(***************************************************************************)
EXTENDS Integers, Sequences, FiniteSets

CONSTANTS Tracks, NoTrack,
          InitialQueue,  \* approved entries waiting at the start
          Playlist,      \* the live autoplay playlist
          Length,        \* duration each track is submitted with, 0 if unknown
          Workers, Main, Monitor, \* goroutines, main, IdleMonitor
          Loops,         \* inboundLoops: a hub that stops does not wait for its own
          Rooms,         \* the rooms to choose from: what they are and what happens in them
          Slow,          \* whether a call may take longer than a unit of time
          Debounce,      \* 10 seconds
          Slack,         \* 5 seconds
          MinPlay,       \* 60 seconds
          Fallback,      \* 600 seconds
          MaxLength,     \* models.MaxTrackDurationSecs
          IdleTimeout    \* 15 minutes

\* Tracks that people bring, those of the playlist apart.
Submitted == Tracks \ {Playlist[i] : i \in 1..Len(Playlist)}

ASSUME ConstantsOK ==
    /\ NoTrack \notin Tracks /\ Loops \cap Workers = {} /\ Main \notin Workers \cup Loops
    /\ Monitor \notin Workers \cup Loops \cup {Main} /\ IdleTimeout \in Nat \ {0}
    /\ InitialQueue \in Seq(Submitted) /\ Playlist \in Seq(Tracks)
    /\ Length \in [Tracks -> Nat] /\ \A t \in Tracks : Length[t] <= MaxLength
    /\ \A r \in Rooms : /\ r.autoplay \in BOOLEAN /\ r.attended \in BOOLEAN
                        /\ r.crashes \in Nat /\ r.failures \in Nat
    /\ Playlist # <<>> /\ Slow \in BOOLEAN
    /\ {Debounce, Slack, MinPlay, Fallback, MaxLength} \subseteq Nat \ {0}
    /\ Slack < Debounce /\ Debounce < MinPlay /\ MinPlay < Fallback /\ Fallback < MaxLength

VARIABLES
    room,       \* which room it is: its handlers, whether it is an autoplay room at the
                \* start, whether somebody is connected all along, how often the process may
                \* die and how many calls may fail
    queue,      \* approved entries, in order
    index,      \* current_index of the live playlist, counted from 1; 0: nothing played;
                \* NoPlaylist: there is none, or none with tracks
    duration,   \* tracks.duration
    live, autoplay,   \* flags of the room
    playback,   \* Redis playback state
    nowPlaying, \* Postgres now_playing
    hub,        \* whether the room has a hub
    armed, left,      \* the timer of SyncService.timers, and what is left on it
    since,      \* time since lastAdvance, up to Debounce
    idle,       \* time since idleSince, up to IdleTimeout; Untracked: the room is not in it
    task,       \* per goroutine: the calls it still has to make and its locals
    restarts,   \* how often the process has died
    failures,   \* how many calls have failed
    torn,       \* history: playback and nowPlaying were written by two at a time or by half
    amiss       \* history: what has gone amiss and not been made up for since

storeVars == <<queue, index, duration, live, autoplay, playback, nowPlaying>>
syncVars  == <<armed, left, since, idle>>
history   == <<failures, torn, amiss>>
vars      == <<room, storeVars, hub, syncVars, task, restarts, history>>

Procs == Workers \cup Loops \cup {Main, Monitor}
Untracked  == -1
NoPlaylist == -1
Ages  == 0..MaxLength
Playing(t) == [track |-> t, age |-> 0, playing |-> TRUE, pos |-> 0]
Nothing    == [track |-> NoTrack, age |-> 0, playing |-> FALSE, pos |-> 0]
States == [track : Tracks \cup {NoTrack}, age : Ages, playing : BOOLEAN, pos : Ages]
Calls == {"debounce", "findhub", "pop", "skip", "golive", "which", "readindex", "writeindex",
          "upsert", "now", "state", "live", "schedule", "cancel", "clearstate", "clearnow",
          "end", "pause", "resume", "save", "report", "verify", "learn",
          "setautoplay", "unsetautoplay", "playlist", "launch", "activate", "list", "start",
          "rooms", "playbacks", "counts", "judge", "untrack"}

\* A call failed while no timer was armed that advances the room, and none has been armed
\* since; the timer was set for a start that another had overtaken, or that was not saved; a
\* report did not get the duration of what plays; a stop did not get the room off autoplay.
Mishaps == {"failed", "stale", "unread", "unstopped"}

TypeOK ==
    /\ room \in Rooms /\ queue \in Seq(Tracks) /\ index \in NoPlaylist..Len(Playlist)
    /\ duration \in [Tracks -> Ages]
    /\ live \in BOOLEAN /\ autoplay \in BOOLEAN /\ hub \in BOOLEAN
    /\ playback \in States /\ nowPlaying \in Tracks \cup {NoTrack}
    /\ armed \in BOOLEAN /\ left \in Ages /\ since \in 0..Debounce
    /\ idle \in {Untracked} \cup 0..IdleTimeout
    /\ task \in [Procs -> [todo : Seq(Calls), ps : States, length : Ages, index : 0..Len(Playlist)]]
    /\ restarts \in 0..room.crashes /\ failures \in 0..room.failures
    /\ torn \in BOOLEAN /\ amiss \subseteq Mishaps

AdvanceTrack    == <<"debounce", "findhub", "pop", "now", "state", "schedule">>
AdvanceAutoplay == <<"readindex", "writeindex", "upsert", "now", "state", "schedule">>
StopPlaying     == <<"clearstate", "clearnow">>
StartAutoplayRooms == <<"list", "setautoplay", "start">>
IdleCheck  == <<"rooms", "playbacks", "counts", "judge">>
CloseRoom  == <<"end", "clearnow", "clearstate">>

\* main starts the autoplay rooms before it listens.
Idle == [todo |-> <<>>, ps |-> Nothing, length |-> 0, index |-> 0]
Booting == [p \in Procs |-> IF p = Main THEN [Idle EXCEPT !.todo = StartAutoplayRooms] ELSE Idle]

Init ==
    /\ room \in Rooms
    /\ queue = IF room.autoplay THEN <<>> ELSE InitialQueue
    /\ index = 0 /\ duration = Length
    /\ live = room.autoplay /\ autoplay = room.autoplay
    /\ playback = Nothing /\ nowPlaying = NoTrack
    /\ hub = room.attended
    /\ armed = FALSE /\ left = 0 /\ since = Debounce /\ idle = Untracked
    /\ task = Booting /\ restarts = 0
    /\ failures = 0 /\ torn = FALSE /\ amiss = {}

-----------------------------------------------------------------------------
(* Goroutines *)

Free(p) == task[p].todo = <<>>
Quiet   == \A p \in Procs : Free(p)
At(p, call) == ~Free(p) /\ Head(task[p].todo) = call

\* p goes on with the calls cs and the locals f leaves; a goroutine that ends forgets them.
GoOn(p, cs, local) ==
    task' = [task EXCEPT ![p] = IF cs = <<>> THEN Idle ELSE [local EXCEPT !.todo = cs]]
Done(p) == GoOn(p, Tail(task[p].todo), task[p])
Return(p) == GoOn(p, <<>>, task[p])

\* p has written one half of what plays and is to write the other, or to write back what it
\* read.
ToDo(p) == {task[p].todo[i] : i \in DOMAIN task[p].todo}
HalfWay(p) ==
    \/ "state" \in ToDo(p) /\ "now" \notin ToDo(p)
    \/ ("clearnow" \in ToDo(p)) # ("clearstate" \in ToDo(p))
    \/ "save" \in ToDo(p) /\ ToDo(p) \cap {"pause", "resume"} = {}

\* History: p writes one of the two.
Writes(p) == torn' = ((\E q \in Procs \ {p} : HalfWay(q)) \/ (torn /\ HalfWay(p)))

\* DJ actions, which an inboundLoop handles one at a time ...
DJActions ==
    [dj_skip     |-> <<"skip", "now", "state">>,
     dj_go_live  |-> <<"golive", "now", "live", "state">>,
     dj_pause    |-> <<"pause", "save">>,
     dj_resume   |-> <<"resume", "save">>,
     dj_end_room |-> <<"end", "clearnow", "clearstate">>]

\* ... and the handlers that run concurrently.
Concurrent ==
    [GoLive            |-> <<"now", "state", "live", "schedule">>,
     EndSession        |-> <<"end", "clearnow", "clearstate", "cancel">>,
     autoplay_track_ended |-> <<"report", "verify">> \o AdvanceTrack,
     report_duration   |-> <<"report", "learn", "schedule">>,
     ActivatePlaylist  |-> <<"activate", "setautoplay", "cancel", "clearstate", "clearnow">>
                             \o StartAutoplayRooms,
     StartAutoplayRoom |-> <<"playlist", "launch">> \o StartAutoplayRooms,
     StopAutoplayRoom  |-> <<"unsetautoplay", "cancel", "clearstate", "clearnow">>]

\* GoLive brings a track of its own.  A DJ action may still wait in the inbound channel of a
\* hub that has stopped: the loop's select takes it or leaves.
Begin(p) ==
    /\ Free(p) /\ p \notin {Main, Monitor} /\ Free(Main)
    /\ IF p \in Loops
       THEN \E a \in room.handlers \cap DOMAIN DJActions : GoOn(p, DJActions[a], Idle)
       ELSE \E h \in room.handlers \cap DOMAIN Concurrent :
              \E t \in IF h = "GoLive" THEN Submitted ELSE {NoTrack} :
                GoOn(p, Concurrent[h],
                     [Idle EXCEPT !.ps.track = t, !.length = IF t = NoTrack THEN 0 ELSE duration[t]])
    /\ UNCHANGED <<storeVars, hub, syncVars, restarts, room, history>>

\* A submission that needs no approval.
Submit(t) ==
    /\ "submit" \in room.handlers /\ Len(queue) < Cardinality(Submitted)
    /\ queue' = Append(queue, t)
    /\ UNCHANGED <<index, duration, live, autoplay, playback, nowPlaying, hub, syncVars, task, restarts, room, history>>

-----------------------------------------------------------------------------
(* SyncService *)

\* The timer's goroutine, or "go s.advanceTrack": it starts in a worker that is free.
FireTimer(q) ==
    /\ armed /\ left = 0
    /\ q \in Workers /\ Free(q)
    /\ armed' = FALSE
    /\ GoOn(q, AdvanceTrack, Idle)
    /\ UNCHANGED <<storeVars, hub, left, since, idle, restarts, room, history>>

\* Mutant: the debounce is checked but never recorded.
NeverDebounces(p) ==
    /\ At(p, "debounce")
    /\ armed' = FALSE /\ Done(p)
    /\ UNCHANGED <<storeVars, hub, left, since, idle, restarts, room, history>>

DebounceAdvance(p) ==
    /\ At(p, "debounce")
    /\ IF since < Debounce
       THEN Return(p) /\ UNCHANGED <<armed, since>>
       ELSE since' = 0 /\ armed' = FALSE /\ Done(p)
    /\ UNCHANGED <<storeVars, hub, left, idle, restarts, room, history>>

FindHub(p) ==
    /\ At(p, "findhub")
    /\ IF hub THEN Done(p) ELSE Return(p)
    /\ UNCHANGED <<storeVars, hub, syncVars, restarts, room, history>>

\* Mutant: milliseconds taken for seconds, so that every track is overdue.
AlwaysOverdue(p) ==
    /\ At(p, "schedule")
    /\ armed' = FALSE
    /\ \E q \in Workers : /\ q = p \/ Free(q)
                          /\ task' = [task EXCEPT ![p] = Idle,
                                                  ![q] = [Idle EXCEPT !.todo = AdvanceTrack]]
    /\ UNCHANGED <<storeVars, hub, left, since, idle, restarts, room, history>>

\* A timer with d left would advance the room: it has a hub, and the debounce is over by then.
Outlasts(d) == hub /\ since + d >= Debounce

\* ScheduleAdvance under mu; an overdue track is advanced at once, in a new goroutine.  What
\* it was given may no longer be what plays (history).
ScheduleAdvance(p) ==
    LET length == IF task[p].length = 0 /\ autoplay THEN Fallback ELSE task[p].length
        over   == task[p].ps.age >= length
        stale  == {m \in {"stale"} : task[p].ps # playback}
    IN  /\ At(p, "schedule")
        /\ amiss' = stale \cup IF length > 0 /\ ~over /\ Outlasts(length - task[p].ps.age)
                               THEN amiss \ {"failed", "stale"} ELSE amiss
        /\ IF length = 0
           THEN armed' = FALSE /\ Done(p) /\ UNCHANGED left
           ELSE IF over
                THEN /\ armed' = FALSE
                     /\ \E q \in Workers :
                          /\ q = p \/ Free(q)
                          /\ task' = [task EXCEPT ![p] = Idle,
                                                  ![q] = [Idle EXCEPT !.todo = AdvanceTrack]]
                     /\ UNCHANGED left
                ELSE armed' = TRUE /\ left' = length - task[p].ps.age /\ Done(p)
        /\ UNCHANGED <<storeVars, hub, since, idle, restarts, room, failures, torn>>

CancelAdvance(p) ==
    /\ At(p, "cancel")
    /\ armed' = FALSE
    /\ Done(p)
    /\ UNCHANGED <<storeVars, hub, left, since, idle, restarts, room, history>>

\* GetRoomByID of an advance that found the queue empty.
WhichRoom(p) ==
    /\ At(p, "which")
    /\ GoOn(p, IF autoplay THEN AdvanceAutoplay ELSE StopPlaying, task[p])
    /\ UNCHANGED <<storeVars, hub, syncVars, restarts, room, history>>

\* handleClientEndReport and handleDurationReport: an autoplay room that plays a track.
ReadReport(p) ==
    /\ At(p, "report")
    /\ IF autoplay /\ playback.playing /\ playback.track # NoTrack
       THEN GoOn(p, Tail(task[p].todo), [task[p] EXCEPT !.ps = playback])
       ELSE Return(p)
    /\ UNCHANGED <<storeVars, hub, syncVars, restarts, room, history>>

\* Mutant: the end is accepted whenever it is reported.
VerifiesNothing(p) == At(p, "verify") /\ Done(p) /\ UNCHANGED <<storeVars, hub, syncVars, restarts, room, history>>

VerifyEnd(p) ==
    LET ps == task[p].ps IN
    /\ At(p, "verify")
    /\ IF ps.age >= IF duration[ps.track] > 0 THEN duration[ps.track] - Slack ELSE MinPlay
       THEN Done(p) ELSE Return(p)
    /\ UNCHANGED <<storeVars, hub, syncVars, restarts, room, history>>

\* Mutant: no upper bound.
LearnsAnything(p) ==
    /\ At(p, "learn")
    /\ duration[task[p].ps.track] = 0
    /\ duration' = [duration EXCEPT ![task[p].ps.track] = MaxLength + 1]
    /\ Done(p)
    /\ UNCHANGED <<queue, index, live, autoplay, playback, nowPlaying, hub, syncVars, restarts, room, history>>

\* UpdateTrackDuration: only the first report of a track with no duration wins.
LearnDuration(p) ==
    LET t == task[p].ps.track IN
    /\ At(p, "learn")
    /\ IF duration[t] > 0
       THEN Return(p) /\ UNCHANGED duration
       ELSE \E d \in MinPlay..MaxLength :
              /\ duration' = [duration EXCEPT ![t] = d]
              /\ GoOn(p, Tail(task[p].todo), [task[p] EXCEPT !.length = d])
    /\ UNCHANGED <<queue, index, live, autoplay, playback, nowPlaying, hub, syncVars, restarts, room, history>>

\* StartAutoplayRooms, on this room if it is listed: a room that plays is rescheduled,
\* any other advanced.
ListRoom(p) ==
    /\ At(p, "list")
    /\ IF autoplay THEN Done(p) ELSE Return(p)
    /\ UNCHANGED <<storeVars, hub, syncVars, restarts, room, history>>

\* Mutant: a room that has a hub is taken to be running.
SkipsRunning(p) ==
    /\ At(p, "start")
    /\ hub' = TRUE
    /\ IF hub THEN Return(p) ELSE GoOn(p, AdvanceAutoplay, task[p])
    /\ UNCHANGED <<storeVars, syncVars, restarts, room, history>>

StartRoom(p) ==
    /\ At(p, "start")
    /\ hub' = TRUE
    /\ IF playback.playing /\ playback.track # NoTrack
       THEN GoOn(p, <<"schedule">>, [task[p] EXCEPT !.ps = playback,
                                                    !.length = duration[playback.track]])
       ELSE GoOn(p, AdvanceAutoplay, task[p])
    /\ UNCHANGED <<storeVars, syncVars, restarts, room, history>>

-----------------------------------------------------------------------------
(* IdleMonitor *)

\* The ticker.
CheckIdle ==
    /\ "IdleMonitor" \in room.handlers
    /\ Free(Monitor) /\ Free(Main)
    /\ GoOn(Monitor, IdleCheck, Idle)
    /\ UNCHANGED <<storeVars, hub, syncVars, restarts, room, history>>

\* The reads before mu: is the room live, does it play, has it approved entries?  One that
\* is not idle is only taken out of idleSince.
LooksBusy == [rooms |-> ~live, playbacks |-> playback.track # NoTrack, counts |-> queue # <<>>]
ReadIdleness(p) ==
    /\ \E call \in DOMAIN LooksBusy :
         At(p, call) /\ IF LooksBusy[call] THEN GoOn(p, <<"untrack">>, Idle) ELSE Done(p)
    /\ UNCHANGED <<storeVars, hub, syncVars, restarts, room, history>>

\* Mutant: every look at an idle room starts its timer again.
RestartsItsTimer(p) ==
    /\ At(p, "judge")
    /\ idle' = 0 /\ Done(p)
    /\ UNCHANGED <<storeVars, hub, armed, left, since, restarts, room, history>>

\* Under mu: start the room's timer, or close the room once it has been idle long enough.
JudgeIdle(p) ==
    /\ At(p, "judge")
    /\ IF idle = IdleTimeout
       THEN GoOn(p, CloseRoom \o <<"untrack">>, Idle) /\ UNCHANGED idle
       ELSE idle' = (IF idle = Untracked THEN 0 ELSE idle) /\ Done(p)
    /\ UNCHANGED <<storeVars, hub, armed, left, since, restarts, room, history>>

Untrack(p) ==
    /\ At(p, "untrack")
    /\ idle' = Untracked /\ Done(p)
    /\ UNCHANGED <<storeVars, hub, armed, left, since, restarts, room, history>>

-----------------------------------------------------------------------------
(* Calls to Postgres and Redis *)

\* Mutant: a skip that finds nothing leaves now_playing as it is.
ForgetsNowPlaying == [pop |-> <<"which">>, skip |-> <<"clearstate">>, golive |-> <<>>]

\* PopNextTrack, of an advance, of dj_skip and of dj_go_live.
OnEmptyQueue == [pop |-> <<"which">>, skip |-> StopPlaying, golive |-> <<>>]
PopNextTrack(p) ==
    /\ \E call \in DOMAIN OnEmptyQueue :
         /\ At(p, call)
         /\ IF queue = <<>>
            THEN GoOn(p, OnEmptyQueue[call], task[p]) /\ UNCHANGED queue
            ELSE /\ queue' = Tail(queue)
                 /\ GoOn(p, Tail(task[p].todo), [task[p] EXCEPT !.ps.track = Head(queue),
                                                               !.length = duration[Head(queue)]])
    /\ UNCHANGED <<index, duration, live, autoplay, playback, nowPlaying, hub, syncVars, restarts, room, history>>

\* GetNextAutoplayTrack: read the playlist, then write the index back.
ReadIndex(p) ==
    /\ At(p, "readindex")
    /\ IF index = NoPlaylist
       THEN GoOn(p, StopPlaying, task[p])
       ELSE GoOn(p, Tail(task[p].todo), [task[p] EXCEPT !.index = (index % Len(Playlist)) + 1])
    /\ UNCHANGED <<storeVars, hub, syncVars, restarts, room, history>>

WriteIndex(p) ==
    /\ At(p, "writeindex")
    /\ index' = IF index = NoPlaylist THEN index ELSE task[p].index
    /\ GoOn(p, Tail(task[p].todo), [task[p] EXCEPT !.ps.track = Playlist[task[p].index]])
    /\ UNCHANGED <<queue, duration, live, autoplay, playback, nowPlaying, hub, syncVars, restarts, room, history>>

\* UpsertAutoplayTrack: a known length of the playlist replaces what was learned, and the
\* effective duration comes back.
UpsertAutoplayTrack(p) ==
    LET t == task[p].ps.track
        d == IF Length[t] > 0 THEN Length[t] ELSE duration[t]
    IN  /\ At(p, "upsert")
        /\ duration' = [duration EXCEPT ![t] = d]
        /\ GoOn(p, Tail(task[p].todo), [task[p] EXCEPT !.length = d])
        /\ UNCHANGED <<queue, index, live, autoplay, playback, nowPlaying, hub, syncVars, restarts, room, history>>

SetNowPlaying(p) ==
    /\ At(p, "now")
    /\ nowPlaying' = task[p].ps.track
    /\ Done(p) /\ Writes(p)
    /\ UNCHANGED <<queue, index, duration, live, autoplay, playback, hub, syncVars, restarts, room, failures, amiss>>

\* SetPlaybackState, of a track that starts ...
SetPlaybackState(p) ==
    LET ps == Playing(task[p].ps.track) IN
    /\ At(p, "state")
    /\ playback' = ps
    /\ GoOn(p, Tail(task[p].todo), [task[p] EXCEPT !.ps = ps]) /\ Writes(p)
    /\ amiss' = amiss \ {"unread"}
    /\ UNCHANGED <<queue, index, duration, live, autoplay, nowPlaying, hub, syncVars, restarts, room, failures>>

\* ... and of dj_pause and dj_resume, which read the state first.
ReadPlaybackState(p) ==
    /\ \/ /\ At(p, "pause") /\ playback.playing
          /\ GoOn(p, Tail(task[p].todo),
                  [task[p] EXCEPT !.ps = [playback EXCEPT !.playing = FALSE, !.pos = playback.age]])
       \/ /\ At(p, "resume") /\ ~playback.playing /\ playback.track # NoTrack
          /\ GoOn(p, Tail(task[p].todo),
                  [task[p] EXCEPT !.ps = [playback EXCEPT !.playing = TRUE, !.age = playback.pos]])
       \/ At(p, "pause") /\ ~playback.playing /\ Return(p)
       \/ At(p, "resume") /\ (playback.playing \/ playback.track = NoTrack) /\ Return(p)
    /\ UNCHANGED <<storeVars, hub, syncVars, restarts, room, history>>
SavePlaybackState(p) ==
    /\ At(p, "save")
    /\ playback' = task[p].ps
    /\ Done(p) /\ Writes(p)
    /\ UNCHANGED <<queue, index, duration, live, autoplay, nowPlaying, hub, syncVars, restarts, room, failures, amiss>>

ClearPlaybackState(p) ==
    /\ At(p, "clearstate")
    /\ playback' = Nothing
    /\ Done(p) /\ Writes(p)
    /\ UNCHANGED <<queue, index, duration, live, autoplay, nowPlaying, hub, syncVars, restarts, room, failures, amiss>>

ClearNowPlaying(p) ==
    /\ At(p, "clearnow")
    /\ nowPlaying' = NoTrack
    /\ Done(p) /\ Writes(p)
    /\ UNCHANGED <<queue, index, duration, live, autoplay, playback, hub, syncVars, restarts, room, failures, amiss>>

\* SetRoomLive and EndRoom; the is_autoplay flag stays.
SetRoomLive(p) ==
    /\ At(p, "live") \/ At(p, "end")
    /\ live' = At(p, "live")
    /\ Done(p)
    /\ UNCHANGED <<queue, index, duration, autoplay, playback, nowPlaying, hub, syncVars, restarts, room, history>>

SetRoomAutoplay(p) ==
    /\ \E call \in {"setautoplay", "launch", "unsetautoplay"} :
         At(p, call) /\ autoplay' = (call # "unsetautoplay") /\ live' = autoplay'
    /\ amiss' = amiss \ {"unstopped"}
    /\ Done(p)
    /\ UNCHANGED <<queue, index, duration, playback, nowPlaying, hub, syncVars, restarts, room, failures, torn>>

\* StartAutoplayRoom first looks for a live playlist.
FindPlaylist(p) ==
    /\ At(p, "playlist")
    /\ IF index = NoPlaylist THEN Return(p) ELSE Done(p)
    /\ UNCHANGED <<storeVars, hub, syncVars, restarts, room, history>>

\* The live playlist is deleted.  The staged one that takes over has the same tracks; if there
\* is none the handler answers 400.
ActivateStagedPlaylist(p) ==
    /\ At(p, "activate")
    /\ \/ index' = 0 /\ Done(p)
       \/ index' = NoPlaylist /\ Return(p)
    /\ UNCHANGED <<queue, duration, live, autoplay, playback, nowPlaying, hub, syncVars, restarts, room, history>>

-----------------------------------------------------------------------------
(* Calls that fail *)

\* The handler returns, with an answer or a line in the log ...
GivesUp == {"pop", "skip", "golive", "pause", "resume", "report", "learn", "playlist", "launch",
            "activate", "list", "rooms", "playbacks", "counts"}

\* ... and what the call was to do may be done all the same: its answer is lost.
LostAnswer(p) ==
    \/ UNCHANGED <<queue, index, duration, live, autoplay>>
    \/ /\ \E call \in DOMAIN OnEmptyQueue : At(p, call)
       /\ queue # <<>> /\ queue' = Tail(queue)
       /\ UNCHANGED <<index, duration, live, autoplay>>
    \/ /\ At(p, "learn") /\ duration[task[p].ps.track] = 0
       /\ \E d \in MinPlay..MaxLength : duration' = [duration EXCEPT ![task[p].ps.track] = d]
       /\ UNCHANGED <<queue, index, live, autoplay>>
    \/ /\ At(p, "launch") /\ autoplay' = TRUE /\ live' = TRUE
       /\ UNCHANGED <<queue, index, duration>>
    \/ /\ At(p, "activate") /\ index' \in {0, NoPlaylist}
       /\ UNCHANGED <<queue, duration, live, autoplay>>

\* The error is not looked at, and the next call is made.
Ignored == {"now", "live", "end", "clearstate", "clearnow", "save", "setautoplay", "unsetautoplay"}

\* The rest goes on with what it has: the track it was to write, the duration the playlist
\* gives, no room and so no autoplay room, no playlist, no track to verify or to go on with.
GoesOnWithout(p) ==
    LET l == task[p] IN
    \/ (\E call \in Ignored : At(p, call)) /\ Done(p)
    \/ At(p, "state") /\ GoOn(p, Tail(l.todo), [l EXCEPT !.ps = Playing(l.ps.track)])
    \/ At(p, "writeindex") /\ GoOn(p, Tail(l.todo), [l EXCEPT !.ps.track = Playlist[l.index]])
    \/ At(p, "upsert") /\ GoOn(p, Tail(l.todo), [l EXCEPT !.length = Length[l.ps.track]])
    \/ (At(p, "which") \/ At(p, "readindex")) /\ GoOn(p, StopPlaying, l)
    \/ At(p, "verify") /\ l.ps.age >= MinPlay /\ Done(p)
    \/ At(p, "verify") /\ l.ps.age < MinPlay /\ Return(p)
    \/ At(p, "start") /\ GoOn(p, AdvanceAutoplay, l)
    \/ At(p, "schedule") /\ l.length = 0 /\ Done(p)

CallFails(p) ==
    /\ failures < room.failures /\ failures' = failures + 1
    /\ \/ (\E call \in GivesUp : At(p, call)) /\ Return(p) /\ LostAnswer(p)
       \/ GoesOnWithout(p) /\ UNCHANGED <<queue, index, duration, live, autoplay>>
    /\ hub' = (hub \/ At(p, "start")) /\ armed' = (armed /\ ~At(p, "schedule"))
    /\ torn' = (torn \/ \E call \in {"now", "state", "clearnow", "clearstate"} : At(p, call))
    /\ amiss' = amiss \cup {m \in {"failed"} : ~(armed' /\ Outlasts(left))}
                      \cup {m \in {"unread"} : At(p, "verify")}
                      \cup {m \in {"unstopped"} : At(p, "unsetautoplay")}
    /\ UNCHANGED <<playback, nowPlaying, left, since, idle, restarts, room>>

-----------------------------------------------------------------------------
\* The first connection makes the hub; the last to leave a room that is not live stops it.
HubComesAndGoes ==
    /\ ~room.attended
    /\ hub' = ~hub /\ (hub => ~live)
    /\ UNCHANGED <<storeVars, syncVars, task, restarts, room, history>>

\* The process dies and comes back: timers, debounce, hubs and goroutines are gone, what
\* Redis and Postgres hold stays, rooms that are not autoplay go offline.
Restart ==
    /\ restarts < room.crashes /\ restarts' = restarts + 1
    /\ task' = Booting
    /\ armed' = FALSE /\ left' = 0 /\ since' = Debounce /\ idle' = Untracked
    /\ hub' = room.attended /\ live' = (live /\ autoplay)
    /\ nowPlaying' = IF autoplay THEN nowPlaying ELSE NoTrack
    /\ torn' = (torn \/ nowPlaying' # nowPlaying \/ \E p \in Procs : HalfWay(p))
    /\ amiss' = amiss \ {"failed", "stale"}
    /\ UNCHANGED <<queue, index, duration, autoplay, playback, room, failures>>

Older(ps) == IF ps.track = NoTrack \/ ps.age = MaxLength THEN ps ELSE [ps EXCEPT !.age = @ + 1]

Tick ==
    /\ Slow \/ Quiet
    /\ playback' = Older(playback)
    /\ task' = [p \in Procs |-> [task[p] EXCEPT !.ps = Older(@)]]
    /\ left' = IF armed /\ left > 0 THEN left - 1 ELSE left
    /\ since' = IF since < Debounce THEN since + 1 ELSE since
    /\ idle' = IF idle \in 0..(IdleTimeout - 1) THEN idle + 1 ELSE idle
    /\ UNCHANGED <<queue, index, duration, live, autoplay, nowPlaying, hub, armed, restarts, room, history>>

Step(p) ==
    \/ DebounceAdvance(p) \/ FindHub(p) \/ PopNextTrack(p) \/ WhichRoom(p)
    \/ ScheduleAdvance(p) \/ CancelAdvance(p)
    \/ SetNowPlaying(p) \/ SetPlaybackState(p) \/ ClearPlaybackState(p) \/ ClearNowPlaying(p)
    \/ ReadPlaybackState(p) \/ SavePlaybackState(p) \/ SetRoomLive(p)
    \/ ReadReport(p) \/ VerifyEnd(p) \/ LearnDuration(p)
    \/ ReadIndex(p) \/ WriteIndex(p) \/ UpsertAutoplayTrack(p)
    \/ SetRoomAutoplay(p) \/ FindPlaylist(p) \/ ActivateStagedPlaylist(p)
    \/ ListRoom(p) \/ StartRoom(p)
    \/ ReadIdleness(p) \/ JudgeIdle(p) \/ Untrack(p)

Next == \/ \E p \in Procs : Begin(p) \/ Step(p) \/ CallFails(p) \/ FireTimer(p)
        \/ \E t \in Submitted : Submit(t)
        \/ CheckIdle \/ HubComesAndGoes \/ Tick \/ Restart

Spec == Init /\ [][Next]_vars

\* Goroutines run and calls return, the ticker ticks; a timer that is due gets its goroutine
\* however many handlers take the workers meanwhile, and time passes (strong fairness).  It
\* passes between handlers here: behaviours in which they overlap for ever are left out.
Fairness == /\ \A p \in Procs : WF_vars(Step(p))
            /\ WF_vars(CheckIdle)
            /\ SF_vars(\E p \in Workers : FireTimer(p))
            /\ []<>Quiet /\ SF_vars(Tick)
FairSpec == Spec /\ Fairness

-----------------------------------------------------------------------------
\* p has passed the debounce and is to start a track: it has not got to ScheduleAdvance.
Rest(calls) == {SubSeq(calls, i, Len(calls)) : i \in 1..(Len(calls) - 1)}
Advancing(p) == task[p].todo \in
    (Rest(AdvanceTrack) \ {AdvanceTrack}) \cup Rest(AdvanceAutoplay) \cup {<<"which">>}

\* Two goroutines never advance a room at the same time, as long as an advance takes less
\* than the debounce: whatever timers, reports and overdue schedules start.
OneAdvanceAtATime ==
    ~Slow /\ room.handlers \cap {"ActivatePlaylist", "StartAutoplayRoom"} = {} =>
        \A p, q \in Workers : Advancing(p) /\ Advancing(q) => p = q

\* A room that plays a track of known duration has its end scheduled: when nothing is
\* under way the timer is armed.
TimedToEnd ==
    Quiet /\ live /\ playback.playing /\ (autoplay \/ duration[playback.track] > 0) => armed

\* The debounce swallows the timer of a track that is shorter, also when such a timer ends
\* up with the track that overtook it; and when two tracks start at once, the schedule of
\* one whose duration is unknown stops the timer of the other.
NoneTooShort == \A t \in Tracks : duration[t] \notin 1..(Debounce - 1)
NoneUnknown  == \A t \in Submitted : duration[t] > 0

\* So it is in a room that somebody attends and that starts its tracks over HTTP, by the
\* timer or by its listeners' reports, also when these race each other, and in an autoplay
\* room when they race the stop: as long as no track is shorter than the debounce.  A call
\* that fails while no timer is armed (the pop after the debounce, the read of the room in
\* ScheduleAdvance) leaves the track without one, until a timer is armed again.
EndIsScheduled ==
    /\ ~Slow /\ room.attended /\ NoneTooShort
    /\ \/ room.handlers \subseteq {"GoLive", "submit", "autoplay_track_ended"} /\ NoneUnknown
       \/ room.handlers \subseteq {"autoplay_track_ended", "StopAutoplayRoom"}
    => TimedToEnd \/ "failed" \in amiss

\* What the room's page says is playing is what plays, in every room and whatever runs: the
\* two differ only if two handlers wrote them at a time, or a write failed, or the process
\* died in between, and then no longer than until the next handler that writes both alone.
NowPlayingIsPlayed == Quiet /\ ~torn => nowPlaying = playback.track

OnlyEndsReported == room.handlers \subseteq {"autoplay_track_ended", "StopAutoplayRoom"}

\* As long as a room is an autoplay room no track goes off the air before it has played for
\* its duration, less the slack, or for the minimum time if that is unknown or could not be
\* read, whenever its end is reported.  But for main, which starts the room anew after a
\* restart if it cannot read what plays, and for the timer of a track that was not saved.
SkipRateCapped ==
    [][LET d == duration[playback.track] IN
       ~Slow /\ OnlyEndsReported /\ autoplay /\ amiss \cap {"unstopped", "stale"} = {} /\ Free(Main)
         /\ playback' # playback /\ playback.track # NoTrack /\ playback'.age = 0
         => \/ d > 0 /\ playback.age >= d - Slack
            \/ (d = 0 \/ "unread" \in amiss) /\ playback.age >= MinPlay]_vars

\* An autoplay room that has a playlist and that nobody stops does not stay silent, nor with a
\* track that is over: whatever activations, reports and crashes clear or overtake, some
\* goroutine starts the next track.  Unless a call failed while no timer was armed, or the
\* timer was last set for a start that another had overtaken, and none has been set since.
Unstopped == room.handlers \subseteq
    {"ActivatePlaylist", "StartAutoplayRoom", "autoplay_track_ended", "report_duration"}
Over == \/ playback.track = NoTrack
        \/ playback.age >= IF duration[playback.track] > 0 THEN duration[playback.track] ELSE Fallback
Stalled == Unstopped /\ autoplay /\ index # NoPlaylist /\ Over /\ amiss \cap {"failed", "stale"} = {}
SilenceEnds == Stalled ~> ~Stalled

\* A live room that has nothing to play is not left open: somebody brings a track or the
\* idle monitor closes it, whatever its looks race with.
NothingToPlay == live /\ playback.track = NoTrack /\ queue = <<>>
IdleRoomsClose == "IdleMonitor" \in room.handlers /\ NothingToPlay ~> ~NothingToPlay

\* A room that ended stays silent: once nothing is under way it plays nothing and has no
\* timer that could start anything.
EndIsFinal == Quiet /\ ~live => playback.track = NoTrack /\ ~armed
=============================================================================
