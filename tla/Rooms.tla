------------------------------- MODULE Rooms --------------------------------
(***************************************************************************)
(* The rooms as the HTTP handlers see them: the rows of ONE creator's      *)
(* rooms and of ONE autoplay room, the radio; the playlists of the radio,  *)
(* which the admin edits on the air; what the radio plays; and the cached  *)
(* list of rooms that visitors get.                                        *)
(*                                                                         *)
(* A request, or an advance of the radio, is the list of the statements it *)
(* still has to run.  Each is a step and each may fail: a handler that     *)
(* checks the error ends there, the others go on.                          *)
(*                                                                         *)
(* The request that creates a room gives it its number; 0 is the radio.    *)
(* Left out: what a row says about the room besides, the timer and the     *)
(* debounce of the radio (see Playback: here it advances at any time, one  *)
(* advance by timer at once), the tracks of the other rooms, and what the  *)
(* list shows.                                                             *)
(***************************************************************************)
EXTENDS Integers, Sequences, FiniteSets, Functions

CONSTANTS Songs, Silence,
          Lists,        \* the playlists an admin saves
          Calls, Nobody,
          Kinds,        \* the requests that are made
          Cap,          \* open rooms per creator
          MaxRequests   \* bound on the requests over a behaviour

VARIABLES
    rooms, live, ended,   \* rows; those with is_live, those with ended_at
    autoplay,             \* is_autoplay of the radio
    playlist,             \* autoplay_playlists of the radio, by status
    now, heard,           \* of the radio: now_playing in Postgres, the playback state in Redis
    cached, flight,       \* the list's payload is cached; the request that builds it
    call, requests,       \* the requests under way; how many there have been
    torn,                 \* history: an edit of the radio met another, or failed half way
    uncounted             \* history: how many creations could not count the open rooms

rowVars   == <<rooms, live, ended, autoplay>>
radioVars == <<playlist, now, heard, torn>>
listVars  == <<cached, flight>>
vars == <<rowVars, radioVars, listVars, call, requests, uncounted>>

Radio == 0
Ids   == 0..MaxRequests
\* index counts from 1, 0 is the column's -1: nothing played yet.  Two edits that meet may
\* leave it beyond the list's end.
NoList    == [exists |-> FALSE, tracks |-> <<>>, index |-> 0]
Listing(tracks, index) == [exists |-> TRUE, tracks |-> tracks, index |-> index]
Indices   == UNION {0..Len(l) : l \in Lists \cup {<<>>}}
Playlists == [exists : BOOLEAN, tracks : Lists \cup {<<>>}, index : Indices]

\* The statements of each handler, in order; the end of a room that is not the radio has
\* nothing to clear here.
AdvanceAutoplay    == <<"readIndex", "writeIndex", "setNow", "play">>
StopPlaying        == <<"clearHeard", "clearNow">>
StartAutoplayRooms == <<"which", "onAir", "start">>
Create       == <<"count", "insert">>
GoLive       == <<"setLive">>
EndSession   == <<"setEnded">>
ShutdownRoom == <<"setEnded", "clearNow", "clearHeard">>
DeleteRoom   == <<"clearNow", "clearHeard", "drop">>
ListRooms    == <<"peek", "join", "recheck", "build", "keep", "land">>
SaveStagedPlaylist   == <<"saveStaged">>
DeleteStagedPlaylist == <<"unstage">>
UpdateLiveSnippets   == <<"readLive", "saveLive">>
UpdateLiveTracks     == <<"readLive", "readNow", "saveLive">>
ActivatePlaylist  == <<"promote", "reread", "onAir">> \o StopPlaying \o StartAutoplayRooms
StartAutoplayRoom == <<"readLive", "onAir">> \o StartAutoplayRooms
StopAutoplayRoom  == <<"offAir">> \o StopPlaying

Plan == [create |-> Create, golive |-> GoLive, end |-> EndSession,
         shutdown |-> ShutdownRoom, remove |-> DeleteRoom, list |-> ListRooms,
         stage |-> SaveStagedPlaylist, unstage |-> DeleteStagedPlaylist,
         snippets |-> UpdateLiveSnippets, tracks |-> UpdateLiveTracks,
         activate |-> ActivatePlaylist, start |-> StartAutoplayRoom,
         stop |-> StopAutoplayRoom, advance |-> AdvanceAutoplay]

ASSUME ConstantsOK ==
    /\ Silence \notin Songs /\ Nobody \notin Calls /\ Lists \subseteq Seq(Songs)
    /\ Kinds \subseteq DOMAIN Plan /\ MaxRequests \in Nat /\ Cap \in Nat
    /\ IsFiniteSet(Calls) /\ Calls # {}

Steps == {"wait"} \cup UNION {Range(Plan[k]) : k \in DOMAIN Plan}
\* Steps in memory, which cannot fail; and those whose error ends the request.
InMemory  == {"peek", "join", "recheck", "keep", "land", "wait"}
Essential == {"insert", "drop", "saveStaged", "readLive", "saveLive", "promote", "reread", "which"}

NoCall == [kind |-> "none", todo |-> <<>>, room |-> Radio, serial |-> 0, tracks |-> <<>>,
           index |-> 0, now |-> Silence, fresh |-> TRUE]

TypeOK ==
    /\ rooms \subseteq Ids /\ live \subseteq rooms /\ ended \subseteq rooms
    /\ autoplay \in BOOLEAN
    /\ playlist \in [{"live", "staged"} -> Playlists]
    /\ now \in Songs \cup {Silence} /\ heard \in Songs \cup {Silence}
    /\ cached \in BOOLEAN /\ flight \in Calls \cup {Nobody}
    /\ call \in [Calls -> [kind : DOMAIN Plan \cup {"none"}, todo : Seq(Steps), room : Ids,
                           serial : Ids, tracks : Lists \cup {<<>>}, index : Indices,
                           now : Songs \cup {Silence}, fresh : BOOLEAN]]
    /\ requests \in Ids /\ torn \in BOOLEAN /\ uncounted \in Nat

\* The radio is off with a playlist staged, or it has been on the air for a while.
Init ==
    /\ rooms = {Radio} /\ ended = {} /\ autoplay \in BOOLEAN
    /\ live = IF autoplay THEN {Radio} ELSE {}
    /\ \E l \in Lists : /\ l # <<>>
                        /\ playlist = [live   |-> IF autoplay THEN Listing(l, 1) ELSE NoList,
                                       staged |-> IF autoplay THEN NoList ELSE Listing(l, 0)]
    /\ heard = IF autoplay THEN playlist["live"].tracks[1] ELSE Silence
    /\ now = heard
    /\ cached = FALSE /\ flight = Nobody
    /\ call = [c \in Calls |-> NoCall] /\ requests = 0
    /\ torn = FALSE /\ uncounted = 0

-----------------------------------------------------------------------------
At(c, step) == call[c].todo # <<>> /\ Head(call[c].todo) = step
Still(c) == Range(call[c].todo)
Finish(c) == call' = [call EXCEPT ![c] = NoCall] /\ UNCHANGED requests
\* The request goes on with these statements and with what it knows now.
GoOn(c, todo, known) ==
    /\ call' = [call EXCEPT ![c] = IF todo = <<>> THEN NoCall ELSE [known EXCEPT !.todo = todo]]
    /\ UNCHANGED requests
Proceed(c, known) == GoOn(c, Tail(call[c].todo), known)
\* The same for a statement that writes what the radio plays or is to play: whoever has
\* read that or has begun to change it is overtaken.
Overtake(c, todo, known) ==
    /\ call' = [d \in Calls |->
         IF d # c THEN (IF call[d] = NoCall THEN NoCall ELSE [call[d] EXCEPT !.fresh = FALSE])
         ELSE IF todo = <<>> THEN NoCall ELSE [known EXCEPT !.todo = todo]]
    /\ UNCHANGED requests
Writing(c) == Overtake(c, Tail(call[c].todo), call[c]) /\ torn' = (torn \/ ~call[c].fresh)

-----------------------------------------------------------------------------
(* Requests *)

\* The radio advances when its track ends: by the timer or by its listeners' reports.
MayBegin(kind, room) ==
    CASE kind \in {"create", "list", "stage", "unstage", "snippets", "tracks", "activate",
                   "start", "stop"} -> room = Radio
      [] kind \in {"golive", "end"} -> room \in rooms \ {Radio}
      [] kind \in {"shutdown", "remove"} -> room \in rooms
      [] kind = "advance" -> room = Radio /\ heard # Silence /\ autoplay
                               /\ \A d \in Calls : call[d].kind # "advance"

\* A list to save comes with the request; UpdateLiveTracks refuses an empty one.
Sent(kind) == CASE kind = "stage" -> Lists
                [] kind = "tracks" -> Lists \ {<<>>}
                [] OTHER -> {<<>>}

Begin(c, kind, room) ==
    /\ call[c] = NoCall /\ requests < MaxRequests /\ kind \in Kinds
    /\ MayBegin(kind, room)
    /\ requests' = requests + 1
    /\ \E l \in Sent(kind) :
         call' = [call EXCEPT ![c] = [NoCall EXCEPT !.kind = kind, !.room = room, !.tracks = l,
             !.serial = requests + 1,
             !.todo = IF kind = "remove" /\ room \notin live THEN <<"drop">> ELSE Plan[kind]]]
    /\ UNCHANGED <<rowVars, radioVars, listVars, uncounted>>

-----------------------------------------------------------------------------
(* Rows *)

\* Mutant: only rooms on the air count.
CountsLive(c) ==
    /\ At(c, "count")
    /\ IF Cardinality(live \ {Radio}) >= Cap THEN Finish(c) ELSE Proceed(c, call[c])
    /\ UNCHANGED <<rowVars, radioVars, listVars, uncounted>>

\* CountActiveRoomsByCreator: the creator's rooms that have not ended.
Count(c) ==
    /\ At(c, "count")
    /\ IF Cardinality(rooms \ (ended \cup {Radio})) >= Cap THEN Finish(c) ELSE Proceed(c, call[c])
    /\ UNCHANGED <<rowVars, radioVars, listVars, uncounted>>

Insert(c) ==
    /\ At(c, "insert") /\ Proceed(c, call[c])
    /\ rooms' = rooms \cup {call[c].serial}
    /\ UNCHANGED <<live, ended, autoplay, radioVars, listVars, uncounted>>

\* SetRoomLive; ended_at stays.
SetLive(c) ==
    /\ At(c, "setLive") /\ Proceed(c, call[c])
    /\ live' = live \cup ({call[c].room} \cap rooms)
    /\ UNCHANGED <<rooms, ended, autoplay, radioVars, listVars, uncounted>>

\* EndRoom; is_autoplay stays.
SetEnded(c) ==
    /\ At(c, "setEnded")
    /\ IF call[c].room = Radio THEN Proceed(c, call[c]) ELSE Finish(c)
    /\ live' = live \ {call[c].room}
    /\ ended' = ended \cup ({call[c].room} \cap rooms)
    /\ UNCHANGED <<rooms, autoplay, radioVars, listVars, uncounted>>

\* DeleteRoom; the playlists and now_playing go with the row, the playback state does not.
Drop(c) ==
    /\ At(c, "drop")
    /\ rooms' = rooms \ {call[c].room} /\ live' = live \ {call[c].room}
    /\ ended' = ended \ {call[c].room}
    /\ IF call[c].room = Radio
       THEN /\ autoplay' = FALSE /\ Writing(c) /\ now' = Silence
            /\ playlist' = [s \in DOMAIN playlist |-> NoList]
       ELSE Proceed(c, call[c]) /\ UNCHANGED <<autoplay, playlist, now, torn>>
    /\ UNCHANGED <<heard, listVars, uncounted>>

\* SetRoomAutoplay, which reopens the room.
SetRoomAutoplay(c) ==
    /\ At(c, "onAir") \/ At(c, "offAir")
    /\ Proceed(c, call[c])
    /\ autoplay' = (Radio \in rooms /\ At(c, "onAir"))
    /\ live' = IF autoplay' THEN live \cup {Radio} ELSE live \ {Radio}
    /\ ended' = ended \ {Radio}
    /\ UNCHANGED <<rooms, radioVars, listVars, uncounted>>

-----------------------------------------------------------------------------
(* The playlists of the radio *)

SaveStaged(c) ==
    /\ At(c, "saveStaged") /\ Radio \in rooms /\ Proceed(c, call[c])
    /\ playlist' = [playlist EXCEPT !["staged"] = Listing(call[c].tracks, @.index)]
    /\ UNCHANGED <<rowVars, now, heard, torn, listVars, uncounted>>

Unstage(c) ==
    /\ At(c, "unstage") /\ Proceed(c, call[c])
    /\ playlist' = [playlist EXCEPT !["staged"] = NoList]
    /\ UNCHANGED <<rowVars, now, heard, torn, listVars, uncounted>>

\* GetAutoplayPlaylist of an edit or of a start, which needs tracks.
ReadLive(c) ==
    LET p == playlist["live"]
        known == [call[c] EXCEPT !.index = p.index, !.fresh = TRUE] IN
    /\ At(c, "readLive")
    /\ IF ~p.exists \/ (call[c].kind = "start" /\ p.tracks = <<>>) THEN Finish(c)
       ELSE Proceed(c, IF call[c].kind = "snippets" THEN [known EXCEPT !.tracks = p.tracks] ELSE known)
    /\ UNCHANGED <<rowVars, radioVars, listVars, uncounted>>

ReadNow(c) ==
    /\ At(c, "readNow") /\ Proceed(c, [call[c] EXCEPT !.now = now])
    /\ UNCHANGED <<rowVars, radioVars, listVars, uncounted>>

First(tracks, t) == CHOOSE i \in DOMAIN tracks : tracks[i] = t /\ \A j \in 1..(i - 1) : tracks[j] # t

\* Mutants: the rule of the handler's comment (admin.go:674), the index of the next track;
\* the same without the wrap.
ReconciledPastTheEnd(tracks, t, index) ==
    IF t \in Range(tracks) THEN First(tracks, t) + 1
    ELSE IF index > Len(tracks) THEN Len(tracks) ELSE index
ReconciledToNext(tracks, t, index) ==
    IF t \in Range(tracks) THEN (First(tracks, t) % Len(tracks)) + 1
    ELSE IF index > Len(tracks) THEN Len(tracks) ELSE index

\* Where the track that plays is in the new list; if it is not, the old index, clamped.
Reconciled(tracks, t, index) ==
    IF t \in Range(tracks) THEN First(tracks, t)
    ELSE IF index > Len(tracks) THEN Len(tracks) ELSE index

\* SaveAutoplayPlaylist of a live list that was read before: it inserts the row if it has
\* gone meanwhile.
SaveLive(c) ==
    LET r == call[c]
        i == IF r.kind = "tracks" THEN Reconciled(r.tracks, r.now, r.index) ELSE r.index IN
    /\ At(c, "saveLive") /\ Radio \in rooms /\ Writing(c)
    /\ playlist' = [playlist EXCEPT !["live"] = Listing(r.tracks, i)]
    /\ UNCHANGED <<rowVars, now, heard, listVars, uncounted>>

\* ActivateStagedPlaylist: one transaction, which also commits when nothing is staged ...
Promote(c) ==
    /\ At(c, "promote") /\ Writing(c)
    /\ playlist' = [live   |-> IF playlist["staged"].exists
                               THEN [playlist["staged"] EXCEPT !.index = 0] ELSE NoList,
                    staged |-> NoList]
    /\ UNCHANGED <<rowVars, now, heard, listVars, uncounted>>

\* ... and a read that then finds no list.
Reread(c) ==
    /\ At(c, "reread")
    /\ IF playlist["live"].exists THEN Proceed(c, call[c]) ELSE Finish(c)
    /\ UNCHANGED <<rowVars, radioVars, listVars, uncounted>>

-----------------------------------------------------------------------------
(* What the radio plays *)

ClearHeard(c) ==
    /\ At(c, "clearHeard")
    /\ IF call[c].room = Radio THEN Writing(c) /\ heard' = Silence
                               ELSE Proceed(c, call[c]) /\ UNCHANGED <<heard, torn>>
    /\ UNCHANGED <<rowVars, playlist, now, listVars, uncounted>>

ClearNow(c) ==
    /\ At(c, "clearNow")
    /\ IF call[c].room = Radio THEN Writing(c) /\ now' = Silence
                               ELSE Proceed(c, call[c]) /\ UNCHANGED <<now, torn>>
    /\ UNCHANGED <<rowVars, playlist, heard, listVars, uncounted>>

\* StartAutoplayRooms lists the radio, then puts it on the air; one that plays is only
\* rescheduled, any other advanced, as one whose playback state cannot be read.
Which(c) ==
    /\ At(c, "which")
    /\ IF autoplay THEN Proceed(c, call[c]) ELSE Finish(c)
    /\ UNCHANGED <<rowVars, radioVars, listVars, uncounted>>
Start(c) ==
    /\ At(c, "start")
    /\ \/ heard # Silence /\ Finish(c)
       \/ GoOn(c, AdvanceAutoplay, call[c])
    /\ UNCHANGED <<rowVars, radioVars, listVars, uncounted>>

\* GetNextAutoplayTrack reads the list and picks the track; there is none, or the read
\* fails, and the radio stops ...
ReadIndex(c) ==
    LET p == playlist["live"]
        next == (p.index % Len(p.tracks)) + 1 IN
    /\ At(c, "readIndex")
    /\ \/ GoOn(c, StopPlaying, [call[c] EXCEPT !.fresh = TRUE])
       \/ /\ p.tracks # <<>>
          /\ Proceed(c, [call[c] EXCEPT !.index = next, !.now = p.tracks[next], !.fresh = TRUE])
    /\ UNCHANGED <<rowVars, radioVars, listVars, uncounted>>

\* ... then UpdateAutoplayIndex, of whatever list is live by then.
WriteIndex(c) ==
    /\ At(c, "writeIndex") /\ Writing(c)
    /\ playlist' = IF playlist["live"].exists
                   THEN [playlist EXCEPT !["live"].index = call[c].index] ELSE playlist
    /\ UNCHANGED <<rowVars, now, heard, listVars, uncounted>>

SetNow(c) ==
    /\ At(c, "setNow") /\ Writing(c)
    /\ now' = IF Radio \in rooms THEN call[c].now ELSE now
    /\ UNCHANGED <<rowVars, playlist, heard, listVars, uncounted>>

\* SetPlaybackState.  An advance that nobody met has set everything right.
Play(c) ==
    /\ At(c, "play") /\ Overtake(c, Tail(call[c].todo), call[c])
    /\ heard' = call[c].now /\ torn' = ~call[c].fresh
    /\ UNCHANGED <<rowVars, playlist, now, listVars, uncounted>>

-----------------------------------------------------------------------------
(* The list of rooms: payloadCache.getOrBuild *)

Peek(c) ==
    /\ At(c, "peek")
    /\ IF cached THEN Finish(c) ELSE Proceed(c, call[c])
    /\ UNCHANGED <<rowVars, radioVars, listVars, uncounted>>

\* singleflight.Do: the first to come leads, the others wait for what it gets.
Join(c) ==
    /\ At(c, "join")
    /\ IF flight = Nobody THEN flight' = c /\ Proceed(c, call[c])
                          ELSE GoOn(c, <<"wait">>, call[c]) /\ UNCHANGED flight
    /\ UNCHANGED <<rowVars, radioVars, cached, uncounted>>

\* Mutant: a leader builds without looking again.
BuildsBlindly(c) ==
    /\ At(c, "recheck") /\ Proceed(c, call[c])
    /\ UNCHANGED <<rowVars, radioVars, listVars, uncounted>>

\* Another flight may have landed since it missed.
Recheck(c) ==
    /\ At(c, "recheck")
    /\ IF cached THEN GoOn(c, <<"land">>, call[c]) ELSE Proceed(c, call[c])
    /\ UNCHANGED <<rowVars, radioVars, listVars, uncounted>>

\* buildRoomsList; of its reads only that of the rooms can fail it, which is not cached.
Build(c) ==
    /\ At(c, "build")
    /\ Proceed(c, call[c]) \/ GoOn(c, <<"land">>, call[c])
    /\ UNCHANGED <<rowVars, radioVars, listVars, uncounted>>

Keep(c) ==
    /\ At(c, "keep") /\ Proceed(c, call[c])
    /\ cached' = TRUE
    /\ UNCHANGED <<rowVars, radioVars, flight, uncounted>>

Land(c) ==
    /\ At(c, "land")
    /\ flight' = Nobody
    /\ call' = [d \in Calls |-> IF d = c \/ At(d, "wait") THEN NoCall ELSE call[d]]
    /\ UNCHANGED <<rowVars, radioVars, cached, requests, uncounted>>

\* Its five seconds are over, or the payloads of other filters crowded it out.
Expire == cached /\ cached' = FALSE
          /\ UNCHANGED <<rowVars, radioVars, flight, call, requests, uncounted>>

-----------------------------------------------------------------------------
\* A statement fails; saving a playlist of a deleted room always does.
Fail(c) ==
    /\ call[c].todo # <<>>
    /\ LET step == Head(call[c].todo)
           halves == step \in {"readNow", "reread", "writeIndex", "setNow", "play",
                              "clearHeard", "clearNow"} IN
         /\ step \notin InMemory \cup {"build", "start", "readIndex"}
         /\ IF step \in Essential \/ (step = "onAir" /\ call[c].kind = "start" /\ "which" \in Still(c))
            THEN Finish(c)
            ELSE Proceed(c, [call[c] EXCEPT !.fresh = @ /\ ~halves])
         /\ uncounted' = IF step = "count" THEN uncounted + 1 ELSE uncounted
         /\ torn' = (torn \/ halves)
    /\ UNCHANGED <<rowVars, playlist, now, heard, listVars>>

Statement(c) ==
    \/ Count(c) \/ Insert(c) \/ SetLive(c) \/ SetEnded(c) \/ Drop(c) \/ SetRoomAutoplay(c)
    \/ SaveStaged(c) \/ Unstage(c) \/ ReadLive(c) \/ ReadNow(c) \/ SaveLive(c)
    \/ Promote(c) \/ Reread(c) \/ ClearHeard(c) \/ ClearNow(c) \/ Which(c) \/ Start(c)
    \/ ReadIndex(c) \/ WriteIndex(c) \/ SetNow(c) \/ Play(c)
    \/ Peek(c) \/ Join(c) \/ Recheck(c) \/ Build(c) \/ Keep(c) \/ Land(c)
    \/ Fail(c)

\* The bound on the requests is reached and all of them are answered.
Rest == requests = MaxRequests /\ (\A c \in Calls : call[c] = NoCall) /\ UNCHANGED vars

Next == \/ \E c \in Calls : Statement(c) \/ \E kind \in Kinds, room \in Ids : Begin(c, kind, room)
        \/ Expire \/ Rest
Spec == Init /\ [][Next]_vars

-----------------------------------------------------------------------------
(* Properties *)

\* What the radio plays is the row of its live playlist that current_index names, if it is
\* in the list at all, so that the admin's page marks the right row and the next advance
\* goes on from it: whatever lists are saved, staged and activated on the air.  Two edits
\* that meet, or one that fails half way, may break this (admin.go:703), but only until
\* the next advance that nobody meets.
IndexNamesHeard ==
    LET p == playlist["live"] IN
    /\ ~torn /\ heard \in Range(p.tracks)
    /\ \A c \in Calls : Still(c) \cap {"play", "clearHeard"} = {}
    => p.index # 0 /\ p.tracks[p.index] = heard

\* The list is built "at most once per TTL window" (rooms.go:285): while somebody builds it
\* nobody else does, and no good payload is in the cache.
Building(c) == At(c, "build") \/ At(c, "keep")
BuiltOncePerWindow ==
    \A c \in Calls : Building(c) => ~cached /\ \A d \in Calls : Building(d) => d = c

\* The cap on a creator's open rooms: it is read before the insert, so that creations at
\* once may pass it together, and is not applied when the count fails; nothing else
\* exceeds it.
OpenWithinCap ==
    Cardinality(rooms \ (ended \cup {Radio})) <= Cap + Cardinality(Calls) - 1 + uncounted
=============================================================================
