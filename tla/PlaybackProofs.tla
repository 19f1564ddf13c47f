--------------------------- MODULE PlaybackProofs ---------------------------
(* Proofs about Playback, for every set of tracks, goroutines and rooms and *)
(* every length of time the constants stand for.                            *)
EXTENDS Playback, TLAPS

\* A goroutine: the calls it has still to make, and its locals.
Tasks == [todo : Seq(Calls), ps : States, length : Ages, index : 0..Len(Playlist)]

\* What becomes of one with the calls cs and the locals l.
Going(cs, l) == IF cs = <<>> THEN Idle ELSE [l EXCEPT !.todo = cs]

\* The calls of a list from the i-th on.
From(calls, i) == SubSeq(calls, i, Len(calls))

-----------------------------------------------------------------------------
(* Lists of calls *)

\* The index is written back after it was read, and the track it names upserted after that.
Ordered(cs) ==
    \A i \in DOMAIN cs : i > 1 =>
        /\ cs[i] = "writeindex" => cs[i - 1] = "readindex"
        /\ cs[i] = "upsert" => cs[i - 1] = "writeindex"

LEMMA NothingOrdered == <<>> \in Seq(Calls) /\ Ordered(<<>>)
BY DEF Ordered

LEMMA TailOrdered ==
  ASSUME NEW cs \in Seq(Calls), cs # <<>>, Ordered(cs)
  PROVE  /\ Tail(cs) \in Seq(Calls) /\ Ordered(Tail(cs)) /\ Head(cs) \in Calls
         /\ Tail(cs) # <<>> => /\ Head(Tail(cs)) = "writeindex" => Head(cs) = "readindex"
                               /\ Head(Tail(cs)) = "upsert" => Head(cs) = "writeindex"
<1>1. /\ Tail(cs) \in Seq(Calls) /\ Len(cs) \in Nat \ {0} /\ DOMAIN cs = 1..Len(cs)
      /\ DOMAIN Tail(cs) = 1..(Len(cs) - 1) /\ Head(cs) = cs[1] /\ cs[1] \in Calls
      /\ \A i \in 1..(Len(cs) - 1) : Tail(cs)[i] = cs[i + 1]
  OBVIOUS
<1>2. ASSUME NEW i \in DOMAIN Tail(cs), i > 1
      PROVE  /\ Tail(cs)[i] = "writeindex" => Tail(cs)[i - 1] = "readindex"
             /\ Tail(cs)[i] = "upsert" => Tail(cs)[i - 1] = "writeindex"
  <2>1. /\ i + 1 \in DOMAIN cs /\ i + 1 > 1 /\ (i + 1) - 1 = (i - 1) + 1
        /\ Tail(cs)[i] = cs[i + 1] /\ Tail(cs)[i - 1] = cs[(i - 1) + 1]
    BY <1>1, <1>2
  <2> QED
    BY <2>1 DEF Ordered
<1>3. ASSUME Tail(cs) # <<>>
      PROVE  /\ Head(Tail(cs)) = "writeindex" => Head(cs) = "readindex"
             /\ Head(Tail(cs)) = "upsert" => Head(cs) = "writeindex"
  <2>1. Head(Tail(cs)) = cs[2] /\ 2 \in DOMAIN cs
    BY <1>1, <1>3
  <2>2. /\ cs[2] = "writeindex" => cs[2 - 1] = "readindex"
        /\ cs[2] = "upsert" => cs[2 - 1] = "writeindex"
    BY <2>1 DEF Ordered
  <2> QED
    BY <1>1, <2>1, <2>2
<1> QED
  BY <1>1, <1>2, <1>3 DEF Ordered

\* A list to begin with: it neither writes an index nor upserts a track first.
Begins(cs) == /\ cs \in Seq(Calls) /\ cs # <<>> /\ Ordered(cs)
              /\ Head(cs) \notin {"writeindex", "upsert"}

LEMMA PlansBegin ==
  /\ Begins(AdvanceTrack) /\ Begins(AdvanceAutoplay) /\ Begins(StopPlaying)
  /\ Begins(StartAutoplayRooms) /\ Begins(IdleCheck) /\ Begins(CloseRoom \o <<"untrack">>)
  /\ Begins(<<"which">>) /\ Begins(<<"untrack">>) /\ Begins(<<"schedule">>)
<1>1. Begins(AdvanceTrack) /\ Begins(AdvanceAutoplay)
  BY DEF Begins, Calls, AdvanceTrack, AdvanceAutoplay, Ordered
<1>2. Begins(StopPlaying) /\ Begins(StartAutoplayRooms) /\ Begins(IdleCheck)
  BY DEF Begins, Calls, StopPlaying, StartAutoplayRooms, IdleCheck, Ordered
<1>3. Begins(CloseRoom \o <<"untrack">>)
  BY DEF Begins, Calls, CloseRoom, Ordered
<1>4. Begins(<<"which">>) /\ Begins(<<"untrack">>) /\ Begins(<<"schedule">>)
  BY DEF Begins, Calls, Ordered
<1> QED
  BY <1>1, <1>2, <1>3, <1>4

LEMMA ActionsListed ==
  /\ DOMAIN DJActions = {"dj_skip", "dj_go_live", "dj_pause", "dj_resume", "dj_end_room"}
  /\ DJActions["dj_skip"] = <<"skip", "now", "state">>
  /\ DJActions["dj_go_live"] = <<"golive", "now", "live", "state">>
  /\ DJActions["dj_pause"] = <<"pause", "save">>
  /\ DJActions["dj_resume"] = <<"resume", "save">>
  /\ DJActions["dj_end_room"] = <<"end", "clearnow", "clearstate">>
BY DEF DJActions

LEMMA HandlersListed ==
  /\ DOMAIN Concurrent = {"GoLive", "EndSession", "autoplay_track_ended", "report_duration",
                          "ActivatePlaylist", "StartAutoplayRoom", "StopAutoplayRoom"}
  /\ Concurrent["GoLive"] = <<"now", "state", "live", "schedule">>
  /\ Concurrent["EndSession"] = <<"end", "clearnow", "clearstate", "cancel">>
  /\ Concurrent["autoplay_track_ended"] = <<"report", "verify">> \o AdvanceTrack
  /\ Concurrent["report_duration"] = <<"report", "learn", "schedule">>
  /\ Concurrent["ActivatePlaylist"] =
        <<"activate", "setautoplay", "cancel", "clearstate", "clearnow">> \o StartAutoplayRooms
  /\ Concurrent["StartAutoplayRoom"] = <<"playlist", "launch">> \o StartAutoplayRooms
  /\ Concurrent["StopAutoplayRoom"] = <<"unsetautoplay", "cancel", "clearstate", "clearnow">>
BY DEF Concurrent

LEMMA ActionsBegin ==
  ASSUME NEW a \in DOMAIN DJActions PROVE Begins(DJActions[a])
<1>1. Begins(<<"skip", "now", "state">>) /\ Begins(<<"golive", "now", "live", "state">>)
  BY DEF Begins, Calls, Ordered
<1>2. Begins(<<"pause", "save">>) /\ Begins(<<"resume", "save">>)
      /\ Begins(<<"end", "clearnow", "clearstate">>)
  BY DEF Begins, Calls, Ordered
<1> QED
  BY <1>1, <1>2, ActionsListed

LEMMA HandlersBegin ==
  ASSUME NEW h \in DOMAIN Concurrent PROVE Begins(Concurrent[h])
<1>1. Begins(<<"now", "state", "live", "schedule">>)
      /\ Begins(<<"end", "clearnow", "clearstate", "cancel">>)
  BY DEF Begins, Calls, Ordered
<1>2. Begins(<<"report", "learn", "schedule">>)
      /\ Begins(<<"unsetautoplay", "cancel", "clearstate", "clearnow">>)
  BY DEF Begins, Calls, Ordered
<1>3. Begins(<<"report", "verify">> \o AdvanceTrack)
  BY DEF Begins, Calls, Ordered, AdvanceTrack
<1>4. Begins(<<"activate", "setautoplay", "cancel", "clearstate", "clearnow">> \o StartAutoplayRooms)
  BY DEF Begins, Calls, Ordered, StartAutoplayRooms
<1>5. Begins(<<"playlist", "launch">> \o StartAutoplayRooms)
  BY DEF Begins, Calls, Ordered, StartAutoplayRooms
<1> QED
  BY <1>1, <1>2, <1>3, <1>4, <1>5, HandlersListed

-----------------------------------------------------------------------------
(* Types *)

LEMMA StatesTyped ==
  /\ Nothing \in States
  /\ \A t \in Tracks \cup {NoTrack} : Playing(t) \in States
  /\ \A ps \in States : Older(ps) \in States
  /\ \A ps \in States, t \in Tracks \cup {NoTrack} : [ps EXCEPT !.track = t] \in States
  /\ \A ps \in States : /\ [ps EXCEPT !.playing = FALSE, !.pos = ps.age] \in States
                        /\ [ps EXCEPT !.playing = TRUE, !.age = ps.pos] \in States
<1> DEFINE T == Tracks \cup {NoTrack}
<1>1. 0 \in Ages /\ MaxLength \in Nat /\ Ages = 0..MaxLength
  BY ConstantsOK DEF Ages
<1>2. \A t \in T : [track |-> t, age |-> 0, playing |-> TRUE, pos |-> 0] \in States
  BY <1>1 DEF States
<1>3. Nothing \in States
  BY <1>1 DEF States, Nothing
<1>4. ASSUME NEW A, NEW B, NEW ps \in [track : T, age : A, playing : B, pos : A]
      PROVE  /\ \A t \in T : [ps EXCEPT !.track = t] \in [track : T, age : A, playing : B, pos : A]
             /\ \A a \in A : [ps EXCEPT !.age = a] \in [track : T, age : A, playing : B, pos : A]
             /\ \A b \in B : [ps EXCEPT !.playing = b, !.pos = ps.age]
                                \in [track : T, age : A, playing : B, pos : A]
             /\ \A b \in B : [ps EXCEPT !.playing = b, !.age = ps.pos]
                                \in [track : T, age : A, playing : B, pos : A]
             /\ ps.age \in A
  OBVIOUS
<1>5. States = [track : T, age : Ages, playing : BOOLEAN, pos : Ages]
  BY DEF States
<1>6. ASSUME NEW ps \in States
      PROVE  /\ \A t \in T : [ps EXCEPT !.track = t] \in States
             /\ \A a \in Ages : [ps EXCEPT !.age = a] \in States
             /\ [ps EXCEPT !.playing = FALSE, !.pos = ps.age] \in States
             /\ [ps EXCEPT !.playing = TRUE, !.age = ps.pos] \in States
             /\ ps.age \in Ages
  BY <1>4, <1>5, <1>6, Zenon
<1>7. ASSUME NEW ps \in States PROVE Older(ps) \in States
  <2>1. ps.age \in 0..MaxLength
    BY <1>1, <1>6
  <2>2. ps.age # MaxLength => ps.age + 1 \in Ages
    BY <1>1, <2>1
  <2>3. Older(ps) = IF ps.track = NoTrack \/ ps.age = MaxLength THEN ps
                    ELSE [ps EXCEPT !.age = ps.age + 1]
    BY DEF Older
  <2> QED
    BY <1>6, <2>2, <2>3
<1> QED
  BY <1>2, <1>3, <1>6, <1>7 DEF Playing

LEMMA LocalsTyped ==
  ASSUME NEW l \in Tasks
  PROVE  /\ l.todo \in Seq(Calls) /\ l.ps \in States /\ l.length \in Ages /\ l.index \in 0..Len(Playlist)
         /\ l.ps.track \in Tracks \cup {NoTrack} /\ l.ps.age \in 0..MaxLength /\ l.ps.playing \in BOOLEAN
         /\ \A ps \in States : [l EXCEPT !.ps = ps] \in Tasks
         /\ \A d \in Ages : [l EXCEPT !.length = d] \in Tasks
         /\ \A ps \in States, d \in Ages : [l EXCEPT !.ps = ps, !.length = d] \in Tasks
         /\ \A i \in 0..Len(Playlist) : [l EXCEPT !.index = i] \in Tasks
         /\ \A t \in Tracks \cup {NoTrack} : [l EXCEPT !.ps.track = t] \in Tasks
         /\ \A t \in Tracks \cup {NoTrack}, d \in Ages : [l EXCEPT !.ps.track = t, !.length = d] \in Tasks
         /\ \A cs \in Seq(Calls) : [l EXCEPT !.todo = cs] \in Tasks
<1>1. l.todo \in Seq(Calls) /\ l.ps \in States /\ l.length \in Ages /\ l.index \in 0..Len(Playlist)
  BY DEF Tasks
<1>2. l.ps.track \in Tracks \cup {NoTrack} /\ l.ps.age \in 0..MaxLength /\ l.ps.playing \in BOOLEAN
  BY <1>1 DEF States, Ages
<1>3. /\ \A ps \in States : [l EXCEPT !.ps = ps] \in Tasks
      /\ \A d \in Ages : [l EXCEPT !.length = d] \in Tasks
      /\ \A ps \in States, d \in Ages : [l EXCEPT !.ps = ps, !.length = d] \in Tasks
      /\ \A i \in 0..Len(Playlist) : [l EXCEPT !.index = i] \in Tasks
      /\ \A cs \in Seq(Calls) : [l EXCEPT !.todo = cs] \in Tasks
  BY DEF Tasks
<1>4. ASSUME NEW t \in Tracks \cup {NoTrack}
      PROVE  /\ [l EXCEPT !.ps.track = t] \in Tasks
             /\ \A d \in Ages : [l EXCEPT !.ps.track = t, !.length = d] \in Tasks
  <2>1. [l.ps EXCEPT !.track = t] \in States
    BY <1>1, StatesTyped
  <2>2. /\ [l EXCEPT !.ps.track = t] = [l EXCEPT !.ps = [l.ps EXCEPT !.track = t]]
        /\ \A d \in Ages : [l EXCEPT !.ps.track = t, !.length = d] =
                              [l EXCEPT !.ps = [l.ps EXCEPT !.track = t], !.length = d]
    BY DEF Tasks
  <2> QED
    BY <1>3, <2>1, <2>2
<1> QED
  BY <1>1, <1>2, <1>3, <1>4

LEMMA IdleTyped == Idle \in Tasks /\ Idle.todo = <<>>
<1>1. Len(Playlist) \in Nat
  BY ConstantsOK
<1>2. 0 \in 0..Len(Playlist)
  BY <1>1
<1>3. <<>> \in Seq(Calls) /\ Nothing \in States
  BY NothingOrdered, StatesTyped, Zenon
<1>4. 0 \in Ages
  BY ConstantsOK DEF Ages
<1> QED
  BY <1>2, <1>3, <1>4 DEF Idle, Tasks

LEMMA GoingTyped ==
  ASSUME NEW cs \in Seq(Calls), NEW l \in Tasks
  PROVE  /\ Going(cs, l) \in Tasks /\ Going(cs, l).todo = cs
         /\ cs # <<>> => /\ Going(cs, l).ps = l.ps /\ Going(cs, l).length = l.length
                         /\ Going(cs, l).index = l.index
<1>1. CASE cs = <<>>
  BY <1>1, IdleTyped DEF Going
<1>2. CASE cs # <<>>
  <2>1. Going(cs, l) = [l EXCEPT !.todo = cs]
    BY <1>2 DEF Going
  <2> QED
    BY <1>2, <2>1 DEF Tasks
<1> QED
  BY <1>1, <1>2

\* An index is written back, and a track upserted, by a goroutine that holds one.
Ready(l) ==
    l.todo # <<>> => /\ Head(l.todo) = "writeindex" => l.index \in 1..Len(Playlist)
                     /\ Head(l.todo) = "upsert" => l.ps.track \in Tracks

TaskOK(l) == l \in Tasks /\ Ordered(l.todo) /\ Ready(l)

TasksOK == \A p \in Procs : TaskOK(task[p])

LEMMA Begun ==
  ASSUME NEW cs, Begins(cs), NEW l \in Tasks
  PROVE  TaskOK(Going(cs, l))
BY GoingTyped DEF TaskOK, Ready, Begins

LEMMA Ended ==
  ASSUME NEW l \in Tasks
  PROVE  TaskOK(Going(<<>>, l)) /\ TaskOK(Idle) /\ Going(<<>>, l) = Idle
<1>1. Going(<<>>, l) = Idle
  BY DEF Going
<1> QED
  BY <1>1, IdleTyped, NothingOrdered DEF TaskOK, Ready

LEMMA Continued ==
  ASSUME NEW k \in Tasks, k.todo # <<>>, Ordered(k.todo), NEW l \in Tasks,
         Head(k.todo) = "readindex" => l.index \in 1..Len(Playlist),
         Head(k.todo) = "writeindex" => l.ps.track \in Tracks
  PROVE  TaskOK(Going(Tail(k.todo), l))
<1>1. k.todo \in Seq(Calls)
  BY LocalsTyped
<1>2. /\ Tail(k.todo) \in Seq(Calls) /\ Ordered(Tail(k.todo))
      /\ Tail(k.todo) # <<>> =>
            /\ Head(Tail(k.todo)) = "writeindex" => Head(k.todo) = "readindex"
            /\ Head(Tail(k.todo)) = "upsert" => Head(k.todo) = "writeindex"
  BY <1>1, TailOrdered
<1>3. /\ Going(Tail(k.todo), l) \in Tasks /\ Going(Tail(k.todo), l).todo = Tail(k.todo)
      /\ Tail(k.todo) # <<>> => /\ Going(Tail(k.todo), l).ps = l.ps
                                /\ Going(Tail(k.todo), l).index = l.index
  BY <1>2, GoingTyped
<1>4. Ready(Going(Tail(k.todo), l))
  BY <1>2, <1>3 DEF Ready
<1> QED
  BY <1>2, <1>3, <1>4 DEF TaskOK

\* The tasks after p has gone on as x.
LEMMA Becomes ==
  ASSUME task \in [Procs -> Tasks], NEW p \in Procs, NEW x, task' = [task EXCEPT ![p] = x]
  PROVE  task'[p] = x /\ \A q \in Procs \ {p} : task'[q] = task[q]
OBVIOUS

LEMMA TasksFollow ==
  ASSUME TypeOK, TasksOK, NEW p \in Procs, NEW x, TaskOK(x), task' = [task EXCEPT ![p] = x]
  PROVE  task' \in [Procs -> Tasks] /\ TasksOK'
<1>1. task \in [Procs -> Tasks] /\ x \in Tasks
  BY DEF TypeOK, TaskOK, Tasks
<1> QED
  BY <1>1 DEF TasksOK

\* What every step makes of the task of its goroutine: the next call, an end, or another list.
NextTasks(p) ==
    LET l == task[p]
    IN  {Going(Tail(l.todo), m) : m \in {n \in Tasks :
             /\ Head(l.todo) = "readindex" => n.index \in 1..Len(Playlist)
             /\ Head(l.todo) = "writeindex" => n.ps.track \in Tracks}}
        \cup {Idle}
        \cup {Going(cs, m) : cs \in {c \in Seq(Calls) : Begins(c)}, m \in Tasks}

LEMMA NextTasksOK ==
  ASSUME TypeOK, TasksOK, NEW p \in Procs, task[p].todo # <<>>, NEW x \in NextTasks(p)
  PROVE  TaskOK(x)
<1>1. task[p] \in Tasks /\ Ordered(task[p].todo)
  BY DEF TasksOK, TaskOK
<1>2. TaskOK(Idle)
  BY IdleTyped, Ended
<1> QED
  BY <1>1, <1>2, Begun, Continued DEF NextTasks

LEMMA StoreTyped ==
  TypeOK <=> /\ room \in Rooms /\ queue \in Seq(Tracks) /\ index \in NoPlaylist..Len(Playlist)
             /\ duration \in [Tracks -> Ages]
             /\ live \in BOOLEAN /\ autoplay \in BOOLEAN /\ hub \in BOOLEAN
             /\ playback \in States /\ nowPlaying \in Tracks \cup {NoTrack}
             /\ armed \in BOOLEAN /\ left \in Ages /\ since \in 0..Debounce
             /\ idle \in {Untracked} \cup 0..IdleTimeout
             /\ task \in [Procs -> Tasks] /\ restarts \in 0..room.crashes
             /\ failures \in 0..room.failures /\ torn \in BOOLEAN /\ amiss \subseteq Mishaps
BY DEF TypeOK, Tasks

LEMMA Continues ==
  ASSUME TypeOK, NEW p \in Procs, task[p].todo # <<>>
  PROVE  /\ \A m \in Tasks : Head(task[p].todo) \notin {"readindex", "writeindex"} =>
                                Going(Tail(task[p].todo), m) \in NextTasks(p)
         /\ \A m \in Tasks : Head(task[p].todo) = "readindex" /\ m.index \in 1..Len(Playlist) =>
                                Going(Tail(task[p].todo), m) \in NextTasks(p)
         /\ \A m \in Tasks : Head(task[p].todo) = "writeindex" /\ m.ps.track \in Tracks =>
                                Going(Tail(task[p].todo), m) \in NextTasks(p)
         /\ \A m \in Tasks : Going(<<>>, m) \in NextTasks(p)
         /\ \A cs, m : Begins(cs) /\ m \in Tasks => Going(cs, m) \in NextTasks(p)
         /\ task[p] \in Tasks
<1>1. \A m : Going(<<>>, m) = Idle
  BY DEF Going
<1> QED
  BY <1>1 DEF NextTasks, StoreTyped, TypeOK, Tasks, Begins

\* The task of a step that goes on with the next call, or ends: no local changes.
LEMMA DoneNext ==
  ASSUME TypeOK, NEW p \in Procs, task[p].todo # <<>>,
         Head(task[p].todo) \notin {"readindex", "writeindex"}, Done(p) \/ Return(p)
  PROVE  \E x \in NextTasks(p) : task' = [task EXCEPT ![p] = x]
<1>1. /\ task[p] \in Tasks /\ Going(Tail(task[p].todo), task[p]) \in NextTasks(p)
      /\ Going(<<>>, task[p]) \in NextTasks(p)
  BY Continues
<1>2. CASE Done(p)
  <2>1. task' = [task EXCEPT ![p] = Going(Tail(task[p].todo), task[p])]
    BY <1>2 DEF Done, GoOn, Going
  <2> QED
    BY <1>1, <2>1
<1>3. CASE Return(p)
  <2>1. task' = [task EXCEPT ![p] = Going(<<>>, task[p])]
    BY <1>3 DEF Return, GoOn, Going
  <2> QED
    BY <1>1, <2>1
<1> QED
  BY <1>2, <1>3

\* What is left when the task of p alone has gone on.
OthersTyped == /\ room \in Rooms /\ queue \in Seq(Tracks) /\ index \in NoPlaylist..Len(Playlist)
               /\ duration \in [Tracks -> Ages]
               /\ live \in BOOLEAN /\ autoplay \in BOOLEAN /\ hub \in BOOLEAN
               /\ playback \in States /\ nowPlaying \in Tracks \cup {NoTrack}
               /\ armed \in BOOLEAN /\ left \in Ages /\ since \in 0..Debounce
               /\ idle \in {Untracked} \cup 0..IdleTimeout /\ restarts \in 0..room.crashes

Typed == OthersTyped /\ task \in [Procs -> Tasks]

LEMMA TypesFollow ==
  ASSUME TypeOK, TasksOK, NEW p \in Procs, task[p].todo # <<>>,
         \E x \in NextTasks(p) : task' = [task EXCEPT ![p] = x], OthersTyped'
  PROVE  Typed' /\ TasksOK'
<1>1. PICK x \in NextTasks(p) : task' = [task EXCEPT ![p] = x]
  OBVIOUS
<1>2. TaskOK(x)
  BY NextTasksOK
<1>3. task' \in [Procs -> Tasks] /\ TasksOK'
  BY <1>1, <1>2, TasksFollow
<1> QED
  BY <1>3 DEF Typed

LEMMA Untouched == ASSUME TypeOK, UNCHANGED <<storeVars, hub, syncVars, restarts, room>> PROVE OthersTyped'
BY DEF TypeOK, OthersTyped, storeVars, syncVars

\* Steps that change the locals, and steps that go on with another list.
LEMMA WithLocals ==
  ASSUME TypeOK, NEW p \in Procs, task[p].todo # <<>>, NEW m \in Tasks,
         Head(task[p].todo) \notin {"readindex", "writeindex"},
         task' = [task EXCEPT ![p] = Going(Tail(task[p].todo), m)]
  PROVE  \E x \in NextTasks(p) : task' = [task EXCEPT ![p] = x]
BY Continues

LEMMA OtherList ==
  ASSUME TypeOK, NEW p \in Procs, task[p].todo # <<>>, NEW cs, Begins(cs), NEW m \in Tasks,
         task' = [task EXCEPT ![p] = Going(cs, m)]
  PROVE  \E x \in NextTasks(p) : task' = [task EXCEPT ![p] = x]
BY Continues

LEMMA AtMeans ==
  ASSUME NEW p, NEW call, At(p, call)
  PROVE  task[p].todo # <<>> /\ Head(task[p].todo) = call
BY DEF At, Free

LEMMA SyncTyped ==
  ASSUME TypeOK, TasksOK, NEW p \in Procs,
         \/ DebounceAdvance(p) \/ FindHub(p) \/ CancelAdvance(p) \/ WhichRoom(p)
         \/ ReadReport(p) \/ VerifyEnd(p) \/ LearnDuration(p)
         \/ ListRoom(p) \/ StartRoom(p) \/ FindPlaylist(p)
  PROVE  Typed' /\ TasksOK'
<1>0. /\ task[p] \in Tasks /\ playback \in States /\ duration \in [Tracks -> Ages] /\ since \in 0..Debounce
      /\ \A t \in Tracks : duration[t] \in Ages
  BY StoreTyped
<1>1. CASE DebounceAdvance(p)
  <2>1. task[p].todo # <<>> /\ Head(task[p].todo) = "debounce"
    BY <1>1, AtMeans DEF DebounceAdvance
  <2>2. \E x \in NextTasks(p) : task' = [task EXCEPT ![p] = x]
    BY <1>1, <2>1, DoneNext DEF DebounceAdvance
  <2>3. OthersTyped'
    <3>1. since' \in {since, 0} /\ armed' \in {armed, FALSE}
      BY <1>1 DEF DebounceAdvance
    <3>2. since' \in 0..Debounce /\ armed' \in BOOLEAN
      <4>1. Debounce \in Nat
        BY ConstantsOK
      <4>2. armed \in BOOLEAN /\ 0 \in 0..Debounce
        BY <4>1, StoreTyped
      <4> QED
        BY <1>0, <3>1, <4>2
    <3>3. UNCHANGED <<queue, index, duration, live, autoplay, playback, nowPlaying, hub, left, idle, restarts, room>>
      BY <1>1 DEF DebounceAdvance, storeVars
    <3> QED
      BY <3>2, <3>3, StoreTyped DEF OthersTyped
  <2> QED
    BY <2>1, <2>2, <2>3, TypesFollow
<1>2. CASE FindHub(p)
  <2>1. task[p].todo # <<>> /\ Head(task[p].todo) = "findhub"
    BY <1>2, AtMeans DEF FindHub
  <2>2. \E x \in NextTasks(p) : task' = [task EXCEPT ![p] = x]
    BY <1>2, <2>1, DoneNext DEF FindHub
  <2>3. OthersTyped'
    BY <1>2, Untouched DEF FindHub
  <2> QED
    BY <2>1, <2>2, <2>3, TypesFollow
<1>3. CASE CancelAdvance(p)
  <2>1. task[p].todo # <<>> /\ Head(task[p].todo) = "cancel"
    BY <1>3, AtMeans DEF CancelAdvance
  <2>2. \E x \in NextTasks(p) : task' = [task EXCEPT ![p] = x]
    BY <1>3, <2>1, DoneNext DEF CancelAdvance
  <2>3. OthersTyped'
    BY <1>3 DEF CancelAdvance, TypeOK, OthersTyped, storeVars
  <2> QED
    BY <2>1, <2>2, <2>3, TypesFollow
<1>4. CASE WhichRoom(p)
  <2>1. task[p].todo # <<>> /\ Head(task[p].todo) = "which"
    BY <1>4, AtMeans DEF WhichRoom
  <2>2. \/ task' = [task EXCEPT ![p] = Going(AdvanceAutoplay, task[p])]
        \/ task' = [task EXCEPT ![p] = Going(StopPlaying, task[p])]
    BY <1>4 DEF WhichRoom, GoOn, Going
  <2>3. \E x \in NextTasks(p) : task' = [task EXCEPT ![p] = x]
    BY <1>0, <2>1, <2>2, OtherList, PlansBegin
  <2>4. OthersTyped'
    BY <1>4, Untouched DEF WhichRoom
  <2> QED
    BY <2>1, <2>3, <2>4, TypesFollow
<1>5. CASE ReadReport(p)
  <2>1. task[p].todo # <<>> /\ Head(task[p].todo) = "report"
    BY <1>5, AtMeans DEF ReadReport
  <2>2. \E x \in NextTasks(p) : task' = [task EXCEPT ![p] = x]
    <3>1. CASE autoplay /\ playback.playing /\ playback.track # NoTrack
      <4>1. task' = [task EXCEPT ![p] = Going(Tail(task[p].todo), [task[p] EXCEPT !.ps = playback])]
        BY <1>5, <3>1 DEF ReadReport, GoOn, Going
      <4>2. [task[p] EXCEPT !.ps = playback] \in Tasks
        BY <1>0, LocalsTyped
      <4> QED
        BY <2>1, <4>1, <4>2, WithLocals
    <3>2. CASE ~(autoplay /\ playback.playing /\ playback.track # NoTrack)
      <4>1. Return(p)
        BY <1>5, <3>2 DEF ReadReport
      <4> QED
        BY <2>1, <4>1, DoneNext
    <3> QED
      BY <3>1, <3>2
  <2>3. OthersTyped'
    BY <1>5, Untouched DEF ReadReport
  <2> QED
    BY <2>1, <2>2, <2>3, TypesFollow
<1>6. CASE VerifyEnd(p)
  <2>1. task[p].todo # <<>> /\ Head(task[p].todo) = "verify"
    BY <1>6, AtMeans DEF VerifyEnd
  <2>2. Done(p) \/ Return(p)
    BY <1>6 DEF VerifyEnd
  <2>3. \E x \in NextTasks(p) : task' = [task EXCEPT ![p] = x]
    BY <2>1, <2>2, DoneNext
  <2>4. OthersTyped'
    BY <1>6, Untouched DEF VerifyEnd
  <2> QED
    BY <2>1, <2>3, <2>4, TypesFollow
<1>7. CASE LearnDuration(p)
  <2> DEFINE t == task[p].ps.track
  <2>1. task[p].todo # <<>> /\ Head(task[p].todo) = "learn"
    BY <1>7, AtMeans DEF LearnDuration
  <2>2. CASE Return(p) /\ UNCHANGED duration
    <3>1. \E x \in NextTasks(p) : task' = [task EXCEPT ![p] = x]
      BY <2>1, <2>2, DoneNext
    <3>2. OthersTyped'
      BY <1>7, <2>2, Untouched DEF LearnDuration, storeVars
    <3> QED
      BY <2>1, <3>1, <3>2, TypesFollow
  <2>3. CASE \E d \in MinPlay..MaxLength :
              /\ duration' = [duration EXCEPT ![t] = d]
              /\ GoOn(p, Tail(task[p].todo), [task[p] EXCEPT !.length = d])
    <3>1. PICK d \in MinPlay..MaxLength :
              /\ duration' = [duration EXCEPT ![t] = d]
              /\ task' = [task EXCEPT ![p] = Going(Tail(task[p].todo), [task[p] EXCEPT !.length = d])]
      BY <2>3 DEF GoOn, Going
    <3>2. d \in Ages
      BY ConstantsOK DEF Ages
    <3>3. [task[p] EXCEPT !.length = d] \in Tasks
      BY <1>0, <3>2, LocalsTyped
    <3>4. \E x \in NextTasks(p) : task' = [task EXCEPT ![p] = x]
      BY <2>1, <3>1, <3>3, WithLocals
    <3>5. duration' \in [Tracks -> Ages]
      BY <1>0, <3>1, <3>2
    <3>6. OthersTyped'
      BY <1>7, <3>5 DEF LearnDuration, TypeOK, OthersTyped, syncVars
    <3> QED
      BY <2>1, <3>4, <3>6, TypesFollow
  <2> QED
    BY <1>7, <2>2, <2>3 DEF LearnDuration
<1>8. CASE ListRoom(p)
  <2>1. task[p].todo # <<>> /\ Head(task[p].todo) = "list"
    BY <1>8, AtMeans DEF ListRoom
  <2>2. \E x \in NextTasks(p) : task' = [task EXCEPT ![p] = x]
    BY <1>8, <2>1, DoneNext DEF ListRoom
  <2>3. OthersTyped'
    BY <1>8, Untouched DEF ListRoom
  <2> QED
    BY <2>1, <2>2, <2>3, TypesFollow
<1>9. CASE StartRoom(p)
  <2>1. task[p].todo # <<>> /\ Head(task[p].todo) = "start"
    BY <1>9, AtMeans DEF StartRoom
  <2>2. OthersTyped'
    BY <1>9 DEF StartRoom, TypeOK, OthersTyped, storeVars, syncVars
  <2>3. CASE playback.playing /\ playback.track # NoTrack
    <3> DEFINE m == [task[p] EXCEPT !.ps = playback, !.length = duration[playback.track]]
    <3>1. task' = [task EXCEPT ![p] = Going(<<"schedule">>, m)]
      BY <1>9, <2>3 DEF StartRoom, GoOn, Going
    <3>2. playback.track \in Tracks
      BY <1>0, <2>3 DEF States
    <3>3. m \in Tasks
      BY <1>0, <3>2, LocalsTyped
    <3> HIDE DEF m
    <3>4. \E x \in NextTasks(p) : task' = [task EXCEPT ![p] = x]
      BY <2>1, <3>1, <3>3, OtherList, PlansBegin
    <3> QED
      BY <2>1, <2>2, <3>4, TypesFollow
  <2>4. CASE ~(playback.playing /\ playback.track # NoTrack)
    <3>1. task' = [task EXCEPT ![p] = Going(AdvanceAutoplay, task[p])]
      BY <1>9, <2>4 DEF StartRoom, GoOn, Going
    <3>2. \E x \in NextTasks(p) : task' = [task EXCEPT ![p] = x]
      BY <1>0, <2>1, <3>1, OtherList, PlansBegin
    <3> QED
      BY <2>1, <2>2, <3>2, TypesFollow
  <2> QED
    BY <2>3, <2>4
<1>10. CASE FindPlaylist(p)
  <2>1. task[p].todo # <<>> /\ Head(task[p].todo) = "playlist"
    BY <1>10, AtMeans DEF FindPlaylist
  <2>2. \E x \in NextTasks(p) : task' = [task EXCEPT ![p] = x]
    BY <1>10, <2>1, DoneNext DEF FindPlaylist
  <2>3. OthersTyped'
    BY <1>10, Untouched DEF FindPlaylist
  <2> QED
    BY <2>1, <2>2, <2>3, TypesFollow
<1> QED
  BY <1>1, <1>2, <1>3, <1>4, <1>5, <1>6, <1>7, <1>8, <1>9, <1>10

LEMMA ScheduleTyped ==
  ASSUME TypeOK, TasksOK, NEW p \in Procs, ScheduleAdvance(p)
  PROVE  Typed' /\ TasksOK'
<1> DEFINE length == IF task[p].length = 0 /\ autoplay THEN Fallback ELSE task[p].length
           over == task[p].ps.age >= length
<1>1. task[p].todo # <<>> /\ Head(task[p].todo) = "schedule"
  BY AtMeans DEF ScheduleAdvance
<1>2. task[p] \in Tasks /\ task \in [Procs -> Tasks]
  BY StoreTyped
<1>3. task[p].ps.age \in 0..MaxLength /\ task[p].length \in Ages
  BY <1>2, LocalsTyped
<1>4. length \in 0..MaxLength
  BY <1>3, ConstantsOK DEF Ages
<1>5. UNCHANGED <<queue, index, duration, live, autoplay, playback, nowPlaying, hub, since, idle, restarts, room>>
  BY DEF ScheduleAdvance, storeVars
<1>6. \/ length = 0 /\ armed' = FALSE /\ Done(p) /\ UNCHANGED left
      \/ /\ over /\ armed' = FALSE /\ UNCHANGED left
         /\ \E q \in Workers : task' = [task EXCEPT ![p] = Idle, ![q] = [Idle EXCEPT !.todo = AdvanceTrack]]
      \/ length # 0 /\ ~over /\ armed' = TRUE /\ left' = length - task[p].ps.age /\ Done(p)
  BY DEF ScheduleAdvance
<1>7. armed' \in BOOLEAN /\ left' \in Ages
  <2>1. armed' \in BOOLEAN
    BY <1>6
  <2>2. UNCHANGED left \/ (~over /\ left' = length - task[p].ps.age)
    BY <1>6
  <2>3. left \in Ages /\ MaxLength \in Nat
    BY ConstantsOK, StoreTyped
  <2>4. ASSUME ~over, left' = length - task[p].ps.age PROVE left' \in Ages
    BY <1>3, <1>4, <2>3, <2>4 DEF Ages
  <2> QED
    BY <2>1, <2>2, <2>3, <2>4
<1>8. OthersTyped'
  BY <1>5, <1>7, StoreTyped DEF OthersTyped
<1>9. CASE Done(p)
  <2>1. \E x \in NextTasks(p) : task' = [task EXCEPT ![p] = x]
    BY <1>1, <1>9, DoneNext
  <2> QED
    BY <1>1, <1>8, <2>1, TypesFollow
<1>10. CASE \E q \in Workers : task' = [task EXCEPT ![p] = Idle, ![q] = [Idle EXCEPT !.todo = AdvanceTrack]]
  <2>1. PICK q \in Workers : task' = [task EXCEPT ![p] = Idle, ![q] = [Idle EXCEPT !.todo = AdvanceTrack]]
    BY <1>10
  <2>2. TaskOK(Idle) /\ TaskOK([Idle EXCEPT !.todo = AdvanceTrack])
    <3>1. TaskOK(Going(AdvanceTrack, Idle))
      BY Begun, IdleTyped, PlansBegin
    <3>2. Going(AdvanceTrack, Idle) = [Idle EXCEPT !.todo = AdvanceTrack]
      BY DEF Going, AdvanceTrack
    <3> QED
      BY <3>1, <3>2, Ended, IdleTyped
  <2>3. q \in Procs
    BY DEF Procs
  <2>4. \A r \in Procs : TaskOK(task'[r]) /\ task'[r] \in Tasks
    BY <1>2, <2>1, <2>2, <2>3 DEF TasksOK, TaskOK
  <2>5. task' \in [Procs -> Tasks]
    BY <1>2, <2>1, <2>4
  <2>6. TasksOK'
    BY <2>4 DEF TasksOK
  <2> QED
    BY <1>8, <2>5, <2>6 DEF Typed
<1> QED
  BY <1>6, <1>9, <1>10

LEMMA QueueTyped ==
  ASSUME TypeOK, TasksOK, NEW p \in Procs,
         PopNextTrack(p) \/ ReadIndex(p) \/ WriteIndex(p) \/ UpsertAutoplayTrack(p)
  PROVE  Typed' /\ TasksOK'
<1>0. /\ task[p] \in Tasks /\ duration \in [Tracks -> Ages] /\ queue \in Seq(Tracks)
      /\ \A t \in Tracks : duration[t] \in Ages
      /\ index \in NoPlaylist..Len(Playlist) /\ Playlist \in Seq(Tracks) /\ Len(Playlist) \in Nat \ {0}
      /\ \A i \in 1..Len(Playlist) : Playlist[i] \in Tracks
  <2>1. Playlist \in Seq(Tracks) /\ Playlist # <<>>
    BY ConstantsOK
  <2>2. Len(Playlist) \in Nat \ {0} /\ \A i \in 1..Len(Playlist) : Playlist[i] \in Tracks
    BY <2>1
  <2> QED
    BY <2>1, <2>2, StoreTyped
<1>1. CASE PopNextTrack(p)
  <2>1. UNCHANGED <<index, duration, live, autoplay, playback, nowPlaying, hub, armed, left, since, idle, restarts, room>>
    BY <1>1 DEF PopNextTrack, syncVars
  <2>2. DOMAIN OnEmptyQueue = {"pop", "skip", "golive"}
    BY DEF OnEmptyQueue
  <2>3. PICK call \in {"pop", "skip", "golive"} :
         /\ At(p, call)
         /\ IF queue = <<>>
            THEN GoOn(p, OnEmptyQueue[call], task[p]) /\ UNCHANGED queue
            ELSE /\ queue' = Tail(queue)
                 /\ GoOn(p, Tail(task[p].todo), [task[p] EXCEPT !.ps.track = Head(queue),
                                                               !.length = duration[Head(queue)]])
    BY <1>1, <2>2 DEF PopNextTrack
  <2>4. task[p].todo # <<>> /\ Head(task[p].todo) \notin {"readindex", "writeindex"}
    BY <2>3, AtMeans
  <2>5. CASE queue = <<>>
    <3>1. task' = [task EXCEPT ![p] = Going(OnEmptyQueue[call], task[p])] /\ UNCHANGED queue
      BY <2>3, <2>5 DEF GoOn, Going
    <3>2. \E x \in NextTasks(p) : task' = [task EXCEPT ![p] = x]
      <4>1. CASE call = "pop"
        <5>1. OnEmptyQueue[call] = <<"which">>
          BY <4>1 DEF OnEmptyQueue
        <5> QED
          BY <1>0, <2>4, <3>1, <5>1, OtherList, PlansBegin
      <4>2. CASE call = "skip"
        <5>1. OnEmptyQueue[call] = StopPlaying
          BY <4>2 DEF OnEmptyQueue
        <5> QED
          BY <1>0, <2>4, <3>1, <5>1, OtherList, PlansBegin
      <4>3. CASE call = "golive"
        <5>1. OnEmptyQueue[call] = <<>>
          BY <4>3 DEF OnEmptyQueue
        <5> QED
          BY <1>0, <2>4, <3>1, <5>1, Continues
      <4> QED
        BY <4>1, <4>2, <4>3
    <3>3. OthersTyped'
      BY <2>1, <3>1, StoreTyped DEF OthersTyped
    <3> QED
      BY <2>4, <3>2, <3>3, TypesFollow
  <2>6. CASE queue # <<>>
    <3> DEFINE m == [task[p] EXCEPT !.ps.track = Head(queue), !.length = duration[Head(queue)]]
    <3>1. queue' = Tail(queue) /\ task' = [task EXCEPT ![p] = Going(Tail(task[p].todo), m)]
      BY <2>3, <2>6 DEF GoOn, Going
    <3>2. Head(queue) \in Tracks /\ Tail(queue) \in Seq(Tracks)
      BY <1>0, <2>6
    <3>3. m \in Tasks
      BY <1>0, <3>2, LocalsTyped
    <3> HIDE DEF m
    <3>4. \E x \in NextTasks(p) : task' = [task EXCEPT ![p] = x]
      BY <2>4, <3>1, <3>3, WithLocals
    <3>5. OthersTyped'
      BY <2>1, <3>1, <3>2, StoreTyped DEF OthersTyped
    <3> QED
      BY <2>4, <3>4, <3>5, TypesFollow
  <2> QED
    BY <2>5, <2>6
<1>2. CASE ReadIndex(p)
  <2> DEFINE i == (index % Len(Playlist)) + 1
             m == [task[p] EXCEPT !.index = i]
  <2>1. task[p].todo # <<>> /\ Head(task[p].todo) = "readindex"
    BY <1>2, AtMeans DEF ReadIndex
  <2>2. OthersTyped'
    BY <1>2, Untouched DEF ReadIndex
  <2>3. CASE index = NoPlaylist
    <3>1. task' = [task EXCEPT ![p] = Going(StopPlaying, task[p])]
      BY <1>2, <2>3 DEF ReadIndex, GoOn, Going
    <3>2. \E x \in NextTasks(p) : task' = [task EXCEPT ![p] = x]
      BY <1>0, <2>1, <3>1, OtherList, PlansBegin
    <3> QED
      BY <2>1, <2>2, <3>2, TypesFollow
  <2>4. CASE index # NoPlaylist
    <3>1. task' = [task EXCEPT ![p] = Going(Tail(task[p].todo), m)]
      BY <1>2, <2>4 DEF ReadIndex, GoOn, Going
    <3>2. i \in 1..Len(Playlist)
      <4>1. \A n \in Nat \ {0} : \A k \in 0..n : (k % n) + 1 \in 1..n
        OBVIOUS
      <4>2. index \in 0..Len(Playlist)
        BY <1>0, <2>4 DEF NoPlaylist
      <4> QED
        BY <1>0, <4>1, <4>2, Zenon
    <3>3. m \in Tasks /\ m.index = i
      <4>1. i \in 0..Len(Playlist)
        BY <1>0, <3>2
      <4> QED
        BY <1>0, <4>1, LocalsTyped DEF Tasks
    <3> HIDE DEF m, i
    <3>4. \E x \in NextTasks(p) : task' = [task EXCEPT ![p] = x]
      BY <2>1, <3>1, <3>2, <3>3, Continues
    <3> QED
      BY <2>1, <2>2, <3>4, TypesFollow
  <2> QED
    BY <2>3, <2>4
<1>3. CASE WriteIndex(p)
  <2> DEFINE m == [task[p] EXCEPT !.ps.track = Playlist[task[p].index]]
  <2>1. task[p].todo # <<>> /\ Head(task[p].todo) = "writeindex"
    BY <1>3, AtMeans DEF WriteIndex
  <2>2. /\ index' \in {index, task[p].index}
        /\ task' = [task EXCEPT ![p] = Going(Tail(task[p].todo), m)]
    BY <1>3 DEF WriteIndex, GoOn, Going
  <2>3. task[p].index \in 1..Len(Playlist)
    BY <2>1 DEF TasksOK, TaskOK, Ready
  <2>4. Playlist[task[p].index] \in Tracks
    BY <1>0, <2>3
  <2>5. m \in Tasks /\ m.ps.track \in Tracks
    <3>1. m \in Tasks
      BY <1>0, <2>4, LocalsTyped
    <3>2. m.ps.track = Playlist[task[p].index]
      BY <1>0 DEF Tasks, States
    <3> QED
      BY <2>4, <3>1, <3>2
  <2> HIDE DEF m
  <2>6. \E x \in NextTasks(p) : task' = [task EXCEPT ![p] = x]
    BY <2>1, <2>2, <2>5, Continues
  <2>7. index' \in NoPlaylist..Len(Playlist)
    BY <1>0, <2>2, <2>3 DEF NoPlaylist
  <2>8. UNCHANGED <<queue, duration, live, autoplay, playback, nowPlaying, hub, armed, left, since, idle, restarts, room>>
    BY <1>3 DEF WriteIndex, syncVars
  <2>9. OthersTyped'
    BY <2>7, <2>8, StoreTyped DEF OthersTyped
  <2> QED
    BY <2>1, <2>6, <2>9, TypesFollow
<1>4. CASE UpsertAutoplayTrack(p)
  <2> DEFINE t == task[p].ps.track
             d == IF Length[t] > 0 THEN Length[t] ELSE duration[t]
             m == [task[p] EXCEPT !.length = d]
  <2>1. task[p].todo # <<>> /\ Head(task[p].todo) = "upsert"
    BY <1>4, AtMeans DEF UpsertAutoplayTrack
  <2>2. /\ duration' = [duration EXCEPT ![t] = d]
        /\ task' = [task EXCEPT ![p] = Going(Tail(task[p].todo), m)]
    BY <1>4 DEF UpsertAutoplayTrack, GoOn, Going
  <2>3. t \in Tracks
    BY <2>1 DEF TasksOK, TaskOK, Ready
  <2>4. d \in Ages
    <3>1. Length[t] \in Nat /\ Length[t] <= MaxLength /\ MaxLength \in Nat
      BY <2>3, ConstantsOK
    <3>2. Length[t] \in Ages
      BY <3>1 DEF Ages
    <3> QED
      BY <1>0, <2>3, <3>2
  <2>5. m \in Tasks
    BY <1>0, <2>4, LocalsTyped
  <2> HIDE DEF m, d
  <2>6. \E x \in NextTasks(p) : task' = [task EXCEPT ![p] = x]
    BY <2>1, <2>2, <2>5, WithLocals
  <2>7. duration' \in [Tracks -> Ages]
    BY <1>0, <2>2, <2>4
  <2>8. UNCHANGED <<queue, index, live, autoplay, playback, nowPlaying, hub, armed, left, since, idle, restarts, room>>
    BY <1>4 DEF UpsertAutoplayTrack, syncVars
  <2>9. OthersTyped'
    BY <2>7, <2>8, StoreTyped DEF OthersTyped
  <2> QED
    BY <2>1, <2>6, <2>9, TypesFollow
<1> QED
  BY <1>1, <1>2, <1>3, <1>4

LEMMA StoreStepTyped ==
  ASSUME TypeOK, TasksOK, NEW p \in Procs,
         \/ SetNowPlaying(p) \/ SetPlaybackState(p) \/ ClearPlaybackState(p) \/ ClearNowPlaying(p)
         \/ ReadPlaybackState(p) \/ SavePlaybackState(p) \/ SetRoomLive(p)
         \/ SetRoomAutoplay(p) \/ ActivateStagedPlaylist(p)
  PROVE  Typed' /\ TasksOK'
<1>0. task[p] \in Tasks /\ task[p].ps \in States /\ task[p].ps.track \in Tracks \cup {NoTrack}
      /\ playback \in States
  BY StoreTyped, LocalsTyped
<1>1. CASE SetNowPlaying(p)
  <2>1. task[p].todo # <<>> /\ Head(task[p].todo) = "now"
    BY <1>1, AtMeans DEF SetNowPlaying
  <2>2. \E x \in NextTasks(p) : task' = [task EXCEPT ![p] = x]
    BY <1>1, <2>1, DoneNext DEF SetNowPlaying
  <2>3. UNCHANGED <<queue, index, duration, live, autoplay, playback, hub, armed, left, since, idle, restarts, room>>
    BY <1>1 DEF SetNowPlaying, syncVars, storeVars
  <2>4. nowPlaying' \in Tracks \cup {NoTrack}
    BY <1>0, <1>1 DEF SetNowPlaying
  <2> QED
    BY <2>1, <2>2, <2>3, <2>4, StoreTyped, TypesFollow DEF OthersTyped
<1>2. CASE SetPlaybackState(p)
  <2> DEFINE ps == Playing(task[p].ps.track)
             m == [task[p] EXCEPT !.ps = ps]
  <2>1. task[p].todo # <<>> /\ Head(task[p].todo) = "state"
    BY <1>2, AtMeans DEF SetPlaybackState
  <2>2. playback' = ps /\ task' = [task EXCEPT ![p] = Going(Tail(task[p].todo), m)]
    BY <1>2 DEF SetPlaybackState, GoOn, Going
  <2>3. ps \in States
    BY <1>0, StatesTyped, Zenon
  <2>4. m \in Tasks
    BY <1>0, <2>3, LocalsTyped
  <2> HIDE DEF m, ps
  <2>5. \E x \in NextTasks(p) : task' = [task EXCEPT ![p] = x]
    BY <2>1, <2>2, <2>4, WithLocals
  <2>6. UNCHANGED <<queue, index, duration, live, autoplay, nowPlaying, hub, armed, left, since, idle, restarts, room>>
    BY <1>2 DEF SetPlaybackState, syncVars
  <2> QED
    BY <2>1, <2>2, <2>3, <2>5, <2>6, StoreTyped, TypesFollow DEF OthersTyped
<1>3. CASE ClearPlaybackState(p)
  <2>1. task[p].todo # <<>> /\ Head(task[p].todo) = "clearstate"
    BY <1>3, AtMeans DEF ClearPlaybackState
  <2>2. \E x \in NextTasks(p) : task' = [task EXCEPT ![p] = x]
    BY <1>3, <2>1, DoneNext DEF ClearPlaybackState
  <2>3. UNCHANGED <<queue, index, duration, live, autoplay, nowPlaying, hub, armed, left, since, idle, restarts, room>>
    BY <1>3 DEF ClearPlaybackState, syncVars, storeVars
  <2>4. playback' \in States
    BY <1>3, StatesTyped DEF ClearPlaybackState
  <2> QED
    BY <2>1, <2>2, <2>3, <2>4, StoreTyped, TypesFollow DEF OthersTyped
<1>4. CASE ClearNowPlaying(p)
  <2>1. task[p].todo # <<>> /\ Head(task[p].todo) = "clearnow"
    BY <1>4, AtMeans DEF ClearNowPlaying
  <2>2. \E x \in NextTasks(p) : task' = [task EXCEPT ![p] = x]
    BY <1>4, <2>1, DoneNext DEF ClearNowPlaying
  <2>3. UNCHANGED <<queue, index, duration, live, autoplay, playback, hub, armed, left, since, idle, restarts, room>>
    BY <1>4 DEF ClearNowPlaying, syncVars, storeVars
  <2>4. nowPlaying' \in Tracks \cup {NoTrack}
    BY <1>4 DEF ClearNowPlaying
  <2> QED
    BY <2>1, <2>2, <2>3, <2>4, StoreTyped, TypesFollow DEF OthersTyped
<1>5. CASE ReadPlaybackState(p)
  <2>1. /\ task[p].todo # <<>> /\ Head(task[p].todo) \in {"pause", "resume"}
    BY <1>5, AtMeans DEF ReadPlaybackState
  <2>2. OthersTyped'
    BY <1>5, Untouched DEF ReadPlaybackState
  <2>3. ASSUME NEW ps \in States,
               GoOn(p, Tail(task[p].todo), [task[p] EXCEPT !.ps = ps])
        PROVE  \E x \in NextTasks(p) : task' = [task EXCEPT ![p] = x]
    <3>1. task' = [task EXCEPT ![p] = Going(Tail(task[p].todo), [task[p] EXCEPT !.ps = ps])]
      BY <2>3 DEF GoOn, Going
    <3>2. [task[p] EXCEPT !.ps = ps] \in Tasks
      BY <1>0, LocalsTyped
    <3> QED
      BY <2>1, <3>1, <3>2, WithLocals
  <2> DEFINE paused == [playback EXCEPT !.playing = FALSE, !.pos = playback.age]
             resumed == [playback EXCEPT !.playing = TRUE, !.age = playback.pos]
  <2>4. paused \in States /\ resumed \in States
    BY <1>0, StatesTyped
  <2>5. \/ Return(p)
        \/ GoOn(p, Tail(task[p].todo), [task[p] EXCEPT !.ps = paused])
        \/ GoOn(p, Tail(task[p].todo), [task[p] EXCEPT !.ps = resumed])
    BY <1>5 DEF ReadPlaybackState
  <2> HIDE DEF paused, resumed
  <2>6. \E x \in NextTasks(p) : task' = [task EXCEPT ![p] = x]
    <3>1. CASE Return(p)
      BY <2>1, <3>1, DoneNext
    <3>2. CASE GoOn(p, Tail(task[p].todo), [task[p] EXCEPT !.ps = paused])
      BY <2>3, <2>4, <3>2
    <3>3. CASE GoOn(p, Tail(task[p].todo), [task[p] EXCEPT !.ps = resumed])
      BY <2>3, <2>4, <3>3
    <3> QED
      BY <2>5, <3>1, <3>2, <3>3
  <2> QED
    BY <2>1, <2>2, <2>6, TypesFollow
<1>6. CASE SavePlaybackState(p)
  <2>1. task[p].todo # <<>> /\ Head(task[p].todo) = "save"
    BY <1>6, AtMeans DEF SavePlaybackState
  <2>2. \E x \in NextTasks(p) : task' = [task EXCEPT ![p] = x]
    BY <1>6, <2>1, DoneNext DEF SavePlaybackState
  <2>3. UNCHANGED <<queue, index, duration, live, autoplay, nowPlaying, hub, armed, left, since, idle, restarts, room>>
    BY <1>6 DEF SavePlaybackState, syncVars, storeVars
  <2>4. playback' \in States
    BY <1>0, <1>6 DEF SavePlaybackState
  <2> QED
    BY <2>1, <2>2, <2>3, <2>4, StoreTyped, TypesFollow DEF OthersTyped
<1>7. CASE SetRoomLive(p)
  <2>1. task[p].todo # <<>> /\ Head(task[p].todo) \in {"live", "end"}
    BY <1>7, AtMeans DEF SetRoomLive
  <2>2. \E x \in NextTasks(p) : task' = [task EXCEPT ![p] = x]
    BY <1>7, <2>1, DoneNext DEF SetRoomLive
  <2>3. UNCHANGED <<queue, index, duration, autoplay, playback, nowPlaying, hub, armed, left, since, idle, restarts, room>>
    BY <1>7 DEF SetRoomLive, syncVars, storeVars
  <2>4. live' \in BOOLEAN
    <3>1. live' = At(p, "live") /\ At(p, "live") \in BOOLEAN
      BY <1>7 DEF SetRoomLive, At
    <3> QED
      BY <3>1
  <2> QED
    BY <2>1, <2>2, <2>3, <2>4, StoreTyped, TypesFollow DEF OthersTyped
<1>8. CASE SetRoomAutoplay(p)
  <2>1. task[p].todo # <<>> /\ Head(task[p].todo) \in {"setautoplay", "launch", "unsetautoplay"}
    BY <1>8, AtMeans DEF SetRoomAutoplay
  <2>2. \E x \in NextTasks(p) : task' = [task EXCEPT ![p] = x]
    BY <1>8, <2>1, DoneNext DEF SetRoomAutoplay
  <2>3. UNCHANGED <<queue, index, duration, playback, nowPlaying, hub, armed, left, since, idle, restarts, room>>
    BY <1>8 DEF SetRoomAutoplay, syncVars, storeVars
  <2>4. live' \in BOOLEAN /\ autoplay' \in BOOLEAN
    BY <1>8 DEF SetRoomAutoplay
  <2> QED
    BY <2>1, <2>2, <2>3, <2>4, StoreTyped, TypesFollow DEF OthersTyped
<1>9. CASE ActivateStagedPlaylist(p)
  <2>1. task[p].todo # <<>> /\ Head(task[p].todo) = "activate"
    BY <1>9, AtMeans DEF ActivateStagedPlaylist
  <2>2. \E x \in NextTasks(p) : task' = [task EXCEPT ![p] = x]
    BY <1>9, <2>1, DoneNext DEF ActivateStagedPlaylist
  <2>3. UNCHANGED <<queue, duration, live, autoplay, playback, nowPlaying, hub, armed, left, since, idle, restarts, room>>
    BY <1>9 DEF ActivateStagedPlaylist, syncVars, storeVars
  <2>4. index' \in NoPlaylist..Len(Playlist)
    <3>1. Len(Playlist) \in Nat
      BY ConstantsOK
    <3>2. {0, NoPlaylist} \subseteq NoPlaylist..Len(Playlist)
      BY <3>1 DEF NoPlaylist
    <3> QED
      BY <1>9, <3>2 DEF ActivateStagedPlaylist
  <2> QED
    BY <2>1, <2>2, <2>3, <2>4, StoreTyped, TypesFollow DEF OthersTyped
<1> QED
  BY <1>1, <1>2, <1>3, <1>4, <1>5, <1>6, <1>7, <1>8, <1>9

LEMMA IdleStepTyped ==
  ASSUME TypeOK, TasksOK, NEW p \in Procs, ReadIdleness(p) \/ JudgeIdle(p) \/ Untrack(p)
  PROVE  Typed' /\ TasksOK'
<1>0. task[p] \in Tasks /\ Idle \in Tasks /\ idle \in {Untracked} \cup 0..IdleTimeout
  BY StoreTyped, IdleTyped
<1>1. CASE ReadIdleness(p)
  <2>1. DOMAIN LooksBusy = {"rooms", "playbacks", "counts"}
    BY DEF LooksBusy
  <2>2. PICK call \in {"rooms", "playbacks", "counts"} :
          At(p, call) /\ IF LooksBusy[call] THEN GoOn(p, <<"untrack">>, Idle) ELSE Done(p)
    BY <1>1, <2>1 DEF ReadIdleness
  <2>3. task[p].todo # <<>> /\ Head(task[p].todo) \notin {"readindex", "writeindex"}
    BY <2>2, AtMeans
  <2>4. OthersTyped'
    BY <1>1, Untouched DEF ReadIdleness
  <2>5. CASE GoOn(p, <<"untrack">>, Idle)
    <3>1. task' = [task EXCEPT ![p] = Going(<<"untrack">>, Idle)]
      BY <2>5 DEF GoOn, Going
    <3>2. \E x \in NextTasks(p) : task' = [task EXCEPT ![p] = x]
      BY <1>0, <2>3, <3>1, OtherList, PlansBegin
    <3> QED
      BY <2>3, <2>4, <3>2, TypesFollow
  <2>6. CASE Done(p)
    <3>1. \E x \in NextTasks(p) : task' = [task EXCEPT ![p] = x]
      BY <2>3, <2>6, DoneNext
    <3> QED
      BY <2>3, <2>4, <3>1, TypesFollow
  <2> QED
    BY <2>2, <2>5, <2>6
<1>2. CASE JudgeIdle(p)
  <2>1. task[p].todo # <<>> /\ Head(task[p].todo) = "judge"
    BY <1>2, AtMeans DEF JudgeIdle
  <2>2. UNCHANGED <<queue, index, duration, live, autoplay, playback, nowPlaying, hub, armed, left, since, restarts, room>>
    BY <1>2 DEF JudgeIdle, storeVars
  <2>3. idle' \in {Untracked} \cup 0..IdleTimeout
    <3>1. idle' \in {idle, 0} /\ IdleTimeout \in Nat
      BY <1>2, ConstantsOK DEF JudgeIdle
    <3> QED
      BY <1>0, <3>1
  <2>4. OthersTyped'
    BY <2>2, <2>3, StoreTyped DEF OthersTyped
  <2>5. CASE GoOn(p, CloseRoom \o <<"untrack">>, Idle)
    <3>1. task' = [task EXCEPT ![p] = Going(CloseRoom \o <<"untrack">>, Idle)]
      BY <2>5 DEF GoOn, Going
    <3>2. \E x \in NextTasks(p) : task' = [task EXCEPT ![p] = x]
      BY <1>0, <2>1, <3>1, OtherList, PlansBegin
    <3> QED
      BY <2>1, <2>4, <3>2, TypesFollow
  <2>6. CASE Done(p)
    <3>1. \E x \in NextTasks(p) : task' = [task EXCEPT ![p] = x]
      BY <2>1, <2>6, DoneNext
    <3> QED
      BY <2>1, <2>4, <3>1, TypesFollow
  <2> QED
    BY <1>2, <2>5, <2>6 DEF JudgeIdle
<1>3. CASE Untrack(p)
  <2>1. task[p].todo # <<>> /\ Head(task[p].todo) = "untrack"
    BY <1>3, AtMeans DEF Untrack
  <2>2. \E x \in NextTasks(p) : task' = [task EXCEPT ![p] = x]
    BY <1>3, <2>1, DoneNext DEF Untrack
  <2>3. UNCHANGED <<queue, index, duration, live, autoplay, playback, nowPlaying, hub, armed, left, since, restarts, room>>
    BY <1>3 DEF Untrack, syncVars, storeVars
  <2>4. idle' \in {Untracked} \cup 0..IdleTimeout
    BY <1>3 DEF Untrack
  <2> QED
    BY <2>1, <2>2, <2>3, <2>4, StoreTyped, TypesFollow DEF OthersTyped
<1> QED
  BY <1>1, <1>2, <1>3
\* A goroutine that starts: what it is given to do, and with which locals.
LEMMA Launched ==
  ASSUME TypeOK, TasksOK, NEW p \in Procs, NEW cs, Begins(cs), NEW m \in Tasks, OthersTyped',
         task' = [task EXCEPT ![p] = Going(cs, m)]
  PROVE  Typed' /\ TasksOK'
<1>1. TaskOK(Going(cs, m))
  BY Begun
<1>2. task' \in [Procs -> Tasks] /\ TasksOK'
  BY <1>1, TasksFollow
<1> QED
  BY <1>2 DEF Typed

\* What Begin starts: an action of the DJ or a handler, the latter with the track GoLive brings.
LEMMA BeginGives ==
  ASSUME NEW p, Begin(p)
  PROVE  /\ task[p].todo = <<>> /\ task[Main].todo = <<>> /\ p \notin {Main, Monitor}
         /\ UNCHANGED <<storeVars, hub, syncVars, restarts, room, history>>
         /\ \/ /\ p \in Loops
               /\ \E a \in room.handlers \cap DOMAIN DJActions :
                     task' = [task EXCEPT ![p] = Going(DJActions[a], Idle)]
            \/ /\ p \notin Loops
               /\ \E h \in room.handlers \cap DOMAIN Concurrent :
                    \E t \in IF h = "GoLive" THEN Submitted ELSE {NoTrack} :
                      task' = [task EXCEPT ![p] = Going(Concurrent[h],
                                 [Idle EXCEPT !.ps.track = t, !.length = IF t = NoTrack THEN 0 ELSE duration[t]])]
BY DEF Begin, Free, GoOn, Going

LEMMA BeginTyped ==
  ASSUME TypeOK, TasksOK, NEW p \in Procs, Begin(p)
  PROVE  Typed' /\ TasksOK'
<1>1. OthersTyped'
  BY BeginGives, Untouched
<1>2. CASE \E a \in room.handlers \cap DOMAIN DJActions :
             task' = [task EXCEPT ![p] = Going(DJActions[a], Idle)]
  <2>1. PICK a \in DOMAIN DJActions : task' = [task EXCEPT ![p] = Going(DJActions[a], Idle)]
    BY <1>2
  <2> QED
    BY <1>1, <2>1, ActionsBegin, IdleTyped, Launched
<1>3. CASE \E h \in room.handlers \cap DOMAIN Concurrent :
             \E t \in IF h = "GoLive" THEN Submitted ELSE {NoTrack} :
               task' = [task EXCEPT ![p] = Going(Concurrent[h],
                          [Idle EXCEPT !.ps.track = t, !.length = IF t = NoTrack THEN 0 ELSE duration[t]])]
  <2>1. PICK h \in DOMAIN Concurrent, t \in Tracks \cup {NoTrack} :
           task' = [task EXCEPT ![p] = Going(Concurrent[h],
                      [Idle EXCEPT !.ps.track = t, !.length = IF t = NoTrack THEN 0 ELSE duration[t]])]
    BY <1>3 DEF Submitted
  <2> DEFINE d == IF t = NoTrack THEN 0 ELSE duration[t]
             m == [Idle EXCEPT !.ps.track = t, !.length = d]
  <2>2. d \in Ages
    BY StoreTyped, ConstantsOK DEF Ages
  <2>3. m \in Tasks
    BY <2>2, IdleTyped, LocalsTyped
  <2> HIDE DEF m, d
  <2>4. task' = [task EXCEPT ![p] = Going(Concurrent[h], m)]
    BY <2>1 DEF m, d
  <2> QED
    BY <1>1, <2>3, <2>4, HandlersBegin, Launched
<1> QED
  BY <1>2, <1>3, BeginGives

LEMMA FireTimerTyped ==
  ASSUME TypeOK, TasksOK, NEW p \in Procs, FireTimer(p)
  PROVE  Typed' /\ TasksOK'
<1>1. task' = [task EXCEPT ![p] = Going(AdvanceTrack, Idle)]
  BY DEF FireTimer, GoOn, Going
<1>2. UNCHANGED <<queue, index, duration, live, autoplay, playback, nowPlaying, hub, left, since, idle, restarts, room>>
      /\ armed' = FALSE
  BY DEF FireTimer, storeVars
<1>3. OthersTyped'
  BY <1>2, StoreTyped DEF OthersTyped
<1> QED
  BY <1>1, <1>3, IdleTyped, PlansBegin, Launched

LEMMA CheckIdleTyped ==
  ASSUME TypeOK, TasksOK, CheckIdle
  PROVE  Typed' /\ TasksOK'
<1>1. task' = [task EXCEPT ![Monitor] = Going(IdleCheck, Idle)] /\ Monitor \in Procs
  BY DEF CheckIdle, GoOn, Going, Procs
<1>2. OthersTyped'
  BY Untouched DEF CheckIdle
<1> QED
  BY <1>1, <1>2, IdleTyped, PlansBegin, Launched

LEMMA SubmitTyped ==
  ASSUME TypeOK, TasksOK, NEW t \in Submitted, Submit(t)
  PROVE  Typed' /\ TasksOK'
<1>1. queue' \in Seq(Tracks)
  <2>1. t \in Tracks /\ queue \in Seq(Tracks) /\ queue' = Append(queue, t)
    BY StoreTyped DEF Submitted, Submit
  <2> QED
    BY <2>1
<1>2. UNCHANGED <<index, duration, live, autoplay, playback, nowPlaying, hub, armed, left, since, idle, task, restarts, room>>
  BY DEF Submit, syncVars
<1>3. Typed'
  BY <1>1, <1>2, StoreTyped DEF Typed, OthersTyped
<1>4. TasksOK'
  BY <1>2 DEF TasksOK
<1> QED
  BY <1>3, <1>4

LEMMA HubTyped ==
  ASSUME TypeOK, TasksOK, HubComesAndGoes
  PROVE  Typed' /\ TasksOK'
<1>1. hub' = ~hub /\ UNCHANGED <<queue, index, duration, live, autoplay, playback, nowPlaying, armed, left, since, idle, task, restarts, room>>
  BY DEF HubComesAndGoes, syncVars, storeVars
<1> QED
  BY <1>1, StoreTyped DEF Typed, OthersTyped, TasksOK

LEMMA BootingTyped == Booting \in [Procs -> Tasks] /\ \A p \in Procs : TaskOK(Booting[p])
<1>1. TaskOK(Idle) /\ TaskOK(Going(StartAutoplayRooms, Idle))
  BY Begun, Ended, IdleTyped, PlansBegin
<1>2. Going(StartAutoplayRooms, Idle) = [Idle EXCEPT !.todo = StartAutoplayRooms]
  BY DEF Going, StartAutoplayRooms
<1>3. \A p \in Procs : Booting[p] = IF p = Main THEN [Idle EXCEPT !.todo = StartAutoplayRooms] ELSE Idle
  BY DEF Booting
<1>4. \A p \in Procs : TaskOK(Booting[p])
  BY <1>1, <1>2, <1>3
<1>5. \A p \in Procs : Booting[p] \in Tasks
  BY <1>4 DEF TaskOK
<1>6. Booting = [p \in Procs |-> Booting[p]]
  BY DEF Booting
<1> QED
  BY <1>4, <1>5, <1>6

LEMMA RestartTyped ==
  ASSUME TypeOK, TasksOK, Restart
  PROVE  Typed' /\ TasksOK'
<1>0. /\ room \in Rooms /\ live \in BOOLEAN /\ autoplay \in BOOLEAN /\ restarts \in 0..room.crashes
      /\ room.crashes \in Nat /\ Debounce \in Nat /\ room.attended \in BOOLEAN
      /\ 0 \in Ages /\ nowPlaying \in Tracks \cup {NoTrack}
  <2>1. /\ room \in Rooms /\ live \in BOOLEAN /\ autoplay \in BOOLEAN
        /\ restarts \in 0..room.crashes /\ nowPlaying \in Tracks \cup {NoTrack}
    BY StoreTyped
  <2>2. room.crashes \in Nat /\ Debounce \in Nat /\ room.attended \in BOOLEAN
    BY <2>1, ConstantsOK
  <2>3. 0 \in Ages
    BY ConstantsOK DEF Ages
  <2> QED
    BY <2>1, <2>2, <2>3
<1>1. /\ restarts < room.crashes /\ restarts' = restarts + 1 /\ task' = Booting
      /\ armed' = FALSE /\ left' = 0 /\ since' = Debounce /\ idle' = Untracked
      /\ hub' = room.attended /\ live' = (live /\ autoplay)
      /\ nowPlaying' = IF autoplay THEN nowPlaying ELSE NoTrack
      /\ UNCHANGED <<queue, index, duration, autoplay, playback, room>>
  BY DEF Restart
<1>2. restarts' \in 0..room'.crashes /\ since' \in 0..Debounce
  BY <1>0, <1>1
<1>3. hub' \in BOOLEAN /\ live' \in BOOLEAN /\ nowPlaying' \in Tracks \cup {NoTrack} /\ left' \in Ages
      /\ armed' \in BOOLEAN
  BY <1>0, <1>1
<1>4. OthersTyped'
  BY <1>1, <1>2, <1>3, StoreTyped DEF OthersTyped
<1>5. task' \in [Procs -> Tasks] /\ TasksOK'
  <2>1. \A p \in Procs : TaskOK(task'[p])
    BY <1>1, BootingTyped
  <2> QED
    BY <1>1, <2>1, BootingTyped DEF TasksOK
<1> QED
  BY <1>4, <1>5 DEF Typed

\* Time changes no list and no track.
LEMMA OlderKeeps ==
  ASSUME NEW ps \in States
  PROVE  /\ Older(ps).track = ps.track /\ Older(ps).playing = ps.playing /\ Older(ps).pos = ps.pos
         /\ Older(ps).age = IF ps.track = NoTrack \/ ps.age = MaxLength THEN ps.age ELSE ps.age + 1
BY DEF Older, States

LEMMA TickGives ==
  ASSUME TypeOK, Tick
  PROVE  /\ UNCHANGED <<queue, index, duration, live, autoplay, nowPlaying, hub, armed, restarts, room>>
         /\ playback' = Older(playback)
         /\ \A p \in Procs : /\ task'[p] \in Tasks
                             /\ task'[p].todo = task[p].todo /\ task'[p].index = task[p].index
                             /\ task'[p].length = task[p].length
                             /\ task'[p].ps = Older(task[p].ps)
                             /\ task'[p].ps.track = task[p].ps.track
         /\ task' \in [Procs -> Tasks]
<1>1. task' = [p \in Procs |-> [task[p] EXCEPT !.ps = Older(task[p].ps)]]
  BY DEF Tick
<1>2. ASSUME NEW p \in Procs
      PROVE  /\ task'[p] \in Tasks
             /\ task'[p].todo = task[p].todo /\ task'[p].index = task[p].index
             /\ task'[p].length = task[p].length
             /\ task'[p].ps = Older(task[p].ps)
             /\ task'[p].ps.track = task[p].ps.track
  <2>1. task[p] \in Tasks /\ task[p].ps \in States
    BY StoreTyped, LocalsTyped
  <2>2. Older(task[p].ps) \in States /\ Older(task[p].ps).track = task[p].ps.track
    BY <2>1, StatesTyped, OlderKeeps
  <2>3. task'[p] = [task[p] EXCEPT !.ps = Older(task[p].ps)]
    BY <1>1
  <2>4. task'[p] \in Tasks
    BY <2>1, <2>2, <2>3, LocalsTyped
  <2>5. /\ task'[p].todo = task[p].todo /\ task'[p].index = task[p].index
        /\ task'[p].length = task[p].length
        /\ task'[p].ps = Older(task[p].ps)
    BY <2>1, <2>3 DEF Tasks
  <2> QED
    BY <2>2, <2>4, <2>5
<1>3. task' \in [Procs -> Tasks]
  <2>1. \A p \in Procs : [task[p] EXCEPT !.ps = Older(task[p].ps)] \in Tasks
    BY <1>1, <1>2
  <2> QED
    BY <1>1, <2>1
<1> QED
  BY <1>2, <1>3 DEF Tick

LEMMA TickTyped ==
  ASSUME TypeOK, TasksOK, Tick
  PROVE  Typed' /\ TasksOK'
<1>1. /\ left' = IF armed /\ left > 0 THEN left - 1 ELSE left
      /\ since' = IF since < Debounce THEN since + 1 ELSE since
      /\ idle' = IF idle \in 0..(IdleTimeout - 1) THEN idle + 1 ELSE idle
  BY DEF Tick
<1>2. left' \in Ages
  <2>1. left \in 0..MaxLength /\ MaxLength \in Nat
    BY ConstantsOK, StoreTyped DEF Ages
  <2>2. left' = left \/ (left > 0 /\ left' = left - 1)
    BY <1>1
  <2> QED
    BY <2>1, <2>2 DEF Ages
<1>3. since' \in 0..Debounce
  <2>1. since \in 0..Debounce /\ Debounce \in Nat
    BY ConstantsOK, StoreTyped
  <2> QED
    BY <1>1, <2>1
<1>4. idle' \in {Untracked} \cup 0..IdleTimeout
  <2>1. IdleTimeout \in Nat /\ idle \in {Untracked} \cup 0..IdleTimeout
    BY ConstantsOK, StoreTyped
  <2> QED
    BY <1>1, <2>1
<1>5. playback' \in States
  BY TickGives, StoreTyped, StatesTyped
<1>6. Typed'
  BY <1>2, <1>3, <1>4, <1>5, TickGives, StoreTyped DEF Typed, OthersTyped
<1>7. \A p \in Procs : TaskOK(task[p]) => TaskOK(task'[p])
  BY TickGives DEF TaskOK, Ready
<1>8. TasksOK'
  BY <1>7 DEF TasksOK
<1> QED
  BY <1>6, <1>8

LEMMA InitTyped == Init => TypeOK /\ TasksOK
<1> SUFFICES ASSUME Init PROVE TypeOK /\ TasksOK
  OBVIOUS
<1>1. /\ room \in Rooms /\ room.autoplay \in BOOLEAN /\ room.attended \in BOOLEAN
      /\ InitialQueue \in Seq(Submitted) /\ Submitted \subseteq Tracks
      /\ Len(Playlist) \in Nat /\ Debounce \in Nat /\ MaxLength \in Nat /\ room.crashes \in Nat /\ room.failures \in Nat
  BY ConstantsOK DEF Init, Submitted
<1>2. queue \in Seq(Tracks)
  <2>1. InitialQueue \in Seq(Tracks) /\ <<>> \in Seq(Tracks)
    BY <1>1
  <2> QED
    BY <2>1 DEF Init
<1>3. duration \in [Tracks -> Ages]
  BY ConstantsOK, <1>1 DEF Init, Ages
<1>4. left \in Ages /\ since \in 0..Debounce /\ restarts \in 0..room.crashes /\ index \in NoPlaylist..Len(Playlist)
  BY <1>1 DEF Init, Ages, NoPlaylist
<1>5. playback \in States /\ nowPlaying \in Tracks \cup {NoTrack} /\ idle \in {Untracked} \cup 0..IdleTimeout
      /\ armed \in BOOLEAN
  BY StatesTyped DEF Init
<1>6. live \in BOOLEAN /\ autoplay \in BOOLEAN /\ hub \in BOOLEAN
  BY <1>1 DEF Init
<1>8. failures \in 0..room.failures /\ torn \in BOOLEAN /\ amiss \subseteq Mishaps
  <2>1. failures = 0 /\ torn = FALSE /\ amiss = {}
    BY DEF Init
  <2>2. 0 \in 0..room.failures
    BY <1>1
  <2> QED
    BY <2>1, <2>2
<1>7. task \in [Procs -> Tasks] /\ TasksOK
  BY BootingTyped DEF Init, TasksOK
<1> QED
  BY <1>1, <1>2, <1>3, <1>4, <1>5, <1>6, <1>7, <1>8, StoreTyped

LEMMA StepTyped ==
  ASSUME TypeOK, TasksOK, NEW p \in Procs, Step(p)
  PROVE  Typed' /\ TasksOK'
BY SyncTyped, ScheduleTyped, QueueTyped, StoreStepTyped, IdleStepTyped DEF Step

\* A call that fails: who made it goes on or returns, and writes nothing of what plays.
LEMMA FailMeans ==
  ASSUME NEW p, CallFails(p)
  PROVE  /\ task[p].todo # <<>> /\ (Return(p) \/ GoesOnWithout(p))
         /\ UNCHANGED <<playback, nowPlaying, left, since, idle, restarts, room>>
<1>1. Return(p) \/ GoesOnWithout(p)
  BY DEF CallFails
<1>2. \E call : At(p, call)
  BY DEF CallFails, GoesOnWithout
<1> QED
  BY <1>1, <1>2, AtMeans DEF CallFails

LEMMA WithoutNext ==
  ASSUME TypeOK, TasksOK, NEW p \in Procs, GoesOnWithout(p)
  PROVE  \E x \in NextTasks(p) : task' = [task EXCEPT ![p] = x]
<1> DEFINE l == task[p]
<1>0. /\ l \in Tasks /\ l.ps \in States /\ l.ps.track \in Tracks \cup {NoTrack}
      /\ \A i \in 1..Len(Playlist) : Playlist[i] \in Tracks
  <2>1. Playlist \in Seq(Tracks)
    BY ConstantsOK
  <2>2. \A i \in 1..Len(Playlist) : Playlist[i] \in Tracks
    BY <2>1
  <2> QED
    BY <2>2, StoreTyped, LocalsTyped
<1>1. CASE (\E call \in Ignored : At(p, call)) /\ Done(p)
  <2>1. l.todo # <<>> /\ Head(l.todo) \notin {"readindex", "writeindex"}
    BY <1>1, AtMeans DEF Ignored
  <2> QED
    BY <1>1, <2>1, DoneNext
<1>2. CASE At(p, "state") /\ GoOn(p, Tail(l.todo), [l EXCEPT !.ps = Playing(l.ps.track)])
  <2> DEFINE m == [l EXCEPT !.ps = Playing(l.ps.track)]
  <2>1. l.todo # <<>> /\ Head(l.todo) = "state" /\ task' = [task EXCEPT ![p] = Going(Tail(l.todo), m)]
    BY <1>2, AtMeans DEF GoOn, Going
  <2>2. m \in Tasks
    BY <1>0, StatesTyped, LocalsTyped
  <2> QED
    BY <2>1, <2>2, WithLocals
<1>3. CASE At(p, "writeindex") /\ GoOn(p, Tail(l.todo), [l EXCEPT !.ps.track = Playlist[l.index]])
  <2> DEFINE m == [l EXCEPT !.ps.track = Playlist[l.index]]
  <2>1. /\ l.todo # <<>> /\ Head(l.todo) = "writeindex"
        /\ task' = [task EXCEPT ![p] = Going(Tail(l.todo), m)]
    BY <1>3, AtMeans DEF GoOn, Going
  <2>2. l.index \in 1..Len(Playlist)
    BY <2>1 DEF TasksOK, TaskOK, Ready
  <2>3. Playlist[l.index] \in Tracks
    BY <1>0, <2>2
  <2>4. m \in Tasks /\ m.ps.track = Playlist[l.index]
    <3>1. m \in Tasks
      BY <1>0, <2>3, LocalsTyped
    <3> QED
      BY <1>0, <3>1 DEF Tasks, States
  <2> HIDE DEF m
  <2> QED
    BY <2>1, <2>3, <2>4, Continues
<1>4. CASE At(p, "upsert") /\ GoOn(p, Tail(l.todo), [l EXCEPT !.length = Length[l.ps.track]])
  <2> DEFINE m == [l EXCEPT !.length = Length[l.ps.track]]
  <2>1. l.todo # <<>> /\ Head(l.todo) = "upsert" /\ task' = [task EXCEPT ![p] = Going(Tail(l.todo), m)]
    BY <1>4, AtMeans DEF GoOn, Going
  <2>2. l.ps.track \in Tracks
    BY <2>1 DEF TasksOK, TaskOK, Ready
  <2>3. Length[l.ps.track] \in Ages
    BY <2>2, ConstantsOK DEF Ages
  <2>4. m \in Tasks
    BY <1>0, <2>3, LocalsTyped
  <2> QED
    BY <2>1, <2>4, WithLocals
<1>5. CASE (At(p, "which") \/ At(p, "readindex")) /\ GoOn(p, StopPlaying, l)
  <2>1. l.todo # <<>> /\ task' = [task EXCEPT ![p] = Going(StopPlaying, l)]
    BY <1>5, AtMeans DEF GoOn, Going
  <2> QED
    BY <1>0, <2>1, OtherList, PlansBegin
<1>6. CASE At(p, "verify") /\ (Done(p) \/ Return(p))
  <2>1. l.todo # <<>> /\ Head(l.todo) = "verify"
    BY <1>6, AtMeans
  <2> QED
    BY <1>6, <2>1, DoneNext
<1>7. CASE At(p, "start") /\ GoOn(p, AdvanceAutoplay, l)
  <2>1. l.todo # <<>> /\ task' = [task EXCEPT ![p] = Going(AdvanceAutoplay, l)]
    BY <1>7, AtMeans DEF GoOn, Going
  <2> QED
    BY <1>0, <2>1, OtherList, PlansBegin
<1>8. CASE At(p, "schedule") /\ Done(p)
  <2>1. l.todo # <<>> /\ Head(l.todo) = "schedule"
    BY <1>8, AtMeans
  <2> QED
    BY <1>8, <2>1, DoneNext
<1> QED
  BY <1>1, <1>2, <1>3, <1>4, <1>5, <1>6, <1>7, <1>8 DEF GoesOnWithout

LEMMA FailTyped ==
  ASSUME TypeOK, TasksOK, NEW p \in Procs, CallFails(p)
  PROVE  Typed' /\ TasksOK'
<1>0. /\ task[p] \in Tasks /\ duration \in [Tracks -> Ages] /\ queue \in Seq(Tracks)
      /\ index \in NoPlaylist..Len(Playlist) /\ hub \in BOOLEAN /\ armed \in BOOLEAN
      /\ live \in BOOLEAN /\ autoplay \in BOOLEAN /\ Len(Playlist) \in Nat
  BY StoreTyped, ConstantsOK
<1>1. \E x \in NextTasks(p) : task' = [task EXCEPT ![p] = x]
  <2>1. CASE Return(p)
    <3>1. Going(<<>>, task[p]) \in NextTasks(p)
      BY FailMeans, Continues
    <3> QED
      BY <2>1, <3>1 DEF Return, GoOn, Going
  <2>2. CASE GoesOnWithout(p)
    BY <2>2, WithoutNext
  <2> QED
    BY <2>1, <2>2, FailMeans
<1>2. queue' \in {queue, Tail(queue)} /\ (queue' # queue => queue # <<>>)
      /\ index' \in {index, 0, NoPlaylist}
      /\ (UNCHANGED <<live, autoplay>> \/ (live' = TRUE /\ autoplay' = TRUE))
  BY DEF CallFails, LostAnswer
<1>3. duration' = duration \/ \E d \in MinPlay..MaxLength : duration' = [duration EXCEPT ![task[p].ps.track] = d]
  BY DEF CallFails, LostAnswer
<1>4. queue' \in Seq(Tracks)
  BY <1>0, <1>2
<1>5. duration' \in [Tracks -> Ages]
  <2>1. MinPlay..MaxLength \subseteq Ages
    BY ConstantsOK DEF Ages
  <2> QED
    BY <1>0, <1>3, <2>1
<1>6. index' \in NoPlaylist..Len(Playlist)
  BY <1>0, <1>2 DEF NoPlaylist
<1>7. hub' \in BOOLEAN /\ armed' \in BOOLEAN
  <2>1. hub' = (hub \/ At(p, "start")) /\ armed' = (armed /\ ~At(p, "schedule"))
    BY DEF CallFails
  <2>2. At(p, "start") \in BOOLEAN /\ At(p, "schedule") \in BOOLEAN
    BY DEF At
  <2> QED
    BY <1>0, <2>1, <2>2
<1>8. OthersTyped'
  <2>1. live' \in BOOLEAN /\ autoplay' \in BOOLEAN
    BY <1>0, <1>2
  <2> QED
    BY <1>4, <1>5, <1>6, <1>7, <2>1, FailMeans, StoreTyped DEF OthersTyped
<1> QED
  BY <1>1, <1>8, FailMeans, TypesFollow

\* The histories: what a step may make of them.
HistoryTyped == failures \in 0..room.failures /\ torn \in BOOLEAN /\ amiss \subseteq Mishaps

\* Which calls write, and which of them what.
LEMMA StepRecords ==
  ASSUME NEW p, Step(p)
  PROVE  /\ UNCHANGED <<failures, room, restarts>>
         /\ (torn' = torn \/ Writes(p))
         /\ amiss' \subseteq amiss \cup {"stale"}
<1>1. CASE SetNowPlaying(p) \/ SetPlaybackState(p) \/ ClearPlaybackState(p) \/ ClearNowPlaying(p)
           \/ SavePlaybackState(p)
  BY <1>1 DEF SetNowPlaying, SetPlaybackState, ClearPlaybackState, ClearNowPlaying, SavePlaybackState
<1>2. CASE ScheduleAdvance(p) \/ SetRoomAutoplay(p)
  BY <1>2 DEF ScheduleAdvance, SetRoomAutoplay
<1>3. CASE \/ DebounceAdvance(p) \/ FindHub(p) \/ PopNextTrack(p) \/ WhichRoom(p) \/ CancelAdvance(p)
           \/ ReadPlaybackState(p) \/ SetRoomLive(p) \/ ReadReport(p) \/ VerifyEnd(p) \/ LearnDuration(p)
  BY <1>3 DEF DebounceAdvance, FindHub, PopNextTrack, WhichRoom, CancelAdvance, ReadPlaybackState,
              SetRoomLive, ReadReport, VerifyEnd, LearnDuration, history
<1>4. CASE \/ ReadIndex(p) \/ WriteIndex(p) \/ UpsertAutoplayTrack(p) \/ FindPlaylist(p)
           \/ ActivateStagedPlaylist(p) \/ ListRoom(p) \/ StartRoom(p)
           \/ ReadIdleness(p) \/ JudgeIdle(p) \/ Untrack(p)
  BY <1>4 DEF ReadIndex, WriteIndex, UpsertAutoplayTrack, FindPlaylist, ActivateStagedPlaylist, ListRoom,
              StartRoom, ReadIdleness, JudgeIdle, Untrack, history
<1> QED
  BY <1>1, <1>2, <1>3, <1>4 DEF Step

LEMMA HistoryNext ==
  ASSUME TypeOK, [Next]_vars
  PROVE  HistoryTyped'
<1>0. /\ failures \in 0..room.failures /\ torn \in BOOLEAN /\ amiss \subseteq Mishaps
      /\ room.failures \in Nat
  BY StoreTyped, ConstantsOK
<1>1. ASSUME NEW p \in Procs, Step(p) PROVE HistoryTyped'
  <2>1. torn' \in BOOLEAN
    BY <1>0, <1>1, StepRecords DEF Writes
  <2>2. amiss' \subseteq Mishaps
    BY <1>0, <1>1, StepRecords DEF Mishaps
  <2> QED
    BY <1>0, <1>1, <2>1, <2>2, StepRecords DEF HistoryTyped
<1>2. ASSUME NEW p \in Procs, CallFails(p) PROVE HistoryTyped'
  <2>1. failures' = failures + 1 /\ failures < room.failures /\ room' = room
    BY <1>2 DEF CallFails
  <2>2. torn' \in BOOLEAN
    BY <1>0, <1>2 DEF CallFails
  <2>3. amiss' \subseteq Mishaps
    BY <1>0, <1>2 DEF CallFails, Mishaps
  <2>4. failures' \in 0..room'.failures
    BY <1>0, <2>1
  <2> QED
    BY <2>2, <2>3, <2>4 DEF HistoryTyped
<1>3. CASE Restart
  <2>1. torn' \in BOOLEAN /\ amiss' \subseteq amiss /\ UNCHANGED <<failures, room>>
    BY <1>0, <1>3 DEF Restart
  <2> QED
    BY <1>0, <2>1 DEF HistoryTyped
<1>4. CASE UNCHANGED <<room, history>>
  BY <1>0, <1>4 DEF HistoryTyped, history
<1>5. ASSUME NEW p \in Procs, Begin(p) \/ FireTimer(p) PROVE UNCHANGED <<room, history>>
  BY <1>5 DEF Begin, FireTimer
<1>6. ASSUME NEW t \in Submitted, Submit(t) PROVE UNCHANGED <<room, history>>
  BY <1>6 DEF Submit
<1>7. CheckIdle \/ HubComesAndGoes \/ Tick \/ UNCHANGED vars => UNCHANGED <<room, history>>
  BY DEF CheckIdle, HubComesAndGoes, Tick, vars
<1> QED
  BY <1>1, <1>2, <1>3, <1>4, <1>5, <1>6, <1>7 DEF Next

LEMMA NextTyped ==
  ASSUME TypeOK, TasksOK, [Next]_vars
  PROVE  TypeOK' /\ TasksOK'
<1>1. ASSUME NEW p \in Procs, Begin(p) \/ Step(p) \/ CallFails(p) \/ FireTimer(p)
      PROVE  Typed' /\ TasksOK'
  BY <1>1, BeginTyped, StepTyped, FailTyped, FireTimerTyped
<1>2. ASSUME NEW t \in Submitted, Submit(t) PROVE Typed' /\ TasksOK'
  BY <1>2, SubmitTyped
<1>3. CheckIdle => Typed' /\ TasksOK'
  BY CheckIdleTyped
<1>4. HubComesAndGoes => Typed' /\ TasksOK'
  BY HubTyped
<1>5. Tick => Typed' /\ TasksOK'
  BY TickTyped
<1>6. Restart => Typed' /\ TasksOK'
  BY RestartTyped
<1>7. UNCHANGED vars => Typed' /\ TasksOK'
  BY StoreTyped DEF vars, storeVars, syncVars, Typed, OthersTyped, TasksOK
<1>8. Typed' /\ TasksOK'
  BY <1>1, <1>2, <1>3, <1>4, <1>5, <1>6, <1>7 DEF Next
<1>9. HistoryTyped'
  BY HistoryNext
<1> QED
  BY <1>8, <1>9 DEF Typed, OthersTyped, HistoryTyped, TypeOK, Tasks

\* Every variable stays in its type: an index is only written back, and a track only
\* upserted, by a goroutine that has read one, so no playlist entry is read out of bounds
\* (GetNextAutoplayTrack, UpsertAutoplayTrack).
THEOREM TypeCorrect == Spec => [](TypeOK /\ TasksOK)
<1>1. TypeOK /\ TasksOK /\ [Next]_vars => (TypeOK /\ TasksOK)'
  BY NextTyped
<1> QED
  BY <1>1, InitTyped, PTL DEF Spec

-----------------------------------------------------------------------------
(* What a step makes of the lists of calls *)

Has(cs, call) == \E i \in DOMAIN cs : cs[i] = call

\* It is to start a track and to schedule its end.
Starts(cs) == \E i \in DOMAIN cs : i + 1 \in DOMAIN cs /\ cs[i] = "state" /\ cs[i + 1] = "schedule"

LEMMA TailHas ==
  ASSUME NEW cs \in Seq(Calls), cs # <<>>
  PROVE  /\ \A call : Has(cs, call) <=> Head(cs) = call \/ Has(Tail(cs), call)
         /\ Starts(Tail(cs)) => Starts(cs)
         /\ Starts(cs) => Starts(Tail(cs)) \/ Head(cs) = "state"
<1>1. /\ Tail(cs) \in Seq(Calls) /\ Len(cs) \in Nat \ {0} /\ DOMAIN cs = 1..Len(cs)
      /\ DOMAIN Tail(cs) = 1..(Len(cs) - 1) /\ Head(cs) = cs[1]
      /\ \A i \in 1..(Len(cs) - 1) : Tail(cs)[i] = cs[i + 1]
  OBVIOUS
<1>2. ASSUME NEW call, Has(cs, call) PROVE Head(cs) = call \/ Has(Tail(cs), call)
  <2>1. PICK i \in 1..Len(cs) : cs[i] = call
    BY <1>1, <1>2 DEF Has
  <2>2. i # 1 => i - 1 \in 1..(Len(cs) - 1) /\ Tail(cs)[i - 1] = cs[(i - 1) + 1] /\ (i - 1) + 1 = i
    BY <1>1
  <2> QED
    BY <1>1, <2>1, <2>2 DEF Has
<1>3. ASSUME NEW call, Head(cs) = call \/ Has(Tail(cs), call) PROVE Has(cs, call)
  <2>1. \A i \in 1..(Len(cs) - 1) : i + 1 \in 1..Len(cs) /\ 1 \in 1..Len(cs)
    BY <1>1
  <2>2. 1 \in 1..Len(cs)
    BY <1>1
  <2> QED
    BY <1>1, <1>3, <2>1, <2>2 DEF Has
<1>4. ASSUME Starts(Tail(cs)) PROVE Starts(cs)
  <2>1. PICK i \in 1..(Len(cs) - 1) : i + 1 \in 1..(Len(cs) - 1) /\ Tail(cs)[i] = "state" /\ Tail(cs)[i + 1] = "schedule"
    BY <1>1, <1>4 DEF Starts
  <2>2. i + 1 \in DOMAIN cs /\ (i + 1) + 1 \in DOMAIN cs /\ cs[i + 1] = "state" /\ cs[(i + 1) + 1] = "schedule"
    BY <1>1, <2>1
  <2> QED
    BY <2>2 DEF Starts
<1>5. ASSUME Starts(cs) PROVE Starts(Tail(cs)) \/ Head(cs) = "state"
  <2>1. PICK i \in 1..Len(cs) : i + 1 \in 1..Len(cs) /\ cs[i] = "state" /\ cs[i + 1] = "schedule"
    BY <1>1, <1>5 DEF Starts
  <2>2. i # 1 => /\ i - 1 \in DOMAIN Tail(cs) /\ (i - 1) + 1 \in DOMAIN Tail(cs)
                 /\ Tail(cs)[i - 1] = "state" /\ Tail(cs)[(i - 1) + 1] = "schedule"
    BY <1>1, <2>1
  <2> QED
    BY <1>1, <2>1, <2>2 DEF Starts
<1> QED
  BY <1>2, <1>3, <1>4, <1>5

\* What a goroutine goes on with, after the call h, if not with the next call of its list.
Turns(h, cs) ==
    \/ cs = <<>>
    \/ h = "pop" /\ cs = <<"which">>
    \/ h = "skip" /\ cs = StopPlaying
    \/ h = "which" /\ cs \in {AdvanceAutoplay, StopPlaying}
    \/ h = "readindex" /\ cs = StopPlaying
    \/ h = "start" /\ cs \in {<<"schedule">>, AdvanceAutoplay}
    \/ h \in {"rooms", "playbacks", "counts"} /\ cs = <<"untrack">>
    \/ h = "judge" /\ cs = CloseRoom \o <<"untrack">>

LEMMA Moves ==
  ASSUME TypeOK, NEW p \in Procs, NEW cs, NEW m, DOMAIN m = {"todo", "ps", "length", "index"},
         GoOn(p, cs, m)
  PROVE  task'[p].todo = cs /\ \A q \in Procs \ {p} : task'[q] = task[q]
<1>1. task \in [Procs -> Tasks] /\ task' = [task EXCEPT ![p] = Going(cs, m)]
  BY StoreTyped DEF GoOn, Going
<1>2. Going(cs, m).todo = cs
  BY IdleTyped DEF Going
<1> QED
  BY <1>1, <1>2

\* All tasks but that of p stay, and p goes on with its next call, or turns to other ones.
GoesOn(p) ==
    /\ \A q \in Procs \ {p} : task'[q] = task[q]
    /\ task'[p].todo = Tail(task[p].todo) \/ Turns(Head(task[p].todo), task'[p].todo)

LEMMA DoneGoesOn ==
  ASSUME TypeOK, NEW p \in Procs, Done(p) \/ Return(p)
  PROVE  GoesOn(p)
<1>1. DOMAIN task[p] = {"todo", "ps", "length", "index"}
  BY StoreTyped DEF Tasks
<1>2. CASE Done(p)
  <2>1. task'[p].todo = Tail(task[p].todo) /\ \A q \in Procs \ {p} : task'[q] = task[q]
    BY <1>1, <1>2, Moves DEF Done
  <2> QED
    BY <2>1 DEF GoesOn
<1>3. CASE Return(p)
  <2>1. task'[p].todo = <<>> /\ \A q \in Procs \ {p} : task'[q] = task[q]
    BY <1>1, <1>3, Moves DEF Return
  <2> QED
    BY <2>1 DEF GoesOn, Turns
<1> QED
  BY <1>2, <1>3

LEMMA GoOnGoesOn ==
  ASSUME TypeOK, NEW p \in Procs, NEW cs, NEW m, DOMAIN m = {"todo", "ps", "length", "index"},
         GoOn(p, cs, m), cs = Tail(task[p].todo) \/ Turns(Head(task[p].todo), cs)
  PROVE  GoesOn(p)
BY Moves DEF GoesOn

\* An overdue track is advanced in a goroutine that was free, or that has nothing left to do.
Overtakes(p) ==
    /\ Head(task[p].todo) = "schedule" /\ armed' = FALSE
    /\ \E q \in Workers : /\ q = p \/ task[q].todo = <<>>
                          /\ task'[q] = Going(AdvanceTrack, Idle)
                          /\ q # p => task'[p] = Idle
                          /\ \A r \in Procs \ {p, q} : task'[r] = task[r]

LEMMA StepGoesOn ==
  ASSUME TypeOK, TasksOK, NEW p \in Procs, Step(p)
  PROVE  /\ task[p].todo # <<>> /\ task[p].todo \in Seq(Calls)
         /\ GoesOn(p) \/ Overtakes(p)
<1> DEFINE h == Head(task[p].todo)
           fields == {"todo", "ps", "length", "index"}
<1>0. /\ task[p].todo \in Seq(Calls) /\ DOMAIN task[p] = fields /\ DOMAIN Idle = fields
      /\ task \in [Procs -> Tasks]
  BY StoreTyped, IdleTyped DEF Tasks
<1>1. ASSUME \/ DebounceAdvance(p) \/ FindHub(p) \/ CancelAdvance(p)
             \/ SetNowPlaying(p) \/ ClearPlaybackState(p) \/ ClearNowPlaying(p)
             \/ SavePlaybackState(p) \/ SetRoomLive(p) \/ VerifyEnd(p)
             \/ SetRoomAutoplay(p) \/ FindPlaylist(p) \/ ActivateStagedPlaylist(p) \/ ListRoom(p)
             \/ Untrack(p)
      PROVE  task[p].todo # <<>> /\ GoesOn(p)
  <2>1. task[p].todo # <<>> /\ (Done(p) \/ Return(p))
    BY <1>1 DEF DebounceAdvance, FindHub, CancelAdvance, SetNowPlaying, ClearPlaybackState, ClearNowPlaying,
                SavePlaybackState, SetRoomLive, VerifyEnd, SetRoomAutoplay, FindPlaylist, ActivateStagedPlaylist,
                ListRoom, Untrack, At, Free
  <2> QED
    BY <2>1, DoneGoesOn
<1>2. ASSUME PopNextTrack(p) PROVE task[p].todo # <<>> /\ GoesOn(p)
  <2>1. DOMAIN OnEmptyQueue = {"pop", "skip", "golive"}
        /\ OnEmptyQueue["pop"] = <<"which">> /\ OnEmptyQueue["skip"] = StopPlaying /\ OnEmptyQueue["golive"] = <<>>
    BY DEF OnEmptyQueue
  <2>2. PICK call \in {"pop", "skip", "golive"} :
         /\ At(p, call)
         /\ \/ GoOn(p, OnEmptyQueue[call], task[p])
            \/ GoOn(p, Tail(task[p].todo), [task[p] EXCEPT !.ps.track = Head(queue),
                                                          !.length = duration[Head(queue)]])
    BY <1>2, <2>1 DEF PopNextTrack
  <2>3. task[p].todo # <<>> /\ h = call
    BY <2>2, AtMeans
  <2>4. Turns(h, OnEmptyQueue[call])
    BY <2>1, <2>3 DEF Turns
  <2>5. DOMAIN [task[p] EXCEPT !.ps.track = Head(queue), !.length = duration[Head(queue)]] = fields
    BY <1>0
  <2> QED
    BY <1>0, <2>2, <2>3, <2>4, <2>5, GoOnGoesOn
<1>3. ASSUME WhichRoom(p) PROVE task[p].todo # <<>> /\ GoesOn(p)
  <2>1. task[p].todo # <<>> /\ h = "which"
    BY <1>3, AtMeans DEF WhichRoom
  <2>2. GoOn(p, AdvanceAutoplay, task[p]) \/ GoOn(p, StopPlaying, task[p])
    BY <1>3 DEF WhichRoom
  <2>3. Turns(h, AdvanceAutoplay) /\ Turns(h, StopPlaying)
    BY <2>1 DEF Turns
  <2> QED
    BY <1>0, <2>1, <2>2, <2>3, GoOnGoesOn
<1>4. ASSUME StartRoom(p) PROVE task[p].todo # <<>> /\ GoesOn(p)
  <2>1. task[p].todo # <<>> /\ h = "start"
    BY <1>4, AtMeans DEF StartRoom
  <2>2. \/ GoOn(p, AdvanceAutoplay, task[p])
        \/ GoOn(p, <<"schedule">>, [task[p] EXCEPT !.ps = playback, !.length = duration[playback.track]])
    BY <1>4 DEF StartRoom
  <2>3. Turns(h, AdvanceAutoplay) /\ Turns(h, <<"schedule">>)
    BY <2>1 DEF Turns
  <2>4. DOMAIN [task[p] EXCEPT !.ps = playback, !.length = duration[playback.track]] = fields
    BY <1>0
  <2> QED
    BY <1>0, <2>1, <2>2, <2>3, <2>4, GoOnGoesOn
<1>5. ASSUME ReadIdleness(p) \/ JudgeIdle(p) PROVE task[p].todo # <<>> /\ GoesOn(p)
  <2>1. DOMAIN LooksBusy = {"rooms", "playbacks", "counts"}
    BY DEF LooksBusy
  <2>2. \/ h \in {"rooms", "playbacks", "counts"} /\ GoOn(p, <<"untrack">>, Idle)
        \/ h = "judge" /\ GoOn(p, CloseRoom \o <<"untrack">>, Idle)
        \/ Done(p)
    BY <1>5, <2>1, AtMeans DEF ReadIdleness, JudgeIdle
  <2>3. task[p].todo # <<>>
    BY <1>5, <2>1, AtMeans DEF ReadIdleness, JudgeIdle
  <2>4. CASE h \in {"rooms", "playbacks", "counts"} /\ GoOn(p, <<"untrack">>, Idle)
    <3>1. Turns(h, <<"untrack">>)
      BY <2>4 DEF Turns
    <3> QED
      BY <1>0, <2>3, <2>4, <3>1, GoOnGoesOn
  <2>5. CASE h = "judge" /\ GoOn(p, CloseRoom \o <<"untrack">>, Idle)
    <3>1. Turns(h, CloseRoom \o <<"untrack">>)
      BY <2>5 DEF Turns
    <3> QED
      BY <1>0, <2>3, <2>5, <3>1, GoOnGoesOn
  <2>6. CASE Done(p)
    BY <2>3, <2>6, DoneGoesOn
  <2> QED
    BY <2>2, <2>4, <2>5, <2>6
<1>6. ASSUME SetPlaybackState(p) \/ ReadPlaybackState(p) \/ ReadReport(p) \/ LearnDuration(p)
             \/ ReadIndex(p) \/ WriteIndex(p) \/ UpsertAutoplayTrack(p)
      PROVE  task[p].todo # <<>> /\ GoesOn(p)
  <2>1. task[p].todo # <<>> /\ (ReadIndex(p) => h = "readindex")
    BY <1>6, AtMeans DEF SetPlaybackState, ReadPlaybackState, ReadReport, LearnDuration, ReadIndex, WriteIndex,
                UpsertAutoplayTrack
  <2>2. \/ Done(p) \/ Return(p)
        \/ \E x : GoOn(p, Tail(task[p].todo), [task[p] EXCEPT !.ps = x])
        \/ \E x : GoOn(p, Tail(task[p].todo), [task[p] EXCEPT !.ps.track = x])
        \/ \E x : GoOn(p, Tail(task[p].todo), [task[p] EXCEPT !.length = x])
        \/ \E x : GoOn(p, Tail(task[p].todo), [task[p] EXCEPT !.index = x])
        \/ ReadIndex(p) /\ GoOn(p, StopPlaying, task[p])
    BY <1>6 DEF SetPlaybackState, ReadPlaybackState, ReadReport, LearnDuration, ReadIndex, WriteIndex,
                UpsertAutoplayTrack
  <2>3. \A x : /\ DOMAIN [task[p] EXCEPT !.ps = x] = fields
               /\ DOMAIN [task[p] EXCEPT !.ps.track = x] = fields
               /\ DOMAIN [task[p] EXCEPT !.length = x] = fields
               /\ DOMAIN [task[p] EXCEPT !.index = x] = fields
    BY <1>0
  <2>4. ReadIndex(p) => Turns(h, StopPlaying)
    BY <2>1 DEF Turns
  <2> QED
    BY <1>0, <2>1, <2>2, <2>3, <2>4, DoneGoesOn, GoOnGoesOn
<1>7. ASSUME ScheduleAdvance(p) PROVE task[p].todo # <<>> /\ (GoesOn(p) \/ Overtakes(p))
  <2>1. task[p].todo # <<>> /\ h = "schedule"
    BY <1>7, AtMeans DEF ScheduleAdvance
  <2>2. \/ Done(p)
        \/ /\ armed' = FALSE
           /\ \E q \in Workers : /\ q = p \/ Free(q)
                                 /\ task' = [task EXCEPT ![p] = Idle, ![q] = [Idle EXCEPT !.todo = AdvanceTrack]]
    BY <1>7 DEF ScheduleAdvance
  <2>3. CASE Done(p)
    BY <2>1, <2>3, DoneGoesOn
  <2>4. ASSUME NEW q \in Workers, q = p \/ Free(q), armed' = FALSE,
               task' = [task EXCEPT ![p] = Idle, ![q] = [Idle EXCEPT !.todo = AdvanceTrack]]
        PROVE  Overtakes(p)
    <3>1. Going(AdvanceTrack, Idle) = [Idle EXCEPT !.todo = AdvanceTrack]
      BY DEF Going, AdvanceTrack
    <3>2. q \in Procs
      BY DEF Procs
    <3>3. /\ task'[q] = [Idle EXCEPT !.todo = AdvanceTrack]
          /\ q # p => task'[p] = Idle
          /\ \A r \in Procs \ {p, q} : task'[r] = task[r]
      BY <1>0, <2>4, <3>2
    <3> QED
      BY <2>1, <2>4, <3>1, <3>3 DEF Overtakes, Free
  <2> QED
    BY <2>1, <2>2, <2>3, <2>4
<1> QED
  BY <1>0, <1>1, <1>2, <1>3, <1>4, <1>5, <1>6, <1>7 DEF Step

\* So does one whose call fails, and it has not failed to ask the debounce.
LEMMA FailGoesOn ==
  ASSUME TypeOK, TasksOK, NEW p \in Procs, CallFails(p)
  PROVE  /\ task[p].todo # <<>> /\ task[p].todo \in Seq(Calls) /\ GoesOn(p)
         /\ Head(task[p].todo) # "debounce" /\ since' = since
<1> DEFINE l == task[p]
           h == Head(task[p].todo)
           fields == {"todo", "ps", "length", "index"}
<1>0. /\ l.todo \in Seq(Calls) /\ DOMAIN l = fields /\ since' = since /\ l.todo # <<>>
  BY FailMeans, StoreTyped DEF Tasks
<1>1. h # "debounce"
  BY AtMeans DEF CallFails, GivesUp, GoesOnWithout, Ignored
<1>2. CASE Done(p) \/ Return(p)
  BY <1>0, <1>1, <1>2, DoneGoesOn
<1>3. CASE \/ \E x : GoOn(p, Tail(l.todo), [l EXCEPT !.ps = x])
           \/ \E x : GoOn(p, Tail(l.todo), [l EXCEPT !.ps.track = x])
           \/ \E x : GoOn(p, Tail(l.todo), [l EXCEPT !.length = x])
  <2>1. \A x : /\ DOMAIN [l EXCEPT !.ps = x] = fields /\ DOMAIN [l EXCEPT !.ps.track = x] = fields
               /\ DOMAIN [l EXCEPT !.length = x] = fields
    BY <1>0
  <2> QED
    BY <1>0, <1>1, <1>3, <2>1, GoOnGoesOn
<1>4. CASE (h \in {"which", "readindex"} /\ GoOn(p, StopPlaying, l)) \/ (h = "start" /\ GoOn(p, AdvanceAutoplay, l))
  <2>1. (h \in {"which", "readindex"} => Turns(h, StopPlaying)) /\ (h = "start" => Turns(h, AdvanceAutoplay))
    BY DEF Turns
  <2> QED
    BY <1>0, <1>1, <1>4, <2>1, GoOnGoesOn
<1>5. GoesOnWithout(p) =>
        \/ Done(p) \/ Return(p)
        \/ \E x : GoOn(p, Tail(l.todo), [l EXCEPT !.ps = x])
        \/ \E x : GoOn(p, Tail(l.todo), [l EXCEPT !.ps.track = x])
        \/ \E x : GoOn(p, Tail(l.todo), [l EXCEPT !.length = x])
        \/ h \in {"which", "readindex"} /\ GoOn(p, StopPlaying, l)
        \/ h = "start" /\ GoOn(p, AdvanceAutoplay, l)
  BY AtMeans DEF GoesOnWithout
<1> QED
  BY <1>2, <1>3, <1>4, <1>5, FailMeans

\* The kind of a room is what it is, and only a restart counts as one.
LEMMA RoomStays == [Next]_vars => room' = room /\ (restarts' = restarts \/ Restart)
<1>1. ASSUME NEW p \in Procs, Begin(p) \/ FireTimer(p) PROVE UNCHANGED <<room, restarts>>
  BY <1>1 DEF Begin, FireTimer
<1>2. ASSUME (\E t \in Submitted : Submit(t)) \/ CheckIdle \/ HubComesAndGoes \/ Tick \/ UNCHANGED vars
      PROVE  UNCHANGED <<room, restarts>>
  BY <1>2 DEF Submit, CheckIdle, HubComesAndGoes, Tick, vars
<1>3. Restart => room' = room
  BY DEF Restart
<1> QED
  BY <1>1, <1>2, <1>3, StepRecords, FailMeans DEF Next

\* Only the debounce writes lastAdvance, and only when it lets an advance through.
LEMMA OnlyDebounceAdvances ==
  ASSUME NEW p, Step(p)
  PROVE  /\ since' = since \/ Head(task[p].todo) = "debounce"
         /\ Head(task[p].todo) = "debounce" => DebounceAdvance(p)
<1>1. CASE DebounceAdvance(p)
  BY <1>1, AtMeans DEF DebounceAdvance
<1>2. CASE PopNextTrack(p)
  <2>1. DOMAIN OnEmptyQueue = {"pop", "skip", "golive"}
    BY DEF OnEmptyQueue
  <2> QED
    BY <1>2, <2>1, AtMeans DEF PopNextTrack, syncVars
<1>3. CASE ReadIdleness(p)
  <2>1. DOMAIN LooksBusy = {"rooms", "playbacks", "counts"}
    BY DEF LooksBusy
  <2> QED
    BY <1>3, <2>1, AtMeans DEF ReadIdleness, syncVars
<1>4. CASE FindHub(p) \/ WhichRoom(p) \/ ScheduleAdvance(p) \/ CancelAdvance(p)
  BY <1>4, AtMeans DEF FindHub, WhichRoom, ScheduleAdvance, CancelAdvance, syncVars
<1>5. CASE \/ SetNowPlaying(p) \/ SetPlaybackState(p) \/ ClearPlaybackState(p) \/ ClearNowPlaying(p)
           \/ ReadPlaybackState(p) \/ SavePlaybackState(p) \/ SetRoomLive(p)
  BY <1>5, AtMeans DEF SetNowPlaying, SetPlaybackState, ClearPlaybackState, ClearNowPlaying, ReadPlaybackState,
                  SavePlaybackState, SetRoomLive, syncVars
<1>6. CASE ReadReport(p) \/ VerifyEnd(p) \/ LearnDuration(p) \/ ReadIndex(p) \/ WriteIndex(p) \/ UpsertAutoplayTrack(p)
  BY <1>6, AtMeans DEF ReadReport, VerifyEnd, LearnDuration, ReadIndex, WriteIndex, UpsertAutoplayTrack, syncVars
<1>7. CASE \/ SetRoomAutoplay(p) \/ FindPlaylist(p) \/ ActivateStagedPlaylist(p) \/ ListRoom(p) \/ StartRoom(p)
           \/ JudgeIdle(p) \/ Untrack(p)
  BY <1>7, AtMeans DEF SetRoomAutoplay, FindPlaylist, ActivateStagedPlaylist, ListRoom, StartRoom, JudgeIdle, Untrack, syncVars
<1> QED
  BY <1>1, <1>2, <1>3, <1>4, <1>5, <1>6, <1>7 DEF Step

-----------------------------------------------------------------------------
(* One advance at a time *)

\* The list is one of an advance past the debounce.
Advances(cs) == (Has(cs, "which") \/ Starts(cs)) /\ ~Has(cs, "debounce")

\* A list of a goroutine nobody administers the room from: it starts a track only past a
\* debounce, once.
Plain(cs) ==
    /\ ~Has(cs, "start")
    /\ \A i \in DOMAIN cs :
         /\ cs[i] = "pop" => /\ i + 2 \in DOMAIN cs /\ cs[i + 2] = "state"
                             /\ i + 3 \in DOMAIN cs /\ cs[i + 3] = "schedule"
         /\ cs[i] \in {"pop", "which"} => \A j \in DOMAIN cs : j > i => cs[j] # "debounce"

LEMMA PlainTail ==
  ASSUME NEW cs \in Seq(Calls), cs # <<>>, Plain(cs)
  PROVE  /\ Plain(Tail(cs)) /\ Head(cs) # "start"
         /\ Head(cs) \in {"pop", "which"} => Advances(cs)
         /\ Head(cs) # "debounce" /\ Advances(Tail(cs)) => Advances(cs)
<1>1. /\ Tail(cs) \in Seq(Calls) /\ Len(cs) \in Nat \ {0} /\ DOMAIN cs = 1..Len(cs)
      /\ DOMAIN Tail(cs) = 1..(Len(cs) - 1) /\ Head(cs) = cs[1]
      /\ \A i \in 1..(Len(cs) - 1) : Tail(cs)[i] = cs[i + 1]
  OBVIOUS
<1>2. ~Has(Tail(cs), "start") /\ Head(cs) # "start"
  BY TailHas DEF Plain
<1>3. ASSUME NEW i \in DOMAIN Tail(cs)
      PROVE  /\ Tail(cs)[i] = "pop" => /\ i + 2 \in DOMAIN Tail(cs) /\ Tail(cs)[i + 2] = "state"
                                       /\ i + 3 \in DOMAIN Tail(cs) /\ Tail(cs)[i + 3] = "schedule"
             /\ Tail(cs)[i] \in {"pop", "which"} => \A j \in DOMAIN Tail(cs) : j > i => Tail(cs)[j] # "debounce"
  <2>1. i + 1 \in DOMAIN cs /\ Tail(cs)[i] = cs[i + 1]
    BY <1>1
  <2>2. /\ cs[i + 1] = "pop" => /\ (i + 1) + 2 \in DOMAIN cs /\ cs[(i + 1) + 2] = "state"
                                /\ (i + 1) + 3 \in DOMAIN cs /\ cs[(i + 1) + 3] = "schedule"
        /\ cs[i + 1] \in {"pop", "which"} => \A j \in DOMAIN cs : j > i + 1 => cs[j] # "debounce"
    BY <2>1 DEF Plain
  <2>3. ASSUME Tail(cs)[i] = "pop"
        PROVE  /\ i + 2 \in DOMAIN Tail(cs) /\ Tail(cs)[i + 2] = "state"
               /\ i + 3 \in DOMAIN Tail(cs) /\ Tail(cs)[i + 3] = "schedule"
    <3>1. i + 2 \in 1..(Len(cs) - 1) /\ i + 3 \in 1..(Len(cs) - 1)
          /\ (i + 1) + 2 = (i + 2) + 1 /\ (i + 1) + 3 = (i + 3) + 1
      BY <1>1, <2>1, <2>2, <2>3
    <3> QED
      BY <1>1, <2>1, <2>2, <2>3, <3>1
  <2>4. ASSUME Tail(cs)[i] \in {"pop", "which"}, NEW j \in DOMAIN Tail(cs), j > i
        PROVE  Tail(cs)[j] # "debounce"
    <3>1. j + 1 \in DOMAIN cs /\ j + 1 > i + 1 /\ Tail(cs)[j] = cs[j + 1]
      BY <1>1, <2>4
    <3> QED
      BY <2>1, <2>2, <2>4, <3>1
  <2> QED
    BY <2>3, <2>4
<1>4. Plain(Tail(cs))
  BY <1>2, <1>3 DEF Plain
<1>5. ASSUME Head(cs) \in {"pop", "which"} PROVE Advances(cs)
  <2>1. 1 \in DOMAIN cs /\ cs[1] \in {"pop", "which"}
    BY <1>1, <1>5
  <2>2. /\ cs[1] = "pop" => /\ 1 + 2 \in DOMAIN cs /\ cs[1 + 2] = "state"
                            /\ 1 + 3 \in DOMAIN cs /\ cs[1 + 3] = "schedule"
        /\ \A j \in DOMAIN cs : j > 1 => cs[j] # "debounce"
    BY <2>1 DEF Plain
  <2>3. ~Has(cs, "debounce")
    <3>1. \A j \in DOMAIN cs : j = 1 \/ j > 1
      BY <1>1
    <3> QED
      BY <2>1, <2>2, <3>1 DEF Has
  <2>4. cs[1] = "pop" => 3 \in DOMAIN cs /\ cs[3] = "state" /\ 3 + 1 \in DOMAIN cs /\ cs[3 + 1] = "schedule"
    BY <2>2
  <2>5. Has(cs, "which") \/ Starts(cs)
    BY <2>1, <2>4 DEF Has, Starts
  <2> QED
    BY <2>3, <2>5 DEF Advances
<1>6. Head(cs) # "debounce" /\ Advances(Tail(cs)) => Advances(cs)
  BY TailHas DEF Advances
<1> QED
  BY <1>2, <1>4, <1>5, <1>6

LEMMA PlainLists ==
  /\ Plain(<<>>) /\ ~Advances(<<>>)
  /\ Plain(<<"which">>) /\ Plain(AdvanceAutoplay)
  /\ Plain(AdvanceTrack) /\ ~Advances(AdvanceTrack)
  /\ Plain(StopPlaying) /\ ~Advances(StopPlaying)
  /\ Plain(<<"untrack">>) /\ ~Advances(<<"untrack">>)
  /\ Plain(CloseRoom \o <<"untrack">>) /\ ~Advances(CloseRoom \o <<"untrack">>)
<1>1. Plain(<<>>) /\ ~Advances(<<>>)
  BY DEF Plain, Advances, Has, Starts
<1>2. Plain(<<"which">>) /\ Plain(AdvanceAutoplay)
  BY DEF Plain, Has, AdvanceAutoplay
<1>3. Plain(AdvanceTrack) /\ ~Advances(AdvanceTrack)
  <2>1. AdvanceTrack[1] = "debounce" /\ 1 \in DOMAIN AdvanceTrack
    BY DEF AdvanceTrack
  <2>2. ~Advances(AdvanceTrack)
    BY <2>1 DEF Advances, Has
  <2>3. Plain(AdvanceTrack)
    BY DEF Plain, Has, AdvanceTrack
  <2> QED
    BY <2>2, <2>3
<1>4. Plain(StopPlaying) /\ ~Advances(StopPlaying)
  BY DEF Plain, Advances, Has, Starts, StopPlaying
<1>5. Plain(<<"untrack">>) /\ ~Advances(<<"untrack">>)
  BY DEF Plain, Advances, Has, Starts
<1>6. Plain(CloseRoom \o <<"untrack">>) /\ ~Advances(CloseRoom \o <<"untrack">>)
  BY DEF Plain, Advances, Has, Starts, CloseRoom
<1> QED
  BY <1>1, <1>2, <1>3, <1>4, <1>5, <1>6

LEMMA PlainHandlers ==
  ASSUME NEW h \in DOMAIN Concurrent \ {"ActivatePlaylist", "StartAutoplayRoom"}
  PROVE  Plain(Concurrent[h]) /\ ~Advances(Concurrent[h])
<1>1. Plain(<<"now", "state", "live", "schedule">>) /\ ~Advances(<<"now", "state", "live", "schedule">>)
  BY DEF Plain, Advances, Has, Starts
<1>2. Plain(<<"end", "clearnow", "clearstate", "cancel">>) /\ ~Advances(<<"end", "clearnow", "clearstate", "cancel">>)
  BY DEF Plain, Advances, Has, Starts
<1>3. Plain(<<"report", "learn", "schedule">>) /\ ~Advances(<<"report", "learn", "schedule">>)
  BY DEF Plain, Advances, Has, Starts
<1>4. /\ Plain(<<"unsetautoplay", "cancel", "clearstate", "clearnow">>)
      /\ ~Advances(<<"unsetautoplay", "cancel", "clearstate", "clearnow">>)
  BY DEF Plain, Advances, Has, Starts
<1>5. Plain(<<"report", "verify">> \o AdvanceTrack) /\ ~Advances(<<"report", "verify">> \o AdvanceTrack)
  <2> DEFINE cs == <<"report", "verify">> \o AdvanceTrack
  <2>1. cs[3] = "debounce" /\ 3 \in DOMAIN cs
    BY DEF AdvanceTrack
  <2>2. ~Advances(cs)
    BY <2>1 DEF Advances, Has
  <2>3. Plain(cs)
    BY DEF Plain, Has, AdvanceTrack
  <2> QED
    BY <2>2, <2>3
<1> QED
  BY <1>1, <1>2, <1>3, <1>4, <1>5, HandlersListed

Unadministered == ~Slow /\ room.handlers \cap {"ActivatePlaylist", "StartAutoplayRoom"} = {}

\* While an advance is past the debounce, lastAdvance is the present: nothing else gets past it.
AdvanceInv ==
    Unadministered => \A p \in Workers :
        /\ Plain(task[p].todo)
        /\ Advances(task[p].todo) => since = 0 /\ \A q \in Workers : Advances(task[q].todo) => p = q

LEMMA AdvancingIs ==
  ASSUME NEW p, Advancing(p)
  PROVE  Advances(task[p].todo)
<1> DEFINE cs == task[p].todo
<1>1. /\ Len(AdvanceTrack) = 6 /\ Len(AdvanceAutoplay) = 6
      /\ AdvanceTrack = SubSeq(AdvanceTrack, 1, 6)
  BY DEF AdvanceTrack, AdvanceAutoplay
<1>2. ASSUME NEW i \in 2..5, cs = SubSeq(AdvanceTrack, i, 6) PROVE Advances(cs)
  <2>1. /\ DOMAIN cs = 1..(7 - i) /\ \A j \in 1..(7 - i) : cs[j] = AdvanceTrack[i + j - 1]
    BY <1>2 DEF AdvanceTrack
  <2>2. /\ AdvanceTrack[5] = "state" /\ AdvanceTrack[6] = "schedule"
        /\ \A j \in 2..6 : AdvanceTrack[j] # "debounce"
    BY DEF AdvanceTrack
  <2>3. \A j \in 1..(7 - i) : cs[j] # "debounce"
    <3>1. \A j \in 1..(7 - i) : i + j - 1 \in 2..6
      OBVIOUS
    <3> QED
      BY <2>1, <2>2, <3>1
  <2>4. /\ 6 - i \in 1..(7 - i) /\ (6 - i) + 1 \in 1..(7 - i)
        /\ i + (6 - i) - 1 = 5 /\ i + ((6 - i) + 1) - 1 = 6
    OBVIOUS
  <2>5. cs[6 - i] = "state" /\ cs[(6 - i) + 1] = "schedule"
    BY <2>1, <2>2, <2>4
  <2> QED
    BY <2>1, <2>3, <2>4, <2>5 DEF Advances, Has, Starts
<1>3. ASSUME NEW i \in 1..5, cs = SubSeq(AdvanceAutoplay, i, 6) PROVE Advances(cs)
  <2>1. /\ DOMAIN cs = 1..(7 - i) /\ \A j \in 1..(7 - i) : cs[j] = AdvanceAutoplay[i + j - 1]
    BY <1>3 DEF AdvanceAutoplay
  <2>2. /\ AdvanceAutoplay[5] = "state" /\ AdvanceAutoplay[6] = "schedule"
        /\ \A j \in 1..6 : AdvanceAutoplay[j] # "debounce"
    BY DEF AdvanceAutoplay
  <2>3. \A j \in 1..(7 - i) : cs[j] # "debounce"
    <3>1. \A j \in 1..(7 - i) : i + j - 1 \in 1..6
      OBVIOUS
    <3> QED
      BY <2>1, <2>2, <3>1
  <2>4. /\ 6 - i \in 1..(7 - i) /\ (6 - i) + 1 \in 1..(7 - i)
        /\ i + (6 - i) - 1 = 5 /\ i + ((6 - i) + 1) - 1 = 6
    OBVIOUS
  <2>5. cs[6 - i] = "state" /\ cs[(6 - i) + 1] = "schedule"
    BY <2>1, <2>2, <2>4
  <2> QED
    BY <2>1, <2>3, <2>4, <2>5 DEF Advances, Has, Starts
<1>4. ASSUME cs = <<"which">> PROVE Advances(cs)
  <2>1. cs[1] = "which" /\ DOMAIN cs = {1}
    BY <1>4
  <2> QED
    BY <2>1 DEF Advances, Has
<1>5. CASE cs \in Rest(AdvanceTrack) \ {AdvanceTrack}
  <2>1. PICK i \in 1..5 : cs = SubSeq(AdvanceTrack, i, 6)
    BY <1>1, <1>5 DEF Rest
  <2>2. i # 1
    BY <1>1, <1>5, <2>1
  <2>3. i \in 2..5
    BY <2>2
  <2> QED
    BY <1>2, <2>1, <2>3
<1>6. CASE cs \in Rest(AdvanceAutoplay)
  <2>1. PICK i \in 1..5 : cs = SubSeq(AdvanceAutoplay, i, 6)
    BY <1>1, <1>6 DEF Rest
  <2> QED
    BY <1>3, <2>1
<1> QED
  BY <1>4, <1>5, <1>6 DEF Advancing

LEMMA AdvanceStep ==
  ASSUME TypeOK, TasksOK, AdvanceInv, NEW p \in Procs, Step(p) \/ CallFails(p), room' = room
  PROVE  AdvanceInv'
<1> SUFFICES ASSUME Unadministered
             PROVE  \A r \in Workers :
                      /\ Plain(task'[r].todo)
                      /\ Advances(task'[r].todo) =>
                            since' = 0 /\ \A q \in Workers : Advances(task'[q].todo) => r = q
  BY DEF AdvanceInv, Unadministered
<1> DEFINE cs == task[p].todo
           Holds == \A r \in Workers :
                      /\ Plain(task[r].todo)
                      /\ Advances(task[r].todo) =>
                            since = 0 /\ \A q \in Workers : Advances(task[q].todo) => r = q
<1>1. Holds /\ Workers \subseteq Procs /\ Debounce \in Nat \ {0}
  BY ConstantsOK DEF AdvanceInv, Procs
<1>2. cs # <<>> /\ cs \in Seq(Calls) /\ (GoesOn(p) \/ Overtakes(p))
  BY StepGoesOn, FailGoesOn
<1>3. since' = since \/ Head(cs) = "debounce"
  BY OnlyDebounceAdvances, FailGoesOn
<1>4. ASSUME Head(cs) = "debounce"
      PROVE  (since' = since /\ task'[p].todo = <<>>) \/ (~(since < Debounce) /\ since' = 0)
  <2>2. DebounceAdvance(p)
    BY <1>4, OnlyDebounceAdvances, FailGoesOn
  <2>3. DOMAIN task[p] = {"todo", "ps", "length", "index"}
    BY StoreTyped DEF Tasks
  <2>4. Return(p) => task'[p].todo = <<>>
    BY <2>3, Moves DEF Return
  <2> QED
    BY <2>2, <2>4 DEF DebounceAdvance
<1>5. CASE Overtakes(p)
  <2>1. PICK q \in Workers : /\ task'[q] = Going(AdvanceTrack, Idle)
                             /\ q # p => task'[p] = Idle
                             /\ \A r \in Procs \ {p, q} : task'[r] = task[r]
    BY <1>5 DEF Overtakes
  <2>2. task'[q].todo = AdvanceTrack
    <3>1. AdvanceTrack \in Seq(Calls)
      BY PlansBegin DEF Begins
    <3>2. Idle \in Tasks
      BY IdleTyped
    <3>3. Going(AdvanceTrack, Idle).todo = AdvanceTrack
      BY <3>1, <3>2, GoingTyped
    <3> QED
      BY <2>1, <3>3
  <2>3. \A r \in Workers : \/ task'[r].todo = task[r].todo
                           \/ Plain(task'[r].todo) /\ ~Advances(task'[r].todo)
    BY <1>1, <2>1, <2>2, IdleTyped, PlainLists
  <2>4. since' = since
    BY <1>3, <1>5 DEF Overtakes
  <2> QED
    BY <1>1, <2>3, <2>4
<1>6. CASE GoesOn(p)
  <2>1. \A r \in Procs \ {p} : task'[r] = task[r]
    BY <1>6 DEF GoesOn
  <2>2. CASE p \notin Workers
    <3>1. \A r \in Workers : task'[r] = task[r]
      BY <1>1, <2>1, <2>2
    <3>2. since' \in {since, 0}
      BY <1>3, <1>4
    <3> QED
      BY <1>1, <3>1, <3>2
  <2>3. CASE p \in Workers
    <3>1. Plain(cs)
      BY <1>1, <2>3
    <3>2. /\ Plain(Tail(cs)) /\ Head(cs) # "start"
          /\ Head(cs) \in {"pop", "which"} => Advances(cs)
          /\ Head(cs) # "debounce" /\ Advances(Tail(cs)) => Advances(cs)
      BY <1>2, <3>1, PlainTail
    <3>3. Plain(task'[p].todo) /\ (Advances(task'[p].todo) => Advances(cs) \/ Head(cs) = "debounce")
      <4>1. CASE task'[p].todo = Tail(cs)
        BY <3>2, <4>1
      <4>2. CASE Turns(Head(cs), task'[p].todo)
        BY <3>2, <4>2, PlainLists DEF Turns
      <4> QED
        BY <1>6, <4>1, <4>2 DEF GoesOn
    <3>4. CASE Head(cs) # "debounce"
      BY <1>1, <1>3, <2>1, <2>3, <3>3, <3>4
    <3>5. CASE Head(cs) = "debounce" /\ since' = since /\ task'[p].todo = <<>>
      BY <1>1, <2>1, <2>3, <3>3, <3>5, PlainLists
    <3>6. CASE ~(since < Debounce) /\ since' = 0
      <4>1. \A r \in Workers : ~Advances(task[r].todo)
        BY <1>1, <3>6
      <4> QED
        BY <1>1, <2>1, <2>3, <3>3, <3>6, <4>1
    <3> QED
      BY <1>4, <3>4, <3>5, <3>6
  <2> QED
    BY <2>2, <2>3
<1> QED
  BY <1>2, <1>5, <1>6

\* A step that gives one goroutine a list that is plain, and none past a debounce.
LEMMA AdvanceLaunch ==
  ASSUME TypeOK, AdvanceInv, NEW p \in Procs, NEW cs, p \in Workers /\ Unadministered => Plain(cs) /\ ~Advances(cs),
         task'[p].todo = cs, \A q \in Procs \ {p} : task'[q] = task[q], room' = room, since' = since
  PROVE  AdvanceInv'
<1>1. Workers \subseteq Procs
  BY DEF Procs
<1> QED
  BY <1>1 DEF AdvanceInv, Unadministered

LEMMA AdvanceNext ==
  ASSUME TypeOK, TasksOK, AdvanceInv, [Next]_vars
  PROVE  AdvanceInv'
<1>0. room' = room /\ Workers \subseteq Procs /\ Monitor \in Procs /\ Monitor \notin Workers /\ Loops \cap Workers = {}
      /\ DOMAIN Idle = {"todo", "ps", "length", "index"}
  BY RoomStays, ConstantsOK, IdleTyped DEF Procs, Tasks
<1>1. ASSUME NEW p \in Procs, Begin(p) PROVE AdvanceInv'
  <2>1. since' = since
    BY <1>1 DEF Begin, syncVars
  <2>2. CASE p \in Loops
    <3>1. PICK a : GoOn(p, DJActions[a], Idle)
      BY <1>1, <2>2 DEF Begin
    <3>2. task'[p].todo = DJActions[a] /\ \A q \in Procs \ {p} : task'[q] = task[q]
      BY <1>0, <3>1, Moves
    <3> QED
      BY <1>0, <2>1, <2>2, <3>2, AdvanceLaunch
  <2>3. CASE p \notin Loops
    <3>0. PICK h \in room.handlers \cap DOMAIN Concurrent : \E t :
             GoOn(p, Concurrent[h], [Idle EXCEPT !.ps.track = t, !.length = IF t = NoTrack THEN 0 ELSE duration[t]])
      BY <1>1, <2>3 DEF Begin
    <3>1. PICK t :
             GoOn(p, Concurrent[h], [Idle EXCEPT !.ps.track = t, !.length = IF t = NoTrack THEN 0 ELSE duration[t]])
      BY <3>0
    <3>2. DOMAIN [Idle EXCEPT !.ps.track = t, !.length = IF t = NoTrack THEN 0 ELSE duration[t]]
             = {"todo", "ps", "length", "index"}
      BY <1>0
    <3>3. task'[p].todo = Concurrent[h] /\ \A q \in Procs \ {p} : task'[q] = task[q]
      BY <3>1, <3>2, Moves
    <3>4. Unadministered => Plain(Concurrent[h]) /\ ~Advances(Concurrent[h])
      BY <3>1, PlainHandlers DEF Unadministered
    <3> QED
      BY <1>0, <2>1, <3>3, <3>4, AdvanceLaunch
  <2> QED
    BY <2>2, <2>3
<1>2. ASSUME NEW p \in Procs, Step(p) \/ CallFails(p) PROVE AdvanceInv'
  BY <1>0, <1>2, AdvanceStep
<1>3. ASSUME NEW p \in Procs, FireTimer(p) PROVE AdvanceInv'
  <2>1. since' = since /\ GoOn(p, AdvanceTrack, Idle)
    BY <1>3 DEF FireTimer
  <2>2. task'[p].todo = AdvanceTrack /\ \A q \in Procs \ {p} : task'[q] = task[q]
    BY <1>0, <2>1, Moves
  <2> QED
    BY <1>0, <2>1, <2>2, PlainLists, AdvanceLaunch
<1>4. ASSUME NEW t \in Submitted, Submit(t) PROVE AdvanceInv'
  BY <1>0, <1>4 DEF Submit, syncVars, AdvanceInv, Unadministered
<1>5. CASE CheckIdle
  <2>1. since' = since /\ GoOn(Monitor, IdleCheck, Idle)
    BY <1>5 DEF CheckIdle, syncVars
  <2>2. task'[Monitor].todo = IdleCheck /\ \A q \in Procs \ {Monitor} : task'[q] = task[q]
    BY <1>0, <2>1, Moves
  <2> QED
    BY <1>0, <2>1, <2>2, AdvanceLaunch
<1>6. CASE HubComesAndGoes
  BY <1>0, <1>6 DEF HubComesAndGoes, syncVars, AdvanceInv, Unadministered
<1>7. CASE Tick
  <2>1. Unadministered => \A p \in Procs : task[p].todo = <<>>
    BY <1>7 DEF Tick, Unadministered, Quiet, Free
  <2>2. \A p \in Procs : task'[p].todo = task[p].todo
    BY <1>7, TickGives
  <2> QED
    BY <1>0, <2>1, <2>2, PlainLists DEF AdvanceInv, Unadministered
<1>8. CASE Restart
  <2>1. task' = Booting
    BY <1>8 DEF Restart
  <2>2. \A p \in Workers : Booting[p].todo = <<>>
    BY <1>0, IdleTyped, ConstantsOK DEF Booting
  <2> QED
    BY <2>1, <2>2, PlainLists DEF AdvanceInv
<1>9. CASE UNCHANGED vars
  BY <1>9 DEF vars, syncVars, AdvanceInv, Unadministered
<1> QED
  BY <1>1, <1>2, <1>3, <1>4, <1>5, <1>6, <1>7, <1>8, <1>9 DEF Next

LEMMA AdvanceInit == Init => AdvanceInv
<1> SUFFICES ASSUME Init PROVE AdvanceInv
  OBVIOUS
<1>1. \A p \in Workers : task[p].todo = <<>>
  BY IdleTyped, ConstantsOK DEF Init, Booting, Procs
<1> QED
  BY <1>1, PlainLists DEF AdvanceInv

\* Two goroutines never advance a room at the same time, however many timers, reports and
\* overdue schedules there are: only one gets past lastAdvance, and while it is under way
\* less than the debounce has gone by (SyncService.advanceTrack).
THEOREM OneAdvanceAlways == Spec => []OneAdvanceAtATime
<1>1. TypeOK /\ TasksOK /\ AdvanceInv /\ [Next]_vars => AdvanceInv'
  BY AdvanceNext
<1>2. AdvanceInv => OneAdvanceAtATime
  BY AdvancingIs DEF AdvanceInv, OneAdvanceAtATime, Unadministered
<1>3. Spec => []AdvanceInv
  BY <1>1, AdvanceInit, TypeCorrect, PTL DEF Spec
<1> QED
  BY <1>2, <1>3, PTL

-----------------------------------------------------------------------------
(* What a call does *)

LEMMA CallsOf ==
  ASSUME NEW p
  PROVE  /\ DebounceAdvance(p) => Head(task[p].todo) = "debounce"
         /\ FindHub(p) => Head(task[p].todo) = "findhub"
         /\ PopNextTrack(p) => Head(task[p].todo) \in {"pop", "skip", "golive"}
         /\ WhichRoom(p) => Head(task[p].todo) = "which"
         /\ ScheduleAdvance(p) => Head(task[p].todo) = "schedule"
         /\ CancelAdvance(p) => Head(task[p].todo) = "cancel"
         /\ SetNowPlaying(p) => Head(task[p].todo) = "now"
         /\ SetPlaybackState(p) => Head(task[p].todo) = "state"
         /\ ClearPlaybackState(p) => Head(task[p].todo) = "clearstate"
         /\ ClearNowPlaying(p) => Head(task[p].todo) = "clearnow"
         /\ ReadPlaybackState(p) => Head(task[p].todo) \in {"pause", "resume"}
         /\ SavePlaybackState(p) => Head(task[p].todo) = "save"
         /\ SetRoomLive(p) => Head(task[p].todo) \in {"live", "end"}
         /\ ReadReport(p) => Head(task[p].todo) = "report"
         /\ VerifyEnd(p) => Head(task[p].todo) = "verify"
         /\ LearnDuration(p) => Head(task[p].todo) = "learn"
         /\ ReadIndex(p) => Head(task[p].todo) = "readindex"
         /\ WriteIndex(p) => Head(task[p].todo) = "writeindex"
         /\ UpsertAutoplayTrack(p) => Head(task[p].todo) = "upsert"
         /\ SetRoomAutoplay(p) => Head(task[p].todo) \in {"setautoplay", "launch", "unsetautoplay"}
         /\ FindPlaylist(p) => Head(task[p].todo) = "playlist"
         /\ ActivateStagedPlaylist(p) => Head(task[p].todo) = "activate"
         /\ ListRoom(p) => Head(task[p].todo) = "list"
         /\ StartRoom(p) => Head(task[p].todo) = "start"
         /\ ReadIdleness(p) => Head(task[p].todo) \in {"rooms", "playbacks", "counts"}
         /\ JudgeIdle(p) => Head(task[p].todo) = "judge"
         /\ Untrack(p) => Head(task[p].todo) = "untrack"
<1>1. DOMAIN OnEmptyQueue = {"pop", "skip", "golive"} /\ DOMAIN LooksBusy = {"rooms", "playbacks", "counts"}
  BY DEF OnEmptyQueue, LooksBusy
<1>2. /\ DebounceAdvance(p) => Head(task[p].todo) = "debounce"
      /\ FindHub(p) => Head(task[p].todo) = "findhub"
      /\ PopNextTrack(p) => Head(task[p].todo) \in {"pop", "skip", "golive"}
      /\ WhichRoom(p) => Head(task[p].todo) = "which"
      /\ ScheduleAdvance(p) => Head(task[p].todo) = "schedule"
  BY <1>1, AtMeans DEF DebounceAdvance, FindHub, PopNextTrack, WhichRoom, ScheduleAdvance
<1>3. /\ CancelAdvance(p) => Head(task[p].todo) = "cancel"
      /\ SetNowPlaying(p) => Head(task[p].todo) = "now"
      /\ SetPlaybackState(p) => Head(task[p].todo) = "state"
      /\ ClearPlaybackState(p) => Head(task[p].todo) = "clearstate"
      /\ ClearNowPlaying(p) => Head(task[p].todo) = "clearnow"
  BY <1>1, AtMeans DEF CancelAdvance, SetNowPlaying, SetPlaybackState, ClearPlaybackState, ClearNowPlaying
<1>4. /\ ReadPlaybackState(p) => Head(task[p].todo) \in {"pause", "resume"}
      /\ SavePlaybackState(p) => Head(task[p].todo) = "save"
      /\ SetRoomLive(p) => Head(task[p].todo) \in {"live", "end"}
      /\ ReadReport(p) => Head(task[p].todo) = "report"
      /\ VerifyEnd(p) => Head(task[p].todo) = "verify"
  BY <1>1, AtMeans DEF ReadPlaybackState, SavePlaybackState, SetRoomLive, ReadReport, VerifyEnd
<1>5. /\ LearnDuration(p) => Head(task[p].todo) = "learn"
      /\ ReadIndex(p) => Head(task[p].todo) = "readindex"
      /\ WriteIndex(p) => Head(task[p].todo) = "writeindex"
      /\ UpsertAutoplayTrack(p) => Head(task[p].todo) = "upsert"
      /\ SetRoomAutoplay(p) => Head(task[p].todo) \in {"setautoplay", "launch", "unsetautoplay"}
  BY <1>1, AtMeans DEF LearnDuration, ReadIndex, WriteIndex, UpsertAutoplayTrack, SetRoomAutoplay
<1>6. /\ ActivateStagedPlaylist(p) => Head(task[p].todo) = "activate"
      /\ ListRoom(p) => Head(task[p].todo) = "list"
      /\ StartRoom(p) => Head(task[p].todo) = "start"
      /\ ReadIdleness(p) => Head(task[p].todo) \in {"rooms", "playbacks", "counts"}
      /\ JudgeIdle(p) => Head(task[p].todo) = "judge"
  BY <1>1, AtMeans DEF ActivateStagedPlaylist, ListRoom, StartRoom, ReadIdleness, JudgeIdle
<1>7. /\ Untrack(p) => Head(task[p].todo) = "untrack"
      /\ FindPlaylist(p) => Head(task[p].todo) = "playlist"
  BY <1>1, AtMeans DEF Untrack, FindPlaylist
<1> QED
  BY <1>2, <1>3, <1>4, <1>5, <1>6, <1>7

\* The call a goroutine makes says which step it takes.
LEMMA ByCall ==
  ASSUME NEW p, Step(p)
  PROVE  /\ Head(task[p].todo) = "debounce" => DebounceAdvance(p)
         /\ Head(task[p].todo) = "findhub" => FindHub(p)
         /\ Head(task[p].todo) \in {"pop", "skip", "golive"} => PopNextTrack(p)
         /\ Head(task[p].todo) = "which" => WhichRoom(p)
         /\ Head(task[p].todo) = "schedule" => ScheduleAdvance(p)
         /\ Head(task[p].todo) = "cancel" => CancelAdvance(p)
         /\ Head(task[p].todo) = "now" => SetNowPlaying(p)
         /\ Head(task[p].todo) = "state" => SetPlaybackState(p)
         /\ Head(task[p].todo) = "clearstate" => ClearPlaybackState(p)
         /\ Head(task[p].todo) = "clearnow" => ClearNowPlaying(p)
         /\ Head(task[p].todo) \in {"pause", "resume"} => ReadPlaybackState(p)
         /\ Head(task[p].todo) = "save" => SavePlaybackState(p)
         /\ Head(task[p].todo) \in {"live", "end"} => SetRoomLive(p)
         /\ Head(task[p].todo) = "report" => ReadReport(p)
         /\ Head(task[p].todo) = "verify" => VerifyEnd(p)
         /\ Head(task[p].todo) = "learn" => LearnDuration(p)
         /\ Head(task[p].todo) = "readindex" => ReadIndex(p)
         /\ Head(task[p].todo) = "writeindex" => WriteIndex(p)
         /\ Head(task[p].todo) = "upsert" => UpsertAutoplayTrack(p)
         /\ Head(task[p].todo) \in {"setautoplay", "launch", "unsetautoplay"} => SetRoomAutoplay(p)
         /\ Head(task[p].todo) = "playlist" => FindPlaylist(p)
         /\ Head(task[p].todo) = "activate" => ActivateStagedPlaylist(p)
         /\ Head(task[p].todo) = "list" => ListRoom(p)
         /\ Head(task[p].todo) = "start" => StartRoom(p)
         /\ Head(task[p].todo) \in {"rooms", "playbacks", "counts"} => ReadIdleness(p)
         /\ Head(task[p].todo) = "judge" => JudgeIdle(p)
         /\ Head(task[p].todo) = "untrack" => Untrack(p)
         /\ Head(task[p].todo) \in Calls
<1>1. CASE DebounceAdvance(p)
  BY <1>1, CallsOf DEF Calls
<1>2. CASE FindHub(p)
  BY <1>2, CallsOf DEF Calls
<1>3. CASE PopNextTrack(p)
  BY <1>3, CallsOf DEF Calls
<1>4. CASE WhichRoom(p)
  BY <1>4, CallsOf DEF Calls
<1>5. CASE ScheduleAdvance(p)
  BY <1>5, CallsOf DEF Calls
<1>6. CASE CancelAdvance(p)
  BY <1>6, CallsOf DEF Calls
<1>7. CASE SetNowPlaying(p)
  BY <1>7, CallsOf DEF Calls
<1>8. CASE SetPlaybackState(p)
  BY <1>8, CallsOf DEF Calls
<1>9. CASE ClearPlaybackState(p)
  BY <1>9, CallsOf DEF Calls
<1>10. CASE ClearNowPlaying(p)
  BY <1>10, CallsOf DEF Calls
<1>11. CASE ReadPlaybackState(p)
  BY <1>11, CallsOf DEF Calls
<1>12. CASE SavePlaybackState(p)
  BY <1>12, CallsOf DEF Calls
<1>13. CASE SetRoomLive(p)
  BY <1>13, CallsOf DEF Calls
<1>14. CASE ReadReport(p)
  BY <1>14, CallsOf DEF Calls
<1>15. CASE VerifyEnd(p)
  BY <1>15, CallsOf DEF Calls
<1>16. CASE LearnDuration(p)
  BY <1>16, CallsOf DEF Calls
<1>17. CASE ReadIndex(p)
  BY <1>17, CallsOf DEF Calls
<1>18. CASE WriteIndex(p)
  BY <1>18, CallsOf DEF Calls
<1>19. CASE UpsertAutoplayTrack(p)
  BY <1>19, CallsOf DEF Calls
<1>20. CASE SetRoomAutoplay(p)
  BY <1>20, CallsOf DEF Calls
<1>21. CASE ActivateStagedPlaylist(p)
  BY <1>21, CallsOf DEF Calls
<1>22. CASE ListRoom(p)
  BY <1>22, CallsOf DEF Calls
<1>23. CASE StartRoom(p)
  BY <1>23, CallsOf DEF Calls
<1>24. CASE ReadIdleness(p)
  BY <1>24, CallsOf DEF Calls
<1>25. CASE JudgeIdle(p)
  BY <1>25, CallsOf DEF Calls
<1>26. CASE Untrack(p)
  BY <1>26, CallsOf DEF Calls
<1>27. CASE FindPlaylist(p)
  BY <1>27, CallsOf DEF Calls
<1> QED
  BY <1>1, <1>2, <1>3, <1>4, <1>5, <1>6, <1>7, <1>8, <1>9, <1>10, <1>11, <1>12, <1>13, <1>14, <1>15, <1>16, <1>17, <1>18, <1>19, <1>20, <1>21, <1>22, <1>23, <1>24, <1>25, <1>26,
     <1>27 DEF Step

\* The goroutine that goes on, in full.
LEMMA GoingMeans ==
  ASSUME TypeOK, NEW p \in Procs, NEW cs, NEW m, DOMAIN m = {"todo", "ps", "length", "index"},
         task' = [task EXCEPT ![p] = Going(cs, m)]
  PROVE  /\ task'[p].todo = cs /\ \A q \in Procs \ {p} : task'[q] = task[q]
         /\ cs # <<>> => task'[p].ps = m.ps /\ task'[p].length = m.length /\ task'[p].index = m.index
         /\ cs = <<>> => task'[p] = Idle
<1>1. task \in [Procs -> Tasks]
  BY StoreTyped
<1>2. Going(cs, m).todo = cs
  BY IdleTyped DEF Going
<1>3. /\ cs # <<>> => Going(cs, m).ps = m.ps /\ Going(cs, m).length = m.length /\ Going(cs, m).index = m.index
      /\ cs = <<>> => Going(cs, m) = Idle
  BY DEF Going
<1> QED
  BY <1>1, <1>2, <1>3

LEMMA GoOnMeans ==
  ASSUME TypeOK, NEW p \in Procs, NEW cs, NEW m, DOMAIN m = {"todo", "ps", "length", "index"},
         GoOn(p, cs, m)
  PROVE  /\ task'[p].todo = cs /\ \A q \in Procs \ {p} : task'[q] = task[q]
         /\ cs # <<>> => task'[p].ps = m.ps /\ task'[p].length = m.length /\ task'[p].index = m.index
         /\ cs = <<>> => task'[p] = Idle
<1>1. task' = [task EXCEPT ![p] = Going(cs, m)]
  BY DEF GoOn, Going
<1> QED
  BY <1>1, GoingMeans

LEMMA DoneMeans ==
  ASSUME TypeOK, NEW p \in Procs, Done(p)
  PROVE  /\ task'[p].todo = Tail(task[p].todo) /\ \A q \in Procs \ {p} : task'[q] = task[q]
         /\ Tail(task[p].todo) # <<>> =>
               /\ task'[p].ps = task[p].ps /\ task'[p].length = task[p].length
               /\ task'[p].index = task[p].index
         /\ Tail(task[p].todo) = <<>> => task'[p] = Idle
<1>1. DOMAIN task[p] = {"todo", "ps", "length", "index"}
  BY StoreTyped DEF Tasks
<1> QED
  BY <1>1, GoOnMeans DEF Done

LEMMA ReturnMeans ==
  ASSUME TypeOK, NEW p \in Procs, Return(p)
  PROVE  task'[p] = Idle /\ task'[p].todo = <<>> /\ \A q \in Procs \ {p} : task'[q] = task[q]
<1>1. DOMAIN task[p] = {"todo", "ps", "length", "index"}
  BY StoreTyped DEF Tasks
<1> QED
  BY <1>1, GoOnMeans DEF Return

\* The call comes after the i-th one.
Later(cs, i, call) == \E j \in DOMAIN cs : j > i /\ cs[j] = call

LEMMA LaterTail ==
  ASSUME NEW cs \in Seq(Calls), cs # <<>>, NEW call
  PROVE  /\ \A i \in DOMAIN Tail(cs) : Later(Tail(cs), i, call) <=> Later(cs, i + 1, call)
         /\ Later(cs, 1, call) <=> Has(Tail(cs), call)
<1>1. /\ Tail(cs) \in Seq(Calls) /\ Len(cs) \in Nat \ {0} /\ DOMAIN cs = 1..Len(cs)
      /\ DOMAIN Tail(cs) = 1..(Len(cs) - 1)
      /\ \A i \in 1..(Len(cs) - 1) : Tail(cs)[i] = cs[i + 1]
  OBVIOUS
<1>2. ASSUME NEW i \in 0..(Len(cs) - 1), Later(cs, i + 1, call)
      PROVE  \E j \in DOMAIN Tail(cs) : j > i /\ Tail(cs)[j] = call
  <2>1. PICK j \in 1..Len(cs) : j > i + 1 /\ cs[j] = call
    BY <1>1, <1>2 DEF Later
  <2>2. j - 1 \in 1..(Len(cs) - 1) /\ j - 1 > i /\ (j - 1) + 1 = j
    BY <1>1, <2>1
  <2>3. Tail(cs)[j - 1] = call
    BY <1>1, <2>1, <2>2
  <2> QED
    BY <1>1, <2>2, <2>3
<1>3. ASSUME NEW i \in 0..(Len(cs) - 1), NEW j \in DOMAIN Tail(cs), j > i, Tail(cs)[j] = call
      PROVE  Later(cs, i + 1, call)
  <2>1. j + 1 \in DOMAIN cs /\ j + 1 > i + 1 /\ cs[j + 1] = call
    BY <1>1, <1>3
  <2> QED
    BY <2>1 DEF Later
<1>4. ASSUME NEW i \in DOMAIN Tail(cs) PROVE Later(Tail(cs), i, call) <=> Later(cs, i + 1, call)
  <2>1. i \in 0..(Len(cs) - 1)
    BY <1>1, <1>4
  <2> QED
    BY <1>2, <1>3, <2>1 DEF Later
<1>5. Later(cs, 1, call) <=> Has(Tail(cs), call)
  <2>1. 0 \in 0..(Len(cs) - 1) /\ 0 + 1 = 1 /\ \A j \in DOMAIN Tail(cs) : j > 0
    BY <1>1
  <2> QED
    BY <1>2, <1>3, <2>1 DEF Has
<1> QED
  BY <1>4, <1>5

\* What the calls of every list are.
LEMMA ListsCall ==
  ASSUME NEW call
  PROVE  /\ ~Has(<<>>, call)
         /\ Has(<<"which">>, call) <=> call = "which"
         /\ Has(<<"schedule">>, call) <=> call = "schedule"
         /\ Has(<<"untrack">>, call) <=> call = "untrack"
         /\ Has(AdvanceTrack, call) <=> call \in {"debounce", "findhub", "pop", "now", "state", "schedule"}
         /\ Has(AdvanceAutoplay, call) <=>
               call \in {"readindex", "writeindex", "upsert", "now", "state", "schedule"}
         /\ Has(StopPlaying, call) <=> call \in {"clearstate", "clearnow"}
         /\ Has(StartAutoplayRooms, call) <=> call \in {"list", "setautoplay", "start"}
         /\ Has(IdleCheck, call) <=> call \in {"rooms", "playbacks", "counts", "judge"}
         /\ Has(CloseRoom \o <<"untrack">>, call) <=> call \in {"end", "clearnow", "clearstate", "untrack"}
<1>1. /\ ~Has(<<>>, call)
      /\ Has(<<"which">>, call) <=> call = "which"
      /\ Has(<<"schedule">>, call) <=> call = "schedule"
      /\ Has(<<"untrack">>, call) <=> call = "untrack"
  BY DEF Has
<1>2. Has(AdvanceTrack, call) <=> call \in {"debounce", "findhub", "pop", "now", "state", "schedule"}
  BY DEF Has, AdvanceTrack
<1>3. Has(AdvanceAutoplay, call) <=> call \in {"readindex", "writeindex", "upsert", "now", "state", "schedule"}
  BY DEF Has, AdvanceAutoplay
<1>4. Has(StopPlaying, call) <=> call \in {"clearstate", "clearnow"}
  BY DEF Has, StopPlaying
<1>5. Has(StartAutoplayRooms, call) <=> call \in {"list", "setautoplay", "start"}
  BY DEF Has, StartAutoplayRooms
<1>6. Has(IdleCheck, call) <=> call \in {"rooms", "playbacks", "counts", "judge"}
  BY DEF Has, IdleCheck
<1>7. Has(CloseRoom \o <<"untrack">>, call) <=> call \in {"end", "clearnow", "clearstate", "untrack"}
  BY DEF Has, CloseRoom
<1> QED
  BY <1>1, <1>2, <1>3, <1>4, <1>5, <1>6, <1>7

LEMMA HandlersCall ==
  ASSUME NEW call
  PROVE  /\ Has(Concurrent["GoLive"], call) <=> call \in {"now", "state", "live", "schedule"}
         /\ Has(Concurrent["EndSession"], call) <=> call \in {"end", "clearnow", "clearstate", "cancel"}
         /\ Has(Concurrent["autoplay_track_ended"], call) <=>
               call \in {"report", "verify", "debounce", "findhub", "pop", "now", "state", "schedule"}
         /\ Has(Concurrent["ActivatePlaylist"], call) <=>
               call \in {"activate", "setautoplay", "cancel", "clearstate", "clearnow", "list", "start"}
         /\ Has(Concurrent["StartAutoplayRoom"], call) <=>
               call \in {"playlist", "launch", "list", "setautoplay", "start"}
         /\ Has(Concurrent["report_duration"], call) <=> call \in {"report", "learn", "schedule"}
         /\ Has(Concurrent["StopAutoplayRoom"], call) <=>
               call \in {"unsetautoplay", "cancel", "clearstate", "clearnow"}
<1>1. Has(<<"now", "state", "live", "schedule">>, call) <=> call \in {"now", "state", "live", "schedule"}
  BY DEF Has
<1>2. Has(<<"end", "clearnow", "clearstate", "cancel">>, call) <=>
         call \in {"end", "clearnow", "clearstate", "cancel"}
  BY DEF Has
<1>3. Has(<<"report", "verify">> \o AdvanceTrack, call) <=>
         call \in {"report", "verify", "debounce", "findhub", "pop", "now", "state", "schedule"}
  <2> DEFINE cs == <<"report", "verify">> \o AdvanceTrack
  <2>1. /\ DOMAIN cs = 1..8 /\ cs[1] = "report" /\ cs[2] = "verify" /\ cs[3] = "debounce" /\ cs[4] = "findhub"
        /\ cs[5] = "pop" /\ cs[6] = "now" /\ cs[7] = "state" /\ cs[8] = "schedule"
    BY DEF AdvanceTrack
  <2> HIDE DEF cs
  <2>2. Has(cs, call) <=> call \in {"report", "verify", "debounce", "findhub", "pop", "now", "state", "schedule"}
    BY <2>1 DEF Has
  <2> QED
    BY <2>2 DEF cs
<1>4. Has(<<"activate", "setautoplay", "cancel", "clearstate", "clearnow">> \o StartAutoplayRooms, call) <=>
         call \in {"activate", "setautoplay", "cancel", "clearstate", "clearnow", "list", "start"}
  BY DEF Has, StartAutoplayRooms
<1>5. /\ Has(<<"playlist", "launch">> \o StartAutoplayRooms, call) <=>
            call \in {"playlist", "launch", "list", "setautoplay", "start"}
      /\ Has(<<"report", "learn", "schedule">>, call) <=> call \in {"report", "learn", "schedule"}
  BY DEF Has, StartAutoplayRooms
<1>6. Has(<<"unsetautoplay", "cancel", "clearstate", "clearnow">>, call) <=>
         call \in {"unsetautoplay", "cancel", "clearstate", "clearnow"}
  BY DEF Has
<1> QED
  BY <1>1, <1>2, <1>3, <1>4, <1>5, <1>6, HandlersListed

\* What a call writes.
LEMMA WritesOnly ==
  ASSUME NEW p, Step(p)
  PROVE  LET h == Head(task[p].todo)
         IN  /\ hub => hub'
             /\ h \notin {"live", "end", "setautoplay", "launch", "unsetautoplay"} => live' = live
             /\ h \notin {"setautoplay", "launch", "unsetautoplay"} => autoplay' = autoplay
             /\ h \in {"setautoplay", "launch"} => autoplay' /\ live'
             /\ h = "unsetautoplay" => ~autoplay' /\ ~live'
             /\ h \notin {"state", "save", "clearstate"} => playback' = playback
             /\ h = "clearstate" => playback' = Nothing
             /\ h \notin {"debounce", "schedule", "cancel"} => armed' = armed /\ left' = left
             /\ h \notin {"learn", "upsert"} => duration' = duration
             /\ h \notin {"pop", "skip", "golive"} => queue' = queue
<1> DEFINE h == Head(task[p].todo)
<1>1. ASSUME DebounceAdvance(p) \/ FindHub(p) \/ PopNextTrack(p) \/ WhichRoom(p) \/ ScheduleAdvance(p) \/ CancelAdvance(p)
      PROVE  /\ h \in {"debounce", "findhub", "pop", "skip", "golive", "which", "schedule", "cancel"}
             /\ UNCHANGED <<hub, live, autoplay, playback, duration>>
             /\ h \notin {"debounce", "schedule", "cancel"} => armed' = armed /\ left' = left
             /\ h \notin {"pop", "skip", "golive"} => queue' = queue
  BY <1>1, CallsOf DEF DebounceAdvance, FindHub, PopNextTrack, WhichRoom, ScheduleAdvance, CancelAdvance, storeVars, syncVars
<1>2. ASSUME SetNowPlaying(p) \/ ClearNowPlaying(p) \/ ReadPlaybackState(p) \/ ReadReport(p) \/ VerifyEnd(p)
             \/ ReadIndex(p) \/ WriteIndex(p) \/ FindPlaylist(p)
             \/ ActivateStagedPlaylist(p) \/ ListRoom(p)
             \/ ReadIdleness(p) \/ JudgeIdle(p) \/ Untrack(p)
      PROVE  /\ h \in {"now", "clearnow", "pause", "resume", "report", "verify", "readindex", "writeindex",
                       "playlist", "activate", "list", "rooms", "playbacks", "counts", "judge", "untrack"}
             /\ UNCHANGED <<hub, live, autoplay, playback, duration, armed, left, queue>>
  <2>1. h \in {"now", "clearnow", "pause", "resume", "report", "verify", "readindex", "writeindex",
               "playlist", "activate", "list", "rooms", "playbacks", "counts", "judge", "untrack"}
    BY <1>2, CallsOf
  <2>2. UNCHANGED <<hub, live, autoplay, playback, duration, armed, left, queue>>
    BY <1>2 DEF SetNowPlaying, ClearNowPlaying, ReadPlaybackState, ReadReport, VerifyEnd,
         ReadIndex, WriteIndex, FindPlaylist, ActivateStagedPlaylist, ListRoom, ReadIdleness, JudgeIdle, Untrack, storeVars, syncVars
  <2> QED
    BY <2>1, <2>2
<1>3. ASSUME SetPlaybackState(p) \/ SavePlaybackState(p) \/ ClearPlaybackState(p)
      PROVE  /\ h \in {"state", "save", "clearstate"} /\ (h = "clearstate" => playback' = Nothing)
             /\ UNCHANGED <<hub, live, autoplay, duration, armed, left, queue>>
  BY <1>3, CallsOf DEF SetPlaybackState, SavePlaybackState, ClearPlaybackState, syncVars
<1>4. ASSUME LearnDuration(p) \/ UpsertAutoplayTrack(p)
      PROVE  /\ h \in {"learn", "upsert"}
             /\ UNCHANGED <<hub, live, autoplay, playback, armed, left, queue>>
  BY <1>4, CallsOf DEF LearnDuration, UpsertAutoplayTrack, syncVars
<1>5. ASSUME SetRoomLive(p)
      PROVE  /\ h \in {"live", "end"}
             /\ UNCHANGED <<hub, autoplay, playback, duration, armed, left, queue>>
  BY <1>5, CallsOf DEF SetRoomLive, syncVars
<1>6. ASSUME SetRoomAutoplay(p)
      PROVE  /\ h \in {"setautoplay", "launch", "unsetautoplay"}
             /\ h \in {"setautoplay", "launch"} => autoplay' /\ live'
             /\ h = "unsetautoplay" => ~autoplay' /\ ~live'
             /\ UNCHANGED <<hub, playback, duration, armed, left, queue>>
  <2>1. h \in {"setautoplay", "launch", "unsetautoplay"}
    BY <1>6, CallsOf
  <2>2. UNCHANGED <<hub, playback, duration, armed, left, queue>>
    BY <1>6 DEF SetRoomAutoplay, syncVars
  <2>3. PICK call \in {"setautoplay", "launch", "unsetautoplay"} :
           h = call /\ autoplay' = (call # "unsetautoplay") /\ live' = autoplay'
    BY <1>6 DEF SetRoomAutoplay, At
  <2> QED
    BY <2>1, <2>2, <2>3
<1>7. ASSUME StartRoom(p)
      PROVE  h = "start" /\ hub' /\ UNCHANGED <<live, autoplay, playback, duration, armed, left, queue>>
  BY <1>7, CallsOf DEF StartRoom, storeVars, syncVars
<1> HIDE DEF h
<1>8. /\ hub => hub'
      /\ h \notin {"live", "end", "setautoplay", "launch", "unsetautoplay"} => live' = live
      /\ h \notin {"setautoplay", "launch", "unsetautoplay"} => autoplay' = autoplay
      /\ h \in {"setautoplay", "launch"} => autoplay' /\ live'
      /\ h = "unsetautoplay" => ~autoplay' /\ ~live'
      /\ h \notin {"state", "save", "clearstate"} => playback' = playback
      /\ h = "clearstate" => playback' = Nothing
      /\ h \notin {"debounce", "schedule", "cancel"} => armed' = armed /\ left' = left
      /\ h \notin {"learn", "upsert"} => duration' = duration
      /\ h \notin {"pop", "skip", "golive"} => queue' = queue
  BY <1>1, <1>2, <1>3, <1>4, <1>5, <1>6, <1>7 DEF Step
<1> QED
  BY <1>8 DEF h

\* What a call that fails writes all the same.
LEMMA FailWrites ==
  ASSUME TypeOK, NEW p, CallFails(p)
  PROVE  LET h == Head(task[p].todo)
         IN  /\ hub => hub'
             /\ h # "launch" => live' = live /\ autoplay' = autoplay
             /\ UNCHANGED <<live, autoplay>> \/ (live' /\ autoplay')
             /\ playback' = playback /\ nowPlaying' = nowPlaying /\ left' = left /\ since' = since
             /\ h # "schedule" => armed' = armed
             /\ h = "schedule" => ~armed'
             /\ h # "learn" => duration' = duration
             /\ h \notin {"pop", "skip", "golive"} => queue' = queue
             /\ queue' = queue \/ (queue # <<>> /\ queue' = Tail(queue))
             /\ torn => torn'
             /\ ~torn' => h \notin {"now", "state", "clearnow", "clearstate"}
             /\ amiss \subseteq amiss'
             /\ h = "verify" => "unread" \in amiss'
             /\ h = "unsetautoplay" => "unstopped" \in amiss'
             /\ ~(armed' /\ Outlasts(left)) => "failed" \in amiss'
<1> DEFINE h == Head(task[p].todo)
<1>1. \A call : At(p, call) <=> h = call
  <2>1. task[p].todo # <<>>
    BY FailMeans
  <2> QED
    BY <2>1 DEF At, Free
<1>2. DOMAIN OnEmptyQueue = {"pop", "skip", "golive"}
  BY DEF OnEmptyQueue
<1>3. /\ h # "launch" => live' = live /\ autoplay' = autoplay
      /\ UNCHANGED <<live, autoplay>> \/ (live' /\ autoplay')
      /\ h # "learn" => duration' = duration
      /\ h \notin {"pop", "skip", "golive"} => queue' = queue
      /\ queue' = queue \/ (queue # <<>> /\ queue' = Tail(queue))
  BY <1>1, <1>2 DEF CallFails, LostAnswer
<1>4. /\ hub => hub'
      /\ h # "schedule" => armed' = armed
      /\ h = "schedule" => ~armed'
  <2>1. hub' = (hub \/ At(p, "start")) /\ armed' = (armed /\ ~At(p, "schedule"))
    BY DEF CallFails
  <2>2. h = "schedule" => ~armed'
    BY <1>1, <2>1
  <2>3. armed \in BOOLEAN
    BY DEF TypeOK
  <2> QED
    BY <1>1, <2>1, <2>2, <2>3
<1>5. /\ torn => torn'
      /\ ~torn' => h \notin {"now", "state", "clearnow", "clearstate"}
  BY <1>1 DEF CallFails
<1>6. /\ amiss \subseteq amiss'
      /\ h = "verify" => "unread" \in amiss'
      /\ h = "unsetautoplay" => "unstopped" \in amiss'
      /\ ~(armed' /\ Outlasts(left)) => "failed" \in amiss'
  BY <1>1 DEF CallFails
<1>7. playback' = playback /\ nowPlaying' = nowPlaying /\ left' = left /\ since' = since
  BY FailMeans
<1> QED
  BY <1>3, <1>4, <1>5, <1>6, <1>7

\* What a call writes at most, whether it fails or not.
LEMMA CallWrites ==
  ASSUME TypeOK, TasksOK, NEW p \in Procs, Step(p) \/ CallFails(p)
  PROVE  LET h == Head(task[p].todo)
         IN  /\ hub => hub'
             /\ h \notin {"live", "end", "setautoplay", "launch", "unsetautoplay"} => live' = live
             /\ h \notin {"setautoplay", "launch", "unsetautoplay"} => autoplay' = autoplay
             /\ h \in {"setautoplay", "launch"} => (autoplay' /\ live') \/ UNCHANGED <<autoplay, live>>
             /\ h = "unsetautoplay" => (~autoplay' /\ ~live') \/ UNCHANGED <<autoplay, live>>
             /\ h \notin {"state", "save", "clearstate"} => playback' = playback
             /\ h \notin {"debounce", "schedule", "cancel"} => armed' = armed /\ left' = left
             /\ h \notin {"learn", "upsert"} => duration' = duration
             /\ h \notin {"pop", "skip", "golive"} => queue' = queue
             /\ h # "debounce" => since' = since
<1>1. CASE Step(p)
  BY <1>1, WritesOnly, OnlyDebounceAdvances
<1>2. CASE CallFails(p)
  BY <1>2, FailWrites
<1> QED
  BY <1>1, <1>2

\* What a step leaves of the list of every goroutine.
LEMMA NextList ==
  ASSUME TypeOK, TasksOK, NEW p \in Procs, Step(p) \/ CallFails(p), NEW q \in Procs
  PROVE  \/ q # p /\ task'[q] = task[q]
         \/ q = p /\ task'[q].todo = Tail(task[p].todo)
         \/ q = p /\ Turns(Head(task[p].todo), task'[q].todo)
         \/ /\ Head(task[p].todo) = "schedule" /\ armed' = FALSE
            /\ q \in Workers /\ (q = p \/ task[q].todo = <<>>)
            /\ task'[q] = Going(AdvanceTrack, Idle) /\ task'[q].todo = AdvanceTrack
<1>1. GoesOn(p) \/ Overtakes(p)
  BY StepGoesOn, FailGoesOn
<1>2. CASE GoesOn(p)
  BY <1>2 DEF GoesOn
<1>3. CASE Overtakes(p)
  <2>1. PICK r \in Workers : /\ r = p \/ task[r].todo = <<>>
                             /\ task'[r] = Going(AdvanceTrack, Idle)
                             /\ r # p => task'[p] = Idle
                             /\ \A s \in Procs \ {p, r} : task'[s] = task[s]
    BY <1>3 DEF Overtakes
  <2>2. Going(AdvanceTrack, Idle).todo = AdvanceTrack
    BY PlansBegin, IdleTyped, GoingTyped DEF Begins
  <2>3. CASE q = r
    BY <1>3, <2>1, <2>2, <2>3 DEF Overtakes
  <2>4. CASE q # r /\ q = p
    BY <2>1, <2>4, IdleTyped DEF Turns
  <2>5. CASE q # r /\ q # p
    BY <2>1, <2>5
  <2> QED
    BY <2>3, <2>4, <2>5
<1> QED
  BY <1>1, <1>2, <1>3

\* The lists that Begin, FireTimer and CheckIdle start.
LEMMA NewList ==
  ASSUME TypeOK, NEW p \in Procs, NEW cs, NEW m \in Tasks, GoOn(p, cs, m), NEW q \in Procs
  PROVE  IF q = p THEN task'[q].todo = cs ELSE task'[q] = task[q]
BY GoOnMeans DEF Tasks

LEMMA BeginList ==
  ASSUME TypeOK, NEW p \in Procs, Begin(p)
  PROVE  /\ task[p].todo = <<>> /\ task[Main].todo = <<>> /\ p \notin {Main, Monitor}
         /\ UNCHANGED <<storeVars, hub, syncVars, restarts, room, history>>
         /\ \A q \in Procs \ {p} : task'[q] = task[q]
         /\ \/ p \in Loops /\ \E a \in room.handlers \cap DOMAIN DJActions : task'[p].todo = DJActions[a]
            \/ /\ p \notin Loops
               /\ \E h \in room.handlers \cap DOMAIN Concurrent :
                    /\ task'[p].todo = Concurrent[h]
                    /\ h = "GoLive" => /\ task'[p].ps.track \in Submitted
                                       /\ task'[p].length = duration[task'[p].ps.track]
<1>0. DOMAIN Idle = {"todo", "ps", "length", "index"} /\ "track" \in DOMAIN Idle.ps
  BY IdleTyped DEF Tasks, States
<1>1. /\ task[p].todo = <<>> /\ task[Main].todo = <<>> /\ p \notin {Main, Monitor}
      /\ UNCHANGED <<storeVars, hub, syncVars, restarts, room, history>>
  BY BeginGives
<1>2. CASE p \in Loops
  <2>1. PICK a \in room.handlers \cap DOMAIN DJActions : GoOn(p, DJActions[a], Idle)
    BY <1>2 DEF Begin
  <2>2. task'[p].todo = DJActions[a] /\ \A q \in Procs \ {p} : task'[q] = task[q]
    BY <1>0, <2>1, GoOnMeans
  <2> QED
    BY <1>1, <1>2, <2>2
<1>3. CASE p \notin Loops
  <2>0. PICK h \in room.handlers \cap DOMAIN Concurrent :
           \E t \in IF h = "GoLive" THEN Submitted ELSE {NoTrack} :
             GoOn(p, Concurrent[h], [Idle EXCEPT !.ps.track = t, !.length = IF t = NoTrack THEN 0 ELSE duration[t]])
    BY <1>3 DEF Begin
  <2>1. PICK t \in IF h = "GoLive" THEN Submitted ELSE {NoTrack} :
             GoOn(p, Concurrent[h], [Idle EXCEPT !.ps.track = t, !.length = IF t = NoTrack THEN 0 ELSE duration[t]])
    BY <2>0
  <2> DEFINE d == IF t = NoTrack THEN 0 ELSE duration[t]
             m == [Idle EXCEPT !.ps.track = t, !.length = d]
  <2>2. DOMAIN m = {"todo", "ps", "length", "index"} /\ m.ps.track = t /\ m.length = d
    BY <1>0
  <2> HIDE DEF d, m
  <2>3. GoOn(p, Concurrent[h], m)
    BY <2>1 DEF m, d
  <2>4. /\ task'[p].todo = Concurrent[h] /\ \A q \in Procs \ {p} : task'[q] = task[q]
        /\ Concurrent[h] # <<>> => task'[p].ps = m.ps /\ task'[p].length = m.length
    BY <2>2, <2>3, GoOnMeans
  <2>5. Concurrent[h] # <<>>
    BY HandlersBegin DEF Begins
  <2>6. h = "GoLive" => t \in Submitted /\ t # NoTrack /\ d = duration[t]
    BY <2>1, ConstantsOK DEF Submitted, d
  <2> QED
    BY <1>1, <1>3, <2>2, <2>4, <2>5, <2>6
<1> QED
  BY <1>2, <1>3

LEMMA BootingLists ==
  /\ Booting[Main].todo = StartAutoplayRooms
  /\ \A q \in Procs \ {Main} : Booting[q].todo = <<>>
BY IdleTyped, ConstantsOK DEF Booting, Procs, Tasks

-----------------------------------------------------------------------------
(* What the page shows *)

\* A list that has one of the two writes done has the other to do, or what was read to write
\* back.
HalfList(cs) == \/ Has(cs, "state") /\ ~Has(cs, "now")
                \/ Has(cs, "clearnow") /\ ~Has(cs, "clearstate")
                \/ Has(cs, "clearstate") /\ ~Has(cs, "clearnow")
SaveList(cs) == Has(cs, "save") /\ ~Has(cs, "pause") /\ ~Has(cs, "resume")

\* Writes come in pairs, and nothing but the flag of the room is written between the two.
Paired(cs) ==
    \A i \in DOMAIN cs :
        /\ cs[i] = "now" => Later(cs, i, "state") /\ ~Later(cs, i, "now")
        /\ cs[i] = "state" => ~Later(cs, i, "state") /\ ~Later(cs, i, "now")
        /\ cs[i] \in {"now", "state"} =>
              \A j \in DOMAIN cs : cs[j] \notin {"clearnow", "clearstate", "save", "pause", "resume"}
        /\ cs[i] \in {"clearnow", "clearstate"} =>
              ~Later(cs, i, cs[i]) /\ \A j \in DOMAIN cs : cs[j] \notin {"save", "pause", "resume"}
        /\ cs[i] = "save" => i = Len(cs)
        /\ cs[i] = "live" => ~Later(cs, i, "clearnow") /\ ~Later(cs, i, "clearstate") /\ ~Later(cs, i, "save")
        /\ cs[i] \notin {"now", "state", "clearnow", "clearstate", "save", "live"} =>
              /\ Later(cs, i, "state") => Later(cs, i, "now")
              /\ Later(cs, i, "clearnow") <=> Later(cs, i, "clearstate")
              /\ Later(cs, i, "save") => cs[i] \in {"pause", "resume"}

\* What a goroutine half way has written, or read, is what is there.
Agrees(l) ==
    /\ Has(l.todo, "state") /\ ~Has(l.todo, "now") => nowPlaying = l.ps.track
    /\ Has(l.todo, "clearstate") /\ ~Has(l.todo, "clearnow") => nowPlaying = NoTrack
    /\ Has(l.todo, "clearnow") /\ ~Has(l.todo, "clearstate") => playback.track = NoTrack
    /\ SaveList(l.todo) => l.ps.track = playback.track

\* As long as nobody disturbs it one goroutine at most is half way, and else the two are one.
PairInv ==
    /\ \A p \in Procs : Paired(task[p].todo)
    /\ ~torn =>
          /\ \A p \in Procs : Agrees(task[p])
          /\ \A p, q \in Procs : HalfList(task[p].todo) /\ HalfList(task[q].todo) => p = q
          /\ (\A p \in Procs : ~HalfList(task[p].todo)) => nowPlaying = playback.track

LEMMA HalfIs ==
  ASSUME NEW p \in Procs
  PROVE  HalfWay(p) <=> HalfList(task[p].todo) \/ SaveList(task[p].todo)
<1>1. \A call : call \in ToDo(p) <=> Has(task[p].todo, call)
  BY DEF ToDo, Has
<1> QED
  BY <1>1 DEF HalfWay, HalfList, SaveList

LEMMA PairedTail ==
  ASSUME NEW cs \in Seq(Calls), cs # <<>>, Paired(cs)
  PROVE  LET h == Head(cs)
             t == Tail(cs)
         IN  /\ Paired(t)
             /\ h = "now" => Has(t, "state") /\ ~Has(t, "now")
             /\ h = "state" => ~Has(t, "state") /\ ~Has(t, "now")
             /\ \A call \in {"now", "state"} :
                   Has(cs, call) => /\ ~Has(cs, "clearnow") /\ ~Has(cs, "clearstate") /\ ~Has(cs, "save")
                                    /\ ~Has(cs, "pause") /\ ~Has(cs, "resume")
             /\ \A call \in {"clearnow", "clearstate"} :
                   /\ Has(cs, call) => ~Has(cs, "save") /\ ~Has(cs, "pause") /\ ~Has(cs, "resume")
                   /\ h = call => ~Has(t, call)
             /\ h = "save" => t = <<>>
             /\ h = "live" => ~Has(t, "clearnow") /\ ~Has(t, "clearstate") /\ ~Has(t, "save")
             /\ h \notin {"now", "state", "clearnow", "clearstate", "save", "live"} =>
                   /\ Has(t, "state") => Has(t, "now")
                   /\ Has(t, "clearnow") <=> Has(t, "clearstate")
                   /\ Has(t, "save") => h \in {"pause", "resume"}
<1> DEFINE t == Tail(cs)
<1>1. /\ t \in Seq(Calls) /\ Len(cs) \in Nat \ {0} /\ DOMAIN cs = 1..Len(cs)
      /\ DOMAIN t = 1..(Len(cs) - 1) /\ Len(t) = Len(cs) - 1 /\ Head(cs) = cs[1]
      /\ \A i \in 1..(Len(cs) - 1) : t[i] = cs[i + 1]
  OBVIOUS
<1>2. 1 \in DOMAIN cs /\ (Len(cs) = 1 => t = <<>>)
  BY <1>1
<1>3. \A call : Later(cs, 1, call) <=> Has(t, call)
  BY LaterTail
<1>4. Paired(t)
  <2> SUFFICES ASSUME NEW i \in DOMAIN t
               PROVE  /\ t[i] = "now" => Later(t, i, "state") /\ ~Later(t, i, "now")
                      /\ t[i] = "state" => ~Later(t, i, "state") /\ ~Later(t, i, "now")
                      /\ t[i] \in {"now", "state"} =>
                            \A j \in DOMAIN t : t[j] \notin {"clearnow", "clearstate", "save", "pause", "resume"}
                      /\ t[i] \in {"clearnow", "clearstate"} =>
                            ~Later(t, i, t[i]) /\ \A j \in DOMAIN t : t[j] \notin {"save", "pause", "resume"}
                      /\ t[i] = "save" => i = Len(t)
                      /\ t[i] = "live" =>
                            ~Later(t, i, "clearnow") /\ ~Later(t, i, "clearstate") /\ ~Later(t, i, "save")
                      /\ t[i] \notin {"now", "state", "clearnow", "clearstate", "save", "live"} =>
                            /\ Later(t, i, "state") => Later(t, i, "now")
                            /\ Later(t, i, "clearnow") <=> Later(t, i, "clearstate")
                            /\ Later(t, i, "save") => t[i] \in {"pause", "resume"}
    BY DEF Paired
  <2>1. i + 1 \in DOMAIN cs /\ t[i] = cs[i + 1] /\ (i + 1 = Len(cs) => i = Len(t))
    BY <1>1
  <2>2. \A call : Later(t, i, call) <=> Later(cs, i + 1, call)
    BY LaterTail
  <2>3. \A j \in DOMAIN t : j + 1 \in DOMAIN cs /\ t[j] = cs[j + 1]
    BY <1>1
  <2> HIDE DEF t
  <2> QED
    BY <2>1, <2>2, <2>3 DEF Paired
<1>5. /\ cs[1] = "now" => Later(cs, 1, "state") /\ ~Later(cs, 1, "now")
      /\ cs[1] = "state" => ~Later(cs, 1, "state") /\ ~Later(cs, 1, "now")
      /\ \A call \in {"clearnow", "clearstate"} : cs[1] = call => ~Later(cs, 1, call)
      /\ cs[1] = "save" => 1 = Len(cs)
      /\ cs[1] = "live" => ~Later(cs, 1, "clearnow") /\ ~Later(cs, 1, "clearstate") /\ ~Later(cs, 1, "save")
      /\ cs[1] \notin {"now", "state", "clearnow", "clearstate", "save", "live"} =>
            /\ Later(cs, 1, "state") => Later(cs, 1, "now")
            /\ Later(cs, 1, "clearnow") <=> Later(cs, 1, "clearstate")
            /\ Later(cs, 1, "save") => cs[1] \in {"pause", "resume"}
  BY <1>2 DEF Paired
<1>6. /\ \A call \in {"now", "state"} :
            Has(cs, call) => /\ ~Has(cs, "clearnow") /\ ~Has(cs, "clearstate") /\ ~Has(cs, "save")
                             /\ ~Has(cs, "pause") /\ ~Has(cs, "resume")
      /\ \A call \in {"clearnow", "clearstate"} :
            Has(cs, call) => ~Has(cs, "save") /\ ~Has(cs, "pause") /\ ~Has(cs, "resume")
  BY DEF Paired, Has
<1> HIDE DEF t
<1> QED
  BY <1>1, <1>2, <1>3, <1>4, <1>5, <1>6 DEF t

\* A list as it begins: nothing of it is written yet.
Whole(cs) == Paired(cs) /\ ~HalfList(cs) /\ ~SaveList(cs)

LEMMA WholeLists ==
  /\ Whole(<<>>) /\ Whole(<<"which">>) /\ Whole(<<"schedule">>) /\ Whole(<<"untrack">>)
  /\ Whole(AdvanceTrack) /\ Whole(AdvanceAutoplay) /\ Whole(StopPlaying) /\ Whole(StartAutoplayRooms)
  /\ Whole(IdleCheck) /\ Whole(CloseRoom \o <<"untrack">>)
<1>1. /\ Paired(<<>>) /\ Paired(<<"which">>) /\ Paired(<<"schedule">>) /\ Paired(<<"untrack">>)
  BY DEF Paired, Later
<1>2. Paired(AdvanceTrack)
  BY DEF Paired, Later, AdvanceTrack
<1>3. Paired(AdvanceAutoplay)
  BY DEF Paired, Later, AdvanceAutoplay
<1>4. Paired(StopPlaying) /\ Paired(StartAutoplayRooms)
  BY DEF Paired, Later, StopPlaying, StartAutoplayRooms
<1>5. Paired(IdleCheck)
  BY DEF Paired, Later, IdleCheck
<1>6. Paired(CloseRoom \o <<"untrack">>)
  BY DEF Paired, Later, CloseRoom
<1> QED
  BY <1>1, <1>2, <1>3, <1>4, <1>5, <1>6, ListsCall DEF Whole, HalfList, SaveList

LEMMA WholeActions ==
  ASSUME NEW a \in DOMAIN DJActions PROVE Whole(DJActions[a])
<1>1. Whole(<<"skip", "now", "state">>)
  BY DEF Whole, HalfList, SaveList, Has, Paired, Later
<1>2. Whole(<<"golive", "now", "live", "state">>)
  BY DEF Whole, HalfList, SaveList, Has, Paired, Later
<1>3. Whole(<<"pause", "save">>) /\ Whole(<<"resume", "save">>)
  BY DEF Whole, HalfList, SaveList, Has, Paired, Later
<1>4. Whole(<<"end", "clearnow", "clearstate">>)
  BY DEF Whole, HalfList, SaveList, Has, Paired, Later
<1> QED
  BY <1>1, <1>2, <1>3, <1>4, ActionsListed

LEMMA WholeHandlers ==
  ASSUME NEW h \in DOMAIN Concurrent PROVE Whole(Concurrent[h])
<1>1. Paired(<<"now", "state", "live", "schedule">>) /\ Paired(<<"end", "clearnow", "clearstate", "cancel">>)
  BY DEF Paired, Later
<1>2. Paired(<<"report", "verify">> \o AdvanceTrack)
  <2> DEFINE cs == <<"report", "verify">> \o AdvanceTrack
  <2>1. /\ DOMAIN cs = 1..8 /\ Len(cs) = 8
        /\ cs[1] = "report" /\ cs[2] = "verify" /\ cs[3] = "debounce" /\ cs[4] = "findhub"
        /\ cs[5] = "pop" /\ cs[6] = "now" /\ cs[7] = "state" /\ cs[8] = "schedule"
    BY DEF AdvanceTrack
  <2> HIDE DEF cs
  <2>2. Paired(cs)
    BY <2>1 DEF Paired, Later
  <2> QED
    BY <2>2 DEF cs
<1>3. Paired(<<"report", "learn", "schedule">>)
  BY DEF Paired, Later
<1>4. Paired(<<"activate", "setautoplay", "cancel", "clearstate", "clearnow">> \o StartAutoplayRooms)
  <2> DEFINE cs == <<"activate", "setautoplay", "cancel", "clearstate", "clearnow">> \o StartAutoplayRooms
  <2>1. /\ DOMAIN cs = 1..8 /\ Len(cs) = 8
        /\ cs[1] = "activate" /\ cs[2] = "setautoplay" /\ cs[3] = "cancel" /\ cs[4] = "clearstate"
        /\ cs[5] = "clearnow" /\ cs[6] = "list" /\ cs[7] = "setautoplay" /\ cs[8] = "start"
    BY DEF StartAutoplayRooms
  <2> HIDE DEF cs
  <2>2. Paired(cs)
    BY <2>1 DEF Paired, Later
  <2> QED
    BY <2>2 DEF cs
<1>5. Paired(<<"playlist", "launch">> \o StartAutoplayRooms)
  BY DEF Paired, Later, StartAutoplayRooms
<1>6. Paired(<<"unsetautoplay", "cancel", "clearstate", "clearnow">>)
  BY DEF Paired, Later
<1>7. ~HalfList(Concurrent[h]) /\ ~SaveList(Concurrent[h])
  BY HandlersCall, HandlersListed DEF HalfList, SaveList
<1> QED
  BY <1>1, <1>2, <1>3, <1>4, <1>5, <1>6, <1>7, HandlersListed DEF Whole

\* Calls that leave both alone.
LEMMA LeavesBoth ==
  ASSUME TypeOK, NEW p, Step(p) \/ CallFails(p)
  PROVE  LET h == Head(task[p].todo)
         IN  /\ h \notin {"now", "clearnow"} => nowPlaying' = nowPlaying
             /\ h \notin {"state", "clearstate", "save"} => playback' = playback
             /\ h \notin {"now", "state", "clearnow", "clearstate", "save"} => torn' = torn
<1> DEFINE h == Head(task[p].todo)
<1>1. CASE CallFails(p)
  <2>1. task[p].todo # <<>> /\ playback' = playback /\ nowPlaying' = nowPlaying
    BY <1>1, FailMeans
  <2>2. torn' = (torn \/ \E call \in {"now", "state", "clearnow", "clearstate"} : At(p, call))
    BY <1>1 DEF CallFails
  <2>3. h \notin {"now", "state", "clearnow", "clearstate"} =>
           ~\E call \in {"now", "state", "clearnow", "clearstate"} : At(p, call)
    BY DEF At
  <2>4. torn \in BOOLEAN
    BY DEF TypeOK
  <2> QED
    BY <2>1, <2>2, <2>3, <2>4
<1>2. CASE Step(p)
  <2>1. h \notin {"state", "clearstate", "save"} => playback' = playback
    BY <1>2, WritesOnly
  <2>2. ASSUME SetPlaybackState(p) \/ SavePlaybackState(p) \/ ClearPlaybackState(p)
        PROVE  h \in {"state", "save", "clearstate"} /\ nowPlaying' = nowPlaying
    BY <2>2, CallsOf DEF SetPlaybackState, SavePlaybackState, ClearPlaybackState
  <2>3. ASSUME SetNowPlaying(p) \/ ClearNowPlaying(p)
        PROVE  h \in {"now", "clearnow"}
    BY <2>3, CallsOf
  <2>4. ASSUME \/ DebounceAdvance(p) \/ FindHub(p) \/ PopNextTrack(p) \/ WhichRoom(p)
               \/ ScheduleAdvance(p) \/ CancelAdvance(p) \/ ReadPlaybackState(p) \/ SetRoomLive(p)
               \/ ReadReport(p) \/ VerifyEnd(p) \/ LearnDuration(p) \/ ReadIndex(p) \/ WriteIndex(p)
        PROVE  nowPlaying' = nowPlaying /\ torn' = torn
    BY <2>4 DEF DebounceAdvance, FindHub, PopNextTrack, WhichRoom, ScheduleAdvance, CancelAdvance,
                ReadPlaybackState, SetRoomLive, ReadReport, VerifyEnd, LearnDuration, ReadIndex,
                WriteIndex, storeVars, history
  <2>5. ASSUME \/ UpsertAutoplayTrack(p) \/ SetRoomAutoplay(p) \/ FindPlaylist(p) \/ ActivateStagedPlaylist(p)
               \/ ListRoom(p) \/ StartRoom(p) \/ ReadIdleness(p) \/ JudgeIdle(p) \/ Untrack(p)
        PROVE  nowPlaying' = nowPlaying /\ torn' = torn
    BY <2>5 DEF UpsertAutoplayTrack, SetRoomAutoplay, FindPlaylist, ActivateStagedPlaylist, ListRoom,
                StartRoom, ReadIdleness, JudgeIdle, Untrack, storeVars, history
  <2> HIDE DEF h
  <2>6. h \notin {"now", "clearnow"} => nowPlaying' = nowPlaying
    BY <1>2, <2>2, <2>3, <2>4, <2>5 DEF Step
  <2>7. h \notin {"now", "state", "clearnow", "clearstate", "save"} => torn' = torn
    BY <1>2, <2>2, <2>3, <2>4, <2>5 DEF Step
  <2> QED
    BY <2>1, <2>6, <2>7 DEF h
<1> QED
  BY <1>1, <1>2

\* The goroutines that p leaves as they are.
LEMMA PairOthers ==
  ASSUME TypeOK, TasksOK, PairInv, NEW p \in Procs, Step(p) \/ CallFails(p), NEW q \in Procs \ {p}
  PROVE  /\ Paired(task'[q].todo)
         /\ HalfList(task'[q].todo) <=> HalfList(task[q].todo)
         /\ SaveList(task'[q].todo) <=> SaveList(task[q].todo)
         /\ HalfList(task'[q].todo) \/ SaveList(task'[q].todo) => task'[q] = task[q]
<1>1. CASE task'[q] = task[q]
  BY <1>1 DEF PairInv
<1>2. CASE task[q].todo = <<>> /\ task'[q].todo = AdvanceTrack
  BY <1>2, WholeLists DEF Whole
<1> QED
  BY <1>1, <1>2, NextList

\* What p's call leaves of p's list: one of its own kind, or a list that begins.
LEMMA PairOwn ==
  ASSUME TypeOK, TasksOK, PairInv, NEW p \in Procs, Step(p) \/ CallFails(p)
  PROVE  /\ task[p].todo # <<>> /\ task[p].todo \in Seq(Calls) /\ Paired(task'[p].todo)
         /\ task'[p].todo = Tail(task[p].todo) \/ Whole(task'[p].todo)
<1>1. task[p].todo # <<>> /\ task[p].todo \in Seq(Calls)
  BY StepGoesOn, FailGoesOn
<1>2. Paired(Tail(task[p].todo))
  BY <1>1, PairedTail DEF PairInv
<1>3. \/ task'[p].todo = Tail(task[p].todo)
      \/ Turns(Head(task[p].todo), task'[p].todo)
      \/ task'[p].todo = AdvanceTrack
  BY NextList
<1>4. Turns(Head(task[p].todo), task'[p].todo) => Whole(task'[p].todo)
  BY WholeLists DEF Turns
<1>5. task'[p].todo = Tail(task[p].todo) \/ Whole(task'[p].todo)
  BY <1>3, <1>4, WholeLists
<1> QED
  BY <1>1, <1>2, <1>5 DEF Whole

\* The list of p's that a call leaves, when it is one of the writes.
LEMMA HalfTail ==
  ASSUME TypeOK, TasksOK, PairInv, NEW p \in Procs, task[p].todo # <<>>, task[p].todo \in Seq(Calls)
  PROVE  LET cs == task[p].todo
             h == Head(cs)
             t == Tail(cs)
         IN  /\ h \in {"now", "state", "clearnow", "clearstate"} =>
                   ~SaveList(cs) /\ ~SaveList(t) /\ ~Has(t, h)
             /\ h = "now" => /\ ~HalfList(cs) /\ Has(t, "state") /\ ~Has(t, "clearnow") /\ ~Has(t, "clearstate")
             /\ h = "state" => ~Has(cs, "now") /\ HalfList(cs) /\ ~HalfList(t)
             /\ h = "clearnow" =>
                   /\ ~Has(t, "state")
                   /\ IF Has(t, "clearstate") THEN ~HalfList(cs) ELSE HalfList(cs) /\ ~HalfList(t)
             /\ h = "clearstate" =>
                   /\ ~Has(t, "state")
                   /\ IF Has(t, "clearnow") THEN ~HalfList(cs) ELSE HalfList(cs) /\ ~HalfList(t)
             /\ h = "save" => SaveList(cs) /\ ~HalfList(cs) /\ t = <<>>
             /\ h = "live" => /\ ~SaveList(cs) /\ ~SaveList(t) /\ (HalfList(t) <=> HalfList(cs))
                              /\ HalfList(t) => Has(cs, "state") /\ ~Has(cs, "now")
                              /\ ~Has(t, "clearnow") /\ ~Has(t, "clearstate")
             /\ h \notin {"now", "state", "clearnow", "clearstate", "save", "live"} =>
                   /\ ~HalfList(cs) /\ ~HalfList(t) /\ ~SaveList(cs)
                   /\ SaveList(t) => h \in {"pause", "resume"}
<1> DEFINE cs == task[p].todo
           h == Head(cs)
           t == Tail(cs)
<1>1. \A call : Has(cs, call) <=> h = call \/ Has(t, call)
  BY TailHas
<1>2. Paired(cs)
  BY DEF PairInv
<1>3. /\ h = "now" => Has(t, "state") /\ ~Has(t, "now")
      /\ h = "state" => ~Has(t, "state") /\ ~Has(t, "now")
      /\ \A call \in {"now", "state"} :
            Has(cs, call) => /\ ~Has(cs, "clearnow") /\ ~Has(cs, "clearstate") /\ ~Has(cs, "save")
                             /\ ~Has(cs, "pause") /\ ~Has(cs, "resume")
      /\ \A call \in {"clearnow", "clearstate"} :
            /\ Has(cs, call) => ~Has(cs, "save") /\ ~Has(cs, "pause") /\ ~Has(cs, "resume")
            /\ h = call => ~Has(t, call)
      /\ h = "save" => t = <<>>
      /\ h = "live" => ~Has(t, "clearnow") /\ ~Has(t, "clearstate") /\ ~Has(t, "save")
      /\ h \notin {"now", "state", "clearnow", "clearstate", "save", "live"} =>
            /\ Has(t, "state") => Has(t, "now")
            /\ Has(t, "clearnow") <=> Has(t, "clearstate")
            /\ Has(t, "save") => h \in {"pause", "resume"}
  BY <1>2, PairedTail
<1>4. t = <<>> => \A call : ~Has(t, call)
  BY DEF Has
<1> HIDE DEF cs, h, t
<1>6. h \in {"now", "state"} => /\ ~Has(cs, "clearnow") /\ ~Has(cs, "clearstate") /\ ~Has(cs, "save")
                                /\ Has(cs, "now") \/ Has(cs, "state")
  BY <1>1, <1>3
<1>7. h \in {"clearnow", "clearstate"} => /\ ~Has(cs, "save") /\ ~Has(cs, "now") /\ ~Has(cs, "state")
                                          /\ Has(cs, h)
  BY <1>1, <1>3
<1>8. /\ h = "clearnow" => ~Has(t, "clearnow")
      /\ h = "clearstate" => ~Has(t, "clearstate")
  BY <1>3
<1>9. h = "save" => /\ ~Has(cs, "now") /\ ~Has(cs, "state") /\ ~Has(cs, "clearnow") /\ ~Has(cs, "clearstate")
                    /\ ~Has(cs, "pause") /\ ~Has(cs, "resume") /\ Has(cs, "save")
  BY <1>1, <1>3, <1>4
<1>10. h \in {"now", "state", "clearnow", "clearstate"} => ~SaveList(cs) /\ ~SaveList(t) /\ ~Has(t, h)
  BY <1>1, <1>3, <1>6, <1>7, <1>8 DEF SaveList
<1>11. h = "now" => /\ ~HalfList(cs) /\ Has(t, "state") /\ ~Has(t, "clearnow") /\ ~Has(t, "clearstate")
  BY <1>1, <1>3, <1>6 DEF HalfList
<1>12. h = "state" => ~Has(cs, "now") /\ HalfList(cs) /\ ~HalfList(t)
  BY <1>1, <1>3, <1>6 DEF HalfList
<1>13. h = "clearnow" =>
          /\ ~Has(t, "state")
          /\ IF Has(t, "clearstate") THEN ~HalfList(cs) ELSE HalfList(cs) /\ ~HalfList(t)
  BY <1>1, <1>7, <1>8 DEF HalfList
<1>14. h = "clearstate" =>
          /\ ~Has(t, "state")
          /\ IF Has(t, "clearnow") THEN ~HalfList(cs) ELSE HalfList(cs) /\ ~HalfList(t)
  BY <1>1, <1>7, <1>8 DEF HalfList
<1>15. h = "save" => SaveList(cs) /\ ~HalfList(cs) /\ t = <<>>
  BY <1>3, <1>9 DEF SaveList, HalfList
<1>16. h = "live" => /\ ~SaveList(cs) /\ ~SaveList(t) /\ (HalfList(t) <=> HalfList(cs))
                     /\ HalfList(t) => Has(cs, "state") /\ ~Has(cs, "now")
                     /\ ~Has(t, "clearnow") /\ ~Has(t, "clearstate")
  BY <1>1, <1>3 DEF SaveList, HalfList
<1>17. h \notin {"now", "state", "clearnow", "clearstate", "save", "live"} =>
          /\ ~HalfList(cs) /\ ~HalfList(t) /\ ~SaveList(cs)
          /\ SaveList(t) => h \in {"pause", "resume"}
  <2> SUFFICES ASSUME h \notin {"now", "state", "clearnow", "clearstate", "save", "live"}
               PROVE  /\ ~HalfList(cs) /\ ~HalfList(t) /\ ~SaveList(cs)
                      /\ SaveList(t) => h \in {"pause", "resume"}
    OBVIOUS
  <2>1. \A call \in {"now", "state", "clearnow", "clearstate", "save"} : Has(cs, call) <=> Has(t, call)
    BY <1>1
  <2>2. ~HalfList(t)
    BY <1>3 DEF HalfList
  <2>3. ~HalfList(cs)
    BY <1>3, <2>1 DEF HalfList
  <2>4. Has(t, "save") => h \in {"pause", "resume"}
    BY <1>3
  <2>5. Has(cs, "save") => Has(cs, "pause") \/ Has(cs, "resume")
    BY <1>1, <2>1, <2>4
  <2> QED
    BY <2>2, <2>3, <2>4, <2>5 DEF SaveList
<1> QED
  BY <1>10, <1>11, <1>12, <1>13, <1>14, <1>15, <1>16, <1>17 DEF cs, h, t

\* A step that writes neither of the two and leaves p's half as it is.
LEMMA PairFrame ==
  ASSUME TypeOK, TasksOK, PairInv, NEW p \in Procs, Step(p) \/ CallFails(p),
         torn' = torn, nowPlaying' = nowPlaying, playback' = playback,
         HalfList(task'[p].todo) <=> HalfList(task[p].todo), ~torn => Agrees(task[p])'
  PROVE  PairInv'
<1>1. \A q \in Procs : Paired(task'[q].todo)
  BY PairOthers, PairOwn
<1>2. \A q \in Procs : HalfList(task'[q].todo) <=> HalfList(task[q].todo)
  BY PairOthers
<1>3. ASSUME ~torn, NEW q \in Procs PROVE Agrees(task[q])'
  <2>1. CASE q = p
    BY <1>3, <2>1
  <2>2. CASE q # p /\ task'[q] = task[q]
    <3>1. Agrees(task[q])
      BY <1>3 DEF PairInv
    <3> QED
      BY <2>2, <3>1 DEF Agrees
  <2>3. CASE q # p /\ task'[q] # task[q]
    <3>1. ~HalfList(task'[q].todo) /\ ~SaveList(task'[q].todo)
      BY <2>3, PairOthers
    <3> QED
      BY <3>1 DEF Agrees, HalfList
  <2> QED
    BY <2>1, <2>2, <2>3
<1>4. ASSUME ~torn
      PROVE  /\ \A q, r \in Procs : HalfList(task'[q].todo) /\ HalfList(task'[r].todo) => q = r
             /\ (\A q \in Procs : ~HalfList(task'[q].todo)) => nowPlaying' = playback'.track
  <2>1. /\ \A q, r \in Procs : HalfList(task[q].todo) /\ HalfList(task[r].todo) => q = r
        /\ (\A q \in Procs : ~HalfList(task[q].todo)) => nowPlaying = playback.track
    BY <1>4 DEF PairInv
  <2> QED
    BY <1>2, <2>1
<1> QED
  BY <1>1, <1>3, <1>4 DEF PairInv

\* A step that writes one of the two, alone.
LEMMA PairWrite ==
  ASSUME TypeOK, TasksOK, PairInv, NEW p \in Procs, Step(p), Writes(p),
         /\ (~torn \/ (~HalfList(task[p].todo) /\ ~SaveList(task[p].todo)))
         /\ (\A q \in Procs \ {p} : ~HalfList(task[q].todo))
         => Agrees(task[p])' /\ (~HalfList(task'[p].todo) => nowPlaying' = playback'.track)
  PROVE  PairInv'
<1>1. \A q \in Procs : Paired(task'[q].todo)
  BY PairOthers, PairOwn
<1> SUFFICES ASSUME ~torn'
             PROVE  /\ \A q \in Procs : Agrees(task[q])'
                    /\ \A q, r \in Procs : HalfList(task'[q].todo) /\ HalfList(task'[r].todo) => q = r
                    /\ (\A q \in Procs : ~HalfList(task'[q].todo)) => nowPlaying' = playback'.track
  BY <1>1 DEF PairInv
<1>2. (\A q \in Procs \ {p} : ~HalfWay(q)) /\ (~torn \/ ~HalfWay(p))
  BY DEF Writes
<1>3. \A q \in Procs \ {p} : ~HalfList(task'[q].todo) /\ ~SaveList(task'[q].todo)
  BY <1>2, HalfIs, PairOthers
<1>a. \A q \in Procs \ {p} : ~HalfList(task[q].todo)
  BY <1>2, HalfIs
<1>4. Agrees(task[p])' /\ (~HalfList(task'[p].todo) => nowPlaying' = playback'.track)
  BY <1>2, <1>a, HalfIs
<1>5. ASSUME NEW q \in Procs \ {p} PROVE Agrees(task[q])'
  BY <1>3 DEF Agrees, HalfList
<1>6. \A q \in Procs : Agrees(task[q])'
  BY <1>4, <1>5
<1> QED
  BY <1>3, <1>4, <1>6

\* A call that writes neither of the two.
LEMMA PairElse ==
  ASSUME TypeOK, TasksOK, PairInv, NEW p \in Procs, Step(p) \/ CallFails(p),
         Head(task[p].todo) \notin {"now", "state", "clearnow", "clearstate", "save"}
  PROVE  PairInv'
<1> DEFINE cs == task[p].todo
           h == Head(cs)
           t == Tail(cs)
           fields == {"todo", "ps", "length", "index"}
<1>0. /\ nowPlaying' = nowPlaying /\ playback' = playback /\ torn' = torn
      /\ cs # <<>> /\ cs \in Seq(Calls) /\ DOMAIN task[p] = fields
      /\ task[p] \in Tasks /\ playback \in States
  <2>1. task[p] \in Tasks /\ playback \in States
    BY StoreTyped
  <2> QED
    BY <2>1, LeavesBoth, PairOwn DEF Tasks
<1>1. CASE h = "live"
  <2>1. Done(p)
    <3>1. Step(p) => SetRoomLive(p)
      BY <1>1, ByCall
    <3>2. CallFails(p) => Done(p)
      BY <1>1, AtMeans DEF CallFails, GivesUp, GoesOnWithout
    <3> QED
      BY <3>1, <3>2 DEF SetRoomLive
  <2>2. task'[p].todo = t /\ (t # <<>> => task'[p].ps = task[p].ps)
    BY <2>1, DoneMeans
  <2>3. \A call : ~Has(<<>>, call)
    BY DEF Has
  <2>4. /\ ~SaveList(cs) /\ ~SaveList(t) /\ (HalfList(t) <=> HalfList(cs))
        /\ HalfList(t) => Has(cs, "state") /\ ~Has(cs, "now")
        /\ ~Has(t, "clearnow") /\ ~Has(t, "clearstate")
    BY <1>0, <1>1, HalfTail
  <2>5. ASSUME Agrees(task[p]) PROVE Agrees(task[p])'
    <3>1. HalfList(t) => t # <<>> /\ nowPlaying = task[p].ps.track
      BY <2>3, <2>4, <2>5 DEF Agrees, HalfList
    <3>2. HalfList(t) => nowPlaying' = task'[p].ps.track
      BY <1>0, <2>2, <3>1
    <3>3. Has(t, "state") /\ ~Has(t, "now") => HalfList(t)
      BY DEF HalfList
    <3> HIDE DEF cs, h, t
    <3> QED
      BY <2>2, <2>4, <3>2, <3>3 DEF Agrees
  <2>6. ~torn => Agrees(task[p])
    BY DEF PairInv
  <2> QED
    BY <1>0, <2>2, <2>4, <2>5, <2>6, PairFrame
<1>2. CASE h # "live"
  <2>1. /\ ~HalfList(cs) /\ ~HalfList(t) /\ ~SaveList(cs)
        /\ SaveList(t) => h \in {"pause", "resume"}
    BY <1>0, <1>2, HalfTail
  <2>2. ~HalfList(task'[p].todo) /\ (SaveList(task'[p].todo) => task'[p].todo = t /\ SaveList(t))
    BY <2>1, PairOwn DEF Whole
  <2>3. ASSUME SaveList(t), task'[p].todo = t, h \in {"pause", "resume"}
        PROVE  task'[p].ps.track = playback'.track
    <3>0. t # <<>>
      BY <2>3 DEF SaveList, Has
    <3>1. ~CallFails(p)
      <4>1. CallFails(p) => Return(p)
        BY <1>2, <2>3, AtMeans DEF CallFails, GoesOnWithout, Ignored
      <4> QED
        BY <2>3, <3>0, <4>1, ReturnMeans
    <3>2. ReadPlaybackState(p)
      BY <2>3, <3>1, ByCall
    <3> DEFINE paused == [playback EXCEPT !.playing = FALSE, !.pos = playback.age]
               resumed == [playback EXCEPT !.playing = TRUE, !.age = playback.pos]
    <3>3. paused.track = playback.track /\ resumed.track = playback.track
      BY <1>0 DEF States
    <3>4. \A x : DOMAIN [task[p] EXCEPT !.ps = x] = fields /\ [task[p] EXCEPT !.ps = x].ps = x
      BY <1>0
    <3>5. \/ Return(p)
          \/ GoOn(p, t, [task[p] EXCEPT !.ps = paused])
          \/ GoOn(p, t, [task[p] EXCEPT !.ps = resumed])
      BY <3>2 DEF ReadPlaybackState
    <3> HIDE DEF paused, resumed, t
    <3>6. ~Return(p)
      BY <2>3, <3>0, ReturnMeans
    <3>7. ASSUME NEW x, GoOn(p, t, [task[p] EXCEPT !.ps = x]) PROVE task'[p].ps = x
      <4> DEFINE m == [task[p] EXCEPT !.ps = x]
      <4>1. DOMAIN m = {"todo", "ps", "length", "index"} /\ m.ps = x /\ GoOn(p, t, m)
        BY <3>4, <3>7
      <4> HIDE DEF m
      <4> QED
        BY <3>0, <4>1, GoOnMeans
    <3> QED
      BY <1>0, <3>3, <3>5, <3>6, <3>7
  <2>4. Agrees(task[p])'
    <3>1. SaveList(task'[p].todo) => task'[p].ps.track = playback'.track
      BY <2>1, <2>2, <2>3
    <3> HIDE DEF cs, h, t
    <3> QED
      BY <2>2, <3>1 DEF Agrees, HalfList
  <2> QED
    BY <1>0, <2>1, <2>2, <2>4, PairFrame
<1> QED
  BY <1>1, <1>2

\* The writes.
LEMMA PairStep ==
  ASSUME TypeOK, TasksOK, PairInv, NEW p \in Procs, Step(p),
         Head(task[p].todo) \in {"now", "state", "clearnow", "clearstate", "save"}
  PROVE  PairInv'
<1> DEFINE cs == task[p].todo
           h == Head(cs)
           t == Tail(cs)
           fields == {"todo", "ps", "length", "index"}
<1>0. /\ cs # <<>> /\ cs \in Seq(Calls) /\ task[p] \in Tasks /\ DOMAIN task[p] = fields
      /\ \A call : ~Has(<<>>, call)
      /\ ~torn => Agrees(task[p])
  <2>1. task[p] \in Tasks
    BY StoreTyped
  <2>2. \A call : ~Has(<<>>, call)
    BY DEF Has
  <2> QED
    BY <2>1, <2>2, PairOwn DEF Tasks, PairInv
<1>1. /\ h \in {"now", "state", "clearnow", "clearstate"} => ~SaveList(cs) /\ ~SaveList(t) /\ ~Has(t, h)
      /\ h = "now" => /\ ~HalfList(cs) /\ Has(t, "state") /\ ~Has(t, "clearnow") /\ ~Has(t, "clearstate")
      /\ h = "state" => ~Has(cs, "now") /\ HalfList(cs) /\ ~HalfList(t)
      /\ h = "clearnow" =>
            /\ ~Has(t, "state")
            /\ IF Has(t, "clearstate") THEN ~HalfList(cs) ELSE HalfList(cs) /\ ~HalfList(t)
      /\ h = "clearstate" =>
            /\ ~Has(t, "state")
            /\ IF Has(t, "clearnow") THEN ~HalfList(cs) ELSE HalfList(cs) /\ ~HalfList(t)
      /\ h = "save" => SaveList(cs) /\ ~HalfList(cs) /\ t = <<>>
  BY <1>0, HalfTail
<1>2. \A call : Has(cs, call) <=> h = call \/ Has(t, call)
  BY <1>0, TailHas
<1>3. ASSUME Done(p)
      PROVE  task'[p].todo = t /\ (t # <<>> => task'[p].ps = task[p].ps)
  BY <1>3, DoneMeans
<1>4. CASE h = "now"
  <2>1. SetNowPlaying(p)
    BY <1>4, ByCall
  <2>2. nowPlaying' = task[p].ps.track /\ Done(p) /\ Writes(p)
    BY <2>1 DEF SetNowPlaying
  <2>3. /\ task'[p].todo = t /\ task'[p].ps = task[p].ps
    BY <1>0, <1>1, <1>3, <1>4, <2>2
  <2>4. Has(t, "state") /\ ~Has(t, "now") /\ ~Has(t, "clearnow") /\ ~Has(t, "clearstate") /\ ~SaveList(t)
    BY <1>1, <1>4
  <2> HIDE DEF cs, h, t
  <2>5. Agrees(task[p])' /\ HalfList(task'[p].todo)
    BY <2>2, <2>3, <2>4 DEF Agrees, HalfList
  <2>6. HalfList(task'[p].todo) /\ Writes(p)
    BY <2>2, <2>5
  <2> QED
    BY <2>5, <2>6, PairWrite
<1>5. CASE h = "state"
  <2>1. SetPlaybackState(p)
    BY <1>5, ByCall
  <2>2. /\ playback' = Playing(task[p].ps.track) /\ nowPlaying' = nowPlaying /\ Writes(p)
        /\ GoOn(p, t, [task[p] EXCEPT !.ps = Playing(task[p].ps.track)])
    BY <2>1 DEF SetPlaybackState
  <2>3. task'[p].todo = t
    <3>1. \A x : DOMAIN [task[p] EXCEPT !.ps = x] = fields
      BY <1>0
    <3> HIDE DEF cs, h, t
    <3> QED
      BY <2>2, <3>1, GoOnMeans
  <2>4. playback'.track = task[p].ps.track
    BY <2>2 DEF Playing
  <2>5. ~HalfList(t) /\ ~SaveList(t) /\ HalfList(cs) /\ Has(cs, "state") /\ ~Has(cs, "now")
    BY <1>1, <1>2, <1>5
  <2> HIDE DEF h, t
  <2>6. Agrees(task[p])'
    BY <2>3, <2>5 DEF Agrees, HalfList
  <2>7. ~torn => nowPlaying' = playback'.track
    BY <1>0, <2>2, <2>4, <2>5 DEF Agrees
  <2> QED
    BY <2>2, <2>5, <2>6, <2>7, PairWrite
<1>6. CASE h = "clearnow"
  <2>1. ClearNowPlaying(p)
    BY <1>6, ByCall
  <2>2. nowPlaying' = NoTrack /\ playback' = playback /\ Done(p) /\ Writes(p)
    BY <2>1 DEF ClearNowPlaying
  <2>3. task'[p].todo = t
    BY <1>3, <2>2
  <2>4. ~Has(t, "clearnow") /\ ~Has(t, "state") /\ ~SaveList(t)
        /\ IF Has(t, "clearstate") THEN ~HalfList(cs) ELSE HalfList(cs) /\ ~HalfList(t)
    BY <1>1, <1>6
  <2>5. Has(cs, "clearnow") /\ (Has(cs, "clearstate") <=> Has(t, "clearstate"))
    BY <1>2, <1>6
  <2> HIDE DEF h, t
  <2>6. Agrees(task[p])'
    BY <2>2, <2>3, <2>4 DEF Agrees
  <2>7. ~torn /\ ~HalfList(t) => nowPlaying' = playback'.track
    BY <1>0, <2>2, <2>4, <2>5 DEF Agrees, HalfList
  <2>8. ~HalfList(t) => HalfList(cs)
    BY <2>4 DEF HalfList
  <2> QED
    BY <2>2, <2>3, <2>6, <2>7, <2>8, PairWrite
<1>7. CASE h = "clearstate"
  <2>1. ClearPlaybackState(p)
    BY <1>7, ByCall
  <2>2. playback'.track = NoTrack /\ nowPlaying' = nowPlaying /\ Done(p) /\ Writes(p)
    BY <2>1 DEF ClearPlaybackState, Nothing
  <2>3. task'[p].todo = t
    BY <1>3, <2>2
  <2>4. ~Has(t, "clearstate") /\ ~Has(t, "state") /\ ~SaveList(t)
        /\ IF Has(t, "clearnow") THEN ~HalfList(cs) ELSE HalfList(cs) /\ ~HalfList(t)
    BY <1>1, <1>7
  <2>5. Has(cs, "clearstate") /\ (Has(cs, "clearnow") <=> Has(t, "clearnow"))
    BY <1>2, <1>7
  <2> HIDE DEF h, t
  <2>6. Agrees(task[p])'
    BY <2>2, <2>3, <2>4 DEF Agrees
  <2>7. ~torn /\ ~HalfList(t) => nowPlaying' = playback'.track
    BY <1>0, <2>2, <2>4, <2>5 DEF Agrees, HalfList
  <2>8. ~HalfList(t) => HalfList(cs)
    BY <2>4 DEF HalfList
  <2> QED
    BY <2>2, <2>3, <2>6, <2>7, <2>8, PairWrite
<1>8. CASE h = "save"
  <2>1. SavePlaybackState(p)
    BY <1>8, ByCall
  <2>2. playback' = task[p].ps /\ nowPlaying' = nowPlaying /\ Done(p) /\ Writes(p)
    BY <2>1 DEF SavePlaybackState
  <2>3. task'[p].todo = <<>> /\ SaveList(cs) /\ ~HalfList(cs)
    BY <1>1, <1>3, <1>8, <2>2
  <2> HIDE DEF h, t
  <2>4. ~HalfList(<<>>) /\ ~SaveList(<<>>)
    BY <1>0 DEF HalfList, SaveList
  <2>5. Agrees(task[p])'
    BY <1>0, <2>3 DEF Agrees, SaveList
  <2>6. ~torn => task[p].ps.track = playback.track
    BY <1>0, <2>3 DEF Agrees
  <2>7. ASSUME ~torn, \A q \in Procs \ {p} : ~HalfList(task[q].todo)
        PROVE  nowPlaying' = playback'.track
    <3>1. \A q \in Procs : ~HalfList(task[q].todo)
      BY <2>3, <2>7
    <3>2. nowPlaying = playback.track
      BY <2>7, <3>1 DEF PairInv
    <3> QED
      BY <2>2, <2>6, <2>7, <3>2
  <2> QED
    BY <2>2, <2>3, <2>5, <2>7, PairWrite
<1> QED
  BY <1>4, <1>5, <1>6, <1>7, <1>8

\* A write that fails.
LEMMA PairFail ==
  ASSUME TypeOK, TasksOK, PairInv, NEW p \in Procs, CallFails(p)
  PROVE  PairInv'
<1> DEFINE h == Head(task[p].todo)
<1>1. CASE h \notin {"now", "state", "clearnow", "clearstate", "save"}
  BY <1>1, PairElse
<1>2. CASE h \in {"now", "state", "clearnow", "clearstate"}
  <2>1. torn'
    BY <1>2, FailWrites
  <2>2. \A q \in Procs : Paired(task'[q].todo)
    BY PairOthers, PairOwn
  <2> QED
    BY <2>1, <2>2 DEF PairInv
<1>3. CASE h = "save"
  <2>1. Done(p)
    BY <1>3, AtMeans DEF CallFails, GivesUp, GoesOnWithout
  <2>2. SaveList(task[p].todo) /\ ~HalfList(task[p].todo) /\ Tail(task[p].todo) = <<>>
    BY <1>3, HalfTail, PairOwn
  <2>3. task'[p].todo = <<>>
    BY <2>1, <2>2, DoneMeans
  <2>4. ~HalfList(<<>>) /\ ~SaveList(<<>>)
    BY DEF HalfList, SaveList, Has
  <2>5. Agrees(task[p])'
    BY <2>3, <2>4 DEF Agrees, HalfList
  <2>6. torn' = torn
    <3>1. torn' = (torn \/ \E call \in {"now", "state", "clearnow", "clearstate"} : At(p, call))
      BY DEF CallFails
    <3>2. ~\E call \in {"now", "state", "clearnow", "clearstate"} : At(p, call)
      BY <1>3 DEF At
    <3> QED
      BY <3>1, <3>2 DEF TypeOK
  <2> QED
    BY <2>2, <2>3, <2>4, <2>5, <2>6, FailMeans, PairFrame
<1> QED
  BY <1>1, <1>2, <1>3

\* A goroutine that begins.
LEMMA PairBegin ==
  ASSUME TypeOK, PairInv, NEW p \in Procs, UNCHANGED <<nowPlaying, playback, torn>>,
         task[p].todo = <<>>, Whole(task'[p].todo), \A q \in Procs \ {p} : task'[q] = task[q]
  PROVE  PairInv'
<1>1. \A q \in Procs : Paired(task'[q].todo)
  BY DEF PairInv, Whole
<1>2. ~HalfList(<<>>) /\ ~SaveList(<<>>)
  BY WholeLists DEF Whole
<1>3. \A q \in Procs : HalfList(task'[q].todo) <=> HalfList(task[q].todo)
  BY <1>2 DEF Whole
<1>4. ASSUME ~torn, NEW q \in Procs PROVE Agrees(task[q])'
  <2>1. CASE q = p
    BY <2>1 DEF Agrees, Whole, HalfList
  <2>2. CASE q # p
    <3>1. Agrees(task[q])
      BY <1>4 DEF PairInv
    <3> QED
      BY <2>2, <3>1 DEF Agrees
  <2> QED
    BY <2>1, <2>2
<1> QED
  BY <1>1, <1>3, <1>4 DEF PairInv

LEMMA PairNext ==
  ASSUME TypeOK, TasksOK, PairInv, [Next]_vars
  PROVE  PairInv'
<1>1. ASSUME NEW p \in Procs, Step(p) \/ CallFails(p) PROVE PairInv'
  BY <1>1, PairElse, PairStep, PairFail
<1>2. ASSUME NEW p \in Procs, Begin(p) PROVE PairInv'
  <2>1. Whole(task'[p].todo)
    BY <1>2, BeginList, WholeActions, WholeHandlers
  <2>2. /\ task[p].todo = <<>> /\ \A q \in Procs \ {p} : task'[q] = task[q]
        /\ UNCHANGED <<nowPlaying, playback, torn>>
    BY <1>2, BeginList DEF storeVars, history
  <2> QED
    BY <2>1, <2>2, PairBegin
<1>3. ASSUME NEW p \in Procs, FireTimer(p) PROVE PairInv'
  <2>1. GoOn(p, AdvanceTrack, Idle) /\ task[p].todo = <<>> /\ UNCHANGED <<nowPlaying, playback, torn>>
    BY <1>3 DEF FireTimer, Free, storeVars, history
  <2>2. \A q \in Procs : IF q = p THEN task'[q].todo = AdvanceTrack ELSE task'[q] = task[q]
    BY <2>1, IdleTyped, NewList
  <2> QED
    BY <2>1, <2>2, PairBegin, WholeLists
<1>4. CASE CheckIdle
  <2>1. /\ GoOn(Monitor, IdleCheck, Idle) /\ task[Monitor].todo = <<>> /\ Monitor \in Procs
        /\ UNCHANGED <<nowPlaying, playback, torn>>
    BY <1>4 DEF CheckIdle, Free, storeVars, history, Procs
  <2>2. \A q \in Procs : IF q = Monitor THEN task'[q].todo = IdleCheck ELSE task'[q] = task[q]
    BY <2>1, IdleTyped, NewList
  <2> QED
    BY <2>1, <2>2, PairBegin, WholeLists
<1>5. CASE UNCHANGED <<nowPlaying, playback, torn, task>>
  BY <1>5 DEF PairInv, Agrees
<1>6. \A t \in Submitted : Submit(t) => UNCHANGED <<nowPlaying, playback, torn, task>>
  BY DEF Submit, history
<1>7. HubComesAndGoes \/ UNCHANGED vars => UNCHANGED <<nowPlaying, playback, torn, task>>
  BY DEF HubComesAndGoes, vars, storeVars, history
<1>8. CASE Tick
  <2>1. UNCHANGED <<nowPlaying, torn>> /\ playback' = Older(playback)
        /\ task' = [q \in Procs |-> [task[q] EXCEPT !.ps = Older(@)]]
    BY <1>8 DEF Tick, history
  <2>2. playback \in States /\ \A q \in Procs : task[q] \in Tasks
    BY StoreTyped
  <2>3. \A ps \in States : Older(ps).track = ps.track
    BY DEF Older, States
  <2>4. playback'.track = playback.track
    BY <2>1, <2>2, <2>3
  <2>5. \A q \in Procs : task'[q].todo = task[q].todo /\ task'[q].ps.track = task[q].ps.track
    BY <2>1, <2>2, <2>3 DEF Tasks
  <2> QED
    BY <2>1, <2>4, <2>5 DEF PairInv, Agrees
<1>9. CASE Restart
  <2>1. /\ task' = Booting /\ playback' = playback
        /\ torn' = (torn \/ nowPlaying' # nowPlaying \/ \E q \in Procs : HalfWay(q))
    BY <1>9 DEF Restart
  <2>2. \A q \in Procs : Whole(task'[q].todo)
    BY <2>1, BootingLists, WholeLists
  <2>3. ASSUME ~torn' PROVE nowPlaying' = playback'.track
    <3>1. ~torn /\ nowPlaying' = nowPlaying /\ \A q \in Procs : ~HalfWay(q)
      BY <2>1, <2>3
    <3>2. \A q \in Procs : ~HalfList(task[q].todo)
      BY <3>1, HalfIs
    <3> QED
      BY <2>1, <3>1, <3>2 DEF PairInv
  <2> QED
    BY <2>2, <2>3 DEF PairInv, Agrees, Whole, HalfList
<1> QED
  BY <1>1, <1>2, <1>3, <1>4, <1>5, <1>6, <1>7, <1>8, <1>9 DEF Next

LEMMA PairInit == Init => PairInv
<1> SUFFICES ASSUME Init PROVE PairInv
  OBVIOUS
<1>1. nowPlaying = NoTrack /\ playback.track = NoTrack /\ task = Booting
  BY DEF Init, Nothing
<1>2. \A q \in Procs : Whole(task[q].todo)
  BY <1>1, BootingLists, WholeLists
<1> QED
  BY <1>1, <1>2 DEF PairInv, Agrees, Whole, HalfList

\* What the room's page shows is what plays whenever nothing is under way, in every room and
\* through restarts: unless two handlers wrote the two at a time, a write failed or the
\* process died between them, and no handler has written both alone since.
THEOREM NowPlayingAlways == Spec => []NowPlayingIsPlayed
<1>1. TypeOK /\ TasksOK /\ PairInv /\ [Next]_vars => PairInv'
  BY PairNext
<1>2. PairInv => NowPlayingIsPlayed
  <2> SUFFICES ASSUME PairInv, Quiet, ~torn PROVE nowPlaying = playback.track
    BY DEF NowPlayingIsPlayed
  <2>1. \A q \in Procs : ~HalfList(task[q].todo)
    BY DEF Quiet, Free, HalfList, Has
  <2> QED
    BY <2>1 DEF PairInv
<1>3. Spec => []PairInv
  BY <1>1, PairInit, TypeCorrect, PTL DEF Spec
<1> QED
  BY <1>2, <1>3, PTL

-----------------------------------------------------------------------------
(* The end of a track is scheduled *)

\* A list that starts a track goes on to its schedule, past one debounce at most; one that
\* stops the timer goes on to clear the playback state.
Timely(cs) ==
    \A i \in DOMAIN cs :
        /\ cs[i] \in {"debounce", "findhub", "pop", "readindex", "writeindex", "upsert", "now", "state", "live"} =>
              Later(cs, i, "schedule") /\ ~Later(cs, i, "debounce")
        /\ cs[i] \in {"pop", "readindex"} => Later(cs, i, "state")
        /\ cs[i] = "state" => ~Later(cs, i, "state") /\ ~Later(cs, i, "which") /\ ~Later(cs, i, "clearstate")
        /\ cs[i] \in {"schedule", "clearnow"} => i = Len(cs)
        /\ cs[i] = "cancel" => Later(cs, i, "clearstate")
        /\ cs[i] \in {"list", "setautoplay"} => Later(cs, i, "start")
        /\ cs[i] \in {"report", "verify"} => Later(cs, i, "debounce")
        /\ cs[i] \in {"report", "verify", "debounce"} =>
              \A j \in DOMAIN cs : cs[j] \notin {"which", "start", "clearstate"}

\* What main, and what the other goroutines of a simple room (see below) call.
BootCalls == {"list", "setautoplay", "start", "readindex", "writeindex", "upsert", "now", "state", "schedule",
              "clearstate", "clearnow"}
WorkCalls == {"debounce", "findhub", "pop", "which", "readindex", "writeindex", "upsert", "now", "state", "schedule",
              "live", "clearstate", "clearnow", "report", "verify", "unsetautoplay", "cancel"}

\* The rooms EndIsScheduled is about: those that start their tracks over HTTP, and autoplay
\* rooms that are stopped at most.  All tracks of the timed ones get a timer.
Started == room.handlers \subseteq {"GoLive", "submit", "autoplay_track_ended"} /\ \A t \in Submitted : Length[t] > 0
Stopped == room.handlers \subseteq {"autoplay_track_ended", "StopAutoplayRoom"}
Simple  == ~Slow /\ (Started \/ Stopped)
Timed   == Simple /\ room.attended /\ \A t \in Tracks : Length[t] \notin 1..(Debounce - 1)

\* Durations are learned from reports alone.
LearnInv ==
    "report_duration" \notin room.handlers => duration = Length /\ \A p \in Procs : ~Has(task[p].todo, "learn")

\* The calls of p, in a simple room: a worker goes live or stops autoplay, never both.
MayCall(p) ==
    IF p = Main THEN BootCalls
    ELSE IF p \in Workers THEN WorkCalls \ {IF Stopped THEN "live" ELSE "unsetautoplay"} ELSE {}

\* What main does at boot nothing disturbs.
ShapeInv ==
    Simple =>
        /\ (room.attended => hub) /\ (Stopped => live = autoplay) /\ (~Stopped => autoplay = room.autoplay)
        /\ \A p \in Procs : /\ Timely(task[p].todo)
                            /\ \A call \in Calls : Has(task[p].todo, call) => call \in MayCall(p)
        /\ task[Main].todo # <<>> =>
              /\ \A p \in Workers : task[p].todo = <<>>
              /\ ~armed /\ since = Debounce /\ (live => autoplay)
              /\ Head(task[Main].todo) # "list" => autoplay

\* The calls that lead to a schedule follow one another.
Prepared(cs) ==
    \A i \in DOMAIN cs : i > 1 =>
        /\ cs[i] = "now" => cs[i - 1] \in {"pop", "upsert"}
        /\ cs[i] = "state" => cs[i - 1] = "now"
        /\ cs[i] = "live" => cs[i - 1] = "state"
        /\ cs[i] = "schedule" => cs[i - 1] \in {"state", "live"}
        /\ cs[i] = "verify" => cs[i - 1] = "report"
        /\ cs[i] = "debounce" => cs[i - 1] = "verify"
        /\ cs[i] # "readindex"

\* A goroutine that is to schedule a track has its length, and no time has passed since it
\* started it.
Loaded(p, l) ==
    LET h == Head(l.todo)
    IN  l.todo # <<>> =>
            /\ h \in {"now", "state", "live", "schedule"} =>
                  /\ l.ps.track \in Tracks /\ l.length = Length[l.ps.track]
                  /\ Stopped \/ room.autoplay \/ l.length > 0
            /\ h \in {"readindex", "writeindex", "upsert"} => Stopped \/ room.autoplay
            /\ h \in {"live", "schedule"} /\ p # Main => l.ps.age = 0

\* A timer runs out no earlier than the debounce.
LoadInv ==
    /\ Simple => \A p \in Procs : Prepared(task[p].todo) /\ Loaded(p, task[p])
    /\ Timed /\ armed => left + since >= Debounce

\* p will set the timer, or clear what plays.
Covers(p) ==
    LET cs == task[p].todo
    IN  \/ Has(cs, "schedule") /\ ~Has(cs, "debounce")
        \/ Has(cs, "which") \/ Has(cs, "start") \/ Has(cs, "clearstate")
        \/ cs # <<>> /\ Head(cs) = "debounce" /\ since = Debounce

\* The room plays a track whose end is to be scheduled.
Plays == live /\ playback.playing /\ (autoplay \/ Length[playback.track] > 0)

Covered  == armed \/ (\E p \in Procs : Covers(p)) \/ "failed" \in amiss
CoverInv == Timed /\ Plays => Covered

LEMMA TimelyTail ==
  ASSUME NEW cs \in Seq(Calls), cs # <<>>, Timely(cs)
  PROVE  LET h == Head(cs)
             t == Tail(cs)
         IN  /\ Timely(t)
             /\ h \in {"debounce", "findhub", "pop", "readindex", "writeindex", "upsert", "now", "state", "live"} =>
                   Has(t, "schedule") /\ ~Has(t, "debounce")
             /\ h \in {"pop", "readindex"} => Has(t, "state")
             /\ h = "state" => ~Has(t, "state") /\ ~Has(t, "which") /\ ~Has(t, "clearstate")
             /\ h \in {"schedule", "clearnow"} => t = <<>>
             /\ h = "cancel" => Has(t, "clearstate")
             /\ h \in {"list", "setautoplay"} => Has(t, "start")
             /\ h \in {"report", "verify"} => Has(t, "debounce")
             /\ h \in {"report", "verify", "debounce"} =>
                   ~Has(cs, "which") /\ ~Has(cs, "start") /\ ~Has(cs, "clearstate")
<1> DEFINE t == Tail(cs)
<1>0. /\ Tail(cs) \in Seq(Calls) /\ Len(cs) \in Nat \ {0} /\ DOMAIN cs = 1..Len(cs)
      /\ DOMAIN Tail(cs) = 1..(Len(cs) - 1) /\ Len(Tail(cs)) = Len(cs) - 1 /\ Head(cs) = cs[1]
      /\ \A i \in 1..(Len(cs) - 1) : Tail(cs)[i] = cs[i + 1]
  OBVIOUS
<1>a. 1 \in DOMAIN cs
  BY <1>0
<1>b. Len(cs) = 1 => Tail(cs) = <<>>
  BY <1>0
<1>1. /\ t \in Seq(Calls) /\ Len(cs) \in Nat \ {0} /\ DOMAIN cs = 1..Len(cs)
      /\ DOMAIN t = 1..(Len(cs) - 1) /\ Len(t) = Len(cs) - 1 /\ Head(cs) = cs[1] /\ 1 \in DOMAIN cs
      /\ \A i \in 1..(Len(cs) - 1) : t[i] = cs[i + 1]
      /\ Len(cs) = 1 => t = <<>>
  BY <1>0, <1>a, <1>b
<1>2. ASSUME NEW i \in DOMAIN t
      PROVE  /\ t[i] \in {"debounce", "findhub", "pop", "readindex", "writeindex", "upsert", "now", "state", "live"} =>
                   Later(t, i, "schedule") /\ ~Later(t, i, "debounce")
             /\ t[i] \in {"pop", "readindex"} => Later(t, i, "state")
             /\ t[i] = "state" => ~Later(t, i, "state") /\ ~Later(t, i, "which") /\ ~Later(t, i, "clearstate")
             /\ t[i] \in {"schedule", "clearnow"} => i = Len(t)
             /\ t[i] = "cancel" => Later(t, i, "clearstate")
             /\ t[i] \in {"list", "setautoplay"} => Later(t, i, "start")
             /\ t[i] \in {"report", "verify"} => Later(t, i, "debounce")
             /\ t[i] \in {"report", "verify", "debounce"} =>
                   \A j \in DOMAIN t : t[j] \notin {"which", "start", "clearstate"}
  <2>1. i + 1 \in DOMAIN cs /\ t[i] = cs[i + 1] /\ (i + 1 = Len(cs) => i = Len(t))
    BY <1>1
  <2>2. \A call : Later(t, i, call) <=> Later(cs, i + 1, call)
    BY LaterTail
  <2>3. \A j \in DOMAIN t : j + 1 \in DOMAIN cs /\ t[j] = cs[j + 1]
    BY <1>1
  <2> HIDE DEF t
  <2> QED
    BY <2>1, <2>2, <2>3 DEF Timely
<1>3. Timely(t)
  BY <1>2 DEF Timely
<1>4. \A call : Later(cs, 1, call) <=> Has(t, call)
  BY LaterTail
<1>5. /\ cs[1] \in {"debounce", "findhub", "pop", "readindex", "writeindex", "upsert", "now", "state", "live"} =>
             Later(cs, 1, "schedule") /\ ~Later(cs, 1, "debounce")
      /\ cs[1] \in {"pop", "readindex"} => Later(cs, 1, "state")
      /\ cs[1] = "state" => ~Later(cs, 1, "state") /\ ~Later(cs, 1, "which") /\ ~Later(cs, 1, "clearstate")
      /\ cs[1] \in {"schedule", "clearnow"} => 1 = Len(cs)
      /\ cs[1] = "cancel" => Later(cs, 1, "clearstate")
      /\ cs[1] \in {"list", "setautoplay"} => Later(cs, 1, "start")
      /\ cs[1] \in {"report", "verify"} => Later(cs, 1, "debounce")
      /\ cs[1] \in {"report", "verify", "debounce"} => ~Has(cs, "which") /\ ~Has(cs, "start") /\ ~Has(cs, "clearstate")
  BY <1>1 DEF Timely, Has
<1> HIDE DEF t
<1> QED
  BY <1>1, <1>3, <1>4, <1>5 DEF t

LEMMA TimelyLists ==
  /\ Timely(<<>>) /\ Timely(<<"which">>) /\ Timely(<<"schedule">>)
  /\ Timely(AdvanceTrack) /\ Timely(AdvanceAutoplay) /\ Timely(StopPlaying)
  /\ Timely(StartAutoplayRooms)
<1>1. Timely(<<>>) /\ Timely(<<"which">>) /\ Timely(<<"schedule">>)
  BY DEF Timely
<1>2. Timely(StopPlaying)
  BY DEF Timely, StopPlaying
<1>3. Timely(StartAutoplayRooms)
  BY DEF Timely, StartAutoplayRooms, Later
<1>4. Timely(AdvanceTrack)
  BY DEF Timely, AdvanceTrack, Later
<1>5. Timely(AdvanceAutoplay)
  BY DEF Timely, AdvanceAutoplay, Later
<1> QED
  BY <1>1, <1>2, <1>3, <1>4, <1>5

LEMMA TimelyHandlers ==
  /\ Timely(Concurrent["GoLive"]) /\ Timely(Concurrent["StopAutoplayRoom"])
  /\ Timely(Concurrent["autoplay_track_ended"])
<1>1. Timely(<<"now", "state", "live", "schedule">>)
  BY DEF Timely, Later
<1>2. Timely(<<"unsetautoplay", "cancel", "clearstate", "clearnow">>)
  BY DEF Timely, Later
<1>3. Timely(<<"report", "verify">> \o AdvanceTrack)
  <2> DEFINE cs == <<"report", "verify">> \o AdvanceTrack
  <2>1. /\ DOMAIN cs = 1..8 /\ Len(cs) = 8
        /\ cs[1] = "report" /\ cs[2] = "verify" /\ cs[3] = "debounce" /\ cs[4] = "findhub"
        /\ cs[5] = "pop" /\ cs[6] = "now" /\ cs[7] = "state" /\ cs[8] = "schedule"
    BY DEF AdvanceTrack
  <2> HIDE DEF cs
  <2>2. Timely(cs)
    BY <2>1 DEF Timely, Later
  <2> QED
    BY <2>2 DEF cs
<1> QED
  BY <1>1, <1>2, <1>3, HandlersListed

\* Where no length is reported the store has the ones the tracks were submitted with.
LEMMA LearnNext ==
  ASSUME TypeOK, TasksOK, LearnInv, [Next]_vars
  PROVE  LearnInv'
<1>0. room' = room
  BY RoomStays
<1> SUFFICES ASSUME "report_duration" \notin room.handlers
             PROVE  duration' = Length /\ \A q \in Procs : ~Has(task'[q].todo, "learn")
  BY <1>0 DEF LearnInv
<1>1. duration = Length /\ \A q \in Procs : ~Has(task[q].todo, "learn")
  BY DEF LearnInv
<1>2. /\ ~Has(<<>>, "learn") /\ ~Has(<<"which">>, "learn") /\ ~Has(<<"schedule">>, "learn")
      /\ ~Has(<<"untrack">>, "learn") /\ ~Has(AdvanceTrack, "learn") /\ ~Has(AdvanceAutoplay, "learn")
      /\ ~Has(StopPlaying, "learn") /\ ~Has(StartAutoplayRooms, "learn") /\ ~Has(IdleCheck, "learn")
      /\ ~Has(CloseRoom \o <<"untrack">>, "learn")
  BY ListsCall
<1>3. ASSUME NEW p \in Procs, Step(p) \/ CallFails(p)
      PROVE  duration' = Length /\ \A q \in Procs : ~Has(task'[q].todo, "learn")
  <2>1. task[p].todo # <<>> /\ task[p].todo \in Seq(Calls)
    BY <1>3, StepGoesOn, FailGoesOn
  <2>2. ~Has(Tail(task[p].todo), "learn") /\ Head(task[p].todo) # "learn"
    BY <1>1, <2>1, TailHas
  <2>3. ASSUME NEW q \in Procs PROVE ~Has(task'[q].todo, "learn")
    <3>1. Turns(Head(task[p].todo), task'[q].todo) => ~Has(task'[q].todo, "learn")
      BY <1>2 DEF Turns
    <3> QED
      BY <1>1, <1>2, <1>3, <2>2, <3>1, NextList
  <2>a. CallFails(p) => duration' = duration
    BY <2>2, FailWrites
  <2>4. CASE Head(task[p].todo) = "upsert" /\ Step(p)
    <3>1. task[p].ps.track \in Tracks
      BY <2>1, <2>4 DEF TasksOK, TaskOK, Ready
    <3>2. UpsertAutoplayTrack(p)
      BY <1>3, <2>4, ByCall
    <3>3. duration' = [duration EXCEPT ![task[p].ps.track] = Length[task[p].ps.track]]
      BY <1>1, <3>2 DEF UpsertAutoplayTrack
    <3> QED
      BY <1>1, <2>3, <3>1, <3>3, ConstantsOK
  <2>5. CASE Head(task[p].todo) # "upsert" /\ Step(p)
    BY <1>1, <2>2, <2>3, <2>5, WritesOnly
  <2> QED
    BY <1>1, <1>3, <2>3, <2>a, <2>4, <2>5
<1>4. ASSUME NEW p \in Procs, Begin(p)
      PROVE  duration' = Length /\ \A q \in Procs : ~Has(task'[q].todo, "learn")
  <2>1. ASSUME NEW a \in DOMAIN DJActions PROVE ~Has(DJActions[a], "learn")
    <3>1. /\ ~Has(<<"skip", "now", "state">>, "learn") /\ ~Has(<<"golive", "now", "live", "state">>, "learn")
          /\ ~Has(<<"pause", "save">>, "learn") /\ ~Has(<<"resume", "save">>, "learn")
          /\ ~Has(<<"end", "clearnow", "clearstate">>, "learn")
      BY DEF Has
    <3> QED
      BY <3>1, ActionsListed
  <2>2. \A h \in room.handlers \cap DOMAIN Concurrent : ~Has(Concurrent[h], "learn")
    BY HandlersCall, HandlersListed
  <2>3. duration' = duration
    BY <1>4, BeginList DEF storeVars
  <2> QED
    BY <1>1, <1>4, <2>1, <2>2, <2>3, BeginList
<1>5. ASSUME NEW p \in Procs, FireTimer(p)
      PROVE  duration' = Length /\ \A q \in Procs : ~Has(task'[q].todo, "learn")
  <2>1. duration' = duration /\ GoOn(p, AdvanceTrack, Idle)
    BY <1>5 DEF FireTimer, storeVars
  <2> QED
    BY <1>1, <1>2, <2>1, IdleTyped, NewList
<1>6. CASE CheckIdle
  <2>1. duration' = duration /\ GoOn(Monitor, IdleCheck, Idle) /\ Monitor \in Procs
    BY <1>6 DEF CheckIdle, storeVars, Procs
  <2> QED
    BY <1>1, <1>2, <2>1, IdleTyped, NewList
<1>7. CASE \E t \in Submitted : Submit(t)
  BY <1>1, <1>7 DEF Submit
<1>8. CASE HubComesAndGoes
  BY <1>1, <1>8 DEF HubComesAndGoes, storeVars
<1>9. CASE Tick
  BY <1>1, <1>9, TickGives
<1>10. CASE Restart
  <2>1. duration' = duration /\ task' = Booting
    BY <1>10 DEF Restart
  <2>2. \A q \in Procs : Booting[q].todo \in {<<>>, StartAutoplayRooms}
    BY IdleTyped DEF Booting, Tasks
  <2> QED
    BY <1>1, <1>2, <2>1, <2>2
<1>11. CASE UNCHANGED vars
  BY <1>1, <1>11 DEF vars, storeVars
<1> QED
  BY <1>3, <1>4, <1>5, <1>6, <1>7, <1>8, <1>9, <1>10, <1>11 DEF Next

LEMMA LearnInit == Init => LearnInv
<1> SUFFICES ASSUME Init PROVE LearnInv
  OBVIOUS
<1>1. \A q \in Procs : task[q].todo \in {<<>>, StartAutoplayRooms}
  BY BootingLists DEF Init
<1> QED
  BY <1>1, ListsCall DEF Init, LearnInv

\* The queue holds what people submitted.
QueueInv == queue \in Seq(Submitted)

LEMMA QueueNext ==
  ASSUME TypeOK, QueueInv, [Next]_vars
  PROVE  QueueInv'
<1>1. ASSUME NEW p \in Procs, Step(p) PROVE queue' \in Seq(Submitted)
  <2>1. Head(task[p].todo) \notin {"pop", "skip", "golive"} => queue' = queue
    BY <1>1, WritesOnly
  <2>2. ASSUME PopNextTrack(p) PROVE queue' \in Seq(Submitted)
    <3>1. queue' = queue \/ (queue # <<>> /\ queue' = Tail(queue))
      BY <2>2 DEF PopNextTrack
    <3>2. \A s \in Seq(Submitted) : s # <<>> => Tail(s) \in Seq(Submitted)
      OBVIOUS
    <3> QED
      BY <3>1, <3>2 DEF QueueInv
  <2> QED
    BY <1>1, <2>1, <2>2, ByCall DEF QueueInv
<1>5. ASSUME NEW p \in Procs, CallFails(p) PROVE queue' \in Seq(Submitted)
  <2>1. queue' = queue \/ (queue # <<>> /\ queue' = Tail(queue))
    BY <1>5, FailWrites
  <2>2. \A s \in Seq(Submitted) : s # <<>> => Tail(s) \in Seq(Submitted)
    OBVIOUS
  <2> QED
    BY <2>1, <2>2 DEF QueueInv
<1>2. ASSUME NEW t \in Submitted, Submit(t) PROVE queue' \in Seq(Submitted)
  BY <1>2 DEF Submit, QueueInv
<1>3. ASSUME NEW p \in Procs, Begin(p) \/ FireTimer(p) PROVE queue' = queue
  BY <1>3 DEF Begin, FireTimer, storeVars
<1>4. CheckIdle \/ HubComesAndGoes \/ Tick \/ Restart \/ UNCHANGED vars => queue' = queue
  BY DEF CheckIdle, HubComesAndGoes, Tick, Restart, storeVars, vars
<1> QED
  BY <1>1, <1>2, <1>3, <1>4, <1>5 DEF Next, QueueInv

LEMMA QueueInit == Init => QueueInv
<1>1. <<>> \in Seq(Submitted)
  OBVIOUS
<1> QED
  BY <1>1, ConstantsOK DEF Init, QueueInv

LEMMA TimedStays ==
  ASSUME room' = room
  PROVE  /\ (Timed' <=> Timed) /\ (Simple' <=> Simple) /\ (Stopped' <=> Stopped) /\ (Started' <=> Started)
         /\ \A p : MayCall(p)' = MayCall(p)
<1>1. (Stopped' <=> Stopped) /\ (Started' <=> Started)
  BY DEF Stopped, Started
<1>2. (Simple' <=> Simple) /\ (Timed' <=> Timed)
  BY <1>1 DEF Simple, Timed
<1>3. \A p : MayCall(p)' = MayCall(p)
  BY <1>1 DEF MayCall
<1> QED
  BY <1>1, <1>2, <1>3

\* What a list of such a room begins with, and what its goroutine is.
LEMMA ShapeMeans ==
  ASSUME TypeOK, ShapeInv, Simple, NEW p \in Procs, task[p].todo # <<>>
  PROVE  /\ task[p].todo \in Seq(Calls) /\ Timely(task[p].todo)
         /\ Head(task[p].todo) \in MayCall(p) /\ (p = Main \/ p \in Workers)
         /\ \A call \in Calls : Has(Tail(task[p].todo), call) => call \in MayCall(p)
<1>1. task[p].todo \in Seq(Calls) /\ Timely(task[p].todo)
  BY StoreTyped DEF ShapeInv, Tasks
<1>2. Head(task[p].todo) \in Calls /\ Has(task[p].todo, Head(task[p].todo))
  <2>1. Head(task[p].todo) \in Calls
    BY <1>1
  <2> QED
    BY <1>1, <2>1, TailHas
<1>3. Head(task[p].todo) \in MayCall(p)
  BY <1>2 DEF ShapeInv
<1>4. \A call \in Calls : Has(Tail(task[p].todo), call) => call \in MayCall(p)
  BY <1>1, TailHas DEF ShapeInv
<1> QED
  BY <1>1, <1>3, <1>4 DEF MayCall

LEMMA ListsFit ==
  ASSUME TypeOK, TasksOK, ShapeInv, Simple, NEW p \in Procs, Step(p) \/ CallFails(p), NEW q \in Procs
  PROVE  /\ Timely(task'[q].todo)
         /\ \A call \in Calls : Has(task'[q].todo, call) => call \in MayCall(q)
<1> DEFINE h == Head(task[p].todo)
<1>0. task[p].todo # <<>>
  BY StepGoesOn, FailGoesOn
<1>1. /\ task[p].todo \in Seq(Calls) /\ Timely(task[p].todo) /\ h \in MayCall(p) /\ (p = Main \/ p \in Workers)
      /\ \A call \in Calls : Has(Tail(task[p].todo), call) => call \in MayCall(p)
  BY <1>0, ShapeMeans
<1>2. CASE task'[q] = task[q]
  BY <1>2 DEF ShapeInv
<1>3. CASE q = p /\ task'[q].todo = Tail(task[p].todo)
  BY <1>0, <1>1, <1>3, TimelyTail
<1>4. CASE q = p /\ Turns(h, task'[q].todo)
  <2>1. \/ task'[q].todo = <<>>
        \/ q \in Workers /\ task'[q].todo \in {<<"which">>, AdvanceAutoplay, StopPlaying}
        \/ task'[q].todo \in {<<"schedule">>, AdvanceAutoplay, StopPlaying}
    BY <1>1, <1>4 DEF Turns, MayCall, BootCalls, WorkCalls
  <2>2. Timely(task'[q].todo)
    BY <2>1, TimelyLists
  <2>3. {"which", "readindex", "writeindex", "upsert", "now", "state", "schedule", "clearstate", "clearnow"}
           \subseteq WorkCalls \ {"live", "unsetautoplay"}
    BY DEF WorkCalls
  <2>4. {"readindex", "writeindex", "upsert", "now", "state", "schedule", "clearstate", "clearnow"} \subseteq BootCalls
    BY DEF BootCalls
  <2>5. ASSUME NEW call, Has(task'[q].todo, call) PROVE call \in MayCall(q)
    <3>1. \/ q \in Workers /\ call \in {"which", "readindex", "writeindex", "upsert", "now", "state", "schedule",
                                       "clearstate", "clearnow"}
          \/ call \in {"readindex", "writeindex", "upsert", "now", "state", "schedule", "clearstate", "clearnow"}
      BY <2>1, <2>5, ListsCall
    <3>2. q \in Workers => MayCall(q) = WorkCalls \ {IF Stopped THEN "live" ELSE "unsetautoplay"}
      BY ConstantsOK DEF MayCall
    <3>3. q \notin Workers => MayCall(q) = BootCalls
      BY <1>1, <1>4 DEF MayCall
    <3> QED
      BY <2>3, <2>4, <3>1, <3>2, <3>3
  <2> QED
    BY <2>2, <2>5
<1>5. CASE q \in Workers /\ task'[q].todo = AdvanceTrack
  <2>1. {"debounce", "findhub", "pop", "now", "state", "schedule"} \subseteq WorkCalls \ {"live", "unsetautoplay"}
    BY DEF WorkCalls
  <2>2. q # Main
    BY <1>5, ConstantsOK
  <2> QED
    BY <1>5, <2>1, <2>2, TimelyLists, ListsCall DEF MayCall
<1> QED
  BY <1>2, <1>3, <1>4, <1>5, NextList

\* While main is at work, it is the only one.
LEMMA BootStep ==
  ASSUME TypeOK, TasksOK, ShapeInv, Simple, NEW p \in Procs, Step(p) \/ CallFails(p), task'[Main].todo # <<>>
  PROVE  /\ \A q \in Workers : task'[q].todo = <<>>
         /\ ~armed' /\ since' = Debounce /\ (live' => autoplay')
         /\ Head(task'[Main].todo) # "list" => autoplay'
<1> DEFINE h == Head(task[p].todo)
<1>0. task[p].todo # <<>> /\ Main \in Procs /\ Main \notin Workers /\ Workers \subseteq Procs
  BY StepGoesOn, FailGoesOn, ConstantsOK DEF Procs
<1>1. task[p].todo \in Seq(Calls) /\ Timely(task[p].todo) /\ h \in MayCall(p) /\ (p = Main \/ p \in Workers)
  BY <1>0, ShapeMeans
<1>2. p = Main
  <2>1. p # Main => task'[Main] = task[Main]
    BY <1>0, NextList
  <2> QED
    BY <1>0, <1>1, <2>1 DEF ShapeInv
<1>3. /\ \A q \in Workers : task[q].todo = <<>>
      /\ ~armed /\ since = Debounce /\ (live => autoplay) /\ (h # "list" => autoplay)
  BY <1>0, <1>2 DEF ShapeInv
<1>4. h \in BootCalls
  BY <1>1, <1>2 DEF MayCall
<1>5. h # "schedule"
  <2>1. h = "schedule" => Tail(task[p].todo) = <<>>
    BY <1>0, <1>1, TimelyTail
  <2>2. h = "schedule" /\ Turns(h, task'[Main].todo) => task'[Main].todo = <<>>
    BY DEF Turns
  <2> QED
    BY <1>0, <1>2, <2>1, <2>2, NextList
<1>6. \A q \in Workers : task'[q] = task[q]
  BY <1>0, <1>2, <1>5, NextList
<1>7. armed' = armed /\ since' = since
  BY <1>4, <1>5, CallWrites DEF BootCalls
<1>8. CASE h = "setautoplay"
  BY <1>3, <1>6, <1>7, <1>8, CallWrites
<1>9. CASE h # "setautoplay"
  <2>1. live' = live /\ autoplay' = autoplay
    BY <1>4, <1>9, CallWrites DEF BootCalls
  <2>2. h = "list" => autoplay
    <3>1. h = "list" => ListRoom(p) \/ Return(p)
      <4>1. CallFails(p) /\ h = "list" => Return(p)
        BY AtMeans DEF CallFails, GoesOnWithout, Ignored
      <4> QED
        BY <4>1, ByCall
    <3>2. Return(p) => task'[Main].todo = <<>>
      BY <1>2, ReturnMeans
    <3> QED
      BY <3>1, <3>2 DEF ListRoom
  <2> QED
    BY <1>3, <1>6, <1>7, <2>1, <2>2
<1> QED
  BY <1>8, <1>9

LEMMA FlagsFit ==
  ASSUME TypeOK, TasksOK, ShapeInv, Simple, NEW p \in Procs, Step(p) \/ CallFails(p)
  PROVE  (room.attended => hub') /\ (Stopped => live' = autoplay') /\ (~Stopped => autoplay' = room.autoplay)
<1> DEFINE h == Head(task[p].todo)
<1>0. task[p].todo # <<>>
  BY StepGoesOn, FailGoesOn
<1>1. h \in MayCall(p) /\ (p = Main \/ p \in Workers) /\ Main \notin Workers
  BY <1>0, ShapeMeans, ConstantsOK
<1>2. (room.attended => hub) /\ (Stopped => live = autoplay) /\ (~Stopped => autoplay = room.autoplay)
  BY DEF ShapeInv
<1>3. /\ h \notin {"end", "launch"} /\ (Stopped => h # "live") /\ (~Stopped => h # "unsetautoplay")
      /\ h = "setautoplay" => p = Main
  BY <1>1 DEF MayCall, BootCalls, WorkCalls
<1>4. h = "setautoplay" => autoplay
  BY <1>0, <1>3 DEF ShapeInv
<1>5. live' \in BOOLEAN /\ autoplay' \in BOOLEAN /\ autoplay \in BOOLEAN
  BY StepTyped, FailTyped, StoreTyped DEF Typed, OthersTyped
<1>6. CASE h \in {"setautoplay", "unsetautoplay"}
  BY <1>2, <1>3, <1>4, <1>5, <1>6, CallWrites
<1>7. CASE h \notin {"setautoplay", "unsetautoplay"}
  <2>1. autoplay' = autoplay /\ (room.attended => hub')
    BY <1>2, <1>3, <1>7, CallWrites
  <2>2. Stopped => live' = live
    BY <1>3, <1>7, CallWrites
  <2> QED
    BY <1>2, <2>1, <2>2
<1> QED
  BY <1>6, <1>7

\* A list that a handler starts in such a room.
LEMMA BeginFits ==
  ASSUME TypeOK, Simple, NEW p \in Procs, Begin(p)
  PROVE  /\ p \in Workers /\ task[p].todo = <<>> /\ task[Main].todo = <<>>
         /\ UNCHANGED <<storeVars, hub, syncVars, restarts, room, history>>
         /\ \A q \in Procs \ {p} : task'[q] = task[q]
         /\ Timely(task'[p].todo)
         /\ \A call \in Calls : Has(task'[p].todo, call) => call \in MayCall(p)
         /\ \/ /\ task'[p].todo = Concurrent["GoLive"] /\ Started
               /\ task'[p].ps.track \in Submitted /\ task'[p].length = duration[task'[p].ps.track]
            \/ task'[p].todo \in {Concurrent["autoplay_track_ended"], Concurrent["StopAutoplayRoom"]}
<1>1. /\ task[p].todo = <<>> /\ task[Main].todo = <<>> /\ p \notin {Main, Monitor}
      /\ UNCHANGED <<storeVars, hub, syncVars, restarts, room, history>>
      /\ \A q \in Procs \ {p} : task'[q] = task[q]
  BY BeginList
<1>2. /\ room.handlers \cap DOMAIN DJActions = {} /\ (Started \/ Stopped)
      /\ room.handlers \cap DOMAIN Concurrent \subseteq {"GoLive", "autoplay_track_ended", "StopAutoplayRoom"}
  BY ActionsListed, HandlersListed DEF Simple, Started, Stopped
<1>3. p \notin Loops /\ p \in Workers
  BY <1>1, <1>2, BeginList DEF Procs
<1>4. PICK h \in room.handlers \cap DOMAIN Concurrent :
         /\ task'[p].todo = Concurrent[h]
         /\ h = "GoLive" => task'[p].ps.track \in Submitted /\ task'[p].length = duration[task'[p].ps.track]
  BY <1>3, BeginList
<1>5. h \in {"GoLive", "autoplay_track_ended", "StopAutoplayRoom"}
  BY <1>2, <1>4
<1>6. /\ h = "GoLive" => ~Stopped
      /\ h = "StopAutoplayRoom" => Stopped
  BY <1>2, <1>4 DEF Started, Stopped
<1>7. MayCall(p) = WorkCalls \ {IF Stopped THEN "live" ELSE "unsetautoplay"}
  BY <1>3, ConstantsOK DEF MayCall
<1>8. ASSUME NEW call \in Calls, Has(task'[p].todo, call) PROVE call \in MayCall(p)
  <2>1. CASE h = "GoLive"
    BY <1>4, <1>6, <1>7, <1>8, <2>1, HandlersCall DEF WorkCalls
  <2>2. CASE h = "autoplay_track_ended"
    BY <1>4, <1>6, <1>7, <1>8, <2>2, HandlersCall DEF WorkCalls
  <2>3. CASE h = "StopAutoplayRoom"
    BY <1>4, <1>6, <1>7, <1>8, <2>3, HandlersCall DEF WorkCalls
  <2> QED
    BY <1>5, <2>1, <2>2, <2>3
<1>9. Timely(task'[p].todo)
  BY <1>4, <1>5, TimelyHandlers
<1> QED
  BY <1>1, <1>2, <1>3, <1>4, <1>5, <1>6, <1>8, <1>9

LEMMA FireFits ==
  ASSUME TypeOK, NEW p \in Procs, FireTimer(p)
  PROVE  /\ p \in Workers /\ task[p].todo = <<>> /\ armed /\ left = 0 /\ task'[p].todo = AdvanceTrack
         /\ armed' = FALSE /\ since' = since /\ left' = left
         /\ UNCHANGED <<storeVars, hub, restarts, room, history>>
         /\ \A q \in Procs \ {p} : task'[q] = task[q]
<1>1. /\ p \in Workers /\ task[p].todo = <<>> /\ armed /\ left = 0 /\ GoOn(p, AdvanceTrack, Idle)
      /\ armed' = FALSE /\ since' = since /\ left' = left
      /\ UNCHANGED <<storeVars, hub, restarts, room, history>>
  BY DEF FireTimer, Free
<1>2. task'[p].todo = AdvanceTrack /\ \A q \in Procs \ {p} : task'[q] = task[q]
  BY <1>1, IdleTyped, NewList
<1> QED
  BY <1>1, <1>2

LEMMA ShapeNext ==
  ASSUME TypeOK, TasksOK, ShapeInv, [Next]_vars
  PROVE  ShapeInv'
<1>0. room' = room /\ Workers \subseteq Procs /\ Main \in Procs /\ Main \notin Workers
  BY RoomStays, ConstantsOK DEF Procs
<1>1. /\ (Simple' <=> Simple) /\ (Stopped' <=> Stopped)
      /\ \A p : MayCall(p)' = MayCall(p)
  BY <1>0, TimedStays
<1> DEFINE Flags == (room.attended => hub') /\ (Stopped => live' = autoplay') /\ (~Stopped => autoplay' = room.autoplay)
           Lists == \A q \in Procs : /\ Timely(task'[q].todo)
                                     /\ \A call \in Calls : Has(task'[q].todo, call) => call \in MayCall(q)
           Boot  == task'[Main].todo # <<>> =>
                       /\ \A q \in Workers : task'[q].todo = <<>>
                       /\ ~armed' /\ since' = Debounce /\ (live' => autoplay')
                       /\ Head(task'[Main].todo) # "list" => autoplay'
<1> SUFFICES ASSUME Simple PROVE Flags /\ Lists /\ Boot
  BY <1>0, <1>1 DEF ShapeInv
<1>2. /\ (room.attended => hub) /\ (Stopped => live = autoplay) /\ (~Stopped => autoplay = room.autoplay)
      /\ \A q \in Procs : /\ Timely(task[q].todo)
                          /\ \A call \in Calls : Has(task[q].todo, call) => call \in MayCall(q)
      /\ task[Main].todo # <<>> =>
            /\ \A q \in Workers : task[q].todo = <<>>
            /\ ~armed /\ since = Debounce /\ (live => autoplay)
            /\ Head(task[Main].todo) # "list" => autoplay
  BY DEF ShapeInv
<1>3. ASSUME NEW p \in Procs, Step(p) \/ CallFails(p) PROVE Flags /\ Lists /\ Boot
  BY <1>3, FlagsFit, ListsFit, BootStep
<1>4. ASSUME NEW p \in Procs, Begin(p) PROVE Flags /\ Lists /\ Boot
  <2>1. hub' = hub /\ live' = live /\ autoplay' = autoplay
    BY <1>4, BeginFits DEF storeVars
  <2>2. Lists
    BY <1>2, <1>4, BeginFits
  <2>3. task'[Main].todo = <<>>
    BY <1>0, <1>4, BeginFits
  <2> QED
    BY <1>2, <2>1, <2>2, <2>3
<1>5. ASSUME NEW p \in Procs, FireTimer(p) PROVE Flags /\ Lists /\ Boot
  <2>1. hub' = hub /\ live' = live /\ autoplay' = autoplay
    BY <1>5, FireFits DEF storeVars
  <2>2. task[Main].todo = <<>> /\ task'[Main] = task[Main]
    BY <1>0, <1>2, <1>5, FireFits
  <2>3. ASSUME NEW call, Has(AdvanceTrack, call) PROVE call \in MayCall(p)
    <3>1. MayCall(p) = WorkCalls \ {IF Stopped THEN "live" ELSE "unsetautoplay"}
      BY <1>5, FireFits, ConstantsOK DEF MayCall
    <3> QED
      BY <2>3, <3>1, ListsCall DEF WorkCalls
  <2>4. Lists
    BY <1>2, <1>5, <2>3, FireFits, TimelyLists
  <2> QED
    BY <1>2, <2>1, <2>2, <2>4
<1>6. ~CheckIdle /\ (HubComesAndGoes => Flags /\ Lists /\ Boot)
  <2>1. "IdleMonitor" \notin room.handlers
    BY DEF Simple, Started, Stopped
  <2>2. HubComesAndGoes => ~room.attended /\ UNCHANGED <<live, autoplay, task, armed, since>>
    BY DEF HubComesAndGoes, storeVars, syncVars
  <2> QED
    BY <1>2, <2>1, <2>2 DEF CheckIdle
<1>7. ASSUME NEW t \in Submitted, Submit(t) PROVE Flags /\ Lists /\ Boot
  <2>1. UNCHANGED <<hub, live, autoplay, task, armed, since>>
    BY <1>7 DEF Submit, syncVars
  <2> QED
    BY <1>2, <2>1
<1>8. CASE Tick
  <2>1. \A q \in Procs : task[q].todo = <<>>
    BY <1>8 DEF Tick, Quiet, Free, Simple
  <2>2. \A q \in Procs : task'[q].todo = task[q].todo
    BY <1>8, TickGives
  <2>3. hub' = hub /\ live' = live /\ autoplay' = autoplay
    BY <1>8 DEF Tick
  <2> QED
    BY <1>0, <1>2, <2>1, <2>2, <2>3
<1>9. CASE Restart
  <2>1. /\ task' = Booting /\ armed' = FALSE /\ since' = Debounce /\ autoplay' = autoplay
        /\ hub' = room.attended /\ live' = (live /\ autoplay)
    BY <1>9 DEF Restart
  <2>2. Flags
    <3>1. live \in BOOLEAN /\ autoplay \in BOOLEAN
      BY StoreTyped
    <3> QED
      BY <1>2, <2>1, <3>1
  <2>3. task'[Main].todo = StartAutoplayRooms /\ \A q \in Procs \ {Main} : task'[q].todo = <<>>
    BY <2>1, BootingLists
  <2>4. {"list", "setautoplay", "start"} \subseteq MayCall(Main)
    BY DEF MayCall, BootCalls
  <2>5. Lists
    BY <2>3, <2>4, ListsCall, TimelyLists
  <2>6. Head(StartAutoplayRooms) = "list"
    BY DEF StartAutoplayRooms
  <2> QED
    BY <1>0, <2>1, <2>2, <2>3, <2>5, <2>6
<1>10. CASE UNCHANGED vars
  <2>1. UNCHANGED <<hub, live, autoplay, task, armed, since>>
    BY <1>10 DEF vars, storeVars, syncVars
  <2> QED
    BY <1>2, <2>1
<1> QED
  BY <1>3, <1>4, <1>5, <1>6, <1>7, <1>8, <1>9, <1>10 DEF Next

LEMMA ShapeInit == Init => ShapeInv
<1> SUFFICES ASSUME Init, Simple PROVE ShapeInv
  BY DEF ShapeInv
<1>1. /\ hub = room.attended /\ live = room.autoplay /\ autoplay = room.autoplay
      /\ ~armed /\ since = Debounce /\ task = Booting
  BY DEF Init
<1>2. task[Main].todo = StartAutoplayRooms /\ \A q \in Procs \ {Main} : task[q].todo = <<>>
  BY <1>1, BootingLists
<1>3. {"list", "setautoplay", "start"} \subseteq MayCall(Main)
  BY DEF MayCall, BootCalls
<1>4. \A q \in Procs : /\ Timely(task[q].todo)
                       /\ \A call \in Calls : Has(task[q].todo, call) => call \in MayCall(q)
  BY <1>2, <1>3, ListsCall, TimelyLists
<1>5. Head(StartAutoplayRooms) = "list" /\ Workers \subseteq Procs \ {Main}
  BY ConstantsOK DEF StartAutoplayRooms, Procs
<1> QED
  BY <1>1, <1>2, <1>4, <1>5 DEF ShapeInv

LEMMA PreparedTail ==
  ASSUME NEW cs \in Seq(Calls), cs # <<>>, Prepared(cs)
  PROVE  /\ Prepared(Tail(cs))
         /\ Tail(cs) # <<>> =>
               /\ Head(Tail(cs)) = "now" => Head(cs) \in {"pop", "upsert"}
               /\ Head(Tail(cs)) = "state" => Head(cs) = "now"
               /\ Head(Tail(cs)) = "live" => Head(cs) = "state"
               /\ Head(Tail(cs)) = "schedule" => Head(cs) \in {"state", "live"}
               /\ Head(Tail(cs)) = "verify" => Head(cs) = "report"
               /\ Head(Tail(cs)) = "debounce" => Head(cs) = "verify"
               /\ Head(Tail(cs)) # "readindex"
<1>1. /\ Tail(cs) \in Seq(Calls) /\ Len(cs) \in Nat \ {0} /\ DOMAIN cs = 1..Len(cs)
      /\ DOMAIN Tail(cs) = 1..(Len(cs) - 1) /\ Head(cs) = cs[1]
      /\ \A i \in 1..(Len(cs) - 1) : Tail(cs)[i] = cs[i + 1]
  OBVIOUS
<1>2. ASSUME NEW i \in DOMAIN Tail(cs), i > 1
      PROVE  /\ Tail(cs)[i] = "now" => Tail(cs)[i - 1] \in {"pop", "upsert"}
             /\ Tail(cs)[i] = "state" => Tail(cs)[i - 1] = "now"
             /\ Tail(cs)[i] = "live" => Tail(cs)[i - 1] = "state"
             /\ Tail(cs)[i] = "schedule" => Tail(cs)[i - 1] \in {"state", "live"}
             /\ Tail(cs)[i] = "verify" => Tail(cs)[i - 1] = "report"
             /\ Tail(cs)[i] = "debounce" => Tail(cs)[i - 1] = "verify"
             /\ Tail(cs)[i] # "readindex"
  <2>1. /\ i + 1 \in DOMAIN cs /\ i + 1 > 1 /\ (i + 1) - 1 = (i - 1) + 1
        /\ Tail(cs)[i] = cs[i + 1] /\ Tail(cs)[i - 1] = cs[(i - 1) + 1]
    BY <1>1, <1>2
  <2> QED
    BY <2>1 DEF Prepared
<1>3. Prepared(Tail(cs))
  BY <1>2 DEF Prepared
<1>4. ASSUME Tail(cs) # <<>>
      PROVE  /\ Head(Tail(cs)) = "now" => Head(cs) \in {"pop", "upsert"}
             /\ Head(Tail(cs)) = "state" => Head(cs) = "now"
             /\ Head(Tail(cs)) = "live" => Head(cs) = "state"
             /\ Head(Tail(cs)) = "schedule" => Head(cs) \in {"state", "live"}
             /\ Head(Tail(cs)) = "verify" => Head(cs) = "report"
             /\ Head(Tail(cs)) = "debounce" => Head(cs) = "verify"
             /\ Head(Tail(cs)) # "readindex"
  <2>1. Head(Tail(cs)) = cs[2] /\ 2 \in DOMAIN cs
    BY <1>1, <1>4
  <2>2. /\ cs[2] = "now" => cs[2 - 1] \in {"pop", "upsert"}
        /\ cs[2] = "state" => cs[2 - 1] = "now"
        /\ cs[2] = "live" => cs[2 - 1] = "state"
        /\ cs[2] = "schedule" => cs[2 - 1] \in {"state", "live"}
        /\ cs[2] = "verify" => cs[2 - 1] = "report"
        /\ cs[2] = "debounce" => cs[2 - 1] = "verify"
        /\ cs[2] # "readindex"
    <3>1. ASSUME NEW i \in DOMAIN cs, i > 1
          PROVE  /\ cs[i] = "now" => cs[i - 1] \in {"pop", "upsert"}
                 /\ cs[i] = "state" => cs[i - 1] = "now"
                 /\ cs[i] = "live" => cs[i - 1] = "state"
                 /\ cs[i] = "schedule" => cs[i - 1] \in {"state", "live"}
                 /\ cs[i] = "verify" => cs[i - 1] = "report"
                 /\ cs[i] = "debounce" => cs[i - 1] = "verify"
                 /\ cs[i] # "readindex"
      BY <3>1 DEF Prepared
    <3>2. 2 > 1
      OBVIOUS
    <3> QED
      BY <2>1, <3>1, <3>2
  <2> QED
    BY <1>1, <2>1, <2>2
<1> QED
  BY <1>3, <1>4

LEMMA PreparedLists ==
  /\ Prepared(<<>>) /\ Prepared(<<"which">>) /\ Prepared(<<"schedule">>)
  /\ Prepared(AdvanceTrack) /\ Prepared(AdvanceAutoplay) /\ Prepared(StopPlaying)
  /\ Prepared(StartAutoplayRooms)
  /\ Prepared(Concurrent["GoLive"]) /\ Prepared(Concurrent["StopAutoplayRoom"])
  /\ Prepared(Concurrent["autoplay_track_ended"])
<1>1. Prepared(<<>>) /\ Prepared(<<"which">>) /\ Prepared(<<"schedule">>)
  BY DEF Prepared
<1>2. Prepared(StopPlaying) /\ Prepared(StartAutoplayRooms)
  BY DEF Prepared, StopPlaying, StartAutoplayRooms
<1>3. Prepared(AdvanceTrack) /\ Prepared(AdvanceAutoplay)
  BY DEF Prepared, AdvanceTrack, AdvanceAutoplay
<1>4. Prepared(<<"now", "state", "live", "schedule">>)
  BY DEF Prepared
<1>5. Prepared(<<"unsetautoplay", "cancel", "clearstate", "clearnow">>)
  BY DEF Prepared
<1>6. Prepared(<<"report", "verify">> \o AdvanceTrack)
  BY DEF Prepared, AdvanceTrack
<1> QED
  BY <1>1, <1>2, <1>3, <1>4, <1>5, <1>6, HandlersListed

LEMMA ListHeads ==
  /\ AdvanceTrack # <<>> /\ Head(AdvanceTrack) = "debounce"
  /\ AdvanceAutoplay # <<>> /\ Head(AdvanceAutoplay) = "readindex"
  /\ StopPlaying # <<>> /\ Head(StopPlaying) = "clearstate"
  /\ StartAutoplayRooms # <<>> /\ Head(StartAutoplayRooms) = "list"
  /\ Concurrent["GoLive"] # <<>> /\ Head(Concurrent["GoLive"]) = "now"
  /\ Head(Concurrent["StopAutoplayRoom"]) = "unsetautoplay"
  /\ Head(Concurrent["autoplay_track_ended"]) = "report"
<1>1. /\ AdvanceTrack # <<>> /\ Head(AdvanceTrack) = "debounce"
      /\ AdvanceAutoplay # <<>> /\ Head(AdvanceAutoplay) = "readindex"
      /\ StopPlaying # <<>> /\ Head(StopPlaying) = "clearstate"
      /\ StartAutoplayRooms # <<>> /\ Head(StartAutoplayRooms) = "list"
  BY DEF AdvanceTrack, AdvanceAutoplay, StopPlaying, StartAutoplayRooms
<1>2. Head(<<"report", "verify">> \o AdvanceTrack) = "report"
  BY DEF AdvanceTrack
<1> QED
  BY <1>1, <1>2, HandlersListed

LEMMA PreparedStep ==
  ASSUME TypeOK, TasksOK, ShapeInv, LoadInv, Simple, NEW p \in Procs, Step(p) \/ CallFails(p), NEW q \in Procs
  PROVE  Prepared(task'[q].todo)
<1> DEFINE h == Head(task[p].todo)
<1>0. task[p].todo # <<>>
  BY StepGoesOn, FailGoesOn
<1>1. task[p].todo \in Seq(Calls) /\ h \in MayCall(p) /\ (p = Main \/ p \in Workers)
  BY <1>0, ShapeMeans
<1>2. Prepared(task[p].todo) /\ Prepared(task[q].todo)
  BY DEF LoadInv
<1>3. Prepared(Tail(task[p].todo))
  BY <1>0, <1>1, <1>2, PreparedTail
<1>4. Turns(h, task'[q].todo) => Prepared(task'[q].todo)
  <2>1. h \notin {"skip", "rooms", "playbacks", "counts", "judge"}
    BY <1>1 DEF MayCall, BootCalls, WorkCalls
  <2> QED
    BY <2>1, PreparedLists DEF Turns
<1> QED
  BY <1>2, <1>3, <1>4, NextList, PreparedLists

\* What p is about to schedule, after each of its calls.
LEMMA LoadedStep ==
  ASSUME TypeOK, TasksOK, LearnInv, QueueInv, ShapeInv, LoadInv, Simple, NEW p \in Procs, Step(p)
  PROVE  Loaded(p, task'[p])
<1> DEFINE cs == task[p].todo
           h == Head(cs)
           t == task'[p].todo
<1>0. /\ cs # <<>> /\ cs \in Seq(Calls) /\ h \in MayCall(p) /\ (p = Main \/ p \in Workers)
      /\ Prepared(cs) /\ Ordered(cs) /\ Loaded(p, task[p]) /\ task[p] \in Tasks
  BY StepGoesOn, ShapeMeans, StoreTyped DEF LoadInv, TasksOK, TaskOK
<1>1. /\ Tail(cs) # <<>> =>
            /\ Head(Tail(cs)) = "now" => h \in {"pop", "upsert"}
            /\ Head(Tail(cs)) = "state" => h = "now"
            /\ Head(Tail(cs)) = "live" => h = "state"
            /\ Head(Tail(cs)) = "schedule" => h \in {"state", "live"}
            /\ Head(Tail(cs)) # "readindex"
            /\ Head(Tail(cs)) = "writeindex" => h = "readindex"
            /\ Head(Tail(cs)) = "upsert" => h = "writeindex"
  BY <1>0, PreparedTail, TailOrdered
<1>2. duration = Length
  BY DEF LearnInv, Simple, Started, Stopped
<1>3. CASE \/ h \in {"debounce", "findhub", "cancel", "clearstate", "clearnow", "report", "verify"}
           \/ h \in {"list", "setautoplay", "unsetautoplay", "schedule"}
  <2>1. t = <<>> \/ t = Tail(cs) \/ t = AdvanceTrack
    BY <1>3, NextList DEF Turns
  <2>2. t # <<>> => Head(t) \notin {"now", "state", "live", "schedule", "readindex", "writeindex", "upsert"}
    BY <1>1, <1>3, <2>1, ListHeads
  <2> QED
    BY <2>2 DEF Loaded
<1>4. CASE h = "pop"
  <2>1. PopNextTrack(p)
    BY <1>4, ByCall
  <2>2. CASE queue = <<>>
    <3>1. t = <<"which">>
      <4>1. DOMAIN OnEmptyQueue = {"pop", "skip", "golive"} /\ OnEmptyQueue["pop"] = <<"which">>
        BY DEF OnEmptyQueue
      <4>2. GoOn(p, <<"which">>, task[p])
        BY <1>4, <2>1, <2>2, <4>1, AtMeans DEF PopNextTrack
      <4>3. DOMAIN task[p] = {"todo", "ps", "length", "index"}
        BY <1>0 DEF Tasks
      <4> QED
        BY <4>2, <4>3, GoOnMeans
    <3>2. t # <<>> => Head(t) = "which"
      BY <3>1
    <3> QED
      BY <3>2 DEF Loaded
  <2>3. CASE queue # <<>>
    <3> DEFINE m == [task[p] EXCEPT !.ps.track = Head(queue), !.length = duration[Head(queue)]]
    <3>1. GoOn(p, Tail(cs), m)
      BY <2>1, <2>3 DEF PopNextTrack
    <3>2. DOMAIN m = {"todo", "ps", "length", "index"} /\ m.ps.track = Head(queue) /\ m.length = duration[Head(queue)]
      BY <1>0 DEF Tasks, States
    <3> HIDE DEF m
    <3>3. t = Tail(cs) /\ (t # <<>> => task'[p].ps = m.ps /\ task'[p].length = duration[Head(queue)])
      BY <3>1, <3>2, GoOnMeans
    <3>4. Head(queue) \in Submitted
      <4>1. \A s \in Seq(Submitted) : s # <<>> => Head(s) \in Submitted
        OBVIOUS
      <4> QED
        BY <2>3, <4>1 DEF QueueInv
    <3>5. Head(queue) \in Tracks /\ (Stopped \/ Length[Head(queue)] > 0)
      BY <3>4 DEF Submitted, Simple, Started
    <3>6. t # <<>> => Head(t) \notin {"live", "schedule", "readindex", "writeindex", "upsert"}
      BY <1>1, <1>4, <3>3
    <3> QED
      BY <1>2, <3>2, <3>3, <3>5, <3>6 DEF Loaded
  <2> QED
    BY <2>2, <2>3
<1>5. CASE h = "which"
  <2>1. WhichRoom(p)
    BY <1>5, ByCall
  <2>2. GoOn(p, IF autoplay THEN AdvanceAutoplay ELSE StopPlaying, task[p])
    BY <2>1 DEF WhichRoom
  <2>3. t = IF autoplay THEN AdvanceAutoplay ELSE StopPlaying
    BY <1>0, <2>2, GoOnMeans DEF Tasks
  <2>4. autoplay => Stopped \/ room.autoplay
    BY DEF ShapeInv
  <2> QED
    BY <2>3, <2>4, ListHeads DEF Loaded
<1>6. CASE h = "start"
  <2>1. StartRoom(p) /\ p = Main
    BY <1>0, <1>6, ByCall DEF MayCall, WorkCalls
  <2>2. autoplay /\ (Stopped \/ room.autoplay)
    BY <1>0, <1>6, <2>1 DEF ShapeInv
  <2>3. CASE playback.playing /\ playback.track # NoTrack
    <3> DEFINE m == [task[p] EXCEPT !.ps = playback, !.length = duration[playback.track]]
    <3>1. GoOn(p, <<"schedule">>, m)
      BY <2>1, <2>3 DEF StartRoom
    <3>2. DOMAIN m = {"todo", "ps", "length", "index"} /\ m.ps = playback /\ m.length = duration[playback.track]
      BY <1>0 DEF Tasks
    <3> HIDE DEF m
    <3>3. t = <<"schedule">> /\ task'[p].ps = playback /\ task'[p].length = Length[playback.track]
      BY <1>2, <3>1, <3>2, GoOnMeans
    <3>4. playback.track \in Tracks
      BY <2>3, StoreTyped DEF States
    <3> QED
      BY <2>1, <2>2, <3>3, <3>4 DEF Loaded
  <2>4. CASE ~(playback.playing /\ playback.track # NoTrack)
    <3>1. GoOn(p, AdvanceAutoplay, task[p])
      BY <2>1, <2>4 DEF StartRoom
    <3>2. t = AdvanceAutoplay
      BY <1>0, <3>1, GoOnMeans DEF Tasks
    <3> QED
      BY <2>2, <3>2, ListHeads DEF Loaded
  <2> QED
    BY <2>3, <2>4
<1>7. CASE h \in {"readindex", "writeindex"}
  <2>1. Stopped \/ room.autoplay
    BY <1>0, <1>7 DEF Loaded
  <2>2. t = <<>> \/ t = Tail(cs) \/ t = StopPlaying
    BY <1>7, NextList DEF Turns
  <2>3. t # <<>> => Head(t) \notin {"now", "state", "live", "schedule"}
    BY <1>1, <1>7, <2>2, ListHeads
  <2> QED
    BY <2>1, <2>3 DEF Loaded
<1>8. CASE h = "upsert"
  <2>1. UpsertAutoplayTrack(p) /\ (Stopped \/ room.autoplay)
    BY <1>0, <1>8, ByCall DEF Loaded
  <2>2. task[p].ps.track \in Tracks
    BY <1>0, <1>8 DEF TasksOK, TaskOK, Ready
  <2> DEFINE m == [task[p] EXCEPT !.length = Length[task[p].ps.track]]
  <2>3. GoOn(p, Tail(cs), m)
    BY <1>2, <2>1 DEF UpsertAutoplayTrack
  <2>4. DOMAIN m = {"todo", "ps", "length", "index"} /\ m.ps = task[p].ps /\ m.length = Length[task[p].ps.track]
    BY <1>0 DEF Tasks
  <2> HIDE DEF m
  <2>5. t = Tail(cs) /\ (t # <<>> => task'[p].ps = task[p].ps /\ task'[p].length = Length[task[p].ps.track])
    BY <2>3, <2>4, GoOnMeans
  <2>6. t # <<>> => Head(t) \notin {"live", "schedule"}
    BY <1>1, <1>8, <2>5
  <2> QED
    BY <2>1, <2>2, <2>5, <2>6 DEF Loaded
<1>9. ASSUME h \in {"now", "state", "live"}
      PROVE  /\ task[p].ps.track \in Tracks /\ task[p].length = Length[task[p].ps.track]
             /\ Stopped \/ room.autoplay \/ task[p].length > 0
  BY <1>0, <1>9 DEF Loaded
<1>10. CASE h \in {"now", "live"}
  <2>1. Done(p) /\ (h = "live" /\ p # Main => task[p].ps.age = 0)
    BY <1>0, <1>10, ByCall DEF SetNowPlaying, SetRoomLive, Loaded
  <2>2. t = Tail(cs) /\ (t # <<>> => task'[p].ps = task[p].ps /\ task'[p].length = task[p].length)
    BY <2>1, DoneMeans
  <2>3. t # <<>> => Head(t) \notin {"readindex", "writeindex", "upsert", "live"} /\ (Head(t) = "schedule" => h = "live")
    BY <1>1, <1>10, <2>2
  <2> QED
    BY <1>9, <1>10, <2>1, <2>2, <2>3 DEF Loaded
<1>11. CASE h = "state"
  <2>1. SetPlaybackState(p)
    BY <1>11, ByCall
  <2> DEFINE m == [task[p] EXCEPT !.ps = Playing(task[p].ps.track)]
  <2>2. GoOn(p, Tail(cs), m)
    BY <2>1 DEF SetPlaybackState
  <2>3. /\ DOMAIN m = {"todo", "ps", "length", "index"} /\ m.ps.track = task[p].ps.track /\ m.ps.age = 0
        /\ m.length = task[p].length
    BY <1>0 DEF Tasks, Playing
  <2> HIDE DEF m
  <2>4. t = Tail(cs) /\ (t # <<>> => task'[p].ps = m.ps /\ task'[p].length = task[p].length)
    BY <2>2, <2>3, GoOnMeans
  <2>5. t # <<>> => Head(t) \notin {"readindex", "writeindex", "upsert"}
    BY <1>1, <1>11, <2>4
  <2> QED
    BY <1>9, <1>11, <2>3, <2>4, <2>5 DEF Loaded
<1>12. h \in BootCalls \cup WorkCalls
  BY <1>0 DEF MayCall
<1> QED
  BY <1>3, <1>4, <1>5, <1>6, <1>7, <1>8, <1>10, <1>11, <1>12 DEF BootCalls, WorkCalls

\* Nor does a call that fails leave it with another track or length.
LEMMA LoadedFail ==
  ASSUME TypeOK, TasksOK, LearnInv, ShapeInv, LoadInv, Simple, NEW p \in Procs, CallFails(p)
  PROVE  Loaded(p, task'[p])
<1> DEFINE cs == task[p].todo
           h == Head(cs)
           t == task'[p].todo
           fields == {"todo", "ps", "length", "index"}
<1>0. /\ cs # <<>> /\ cs \in Seq(Calls) /\ h \in MayCall(p) /\ (p = Main \/ p \in Workers)
      /\ Prepared(cs) /\ Ordered(cs) /\ Loaded(p, task[p]) /\ task[p] \in Tasks /\ DOMAIN task[p] = fields
      /\ t # <<>> => t = Tail(cs) \/ t = StopPlaying \/ t = AdvanceAutoplay
  <2>1. cs # <<>> /\ task[p] \in Tasks
    BY FailMeans, StoreTyped
  <2>2. \/ Return(p) \/ Done(p)
        \/ \E x : GoOn(p, Tail(cs), [task[p] EXCEPT !.ps = x])
        \/ \E x : GoOn(p, Tail(cs), [task[p] EXCEPT !.ps.track = x])
        \/ \E x : GoOn(p, Tail(cs), [task[p] EXCEPT !.length = x])
        \/ GoOn(p, StopPlaying, task[p]) \/ GoOn(p, AdvanceAutoplay, task[p])
    BY FailMeans DEF GoesOnWithout
  <2>3. /\ DOMAIN task[p] = fields
        /\ \A x : /\ DOMAIN [task[p] EXCEPT !.ps = x] = fields /\ DOMAIN [task[p] EXCEPT !.ps.track = x] = fields
                  /\ DOMAIN [task[p] EXCEPT !.length = x] = fields
    BY <2>1 DEF Tasks
  <2>4. t # <<>> => t = Tail(cs) \/ t = StopPlaying \/ t = AdvanceAutoplay
    BY <2>2, <2>3, GoOnMeans, DoneMeans, ReturnMeans
  <2> QED
    BY <2>1, <2>3, <2>4, ShapeMeans DEF LoadInv, TasksOK, TaskOK
<1>1. /\ Tail(cs) # <<>> =>
            /\ Head(Tail(cs)) = "now" => h \in {"pop", "upsert"}
            /\ Head(Tail(cs)) = "state" => h = "now"
            /\ Head(Tail(cs)) = "live" => h = "state"
            /\ Head(Tail(cs)) = "schedule" => h \in {"state", "live"}
            /\ Head(Tail(cs)) # "readindex"
            /\ Head(Tail(cs)) = "writeindex" => h = "readindex"
            /\ Head(Tail(cs)) = "upsert" => h = "writeindex"
  BY <1>0, PreparedTail, TailOrdered
<1>2. h \in GivesUp => Return(p)
  BY AtMeans DEF CallFails, GoesOnWithout, Ignored, GivesUp
<1>3. CASE h \in {"debounce", "findhub", "cancel", "clearstate", "clearnow", "verify", "setautoplay",
                  "unsetautoplay", "schedule"}
  <2>1. t # <<>> => t = Tail(cs)
    BY <1>0, <1>3, FailGoesOn, NextList, ListHeads DEF Turns
  <2>2. t # <<>> => Head(t) \notin {"now", "state", "live", "schedule", "readindex", "writeindex", "upsert"}
    BY <1>1, <1>3, <2>1
  <2> QED
    BY <2>2 DEF Loaded
<1>4. CASE h \in {"pop", "report", "list"}
  <2>1. t = <<>>
    BY <1>2, <1>4, ReturnMeans DEF GivesUp
  <2> QED
    BY <2>1 DEF Loaded
<1>5. CASE h \in {"which", "readindex"}
  <2>1. GoOn(p, StopPlaying, task[p])
    BY <1>5, AtMeans DEF CallFails, GivesUp, GoesOnWithout, Ignored
  <2>2. t = StopPlaying
    BY <1>0, <2>1, GoOnMeans
  <2> QED
    BY <2>2, ListHeads DEF Loaded
<1>6. CASE h = "start"
  <2>1. GoOn(p, AdvanceAutoplay, task[p]) /\ p = Main
    BY <1>0, <1>6, AtMeans DEF CallFails, GivesUp, GoesOnWithout, Ignored, MayCall, WorkCalls
  <2>2. t = AdvanceAutoplay
    BY <1>0, <2>1, GoOnMeans
  <2>3. task[Main].todo # <<>> /\ Head(task[Main].todo) = "start"
    BY <1>0, <1>6, <2>1
  <2>4. autoplay /\ (~Stopped => autoplay = room.autoplay)
    BY <2>3 DEF ShapeInv
  <2>5. Stopped \/ room.autoplay
    BY <2>4
  <2> QED
    BY <2>2, <2>5, ListHeads DEF Loaded
<1>7. CASE h = "writeindex"
  <2>0. GoOn(p, Tail(cs), [task[p] EXCEPT !.ps.track = Playlist[task[p].index]])
    BY <1>7, AtMeans DEF CallFails, GivesUp, GoesOnWithout, Ignored
  <2>1. \E x : GoOn(p, Tail(cs), [task[p] EXCEPT !.ps.track = x])
    BY <2>0
  <2>2. \A x : DOMAIN [task[p] EXCEPT !.ps.track = x] = fields
    BY <1>0
  <2>3. t = Tail(cs)
    BY <2>1, <2>2, GoOnMeans
  <2>4. (t # <<>> => Head(t) \notin {"now", "state", "live", "schedule"}) /\ (Stopped \/ room.autoplay)
    BY <1>0, <1>1, <1>7, <2>3 DEF Loaded
  <2> QED
    BY <2>4 DEF Loaded
<1>8. CASE h = "upsert"
  <2> DEFINE m == [task[p] EXCEPT !.length = Length[task[p].ps.track]]
  <2>1. GoOn(p, Tail(cs), m) /\ (Stopped \/ room.autoplay)
    BY <1>0, <1>8, AtMeans DEF CallFails, GivesUp, GoesOnWithout, Ignored, Loaded
  <2>2. task[p].ps.track \in Tracks
    BY <1>0, <1>8 DEF TasksOK, TaskOK, Ready
  <2>3. DOMAIN m = fields /\ m.ps = task[p].ps /\ m.length = Length[task[p].ps.track]
    BY <1>0 DEF Tasks
  <2> HIDE DEF m
  <2>4. t = Tail(cs) /\ (t # <<>> => task'[p].ps = task[p].ps /\ task'[p].length = Length[task[p].ps.track])
    BY <2>1, <2>3, GoOnMeans
  <2>5. t # <<>> => Head(t) \notin {"live", "schedule"}
    BY <1>1, <1>8, <2>4
  <2> QED
    BY <2>1, <2>2, <2>4, <2>5 DEF Loaded
<1>9. ASSUME h \in {"now", "state", "live"}
      PROVE  /\ task[p].ps.track \in Tracks /\ task[p].length = Length[task[p].ps.track]
             /\ Stopped \/ room.autoplay \/ task[p].length > 0
  BY <1>0, <1>9 DEF Loaded
<1>10. CASE h \in {"now", "live"}
  <2>1. Done(p) /\ (h = "live" /\ p # Main => task[p].ps.age = 0)
    BY <1>0, <1>10, AtMeans DEF CallFails, GivesUp, GoesOnWithout, Loaded
  <2>2. t = Tail(cs) /\ (t # <<>> => task'[p].ps = task[p].ps /\ task'[p].length = task[p].length)
    BY <2>1, DoneMeans
  <2>3. t # <<>> => Head(t) \notin {"readindex", "writeindex", "upsert", "live"} /\ (Head(t) = "schedule" => h = "live")
    BY <1>1, <1>10, <2>2
  <2> QED
    BY <1>9, <1>10, <2>1, <2>2, <2>3 DEF Loaded
<1>11. CASE h = "state"
  <2> DEFINE m == [task[p] EXCEPT !.ps = Playing(task[p].ps.track)]
  <2>1. GoOn(p, Tail(cs), m)
    BY <1>11, AtMeans DEF CallFails, GivesUp, GoesOnWithout, Ignored
  <2>2. /\ DOMAIN m = fields /\ m.ps.track = task[p].ps.track /\ m.ps.age = 0
        /\ m.length = task[p].length
    BY <1>0 DEF Tasks, Playing
  <2> HIDE DEF m
  <2>3. t = Tail(cs) /\ (t # <<>> => task'[p].ps = m.ps /\ task'[p].length = task[p].length)
    BY <2>1, <2>2, GoOnMeans
  <2>4. t # <<>> => Head(t) \notin {"readindex", "writeindex", "upsert"}
    BY <1>1, <1>11, <2>3
  <2> QED
    BY <1>9, <1>11, <2>2, <2>3, <2>4 DEF Loaded
<1>12. h \in BootCalls \cup WorkCalls
  BY <1>0 DEF MayCall
<1> QED
  BY <1>3, <1>4, <1>5, <1>6, <1>7, <1>8, <1>10, <1>11, <1>12 DEF BootCalls, WorkCalls

\* What the schedule of such a room does with the timer.
LEMMA TimerStep ==
  ASSUME TypeOK, TasksOK, ShapeInv, LoadInv, Timed, NEW p \in Procs, Step(p)
  PROVE  /\ armed' => left' + since' >= Debounce
         /\ Head(task[p].todo) = "schedule" =>
              \/ armed'
              \/ ~live
              \/ p = Main /\ \E q \in Workers : task'[q].todo = AdvanceTrack
<1> DEFINE h == Head(task[p].todo)
           age == task[p].ps.age
           length == IF task[p].length = 0 /\ autoplay THEN Fallback ELSE task[p].length
<1>a. Simple
  BY DEF Timed
<1>0. /\ task[p].todo # <<>> /\ h \in MayCall(p) /\ (p = Main \/ p \in Workers)
      /\ Loaded(p, task[p]) /\ task[p] \in Tasks
  BY <1>a, StepGoesOn, ShapeMeans, StoreTyped DEF LoadInv
<1>1. /\ age \in 0..MaxLength /\ task[p].length \in 0..MaxLength /\ since \in 0..Debounce /\ left \in 0..MaxLength
      /\ Debounce \in Nat \ {0} /\ MaxLength \in Nat /\ Fallback \in Nat /\ Fallback >= Debounce
      /\ armed \in BOOLEAN
  <2>1. age \in 0..MaxLength /\ task[p].length \in 0..MaxLength
    BY <1>0, LocalsTyped DEF Ages
  <2>2. since \in 0..Debounce /\ left \in 0..MaxLength /\ armed \in BOOLEAN
    BY StoreTyped DEF Ages
  <2>3. Debounce \in Nat \ {0} /\ MaxLength \in Nat /\ Fallback \in Nat /\ MinPlay \in Nat
        /\ Debounce < MinPlay /\ MinPlay < Fallback
    BY ConstantsOK
  <2> QED
    BY <2>1, <2>2, <2>3
<1>2. armed => left + since >= Debounce
  BY DEF LoadInv
<1>3. CASE h = "schedule"
  <2>1. ScheduleAdvance(p) /\ since' = since
    BY <1>3, ByCall, OnlyDebounceAdvances
  <2>2. /\ task[p].ps.track \in Tracks /\ task[p].length = Length[task[p].ps.track]
        /\ Stopped \/ room.autoplay \/ task[p].length > 0
        /\ p # Main => age = 0
    BY <1>0, <1>3 DEF Loaded
  <2>3. p = Main => since = Debounce
    BY <1>0, <1>a DEF ShapeInv
  <2>4. task[p].length \notin 1..(Debounce - 1)
    BY <2>2 DEF Timed
  <2>5. length \in Nat /\ (length = 0 \/ length >= Debounce)
    BY <1>1, <2>4
  <2>6. CASE length = 0
    <3>1. armed' = FALSE
      BY <2>1, <2>6 DEF ScheduleAdvance
    <3>2. task[p].length = 0 /\ ~autoplay
      BY <1>1, <2>6, ConstantsOK
    <3>3. Stopped
      BY <1>a, <2>2, <3>2 DEF ShapeInv
    <3>4. ~live
      BY <1>a, <3>2, <3>3 DEF ShapeInv
    <3> QED
      BY <3>1, <3>4
  <2>7. CASE length # 0 /\ age >= length
    <3>1. armed' = FALSE
      BY <2>1, <2>7 DEF ScheduleAdvance
    <3>2. PICK q \in Workers :
             task' = [task EXCEPT ![p] = Idle, ![q] = [Idle EXCEPT !.todo = AdvanceTrack]]
      BY <2>1, <2>7 DEF ScheduleAdvance
    <3>3. task'[q] = [Idle EXCEPT !.todo = AdvanceTrack]
      BY <3>2, StoreTyped DEF Procs
    <3>4. task'[q].todo = AdvanceTrack
      BY <3>3, IdleTyped DEF Tasks
    <3>5. p = Main
      BY <1>1, <2>2, <2>5, <2>7
    <3> QED
      BY <3>1, <3>4, <3>5
  <2>8. CASE length # 0 /\ ~(age >= length)
    <3>1. armed' = TRUE /\ left' = length - age
      BY <2>1, <2>8 DEF ScheduleAdvance
    <3>2. left' + since' >= Debounce
      <4>1. CASE p = Main
        BY <1>1, <2>1, <2>3, <2>5, <2>8, <3>1, <4>1
      <4>2. CASE p # Main
        BY <1>1, <2>1, <2>2, <2>5, <2>8, <3>1, <4>2
      <4> QED
        BY <4>1, <4>2
    <3> QED
      BY <3>1, <3>2
  <2> QED
    BY <2>6, <2>7, <2>8
<1>4. CASE h = "debounce"
  <2>1. DebounceAdvance(p)
    BY <1>4, ByCall
  <2>2. armed' = FALSE \/ (armed' = armed /\ since' = since /\ left' = left)
    BY <2>1 DEF DebounceAdvance
  <2> QED
    BY <1>2, <1>4, <2>2
<1>5. CASE h = "cancel"
  <2>1. armed' = FALSE
    BY <1>5, ByCall DEF CancelAdvance
  <2> QED
    BY <1>5, <2>1
<1>6. CASE h \notin {"debounce", "schedule", "cancel"}
  <2>1. armed' = armed /\ left' = left /\ since' = since
    BY <1>6, WritesOnly, OnlyDebounceAdvances
  <2> QED
    BY <1>2, <1>6, <2>1
<1> QED
  BY <1>3, <1>4, <1>5, <1>6

LEMMA LoadNext ==
  ASSUME TypeOK, TasksOK, LearnInv, QueueInv, ShapeInv, LoadInv, [Next]_vars
  PROVE  LoadInv'
<1>0. room' = room /\ Workers \subseteq Procs /\ Main \in Procs /\ Main \notin Workers
  BY RoomStays, ConstantsOK DEF Procs
<1>1. (Timed' <=> Timed) /\ (Simple' <=> Simple) /\ (Stopped' <=> Stopped)
  BY <1>0, TimedStays
<1> DEFINE Loads == \A q \in Procs : Prepared(task'[q].todo) /\ Loaded(q, task'[q])
           Timer == Timed /\ armed' => left' + since' >= Debounce
<1> SUFFICES ASSUME Simple PROVE Loads /\ Timer
  <2>1. \A q \in Procs : Loaded(q, task[q])' <=> Loaded(q, task'[q])
    BY <1>0, <1>1 DEF Loaded
  <2> QED
    BY <1>1, <2>1 DEF LoadInv, Timed
<1>2. /\ \A q \in Procs : Prepared(task[q].todo) /\ Loaded(q, task[q])
      /\ Timed /\ armed => left + since >= Debounce
  BY DEF LoadInv
<1>3. ASSUME NEW p \in Procs, Step(p) \/ CallFails(p) PROVE Loads /\ Timer
  <2>1. Timer
    <3>1. ASSUME CallFails(p), Timed, armed' PROVE armed /\ left' = left /\ since' = since
      BY <3>1, FailWrites
    <3> QED
      BY <1>2, <1>3, <3>1, TimerStep
  <2>2. ASSUME NEW q \in Procs PROVE Prepared(task'[q].todo) /\ Loaded(q, task'[q])
    <3>1. Prepared(task'[q].todo)
      BY <1>3, PreparedStep
    <3>2. CASE q = p
      BY <1>3, <3>1, <3>2, LoadedStep, LoadedFail
    <3>3. CASE q # p
      <4>1. task'[q] = task[q] \/ task'[q].todo = AdvanceTrack
        BY <1>3, <3>3, NextList
      <4> QED
        BY <1>2, <3>1, <4>1, ListHeads DEF Loaded
    <3> QED
      BY <3>2, <3>3
  <2> QED
    BY <2>1, <2>2
<1>4. ASSUME NEW p \in Procs, Begin(p) PROVE Loads /\ Timer
  <2>1. UNCHANGED <<armed, left, since, duration>>
    BY <1>4, BeginFits DEF syncVars, storeVars
  <2>2. Prepared(task'[p].todo)
    BY <1>4, BeginFits, PreparedLists
  <2>3. CASE /\ task'[p].todo = Concurrent["GoLive"] /\ Started
             /\ task'[p].ps.track \in Submitted /\ task'[p].length = duration[task'[p].ps.track]
    <3>1. duration = Length
      BY DEF LearnInv, Simple, Started, Stopped
    <3>2. task'[p].ps.track \in Tracks /\ Length[task'[p].ps.track] > 0
      BY <2>3 DEF Submitted, Started
    <3>3. Loaded(p, task'[p])
      BY <2>3, <3>1, <3>2, ListHeads DEF Loaded
    <3> QED
      BY <1>2, <1>4, <2>1, <2>2, <3>3, BeginFits
  <2>4. CASE task'[p].todo \in {Concurrent["autoplay_track_ended"], Concurrent["StopAutoplayRoom"]}
    <3>1. Loaded(p, task'[p])
      BY <2>4, ListHeads DEF Loaded
    <3> QED
      BY <1>2, <1>4, <2>1, <2>2, <3>1, BeginFits
  <2> QED
    BY <1>4, <2>3, <2>4, BeginFits
<1>5. ASSUME NEW p \in Procs, FireTimer(p) PROVE Loads /\ Timer
  <2>1. Loaded(p, task'[p]) /\ Prepared(task'[p].todo)
    BY <1>5, FireFits, ListHeads, PreparedLists DEF Loaded
  <2> QED
    BY <1>2, <1>5, <2>1, FireFits
<1>6. ~CheckIdle /\ (HubComesAndGoes => Loads /\ Timer)
  <2>1. "IdleMonitor" \notin room.handlers
    BY DEF Simple, Started, Stopped
  <2>2. HubComesAndGoes => UNCHANGED <<task, armed, left, since>>
    BY DEF HubComesAndGoes, syncVars
  <2> QED
    BY <1>2, <2>1, <2>2 DEF CheckIdle
<1>7. ASSUME NEW t \in Submitted, Submit(t) PROVE Loads /\ Timer
  <2>1. UNCHANGED <<task, armed, left, since>>
    BY <1>7 DEF Submit, syncVars
  <2> QED
    BY <1>2, <2>1
<1>8. CASE Tick
  <2>1. \A q \in Procs : task[q].todo = <<>>
    BY <1>8 DEF Tick, Quiet, Free, Simple
  <2>2. \A q \in Procs : task'[q].todo = <<>>
    BY <1>8, <2>1, TickGives
  <2>3. Loads
    BY <2>2, PreparedLists DEF Loaded
  <2>4. /\ armed' = armed
        /\ left' = IF armed /\ left > 0 THEN left - 1 ELSE left
        /\ since' = IF since < Debounce THEN since + 1 ELSE since
    BY <1>8 DEF Tick
  <2>5. since \in 0..Debounce /\ left \in 0..MaxLength /\ MaxLength \in Nat /\ Debounce \in Nat
    BY StoreTyped, ConstantsOK DEF Ages
  <2>6. Timer
    BY <1>2, <2>4, <2>5
  <2> QED
    BY <2>3, <2>6
<1>9. CASE Restart
  <2>1. task' = Booting /\ armed' = FALSE
    BY <1>9 DEF Restart
  <2>2. \A q \in Procs : task'[q].todo = <<>> \/ task'[q].todo = StartAutoplayRooms
    BY <2>1, BootingLists
  <2>3. Loads
    BY <2>2, PreparedLists, ListHeads DEF Loaded
  <2> QED
    BY <2>1, <2>3
<1>10. CASE UNCHANGED vars
  <2>1. UNCHANGED <<task, armed, left, since>>
    BY <1>10 DEF vars, storeVars, syncVars
  <2> QED
    BY <1>2, <2>1
<1> QED
  BY <1>3, <1>4, <1>5, <1>6, <1>7, <1>8, <1>9, <1>10 DEF Next

LEMMA LoadInit == Init => LoadInv
<1> SUFFICES ASSUME Init PROVE LoadInv
  OBVIOUS
<1>1. task = Booting /\ ~armed
  BY DEF Init
<1>2. \A q \in Procs : task[q].todo = <<>> \/ task[q].todo = StartAutoplayRooms
  BY <1>1, BootingLists
<1>3. \A q \in Procs : Prepared(task[q].todo) /\ Loaded(q, task[q])
  BY <1>2, PreparedLists, ListHeads DEF Loaded
<1> QED
  BY <1>1, <1>3 DEF LoadInv

LEMMA ListsKept == Spec => [](LearnInv /\ QueueInv /\ ShapeInv /\ LoadInv)
<1>1. TypeOK /\ TasksOK /\ LearnInv /\ [Next]_vars => LearnInv'
  BY LearnNext
<1>2. TypeOK /\ QueueInv /\ [Next]_vars => QueueInv'
  BY QueueNext
<1>3. TypeOK /\ TasksOK /\ ShapeInv /\ [Next]_vars => ShapeInv'
  BY ShapeNext
<1>4. TypeOK /\ TasksOK /\ LearnInv /\ QueueInv /\ ShapeInv /\ LoadInv /\ [Next]_vars => LoadInv'
  BY LoadNext
<1>5. Spec => [](LearnInv /\ QueueInv /\ ShapeInv)
  BY <1>1, <1>2, <1>3, LearnInit, QueueInit, ShapeInit, TypeCorrect, PTL DEF Spec
<1> QED
  BY <1>4, <1>5, LoadInit, TypeCorrect, PTL DEF Spec

\* A goroutine whose list begins with one of these calls leaves nothing uncovered.
LEMMA StillCovers ==
  ASSUME TypeOK, TasksOK, ShapeInv, LoadInv, Timed, NEW p \in Procs, Step(p)
  PROVE  LET h == Head(task[p].todo)
             t == task'[p].todo
         IN  /\ h \in {"findhub", "pop", "readindex", "writeindex", "upsert", "now", "state", "live"} => Covers(p)'
             /\ h \in {"which", "start", "cancel", "setautoplay"} => Covers(p)'
             /\ h = "debounce" => Covers(p)' \/ (~Covers(p) /\ since' = since /\ armed' = armed)
             /\ h \in {"report", "verify", "clearnow"} => ~Covers(p)
             /\ h = "list" => Covers(p)' \/ ~live
<1> DEFINE cs == task[p].todo
           h == Head(cs)
           t == task'[p].todo
<1>a. Simple /\ hub
  BY DEF Timed, ShapeInv
<1>0. /\ cs # <<>> /\ cs \in Seq(Calls) /\ h \in MayCall(p) /\ (p = Main \/ p \in Workers) /\ Timely(cs)
      /\ task[p] \in Tasks /\ DOMAIN task[p] = {"todo", "ps", "length", "index"}
  BY <1>a, StepGoesOn, ShapeMeans, StoreTyped DEF Tasks
<1>1. /\ h \in {"debounce", "findhub", "pop", "readindex", "writeindex", "upsert", "now", "state", "live"} =>
             Has(Tail(cs), "schedule") /\ ~Has(Tail(cs), "debounce")
      /\ h \in {"schedule", "clearnow"} => Tail(cs) = <<>>
      /\ h = "cancel" => Has(Tail(cs), "clearstate")
      /\ h \in {"list", "setautoplay"} => Has(Tail(cs), "start")
      /\ h \in {"report", "verify"} => Has(Tail(cs), "debounce")
      /\ h \in {"report", "verify", "debounce"} =>
             ~Has(cs, "which") /\ ~Has(cs, "start") /\ ~Has(cs, "clearstate")
  BY <1>0, TimelyTail
<1>2. \A call : Has(cs, call) <=> h = call \/ Has(Tail(cs), call)
  BY <1>0, TailHas
<1>3. /\ Has(t, "schedule") /\ ~Has(t, "debounce") => Covers(p)'
      /\ Has(t, "which") \/ Has(t, "start") \/ Has(t, "clearstate") => Covers(p)'
  BY DEF Covers
<1>4. ASSUME h \in {"findhub", "now", "live", "state", "writeindex", "upsert"} PROVE Covers(p)'
  <2>1. GoesOn(p) /\ (t = Tail(cs) \/ t = <<>>) /\ hub
    BY <1>0, <1>a, <1>4, NextList, StepGoesOn DEF Overtakes, Turns
  <2>2. t = Tail(cs)
    <3>1. h = "findhub" => Done(p)
      BY <2>1, ByCall DEF FindHub
    <3>2. h \in {"now", "live"} => Done(p)
      BY ByCall DEF SetNowPlaying, SetRoomLive
    <3>3. h \in {"state", "writeindex", "upsert"} => \E m : DOMAIN m = DOMAIN task[p] /\ GoOn(p, Tail(cs), m)
      <4>1. h = "state" => GoOn(p, Tail(cs), [task[p] EXCEPT !.ps = Playing(task[p].ps.track)])
        BY ByCall DEF SetPlaybackState
      <4>3. h = "writeindex" => GoOn(p, Tail(cs), [task[p] EXCEPT !.ps.track = Playlist[task[p].index]])
        BY ByCall DEF WriteIndex
      <4>4. h = "upsert" => \E d : GoOn(p, Tail(cs), [task[p] EXCEPT !.length = d])
        BY ByCall DEF UpsertAutoplayTrack
      <4>5. \A x : /\ DOMAIN [task[p] EXCEPT !.ps = x] = DOMAIN task[p]
                   /\ DOMAIN [task[p] EXCEPT !.ps.track = x] = DOMAIN task[p]
                   /\ DOMAIN [task[p] EXCEPT !.length = x] = DOMAIN task[p]
        OBVIOUS
      <4> QED
        BY <4>1, <4>3, <4>4, <4>5
    <3> QED
      BY <1>0, <1>4, <3>1, <3>2, <3>3, DoneMeans, GoOnMeans
  <2> QED
    BY <1>1, <1>3, <1>4, <2>2
<1>5. ASSUME h = "pop" PROVE Covers(p)'
  <2>1. PopNextTrack(p)
    BY <1>5, ByCall
  <2>2. DOMAIN OnEmptyQueue = {"pop", "skip", "golive"} /\ OnEmptyQueue["pop"] = <<"which">>
    BY DEF OnEmptyQueue
  <2>3. \/ GoOn(p, <<"which">>, task[p])
        \/ GoOn(p, Tail(cs), [task[p] EXCEPT !.ps.track = Head(queue), !.length = duration[Head(queue)]])
    BY <1>5, <2>1, <2>2, AtMeans DEF PopNextTrack
  <2>4. DOMAIN [task[p] EXCEPT !.ps.track = Head(queue), !.length = duration[Head(queue)]] = DOMAIN task[p]
    OBVIOUS
  <2>5. t = <<"which">> \/ t = Tail(cs)
    BY <1>0, <2>3, <2>4, GoOnMeans
  <2> QED
    BY <1>1, <1>3, <1>5, <2>5, ListsCall
<1>6. ASSUME h = "which" PROVE Covers(p)'
  <2>1. WhichRoom(p)
    BY <1>6, ByCall
  <2>2. GoOn(p, AdvanceAutoplay, task[p]) \/ GoOn(p, StopPlaying, task[p])
    BY <2>1 DEF WhichRoom
  <2>3. t = AdvanceAutoplay \/ t = StopPlaying
    BY <1>0, <2>2, GoOnMeans
  <2> QED
    BY <1>3, <2>3, ListsCall
<1>6a. ASSUME h = "readindex" PROVE Covers(p)'
  <2> DEFINE m == [task[p] EXCEPT !.index = (index % Len(Playlist)) + 1]
  <2>1. GoOn(p, StopPlaying, task[p]) \/ GoOn(p, Tail(cs), m)
    BY <1>6a, ByCall DEF ReadIndex
  <2>2. DOMAIN m = DOMAIN task[p]
    OBVIOUS
  <2> HIDE DEF m
  <2>3. t = StopPlaying \/ t = Tail(cs)
    BY <1>0, <2>1, <2>2, GoOnMeans
  <2> QED
    BY <1>1, <1>3, <1>6a, <2>3, ListsCall
<1>7. ASSUME h = "start" PROVE Covers(p)'
  <2>1. StartRoom(p)
    BY <1>7, ByCall
  <2>2. \/ GoOn(p, <<"schedule">>, [task[p] EXCEPT !.ps = playback, !.length = duration[playback.track]])
        \/ GoOn(p, AdvanceAutoplay, task[p])
    BY <2>1 DEF StartRoom
  <2>3. DOMAIN [task[p] EXCEPT !.ps = playback, !.length = duration[playback.track]] = DOMAIN task[p]
    OBVIOUS
  <2>4. t = <<"schedule">> \/ t = AdvanceAutoplay
    BY <1>0, <2>2, <2>3, GoOnMeans
  <2> QED
    BY <1>3, <2>4, ListsCall
<1>8. ASSUME h \in {"cancel", "setautoplay"} PROVE Covers(p)'
  <2>1. Done(p)
    BY <1>8, ByCall DEF CancelAdvance, SetRoomAutoplay
  <2> QED
    BY <1>1, <1>3, <1>8, <2>1, DoneMeans
<1>9. ASSUME h = "debounce" PROVE Covers(p)' \/ (~Covers(p) /\ since' = since /\ armed' = armed)
  <2>1. DebounceAdvance(p)
    BY <1>9, ByCall
  <2>2. CASE since < Debounce
    <3>1. since # Debounce
      BY <2>2, ConstantsOK
    <3> QED
      BY <1>1, <1>2, <1>9, <2>1, <2>2, <3>1 DEF DebounceAdvance, Covers
  <2>3. CASE ~(since < Debounce)
    <3>1. Done(p)
      BY <2>1, <2>3 DEF DebounceAdvance
    <3> QED
      BY <1>1, <1>3, <1>9, <3>1, DoneMeans
  <2> QED
    BY <2>2, <2>3
<1>10. ASSUME h \in {"report", "verify", "clearnow"} PROVE ~Covers(p)
  <2>1. CASE h = "clearnow"
    <3>0. Tail(cs) = <<>>
      BY <1>1, <2>1
    <3>1. \A call : ~Has(Tail(cs), call)
      BY <3>0, ListsCall
    <3> QED
      BY <1>2, <2>1, <3>1 DEF Covers
  <2>2. CASE h \in {"report", "verify"}
    <3>1. Has(cs, "debounce") /\ ~Has(cs, "which") /\ ~Has(cs, "start") /\ ~Has(cs, "clearstate")
      BY <1>1, <1>2, <2>2
    <3> QED
      BY <2>2, <3>1 DEF Covers
  <2> QED
    BY <1>10, <2>1, <2>2
<1>11. ASSUME h = "list" PROVE Covers(p)' \/ ~live
  <2>1. ListRoom(p) /\ p = Main
    BY <1>0, <1>11, ByCall DEF MayCall, WorkCalls
  <2>2. live => autoplay
    BY <1>0, <1>a, <2>1 DEF ShapeInv
  <2>3. autoplay => Done(p)
    BY <2>1 DEF ListRoom
  <2> QED
    BY <1>1, <1>3, <1>11, <2>2, <2>3, DoneMeans
<1> QED
  BY <1>4, <1>5, <1>6, <1>6a, <1>7, <1>8, <1>9, <1>10, <1>11

\* What a step makes up for.
LEMMA StepKeeps ==
  ASSUME NEW p, Step(p)
  PROVE  LET h == Head(task[p].todo)
         IN  /\ h \notin {"state", "schedule", "setautoplay", "launch", "unsetautoplay"} => amiss' = amiss
             /\ h = "state" => amiss' = amiss \ {"unread"}
             /\ h \in {"setautoplay", "launch", "unsetautoplay"} => amiss' = amiss \ {"unstopped"}
             /\ h = "schedule" => amiss' = amiss \/ amiss' = amiss \cup {"stale"}
                                  \/ amiss' = {m \in {"stale"} : task[p].ps # playback} \cup (amiss \ {"failed", "stale"})
<1> DEFINE h == Head(task[p].todo)
<1>1. CASE h = "state"
  BY <1>1, ByCall DEF SetPlaybackState
<1>2. CASE h \in {"setautoplay", "launch", "unsetautoplay"}
  BY <1>2, ByCall DEF SetRoomAutoplay
<1>3. CASE h = "schedule"
  BY <1>3, ByCall DEF ScheduleAdvance
<1>4. CASE h \in {"debounce", "findhub", "pop", "skip", "golive", "which", "cancel", "now"}
  BY <1>4, ByCall DEF DebounceAdvance, FindHub, PopNextTrack, WhichRoom, CancelAdvance, SetNowPlaying, history
<1>5. CASE h \in {"clearstate", "clearnow", "pause", "resume", "save", "live", "end", "report"}
  BY <1>5, ByCall DEF ClearPlaybackState, ClearNowPlaying, ReadPlaybackState, SavePlaybackState, SetRoomLive,
                      ReadReport, history
<1>6. CASE h \in {"verify", "learn", "readindex", "writeindex", "upsert", "playlist", "activate"}
  BY <1>6, ByCall DEF VerifyEnd, LearnDuration, ReadIndex, WriteIndex, UpsertAutoplayTrack, FindPlaylist,
                      ActivateStagedPlaylist, history
<1>7. CASE h \in {"list", "start", "rooms", "playbacks", "counts", "judge", "untrack"}
  BY <1>7, ByCall DEF ListRoom, StartRoom, ReadIdleness, JudgeIdle, Untrack, history
<1> QED
  BY <1>1, <1>2, <1>3, <1>4, <1>5, <1>6, <1>7, ByCall DEF Calls

LEMMA CoverStep ==
  ASSUME TypeOK, TasksOK, ShapeInv, LoadInv, CoverInv, Timed, NEW p \in Procs, Step(p), Plays'
  PROVE  Covered'
<1> DEFINE h == Head(task[p].todo)
<1>a. Simple
  BY DEF Timed
<1>0. task[p].todo # <<>> /\ h \in MayCall(p) /\ (p = Main \/ p \in Workers) /\ Workers \subseteq Procs
  BY <1>a, StepGoesOn, ShapeMeans DEF Procs
<1>1. CASE h \in {"findhub", "pop", "readindex", "writeindex", "upsert", "now", "state", "live",
                  "which", "start", "cancel", "setautoplay"}
  BY <1>1, StillCovers DEF Covered
<1>2. CASE h = "clearstate"
  <2>1. playback' = Nothing
    BY <1>2, WritesOnly
  <2> QED
    BY <2>1 DEF Plays, Nothing
<1>3. CASE h = "unsetautoplay"
  <2>1. ~live'
    BY <1>3, WritesOnly
  <2> QED
    BY <2>1 DEF Plays
<1>4. CASE h = "schedule"
  <2>1. since' = since /\ live' = live
    BY <1>4, OnlyDebounceAdvances, WritesOnly
  <2>2. CASE p = Main /\ \E q \in Workers : task'[q].todo = AdvanceTrack
    <3>1. PICK q \in Workers : task'[q].todo = AdvanceTrack
      BY <2>2
    <3>2. since = Debounce
      BY <1>0, <1>a, <2>2 DEF ShapeInv
    <3>3. Covers(q)'
      BY <2>1, <3>1, <3>2, ListHeads DEF Covers
    <3> QED
      BY <1>0, <3>3 DEF Covered
  <2> QED
    BY <1>4, <2>1, <2>2, TimerStep DEF Plays, Covered
<1>5. CASE h \in {"debounce", "report", "verify", "clearnow", "list"}
  <2>1. live' = live /\ autoplay' = autoplay /\ playback' = playback
    BY <1>5, WritesOnly
  <2>2. Plays /\ live
    BY <2>1 DEF Plays
  <2>3. Covered /\ amiss' = amiss
    BY <1>5, <2>2, StepKeeps DEF CoverInv
  <2>4. CASE Covers(p)'
    BY <2>4 DEF Covered
  <2>5. CASE ~Covers(p)'
    <3>1. ~Covers(p) /\ since' = since /\ armed' = armed
      <4>1. CASE h = "debounce"
        BY <2>5, <4>1, StillCovers
      <4>2. CASE h # "debounce"
        BY <1>5, <2>2, <2>5, <4>2, StillCovers, WritesOnly, OnlyDebounceAdvances
      <4> QED
        BY <4>1, <4>2
    <3>2. ASSUME NEW q \in Procs, Covers(q) PROVE Covers(q)'
      <4>1. q # p
        BY <3>1, <3>2
      <4>2. task'[q] = task[q]
        BY <1>5, <4>1, NextList
      <4> QED
        BY <3>1, <3>2, <4>2 DEF Covers
    <3> QED
      BY <2>3, <3>1, <3>2 DEF Covered
  <2> QED
    BY <2>4, <2>5
<1>6. h \in BootCalls \cup WorkCalls
  BY <1>0 DEF MayCall
<1> QED
  BY <1>1, <1>2, <1>3, <1>4, <1>5, <1>6 DEF BootCalls, WorkCalls

LEMMA CoverNext ==
  ASSUME TypeOK, TasksOK, ShapeInv, LoadInv, CoverInv, [Next]_vars
  PROVE  CoverInv'
<1>0. room' = room /\ Workers \subseteq Procs /\ Main \in Procs /\ Main \notin Workers
  BY RoomStays, ConstantsOK DEF Procs
<1>1. (Timed' <=> Timed) /\ (Timed => Simple)
  BY <1>0, TimedStays DEF Timed
<1> SUFFICES ASSUME Timed, Plays' PROVE Covered'
  BY <1>1 DEF CoverInv
<1>2. \A q : task[q].todo = <<>> => ~Covers(q)
  BY ListsCall DEF Covers
<1>3. ASSUME UNCHANGED <<live, playback, autoplay, armed, amiss>>, NEW S, ~armed => \A q \in S : task[q].todo = <<>>,
             ~armed => since' = since, \A q \in Procs \ S : task'[q] = task[q]
      PROVE  Covered'
  <2>1. Plays
    BY <1>3 DEF Plays
  <2>2. CASE armed \/ "failed" \in amiss
    BY <1>3, <2>2 DEF Covered
  <2>3. CASE ~armed /\ "failed" \notin amiss
    <3>1. PICK q \in Procs : Covers(q)
      BY <2>1, <2>3 DEF CoverInv, Covered
    <3>2. q \notin S
      BY <1>2, <1>3, <2>3, <3>1
    <3>3. Covers(q)'
      BY <1>3, <2>3, <3>1, <3>2 DEF Covers
    <3> QED
      BY <3>3 DEF Covered
  <2> QED
    BY <2>2, <2>3
<1>3a. ASSUME UNCHANGED <<live, playback, autoplay, armed, since, task, amiss>>
      PROVE  Covered'
  <2>1. Covered
    BY <1>3a DEF Plays, CoverInv
  <2>2. \A q : Covers(q)' <=> Covers(q)
    BY <1>3a DEF Covers
  <2> QED
    BY <1>3a, <2>1, <2>2 DEF Covered
<1>4. ASSUME NEW p \in Procs, Step(p) PROVE Covered'
  BY <1>4, CoverStep
<1>5. ASSUME NEW p \in Procs, Begin(p) PROVE Covered'
  <2>1. UNCHANGED <<live, playback, autoplay, armed, since, amiss>>
    BY <1>5, <1>1, BeginFits DEF storeVars, syncVars, history
  <2>2. task[p].todo = <<>> /\ \A q \in Procs \ {p} : task'[q] = task[q]
    BY <1>5, <1>1, BeginFits
  <2> QED
    BY <1>3, <2>1, <2>2
<1>6. ASSUME NEW p \in Procs, FireTimer(p) PROVE Covered'
  <2>1. since = Debounce
    <3>1. armed /\ left = 0 /\ (armed => left + since >= Debounce)
      BY <1>6, FireFits DEF LoadInv
    <3>2. since \in 0..Debounce /\ Debounce \in Nat
      BY StoreTyped, ConstantsOK
    <3> QED
      BY <3>1, <3>2
  <2>2. Covers(p)'
    BY <1>6, <2>1, FireFits, ListHeads DEF Covers
  <2> QED
    BY <2>2 DEF Covered
<1>6a. ASSUME NEW p \in Procs, CallFails(p) PROVE Covered'
  <2>1. "failed" \in amiss' \/ armed'
    BY <1>6a, FailWrites
  <2> QED
    BY <2>1 DEF Covered
<1>7. ~CheckIdle /\ ~HubComesAndGoes
  <2>1. "IdleMonitor" \notin room.handlers /\ room.attended
    BY DEF Timed, Simple, Started, Stopped
  <2> QED
    BY <2>1 DEF CheckIdle, HubComesAndGoes
<1>8. ASSUME NEW t \in Submitted, Submit(t) PROVE Covered'
  <2>1. UNCHANGED <<live, playback, autoplay, armed, since, task, amiss>>
    BY <1>8 DEF Submit, syncVars, history
  <2> QED
    BY <1>3a, <2>1
<1>9. CASE Tick
  <2>1. \A q \in Procs : task[q].todo = <<>>
    BY <1>9 DEF Tick, Quiet, Free, Simple, Timed
  <2>2. /\ live' = live /\ autoplay' = autoplay /\ armed' = armed
        /\ playback'.playing = playback.playing /\ playback'.track = playback.track
    BY <1>9, TickGives, StoreTyped, OlderKeeps
  <2>3. Plays
    BY <2>2 DEF Plays
  <2>4. amiss' = amiss
    BY <1>9 DEF Tick, history
  <2> QED
    BY <1>2, <2>1, <2>2, <2>3, <2>4 DEF CoverInv, Covered
<1>10. CASE Restart
  <2>1. task' = Booting
    BY <1>10 DEF Restart
  <2>2. task'[Main].todo = StartAutoplayRooms
    BY <2>1, BootingLists
  <2>3. Covers(Main)'
    BY <2>2, ListsCall DEF Covers
  <2> QED
    BY <1>0, <2>3 DEF Covered
<1>11. CASE UNCHANGED vars
  <2>1. UNCHANGED <<live, playback, autoplay, armed, since, task, amiss>>
    BY <1>11 DEF vars, storeVars, syncVars, history
  <2> QED
    BY <1>3a, <2>1
<1> QED
  BY <1>4, <1>5, <1>6, <1>6a, <1>7, <1>8, <1>9, <1>10, <1>11 DEF Next

LEMMA CoverInit == Init => CoverInv
BY DEF Init, CoverInv, Plays, Nothing

\* Where every track is timed, the end of the one that plays is always scheduled once nothing
\* is under way, whatever timers, reports, go-lives, stops, failures and crashes race: each of
\* them goes on to ScheduleAdvance or clears what plays, and no timer is swallowed by the
\* debounce; unless a call failed while no timer was armed, and none has been armed since.
THEOREM EndScheduledAlways == Spec => []EndIsScheduled
<1>1. LearnInv /\ CoverInv => EndIsScheduled
  <2> SUFFICES ASSUME LearnInv, CoverInv, ~Slow, room.attended, NoneTooShort,
                      \/ room.handlers \subseteq {"GoLive", "submit", "autoplay_track_ended"} /\ NoneUnknown
                      \/ room.handlers \subseteq {"autoplay_track_ended", "StopAutoplayRoom"},
                      Quiet, live, playback.playing, autoplay \/ duration[playback.track] > 0
               PROVE  armed \/ "failed" \in amiss
    BY DEF EndIsScheduled, TimedToEnd
  <2>1. duration = Length
    BY DEF LearnInv
  <2>2. Timed /\ Plays
    BY <2>1 DEF Timed, Simple, Started, Stopped, NoneTooShort, NoneUnknown, Plays
  <2>3. \A q \in Procs : ~Covers(q)
    BY ListsCall DEF Quiet, Free, Covers
  <2> QED
    BY <2>2, <2>3 DEF CoverInv, Covered
<1>2. TypeOK /\ TasksOK /\ ShapeInv /\ LoadInv /\ CoverInv /\ [Next]_vars => CoverInv'
  BY CoverNext
<1>3. Spec => []CoverInv
  BY <1>2, CoverInit, ListsKept, TypeCorrect, PTL DEF Spec
<1> QED
  BY <1>1, <1>3, ListsKept, PTL

-----------------------------------------------------------------------------
(* The rate of skips *)

\* An autoplay room of which only ends are reported; it is on unless a stop has got through,
\* or half of it.
Capped == ~Slow /\ OnlyEndsReported
On     == autoplay /\ "unstopped" \notin amiss
OnTime == "stale" \notin amiss

\* How long a track is to play, for its report to count and for its timer to run out.
Least(t) == IF Length[t] > 0 THEN Length[t] - Slack ELSE MinPlay
Full(t)  == IF Length[t] > 0 THEN Length[t] ELSE Fallback

\* What plays has played for long enough.
Played == \/ playback.track = NoTrack \/ playback.age >= Least(playback.track)
          \/ "unread" \in amiss /\ playback.age >= MinPlay

\* The list is one of an advance past the debounce, and one that is to take a track off the
\* air.
Past(cs)   == (Has(cs, "which") \/ Has(cs, "schedule") \/ Has(cs, "clearstate"))
                  /\ ~Has(cs, "debounce") /\ Head(cs) # "unsetautoplay"
Brings(cs) == (Has(cs, "which") \/ Has(cs, "state") \/ Has(cs, "clearstate"))
                  /\ ~Has(cs, "debounce") /\ Head(cs) # "unsetautoplay"

\* What a report or a timer found is still so when its goroutine goes on, or the debounce
\* stops it.
Fresh(l) ==
    l.todo # <<>> =>
        /\ Head(l.todo) = "debounce" => since < Debounce \/ Played
        /\ Head(l.todo) = "verify" => since < Debounce \/ l.ps = playback

\* A goroutine takes a track off the air once it has played.
Waits(l) == (Brings(l.todo) => Played) /\ Fresh(l)

\* The timer does not run out before what plays has played.
InTime == armed => playback.track = NoTrack \/ playback.age + left >= Full(playback.track)

\* Only one goroutine is past the debounce, which will stop any other.
Alone == \A p \in Workers : Past(task[p].todo) =>
             since = 0 /\ ~armed /\ \A q \in Workers : Past(task[q].todo) => p = q

RateInv ==
    Capped =>
        /\ playback.track # NoTrack => playback.playing
        /\ On => Alone
        /\ (On /\ OnTime) => InTime /\ \A p \in Workers : Waits(task[p])

LEMMA RateLists ==
  ASSUME NEW cs \in Seq(Calls), cs # <<>>, Timely(cs)
  PROVE  LET h == Head(cs)
             t == Tail(cs)
         IN  /\ Brings(cs) => Past(cs)
             /\ (Past(t) /\ h \notin {"debounce", "unsetautoplay"}) => Past(cs)
             /\ (Brings(t) /\ h \notin {"debounce", "unsetautoplay"}) => Brings(cs)
             /\ h \in {"pop", "which", "readindex", "state", "clearstate"} => Past(cs) /\ Brings(cs)
             /\ h = "state" => ~Brings(t)
             /\ h = "schedule" => Past(cs) /\ t = <<>>
<1>1. \A call : Has(cs, call) <=> Head(cs) = call \/ Has(Tail(cs), call)
  BY TailHas
<1>2. /\ Head(cs) \in {"pop", "readindex", "state"} => Has(Tail(cs), "schedule") /\ ~Has(Tail(cs), "debounce")
      /\ Head(cs) \in {"pop", "readindex"} => Has(Tail(cs), "state")
      /\ Head(cs) = "state" => ~Has(Tail(cs), "state") /\ ~Has(Tail(cs), "which") /\ ~Has(Tail(cs), "clearstate")
      /\ Head(cs) = "schedule" => Tail(cs) = <<>>
  BY TimelyTail
<1>3. Has(cs, "debounce") => ~Has(cs, "which") /\ ~Has(cs, "clearstate")
  BY DEF Timely, Has
<1>4. Has(cs, "state") => Has(cs, "schedule")
  BY DEF Timely, Has, Later
<1>5. ~Has(<<>>, "debounce")
  BY ListsCall
<1> QED
  BY <1>1, <1>2, <1>3, <1>4, <1>5 DEF Past, Brings

LEMMA PastLists ==
  /\ ~Past(<<>>) /\ ~Past(AdvanceTrack)
  /\ ~Past(Concurrent["autoplay_track_ended"]) /\ ~Past(Concurrent["StopAutoplayRoom"])
  /\ ~Brings(<<>>) /\ ~Brings(AdvanceTrack)
  /\ ~Brings(Concurrent["autoplay_track_ended"]) /\ ~Brings(Concurrent["StopAutoplayRoom"])
<1>1. ~Past(<<>>) /\ ~Past(AdvanceTrack) /\ ~Brings(<<>>) /\ ~Brings(AdvanceTrack)
  BY ListsCall DEF Past, Brings
<1>2. ~Past(Concurrent["autoplay_track_ended"]) /\ ~Brings(Concurrent["autoplay_track_ended"])
  BY HandlersCall DEF Past, Brings
<1>3. ~Past(Concurrent["StopAutoplayRoom"]) /\ ~Brings(Concurrent["StopAutoplayRoom"])
  BY ListHeads DEF Past, Brings
<1> QED
  BY <1>1, <1>2, <1>3

\* A track that has played has played, until the next one starts.
LEMMA PlayedStays ==
  ASSUME TypeOK, NEW p \in Procs, Step(p) \/ CallFails(p), playback' = playback, Played,
         Step(p) => Head(task[p].todo) # "state"
  PROVE  Played'
<1>1. "unread" \in amiss => "unread" \in amiss'
  BY StepKeeps, FailWrites
<1> QED
  BY <1>1 DEF Played

\* A schedule sets the timer to what the track has left, or finds that it has played.
LEMMA RateSchedule ==
  ASSUME TypeOK, TasksOK, ShapeInv, LoadInv, Capped, autoplay, OnTime',
         NEW p \in Procs, Step(p), Head(task[p].todo) = "schedule"
  PROVE  /\ armed' => playback.age + left' >= Full(playback.track)
         /\ Done(p) \/ (Played /\ OnTime)
<1> DEFINE t == task[p].ps.track
           age == task[p].ps.age
           length == IF task[p].length = 0 /\ autoplay THEN Fallback ELSE task[p].length
<1>0. task[p].todo # <<>> /\ Simple /\ task[p] \in Tasks
  BY StepGoesOn, StoreTyped DEF Capped, OnlyEndsReported, Simple, Stopped
<1>6. ScheduleAdvance(p)
  BY ByCall
<1>1. task[p].ps = playback
  BY <1>6 DEF OnTime, ScheduleAdvance
<1>2. t \in Tracks /\ task[p].length = Length[t]
  BY <1>0 DEF LoadInv, Loaded
<1>3. /\ Length[t] \in Nat /\ age \in Nat /\ Slack \in Nat /\ Fallback \in Nat /\ MinPlay \in Nat
      /\ Fallback > 0 /\ MinPlay < Fallback
  <2>1. Length[t] \in Nat /\ Slack \in Nat /\ Fallback \in Nat \ {0} /\ MinPlay \in Nat /\ MinPlay < Fallback
    BY <1>2, ConstantsOK
  <2>2. age \in 0..MaxLength /\ MaxLength \in Nat
    BY <1>0, LocalsTyped, ConstantsOK
  <2> QED
    BY <2>1, <2>2
<1>4. length = Full(t) /\ Full(t) > 0 /\ Full(t) >= Least(t)
  BY <1>2, <1>3 DEF Full, Least
<1>5. Full(t) \in Nat
  BY <1>3 DEF Full
<1>7. CASE age >= length
  <2>1. armed' = FALSE
    BY <1>4, <1>6, <1>7 DEF ScheduleAdvance
  <2>2. Least(t) \in Int
    BY <1>3 DEF Least
  <2>3. age >= Least(t)
    BY <1>3, <1>4, <1>5, <1>7, <2>2
  <2>4. amiss' = {m \in {"stale"} : task[p].ps # playback} \cup amiss
    BY <1>4, <1>6, <1>7 DEF ScheduleAdvance
  <2> QED
    BY <1>1, <2>1, <2>3, <2>4 DEF Played, OnTime
<1>8. CASE ~(age >= length)
  <2>1. left' = length - age /\ Done(p)
    BY <1>4, <1>6, <1>8 DEF ScheduleAdvance
  <2>2. age + left' >= Full(t)
    BY <1>3, <1>4, <1>5, <2>1
  <2> QED
    BY <1>1, <2>1, <2>2
<1> QED
  BY <1>7, <1>8

\* While main starts the rooms no other goroutine is at work.
LEMMA MainRates ==
  ASSUME TypeOK, TasksOK, ShapeInv, LoadInv, Capped, Step(Main) \/ CallFails(Main)
  PROVE  /\ Alone'
         /\ (autoplay' /\ OnTime') => InTime' /\ \A q \in Workers : Waits(task[q])'
<1> DEFINE h == Head(task[Main].todo)
<1>a. Simple /\ Main \in Procs /\ Main \notin Workers /\ Workers \subseteq Procs
  BY ConstantsOK DEF Capped, OnlyEndsReported, Simple, Stopped, Procs
<1>0. task[Main].todo # <<>> /\ h \in BootCalls
  BY <1>a, StepGoesOn, FailGoesOn, ShapeMeans DEF MayCall
<1>1. ~armed /\ \A q \in Workers : task[q].todo = <<>>
  BY <1>0, <1>a DEF ShapeInv
<1>2. \A q \in Workers : task'[q] = task[q] \/ (h = "schedule" /\ task'[q].todo = AdvanceTrack)
  BY <1>a, NextList
<1>3. Alone'
  BY <1>1, <1>2, PastLists DEF Alone
<1>4. ASSUME NEW q \in Workers, task'[q].todo = <<>> PROVE Waits(task[q])'
  BY <1>4, PastLists DEF Waits, Fresh
<1>5. CASE h # "schedule"
  <2>1. ~armed'
    BY <1>0, <1>1, <1>5, <1>a, CallWrites DEF BootCalls
  <2> QED
    BY <1>1, <1>2, <1>3, <1>4, <1>5, <2>1 DEF InTime
<1>6. CASE h = "schedule" /\ CallFails(Main)
  <2>1. ~armed'
    BY <1>6, FailWrites
  <2>2. \A q \in Workers : task'[q] = task[q]
    BY <1>6, <1>a, FailGoesOn DEF GoesOn
  <2> QED
    BY <1>1, <1>3, <1>4, <2>1, <2>2 DEF InTime
<1>7. CASE h = "schedule" /\ Step(Main)
  <2> SUFFICES ASSUME autoplay', OnTime' PROVE InTime' /\ \A q \in Workers : Waits(task[q])'
    BY <1>3
  <2>1. playback' = playback /\ autoplay
    BY <1>7, WritesOnly
  <2>2. InTime'
    BY <1>7, <1>a, <2>1, RateSchedule DEF InTime
  <2>3. ASSUME NEW q \in Workers PROVE Waits(task[q])'
    <3>1. CASE task'[q].todo = <<>>
      BY <1>4, <3>1
    <3>2. CASE task'[q].todo # <<>>
      <4>1. ~Done(Main) /\ task'[q].todo = AdvanceTrack
        BY <1>1, <1>2, <1>a, <3>2, DoneMeans
      <4>2. Played'
        BY <1>7, <1>a, <2>1, <4>1, RateSchedule, PlayedStays
      <4> QED
        BY <4>1, <4>2, PastLists, ListHeads DEF Waits, Fresh
    <3> QED
      BY <3>1, <3>2
  <2> QED
    BY <2>2, <2>3
<1> QED
  BY <1>5, <1>6, <1>7

\* What the call of any other goroutine does to what plays, while the room is on.
LEMMA AirStep ==
  ASSUME TypeOK, TasksOK, ShapeInv, LoadInv, RateInv, Capped, NEW p \in Workers,
         Step(p) \/ CallFails(p), On'
  PROVE  LET cs == task[p].todo
             h  == Head(cs)
         IN  /\ On /\ Alone /\ Simple /\ Stopped /\ p \in Procs /\ p # Main
             /\ cs # <<>> /\ cs \in Seq(Calls) /\ Timely(cs) /\ Prepared(cs)
             /\ task[p] \in Tasks /\ DOMAIN task[p] = {"todo", "ps", "length", "index"}
             /\ h \in WorkCalls \ {"live", "unsetautoplay"}
             /\ h \notin {"state", "clearstate"} => playback' = playback
             /\ h = "state" => playback' \in {playback, Playing(task[p].ps.track)}
             /\ h = "clearstate" => playback' \in {playback, Nothing}
             /\ CallFails(p) => playback' = playback
             /\ h \in {"state", "clearstate", "schedule"} =>
                    since' = since /\ since = 0 /\ ~armed /\ \A q \in Workers \ {p} : ~Past(task[q].todo)
<1> DEFINE cs == task[p].todo
           h  == Head(cs)
<1>a. Simple /\ Stopped /\ p \in Procs /\ p # Main
  BY ConstantsOK DEF Capped, OnlyEndsReported, Simple, Stopped, Procs
<1>0. /\ cs # <<>> /\ cs \in Seq(Calls) /\ Timely(cs) /\ h \in MayCall(p) /\ Prepared(cs)
      /\ task[p] \in Tasks /\ DOMAIN task[p] = {"todo", "ps", "length", "index"}
  <2>1. cs # <<>>
    BY <1>a, StepGoesOn, FailGoesOn
  <2> QED
    BY <1>a, <2>1, ShapeMeans, StoreTyped DEF LoadInv, Tasks
<1>1. h \in WorkCalls \ {"live"}
  BY <1>0, <1>a DEF MayCall
<1>2. h # "unsetautoplay"
  <2>1. Step(p) /\ h = "unsetautoplay" => ~autoplay'
    BY WritesOnly
  <2>2. CallFails(p) /\ h = "unsetautoplay" => "unstopped" \in amiss'
    BY FailWrites
  <2> QED
    BY <2>1, <2>2 DEF On
<1>3. On
  <2>1. autoplay' = autoplay
    BY <1>1, <1>2, <1>a, CallWrites DEF WorkCalls
  <2>2. "unstopped" \in amiss => "unstopped" \in amiss'
    BY <1>1, <1>2, StepKeeps, FailWrites DEF WorkCalls
  <2> QED
    BY <2>1, <2>2 DEF On
<1>4. Alone
  BY <1>3 DEF RateInv
<1>5. h \notin {"state", "clearstate"} => playback' = playback
  BY <1>1, <1>a, CallWrites DEF WorkCalls
<1>6. CallFails(p) => playback' = playback
  BY FailWrites
<1>7. /\ h = "state" => playback' \in {playback, Playing(task[p].ps.track)}
      /\ h = "clearstate" => playback' \in {playback, Nothing}
  BY <1>6, ByCall DEF SetPlaybackState, ClearPlaybackState
<1>8. ASSUME h \in {"state", "clearstate", "schedule"}
      PROVE  since' = since /\ since = 0 /\ ~armed /\ \A q \in Workers \ {p} : ~Past(task[q].todo)
  <2>1. Past(cs)
    BY <1>0, <1>8, RateLists
  <2> QED
    BY <1>4, <1>8, <1>a, <2>1, CallWrites DEF Alone
<1> QED
  BY <1>0, <1>1, <1>2, <1>3, <1>4, <1>5, <1>6, <1>7, <1>8, <1>a

\* A call other than the schedule makes up for no timer that was set wrongly.
LEMMA OnTimeStep ==
  ASSUME TypeOK, NEW p \in Procs, Step(p) \/ CallFails(p), OnTime', Head(task[p].todo) # "schedule"
  PROVE  OnTime
<1>1. Step(p) => amiss \ {"unread", "unstopped"} \subseteq amiss'
  BY StepKeeps
<1>2. CallFails(p) => amiss \subseteq amiss'
  BY FailWrites
<1> QED
  BY <1>1, <1>2 DEF OnTime

LEMMA InTimeStep ==
  ASSUME TypeOK, TasksOK, ShapeInv, LoadInv, RateInv, Capped, NEW p \in Workers,
         Step(p) \/ CallFails(p), On', OnTime'
  PROVE  InTime'
<1> DEFINE h == Head(task[p].todo)
<1>1. /\ On /\ p \in Procs
      /\ h \notin {"state", "clearstate"} => playback' = playback
      /\ h \in {"state", "clearstate"} => ~armed
  BY AirStep
<1>2. CASE h = "schedule" /\ Step(p)
  BY <1>1, <1>2, RateSchedule DEF InTime, On
<1>3. CASE h = "schedule" /\ CallFails(p)
  BY <1>3, FailWrites DEF InTime
<1>4. CASE h \in {"state", "clearstate"}
  <2>1. armed' = armed
    BY <1>1, <1>4, CallWrites
  <2> QED
    BY <1>1, <1>4, <2>1 DEF InTime
<1>5. CASE h \notin {"state", "clearstate", "schedule"}
  <2>1. InTime
    BY <1>1, <1>5, OnTimeStep DEF RateInv
  <2>2. armed' = FALSE \/ (armed' = armed /\ left' = left)
    <3>1. Step(p) /\ h \in {"debounce", "cancel"} => armed' = FALSE \/ (armed' = armed /\ left' = left)
      BY ByCall DEF DebounceAdvance, CancelAdvance
    <3>2. CallFails(p) => armed' = armed /\ left' = left
      BY <1>5, FailWrites
    <3>3. h \notin {"debounce", "cancel"} => armed' = armed /\ left' = left
      BY <1>1, <1>5, CallWrites
    <3> QED
      BY <3>1, <3>2, <3>3
  <2> QED
    BY <1>1, <1>5, <2>1, <2>2 DEF InTime
<1> QED
  BY <1>2, <1>3, <1>4, <1>5

\* A goroutine is past the debounce if it was, or has just got through.
LEMMA PastStep ==
  ASSUME TypeOK, TasksOK, ShapeInv, Simple, NEW p \in Workers, Step(p) \/ CallFails(p),
         Head(task[p].todo) # "unsetautoplay", NEW q \in Workers, Past(task'[q].todo)
  PROVE  /\ Past(task[q].todo) \/ (q = p /\ Head(task[p].todo) = "debounce")
         /\ q = p => Head(task[p].todo) # "schedule"
<1> DEFINE cs == task[p].todo
           h  == Head(cs)
<1>0. p \in Procs /\ q \in Procs /\ p # Main
  BY ConstantsOK DEF Procs
<1>1. cs # <<>> /\ cs \in Seq(Calls) /\ Timely(cs) /\ h \in MayCall(p)
  BY <1>0, StepGoesOn, FailGoesOn, ShapeMeans
<1>2. CASE q # p
  <2>1. task'[q] = task[q]
    BY <1>0, <1>2, NextList, PastLists
  <2> QED
    BY <1>2, <2>1
<1>3. CASE q = p
  <2>1. h \notin {"start", "skip", "rooms", "playbacks", "counts", "judge"}
    BY <1>0, <1>1 DEF MayCall, WorkCalls
  <2>2. task'[q].todo = Tail(cs) \/ h \in {"pop", "which", "readindex"}
    BY <1>0, <1>3, <2>1, NextList, PastLists DEF Turns
  <2>3. CASE task'[q].todo = Tail(cs)
    BY <1>1, <1>3, <2>3, RateLists, PastLists
  <2>4. CASE h \in {"pop", "which", "readindex"}
    BY <1>1, <1>3, <2>4, RateLists
  <2> QED
    BY <2>2, <2>3, <2>4
<1> QED
  BY <1>2, <1>3

LEMMA AloneStep ==
  ASSUME TypeOK, TasksOK, ShapeInv, LoadInv, RateInv, Capped, NEW p \in Workers,
         Step(p) \/ CallFails(p), On'
  PROVE  Alone'
<1> DEFINE h == Head(task[p].todo)
<1>0. /\ Simple /\ Alone /\ p \in Procs /\ Workers \subseteq Procs /\ h # "unsetautoplay"
      /\ task[p].todo # <<>> /\ task[p].todo \in Seq(Calls) /\ Timely(task[p].todo)
  BY AirStep DEF Procs
<1>1. ASSUME NEW q \in Workers, Past(task'[q].todo)
      PROVE  since' = 0 /\ ~armed' /\ \A r \in Workers : Past(task'[r].todo) => q = r
  <2>1. CASE h = "debounce"
    <3>1. DebounceAdvance(p)
      BY <1>0, <2>1, ByCall, FailGoesOn
    <3>2. CASE since < Debounce
      <4>1. Return(p) /\ armed' = armed /\ since' = since
        BY <3>1, <3>2 DEF DebounceAdvance
      <4>2. task'[p].todo = <<>> /\ \A r \in Procs \ {p} : task'[r] = task[r]
        BY <1>0, <4>1, ReturnMeans
      <4> QED
        BY <1>0, <1>1, <4>1, <4>2, PastLists DEF Alone
    <3>3. CASE ~(since < Debounce)
      <4>1. since' = 0 /\ armed' = FALSE
        BY <3>1, <3>3 DEF DebounceAdvance
      <4>2. since # 0
        BY <3>3, ConstantsOK
      <4>3. \A r \in Workers : ~Past(task[r].todo)
        BY <1>0, <4>2 DEF Alone
      <4>4. \A r \in Workers : Past(task'[r].todo) => r = p
        BY <1>0, <4>3, PastStep
      <4> QED
        BY <1>1, <4>1, <4>4
    <3> QED
      BY <3>2, <3>3
  <2>2. CASE h # "debounce"
    <3>1. since' = since /\ \A r \in Workers : Past(task'[r].todo) => Past(task[r].todo)
      BY <1>0, <2>2, PastStep, CallWrites
    <3>2. since = 0 /\ ~armed /\ \A r \in Workers : Past(task[r].todo) => q = r
      BY <1>0, <1>1, <3>1 DEF Alone
    <3>3. h # "schedule"
      <4>1. h = "schedule" => Past(task[p].todo)
        BY <1>0, RateLists
      <4> QED
        BY <1>0, <1>1, <3>2, <4>1, PastStep
    <3>4. ~armed'
      <4>1. Step(p) /\ h = "cancel" => armed' = FALSE
        BY ByCall DEF CancelAdvance
      <4>2. CallFails(p) => armed' = armed
        BY <3>3, FailWrites
      <4>3. h # "cancel" => armed' = armed
        BY <1>0, <2>2, <3>3, CallWrites
      <4> QED
        BY <3>2, <4>1, <4>2, <4>3
    <3> QED
      BY <3>1, <3>2, <3>4
  <2> QED
    BY <2>1, <2>2
<1> QED
  BY <1>1 DEF Alone

\* A goroutine that goes on with a playback state of its own.
LEMMA TakesState ==
  ASSUME TypeOK, NEW p \in Procs, NEW cs, NEW ps, GoOn(p, cs, [task[p] EXCEPT !.ps = ps])
  PROVE  cs # <<>> => task'[p].ps = ps
<1>1. task \in [Procs -> Tasks] /\ DOMAIN task[p] = {"todo", "ps", "length", "index"}
  BY StoreTyped DEF Tasks
<1>2. cs # <<>> => task' = [task EXCEPT ![p] = [[task[p] EXCEPT !.ps = ps] EXCEPT !.todo = cs]]
  BY DEF GoOn
<1>3. [[task[p] EXCEPT !.ps = ps] EXCEPT !.todo = cs].ps = ps
  BY <1>1
<1> QED
  BY <1>1, <1>2, <1>3

\* What the call of an advance that is past the debounce leaves to the others: nothing.
LEMMA LeadWaits ==
  ASSUME TypeOK, TasksOK, ShapeInv, LoadInv, RateInv, Capped, NEW p \in Workers,
         Step(p) \/ CallFails(p), On', OnTime', NEW q \in Workers,
         Head(task[p].todo) \in {"state", "clearstate", "schedule"}
  PROVE  Waits(task[q])'
<1> DEFINE cs == task[p].todo
           h  == Head(cs)
           t  == task'[q].todo
<1>1. /\ On /\ Simple /\ p \in Procs /\ cs # <<>> /\ cs \in Seq(Calls) /\ Timely(cs) /\ Prepared(cs)
      /\ since' = since /\ since = 0 /\ \A r \in Workers \ {p} : ~Past(task[r].todo)
      /\ q \in Procs
  BY AirStep DEF Procs
<1>2. since' < Debounce
  BY <1>1, ConstantsOK
<1>3. Fresh(task[q])'
  BY <1>2 DEF Fresh
<1>4. CASE task'[q] = task[q] /\ q # p
  <2>1. CASE task[q].todo = <<>>
    BY <1>3, <1>4, <2>1, PastLists DEF Waits
  <2>2. CASE task[q].todo # <<>>
    <3>1. task[q].todo \in Seq(Calls) /\ Timely(task[q].todo)
      BY <1>1, <2>2, ShapeMeans
    <3> QED
      BY <1>1, <1>3, <1>4, <2>2, <3>1, RateLists DEF Waits
  <2> QED
    BY <2>1, <2>2
<1>5. CASE t = <<>> \/ t = AdvanceTrack
  BY <1>3, <1>5, PastLists DEF Waits
<1>6. CASE q = p /\ t = Tail(cs) /\ h = "state"
  BY <1>1, <1>3, <1>6, RateLists DEF Waits
<1>7. CASE q = p /\ t = Tail(cs) /\ h = "schedule"
  BY <1>1, <1>5, <1>7, RateLists
<1>8. CASE q = p /\ t = Tail(cs) /\ h = "clearstate"
  <2>1. CASE playback' = Nothing
    BY <1>3, <2>1 DEF Waits, Played, Nothing
  <2>2. CASE playback' = playback
    <3>1. Played
      BY <1>1, <1>8, RateLists, OnTimeStep DEF RateInv, Waits
    <3>2. Played'
      BY <1>1, <1>8, <2>2, <3>1, PlayedStays
    <3> QED
      BY <1>3, <3>2 DEF Waits
  <2> QED
    BY <1>8, <2>1, <2>2, AirStep
<1> QED
  BY <1>1, <1>4, <1>5, <1>6, <1>7, <1>8, NextList DEF Turns

\* What p, and any other goroutine, waits for, after each call of p.
LEMMA WaitsStep ==
  ASSUME TypeOK, TasksOK, LearnInv, ShapeInv, LoadInv, RateInv, Capped, NEW p \in Workers,
         Step(p) \/ CallFails(p), On', OnTime', NEW q \in Workers,
         Head(task[p].todo) \notin {"state", "clearstate", "schedule"}
  PROVE  Waits(task[q])'
<1> DEFINE cs == task[p].todo
           h  == Head(cs)
           t  == task'[q].todo
<1>0. /\ On /\ Simple /\ Stopped /\ p \in Procs /\ q \in Procs /\ cs # <<>> /\ cs \in Seq(Calls)
      /\ Timely(cs) /\ Prepared(cs) /\ task[p] \in Tasks /\ DOMAIN task[p] = {"todo", "ps", "length", "index"}
      /\ h \in WorkCalls \ {"live", "unsetautoplay"} /\ playback' = playback
  BY AirStep DEF Procs
<1>1. OnTime
  BY <1>0, OnTimeStep
<1>2. Waits(task[p]) /\ Waits(task[q])
  BY <1>0, <1>1 DEF RateInv
<1>3. Played => Played'
  BY <1>0, PlayedStays
<1>4. h = "debounce" => DebounceAdvance(p)
  BY <1>0, FailGoesOn, ByCall
<1>5. since' = since \/ since' < Debounce
  <2>1. h # "debounce" => since' = since
    BY <1>0, CallWrites
  <2> QED
    BY <1>4, <2>1, ConstantsOK DEF DebounceAdvance
<1>6. CASE task'[q] = task[q] /\ q # p
  BY <1>0, <1>2, <1>3, <1>5, <1>6 DEF Waits, Fresh
<1>7. CASE t = <<>>
  BY <1>7, PastLists DEF Waits, Fresh
<1>8. CASE q = p /\ t = Tail(cs) /\ t # <<>>
  <2>1. /\ Head(t) = "verify" => h = "report"
        /\ Head(t) = "debounce" => h = "verify"
    BY <1>0, <1>8, PreparedTail
  <2>2. ASSUME Brings(t) PROVE Played'
    <3>1. Brings(cs) \/ h = "debounce"
      BY <1>0, <1>8, <2>2, RateLists
    <3>2. CASE h = "debounce"
      <4>1. since < Debounce => t = <<>>
        BY <1>0, <1>4, <1>8, <3>2, ReturnMeans DEF DebounceAdvance
      <4>2. Played
        BY <1>0, <1>2, <1>8, <3>2, <4>1 DEF Waits, Fresh
      <4> QED
        BY <1>3, <4>2
    <3> QED
      BY <1>2, <1>3, <3>1, <3>2 DEF Waits
  <2>3. ASSUME Head(t) = "verify" PROVE task'[p].ps = playback'
    <3>1. ~Return(p)
      BY <1>0, <1>8, ReturnMeans
    <3>2. CallFails(p) => Return(p)
      BY <2>1, <2>3, AtMeans DEF CallFails, GivesUp, GoesOnWithout, Ignored
    <3>3. ReadReport(p)
      BY <2>1, <2>3, <3>1, <3>2, ByCall
    <3>4. GoOn(p, Tail(cs), [task[p] EXCEPT !.ps = playback])
      BY <3>1, <3>3 DEF ReadReport
    <3>5. Tail(cs) # <<>> => task'[p].ps = playback
      BY <1>0, <3>4, TakesState
    <3> QED
      BY <1>0, <1>8, <3>5
  <2>4. ASSUME Head(t) = "debounce" PROVE since' < Debounce \/ Played'
    <3>1. h = "verify" /\ since' = since
      BY <1>0, <2>1, <2>4, CallWrites
    <3>2. since < Debounce \/ task[p].ps = playback
      BY <1>0, <1>2, <3>1 DEF Waits, Fresh
    <3>3. ~Return(p)
      BY <1>0, <1>8, ReturnMeans
    <3>4. CASE task[p].ps = playback /\ Step(p)
      <4>1. duration = Length
        BY <1>0 DEF LearnInv, Stopped
      <4>2. playback.age >= IF Length[playback.track] > 0 THEN Length[playback.track] - Slack ELSE MinPlay
        BY <3>1, <3>3, <3>4, <4>1, ByCall DEF VerifyEnd
      <4> QED
        BY <1>3, <4>2 DEF Played, Least
    <3>5. CASE task[p].ps = playback /\ CallFails(p)
      <4>1. playback.age >= MinPlay
        BY <3>1, <3>3, <3>5, AtMeans DEF CallFails, GivesUp, GoesOnWithout, Ignored
      <4>2. "unread" \in amiss'
        BY <3>1, <3>5, FailWrites
      <4> QED
        BY <1>0, <4>1, <4>2 DEF Played
    <3> QED
      BY <3>1, <3>2, <3>4, <3>5
  <2> QED
    BY <1>8, <2>2, <2>3, <2>4 DEF Waits, Fresh
<1>9. CASE q = p /\ h = "pop" /\ t = <<"which">>
  <2>1. Played'
    BY <1>0, <1>2, <1>3, <1>9, RateLists DEF Waits
  <2>2. Head(t) = "which"
    BY <1>9
  <2> QED
    BY <1>9, <2>1, <2>2 DEF Waits, Fresh
<1>10. CASE q = p /\ h \in {"which", "readindex"} /\ t \in {AdvanceAutoplay, StopPlaying}
  <2>1. Played'
    BY <1>0, <1>2, <1>3, <1>10, RateLists DEF Waits
  <2>2. Head(t) \in {"readindex", "clearstate"}
    BY <1>10, ListHeads
  <2> QED
    BY <2>1, <2>2 DEF Waits, Fresh
<1>11. CASE q = p /\ Turns(h, t)
  <2>1. h \notin {"skip", "start", "rooms", "playbacks", "counts", "judge"}
    BY <1>0 DEF WorkCalls
  <2> QED
    BY <1>7, <1>9, <1>10, <1>11, <2>1 DEF Turns
<1> QED
  BY <1>0, <1>6, <1>7, <1>8, <1>11, NextList

LEMMA FullIsEnough ==
  ASSUME NEW t \in Tracks
  PROVE  Full(t) \in 1..MaxLength /\ Least(t) \in Int /\ Full(t) >= Least(t)
<1>1. /\ Length[t] \in Nat /\ Length[t] <= MaxLength /\ Slack \in Nat /\ Fallback \in Nat \ {0} /\ MinPlay \in Nat
      /\ MaxLength \in Nat /\ MinPlay < Fallback /\ Fallback < MaxLength
  BY ConstantsOK
<1> QED
  BY <1>1 DEF Full, Least

\* Nothing is paused in such a room.
LEMMA RoomPlays ==
  ASSUME TypeOK, TasksOK, ShapeInv, Simple, NEW p \in Procs, Step(p) \/ CallFails(p),
         playback.track # NoTrack => playback.playing
  PROVE  playback'.track # NoTrack => playback'.playing
<1> DEFINE h == Head(task[p].todo)
<1>1. h \in MayCall(p) /\ (p = Main \/ p \in Workers)
  BY StepGoesOn, FailGoesOn, ShapeMeans
<1>2. h \notin {"save"}
  BY <1>1 DEF MayCall, BootCalls, WorkCalls
<1>3. h \notin {"state", "clearstate"} => playback' = playback
  BY <1>2, CallWrites
<1>4. CallFails(p) => playback' = playback
  BY FailWrites
<1>5. /\ h = "state" /\ Step(p) => playback' = Playing(task[p].ps.track)
      /\ h = "clearstate" /\ Step(p) => playback' = Nothing
  BY ByCall DEF SetPlaybackState, ClearPlaybackState
<1> QED
  BY <1>3, <1>4, <1>5 DEF Playing, Nothing

LEMMA RateNext ==
  ASSUME TypeOK, TasksOK, LearnInv, ShapeInv, LoadInv, RateInv, [Next]_vars
  PROVE  RateInv'
<1>0. room' = room /\ Workers \subseteq Procs /\ Main \in Procs /\ Main \notin Workers
  BY RoomStays, ConstantsOK DEF Procs
<1>1. (Capped' <=> Capped) /\ (Capped => Simple /\ Stopped)
  BY <1>0 DEF Capped, OnlyEndsReported, Simple, Stopped
<1> DEFINE Kept == /\ playback'.track # NoTrack => playback'.playing
                   /\ On' => Alone'
                   /\ (On' /\ OnTime') => InTime' /\ \A q \in Workers : Waits(task[q])'
<1> SUFFICES ASSUME Capped PROVE Kept
  BY <1>1 DEF RateInv
<1>2. /\ playback.track # NoTrack => playback.playing
      /\ On => Alone
      /\ (On /\ OnTime) => InTime /\ \A q \in Workers : Waits(task[q])
  BY DEF RateInv
<1>3. (playback' = playback /\ amiss' = amiss) => (Played' <=> Played) /\ (OnTime' <=> OnTime)
  BY DEF Played, OnTime
<1>4. ASSUME NEW p \in Procs, Step(p) \/ CallFails(p) PROVE Kept
  <2>1. playback'.track # NoTrack => playback'.playing
    BY <1>1, <1>2, <1>4, RoomPlays
  <2>2. p = Main \/ p \in Workers
    BY <1>1, <1>4, StepGoesOn, FailGoesOn, ShapeMeans
  <2>3. CASE p = Main
    BY <1>4, <2>1, <2>3, MainRates DEF On
  <2>4. CASE p \in Workers
    BY <1>4, <2>1, <2>4, InTimeStep, AloneStep, WaitsStep, LeadWaits
  <2> QED
    BY <2>2, <2>3, <2>4
<1>5. ASSUME NEW p \in Workers, UNCHANGED <<playback, autoplay, since, amiss>>, armed' => armed /\ left' = left,
             task[p].todo = <<>>, ~Past(task'[p].todo), (On /\ OnTime) => Waits(task[p])',
             \A q \in Procs \ {p} : task'[q] = task[q]
      PROVE  Kept
  <2>0. (On' <=> On) /\ (OnTime' <=> OnTime) /\ (Played' <=> Played)
    BY <1>5 DEF On, OnTime, Played
  <2>1. (On /\ OnTime) => InTime'
    BY <1>2, <1>5 DEF InTime
  <2>2. On => Alone'
    BY <1>0, <1>2, <1>5 DEF Alone
  <2>3. ASSUME On, OnTime, NEW q \in Workers PROVE Waits(task[q])'
    BY <1>0, <1>2, <1>5, <2>0, <2>3 DEF Waits, Fresh
  <2> QED
    BY <1>2, <1>5, <2>0, <2>1, <2>2, <2>3
<1>6. ASSUME NEW p \in Procs, Begin(p) PROVE Kept
  <2>1. /\ p \in Workers /\ task[p].todo = <<>> /\ UNCHANGED <<storeVars, syncVars, history>>
        /\ \A q \in Procs \ {p} : task'[q] = task[q]
        /\ \A call \in Calls : Has(task'[p].todo, call) => call \in MayCall(p)
        /\ \/ task'[p].todo = Concurrent["GoLive"]
           \/ task'[p].todo \in {Concurrent["autoplay_track_ended"], Concurrent["StopAutoplayRoom"]}
    BY <1>1, <1>6, BeginFits
  <2>2. task'[p].todo # Concurrent["GoLive"]
    <3>1. "live" \in Calls /\ "live" \notin MayCall(p)
      BY <1>0, <1>1, <2>1 DEF Calls, MayCall, WorkCalls
    <3> QED
      BY <2>1, <3>1, HandlersCall
  <2>3. ~Past(task'[p].todo) /\ ~Brings(task'[p].todo)
    BY <2>1, <2>2, PastLists
  <2>4. Head(task'[p].todo) \in {"report", "unsetautoplay"}
    BY <2>1, <2>2, ListHeads
  <2>5. Waits(task[p])'
    BY <2>3, <2>4 DEF Waits, Fresh
  <2>6. UNCHANGED <<playback, autoplay, since, amiss>> /\ armed' = armed /\ left' = left
    BY <2>1 DEF storeVars, syncVars, history
  <2> QED
    BY <1>5, <2>1, <2>3, <2>5, <2>6
<1>7. ASSUME NEW p \in Procs, FireTimer(p) PROVE Kept
  <2>1. /\ p \in Workers /\ task[p].todo = <<>> /\ armed /\ left = 0 /\ task'[p].todo = AdvanceTrack
        /\ armed' = FALSE /\ since' = since /\ \A q \in Procs \ {p} : task'[q] = task[q]
        /\ playback' = playback /\ autoplay' = autoplay /\ amiss' = amiss
    BY <1>7, FireFits DEF storeVars, history
  <2>2. ASSUME On, OnTime PROVE Played
    <3>1. CASE playback.track = NoTrack
      BY <3>1 DEF Played
    <3>2. CASE playback.track # NoTrack
      <4>1. playback.track \in Tracks /\ playback.age \in Nat
        <5>1. playback \in States /\ MaxLength \in Nat
          BY StoreTyped, ConstantsOK
        <5> QED
          BY <3>2, <5>1 DEF States, Ages
      <4>2. playback.age + 0 >= Full(playback.track)
        BY <1>2, <2>1, <2>2, <3>2 DEF InTime
      <4>3. Full(playback.track) \in Nat /\ Least(playback.track) \in Int
            /\ Full(playback.track) >= Least(playback.track)
        BY <4>1, FullIsEnough
      <4> QED
        BY <4>1, <4>2, <4>3 DEF Played
    <3> QED
      BY <3>1, <3>2
  <2>3. (On /\ OnTime) => Waits(task[p])'
    BY <1>3, <2>1, <2>2, PastLists, ListHeads DEF Waits, Fresh
  <2> QED
    BY <1>5, <2>1, <2>3, PastLists
<1>8. ASSUME UNCHANGED <<playback, autoplay, since, armed, left, task, amiss>> PROVE Kept
  BY <1>2, <1>3, <1>8 DEF InTime, Alone, Waits, Fresh, On
<1>9. ~CheckIdle
  <2>1. "IdleMonitor" \notin room.handlers
    BY <1>1 DEF Stopped
  <2> QED
    BY <2>1 DEF CheckIdle
<1>10. ASSUME HubComesAndGoes \/ UNCHANGED vars \/ \E t \in Submitted : Submit(t) PROVE Kept
  <2>1. UNCHANGED <<playback, autoplay, since, armed, left, task, amiss>>
    BY <1>10 DEF HubComesAndGoes, Submit, vars, storeVars, syncVars, history
  <2> QED
    BY <1>8, <2>1
<1>11. ASSUME \A q \in Workers : task'[q].todo = <<>> PROVE Alone' /\ \A q \in Workers : Waits(task[q])'
  BY <1>11, PastLists DEF Alone, Waits, Fresh
<1>12. CASE Tick
  <2>1. \A q \in Workers : task'[q].todo = <<>>
    <3>1. \A q \in Procs : task[q].todo = <<>>
      BY <1>12 DEF Tick, Quiet, Free, Capped
    <3> QED
      BY <1>0, <1>12, <3>1, TickGives
  <2>2. (On' /\ OnTime') => (armed => playback.track = NoTrack \/ playback.age + left >= Full(playback.track))
    <3>1. autoplay' = autoplay /\ amiss' = amiss
      BY <1>12 DEF Tick, history
    <3> QED
      BY <1>2, <3>1 DEF InTime, On, OnTime
  <2>3. /\ playback \in States /\ MaxLength \in Nat /\ left \in 0..MaxLength
        /\ playback.age \in 0..MaxLength /\ playback.track \in Tracks \cup {NoTrack}
    BY StoreTyped, ConstantsOK DEF States, Ages
  <2>4. /\ playback'.track = playback.track /\ playback'.playing = playback.playing
        /\ playback'.age = IF playback.track = NoTrack \/ playback.age = MaxLength THEN playback.age
                           ELSE playback.age + 1
        /\ armed' = armed /\ left' = IF armed /\ left > 0 THEN left - 1 ELSE left
    BY <1>12, <2>3, TickGives, OlderKeeps DEF Tick
  <2>5. ASSUME On', OnTime', armed', playback'.track # NoTrack PROVE playback'.age + left' >= Full(playback'.track)
    <3>1. playback.age + left >= Full(playback.track) /\ Full(playback.track) \in 1..MaxLength
      BY <2>2, <2>3, <2>4, <2>5, FullIsEnough
    <3> QED
      BY <2>3, <2>4, <2>5, <3>1
  <2>6. (On' /\ OnTime') => InTime'
    BY <2>4, <2>5 DEF InTime
  <2> QED
    BY <1>2, <1>11, <2>1, <2>4, <2>6
<1>13. CASE Restart
  <2>1. task' = Booting /\ armed' = FALSE /\ playback' = playback
    BY <1>13 DEF Restart
  <2>2. \A q \in Workers : task'[q].todo = <<>>
    BY <1>0, <2>1, BootingLists
  <2>3. InTime'
    BY <2>1 DEF InTime
  <2> QED
    BY <1>2, <1>11, <2>1, <2>2, <2>3
<1> QED
  BY <1>4, <1>6, <1>7, <1>9, <1>10, <1>12, <1>13 DEF Next

LEMMA RateInit == Init => RateInv
<1> SUFFICES ASSUME Init
             PROVE  playback.track = NoTrack /\ InTime /\ Alone /\ \A q \in Workers : Waits(task[q])
  BY DEF RateInv
<1>1. task = Booting /\ ~armed /\ playback.track = NoTrack
  BY DEF Init, Nothing
<1>2. \A q \in Workers : task[q].todo = <<>>
  BY <1>1, BootingLists, ConstantsOK DEF Procs
<1> QED
  BY <1>1, <1>2, PastLists DEF InTime, Alone, Waits, Fresh

\* No track of an autoplay room goes off the air before it has played, whatever reports of its
\* end, timers, stops, failures and crashes race: a report that came in for the track before is
\* stopped by the debounce, and what starts the next track is the only goroutine past it.  What
\* a failed read or stop, or a track that was not saved, lets through is what it allows.
THEOREM SkipRateAlways == Spec => SkipRateCapped
<1> DEFINE Early == ~Slow /\ OnlyEndsReported /\ autoplay /\ amiss \cap {"unstopped", "stale"} = {} /\ Free(Main)
                        /\ playback' # playback /\ playback.track # NoTrack /\ playback'.age = 0
           Capable == \/ duration[playback.track] > 0 /\ playback.age >= duration[playback.track] - Slack
                      \/ (duration[playback.track] = 0 \/ "unread" \in amiss) /\ playback.age >= MinPlay
<1>1. TypeOK /\ TasksOK /\ LearnInv /\ ShapeInv /\ LoadInv /\ RateInv /\ [Next]_vars => [Early => Capable]_vars
  <2> SUFFICES ASSUME TypeOK, TasksOK, LearnInv, ShapeInv, LoadInv, RateInv, Next, Early
               PROVE  Capable
    OBVIOUS
  <2>0. /\ duration = Length /\ playback.track \in Tracks /\ Length[playback.track] \in Nat
        /\ Capped /\ Simple /\ Stopped
    <3>1. Capped /\ Simple /\ Stopped
      BY DEF Capped, OnlyEndsReported, Simple, Stopped
    <3>2. duration = Length
      BY <3>1 DEF LearnInv, Stopped
    <3>3. playback.track \in Tracks
      BY StoreTyped DEF States
    <3> QED
      BY <3>1, <3>2, <3>3, ConstantsOK
  <2>1. Played => Capable
    BY <2>0 DEF Played, Least
  <2>2. ASSUME NEW p \in Procs, Step(p) PROVE Played
    <3> DEFINE cs == task[p].todo
               h  == Head(cs)
    <3>1. cs # <<>> /\ cs \in Seq(Calls) /\ Timely(cs) /\ h \in MayCall(p) /\ (p = Main \/ p \in Workers)
      BY <2>0, <2>2, StepGoesOn, ShapeMeans
    <3>2. p \in Workers
      BY <3>1 DEF Free
    <3>3. Waits(task[p])
      BY <2>0, <3>2 DEF RateInv, On, OnTime
    <3>4. h # "save"
      BY <3>1 DEF MayCall, BootCalls, WorkCalls
    <3>5. h \in {"state", "clearstate"}
      BY <2>2, <3>4, WritesOnly
    <3> QED
      BY <3>1, <3>3, <3>5, RateLists DEF Waits
  <2>3. ASSUME NEW p \in Procs, Begin(p) \/ FireTimer(p) \/ CallFails(p) PROVE FALSE
    BY <2>3, FailMeans DEF Begin, FireTimer, storeVars
  <2>4. ~CheckIdle /\ ~HubComesAndGoes /\ ~Restart /\ \A t \in Submitted : ~Submit(t)
    BY DEF CheckIdle, HubComesAndGoes, Restart, Submit, storeVars
  <2>5. ~Tick
    <3>1. playback \in States /\ playback.age \in 0..MaxLength
      BY StoreTyped DEF States, Ages
    <3>2. Tick => playback' = Older(playback)
      BY TickGives
    <3>3. Older(playback) # playback => Older(playback).age = playback.age + 1
      BY <3>1, OlderKeeps DEF Older
    <3> QED
      BY <3>1, <3>2, <3>3, ConstantsOK
  <2> QED
    BY <2>1, <2>2, <2>3, <2>4, <2>5 DEF Next
<1>2. TypeOK /\ TasksOK /\ LearnInv /\ ShapeInv /\ LoadInv /\ RateInv /\ [Next]_vars => RateInv'
  BY RateNext
<1>3. Spec => []RateInv
  BY <1>2, RateInit, ListsKept, TypeCorrect, PTL DEF Spec
<1>4. Spec => [][Early => Capable]_vars
  BY <1>1, <1>3, ListsKept, TypeCorrect, PTL DEF Spec
<1> QED
  BY <1>4 DEF SkipRateCapped
=============================================================================
