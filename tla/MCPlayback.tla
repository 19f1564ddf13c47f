----------------------------- MODULE MCPlayback -----------------------------
(* Small instances of Playback: the tracks and the rooms. *)
EXTENDS Playback, TLC

CONSTANTS t1, t2, r1, r2, w1, w2, w3, h1, h2

NoTracks   == <<>>
BothQueued == <<t1, t2>>
Rotation   == <<r1, r2>>
OneTrack   == <<r1>>
\* One of the submitted tracks is just as long as the debounce.  One of the playlist's has a
\* duration, beyond the minimum time; that of the other is unknown.
Lengths    == (t1 :> 3) @@ (t2 :> 2) @@ (r1 :> 6) @@ (r2 :> 0)
OneLength  == (t1 :> 2) @@ (r1 :> 0)

Room(radio, crowd, traffic, dies, fails) ==
    [autoplay |-> radio, attended |-> crowd, handlers |-> traffic,
     crashes |-> dies, failures |-> fails]
DJRooms == {Room(FALSE, FALSE, {"dj_go_live", "dj_end_room", "submit"}, 0, 1),
            Room(FALSE, FALSE, {"dj_skip", "dj_pause", "dj_resume"}, 0, 1)}
HTTPRoom == Room(FALSE, TRUE, {"GoLive"}, 0, 1)
Radio == Room(TRUE, TRUE, {"autoplay_track_ended", "StopAutoplayRoom"}, 0, 1)

AllRooms == DJRooms \cup {HTTPRoom, Radio}
\* Activations, whose calls may fail; the reports of listeners; restarts of the room, and of
\* the process, that meet learned durations.
AdministeredRadio == {Room(TRUE, FALSE, {"ActivatePlaylist"}, 0, 1),
                      Room(TRUE, FALSE, {"autoplay_track_ended", "report_duration"}, 0, 0),
                      Room(TRUE, FALSE, {"StartAutoplayRoom", "report_duration"}, 1, 0)}
MonitoredRoom == Room(FALSE, TRUE, {"GoLive", "IdleMonitor"}, 0, 0)
Unattended == AdministeredRadio \cup {MonitoredRoom}
GoesLiveOverWS  == {Room(FALSE, TRUE, {"dj_go_live", "dj_skip"}, 0, 0)}
EndsWhileItAdvances == {Room(FALSE, TRUE, {"GoLive", "EndSession"}, 0, 0)}
WorkerSymmetry == Permutations(Workers)
=============================================================================
