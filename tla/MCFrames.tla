------------------------------ MODULE MCFrames ------------------------------
(* Small instances of Frames: the rooms. *)
EXTENDS Frames, TLC

CONSTANTS d1, c1, c2, m1

Scene(people, chat, voice, deletes, fails) ==
    [conns |-> people, msgs |-> chat, mic |-> voice, neverLive |-> deletes, flaky |-> fails]
\* Three come and go; two do while Redis fails now and then; one writes in a room that the
\* DJ's departure deletes; a DJ speaks.
Crowd   == Scene({d1, c1, c2}, {}, FALSE, FALSE, FALSE)
Outage  == Scene({c1, c2}, {}, FALSE, FALSE, TRUE)
Talk    == Scene({d1, c1}, {m1}, FALSE, TRUE, FALSE)
Speech  == Scene({d1, c1}, {}, TRUE, FALSE, FALSE)
AllScenes == {Crowd, Outage, Talk, Speech}
OneSpeech == {Speech}
=============================================================================
