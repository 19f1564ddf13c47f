---------------------------- MODULE RoomsProofs ----------------------------
(* Proofs about Rooms, for every set of calls, songs and playlists.        *)
EXTENDS Rooms, FiniteSetTheorems, WellFoundedInduction, TLAPS

\* What a request knows, whatever it has still to do.
Records == [kind : DOMAIN Plan \cup {"none"}, todo : Seq(Steps), room : Ids,
            serial : Ids, tracks : Lists \cup {<<>>}, index : Indices,
            now : Songs \cup {Silence}, fresh : BOOLEAN]

\* The statements that belong neither to the creation of a room nor to the list.
RadioSteps == {"readIndex", "writeIndex", "setNow", "play", "clearHeard", "clearNow", "which",
               "onAir", "offAir", "start", "setLive", "setEnded", "drop", "saveStaged", "unstage",
               "readLive", "saveLive", "readNow", "promote", "reread"}

LEMMA PartsOfPlans ==
  /\ AdvanceAutoplay \in Seq(RadioSteps) /\ StopPlaying \in Seq(RadioSteps)
  /\ StartAutoplayRooms \in Seq(RadioSteps) /\ GoLive \in Seq(RadioSteps)
  /\ EndSession \in Seq(RadioSteps) /\ ShutdownRoom \in Seq(RadioSteps)
  /\ DeleteRoom \in Seq(RadioSteps) /\ SaveStagedPlaylist \in Seq(RadioSteps)
  /\ DeleteStagedPlaylist \in Seq(RadioSteps) /\ UpdateLiveSnippets \in Seq(RadioSteps)
  /\ UpdateLiveTracks \in Seq(RadioSteps) /\ <<"drop">> \in Seq(RadioSteps)
  /\ <<"promote", "reread", "onAir">> \in Seq(RadioSteps)
  /\ <<"readLive", "onAir">> \in Seq(RadioSteps) /\ <<"offAir">> \in Seq(RadioSteps)
BY DEF RadioSteps, AdvanceAutoplay, StopPlaying, StartAutoplayRooms, GoLive, EndSession,
       ShutdownRoom, DeleteRoom, SaveStagedPlaylist, DeleteStagedPlaylist, UpdateLiveSnippets,
       UpdateLiveTracks

\* Concatenating lists of statements makes one of the same statements.
LEMMA ConcatTyped ==
  ASSUME NEW S, NEW s \in Seq(S), NEW t \in Seq(S) PROVE s \o t \in Seq(S)
OBVIOUS

LEMMA RadioPlans ==
  ASSUME NEW k \in DOMAIN Plan \ {"create", "list"} PROVE Plan[k] \in Seq(RadioSteps)
<1>1. ActivatePlaylist \in Seq(RadioSteps)
  BY PartsOfPlans, ConcatTyped DEF ActivatePlaylist
<1>2. StartAutoplayRoom \in Seq(RadioSteps)
  BY PartsOfPlans, ConcatTyped DEF StartAutoplayRoom
<1>3. StopAutoplayRoom \in Seq(RadioSteps)
  BY PartsOfPlans, ConcatTyped DEF StopAutoplayRoom
<1> QED
  BY <1>1, <1>2, <1>3, PartsOfPlans DEF Plan

OtherSteps == {"count", "insert", "peek", "join", "recheck", "build", "keep", "land"}

LEMMA OtherPlans == Create \in Seq(OtherSteps) /\ ListRooms \in Seq(OtherSteps)
BY DEF OtherSteps, Create, ListRooms

LEMMA PlansTyped ==
  ASSUME NEW k \in DOMAIN Plan PROVE Plan[k] \in Seq(Steps)
<1>1. Plan[k] \in Seq(RadioSteps \cup OtherSteps)
  <2>1. CASE k \in {"create", "list"}
    <3>1. Plan[k] \in Seq(OtherSteps)
      BY <2>1, OtherPlans DEF Plan
    <3> QED
      BY <3>1
  <2>2. CASE k \notin {"create", "list"}
    <3>1. Plan[k] \in Seq(RadioSteps)
      BY <2>2, RadioPlans
    <3> QED
      BY <3>1
  <2> QED
    BY <2>1, <2>2
<1>2. \A i \in DOMAIN Plan[k] : Plan[k][i] \in Steps
  BY DEF Steps, Range
<1> HIDE DEF Plan
<1> QED
  BY <1>1, <1>2

LEMMA ListsTyped == \A l \in Lists \cup {<<>>} : l \in Seq(Songs)
<1>1. <<>> \in Seq(Songs)
  OBVIOUS
<1> QED
  BY <1>1, ConstantsOK

LEMMA IndexBounds ==
  /\ 0 \in Indices /\ Indices \subseteq Nat
  /\ \A l \in Lists \cup {<<>>} : 0..Len(l) \subseteq Indices
<1>1. \A l \in Lists \cup {<<>>} : Len(l) \in Nat
  BY ConstantsOK
<1> QED
  BY <1>1 DEF Indices

-----------------------------------------------------------------------------
(* What one step does to the requests *)

\* The requests have a type of their own, for the steps that touch nothing else.
CallsTyped == call \in [Calls -> Records] /\ requests \in Ids

LEMMA NoCallTyped == NoCall \in Records /\ NoCall.todo = <<>>
BY IndexBounds, ConstantsOK DEF NoCall, Records, Ids, Radio

\* A request goes on with its list of statements and leaves the others alone.
LEMMA GoOnMoves ==
  ASSUME CallsTyped, NEW c \in Calls, NEW todo \in Seq(Steps), NEW known \in Records,
         GoOn(c, todo, known)
  PROVE  /\ CallsTyped' /\ requests' = requests
         /\ call'[c].todo = todo /\ \A d \in Calls \ {c} : call'[d] = call[d]
         /\ todo # <<>> => call'[c] = [known EXCEPT !.todo = todo]
BY NoCallTyped DEF CallsTyped, GoOn, Records

LEMMA ProceedMoves ==
  ASSUME CallsTyped, NEW c \in Calls, call[c].todo # <<>>, NEW known \in Records,
         Proceed(c, known)
  PROVE  /\ CallsTyped' /\ requests' = requests
         /\ call'[c].todo = Tail(call[c].todo) /\ \A d \in Calls \ {c} : call'[d] = call[d]
         /\ Tail(call[c].todo) # <<>> => call'[c] = [known EXCEPT !.todo = Tail(call[c].todo)]
<1> DEFINE rest == Tail(call[c].todo)
<1>1. rest \in Seq(Steps)
  BY DEF CallsTyped, Records
<1>2. GoOn(c, rest, known)
  BY DEF Proceed
<1> HIDE DEF rest
<1>3. /\ CallsTyped' /\ requests' = requests
      /\ call'[c].todo = rest /\ \A d \in Calls \ {c} : call'[d] = call[d]
      /\ rest # <<>> => call'[c] = [known EXCEPT !.todo = rest]
  BY <1>1, <1>2, GoOnMoves
<1> QED
  BY <1>3 DEF rest

LEMMA FinishMoves ==
  ASSUME CallsTyped, NEW c \in Calls, Finish(c)
  PROVE  /\ CallsTyped' /\ requests' = requests
         /\ call'[c] = NoCall /\ call'[c].todo = <<>>
         /\ \A d \in Calls \ {c} : call'[d] = call[d]
BY NoCallTyped DEF CallsTyped, Finish

LEMMA OvertakeMoves ==
  ASSUME CallsTyped, NEW c \in Calls, NEW todo \in Seq(Steps),
         Overtake(c, todo, call[c])
  PROVE  /\ CallsTyped' /\ requests' = requests
         /\ call'[c].todo = todo
         /\ \A d \in Calls \ {c} : call'[d].todo = call[d].todo
<1>1. ASSUME NEW d \in Calls
      PROVE  /\ call'[d] \in Records
             /\ call'[d].todo = IF d = c THEN todo ELSE call[d].todo
  BY NoCallTyped DEF CallsTyped, Overtake, Records
<1> QED
  BY <1>1 DEF CallsTyped, Overtake

LEMMA WritingMoves ==
  ASSUME CallsTyped, torn \in BOOLEAN, NEW c \in Calls, call[c].todo # <<>>, Writing(c)
  PROVE  /\ CallsTyped' /\ requests' = requests /\ torn' \in BOOLEAN
         /\ call'[c].todo = Tail(call[c].todo)
         /\ \A d \in Calls \ {c} : call'[d].todo = call[d].todo
<1>1. Tail(call[c].todo) \in Seq(Steps)
  BY DEF CallsTyped, Records
<1>2. Overtake(c, Tail(call[c].todo), call[c])
  BY DEF Writing
<1>3. torn' \in BOOLEAN
  BY DEF Writing, CallsTyped, Records
<1> QED
  BY <1>1, <1>2, <1>3, OvertakeMoves

\* The lists of statements that a request goes on with.
LEMMA RestartSteps ==
  AdvanceAutoplay \in Seq(Steps) /\ StopPlaying \in Seq(Steps) /\ <<"drop">> \in Seq(Steps)
<1>1. "advance" \in DOMAIN Plan /\ Plan["advance"] = AdvanceAutoplay
  BY DEF Plan
<1>2. "remove" \in DOMAIN Plan /\ Plan["remove"] = <<"clearNow", "clearHeard", "drop">>
  BY DEF Plan, DeleteRoom
<1>3. Plan["remove"] \in Seq(Steps) /\ AdvanceAutoplay \in Seq(Steps)
  BY <1>1, <1>2, PlansTyped
<1>4. {"clearNow", "clearHeard", "drop"} \subseteq Steps
  <2>1. \A i \in 1..3 : Plan["remove"][i] \in Steps
    BY <1>2, <1>3
  <2> QED
    BY <1>2, <2>1
<1> QED
  BY <1>3, <1>4 DEF StopPlaying

LEMMA LandStep == <<"land">> \in Seq(Steps)
<1>1. "list" \in DOMAIN Plan /\ Plan["list"] = ListRooms
  BY DEF Plan
<1>2. ListRooms \in Seq(Steps)
  BY <1>1, PlansTyped
<1>3. ListRooms[6] \in Steps
  BY <1>2 DEF ListRooms
<1> QED
  BY <1>3 DEF ListRooms

-----------------------------------------------------------------------------
(* Types *)

\* The rest of the type invariant.
RowsTyped ==
    /\ rooms \subseteq Ids /\ live \subseteq rooms /\ ended \subseteq rooms
    /\ autoplay \in BOOLEAN /\ uncounted \in Nat
RadioTyped ==
    /\ playlist \in [{"live", "staged"} -> Playlists]
    /\ now \in Songs \cup {Silence} /\ heard \in Songs \cup {Silence}
    /\ torn \in BOOLEAN
ListTyped == cached \in BOOLEAN /\ flight \in Calls \cup {Nobody}

LEMMA TypeParts == TypeOK <=> CallsTyped /\ RowsTyped /\ RadioTyped /\ ListTyped
BY DEF TypeOK, CallsTyped, RowsTyped, RadioTyped, ListTyped, Records

LEMMA StaysTyped ==
  /\ RowsTyped /\ UNCHANGED <<rowVars, uncounted>> => RowsTyped'
  /\ RadioTyped /\ UNCHANGED <<playlist, now, heard>> /\ torn' \in BOOLEAN => RadioTyped'
  /\ ListTyped /\ UNCHANGED listVars => ListTyped'
BY DEF RowsTyped, RadioTyped, ListTyped, rowVars, listVars

LEMMA RecordsKnow ==
  ASSUME NEW r \in Records, NEW i \in Indices, NEW l \in Lists \cup {<<>>},
         NEW t \in Songs \cup {Silence}, NEW b \in BOOLEAN
  PROVE  /\ [r EXCEPT !.now = t] \in Records
         /\ [r EXCEPT !.fresh = b] \in Records
         /\ [r EXCEPT !.index = i, !.fresh = b] \in Records
         /\ [[r EXCEPT !.index = i, !.fresh = b] EXCEPT !.tracks = l] \in Records
         /\ [r EXCEPT !.index = i, !.now = t, !.fresh = b] \in Records
BY DEF Records

\* A set of numbers has a least one.
LEMMA LeastOf ==
  ASSUME NEW T \in SUBSET Nat, T # {}
  PROVE  \E x \in T : \A y \in T : ~ y < x
<1> DEFINE R == OpToRel(<, Nat)
<1>1. ASSUME NEW x \in Nat, NEW y \in Nat, y < x PROVE <<y, x>> \in R
  BY <1>1 DEF OpToRel
<1>2. IsWellFoundedOn(R, Nat)
  BY NatLessThanWellFounded
<1> HIDE DEF R
<1>3. PICK x \in T : \A y \in T : <<y, x>> \notin R
  BY <1>2, WFMin
<1>4. \A y \in T : ~ y < x
  BY <1>1, <1>3
<1> QED
  BY <1>3, <1>4

\* The row that the edit of a live list goes on from is a row of the list, or none.
LEMMA ReconciledTyped ==
  ASSUME NEW l \in Lists \cup {<<>>}, NEW t, NEW i \in Indices
  PROVE  Reconciled(l, t, i) \in Indices
<1>1. l \in Seq(Songs)
  BY ListsTyped
<1>2. CASE t \in Range(l)
  <2> DEFINE T == {j \in DOMAIN l : l[j] = t}
  <2>1. T # {} /\ T \subseteq Nat
    BY <1>1, <1>2 DEF Range
  <2>2. PICK j \in T : \A k \in T : ~ k < j
    BY <2>1, LeastOf
  <2>3. j \in DOMAIN l /\ l[j] = t /\ \A k \in 1..(j - 1) : l[k] # t
    BY <1>1, <2>2
  <2>4. First(l, t) \in DOMAIN l
    BY <2>3 DEF First
  <2>5. First(l, t) \in 0..Len(l)
    BY <1>1, <2>4
  <2> QED
    BY <1>2, <2>5, IndexBounds DEF Reconciled
<1>3. CASE t \notin Range(l)
  <2>1. Len(l) \in 0..Len(l)
    BY <1>1
  <2> QED
    BY <1>3, <2>1, IndexBounds DEF Reconciled
<1> QED
  BY <1>2, <1>3

\* A song at some row of a list.
LEMMA RowOfList ==
  ASSUME NEW l \in Lists \cup {<<>>}, l # <<>>, NEW i \in Indices
  PROVE  (i % Len(l)) + 1 \in Indices /\ l[(i % Len(l)) + 1] \in Songs
<1>1. l \in Seq(Songs)
  BY ListsTyped
<1>2. Len(l) \in Nat /\ Len(l) > 0 /\ DOMAIN l = 1..Len(l)
  BY <1>1
<1>3. i \in Nat
  BY IndexBounds
<1>4. (i % Len(l)) + 1 \in 1..Len(l)
  BY <1>2, <1>3
<1>5. (i % Len(l)) + 1 \in 0..Len(l)
  BY <1>2, <1>4
<1> HIDE DEF Indices
<1> QED
  BY <1>1, <1>2, <1>4, <1>5, IndexBounds

\* What the statements that write the playlists write.
LEMMA PlaylistsTyped ==
  ASSUME NEW p \in [{"live", "staged"} -> Playlists], NEW l \in Lists \cup {<<>>}, NEW i \in Indices
  PROVE  /\ NoList \in Playlists
         /\ [p EXCEPT !["staged"] = Listing(l, @.index)] \in [{"live", "staged"} -> Playlists]
         /\ [p EXCEPT !["staged"] = NoList] \in [{"live", "staged"} -> Playlists]
         /\ [p EXCEPT !["live"] = Listing(l, i)] \in [{"live", "staged"} -> Playlists]
         /\ [p EXCEPT !["live"].index = i] \in [{"live", "staged"} -> Playlists]
         /\ [p["staged"] EXCEPT !.index = 0] \in Playlists
         /\ [s \in DOMAIN p |-> NoList] \in [{"live", "staged"} -> Playlists]
<1>1. NoList \in Playlists /\ \A j \in Indices : Listing(l, j) \in Playlists
  BY IndexBounds DEF NoList, Listing, Playlists
<1>2. p["staged"] \in Playlists /\ p["live"] \in Playlists
  OBVIOUS
<1>3. p["staged"].index \in Indices
  BY <1>2 DEF Playlists
<1>4. [p["staged"] EXCEPT !.index = 0] \in Playlists /\ [p["live"] EXCEPT !.index = i] \in Playlists
  BY <1>2, IndexBounds DEF Playlists
<1> HIDE DEF Playlists, Indices
<1> QED
  BY <1>1, <1>2, <1>3, <1>4

LEMMA InitTyped == Init => TypeOK
<1> SUFFICES ASSUME Init PROVE TypeOK
  OBVIOUS
<1>1. CallsTyped
  BY NoCallTyped, ConstantsOK DEF Init, CallsTyped, Ids
<1>2. RowsTyped
  BY ConstantsOK DEF Init, RowsTyped, Ids, Radio
<1>3. ListTyped
  BY DEF Init, ListTyped
<1>4. PICK l \in Lists :
        /\ l # <<>>
        /\ playlist = [live   |-> IF autoplay THEN Listing(l, 1) ELSE NoList,
                       staged |-> IF autoplay THEN NoList ELSE Listing(l, 0)]
  BY DEF Init
<1>5. l \in Seq(Songs) /\ l[1] \in Songs /\ 1 \in 0..Len(l)
  BY <1>4, ListsTyped
<1>6. 1 \in Indices
  BY <1>5, IndexBounds
<1>7. NoList \in Playlists /\ Listing(l, 1) \in Playlists /\ Listing(l, 0) \in Playlists
  BY <1>6, IndexBounds DEF Playlists, NoList, Listing
<1>8. heard \in Songs \cup {Silence} /\ now = heard
  BY <1>4, <1>5 DEF Init, Listing
<1>9. RadioTyped
  <2>1. \A p, q \in Playlists : [live |-> p, staged |-> q] \in [{"live", "staged"} -> Playlists]
    OBVIOUS
  <2>2. playlist \in [{"live", "staged"} -> Playlists]
    BY <1>4, <1>7, <2>1
  <2> QED
    BY <1>8, <2>2 DEF Init, RadioTyped
<1> QED
  BY <1>1, <1>2, <1>3, <1>9, TypeParts

\* A statement of a request keeps the types.  Most leave the playlists alone.
LEMMA StatementTyped ==
  ASSUME TypeOK, NEW c \in Calls, Statement(c) PROVE TypeOK'
<1>1. CallsTyped /\ RowsTyped /\ RadioTyped /\ ListTyped /\ torn \in BOOLEAN
  BY TypeParts DEF RadioTyped
<1>2. call[c] \in Records
  BY <1>1 DEF CallsTyped
<1> SUFFICES CallsTyped' /\ RowsTyped' /\ RadioTyped' /\ ListTyped'
  BY TypeParts, PTL
<1>. USE DEF At
<1>3. ASSUME Count(c) PROVE CallsTyped' /\ RowsTyped' /\ RadioTyped' /\ ListTyped'
  BY <1>1, <1>2, <1>3, FinishMoves, ProceedMoves, StaysTyped DEF Count, radioVars
<1>4. ASSUME Insert(c) PROVE CallsTyped' /\ RowsTyped' /\ RadioTyped' /\ ListTyped'
  <2>1. CallsTyped' /\ call[c].serial \in Ids
    BY <1>1, <1>2, <1>4, ProceedMoves DEF Insert, Records
  <2> QED
    BY <1>1, <1>4, <2>1, StaysTyped DEF Insert, radioVars, RowsTyped
<1>5. ASSUME SetLive(c) PROVE CallsTyped' /\ RowsTyped' /\ RadioTyped' /\ ListTyped'
  <2>1. CallsTyped'
    BY <1>1, <1>2, <1>5, ProceedMoves DEF SetLive
  <2> QED
    BY <1>1, <1>5, <2>1, StaysTyped DEF SetLive, radioVars, RowsTyped
<1>6. ASSUME SetEnded(c) PROVE CallsTyped' /\ RowsTyped' /\ RadioTyped' /\ ListTyped'
  <2>1. CallsTyped'
    BY <1>1, <1>2, <1>6, ProceedMoves, FinishMoves DEF SetEnded
  <2> QED
    BY <1>1, <1>6, <2>1, StaysTyped DEF SetEnded, radioVars, RowsTyped
<1>7. ASSUME Drop(c) PROVE CallsTyped' /\ RowsTyped' /\ RadioTyped' /\ ListTyped'
  <2>1. CallsTyped' /\ torn' \in BOOLEAN
    BY <1>1, <1>2, <1>7, ProceedMoves, WritingMoves DEF Drop
  <2>2. RowsTyped'
    BY <1>1, <1>7 DEF Drop, RowsTyped
  <2>3. playlist' \in [{"live", "staged"} -> Playlists]
    <3>1. [s \in DOMAIN playlist |-> NoList] \in [{"live", "staged"} -> Playlists]
      BY <1>1, PlaylistsTyped, IndexBounds DEF RadioTyped
    <3> QED
      BY <1>1, <1>7, <3>1 DEF Drop, RadioTyped
  <2>4. RadioTyped'
    BY <1>1, <1>7, <2>1, <2>3 DEF Drop, RadioTyped
  <2> QED
    BY <1>1, <1>7, <2>1, <2>2, <2>4, StaysTyped DEF Drop
<1>8. ASSUME SetRoomAutoplay(c) PROVE CallsTyped' /\ RowsTyped' /\ RadioTyped' /\ ListTyped'
  <2>1. CallsTyped'
    BY <1>1, <1>2, <1>8, ProceedMoves DEF SetRoomAutoplay
  <2> QED
    BY <1>1, <1>8, <2>1, StaysTyped DEF SetRoomAutoplay, radioVars, RowsTyped
<1>9. ASSUME SaveStaged(c) \/ Unstage(c) PROVE CallsTyped' /\ RowsTyped' /\ RadioTyped' /\ ListTyped'
  <2>1. CallsTyped' /\ call[c].tracks \in Lists \cup {<<>>}
    BY <1>1, <1>2, <1>9, ProceedMoves DEF SaveStaged, Unstage, Records
  <2>2. /\ [playlist EXCEPT !["staged"] = Listing(call[c].tracks, @.index)]
              \in [{"live", "staged"} -> Playlists]
        /\ [playlist EXCEPT !["staged"] = NoList] \in [{"live", "staged"} -> Playlists]
    BY <1>1, <2>1, PlaylistsTyped, IndexBounds DEF RadioTyped
  <2>3. RadioTyped'
    BY <1>1, <1>9, <2>1, <2>2 DEF SaveStaged, Unstage, RadioTyped
  <2> QED
    BY <1>1, <1>9, <2>1, <2>3, StaysTyped DEF SaveStaged, Unstage
<1>10. ASSUME ReadLive(c) \/ ReadNow(c) PROVE CallsTyped' /\ RowsTyped' /\ RadioTyped' /\ ListTyped'
  <2>1. playlist["live"].index \in Indices /\ playlist["live"].tracks \in Lists \cup {<<>>}
    BY <1>1 DEF RadioTyped, Playlists
  <2>2. /\ [call[c] EXCEPT !.index = playlist["live"].index, !.fresh = TRUE] \in Records
        /\ [[call[c] EXCEPT !.index = playlist["live"].index, !.fresh = TRUE]
               EXCEPT !.tracks = playlist["live"].tracks] \in Records
        /\ [call[c] EXCEPT !.now = now] \in Records
    BY <1>1, <1>2, <2>1, RecordsKnow DEF RadioTyped
  <2>3. CallsTyped'
    BY <1>1, <1>2, <1>10, <2>2, FinishMoves, ProceedMoves DEF ReadLive, ReadNow
  <2> QED
    BY <1>1, <1>10, <2>3, StaysTyped DEF ReadLive, ReadNow, radioVars
<1>11. ASSUME SaveLive(c) PROVE CallsTyped' /\ RowsTyped' /\ RadioTyped' /\ ListTyped'
  <2>1. call[c].tracks \in Lists \cup {<<>>} /\ call[c].index \in Indices
    BY <1>2 DEF Records
  <2>2. Reconciled(call[c].tracks, call[c].now, call[c].index) \in Indices
    BY <2>1, ReconciledTyped
  <2>3. CallsTyped' /\ torn' \in BOOLEAN
    BY <1>1, <1>11, WritingMoves DEF SaveLive
  <2>4. PICK i \in Indices : playlist' = [playlist EXCEPT !["live"] = Listing(call[c].tracks, i)]
    BY <1>11, <2>1, <2>2 DEF SaveLive
  <2>5. [playlist EXCEPT !["live"] = Listing(call[c].tracks, i)] \in [{"live", "staged"} -> Playlists]
    BY <1>1, <2>1, PlaylistsTyped DEF RadioTyped
  <2>6. RadioTyped'
    BY <1>1, <1>11, <2>3, <2>4, <2>5 DEF SaveLive, RadioTyped
  <2> QED
    BY <1>1, <1>11, <2>3, <2>6, StaysTyped DEF SaveLive
<1>12. ASSUME Promote(c) PROVE CallsTyped' /\ RowsTyped' /\ RadioTyped' /\ ListTyped'
  <2>1. CallsTyped' /\ torn' \in BOOLEAN
    BY <1>1, <1>12, WritingMoves DEF Promote
  <2>2. /\ NoList \in Playlists /\ [playlist["staged"] EXCEPT !.index = 0] \in Playlists
    BY <1>1, PlaylistsTyped, IndexBounds DEF RadioTyped
  <2>3. \A p, q \in Playlists : [live |-> p, staged |-> q] \in [{"live", "staged"} -> Playlists]
    OBVIOUS
  <2>4. playlist' \in [{"live", "staged"} -> Playlists]
    BY <1>12, <2>2, <2>3 DEF Promote
  <2> QED
    BY <1>1, <1>12, <2>1, <2>4, StaysTyped DEF Promote, RadioTyped
<1>13. ASSUME Reread(c) \/ Which(c) \/ Peek(c) \/ Recheck(c) \/ Build(c)
       PROVE CallsTyped' /\ RowsTyped' /\ RadioTyped' /\ ListTyped'
  <2>1. <<"land">> \in Seq(Steps)
    BY LandStep
  <2>2. CallsTyped'
    BY <1>1, <1>2, <1>13, <2>1, FinishMoves, ProceedMoves, GoOnMoves
       DEF Reread, Which, Peek, Recheck, Build
  <2> QED
    BY <1>1, <1>13, <2>2, StaysTyped DEF Reread, Which, Peek, Recheck, Build, radioVars
<1>14. ASSUME ClearHeard(c) \/ ClearNow(c) PROVE CallsTyped' /\ RowsTyped' /\ RadioTyped' /\ ListTyped'
  <2>1. CallsTyped' /\ torn' \in BOOLEAN
    BY <1>1, <1>2, <1>14, ProceedMoves, WritingMoves DEF ClearHeard, ClearNow
  <2> QED
    BY <1>1, <1>14, <2>1, StaysTyped DEF ClearHeard, ClearNow, RadioTyped
<1>15. ASSUME Start(c) PROVE CallsTyped' /\ RowsTyped' /\ RadioTyped' /\ ListTyped'
  <2>1. AdvanceAutoplay \in Seq(Steps)
    BY RestartSteps
  <2>2. CallsTyped'
    BY <1>1, <1>2, <1>15, <2>1, FinishMoves, GoOnMoves DEF Start
  <2> QED
    BY <1>1, <1>15, <2>2, StaysTyped DEF Start, radioVars
<1>16. ASSUME ReadIndex(c) PROVE CallsTyped' /\ RowsTyped' /\ RadioTyped' /\ ListTyped'
  <2> DEFINE p == playlist["live"]
             next == (p.index % Len(p.tracks)) + 1
  <2>1. p.index \in Indices /\ p.tracks \in Lists \cup {<<>>}
    BY <1>1 DEF RadioTyped, Playlists
  <2>2. [call[c] EXCEPT !.fresh = TRUE] \in Records
    BY <1>2, <2>1, RecordsKnow
  <2>3. CASE GoOn(c, StopPlaying, [call[c] EXCEPT !.fresh = TRUE])
    <3>1. CallsTyped'
      BY <1>1, <2>2, <2>3, GoOnMoves, RestartSteps
    <3> QED
      BY <1>1, <1>16, <3>1, StaysTyped DEF ReadIndex, radioVars
  <2>4. CASE p.tracks # <<>> /\ Proceed(c, [call[c] EXCEPT !.index = next, !.now = p.tracks[next],
                                                         !.fresh = TRUE])
    <3>1. next \in Indices /\ p.tracks[next] \in Songs
      BY <2>1, <2>4, RowOfList
    <3>2. [call[c] EXCEPT !.index = next, !.now = p.tracks[next], !.fresh = TRUE] \in Records
      BY <1>2, <3>1, RecordsKnow
    <3>3. CallsTyped'
      BY <1>1, <1>16, <2>4, <3>2, ProceedMoves DEF ReadIndex
    <3> QED
      BY <1>1, <1>16, <3>3, StaysTyped DEF ReadIndex, radioVars
  <2> QED
    BY <1>16, <2>3, <2>4 DEF ReadIndex
<1>17. ASSUME WriteIndex(c) PROVE CallsTyped' /\ RowsTyped' /\ RadioTyped' /\ ListTyped'
  <2>1. CallsTyped' /\ torn' \in BOOLEAN /\ call[c].index \in Indices
    BY <1>1, <1>2, <1>17, WritingMoves DEF WriteIndex, Records
  <2>2. RadioTyped'
    BY <1>1, <1>17, <2>1, PlaylistsTyped DEF WriteIndex, RadioTyped
  <2> QED
    BY <1>1, <1>17, <2>1, <2>2, StaysTyped DEF WriteIndex
<1>18. ASSUME SetNow(c) PROVE CallsTyped' /\ RowsTyped' /\ RadioTyped' /\ ListTyped'
  <2>1. CallsTyped' /\ torn' \in BOOLEAN /\ call[c].now \in Songs \cup {Silence}
    BY <1>1, <1>2, <1>18, WritingMoves DEF SetNow, Records
  <2> QED
    BY <1>1, <1>18, <2>1, StaysTyped DEF SetNow, RadioTyped
<1>19. ASSUME Play(c) PROVE CallsTyped' /\ RowsTyped' /\ RadioTyped' /\ ListTyped'
  <2>1. Tail(call[c].todo) \in Seq(Steps) /\ call[c].now \in Songs \cup {Silence}
    BY <1>2, <1>19 DEF Play, Records
  <2>2. CallsTyped'
    BY <1>1, <1>19, <2>1, OvertakeMoves DEF Play
  <2> QED
    BY <1>1, <1>2, <1>19, <2>1, <2>2, StaysTyped DEF Play, RadioTyped, Records
<1>20. ASSUME Join(c) PROVE CallsTyped' /\ RowsTyped' /\ RadioTyped' /\ ListTyped'
  <2>1. <<"wait">> \in Seq(Steps)
    BY DEF Steps
  <2>2. CallsTyped'
    BY <1>1, <1>2, <1>20, <2>1, ProceedMoves, GoOnMoves DEF Join
  <2> QED
    BY <1>1, <1>20, <2>2, StaysTyped DEF Join, radioVars, ListTyped
<1>21. ASSUME Keep(c) PROVE CallsTyped' /\ RowsTyped' /\ RadioTyped' /\ ListTyped'
  <2>1. CallsTyped'
    BY <1>1, <1>2, <1>21, ProceedMoves DEF Keep
  <2> QED
    BY <1>1, <1>21, <2>1, StaysTyped DEF Keep, radioVars, ListTyped
<1>22. ASSUME Land(c) PROVE CallsTyped' /\ RowsTyped' /\ RadioTyped' /\ ListTyped'
  <2>1. CallsTyped'
    BY <1>1, <1>22, NoCallTyped DEF Land, CallsTyped
  <2> QED
    BY <1>1, <1>22, <2>1, StaysTyped DEF Land, radioVars, ListTyped
<1>23. ASSUME Fail(c) PROVE CallsTyped' /\ RowsTyped' /\ RadioTyped' /\ ListTyped'
  <2>1. \A b \in BOOLEAN : [call[c] EXCEPT !.fresh = @ /\ ~b] \in Records
    BY <1>2 DEF Records
  <2>2. PICK b \in BOOLEAN : /\ Finish(c) \/ Proceed(c, [call[c] EXCEPT !.fresh = @ /\ ~b])
                             /\ torn' = (torn \/ b)
    BY <1>23 DEF Fail
  <2>3. CallsTyped'
    BY <1>1, <1>23, <2>1, <2>2, FinishMoves, ProceedMoves DEF Fail
  <2>4. uncounted' \in Nat
    BY <1>1, <1>23 DEF Fail, RowsTyped
  <2> QED
    BY <1>1, <1>23, <2>2, <2>3, <2>4, StaysTyped DEF Fail, RowsTyped, RadioTyped, rowVars
<1> QED
  BY <1>3, <1>4, <1>5, <1>6, <1>7, <1>8, <1>9, <1>10, <1>11, <1>12, <1>13, <1>14, <1>15, <1>16,
     <1>17, <1>18, <1>19, <1>20, <1>21, <1>22, <1>23 DEF Statement

LEMMA BeginTyped ==
  ASSUME TypeOK, NEW c \in Calls, NEW kind \in Kinds, NEW room \in Ids, Begin(c, kind, room)
  PROVE  /\ TypeOK' /\ call'[c].todo \in {<<"drop">>, Plan[kind]}
         /\ \A d \in Calls \ {c} : call'[d] = call[d]
<1>1. CallsTyped /\ RowsTyped /\ RadioTyped /\ ListTyped /\ torn \in BOOLEAN
  BY TypeParts DEF RadioTyped
<1>2. requests + 1 \in Ids
  BY <1>1, ConstantsOK DEF Begin, CallsTyped, Ids
<1> DEFINE todo == IF kind = "remove" /\ room \notin live THEN <<"drop">> ELSE Plan[kind]
<1>3. kind \in DOMAIN Plan /\ todo \in Seq(Steps)
  BY ConstantsOK, PlansTyped, RestartSteps
<1>4. PICK l \in Sent(kind) :
        call' = [call EXCEPT ![c] = [NoCall EXCEPT !.kind = kind, !.room = room, !.tracks = l,
                                                    !.serial = requests + 1, !.todo = todo]]
  BY DEF Begin
<1>5. l \in Lists \cup {<<>>}
  BY DEF Sent
<1>6. todo \in {<<"drop">>, Plan[kind]}
  OBVIOUS
<1> HIDE DEF todo, Plan
<1>7. [NoCall EXCEPT !.kind = kind, !.room = room, !.tracks = l, !.serial = requests + 1, !.todo = todo]
        \in Records
  BY <1>2, <1>3, <1>5, NoCallTyped DEF Records
<1>8. CallsTyped'
  BY <1>1, <1>2, <1>4, <1>7 DEF Begin, CallsTyped
<1>9. RowsTyped' /\ RadioTyped' /\ ListTyped'
  BY <1>1, StaysTyped DEF Begin, radioVars
<1>10. call'[c].todo = todo
  BY <1>1, <1>4, NoCallTyped DEF CallsTyped, Records
<1>11. TypeOK'
  BY <1>8, <1>9, TypeParts, PTL
<1> QED
  BY <1>1, <1>4, <1>6, <1>10, <1>11 DEF CallsTyped

\* Every variable of Rooms keeps its type.
THEOREM TypeCorrect == Spec => []TypeOK
<1>1. Init => TypeOK
  BY InitTyped
<1>2. TypeOK /\ [Next]_vars => TypeOK'
  <2> SUFFICES ASSUME TypeOK, [Next]_vars PROVE TypeOK'
    OBVIOUS
  <2>1. ASSUME NEW c \in Calls, Statement(c) PROVE TypeOK'
    BY <2>1, StatementTyped
  <2>2. ASSUME NEW c \in Calls, NEW kind \in Kinds, NEW room \in Ids, Begin(c, kind, room)
        PROVE TypeOK'
    BY <2>2, BeginTyped
  <2>3. ASSUME Expire PROVE TypeOK'
    BY <2>3 DEF Expire, TypeOK, rowVars, radioVars
  <2>4. ASSUME UNCHANGED vars PROVE TypeOK'
    BY <2>4 DEF vars, TypeOK, rowVars, radioVars, listVars
  <2> QED
    BY <2>1, <2>2, <2>3, <2>4 DEF Next, Rest
<1> QED
  BY <1>1, <1>2, PTL DEF Spec

-----------------------------------------------------------------------------
(* The order of the statements *)

\* What has run when these statements are next, unless a request goes on with them.
Before == [insert |-> "count", recheck |-> "join", build |-> "recheck", keep |-> "build",
           land |-> "keep"]
InOrder(todo) == \A i \in DOMAIN todo :
    todo[i] \in DOMAIN Before => i = 1 \/ todo[i - 1] = Before[todo[i]]
OrderInv == \A c \in Calls : InOrder(call[c].todo)

LEMMA TailInOrder ==
  ASSUME NEW S, NEW todo \in Seq(S), todo # <<>>, InOrder(todo)
  PROVE  /\ InOrder(Tail(todo))
         /\ Tail(todo) # <<>> /\ Head(Tail(todo)) \in DOMAIN Before
              => Head(todo) = Before[Head(Tail(todo))]
<1>1. /\ Tail(todo) \in Seq(S) /\ Len(Tail(todo)) = Len(todo) - 1
      /\ \A i \in 1..(Len(todo) - 1) : Tail(todo)[i] = todo[i + 1]
  OBVIOUS
<1> HIDE DEF Before
<1>2. Tail(todo) # <<>> /\ Head(Tail(todo)) \in DOMAIN Before => Head(todo) = Before[Head(Tail(todo))]
  <2> SUFFICES ASSUME Tail(todo) # <<>>, Head(Tail(todo)) \in DOMAIN Before
               PROVE  Head(todo) = Before[Head(Tail(todo))]
    OBVIOUS
  <2>1. 2 \in DOMAIN todo /\ Head(Tail(todo)) = todo[2] /\ Head(todo) = todo[1]
    BY <1>1
  <2> QED
    BY <2>1 DEF InOrder
<1>3. InOrder(Tail(todo))
  <2> SUFFICES ASSUME NEW i \in DOMAIN Tail(todo), Tail(todo)[i] \in DOMAIN Before, i # 1
               PROVE  Tail(todo)[i - 1] = Before[Tail(todo)[i]]
    BY DEF InOrder
  <2>1. i \in 1..(Len(todo) - 1) /\ i - 1 \in 1..(Len(todo) - 1) /\ i + 1 \in DOMAIN todo
    BY <1>1
  <2>2. Tail(todo)[i] = todo[i + 1] /\ Tail(todo)[i - 1] = todo[i]
    BY <1>1, <2>1
  <2>3. i + 1 # 1 /\ (i + 1) - 1 = i
    BY <2>1
  <2>4. todo[i + 1] \in DOMAIN Before => i + 1 = 1 \/ todo[(i + 1) - 1] = Before[todo[i + 1]]
    BY <2>1 DEF InOrder
  <2> QED
    BY <2>2, <2>3, <2>4
<1> QED
  BY <1>2, <1>3

LEMMA PlansInOrder ==
  /\ \A k \in DOMAIN Plan : /\ InOrder(Plan[k])
                            /\ Plan[k] # <<>> => Head(Plan[k]) \notin DOMAIN Before
  /\ \A todo \in Seq(RadioSteps) : /\ InOrder(todo)
                                   /\ todo # <<>> => Head(todo) \notin DOMAIN Before
<1>1. \A todo \in Seq(RadioSteps) : /\ InOrder(todo)
                                    /\ todo # <<>> => Head(todo) \notin DOMAIN Before
  <2> TAKE todo \in Seq(RadioSteps)
  <2>1. RadioSteps \cap DOMAIN Before = {}
    BY DEF RadioSteps, Before
  <2>2. \A i \in DOMAIN todo : todo[i] \in RadioSteps
    OBVIOUS
  <2>3. todo # <<>> => Head(todo) \in RadioSteps
    OBVIOUS
  <2> QED
    BY <2>1, <2>2, <2>3 DEF InOrder
<1>2. InOrder(Create) /\ InOrder(ListRooms)
  BY DEF InOrder, Create, ListRooms, Before
<1>3. Head(Create) \notin DOMAIN Before /\ Head(ListRooms) \notin DOMAIN Before
  BY DEF Create, ListRooms, Before
<1>4. ASSUME NEW k \in DOMAIN Plan
      PROVE  InOrder(Plan[k]) /\ (Plan[k] # <<>> => Head(Plan[k]) \notin DOMAIN Before)
  <2>1. CASE k \notin {"create", "list"}
    BY <1>1, <2>1, RadioPlans
  <2>2. CASE k \in {"create", "list"}
    BY <1>2, <1>3, <2>2 DEF Plan
  <2> QED
    BY <2>1, <2>2
<1> QED
  BY <1>1, <1>4

\* A statement that does not build the list: the others keep what they have to do, this
\* request goes on with the rest of its own, with that of the radio, or with nothing.
Plain(c) ==
    /\ call[c].todo # <<>> /\ Head(call[c].todo) \notin {"join", "recheck", "build", "keep", "land"}
    /\ UNCHANGED listVars
    /\ \A d \in Calls \ {c} : call'[d].todo = call[d].todo
    /\ call'[c].todo \in {<<>>, Tail(call[c].todo), AdvanceAutoplay, StopPlaying}

LEMMA PlainSteps ==
  ASSUME TypeOK, NEW c \in Calls, Statement(c)
  PROVE  Plain(c) \/ Join(c) \/ Recheck(c) \/ Build(c) \/ Keep(c) \/ Land(c)
<1>1. CallsTyped /\ RowsTyped /\ RadioTyped /\ ListTyped /\ torn \in BOOLEAN
  BY TypeParts DEF RadioTyped
<1>2. call[c] \in Records
  BY <1>1 DEF CallsTyped
<1> USE DEF At
<1>3. ASSUME NEW known \in Records, call[c].todo # <<>>, UNCHANGED listVars,
             Head(call[c].todo) \notin {"join", "recheck", "build", "keep", "land"},
             \/ Finish(c) \/ Proceed(c, known) \/ Writing(c)
             \/ GoOn(c, AdvanceAutoplay, known) \/ GoOn(c, StopPlaying, known)
      PROVE  Plain(c)
  <2>1. CASE Finish(c)
    BY <1>1, <1>3, <2>1, FinishMoves DEF Plain
  <2>2. CASE Proceed(c, known)
    BY <1>1, <1>3, <2>2, ProceedMoves DEF Plain
  <2>3. CASE Writing(c)
    BY <1>1, <1>3, <2>3, WritingMoves DEF Plain
  <2>4. CASE GoOn(c, AdvanceAutoplay, known)
    BY <1>1, <1>3, <2>4, GoOnMoves, RestartSteps DEF Plain
  <2>5. CASE GoOn(c, StopPlaying, known)
    BY <1>1, <1>3, <2>5, GoOnMoves, RestartSteps DEF Plain
  <2> QED
    BY <1>3, <2>1, <2>2, <2>3, <2>4, <2>5
<1>4. ASSUME Count(c) \/ Insert(c) \/ SetLive(c) \/ SetEnded(c) \/ Drop(c) \/ SetRoomAutoplay(c)
      PROVE  Plain(c)
  BY <1>2, <1>3, <1>4 DEF Count, Insert, SetLive, SetEnded, Drop, SetRoomAutoplay
<1>5. ASSUME \/ SaveStaged(c) \/ Unstage(c) \/ SaveLive(c) \/ Promote(c) \/ Reread(c)
             \/ ClearHeard(c) \/ ClearNow(c) \/ Which(c) \/ Start(c) \/ WriteIndex(c) \/ SetNow(c)
             \/ Peek(c)
      PROVE  Plain(c)
  BY <1>2, <1>3, <1>5 DEF SaveStaged, Unstage, SaveLive, Promote, Reread, ClearHeard, ClearNow,
                          Which, Start, WriteIndex, SetNow, Peek, listVars
<1>6. ASSUME ReadLive(c) \/ ReadNow(c) PROVE Plain(c)
  <2>1. playlist["live"].index \in Indices /\ playlist["live"].tracks \in Lists \cup {<<>>}
    BY <1>1 DEF RadioTyped, Playlists
  <2>2. /\ [call[c] EXCEPT !.index = playlist["live"].index, !.fresh = TRUE] \in Records
        /\ [[call[c] EXCEPT !.index = playlist["live"].index, !.fresh = TRUE]
               EXCEPT !.tracks = playlist["live"].tracks] \in Records
        /\ [call[c] EXCEPT !.now = now] \in Records
    BY <1>1, <1>2, <2>1, RecordsKnow DEF RadioTyped
  <2> QED
    BY <1>3, <1>6, <2>2 DEF ReadLive, ReadNow
<1>7. ASSUME ReadIndex(c) PROVE Plain(c)
  <2> DEFINE p == playlist["live"]
             next == (p.index % Len(p.tracks)) + 1
  <2>1. p.index \in Indices /\ p.tracks \in Lists \cup {<<>>}
    BY <1>1 DEF RadioTyped, Playlists
  <2>2. [call[c] EXCEPT !.fresh = TRUE] \in Records
    BY <1>2, <2>1, RecordsKnow
  <2>3. CASE GoOn(c, StopPlaying, [call[c] EXCEPT !.fresh = TRUE])
    BY <1>3, <1>7, <2>2, <2>3 DEF ReadIndex
  <2>4. CASE p.tracks # <<>> /\ Proceed(c, [call[c] EXCEPT !.index = next, !.now = p.tracks[next],
                                                         !.fresh = TRUE])
    <3>1. next \in Indices /\ p.tracks[next] \in Songs
      BY <2>1, <2>4, RowOfList
    <3>2. [call[c] EXCEPT !.index = next, !.now = p.tracks[next], !.fresh = TRUE] \in Records
      BY <1>2, <3>1, RecordsKnow
    <3> QED
      BY <1>3, <1>7, <2>4, <3>2 DEF ReadIndex
  <2> QED
    BY <1>7, <2>3, <2>4 DEF ReadIndex
<1>8. ASSUME Play(c) PROVE Plain(c)
  <2>1. Tail(call[c].todo) \in Seq(Steps)
    BY <1>2, <1>8 DEF Play, Records
  <2> QED
    BY <1>1, <1>8, <2>1, OvertakeMoves DEF Play, Plain
<1>9. ASSUME Fail(c) PROVE Plain(c)
  <2>1. \A b \in BOOLEAN : [call[c] EXCEPT !.fresh = @ /\ ~b] \in Records
    BY <1>2 DEF Records
  <2>2. PICK b \in BOOLEAN : Finish(c) \/ Proceed(c, [call[c] EXCEPT !.fresh = @ /\ ~b])
    BY <1>9 DEF Fail
  <2>3. /\ call[c].todo # <<>> /\ UNCHANGED listVars
        /\ Head(call[c].todo) \notin {"join", "recheck", "build", "keep", "land"}
    BY <1>9 DEF Fail, InMemory
  <2> QED
    BY <1>3, <2>1, <2>2, <2>3
<1> QED
  BY <1>4, <1>5, <1>6, <1>7, <1>8, <1>9 DEF Statement

\* What this request has to do next was next already, or has become so in its order.
LEMMA PlainInOrder ==
  ASSUME TypeOK, OrderInv, NEW c \in Calls, Plain(c)
  PROVE  /\ OrderInv'
         /\ call'[c].todo # <<>> /\ Head(call'[c].todo) \in DOMAIN Before
              => Head(call[c].todo) = Before[Head(call'[c].todo)]
<1>1. call[c].todo \in Seq(Steps) /\ call[c].todo # <<>> /\ InOrder(call[c].todo)
  BY TypeParts DEF CallsTyped, Records, OrderInv, Plain
<1>2. InOrder(<<>>)
  BY DEF InOrder
<1>3. /\ InOrder(call'[c].todo)
      /\ call'[c].todo # <<>> /\ Head(call'[c].todo) \in DOMAIN Before
           => Head(call[c].todo) = Before[Head(call'[c].todo)]
  BY <1>1, <1>2, TailInOrder, PlansInOrder, PartsOfPlans DEF Plain
<1> QED
  BY <1>3 DEF OrderInv, Plain

-----------------------------------------------------------------------------
(* The list is built once per window *)

\* Whoever leads the flight is the one that singleflight remembers, and a leader that
\* builds has seen the cache empty.
Leads(c) == At(c, "recheck") \/ At(c, "build") \/ At(c, "keep") \/ At(c, "land")
FlightInv == \A c \in Calls : Leads(c) => flight = c /\ (Building(c) => ~cached)
ListInv == OrderInv /\ FlightInv

\* Rest of a request in the order of Before, one statement on.
LEMMA ListStepsOnward ==
  ASSUME TypeOK, OrderInv, NEW c \in Calls, call[c].todo # <<>>,
         call'[c].todo \in {<<>>, Tail(call[c].todo), <<"land">>, <<"wait">>},
         \A d \in Calls \ {c} : call'[d].todo \in {<<>>, call[d].todo}
  PROVE  /\ OrderInv'
         /\ call'[c].todo = Tail(call[c].todo) /\ call'[c].todo # <<>>
              /\ Head(call'[c].todo) \in DOMAIN Before
              => Head(call[c].todo) = Before[Head(call'[c].todo)]
<1>1. call[c].todo \in Seq(Steps) /\ InOrder(call[c].todo)
  BY TypeParts DEF CallsTyped, Records, OrderInv
<1>2. InOrder(<<>>) /\ InOrder(<<"land">>) /\ InOrder(<<"wait">>)
  BY DEF InOrder
<1> QED
  BY <1>1, <1>2, TailInOrder DEF OrderInv

\* The statements that build the list.
LEMMA ListMoves ==
  ASSUME CallsTyped, NEW c \in Calls, Join(c) \/ Recheck(c) \/ Build(c) \/ Keep(c) \/ Land(c)
  PROVE  /\ call[c].todo # <<>> /\ Head(call[c].todo) \in {"join", "recheck", "build", "keep", "land"}
         /\ call'[c].todo \in {<<>>, Tail(call[c].todo), <<"land">>, <<"wait">>}
         /\ \A d \in Calls \ {c} : call'[d].todo \in {<<>>, call[d].todo}
<1>1. call[c] \in Records /\ <<"wait">> \in Seq(Steps)
  BY DEF CallsTyped, Steps
<1>2. CASE Land(c)
  BY <1>2, NoCallTyped DEF Land, At, CallsTyped
<1>3. CASE ~Land(c)
  BY <1>1, <1>3, LandStep, ProceedMoves, GoOnMoves DEF Join, Recheck, Build, Keep, At
<1> QED
  BY <1>2, <1>3

LEMMA ListInvStatement ==
  ASSUME TypeOK, ListInv, NEW c \in Calls, Statement(c) PROVE ListInv'
<1>1. CallsTyped /\ call[c] \in Records
  BY TypeParts DEF CallsTyped
<1>2. /\ Before.recheck = "join" /\ Before.build = "recheck" /\ Before.keep = "build"
      /\ Before.land = "keep" /\ DOMAIN Before = {"insert", "recheck", "build", "keep", "land"}
  BY DEF Before
<1>3. CASE Plain(c)
  <2>1. OrderInv'
    BY <1>3, PlainInOrder DEF ListInv
  <2>2. ~Leads(c)'
    BY <1>2, <1>3, PlainInOrder DEF ListInv, Leads, At, Plain
  <2>3. \A d \in Calls \ {c} : (Leads(d)' <=> Leads(d)) /\ (Building(d)' <=> Building(d))
    BY <1>3 DEF Plain, Leads, Building, At
  <2>4. flight' = flight /\ cached' = cached
    BY <1>3 DEF Plain, listVars
  <2> QED
    BY <2>1, <2>2, <2>3, <2>4 DEF ListInv, FlightInv, Building, Leads
<1>4. CASE Join(c)
  <2>1. <<"wait">> \in Seq(Steps)
    BY DEF Steps
  <2>2. /\ call[c].todo # <<>> /\ call'[c].todo \in {Tail(call[c].todo), <<"wait">>}
        /\ \A d \in Calls \ {c} : call'[d] = call[d]
    BY <1>1, <1>4, <2>1, ProceedMoves, GoOnMoves DEF Join, At
  <2>3. OrderInv'
    BY <2>2, ListStepsOnward DEF ListInv
  <2>4. ASSUME NEW d \in Calls \ {c} PROVE (Leads(d)' <=> Leads(d)) /\ (Building(d)' <=> Building(d))
    BY <2>2 DEF Leads, Building, At
  <2>5. CASE flight = Nobody
    <3>1. flight' = c /\ call'[c].todo = Tail(call[c].todo)
      BY <1>1, <1>4, <2>2, <2>5, ProceedMoves DEF Join
    <3>2. Leads(c)' => ~Building(c)'
      BY <1>2, <1>4, <2>2, <3>1, ListStepsOnward DEF ListInv, Leads, Building, Join, At
    <3>3. \A d \in Calls \ {c} : ~Leads(d)'
      BY <2>4, <2>5, ConstantsOK DEF ListInv, FlightInv
    <3> QED
      BY <2>3, <3>1, <3>2, <3>3 DEF ListInv, FlightInv
  <2>6. CASE flight # Nobody
    <3>1. flight' = flight /\ cached' = cached /\ call'[c].todo = <<"wait">>
      BY <1>1, <1>4, <2>1, <2>6, GoOnMoves DEF Join
    <3>2. ~Leads(c)'
      BY <3>1 DEF Leads, At
    <3> QED
      BY <2>3, <2>4, <3>1, <3>2 DEF ListInv, FlightInv
  <2> QED
    BY <2>5, <2>6
<1>5. CASE Recheck(c) \/ Build(c) \/ Keep(c)
  <2>1. /\ call[c].todo # <<>> /\ call'[c].todo \in {Tail(call[c].todo), <<"land">>}
        /\ \A d \in Calls \ {c} : call'[d] = call[d]
    BY <1>1, <1>5, LandStep, ProceedMoves, GoOnMoves DEF Recheck, Build, Keep, At
  <2>2. OrderInv'
    BY <2>1, ListStepsOnward DEF ListInv
  <2>3. Leads(c) /\ flight = c /\ flight' = flight
    BY <1>5 DEF ListInv, FlightInv, Leads, Recheck, Build, Keep, listVars
  <2>4. \A d \in Calls \ {c} : ~Leads(d)'
    BY <2>1, <2>3 DEF ListInv, FlightInv, Leads, At
  <2>5. Building(c)' => ~cached'
    <3>1. CASE Recheck(c)
      <4>1. cached => call'[c].todo = <<"land">>
        BY <1>1, <3>1, LandStep, GoOnMoves DEF Recheck
      <4> QED
        BY <3>1, <4>1 DEF Recheck, Building, At, listVars
    <3>2. CASE Build(c)
      BY <2>3, <3>2 DEF Build, ListInv, FlightInv, Building, listVars
    <3>3. CASE Keep(c)
      <4>1. call'[c].todo = Tail(call[c].todo)
        BY <1>1, <3>3, ProceedMoves DEF Keep, At
      <4> QED
        BY <1>2, <2>1, <3>3, <4>1, ListStepsOnward DEF Keep, ListInv, Building, At
    <3> QED
      BY <1>5, <3>1, <3>2, <3>3
  <2> QED
    BY <2>2, <2>3, <2>4, <2>5 DEF ListInv, FlightInv
<1>6. CASE Land(c)
  <2>1. /\ call[c].todo # <<>> /\ Leads(c)
        /\ \A d \in Calls : /\ call'[d].todo \in {<<>>, call[d].todo}
                            /\ d = c => call'[d].todo = <<>>
    BY <1>1, <1>6, NoCallTyped DEF Land, Leads, At
  <2>2. OrderInv'
    BY <2>1, ListStepsOnward DEF ListInv
  <2>3. \A d \in Calls : ~Leads(d)'
    BY <2>1 DEF ListInv, FlightInv, Leads, At
  <2> QED
    BY <2>2, <2>3 DEF ListInv, FlightInv
<1> QED
  BY <1>3, <1>4, <1>5, <1>6, PlainSteps

LEMMA ListInvStep == TypeOK /\ ListInv /\ [Next]_vars => ListInv'
<1> SUFFICES ASSUME TypeOK, ListInv, [Next]_vars PROVE ListInv'
  OBVIOUS
<1>1. ASSUME NEW c \in Calls, Statement(c) PROVE ListInv'
  BY <1>1, ListInvStatement
<1>2. ASSUME NEW c \in Calls, NEW kind \in Kinds, NEW room \in Ids, Begin(c, kind, room) PROVE ListInv'
  <2>1. /\ call'[c].todo \in {<<"drop">>, Plan[kind]} /\ kind \in DOMAIN Plan
        /\ \A d \in Calls \ {c} : call'[d] = call[d]
    BY <1>2, BeginTyped, ConstantsOK
  <2>2. InOrder(call'[c].todo) /\ (call'[c].todo # <<>> => Head(call'[c].todo) \notin DOMAIN Before)
    BY <2>1, PlansInOrder, PartsOfPlans
  <2>3. {"recheck", "build", "keep", "land"} \subseteq DOMAIN Before
    BY DEF Before
  <2>4. flight' = flight /\ cached' = cached /\ ~Leads(c)'
    BY <1>2, <2>2, <2>3 DEF Begin, listVars, Leads, At
  <2> QED
    BY <2>1, <2>2, <2>4 DEF ListInv, OrderInv, FlightInv, Leads, Building, At
<1>3. ASSUME Expire \/ UNCHANGED vars PROVE ListInv'
  BY <1>3 DEF Expire, vars, listVars, ListInv, OrderInv, FlightInv, Leads, Building, At
<1> QED
  BY <1>1, <1>2, <1>3 DEF Next, Rest

\* The list of rooms is built at most once per window: nobody builds it while another does,
\* or while a good one is cached (rooms.go:285).
THEOREM ListBuiltOnce == Spec => []BuiltOncePerWindow
<1>1. Init => ListInv
  BY DEF Init, ListInv, OrderInv, FlightInv, InOrder, Leads, At, NoCall
<1>2. FlightInv => BuiltOncePerWindow
  BY DEF FlightInv, BuiltOncePerWindow, Leads, Building
<1> QED
  BY <1>1, <1>2, ListInvStep, TypeCorrect, PTL DEF Spec, ListInv

-----------------------------------------------------------------------------
(* The cap on a creator's open rooms *)

Open == rooms \ (ended \cup {Radio})
Inserting == {c \in Calls : At(c, "insert")}

\* The creations that have counted are about to add a room each.
CapInv == Cardinality(Open) + Cardinality(Inserting) <= Cap + Cardinality(Calls) - 1 + uncounted

\* What can be counted, before and after a step.
Countable ==
    /\ IsFiniteSet(Open) /\ Cardinality(Open) \in Nat
    /\ IsFiniteSet(Inserting) /\ Cardinality(Inserting) \in Nat
    /\ Cardinality(Inserting) <= Cardinality(Calls)
    /\ Cardinality(Calls) \in Nat \ {0} /\ Cap \in Nat /\ uncounted \in Nat

LEMMA Counts == TypeOK => Countable
<1> SUFFICES ASSUME TypeOK PROVE Countable
  OBVIOUS
<1>1. IsFiniteSet(Open)
  <2>1. MaxRequests \in Int /\ 0 \in Int
    BY ConstantsOK
  <2>2. IsFiniteSet(Ids)
    BY <2>1, FS_Interval DEF Ids
  <2> QED
    BY <2>2, FS_Subset DEF Open, TypeOK
<1>2. Inserting \in SUBSET Calls
  BY DEF Inserting
<1>3. IsFiniteSet(Inserting) /\ Cardinality(Inserting) <= Cardinality(Calls)
  BY <1>2, FS_Subset, ConstantsOK
<1>4. Cardinality(Calls) \in Nat /\ Cardinality(Calls) # 0
  BY FS_CardinalityType, FS_EmptySet, ConstantsOK
<1> QED
  BY <1>1, <1>3, <1>4, FS_CardinalityType, ConstantsOK DEF TypeOK, Countable

\* A set that grows by at most one element counts at most one more.
LEMMA OneMore ==
  ASSUME NEW S, IsFiniteSet(S), NEW x, NEW T, T \subseteq S \cup {x}
  PROVE  Cardinality(T) <= Cardinality(S) + 1
<1>1. /\ IsFiniteSet(S \cup {x}) /\ Cardinality(S) \in Nat
      /\ Cardinality(S \cup {x}) = IF x \in S THEN Cardinality(S) ELSE Cardinality(S) + 1
  BY FS_AddElement, FS_CardinalityType
<1>2. IsFiniteSet(T) /\ Cardinality(T) <= Cardinality(S \cup {x})
  BY <1>1, FS_Subset
<1>3. Cardinality(T) \in Nat
  BY <1>2, FS_CardinalityType
<1> QED
  BY <1>1, <1>2, <1>3

\* A step that opens no room and counts none.
Idle == Open' \subseteq Open /\ Inserting' \subseteq Inserting /\ uncounted' = uncounted

LEMMA IdleKeepsCap == ASSUME TypeOK, TypeOK', CapInv, Idle PROVE CapInv'
<1>1. Countable /\ Countable'
  BY Counts, PTL
<1>2. Cardinality(Open') <= Cardinality(Open) /\ Cardinality(Inserting') <= Cardinality(Inserting)
  BY <1>1, FS_Subset DEF Idle, Countable
<1> QED
  BY <1>1, <1>2 DEF CapInv, Idle, Countable

\* Only counting, or failing to count, brings a request to its insert.
LEMMA InsertAfterCount ==
  ASSUME TypeOK, OrderInv, NEW c \in Calls, Statement(c)
  PROVE  /\ Inserting' \subseteq Inserting \cup {c}
         /\ At(c, "insert")' => At(c, "count")
<1>1. CallsTyped
  BY TypeParts
<1>2. Before.insert = "count" /\ "insert" \in DOMAIN Before
  BY DEF Before
<1>3. CASE Plain(c)
  BY <1>2, <1>3, PlainInOrder DEF Plain, Inserting, At
<1>4. CASE Join(c) \/ Recheck(c) \/ Build(c) \/ Keep(c) \/ Land(c)
  <2>1. /\ call[c].todo # <<>> /\ Head(call[c].todo) # "count"
        /\ call'[c].todo \in {<<>>, Tail(call[c].todo), <<"land">>, <<"wait">>}
        /\ \A d \in Calls \ {c} : call'[d].todo \in {<<>>, call[d].todo}
    BY <1>1, <1>4, ListMoves
  <2>2. ~At(c, "insert")'
    <3>1. Head(<<"land">>) = "land" /\ Head(<<"wait">>) = "wait"
      OBVIOUS
    <3>2. CASE call'[c].todo \in {<<>>, <<"land">>, <<"wait">>}
      BY <3>1, <3>2 DEF At
    <3>3. CASE call'[c].todo = Tail(call[c].todo)
      BY <1>2, <2>1, <3>3, ListStepsOnward DEF At
    <3> QED
      BY <2>1, <3>2, <3>3
  <2> QED
    BY <2>1, <2>2 DEF Inserting, At
<1> QED
  BY <1>3, <1>4, PlainSteps

\* All the other statements.
LEMMA OtherStatements ==
  ASSUME TypeOK, NEW c \in Calls, Statement(c), ~Count(c), ~Insert(c), ~(Fail(c) /\ At(c, "count"))
  PROVE  ~At(c, "count") /\ Open' \subseteq Open /\ uncounted' = uncounted
<1> USE DEF At, Open
<1>1. CASE SetLive(c) \/ SetEnded(c) \/ Drop(c) \/ SetRoomAutoplay(c)
  BY <1>1 DEF SetLive, SetEnded, Drop, SetRoomAutoplay
<1>2. CASE \/ SaveStaged(c) \/ Unstage(c) \/ ReadLive(c) \/ ReadNow(c) \/ SaveLive(c)
           \/ Promote(c) \/ Reread(c) \/ ClearHeard(c) \/ ClearNow(c) \/ Which(c) \/ Start(c)
  BY <1>2 DEF SaveStaged, Unstage, ReadLive, ReadNow, SaveLive, Promote, Reread, ClearHeard,
              ClearNow, Which, Start, rowVars
<1>3. CASE ReadIndex(c) \/ WriteIndex(c) \/ SetNow(c) \/ Play(c)
  BY <1>3 DEF ReadIndex, WriteIndex, SetNow, Play, rowVars
<1>4. CASE Peek(c) \/ Join(c) \/ Recheck(c) \/ Build(c) \/ Keep(c) \/ Land(c)
  BY <1>4 DEF Peek, Join, Recheck, Build, Keep, Land, rowVars
<1>5. CASE Fail(c)
  BY <1>5 DEF Fail, rowVars
<1> QED
  BY <1>1, <1>2, <1>3, <1>4, <1>5 DEF Statement

LEMMA CapInvStatement ==
  ASSUME TypeOK, TypeOK', OrderInv, CapInv, NEW c \in Calls, Statement(c) PROVE CapInv'
<1>1. CallsTyped /\ call[c] \in Records
  BY TypeParts DEF CallsTyped
<1>2. Countable /\ Countable'
  BY Counts, PTL
<1>3. ~At(c, "count") => Inserting' \subseteq Inserting
  BY InsertAfterCount DEF Inserting
<1>4. CASE Count(c)
  <2>1. Open' = Open /\ uncounted' = uncounted
    BY <1>4 DEF Count, Open, rowVars
  <2>2. CASE Cardinality(Open) >= Cap
    <3>1. Finish(c)
      BY <1>4, <2>2 DEF Count, Open
    <3>2. Inserting' \subseteq Inserting
      BY <1>1, <3>1, FinishMoves DEF Inserting, At
    <3> QED
      BY <2>1, <3>2, IdleKeepsCap DEF Idle
  <2>3. CASE ~(Cardinality(Open) >= Cap)
    BY <1>2, <2>1, <2>3 DEF CapInv, Countable
  <2> QED
    BY <2>2, <2>3
<1>5. CASE Insert(c)
  <2>1. Open' \subseteq Open \cup {call[c].serial} /\ uncounted' = uncounted
    BY <1>5 DEF Insert, Open
  <2>2. Cardinality(Open)' <= Cardinality(Open) + 1
    BY <1>2, <2>1, OneMore DEF Countable
  <2>3. c \in Inserting /\ Inserting' \subseteq Inserting \ {c}
    BY <1>3, <1>5, InsertAfterCount DEF Insert, Inserting, At
  <2>4. Cardinality(Inserting)' <= Cardinality(Inserting) - 1
    <3>1. Cardinality(Inserting \ {c}) = Cardinality(Inserting) - 1 /\ IsFiniteSet(Inserting \ {c})
      BY <1>2, <2>3, FS_RemoveElement DEF Countable
    <3> QED
      BY <2>3, <3>1, FS_Subset
  <2> QED
    BY <1>2, <2>1, <2>2, <2>4 DEF CapInv, Countable
<1>6. CASE Fail(c) /\ At(c, "count")
  <2>1. Open' = Open /\ uncounted' = uncounted + 1
    BY <1>6 DEF Fail, At, Open, rowVars
  <2>2. Cardinality(Inserting)' <= Cardinality(Inserting) + 1
    BY <1>2, InsertAfterCount, OneMore DEF Countable
  <2> QED
    BY <1>2, <2>1, <2>2 DEF CapInv, Countable
<1>7. CASE ~Count(c) /\ ~Insert(c) /\ ~(Fail(c) /\ At(c, "count"))
  <2>1. /\ ~At(c, "count") /\ Open' \subseteq Open /\ uncounted' = uncounted
    BY <1>7, OtherStatements
  <2> QED
    BY <1>3, <2>1, IdleKeepsCap DEF Idle
<1> QED
  BY <1>4, <1>5, <1>6, <1>7

LEMMA CapInvStep == TypeOK /\ TypeOK' /\ ListInv /\ CapInv /\ [Next]_vars => CapInv'
<1> SUFFICES ASSUME TypeOK, TypeOK', ListInv, CapInv, [Next]_vars PROVE CapInv'
  OBVIOUS
<1>1. ASSUME NEW c \in Calls, Statement(c) PROVE CapInv'
  BY <1>1, CapInvStatement DEF ListInv
<1>2. ASSUME NEW c \in Calls, NEW kind \in Kinds, NEW room \in Ids, Begin(c, kind, room) PROVE CapInv'
  <2>1. /\ call'[c].todo \in {<<"drop">>, Plan[kind]} /\ kind \in DOMAIN Plan
        /\ \A d \in Calls \ {c} : call'[d] = call[d]
    BY <1>2, BeginTyped, ConstantsOK
  <2>2. call'[c].todo # <<>> => Head(call'[c].todo) \notin DOMAIN Before
    BY <2>1, PlansInOrder, PartsOfPlans
  <2>3. "insert" \in DOMAIN Before
    BY DEF Before
  <2>4. Inserting' \subseteq Inserting
    BY <2>1, <2>2, <2>3 DEF Inserting, At
  <2>5. Open' = Open /\ uncounted' = uncounted
    BY <1>2 DEF Begin, Open, rowVars
  <2> QED
    BY <2>4, <2>5, IdleKeepsCap DEF Idle
<1>3. ASSUME Expire \/ UNCHANGED vars PROVE CapInv'
  <2>1. Idle
    BY <1>3 DEF Expire, vars, rowVars, Idle, Open, Inserting, At
  <2> QED
    BY <2>1, IdleKeepsCap
<1> QED
  BY <1>1, <1>2, <1>3 DEF Next, Rest

\* A creator's open rooms stay within the cap, but for the creations that counted at the same
\* time and those whose count failed.
THEOREM OpenRoomsCapped == Spec => []OpenWithinCap
<1>1. Init => ListInv
  BY DEF Init, ListInv, OrderInv, FlightInv, InOrder, Leads, At, NoCall
<1>2. Init => CapInv
  <2> SUFFICES ASSUME Init PROVE CapInv
    OBVIOUS
  <2>1. Open = {} /\ Inserting = {} /\ uncounted = 0
    BY DEF Init, Open, Inserting, At, NoCall
  <2>2. Cardinality(Open) = 0 /\ Cardinality(Inserting) = 0 /\ uncounted = 0
    BY <2>1, FS_EmptySet
  <2>3. Countable
    BY InitTyped, Counts
  <2>4. Cardinality(Calls) - 1 >= 0 /\ Cap >= 0 /\ Cardinality(Calls) \in Int /\ Cap \in Int
    BY <2>3 DEF Countable
  <2> QED
    BY <2>2, <2>4 DEF CapInv
<1>3. TypeOK /\ CapInv => OpenWithinCap
  BY Counts DEF CapInv, OpenWithinCap, Open, Countable
<1> QED
  BY <1>1, <1>2, <1>3, ListInvStep, CapInvStep, TypeCorrect, PTL DEF Spec

-----------------------------------------------------------------------------
(* What the radio plays, and where its playlist says it is *)

\* What the proof uses of the order of the statements that are left: what follows one, and what
\* has run when one is next.
Follows(todo, i, step) == i + 1 \in DOMAIN todo /\ todo[i + 1] = step
After(todo, i, step)   == i = 1 \/ todo[i - 1] = step
Linked(kind, serial, todo) == \A i \in DOMAIN todo :
    /\ todo[i] = "writeIndex" => Follows(todo, i, "setNow") /\ After(todo, i, "readIndex")
    /\ todo[i] = "setNow" => Follows(todo, i, "play") /\ After(todo, i, "writeIndex")
    /\ todo[i] = "play" => After(todo, i, "setNow")
    /\ todo[i] = "promote" => Follows(todo, i, "reread")
    /\ todo[i] = "reread" => Follows(todo, i, "onAir") /\ Follows(todo, i + 1, "clearHeard")
    /\ todo[i] = "onAir" /\ Follows(todo, i, "clearHeard") => kind = "activate"
    /\ todo[i] = "clearNow" => Follows(todo, i, "clearHeard") \/ After(todo, i, "clearHeard")
    /\ todo[i] = "saveLive" => \/ kind = "tracks" /\ After(todo, i, "readNow")
                               \/ kind = "snippets" /\ After(todo, i, "readLive")
    /\ todo[i] = "insert" => serial # Radio
LinkInv == \A c \in Calls : /\ Linked(call[c].kind, call[c].serial, call[c].todo)
                            /\ call[c].todo # <<>> /\ call[c].kind = "activate" => call[c].room = Radio

\* The first statement, and the one behind it.
Begins(todo, step) == todo # <<>> /\ Head(todo) = step
Second(todo, step) == 2 \in DOMAIN todo /\ todo[2] = step

\* The order is kept as statements run, and says which one has run when another is next.
LEMMA TailLinked ==
  ASSUME NEW S, NEW todo \in Seq(S), todo # <<>>, NEW kind, NEW serial, Linked(kind, serial, todo)
  PROVE  /\ Linked(kind, serial, Tail(todo))
         /\ Begins(Tail(todo), "writeIndex") => Head(todo) = "readIndex"
         /\ Begins(Tail(todo), "setNow") => Head(todo) = "writeIndex"
         /\ Begins(Tail(todo), "play") => Head(todo) = "setNow"
         /\ Begins(Tail(todo), "saveLive") => \/ kind = "tracks" /\ Head(todo) = "readNow"
                                              \/ kind = "snippets" /\ Head(todo) = "readLive"
         /\ Begins(Tail(todo), "clearNow") /\ ~Second(Tail(todo), "clearHeard")
              => Head(todo) = "clearHeard"
         /\ Head(todo) = "writeIndex" => Begins(Tail(todo), "setNow")
         /\ Head(todo) = "setNow" => Begins(Tail(todo), "play")
         /\ Head(todo) = "promote" => Begins(Tail(todo), "reread")
         /\ Head(todo) = "reread" => Begins(Tail(todo), "onAir") /\ Second(Tail(todo), "clearHeard")
         /\ Head(todo) = "insert" => serial # Radio
         /\ Second(todo, "clearHeard") => Begins(Tail(todo), "clearHeard")
         /\ Second(todo, "clearHeard") /\ Head(todo) = "onAir" => kind = "activate"
<1> DEFINE rest == Tail(todo)
<1>1. /\ rest \in Seq(S) /\ Len(rest) = Len(todo) - 1 /\ Len(todo) \in Nat
      /\ DOMAIN rest = 1..(Len(todo) - 1) /\ DOMAIN todo = 1..Len(todo)
      /\ \A i \in DOMAIN rest : rest[i] = todo[i + 1]
      /\ Head(todo) = todo[1] /\ 1 \in DOMAIN todo
      /\ rest # <<>> => Head(rest) = rest[1] /\ 1 \in DOMAIN rest
  OBVIOUS
<1>2. \A i \in DOMAIN rest : \A step : Follows(todo, i + 1, step) <=> Follows(rest, i, step)
  BY <1>1 DEF Follows
<1>3. \A i \in DOMAIN rest : \A step : Follows(todo, i + 2, step) => Follows(rest, i + 1, step)
  BY <1>1 DEF Follows
<1>4. \A i \in DOMAIN rest : \A step : After(todo, i + 1, step) => After(rest, i, step)
  BY <1>1 DEF After
<1>5. rest # <<>> => \A step : After(todo, 2, step) => Head(todo) = step
  BY <1>1 DEF After
<1>6. /\ 1 \in DOMAIN rest => rest[1] = todo[2]
      /\ \A step : Follows(todo, 1, step) => Begins(rest, step)
      /\ \A step : Follows(todo, 2, step) => Second(rest, step)
      /\ \A step : Second(todo, step) => Follows(todo, 1, step)
      /\ \A step : Follows(rest, 1, step) => Second(rest, step)
  <2>1. 1 \in DOMAIN rest => rest[1] = todo[2]
    BY <1>1
  <2>2. \A step : Follows(todo, 1, step) => Begins(rest, step)
    BY <1>1 DEF Follows, Begins
  <2>3. \A step : Follows(todo, 2, step) => Second(rest, step)
    BY <1>1 DEF Follows, Second
  <2>4. \A step : Second(todo, step) => Follows(todo, 1, step)
    BY <1>1 DEF Follows, Second
  <2>5. \A step : Follows(rest, 1, step) => Second(rest, step)
    BY <1>1 DEF Follows, Second
  <2> QED
    BY <2>1, <2>2, <2>3, <2>4, <2>5
<1>7. Linked(kind, serial, rest)
  <2> SUFFICES ASSUME NEW i \in DOMAIN rest
               PROVE  Linked(kind, serial, rest)!(i)
    BY DEF Linked
  <2>1. i + 1 \in DOMAIN todo /\ rest[i] = todo[i + 1] /\ (i + 1) + 1 = i + 2
    BY <1>1
  <2> HIDE DEF rest
  <2> QED
    BY <1>2, <1>3, <1>4, <2>1 DEF Linked
<1>8. rest # <<>> => 2 \in DOMAIN todo /\ todo[2] = Head(rest) /\ 1 \in DOMAIN rest
  BY <1>1
<1> HIDE DEF rest
<1>9. /\ Begins(rest, "writeIndex") => Head(todo) = "readIndex"
      /\ Begins(rest, "setNow") => Head(todo) = "writeIndex"
      /\ Begins(rest, "play") => Head(todo) = "setNow"
      /\ Begins(rest, "saveLive") => \/ kind = "tracks" /\ Head(todo) = "readNow"
                                     \/ kind = "snippets" /\ Head(todo) = "readLive"
  BY <1>5, <1>8 DEF Linked, Begins
<1>10. Begins(rest, "clearNow") /\ ~Second(rest, "clearHeard") => Head(todo) = "clearHeard"
  <2> SUFFICES ASSUME Begins(rest, "clearNow"), ~Second(rest, "clearHeard")
               PROVE  Head(todo) = "clearHeard"
    OBVIOUS
  <2>1. 2 \in DOMAIN todo /\ todo[2] = "clearNow" /\ 1 \in DOMAIN rest /\ rest # <<>>
    BY <1>8 DEF Begins
  <2>2. ~Follows(todo, 2, "clearHeard")
    BY <1>6
  <2>3. After(todo, 2, "clearHeard")
    BY <2>1, <2>2 DEF Linked
  <2> QED
    BY <1>5, <2>1, <2>3
<1>11. /\ Head(todo) = "writeIndex" => Begins(rest, "setNow")
       /\ Head(todo) = "setNow" => Begins(rest, "play")
       /\ Head(todo) = "promote" => Begins(rest, "reread")
       /\ Head(todo) = "reread" => Begins(rest, "onAir") /\ Second(rest, "clearHeard")
       /\ Head(todo) = "insert" => serial # Radio
  BY <1>1, <1>6 DEF Linked
<1>12. /\ Second(todo, "clearHeard") => Begins(rest, "clearHeard")
       /\ Second(todo, "clearHeard") /\ Head(todo) = "onAir" => kind = "activate"
  BY <1>1, <1>6 DEF Linked
<1> QED
  BY <1>7, <1>9, <1>10, <1>11, <1>12 DEF rest

\* How a request may begin: not in the midst of an advance or of an edit.
Opens(todo) == /\ todo # <<>> => Head(todo) \notin {"writeIndex", "setNow", "play", "saveLive"}
               /\ Begins(todo, "clearNow") => Second(todo, "clearHeard")

\* What a request begins with, or goes on with, is in order.
LEMMA RestartsLinked ==
  ASSUME NEW kind, NEW serial
  PROVE  \A todo \in {<<>>, AdvanceAutoplay, StopPlaying, <<"land">>, <<"wait">>, <<"drop">>} :
            Linked(kind, serial, todo) /\ Opens(todo)
BY DEF AdvanceAutoplay, StopPlaying, Linked, Opens, Follows, After, Begins, Second

\* What stands where in a list put together from two.
LEMMA Concat ==
  ASSUME NEW S, NEW s \in Seq(S), NEW t \in Seq(S)
  PROVE  /\ s \o t \in Seq(S) /\ Len(s \o t) = Len(s) + Len(t)
         /\ \A i \in 1..Len(s) : (s \o t)[i] = s[i]
         /\ \A i \in 1..Len(t) : (s \o t)[Len(s) + i] = t[i]
OBVIOUS

\* What stands where in the plans that are put together from others.
LEMMA JoinedPlans ==
  /\ ActivatePlaylist \in Seq(RadioSteps) /\ Len(ActivatePlaylist) = 8
  /\ ActivatePlaylist[1] = "promote" /\ ActivatePlaylist[2] = "reread"
  /\ ActivatePlaylist[3] = "onAir" /\ ActivatePlaylist[4] = "clearHeard"
  /\ ActivatePlaylist[5] = "clearNow" /\ ActivatePlaylist[6] = "which"
  /\ ActivatePlaylist[7] = "onAir" /\ ActivatePlaylist[8] = "start"
  /\ StartAutoplayRoom \in Seq(RadioSteps) /\ Len(StartAutoplayRoom) = 5
  /\ StartAutoplayRoom[1] = "readLive" /\ StartAutoplayRoom[2] = "onAir"
  /\ StartAutoplayRoom[3] = "which" /\ StartAutoplayRoom[4] = "onAir"
  /\ StartAutoplayRoom[5] = "start"
  /\ StopAutoplayRoom \in Seq(RadioSteps) /\ Len(StopAutoplayRoom) = 3
  /\ StopAutoplayRoom[1] = "offAir" /\ StopAutoplayRoom[2] = "clearHeard"
  /\ StopAutoplayRoom[3] = "clearNow"
<1> DEFINE a == <<"promote", "reread", "onAir">>
           b == <<"readLive", "onAir">>
           d == <<"offAir">>
<1>1. /\ a \in Seq(RadioSteps) /\ b \in Seq(RadioSteps) /\ d \in Seq(RadioSteps)
      /\ StopPlaying \in Seq(RadioSteps) /\ StartAutoplayRooms \in Seq(RadioSteps)
  BY PartsOfPlans
<1>2. /\ Len(a) = 3 /\ a[1] = "promote" /\ a[2] = "reread" /\ a[3] = "onAir"
      /\ Len(b) = 2 /\ b[1] = "readLive" /\ b[2] = "onAir"
      /\ Len(d) = 1 /\ d[1] = "offAir"
      /\ Len(StopPlaying) = 2 /\ StopPlaying[1] = "clearHeard" /\ StopPlaying[2] = "clearNow"
      /\ Len(StartAutoplayRooms) = 3 /\ StartAutoplayRooms[1] = "which"
      /\ StartAutoplayRooms[2] = "onAir" /\ StartAutoplayRooms[3] = "start"
  BY DEF StopPlaying, StartAutoplayRooms
<1>3. /\ ActivatePlaylist = (a \o StopPlaying) \o StartAutoplayRooms
      /\ StartAutoplayRoom = b \o StartAutoplayRooms /\ StopAutoplayRoom = d \o StopPlaying
  BY DEF ActivatePlaylist, StartAutoplayRoom, StopAutoplayRoom
<1> HIDE DEF a, b, d
<1>4. /\ a \o StopPlaying \in Seq(RadioSteps) /\ Len(a \o StopPlaying) = Len(a) + Len(StopPlaying)
      /\ \A i \in 1..Len(a) : (a \o StopPlaying)[i] = a[i]
      /\ \A i \in 1..Len(StopPlaying) : (a \o StopPlaying)[Len(a) + i] = StopPlaying[i]
  BY <1>1, Concat
<1> DEFINE e == a \o StopPlaying
<1> HIDE DEF e
<1>5. /\ e \in Seq(RadioSteps) /\ Len(e) = 5
      /\ \A i \in 1..3 : e[i] = a[i]
      /\ \A i \in 1..2 : e[3 + i] = StopPlaying[i]
  BY <1>2, <1>4 DEF e
<1>6. /\ ActivatePlaylist \in Seq(RadioSteps)
      /\ Len(ActivatePlaylist) = Len(e) + Len(StartAutoplayRooms)
      /\ \A i \in 1..Len(e) : ActivatePlaylist[i] = e[i]
      /\ \A i \in 1..Len(StartAutoplayRooms) : ActivatePlaylist[Len(e) + i] = StartAutoplayRooms[i]
  <2>1. e \in Seq(RadioSteps)
    BY <1>5
  <2>2. ActivatePlaylist = e \o StartAutoplayRooms
    BY <1>3 DEF e
  <2> QED
    BY <1>1, <2>1, <2>2, Concat
<1>7. /\ StartAutoplayRoom \in Seq(RadioSteps)
      /\ Len(StartAutoplayRoom) = Len(b) + Len(StartAutoplayRooms)
      /\ \A i \in 1..Len(b) : StartAutoplayRoom[i] = b[i]
      /\ \A i \in 1..Len(StartAutoplayRooms) : StartAutoplayRoom[Len(b) + i] = StartAutoplayRooms[i]
  BY <1>1, <1>3, Concat
<1>8. /\ StopAutoplayRoom \in Seq(RadioSteps)
      /\ Len(StopAutoplayRoom) = Len(d) + Len(StopPlaying)
      /\ \A i \in 1..Len(d) : StopAutoplayRoom[i] = d[i]
      /\ \A i \in 1..Len(StopPlaying) : StopAutoplayRoom[Len(d) + i] = StopPlaying[i]
  BY <1>1, <1>3, Concat
<1>9. /\ ActivatePlaylist[1] = "promote" /\ ActivatePlaylist[2] = "reread"
      /\ ActivatePlaylist[3] = "onAir" /\ ActivatePlaylist[4] = "clearHeard"
      /\ ActivatePlaylist[5] = "clearNow"
  <2>1. e[4] = StopPlaying[1] /\ e[5] = StopPlaying[2]
    BY <1>5
  <2> QED
    BY <1>2, <1>5, <1>6, <2>1
<1>10. /\ ActivatePlaylist[6] = "which" /\ ActivatePlaylist[7] = "onAir"
       /\ ActivatePlaylist[8] = "start"
  BY <1>2, <1>5, <1>6
<1>11. /\ StartAutoplayRoom[1] = "readLive" /\ StartAutoplayRoom[2] = "onAir"
       /\ StartAutoplayRoom[3] = "which" /\ StartAutoplayRoom[4] = "onAir"
       /\ StartAutoplayRoom[5] = "start"
  BY <1>2, <1>7
<1>12. /\ StopAutoplayRoom[1] = "offAir" /\ StopAutoplayRoom[2] = "clearHeard"
       /\ StopAutoplayRoom[3] = "clearNow"
  BY <1>2, <1>8
<1>13. Len(ActivatePlaylist) = 8 /\ Len(StartAutoplayRoom) = 5 /\ Len(StopAutoplayRoom) = 3
  BY <1>2, <1>5, <1>6, <1>7, <1>8
<1> QED
  BY <1>6, <1>7, <1>8, <1>9, <1>10, <1>11, <1>12, <1>13

LEMMA PlansLinked ==
  ASSUME NEW k \in DOMAIN Plan, NEW serial \in Nat \ {0}
  PROVE  Linked(k, serial, Plan[k]) /\ Opens(Plan[k])
<1> USE DEF Linked, Opens, Follows, After, Begins, Second, Radio
<1>1. CASE k \in {"activate", "start", "stop"}
  <2>1. /\ Linked("activate", serial, ActivatePlaylist) /\ Opens(ActivatePlaylist)
        /\ Linked("start", serial, StartAutoplayRoom) /\ Opens(StartAutoplayRoom)
        /\ Linked("stop", serial, StopAutoplayRoom) /\ Opens(StopAutoplayRoom)
    <3>1. Linked("activate", serial, ActivatePlaylist) /\ Opens(ActivatePlaylist)
      BY JoinedPlans
    <3>2. Linked("start", serial, StartAutoplayRoom) /\ Opens(StartAutoplayRoom)
      BY JoinedPlans
    <3>3. Linked("stop", serial, StopAutoplayRoom) /\ Opens(StopAutoplayRoom)
      BY JoinedPlans
    <3> QED
      BY <3>1, <3>2, <3>3
  <2> HIDE DEF Linked, Opens
  <2> QED
    BY <1>1, <2>1 DEF Plan
<1>2. CASE k \in {"create", "golive", "end", "list", "stage", "unstage"}
  BY <1>2 DEF Plan, Create, GoLive, EndSession, ListRooms, SaveStagedPlaylist, DeleteStagedPlaylist
<1>3. CASE k \in {"shutdown", "remove"}
  BY <1>3 DEF Plan, ShutdownRoom, DeleteRoom
<1>4. CASE k \in {"snippets", "tracks"}
  BY <1>4 DEF Plan, UpdateLiveSnippets, UpdateLiveTracks
<1>5. CASE k = "advance"
  <2> HIDE DEF Linked, Opens
  <2> QED
    BY <1>5, RestartsLinked DEF Plan
<1>6. k \in {"create", "golive", "end", "list", "stage", "unstage", "shutdown", "remove",
            "snippets", "tracks", "activate", "start", "stop", "advance"}
  BY DEF Plan
<1> QED
  BY <1>1, <1>2, <1>3, <1>4, <1>5, <1>6

\* A request keeps what it is.
SameRequest(c) == /\ call'[c].kind = call[c].kind /\ call'[c].room = call[c].room
                  /\ call'[c].serial = call[c].serial
\* It ends, goes on with the rest of its statements, or with others.
Moved(c) ==
    /\ call[c].todo # <<>>
    /\ \/ call'[c].todo = <<>>
       \/ call'[c].todo = Tail(call[c].todo) /\ SameRequest(c)
       \/ /\ call'[c].todo \in {AdvanceAutoplay, StopPlaying, <<"land">>, <<"wait">>}
          /\ SameRequest(c)
\* Another one goes on waiting for its turn, or has what it waited for.
Stays(d)  == call'[d] = call[d] \/ (call'[d].todo = <<>> /\ At(d, "wait"))
\* Another one that is under way is overtaken.
Stales(d) == /\ call'[d].todo = call[d].todo /\ SameRequest(d)
             /\ call'[d].todo = <<>> \/ ~call'[d].fresh

LEMMA LinkMoves ==
  ASSUME TypeOK, LinkInv, NEW c \in Calls, Moved(c),
         \A d \in Calls \ {c} : Stays(d) \/ Stales(d)
  PROVE  LinkInv'
<1>1. call[c].todo \in Seq(Steps) /\ call[c].todo # <<>>
  BY TypeParts DEF CallsTyped, Records, Moved
<1>2. Linked(call[c].kind, call[c].serial, call[c].todo)
  BY DEF LinkInv
<1>3. Linked(call[c].kind, call[c].serial, Tail(call[c].todo))
  BY <1>1, <1>2, TailLinked
<1>4. \A kind, serial : Linked(kind, serial, <<>>)
  BY DEF Linked
<1>5. Linked(call'[c].kind, call'[c].serial, call'[c].todo)
  BY <1>3, <1>4, RestartsLinked DEF Moved, SameRequest
<1>6. \A d \in Calls \ {c} : Linked(call'[d].kind, call'[d].serial, call'[d].todo)
  BY <1>4 DEF LinkInv, Stays, Stales, SameRequest
<1>7. ASSUME NEW d \in Calls, call'[d].todo # <<>>, call'[d].kind = "activate"
      PROVE  call'[d].room = Radio
  BY <1>1, <1>7 DEF LinkInv, Stays, Stales, SameRequest, Moved
<1> QED
  BY <1>5, <1>6, <1>7 DEF LinkInv

-----------------------------------------------------------------------------
Live == playlist["live"]
Then(c, step) == Second(call[c].todo, step)
\* A request has begun to change what the radio plays; or its list, too.
MidHeard(c) == At(c, "setNow") \/ At(c, "play") \/ (At(c, "clearHeard") /\ call[c].room = Radio)
MidList(c)  == MidHeard(c) \/ At(c, "reread") \/ (At(c, "onAir") /\ Then(c, "clearHeard"))
\* What a request that nobody has overtaken has read, or written, is still so.
Knows(c) ==
    call[c].fresh =>
        /\ At(c, "writeIndex") => /\ call[c].index \in DOMAIN Live.tracks
                                  /\ Live.tracks[call[c].index] = call[c].now
        /\ At(c, "setNow") \/ At(c, "play") => /\ Live.index \in DOMAIN Live.tracks
                                               /\ Live.tracks[Live.index] = call[c].now
        /\ At(c, "play") /\ Radio \in rooms => now = call[c].now
        /\ At(c, "saveLive") /\ call[c].kind = "tracks" => call[c].now = now
        /\ At(c, "saveLive") /\ call[c].kind = "snippets" => /\ call[c].tracks = Live.tracks
                                                             /\ call[c].index = Live.index
        /\ At(c, "clearNow") /\ ~Then(c, "clearHeard") /\ call[c].room = Radio => heard = Silence
KnowsInv == \A c \in Calls : Knows(c)
EmptyInv == \A s \in {"live", "staged"} : ~playlist[s].exists => playlist[s].tracks = <<>>
NowInv == ~torn /\ Radio \in rooms /\ (\A c \in Calls : ~MidHeard(c)) => heard \in {Silence, now}
IndexInv == /\ ~torn /\ \A c \in Calls : ~MidList(c)
            /\ heard \in Range(Live.tracks)
            => Live.index # 0 /\ Live.tracks[Live.index] = heard
HeardInv == LinkInv /\ EmptyInv /\ KnowsInv /\ NowInv /\ IndexInv

LEMMA OpensKnows == ASSUME NEW c \in Calls, Opens(call'[c].todo) PROVE Knows(c)'
BY DEF Opens, Knows, At, Then, Begins

\* What a request knows when it goes on.
LEMMA OnwardKnows ==
  ASSUME TypeOK, LinkInv, NEW c \in Calls, Moved(c),
         \/ Head(call[c].todo) \notin {"readIndex", "writeIndex", "setNow"}
         \/ call'[c].todo # Tail(call[c].todo),
         At(c, "readNow") /\ call'[c].todo # <<>> /\ call'[c].fresh => call'[c].now = now',
         At(c, "readLive") /\ call'[c].todo # <<>> /\ call[c].kind = "snippets"
           => call'[c].tracks = Live'.tracks /\ call'[c].index = Live'.index,
         At(c, "clearHeard") /\ call[c].room = Radio /\ call'[c].todo # <<>> /\ call'[c].fresh
           => heard' = Silence
  PROVE  Knows(c)'
<1>1. CASE call'[c].todo = Tail(call[c].todo) /\ SameRequest(c) /\ call'[c].todo # <<>>
  <2>1. call[c].todo \in Seq(Steps) /\ call[c].todo # <<>>
    BY TypeParts DEF CallsTyped, Records, Moved
  <2>2. Linked(call[c].kind, call[c].serial, call[c].todo)
    BY DEF LinkInv
  <2> DEFINE rest == Tail(call[c].todo)
  <2>3. /\ Begins(rest, "writeIndex") => Head(call[c].todo) = "readIndex"
        /\ Begins(rest, "setNow") => Head(call[c].todo) = "writeIndex"
        /\ Begins(rest, "play") => Head(call[c].todo) = "setNow"
        /\ Begins(rest, "saveLive") => \/ call[c].kind = "tracks" /\ Head(call[c].todo) = "readNow"
                                       \/ call[c].kind = "snippets" /\ Head(call[c].todo) = "readLive"
        /\ Begins(rest, "clearNow") /\ ~Second(rest, "clearHeard") => Head(call[c].todo) = "clearHeard"
    BY <2>1, <2>2, TailLinked
  <2>4. \A step : At(c, step)' <=> Begins(rest, step)
    BY <1>1 DEF At, Begins
  <2>5. Then(c, "clearHeard")' <=> Second(rest, "clearHeard")
    BY <1>1 DEF Then
  <2>6. \A step : At(c, step) <=> Head(call[c].todo) = step
    BY <2>1 DEF At
  <2> HIDE DEF rest
  <2>7. ~At(c, "writeIndex")' /\ ~At(c, "setNow")' /\ ~At(c, "play")'
    BY <1>1, <2>3, <2>4
  <2>8. /\ call'[c].kind = call[c].kind /\ call'[c].room = call[c].room
    BY <1>1 DEF SameRequest
  <2>9. At(c, "saveLive")' => \/ call[c].kind = "tracks" /\ At(c, "readNow")
                              \/ call[c].kind = "snippets" /\ At(c, "readLive")
    BY <2>3, <2>4, <2>6
  <2>10. At(c, "clearNow")' /\ ~Then(c, "clearHeard")' => At(c, "clearHeard")
    BY <2>3, <2>4, <2>5, <2>6
  <2> QED
    BY <1>1, <2>7, <2>8, <2>9, <2>10 DEF Knows
<1>2. CASE call'[c].todo \in {<<>>, AdvanceAutoplay, StopPlaying, <<"land">>, <<"wait">>}
  BY <1>2, RestartsLinked, OpensKnows
<1> QED
  BY <1>1, <1>2 DEF Moved

\* Nothing changes that the radio plays or is to play.
LEMMA CalmKeeps ==
  ASSUME HeardInv, NEW c \in Calls, \A d \in Calls \ {c} : Stays(d),
         playlist'["live"] = playlist["live"], now' = now, heard' = heard,
         Radio \in rooms' => Radio \in rooms, torn => torn', Knows(c)',
         torn' \/ (MidHeard(c) => MidHeard(c)'),
         torn' \/ (MidList(c) => MidList(c)') \/ Live.tracks = <<>>
  PROVE  KnowsInv' /\ NowInv' /\ IndexInv'
<1>1. Live' = Live
  BY DEF Live
<1>2. ASSUME NEW d \in Calls \ {c}
      PROVE  /\ Knows(d)'
             /\ MidHeard(d) => MidHeard(d)'
             /\ MidList(d) => MidList(d)'
  <2>1. CASE call'[d] = call[d]
    <3>1. \A step : (At(d, step)' <=> At(d, step)) /\ (Then(d, step)' <=> Then(d, step))
      BY <2>1 DEF At, Then
    <3> QED
      BY <1>1, <2>1, <3>1 DEF HeardInv, KnowsInv, Knows, MidHeard, MidList
  <2>2. CASE call'[d].todo = <<>> /\ At(d, "wait")
    BY <2>2 DEF At, Knows, MidHeard, MidList
  <2> QED
    BY <2>1, <2>2 DEF Stays
<1>3. KnowsInv'
  BY <1>2 DEF KnowsInv
<1>4. NowInv'
  BY <1>2 DEF HeardInv, NowInv
<1>5. IndexInv'
  <2> SUFFICES ASSUME ~torn', \A d \in Calls : ~MidList(d)', heard' \in Range(Live'.tracks)
               PROVE  Live'.index # 0 /\ Live'.tracks[Live'.index] = heard'
    BY DEF IndexInv
  <2>1. Live.tracks # <<>>
    BY <1>1 DEF Range
  <2>2. ~torn /\ \A d \in Calls : ~MidList(d)
    BY <1>2, <2>1
  <2> QED
    BY <1>1, <2>2 DEF HeardInv, IndexInv
<1> QED
  BY <1>3, <1>4, <1>5

\* A step that leaves alone what the radio plays and is to play.
Silent(c) ==
    /\ Moved(c) /\ \A d \in Calls \ {c} : Stays(d)
    /\ playlist'["live"] = playlist["live"] /\ now' = now /\ heard' = heard
    /\ rooms' = rooms \/ Radio \notin rooms' \/ Radio \in rooms

\* The request goes on with the rest of its statements, knowing no more, or something new.
GoesOn(c) == call'[c].todo = Tail(call[c].todo) /\ SameRequest(c) /\ call'[c].todo # <<>>

LEMMA Turned ==
  ASSUME CallsTyped, NEW c \in Calls, call[c].todo # <<>>, NEW known \in Records,
         known.kind = call[c].kind, known.room = call[c].room, known.serial = call[c].serial
  PROVE  /\ Finish(c) => Moved(c) /\ call'[c].todo = <<>> /\ \A d \in Calls \ {c} : Stays(d)
         /\ Proceed(c, known) => /\ Moved(c) /\ \A d \in Calls \ {c} : Stays(d)
                                 /\ call'[c].todo = Tail(call[c].todo)
                                 /\ call'[c].todo # <<>> => /\ GoesOn(c)
                                                            /\ call'[c].now = known.now
                                                            /\ call'[c].tracks = known.tracks
                                                            /\ call'[c].index = known.index
                                                            /\ call'[c].fresh = known.fresh
         /\ \A todo \in {AdvanceAutoplay, StopPlaying, <<"land">>, <<"wait">>} :
              GoOn(c, todo, known) => /\ Moved(c) /\ call'[c].todo = todo
                                      /\ \A d \in Calls \ {c} : Stays(d)
<1>1. ASSUME Finish(c) PROVE Moved(c) /\ call'[c].todo = <<>> /\ \A d \in Calls \ {c} : Stays(d)
  <2>1. call'[c].todo = <<>> /\ \A d \in Calls \ {c} : call'[d] = call[d]
    BY <1>1, FinishMoves
  <2>2. Moved(c)
    BY <2>1 DEF Moved
  <2> QED
    BY <2>1, <2>2 DEF Stays
<1>2. ASSUME Proceed(c, known)
      PROVE  /\ Moved(c) /\ \A d \in Calls \ {c} : Stays(d)
             /\ call'[c].todo = Tail(call[c].todo)
             /\ call'[c].todo # <<>> => /\ GoesOn(c)
                                        /\ call'[c].now = known.now
                                        /\ call'[c].tracks = known.tracks
                                        /\ call'[c].index = known.index
                                        /\ call'[c].fresh = known.fresh
  <2> DEFINE rest == Tail(call[c].todo)
  <2>1. /\ call'[c].todo = rest /\ \A d \in Calls \ {c} : call'[d] = call[d]
        /\ rest # <<>> => call'[c] = [known EXCEPT !.todo = rest]
    BY <1>2, ProceedMoves
  <2> HIDE DEF rest
  <2>2. rest # <<>> => /\ call'[c].kind = known.kind /\ call'[c].room = known.room
                       /\ call'[c].serial = known.serial /\ call'[c].now = known.now
                       /\ call'[c].tracks = known.tracks /\ call'[c].index = known.index
                       /\ call'[c].fresh = known.fresh
    BY <2>1 DEF Records
  <2>3. rest # <<>> => SameRequest(c)
    BY <2>2 DEF SameRequest
  <2>4. Moved(c)
    BY <2>1, <2>3 DEF Moved, rest
  <2>5. \A d \in Calls \ {c} : Stays(d)
    BY <2>1 DEF Stays
  <2> QED
    BY <2>1, <2>2, <2>3, <2>4, <2>5 DEF GoesOn, rest
<1>3. ASSUME NEW todo \in {AdvanceAutoplay, StopPlaying, <<"land">>, <<"wait">>}, GoOn(c, todo, known)
      PROVE  Moved(c) /\ call'[c].todo = todo /\ \A d \in Calls \ {c} : Stays(d)
  <2>1. todo \in Seq(Steps) /\ todo # <<>>
    <3>1. <<"wait">> \in Seq(Steps)
      BY DEF Steps
    <3>2. AdvanceAutoplay # <<>> /\ StopPlaying # <<>> /\ <<"land">> # <<>> /\ <<"wait">> # <<>>
      BY DEF AdvanceAutoplay, StopPlaying
    <3> QED
      BY <3>1, <3>2, RestartSteps, LandStep
  <2>2. call'[c] = [known EXCEPT !.todo = todo] /\ \A d \in Calls \ {c} : call'[d] = call[d]
    BY <1>3, <2>1, GoOnMoves
  <2>3. call'[c].todo = todo /\ SameRequest(c)
    BY <2>2 DEF Records, SameRequest
  <2>4. Moved(c)
    BY <2>3 DEF Moved
  <2> QED
    BY <2>2, <2>3, <2>4 DEF Stays
<1> QED
  BY <1>1, <1>2, <1>3

\* Midst of a change stays midst of it, one statement on.
LEMMA MidOnward ==
  ASSUME TypeOK, LinkInv, NEW c \in Calls, call[c].todo # <<>>
  PROVE  /\ GoesOn(c) =>
            /\ At(c, "reread") => MidList(c)'
            /\ At(c, "onAir") /\ Then(c, "clearHeard") => MidHeard(c)' /\ MidList(c)'
            /\ At(c, "clearNow") /\ Then(c, "clearHeard") /\ call[c].room = Radio
                 => MidHeard(c)' /\ MidList(c)'
            /\ At(c, "writeIndex") => At(c, "setNow")' /\ MidHeard(c)' /\ MidList(c)'
            /\ At(c, "setNow") => At(c, "play")' /\ MidHeard(c)' /\ MidList(c)'
            /\ At(c, "promote") => MidList(c)'
         /\ \/ At(c, "reread") \/ At(c, "writeIndex") \/ At(c, "setNow") \/ At(c, "promote")
            \/ Then(c, "clearHeard")
            => Tail(call[c].todo) # <<>>
         /\ At(c, "insert") => call[c].serial # Radio
         /\ At(c, "onAir") /\ Then(c, "clearHeard") => call[c].kind = "activate" /\ call[c].room = Radio
<1> DEFINE rest == Tail(call[c].todo)
<1>1. call[c].todo \in Seq(Steps) /\ call[c].todo # <<>>
  BY TypeParts DEF CallsTyped, Records
<1>2. Linked(call[c].kind, call[c].serial, call[c].todo)
  BY DEF LinkInv
<1>3. /\ Head(call[c].todo) = "writeIndex" => Begins(rest, "setNow")
      /\ Head(call[c].todo) = "setNow" => Begins(rest, "play")
      /\ Head(call[c].todo) = "promote" => Begins(rest, "reread")
      /\ Head(call[c].todo) = "reread" => Begins(rest, "onAir") /\ Second(rest, "clearHeard")
      /\ Head(call[c].todo) = "insert" => call[c].serial # Radio
      /\ Second(call[c].todo, "clearHeard") => Begins(rest, "clearHeard")
      /\ Second(call[c].todo, "clearHeard") /\ Head(call[c].todo) = "onAir" => call[c].kind = "activate"
  BY <1>1, <1>2, TailLinked
<1>4. GoesOn(c) => /\ \A step : At(c, step)' <=> Begins(rest, step)
                   /\ Then(c, "clearHeard")' <=> Second(rest, "clearHeard")
                   /\ call'[c].room = call[c].room
  BY DEF GoesOn, At, Begins, Then, SameRequest
<1>5. call[c].kind = "activate" => call[c].room = Radio
  BY <1>1 DEF LinkInv
<1>6. \A step : Begins(rest, step) => rest # <<>>
  BY DEF Begins
<1> HIDE DEF rest
<1>7. /\ At(c, "writeIndex") => Begins(rest, "setNow")
      /\ At(c, "setNow") => Begins(rest, "play")
      /\ At(c, "promote") => Begins(rest, "reread")
      /\ At(c, "reread") => Begins(rest, "onAir") /\ Second(rest, "clearHeard")
      /\ At(c, "insert") => call[c].serial # Radio
      /\ Then(c, "clearHeard") => Begins(rest, "clearHeard")
      /\ Then(c, "clearHeard") /\ At(c, "onAir") => call[c].kind = "activate"
  BY <1>3 DEF At, Then
<1> QED
  BY <1>4, <1>5, <1>6, <1>7 DEF MidHeard, MidList, rest

\* A playlist that does not exist has no tracks.
LEMMA EmptyStep ==
  ASSUME TypeOK, EmptyInv, NEW c \in Calls, Statement(c) PROVE EmptyInv'
<1>1. playlist \in [{"live", "staged"} -> Playlists]
  BY TypeParts DEF RadioTyped
<1>2. playlist["live"] \in Playlists /\ playlist["staged"] \in Playlists
  BY <1>1
<1> USE DEF EmptyInv
<1>3. CASE SaveStaged(c)
  BY <1>1, <1>2, <1>3 DEF SaveStaged, Listing
<1>4. CASE Unstage(c)
  BY <1>1, <1>2, <1>4 DEF Unstage, NoList
<1>5. CASE SaveLive(c)
  BY <1>1, <1>2, <1>5 DEF SaveLive, Listing
<1>6. CASE Promote(c)
  <2>1. playlist'["staged"] = NoList /\ \/ playlist'["live"] = NoList
                                        \/ /\ playlist["staged"].exists
                                           /\ playlist'["live"] = [playlist["staged"] EXCEPT !.index = 0]
    BY <1>6 DEF Promote
  <2> QED
    BY <1>2, <2>1 DEF NoList, Playlists
<1>7. CASE WriteIndex(c)
  <2>1. CASE playlist["live"].exists
    <3>1. playlist' = [playlist EXCEPT !["live"].index = call[c].index]
      BY <1>7, <2>1 DEF WriteIndex
    <3>2. /\ playlist'["staged"] = playlist["staged"]
          /\ playlist'["live"] = [playlist["live"] EXCEPT !.index = call[c].index]
      BY <1>1, <3>1
    <3> QED
      BY <1>2, <3>2 DEF Playlists
  <2>2. CASE ~playlist["live"].exists
    BY <1>7, <2>2 DEF WriteIndex
  <2> QED
    BY <2>1, <2>2
<1>8. CASE Drop(c)
  BY <1>1, <1>8 DEF Drop, NoList
<1>9. CASE UNCHANGED playlist
  BY <1>9
<1> QED
  BY <1>3, <1>4, <1>5, <1>6, <1>7, <1>8, <1>9 DEF Statement, Count, Insert, SetLive, SetEnded,
     SetRoomAutoplay, ReadLive, ReadNow, Reread, ClearHeard, ClearNow, Which, Start, ReadIndex,
     SetNow, Play, Peek, Join, Recheck, Build, Keep, Land, Fail, radioVars

\* A step that writes nothing of the radio's keeps the invariant.
LEMMA SilentKeeps ==
  ASSUME TypeOK, HeardInv, NEW c \in Calls, Silent(c), torn => torn', Knows(c)',
         torn' \/ (MidHeard(c) => MidHeard(c)'),
         torn' \/ (MidList(c) => MidList(c)') \/ Live.tracks = <<>>
  PROVE  LinkInv' /\ KnowsInv' /\ NowInv' /\ IndexInv'
<1>1. LinkInv /\ Moved(c) /\ \A d \in Calls \ {c} : Stays(d)
  BY DEF HeardInv, Silent
<1>2. LinkInv'
  BY <1>1, LinkMoves
<1>3. /\ playlist'["live"] = playlist["live"] /\ now' = now /\ heard' = heard
      /\ Radio \in rooms' => Radio \in rooms
  BY DEF Silent
<1> QED
  BY <1>1, <1>2, <1>3, CalmKeeps

Kept == LinkInv' /\ KnowsInv' /\ NowInv' /\ IndexInv'

\* Statements that neither read nor write what the radio plays.
LEMMA DeafHeard ==
  ASSUME TypeOK, HeardInv, NEW c \in Calls,
         \/ Count(c) \/ Insert(c) \/ SetLive(c) \/ SetEnded(c) \/ Which(c) \/ Peek(c)
         \/ SaveStaged(c) \/ Unstage(c)
         \/ call[c].room # Radio /\ (Drop(c) \/ ClearHeard(c) \/ ClearNow(c))
  PROVE  Kept
<1>1. CallsTyped /\ call[c] \in Records /\ LinkInv /\ playlist \in [{"live", "staged"} -> Playlists]
  BY TypeParts DEF CallsTyped, RadioTyped, HeardInv
<1>2. /\ call[c].todo # <<>> /\ (Finish(c) \/ Proceed(c, call[c]))
      /\ Head(call[c].todo) \in {"count", "insert", "setLive", "setEnded", "which", "peek",
                                 "saveStaged", "unstage", "drop", "clearHeard", "clearNow"}
      /\ Head(call[c].todo) \in {"clearHeard", "clearNow"} => call[c].room # Radio
  <2>1. ASSUME Count(c) \/ Insert(c) \/ SetLive(c) \/ SetEnded(c) \/ Which(c) \/ Peek(c)
        PROVE  /\ call[c].todo # <<>> /\ (Finish(c) \/ Proceed(c, call[c]))
               /\ Head(call[c].todo) \in {"count", "insert", "setLive", "setEnded", "which", "peek"}
    BY <2>1 DEF Count, Insert, SetLive, SetEnded, Which, Peek, At
  <2>2. ASSUME SaveStaged(c) \/ Unstage(c)
        PROVE  /\ call[c].todo # <<>> /\ (Finish(c) \/ Proceed(c, call[c]))
               /\ Head(call[c].todo) \in {"saveStaged", "unstage"}
    BY <2>2 DEF SaveStaged, Unstage, At
  <2>3. ASSUME call[c].room # Radio, Drop(c) \/ ClearHeard(c) \/ ClearNow(c)
        PROVE  /\ call[c].todo # <<>> /\ (Finish(c) \/ Proceed(c, call[c]))
               /\ Head(call[c].todo) \in {"drop", "clearHeard", "clearNow"}
    BY <2>3 DEF Drop, ClearHeard, ClearNow, At
  <2> QED
    BY <2>1, <2>2, <2>3
<1>3. /\ playlist'["live"] = playlist["live"] /\ now' = now /\ heard' = heard /\ torn' = torn
      /\ Radio \in rooms' => Radio \in rooms
  <2>1. CASE Count(c) \/ SetLive(c) \/ SetEnded(c) \/ Which(c) \/ Peek(c)
    BY <2>1 DEF Count, SetLive, SetEnded, Which, Peek, rowVars, radioVars
  <2>2. CASE Insert(c)
    <3>1. call[c].serial # Radio
      BY <1>1, <1>2, <2>2, MidOnward DEF Insert
    <3> QED
      BY <2>2, <3>1 DEF Insert, radioVars
  <2>3. CASE SaveStaged(c) \/ Unstage(c)
    BY <1>1, <2>3 DEF SaveStaged, Unstage, rowVars
  <2>4. CASE call[c].room # Radio /\ (Drop(c) \/ ClearHeard(c) \/ ClearNow(c))
    BY <2>4 DEF Drop, ClearHeard, ClearNow, rowVars
  <2> QED
    BY <2>1, <2>2, <2>3, <2>4
<1>4. Moved(c) /\ \A d \in Calls \ {c} : Stays(d)
  BY <1>1, <1>2, Turned
<1>5. Silent(c)
  BY <1>3, <1>4 DEF Silent
<1>6. Knows(c)'
  BY <1>1, <1>2, <1>4, OnwardKnows DEF At
<1>7. ~MidHeard(c) /\ ~MidList(c)
  BY <1>2 DEF MidHeard, MidList, At
<1> QED
  BY <1>3, <1>5, <1>6, <1>7, SilentKeeps DEF Kept

LEMMA OnAirHeard ==
  ASSUME TypeOK, HeardInv, NEW c \in Calls, Reread(c) \/ SetRoomAutoplay(c)
  PROVE  Kept
<1>1. CallsTyped /\ call[c] \in Records /\ LinkInv
  BY TypeParts DEF CallsTyped, HeardInv
<1>2. /\ call[c].todo # <<>> /\ (Finish(c) \/ Proceed(c, call[c]))
      /\ Head(call[c].todo) \in {"reread", "onAir", "offAir"}
      /\ UNCHANGED rooms /\ UNCHANGED radioVars
  BY DEF Reread, SetRoomAutoplay, At, rowVars
<1>3. Moved(c) /\ \A d \in Calls \ {c} : Stays(d)
  BY <1>1, <1>2, Turned
<1>4. Silent(c)
  BY <1>2, <1>3 DEF Silent, radioVars
<1>5. Knows(c)'
  BY <1>1, <1>2, <1>3, OnwardKnows DEF At
<1>6. ~MidHeard(c)
  BY <1>2 DEF MidHeard, At
<1>7. (MidList(c) => MidList(c)') \/ Live.tracks = <<>>
  <2>1. CASE At(c, "reread")
    <3>1. CASE Finish(c)
      <4>1. ~playlist["live"].exists \/ Proceed(c, call[c])
        BY <1>2, <2>1 DEF Reread, SetRoomAutoplay, At
      <4>2. CASE ~playlist["live"].exists
        BY <4>2 DEF HeardInv, EmptyInv, Live
      <4> QED
        BY <1>1, <1>2, <2>1, <4>1, <4>2, Turned, MidOnward
    <3>2. CASE Proceed(c, call[c])
      BY <1>1, <1>2, <2>1, <3>2, Turned, MidOnward
    <3> QED
      BY <1>2, <3>1, <3>2
  <2>2. CASE ~At(c, "reread") /\ MidList(c)
    <3>1. At(c, "onAir") /\ Then(c, "clearHeard")
      BY <1>6, <2>2 DEF MidList
    <3>2. Proceed(c, call[c])
      BY <2>2, <3>1 DEF Reread, SetRoomAutoplay
    <3> QED
      BY <1>1, <1>2, <3>1, <3>2, Turned, MidOnward
  <2> QED
    BY <2>1, <2>2
<1>8. torn' = torn
  BY <1>2 DEF radioVars
<1> QED
  BY <1>4, <1>5, <1>6, <1>7, <1>8, SilentKeeps DEF Kept

LEMMA ReadsHeard ==
  ASSUME TypeOK, HeardInv, NEW c \in Calls, ReadLive(c) \/ ReadNow(c) PROVE Kept
<1>1. CallsTyped /\ call[c] \in Records /\ LinkInv /\ RadioTyped
  BY TypeParts DEF CallsTyped, HeardInv
<1>2. /\ call[c].todo # <<>> /\ Head(call[c].todo) \in {"readLive", "readNow"}
      /\ UNCHANGED rooms /\ UNCHANGED radioVars
  BY DEF ReadLive, ReadNow, At, rowVars
<1>3. /\ UNCHANGED playlist /\ torn' = torn /\ rooms' = rooms /\ now' = now /\ heard' = heard
  BY <1>2 DEF radioVars
<1> DEFINE known == [call[c] EXCEPT !.index = Live.index, !.fresh = TRUE]
           edited == [known EXCEPT !.tracks = Live.tracks]
<1>4. Live.index \in Indices /\ Live.tracks \in Lists \cup {<<>>} /\ now \in Songs \cup {Silence}
  BY <1>1 DEF RadioTyped, Playlists, Live
<1>5. known \in Records /\ edited \in Records /\ [call[c] EXCEPT !.now = now] \in Records
  BY <1>1, <1>4, RecordsKnow
<1>6. /\ known.kind = call[c].kind /\ known.room = call[c].room /\ known.serial = call[c].serial
      /\ edited.kind = call[c].kind /\ edited.room = call[c].room /\ edited.serial = call[c].serial
      /\ edited.index = Live.index /\ edited.tracks = Live.tracks
      /\ [call[c] EXCEPT !.now = now].kind = call[c].kind
      /\ [call[c] EXCEPT !.now = now].room = call[c].room
      /\ [call[c] EXCEPT !.now = now].serial = call[c].serial
      /\ [call[c] EXCEPT !.now = now].now = now
  BY <1>1 DEF Records
<1>7. ASSUME ReadLive(c)
      PROVE  /\ Moved(c) /\ \A d \in Calls \ {c} : Stays(d)
             /\ At(c, "readLive")
             /\ call'[c].todo # <<>> /\ call[c].kind = "snippets"
                  => call'[c].tracks = Live.tracks /\ call'[c].index = Live.index
  <2>1. /\ At(c, "readLive")
        /\ \/ Finish(c)
           \/ Proceed(c, IF call[c].kind = "snippets" THEN edited ELSE known)
    BY <1>7 DEF ReadLive, Live
  <2> HIDE DEF known, edited
  <2>2. CASE Finish(c)
    BY <1>1, <1>2, <2>1, <2>2, Turned
  <2>3. CASE call[c].kind = "snippets" /\ Proceed(c, edited)
    BY <1>1, <1>2, <1>5, <1>6, <2>1, <2>3, Turned
  <2>4. CASE call[c].kind # "snippets" /\ Proceed(c, known)
    BY <1>1, <1>2, <1>5, <1>6, <2>1, <2>4, Turned
  <2> QED
    BY <2>1, <2>2, <2>3, <2>4
<1>8. ASSUME ReadNow(c)
      PROVE  /\ Moved(c) /\ \A d \in Calls \ {c} : Stays(d)
             /\ At(c, "readNow")
             /\ call'[c].todo # <<>> => call'[c].now = now
  <2> DEFINE told == [call[c] EXCEPT !.now = now]
  <2>1. At(c, "readNow") /\ Proceed(c, told)
    BY <1>8 DEF ReadNow
  <2>2. /\ told \in Records /\ told.kind = call[c].kind /\ told.room = call[c].room
        /\ told.serial = call[c].serial /\ told.now = now
    BY <1>5, <1>6
  <2> HIDE DEF told
  <2> QED
    BY <1>1, <1>2, <2>1, <2>2, Turned
<1> HIDE DEF known, edited
<1>9. Live' = Live
  BY <1>3 DEF Live
<1>10. Moved(c) /\ \A d \in Calls \ {c} : Stays(d)
  BY <1>7, <1>8
<1>11. Knows(c)'
  <2>1. At(c, "readNow") => ReadNow(c)
    BY DEF ReadLive, At
  <2>2. At(c, "readLive") => ReadLive(c)
    BY DEF ReadNow, At
  <2>3. ~At(c, "clearHeard") /\ Head(call[c].todo) \notin {"readIndex", "writeIndex", "setNow"}
    BY <1>2 DEF At
  <2> QED
    BY <1>1, <1>3, <1>7, <1>8, <1>9, <1>10, <2>1, <2>2, <2>3, OnwardKnows
<1>12. Silent(c)
  BY <1>3, <1>10 DEF Silent
<1>13. ~MidHeard(c) /\ ~MidList(c)
  BY <1>2 DEF MidHeard, MidList, At
<1> QED
  BY <1>3, <1>11, <1>12, <1>13, SilentKeeps DEF Kept

\* The statements after which a request goes on with others, or lands.
LEMMA RestartsHeard ==
  ASSUME TypeOK, HeardInv, NEW c \in Calls,
         Start(c) \/ Join(c) \/ Recheck(c) \/ Build(c) \/ Keep(c) \/ Land(c)
  PROVE  Kept
<1>1. CallsTyped /\ call[c] \in Records /\ LinkInv
  BY TypeParts DEF CallsTyped, HeardInv
<1>2. /\ call[c].todo # <<>>
      /\ Head(call[c].todo) \in {"start", "join", "recheck", "build", "keep", "land"}
      /\ rooms' = rooms /\ UNCHANGED radioVars
  BY DEF Start, Join, Recheck, Build, Keep, Land, At, rowVars
<1>3. Moved(c) /\ \A d \in Calls \ {c} : Stays(d)
  <2>1. CASE Land(c)
    BY <1>1, <1>2, <2>1, NoCallTyped DEF Land, Moved, Stays, CallsTyped
  <2>2. CASE ~Land(c)
    <3>1. \/ Finish(c) \/ Proceed(c, call[c])
          \/ \E todo \in {AdvanceAutoplay, <<"land">>, <<"wait">>} : GoOn(c, todo, call[c])
      BY <2>2 DEF Start, Join, Recheck, Build, Keep
    <3> QED
      BY <1>1, <1>2, <3>1, Turned
  <2> QED
    BY <2>1, <2>2
<1>4. UNCHANGED playlist /\ torn' = torn /\ now' = now /\ heard' = heard
  BY <1>2 DEF radioVars
<1>5. Silent(c)
  BY <1>2, <1>3, <1>4 DEF Silent
<1>6. Knows(c)'
  BY <1>1, <1>2, <1>3, OnwardKnows DEF At
<1>7. ~MidHeard(c) /\ ~MidList(c)
  BY <1>2 DEF MidHeard, MidList, At
<1> QED
  BY <1>4, <1>5, <1>6, <1>7, SilentKeeps DEF Kept

LEMMA ReadIndexHeard ==
  ASSUME TypeOK, HeardInv, NEW c \in Calls, ReadIndex(c) PROVE Kept
<1>1. CallsTyped /\ call[c] \in Records /\ LinkInv /\ RadioTyped
  BY TypeParts DEF CallsTyped, HeardInv
<1>2. /\ call[c].todo # <<>> /\ Head(call[c].todo) = "readIndex"
      /\ UNCHANGED rooms /\ UNCHANGED radioVars
  BY DEF ReadIndex, At, rowVars
<1>3. UNCHANGED playlist /\ torn' = torn /\ rooms' = rooms /\ now' = now /\ heard' = heard
  BY <1>2 DEF radioVars
<1> DEFINE next == (Live.index % Len(Live.tracks)) + 1
           off == [call[c] EXCEPT !.fresh = TRUE]
           on == [call[c] EXCEPT !.index = next, !.now = Live.tracks[next], !.fresh = TRUE]
<1>4. Live.index \in Indices /\ Live.tracks \in Lists \cup {<<>>}
  BY <1>1 DEF RadioTyped, Playlists, Live
<1>5. /\ off \in Records /\ off.kind = call[c].kind /\ off.room = call[c].room
      /\ off.serial = call[c].serial
  BY <1>1 DEF Records
<1>6. Live.tracks # <<>> =>
        /\ on \in Records /\ on.kind = call[c].kind /\ on.room = call[c].room
        /\ on.serial = call[c].serial /\ on.index = next /\ on.now = Live.tracks[next]
        /\ next \in DOMAIN Live.tracks
  <2>1. SUFFICES ASSUME Live.tracks # <<>> PROVE
        /\ on \in Records /\ on.kind = call[c].kind /\ on.room = call[c].room
        /\ on.serial = call[c].serial /\ on.index = next /\ on.now = Live.tracks[next]
        /\ next \in DOMAIN Live.tracks
    OBVIOUS
  <2>2. next \in Indices /\ Live.tracks[next] \in Songs
    BY <1>4, <2>1, RowOfList
  <2>3. next \in DOMAIN Live.tracks
    <3>1. Live.tracks \in Seq(Songs) /\ Live.index \in Nat
      BY <1>4, ListsTyped, IndexBounds
    <3>2. Len(Live.tracks) \in Nat /\ Len(Live.tracks) > 0 /\ DOMAIN Live.tracks = 1..Len(Live.tracks)
      BY <2>1, <3>1
    <3> QED
      BY <3>1, <3>2
  <2> HIDE DEF next
  <2>4. on \in Records
    BY <1>1, <2>2, RecordsKnow
  <2> QED
    BY <1>1, <2>3, <2>4 DEF Records
<1>7. GoOn(c, StopPlaying, off) \/ (Live.tracks # <<>> /\ Proceed(c, on))
  BY DEF ReadIndex, Live
<1> HIDE DEF next, on, off
<1>8. Moved(c) /\ \A d \in Calls \ {c} : Stays(d)
  BY <1>1, <1>2, <1>5, <1>6, <1>7, Turned
<1>9. Live' = Live
  BY <1>3 DEF Live
<1>10. Knows(c)'
  <2>1. CASE GoOn(c, StopPlaying, off)
    BY <1>1, <1>2, <1>5, <2>1, Turned, RestartsLinked, OpensKnows
  <2>2. CASE Live.tracks # <<>> /\ Proceed(c, on)
    <3>1. /\ call'[c].todo = Tail(call[c].todo)
          /\ call'[c].todo # <<>> => /\ GoesOn(c) /\ call'[c].now = Live.tracks[next]
                                     /\ call'[c].index = next
      BY <1>1, <1>2, <1>6, <2>2, Turned
    <3>2. At(c, "writeIndex")' => /\ call'[c].index \in DOMAIN Live.tracks
                                  /\ Live.tracks[call'[c].index] = call'[c].now
      BY <1>6, <2>2, <3>1 DEF At
    <3>3. ~At(c, "setNow")' /\ ~At(c, "play")' /\ ~At(c, "saveLive")'
          /\ (At(c, "clearNow")' => Then(c, "clearHeard")')
      <4> DEFINE rest == Tail(call[c].todo)
      <4>1. call[c].todo \in Seq(Steps) /\ Linked(call[c].kind, call[c].serial, call[c].todo)
        BY <1>1 DEF Records, LinkInv
      <4>2. /\ ~Begins(rest, "setNow") /\ ~Begins(rest, "play") /\ ~Begins(rest, "saveLive")
            /\ Begins(rest, "clearNow") => Second(rest, "clearHeard")
        BY <1>2, <4>1, TailLinked
      <4>3. call'[c].todo = rest
        BY <3>1
      <4> HIDE DEF rest
      <4> QED
        BY <4>2, <4>3 DEF At, Then, Begins
    <3> QED
      BY <1>9, <3>2, <3>3 DEF Knows
  <2> QED
    BY <1>7, <2>1, <2>2
<1>11. Silent(c)
  BY <1>3, <1>8 DEF Silent
<1>12. ~MidHeard(c) /\ ~MidList(c)
  BY <1>2 DEF MidHeard, MidList, At
<1> QED
  BY <1>3, <1>10, <1>11, <1>12, SilentKeeps DEF Kept

LEMMA FailHeard ==
  ASSUME TypeOK, HeardInv, NEW c \in Calls, Fail(c) PROVE Kept
<1> DEFINE step == Head(call[c].todo)
           halves == step \in {"readNow", "reread", "writeIndex", "setNow", "play",
                               "clearHeard", "clearNow"}
<1>1. CallsTyped /\ call[c] \in Records /\ LinkInv /\ torn \in BOOLEAN
  BY TypeParts DEF CallsTyped, HeardInv, RadioTyped
<1>2. /\ call[c].todo # <<>> /\ step \notin {"readIndex", "wait"}
      /\ torn' = (torn \/ halves)
      /\ rooms' = rooms /\ UNCHANGED <<playlist, now, heard>>
  BY DEF Fail, rowVars, InMemory
<1>3. PICK b \in BOOLEAN :
        /\ b <=> halves
        /\ \/ Finish(c) /\ (step # "onAir" \/ call[c].kind = "start")
           \/ Proceed(c, [call[c] EXCEPT !.fresh = @ /\ ~b]) /\ step \notin {"readLive", "promote"}
  BY DEF Fail, Essential
<1> DEFINE known == [call[c] EXCEPT !.fresh = @ /\ ~b]
<1>4. /\ known \in Records /\ known.kind = call[c].kind /\ known.room = call[c].room
      /\ known.serial = call[c].serial
      /\ known.fresh => ~b
  BY <1>1 DEF Records
<1>5. /\ \/ Finish(c) /\ (step # "onAir" \/ call[c].kind = "start")
         \/ Proceed(c, known) /\ step \notin {"readLive", "promote"}
      /\ b <=> halves
  BY <1>3
<1> HIDE DEF known
<1>6. Moved(c) /\ \A d \in Calls \ {c} : Stays(d)
  BY <1>1, <1>2, <1>4, <1>5, Turned
<1>7. call'[c].todo # <<>> => GoesOn(c) /\ call'[c].fresh = known.fresh
  BY <1>1, <1>2, <1>4, <1>5, Turned
<1>8. Silent(c)
  BY <1>2, <1>6 DEF Silent
<1>9. Knows(c)'
  <2>1. CASE halves
    <3>1. call'[c].todo = <<>> \/ ~call'[c].fresh
      BY <1>4, <1>7, <1>5, <2>1
    <3> QED
      BY <3>1 DEF Knows, At
  <2>2. CASE ~halves
    <3>1. step = "readLive" => call'[c].todo = <<>>
      BY <1>1, <1>2, <1>4, <1>5, Turned
    <3> QED
      BY <1>1, <1>2, <1>6, <2>2, <3>1, OnwardKnows DEF At
  <2> QED
    BY <2>1, <2>2
<1>10. CASE halves
  BY <1>2, <1>8, <1>9, <1>10, SilentKeeps DEF Kept
<1>11. CASE ~halves
  <2>1. ~MidHeard(c)
    BY <1>11 DEF MidHeard, At
  <2>2. MidList(c) => MidList(c)'
    <3>1. SUFFICES ASSUME MidList(c) PROVE MidList(c)'
      OBVIOUS
    <3>2. At(c, "onAir") /\ Then(c, "clearHeard")
      BY <1>11, <2>1, <3>1 DEF MidList, At
    <3>3. call[c].kind = "activate" /\ step = "onAir" /\ Tail(call[c].todo) # <<>>
      BY <1>1, <1>2, <3>2, MidOnward DEF At
    <3>4. Proceed(c, known)
      BY <1>5, <3>3
    <3>5. GoesOn(c)
      BY <1>1, <1>2, <1>4, <1>7, <3>3, <3>4, Turned
    <3> QED
      BY <1>1, <1>2, <3>2, <3>5, MidOnward
  <2> QED
    BY <1>2, <1>8, <1>9, <2>1, <2>2, SilentKeeps DEF Kept
<1> QED
  BY <1>10, <1>11

\* The handler finds the track that plays, if it is in the list.
LEMMA FirstOf ==
  ASSUME NEW l \in Lists \cup {<<>>}, NEW t \in Range(l)
  PROVE  First(l, t) \in DOMAIN l /\ l[First(l, t)] = t /\ First(l, t) # 0
<1>1. l \in Seq(Songs)
  BY ListsTyped
<1> DEFINE T == {j \in DOMAIN l : l[j] = t}
<1>2. T # {} /\ T \subseteq Nat
  BY <1>1 DEF Range
<1>3. PICK j \in T : \A k \in T : ~ k < j
  BY <1>2, LeastOf
<1>4. j \in DOMAIN l /\ l[j] = t /\ \A k \in 1..(j - 1) : l[k] # t
  BY <1>1, <1>3
<1>5. First(l, t) \in DOMAIN l /\ l[First(l, t)] = t
  BY <1>4 DEF First
<1> QED
  BY <1>1, <1>5

\* A statement that overtakes the others.
LEMMA Overtaken ==
  ASSUME CallsTyped, NEW c \in Calls, call[c].todo # <<>>, Overtake(c, Tail(call[c].todo), call[c])
  PROVE  /\ Moved(c) /\ \A d \in Calls \ {c} : Stales(d)
         /\ call'[c].todo = Tail(call[c].todo)
         /\ call'[c].todo # <<>> => /\ GoesOn(c)
                                    /\ call'[c].now = call[c].now
                                    /\ call'[c].fresh = call[c].fresh
<1> DEFINE rest == Tail(call[c].todo)
<1>1. call[c] \in Records /\ rest \in Seq(Steps)
  BY DEF CallsTyped, Records
<1>2. NoCall.todo = <<>>
  BY NoCallTyped
<1> HIDE DEF rest
<1>3. call'[c] = IF rest = <<>> THEN NoCall ELSE [call[c] EXCEPT !.todo = rest]
  BY DEF Overtake, rest
<1>4. /\ call'[c].todo = rest
      /\ rest # <<>> => /\ SameRequest(c) /\ call'[c].now = call[c].now
                        /\ call'[c].fresh = call[c].fresh
  BY <1>1, <1>2, <1>3 DEF Records, SameRequest
<1>5. Moved(c)
  BY <1>4 DEF Moved, rest
<1>6. ASSUME NEW d \in Calls \ {c} PROVE Stales(d)
  <2>1. call'[d] = IF call[d] = NoCall THEN NoCall ELSE [call[d] EXCEPT !.fresh = FALSE]
    BY DEF Overtake
  <2>2. call[d] \in Records
    BY DEF CallsTyped
  <2> QED
    BY <1>2, <2>1, <2>2 DEF Stales, SameRequest, Records
<1> QED
  BY <1>4, <1>5, <1>6 DEF GoesOn, rest

\* After a write of the radio's nobody else is fresh, and who is midst of a change stays there.
LEMMA LoudKeeps ==
  ASSUME TypeOK, HeardInv, NEW c \in Calls, Moved(c), \A d \in Calls \ {c} : Stales(d), Knows(c)'
  PROVE  /\ LinkInv' /\ KnowsInv'
         /\ \A d \in Calls \ {c} : (MidHeard(d) => MidHeard(d)') /\ (MidList(d) => MidList(d)')
<1>1. LinkInv'
  BY LinkMoves DEF HeardInv
<1>2. ASSUME NEW d \in Calls \ {c}
      PROVE  Knows(d)' /\ (MidHeard(d) => MidHeard(d)') /\ (MidList(d) => MidList(d)')
  <2>1. call'[d].todo = call[d].todo /\ call'[d].room = call[d].room
    BY DEF Stales, SameRequest
  <2>2. \A step : (At(d, step)' <=> At(d, step)) /\ (Then(d, step)' <=> Then(d, step))
    BY <2>1 DEF At, Then
  <2>3. Knows(d)'
    BY DEF Stales, Knows, At
  <2> QED
    BY <2>1, <2>2, <2>3 DEF MidHeard, MidList
<1> QED
  BY <1>1, <1>2 DEF KnowsInv

\* The writes of an advance: whoever comes between them makes the request stale.
LEMMA AdvanceHeard ==
  ASSUME TypeOK, HeardInv, NEW c \in Calls, WriteIndex(c) \/ SetNow(c) PROVE Kept
<1>1. CallsTyped /\ call[c] \in Records /\ LinkInv /\ RadioTyped /\ Knows(c) /\ EmptyInv
  BY TypeParts DEF CallsTyped, HeardInv, KnowsInv
<1>2. /\ call[c].todo # <<>> /\ Overtake(c, Tail(call[c].todo), call[c])
      /\ At(c, "writeIndex") \/ At(c, "setNow")
  BY DEF WriteIndex, SetNow, Writing, At
<1>3. /\ Moved(c) /\ \A d \in Calls \ {c} : Stales(d)
      /\ GoesOn(c) /\ call'[c].now = call[c].now /\ call'[c].fresh = call[c].fresh
  BY <1>1, <1>2, Overtaken, MidOnward
<1>4. MidHeard(c)' /\ MidList(c)'
  BY <1>1, <1>2, <1>3, MidOnward
<1>5. CASE WriteIndex(c)
  <2>1. At(c, "setNow")'
    BY <1>1, <1>2, <1>3, <1>5, MidOnward DEF WriteIndex
  <2>2. ~At(c, "play")' /\ ~At(c, "writeIndex")' /\ ~At(c, "saveLive")' /\ ~At(c, "clearNow")'
    BY <2>1 DEF At
  <2>3. call[c].fresh => call[c].index \in DOMAIN Live.tracks /\ Live.tracks[call[c].index] = call[c].now
    BY <1>1, <1>5 DEF Knows, WriteIndex
  <2>4. ASSUME call[c].fresh PROVE Live'.tracks = Live.tracks /\ Live'.index = call[c].index
    <3>1. Live \in Playlists /\ playlist \in [{"live", "staged"} -> Playlists]
      BY <1>1 DEF RadioTyped, Live
    <3>2. Live.tracks # <<>>
      BY <2>3, <2>4
    <3>3. Live.exists
      BY <1>1, <3>2 DEF EmptyInv, Live
    <3>4. Live' = [Live EXCEPT !.index = call[c].index]
      BY <1>5, <3>1, <3>3 DEF WriteIndex, Live
    <3> QED
      BY <3>1, <3>4 DEF Playlists
  <2> QED
    <3>1. Knows(c)'
      BY <1>3, <2>2, <2>3, <2>4 DEF Knows
    <3> QED
      BY <1>3, <1>4, <3>1, LoudKeeps DEF Kept, NowInv, IndexInv
<1>6. CASE SetNow(c)
  <2>1. At(c, "play")'
    BY <1>1, <1>2, <1>3, <1>6, MidOnward DEF SetNow
  <2>2. ~At(c, "writeIndex")' /\ ~At(c, "saveLive")' /\ ~At(c, "clearNow")'
    BY <2>1 DEF At
  <2>3. call[c].fresh => Live.index \in DOMAIN Live.tracks /\ Live.tracks[Live.index] = call[c].now
    BY <1>1, <1>6 DEF Knows, SetNow
  <2>4. Live' = Live /\ rooms' = rooms /\ (Radio \in rooms => now' = call[c].now)
    BY <1>6 DEF SetNow, rowVars, Live
  <2>5. Knows(c)'
    BY <1>3, <2>2, <2>3, <2>4 DEF Knows
  <2> QED
    BY <1>3, <1>4, <2>5, LoudKeeps DEF Kept, NowInv, IndexInv
<1> QED
  BY <1>5, <1>6

LEMMA PlayHeard ==
  ASSUME TypeOK, HeardInv, NEW c \in Calls, Play(c) PROVE Kept
<1>1. CallsTyped /\ call[c] \in Records /\ LinkInv /\ Knows(c) /\ RadioTyped
  BY TypeParts DEF CallsTyped, HeardInv, KnowsInv
<1>2. /\ call[c].todo # <<>> /\ Overtake(c, Tail(call[c].todo), call[c]) /\ At(c, "play")
      /\ heard' = call[c].now /\ torn' = ~call[c].fresh
      /\ rooms' = rooms /\ UNCHANGED playlist /\ now' = now
  BY DEF Play, At, rowVars
<1>3. Moved(c) /\ \A d \in Calls \ {c} : Stales(d)
  BY <1>1, <1>2, Overtaken
<1>4. Knows(c)'
  BY <1>1, <1>2, <1>3, OnwardKnows DEF At
<1>5. call[c].fresh => /\ Live.index \in DOMAIN Live.tracks /\ Live.tracks[Live.index] = call[c].now
                       /\ Radio \in rooms => now = call[c].now
  BY <1>1, <1>2 DEF Knows
<1>6. Live' = Live
  BY <1>2 DEF Live
<1>7. Live.tracks \in Seq(Songs)
  BY <1>1, ListsTyped DEF RadioTyped, Playlists, Live
<1>8. NowInv'
  BY <1>2, <1>5 DEF NowInv
<1>9. IndexInv'
  <2>1. 0 \notin DOMAIN Live.tracks
    BY <1>7
  <2> QED
    BY <1>2, <1>5, <1>6, <2>1 DEF IndexInv
<1> QED
  BY <1>3, <1>4, <1>8, <1>9, LoudKeeps DEF Kept

\* The edits of the list on the air.
LEMMA PromoteHeard ==
  ASSUME TypeOK, HeardInv, NEW c \in Calls, Promote(c) PROVE Kept
<1>1. CallsTyped /\ call[c] \in Records /\ LinkInv
  BY TypeParts DEF CallsTyped, HeardInv
<1>2. /\ call[c].todo # <<>> /\ Overtake(c, Tail(call[c].todo), call[c]) /\ At(c, "promote")
      /\ torn' = (torn \/ ~call[c].fresh)
      /\ rooms' = rooms /\ heard' = heard /\ now' = now
  BY DEF Promote, Writing, At, rowVars
<1>3. Moved(c) /\ GoesOn(c) /\ \A d \in Calls \ {c} : Stales(d)
  BY <1>1, <1>2, Overtaken, MidOnward
<1>4. Knows(c)'
  BY <1>1, <1>2, <1>3, OnwardKnows DEF At
<1>5. MidList(c)' /\ ~MidHeard(c)
  <2>1. MidList(c)'
    BY <1>1, <1>2, <1>3, MidOnward
  <2> QED
    BY <1>2, <2>1 DEF MidHeard, At
<1>6. NowInv'
  BY <1>2, <1>3, <1>4, <1>5, LoudKeeps DEF NowInv, HeardInv
<1>7. IndexInv'
  BY <1>5 DEF IndexInv
<1> QED
  BY <1>3, <1>4, <1>6, <1>7, LoudKeeps DEF Kept

LEMMA SaveLiveHeard ==
  ASSUME TypeOK, HeardInv, NEW c \in Calls, SaveLive(c) PROVE Kept
<1>1. CallsTyped /\ call[c] \in Records /\ LinkInv /\ Knows(c) /\ RadioTyped
  BY TypeParts DEF CallsTyped, HeardInv, KnowsInv
<1> DEFINE i == IF call[c].kind = "tracks"
                THEN Reconciled(call[c].tracks, call[c].now, call[c].index) ELSE call[c].index
<1>2. /\ call[c].todo # <<>> /\ Overtake(c, Tail(call[c].todo), call[c]) /\ At(c, "saveLive")
      /\ torn' = (torn \/ ~call[c].fresh)
      /\ rooms' = rooms /\ heard' = heard /\ now' = now /\ Radio \in rooms
      /\ playlist' = [playlist EXCEPT !["live"] = Listing(call[c].tracks, i)]
  BY DEF SaveLive, Writing, At, rowVars
<1>3. Moved(c) /\ \A d \in Calls \ {c} : Stales(d)
  BY <1>1, <1>2, Overtaken
<1>4. Knows(c)'
  BY <1>1, <1>2, <1>3, OnwardKnows DEF At
<1>5. ~MidHeard(c) /\ ~MidList(c)
  BY <1>2 DEF MidHeard, MidList, At
<1>6. call[c].kind \in {"tracks", "snippets"}
  <2>1. call[c].todo \in Seq(Steps)
    BY <1>1 DEF Records
  <2>2. 1 \in DOMAIN call[c].todo /\ call[c].todo[1] = "saveLive"
    BY <1>2, <2>1 DEF At
  <2> QED
    BY <1>1, <2>2 DEF LinkInv, Linked
<1>7. Live'.tracks = call[c].tracks /\ Live'.index = i
  <2> HIDE DEF i
  <2>1. playlist \in [{"live", "staged"} -> Playlists]
    BY <1>1 DEF RadioTyped
  <2> QED
    BY <1>2, <2>1 DEF Live, Listing
<1>8. NowInv'
  BY <1>2, <1>3, <1>4, <1>5, LoudKeeps DEF NowInv, HeardInv
<1>9. IndexInv'
  <2> SUFFICES ASSUME ~torn', \A d \in Calls : ~MidList(d)', heard' \in Range(Live'.tracks)
               PROVE  Live'.index # 0 /\ Live'.tracks[Live'.index] = heard'
    BY DEF IndexInv
  <2>1. ~torn /\ call[c].fresh
    BY <1>2
  <2>2. \A d \in Calls : ~MidList(d) /\ ~MidHeard(d)
    BY <1>3, <1>4, <1>5, LoudKeeps DEF MidList
  <2>3. CASE call[c].kind = "tracks"
    <3>1. call[c].now = now
      BY <1>1, <1>2, <2>1, <2>3 DEF Knows
    <3>2. heard \in {Silence, now}
      BY <1>2, <2>1, <2>2 DEF HeardInv, NowInv
    <3>3. call[c].tracks \in Lists \cup {<<>>}
      BY <1>1 DEF Records
    <3>4. heard \in Songs
      <4>1. call[c].tracks \in Seq(Songs)
        BY <3>3, ListsTyped
      <4> QED
        BY <1>2, <1>7, <4>1 DEF Range
    <3>5. heard = now /\ now \in Range(call[c].tracks)
      BY <1>2, <1>7, <3>2, <3>4, ConstantsOK
    <3>6. i = First(call[c].tracks, now)
      BY <2>3, <3>1, <3>5 DEF Reconciled
    <3> HIDE DEF i
    <3> QED
      BY <1>2, <1>7, <3>3, <3>5, <3>6, FirstOf
  <2>4. CASE call[c].kind = "snippets"
    <3>1. call[c].tracks = Live.tracks /\ call[c].index = Live.index
      BY <1>1, <1>2, <2>1, <2>4 DEF Knows
    <3>2. Live'.tracks = Live.tracks /\ Live'.index = Live.index
      BY <1>7, <2>4, <3>1
    <3> QED
      BY <1>2, <2>1, <2>2, <3>2 DEF HeardInv, IndexInv
  <2> QED
    BY <1>6, <2>3, <2>4
<1> QED
  BY <1>3, <1>4, <1>8, <1>9, LoudKeeps DEF Kept

\* What stops the radio.
LEMMA StopHeard ==
  ASSUME TypeOK, HeardInv, NEW c \in Calls, call[c].room = Radio, ClearHeard(c) \/ ClearNow(c)
  PROVE  Kept
<1>1. CallsTyped /\ call[c] \in Records /\ LinkInv /\ Knows(c) /\ RadioTyped
  BY TypeParts DEF CallsTyped, HeardInv, KnowsInv
<1>2. /\ call[c].todo # <<>> /\ Overtake(c, Tail(call[c].todo), call[c])
      /\ At(c, "clearHeard") \/ At(c, "clearNow")
      /\ torn' = (torn \/ ~call[c].fresh)
      /\ rooms' = rooms /\ UNCHANGED playlist
  BY DEF ClearHeard, ClearNow, Writing, At, rowVars
<1>3. Moved(c) /\ \A d \in Calls \ {c} : Stales(d)
  BY <1>1, <1>2, Overtaken
<1>4. Live' = Live /\ Silence \notin Range(Live.tracks)
  <2>1. Live.tracks \in Seq(Songs)
    BY <1>1, ListsTyped DEF RadioTyped, Playlists, Live
  <2>2. Range(Live.tracks) \subseteq Songs
    BY <2>1 DEF Range
  <2> QED
    BY <1>2, <2>2, ConstantsOK DEF Live
<1>5. At(c, "clearHeard") => heard' = Silence /\ now' = now
  BY DEF ClearHeard, ClearNow, At
<1>6. At(c, "clearNow") => heard' = heard /\ now' = Silence
  BY DEF ClearHeard, ClearNow, At
<1>7. Knows(c)'
  BY <1>1, <1>2, <1>3, <1>5, OnwardKnows DEF At
<1>8. CASE At(c, "clearHeard") \/ ~Then(c, "clearHeard")
  <2>1. ~torn' => heard' = Silence
    BY <1>1, <1>2, <1>5, <1>6, <1>8 DEF Knows
  <2>2. NowInv'
    BY <2>1 DEF NowInv
  <2>3. IndexInv'
    BY <1>4, <2>1 DEF IndexInv
  <2> QED
    BY <1>3, <1>7, <2>2, <2>3, LoudKeeps DEF Kept
<1>9. CASE At(c, "clearNow") /\ Then(c, "clearHeard")
  <2>1. GoesOn(c)
    BY <1>1, <1>2, <1>9, Overtaken, MidOnward
  <2>2. MidHeard(c)' /\ MidList(c)'
    BY <1>1, <1>2, <1>9, <2>1, MidOnward
  <2> QED
    BY <1>3, <1>7, <2>2, LoudKeeps DEF Kept, NowInv, IndexInv
<1> QED
  BY <1>2, <1>8, <1>9

LEMMA DropHeard ==
  ASSUME TypeOK, HeardInv, NEW c \in Calls, call[c].room = Radio, Drop(c) PROVE Kept
<1>1. CallsTyped /\ call[c] \in Records /\ LinkInv /\ RadioTyped
  BY TypeParts DEF CallsTyped, HeardInv
<1>2. /\ call[c].todo # <<>> /\ Overtake(c, Tail(call[c].todo), call[c]) /\ At(c, "drop")
      /\ Radio \notin rooms'
      /\ playlist' = [s \in DOMAIN playlist |-> NoList]
  BY DEF Drop, Writing, At
<1>3. Moved(c) /\ \A d \in Calls \ {c} : Stales(d)
  BY <1>1, <1>2, Overtaken
<1>4. Live'.tracks = <<>>
  <2>1. "live" \in DOMAIN playlist
    BY <1>1 DEF RadioTyped
  <2> QED
    BY <1>2, <2>1 DEF Live, NoList
<1>5. Knows(c)'
  BY <1>1, <1>2, <1>3, OnwardKnows DEF At
<1>6. NowInv'
  BY <1>2 DEF NowInv
<1>7. IndexInv'
  BY <1>4 DEF IndexInv, Range
<1> QED
  BY <1>3, <1>5, <1>6, <1>7, LoudKeeps DEF Kept

LEMMA HeardStatement ==
  ASSUME TypeOK, HeardInv, NEW c \in Calls, Statement(c) PROVE HeardInv'
<1>1. EmptyInv'
  BY EmptyStep DEF HeardInv
<1>2. Kept
  <2>1. CASE \/ Count(c) \/ Insert(c) \/ SetLive(c) \/ SetEnded(c) \/ Which(c) \/ Peek(c)
             \/ SaveStaged(c) \/ Unstage(c)
             \/ call[c].room # Radio /\ (Drop(c) \/ ClearHeard(c) \/ ClearNow(c))
    BY <2>1, DeafHeard
  <2>2. CASE Reread(c) \/ SetRoomAutoplay(c)
    BY <2>2, OnAirHeard
  <2>3. CASE ReadLive(c) \/ ReadNow(c)
    BY <2>3, ReadsHeard
  <2>4. CASE Start(c) \/ Join(c) \/ Recheck(c) \/ Build(c) \/ Keep(c) \/ Land(c)
    BY <2>4, RestartsHeard
  <2>5. CASE ReadIndex(c)
    BY <2>5, ReadIndexHeard
  <2>6. CASE WriteIndex(c) \/ SetNow(c)
    BY <2>6, AdvanceHeard
  <2>7. CASE Play(c)
    BY <2>7, PlayHeard
  <2>8. CASE Promote(c)
    BY <2>8, PromoteHeard
  <2>9. CASE SaveLive(c)
    BY <2>9, SaveLiveHeard
  <2>10. CASE call[c].room = Radio /\ (ClearHeard(c) \/ ClearNow(c))
    BY <2>10, StopHeard
  <2>11. CASE call[c].room = Radio /\ Drop(c)
    BY <2>11, DropHeard
  <2>12. CASE Fail(c)
    BY <2>12, FailHeard
  <2> QED
    BY <2>1, <2>2, <2>3, <2>4, <2>5, <2>6, <2>7, <2>8, <2>9, <2>10, <2>11, <2>12 DEF Statement
<1> QED
  BY <1>1, <1>2 DEF HeardInv, Kept

LEMMA HeardBegin ==
  ASSUME TypeOK, HeardInv, NEW c \in Calls, NEW kind \in Kinds, NEW room \in Ids, Begin(c, kind, room)
  PROVE  HeardInv'
<1>1. CallsTyped /\ kind \in DOMAIN Plan /\ requests \in Nat
  BY TypeParts, ConstantsOK DEF CallsTyped, Ids
<1>2. /\ call[c] = NoCall /\ MayBegin(kind, room)
      /\ UNCHANGED <<rowVars, radioVars>>
  BY DEF Begin
<1>3. /\ \A d \in Calls \ {c} : call'[d] = call[d]
      /\ call'[c].kind = kind /\ call'[c].room = room /\ call'[c].serial = requests + 1
      /\ call'[c].todo \in {<<"drop">>, Plan[kind]}
  <2> HIDE DEF Plan
  <2>1. PICK l \in Sent(kind) :
          call' = [call EXCEPT ![c] = [NoCall EXCEPT !.kind = kind, !.room = room, !.tracks = l,
             !.serial = requests + 1,
             !.todo = IF kind = "remove" /\ room \notin live THEN <<"drop">> ELSE Plan[kind]]]
    BY DEF Begin
  <2> QED
    BY <1>1, <2>1 DEF CallsTyped, NoCall
<1>4. /\ Linked(kind, requests + 1, call'[c].todo) /\ Opens(call'[c].todo)
  <2>1. requests + 1 \in Nat \ {0}
    BY <1>1
  <2> QED
    BY <1>1, <1>3, <2>1, PlansLinked, RestartsLinked
<1>5. kind = "activate" => room = Radio
  BY <1>2 DEF MayBegin
<1>6. LinkInv'
  BY <1>3, <1>4, <1>5 DEF HeardInv, LinkInv
<1>7. Knows(c)' /\ \A d \in Calls \ {c} : Stays(d)
  BY <1>3, <1>4, OpensKnows DEF Stays
<1>8. ~MidHeard(c) /\ ~MidList(c)
  BY <1>2, NoCallTyped DEF MidHeard, MidList, At
<1>9. rooms' = rooms /\ playlist' = playlist /\ now' = now /\ heard' = heard /\ torn' = torn
  BY <1>2 DEF rowVars, radioVars
<1>10. KnowsInv' /\ NowInv' /\ IndexInv'
  BY <1>7, <1>8, <1>9, CalmKeeps
<1>11. EmptyInv'
  BY <1>9 DEF HeardInv, EmptyInv
<1> QED
  BY <1>6, <1>10, <1>11 DEF HeardInv

LEMMA HeardStep == TypeOK /\ HeardInv /\ [Next]_vars => HeardInv'
<1> SUFFICES ASSUME TypeOK, HeardInv, [Next]_vars PROVE HeardInv'
  OBVIOUS
<1>1. ASSUME NEW c \in Calls, Statement(c) PROVE HeardInv'
  BY <1>1, HeardStatement
<1>2. ASSUME NEW c \in Calls, NEW kind \in Kinds, NEW room \in Ids, Begin(c, kind, room)
      PROVE  HeardInv'
  BY <1>2, HeardBegin
<1>3. ASSUME Expire \/ UNCHANGED vars PROVE HeardInv'
  <2>1. UNCHANGED <<rooms, playlist, now, heard, torn, call>>
    BY <1>3 DEF Expire, vars, rowVars, radioVars
  <2>2. /\ \A c \in Calls : \A step : /\ At(c, step)' <=> At(c, step)
                                      /\ Then(c, step)' <=> Then(c, step)
        /\ Live' = Live
    BY <2>1 DEF At, Then, Live
  <2>3. \A c \in Calls : /\ MidHeard(c)' <=> MidHeard(c)
                         /\ MidList(c)' <=> MidList(c)
                         /\ Knows(c)' <=> Knows(c)
    BY <2>1, <2>2 DEF MidHeard, MidList, Knows
  <2> QED
    BY <2>1, <2>2, <2>3 DEF HeardInv, LinkInv, EmptyInv, KnowsInv, NowInv, IndexInv
<1> QED
  BY <1>1, <1>2, <1>3 DEF Next, Rest

\* What the radio plays is the row of its live playlist that current_index names, if it is in the
\* list, whatever lists are saved, staged and activated on the air, unless two edits met or one
\* failed half way since the last advance that nobody met (admin.go:703).
THEOREM RadioKnowsItsRow == Spec => []IndexNamesHeard
<1>1. Init => HeardInv
  <2> SUFFICES ASSUME Init PROVE HeardInv
    OBVIOUS
  <2>1. /\ call = [c \in Calls |-> NoCall] /\ now = heard
        /\ heard = IF autoplay THEN playlist["live"].tracks[1] ELSE Silence
    BY DEF Init
  <2>2. PICK l \in Lists : /\ l # <<>>
                           /\ playlist = [live   |-> IF autoplay THEN Listing(l, 1) ELSE NoList,
                                          staged |-> IF autoplay THEN NoList ELSE Listing(l, 0)]
    BY DEF Init
  <2>3. LinkInv
    BY <2>1 DEF LinkInv, Linked, NoCall
  <2>4. EmptyInv
    BY <2>2 DEF EmptyInv, Listing, NoList
  <2>5. KnowsInv
    BY <2>1, NoCallTyped DEF KnowsInv, Knows, At
  <2>6. NowInv
    BY <2>1 DEF NowInv
  <2>7. IndexInv
    BY <2>1, <2>2 DEF IndexInv, Live, Listing, NoList, Range
  <2> QED
    BY <2>3, <2>4, <2>5, <2>6, <2>7 DEF HeardInv
<1>2. TypeOK /\ HeardInv => IndexNamesHeard
  <2> SUFFICES ASSUME TypeOK, HeardInv, ~torn, heard \in Range(Live.tracks),
                      \A c \in Calls : Still(c) \cap {"play", "clearHeard"} = {}
               PROVE  Live.index # 0 /\ Live.tracks[Live.index] = heard
    BY DEF IndexNamesHeard, Live
  <2>1. ASSUME NEW c \in Calls PROVE ~MidList(c)
    <3>1. \A i \in DOMAIN call[c].todo : call[c].todo[i] \notin {"play", "clearHeard"}
      BY DEF Still, Range
    <3>2. call[c].todo \in Seq(Steps) /\ Linked(call[c].kind, call[c].serial, call[c].todo)
      BY TypeParts DEF CallsTyped, Records, HeardInv, LinkInv
    <3>3. \A step : At(c, step) => 1 \in DOMAIN call[c].todo /\ call[c].todo[1] = step
      BY <3>2 DEF At
    <3>4. ~At(c, "play") /\ ~At(c, "clearHeard") /\ ~Then(c, "clearHeard")
      BY <3>1, <3>3 DEF Then, Second
    <3>5. ~At(c, "setNow") /\ ~At(c, "reread")
      BY <3>1, <3>2, <3>3 DEF Linked, Follows
    <3> QED
      BY <3>4, <3>5 DEF MidList, MidHeard
  <2> QED
    BY <2>1 DEF HeardInv, IndexInv
<1> QED
  BY <1>1, <1>2, HeardStep, TypeCorrect, PTL DEF Spec
=============================================================================
