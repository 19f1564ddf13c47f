----------------------------- MODULE HubProofs -----------------------------
(* Proofs about Hub, for every set of connections and of hub generations.   *)
EXTENDS Hub, FiniteSetTheorems, TLAPS

\* A connection that went past Attach belongs to a hub: without it the types of the
\* per-hub sets that stop() extends are not inductive.
HubAssigned == \A c \in Conns : stage[c] \notin {"new", "slotted", "gone"} => hubOf[c] \in Hubs

\* What a move of one connection's goroutine does to the stages.
LEMMA GotoMoves ==
  ASSUME stage \in [Conns -> Stages], NEW c \in Conns, NEW s \in Stages, Goto(c, s)
  PROVE  /\ stage' \in [Conns -> Stages]
         /\ stage'[c] = s
         /\ \A d \in Conns \ {c} : stage'[d] = stage[d]
BY DEF Goto

\* Every variable of Hub keeps its type, and past Attach a connection has a hub.
THEOREM TypeCorrect == Spec => [](TypeOK /\ HubAssigned)
<1>1. Init => TypeOK /\ HubAssigned
  <2>1. Init => HubAssigned
    BY DEF Init, HubAssigned
  <2>2. <<>> \in Seq(DJs \X BOOLEAN)
    OBVIOUS
  <2>3. Init => TypeOK
    <3> SUFFICES ASSUME Init PROVE TypeOK
      OBVIOUS
    <3>1. /\ inbox \in [Hubs -> Seq(DJs \X BOOLEAN)]
          /\ listen \in [Sessions -> Users \cup {Nobody, Ended}]
          /\ stage \in [Conns -> Stages]
          /\ connsByIP \in [Ips -> Nat]
      BY <2>2 DEF Init, Stages, HandlerStages
    <3>2. /\ members \in [Hubs -> SUBSET Conns]
          /\ micActive \in [Hubs -> BOOLEAN]
          /\ micOwner \in [Hubs -> Conns \cup {NoConn}]
          /\ hand \in [Hubs -> Conns \cup {NoConn}]
          /\ hubOf \in [Conns -> Hubs \cup {NoHub}]
      BY DEF Init
    <3>3. /\ pendingRegs \in [Hubs -> Int]
          /\ join \in [Conns -> JoinStages]
      BY DEF Init, JoinStages
    <3>4. /\ hub \in Hubs \cup {NoHub} /\ started \in SUBSET Hubs /\ loopDone \in SUBSET Hubs
          /\ stopping \in SUBSET Hubs /\ quit \in SUBSET Hubs /\ once \in SUBSET Hubs
          /\ closed \in SUBSET Conns /\ slot \in SUBSET Conns /\ listeners \in SUBSET Sessions
          /\ room \in {"never", "live", "offline", "gone"} /\ ending \in BOOLEAN
      BY DEF Init
    <3>5. QED BY <3>1, <3>2, <3>3, <3>4 DEF TypeOK
  <2>4. QED BY <2>1, <2>3
<1>2. TypeOK /\ HubAssigned /\ [Next]_vars => (TypeOK /\ HubAssigned)'
  <2> SUFFICES ASSUME TypeOK, HubAssigned, [Next]_vars PROVE TypeOK' /\ HubAssigned'
    OBVIOUS
  <2> USE DEF TypeOK, HubAssigned, Goto, Stages, HandlerStages, LeaveStages, JoinStages, Selecting,
              hubVars, micVars, connVars, slotVars, dbVars, vars
  <2>1. ASSUME NEW c \in Conns, Handler(c) PROVE TypeOK' /\ HubAssigned'
    <3>0. SessionOf[c] \in Sessions /\ IpOf[c] \in Ips
      BY DEF Sessions, Ips
    <3>1. ASSUME Release(c) PROVE slot' \in SUBSET Conns /\ connsByIP' \in [Ips -> Nat]
      BY <3>1, <3>0 DEF Release
    <3>2. CASE AcquireIPSlot(c)      BY <3>2, <3>0 DEF AcquireIPSlot
    <3>3. CASE UpgradeFails(c)       BY <3>3, <3>1 DEF UpgradeFails
    <3>4. CASE Attach(c)
      <4>1. PICK h \in Hubs :
              /\ GetOrCreate(h)
              /\ \/ Release(c) /\ Goto(c, "gone") /\ UNCHANGED hubOf
                 \/ hubOf' = [hubOf EXCEPT ![c] = h] /\ Goto(c, "admitted") /\ UNCHANGED slotVars
        BY <3>4 DEF Attach
      <4>2. hub' \in Hubs \cup {NoHub} /\ started' \in SUBSET Hubs
        BY <4>1 DEF GetOrCreate
      <4>3. /\ hubOf' \in [Conns -> Hubs \cup {NoHub}] /\ stage' \in [Conns -> Stages]
            /\ \A d \in Conns : stage'[d] \notin {"new", "slotted", "gone"} => hubOf'[d] \in Hubs
        <5>1. CASE hubOf' = [hubOf EXCEPT ![c] = h] /\ Goto(c, "admitted")
          BY <4>1, <5>1
        <5>2. CASE Goto(c, "gone") /\ UNCHANGED hubOf
          BY <5>2
        <5>3. QED BY <4>1, <5>1, <5>2
      <4>4. slot' \in SUBSET Conns /\ connsByIP' \in [Ips -> Nat]
        BY <3>1, <4>1
      <4>5. QED BY <3>4, <4>2, <4>3, <4>4 DEF Attach
    <3>5. CASE ClaimRegistration(c)
      <4>1. hubOf[c] \in Hubs
        BY <3>5 DEF ClaimRegistration
      <4>2. CASE hubOf[c] \in stopping
        BY <3>5, <3>1, <4>1, <4>2 DEF ClaimRegistration
      <4>3. CASE hubOf[c] \notin stopping
        <5>1. pendingRegs' \in [Hubs -> Int]
          BY <3>5, <4>1, <4>3 DEF ClaimRegistration
        <5>2. Goto(c, "sending")
          BY <3>5, <4>3 DEF ClaimRegistration
        <5>3. stage' \in [Conns -> Stages] /\ \A d \in Conns \ {c} : stage'[d] = stage[d]
          BY <5>2, GotoMoves
        <5>4. UNCHANGED hubOf
          BY <3>5 DEF ClaimRegistration
        <5>5. HubAssigned'
          BY <4>1, <5>3, <5>4
        <5>6. TypeOK'
          BY <3>5, <4>3, <5>1, <5>3 DEF ClaimRegistration
        <5>7. QED BY <5>5, <5>6
      <4>4. QED BY <4>2, <4>3
    <3>6. CASE SendRegistration(c)   BY <3>6 DEF SendRegistration
    <3>7. CASE AbortRegistration(c)  BY <3>7, <3>1 DEF AbortRegistration
    <3>8. CASE ReleaseOnDone(c)      BY <3>8, <3>1 DEF ReleaseOnDone
    <3>9. QED BY <2>1, <3>2, <3>3, <3>4, <3>5, <3>6, <3>7, <3>8 DEF Handler
  <2>2. ASSUME NEW c \in Conns, Reader(c) PROVE TypeOK' /\ HubAssigned'
    <3>1. CASE ReadFails(c)             BY <3>1 DEF ReadFails
    <3>2. CASE Unregister(c)            BY <3>2 DEF Unregister
    <3>3. CASE UnregisterFromDeadHub(c) BY <3>3 DEF UnregisterFromDeadHub
    <3>4. ASSUME NEW on \in BOOLEAN, SendMic(c, on) PROVE TypeOK' /\ HubAssigned'
      <4>1. hubOf[c] \in Hubs /\ c \in DJs
        BY <3>4 DEF SendMic
      <4>2. Append(inbox[hubOf[c]], <<c, on>>) \in Seq(DJs \X BOOLEAN)
        BY <4>1
      <4>3. inbox' \in [Hubs -> Seq(DJs \X BOOLEAN)]
        BY <3>4, <4>1, <4>2 DEF SendMic
      <4>4. QED BY <3>4, <4>3 DEF SendMic
    <3>5. QED BY <2>2, <3>1, <3>2, <3>3, <3>4 DEF Reader
  <2>3. ASSUME NEW c \in Conns, OnRegister(c) PROVE TypeOK' /\ HubAssigned'
    <3>0. SessionOf[c] \in Sessions /\ UserOf[c] \in Users
      BY DEF Sessions, Users
    <3>1. CASE AddListener(c)      BY <3>1, <3>0 DEF AddListener, Written
    <3>2. CASE StartListenEvent(c) BY <3>2, <3>0 DEF StartListenEvent, Written
    <3>3. CASE FinishJoin(c)       BY <3>3 DEF FinishJoin
    <3>4. CASE EndStaleListenEvents(c) BY <3>4 DEF EndStaleListenEvents, Written
    <3>5. QED BY <2>3, <3>1, <3>2, <3>3, <3>4 DEF OnRegister
  <2>4. ASSUME NEW c \in Conns, OnUnregister(c) PROVE TypeOK' /\ HubAssigned'
    <3>1. CASE PassBarrier(c)    BY <3>1 DEF PassBarrier
    <3>2. CASE RemoveListener(c) BY <3>2 DEF RemoveListener, Written
    <3>3. CASE EndListenEvent(c) BY <3>3 DEF EndListenEvent, Written
    <3>4. CASE ClearOwnedMic(c)  BY <3>4 DEF ClearOwnedMic
    <3>5. CASE CheckEverLive(c)  BY <3>5 DEF CheckEverLive
    <3>6. CASE DeleteRoom(c)     BY <3>6 DEF DeleteRoom
    <3>7. CASE ClearListeners(c) BY <3>7 DEF ClearListeners, Written
    <3>8. CASE CheckEmpty(c)     BY <3>8 DEF CheckEmpty
    <3>9. CASE LookupRoom(c)     BY <3>9 DEF LookupRoom
    <3>10. CASE DecideIdle(c)
      <4>1. hubOf[c] \in Hubs
        BY <3>10 DEF DecideIdle
      <4>2. stopping' \in SUBSET Hubs
        BY <3>10, <4>1 DEF DecideIdle
      <4>3. Goto(c, "stop") \/ Goto(c, "gone")
        BY <3>10 DEF DecideIdle
      <4>4. UNCHANGED <<hub, started, loopDone, hand, quit, once, pendingRegs, members,
                        micVars, hubOf, join, closed, slotVars, dbVars>>
        BY <3>10 DEF DecideIdle
      <4>5. QED BY <4>1, <4>2, <4>3, <4>4, GotoMoves
    <3>11. CASE EnterStop(c)
      <4>1. hubOf[c] \in Hubs
        BY <3>11 DEF EnterStop
      <4>2. stopping' \in SUBSET Hubs /\ once' \in SUBSET Hubs
        BY <3>11, <4>1 DEF EnterStop
      <4>3. Goto(c, "close") \/ Goto(c, "gone")
        BY <3>11 DEF EnterStop
      <4>4. UNCHANGED <<hub, started, loopDone, hand, quit, pendingRegs, members,
                        micVars, hubOf, join, closed, slotVars, dbVars>>
        BY <3>11 DEF EnterStop
      <4>5. QED BY <4>1, <4>2, <4>3, <4>4, GotoMoves
    <3>12. CASE CloseQuit(c)     BY <3>12 DEF CloseQuit
    <3>13. CASE RemoveHub(c)     BY <3>13 DEF RemoveHub
    <3>14. QED BY <2>4, <3>1, <3>2, <3>3, <3>4, <3>5, <3>6, <3>7, <3>8, <3>9, <3>10,
                  <3>11, <3>12, <3>13 DEF OnUnregister
  <2>5. ASSUME NEW h \in Hubs, Run(h) \/ HandleMic(h) PROVE TypeOK' /\ HubAssigned'
    <3>1. CASE HandleRegister(h)
      <4>1. hand[h] \in Conns
        BY <3>1 DEF HandleRegister
      <4>2. pendingRegs' \in [Hubs -> Int] /\ hand' \in [Hubs -> Conns \cup {NoConn}]
        BY <3>1 DEF HandleRegister
      <4>3. members' \in [Hubs -> SUBSET Conns]
        <5>1. CASE h \in stopping      BY <3>1, <5>1 DEF HandleRegister
        <5>2. CASE h \notin stopping
          <6>1. members' = [members EXCEPT ![h] = @ \cup {hand[h]}]
            BY <3>1, <5>2 DEF HandleRegister
          <6>2. QED BY <4>1, <6>1
        <5>3. QED BY <5>1, <5>2
      <4>4. /\ join' \in [Conns -> JoinStages]
            /\ closed' \in SUBSET Conns
        <5>1. \/ join' = [join EXCEPT ![hand[h]] = "refused"]
              \/ join' = [join EXCEPT ![hand[h]] = "add"]
          BY <3>1 DEF HandleRegister
        <5>2. closed' = closed \cup {hand[h]} \/ closed' = closed
          BY <3>1 DEF HandleRegister
        <5>3. QED BY <4>1, <5>1, <5>2
      <4>5. UNCHANGED <<hub, started, loopDone, stopping, quit, once, micVars,
                        stage, hubOf, slotVars, dbVars>>
        BY <3>1 DEF HandleRegister
      <4>6. QED BY <4>2, <4>3, <4>4, <4>5
    <3>2. CASE RunReturns(h)     BY <3>2 DEF RunReturns
    <3>3. ASSUME NEW c \in Conns, Evict(h, c) PROVE TypeOK' /\ HubAssigned'
      BY <3>3 DEF Evict
    <3>4. CASE HandleMic(h)
      <4>1. /\ Head(inbox[h]) \in DJs \X BOOLEAN
            /\ Tail(inbox[h]) \in Seq(DJs \X BOOLEAN)
        BY <3>4 DEF HandleMic
      <4>2. Head(inbox[h])[1] \in Conns /\ Head(inbox[h])[2] \in BOOLEAN
        BY <4>1, ConstantsOK
      <4>3. inbox' \in [Hubs -> Seq(DJs \X BOOLEAN)]
        BY <3>4, <4>1 DEF HandleMic
      <4>4. /\ micActive' \in [Hubs -> BOOLEAN]
            /\ micOwner' \in [Hubs -> Conns \cup {NoConn}]
        BY <3>4, <4>2 DEF HandleMic
      <4>5. QED BY <3>4, <4>3, <4>4 DEF HandleMic
    <3>5. QED BY <2>5, <3>1, <3>2, <3>3, <3>4 DEF Run
  <2>6. CASE RoomLife
    BY <2>6 DEF RoomLife, CleanupGhostRooms, GoLive, EndRoom, EndRoomClearsListeners, Written
  <2>7. CASE UNCHANGED vars
    BY <2>7
  <2>8. QED BY <2>1, <2>2, <2>3, <2>4, <2>5, <2>6, <2>7 DEF Next
<1>3. QED BY <1>1, <1>2, PTL DEF Spec

-----------------------------------------------------------------------------
(***************************************************************************)
(* Most steps are quiet: they leave the hub's shutdown and registration    *)
(* state alone, only ever shrink a client set, and move a goroutine between*)
(* stages that no invariant below looks at.                                *)
(***************************************************************************)
Critical == {"sending", "close", "unlink"}
Detached == {"new", "slotted", "gone"}

Quiet ==
    /\ UNCHANGED <<hub, started, hand, stopping, quit, once, pendingRegs, hubOf>>
    /\ \A h \in Hubs : members'[h] \subseteq members[h]
    /\ \A d \in Conns : stage'[d] # stage[d] =>
          /\ stage[d] \notin Critical /\ stage'[d] \notin Critical
          /\ stage[d] \in Detached => stage'[d] \in Detached
          /\ stage'[d] \in HandlerStages => stage[d] \in HandlerStages

Loud(c) == \/ Attach(c) \/ ClaimRegistration(c) \/ SendRegistration(c) \/ AbortRegistration(c)
           \/ DecideIdle(c) \/ EnterStop(c) \/ CloseQuit(c) \/ RemoveHub(c)

LEMMA StepKinds ==
  ASSUME TypeOK, HubAssigned, [Next]_vars
  PROVE  Quiet \/ (\E c \in Conns : Loud(c)) \/ (\E h \in Hubs : HandleRegister(h))
<1> USE DEF Critical, Detached, HandlerStages
<1>0. stage \in [Conns -> Stages] /\ members \in [Hubs -> SUBSET Conns]
  BY DEF TypeOK
<1>1. ASSUME NEW c \in Conns, Handler(c), ~Loud(c) PROVE Quiet
  <2>1. CASE AcquireIPSlot(c)
    BY <1>0, <2>1 DEF AcquireIPSlot, Quiet, Goto, hubVars, micVars
  <2>2. CASE UpgradeFails(c)
    BY <1>0, <2>2 DEF UpgradeFails, Quiet, Goto, hubVars, micVars
  <2>3. CASE ReleaseOnDone(c)
    BY <1>0, <2>3 DEF ReleaseOnDone, Quiet, hubVars, connVars
  <2>4. QED BY <1>1, <2>1, <2>2, <2>3 DEF Handler, Loud
<1>2. ASSUME NEW c \in Conns, Reader(c) PROVE Quiet
  <2>1. CASE ReadFails(c)
    BY <1>0, <2>1 DEF ReadFails, Quiet, Goto, hubVars
  <2>2. CASE Unregister(c)
    BY <1>0, <2>2 DEF Unregister, Quiet, Goto
  <2>3. CASE UnregisterFromDeadHub(c)
    BY <1>0, <2>3 DEF UnregisterFromDeadHub, Quiet, Goto, hubVars
  <2>4. ASSUME NEW on \in BOOLEAN, SendMic(c, on) PROVE Quiet
    BY <1>0, <2>4 DEF SendMic, Quiet, hubVars, connVars
  <2>5. QED BY <1>2, <2>1, <2>2, <2>3, <2>4 DEF Reader
<1>3. ASSUME NEW c \in Conns, OnRegister(c) PROVE Quiet
  BY <1>0, <1>3 DEF OnRegister, AddListener, EndStaleListenEvents, StartListenEvent, FinishJoin, Quiet, hubVars
<1>4. ASSUME NEW c \in Conns, OnUnregister(c), ~Loud(c) PROVE Quiet
  <2>1. CASE PassBarrier(c) \/ RemoveListener(c) \/ EndListenEvent(c)
    BY <1>0, <2>1 DEF PassBarrier, RemoveListener, EndListenEvent, Quiet, Goto, hubVars
  <2>2. CASE ClearOwnedMic(c) \/ CheckEverLive(c)
    BY <1>0, <2>2 DEF ClearOwnedMic, CheckEverLive, Quiet, Goto, hubVars
  <2>3. CASE DeleteRoom(c) \/ ClearListeners(c)
    BY <1>0, <2>3 DEF DeleteRoom, ClearListeners, Quiet, Goto, hubVars
  <2>4. CASE CheckEmpty(c) \/ LookupRoom(c)
    BY <1>0, <2>4 DEF CheckEmpty, LookupRoom, Quiet, Goto, hubVars
  <2>5. QED BY <1>4, <2>1, <2>2, <2>3, <2>4 DEF OnUnregister, Loud
<1>5. ASSUME NEW h \in Hubs, Run(h) \/ HandleMic(h), ~HandleRegister(h) PROVE Quiet
  <2>1. CASE RunReturns(h)
    BY <1>0, <2>1 DEF RunReturns, Quiet, connVars
  <2>2. ASSUME NEW c \in Conns, Evict(h, c) PROVE Quiet
    BY <1>0, <2>2 DEF Evict, Quiet
  <2>3. CASE HandleMic(h)
    BY <1>0, <2>3 DEF HandleMic, Quiet, hubVars, connVars
  <2>4. QED BY <1>5, <2>1, <2>2, <2>3 DEF Run
<1>6. ASSUME RoomLife PROVE Quiet
  BY <1>0, <1>6 DEF RoomLife, CleanupGhostRooms, GoLive, EndRoom, EndRoomClearsListeners, Quiet, hubVars, connVars
<1>7. ASSUME UNCHANGED vars PROVE Quiet
  BY <1>0, <1>7 DEF Quiet, vars, hubVars, connVars
<1>8. QED BY <1>1, <1>2, <1>3, <1>4, <1>5, <1>6, <1>7 DEF Next

-----------------------------------------------------------------------------
(***************************************************************************)
(* Who may be inside stop().  OneServingHub alone is not inductive: that   *)
(* RemoveHub takes the right hub away rests on only one goroutine ever     *)
(* being inside a hub's stop body, between its once.Do and its removal.    *)
(***************************************************************************)
Stopper(c, h) == stage[c] \in {"close", "unlink"} /\ hubOf[c] = h

StopOrder  == quit \subseteq once /\ once \subseteq stopping
StopperIn  == \A c \in Conns : stage[c] \in {"close", "unlink"} => hubOf[c] \in once
OneStopper == \A c, d \in Conns, h \in Hubs : Stopper(c, h) /\ Stopper(d, h) => c = d
BeforeQuit == \A c \in Conns : stage[c] = "close" => hubOf[c] \notin quit
AfterQuit  == \A c \in Conns : stage[c] = "unlink" => hubOf[c] \in quit /\ hub = hubOf[c]
HubStarted == /\ hub # NoHub => hub \in started
              /\ \A c \in Conns : stage[c] \notin Detached => hubOf[c] \in started
StopInv == /\ StopOrder /\ StopperIn /\ OneStopper /\ BeforeQuit /\ AfterQuit
           /\ HubStarted /\ OneServingHub

LEMMA StopInvStep ==
  ASSUME TypeOK, HubAssigned, StopInv, [Next]_vars
  PROVE  StopInv'
<1> USE DEF StopInv, StopOrder, StopperIn, OneStopper, BeforeQuit, AfterQuit, HubStarted,
            OneServingHub, Stopper, Detached
<1>0. /\ stage \in [Conns -> Stages] /\ hubOf \in [Conns -> Hubs \cup {NoHub}]
      /\ hub \in Hubs \cup {NoHub} /\ NoHub \notin Hubs /\ started \subseteq Hubs
      /\ \A c \in Conns : stage[c] \notin Detached => hubOf[c] \in Hubs
  BY ConstantsOK DEF TypeOK, HubAssigned
<1>1. CASE Quiet
  <2>1. UNCHANGED <<hub, started, stopping, quit, once, hubOf>>
    BY <1>1 DEF Quiet
  <2>2. \A d \in Conns : /\ stage'[d] \in {"close", "unlink"} => stage'[d] = stage[d]
                         /\ stage'[d] \notin Detached => stage[d] \notin Detached
    BY <1>1 DEF Quiet, Critical
  <2>3. QED BY <2>1, <2>2
<1>2. ASSUME NEW h \in Hubs, HandleRegister(h) PROVE StopInv'
  BY <1>2 DEF HandleRegister
<1>3. ASSUME NEW c \in Conns, Loud(c) PROVE StopInv'
  <2>1. CASE Attach(c)
    <3>1. PICK h \in Hubs :
            /\ GetOrCreate(h)
            /\ \/ Goto(c, "gone") /\ UNCHANGED hubOf
               \/ hubOf' = [hubOf EXCEPT ![c] = h] /\ Goto(c, "admitted")
      BY <2>1 DEF Attach
    <3>2. stage[c] = "slotted" /\ UNCHANGED <<stopping, quit, once>>
      BY <2>1 DEF Attach
    <3>3. /\ \A d \in Conns \ {c} : stage'[d] = stage[d] /\ hubOf'[d] = hubOf[d]
          /\ stage'[c] = "gone" \/ (stage'[c] = "admitted" /\ hubOf'[c] = h)
      BY <1>0, <3>1, GotoMoves DEF Stages, HandlerStages
    <3>4. CASE hub = h /\ UNCHANGED <<hub, started>>
      BY <1>0, <3>2, <3>3, <3>4
    <3>5. CASE hub = NoHub /\ h \notin started /\ hub' = h /\ started' = started \cup {h}
      <4>1. started \subseteq quit
        BY <1>0, <3>5
      <4>2. \A d \in Conns : stage[d] # "unlink"
        BY <1>0, <3>5
      <4>3. QED BY <1>0, <3>2, <3>3, <3>5, <4>1, <4>2
    <3>6. QED BY <3>1, <3>4, <3>5 DEF GetOrCreate
  <2>2. CASE ClaimRegistration(c) \/ SendRegistration(c) \/ AbortRegistration(c)
    <3>1. /\ UNCHANGED <<hub, started, stopping, quit, once, hubOf>>
          /\ stage[c] \in {"admitted", "sending"}
          /\ Goto(c, "gone") \/ Goto(c, "sending") \/ Goto(c, "open")
      BY <2>2 DEF ClaimRegistration, SendRegistration, AbortRegistration
    <3>2. /\ \A d \in Conns \ {c} : stage'[d] = stage[d]
          /\ stage'[c] \in {"gone", "sending", "open"}
      BY <1>0, <3>1, GotoMoves DEF Stages, HandlerStages
    <3>3. QED BY <1>0, <3>1, <3>2
  <2>3. CASE DecideIdle(c)
    <3>1. /\ UNCHANGED <<hub, started, quit, once, hubOf>>
          /\ stage[c] = "decide" /\ stopping \subseteq stopping'
          /\ Goto(c, "stop") \/ Goto(c, "gone")
      BY <2>3 DEF DecideIdle
    <3>2. /\ \A d \in Conns \ {c} : stage'[d] = stage[d]
          /\ stage'[c] \in {"stop", "gone"}
      BY <1>0, <3>1, GotoMoves DEF Stages, LeaveStages
    <3>3. QED BY <1>0, <3>1, <3>2
  <2>4. CASE EnterStop(c)
    <3>1. UNCHANGED <<hub, started, quit, hubOf>> /\ stage[c] = "stop"
      BY <2>4 DEF EnterStop
    <3>2. CASE hubOf[c] \in once
      <4>1. Goto(c, "gone") /\ UNCHANGED <<once, stopping>>
        BY <2>4, <3>2 DEF EnterStop
      <4>2. stage'[c] = "gone" /\ \A d \in Conns \ {c} : stage'[d] = stage[d]
        BY <1>0, <4>1, GotoMoves DEF Stages
      <4>3. QED BY <1>0, <3>1, <4>1, <4>2
    <3>3. CASE hubOf[c] \notin once
      <4>1. /\ Goto(c, "close")
            /\ once' = once \cup {hubOf[c]} /\ stopping' = stopping \cup {hubOf[c]}
        BY <2>4, <3>3 DEF EnterStop
      <4>2. stage'[c] = "close" /\ \A d \in Conns \ {c} : stage'[d] = stage[d]
        BY <1>0, <4>1, GotoMoves DEF Stages, LeaveStages
      <4>3. \A d \in Conns : Stopper(d, hubOf[c]) => FALSE
        BY <3>3
      <4>4. QED BY <1>0, <3>1, <3>3, <4>1, <4>2, <4>3
    <3>4. QED BY <3>2, <3>3
  <2>5. CASE CloseQuit(c)
    <3>1. /\ UNCHANGED <<hub, started, stopping, once, hubOf>>
          /\ stage[c] = "close" /\ Goto(c, "unlink")
          /\ quit' = quit \cup {hubOf[c]}
      BY <2>5 DEF CloseQuit
    <3>2. stage'[c] = "unlink" /\ \A d \in Conns \ {c} : stage'[d] = stage[d]
      BY <1>0, <3>1, GotoMoves DEF Stages, LeaveStages
    <3>3. hubOf[c] \in started /\ hubOf[c] \notin quit /\ hub = hubOf[c]
      BY <3>1
    <3>4. \A d \in Conns \ {c} : stage[d] = "close" => hubOf[d] # hubOf[c]
      BY <1>0, <3>1
    <3>5. QED BY <1>0, <3>1, <3>2, <3>3, <3>4
  <2>6. CASE RemoveHub(c)
    <3>1. /\ UNCHANGED <<started, stopping, quit, once, hubOf>>
          /\ stage[c] = "unlink" /\ Goto(c, "gone") /\ hub' = NoHub
      BY <2>6 DEF RemoveHub
    <3>2. stage'[c] = "gone" /\ \A d \in Conns \ {c} : stage'[d] = stage[d]
      BY <1>0, <3>1, GotoMoves DEF Stages
    <3>3. hub = hubOf[c] /\ hubOf[c] \in quit /\ hubOf[c] \in Hubs
      BY <1>0, <3>1
    <3>4. \A d \in Conns \ {c} : stage[d] # "unlink"
      BY <1>0, <3>1, <3>3
    <3>5. QED BY <1>0, <3>1, <3>2, <3>3, <3>4
  <2>7. QED BY <1>3, <2>1, <2>2, <2>3, <2>4, <2>5, <2>6 DEF Loud
<1>4. QED BY <1>1, <1>2, <1>3, StepKinds

LEMMA StopInvInit == Init => StopInv
BY DEF Init, StopInv, StopOrder, StopperIn, OneStopper, BeforeQuit, AfterQuit, HubStarted,
       OneServingHub, Stopper, Detached

\* The manager never forgets a hub that still serves the room, and never has a second
\* one beside it: whichever leaver stops a hub, it removes that hub and no other.
THEOREM RoomHasOneHub == Spec => []OneServingHub
<1>1. TypeOK /\ HubAssigned /\ StopInv /\ [Next]_vars => StopInv'
  BY StopInvStep
<1>2. StopInv => OneServingHub
  BY DEF StopInv
<1>3. QED BY <1>1, <1>2, StopInvInit, TypeCorrect, PTL DEF Spec

-----------------------------------------------------------------------------
LEMMA StoppedHubStep ==
  ASSUME TypeOK, HubAssigned, [Next]_vars, NEW h \in Hubs, h \in stopping
  PROVE  members'[h] \subseteq members[h]
<1>0. members \in [Hubs -> SUBSET Conns]
  BY DEF TypeOK
<1>1. CASE Quiet
  BY <1>1 DEF Quiet
<1>2. ASSUME NEW c \in Conns, Loud(c) PROVE members' = members
  BY <1>2 DEF Loud, Attach, ClaimRegistration, SendRegistration, AbortRegistration,
              DecideIdle, EnterStop, CloseQuit, RemoveHub
<1>3. ASSUME NEW g \in Hubs, HandleRegister(g) PROVE members'[h] \subseteq members[h]
  <2>1. CASE g \in stopping
    BY <1>3, <2>1 DEF HandleRegister
  <2>2. CASE g \notin stopping
    <3>1. members' = [members EXCEPT ![g] = @ \cup {hand[g]}]
      BY <1>3, <2>2 DEF HandleRegister
    <3>2. QED BY <1>0, <2>2, <3>1
  <2>3. QED BY <2>1, <2>2
<1>4. QED BY <1>1, <1>2, <1>3, StepKinds

\* A hub that committed to stopping never gains a client: the Register case re-checks
\* stopping, and no other step of the program adds to Clients.
THEOREM StoppedHubAdmitsNobody == Spec => NoAdmissionAfterStop
<1>1. TypeOK /\ HubAssigned /\ [Next]_vars =>
        [\A h \in Hubs : h \in stopping => members'[h] \subseteq members[h]]_vars
  BY StoppedHubStep
<1>2. QED BY <1>1, TypeCorrect, PTL DEF Spec, NoAdmissionAfterStop

-----------------------------------------------------------------------------
(***************************************************************************)
(* Registrations in flight.  What the loop holds in its hand has left its  *)
(* handler and belongs to that hub, so a connection is in flight at most   *)
(* once and pendingRegs can be exact; an idle decision that reads it is    *)
(* then right about the registrations it cannot see.                       *)
(***************************************************************************)
HandInv == \A h \in Hubs : hand[h] # NoConn =>
             hubOf[hand[h]] = h /\ stage[hand[h]] \notin HandlerStages

RegsInv == HandInv /\ PendingRegsExact /\ IdleStopStrandsNobody

LEMMA InFlightFinite ==
  ASSUME NEW h \in Hubs
  PROVE  IsFiniteSet(InFlight(h)) /\ InFlight(h) \subseteq Conns
BY ConstantsOK, FS_Subset DEF InFlight

LEMMA HandInvStep ==
  ASSUME TypeOK, HubAssigned, HandInv, [Next]_vars
  PROVE  HandInv'
<1> USE DEF HandInv, HandlerStages
<1>0. /\ stage \in [Conns -> Stages] /\ hubOf \in [Conns -> Hubs \cup {NoHub}]
      /\ hand \in [Hubs -> Conns \cup {NoConn}] /\ NoConn \notin Conns
  BY ConstantsOK DEF TypeOK
<1>1. CASE Quiet
  BY <1>0, <1>1 DEF Quiet
<1>2. ASSUME NEW h \in Hubs, HandleRegister(h) PROVE HandInv'
  <2>1. hand' = [hand EXCEPT ![h] = NoConn] /\ UNCHANGED <<stage, hubOf>>
    BY <1>2 DEF HandleRegister
  <2>2. QED BY <1>0, <2>1
<1>3. ASSUME NEW c \in Conns, Loud(c) PROVE HandInv'
  <2>1. CASE Attach(c) \/ ClaimRegistration(c) \/ AbortRegistration(c)
    <3>1. stage[c] \in HandlerStages /\ UNCHANGED hand
      BY <2>1 DEF Attach, ClaimRegistration, AbortRegistration
    <3>2. \A d \in Conns \ {c} : stage'[d] = stage[d] /\ hubOf'[d] = hubOf[d]
      BY <1>0, <2>1 DEF Attach, ClaimRegistration, AbortRegistration, Goto
    <3>3. QED BY <1>0, <3>1, <3>2
  <2>2. CASE SendRegistration(c)
    <3>1. /\ hand' = [hand EXCEPT ![hubOf[c]] = c] /\ UNCHANGED hubOf
          /\ Goto(c, "open") /\ stage[c] = "sending"
      BY <2>2 DEF SendRegistration
    <3>2. stage'[c] = "open" /\ \A d \in Conns \ {c} : stage'[d] = stage[d]
      BY <1>0, <3>1, GotoMoves DEF Stages
    <3>3. QED BY <1>0, <3>1, <3>2
  <2>3. CASE DecideIdle(c) \/ EnterStop(c) \/ CloseQuit(c) \/ RemoveHub(c)
    <3>1. UNCHANGED <<hand, hubOf>>
      BY <2>3 DEF DecideIdle, EnterStop, CloseQuit, RemoveHub
    <3>2. Goto(c, "stop") \/ Goto(c, "gone") \/ Goto(c, "close") \/ Goto(c, "unlink")
      BY <2>3 DEF DecideIdle, EnterStop, CloseQuit, RemoveHub
    <3>3. /\ stage'[c] \notin HandlerStages
          /\ \A d \in Conns \ {c} : stage'[d] = stage[d]
      BY <1>0, <3>2, GotoMoves DEF Stages, LeaveStages
    <3>4. QED BY <1>0, <3>1, <3>3
  <2>4. QED BY <1>3, <2>1, <2>2, <2>3 DEF Loud
<1>4. QED BY <1>1, <1>2, <1>3, StepKinds

Same(h) == InFlight(h)' = InFlight(h) /\ pendingRegs'[h] = pendingRegs[h]
Joins(c, g) == /\ g \notin stopping /\ c \notin InFlight(g)
               /\ InFlight(g)' = InFlight(g) \cup {c}
               /\ pendingRegs'[g] = pendingRegs[g] + 1
Leaves(c, g) == /\ c \in InFlight(g) /\ InFlight(g)' = InFlight(g) \ {c}
                /\ pendingRegs'[g] = pendingRegs[g] - 1

\* A connection joins the flight when it claims its registration, while the hub has not
\* committed to stopping, and leaves it when the loop acts on it or the send aborts.
LEMMA FlightSteps ==
  ASSUME TypeOK, HubAssigned, HandInv, [Next]_vars
  PROVE  \/ \A h \in Hubs : Same(h)
         \/ \E c \in Conns, g \in Hubs : /\ Joins(c, g) \/ Leaves(c, g)
                                         /\ \A h \in Hubs \ {g} : Same(h)
<1> USE DEF HandInv, HandlerStages, InFlight, Same, Joins, Leaves
<1>0. /\ stage \in [Conns -> Stages] /\ hubOf \in [Conns -> Hubs \cup {NoHub}]
      /\ hand \in [Hubs -> Conns \cup {NoConn}] /\ NoConn \notin Conns
      /\ pendingRegs \in [Hubs -> Int]
      /\ \A c \in Conns : stage[c] \notin Detached => hubOf[c] \in Hubs
  BY ConstantsOK DEF TypeOK, HubAssigned, Detached
<1>1. ASSUME Quiet, NEW h \in Hubs PROVE Same(h)
  <2>1. UNCHANGED <<hand, hubOf, pendingRegs>>
    BY <1>1 DEF Quiet
  <2>2. \A d \in Conns : stage'[d] = "sending" <=> stage[d] = "sending"
    BY <1>1 DEF Quiet, Critical
  <2>3. QED BY <2>1, <2>2
<1>2. ASSUME NEW g \in Hubs, HandleRegister(g)
      PROVE  \E c \in Conns : Leaves(c, g) /\ \A h \in Hubs \ {g} : Same(h)
  <2>1. /\ hand[g] \in Conns /\ hand' = [hand EXCEPT ![g] = NoConn]
        /\ pendingRegs' = [pendingRegs EXCEPT ![g] = @ - 1]
        /\ UNCHANGED <<stage, hubOf>>
    BY <1>0, <1>2 DEF HandleRegister
  <2>2. hubOf[hand[g]] = g /\ stage[hand[g]] # "sending"
    BY <2>1, <1>0
  <2>3. Leaves(hand[g], g)
    BY <1>0, <2>1, <2>2
  <2>4. \A h \in Hubs \ {g} : Same(h)
    BY <1>0, <2>1
  <2>5. QED BY <2>1, <2>3, <2>4
<1>3. ASSUME NEW c \in Conns, Loud(c)
      PROVE  \/ \A h \in Hubs : Same(h)
             \/ \E g \in Hubs : (Joins(c, g) \/ Leaves(c, g)) /\ \A h \in Hubs \ {g} : Same(h)
  <2>1. CASE Attach(c)
    <3>1. stage[c] = "slotted" /\ UNCHANGED <<hand, pendingRegs>>
      BY <2>1 DEF Attach
    <3>2. \A d \in Conns \ {c} : stage'[d] = stage[d] /\ hubOf'[d] = hubOf[d]
      BY <1>0, <2>1 DEF Attach, Goto
    <3>3. stage'[c] # "sending"
      BY <1>0, <2>1 DEF Attach, Goto
    <3>4. \A h \in Hubs : hand[h] # c
      BY <1>0, <3>1
    <3>5. QED BY <1>0, <3>1, <3>2, <3>3, <3>4
  <2>2. CASE ClaimRegistration(c)
    <3>1. /\ stage[c] = "admitted" /\ UNCHANGED <<hand, hubOf>> /\ hubOf[c] \in Hubs
      BY <1>0, <2>2 DEF ClaimRegistration, Detached
    <3>2. \A h \in Hubs : hand[h] # c
      BY <1>0, <3>1
    <3>3. CASE hubOf[c] \in stopping
      <4>1. Goto(c, "gone") /\ UNCHANGED pendingRegs
        BY <2>2, <3>3 DEF ClaimRegistration
      <4>2. stage'[c] = "gone" /\ \A d \in Conns \ {c} : stage'[d] = stage[d]
        BY <1>0, <4>1, GotoMoves DEF Stages
      <4>3. QED BY <1>0, <3>1, <3>2, <4>1, <4>2
    <3>4. CASE hubOf[c] \notin stopping
      <4>1. /\ Goto(c, "sending")
            /\ pendingRegs' = [pendingRegs EXCEPT ![hubOf[c]] = @ + 1]
        BY <2>2, <3>4 DEF ClaimRegistration
      <4>2. stage'[c] = "sending" /\ \A d \in Conns \ {c} : stage'[d] = stage[d]
        BY <1>0, <4>1, GotoMoves DEF Stages
      <4>3. Joins(c, hubOf[c])
        BY <1>0, <3>1, <3>2, <3>4, <4>1, <4>2
      <4>4. \A h \in Hubs \ {hubOf[c]} : Same(h)
        BY <1>0, <3>1, <4>1, <4>2
      <4>5. QED BY <3>1, <4>3, <4>4
    <3>5. QED BY <3>3, <3>4
  <2>3. CASE SendRegistration(c)
    <3>1. /\ hand' = [hand EXCEPT ![hubOf[c]] = c] /\ UNCHANGED <<hubOf, pendingRegs>>
          /\ Goto(c, "open") /\ stage[c] = "sending" /\ hand[hubOf[c]] = NoConn
      BY <2>3 DEF SendRegistration, Selecting
    <3>2. stage'[c] = "open" /\ \A d \in Conns \ {c} : stage'[d] = stage[d]
      BY <1>0, <3>1, GotoMoves DEF Stages
    <3>3. hubOf[c] \in Hubs /\ \A h \in Hubs : hand[h] # c
      BY <1>0, <3>1 DEF Detached
    <3>4. QED BY <1>0, <3>1, <3>2, <3>3
  <2>4. CASE AbortRegistration(c)
    <3>1. /\ stage[c] = "sending" /\ UNCHANGED <<hand, hubOf>>
          /\ pendingRegs' = [pendingRegs EXCEPT ![hubOf[c]] = @ - 1] /\ Goto(c, "gone")
      BY <2>4 DEF AbortRegistration
    <3>2. stage'[c] = "gone" /\ \A d \in Conns \ {c} : stage'[d] = stage[d]
      BY <1>0, <3>1, GotoMoves DEF Stages
    <3>3. hubOf[c] \in Hubs /\ \A h \in Hubs : hand[h] # c
      BY <1>0, <3>1 DEF Detached
    <3>4. Leaves(c, hubOf[c])
      BY <1>0, <3>1, <3>2, <3>3
    <3>5. \A h \in Hubs \ {hubOf[c]} : Same(h)
      BY <1>0, <3>1, <3>2
    <3> HIDE DEF HandInv, InFlight, Same, Joins, Leaves
    <3>6. QED BY <3>3, <3>4, <3>5
  <2>5. CASE DecideIdle(c) \/ EnterStop(c) \/ CloseQuit(c) \/ RemoveHub(c)
    <3>1. UNCHANGED <<hand, hubOf, pendingRegs>> /\ stage[c] # "sending"
      BY <2>5 DEF DecideIdle, EnterStop, CloseQuit, RemoveHub
    <3>2. Goto(c, "stop") \/ Goto(c, "gone") \/ Goto(c, "close") \/ Goto(c, "unlink")
      BY <2>5 DEF DecideIdle, EnterStop, CloseQuit, RemoveHub
    <3>3. stage'[c] # "sending" /\ \A d \in Conns \ {c} : stage'[d] = stage[d]
      BY <1>0, <3>2, GotoMoves DEF Stages, LeaveStages
    <3>4. QED BY <1>0, <3>1, <3>3
  <2>6. QED BY <1>3, <2>1, <2>2, <2>3, <2>4, <2>5 DEF Loud
<1> HIDE DEF HandInv, HandlerStages, InFlight, Same, Joins, Leaves
<1>4. QED BY <1>1, <1>2, <1>3, StepKinds

\* Only DecideIdle commits a hub without entering its stop body.
LEMMA Commitments ==
  ASSUME TypeOK, HubAssigned, [Next]_vars, NEW h \in Hubs, h \in stopping' \ once'
  PROVE  \/ h \in stopping \ once
         \/ members[h] = {} /\ pendingRegs[h] = 0 /\ UNCHANGED <<members, pendingRegs>>
<1>1. CASE Quiet
  BY <1>1 DEF Quiet
<1>2. ASSUME NEW g \in Hubs, HandleRegister(g) PROVE UNCHANGED <<stopping, once>>
  BY <1>2 DEF HandleRegister
<1>3. ASSUME NEW c \in Conns, Loud(c), h \notin stopping \ once
      PROVE  members[h] = {} /\ pendingRegs[h] = 0 /\ UNCHANGED <<members, pendingRegs>>
  <2>1. CASE DecideIdle(c)
    BY <1>3, <2>1 DEF DecideIdle
  <2>2. CASE EnterStop(c)
    BY <1>3, <2>2 DEF EnterStop
  <2>3. CASE Attach(c) \/ ClaimRegistration(c) \/ SendRegistration(c) \/ AbortRegistration(c)
             \/ CloseQuit(c) \/ RemoveHub(c)
    BY <1>3, <2>3 DEF Attach, ClaimRegistration, SendRegistration, AbortRegistration,
                      CloseQuit, RemoveHub
  <2>4. QED BY <1>3, <2>1, <2>2, <2>3 DEF Loud
<1>4. QED BY <1>1, <1>2, <1>3, StepKinds

LEMMA RegsInvStep ==
  ASSUME TypeOK, HubAssigned, RegsInv, [Next]_vars, stopping' \subseteq Hubs
  PROVE  RegsInv'
<1>1. HandInv'
  BY HandInvStep DEF RegsInv
<1>2. PendingRegsExact'
  <2> SUFFICES ASSUME NEW h \in Hubs PROVE pendingRegs'[h] = Cardinality(InFlight(h)')
    BY DEF PendingRegsExact
  <2>1. /\ pendingRegs[h] = Cardinality(InFlight(h)) /\ Cardinality(InFlight(h)) \in Nat
        /\ IsFiniteSet(InFlight(h))
    BY InFlightFinite, FS_CardinalityType DEF RegsInv, PendingRegsExact
  <2>2. CASE Same(h)
    BY <2>1, <2>2 DEF Same
  <2>3. ASSUME NEW c \in Conns, Joins(c, h)
        PROVE  pendingRegs'[h] = Cardinality(InFlight(h)')
    <3>1. Cardinality(InFlight(h) \cup {c}) = Cardinality(InFlight(h)) + 1
      BY <2>1, <2>3, FS_AddElement DEF Joins
    <3>2. QED BY <2>1, <2>3, <3>1 DEF Joins
  <2>4. ASSUME NEW c \in Conns, Leaves(c, h)
        PROVE  pendingRegs'[h] = Cardinality(InFlight(h)')
    <3>1. Cardinality(InFlight(h) \ {c}) = Cardinality(InFlight(h)) - 1
      BY <2>1, <2>4, FS_RemoveElement DEF Leaves
    <3>2. QED BY <2>1, <2>4, <3>1 DEF Leaves
  <2>5. QED BY <2>2, <2>3, <2>4, FlightSteps DEF RegsInv
<1>3. IdleStopStrandsNobody'
  <2> SUFFICES ASSUME NEW h \in Hubs, h \in stopping' \ once'
               PROVE  members'[h] = {} /\ InFlight(h)' = {}
    BY DEF IdleStopStrandsNobody
  <2>2. CASE h \in stopping \ once
    <3>1. members[h] = {} /\ InFlight(h) = {}
      BY <2>2 DEF RegsInv, IdleStopStrandsNobody
    <3>2. members'[h] = {}
      BY <2>2, <3>1, StoppedHubStep
    <3>3. Same(h) \/ \E c \in Conns : Joins(c, h) \/ Leaves(c, h)
      BY FlightSteps DEF RegsInv
    <3>4. InFlight(h)' = {}
      BY <2>2, <3>1, <3>3 DEF Same, Joins, Leaves
    <3>5. QED BY <3>2, <3>4
  <2>3. CASE members[h] = {} /\ pendingRegs[h] = 0 /\ UNCHANGED <<members, pendingRegs>>
    <3>1. InFlight(h) = {}
      BY <2>3, InFlightFinite, FS_EmptySet DEF RegsInv, PendingRegsExact
    <3>2. pendingRegs'[h] = Cardinality(InFlight(h)') /\ IsFiniteSet(InFlight(h)')
      <4>1. IsFiniteSet(InFlight(h)')
        <5>1. InFlight(h)' \subseteq Conns
          BY DEF InFlight
        <5>2. QED BY <5>1, FS_Subset, ConstantsOK
      <4>2. QED BY <1>2, <4>1 DEF PendingRegsExact
    <3>3. InFlight(h)' = {}
      BY <2>3, <3>2, FS_EmptySet
    <3>4. QED BY <2>3, <3>3
  <2>4. QED BY <2>2, <2>3, Commitments
<1>4. QED BY <1>1, <1>2, <1>3 DEF RegsInv

LEMMA RegsInvInit == Init => RegsInv
<1> SUFFICES ASSUME Init PROVE RegsInv
  OBVIOUS
<1>1. \A h \in Hubs : InFlight(h) = {} /\ pendingRegs[h] = 0
  BY ConstantsOK DEF Init, InFlight
<1>2. HandInv /\ IdleStopStrandsNobody
  BY DEF Init, HandInv, IdleStopStrandsNobody
<1>3. QED BY <1>1, <1>2, FS_EmptySet DEF RegsInv, PendingRegsExact

\* The pending counter of a hub is the number of registrations in flight, whatever
\* interleaving of claims, aborts, hand-overs and refusals led there.
THEOREM PendingRegsCorrect == Spec => []PendingRegsExact
<1>1. TypeOK /\ HubAssigned /\ TypeOK' /\ RegsInv /\ [Next]_vars => RegsInv'
  BY RegsInvStep DEF TypeOK
<1>2. RegsInv => PendingRegsExact
  BY DEF RegsInv
<1>3. QED BY <1>1, <1>2, RegsInvInit, TypeCorrect, PTL DEF Spec

\* The idle shutdown closes a hub under nobody: neither a client of it nor a
\* registration about to be received.
THEOREM IdleStopSafe == Spec => []IdleStopStrandsNobody
<1>1. TypeOK /\ HubAssigned /\ TypeOK' /\ RegsInv /\ [Next]_vars => RegsInv'
  BY RegsInvStep DEF TypeOK
<1>2. RegsInv => IdleStopStrandsNobody
  BY DEF RegsInv
<1>3. QED BY <1>1, <1>2, RegsInvInit, TypeCorrect, PTL DEF Spec

-----------------------------------------------------------------------------
(***************************************************************************)
(* Why a hub stops.  A goroutine reaches stop() either with its hub already*)
(* committed by the idle decision or after it deleted the room, and a      *)
(* deleted room never comes back.                                          *)
(***************************************************************************)
StopCause ==
    \A c \in Conns : /\ stage[c] = "clear" => room = "gone"
                     /\ stage[c] = "stop" => room = "gone" \/ hubOf[c] \in stopping

Lasting(c) == /\ stopping \subseteq stopping'
              /\ stage[c] \in {"clear", "stop"} => hubOf'[c] = hubOf[c]
              /\ stage'[c] = "clear" /\ stage[c] # "clear" => room' = "gone"
              /\ stage'[c] = "stop" /\ stage[c] # "stop" =>
                    stage[c] = "clear" \/ hubOf'[c] \in stopping'

LEMMA StepsLast ==
  ASSUME StoreFails = FALSE, TypeOK, HubAssigned, [Next]_vars, NEW d \in Conns
  PROVE  Lasting(d)
<1>0. stage \in [Conns -> Stages] /\ hubOf \in [Conns -> Hubs \cup {NoHub}]
  BY DEF TypeOK
<1> USE DEF Lasting
<1>1. ASSUME NEW c \in Conns, Handler(c) PROVE Lasting(d)
  <2>1. CASE AcquireIPSlot(c) \/ UpgradeFails(c) \/ ReleaseOnDone(c)
    BY <1>0, <2>1 DEF AcquireIPSlot, UpgradeFails, ReleaseOnDone, Goto, hubVars, connVars, dbVars
  <2>2. CASE Attach(c)
    BY <1>0, <2>2 DEF Attach, Goto, dbVars
  <2>3. CASE ClaimRegistration(c) \/ SendRegistration(c) \/ AbortRegistration(c)
    BY <1>0, <2>3 DEF ClaimRegistration, SendRegistration, AbortRegistration, Goto, dbVars
  <2>4. QED BY <1>1, <2>1, <2>2, <2>3 DEF Handler
<1>2. ASSUME NEW c \in Conns, Reader(c) PROVE Lasting(d)
  <2>1. CASE ReadFails(c) \/ UnregisterFromDeadHub(c)
    BY <1>0, <2>1 DEF ReadFails, UnregisterFromDeadHub, Goto, hubVars, dbVars
  <2>2. CASE Unregister(c)
    BY <1>0, <2>2 DEF Unregister, Goto, dbVars
  <2>3. ASSUME NEW on \in BOOLEAN, SendMic(c, on) PROVE Lasting(d)
    BY <2>3 DEF SendMic, hubVars, connVars, dbVars
  <2>4. QED BY <1>2, <2>1, <2>2, <2>3 DEF Reader
<1>3. ASSUME NEW c \in Conns, OnRegister(c) PROVE Lasting(d)
  BY <1>3 DEF OnRegister, AddListener, EndStaleListenEvents, StartListenEvent, FinishJoin,
              hubVars, dbVars
<1>4. ASSUME NEW c \in Conns, OnUnregister(c) PROVE Lasting(d)
  <2>1. CASE PassBarrier(c) \/ RemoveListener(c) \/ EndListenEvent(c)
    BY <1>0, <2>1 DEF PassBarrier, RemoveListener, EndListenEvent, Goto, hubVars, dbVars
  <2>2. CASE ClearOwnedMic(c) \/ CheckEverLive(c)
    BY <1>0, <2>2 DEF ClearOwnedMic, CheckEverLive, Goto, hubVars, dbVars
  <2>3. CASE DeleteRoom(c)
    BY <1>0, <2>3, StoreFails = FALSE DEF DeleteRoom, Goto, hubVars
  <2>4. CASE ClearListeners(c)
    BY <1>0, <2>4 DEF ClearListeners, Goto, hubVars
  <2>5. CASE CheckEmpty(c) \/ LookupRoom(c)
    BY <1>0, <2>5 DEF CheckEmpty, LookupRoom, Goto, hubVars, dbVars
  <2>6. CASE DecideIdle(c)
    BY <1>0, <2>6 DEF DecideIdle, Goto, dbVars
  <2>7. CASE EnterStop(c)
    BY <1>0, <2>7 DEF EnterStop, Goto, dbVars
  <2>8. CASE CloseQuit(c) \/ RemoveHub(c)
    BY <1>0, <2>8 DEF CloseQuit, RemoveHub, Goto, dbVars
  <2>9. QED BY <1>4, <2>1, <2>2, <2>3, <2>4, <2>5, <2>6, <2>7, <2>8 DEF OnUnregister
<1>5. ASSUME NEW h \in Hubs, Run(h) \/ HandleMic(h) PROVE Lasting(d)
  <2>1. CASE HandleRegister(h)
    BY <2>1 DEF HandleRegister, dbVars
  <2>2. CASE RunReturns(h) \/ HandleMic(h)
    BY <2>2 DEF RunReturns, HandleMic, hubVars, connVars, dbVars
  <2>3. ASSUME NEW c \in Conns, Evict(h, c) PROVE Lasting(d)
    BY <2>3 DEF Evict, dbVars
  <2>4. QED BY <1>5, <2>1, <2>2, <2>3 DEF Run
<1>6. ASSUME RoomLife PROVE Lasting(d)
  BY <1>6 DEF RoomLife, CleanupGhostRooms, GoLive, EndRoom, EndRoomClearsListeners, hubVars, connVars
<1>7. ASSUME UNCHANGED vars PROVE Lasting(d)
  BY <1>7 DEF vars, hubVars, connVars, dbVars
<1>8. QED BY <1>1, <1>2, <1>3, <1>4, <1>5, <1>6, <1>7 DEF Next

LEMMA DeletedForever ==
  ASSUME [Next]_vars, room = "gone"
  PROVE  room' = "gone"
<1>1. ASSUME NEW c \in Conns, Handler(c) \/ Reader(c) PROVE room' = "gone"
  BY <1>1 DEF Handler, AcquireIPSlot, UpgradeFails, Attach, ClaimRegistration, SendRegistration,
              AbortRegistration, ReleaseOnDone, Reader, ReadFails, Unregister,
              UnregisterFromDeadHub, SendMic, dbVars
<1>2. ASSUME NEW c \in Conns, OnRegister(c) PROVE room' = "gone"
  BY <1>2 DEF OnRegister, AddListener, EndStaleListenEvents, StartListenEvent, FinishJoin, dbVars
<1>3. ASSUME NEW c \in Conns, OnUnregister(c) PROVE room' = "gone"
  BY <1>3 DEF OnUnregister, PassBarrier, RemoveListener, EndListenEvent, ClearOwnedMic,
              CheckEverLive, DeleteRoom, ClearListeners, CheckEmpty, LookupRoom, DecideIdle,
              EnterStop, CloseQuit, RemoveHub, dbVars
<1>4. ASSUME NEW h \in Hubs, Run(h) \/ HandleMic(h) PROVE room' = "gone"
  BY <1>4 DEF Run, HandleRegister, RunReturns, Evict, HandleMic, dbVars
<1>5. CASE RoomLife
  BY <1>5 DEF RoomLife, CleanupGhostRooms, GoLive, EndRoom, EndRoomClearsListeners
<1>6. QED BY <1>1, <1>2, <1>3, <1>4, <1>5 DEF Next, vars, dbVars

LEMMA StopCauseStep ==
  ASSUME StoreFails = FALSE, TypeOK, HubAssigned, StopCause, [Next]_vars
  PROVE  StopCause'
BY StepsLast, DeletedForever DEF Lasting, StopCause

\* Of the steps that commit a hub, EnterStop does so only after a deletion, while the
\* room exists.
LEMMA NewCommitments ==
  ASSUME TypeOK, HubAssigned, StopCause, [Next]_vars, room' # "gone",
         NEW h \in Hubs, h \in stopping' \ stopping
  PROVE  members[h] = {} /\ pendingRegs[h] = 0 /\ UNCHANGED <<members, pendingRegs>>
<1>1. CASE Quiet
  BY <1>1 DEF Quiet
<1>2. ASSUME NEW g \in Hubs, HandleRegister(g) PROVE UNCHANGED stopping
  BY <1>2 DEF HandleRegister
<1>3. ASSUME NEW c \in Conns, Loud(c)
      PROVE  members[h] = {} /\ pendingRegs[h] = 0 /\ UNCHANGED <<members, pendingRegs>>
  <2>1. CASE DecideIdle(c)
    BY <1>3, <2>1 DEF DecideIdle
  <2>2. CASE EnterStop(c)
    <3>1. stage[c] = "stop" /\ room' = room /\ stopping' \subseteq stopping \cup {hubOf[c]}
      BY <2>2 DEF EnterStop, dbVars
    <3>2. hubOf[c] \in stopping
      BY <3>1 DEF StopCause
    <3>3. QED BY <3>1, <3>2
  <2>3. CASE Attach(c) \/ ClaimRegistration(c) \/ SendRegistration(c) \/ AbortRegistration(c)
             \/ CloseQuit(c) \/ RemoveHub(c)
    BY <2>3 DEF Attach, ClaimRegistration, SendRegistration, AbortRegistration,
                CloseQuit, RemoveHub
  <2>4. QED BY <1>3, <2>1, <2>2, <2>3 DEF Loud
<1>4. QED BY <1>1, <1>2, <1>3, StepKinds

LEMMA OnlyDeletionStrandsStep ==
  ASSUME TypeOK, HubAssigned, StopCause, RegsInv, OnlyDeletionStrands, [Next]_vars,
         stopping' \subseteq Hubs, PendingRegsExact', room' # "gone" => room # "gone"
  PROVE  OnlyDeletionStrands'
<1> SUFFICES ASSUME room' # "gone", NEW h \in Hubs, h \in stopping'
             PROVE  members'[h] = {} /\ InFlight(h)' = {}
  BY DEF OnlyDeletionStrands
<1>1. CASE h \in stopping
  <2>1. members[h] = {} /\ InFlight(h) = {}
    BY <1>1 DEF OnlyDeletionStrands
  <2>2. members'[h] = {}
    BY <1>1, <2>1, StoppedHubStep
  <2>3. Same(h) \/ \E c \in Conns : Joins(c, h) \/ Leaves(c, h)
    BY FlightSteps DEF RegsInv
  <2>4. QED BY <1>1, <2>1, <2>2, <2>3 DEF Same, Joins, Leaves
<1>2. CASE h \notin stopping
  <2>1. members[h] = {} /\ pendingRegs[h] = 0 /\ UNCHANGED <<members, pendingRegs>>
    BY <1>2, NewCommitments
  <2>2. IsFiniteSet(InFlight(h)')
    <3>1. InFlight(h)' \subseteq Conns
      BY DEF InFlight
    <3>2. QED BY <3>1, FS_Subset, ConstantsOK
  <2>3. InFlight(h)' = {}
    BY <2>1, <2>2, FS_EmptySet DEF PendingRegsExact
  <2>4. QED BY <2>1, <2>3
<1>3. QED BY <1>1, <1>2

\* While the room exists and no store call fails, a hub never begins to stop under a
\* client or under a registration in flight, whichever path led into stop().
THEOREM OnlyDeletionStopsUnderClients ==
  ASSUME StoreFails = FALSE
  PROVE  Spec => []OnlyDeletionStrands
<1>1. Init => StopCause /\ OnlyDeletionStrands
  BY DEF Init, StopCause, OnlyDeletionStrands
<1>2. TypeOK /\ HubAssigned /\ TypeOK' /\ RegsInv /\ [Next]_vars => RegsInv'
  BY RegsInvStep DEF TypeOK
<1>3. TypeOK /\ HubAssigned /\ StopCause /\ [Next]_vars => StopCause'
  BY StopCauseStep
<1>4. TypeOK /\ HubAssigned /\ TypeOK' /\ StopCause /\ RegsInv /\ RegsInv'
        /\ OnlyDeletionStrands /\ [Next]_vars => OnlyDeletionStrands'
  <2> SUFFICES ASSUME TypeOK, HubAssigned, TypeOK', StopCause, RegsInv, RegsInv',
                      OnlyDeletionStrands, [Next]_vars
               PROVE  OnlyDeletionStrands'
    OBVIOUS
  <2>1. stopping' \subseteq Hubs /\ PendingRegsExact'
    BY DEF TypeOK, RegsInv
  <2>2. room' # "gone" => room # "gone"
    BY DeletedForever
  <2>3. QED BY <2>1, <2>2, OnlyDeletionStrandsStep
<1>5. QED BY <1>1, <1>2, <1>3, <1>4, RegsInvInit, TypeCorrect, PTL DEF Spec
-----------------------------------------------------------------------------
(***************************************************************************)
(* The life of a connection: where the goroutines are of one that the loop *)
(* holds, of one in Clients, and of one whose onRegister is under way.     *)
(***************************************************************************)
ReadsFrom(c, h) == /\ hubOf[c] = h
                   /\ stage[c] \in {"open", "leaving"} \/ (stage[c] = "stranded" /\ h \in quit)

LifeInv ==
    /\ \A c \in Conns : stage[c] \in HandlerStages => join[c] = "none"
    /\ \A c \in Conns : join[c] \in {"add", "stale", "listen", "replay"} =>
                            stage[c] \in {"open", "leaving", "barrier", "stranded"}
    /\ \A c \in Conns : join[c] \in {"stale", "listen"} => UserOf[c] # Nobody
    /\ \A h \in Hubs : hand[h] # NoConn => /\ ReadsFrom(hand[h], h)
                                           /\ join[hand[h]] = "none"
                                           /\ hand[h] \notin members[h]
    /\ \A h \in Hubs : \A c \in members[h] : ReadsFrom(c, h)

LEMMA LifeStep ==
  ASSUME TypeOK, HubAssigned, LifeInv, [Next]_vars
  PROVE  LifeInv'
<1> USE DEF LifeInv, ReadsFrom, Goto, HandlerStages
<1>0. /\ stage \in [Conns -> Stages] /\ hubOf \in [Conns -> Hubs \cup {NoHub}]
      /\ join \in [Conns -> JoinStages] /\ quit \in SUBSET Hubs
      /\ hand \in [Hubs -> Conns \cup {NoConn}] /\ NoConn \notin Conns /\ NoHub \notin Hubs
      /\ members \in [Hubs -> SUBSET Conns]
      /\ \A c \in Conns : stage[c] \notin {"new", "slotted", "gone"} => hubOf[c] \in Hubs
  BY ConstantsOK DEF TypeOK, HubAssigned
<1>1. ASSUME NEW c \in Conns, Handler(c) PROVE LifeInv'
  <2>1. CASE AcquireIPSlot(c) \/ UpgradeFails(c) \/ ReleaseOnDone(c)
    BY <1>0, <2>1 DEF AcquireIPSlot, UpgradeFails, ReleaseOnDone, hubVars, connVars
  <2>2. CASE Attach(c)
    <3>1. /\ UNCHANGED <<hand, quit, members, join>> /\ stage[c] = "slotted"
          /\ \A d \in Conns \ {c} : stage'[d] = stage[d] /\ hubOf'[d] = hubOf[d]
          /\ stage'[c] \in {"gone", "admitted"}
      BY <1>0, <2>2 DEF Attach
    <3> QED
      BY <1>0, <3>1
  <2>3. CASE ClaimRegistration(c) \/ AbortRegistration(c)
    <3>1. /\ UNCHANGED <<hand, quit, members, join, hubOf>> /\ stage[c] \in {"admitted", "sending"}
          /\ \A d \in Conns \ {c} : stage'[d] = stage[d]
          /\ stage'[c] \in {"gone", "sending"}
      BY <1>0, <2>3 DEF ClaimRegistration, AbortRegistration
    <3> QED
      BY <1>0, <3>1
  <2>4. CASE SendRegistration(c)
    BY <1>0, <2>4 DEF SendRegistration
  <2> QED
    BY <1>1, <2>1, <2>2, <2>3, <2>4 DEF Handler
<1>2. ASSUME NEW c \in Conns, Reader(c) PROVE LifeInv'
  <2>1. CASE ReadFails(c)
    BY <1>0, <2>1 DEF ReadFails, hubVars
  <2>2. CASE Unregister(c)
    <3>1. /\ UNCHANGED <<hand, quit, join, hubOf>> /\ stage[c] = "leaving" /\ hubOf[c] \in Hubs
          /\ hand[hubOf[c]] = NoConn
          /\ \A d \in Conns \ {c} : stage'[d] = stage[d]
          /\ stage'[c] = "barrier"
          /\ members' = [members EXCEPT ![hubOf[c]] = @ \ {c}]
      BY <1>0, <2>2 DEF Unregister, Selecting
    <3> QED
      BY <1>0, <3>1
  <2>3. CASE UnregisterFromDeadHub(c)
    BY <1>0, <2>3 DEF UnregisterFromDeadHub, hubVars
  <2>4. ASSUME NEW on \in BOOLEAN, SendMic(c, on) PROVE LifeInv'
    BY <2>4 DEF SendMic, hubVars, connVars
  <2> QED
    BY <1>2, <2>1, <2>2, <2>3, <2>4 DEF Reader
<1>3. ASSUME NEW c \in Conns, OnRegister(c) PROVE LifeInv'
  <2>1. UNCHANGED <<hubVars, stage, hubOf>>
    BY <1>3 DEF OnRegister, AddListener, EndStaleListenEvents, StartListenEvent, FinishJoin
  <2>2. /\ join[c] \in {"add", "stale", "listen", "replay"}
        /\ \A d \in Conns \ {c} : join'[d] = join[d]
        /\ join'[c] \in {"stale", "listen", "replay", "done"}
        /\ join'[c] \in {"stale", "listen"} => UserOf[c] # Nobody
    BY <1>0, <1>3 DEF OnRegister, AddListener, EndStaleListenEvents, StartListenEvent, FinishJoin
  <2> QED
    BY <1>0, <2>1, <2>2 DEF hubVars
<1>4. ASSUME NEW c \in Conns, OnUnregister(c) PROVE LifeInv'
  <2>1. /\ UNCHANGED <<hand, members, hubOf, join>> /\ quit \subseteq quit'
        /\ \A d \in Conns \ {c} : stage'[d] = stage[d]
        /\ stage[c] \in LeaveStages /\ stage'[c] \in (LeaveStages \ {"barrier"}) \cup {"gone"}
        /\ stage[c] = "barrier" => join[c] \in {"refused", "done"}
    <3>1. CASE PassBarrier(c) \/ RemoveListener(c) \/ EndListenEvent(c) \/ ClearOwnedMic(c)
               \/ CheckEverLive(c) \/ DeleteRoom(c) \/ ClearListeners(c) \/ CheckEmpty(c)
               \/ LookupRoom(c)
      BY <1>0, <3>1 DEF PassBarrier, RemoveListener, EndListenEvent, ClearOwnedMic, CheckEverLive,
                        DeleteRoom, ClearListeners, CheckEmpty, LookupRoom, LeaveStages, hubVars
    <3>2. CASE DecideIdle(c) \/ EnterStop(c) \/ CloseQuit(c) \/ RemoveHub(c)
      BY <1>0, <3>2 DEF DecideIdle, EnterStop, CloseQuit, RemoveHub, LeaveStages
    <3> QED
      BY <1>4, <3>1, <3>2 DEF OnUnregister
  <2>2. \A h \in Hubs : ~ ReadsFrom(c, h)
    BY <2>1 DEF LeaveStages
  <2> QED
    BY <1>0, <2>1, <2>2 DEF LeaveStages
<1>5. ASSUME NEW h \in Hubs, Run(h) \/ HandleMic(h) PROVE LifeInv'
  <2>1. CASE HandleRegister(h)
    <3>1. /\ hand[h] \in Conns /\ hand' = [hand EXCEPT ![h] = NoConn]
          /\ UNCHANGED <<quit, stage, hubOf>>
          /\ \A d \in Conns \ {hand[h]} : join'[d] = join[d]
          /\ join'[hand[h]] \in {"refused", "add"}
          /\ \A g \in Hubs : members'[g] \subseteq members[g] \cup {hand[h]}
          /\ \A g \in Hubs \ {h} : members'[g] = members[g]
      BY <1>0, <2>1 DEF HandleRegister
    <3>2. ReadsFrom(hand[h], h) /\ \A g \in Hubs \ {h} : hand[g] # hand[h]
      BY <1>0, <3>1
    <3> QED
      BY <1>0, <3>1, <3>2
  <2>2. CASE RunReturns(h) \/ HandleMic(h)
    BY <2>2 DEF RunReturns, HandleMic, hubVars, connVars
  <2>3. ASSUME NEW c \in Conns, Evict(h, c) PROVE LifeInv'
    BY <1>0, <2>3 DEF Evict
  <2> QED
    BY <1>5, <2>1, <2>2, <2>3 DEF Run
<1>6. CASE RoomLife \/ UNCHANGED vars
  BY <1>6 DEF RoomLife, CleanupGhostRooms, GoLive, EndRoom, EndRoomClearsListeners, hubVars,
              connVars, vars
<1> QED
  BY <1>1, <1>2, <1>3, <1>4, <1>5, <1>6 DEF Next

LEMMA LifeInit == Init => LifeInv
BY ConstantsOK DEF Init, LifeInv, ReadsFrom, HandlerStages

-----------------------------------------------------------------------------
(* The slots of an address *)

\* Who holds a slot: a connection on its way in, and one of a serving hub; its done channel is
\* open, so that nobody is about to release it.
Holds(c) == c \in slot \ closed

AtIp(S, i) == {c \in S : IpOf[c] = i}

SlotInv ==
    /\ \A c \in Conns : /\ stage[c] = "new" => c \notin slot
                        /\ stage[c] \in HandlerStages => c \notin closed
                        /\ stage[c] \in {"slotted", "admitted", "sending"} => c \in slot
    /\ \A h \in Hubs \ quit : /\ hand[h] # NoConn => Holds(hand[h])
                              /\ \A c \in members[h] : Holds(c)
    /\ \A i \in Ips : /\ connsByIP[i] = Cardinality(AtIp(slot, i))
                      /\ connsByIP[i] <= MaxConnsPerIP

LEMMA AtIpFinite ==
  ASSUME TypeOK, NEW S \in SUBSET Conns, NEW i
  PROVE  IsFiniteSet(AtIp(S, i)) /\ Cardinality(AtIp(S, i)) \in Nat
BY ConstantsOK, FS_Subset, FS_CardinalityType DEF AtIp

\* A slot is taken below the cap, and given back once.
LEMMA SlotTaken ==
  ASSUME TypeOK, SlotInv, NEW c \in Conns, c \notin slot, slot' = slot \cup {c},
         connsByIP[IpOf[c]] < MaxConnsPerIP,
         connsByIP' = [connsByIP EXCEPT ![IpOf[c]] = @ + 1], NEW i \in Ips
  PROVE  connsByIP'[i] = Cardinality(AtIp(slot', i)) /\ connsByIP'[i] <= MaxConnsPerIP
<1>1. /\ connsByIP \in [Ips -> Nat] /\ IpOf[c] \in Ips /\ MaxConnsPerIP \in Nat /\ slot \subseteq Conns
      /\ connsByIP[i] = Cardinality(AtIp(slot, i)) /\ connsByIP[i] <= MaxConnsPerIP
  BY ConstantsOK DEF TypeOK, SlotInv, Ips
<1>2. CASE i = IpOf[c]
  <2>1. AtIp(slot', i) = AtIp(slot, i) \cup {c} /\ c \notin AtIp(slot, i)
    BY <1>2 DEF AtIp
  <2>2. Cardinality(AtIp(slot', i)) = Cardinality(AtIp(slot, i)) + 1
    <3>1. IsFiniteSet(AtIp(slot, i))
      BY <1>1, AtIpFinite
    <3> QED
      BY <2>1, <3>1, FS_AddElement
  <2> QED
    BY <1>1, <1>2, <2>2
<1>3. CASE i # IpOf[c]
  <2>1. AtIp(slot', i) = AtIp(slot, i)
    BY <1>3 DEF AtIp
  <2> QED
    BY <1>1, <1>3, <2>1
<1> QED
  BY <1>2, <1>3

LEMMA SlotGiven ==
  ASSUME TypeOK, SlotInv, NEW c \in Conns, Release(c), NEW i \in Ips
  PROVE  /\ connsByIP'[i] = Cardinality(AtIp(slot', i)) /\ connsByIP'[i] <= MaxConnsPerIP
         /\ slot' = slot \ {c}
<1>1. /\ connsByIP \in [Ips -> Nat] /\ IpOf[c] \in Ips /\ MaxConnsPerIP \in Nat /\ slot \subseteq Conns
      /\ connsByIP[i] = Cardinality(AtIp(slot, i)) /\ connsByIP[i] <= MaxConnsPerIP
  BY ConstantsOK DEF TypeOK, SlotInv, Ips
<1>2. CASE c \notin slot
  BY <1>1, <1>2 DEF Release, slotVars
<1>3. CASE c \in slot
  <2>1. /\ slot' = slot \ {c}
        /\ connsByIP' = [connsByIP EXCEPT ![IpOf[c]] = IF @ <= 1 THEN 0 ELSE @ - 1]
    BY <1>3 DEF Release
  <2>2. CASE i = IpOf[c]
    <3>1. AtIp(slot', i) = AtIp(slot, i) \ {c} /\ c \in AtIp(slot, i)
      BY <1>3, <2>1, <2>2 DEF AtIp
    <3>2. Cardinality(AtIp(slot', i)) = Cardinality(AtIp(slot, i)) - 1
      <4>1. IsFiniteSet(AtIp(slot, i))
        BY <1>1, AtIpFinite
      <4> QED
        BY <3>1, <4>1, FS_RemoveElement
    <3>3. Cardinality(AtIp(slot, i)) >= 1
      <4>1. Cardinality(AtIp(slot, i)) # 0
        BY <1>1, <3>1, AtIpFinite, FS_EmptySet
      <4> QED
        BY <1>1, <4>1
    <3> QED
      BY <1>1, <2>1, <2>2, <3>2, <3>3
  <2>3. CASE i # IpOf[c]
    <3>1. AtIp(slot', i) = AtIp(slot, i)
      BY <2>1, <2>3 DEF AtIp
    <3> QED
      BY <1>1, <2>1, <2>3, <3>1
  <2> QED
    BY <2>1, <2>2, <2>3
<1> QED
  BY <1>2, <1>3

LEMMA SlotStep ==
  ASSUME TypeOK, HubAssigned, StopOrder, LifeInv, SlotInv, [Next]_vars
  PROVE  SlotInv'
<1> DEFINE Counted == \A i \in Ips : /\ connsByIP[i] = Cardinality(AtIp(slot, i))
                                     /\ connsByIP[i] <= MaxConnsPerIP
           Placed == /\ \A c \in Conns : /\ stage[c] = "new" => c \notin slot
                                         /\ stage[c] \in HandlerStages => c \notin closed
                                         /\ stage[c] \in {"slotted", "admitted", "sending"} => c \in slot
                     /\ \A h \in Hubs \ quit : /\ hand[h] # NoConn => Holds(hand[h])
                                               /\ \A c \in members[h] : Holds(c)
<1> USE DEF Goto, HandlerStages, Holds
<1>0. /\ stage \in [Conns -> Stages] /\ hubOf \in [Conns -> Hubs \cup {NoHub}]
      /\ quit \in SUBSET Hubs /\ closed \in SUBSET Conns /\ slot \in SUBSET Conns
      /\ hand \in [Hubs -> Conns \cup {NoConn}] /\ NoConn \notin Conns /\ NoHub \notin Hubs
      /\ members \in [Hubs -> SUBSET Conns]
      /\ \A c \in Conns : stage[c] \notin {"new", "slotted", "gone"} => hubOf[c] \in Hubs
      /\ quit \subseteq stopping
  BY ConstantsOK DEF TypeOK, HubAssigned, StopOrder
<1>a. Placed /\ Counted
  BY DEF SlotInv
<1>b. /\ \A h \in Hubs : hand[h] # NoConn => /\ hubOf[hand[h]] = h /\ hand[h] \notin members[h]
                                             /\ stage[hand[h]] \notin HandlerStages
                                             /\ h \notin quit => stage[hand[h]] \in {"open", "leaving"}
      /\ \A h \in Hubs : \A c \in members[h] : /\ hubOf[c] = h /\ stage[c] \notin HandlerStages
                                               /\ h \notin quit => stage[c] \in {"open", "leaving"}
  BY <1>0 DEF LifeInv, ReadsFrom
<1>c. Placed' /\ Counted' => SlotInv'
  BY DEF SlotInv
<1>d. ASSUME UNCHANGED slotVars PROVE Counted'
  BY <1>a, <1>d DEF slotVars
<1>e. ASSUME NEW c \in Conns, Release(c) PROVE Counted' /\ slot' = slot \ {c}
  <2>1. Counted'
    BY <1>e, SlotGiven
  <2>2. IpOf[c] \in Ips
    BY DEF Ips
  <2> QED
    BY <1>e, <2>1, <2>2, SlotGiven
<1>1. ASSUME NEW c \in Conns, Handler(c) PROVE SlotInv'
  <2>1. CASE AcquireIPSlot(c)
    <3>1. /\ stage[c] = "new" /\ c \notin slot /\ slot' = slot \cup {c}
          /\ connsByIP[IpOf[c]] < MaxConnsPerIP
          /\ connsByIP' = [connsByIP EXCEPT ![IpOf[c]] = @ + 1]
          /\ stage' = [stage EXCEPT ![c] = "slotted"] /\ UNCHANGED <<hand, members, quit, closed>>
      BY <1>a, <2>1 DEF AcquireIPSlot, hubVars
    <3>2. Counted'
      BY <3>1, SlotTaken
    <3>3. Placed'
      BY <1>0, <1>a, <3>1
    <3> QED
      BY <1>c, <3>2, <3>3
  <2>2. CASE UpgradeFails(c)
    <3>1. /\ stage[c] = "slotted" /\ Release(c) /\ stage' = [stage EXCEPT ![c] = "gone"]
          /\ UNCHANGED <<hand, members, quit, closed>>
      BY <2>2 DEF UpgradeFails, hubVars
    <3>2. Placed'
      BY <1>0, <1>a, <1>b, <1>e, <3>1
    <3> QED
      BY <1>c, <1>e, <3>1, <3>2
  <2>3. CASE Attach(c)
    <3>1. /\ stage[c] = "slotted" /\ UNCHANGED <<hand, members, quit, closed>>
          /\ \/ Release(c) /\ stage' = [stage EXCEPT ![c] = "gone"]
             \/ UNCHANGED slotVars /\ stage' = [stage EXCEPT ![c] = "admitted"]
      BY <2>3 DEF Attach
    <3>2. CASE Release(c) /\ stage' = [stage EXCEPT ![c] = "gone"]
      <4>1. Placed'
        BY <1>0, <1>a, <1>b, <1>e, <3>1, <3>2
      <4> QED
        BY <1>c, <1>e, <3>2, <4>1
    <3>3. CASE UNCHANGED slotVars /\ stage' = [stage EXCEPT ![c] = "admitted"]
      <4>1. Placed'
        BY <1>0, <1>a, <1>b, <3>1, <3>3 DEF slotVars
      <4> QED
        BY <1>c, <1>d, <3>3, <4>1
    <3> QED
      BY <3>1, <3>2, <3>3
  <2>4. CASE ClaimRegistration(c)
    <3>1. /\ stage[c] = "admitted" /\ UNCHANGED <<hand, members, quit, closed>>
          /\ \/ Release(c) /\ stage' = [stage EXCEPT ![c] = "gone"]
             \/ UNCHANGED slotVars /\ stage' = [stage EXCEPT ![c] = "sending"]
      BY <2>4 DEF ClaimRegistration
    <3>2. CASE Release(c) /\ stage' = [stage EXCEPT ![c] = "gone"]
      <4>1. Placed'
        BY <1>0, <1>a, <1>b, <1>e, <3>1, <3>2
      <4> QED
        BY <1>c, <1>e, <3>2, <4>1
    <3>3. CASE UNCHANGED slotVars /\ stage' = [stage EXCEPT ![c] = "sending"]
      <4>1. Placed'
        BY <1>0, <1>a, <1>b, <3>1, <3>3 DEF slotVars
      <4> QED
        BY <1>c, <1>d, <3>3, <4>1
    <3> QED
      BY <3>1, <3>2, <3>3
  <2>5. CASE SendRegistration(c)
    <3>1. Placed'
      BY <1>0, <1>a, <2>5 DEF SendRegistration, slotVars
    <3> QED
      BY <1>c, <1>d, <2>5, <3>1 DEF SendRegistration
  <2>6. CASE AbortRegistration(c)
    <3>1. /\ stage[c] = "sending" /\ Release(c) /\ stage' = [stage EXCEPT ![c] = "gone"]
          /\ UNCHANGED <<hand, members, quit, closed>>
      BY <2>6 DEF AbortRegistration
    <3>2. Placed'
      BY <1>0, <1>a, <1>b, <1>e, <3>1
    <3> QED
      BY <1>c, <1>e, <3>1, <3>2
  <2>7. CASE ReleaseOnDone(c)
    <3>1. /\ c \in closed /\ Release(c) /\ UNCHANGED <<hand, members, quit, closed, stage>>
      BY <2>7 DEF ReleaseOnDone, hubVars, connVars
    <3>2. Placed'
      BY <1>0, <1>a, <1>e, <3>1
    <3> QED
      BY <1>c, <1>e, <3>1, <3>2
  <2> QED
    BY <1>1, <2>1, <2>2, <2>3, <2>4, <2>5, <2>6, <2>7 DEF Handler
<1>2. ASSUME NEW c \in Conns, Reader(c) PROVE SlotInv'
  <2>1. UNCHANGED slotVars
    BY <1>2 DEF Reader, ReadFails, Unregister, UnregisterFromDeadHub, SendMic
  <2>2. CASE ReadFails(c)
    <3>1. Placed'
      BY <1>0, <1>a, <2>1, <2>2 DEF ReadFails, hubVars, slotVars
    <3> QED
      BY <1>c, <1>d, <2>1, <3>1
  <2>3. CASE Unregister(c)
    <3>1. /\ UNCHANGED <<hand, quit, hubOf, slot>> /\ stage[c] = "leaving" /\ hubOf[c] \in Hubs
          /\ hand[hubOf[c]] = NoConn
          /\ \A d \in Conns \ {c} : stage'[d] = stage[d]
          /\ stage'[c] = "barrier"
          /\ members' = [members EXCEPT ![hubOf[c]] = @ \ {c}]
          /\ closed' \subseteq closed \cup {c}
      BY <1>0, <2>1, <2>3 DEF Unregister, Selecting, slotVars
    <3>2. \A h \in Hubs : c \notin members'[h] /\ hand[h] # c
      BY <1>0, <1>b, <3>1
    <3>3. Placed'
      BY <1>0, <1>a, <3>1, <3>2
    <3> QED
      BY <1>c, <1>d, <2>1, <3>3
  <2>4. CASE UnregisterFromDeadHub(c)
    <3>1. /\ UNCHANGED <<hand, quit, members, slot>> /\ stage[c] = "leaving" /\ hubOf[c] \in quit
          /\ \A d \in Conns \ {c} : stage'[d] = stage[d]
          /\ stage'[c] = "stranded" /\ closed' = closed \cup {c}
      BY <1>0, <2>1, <2>4 DEF UnregisterFromDeadHub, hubVars, slotVars
    <3>2. \A h \in Hubs \ quit : c \notin members[h] /\ hand[h] # c
      BY <1>0, <1>b, <3>1
    <3>3. Placed'
      BY <1>0, <1>a, <3>1, <3>2
    <3> QED
      BY <1>c, <1>d, <2>1, <3>3
  <2>5. ASSUME NEW on \in BOOLEAN, SendMic(c, on) PROVE SlotInv'
    <3>1. Placed'
      BY <1>a, <2>5 DEF SendMic, hubVars, slotVars, connVars
    <3> QED
      BY <1>c, <1>d, <2>1, <3>1
  <2> QED
    BY <1>2, <2>2, <2>3, <2>4, <2>5 DEF Reader
<1>3. ASSUME NEW c \in Conns, OnRegister(c) PROVE SlotInv'
  <2>1. UNCHANGED <<hubVars, stage, hubOf, closed, slotVars>>
    BY <1>3 DEF OnRegister, AddListener, EndStaleListenEvents, StartListenEvent, FinishJoin
  <2>2. Placed'
    BY <1>a, <2>1 DEF hubVars, slotVars
  <2> QED
    BY <1>c, <1>d, <2>1, <2>2
<1>4. ASSUME NEW c \in Conns, OnUnregister(c) PROVE SlotInv'
  <2>1. /\ UNCHANGED <<hand, members, closed, slotVars>> /\ quit \subseteq quit'
        /\ \A d \in Conns \ {c} : stage'[d] = stage[d]
        /\ stage'[c] \in LeaveStages \cup {"gone"}
    <3>1. CASE PassBarrier(c) \/ RemoveListener(c) \/ EndListenEvent(c) \/ ClearOwnedMic(c)
               \/ CheckEverLive(c) \/ DeleteRoom(c) \/ ClearListeners(c) \/ CheckEmpty(c)
               \/ LookupRoom(c)
      BY <1>0, <3>1 DEF PassBarrier, RemoveListener, EndListenEvent, ClearOwnedMic, CheckEverLive,
                        DeleteRoom, ClearListeners, CheckEmpty, LookupRoom, LeaveStages, hubVars
    <3>2. CASE DecideIdle(c) \/ EnterStop(c) \/ CloseQuit(c) \/ RemoveHub(c)
      BY <1>0, <3>2 DEF DecideIdle, EnterStop, CloseQuit, RemoveHub, LeaveStages
    <3> QED
      BY <1>4, <3>1, <3>2 DEF OnUnregister
  <2>2. Placed'
    BY <1>0, <1>a, <2>1 DEF LeaveStages, slotVars
  <2> QED
    BY <1>c, <1>d, <2>1, <2>2
<1>5. ASSUME NEW h \in Hubs, Run(h) \/ HandleMic(h) PROVE SlotInv'
  <2>1. UNCHANGED slotVars
    BY <1>5 DEF Run, HandleMic, HandleRegister, RunReturns, Evict
  <2>2. CASE HandleRegister(h)
    <3>1. /\ hand[h] \in Conns /\ hand' = [hand EXCEPT ![h] = NoConn]
          /\ UNCHANGED <<quit, stage, slot>>
          /\ \A g \in Hubs \ {h} : members'[g] = members[g]
          /\ \/ closed' = closed \cup {hand[h]} /\ members' = members
             \/ closed' = closed /\ h \notin quit /\ members'[h] = members[h] \cup {hand[h]}
      BY <1>0, <2>1, <2>2 DEF HandleRegister, slotVars
    <3>2. /\ stage[hand[h]] \notin HandlerStages
          /\ \A g \in Hubs : hand[h] \notin members[g] /\ (g # h => hand[g] # hand[h])
      BY <1>0, <1>b, <3>1
    <3>3. Placed'
      BY <1>0, <1>a, <3>1, <3>2
    <3> QED
      BY <1>c, <1>d, <2>1, <3>3
  <2>3. CASE RunReturns(h) \/ HandleMic(h)
    <3>1. Placed'
      BY <1>a, <2>1, <2>3 DEF RunReturns, HandleMic, hubVars, connVars, slotVars
    <3> QED
      BY <1>c, <1>d, <2>1, <3>1
  <2>4. ASSUME NEW c \in Conns, Evict(h, c) PROVE SlotInv'
    <3>1. /\ c \in members[h] /\ hand[h] = NoConn /\ members' = [members EXCEPT ![h] = @ \ {c}]
          /\ closed' = closed \cup {c} /\ UNCHANGED <<hand, quit, stage, slot>>
      BY <2>1, <2>4 DEF Evict, Selecting, slotVars
    <3>2. /\ stage[c] \notin HandlerStages
          /\ \A g \in Hubs : c \notin members'[g] /\ hand[g] # c
      BY <1>0, <1>b, <3>1
    <3>3. Placed'
      BY <1>0, <1>a, <3>1, <3>2
    <3> QED
      BY <1>c, <1>d, <2>1, <3>3
  <2> QED
    BY <1>5, <2>2, <2>3, <2>4 DEF Run
<1>6. CASE RoomLife \/ UNCHANGED vars
  <2>1. UNCHANGED <<hubVars, connVars, slotVars>>
    BY <1>6 DEF RoomLife, CleanupGhostRooms, GoLive, EndRoom, EndRoomClearsListeners, vars
  <2>2. Placed'
    BY <1>a, <2>1 DEF hubVars, connVars, slotVars
  <2> QED
    BY <1>c, <1>d, <2>1, <2>2
<1> QED
  BY <1>1, <1>2, <1>3, <1>4, <1>5, <1>6 DEF Next

LEMMA SlotInit == Init => SlotInv
<1> SUFFICES ASSUME Init PROVE SlotInv
  OBVIOUS
<1>1. ASSUME NEW i \in Ips PROVE connsByIP[i] = Cardinality(AtIp(slot, i)) /\ connsByIP[i] <= MaxConnsPerIP
  <2>1. AtIp(slot, i) = {}
    BY DEF AtIp, Init
  <2>2. Cardinality(AtIp(slot, i)) = 0
    BY <2>1, FS_EmptySet
  <2>3. connsByIP[i] = 0 /\ MaxConnsPerIP \in Nat
    BY ConstantsOK DEF Init
  <2> QED
    BY <2>2, <2>3
<1> QED
  BY <1>1 DEF Init, SlotInv, HandlerStages, Holds

\* The slots of an address are counted exactly, and no address has more clients in a serving hub
\* than the cap: a slot is taken below it, held as long as the connection is in Clients, and
\* given back once (acquireIPSlot, release and its sync.Once).
THEOREM SlotsCounted == Spec => []SlotsExact
<1>1. TypeOK /\ HubAssigned /\ StopInv /\ LifeInv /\ SlotInv /\ [Next]_vars => LifeInv' /\ SlotInv'
  BY LifeStep, SlotStep DEF StopInv
<1>2. TypeOK /\ SlotInv => SlotsExact
  <2> SUFFICES ASSUME TypeOK, SlotInv PROVE SlotsExact
    OBVIOUS
  <2>1. \A i \in Ips : connsByIP[i] = Cardinality({c \in slot : IpOf[c] = i})
    BY DEF SlotInv, AtIp
  <2>2. ASSUME NEW h \in Hubs \ quit PROVE members[h] \subseteq slot
    BY DEF SlotInv, Holds
  <2>3. ASSUME NEW h \in Hubs \ quit, NEW i \in Ips
        PROVE  Cardinality({c \in members[h] : IpOf[c] = i}) <= MaxConnsPerIP
    <3>1. AtIp(members[h], i) \subseteq AtIp(slot, i) /\ slot \in SUBSET Conns /\ members[h] \in SUBSET Conns
      BY <2>2 DEF AtIp, TypeOK
    <3>2. Cardinality(AtIp(members[h], i)) <= Cardinality(AtIp(slot, i))
      BY <3>1, AtIpFinite, FS_Subset
    <3>3. Cardinality(AtIp(slot, i)) <= MaxConnsPerIP /\ MaxConnsPerIP \in Nat
      BY ConstantsOK DEF SlotInv
    <3>4. Cardinality(AtIp(members[h], i)) <= MaxConnsPerIP
      BY <3>1, <3>2, <3>3, AtIpFinite
    <3> QED
      BY <3>4 DEF AtIp
  <2> QED
    BY <2>1, <2>2, <2>3 DEF SlotsExact
<1>3. TypeOK /\ HubAssigned /\ StopInv /\ [Next]_vars => StopInv'
  BY StopInvStep
<1> QED
  BY <1>1, <1>2, <1>3, LifeInit, SlotInit, StopInvInit, TypeCorrect, PTL DEF Spec
-----------------------------------------------------------------------------
(***************************************************************************)
(* Who holds the mic: a DJ of this very hub whose onUnregister, that       *)
(* clears the mic when it is still the owner, has not got that far.        *)
(***************************************************************************)
MayHoldMic(c, h) == /\ c \in DJs /\ hubOf[c] = h
                    /\ stage[c] \in {"open", "leaving", "barrier", "remove", "unlisten", "mic"}

MicInv == \A h \in Hubs \ quit : micActive[h] => MayHoldMic(micOwner[h], h)

\* What an onUnregister past the mic leaves alone.
MicUntouched(c) == /\ UNCHANGED <<micActive, micOwner, hubOf>> /\ quit \subseteq quit'
                   /\ \A d \in Conns \ {c} : stage'[d] = stage[d]

LEMMA MicStep ==
  ASSUME TypeOK, HubAssigned, LifeInv, MicInv, [Next]_vars
  PROVE  MicInv'
<1> USE DEF MicInv, MayHoldMic, Goto
<1>0. /\ stage \in [Conns -> Stages] /\ hubOf \in [Conns -> Hubs \cup {NoHub}]
      /\ quit \in SUBSET Hubs /\ DJs \subseteq Conns
      /\ micActive \in [Hubs -> BOOLEAN] /\ micOwner \in [Hubs -> Conns \cup {NoConn}]
      /\ \A c \in Conns : stage[c] \notin {"new", "slotted", "gone"} => hubOf[c] \in Hubs
  BY ConstantsOK DEF TypeOK, HubAssigned
<1>1. ASSUME NEW c \in Conns, Handler(c) PROVE MicInv'
  <2>1. CASE ReleaseOnDone(c)
    BY <1>0, <2>1 DEF ReleaseOnDone, hubVars, micVars, connVars
  <2>2. CASE ~ ReleaseOnDone(c)
    <3>1. /\ UNCHANGED <<micActive, micOwner, quit>>
          /\ stage[c] \in HandlerStages
          /\ \A d \in Conns \ {c} : stage'[d] = stage[d] /\ hubOf'[d] = hubOf[d]
      <4>1. CASE AcquireIPSlot(c) \/ UpgradeFails(c)
        BY <1>0, <4>1 DEF AcquireIPSlot, UpgradeFails, HandlerStages, hubVars, micVars
      <4>2. CASE Attach(c)
        BY <1>0, <4>2 DEF Attach, HandlerStages, micVars
      <4>3. CASE ClaimRegistration(c) \/ SendRegistration(c) \/ AbortRegistration(c)
        BY <1>0, <4>3 DEF ClaimRegistration, SendRegistration, AbortRegistration, HandlerStages,
                          micVars
      <4> QED
        BY <1>1, <2>2, <4>1, <4>2, <4>3 DEF Handler
    <3>2. \A h \in Hubs : ~ MayHoldMic(c, h)
      BY <3>1 DEF HandlerStages
    <3> QED
      BY <1>0, <3>1, <3>2
  <2> QED
    BY <2>1, <2>2
<1>2. ASSUME NEW c \in Conns, Reader(c) PROVE MicInv'
  <2>1. CASE ReadFails(c)
    BY <1>0, <2>1 DEF ReadFails, hubVars, micVars
  <2>2. CASE Unregister(c)
    BY <1>0, <2>2 DEF Unregister, micVars
  <2>3. CASE UnregisterFromDeadHub(c)
    BY <1>0, <2>3 DEF UnregisterFromDeadHub, hubVars, micVars
  <2>4. ASSUME NEW on \in BOOLEAN, SendMic(c, on) PROVE MicInv'
    BY <2>4 DEF SendMic, hubVars, connVars
  <2> QED
    BY <1>2, <2>1, <2>2, <2>3, <2>4 DEF Reader
<1>3. ASSUME NEW c \in Conns, OnRegister(c) PROVE MicInv'
  BY <1>3 DEF OnRegister, AddListener, EndStaleListenEvents, StartListenEvent, FinishJoin, hubVars,
              micVars
<1>4. ASSUME NEW c \in Conns, OnUnregister(c) PROVE MicInv'
  <2>1. CASE PassBarrier(c)
    BY <1>0, <2>1 DEF PassBarrier, hubVars, micVars
  <2>2. CASE RemoveListener(c)
    BY <1>0, <2>2 DEF RemoveListener, hubVars, micVars
  <2>3. CASE EndListenEvent(c)
    BY <1>0, <2>3 DEF EndListenEvent, hubVars, micVars
  <2>4. CASE ClearOwnedMic(c)
    <3>1. /\ stage[c] = "mic" /\ hubOf[c] \in Hubs /\ UNCHANGED <<quit, hubOf>>
          /\ \A d \in Conns \ {c} : stage'[d] = stage[d]
      BY <1>0, <2>4 DEF ClearOwnedMic, hubVars
    <3>2. CASE micOwner[hubOf[c]] = c
      BY <1>0, <2>4, <3>1, <3>2 DEF ClearOwnedMic
    <3>3. CASE micOwner[hubOf[c]] # c
      BY <1>0, <2>4, <3>1, <3>3 DEF ClearOwnedMic
    <3> QED
      BY <3>2, <3>3
  <2>5. CASE \/ CheckEverLive(c) \/ DeleteRoom(c) \/ ClearListeners(c) \/ CheckEmpty(c)
             \/ LookupRoom(c) \/ DecideIdle(c) \/ EnterStop(c) \/ CloseQuit(c) \/ RemoveHub(c)
    <3>1. MicUntouched(c) /\ ~ (\E h \in Hubs : MayHoldMic(c, h))
      <4>1. CASE CheckEverLive(c) \/ DeleteRoom(c) \/ ClearListeners(c) \/ CheckEmpty(c)
                 \/ LookupRoom(c)
        BY <1>0, <4>1 DEF CheckEverLive, DeleteRoom, ClearListeners, CheckEmpty, LookupRoom,
                          MicUntouched, hubVars, micVars
      <4>2. CASE DecideIdle(c) \/ EnterStop(c) \/ CloseQuit(c) \/ RemoveHub(c)
        BY <1>0, <4>2 DEF DecideIdle, EnterStop, CloseQuit, RemoveHub, MicUntouched, micVars
      <4> QED
        BY <2>5, <4>1, <4>2
    <3> QED
      BY <1>0, <3>1 DEF MicUntouched
  <2> QED
    BY <1>4, <2>1, <2>2, <2>3, <2>4, <2>5 DEF OnUnregister
<1>5. ASSUME NEW h \in Hubs, Run(h) \/ HandleMic(h) PROVE MicInv'
  <2>1. CASE HandleRegister(h) \/ RunReturns(h)
    BY <2>1 DEF HandleRegister, RunReturns, micVars, connVars
  <2>2. ASSUME NEW c \in Conns, Evict(h, c) PROVE MicInv'
    BY <2>2 DEF Evict, micVars
  <2>3. CASE HandleMic(h)
    <3> DEFINE c == Head(inbox[h])[1]
               on == Head(inbox[h])[2]
    <3>1. UNCHANGED <<quit, stage, hubOf, members>>
      BY <2>3 DEF HandleMic, hubVars, connVars
    <3>2. c \in DJs /\ on \in BOOLEAN
      BY <2>3 DEF HandleMic, TypeOK
    <3>3. \/ UNCHANGED <<micActive, micOwner>>
          \/ /\ c \in members[h] /\ micActive' = [micActive EXCEPT ![h] = on]
             /\ micOwner' = [micOwner EXCEPT ![h] = IF on THEN c ELSE NoConn]
      BY <2>3 DEF HandleMic
    <3>4. h \notin quit /\ c \in members[h] => MayHoldMic(c, h)
      BY <3>2 DEF LifeInv, ReadsFrom
    <3> HIDE DEF c, on
    <3>5. CASE UNCHANGED <<micActive, micOwner>>
      BY <3>1, <3>5
    <3>6. CASE /\ c \in members[h] /\ micActive' = [micActive EXCEPT ![h] = on]
               /\ micOwner' = [micOwner EXCEPT ![h] = IF on THEN c ELSE NoConn]
      <4>1. \A g \in Hubs \ {h} : micActive'[g] = micActive[g] /\ micOwner'[g] = micOwner[g]
        BY <1>0, <3>6
      <4>2. micActive'[h] = on /\ (on => micOwner'[h] = c)
        BY <1>0, <3>6
      <4> QED
        BY <1>0, <3>1, <3>4, <3>6, <4>1, <4>2
    <3> QED
      BY <3>3, <3>5, <3>6
  <2> QED
    BY <1>5, <2>1, <2>2, <2>3 DEF Run
<1>6. CASE RoomLife \/ UNCHANGED vars
  BY <1>6 DEF RoomLife, CleanupGhostRooms, GoLive, EndRoom, EndRoomClearsListeners, hubVars,
              micVars, connVars, vars
<1> QED
  BY <1>1, <1>2, <1>3, <1>4, <1>5, <1>6 DEF Next

\* While a hub serves, its mic is never left on by a connection that is past the point where its
\* onUnregister would turn it off: dj_mic is only obeyed for a client the loop still holds, and
\* only the owner clears it (inboundLoop, onUnregister).
THEOREM MicHasLiveOwner == Spec => []MicHeldByLiveOwner
<1>1. Init => MicInv
  BY DEF Init, MicInv
<1>2. TypeOK /\ HubAssigned /\ LifeInv /\ MicInv /\ [Next]_vars => LifeInv' /\ MicInv'
  BY LifeStep, MicStep
<1>3. MicInv => MicHeldByLiveOwner
  BY ConstantsOK DEF MicInv, MayHoldMic, MicHeldByLiveOwner
<1> QED
  BY <1>1, <1>2, <1>3, LifeInit, TypeCorrect, PTL DEF Spec
-----------------------------------------------------------------------------
(***************************************************************************)
(* Why the hub of a room that never went live is not forgotten: as long as *)
(* it is registered some connection of it still has to look at it.  Before *)
(* the commitment that is anyone on the way in, connected or on the way    *)
(* out; after it, whoever is about to enter stop(); then the one inside.   *)
(***************************************************************************)
Busy == {"admitted", "sending", "open", "leaving"} \cup (LeaveStages \ {"close", "unlink"})

Keeps(c, h) == /\ hubOf[c] = h
               /\ h \in once => stage[c] \in {"close", "unlink"}
               /\ h \in stopping \ once => stage[c] = "stop"
               /\ h \notin stopping => stage[c] \in Busy

IdleInv == /\ stopping \subseteq started
           /\ hub # NoHub /\ room = "never" => \E c \in Conns : Keeps(c, hub)

LEMMA IdleStep ==
  ASSUME TypeOK, HubAssigned, StopInv, RegsInv, LifeInv, IdleInv, [Next]_vars
  PROVE  IdleInv'
<1> USE DEF Keeps, Goto
<1>0. /\ stage \in [Conns -> Stages] /\ hubOf \in [Conns -> Hubs \cup {NoHub}]
      /\ hub \in Hubs \cup {NoHub} /\ NoHub \notin Hubs /\ NoConn \notin Conns
      /\ members \in [Hubs -> SUBSET Conns] /\ stopping \in SUBSET Hubs /\ once \in SUBSET Hubs
      /\ \A c \in Conns : stage[c] \notin {"new", "slotted", "gone"} =>
                              hubOf[c] \in Hubs /\ hubOf[c] \in started
      /\ quit \subseteq once /\ once \subseteq stopping /\ stopping \subseteq started
  BY ConstantsOK DEF TypeOK, HubAssigned, StopInv, HubStarted, StopOrder, Detached, IdleInv
<1>a. hub # NoHub /\ room = "never" => \E c \in Conns : Keeps(c, hub)
  BY DEF IdleInv
<1>b. ASSUME UNCHANGED <<hub, started, stopping, once>>, room' = "never" => room = "never",
             \A d \in Conns : hub # NoHub /\ room = "never" /\ Keeps(d, hub) => Keeps(d, hub)'
      PROVE  IdleInv'
  BY <1>0, <1>a, <1>b DEF IdleInv
\* Whoever looks and goes away leaves somebody else behind.
<1>c. ASSUME NEW c \in Conns, stage[c] \in {"count", "decide"},
             UNCHANGED <<hub, started, stopping, once, room, hubOf>>,
             \A d \in Conns \ {c} : stage'[d] = stage[d],
             Keeps(c, hub) => \E d \in Conns \ {c} : hubOf[d] = hub /\ stage[d] \in Busy
      PROVE  IdleInv'
  <2>1. \A d \in Conns \ {c} : Keeps(d, hub) => Keeps(d, hub)'
    BY <1>c
  <2>2. ASSUME NEW d \in Conns \ {c}, Keeps(c, hub), hubOf[d] = hub, stage[d] \in Busy
        PROVE  Keeps(d, hub)'
    <3>1. hub \notin once /\ hub \notin stopping
      BY <1>0, <1>c, <2>2
    <3> QED
      BY <1>c, <2>2, <3>1
  <2> QED
    BY <1>a, <1>c, <1>0, <2>1, <2>2 DEF IdleInv
<1>1. ASSUME NEW c \in Conns, Handler(c) PROVE IdleInv'
  <2>1. CASE AcquireIPSlot(c) \/ UpgradeFails(c) \/ ReleaseOnDone(c)
    <3>1. /\ UNCHANGED <<hub, started, stopping, once, room, hubOf>>
          /\ stage' = stage \/ (stage[c] \notin Busy \cup {"stop", "close", "unlink"})
          /\ \A d \in Conns \ {c} : stage'[d] = stage[d]
      BY <1>0, <2>1 DEF AcquireIPSlot, UpgradeFails, ReleaseOnDone, Busy, LeaveStages, hubVars,
                        connVars, dbVars
    <3> QED
      BY <1>b, <3>1
  <2>2. CASE Attach(c)
    <3>1. /\ stage[c] = "slotted" /\ UNCHANGED <<stopping, once, room>>
          /\ \A d \in Conns \ {c} : stage'[d] = stage[d] /\ hubOf'[d] = hubOf[d]
      BY <1>0, <2>2 DEF Attach, dbVars
    <3>2. PICK h \in Hubs :
            /\ GetOrCreate(h)
            /\ SessionClientCount(h, SessionOf[c]) >= MaxConnsPerSession
               \/ (hubOf'[c] = h /\ stage'[c] = "admitted")
      BY <1>0, <2>2 DEF Attach
    <3>3. CASE UNCHANGED <<hub, started>>
      <4>1. stage[c] \notin Busy \cup {"stop", "close", "unlink"}
        BY <3>1 DEF Busy, LeaveStages
      <4>2. \A d \in Conns : Keeps(d, hub) => d # c
        BY <4>1
      <4> QED
        BY <1>b, <3>1, <3>3, <4>2
    <3>4. CASE hub = NoHub /\ h \notin started /\ hub' = h /\ started' = started \cup {h}
      <4>1. members[h] = {}
        <5>1. \A d \in members[h] : d \in Conns /\ stage[d] \in {"open", "leaving", "stranded"} /\ hubOf[d] = h
          BY <1>0 DEF LifeInv, ReadsFrom
        <5> QED
          BY <1>0, <3>4, <5>1
      <4>2. SessionClientCount(h, SessionOf[c]) = 0
        <5>1. {d \in members[h] : SessionOf[d] = SessionOf[c]} = {}
          BY <4>1
        <5> QED
          BY <5>1, FS_EmptySet DEF SessionClientCount
      <4>3. hubOf'[c] = h /\ stage'[c] = "admitted"
        BY <3>2, <4>2, ConstantsOK
      <4>4. h \notin stopping' /\ h \notin once'
        BY <1>0, <3>1, <3>4
      <4>5. Keeps(c, hub)'
        BY <3>4, <4>3, <4>4 DEF Busy
      <4> QED
        BY <1>0, <3>1, <3>4, <4>5 DEF IdleInv
    <3> QED
      BY <3>2, <3>3, <3>4 DEF GetOrCreate
  <2>3. CASE ClaimRegistration(c) \/ SendRegistration(c) \/ AbortRegistration(c)
    <3>1. /\ UNCHANGED <<hub, started, stopping, once, room, hubOf>>
          /\ \A d \in Conns \ {c} : stage'[d] = stage[d]
          /\ stage[c] \in {"admitted", "sending"}
          /\ stage'[c] \in {"sending", "open"} \/ hubOf[c] \in stopping
      BY <1>0, <2>3 DEF ClaimRegistration, SendRegistration, AbortRegistration, dbVars
    <3>2. Keeps(c, hub) => Keeps(c, hub)'
      BY <1>0, <3>1 DEF Busy
    <3> QED
      BY <1>b, <3>1, <3>2
  <2> QED
    BY <1>1, <2>1, <2>2, <2>3 DEF Handler
<1>2. ASSUME NEW c \in Conns, Reader(c) PROVE IdleInv'
  <2>1. CASE ReadFails(c) \/ Unregister(c) \/ UnregisterFromDeadHub(c)
    <3>1. /\ UNCHANGED <<hub, started, stopping, once, room, hubOf>>
          /\ \A d \in Conns \ {c} : stage'[d] = stage[d]
          /\ stage[c] \in {"open", "leaving"}
          /\ stage'[c] \in {"leaving", "barrier"} \/ hubOf[c] \in quit
      BY <1>0, <2>1 DEF ReadFails, Unregister, UnregisterFromDeadHub, hubVars, dbVars
    <3>2. Keeps(c, hub) => Keeps(c, hub)'
      BY <1>0, <3>1 DEF Busy, LeaveStages
    <3> QED
      BY <1>b, <3>1, <3>2
  <2>2. ASSUME NEW on \in BOOLEAN, SendMic(c, on) PROVE IdleInv'
    BY <1>b, <2>2 DEF SendMic, hubVars, connVars, dbVars
  <2> QED
    BY <1>2, <2>1, <2>2 DEF Reader
<1>3. ASSUME NEW c \in Conns, OnRegister(c) PROVE IdleInv'
  <2>1. UNCHANGED <<hub, started, stopping, once, stage, hubOf, room>>
    BY <1>3 DEF OnRegister, AddListener, EndStaleListenEvents, StartListenEvent, FinishJoin, hubVars,
                dbVars
  <2> QED
    BY <1>b, <2>1
<1>4. ASSUME NEW c \in Conns, OnUnregister(c) PROVE IdleInv'
  <2>1. CASE PassBarrier(c) \/ RemoveListener(c) \/ EndListenEvent(c) \/ ClearOwnedMic(c)
             \/ CheckEverLive(c) \/ DeleteRoom(c) \/ ClearListeners(c)
    <3>1. /\ UNCHANGED <<hub, started, stopping, once, hubOf>>
          /\ room' = "never" => room = "never"
          /\ \A d \in Conns \ {c} : stage'[d] = stage[d]
          /\ stage[c] \in LeaveStages \ {"stop", "close", "unlink"}
          /\ stage'[c] \in LeaveStages \ {"close", "unlink"}
      BY <1>0, <2>1 DEF PassBarrier, RemoveListener, EndListenEvent, ClearOwnedMic, CheckEverLive,
                        DeleteRoom, ClearListeners, LeaveStages, hubVars, dbVars
    <3>2. Keeps(c, hub) => Keeps(c, hub)'
      BY <1>0, <3>1 DEF Busy
    <3> QED
      BY <1>b, <3>1, <3>2
  <2>2. CASE CheckEmpty(c)
    <3>1. /\ UNCHANGED <<hub, started, stopping, once, room, hubOf>>
          /\ \A d \in Conns \ {c} : stage'[d] = stage[d]
          /\ stage[c] = "count" /\ (stage'[c] = "lookup" \/ members[hubOf[c]] # {})
      BY <1>0, <2>2 DEF CheckEmpty, hubVars, dbVars
    <3>2. CASE stage'[c] = "lookup"
      <4>1. Keeps(c, hub) => Keeps(c, hub)'
        BY <1>0, <3>1, <3>2 DEF Busy, LeaveStages
      <4> QED
        BY <1>b, <3>1, <4>1
    <3>3. CASE members[hubOf[c]] # {}
      <4>1. hubOf[c] \in Hubs
        BY <1>0, <3>1
      <4>2. Keeps(c, hub) => hub = hubOf[c] /\ hub \notin quit
        BY <1>0, <3>1
      <4>3. PICK d \in members[hubOf[c]] : ReadsFrom(d, hubOf[c])
        BY <3>3, <4>1 DEF LifeInv
      <4>4. Keeps(c, hub) => d \in Conns \ {c} /\ hubOf[d] = hub /\ stage[d] \in Busy
        BY <1>0, <3>1, <4>1, <4>2, <4>3 DEF ReadsFrom, Busy
      <4> QED
        BY <1>c, <3>1, <4>4
    <3> QED
      BY <3>1, <3>2, <3>3
  <2>3. CASE LookupRoom(c)
    <3>1. /\ UNCHANGED <<hub, started, stopping, once, room, hubOf>>
          /\ \A d \in Conns \ {c} : stage'[d] = stage[d]
          /\ stage[c] = "lookup" /\ (stage'[c] = "decide" \/ room = "live")
      BY <1>0, <2>3 DEF LookupRoom, hubVars, dbVars
    <3>2. room = "never" /\ Keeps(c, hub) => Keeps(c, hub)'
      BY <1>0, <3>1 DEF Busy, LeaveStages
    <3> QED
      BY <1>b, <3>1, <3>2
  <2>4. CASE DecideIdle(c)
    <3> DEFINE g == hubOf[c]
    <3>1. /\ UNCHANGED <<hub, started, once, room, hubOf>>
          /\ \A d \in Conns \ {c} : stage'[d] = stage[d]
          /\ stage[c] = "decide" /\ g \in Hubs /\ g \in started
          /\ \/ stopping' = stopping \cup {g} /\ stage'[c] = "stop"
             \/ stopping' = stopping /\ ~(members[g] = {} /\ pendingRegs[g] = 0)
      BY <1>0, <2>4 DEF DecideIdle, dbVars
    <3> HIDE DEF g
    <3>2. CASE stopping' = stopping \cup {g} /\ stage'[c] = "stop"
      <4>1. \A d \in Conns \ {c} : Keeps(d, hub) /\ (hub # g \/ g \in stopping) => Keeps(d, hub)'
        BY <1>0, <3>1, <3>2
      <4>2. Keeps(c, hub) \/ (hub = g /\ g \notin stopping) => Keeps(c, hub)'
        BY <1>0, <3>1, <3>2 DEF g
      <4> QED
        BY <1>0, <1>a, <3>1, <3>2, <4>1, <4>2 DEF IdleInv
    <3>3. CASE stopping' = stopping /\ ~(members[g] = {} /\ pendingRegs[g] = 0)
      <4>1. Keeps(c, hub) => hub = g /\ g \notin quit
        BY <1>0, <3>1 DEF g
      <4>2. PICK d \in Conns : /\ hubOf[d] = g
                               /\ stage[d] = "sending" \/ ReadsFrom(d, g)
        <5>1. CASE members[g] # {}
          BY <1>0, <3>1, <5>1 DEF LifeInv, ReadsFrom
        <5>2. CASE pendingRegs[g] # 0
          <6>1. InFlight(g) # {}
            BY <3>1, <5>2, FS_EmptySet DEF RegsInv, PendingRegsExact
          <6>2. \A d \in InFlight(g) : d \in Conns /\ hubOf[d] = g /\ (stage[d] = "sending" \/ ReadsFrom(d, g))
            BY <1>0, <3>1 DEF InFlight, LifeInv
          <6> QED
            BY <6>1, <6>2
        <5> QED
          BY <3>3, <5>1, <5>2
      <4>3. Keeps(c, hub) => d \in Conns \ {c} /\ hubOf[d] = hub /\ stage[d] \in Busy
        BY <3>1, <4>1, <4>2 DEF ReadsFrom, Busy
      <4> QED
        BY <1>c, <3>1, <3>3, <4>3
    <3> QED
      BY <3>1, <3>2, <3>3
  <2>5. CASE EnterStop(c)
    <3> DEFINE g == hubOf[c]
    <3>1. /\ UNCHANGED <<hub, started, room, hubOf>>
          /\ \A d \in Conns \ {c} : stage'[d] = stage[d]
          /\ stage[c] = "stop" /\ g \in Hubs /\ g \in started
          /\ \/ g \in once /\ UNCHANGED <<once, stopping>>
             \/ /\ g \notin once /\ once' = once \cup {g} /\ stopping' = stopping \cup {g}
                /\ stage'[c] = "close"
      BY <1>0, <2>5 DEF EnterStop, dbVars
    <3> HIDE DEF g
    <3>2. CASE g \in once /\ UNCHANGED <<once, stopping>>
      <4>1. ~ Keeps(c, hub)
        BY <3>1, <3>2 DEF g
      <4> QED
        BY <1>b, <3>1, <3>2, <4>1
    <3>3. CASE /\ g \notin once /\ once' = once \cup {g} /\ stopping' = stopping \cup {g}
               /\ stage'[c] = "close"
      <4>1. \A d \in Conns : Keeps(d, hub) /\ hub # g => Keeps(d, hub)'
        BY <1>0, <3>1, <3>3 DEF g
      <4>2. hub = g => Keeps(c, hub)'
        BY <1>0, <3>1, <3>3 DEF g
      <4> QED
        BY <1>0, <1>a, <3>1, <3>3, <4>1, <4>2 DEF IdleInv
    <3> QED
      BY <3>1, <3>2, <3>3
  <2>6. CASE CloseQuit(c)
    <3>1. /\ UNCHANGED <<hub, started, stopping, once, room, hubOf>>
          /\ \A d \in Conns \ {c} : stage'[d] = stage[d]
          /\ stage[c] = "close" /\ stage'[c] = "unlink" /\ hubOf[c] \in once
      BY <1>0, <2>6 DEF CloseQuit, dbVars, StopInv, StopperIn
    <3>2. Keeps(c, hub) => Keeps(c, hub)'
      BY <1>0, <3>1
    <3> QED
      BY <1>b, <3>1, <3>2
  <2>7. CASE RemoveHub(c)
    BY <1>0, <2>7 DEF RemoveHub, IdleInv
  <2> QED
    BY <1>4, <2>1, <2>2, <2>3, <2>4, <2>5, <2>6, <2>7 DEF OnUnregister
<1>5. ASSUME NEW h \in Hubs, Run(h) \/ HandleMic(h) PROVE IdleInv'
  BY <1>b, <1>5 DEF Run, HandleRegister, RunReturns, Evict, HandleMic, hubVars, connVars, dbVars
<1>6. CASE RoomLife \/ UNCHANGED vars
  BY <1>b, <1>6 DEF RoomLife, CleanupGhostRooms, GoLive, EndRoom, EndRoomClearsListeners, hubVars,
                    connVars, dbVars, vars
<1> QED
  BY <1>1, <1>2, <1>3, <1>4, <1>5, <1>6 DEF Next

\* A room that never went live and whose connections have all settled has no hub: whichever
\* checks of leaving connections cross with whichever registrations, the one that looks last
\* finds the hub idle and stops it (onUnregister, tryStopIfIdle, stop).
THEOREM LastOneStopsTheHub == Spec => []NoIdleHubLeft
<1>1. Init => IdleInv
  BY DEF Init, IdleInv
<1>2. TypeOK /\ TypeOK' /\ HubAssigned /\ StopInv /\ RegsInv /\ LifeInv /\ IdleInv /\ [Next]_vars
      => StopInv' /\ RegsInv' /\ LifeInv' /\ IdleInv'
  BY StopInvStep, RegsInvStep, LifeStep, IdleStep DEF TypeOK
<1>3. TypeOK /\ IdleInv => NoIdleHubLeft
  BY DEF TypeOK, IdleInv, Keeps, Busy, LeaveStages, NoIdleHubLeft, Settled
<1> QED
  BY <1>1, <1>2, <1>3, StopInvInit, RegsInvInit, LifeInit, TypeCorrect, PTL DEF Spec
-----------------------------------------------------------------------------
(***************************************************************************)
(* Who owes the end of what it wrote.  A listen row is only written for a  *)
(* connection with a user, so that its onUnregister will pass through      *)
(* EndListenEvent.                                                         *)
(***************************************************************************)
OwesRow(c) == /\ UserOf[c] # Nobody /\ join[c] \in {"replay", "done"}
              /\ Unsettled(c) \/ stage[c] = "unlisten"

PresenceInv ==
    /\ \A s \in listeners : \E c \in Conns : SessionOf[c] = s /\ Unsettled(c)
    /\ \A s \in Sessions : listen[s] \in Users \ {Nobody} =>
                               \E c \in Conns : SessionOf[c] = s /\ OwesRow(c)

LEMMA PresenceStep ==
  ASSUME StoreFails = FALSE, TypeOK, LifeInv, PresenceInv, [Next]_vars
  PROVE  PresenceInv'
<1> USE DEF PresenceInv, OwesRow, Unsettled, Goto
<1>0. /\ stage \in [Conns -> Stages] /\ join \in [Conns -> JoinStages]
      /\ listen \in [Sessions -> Users \cup {Nobody, Ended}] /\ Ended \notin Users
      /\ hand \in [Hubs -> Conns \cup {NoConn}] /\ NoConn \notin Conns
  BY ConstantsOK DEF TypeOK, Users
\* Nothing is written, and whoever owes something still does.
<1>a. ASSUME listeners' \subseteq listeners,
             \A s \in Sessions : listen'[s] \in Users \ {Nobody} => listen'[s] = listen[s],
             \A d \in Conns : /\ Unsettled(d) => Unsettled(d)'
                              /\ OwesRow(d) => OwesRow(d)'
      PROVE  PresenceInv'
  BY <1>a
<1>1. ASSUME NEW c \in Conns, Handler(c) PROVE PresenceInv'
  <2>1. CASE ReleaseOnDone(c)
    BY <1>a, <2>1 DEF ReleaseOnDone, connVars, dbVars
  <2>2. CASE ~ ReleaseOnDone(c)
    <3>1. /\ UNCHANGED <<join, listeners, listen>>
          /\ stage[c] \in HandlerStages
          /\ \A d \in Conns \ {c} : stage'[d] = stage[d]
      <4>1. CASE AcquireIPSlot(c) \/ UpgradeFails(c)
        BY <1>0, <4>1 DEF AcquireIPSlot, UpgradeFails, HandlerStages, dbVars
      <4>2. CASE Attach(c)
        BY <1>0, <4>2 DEF Attach, HandlerStages, dbVars
      <4>3. CASE ClaimRegistration(c) \/ SendRegistration(c) \/ AbortRegistration(c)
        BY <1>0, <4>3 DEF ClaimRegistration, SendRegistration, AbortRegistration, HandlerStages,
                          dbVars
      <4> QED
        BY <1>1, <2>2, <4>1, <4>2, <4>3 DEF Handler
    <3>2. join[c] = "none"
      BY <3>1 DEF LifeInv
    <3>3. \A d \in Conns : (Unsettled(d) => Unsettled(d)') /\ (OwesRow(d) => OwesRow(d)')
      BY <1>0, <3>1, <3>2
    <3> QED
      BY <1>a, <3>1, <3>3
  <2> QED
    BY <2>1, <2>2
<1>2. ASSUME NEW c \in Conns, Reader(c) PROVE PresenceInv'
  <2>1. CASE ReadFails(c) \/ Unregister(c) \/ UnregisterFromDeadHub(c)
    <3>1. /\ UNCHANGED <<join, listeners, listen>>
          /\ \A d \in Conns \ {c} : stage'[d] = stage[d]
          /\ stage[c] \in {"open", "leaving"} /\ stage'[c] \in {"leaving", "barrier", "stranded"}
      BY <1>0, <2>1 DEF ReadFails, Unregister, UnregisterFromDeadHub, dbVars
    <3>2. \A d \in Conns : (Unsettled(d) => Unsettled(d)') /\ (OwesRow(d) => OwesRow(d)')
      BY <1>0, <3>1
    <3> QED
      BY <1>a, <3>1, <3>2
  <2>2. ASSUME NEW on \in BOOLEAN, SendMic(c, on) PROVE PresenceInv'
    BY <1>a, <2>2 DEF SendMic, connVars, dbVars
  <2> QED
    BY <1>2, <2>1, <2>2 DEF Reader
<1>3. ASSUME NEW c \in Conns, OnRegister(c) PROVE PresenceInv'
  <2>0. /\ UNCHANGED stage /\ join[c] \in {"add", "stale", "listen", "replay"}
        /\ \A d \in Conns \ {c} : join'[d] = join[d]
        /\ join'[c] \in {"stale", "listen", "replay", "done"}
        /\ join[c] = "replay" => join'[c] = "done"
    BY <1>0, <1>3 DEF OnRegister, AddListener, EndStaleListenEvents, StartListenEvent, FinishJoin
  <2>1. stage[c] \in {"open", "leaving", "barrier", "stranded"}
    BY <2>0 DEF LifeInv
  <2>2. \A d \in Conns : (Unsettled(d) => Unsettled(d)') /\ (OwesRow(d) => OwesRow(d)')
    BY <1>0, <2>0, <2>1
  <2>3. Unsettled(c)'
    BY <1>0, <2>0, <2>1
  <2>4. CASE AddListener(c)
    <3>1. listeners' = listeners \cup {SessionOf[c]} /\ listen' = listen
      BY <2>4 DEF AddListener, Written
    <3> QED
      BY <2>2, <2>3, <3>1
  <2>5. CASE EndStaleListenEvents(c)
    <3>1. /\ listeners' = listeners
          /\ \A s \in Sessions : listen'[s] = listen[s] \/ listen'[s] = Ended
      BY <1>0, <2>5 DEF EndStaleListenEvents, Written
    <3> QED
      BY <1>0, <1>a, <2>2, <3>1
  <2>6. CASE StartListenEvent(c)
    <3>1. /\ listeners' = listeners
          /\ \A s \in Sessions \ {SessionOf[c]} : listen'[s] = listen[s]
      BY <1>0, <2>6 DEF StartListenEvent, Written
    <3>2. OwesRow(c)'
      <4>1. join[c] = "listen" /\ join'[c] = "replay"
        BY <1>0, <2>6 DEF StartListenEvent
      <4>2. UserOf[c] # Nobody
        BY <4>1 DEF LifeInv
      <4> QED
        BY <2>3, <4>1, <4>2
    <3>3. ASSUME NEW s \in Sessions, listen'[s] \in Users \ {Nobody}
          PROVE  \E d \in Conns : SessionOf[d] = s /\ OwesRow(d)'
      <4>1. CASE s = SessionOf[c]
        BY <3>2, <4>1
      <4>2. CASE s # SessionOf[c]
        BY <2>2, <3>1, <3>3, <4>2
      <4> QED
        BY <4>1, <4>2
    <3> QED
      BY <2>2, <3>1, <3>3
  <2>7. CASE FinishJoin(c)
    BY <1>a, <2>2, <2>7 DEF FinishJoin, dbVars
  <2> QED
    BY <1>3, <2>4, <2>5, <2>6, <2>7 DEF OnRegister
<1>4. ASSUME NEW c \in Conns, OnUnregister(c) PROVE PresenceInv'
  <2>0. join' = join /\ \A d \in Conns \ {c} : stage'[d] = stage[d]
    <3>1. CASE PassBarrier(c) \/ RemoveListener(c) \/ EndListenEvent(c) \/ ClearOwnedMic(c)
               \/ CheckEverLive(c) \/ DeleteRoom(c) \/ ClearListeners(c) \/ CheckEmpty(c)
               \/ LookupRoom(c)
      BY <1>0, <3>1 DEF PassBarrier, RemoveListener, EndListenEvent, ClearOwnedMic, CheckEverLive,
                        DeleteRoom, ClearListeners, CheckEmpty, LookupRoom
    <3>2. CASE DecideIdle(c) \/ EnterStop(c) \/ CloseQuit(c) \/ RemoveHub(c)
      BY <1>0, <3>2 DEF DecideIdle, EnterStop, CloseQuit, RemoveHub
    <3> QED
      BY <1>4, <3>1, <3>2 DEF OnUnregister
  <2>1. CASE PassBarrier(c)
    <3>1. /\ stage[c] = "barrier" /\ stage'[c] = "remove" /\ UNCHANGED <<listeners, listen>>
      BY <1>0, <2>1 DEF PassBarrier, dbVars
    <3>2. \A d \in Conns : (Unsettled(d) => Unsettled(d)') /\ (OwesRow(d) => OwesRow(d)')
      BY <1>0, <2>0, <3>1
    <3> QED
      BY <1>a, <3>1, <3>2
  <2>2. CASE RemoveListener(c)
    <3>1. /\ stage[c] = "remove" /\ listeners' = listeners \ {SessionOf[c]} /\ listen' = listen
          /\ UserOf[c] # Nobody => stage'[c] = "unlisten"
      BY <1>0, <2>2 DEF RemoveListener, Written
    <3>2. \A d \in Conns : /\ d # c /\ Unsettled(d) => Unsettled(d)'
                           /\ OwesRow(d) => OwesRow(d)'
      BY <1>0, <2>0, <3>1
    <3>3. \A s \in listeners' : \E d \in Conns : SessionOf[d] = s /\ Unsettled(d)'
      BY <3>1, <3>2
    <3> QED
      BY <3>1, <3>2, <3>3
  <2>3. CASE EndListenEvent(c)
    <3>1. /\ stage[c] = "unlisten" /\ listeners' = listeners
          /\ \A s \in Sessions \ {SessionOf[c]} : listen'[s] = listen[s]
          /\ SessionOf[c] \in Sessions /\ listen'[SessionOf[c]] \in {Nobody, Ended}
      BY <1>0, <2>3 DEF EndListenEvent, Written, Sessions
    <3>2. \A d \in Conns : d # c => /\ Unsettled(d) => Unsettled(d)'
                                    /\ OwesRow(d) => OwesRow(d)'
      BY <1>0, <2>0
    <3>3. ~ Unsettled(c)
      BY <3>1
    <3>4. ASSUME NEW s \in Sessions, listen'[s] \in Users \ {Nobody}
          PROVE  \E d \in Conns : SessionOf[d] = s /\ OwesRow(d)'
      <4>1. s # SessionOf[c] /\ listen[s] \in Users \ {Nobody}
        BY <1>0, <3>1, <3>4
      <4> QED
        BY <3>2, <4>1
    <3> QED
      BY <3>1, <3>2, <3>3, <3>4
  <2>4. CASE ClearOwnedMic(c) \/ CheckEverLive(c) \/ CheckEmpty(c) \/ LookupRoom(c)
             \/ DecideIdle(c) \/ EnterStop(c) \/ CloseQuit(c) \/ RemoveHub(c)
             \/ DeleteRoom(c) \/ ClearListeners(c)
    <3>1. stage[c] \in LeaveStages \ {"barrier", "remove", "unlisten"}
      BY <2>4 DEF ClearOwnedMic, CheckEverLive, CheckEmpty, LookupRoom, DecideIdle, EnterStop,
                  CloseQuit, RemoveHub, DeleteRoom, ClearListeners, LeaveStages
    <3>2. /\ listeners' \subseteq listeners
          /\ listen' = listen \/ listen' = [s \in Sessions |-> Nobody]
      BY <2>4 DEF ClearOwnedMic, CheckEverLive, CheckEmpty, LookupRoom, DecideIdle, EnterStop,
                  CloseQuit, RemoveHub, DeleteRoom, ClearListeners, Written, dbVars
    <3>3. \A d \in Conns : (Unsettled(d) => Unsettled(d)') /\ (OwesRow(d) => OwesRow(d)')
      BY <1>0, <2>0, <3>1 DEF LeaveStages
    <3> QED
      BY <1>a, <3>2, <3>3
  <2> QED
    BY <1>4, <2>1, <2>2, <2>3, <2>4 DEF OnUnregister
<1>5. ASSUME NEW h \in Hubs, Run(h) \/ HandleMic(h) PROVE PresenceInv'
  <2>1. CASE HandleRegister(h)
    <3>1. /\ hand[h] \in Conns /\ UNCHANGED <<stage, listeners, listen>>
          /\ \A d \in Conns \ {hand[h]} : join'[d] = join[d]
      BY <1>0, <2>1 DEF HandleRegister, dbVars
    <3>2. join[hand[h]] = "none"
      BY <1>0, <3>1 DEF LifeInv
    <3>3. \A d \in Conns : (Unsettled(d) => Unsettled(d)') /\ (OwesRow(d) => OwesRow(d)')
      BY <1>0, <3>1, <3>2
    <3> QED
      BY <1>a, <3>1, <3>3
  <2>2. CASE ~ HandleRegister(h)
    <3>1. UNCHANGED <<stage, join, listeners, listen>>
      BY <1>5, <2>2 DEF Run, RunReturns, Evict, HandleMic, connVars, dbVars
    <3> QED
      BY <1>a, <3>1
  <2> QED
    BY <2>1, <2>2
<1>6. CASE RoomLife \/ UNCHANGED vars
  <2>1. UNCHANGED <<stage, join, listen>> /\ listeners' \subseteq listeners
    BY <1>6 DEF RoomLife, CleanupGhostRooms, GoLive, EndRoom, EndRoomClearsListeners, Written,
                connVars, dbVars, vars
  <2> QED
    BY <1>a, <2>1
<1> QED
  BY <1>1, <1>2, <1>3, <1>4, <1>5, <1>6 DEF Next

\* As long as Redis and Postgres answer, every session that is counted as listening and every
\* listen row left open belongs to a connection that has still to take it back: the registered
\* barrier keeps onUnregister behind the writes of onRegister.
THEOREM PresenceIsSettled ==
  ASSUME StoreFails = FALSE
  PROVE  Spec => []PresenceSettles
<1>1. Init => PresenceInv
  BY DEF Init, PresenceInv
<1>2. TypeOK /\ HubAssigned /\ LifeInv /\ PresenceInv /\ [Next]_vars => LifeInv' /\ PresenceInv'
  BY LifeStep, PresenceStep
<1>3. PresenceInv => PresenceSettles
  BY DEF PresenceInv, OwesRow, PresenceSettles
<1> QED
  BY <1>1, <1>2, <1>3, LifeInit, TypeCorrect, PTL DEF Spec

-----------------------------------------------------------------------------
(***************************************************************************)
(* The hub implements the service of Service.tla.  A generation that has   *)
(* not committed to stopping is the registered one, so what a goroutine    *)
(* does to any other is not seen at the door; and one that was never       *)
(* started has nobody, so that a fresh hub opens empty.                    *)
(***************************************************************************)
ServiceInv == StopInv /\ RegsInv /\ LifeInv /\ IdleInv /\ (StoreFails \/ StopCause)

LEMMA OnlyTheServing ==
  ASSUME TypeOK, HubAssigned, ServiceInv, NEW h \in Hubs
  PROVE  /\ h \in started /\ h \notin stopping => hub = h
         /\ h \notin started => h \notin stopping /\ members[h] = {} /\ InFlight(h) = {}
         /\ hand[h] # NoConn => h \in started
         /\ \A c \in Conns : hand[h] = c => stage[c] \notin HandlerStages
<1> USE DEF ServiceInv, StopInv, RegsInv
<1>1. \A c \in Conns : ReadsFrom(c, h) \/ (hubOf[c] = h /\ stage[c] = "sending") => h \in started
  BY DEF ReadsFrom, HubStarted, Detached
<1>2. h \in started /\ h \notin stopping => hub = h
  BY DEF StopOrder, OneServingHub
<1>3. members[h] \subseteq Conns /\ hand[h] \in Conns \cup {NoConn} /\ NoConn \notin Conns
  BY ConstantsOK DEF TypeOK
<1>4. \A c \in members[h] : ReadsFrom(c, h)
  BY DEF LifeInv
<1>5. hand[h] # NoConn => ReadsFrom(hand[h], h)
  BY DEF LifeInv
<1>6. \A c \in Conns : hand[h] = c => stage[c] \notin HandlerStages
  BY <1>3, <1>5 DEF ReadsFrom, HandlerStages
<1>7. \A c \in InFlight(h) : ReadsFrom(c, h) \/ (hubOf[c] = h /\ stage[c] = "sending")
  BY <1>3, <1>5 DEF InFlight
<1>8. InFlight(h) \subseteq Conns
  BY DEF InFlight
<1>9. h \notin started => h \notin stopping
  BY DEF IdleInv
<1> QED
  BY <1>1, <1>2, <1>3, <1>4, <1>5, <1>6, <1>7, <1>8, <1>9

\* A step that changes nobody's registration is not seen, or is the deletion of the room.
LEMMA Unseen ==
  ASSUME TypeOK, [Next]_vars, UNCHANGED <<hub, started, Expected, Attended>>,
         (hub \in stopping)' = (hub \in stopping)
  PROVE  [Door!Next]_(Door!vars)
<1>1. Condemned => Condemned'
  BY DeletedForever DEF Condemned
<1>2. Condemned \in BOOLEAN /\ Condemned' \in BOOLEAN
  BY ConstantsOK DEF Condemned
<1>3. Condemned' = Condemned \/ Condemned' = TRUE
  BY <1>1, <1>2
<1>4. CASE Condemned' = Condemned
  BY <1>4 DEF Door!vars
<1>5. CASE Condemned' = TRUE
  BY <1>5 DEF Door!Next, Door!Delete
<1> QED
  BY <1>3, <1>4, <1>5

\* But for the Register case, Clients of one hub lose one client at a time.
LEMMA MembersShrink ==
  ASSUME TypeOK, [Next]_vars
  PROVE  \/ UNCHANGED members
         \/ \E h \in Hubs : HandleRegister(h)
         \/ /\ UNCHANGED room
            /\ \E c \in Conns, h \in Hubs : members' = [members EXCEPT ![h] = @ \ {c}]
<1>1. ASSUME NEW c \in Conns, Handler(c) PROVE UNCHANGED members
  BY <1>1 DEF Handler, AcquireIPSlot, UpgradeFails, Attach, ClaimRegistration, SendRegistration,
              AbortRegistration, ReleaseOnDone, hubVars
<1>2. ASSUME NEW c \in Conns, Reader(c)
      PROVE  \/ UNCHANGED members
             \/ /\ UNCHANGED room
                /\ \E h \in Hubs : members' = [members EXCEPT ![h] = @ \ {c}]
  <2>1. CASE ReadFails(c) \/ UnregisterFromDeadHub(c) \/ \E on \in BOOLEAN : SendMic(c, on)
    BY <2>1 DEF ReadFails, UnregisterFromDeadHub, SendMic, hubVars
  <2>2. CASE Unregister(c)
    BY <2>2 DEF Unregister, Selecting, TypeOK, dbVars
  <2> QED
    BY <1>2, <2>1, <2>2 DEF Reader
<1>3. ASSUME NEW c \in Conns, OnRegister(c) PROVE UNCHANGED members
  BY <1>3 DEF OnRegister, AddListener, EndStaleListenEvents, StartListenEvent, FinishJoin, hubVars
<1>4. ASSUME NEW c \in Conns, OnUnregister(c) PROVE UNCHANGED members
  BY <1>4 DEF OnUnregister, PassBarrier, RemoveListener, EndListenEvent, ClearOwnedMic,
              CheckEverLive, DeleteRoom, ClearListeners, CheckEmpty, LookupRoom, DecideIdle,
              EnterStop, CloseQuit, RemoveHub, hubVars
<1>5. ASSUME NEW h \in Hubs, Run(h) \/ HandleMic(h), ~HandleRegister(h)
      PROVE  \/ UNCHANGED members
             \/ /\ UNCHANGED room
                /\ \E c \in Conns : members' = [members EXCEPT ![h] = @ \ {c}]
  BY <1>5 DEF Run, RunReturns, Evict, HandleMic, hubVars, dbVars
<1>6. CASE RoomLife \/ UNCHANGED vars
  BY <1>6 DEF RoomLife, GoLive, EndRoom, EndRoomClearsListeners, CleanupGhostRooms, vars, hubVars
<1> QED
  BY <1>1, <1>2, <1>3, <1>4, <1>5, <1>6 DEF Next

LEMMA QuietService ==
  ASSUME TypeOK, [Next]_vars, Quiet
  PROVE  [Door!Next]_(Door!vars) \/ \E h \in Hubs : HandleRegister(h)
<1>1. hub \in Hubs \cup {NoHub} /\ members \in [Hubs -> SUBSET Conns] /\ NoHub \notin Hubs
  BY ConstantsOK DEF TypeOK
<1>2. UNCHANGED <<hub, started, stopping, hand, hubOf>>
  BY DEF Quiet
<1>3. UNCHANGED Expected
  <2>1. \A d \in Conns : stage'[d] = "sending" <=> stage[d] = "sending"
    BY DEF Quiet, Critical
  <2> QED
    BY <1>2, <2>1 DEF Expected, InFlight
<1>4. CASE UNCHANGED members
  BY <1>2, <1>3, <1>4, Unseen DEF Attended
<1>5. ASSUME UNCHANGED room, NEW c \in Conns, NEW h \in Hubs, members' = [members EXCEPT ![h] = @ \ {c}]
      PROVE  [Door!Next]_(Door!vars)
  <2>1. CASE h = hub /\ c \in members[h]
    <3>1. hub # NoHub /\ members'[hub] = members[hub] \ {c} /\ Condemned' = Condemned
      BY <1>1, <1>5, <2>1 DEF Condemned
    <3>2. c \in Attended /\ Attended' = Attended \ {c}
      BY <1>2, <2>1, <3>1 DEF Attended
    <3>3. Door!Leave(c)
      BY <1>2, <1>3, <3>1, <3>2 DEF Door!Leave
    <3> QED
      BY <3>3 DEF Door!Next
  <2>2. CASE ~(h = hub /\ c \in members[h])
    <3>1. UNCHANGED Attended
      BY <1>1, <1>2, <1>5, <2>2 DEF Attended
    <3> QED
      BY <1>2, <1>3, <3>1, Unseen
  <2> QED
    BY <2>1, <2>2
<1> QED
  BY <1>4, <1>5, MembersShrink

\* What a hub handler or a leaving goroutine does is seen only at the serving hub.
LEMMA AttachService ==
  ASSUME TypeOK, HubAssigned, ServiceInv, [Next]_vars, NEW c \in Conns, Attach(c)
  PROVE  [Door!Next]_(Door!vars)
<1>0. /\ stage \in [Conns -> Stages] /\ hubOf \in [Conns -> Hubs \cup {NoHub}]
      /\ hub \in Hubs \cup {NoHub} /\ NoHub \notin Hubs
  BY ConstantsOK DEF TypeOK
<1>1. /\ stage[c] = "slotted" /\ UNCHANGED <<stopping, hand, members, room>>
      /\ \A d \in Conns \ {c} : stage'[d] = stage[d] /\ hubOf'[d] = hubOf[d]
      /\ stage'[c] # "sending"
  BY <1>0 DEF Attach, Goto, dbVars
<1>2. \A h \in Hubs : hand[h] # c
  BY <1>1, OnlyTheServing DEF HandlerStages
<1>3. \A h \in Hubs : InFlight(h)' = InFlight(h)
  BY <1>0, <1>1, <1>2 DEF InFlight
<1>4. PICK h \in Hubs : GetOrCreate(h)
  BY DEF Attach
<1>5. CASE UNCHANGED <<hub, started>>
  <2>1. UNCHANGED Expected
    BY <1>0, <1>3, <1>5 DEF Expected
  <2>2. UNCHANGED Attended
    BY <1>1, <1>5 DEF Attended
  <2> QED
    BY <1>1, <1>5, <2>1, <2>2, Unseen
<1>6. CASE hub = NoHub /\ h \notin started /\ hub' = h /\ started' = started \cup {h}
  <2>1. h \notin stopping /\ members[h] = {} /\ InFlight(h) = {} /\ hub \notin stopping
    BY <1>0, <1>6, OnlyTheServing DEF TypeOK
  <2>2. Expected' = {} /\ Expected = {}
    BY <1>0, <1>3, <1>6, <2>1 DEF Expected
  <2>3. Attended' = {} /\ Attended = {}
    BY <1>0, <1>1, <1>6, <2>1 DEF Attended
  <2>4. UNCHANGED Condemned
    BY <1>1 DEF Condemned
  <2>5. Door!Open(h)
    BY <1>1, <1>6, <2>1, <2>2, <2>3, <2>4 DEF Door!Open
  <2> QED
    BY <2>5 DEF Door!Next
<1> QED
  BY <1>4, <1>5, <1>6 DEF GetOrCreate

LEMMA ClaimService ==
  ASSUME TypeOK, HubAssigned, ServiceInv, [Next]_vars, NEW c \in Conns, ClaimRegistration(c)
  PROVE  [Door!Next]_(Door!vars)
<1>0. /\ stage \in [Conns -> Stages] /\ hub \in Hubs \cup {NoHub} /\ NoHub \notin Hubs
  BY ConstantsOK DEF TypeOK
<1>1. /\ stage[c] = "admitted" /\ hubOf[c] \in Hubs
      /\ UNCHANGED <<hub, started, stopping, hand, hubOf, members, room>>
      /\ \A d \in Conns \ {c} : stage'[d] = stage[d]
  BY <1>0 DEF ClaimRegistration, Goto, dbVars, HubAssigned
<1>2. \A h \in Hubs : hand[h] # c
  BY <1>1, OnlyTheServing DEF HandlerStages
<1>3. UNCHANGED Attended /\ UNCHANGED Condemned
  BY <1>1 DEF Attended, Condemned
<1>4. CASE hubOf[c] \in stopping
  <2>1. stage'[c] = "gone"
    BY <1>0, <1>4 DEF ClaimRegistration, Goto
  <2>2. \A h \in Hubs : InFlight(h)' = InFlight(h)
    BY <1>1, <1>2, <2>1 DEF InFlight
  <2>3. UNCHANGED Expected
    BY <1>0, <1>1, <2>2 DEF Expected
  <2> QED
    BY <1>1, <1>3, <2>3, Unseen
<1>5. CASE hubOf[c] \notin stopping
  <2>1. stage'[c] = "sending"
    BY <1>0, <1>5 DEF ClaimRegistration, Goto
  <2>2. hubOf[c] \in started /\ hub = hubOf[c]
    <3>1. hubOf[c] \in started
      BY <1>1 DEF ServiceInv, StopInv, HubStarted, Detached
    <3> QED
      BY <1>1, <1>5, <3>1, OnlyTheServing
  <2>3. InFlight(hub)' = InFlight(hub) \cup {c}
    BY <1>1, <1>2, <2>1, <2>2 DEF InFlight
  <2>4. c \notin InFlight(hub) /\ c \notin members[hub]
    BY <1>1, <1>2, <2>2 DEF InFlight, ServiceInv, LifeInv, ReadsFrom
  <2>5. hub # NoHub /\ hub \notin stopping
    BY <1>0, <1>1, <1>5, <2>2
  <2>6. c \notin Expected \cup Attended /\ Expected' = Expected \cup {c}
    BY <1>1, <2>3, <2>4, <2>5 DEF Expected, Attended
  <2>7. Door!Promise(c)
    BY <1>1, <1>3, <2>5, <2>6 DEF Door!Promise
  <2> QED
    BY <2>7 DEF Door!Next
<1> QED
  BY <1>4, <1>5

LEMMA SendService ==
  ASSUME TypeOK, HubAssigned, ServiceInv, [Next]_vars, NEW c \in Conns, SendRegistration(c)
  PROVE  [Door!Next]_(Door!vars)
<1>0. /\ stage \in [Conns -> Stages] /\ hub \in Hubs \cup {NoHub} /\ NoHub \notin Hubs
      /\ hand \in [Hubs -> Conns \cup {NoConn}] /\ NoConn \notin Conns
  BY ConstantsOK DEF TypeOK
<1>1. /\ stage[c] = "sending" /\ hubOf[c] \in Hubs /\ hand[hubOf[c]] = NoConn
      /\ hand' = [hand EXCEPT ![hubOf[c]] = c]
      /\ UNCHANGED <<hub, started, stopping, hubOf, members, room>>
  BY DEF SendRegistration, Selecting, dbVars, HubAssigned
<1>2. /\ stage'[c] = "open" /\ \A d \in Conns \ {c} : stage'[d] = stage[d]
  BY <1>0 DEF SendRegistration, Goto
<1>3. \A h \in Hubs : hand[h] # c
  BY <1>1, OnlyTheServing DEF HandlerStages
<1>4. \A h \in Hubs : InFlight(h)' = InFlight(h)
  BY <1>0, <1>1, <1>2, <1>3 DEF InFlight
<1>5. UNCHANGED <<Expected, Attended>>
  <2>1. UNCHANGED Expected
    BY <1>0, <1>1, <1>4 DEF Expected
  <2>2. UNCHANGED Attended
    BY <1>1 DEF Attended
  <2> QED
    BY <2>1, <2>2
<1> QED
  BY <1>1, <1>5, Unseen

LEMMA AbortService ==
  ASSUME TypeOK, HubAssigned, ServiceInv, [Next]_vars, NEW c \in Conns, AbortRegistration(c)
  PROVE  [Door!Next]_(Door!vars)
<1>0. /\ stage \in [Conns -> Stages] /\ hub \in Hubs \cup {NoHub} /\ NoHub \notin Hubs
  BY ConstantsOK DEF TypeOK
<1>1. /\ stage[c] = "sending" /\ hubOf[c] \in Hubs /\ hubOf[c] \in quit
      /\ UNCHANGED <<hub, started, stopping, hand, hubOf, members, room>>
  BY DEF AbortRegistration, dbVars, HubAssigned
<1>2. stage'[c] = "gone" /\ \A d \in Conns \ {c} : stage'[d] = stage[d]
  BY <1>0 DEF AbortRegistration, Goto
<1>3. \A h \in Hubs : hand[h] # c
  BY <1>1, OnlyTheServing DEF HandlerStages
<1>4. UNCHANGED Attended /\ UNCHANGED Condemned
  BY <1>1 DEF Attended, Condemned
<1>5. CASE hub = hubOf[c]
  <2>1. hub \in stopping /\ hub # NoHub
    BY <1>0, <1>1, <1>5 DEF ServiceInv, StopInv, StopOrder
  <2>2. c \in InFlight(hub) /\ InFlight(hub)' = InFlight(hub) \ {c}
    BY <1>1, <1>2, <1>3, <1>5 DEF InFlight
  <2>3. c \in Expected /\ Expected' = Expected \ {c}
    BY <1>1, <2>1, <2>2 DEF Expected
  <2>4. Door!TurnAway(c)
    BY <1>1, <1>4, <2>1, <2>3 DEF Door!TurnAway
  <2> QED
    BY <2>4 DEF Door!Next
<1>6. CASE hub # hubOf[c]
  <2>1. UNCHANGED Expected
    BY <1>0, <1>1, <1>2, <1>3, <1>6 DEF Expected, InFlight
  <2> QED
    BY <1>1, <1>4, <2>1, Unseen
<1> QED
  BY <1>5, <1>6

LEMMA StopService ==
  ASSUME TypeOK, HubAssigned, ServiceInv, [Next]_vars, NEW c \in Conns,
         DecideIdle(c) \/ EnterStop(c) \/ CloseQuit(c)
  PROVE  [Door!Next]_(Door!vars)
<1>0. /\ stage \in [Conns -> Stages] /\ hub \in Hubs \cup {NoHub} /\ NoHub \notin Hubs
  BY ConstantsOK DEF TypeOK
<1>1. /\ hubOf[c] \in Hubs /\ hubOf[c] \in started
      /\ UNCHANGED <<hub, started, hand, hubOf, members, room>>
      /\ stage[c] # "sending"
  BY DEF DecideIdle, EnterStop, CloseQuit, dbVars, HubAssigned, ServiceInv, StopInv, HubStarted,
         Detached
<1>2. stage'[c] # "sending" /\ \A d \in Conns \ {c} : stage'[d] = stage[d]
  BY <1>0 DEF DecideIdle, EnterStop, CloseQuit, Goto
<1>3. \A h \in Hubs : InFlight(h)' = InFlight(h)
  BY <1>1, <1>2 DEF InFlight
<1>4. UNCHANGED Expected
  BY <1>0, <1>1, <1>3 DEF Expected
<1>5. UNCHANGED Attended /\ UNCHANGED Condemned
  BY <1>1 DEF Attended, Condemned
<1>6. CASE UNCHANGED stopping
  BY <1>1, <1>4, <1>5, <1>6, Unseen
<1>7. CASE hubOf[c] \in stopping /\ stopping' = stopping \cup {hubOf[c]}
  <2>1. UNCHANGED stopping
    BY <1>7
  <2> QED
    BY <1>6, <2>1
<1>8. ASSUME hubOf[c] \notin stopping, stopping' = stopping \cup {hubOf[c]},
             (Expected = {} /\ Attended = {}) \/ Condemned
      PROVE  [Door!Next]_(Door!vars)
  <2>1. hub = hubOf[c] /\ hub # NoHub /\ hub \notin stopping /\ hub' \in stopping'
    BY <1>0, <1>1, <1>8, OnlyTheServing
  <2>2. Door!DecideToClose
    BY <1>1, <1>4, <1>5, <1>8, <2>1 DEF Door!DecideToClose
  <2> QED
    BY <2>2 DEF Door!Next
<1>9. CASE DecideIdle(c)
  <2>1. \/ UNCHANGED stopping
        \/ /\ stopping' = stopping \cup {hubOf[c]}
           /\ members[hubOf[c]] = {} /\ pendingRegs[hubOf[c]] = 0
    BY <1>9 DEF DecideIdle
  <2>2. ASSUME members[hubOf[c]] = {}, pendingRegs[hubOf[c]] = 0, hubOf[c] \notin stopping
        PROVE  Expected = {} /\ Attended = {}
    <3>1. InFlight(hubOf[c]) = {}
      BY <1>1, <2>2, InFlightFinite, FS_EmptySet DEF ServiceInv, RegsInv, PendingRegsExact
    <3>2. hub = hubOf[c]
      BY <1>1, <2>2, OnlyTheServing
    <3> QED
      BY <2>2, <3>1, <3>2 DEF Expected, Attended
  <2> QED
    BY <1>6, <1>7, <1>8, <2>1, <2>2
<1>10. CASE EnterStop(c)
  <2>1. UNCHANGED stopping \/ stopping' = stopping \cup {hubOf[c]}
    BY <1>10 DEF EnterStop
  <2>2. hubOf[c] \notin stopping => Condemned
    BY <1>10, ConstantsOK DEF EnterStop, ServiceInv, StopCause, Condemned
  <2> QED
    BY <1>6, <1>7, <1>8, <2>1, <2>2
<1>11. CASE CloseQuit(c)
  BY <1>6, <1>11 DEF CloseQuit
<1> QED
  BY <1>9, <1>10, <1>11

LEMMA RemoveService ==
  ASSUME TypeOK, HubAssigned, ServiceInv, NEW c \in Conns, RemoveHub(c)
  PROVE  [Door!Next]_(Door!vars)
<1>1. hub \in stopping /\ hub' = NoHub /\ UNCHANGED <<started, stopping, room>>
  BY DEF RemoveHub, ServiceInv, StopInv, AfterQuit, StopOrder, dbVars
<1>2. NoHub \notin stopping
  BY ConstantsOK DEF TypeOK
<1>3. Expected' = {} /\ Attended' = {} /\ Condemned' = Condemned
  BY <1>1 DEF Expected, Attended, Condemned
<1>4. Door!Close
  BY <1>1, <1>2, <1>3 DEF Door!Close
<1> QED
  BY <1>4 DEF Door!Next

LEMMA RegisterService ==
  ASSUME TypeOK, HubAssigned, ServiceInv, [Next]_vars, NEW h \in Hubs, HandleRegister(h)
  PROVE  [Door!Next]_(Door!vars)
<1> DEFINE c == hand[h]
<1>0. /\ hub \in Hubs \cup {NoHub} /\ NoHub \notin Hubs /\ members \in [Hubs -> SUBSET Conns]
      /\ hand \in [Hubs -> Conns \cup {NoConn}] /\ NoConn \notin Conns
  BY ConstantsOK DEF TypeOK
<1>1. /\ c \in Conns /\ hand' = [hand EXCEPT ![h] = NoConn]
      /\ UNCHANGED <<hub, started, stopping, hubOf, stage, room>>
  BY <1>0 DEF HandleRegister, dbVars
<1>2. hubOf[c] = h /\ stage[c] # "sending" /\ h \in started
  BY <1>0, <1>1, OnlyTheServing DEF ServiceInv, LifeInv, ReadsFrom
<1>3. \A g \in Hubs \ {h} : InFlight(g)' = InFlight(g)
  BY <1>0, <1>1 DEF InFlight
<1>4. c \in InFlight(h) /\ InFlight(h)' = InFlight(h) \ {c}
  BY <1>0, <1>1, <1>2 DEF InFlight
<1>5. Condemned' = Condemned
  BY <1>1 DEF Condemned
<1>6. CASE h \in stopping
  <2>1. UNCHANGED members
    BY <1>6 DEF HandleRegister
  <2>2. UNCHANGED Attended
    BY <1>1, <2>1 DEF Attended
  <2>3. CASE hub = h
    <3>1. c \in Expected /\ Expected' = Expected \ {c}
      BY <1>0, <1>1, <1>4, <2>3 DEF Expected
    <3>2. Door!TurnAway(c)
      BY <1>1, <1>5, <1>6, <2>2, <2>3, <3>1 DEF Door!TurnAway
    <3> QED
      BY <1>1, <3>2 DEF Door!Next
  <2>4. CASE hub # h
    <3>1. UNCHANGED Expected
      BY <1>0, <1>1, <1>3, <2>4 DEF Expected
    <3> QED
      BY <1>1, <2>2, <3>1, Unseen
  <2> QED
    BY <2>3, <2>4
<1>7. CASE h \notin stopping
  <2>1. members' = [members EXCEPT ![h] = @ \cup {c}]
    BY <1>7 DEF HandleRegister
  <2>2. hub = h
    BY <1>2, <1>7, OnlyTheServing
  <2>3. c \in Expected /\ Expected' = Expected \ {c}
    BY <1>0, <1>1, <1>4, <2>2 DEF Expected
  <2>4. Attended' = Attended \cup {c}
    BY <1>0, <1>1, <2>1, <2>2 DEF Attended
  <2>5. Door!Admit(c)
    BY <1>1, <1>5, <1>7, <2>2, <2>3, <2>4 DEF Door!Admit
  <2> QED
    BY <1>1, <2>5 DEF Door!Next
<1> QED
  BY <1>6, <1>7

LEMMA ServiceStep ==
  ASSUME TypeOK, HubAssigned, ServiceInv, [Next]_vars
  PROVE  [Door!Next]_(Door!vars)
<1>1. ASSUME NEW c \in Conns, Loud(c) PROVE [Door!Next]_(Door!vars)
  BY <1>1, AttachService, ClaimService, SendService, AbortService, StopService, RemoveService
     DEF Loud
<1> QED
  BY <1>1, StepKinds, QuietService, RegisterService

LEMMA ServiceInit == Init => Door!Init
<1> SUFFICES ASSUME Init PROVE Door!Init
  OBVIOUS
<1>1. hub = NoHub /\ started = {} /\ NoHub \notin stopping
  BY DEF Init
<1>2. Expected = {} /\ Attended = {} /\ Condemned \in BOOLEAN
  BY <1>1, ConstantsOK DEF Expected, Attended, Condemned
<1> QED
  BY <1>1, <1>2 DEF Door!Init

\* The hub keeps the promises of Service.tla: whatever its loop, the handlers and the leaving
\* goroutines interleave, nobody whom RegisterClient has counted is turned away and no client
\* is shut out but by the deletion of the room (or a store that may fail), and generations
\* of the hub follow one another without overlapping.
THEOREM ServiceKept == Spec => KeepsTheService
<1>1. Init => ServiceInv
  <2>1. Init => IdleInv /\ StopCause
    BY DEF Init, IdleInv, StopCause
  <2> QED
    BY <2>1, StopInvInit, RegsInvInit, LifeInit DEF ServiceInv
<1>2. TypeOK /\ TypeOK' /\ HubAssigned /\ ServiceInv /\ [Next]_vars => ServiceInv'
  <2> SUFFICES ASSUME TypeOK, TypeOK', HubAssigned, ServiceInv, [Next]_vars PROVE ServiceInv'
    OBVIOUS
  <2>1. StopInv' /\ RegsInv' /\ LifeInv' /\ IdleInv'
    BY StopInvStep, RegsInvStep, LifeStep, IdleStep DEF TypeOK, ServiceInv
  <2>2. StoreFails \/ StopCause'
    BY ConstantsOK, StopCauseStep DEF ServiceInv
  <2> QED
    BY <2>1, <2>2 DEF ServiceInv
<1>3. TypeOK /\ HubAssigned /\ ServiceInv /\ [Next]_vars => [Door!Next]_(Door!vars)
  BY ServiceStep
<1>4. Spec => Door!Init /\ [][Door!Next]_(Door!vars)
  BY <1>1, <1>2, <1>3, ServiceInit, TypeCorrect, PTL DEF Spec
<1> QED
  BY <1>4 DEF KeepsTheService, Door!Spec
=============================================================================
