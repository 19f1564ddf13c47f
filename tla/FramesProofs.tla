--------------------------- MODULE FramesProofs ---------------------------
(* Proofs about Frames, for every set of connections, messages and rooms,   *)
(* and every capacity of the Broadcast channel.                             *)
EXTENDS Frames, FiniteSetTheorems, TLAPS

-----------------------------------------------------------------------------
(* The channel: what it holds last of a kind, before and after a frame. *)

\* If q holds a frame of this kind, the last of them says value.
LastSays(q, kind, value) ==
    \A i \in DOMAIN q :
        q[i][1] = kind /\ (\A j \in DOMAIN q : j > i => q[j][1] # kind) => q[i][2] = value

Without(q, kind) == \A i \in DOMAIN q : q[i][1] # kind

\* A frame at the end is the last of its kind, and leaves the other kinds alone.
LEMMA AfterAppend ==
  ASSUME NEW S, NEW q \in Seq(S), NEW f \in S, NEW kind, NEW value
  PROVE  /\ f[1] = kind => LastSays(Append(q, f), kind, f[2]) /\ ~Without(Append(q, f), kind)
         /\ f[1] # kind /\ LastSays(q, kind, value) => LastSays(Append(q, f), kind, value)
         /\ Without(Append(q, f), kind) => Without(q, kind)
<1> DEFINE r == Append(q, f)
<1>1. /\ Len(q) \in Nat /\ DOMAIN q = 1..Len(q) /\ DOMAIN r = 1..(Len(q) + 1)
      /\ r[Len(q) + 1] = f /\ \A i \in 1..Len(q) : r[i] = q[i]
  OBVIOUS
<1> HIDE DEF r
<1>2. ASSUME f[1] = kind PROVE LastSays(r, kind, f[2]) /\ ~Without(r, kind)
  <2>1. ~Without(r, kind)
    BY <1>1, <1>2 DEF Without
  <2>2. ASSUME NEW i \in DOMAIN r, r[i][1] = kind, \A j \in DOMAIN r : j > i => r[j][1] # kind
        PROVE  r[i][2] = f[2]
    <3>1. ~(Len(q) + 1 > i)
      BY <1>1, <1>2, <2>2
    <3>2. i = Len(q) + 1
      BY <1>1, <3>1
    <3> QED
      BY <1>1, <3>2
  <2> QED
    BY <2>1, <2>2 DEF LastSays
<1>3. ASSUME f[1] # kind, LastSays(q, kind, value) PROVE LastSays(r, kind, value)
  <2>1. ASSUME NEW i \in DOMAIN r, r[i][1] = kind, \A j \in DOMAIN r : j > i => r[j][1] # kind
        PROVE  r[i][2] = value
    <3>1. i # Len(q) + 1
      BY <1>1, <1>3, <2>1
    <3>2. i \in DOMAIN q /\ r[i] = q[i]
      BY <1>1, <3>1
    <3>3. \A j \in DOMAIN q : j > i => q[j][1] # kind
      BY <1>1, <2>1
    <3> QED
      BY <1>3, <2>1, <3>2, <3>3 DEF LastSays
  <2> QED
    BY <2>1 DEF LastSays
<1>4. Without(r, kind) => Without(q, kind)
  BY <1>1 DEF Without
<1> QED
  BY <1>2, <1>3, <1>4 DEF r

\* Taking the first frame away leaves the last of each kind, unless it was the only one.
LEMMA AfterTail ==
  ASSUME NEW S, NEW q \in Seq(S), q # <<>>, NEW kind, NEW value, LastSays(q, kind, value)
  PROVE  /\ LastSays(Tail(q), kind, value)
         /\ Without(Tail(q), kind) =>
               IF Head(q)[1] = kind THEN Head(q)[2] = value ELSE Without(q, kind)
<1> DEFINE r == Tail(q)
<1>1. /\ Len(q) \in Nat \ {0} /\ DOMAIN q = 1..Len(q) /\ DOMAIN r = 1..(Len(q) - 1)
      /\ Head(q) = q[1] /\ \A i \in 1..(Len(q) - 1) : r[i] = q[i + 1]
  OBVIOUS
<1> HIDE DEF r
<1>2. \A i \in DOMAIN q : i > 1 => i - 1 \in DOMAIN r /\ q[i] = r[i - 1]
  BY <1>1
<1>3. ASSUME NEW i \in DOMAIN r, r[i][1] = kind, \A j \in DOMAIN r : j > i => r[j][1] # kind
      PROVE  r[i][2] = value
  <2>1. i + 1 \in DOMAIN q /\ q[i + 1] = r[i]
    BY <1>1
  <2>2. ASSUME NEW j \in DOMAIN q, j > i + 1 PROVE q[j][1] # kind
    <3>1. j > 1 /\ j - 1 > i
      BY <1>1, <2>2
    <3> QED
      BY <1>2, <1>3, <3>1
  <2> QED
    BY <1>3, <2>1, <2>2 DEF LastSays
<1>4. ASSUME Without(r, kind) PROVE IF q[1][1] = kind THEN q[1][2] = value ELSE Without(q, kind)
  <2>1. \A i \in DOMAIN q : i > 1 => q[i][1] # kind
    BY <1>2, <1>4 DEF Without
  <2>2. 1 \in DOMAIN q /\ \A i \in DOMAIN q : i = 1 \/ i > 1
    BY <1>1
  <2>3. CASE q[1][1] = kind
    BY <2>1, <2>2, <2>3 DEF LastSays
  <2>4. CASE q[1][1] # kind
    BY <2>1, <2>2, <2>4 DEF Without
  <2> QED
    BY <2>3, <2>4
<1>5. LastSays(r, kind, value)
  BY <1>3 DEF LastSays
<1> QED
  BY <1>1, <1>4, <1>5 DEF r

-----------------------------------------------------------------------------
(* Types *)

LEMMA ShowsTyped ==
  ASSUME NEW N, NEW B, NEW r \in [count : N, mic : B], NEW kind, NEW value,
         (kind = "count" /\ value \in N) \/ (kind = "mic" /\ value \in B)
  PROVE  /\ [r EXCEPT ![kind] = value] \in [count : N, mic : B]
         /\ kind = "count" => /\ [r EXCEPT ![kind] = value].count = value
                              /\ [r EXCEPT ![kind] = value].mic = r.mic
         /\ kind = "mic" => /\ [r EXCEPT ![kind] = value].count = r.count
                            /\ [r EXCEPT ![kind] = value].mic = value
<1>1. CASE kind = "count" /\ value \in N
  <2>1. [r EXCEPT !.count = value] = [count |-> value, mic |-> r.mic]
    OBVIOUS
  <2> QED
    BY <1>1, <2>1
<1>2. CASE kind = "mic" /\ value \in B
  <2>1. [r EXCEPT !.mic = value] = [count |-> r.count, mic |-> value]
    OBVIOUS
  <2> QED
    BY <1>2, <2>1
<1> QED
  BY <1>1, <1>2

LEMMA ReadTyped ==
  ASSUME NEW M, NEW B, NEW f \in [Conns -> [chat : M, mic : B]], NEW c, NEW m \in M, NEW b \in B
  PROVE  /\ [f EXCEPT ![c].chat = m] \in [Conns -> [chat : M, mic : B]]
         /\ [f EXCEPT ![c].mic = b] \in [Conns -> [chat : M, mic : B]]
OBVIOUS

LEMMA FrameKinds ==
  /\ \A f \in Frame : f[1] \in {"count", "mic", "chat", "ended"}
  /\ \A f \in Frame : f[1] = "count" => f[2] \in 0..Cardinality(Conns)
  /\ \A f \in Frame : f[1] = "mic" => f[2] \in BOOLEAN
  /\ \A f \in Frame : f[1] = "chat" => f[2] \in Msgs
  /\ \A f \in Frame : f[1] = "ended" => f[2] = TRUE
  /\ <<"ended", TRUE>> \in Frame
  /\ \A b \in BOOLEAN : <<"mic", b>> \in Frame
  /\ \A m \in Msgs : <<"chat", m>> \in Frame
  /\ \A n \in 0..Cardinality(Conns) : <<"count", n>> \in Frame
<1>1. \A f \in Frame :
         \/ f[1] = "count" /\ f[2] \in 0..Cardinality(Conns)
         \/ f[1] = "mic" /\ f[2] \in BOOLEAN
         \/ f[1] = "chat" /\ f[2] \in Msgs
         \/ f[1] = "ended" /\ f[2] = TRUE
  <2>1. \A f \in {"count"} \X (0..Cardinality(Conns)) : f[1] = "count" /\ f[2] \in 0..Cardinality(Conns)
    OBVIOUS
  <2>2. \A f \in {"mic"} \X BOOLEAN : f[1] = "mic" /\ f[2] \in BOOLEAN
    <3>1. \A B : \A f \in {"mic"} \X B : f[1] = "mic" /\ f[2] \in B
      OBVIOUS
    <3> QED
      BY <3>1, Zenon
  <2>3. \A f \in {"chat"} \X Msgs : f[1] = "chat" /\ f[2] \in Msgs
    OBVIOUS
  <2>4. \A f \in {<<"ended", TRUE>>} : f[1] = "ended" /\ f[2] = TRUE
    <3>1. \A v : \A f \in {<<"ended", v>>} : f[1] = "ended" /\ f[2] = v
      OBVIOUS
    <3> QED
      BY <3>1, Zenon
  <2> QED
    BY <2>1, <2>2, <2>3, <2>4 DEF Frame
<1>2. /\ \A f \in Frame : f[1] \in {"count", "mic", "chat", "ended"}
      /\ \A f \in Frame : f[1] = "count" => f[2] \in 0..Cardinality(Conns)
      /\ \A f \in Frame : f[1] = "mic" => f[2] \in BOOLEAN
      /\ \A f \in Frame : f[1] = "chat" => f[2] \in Msgs
      /\ \A f \in Frame : f[1] = "ended" => f[2] = TRUE
  BY <1>1
<1>3. /\ <<"ended", TRUE>> \in Frame
      /\ \A b \in BOOLEAN : <<"mic", b>> \in Frame
      /\ \A m \in Msgs : <<"chat", m>> \in Frame
      /\ \A n \in 0..Cardinality(Conns) : <<"count", n>> \in Frame
  BY DEF Frame
<1> QED
  BY <1>2, <1>3

LEMMA CountedIsBounded ==
  ASSUME NEW S \in SUBSET Conns
  PROVE  Cardinality(S) \in 0..Cardinality(Conns)
BY ConstantsOK, FS_Subset, FS_CardinalityType

LEMMA MutateTyped ==
  ASSUME TypeOK, NEW c \in Conns, NEW S \in SUBSET Conns, Mutate(c, S)
  PROVE  /\ counted' \subseteq Conns /\ countMu' \in Conns /\ miscounted' \in BOOLEAN
         /\ count' \in [Conns -> 0..Cardinality(Conns)]
<1>1. counted' \in SUBSET Conns
  BY DEF Mutate, SAddAndSCard, TypeOK
<1>2. /\ Cardinality(counted') \in 0..Cardinality(Conns)
      /\ 0 \in 0..Cardinality(Conns)
  BY <1>1, CountedIsBounded
<1>3. \E n \in 0..Cardinality(Conns) : count' = [count EXCEPT ![c] = n]
  BY <1>2 DEF Mutate, SAddAndSCard
<1>4. countMu' = c /\ miscounted' \in BOOLEAN
  BY DEF Mutate, SAddAndSCard
<1>5. count \in [Conns -> 0..Cardinality(Conns)]
  BY DEF TypeOK
<1>6. count' \in [Conns -> 0..Cardinality(Conns)]
  BY <1>3, <1>5
<1> QED
  BY <1>1, <1>4, <1>6

\* What enqueueBroadcast may do to the channel, and that it keeps the types.
LEMMA EnqueueTyped ==
  ASSUME channel \in Seq(Frame), Len(channel) <= BroadcastCap, dropped \in BOOLEAN,
         lastMic \in BOOLEAN, NEW f \in Frame, Enqueue(f)
  PROVE  /\ channel' \in Seq(Frame) /\ Len(channel') <= BroadcastCap
         /\ dropped' \in BOOLEAN /\ lastMic' \in BOOLEAN
         /\ channel' \in {channel, Append(channel, f)}
         /\ dropped => dropped'
         /\ ~quit /\ ~dropped' => channel' = Append(channel, f)
<1>1. BroadcastCap \in Nat
  BY ConstantsOK
<1>2. lastMic' \in BOOLEAN
  BY FrameKinds DEF Enqueue
<1>3. CASE Len(channel) < BroadcastCap /\ channel' = Append(channel, f) /\ UNCHANGED dropped
  <2>1. Append(channel, f) \in Seq(Frame) /\ Len(Append(channel, f)) = Len(channel) + 1
    OBVIOUS
  <2> QED
    BY <1>1, <1>2, <1>3, <2>1
<1>4. CASE quit /\ UNCHANGED <<channel, dropped>>
  BY <1>2, <1>4
<1>5. CASE Len(channel) = BroadcastCap /\ ~quit /\ dropped' = TRUE /\ UNCHANGED channel
  BY <1>2, <1>5
<1> QED
  BY <1>3, <1>4, <1>5 DEF Enqueue

LEMMA HeardTyped ==
  ASSUME audience \in [Msgs \cup {"ended", "mic"} -> SUBSET Conns], members \subseteq Conns,
         NEW m, Heard(m)
  PROVE  audience' \in [Msgs \cup {"ended", "mic"} -> SUBSET Conns]
<1>1. CASE quit
  BY <1>1 DEF Heard
<1>2. CASE ~quit
  <2> DEFINE who == IF m = "mic" THEN {c \in members : join[c] = "done"} ELSE members
  <2>1. who \in SUBSET Conns /\ audience' = [audience EXCEPT ![m] = who]
    BY <1>2 DEF Heard
  <2> HIDE DEF who
  <2> QED
    BY <2>1
<1> QED
  BY <1>1, <1>2

\* Every variable stays in its type: what is enqueued is a frame, and no more frames are queued
\* than the Broadcast channel holds (Hub.Broadcast and its enqueue).
THEOREM TypeCorrect == Spec => []TypeOK
<1>1. Init => TypeOK
  <2> SUFFICES ASSUME Init PROVE TypeOK
    OBVIOUS
  <2>1. 0 \in 0..Cardinality(Conns)
    BY CountedIsBounded, FS_EmptySet
  <2>2. channel \in Seq(Frame) /\ Len(channel) <= BroadcastCap /\ persistCh \in Seq(Msgs)
    BY ConstantsOK DEF Init
  <2> QED
    BY <2>1, <2>2 DEF Init, TypeOK
<1>2. TypeOK /\ [Next]_vars => TypeOK'
  <2> SUFFICES ASSUME TypeOK, [Next]_vars PROVE TypeOK'
    OBVIOUS
  <2> USE DEF TypeOK, vars, loopVars, countVars, micVars, chatVars, connVars, clientVars
  <2>1. CASE Fanout
    <3> DEFINE kind == Head(channel)[1]
               value == Head(channel)[2]
    <3>1. channel # <<>> /\ Head(channel) \in Frame
      BY <2>1 DEF Fanout
    <3>2. /\ kind = "count" => value \in 0..Cardinality(Conns)
          /\ kind = "mic" => value \in BOOLEAN
          /\ kind = "chat" => value \in Msgs
      BY <3>1, FrameKinds
    <3>3. /\ shown' = [c \in Conns |->
                 IF c \in members /\ kind \in {"count", "mic"}
                 THEN [shown[c] EXCEPT ![kind] = value] ELSE shown[c]]
          /\ seen' = [c \in Conns |->
                 CASE c \in members /\ kind = "chat"  -> seen[c] \cup {value}
                   [] c \in members /\ kind = "ended" -> seen[c] \cup {"ended"}
                   [] OTHER -> seen[c]]
      BY <2>1 DEF Fanout
    <3>4. Tail(channel) \in Seq(Frame) /\ Len(Tail(channel)) <= BroadcastCap
      <4>1. Tail(channel) \in Seq(Frame) /\ Len(Tail(channel)) = Len(channel) - 1 /\ Len(channel) \in Nat
        BY <3>1
      <4> QED
        BY <4>1, ConstantsOK
    <3> HIDE DEF kind, value
    <3>5. shown' \in [Conns -> [count : 0..Cardinality(Conns), mic : BOOLEAN]]
      <4>1. ASSUME NEW c \in Conns, kind \in {"count", "mic"}
            PROVE  [shown[c] EXCEPT ![kind] = value] \in [count : 0..Cardinality(Conns), mic : BOOLEAN]
        <5>1. shown[c] \in [count : 0..Cardinality(Conns), mic : BOOLEAN]
          OBVIOUS
        <5>2. \/ kind = "count" /\ value \in 0..Cardinality(Conns)
              \/ kind = "mic" /\ value \in BOOLEAN
          BY <3>2, <4>1
        <5> QED
          BY <5>1, <5>2, ShowsTyped
      <4> QED
        BY <3>3, <4>1
    <3>6. seen' \in [Conns -> SUBSET (Msgs \cup {"ended"})]
      <4>1. \A c \in Conns : seen'[c] \subseteq Msgs \cup {"ended"}
        BY <3>2, <3>3
      <4>2. DOMAIN seen' = Conns /\ seen' = [c \in Conns |-> seen'[c]]
        BY <3>3
      <4> QED
        BY <4>1, <4>2
    <3> QED
      BY <2>1, <3>4, <3>5, <3>6 DEF Fanout
  <2>2. CASE SeeQuit
    BY <2>2 DEF SeeQuit
  <2>3. CASE RunReturns
    BY <2>3 DEF RunReturns
  <2>4. ASSUME NEW c \in Conns, Register(c) \/ Unregister(c) PROVE TypeOK'
    <3>1. CASE Register(c)
      BY <3>1 DEF Register
    <3>2. CASE Unregister(c)
      BY <3>2 DEF Unregister
    <3> QED
      BY <2>4, <3>1, <3>2
  <2>5. CASE Inbound
    <3>1. CASE Say
      <4>1. inbound \in Frame
        BY <3>1 DEF Say
      <4>2. PICK m : Heard(m)
        BY <3>1 DEF Say
      <4>3. /\ channel' \in Seq(Frame) /\ Len(channel') <= BroadcastCap
            /\ dropped' \in BOOLEAN /\ lastMic' \in BOOLEAN
        BY <3>1, <4>1, EnqueueTyped DEF Say
      <4>4. audience' \in [Msgs \cup {"ended", "mic"} -> SUBSET Conns]
        BY <4>2, HeardTyped
      <4> QED
        BY <3>1, <4>3, <4>4 DEF Say
    <3>2. CASE PersistChat
      <4>1. unsaved \in Msgs
        BY <3>2 DEF PersistChat
      <4>2. persistCh' \in Seq(Msgs)
        BY <3>2, <4>1 DEF PersistChat
      <4> QED
        BY <3>2, <4>2 DEF PersistChat
    <3>3. CASE InsertChat
      <4>1. persistCh # <<>> /\ Head(persistCh) \in Msgs /\ Tail(persistCh) \in Seq(Msgs)
        BY <3>3 DEF InsertChat
      <4> QED
        BY <3>3, <4>1 DEF InsertChat
    <3>4. ASSUME NEW c \in Conns, NEW on \in BOOLEAN, HandleMic(c, on) PROVE TypeOK'
      <4>1. inbound' \in Frame
        BY <3>4, FrameKinds DEF HandleMic
      <4> QED
        BY <3>4, <4>1 DEF HandleMic
    <3>5. ASSUME NEW c \in Conns, NEW m \in Msgs, HandleChat(c, m) PROVE TypeOK'
      <4>1. inbound' \in Frame
        BY <3>5, FrameKinds DEF HandleChat
      <4> QED
        BY <3>5, <4>1 DEF HandleChat
    <3> QED
      BY <2>5, <3>1, <3>2, <3>3, <3>4, <3>5 DEF Inbound
  <2>6. ASSUME NEW c \in Conns, OnRegister(c) PROVE TypeOK'
    <3>1. CASE AddListener(c)
      <4>1. counted \cup {c} \in SUBSET Conns
        OBVIOUS
      <4>2. Mutate(c, counted \cup {c})
        BY <3>1 DEF AddListener
      <4> QED
        BY <3>1, <4>1, <4>2, MutateTyped DEF AddListener
    <3>2. CASE SayJoined(c)
      <4>1. <<"count", count[c]>> \in Frame
        BY FrameKinds
      <4>2. /\ channel' \in Seq(Frame) /\ Len(channel') <= BroadcastCap
            /\ dropped' \in BOOLEAN /\ lastMic' \in BOOLEAN
        BY <3>2, <4>1, EnqueueTyped DEF SayJoined, SayCount
      <4> QED
        BY <3>2, <4>2 DEF SayJoined, SayCount
    <3>3. CASE ReadHistory(c)
      <4>1. snapshot' \in [Conns -> [chat : SUBSET Msgs, mic : BOOLEAN]]
        BY <3>3, ReadTyped DEF ReadHistory
      <4> QED
        BY <3>3, <4>1 DEF ReadHistory
    <3>4. CASE ReplayHistory(c)
      <4>1. snapshot[c].chat \subseteq Msgs
        OBVIOUS
      <4> QED
        BY <3>4, <4>1 DEF ReplayHistory
    <3>5. CASE ReadMic(c)
      <4>1. snapshot' \in [Conns -> [chat : SUBSET Msgs, mic : BOOLEAN]]
        <5>1. snapshot' = [snapshot EXCEPT ![c].mic = mic]
          BY <3>5 DEF ReadMic
        <5> QED
          BY <5>1, ReadTyped
      <4>2. join' \in [Conns -> {"new", "add", "count", "read", "replay", "mic", "last", "done"}]
        BY <3>5 DEF ReadMic
      <4>3. /\ UNCHANGED <<loopVars, channel, countVars, micVars, inbound, chatVars>>
            /\ UNCHANGED <<leave, clientVars, dropped, lastMic, audience, scene>>
        BY <3>5 DEF ReadMic
      <4> QED
        BY <4>1, <4>2, <4>3
    <3>6. CASE ReplayMic(c)
      <4>1. snapshot[c].mic \in BOOLEAN
        OBVIOUS
      <4>2. shown' \in [Conns -> [count : 0..Cardinality(Conns), mic : BOOLEAN]]
        <5>1. shown' = [shown EXCEPT ![c].mic = snapshot[c].mic]
          BY <3>6 DEF ReplayMic
        <5>2. shown[c].count \in 0..Cardinality(Conns)
          OBVIOUS
        <5>3. [shown[c] EXCEPT !.mic = snapshot[c].mic]
                \in [count : 0..Cardinality(Conns), mic : BOOLEAN]
          BY <4>1, <5>2
        <5> QED
          BY <5>1, <5>3
      <4> QED
        BY <3>6, <4>2 DEF ReplayMic
    <3> QED
      BY <2>6, <3>1, <3>2, <3>3, <3>4, <3>5, <3>6 DEF OnRegister
  <2>7. ASSUME NEW c \in Conns, OnUnregister(c) PROVE TypeOK'
    <3>0. AfterMic \in {"ended", "done"}
      BY DEF AfterMic
    <3>1. CASE RemoveListener(c)
      <4>1. counted \ {c} \in SUBSET Conns /\ Mutate(c, counted \ {c})
        BY <3>1 DEF RemoveListener
      <4> QED
        BY <3>1, <4>1, MutateTyped DEF RemoveListener
    <3>2. CASE SayLeft(c)
      <4>1. <<"count", count[c]>> \in Frame
        BY FrameKinds
      <4>2. /\ channel' \in Seq(Frame) /\ Len(channel') <= BroadcastCap
            /\ dropped' \in BOOLEAN /\ lastMic' \in BOOLEAN
        BY <3>2, <4>1, EnqueueTyped DEF SayLeft, SayCount
      <4> QED
        BY <3>2, <4>2 DEF SayLeft, SayCount
    <3>3. CASE ClearOwnedMic(c)
      BY <3>3, <3>0 DEF ClearOwnedMic
    <3>4. CASE SayMicOff(c)
      <4>1. <<"mic", FALSE>> \in Frame
        BY FrameKinds
      <4>2. /\ channel' \in Seq(Frame) /\ Len(channel') <= BroadcastCap
            /\ dropped' \in BOOLEAN /\ lastMic' \in BOOLEAN
        BY <3>4, <4>1, EnqueueTyped DEF SayMicOff
      <4>3. audience' \in [Msgs \cup {"ended", "mic"} -> SUBSET Conns]
        BY <3>4, HeardTyped DEF SayMicOff
      <4> QED
        BY <3>4, <3>0, <4>2, <4>3 DEF SayMicOff
    <3>5. CASE SayEnded(c)
      <4>1. <<"ended", TRUE>> \in Frame
        BY FrameKinds
      <4>2. /\ channel' \in Seq(Frame) /\ Len(channel') <= BroadcastCap
            /\ dropped' \in BOOLEAN /\ lastMic' \in BOOLEAN
        BY <3>5, <4>1, EnqueueTyped DEF SayEnded
      <4>3. audience' \in [Msgs \cup {"ended", "mic"} -> SUBSET Conns]
        BY <3>5, HeardTyped DEF SayEnded
      <4> QED
        BY <3>5, <4>2, <4>3 DEF SayEnded
    <3>6. CASE Stop(c)
      BY <3>6 DEF Stop
    <3> QED
      BY <2>7, <3>1, <3>2, <3>3, <3>4, <3>5, <3>6 DEF OnUnregister
  <2>8. CASE UNCHANGED vars
    BY <2>8
  <2> QED
    BY <2>1, <2>2, <2>3, <2>4, <2>5, <2>6, <2>7, <2>8 DEF Next, Run
<1> QED
  BY <1>1, <1>2, PTL DEF Spec
-----------------------------------------------------------------------------
(* Where a connection is *)

\* onUnregister begins after the register barrier, a member was registered and has not left,
\* the loop leaves its select for quit only, and the inboundLoop speaks of mic and chat only.
JoinInv ==
    /\ \A c \in Conns : /\ leave[c] \notin {"no", "barrier"} => join[c] = "done"
                        /\ join[c] = "new" => leave[c] = "no"
    /\ \A c \in members : join[c] # "new" /\ leave[c] = "no"
    /\ loop # "select" => quit
    /\ \/ inbound = <<>>
       \/ \E on \in BOOLEAN : inbound = <<"mic", on>>
       \/ \E m \in Msgs : inbound = <<"chat", m>>

LEMMA JoinStep == TypeOK /\ JoinInv /\ [Next]_vars => JoinInv'
<1> SUFFICES ASSUME TypeOK, JoinInv, [Next]_vars PROVE JoinInv'
  OBVIOUS
<1> USE DEF TypeOK, JoinInv, vars, loopVars, countVars, micVars, chatVars, connVars, clientVars
<1>1. CASE Fanout
  BY <1>1 DEF Fanout
<1>2. CASE SeeQuit
  BY <1>2 DEF SeeQuit
<1>3. CASE RunReturns
  BY <1>3 DEF RunReturns
<1>4. ASSUME NEW c \in Conns, Register(c) \/ Unregister(c) PROVE JoinInv'
  <2>1. CASE Register(c)
    BY <2>1 DEF Register
  <2>2. CASE Unregister(c)
    BY <2>2 DEF Unregister
  <2> QED
    BY <1>4, <2>1, <2>2
<1>5. CASE Inbound
  BY <1>5 DEF Inbound, Say, PersistChat, InsertChat, HandleMic, HandleChat
<1>6. ASSUME NEW c \in Conns, OnRegister(c) PROVE JoinInv'
  BY <1>6 DEF OnRegister, AddListener, SayJoined, ReadHistory, ReplayHistory, ReadMic, ReplayMic
<1>7. ASSUME NEW c \in Conns, OnUnregister(c) PROVE JoinInv'
  <2>1. CASE RemoveListener(c)
    BY <2>1 DEF RemoveListener
  <2>2. CASE SayLeft(c)
    BY <2>2 DEF SayLeft
  <2>3. CASE ClearOwnedMic(c)
    BY <2>3 DEF ClearOwnedMic
  <2>4. CASE SayMicOff(c)
    BY <2>4 DEF SayMicOff
  <2>5. CASE SayEnded(c)
    BY <2>5 DEF SayEnded
  <2>6. CASE Stop(c)
    BY <2>6 DEF Stop
  <2> QED
    BY <1>7, <2>1, <2>2, <2>3, <2>4, <2>5, <2>6 DEF OnUnregister
<1>8. CASE UNCHANGED vars
  BY <1>8
<1> QED
  BY <1>1, <1>2, <1>3, <1>4, <1>5, <1>6, <1>7, <1>8 DEF Next, Run

-----------------------------------------------------------------------------
(* The listener count *)

\* countMu is held between a mutation and its frame, with the count the mutation returned.
\* When that is the size of the set (Redis gave it), and the mutex is free, the last count
\* frame queued says it, and when none is queued every client past its own frame shows it.
CountInv ==
    /\ \A c \in Conns : join[c] = "count" \/ leave[c] = "count" => countMu = c
    /\ countMu # NoConn =>
          /\ join[countMu] = "count" \/ leave[countMu] = "count"
          /\ miscounted \/ count[countMu] = Cardinality(counted)
    /\ ~quit /\ ~dropped /\ ~miscounted /\ countMu = NoConn =>
          /\ LastSays(channel, "count", Cardinality(counted))
          /\ Without(channel, "count") =>
                \A c \in members : join[c] \notin {"add", "count"} =>
                                       shown[c].count = Cardinality(counted)

\* A step away from the set, the mutex and the count frames keeps it.
LEMMA CountUndisturbed ==
  ASSUME TypeOK, JoinInv, CountInv, UNCHANGED countVars, dropped => dropped', quit => quit',
         ~quit' /\ ~dropped' => \A v : LastSays(channel, "count", v) => LastSays(channel', "count", v),
         ~quit' /\ ~dropped' => (Without(channel', "count") => Without(channel, "count")),
         \A c \in Conns : /\ join'[c] = "count" <=> join[c] = "count"
                          /\ leave'[c] = "count" <=> leave[c] = "count"
                          /\ shown'[c].count = shown[c].count,
         members' \subseteq Conns,
         \A c \in members' : join'[c] \notin {"add", "count"} =>
                                c \in members /\ join[c] \notin {"add", "count"},
         dropped' \in BOOLEAN, quit' \in BOOLEAN
  PROVE  CountInv'
<1>1. /\ \A c \in Conns : join'[c] = "count" \/ leave'[c] = "count" => countMu' = c
      /\ countMu' # NoConn =>
          /\ join'[countMu'] = "count" \/ leave'[countMu'] = "count"
          /\ miscounted' \/ count'[countMu'] = Cardinality(counted')
  BY DEF CountInv, countVars, TypeOK
<1>2. ASSUME ~quit', ~dropped', ~miscounted', countMu' = NoConn
      PROVE  /\ LastSays(channel', "count", Cardinality(counted'))
             /\ Without(channel', "count") =>
                   \A c \in members' : join'[c] \notin {"add", "count"} =>
                                          shown'[c].count = Cardinality(counted')
  <2>1. ~quit /\ ~dropped /\ ~miscounted /\ countMu = NoConn
    BY <1>2 DEF countVars, TypeOK
  <2> QED
    BY <1>2, <2>1 DEF CountInv, countVars
<1> QED
  BY <1>1, <1>2 DEF CountInv

\* Nor does a frame of another kind.
LEMMA CountHearsOther ==
  ASSUME TypeOK, JoinInv, CountInv, NEW f \in Frame, f[1] # "count", Enqueue(f),
         UNCHANGED <<countVars, quit, members, shown>>,
         \A c \in Conns : /\ join'[c] = "count" <=> join[c] = "count"
                          /\ join'[c] = "add" <=> join[c] = "add"
                          /\ leave'[c] = "count" <=> leave[c] = "count"
  PROVE  CountInv'
<1>1. /\ channel \in Seq(Frame) /\ Len(channel) <= BroadcastCap /\ dropped \in BOOLEAN
      /\ lastMic \in BOOLEAN /\ members \subseteq Conns /\ quit \in BOOLEAN
  BY DEF TypeOK
<1>2. /\ dropped' \in BOOLEAN /\ (dropped => dropped')
      /\ ~quit /\ ~dropped' => channel' = Append(channel, f)
  BY <1>1, EnqueueTyped
<1>3. /\ UNCHANGED countVars /\ quit' = quit /\ members' = members /\ shown' = shown
      /\ \A c \in members' : join'[c] \notin {"add", "count"} =>
                                c \in members /\ join[c] \notin {"add", "count"}
  BY <1>1
<1>4. ASSUME ~quit', ~dropped' PROVE channel' = Append(channel, f)
  BY <1>2, <1>3, <1>4
<1>5. ASSUME ~quit', ~dropped', NEW v, LastSays(channel, "count", v)
      PROVE  LastSays(channel', "count", v)
  <2>1. LastSays(Append(channel, f), "count", v)
    BY <1>1, <1>5, AfterAppend
  <2> QED
    BY <1>4, <1>5, <2>1
<1>6. ASSUME ~quit', ~dropped', Without(channel', "count")
      PROVE  Without(channel, "count")
  <2>1. Without(Append(channel, f), "count") => Without(channel, "count")
    BY <1>1, AfterAppend
  <2> QED
    BY <1>4, <1>6, <2>1
<1> QED
  BY <1>1, <1>2, <1>3, <1>5, <1>6, CountUndisturbed

\* The frame of a mutation: the holder says what the set's size is, and lets go.
LEMMA CountSaid ==
  ASSUME TypeOK, JoinInv, CountInv, NEW d \in Conns, SayCount(d), countMu = d,
         UNCHANGED <<quit, members, shown>>,
         \A c \in Conns : join'[c] # "count" /\ leave'[c] # "count"
  PROVE  CountInv'
<1>1. /\ channel \in Seq(Frame) /\ Len(channel) <= BroadcastCap /\ dropped \in BOOLEAN
      /\ lastMic \in BOOLEAN /\ count[d] \in 0..Cardinality(Conns)
  BY DEF TypeOK
<1>2. /\ Enqueue(<<"count", count[d]>>) /\ countMu' = NoConn /\ UNCHANGED <<counted, count, miscounted>>
      /\ <<"count", count[d]>> \in Frame
  BY <1>1, FrameKinds DEF SayCount
<1>3. ~quit /\ ~dropped' => channel' = Append(channel, <<"count", count[d]>>)
  BY <1>1, <1>2, EnqueueTyped
<1>4. miscounted \/ count[d] = Cardinality(counted)
  BY ConstantsOK DEF CountInv
<1>5. ASSUME ~quit', ~dropped', ~miscounted'
      PROVE  LastSays(channel', "count", Cardinality(counted')) /\ ~Without(channel', "count")
  <2> DEFINE f == <<"count", count[d]>>
  <2>1. f \in Frame /\ f[1] = "count" /\ f[2] = Cardinality(counted)
    BY <1>2, <1>4, <1>5
  <2>2. channel' = Append(channel, f)
    BY <1>3, <1>5
  <2> HIDE DEF f
  <2> QED
    BY <1>1, <1>2, <2>1, <2>2, AfterAppend
<1> QED
  BY <1>2, <1>5 DEF CountInv

\* A frame fanned out: a count frame is shown to every member.
LEMMA CountFanout ==
  ASSUME TypeOK, JoinInv, CountInv, Fanout
  PROVE  CountInv'
<1> DEFINE kind == Head(channel)[1]
           value == Head(channel)[2]
<1>1. /\ channel \in Seq(Frame) /\ channel # <<>> /\ channel' = Tail(channel)
      /\ UNCHANGED <<loopVars, countVars, connVars, dropped>>
      /\ shown' = [c \in Conns |->
                 IF c \in members /\ kind \in {"count", "mic"}
                 THEN [shown[c] EXCEPT ![kind] = value] ELSE shown[c]]
      /\ members \subseteq Conns
  BY DEF Fanout, TypeOK
<1>2. Head(channel) \in Frame
  BY <1>1
<1>3. /\ kind = "count" => value \in 0..Cardinality(Conns)
      /\ kind = "mic" => value \in BOOLEAN
  BY <1>2, FrameKinds
<1>4. \A c \in Conns : shown[c] \in [count : 0..Cardinality(Conns), mic : BOOLEAN]
  BY DEF TypeOK
<1> HIDE DEF kind, value
<1>5. ASSUME NEW c \in members, kind = "count" PROVE shown'[c].count = value
  BY <1>1, <1>3, <1>4, <1>5, ShowsTyped
<1>6. ASSUME NEW c \in Conns, kind # "count" PROVE shown'[c].count = shown[c].count
  <2>1. CASE kind = "mic" /\ c \in members
    <3>1. shown'[c] = [shown[c] EXCEPT ![kind] = value]
      BY <1>1, <2>1
    <3>2. [shown[c] EXCEPT ![kind] = value].count = shown[c].count
      BY <1>3, <1>4, <2>1, ShowsTyped
    <3> QED
      BY <3>1, <3>2
  <2>2. CASE ~(kind = "mic" /\ c \in members)
    BY <1>1, <1>6, <2>2
  <2> QED
    BY <2>1, <2>2
<1>7. ASSUME ~quit', ~dropped', ~miscounted', countMu' = NoConn
      PROVE  /\ LastSays(channel', "count", Cardinality(counted'))
             /\ Without(channel', "count") =>
                   \A c \in members' : join'[c] \notin {"add", "count"} =>
                                          shown'[c].count = Cardinality(counted')
  <2>1. /\ LastSays(channel, "count", Cardinality(counted))
        /\ Without(channel, "count") =>
              \A c \in members : join[c] \notin {"add", "count"} =>
                                     shown[c].count = Cardinality(counted)
    BY <1>1, <1>7 DEF CountInv, loopVars, countVars
  <2>2. /\ LastSays(Tail(channel), "count", Cardinality(counted))
        /\ Without(Tail(channel), "count") =>
               IF kind = "count" THEN value = Cardinality(counted) ELSE Without(channel, "count")
    BY <1>1, <2>1, AfterTail DEF kind, value
  <2>3. ASSUME Without(channel', "count"), NEW c \in members', join'[c] \notin {"add", "count"}
        PROVE  shown'[c].count = Cardinality(counted')
    <3>1. c \in members /\ c \in Conns /\ join[c] \notin {"add", "count"} /\ counted' = counted
      BY <1>1, <2>3 DEF loopVars, connVars, countVars
    <3>2. CASE kind = "count"
      BY <1>1, <1>5, <2>2, <2>3, <3>1, <3>2
    <3>3. CASE kind # "count"
      BY <1>1, <1>6, <2>1, <2>2, <2>3, <3>1, <3>3
    <3> QED
      BY <3>2, <3>3
  <2> QED
    BY <1>1, <2>2, <2>3 DEF countVars
<1>8. /\ \A c \in Conns : join'[c] = "count" \/ leave'[c] = "count" => countMu' = c
      /\ countMu' # NoConn =>
          /\ join'[countMu'] = "count" \/ leave'[countMu'] = "count"
          /\ miscounted' \/ count'[countMu'] = Cardinality(counted')
  BY <1>1 DEF CountInv, connVars, countVars
<1> QED
  BY <1>7, <1>8 DEF CountInv

\* A mutation takes the mutex with what SCard gave, or marks that it gave nothing.
LEMMA CountMutated ==
  ASSUME TypeOK, CountInv, NEW c \in Conns, NEW S, Mutate(c, S),
         join'[c] = "count" \/ leave'[c] = "count",
         \A d \in Conns \ {c} : join'[d] = join[d] /\ leave'[d] = leave[d]
  PROVE  CountInv'
<1>1. /\ countMu = NoConn /\ countMu' = c /\ c # NoConn
      /\ miscounted' \/ count'[c] = Cardinality(counted')
  BY ConstantsOK DEF Mutate, SAddAndSCard, TypeOK
<1>2. \A d \in Conns \ {c} : join[d] # "count" /\ leave[d] # "count"
  BY <1>1, ConstantsOK DEF CountInv
<1> QED
  BY <1>1, <1>2 DEF CountInv

LEMMA CountStep == TypeOK /\ JoinInv /\ CountInv /\ [Next]_vars => CountInv'
<1> SUFFICES ASSUME TypeOK, JoinInv, CountInv, [Next]_vars PROVE CountInv'
  OBVIOUS
<1>0. /\ members \subseteq Conns /\ quit \in BOOLEAN /\ dropped \in BOOLEAN
      /\ inbound \in Frame \cup {<<>>} /\ join \in [Conns -> {"new", "add", "count", "read", "replay", "mic", "last", "done"}]
      /\ leave \in [Conns -> {"no", "barrier", "count", "mic", "off", "ended", "stop", "done"}]
  BY DEF TypeOK
<1> USE DEF vars, loopVars, micVars, chatVars, connVars, clientVars
<1>1. CASE Fanout
  BY <1>1, CountFanout
<1>2. CASE SeeQuit \/ RunReturns
  BY <1>0, <1>2, CountUndisturbed DEF SeeQuit, RunReturns
<1>3. ASSUME NEW c \in Conns, Register(c) PROVE CountInv'
  BY <1>0, <1>3, CountUndisturbed DEF Register
<1>4. ASSUME NEW c \in Conns, Unregister(c) PROVE CountInv'
  <2>1. leave[c] = "no"
    BY <1>4 DEF Unregister, JoinInv
  <2> QED
    BY <1>0, <1>4, <2>1, CountUndisturbed DEF Unregister
<1>5. CASE Inbound
  <2>1. CASE Say
    <3>1. inbound \in Frame /\ inbound[1] # "count"
      BY <1>0, <2>1 DEF Say, JoinInv
    <3> QED
      BY <1>0, <2>1, <3>1, CountHearsOther DEF Say
  <2>2. CASE PersistChat \/ InsertChat
    BY <1>0, <2>2, CountUndisturbed DEF PersistChat, InsertChat
  <2>3. ASSUME NEW c \in Conns, NEW on \in BOOLEAN, HandleMic(c, on) PROVE CountInv'
    BY <1>0, <2>3, CountUndisturbed DEF HandleMic
  <2>4. ASSUME NEW c \in Conns, NEW m \in Msgs, HandleChat(c, m) PROVE CountInv'
    BY <1>0, <2>4, CountUndisturbed DEF HandleChat
  <2> QED
    BY <1>5, <2>1, <2>2, <2>3, <2>4 DEF Inbound
<1>6. ASSUME NEW c \in Conns, OnRegister(c) PROVE CountInv'
  <2>1. CASE AddListener(c)
    BY <1>0, <2>1, CountMutated DEF AddListener
  <2>2. CASE SayJoined(c)
    <3>1. countMu = c /\ \A d \in Conns : join[d] = "count" \/ leave[d] = "count" => d = c
      BY <2>2 DEF SayJoined, CountInv
    <3>2. leave[c] # "count"
      BY <2>2 DEF SayJoined, JoinInv
    <3>3. SayCount(c) /\ UNCHANGED <<quit, members, shown>>
      BY <2>2 DEF SayJoined
    <3>4. \A d \in Conns : join'[d] # "count" /\ leave'[d] # "count"
      BY <1>0, <2>2, <3>1, <3>2 DEF SayJoined
    <3> QED
      BY <3>1, <3>3, <3>4, CountSaid
  <2>3. CASE ReadHistory(c)
    BY <1>0, <2>3, CountUndisturbed DEF ReadHistory
  <2>4. CASE ReplayHistory(c)
    BY <1>0, <2>4, CountUndisturbed DEF ReplayHistory
  <2>5. CASE ReadMic(c)
    BY <1>0, <2>5, CountUndisturbed DEF ReadMic
  <2>6. CASE ReplayMic(c)
    <3>1. \A d \in Conns : shown'[d].count = shown[d].count
      BY <2>6 DEF ReplayMic, TypeOK
    <3> QED
      BY <1>0, <2>6, <3>1, CountUndisturbed DEF ReplayMic
  <2> QED
    BY <1>6, <2>1, <2>2, <2>3, <2>4, <2>5, <2>6 DEF OnRegister
<1>7. ASSUME NEW c \in Conns, OnUnregister(c) PROVE CountInv'
  <2>0. AfterMic \in {"ended", "done"}
    BY DEF AfterMic
  <2>1. CASE RemoveListener(c)
    BY <1>0, <2>1, CountMutated DEF RemoveListener
  <2>2. CASE SayLeft(c)
    <3>1. countMu = c /\ \A d \in Conns : join[d] = "count" \/ leave[d] = "count" => d = c
      BY <2>2 DEF SayLeft, CountInv
    <3>2. join[c] # "count"
      BY <2>2 DEF SayLeft, JoinInv
    <3>3. SayCount(c) /\ UNCHANGED <<quit, members, shown>>
      BY <2>2 DEF SayLeft
    <3>4. \A d \in Conns : join'[d] # "count" /\ leave'[d] # "count"
      BY <1>0, <2>2, <3>1, <3>2 DEF SayLeft
    <3> QED
      BY <3>1, <3>3, <3>4, CountSaid
  <2>3. CASE ClearOwnedMic(c)
    BY <1>0, <2>0, <2>3, CountUndisturbed DEF ClearOwnedMic
  <2>4. CASE SayMicOff(c)
    <3>1. <<"mic", FALSE>> \in Frame /\ <<"mic", FALSE>>[1] # "count"
      BY FrameKinds
    <3> QED
      BY <1>0, <2>0, <2>4, <3>1, CountHearsOther DEF SayMicOff
  <2>5. CASE SayEnded(c)
    <3>1. <<"ended", TRUE>> \in Frame /\ <<"ended", TRUE>>[1] # "count"
      BY FrameKinds
    <3> QED
      BY <1>0, <2>5, <3>1, CountHearsOther DEF SayEnded
  <2>6. CASE Stop(c)
    BY <1>0, <2>6, CountUndisturbed DEF Stop
  <2> QED
    BY <1>7, <2>1, <2>2, <2>3, <2>4, <2>5, <2>6 DEF OnUnregister
<1>8. CASE UNCHANGED vars
  BY <1>0, <1>8, CountUndisturbed
<1> QED
  BY <1>1, <1>2, <1>3, <1>4, <1>5, <1>6, <1>7, <1>8 DEF Next, Run
-----------------------------------------------------------------------------
(* The mic *)

\* Whoever must hear the last mic frame has joined, so that no replay follows it; the last
\* mic frame queued says lastMic, and when none is queued they show it.
MicInv ==
    /\ \A c \in audience["mic"] : join[c] = "done"
    /\ ~quit /\ ~dropped =>
          /\ LastSays(channel, "mic", lastMic)
          /\ Without(channel, "mic") => \A c \in audience["mic"] \cap members : shown[c].mic = lastMic

\* A step away from the mic frames and from what their audience shows keeps it.
LEMMA MicUndisturbed ==
  ASSUME TypeOK, MicInv, lastMic' = lastMic, audience'["mic"] = audience["mic"],
         dropped => dropped', quit => quit', dropped' \in BOOLEAN, quit' \in BOOLEAN,
         ~quit' /\ ~dropped' => \A v : LastSays(channel, "mic", v) => LastSays(channel', "mic", v),
         ~quit' /\ ~dropped' => (Without(channel', "mic") => Without(channel, "mic")),
         \A c \in audience["mic"] : /\ join[c] = "done" => join'[c] = "done"
                                    /\ c \in members' => c \in members
                                    /\ join[c] = "done" => shown'[c].mic = shown[c].mic
  PROVE  MicInv'
<1>1. \A c \in audience'["mic"] : join'[c] = "done"
  BY DEF MicInv
<1>2. ASSUME ~quit', ~dropped'
      PROVE  /\ LastSays(channel', "mic", lastMic')
             /\ Without(channel', "mic") =>
                   \A c \in audience'["mic"] \cap members' : shown'[c].mic = lastMic'
  <2>1. ~quit /\ ~dropped
    BY <1>2 DEF TypeOK
  <2> QED
    BY <1>2, <2>1 DEF MicInv
<1> QED
  BY <1>1, <1>2 DEF MicInv

\* Nor does a frame of another kind.
LEMMA MicHearsOther ==
  ASSUME TypeOK, MicInv, NEW f \in Frame, f[1] # "mic", Enqueue(f),
         UNCHANGED <<quit, members, shown>>, audience'["mic"] = audience["mic"],
         \A c \in Conns : join[c] = "done" => join'[c] = "done"
  PROVE  MicInv'
<1>1. /\ channel \in Seq(Frame) /\ Len(channel) <= BroadcastCap /\ dropped \in BOOLEAN
      /\ lastMic \in BOOLEAN /\ members \subseteq Conns /\ quit \in BOOLEAN
      /\ audience["mic"] \subseteq Conns
  BY DEF TypeOK
<1>2. /\ dropped' \in BOOLEAN /\ (dropped => dropped')
      /\ ~quit /\ ~dropped' => channel' = Append(channel, f)
  BY <1>1, EnqueueTyped
<1>3. quit' = quit /\ members' = members /\ shown' = shown /\ lastMic' = lastMic
  BY DEF Enqueue
<1>4. ASSUME ~quit', ~dropped' PROVE channel' = Append(channel, f)
  BY <1>2, <1>3, <1>4
<1>5. ASSUME ~quit', ~dropped', NEW v, LastSays(channel, "mic", v)
      PROVE  LastSays(channel', "mic", v)
  <2>1. LastSays(Append(channel, f), "mic", v)
    BY <1>1, <1>5, AfterAppend
  <2> QED
    BY <1>4, <1>5, <2>1
<1>6. ASSUME ~quit', ~dropped', Without(channel', "mic")
      PROVE  Without(channel, "mic")
  <2>1. Without(Append(channel, f), "mic") => Without(channel, "mic")
    BY <1>1, AfterAppend
  <2> QED
    BY <1>4, <1>6, <2>1
<1> QED
  BY <1>1, <1>2, <1>3, <1>5, <1>6, MicUndisturbed

\* A mic frame: it is the last one now, and those to hear it have joined.
LEMMA MicSaid ==
  ASSUME TypeOK, MicInv, NEW on \in BOOLEAN, Enqueue(<<"mic", on>>), Heard("mic"),
         UNCHANGED <<quit, join>>
  PROVE  MicInv'
<1> DEFINE f == <<"mic", on>>
<1>1. /\ channel \in Seq(Frame) /\ Len(channel) <= BroadcastCap /\ dropped \in BOOLEAN
      /\ lastMic \in BOOLEAN /\ quit \in BOOLEAN
      /\ audience \in [Msgs \cup {"ended", "mic"} -> SUBSET Conns]
  BY DEF TypeOK
<1>2. f \in Frame /\ f[1] = "mic" /\ f[2] = on /\ lastMic' = f[2] /\ Enqueue(f)
  BY FrameKinds DEF Enqueue
<1> HIDE DEF f
<1>3. ~quit /\ ~dropped' => channel' = Append(channel, f)
  BY <1>1, <1>2, EnqueueTyped
<1>4. LastSays(Append(channel, f), "mic", f[2]) /\ ~Without(Append(channel, f), "mic")
  BY <1>1, <1>2, AfterAppend
<1>5. ASSUME ~quit', ~dropped'
      PROVE  LastSays(channel', "mic", lastMic') /\ ~Without(channel', "mic")
  <2>1. channel' = Append(channel, f)
    BY <1>3, <1>5
  <2> QED
    BY <1>2, <1>4, <2>1
<1>6. \A c \in audience'["mic"] : join'[c] = "done"
  BY <1>1 DEF Heard, MicInv
<1> QED
  BY <1>5, <1>6 DEF MicInv

\* A frame fanned out: a mic frame is shown to every member.
LEMMA MicFanout ==
  ASSUME TypeOK, MicInv, Fanout
  PROVE  MicInv'
<1> DEFINE kind == Head(channel)[1]
           value == Head(channel)[2]
<1>1. /\ channel \in Seq(Frame) /\ channel # <<>> /\ channel' = Tail(channel)
      /\ UNCHANGED <<loopVars, connVars, dropped, lastMic, audience>>
      /\ shown' = [c \in Conns |->
                 IF c \in members /\ kind \in {"count", "mic"}
                 THEN [shown[c] EXCEPT ![kind] = value] ELSE shown[c]]
      /\ members \subseteq Conns
  BY DEF Fanout, TypeOK
<1>2. Head(channel) \in Frame
  BY <1>1
<1>3. /\ kind = "count" => value \in 0..Cardinality(Conns)
      /\ kind = "mic" => value \in BOOLEAN
  BY <1>2, FrameKinds
<1>4. \A c \in Conns : shown[c] \in [count : 0..Cardinality(Conns), mic : BOOLEAN]
  BY DEF TypeOK
<1> HIDE DEF kind, value
<1>5. ASSUME NEW c \in members, kind = "mic" PROVE shown'[c].mic = value
  <2>1. shown'[c] = [shown[c] EXCEPT ![kind] = value]
    BY <1>1, <1>5
  <2>2. [shown[c] EXCEPT ![kind] = value].mic = value
    BY <1>1, <1>3, <1>4, <1>5, ShowsTyped
  <2> QED
    BY <2>1, <2>2
<1>6. ASSUME NEW c \in Conns, kind # "mic" PROVE shown'[c].mic = shown[c].mic
  <2>1. CASE kind = "count" /\ c \in members
    <3>1. shown'[c] = [shown[c] EXCEPT ![kind] = value]
      BY <1>1, <2>1
    <3>2. [shown[c] EXCEPT ![kind] = value].mic = shown[c].mic
      BY <1>3, <1>4, <2>1, ShowsTyped
    <3> QED
      BY <3>1, <3>2
  <2>2. CASE ~(kind = "count" /\ c \in members)
    BY <1>1, <1>6, <2>2
  <2> QED
    BY <2>1, <2>2
<1>7. ASSUME ~quit', ~dropped'
      PROVE  /\ LastSays(channel', "mic", lastMic')
             /\ Without(channel', "mic") =>
                   \A c \in audience'["mic"] \cap members' : shown'[c].mic = lastMic'
  <2>1. /\ LastSays(channel, "mic", lastMic)
        /\ Without(channel, "mic") => \A c \in audience["mic"] \cap members : shown[c].mic = lastMic
    BY <1>1, <1>7 DEF MicInv, loopVars
  <2>2. /\ LastSays(Tail(channel), "mic", lastMic)
        /\ Without(Tail(channel), "mic") =>
               IF kind = "mic" THEN value = lastMic ELSE Without(channel, "mic")
    BY <1>1, <2>1, AfterTail DEF kind, value
  <2>3. ASSUME Without(channel', "mic"), NEW c \in audience'["mic"] \cap members'
        PROVE  shown'[c].mic = lastMic'
    <3>1. c \in audience["mic"] \cap members /\ c \in Conns /\ lastMic' = lastMic
      BY <1>1, <2>3 DEF loopVars
    <3>2. CASE kind = "mic"
      BY <1>1, <1>5, <2>2, <2>3, <3>1, <3>2
    <3>3. CASE kind # "mic"
      BY <1>1, <1>6, <2>1, <2>2, <2>3, <3>1, <3>3
    <3> QED
      BY <3>2, <3>3
  <2> QED
    BY <1>1, <2>2, <2>3
<1>8. \A c \in audience'["mic"] : join'[c] = "done"
  BY <1>1 DEF MicInv, connVars
<1> QED
  BY <1>7, <1>8 DEF MicInv

LEMMA MicStep == TypeOK /\ JoinInv /\ MicInv /\ [Next]_vars => MicInv'
<1> SUFFICES ASSUME TypeOK, JoinInv, MicInv, [Next]_vars PROVE MicInv'
  OBVIOUS
<1>0. /\ members \subseteq Conns /\ quit \in BOOLEAN /\ dropped \in BOOLEAN
      /\ inbound \in Frame \cup {<<>>}
      /\ join \in [Conns -> {"new", "add", "count", "read", "replay", "mic", "last", "done"}]
      /\ audience \in [Msgs \cup {"ended", "mic"} -> SUBSET Conns]
      /\ \A c \in audience["mic"] : join[c] = "done" /\ c \in Conns
  BY DEF TypeOK, MicInv
<1>a. ASSUME NEW m, m # "mic", Heard(m) PROVE audience'["mic"] = audience["mic"]
  BY <1>0, <1>a DEF Heard
<1> USE DEF vars, loopVars, countVars, micVars, chatVars, connVars, clientVars
<1>1. CASE Fanout
  BY <1>1, MicFanout
<1>2. CASE SeeQuit \/ RunReturns
  BY <1>0, <1>2, MicUndisturbed DEF SeeQuit, RunReturns
<1>3. ASSUME NEW c \in Conns, Register(c) PROVE MicInv'
  BY <1>0, <1>3, MicUndisturbed DEF Register
<1>4. ASSUME NEW c \in Conns, Unregister(c) PROVE MicInv'
  BY <1>0, <1>4, MicUndisturbed DEF Unregister
<1>5. CASE Inbound
  <2>1. CASE Say
    <3>1. CASE \E on \in BOOLEAN : inbound = <<"mic", on>>
      <4>1. PICK on \in BOOLEAN : inbound = <<"mic", on>>
        BY <3>1
      <4>2. Enqueue(<<"mic", on>>) /\ Heard("mic") /\ UNCHANGED <<quit, join>>
        BY <2>1, <4>1 DEF Say
      <4> QED
        BY <4>2, MicSaid
    <3>2. CASE \E m \in Msgs : inbound = <<"chat", m>>
      <4>1. PICK m \in Msgs : inbound = <<"chat", m>>
        BY <3>2
      <4>2. Enqueue(<<"chat", m>>) /\ Heard(m) /\ UNCHANGED <<quit, members, shown, join>>
        BY <2>1, <4>1 DEF Say
      <4>3. m # "mic" /\ <<"chat", m>> \in Frame /\ <<"chat", m>>[1] # "mic"
        BY ConstantsOK, FrameKinds
      <4>4. audience'["mic"] = audience["mic"]
        BY <1>a, <4>2, <4>3
      <4> QED
        BY <4>2, <4>3, <4>4, MicHearsOther
    <3> QED
      BY <2>1, <3>1, <3>2 DEF JoinInv, Say
  <2>2. CASE PersistChat \/ InsertChat
    BY <1>0, <2>2, MicUndisturbed DEF PersistChat, InsertChat
  <2>3. ASSUME NEW c \in Conns, NEW on \in BOOLEAN, HandleMic(c, on) PROVE MicInv'
    BY <1>0, <2>3, MicUndisturbed DEF HandleMic
  <2>4. ASSUME NEW c \in Conns, NEW m \in Msgs, HandleChat(c, m) PROVE MicInv'
    BY <1>0, <2>4, MicUndisturbed DEF HandleChat
  <2> QED
    BY <1>5, <2>1, <2>2, <2>3, <2>4 DEF Inbound
<1>6. ASSUME NEW c \in Conns, OnRegister(c) PROVE MicInv'
  <2>1. CASE AddListener(c)
    BY <1>0, <2>1, MicUndisturbed DEF AddListener
  <2>2. CASE SayJoined(c)
    <3>1. <<"count", count[c]>> \in Frame /\ <<"count", count[c]>>[1] # "mic"
      BY FrameKinds DEF TypeOK
    <3>2. Enqueue(<<"count", count[c]>>) /\ UNCHANGED <<quit, members, shown, audience>>
      BY <2>2 DEF SayJoined, SayCount
    <3>3. \A d \in Conns : join[d] = "done" => join'[d] = "done"
      BY <1>0, <2>2 DEF SayJoined
    <3> QED
      BY <3>1, <3>2, <3>3, MicHearsOther
  <2>3. CASE ReadHistory(c)
    BY <1>0, <2>3, MicUndisturbed DEF ReadHistory
  <2>4. CASE ReplayHistory(c)
    BY <1>0, <2>4, MicUndisturbed DEF ReplayHistory
  <2>5. CASE ReadMic(c)
    BY <1>0, <2>5, MicUndisturbed DEF ReadMic
  <2>6. CASE ReplayMic(c)
    <3>1. \A d \in Conns : join[d] = "done" => join'[d] = "done" /\ shown'[d].mic = shown[d].mic
      BY <1>0, <2>6 DEF ReplayMic, TypeOK
    <3> QED
      BY <1>0, <2>6, <3>1, MicUndisturbed DEF ReplayMic
  <2> QED
    BY <1>6, <2>1, <2>2, <2>3, <2>4, <2>5, <2>6 DEF OnRegister
<1>7. ASSUME NEW c \in Conns, OnUnregister(c) PROVE MicInv'
  <2>1. CASE RemoveListener(c)
    BY <1>0, <2>1, MicUndisturbed DEF RemoveListener
  <2>2. CASE SayLeft(c)
    <3>1. <<"count", count[c]>> \in Frame /\ <<"count", count[c]>>[1] # "mic"
      BY FrameKinds DEF TypeOK
    <3>2. Enqueue(<<"count", count[c]>>) /\ UNCHANGED <<quit, members, shown, audience, join>>
      BY <2>2 DEF SayLeft, SayCount
    <3> QED
      BY <3>1, <3>2, MicHearsOther
  <2>3. CASE ClearOwnedMic(c)
    BY <1>0, <2>3, MicUndisturbed DEF ClearOwnedMic
  <2>4. CASE SayMicOff(c)
    BY <2>4, MicSaid DEF SayMicOff
  <2>5. CASE SayEnded(c)
    <3>1. <<"ended", TRUE>> \in Frame /\ <<"ended", TRUE>>[1] # "mic"
      BY FrameKinds
    <3>2. audience'["mic"] = audience["mic"]
      BY <1>a, <2>5 DEF SayEnded
    <3> QED
      BY <1>0, <2>5, <3>1, <3>2, MicHearsOther DEF SayEnded
  <2>6. CASE Stop(c)
    BY <1>0, <2>6, MicUndisturbed DEF Stop
  <2> QED
    BY <1>7, <2>1, <2>2, <2>3, <2>4, <2>5, <2>6 DEF OnUnregister
<1>8. CASE UNCHANGED vars
  BY <1>0, <1>8, MicUndisturbed
<1> QED
  BY <1>1, <1>2, <1>3, <1>4, <1>5, <1>6, <1>7, <1>8 DEF Next, Run
-----------------------------------------------------------------------------
(* What is said *)

FrameOf(m) == IF m = "ended" THEN <<"ended", TRUE>> ELSE <<"chat", m>>

Queued(q, f) == \E i \in DOMAIN q : q[i] = f

\* Whoever must hear m has registered; while still in Clients they have been shown m or
\* its frame is queued and the loop will get to it.
SaidInv ==
    /\ \A m \in Msgs \cup {"ended"} : \A c \in audience[m] : join[c] # "new"
    /\ ~dropped => \A m \in Msgs \cup {"ended"} : \A c \in audience[m] \cap members :
          m \in seen[c] \/ (loop # "returned" /\ Queued(channel, FrameOf(m)))

LEMMA QueuedAfter ==
  ASSUME NEW S, NEW q \in Seq(S), NEW f \in S
  PROVE  /\ Queued(Append(q, f), f)
         /\ \A g : Queued(q, g) => Queued(Append(q, f), g)
         /\ q # <<>> => \A g : Queued(q, g) => Head(q) = g \/ Queued(Tail(q), g)
<1>1. /\ Len(q) \in Nat /\ DOMAIN q = 1..Len(q) /\ DOMAIN Append(q, f) = 1..(Len(q) + 1)
      /\ Append(q, f)[Len(q) + 1] = f /\ \A i \in 1..Len(q) : Append(q, f)[i] = q[i]
  OBVIOUS
<1>2. Queued(Append(q, f), f)
  BY <1>1 DEF Queued
<1>3. ASSUME NEW g, Queued(q, g) PROVE Queued(Append(q, f), g)
  BY <1>1, <1>3 DEF Queued
<1>4. ASSUME q # <<>>, NEW g, Queued(q, g), Head(q) # g PROVE Queued(Tail(q), g)
  <2>1. /\ DOMAIN Tail(q) = 1..(Len(q) - 1) /\ Head(q) = q[1]
        /\ \A i \in 1..(Len(q) - 1) : Tail(q)[i] = q[i + 1]
    BY <1>4
  <2>2. PICK i \in 1..Len(q) : q[i] = g
    BY <1>1, <1>4 DEF Queued
  <2>3. i # 1
    BY <1>4, <2>1, <2>2
  <2>4. i - 1 \in 1..(Len(q) - 1) /\ (i - 1) + 1 = i
    BY <1>1, <2>2, <2>3
  <2>5. Tail(q)[i - 1] = g
    BY <2>1, <2>2, <2>4
  <2> QED
    BY <2>1, <2>4, <2>5 DEF Queued
<1> QED
  BY <1>2, <1>3, <1>4

\* A step that queues nothing new to hear and takes nothing away keeps it.
LEMMA SaidUndisturbed ==
  ASSUME TypeOK, SaidInv, audience' = audience, dropped => dropped', dropped' \in BOOLEAN,
         \A m \in Msgs \cup {"ended"} : Queued(channel, FrameOf(m)) => Queued(channel', FrameOf(m)),
         loop' = "returned" => loop = "returned",
         \A c \in Conns : /\ join[c] # "new" => join'[c] # "new"
                          /\ join[c] # "new" /\ c \in members' => c \in members
                          /\ seen[c] \subseteq seen'[c]
  PROVE  SaidInv'
<1>1. \A m \in Msgs \cup {"ended"} : audience[m] \subseteq Conns
  BY DEF TypeOK
<1>2. \A m \in Msgs \cup {"ended"} : \A c \in audience'[m] : join'[c] # "new"
  BY <1>1 DEF SaidInv
<1>3. ASSUME ~dropped', NEW m \in Msgs \cup {"ended"}, NEW c \in audience'[m] \cap members'
      PROVE  m \in seen'[c] \/ (loop' # "returned" /\ Queued(channel', FrameOf(m)))
  <2>1. ~dropped /\ c \in audience[m] \cap members /\ c \in Conns
    BY <1>1, <1>3 DEF TypeOK, SaidInv
  <2>2. m \in seen[c] \/ (loop # "returned" /\ Queued(channel, FrameOf(m)))
    BY <2>1 DEF SaidInv
  <2> QED
    BY <2>1, <2>2
<1> QED
  BY <1>2, <1>3 DEF SaidInv, FrameOf

\* Nor does the enqueueing of a frame nobody is followed for.
LEMMA SaidOther ==
  ASSUME TypeOK, SaidInv, NEW f \in Frame, Enqueue(f),
         \A m \in Msgs \cup {"ended"} : audience'[m] = audience[m],
         UNCHANGED <<loop, members, seen>>,
         \A c \in Conns : join[c] # "new" => join'[c] # "new"
  PROVE  SaidInv'
<1>1. /\ channel \in Seq(Frame) /\ Len(channel) <= BroadcastCap /\ dropped \in BOOLEAN
      /\ lastMic \in BOOLEAN /\ \A m \in Msgs \cup {"ended"} : audience[m] \subseteq Conns
  BY DEF TypeOK
<1>2. /\ channel' \in {channel, Append(channel, f)} /\ (dropped => dropped') /\ dropped' \in BOOLEAN
  BY <1>1, EnqueueTyped
<1>3. ASSUME NEW m \in Msgs \cup {"ended"}, Queued(channel, FrameOf(m))
      PROVE  Queued(channel', FrameOf(m))
  <2>1. Queued(Append(channel, f), FrameOf(m))
    BY <1>1, <1>3, QueuedAfter
  <2> QED
    BY <1>2, <1>3, <2>1
<1>4. \A m \in Msgs \cup {"ended"} : \A c \in audience'[m] : join'[c] # "new"
  BY <1>1 DEF SaidInv
<1>5. ASSUME ~dropped', NEW m \in Msgs \cup {"ended"}, NEW c \in audience'[m] \cap members'
      PROVE  m \in seen'[c] \/ (loop' # "returned" /\ Queued(channel', FrameOf(m)))
  <2>1. ~dropped /\ c \in audience[m] \cap members
    BY <1>1, <1>2, <1>5
  <2>2. m \in seen[c] \/ (loop # "returned" /\ Queued(channel, FrameOf(m)))
    BY <2>1 DEF SaidInv
  <2> QED
    BY <1>3, <2>1, <2>2
<1> QED
  BY <1>4, <1>5 DEF SaidInv, FrameOf

\* m is said: everyone in Clients is to hear it, and its frame is queued.
LEMMA SaidNow ==
  ASSUME TypeOK, JoinInv, SaidInv, NEW m \in Msgs \cup {"ended"}, NEW f \in Frame,
         f = FrameOf(m), Enqueue(f), Heard(m), UNCHANGED <<loop, quit, members, seen, join>>
  PROVE  SaidInv'
<1>0. m # "mic"
  BY ConstantsOK
<1>1. /\ channel \in Seq(Frame) /\ Len(channel) <= BroadcastCap /\ dropped \in BOOLEAN
      /\ lastMic \in BOOLEAN /\ audience \in [Msgs \cup {"ended", "mic"} -> SUBSET Conns]
      /\ quit \in BOOLEAN
  BY DEF TypeOK
<1>2. CASE quit
  <2>1. audience' = audience
    BY <1>2 DEF Heard
  <2> QED
    BY <2>1, SaidOther
<1>3. CASE ~quit
  <2>1. audience' = [audience EXCEPT ![m] = members]
    BY <1>0, <1>3 DEF Heard
  <2>2. /\ dropped => dropped'
        /\ ~dropped' => channel' = Append(channel, f)
    BY <1>1, <1>3, EnqueueTyped
  <2>3. loop = "select"
    BY <1>3 DEF JoinInv
  <2>4. \A n \in Msgs \cup {"ended"} : \A c \in audience'[n] : join'[c] # "new"
    BY <1>1, <2>1 DEF SaidInv, JoinInv
  <2>5. ASSUME ~dropped', NEW n \in Msgs \cup {"ended"}, NEW c \in audience'[n] \cap members'
        PROVE  n \in seen'[c] \/ (loop' # "returned" /\ Queued(channel', FrameOf(n)))
    <3>1. ~dropped /\ channel' = Append(channel, f)
      BY <1>1, <2>2, <2>5
    <3>2. CASE n = m
      <4>1. Queued(Append(channel, f), f)
        BY <1>1, QueuedAfter
      <4> QED
        BY <2>3, <3>1, <3>2, <4>1
    <3>3. CASE n # m
      <4>1. c \in audience[n] \cap members
        BY <1>1, <2>1, <2>5, <3>3
      <4>2. n \in seen[c] \/ (loop # "returned" /\ Queued(channel, FrameOf(n)))
        BY <3>1, <4>1 DEF SaidInv
      <4>3. Queued(channel, FrameOf(n)) => Queued(Append(channel, f), FrameOf(n))
        BY <1>1, QueuedAfter
      <4> QED
        BY <3>1, <4>2, <4>3
    <3> QED
      BY <3>2, <3>3
  <2> QED
    BY <2>4, <2>5 DEF SaidInv, FrameOf
<1> QED
  BY <1>1, <1>2, <1>3

\* A frame fanned out: every member is shown what it says.
LEMMA SaidFanout ==
  ASSUME TypeOK, SaidInv, Fanout
  PROVE  SaidInv'
<1> DEFINE kind == Head(channel)[1]
           value == Head(channel)[2]
<1>1. /\ channel \in Seq(Frame) /\ channel # <<>> /\ channel' = Tail(channel)
      /\ UNCHANGED <<loopVars, connVars, dropped, audience>>
      /\ seen' = [c \in Conns |->
                 CASE c \in members /\ kind = "chat"  -> seen[c] \cup {value}
                   [] c \in members /\ kind = "ended" -> seen[c] \cup {"ended"}
                   [] OTHER -> seen[c]]
      /\ members \subseteq Conns
  BY DEF Fanout, TypeOK
<1>2. Head(channel) \in Frame
  BY <1>1
<1>3. ASSUME NEW m \in Msgs \cup {"ended"}, Head(channel) = FrameOf(m)
      PROVE  IF m = "ended" THEN kind = "ended" ELSE kind = "chat" /\ value = m
  <2>1. \A v : <<"ended", v>>[1] = "ended"
    OBVIOUS
  <2>2. CASE m = "ended"
    <3>1. Head(channel) = <<"ended", TRUE>>
      BY <1>3, <2>2 DEF FrameOf
    <3>2. <<"ended", TRUE>>[1] = "ended"
      BY <2>1, Zenon
    <3>3. Head(channel)[1] = "ended"
      BY <3>1, <3>2, Zenon
    <3> QED
      BY <2>2, <3>3
  <2>3. CASE m # "ended"
    BY <1>3, <2>3 DEF FrameOf
  <2> QED
    BY <2>2, <2>3
<1> HIDE DEF kind, value
<1>4. \A c \in Conns : seen[c] \subseteq seen'[c]
  BY <1>1
<1>5. ASSUME NEW m \in Msgs \cup {"ended"}, Head(channel) = FrameOf(m), NEW c \in members
      PROVE  m \in seen'[c]
  BY <1>1, <1>3, <1>5
<1>6. ASSUME ~dropped', NEW m \in Msgs \cup {"ended"}, NEW c \in audience'[m] \cap members'
      PROVE  m \in seen'[c] \/ (loop' # "returned" /\ Queued(channel', FrameOf(m)))
  <2>1. ~dropped /\ c \in audience[m] \cap members /\ c \in Conns /\ loop' = loop
    BY <1>1, <1>6 DEF loopVars
  <2>2. m \in seen[c] \/ (loop # "returned" /\ Queued(channel, FrameOf(m)))
    BY <2>1 DEF SaidInv
  <2>3. Queued(channel, FrameOf(m)) => Head(channel) = FrameOf(m) \/ Queued(Tail(channel), FrameOf(m))
    BY <1>1, <1>2, QueuedAfter
  <2> QED
    BY <1>1, <1>4, <1>5, <2>1, <2>2, <2>3
<1>7. \A m \in Msgs \cup {"ended"} : \A c \in audience'[m] : join'[c] # "new"
  BY <1>1 DEF SaidInv, connVars
<1> QED
  BY <1>6, <1>7 DEF SaidInv, FrameOf

LEMMA SaidStep == TypeOK /\ JoinInv /\ SaidInv /\ [Next]_vars => SaidInv'
<1> SUFFICES ASSUME TypeOK, JoinInv, SaidInv, [Next]_vars PROVE SaidInv'
  OBVIOUS
<1>0. /\ members \subseteq Conns /\ dropped \in BOOLEAN /\ inbound \in Frame \cup {<<>>}
      /\ join \in [Conns -> {"new", "add", "count", "read", "replay", "mic", "last", "done"}]
      /\ audience \in [Msgs \cup {"ended", "mic"} -> SUBSET Conns]
      /\ seen \in [Conns -> SUBSET (Msgs \cup {"ended"})]
  BY DEF TypeOK
<1>a. ASSUME Heard("mic") PROVE \A m \in Msgs \cup {"ended"} : audience'[m] = audience[m]
  BY <1>0, <1>a, ConstantsOK DEF Heard
<1> USE DEF vars, loopVars, countVars, micVars, chatVars, connVars, clientVars
<1>1. CASE Fanout
  BY <1>1, SaidFanout
<1>2. CASE SeeQuit
  BY <1>0, <1>2, SaidUndisturbed DEF SeeQuit
<1>3. CASE RunReturns
  <2>1. \A f : ~Queued(channel, f)
    BY <1>3 DEF RunReturns, Queued
  <2>2. UNCHANGED <<audience, dropped, members, seen, join, channel>>
    BY <1>3 DEF RunReturns
  <2> QED
    BY <2>1, <2>2 DEF SaidInv, FrameOf
<1>4. ASSUME NEW c \in Conns, Register(c) PROVE SaidInv'
  BY <1>0, <1>4, SaidUndisturbed DEF Register
<1>5. ASSUME NEW c \in Conns, Unregister(c) PROVE SaidInv'
  BY <1>0, <1>5, SaidUndisturbed DEF Unregister
<1>6. CASE Inbound
  <2>1. CASE Say
    <3>1. CASE \E on \in BOOLEAN : inbound = <<"mic", on>>
      <4>1. PICK on \in BOOLEAN : inbound = <<"mic", on>>
        BY <3>1
      <4>2. /\ Enqueue(<<"mic", on>>) /\ Heard("mic") /\ UNCHANGED <<loop, members, seen, join>>
            /\ <<"mic", on>> \in Frame
        BY <2>1, <4>1, FrameKinds DEF Say
      <4>3. \A m \in Msgs \cup {"ended"} : audience'[m] = audience[m]
        BY <1>a, <4>2
      <4> QED
        BY <4>2, <4>3, SaidOther
    <3>2. CASE \E m \in Msgs : inbound = <<"chat", m>>
      <4>1. PICK m \in Msgs : inbound = <<"chat", m>>
        BY <3>2
      <4>2. Enqueue(<<"chat", m>>) /\ Heard(m) /\ UNCHANGED <<loop, quit, members, seen, join>>
        BY <2>1, <4>1 DEF Say
      <4>3. FrameOf(m) = <<"chat", m>> /\ <<"chat", m>> \in Frame
        BY ConstantsOK, FrameKinds DEF FrameOf
      <4> QED
        BY <4>2, <4>3, SaidNow
    <3> QED
      BY <2>1, <3>1, <3>2 DEF JoinInv, Say
  <2>2. CASE PersistChat \/ InsertChat
    BY <1>0, <2>2, SaidUndisturbed DEF PersistChat, InsertChat
  <2>3. ASSUME NEW c \in Conns, NEW on \in BOOLEAN, HandleMic(c, on) PROVE SaidInv'
    BY <1>0, <2>3, SaidUndisturbed DEF HandleMic
  <2>4. ASSUME NEW c \in Conns, NEW m \in Msgs, HandleChat(c, m) PROVE SaidInv'
    BY <1>0, <2>4, SaidUndisturbed DEF HandleChat
  <2> QED
    BY <1>6, <2>1, <2>2, <2>3, <2>4 DEF Inbound
<1>7. ASSUME NEW c \in Conns, OnRegister(c) PROVE SaidInv'
  <2>1. CASE AddListener(c)
    BY <1>0, <2>1, SaidUndisturbed DEF AddListener
  <2>2. CASE SayJoined(c)
    <3>1. <<"count", count[c]>> \in Frame
      BY FrameKinds DEF TypeOK
    <3>2. /\ Enqueue(<<"count", count[c]>>) /\ UNCHANGED <<loop, members, seen, audience>>
          /\ \A d \in Conns : join[d] # "new" => join'[d] # "new"
      BY <1>0, <2>2 DEF SayJoined, SayCount
    <3> QED
      BY <3>1, <3>2, SaidOther
  <2>3. CASE ReadHistory(c)
    BY <1>0, <2>3, SaidUndisturbed DEF ReadHistory
  <2>4. CASE ReplayHistory(c)
    <3>1. \A d \in Conns : seen[d] \subseteq seen'[d]
      BY <1>0, <2>4 DEF ReplayHistory
    <3> QED
      BY <1>0, <2>4, <3>1, SaidUndisturbed DEF ReplayHistory
  <2>5. CASE ReadMic(c)
    BY <1>0, <2>5, SaidUndisturbed DEF ReadMic
  <2>6. CASE ReplayMic(c)
    BY <1>0, <2>6, SaidUndisturbed DEF ReplayMic
  <2> QED
    BY <1>7, <2>1, <2>2, <2>3, <2>4, <2>5, <2>6 DEF OnRegister
<1>8. ASSUME NEW c \in Conns, OnUnregister(c) PROVE SaidInv'
  <2>1. CASE RemoveListener(c)
    BY <1>0, <2>1, SaidUndisturbed DEF RemoveListener
  <2>2. CASE SayLeft(c)
    <3>1. <<"count", count[c]>> \in Frame
      BY FrameKinds DEF TypeOK
    <3>2. Enqueue(<<"count", count[c]>>) /\ UNCHANGED <<loop, members, seen, audience, join>>
      BY <2>2 DEF SayLeft, SayCount
    <3> QED
      BY <3>1, <3>2, SaidOther
  <2>3. CASE ClearOwnedMic(c)
    BY <1>0, <2>3, SaidUndisturbed DEF ClearOwnedMic
  <2>4. CASE SayMicOff(c)
    <3>1. /\ Enqueue(<<"mic", FALSE>>) /\ Heard("mic") /\ UNCHANGED <<loop, members, seen, join>>
          /\ <<"mic", FALSE>> \in Frame
      BY <2>4, FrameKinds DEF SayMicOff
    <3>2. \A m \in Msgs \cup {"ended"} : audience'[m] = audience[m]
      BY <1>a, <3>1
    <3> QED
      BY <3>1, <3>2, SaidOther
  <2>5. CASE SayEnded(c)
    <3>1. FrameOf("ended") = <<"ended", TRUE>> /\ <<"ended", TRUE>> \in Frame
      BY FrameKinds DEF FrameOf
    <3>2. Enqueue(<<"ended", TRUE>>) /\ Heard("ended") /\ UNCHANGED <<loop, quit, members, seen, join>>
      BY <2>5 DEF SayEnded
    <3> QED
      BY <3>1, <3>2, SaidNow
  <2>6. CASE Stop(c)
    BY <1>0, <2>6, SaidUndisturbed DEF Stop
  <2> QED
    BY <1>8, <2>1, <2>2, <2>3, <2>4, <2>5, <2>6 DEF OnUnregister
<1>9. CASE UNCHANGED vars
  BY <1>0, <1>9, SaidUndisturbed
<1> QED
  BY <1>1, <1>2, <1>3, <1>4, <1>5, <1>6, <1>7, <1>8, <1>9 DEF Next, Run

-----------------------------------------------------------------------------
(* What follows for the clients *)

LEMMA FramesInit == Init => JoinInv /\ CountInv /\ MicInv /\ SaidInv
<1> SUFFICES ASSUME Init PROVE JoinInv /\ CountInv /\ MicInv /\ SaidInv
  OBVIOUS
<1>1. JoinInv
  BY DEF Init, JoinInv
<1>2. channel = <<>> /\ members = {} /\ DOMAIN channel = {}
  BY DEF Init
<1>3. CountInv
  BY <1>2 DEF Init, CountInv, LastSays, Without
<1>4. MicInv
  BY <1>2 DEF Init, MicInv, LastSays, Without
<1>5. SaidInv
  BY <1>2 DEF Init, SaidInv
<1> QED
  BY <1>1, <1>3, <1>4, <1>5

LEMMA FramesInductive == Spec => [](TypeOK /\ JoinInv /\ CountInv /\ MicInv /\ SaidInv)
<1>1. Init => JoinInv /\ CountInv /\ MicInv /\ SaidInv
  BY FramesInit
<1>2. TypeOK /\ JoinInv /\ CountInv /\ MicInv /\ SaidInv /\ [Next]_vars
        => JoinInv' /\ CountInv' /\ MicInv' /\ SaidInv'
  BY JoinStep, CountStep, MicStep, SaidStep
<1>3. Spec => []TypeOK
  BY TypeCorrect
<1> QED
  BY <1>1, <1>2, <1>3, PTL DEF Spec

\* When nothing is under way every client shows the size of the listeners set, however joins
\* and leaves were interleaved (countMu around the mutation and its frame), unless Redis did
\* not give it to the very last of them.
THEOREM CountsConvergeAlways == Spec => []CountsConverge
<1>1. TypeOK /\ JoinInv /\ CountInv => CountsConverge
  <2> SUFFICES ASSUME TypeOK, JoinInv, CountInv, Quiescent, ~dropped, ~miscounted,
                      NEW c \in members
               PROVE  shown[c].count = Cardinality(counted)
    BY DEF CountsConverge
  <2>1. countMu = NoConn
    BY DEF CountInv, Quiescent, TypeOK
  <2>2. Without(channel, "count")
    BY DEF Quiescent, Without
  <2>3. join[c] \notin {"add", "count"}
    BY DEF Quiescent, TypeOK
  <2> QED
    BY <2>1, <2>2, <2>3 DEF CountInv, Quiescent
<1> QED
  BY <1>1, FramesInductive, PTL

\* What was said to a client that is still there has been shown to it when nothing is under
\* way, and when the loop has returned (the flush before Run returns).
THEOREM SaidIsHeardAlways == Spec => []SaidIsHeard
<1>1. TypeOK /\ SaidInv => SaidIsHeard
  <2> SUFFICES ASSUME TypeOK, SaidInv, Quiescent \/ loop = "returned", ~dropped,
                      NEW m \in Msgs \cup {"ended"}, NEW c \in audience[m] \cap members
               PROVE  m \in seen[c]
    BY DEF SaidIsHeard
  <2>1. Quiescent => ~Queued(channel, FrameOf(m))
    BY DEF Quiescent, Queued
  <2> QED
    BY <2>1 DEF SaidInv
<1> QED
  BY <1>1, FramesInductive, PTL

\* Those who had joined when the last mic frame was enqueued show what it says in the end:
\* no older frame and no replay comes after it.
THEOREM MicHeardInOrderAlways == Spec => []MicHeardInOrder
<1>1. MicInv => MicHeardInOrder
  <2>1. Quiescent => Without(channel, "mic") /\ ~quit
    BY DEF Quiescent, Without
  <2> QED
    BY <2>1 DEF MicInv, MicHeardInOrder
<1> QED
  BY <1>1, FramesInductive, PTL
=============================================================================
