# A verification development for the Jukebox backend

TLA+ models of the Go server under `src/`, the TLC runs that check them on small
instances, and theorems about them that TLAPS proves for every instance. Paths are
relative to `src/internal` unless they start with `src/` or `cmd/`.

1. The system: parts, state, interactions, hard behaviours
2. The modules and how they correspond to the code
3. The runs: what each one asks, its bounds, what it shows
4. Where the code and its documentation disagree
5. The proofs
6. Fairness
7. What is abstracted, what is not modelled
8. Plan

## 1. The system

The server hosts rooms. In a room a DJ plays tracks, listeners hear them in sync, chat and
submit tracks to a queue. An *autoplay* room has no DJ: it loops over a playlist. One
process serves a room: its hub (in memory), with Postgres and Redis behind it. The process
is restarted at will; Postgres and Redis survive.

### Components

| Component | State | Operations | Talks to |
|---|---|---|---|
| WebSocket admission, `handlers/websocket.go`, `wsticket.go` | connections per IP | redeem ticket, take and release an IP slot, session cap, attach to a hub | HubManager, Redis |
| Hub and HubManager, `ws/hub.go`, `ws/client.go` | `Clients`, `pendingRegs`, `stopping`, `quit`, mic, channels Register/Unregister/Inbound/Broadcast/persistCh; the map room -> hub | Run loop, join- and leave-time goroutines, inbound actions, fanout, stop | Redis listener set, `listen_events`, `rooms`, SyncService |
| SyncService, `playback/sync.go` | one timer and one `lastAdvance` per room | schedule, cancel, advance, reports of ends and durations, start of the autoplay rooms | queue, playlist, Redis playback state, `now_playing`, hub |
| Request queue, `handlers/queue.go`, `ws/hub.go`, `store/postgres.go` | `queue_entries`, `rooms.request_policy` | submit (HTTP, WebSocket), approve, reject, pop, set policy | hub, SyncService |
| Rooms, `handlers/rooms.go`, `store/postgres.go`, `store/users.go` | `rooms` (live, autoplay, ended_at, last_active_at) | create, go live, end, delete, feature, reset at boot, ghost clean-up | hub, SyncService |
| Idle monitor, `playback/idle_monitor.go` | `idleSince` per room | tick every minute, close after 15 minutes | rooms, Redis, hub |
| Autoplay playlists, `handlers/admin.go`, `store/autoplay.go` | live and staged playlist, `current_index` | stage, edit, activate, start, stop | SyncService |
| Accounts, `handlers/auth.go`, `store/users.go` | users, refresh tokens, verification and reset tokens | sign up, verify, log in, refresh with a 15 s grace, revoke, reset | mail, Redis limiter |
| Neon, `handlers/monetization.go`, `store/monetization.go` | balances, ledger, tubes, creator pools | credit, spend, tip, level a tube, payouts | users, rooms |
| Request caches, `middleware/cache.go`, `session.go`, `handlers/roomscache.go` | process-local maps with a TTL | load, invalidate, singleflight | Redis, Postgres |
| Anti-spam, `antispam/` | fixed-window counters in Redis, block list | allow, verify a captcha, look up MX | Redis, outside services |
| Migrations, `store/postgres.go` | schema version, advisory lock | run at boot | Postgres |
| Messages, user playlists, DJ profiles, metrics, support | rows | one statement per request | Postgres |
| YouTube, LiveKit, mail, Sentry | none | calls to outside services | the network |

### How they interact

A connection redeems a ticket, takes an IP slot, gets its room's hub from the manager and
registers through a channel. The Run loop adds it to `Clients` and spawns `onRegister`
(Redis count, listen row, snapshot); when the socket dies the loop removes it and spawns
`onUnregister` (the reverse, then the decision whether the hub stops or even the room is
deleted). A DJ's actions arrive in `Inbound` and one goroutine handles them in order. HTTP
handlers write the same rows and call the same hub and SyncService from goroutines of their
own, and so does each timer. Nothing but two mutexes per hub, one per SyncService, and
single SQL transactions orders them; most operations are several calls to Redis and
Postgres with nothing held in between. That is where the hard behaviours come from:

- a hub stops while someone joins; a leave overtakes its join; two tabs of one session;
- frames, snapshots and the state they describe change in three separate steps;
- several goroutines advance one room; a timer outlives the track it was set for; a session
  ends, or an admin replaces the playlist, while an advance is between two calls;
- a crash between two of those calls; only Redis and Postgres come back;
- two transactions pop, positions repeat, a cap is counted long before the insert.

`PROJECT.json` lists every hazard at its line with the properties that watch it.

### What makes each component correct

- *Hub*: one serving hub per room; an idle shutdown strands nobody; a stopped hub admits
  nobody; counts, slots and listen rows are given back on every path; nobody blocks for ever.
- *Broadcasting*: counts converge; what was said is heard, also as the hub stops; mic frames
  keep their order.
- *Playback*: one advance at a time; what plays has its end scheduled; index, now_playing and
  playback state agree; listeners cannot skip a track early; silence ends; an end is final.
- *Queue*: nothing plays more often than approved; nothing overtakes who waited in front;
  the cap holds.
- *Rooms, idle monitor*: a room with nothing to play is closed; an ended room is silent
  and its timers are gone; nobody has more open rooms than the cap.
- *Autoplay playlists*: the live playlist's index names the track that is heard, whatever is
  edited, staged and activated on the air.
- *Accounts*: a login has one good refresh token at any time; after a new password no old
  session works; reuse detection strikes only when a token was really used twice; a ban holds.
- *Neon, Plus, the pool*: a tip is one transfer, whatever its statements and transactions do;
  a tube levels once per fill; what is kept in two rows agrees; nobody is paid twice.
- *Caches*: one build per window; nothing stale outlives an invalidation but for a late write.

## 2. The modules and how they correspond to the code

| Module | Models | Module that instantiates it | Proofs |
|---|---|---|---|
| `Service` | what the hubs of a room promise to those who connect (abstract) | - | - |
| `Hub` | lifecycle of the hubs of one room, presence, slots; implements `Service` | `MCHub` | `HubProofs` |
| `Frames` | what the clients of one hub are shown | `MCFrames` | `FramesProofs` |
| `Playback` | what one room plays, its timer, restarts | `MCPlayback` | `PlaybackProofs` |
| `Turns` | what the queue promises to those who submit (abstract) | - | - |
| `RoomQueue` | the rows of one room's queue; implements `Turns` | `MCRoomQueue` | `RoomQueueProofs` |
| `Rooms` | the rooms of one creator, the playlists of one autoplay room, the cached list | `MCRooms` | `RoomsProofs` |
| `Accounts` | one account, its tokens and links, its cached copy | `MCAccounts` | `AccountsProofs` |
| `Ledger` | what the neon currency promises (abstract) | - | - |
| `Monetization` | neon, tubes, Plus, DJ subscriptions, the creator pool; implements `Ledger` | `MCMonetization` | `MonetizationProofs`, over `Sums` |

`Hub`, `Frames`, `Playback` and `RoomQueue` model one room each, since rooms share nothing that
they follow. Goroutines are the processes; a step is one critical section, one channel hand-over
or one call to Redis or Postgres. The HTTP handlers of the other modules are requests: what a
request still has to do is a list of its statements, or a program counter where it branches, and
every statement is a step that may fail. `PROJECT.json`'s `map` gives the source lines of every
definition.

**Hub.** A connection's `stage` is the program counter of its handler (`new` to `sending`), its
ReadPump (`open`, `leaving`) and its `onUnregister` goroutine (`barrier` to `unlink`); `join` is
that of its `onRegister`, which runs beside them. `gone` is a connection whose goroutines are
done; `stranded` one whose hub quit before it unregistered, so that no `onUnregister` ran. `Hubs`
are generations of the room's hub: the manager's map entry is `hub`, and a hub that is removed is
never used again, though its goroutines still run. `hand[h]` is the registration the Run loop has
received and not yet acted on, which is what lies between the channel receive and `h.mu.Lock()`.
`room` is what the rooms row says of having been live, which GoLive, the ends of a session and the
idle monitor's ghost clean-up change at any time; the clean-up does not look whether anybody is
connected. `listen` has one row per session because the primary key of `listen_events` is the pair
of session and room.

**Service.** Generations of a server that open and close one after another. It promises to take
somebody in, does so or lets them down, and may close only when nobody is in or expected, or when
the room is condemned. `KeepsTheService` maps `Hub` onto it: the generation that serves is `hub`,
those used are `started`, it is closing once `stopping` is set, expected is who is in flight to it
(`pendingRegs` as a set), in it are its `Clients`, and condemned is a room that is gone, or, where
`StoreFails`, may be taken for gone. The goroutines of earlier hubs, which run on, are not seen.

**Frames.** One hub generation. State change, enqueue, fanout, snapshot read and snapshot
send are separate steps. `shown` and `seen` are what a client's UI holds. `audience`,
`dropped` and `lastMic` are history variables of the properties. `scene` picks, at the start,
who comes and what is said: three small rooms whose traffic does not interfere in the code
are explored side by side instead of multiplied.

**Playback.** A goroutine is the list `todo` of the calls it still has to make, plus what it
read (`ps`, `length`, `index`); `DJActions` and `Concurrent` are the handlers as such lists,
and each call is one action. A handler that branches replaces its list (`WhichRoom`,
`PopNextTrack`, `StartRoom`). Absolute times are replaced by ages (`playback.age`), by what
the timer has left (`left`) and by the time since the last advance (`since`), each saturated
where the code stops distinguishing. `room` picks at the start what kind of room it is and
which handlers occur in it. The idle monitor is one more goroutine (`Monitor`): three reads, a
judgement under its mutex (`idle` is the age of the room's entry in `idleSince`), and the close.

**RoomQueue.** `stage` is each submission's handler; the `inboundLoop` (`loop`) handles those
over the WebSocket one at a time and is busy until they end, those over HTTP run freely.
`lock` is the row lock of each `PopNextTrack` transaction (`FOR UPDATE SKIP LOCKED`); an
UPDATE of a locked row waits. `position` need not be unique, as in the table.

**Turns.** No positions, locks or policies: an entry is out, asking, queued or called, and
remembers whom it found waiting. `KeepsTheTurns` maps `RoomQueue` onto it: a turn is taken when
`AddToQueue` reads the highest position, though the row comes a statement later; pending is asking,
approved is queued, and a locked row is called. The order of calls is a guard of `Turns` that no
code spells out: in the code it follows from `MAX`, `ORDER BY position` and `SKIP LOCKED`.

**Rooms.** `Plan` gives the statements of each handler of `handlers/rooms.go` and
`handlers/admin.go` and of the radio's advance; `call[c].todo` is what is left of them. A call
carries what it has read: the tracks and the index of the live playlist, what plays. The
playlist's `index` is `current_index + 1`, so that 0 is the column's -1. `heard` is the playback
state in Redis, `now` the row of now_playing. `torn` is a history variable: a statement wrote
what the radio plays or is to play although another had done so since its request read it, or
one failed half way; an advance that nobody meets clears it. `flight` is the request that
singleflight lets build the list, `"wait"` are those it makes wait.

**Accounts.** One row of `users`. A token has a family (the login it stems from) and a basis
(the password it stems from), which the database does not have: they are what the properties
are about. `token[t].status` is `revoked` within the grace period and `stale` after it; deleted
rows have `none`. `cache` is the middleware's copy; its `late` mark says that it was put there
by a request that had read the row before an invalidation. A browser keeps the tokens of the
last answer it got and may send any number of requests at once.

**Monetization and Ledger.** Inside a transaction the model keeps the steps that take a row
lock (`UserRowFree`, `TubeRowFree`) and the commit, which makes all writes at once. `call[c].row`
is the tube as `ResolveTubeOverflow` has it in memory while it loops (`LevelUp`). `Ledger` has
three steps, a purchase, a tip and the settling of a tube, where a settled tube is a function of
what the room was given (`Display`). `KeepsTheLedger` is the refinement: wallets are balances,
what was given is the sum of the ledger rows, a tube is a tube without its total. `torn`,
`doubled`, `poolTorn` and `unsettled` are histories of overlaps and failures.

## 3. The runs

`tlc -config X.cfg M` in this directory. Twelve runs, each its own question.

| Run | Instance | Question |
|---|---|---|
| `hub_dj` | 2 tabs of one user, both with DJ status and slow, 2 hubs, Inbound of 1, room may end | the listener set, listen rows and the mic are given back by whoever holds them, in every order of joins, leaves, evictions and deletions; the hubs implement the service: only a deletion lets anybody down |
| `hub_crowd` | 3 connections, two of one session, two behind one address; any Redis or Postgres call may fail | admission, the idle shutdown and the slots are consistent whatever fails |
| `hub_live` | 2 tabs of one session, under fairness | nobody waits for ever: registration, barrier, slot; no idle hub leaks |
| `hub_delete` | violation | a room deleted after it went live |
| `frames_scenes` | 3 clients who come and go; chat and room_ended; a DJ's mic. Channel of 2 | counts converge, what is said is heard, mic frames in order |
| `playback_rooms` | a DJ's room with every WebSocket action, a room over HTTP, an attended radio whose listeners report at any time and an admin stops; 3 goroutines, 2 tracks queued, 2 in the playlist | track, timer and debounce stay consistent in each |
| `playback_silence` | an autoplay room under activations and reported ends, another under starts and learned durations; a DJ's room whose DJ goes live over HTTP and which the idle monitor watches; one crash; under fairness | the first two never stay silent, the third is closed when nothing is left to play |
| `queue` | 3 entries, 2 of one session over the WebSocket and 1 by the DJ over HTTP, 2 poppers, cap 1, 2 approvals each | at most one play per approval, turns that nobody overtakes, cap |
| `rooms` | 2 requests at a time, 3 in all, of all 14 kinds; 2 songs, 5 lists; cap 1 | the index names what is heard, one build per window, the cap but for its races |
| `accounts` | 2 browsers, an admin, 2 requests at a time, 3 in all, of all 14 kinds | refresh tokens, passwords, reuse detection and bans hold under every overlap and failure |
| `accounts_edits` | violation; 1 browser, one request at a time | a profile edit undoes the one before it |
| `monetization` | 2 users, a room of one, 3 requests at once; levels of 2, 3 and a missing target; caps that some minutes reach | the transactions implement the ledger; rows that belong together agree; the pool pays once |

**Why these bounds.** *Hub*: every hazard of the shutdown needs one leaver that decides, one
joiner in flight and at most one bystander, so three connections; two generations are needed so
that a stop can hit a successor, and connections are used once, so a third could only repeat what
the second does. Caps of 1 and 2 are reached by three connections. *Frames*: two concurrent count
changes and one observer; one message and one DJ suffice for chat and mic since each frame is
independent of the others. The channel of two gets full, and the properties then say nothing
(`dropped`). *Playback*: the constants keep the order the code has, `Slack < Debounce < MinPlay <
Fallback < MaxLength` (`IdleTimeout` is compared with none of them), and one submitted track is
just as long as the debounce, the least for which `EndIsScheduled` holds (section 4). Three
goroutines are enough for two to race and a third to spawn. In time, a call takes no time unless
`Slow` is set: the debounce of 10 s is meant to be longer than an advance, and `OneAdvanceAtATime`
says so. *Queue*: a turn relates two entries and a third in between; two poppers are the timer and
`dj_skip`. `MaxApprovals` bounds how often a DJ approves one entry again. *Rooms*, *Accounts*:
every hazard is a pair of requests that overlap, after at most one that set the scene, so two at a
time and three in all (`MaxRequests`); a request names what it creates, so the bound also bounds
rooms, tokens, links and passwords. *Monetization*: two tips of different amounts and a third
request between them; the tips pass none, one or two levels and wrap; `Opening` lets a wallet run
short. `SYMMETRY` merges what differs in name alone: generations of a hub, goroutines,
requests, poppers, and the two entries of one session that come over the WebSocket.

**Preconditions.** A run checks its claim where the code makes it. `OneAdvanceAtATime`,
`EndIsScheduled`, `NowPlayingIsPlayed` and `SkipRateCapped` name the handlers of the rooms
they speak of, because elsewhere they do not hold; section 4 lists how they fail. Three of them
also say that calls take no time to speak of (`~Slow`): an advance slower than the debounce is
overtaken. In
`PresenceSettles` and `NoIdleHubLeft` the comment names the switch
(`StoreFails`, `RoomEnds`) their run turns off; in `KeepsTheService` a room whose
`DeleteRoom` may fail counts as condemned. `SubmitsWithinCap` speaks of sessions that
submit over the WebSocket alone. Most properties of `Rooms`, `Accounts` and `Monetization` have
the form "unless two requests overlapped, or one failed half way": these handlers open no
transaction, so that is what the code promises. A history variable records just those
overlaps, never more, and each mutant breaks its property without one.

**What passing shows.** Beyond the plain reading: `PresenceSettles` describes exactly who can
leave a ghost listener or an open listen row behind. A client
evicted by `fanout` from a hub that then stops never runs `onUnregister`, so its session stays
in the Redis set and its listen row open until the room's next clean-up; the model has this
(`stranded`) and the property allows it and nothing else. `NoIdleHubLeft` is limited to rooms
that never went live: a room that ends after its last client left keeps its hub and three
goroutines, since only a leave looks whether the hub is idle. `OldPasswordSessionsEnd` names
the sessions that survive a new password: those whose token was being issued just then, and
their successors. `BanStands` does the same for the cached copy of a banned user, which the
cache's 20 seconds bound. `OpenWithinCap` gives the number of rooms by which creations at once
can pass the cap: one per further request, and one per count that failed.

## 4. Where the code and its documentation disagree

Two runs end in a violation, and each is a finding in `PROJECT.json`.

- `hub_delete`: the DJ of a never-live room leaves. `onUnregister` asks `WasRoomEverLive`, a
  GoLive commits, `DeleteRoom` deletes the live room (`ws/hub.go:409-424`).
- `accounts_edits`: a profile edit writes all fields, those it does not name from the cached
  user, and does not drop the cache entry: the next edit within 20 seconds writes the field
  before back (`handlers/auth.go:715-793`, against `middleware/jwt.go:100-102`).

Four more configurations reproduce a divergence each; they are kept here to be run by hand and
end in a violation of the property they name.

- `MCFrames_replay.cfg`, `MicShownIsCurrent`: a new client's mic replay was read before a toggle
  and is sent after it; the client shows the old mic state until the next toggle
  (`ws/hub.go:630-643`). The comment at 530-536 lists the consequences of this interleaving and
  calls them self-correcting.
- `MCPlayback_stall.cfg`, `TimedToEnd`: `dj_go_live` and `dj_skip` over the WebSocket start a
  track and schedule nothing (`src/README.md:164` promises the pop). After `dj_go_live` the room
  falls silent at the end of the track; after `dj_skip` the timer of the track before cuts the
  new one short, or its firing is the only one.
- `MCPlayback_end.cfg`, `EndIsFinal`: an advance that popped before `endRoom` writes now_playing,
  playback state and timer after it (`handlers/rooms.go:570-585`).
- `MCAccounts_hold.cfg`, `HoldStands`: `store/users.go:88` says that a held account stays
  unverified until an admin releases it; a mail resent after the hold verifies it.

Others were met while modelling and have no configuration of their own.

Playback and frames:

- `playback/sync.go:148`: the debounce also swallows the timer of a track shorter than 10 s,
  and nothing fires again, though `models/trackvalidate.go:60` admits such tracks and
  `src/README.md:164` promises the pop. `EndIsScheduled` is limited to rooms without
  them (`NoneTooShort`), not just to the time they play: with one of 1 in the instance TLC finds
  a longer track that an advance and a GoLive, racing, left with the short one's timer.
- `playback/sync.go:105`: scheduling a track of unknown duration stops the room's timer. When two
  GoLives race, that may be the timer of the other's track, which then plays untimed
  (`NoneUnknown`).
- `store/postgres.go:63`: a restart clears `now_playing` and leaves the playback state in Redis,
  so that a room relaunched later shows nothing while a track plays (`restarts = 0` in
  `NowPlayingIsPlayed`).
- `ws/hub.go:398`: the mic state changes under `mu`, its frame is enqueued after: a departing
  owner's "off" can be queued behind another DJ's "on" (the comment at 111 speaks of a mirror).
- `ws/hub.go:758`: chat is broadcast before it is stored; a client that joins in between gets
  it neither live nor from history, though 536-537 argues that nothing is missed.
- `playback/sync.go:336`: a duration report re-arms the timer from a track it read earlier;
  `StartAutoplayRooms` (373) does the same, and its re-arming also cancels a timer that an
  advance has just set.
- `playback/idle_monitor.go:153`: the monitor judges on reads made before its mutex, and
  `idleSince` survives an end and a relaunch between two ticks: a room that has just begun to
  play, or has just been relaunched, may be closed, though 18-19 says "stays idle for
  idleTimeout". A track that ended and was not followed still counts as playback, so a room
  that stalled (`TimedToEnd`) is never closed. The close leaves the room's timer alone.

Rooms, playlists, queue:

- `store/autoplay.go:157`: an advance's index write may land in the playlist that has just
  been activated with index 0 (`handlers/admin.go:807`), and the save of an edit may undo an
  advance or bring back the tracks of a list that an activation has replaced; the index is wrong
  until the next advance (`torn`).
- The comment above `UpdateLiveTracks` (`handlers/admin.go:674`) says that the index of the
  *next* track is saved; the code (722) saves that of the current one. The code is right: with
  the comment's rule `IndexNamesHeard` is violated (the mutant `ReconciledToNext`).
- `store/autoplay.go:106`: with nothing staged, as after a double click on "activate", the
  transaction commits the deletion of the live playlist, then the request answers 400.
- `handlers/admin.go:201`: the shutdown of an autoplay room leaves `is_autoplay` set; the next
  activation or start of any room, or a restart, puts it on the air again.
- `handlers/queue.go:103` against 85: over HTTP the cap is counted long before the insert and
  two requests exceed it; so do the creations of rooms (`handlers/rooms.go:115`), whose cap is
  also not applied when the count fails.
- `store/postgres.go:358`: going live again leaves `ended_at` set; a day later the list of
  rooms, the idle monitor and the count of active rooms do not see the live room.
- `store/users.go:425`: featuring a room clears the others and sets it in two statements, and an
  official room is inserted featured before the others are cleared: two requests leave two.

Accounts and money:

- `handlers/auth.go:822`: a password change and the deletion of an account compare with the
  hash in the cached user, so that for 20 seconds an old password still authorises them.
- `handlers/auth.go:841` says "except current session"; all of them are deleted, and the
  answer brings a new one.
- `store/users.go:42`: on an error other than "no rows" `GetUserByID` returns an empty user, not
  nil. The middleware then takes the request for one of a user without an id, and a refresh
  answers with tokens for nobody (`handlers/auth.go:426`) after it has used up the good one.
- `store/monetization.go:89`: `GetDJSubscription` does the same, so that a failed read is
  answered with "already subscribed"; nobody looks whether the DJ has subscriptions enabled.
- `neon_transactions` references its room and its sender without a cascade
  (`src/migrations/009_monetization.up.sql:54-55`). A room that was ever tipped cannot be
  deleted, and one such ghost room makes the clean-up of all fail (`store/postgres.go:405`); an
  account that ever tipped cannot be deleted either (`store/users.go:327-338`: the DELETE before
  it names a column that does not exist, and its error is ignored).

## 5. The proofs

TLC checks instances; these theorems hold for every value of the constants that satisfies
`ConstantsOK`. `tlapm M.tla` checks those of a module `M`: `HubProofs`, `FramesProofs`,
`PlaybackProofs`, `RoomQueueProofs`, `RoomsProofs`, `AccountsProofs`, `MonetizationProofs`, and
`Sums`, the lemmas the last one rests on. What `ConstantsOK` assumes is what the code gives: caps
and times are numbers in the order the code has them, users and connections are finite where they
are counted, a chat message is neither the mic frame nor `room_ended`, `Ended` is no user, and what
a room's queue holds at the start was submitted.

**`HubProofs`** (eleven theorems).

- `TypeCorrect`: `TypeOK`, strengthened by `HubAssigned` (past `Attach` a connection has a
  hub), without which `members[hubOf[c]]` has no type.
- `RoomHasOneHub` (`OneServingHub`). Inductive is `StopInv`: whoever is between `EnterStop`
  and `RemoveHub` is the only one for its hub (`sync.Once`), `quit` follows `once` follows
  `stopping`, and at `unlink` the manager still names that very hub. The last part is what
  makes `Remove` by room id safe, and it needs the one before: nobody else removed it.
- `StoppedHubAdmitsNobody` (`NoAdmissionAfterStop`), an action property: a step that adds to
  `Clients` checks `stopping` in the same critical section.
- `PendingRegsCorrect` and `IdleStopSafe`. Inductive is `RegsInv`: what the loop holds in its
  hand belongs to it and has left `sending` (`HandInv`), `pendingRegs` is the cardinality of
  `InFlight`, and a hub that committed for being idle has neither clients nor registrations.
  `FlightSteps` reduces every step to "one connection joins or leaves the set in flight of one
  hub" so that cardinalities are counted in one place.
- `OnlyDeletionStopsUnderClients` (`OnlyDeletionStrands`), assuming `StoreFails = FALSE`, with
  `StopCause`: who is about to stop a hub found it idle or deleted the room. No run checks it
  apart from `KeepsTheService`.
- `ServiceKept` (`KeepsTheService`), the refinement: initial states map to initial states of
  `Service`, and every step to one of its steps or a stutter. Inductive is `ServiceInv`: `StopInv`,
  `RegsInv`, `LifeInv` and `IdleInv` together, with `StopCause` unless a store may fail. From it,
  a generation that was started and has not committed to stopping is the registered one, so that
  whatever is done to any other is not seen; and one that was never started is empty, so that the
  service opens with nobody in it (`OnlyTheServing`). A registration claimed is `Promise`, its
  admission `Admit`; a refusal happens only on a hub that is stopping.
- `SlotsCounted` (`SlotsExact`). It rests on `LifeInv`, the life of a connection: `onRegister` runs
  only past the hand-over and before the barrier, what the loop has in hand is not yet in
  `Clients`, and whom either holds is still read from, or is stranded by a quit. Inductive with it
  is `SlotInv`: whoever is on the way in, in the loop's hand or in the `Clients` of a serving hub
  has its slot and an open `done`, so that no `release` is pending for it, and the counter is the
  cardinality of the holders.
- `MicHasLiveOwner` (`MicHeldByLiveOwner`). Inductive is `MicInv`: the owner is a DJ of this very
  hub before or at `ClearOwnedMic`. That a `dj_mic` is obeyed only for a client in `Clients` is
  what keeps one that was queued before its sender left from breaking it.
- `LastOneStopsTheHub` (`NoIdleHubLeft`). Inductive is `IdleInv`: while a hub of a room that never
  went live is registered, some connection *keeps* it: before the commitment anyone on the way in,
  connected or leaving, after it whoever is to enter `stop()`, then the one inside. Whoever looks
  and goes away has seen a client or a pending registration, and `RegsInv` and `LifeInv` say that
  there is a connection behind it that will look later.
- `PresenceIsSettled` (`PresenceSettles`), assuming `StoreFails = FALSE`. Inductive is
  `PresenceInv`, which adds that a listen row belongs to a connection with a user, so that its
  `onUnregister` does pass through `EndListenEvent`.

`StepKinds` classifies the steps once: *quiet* ones leave the lifecycle alone, *loud* ones are
the eight that do not, and `HandleRegister` stands apart; each invariant is then argued on those
only.

**`FramesProofs`** (four theorems). `JoinInv` says where a connection can be: a member has
registered and has not left, and leaving begins after joining ended. Two operators describe the
channel: `LastSays` (the last frame of a kind, if any, says this) and `Without` (there is none).

- `TypeCorrect`.
- `CountsConvergeAlways`. Inductive is `CountInv`: `countMu` is held exactly between a mutation of
  the set and its frame, with the count the mutation returned; while it is free the last count
  frame queued says the true count, and when none is queued every client past its own count shows
  it. Without `countMu` the second part fails, as the mutant shows.
- `SaidIsHeardAlways`. Inductive is `SaidInv`: who is owed a message and is still in `Clients` has
  been shown it, or its frame is queued and the loop will get to it, by fanout or by the flush.
- `MicHeardInOrderAlways`. Inductive is `MicInv`: the last mic frame queued says `lastMic`, and
  whoever is owed it has finished joining, so that no replay can come after it.

**`PlaybackProofs`** (five theorems). A goroutine is the list of calls it still has to make, so the
invariants speak of lists: which may occur (`MayCall`), what precedes what (`Ordered`, `Prepared`),
and what a goroutine in front of a call has read (`Loaded`). A step takes the first call off, or
replaces the list; each action is argued once for every invariant.

- `TypeCorrect`: `TypeOK` with `TasksOK`, by which an index is written back and a track upserted
  only by a goroutine that has read one.
- `OneAdvanceAlways` (`OneAdvanceAtATime`). Inductive is `AdvanceInv`: whoever is past the debounce
  finds `since = 0`, since time does not pass while a call is under way, and is alone there.
- `NowPlayingAlways` (`NowPlayingIsPlayed`). Inductive is `DJInv`: only the inboundLoop writes, and
  between the two writes of an action `LoopInv` says which of the two is ahead.
- `EndScheduledAlways` (`EndIsScheduled`). Inductive is `CoverInv`: while a timed track plays, the
  timer is armed or some goroutine *covers* it, that is, has a schedule or a clearing ahead, or a
  debounce that it is going to pass. It rests on four others. `LearnInv`: a track's duration
  changes by reports alone. `ShapeInv`: what a goroutine may still call, and main at boot alone.
  `LoadInv`: who is to schedule has the length of what it started, and a timer set now runs out
  no earlier than the debounce, so that the debounce never swallows it; that is where
  `NoneTooShort` is needed. `QueueInv`: what is queued was submitted.
- `SkipRateAlways` (`SkipRateCapped`), an action property. Inductive is `RateInv`: the timer does
  not run out before what plays has played; one goroutine at a time is past the debounce, and it
  got there when the track had played; what a report has read is still so when it reaches the
  debounce, or the debounce stops it.

**`RoomQueueProofs`** (five theorems): `TypeCorrect`; `QueuePlaysOncePerApproval` by `RowInv`
(plays plus the play an approved row still owes never exceed its approvals, a locked row is
approved, locks are exclusive); `QueueKeepsOrder` by `AheadInv` (whoever waited when a
position was taken has a smaller one, in hand or in the table), which is why repeated
positions, the consequence of `MAX` then `INSERT`, do not break the order; `TurnsKept`
(`KeepsTheTurns`), the refinement, from the same two: a selected row has the lowest free position,
so nobody ahead of it is left queued, and since locks are exclusive whoever ends a transaction
frees the row for all; `SubmissionsCapped`
(`SubmitsWithinCap`) by `CapInv`: the `inboundLoop` is busy with the one submission it has begun,
and while a counted one is under way its session keeps room for it, since nobody else adds a row
and who pops only takes one away.

**`RoomsProofs`** (four theorems).

- `TypeCorrect`: `TypeOK` is inductive as it stands, since a call carries what it has read with
  the type of the column it came from.
- `ListBuiltOnce` (`BuiltOncePerWindow`). Inductive is `ListInv`: statements run in the order of
  `Before` (`OrderInv`), and every leader, from its second look at the cache to the landing of
  its flight, is the one request that singleflight remembers, and has seen the cache empty if it
  builds (`FlightInv`). Two builders would be remembered at once. Without the second look the
  last part fails, as the mutant of the property shows.
- `OpenRoomsCapped` (`OpenWithinCap`). Inductive is `CapInv`: the open rooms and the creations
  that have counted and not inserted yet are together at most the cap, plus one per further
  request, plus the counts that failed. A passing count leaves room for one; an insertion moves
  one from one summand to the other.
- `RadioKnowsItsRow` (`IndexNamesHeard`). Inductive is `HeardInv`, of five parts. `LinkInv`: the
  order of what a request has still to do, so that who is about to write `now` has written the
  index, and who is about to write the index has read it. `KnowsInv`: what a request has read or
  written is still so while it is `fresh`, that is, while nobody has written since. `NowInv`: with
  no change under way what is heard is `now` or silence. `IndexInv`: with no change under way the
  index names the row of what is heard, if the list still has it. `EmptyInv`: a list that does not
  exist has no tracks. A step either writes nothing of this (`SilentKeeps`), or takes the freshness
  of everybody else (`LoudKeeps`), so that `torn` is the only case left in which a stale write
  counts.

**`AccountsProofs`** (five theorems).

- `TypeCorrect`, with `UserInv`: who is about to write the profile has read a user, from the
  cache or from the row.
- `FamiliesStayWhole` (`FamiliesDoNotFork`). Inductive is `TokensInv`. `CallInv`: the requests
  under way have serial numbers of their own, and a refresh that has not rotated has all its
  statements ahead. `TokenInv`: no token carries the number of a request that has its insertion
  ahead, and what a refresh is to rotate has the family the refresh carries. `HolderInv`: a
  request past its rotation that still owes its token has its family to itself. The conditional
  update makes a rotation take the place of a good token, and an insertion take the place of
  a request.
- `AlarmsAreReal` (`AlarmOnlyAfterLoss`). `StoredInv`: no two browsers keep one token, and a
  token is rotated only for the browser that keeps it. `AlarmInv`: while no answer to a rotation
  was lost, a browser that keeps a rotated token waits for the answer of the very refresh that
  rotated it, so the token is within its grace period and presenting it again is no replay.
  Where the grace period and the write timeout meet (`GraceEnds`) is the step it rests on.
- `BansReachTheCache` (`BanStands`). Inductive is `BanInv`: what is cached of a banned user, or is
  about to be, shows the ban, was read before the eviction that follows it (`late`), or is still to
  be evicted; and every ban has its eviction right behind it (`EvictInv`).
- `SessionsFollowPassword` (`OldPasswordSessionsEnd`). Inductive is `SessionInv`: a good token, and
  one that a request is about to insert, stems from the password of today, has slipped through, or
  some other request has set the password and not yet ended the sessions (`Ending`). A request that
  changes the password cannot excuse its own token that way, which is why `OrderInv` matters: the
  sessions end before the new token is issued.

`StepKinds` of `AccountsProofs` sorts the twenty statements and the requests by what they do to
tokens, browsers and requests: one begins, one runs on without touching a token or after
deleting all, one rotates, one issues, one answers. Each invariant is argued on those five and
on the end of the grace period.

**`Sums`**. The community modules define sums by a fold that takes any element next. The induction
over finite sets that such a definition needs is stated about sets instead of predicates, as the
absence of a least counterexample (`LeastNatural`). From it: the recursive function exists
(`SumExists`), its value does not depend on the element taken first (`SumRemoves`), and adding to
one value adds to the sum (`SumFunctionFacts`); and that the remainders lost by dividing shares are
fewer than the shares.

**`MonetizationProofs`** (five theorems).

- `TypeCorrect`, with `LockInv`: of two transactions that hold a row, one waits, so that a debit
  finds the balance it has checked; and `DueInv`: whom a computation of the pool still has to pay
  has minutes.
- `LedgerKept` (`KeepsTheLedger`), the refinement: initial states map to initial states of
  `Ledger`, and every step to a purchase, a tip, the settling of a tube, or a stutter. Inductive
  is `LevelInv`: a tube's row is what some number of level-ups leave of what its room was given
  (`PaidLevels`), in the table and in the hands of the request that levels it. When the loop ends
  that number is the one `Display` names, because what level-ups cost only grows.
- `OverflowPending` (`OverflowIsPending`), inductive as it stands: a commit that overflows a tube
  leaves its own request before the level-up, and a request leaves the level-up only when the
  tube does not overflow any more, or fails (`unsettled`).
- `SubscriptionsKept` (`SubscriptionsAgree`). Inductive are `PlusInv`: unless `torn`, who is
  between the two statements is alone there and has left the flag as the row is going to say; and
  `DJInv`, the same for an insertion that found no row.
- `PoolIsPaidOnce` (`PoolPaidOnce`). Inductive is `PoolInv`: unless `poolTorn`, one computation
  writes, and what it has written and what is still due share out the month by minutes
  (`SharedOut`). With `Sums` the shares then add up to the pool less the remainders.

**Model-checked only.** Liveness (`NobodyWaitsForever`, `SilenceEnds`, `IdleRoomsClose`) is out
of the prover's reach, as is ENABLED. Every other property of the runs that pass has a theorem.

## 6. Fairness

- Goroutines run and calls to Redis and Postgres return: weak fairness of each step. pgx and
  go-redis calls carry timeouts; a failed call is an outcome, not a hang.
- *Hub*: `SendRegistration`, `Unregister` and `RunReturns` are strongly fair, because Go's
  `select` picks uniformly among ready cases and serves blocked senders in FIFO order. Peers
  need not leave, DJs need not act, the room need not end; only a connection whose `done`
  channel is closed has its read fail, because WritePump closes the socket.
- *Playback*: strong fairness of `FireTimer` and `Tick`. Each waits in the model for something the
  code does not wait for: a free worker, and quiet before time passes. The ticker of the idle
  monitor is weakly fair. `Begin` of a handler owes nothing: nobody is obliged to skip or to
  report.

## 7. What is abstracted, what is not modelled

- *Hub*: the ticket, the upgrade's checks and the ping deadlines are one nondeterministic
  `UpgradeFails` or `ReadFails`. `persistCh`, reactions and rate limits play no part. The
  `inboundLoop` may handle an action after `quit` here, as its `select` may. `StoreFails` lets
  a write be lost, since callers ignore its error.
- *Frames*: a Send buffer never fills (eviction is in `Hub`); `stopping` and `quit` are one
  step, since no frame depends on the difference. Queue, reaction and track frames are left
  out; `room_ended` stands for what is enqueued right before a stop.
- *Playback*: pause keeps the position, seeking does not exist in the code; track metadata and
  the frames are left out. `Restart` is the loss of everything in memory, followed by
  `ResetAllRoomsOffline` and the start of the autoplay rooms before the listener opens.
  A fired timer starts in a worker that is free: more goroutines than `Workers` are not
  explored. An activation promotes a playlist with the same tracks.
- *RoomQueue*: bulk insertion at room creation, and the limiter of ten submissions, which lets
  all of an instance's submissions pass, are not modelled.
- *Rooms*: one autoplay room and the rooms of one creator; what their tracks and the payload of
  the list are is left out, as are the checks of a request's fields. The timer and the debounce
  are in `Playback`: here the radio may advance at any time, one advance at once. A playlist is a
  sequence of songs told apart by their source URL; the cache has one key. A track that an edit
  removed may go on playing, and `IndexNamesHeard` then says nothing.
- *Accounts*: tokens and links do not expire after their days and hours, which would only remove
  behaviours; a browser that logged out keeps its token, the worst it could do. `GraceEnds` waits
  for the refreshes that present the token because a response is cut off after
  `WriteTimeout` (`cmd/server/main.go:379`), which is as long as the grace period.
- *Monetization*: prices, periods and what the calls answer are left out; a subscription is a
  status. `neon_balance` and the sums are unbounded: an `INT` column would refuse an overflow, and
  the transaction would roll back. One month of the pool; minutes listened are constants. An
  admin who sets a negative balance is left out.
- Not modelled at all, with the reason, in `PROJECT.json` `components`: mostly
  single-statement requests, pure predicates and calls to outside services.

## 8. Plan

What is left, in order of importance.

1. One abstract specification over two modules: `Presence` (who is in the room, and the count that
   converges to it), implemented by `Hub` and `Frames` together.
2. The rest of the room rows: featuring and official rooms (which two requests may leave featured
   twice), what `ended_at` and `last_active_at` hide from the list, the ghost clean-up.
3. The session in Redis with its WATCH retry and its cache; the fixed-window limiters.
4. For each of these the theorems, with the refinements proved step by step as `LedgerKept` is.
