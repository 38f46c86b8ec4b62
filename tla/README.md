# ws-kit: TLA+ models, model checking and proofs

ws-kit is a Rust crate of building blocks for WebSocket servers. This
directory holds TLA+ models of its parts, TLC configurations that
check them on small instances, and TLAPS proofs of the most important
properties for every instance. Source paths below are relative to the
repository root (`src/room.rs` and so on).

## 1. The system

| Component | State | Operations | Interacts with |
|---|---|---|---|
| Connection counter, `src/counter.rs` | one `AtomicU64`, shared by all clones of a hub | `increment(max)`, `decrement`, `get` | called by every connection's handler through the hub |
| Broadcast hub, `src/hub.rs` | a tokio broadcast sender, a connection counter | `subscribe`, `broadcast`, `try_broadcast`, counter calls | publishers and one receiver per connection |
| Room, `src/room.rs` | a broadcast sender, a roster (`DashMap`) | `join`, `leave`, `subscribe`, `broadcast`, `is_empty` | reports traffic to the stats recorder |
| Room registry, `src/room.rs` `RoomManager` | `DashMap` of room id to `Arc<Room>` | `get_or_create`, `get`, `remove`, `cleanup`, `cleanup_empty` | raises and lowers the room gauge |
| Redis room registry, `src/redis_rooms.rs` | a local registry, a publish connection behind an async mutex, a node id, a channel prefix | `broadcast`, `publish`, `apply_remote`, `run_subscriber` | Redis pub/sub, other nodes |
| Stats recorder, `src/stats.rs` | global and per-room atomic counters | `record_*`, `room_opened`, `room_closed`, `snapshot` | called by rooms and by integrators |
| Configuration, `src/config.rs` | `WsConfigBuilder` and the `WsConfig` it builds | one call per setting, `allowed_origins`, `allow_origin`, `build` | its list goes to the origin check, its capacity and limit to the hub |
| Origin check, `src/origin.rs` | none | `normalize_origin`, `origin_allowed` | called by the upgrade handler, first |
| Token extraction, `src/extractor.rs` | list of sources | `extract_token`, `extract_from_parts`, `require_token` | called by the upgrade handler, second |
| Compression, `src/compression.rs` | the settings of one side | `compress`, `decompress`, frame variants, `extension_accepted` | both ends of a connection |
| Frames and codec, `src/codec.rs` | none | frame constructors and conversions, JSON codec | carried by all of the above |
| Errors, crate root | none | | |

What is hard here:

* the counter and the stats use bare atomics with compare-exchange loops and
  separate loads, so every pair of accesses can be separated by others;
* the registry asks its map twice (look up, then insert-or-get) and cleans up
  in two passes (collect, then remove by key); tasks that hold an `Arc<Room>`
  go on using it whatever happens to the map;
* iterations hold shard locks of the map they will later modify;
* the broadcast channel is a ring that overwrites what slow receivers have not
  read;
* on several nodes messages are delivered directly and through Redis, publishes
  fail or lose their reply, futures are dropped, subscriptions are cut, nodes
  restart with a new id, and rooms are removed while messages for them arrive;
* an origin or a token can be written in many ways that mean the same and in
  many more that do not, and the two ends of a compressed connection choose
  their thresholds and limits independently.

What makes the parts correct: the counter admits nobody above the limit and
loses no update; whoever is in a room is in the room others find under that
id; cleanup takes only what it should; a receiver is told of every message it
loses; a broadcast reaches each client at most once, in order and in the right
room; an upgrade passes if and only if its origin is one the operator means,
with the token the client gave; a frame arrives as it was sent or is refused
for its size; and every call returns. `PROJECT.json` lists the individual
hazards with their lines and the properties that address them.

## 2. Modules

| Module | Models | Used by |
|---|---|---|
| `ConnectionLimiter` | abstract: admission as one indivisible step | refinement target |
| `ConnectionCounter` | `counter.rs`, one action per atomic access | `MCConnectionCounter` |
| `ConnectionCounterProofs` | proofs about the counter | |
| `RoomManager` | `room.rs` registry and rosters, and the room gauge of `stats.rs` | `MCRoomManager` |
| `RoomManagerHistory` | `RoomManager` with an observer of cleanups | `MCRoomHistory` |
| `RoomManagerProofs` | proofs about the registry, its cleanups and the gauge's books | |
| `MessageLog` | abstract: an endless log with readers | refinement target |
| `BroadcastHub` | `hub.rs` and the message side of `Room` | `MCBroadcastHub` |
| `BroadcastHubProofs` | proofs about the hub | |
| `RoomDelivery` | abstract: rooms and their members, wherever they are connected | refinement target |
| `RedisRooms` | `redis_rooms.rs` on several nodes | `MCRedisRooms` |
| `RedisRoomsProofs` | proofs about delivery, isolation and the refinement | |
| `StatsRecorder` | the traffic counters and `snapshot` of `stats.rs` | `MCStatsRecorder` |
| `SumTheorems` | what the library's sum over a finite set computes | the two modules with sums to prove about |
| `StatsRecorderProofs` | proofs about totals and snapshots | |
| `RustStr` | the operations of `str` and `Option` the parsers use (external) | `Origin`, `TokenExtractor`, `FrameCompressor` |
| `Origin` | `origin.rs` as operators | `Endpoint` |
| `TokenExtractor` | `extractor.rs` as operators | `Endpoint` |
| `FrameCompressor` | `compression.rs` and the frames of `codec.rs` as operators | `Endpoint` |
| `Endpoint` | `config.rs`, and one connection through origin check, token and frames | `MCEndpoint` |
| `ParserProofs` | proofs about what the parsers compute, for every text | `EndpointProofs` |
| `EndpointProofs` | proofs about frames, the configuration, the origin check and the token | |

The `MC` modules only define the small sets and functions that the `.cfg`
files assign to constants. Operators introduced by "Mutation of X" in a module
are plausible wrong versions of X; nothing refers to them. They document what
each property would catch: with X replaced, TLC finds the property violated.

### ConnectionCounter

`count` is the `AtomicU64`. A handler's `pc` says which access comes next:
`inc_add` is the `fetch_add` of the unlimited case; `inc_load` and `inc_cas`
are the loop of the limited one; `dec_load`, `dec_try` are the load and the
exchange inside `fetch_update`, `dec_get` the separate load whose result is
returned. All accesses are `Relaxed` and go to one location; accesses to a
single atomic location are coherent, so interleaving them is exact and nothing
weaker needs to be modelled. `compare_exchange` in `increment` is the strong
one; `fetch_update` uses the weak one, whose spurious failure only repeats an
attempt with the same value and is not a separate step. `held` and `strays` are history variables: the handlers whose
increment is not undone yet, and the units taken by decrements nobody was
entitled to. The 64-bit counter is a natural number: 2^64 connections cannot be
reached one at a time.

`ConnectionLimiter` keeps only `held`, `limit`, `outcome` and `strays`; a stray
decrement lets one more connection in than the limit says. The refinement maps
each variable to the one of the same name.

### RoomManager

`rooms` is the map, `roomId`, `participants` and `receivers` the fields of the
rooms ever allocated (numbered in order of allocation), `gauge` the recorder's
room gauge, and the rest are the locals of each task's registry call:

* `get_or_create`: `GetOrCreateHit`, or `GetOrCreateMiss` (look-up and
  allocation), `RoomOpened` (gauge), `InsertOrGet` (`entry().or_insert_with`);
* `remove`: `Remove` (the call waits for its shard), `RemoveEntry`, and
  `RoomClosed` if there was a room;
* `cleanup` and `cleanup_empty`: `Cleanup`, one `ScanShard` per shard,
  `ReadRoster` once per roster shard, `ReadReceivers` (only `cleanup`),
  `ScanDone`, `Sweep` per collected key, `RoomClosed` per counted key.

Assumptions about dashmap: operations on one key are atomic; an iterator holds
the read lock of the shard it is on and of no other, so writers of that shard
wait (`ReadLocked`) and other shards change freely; `len` and `is_empty` of a
roster add up the shards one after another. Every room id, and every roster
entry, is taken to be in a shard of its own, which is the least protection that
locks give. `saturating_dec` is one step: the loop's effect is one exchange,
and its returned value is used only by the `metrics` feature.
The bound `MaxRooms` limits allocation: a `get_or_create` that would need more
is not started.

### RoomManagerHistory

Adds variables that follow the registry and never constrain it: for each
cleanup in progress, the rooms that had the same participant in every state
since it began (`steady`), the rooms vacant in every such state (`vacant`) and
the rooms it took out of the map (`taken`). `GaugeAccounting` compares the
gauge with what it should show over every step (`Books`: the rooms in the map
and what each task has counted or not yet counted, `Owed`).

### BroadcastHub

The channel is external and modelled from its documented behaviour: a ring of
`RingSize(Requested)` slots, the requested capacity rounded up to a power of
two; sends, subscriptions and drops are serialised by the channel's lock.
`Broadcast` and `BroadcastFull` are the two outcomes of `send`; `Recv`, `Lagged`
and `RecvClosed` the three outcomes of `recv`. A message is its position in the
stream; `told` keeps what `broadcast` returned for it.

`MessageLog` knows no ring: each reader gets consecutive messages from where it
began, or is moved forward and told how far, never past one of the newest
`Kept`. The refinement maps `sent` to `tail`, `reading` to the live receivers,
`at` to `next`, `skipped` to `missed`, and `Kept` to the configured capacity,
not to the rounded-up number of slots.

### RedisRooms

Each node has its hosted rooms, tasks inside `broadcast`, the mutex of the
publish connection and the subscriber loop. `broadcast` is `BroadcastStart`
(`get_or_create`), `BroadcastLocal`, `LockConnection`, and one of
`PublishReaches` (reply received or lost) and `PublishFails`. The subscriber
loop is `ApplyGet` (channel name, decoding, echo check, `local.get`) followed
by `ApplySend` on the room found, which may have been removed by then. A room
id hosted again after a removal is a new generation with receivers of its own.
Redis is external: `PUBLISH` reaches every subscription established at that
moment whose pattern matches, in one order for all, and keeps nothing. Channel
names and room ids are sequences of segments, so that one prefix can be an
initial part of another; a pattern is taken to have no glob characters before
its final `*`. The envelope is the record of what `decode_envelope` recovers:
the publisher's id and the payload; bytes it rejects carry the id `Malformed`.
Receivers' rings are taken to be large enough: `BroadcastHub` covers lag.

A `Restart` is the death of a process and its next life: its clients'
connections are gone with what they had received, and it draws a new node id.
What it was publishing at that moment is neither lost for certain nor
arrived: its envelope is `afloat`, and `StrayArrives` hands it to Redis at any
later time, also after the next life has subscribed and no longer knows the
envelope for its own, or never. A sender is a task in one life of its process
(`Me`), so order is promised among the messages of one life.

`RoomDelivery` knows no channels, subscriptions, echoes or faults: a message goes,
in one step, to all who sit in one instance of its room at one home, if it is
newer than whatever any of them has from its sender. It promises order, no
duplicates, no other room's messages and nobody skipped within a room, and not
that a message gets to every home: Redis keeps nothing for a node that is cut off.
The refinement maps `seat` to `sub`, homes to nodes and instances to
generations; `BroadcastLocal` and `ApplySend` are `Deliver`, or reach
nobody, and a `Restart` is `Close`, after which those who come back are new
members without a history.

### StatsRecorder

`perRoom` and `globals` are the two tables. A record with a room is
`RecordRoom` (`entry().or_default().downgrade()`: it waits for the shard's
write lock and then keeps its read lock), one `AddRoom` per `fetch_add`, and
one `AddGlobal` per `fetch_add` of the global form it calls at the end;
`RecordGlobal` is that form called by itself. `snapshot` is `SnapshotBegin`,
`EnterShard` and `LoadRoom` for each room, `LoadGlobal` for each global,
`SnapshotReturns`. Records come in the three kinds the code has (`Adds`); all
messages have the same size, so that messages and bytes can be compared.

All accesses are `Relaxed`, so loads of different globals may be out of date
with respect to each other in ways interleaving does not show. The properties
do not depend on that: updates of one location are coherent (`TotalsAgree`,
`SnapshotsNeverGoBack`), one room's counters are read under a lock that a
record must take exclusively before it adds to them (`RoomsTornByOneRecord`),
and a snapshot that sees a task's record of a room took the shard's lock after
that task did, hence sees the globals of all its earlier records
(`GlobalsLackOneRecordEach`).

### Endpoint and the modules it uses

`Endpoint` follows one connection through its phases: the builder, call by
call; `CheckOrigin` against the list that was built; `RequireToken`;
`OnUpgrade`, where the two sides of the connection get their compression
settings; then `Send` or `SendForeign`, `Receive` and `Handled`, frame after
frame. The order of the phases is that of the handler in the repository's
README, which integrators write. A phase that is over forgets its values
(`OriginPasses`, `TokenPasses`), so that the phases do not multiply each
other's states. `promised`, the `means` of an origin and the `bearer`, `params`
and `cookies` of a request are what the operator and the client have in mind;
the code never sees them, and the properties compare its decisions with them.
How a text is put together from what it means is stated beside each parser, not
in terms of the parser's own steps: `Spells` for an origin, `WritesBearer`,
`WritesQuery` and `WritesCookies` for a request. They are the assumptions
(`OriginsAssumption`, `RequestsAssumption`) that the instance meets and the proofs use.

* `Origin`: a text is a sequence of lexemes (`"://"`, `":"`, brackets, blanks,
  words). What an origin means is its lower-case scheme and host and its port
  number, and what spells no origin means its own lower-case text; `MCEndpoint`
  writes every combination in every spelling. A text is cut into lexemes in
  one way: `"://"` is one lexeme wherever it stands, and a `":"` is one only
  elsewhere. An authority with a second `"://"` is therefore not cut at that
  colon, where `split_authority` does cut it and leaves what follows in its
  case. Such a text spells no origin and is refused by every list either
  way, since no list has an entry with a second `"://"` (`OriginsAssumption`).
  `LexemesAssumption` says that the punctuation is visible and has no
  upper case, that lower case makes nothing visible or invisible, and that a
  port number is written without leading zeros in one way.
* `TokenExtractor`: a text is a sequence of code points, since `url_decode`
  works on characters. The code's `None` and an empty token are both `<< >>`:
  every function that returns a token checks that it is not empty.
* `FrameCompressor`: a payload is a sequence of bytes. DEFLATE is external: any
  pair of `Deflate` and `Inflate` of which the second undoes the first
  (`DeflateAssumption`). The instance uses run lengths, which shrink some
  payloads and not others, have streams that end early, and streams that break
  after they have produced output. The largest `usize` and `u64` is
  `MaxUsize`, and `max_size + 1` wraps there as it does in a release build; the
  panic of a debug build is not modelled.

## 3. Runs

| Run | What it shows |
|---|---|
| `counter_races` | three handlers, limit 2, 0 or none, stray decrements: `CountTracksHeld`, `AdmissionWithinLimit`, `RefusalJustified`; the counter implements `ConnectionLimiter`; every call returns |
| `rooms_races` | two tasks, two ids, three rooms: `NoOrphanMembers`, `KeysNeverRebound`, `SteadyRoomsKept`, `VacantRoomsSwept`, `GaugeAccounting`; every call returns |
| `hub_streams` | two connections, six messages, four slots: `StreamIsFaithful`, `NoMoreThanTold`; the ring implements `MessageLog` |
| `stats_snapshots` | two tasks, two rooms, three records, two snapshots: `TotalsAgree`, `RoomsTornByOneRecord`, `GlobalsLackOneRecordEach`, `SnapshotsNeverGoBack` |
| `redis_delivery` | two nodes, two tasks sharing a publish connection, two messages, two generations, one fault: `AtMostOnce`, `NoPhantomRooms`, `PerTaskOrder`; the nodes implement `RoomDelivery` |
| `redis_returns` | two nodes, two rooms, two messages, one fault: `RoomIsolation`, `BroadcastReturns`, `RemoteDelivery` |
| `endpoint` | one connection from configuration to frames: `OriginDecision`, `TokenDecision`, `RoundTrip`, `ForeignFramesChecked`, `WireOverhead` |
| `rooms_gauge_converges` | finding: the gauge does not converge after a lost insert race |
| `rooms_cleanup_empty` | finding: cleanup can remove a room that has just been joined |
| `rooms_cleanup_count` | finding: two cleanups can count the same removal |
| `redis_prefixes` | finding: differing prefixes do not separate deployments when one extends the other |
| `endpoint_unlimited` | finding: a receiver with the largest `usize` as its `max_size` gets every deflated frame empty, as a success (`RoundTrip` violated) |

The type invariant of each module is checked along with the others.

### Bounds, and why they are enough

* Counter: three handlers are needed for a handler to lose an exchange to a
  second one while a third leaves, and two of the three may be admitted; two calls
  each are one connection's life. The
  proofs remove these bounds.
* Registry: two tasks suffice for a lost insert race, for two cleanups
  collecting the same key and for a join between a scan and a removal; two ids
  make an iteration span a removal elsewhere; three rooms allow a key to be
  removed and bound again; both tasks create, remove, clean up, join and leave,
  and one of them subscribes (`Listeners`), so that a room can be empty of
  participants and still have a receiver. All safety and action properties of the registry are
  proved without bounds.
* Endpoint: three builder calls add, replace, clear and add again; four listed
  entries (one without a scheme) meet 72 spellings of well-formed origins and
  eleven malformed ones. Tokens contain letters, `=`, `+`, `%`, a blank, a
  character above 127 and a text that looks like an escape; each source has
  none, an empty or a full one, in three orders of sources. Payloads go up to
  four bytes, which is above, at and below every `min_size` and `max_size` in
  use; frames from outside are all sequences of up to four flag bytes, lengths
  and errors. The largest `usize` is 7 (`MaxUsize`), which only
  `endpoint_unlimited` has as a `max_size`; that run lets one client in and looks
  at frames alone. All properties of `endpoint` are proved
  without bounds: for any texts, any builder calls and any frames.
* Hub: capacity 3 in a ring of four slots, so that rounding up shows; six
  messages let the ring wrap and a receiver lag twice. All safety properties of
  the hub are proved without bounds.
* Stats: two tasks in one room are what the shard lock has to keep apart; three
  records are more than the two a snapshot may lack; a second snapshot shows
  what can go back. Each kind of record is made, to a room or to none. All
  properties of the recorder are proved without bounds.
* Redis: two messages of one task show order and loss of either; two
  generations show a message applied to a removed room; one fault of any kind
  (`MaxFaults`) at any place; a restart with its floating publish is one. The safety properties are proved without bounds.

### Fairness

Weak fairness for the steps of a call in progress: the runtime keeps polling a
task that can run, and Redis answers or the connection reports an error. No
fairness for starting calls, leaving, failing or restarting. Retries of the
compare-exchange loops end because each handler makes boundedly many calls
(`MaxCalls`) and a lost exchange means another call's success; the code is
lock-free, not wait-free, and `EveryCallReturns` claims no more. A task waiting
for a shard's write lock is helped by the iteration's own progress and not by a
strong fairness assumption; a `remove` that waits there is a call in progress,
and `EveryCallReturns` speaks of it. No run turns deadlock checking off:
`Quiet`, `AtRest` and `Over` say explicitly when the system rests.

## 4. What is proved

All proofs hold for arbitrary finite sets of handlers, tasks or connections,
any limits, ids, rooms, ring sizes, settings and numbers of calls, from the
named assumptions of the modules.

`ConnectionCounterProofs`:

* `TypeCorrect`: `Spec => []TypeOK`; in particular the subtraction in
  `decrement` never underflows.
* `CountIsExact`: `Spec => []CountTracksHeld`. The property is not inductive: a
  decrement that read 0 gives its unit up only later, when the counter may have
  grown again. The invariant `IInv` therefore bounds `count` by the held
  connections that are not in that position (`Counted`, `CountsOnlyCounted`), and ties
  each `pc` to what the handler holds and read (`ControlAgrees`).
* `LimitRespected`, `RefusalsAreJustified`: the action properties, from `IInv`.
* `CounterRefinesLimiter`: every step of the counter is a step of the limiter
  (the exchange that succeeds, the load that sees the limit, the `fetch_update`)
  or leaves its variables alone.

`RoomManagerProofs`:

* `RegistryTypeCorrect`: types and control (`ControlAgrees`) are inductive
  together (`TInv`): that `closes` stays natural needs that a closing task owes
  a close, that an iteration's position is an id needs where the task stands.
* `EntriesNeverRebound`: no step replaces the room bound to an id. Only
  `InsertOrGet` writes a room, and only where there is none.
* `MembersAreRegistered`: `Spec => []NoOrphanMembers`, from `RInv`, which adds
  that the map files each room under its own id (`MapConsistent`), that a task
  offers a room made for the id it asks for (`OffersMatch`) and that rooms not
  allocated yet are in nobody's hands (`FutureUnused`). With these, a look-up
  and an insert-or-get hand out registered rooms only, an allocation disturbs
  no room in use, and a removal records the room it takes out.

The observer of `RoomManagerHistory` never constrains the registry, so `HSpec => Spec`,
and all of the above can be used for the rest:

* `SteadyRoomsSurvive`: a cleanup takes no room that had the same participant
  all the while. The invariant `SteadyInv` says why for each place of the call
  (`Safe`): the room's key is not among the collected ones, and while the room's
  roster is read the shard of that participant is still to come, so the count
  cannot end at zero. It rests on `MapConsistent` and on the lemma that only a
  task's own steps change its locals (`OwnSteps`).
* `VacantRoomsGo`: a cleanup leaves no room registered that was vacant and
  registered all the while. `VacantInv` says that past the room's shard its key
  is collected (`Doomed`); `AtEnd`, that a finished iteration has no shard left.
* `GaugeAccounted`: over every step, the gauge departs from the books only in the
  ways `GaugeAccounting` names. The books are a sum over all tasks; the lemma
  `Balance` says that a step of one task changes one entry of `Owed`. What has to be
  invariant is that nothing is collected outside a cleanup (`TodoDone`), that the
  closes a sweep owes cover the keys it has still to remove (`SweepOwes`) and that
  a room not yet offered to the map belongs to its task alone (`Fresh`).

`BroadcastHubProofs`:

* `HubTypeCorrect`, `StreamsAreFaithful`: `Spec => []TypeOK` and
  `Spec => []StreamIsFaithful`. What a receiver reads is whatever is in its
  slot, so the invariant `IInv` says which message that is: the newest
  `Size` messages are in the slots of their positions (`RingHoldsNewest`), and
  no receiver is ahead of the tail (`NobodyAhead`). That a new message overwrites
  exactly the oldest one is arithmetic about remainders, in lemmas of its own.
* `CountsAreHonest`: `Spec => []NoMoreThanTold`, by counting the receivers
  subscribed when a message was sent (`Entitled`): nobody enters that set later.
* `HubImplementsLog`: `Spec => LogSpec`; a send, a read, a lag report and
  a subscription are the log's steps of that name, and `Lagged` skips nothing
  that the configured capacity promises to keep.

`EndpointProofs`:

* `FramesArrive`: `Spec => []RoundTrip`, under two hypotheses: both sides
  read every capability header alike, and no `max_size` is the largest `usize`
  (`Limited`). The run `endpoint_unlimited` shows that the second is needed;
  the code does not ask for it. The lemmas follow an envelope
  through `compress` (stored, or deflated and shorter), `decompress` (the limit
  and where it wraps around, `LimitFacts`) and the kind's flag byte
  (`FrameRoundTrip`); the invariant `IInv` says that the settings of a link do
  not change under a frame and that what is received comes from what was sent.
  DEFLATE enters only by `DeflateAssumption`.
* `OverheadIsBounded`: `Spec => []WireOverhead`, from the same lemmas and without
  those hypotheses.
* `ForeignFramesGuarded`: `Spec => []ForeignFramesChecked` for any bytes on the
  wire and any decoder: of `Inflate` only the type of its results is assumed
  (`WiresAssumption`), so a decoder that reports an error late or produces
  anything at all is included.
* `EndpointTypeCorrect`: `Spec => []TypeOK`.
* `OriginsDecided`: `Spec => []OriginDecision` for any sequence of builder calls and
  any texts as `OriginsAssumption` and `LexemesAssumption` have them. The invariant
  `ListInv` ties the list in the builder to what the operator was promised, and
  `NormalFormsMean` compares its entries with the request's origin.
* `TokensDecided`: `Spec => []TokenDecision` for any list of sources and any
  requests as `RequestsAssumption` has them, from the three theorems about the
  parsers.

`ParserProofs`, about the operators alone:

* `ParamsFound`, `CookiesFound`, `BearerFound`: `extract_query_param`,
  `parse_cookie` and `parse_bearer` return, for every text, what it was written to
  say. The lemmas follow the text down: a text joined from parts without the
  separator is split into those parts (`Split` takes positions by their
  number, so this counts the cuts before each), a padded one is
  trimmed to what was padded, and what `url_decode` makes of an encoding is what
  was encoded. The decoder is a recursive function; that it computes this
  from every position is shown by taking the last position where it would not,
  which needs no induction scheme.
* `NormalFormsMean`: two origins have the same normal form only if they mean the same,
  and if they do so in every spelling that writes the port plainly. The normal form of an origin
  is `Around` a scheme, `"://"` and an authority, and such a sequence determines its three
  parts (`FirstCutUnique`, `CutOnce`). The hard part is a request's text that is no origin:
  whatever visible text has an origin's normal form is shown to spell an origin
  itself (`NormalSpells`), so that no text that means something else is let in.

`RedisRoomsProofs`, for any number of nodes, tasks, clients, rooms, generations
and faults:

* `RedisTypeCorrect`, `NoPhantoms`: `Spec => []TypeOK` and
  `Spec => []NoPhantomRooms`: no step of the subscriber loop, and no fault, makes
  a node host a room that its own callers have not asked for since its removal.
* `TaskOrderKept`: `Spec => []PerTaskOrder`. What a client got from one task comes,
  in order, before what its node is applying, and that before what waits in the
  inbox (`OInv`); the message a task has in hand is its newest and in nobody's
  inbox yet (`Control`, `Unpublished`). A lost connection only removes
  from this chain. What a process was publishing when it died stays the last
  message of its sender, and no other of that sender floats (`AfloatLast`), so
  that it may arrive at any time; it can come after anything of its sender, and
  it can reach its own node's next life, whose clients have nothing of that
  sender. That a process never applies its own envelopes (`AppliesForeign`) needs that
  an envelope carries the id of the life that made it (`InboxGenuine`,
  `AfloatGenuine`).
* `DeliveredAtMostOnce`: `Spec => []AtMostOnce`, since the order is strict and a
  client has nothing from before the life of its process.
* `RoomsIsolated`, `DeploymentsIsolated`: no client gets a message of another
  room, or of a node with another prefix, under the hypothesis
  `PrefixFree`: no node's prefix continues another's. The run `redis_prefixes`
  shows that it is needed for deployments; the documentation does not ask for it.
  `Matching` and `Addressed` say that what is in an inbox is meant for that node
  and which room it names.
* `FanOutDelivers`: under `PrefixFree`, `Spec => DeliverySpec`, the refinement of
  `RoomDelivery`. A node that hands out a message makes one abstract delivery
  (`HandedOut`): to the room it was made to by `Addressed`, and after what the
  members have from its sender by `OInv'`. The remaining steps make the
  abstract step of their name or none (`StepRefines`).

The ids of the nodes' first lives are not assumed to be distinct: two nodes with
one id lose messages, but do not reorder, repeat or misplace them.
`RedisAssumption` only asks that there is a largest id to begin with, which
holds for finitely many nodes, because a restart draws a larger one
(`IdsDrawn`): no life is taken for an earlier one.

`SumTheorems`: `SumCounts`. The sum of a function over a finite set, a
recursion in the library, is the number of tokens when each element is given as many
tokens as its value. That the recursion has such a solution is shown by exhibiting it, that it
has no other by taking a smallest set on which two differ: neither
needs an induction scheme. What sums do under updates and extensions follows.

`StatsRecorderProofs`, for any number of recorders, rooms and records:

* `StatsTypeCorrect`: `Spec => []TypeOK`; who holds which lock
  (`RecordersOK`, `Exclusive`) and what is still to be loaded (`LoadsOK`) belong to
  the invariant `TInv`.
* `NoTrafficLost`: `Spec => []TotalsAgree`, inductive with `TInv`; the sums by
  `SumTheorems`.
* `RoomsHardlyTorn`: `Spec => []RoomsTornByOneRecord`. A room's counters plus what
  the record under way there still has to add are in balance (`Target`,
  `BalancedRooms`); while a snapshot is in the room no other record begins there, so
  what it loads is at most that record away (`LockedNear`).
* `GlobalsHardlyBehind`: `Spec => []GlobalsLackOneRecordEach`, from the totals and from
  `LackInv`: what a snapshot saw of the rooms lacks in the globals at most what is
  owed by recorders under way, one record each.
* `SnapshotsFollow`: `Spec => SnapshotsNeverGoBack`; what a snapshot shows
  is never ahead of the counters (`NotAhead`) and never behind the one before
  (`NotBehind`).

### Only model-checked

Liveness (`EveryCallReturns`, `BroadcastReturns`, `RemoteDelivery`) is out of the prover's reach. The finding runs check properties
that do not hold. Every other property of the runs is proved.

## 5. Where code and documentation disagree

The five finding runs are listed above; `PROJECT.json` quotes the lines. Some
other observations have no run of their own:

* `max_connections` is documented as "0 = unlimited" (`src/config.rs:33`), but
  `increment(Some(0))` refuses every connection (`src/counter.rs:54`), and
  `tests/config_matrix.rs:131` threads the value through as `Some`. The model
  has 0 among its `Limits`: nobody is admitted.
* "compression never *grows* the wire size" (`README.md:139`): a payload sent
  as it is grows by the envelope (`WireOverhead`), which is two bytes for a
  frame and not the "1-byte envelope" of `src/compression.rs:27`, since
  `compress_frame` puts a flag byte of its own in front of that of `compress`.
* With the overflow checks of a debug build, `max_size = usize::MAX` is a panic
  in `decompress` (`src/compression.rs:205`) instead of the empty payload that
  `endpoint_unlimited` shows.
* A non-default port is compared as it is written: `https://a:08443` and
  `https://a:8443` are different origins. The check fails closed.
* `decrement` "Returns the count after the decrement" (`src/counter.rs:72`), but the
  number is loaded separately (`DecGet`) and can include other calls.
* `broadcast` is said to surface `BroadcastFull` on "lack of receivers or lag"
  (`src/hub.rs:102`); lag is never an error for the sender (`Broadcast`).
* Colliding node ids are said to "only re-enable self-echo duplication"
  (`src/redis_rooms.rs:113`); a node ignores all messages that carry its id
  (`Ignored`), so two nodes with one id would lose each other's messages.
* `Stats` is called a "Point-in-time snapshot" whose globals include "all room
  traffic" (`src/stats.rs:58`, `:68`); a snapshot taken during a record can show
  it in the room and not in the globals. `GlobalsLackOneRecordEach` and
  `RoomsTornByOneRecord` say how far this goes.
* With the `metrics` feature two tasks can set the exported gauge in the
  opposite order of their updates (`src/stats.rs:132`).

## 6. Not modelled

* Stats recorder: the connection gauge (the connection counter's algorithm
  without a limit) and the numbers exported by the `metrics` feature.
* Token extraction: multi-byte UTF-8 in escapes, which `url_decode` turns into
  other characters (known, `THREAT-MODEL.md` OPEN-2), and `;` inside quoted
  cookies (OPEN-5). The model's clients send neither, and no truncated or
  malformed escape.
* Codec: the JSON encoders and decoders, wrappers around `serde_json`. Errors
  and crate root: names and re-exports.
* Panics (`channel(0)`), allocation failure, and the integrator's accept and
  read loops, which are not part of the crate.

## 7. Plan

1. Done: every component with control of its own is modelled; the counter, the hub
   and the Redis fan-out are shown to implement abstract specifications, by TLC
   and by proof.
2. Done: every safety and action property of the passing runs is proved, and so is
   what the parsers of origins and tokens compute.
3. Open: the exported gauges of the `metrics` feature.
