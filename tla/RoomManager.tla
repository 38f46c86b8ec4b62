---------------------------- MODULE RoomManager ----------------------------
(***************************************************************************)
(* The in-memory room registry of ws-kit (src/room.rs RoomManager and      *)
(* Room) used by many tasks at once.  `rooms` is a DashMap: a lookup, an   *)
(* insert-or-get or a removal of one key is atomic, and an iteration       *)
(* holds the read lock of the shard it stands on and of no other.  Every   *)
(* room id is taken to be in a shard of its own, in the order 1, 2, ...,   *)
(* which is the order iteration meets them.  The room gauge is the         *)
(* `rooms` cell of the attached StatsRecorder (src/stats.rs).              *)
(***************************************************************************)
EXTENDS Naturals, Sequences, FiniteSets

CONSTANTS
    Tasks,      \* server tasks; a task's connection id is the task itself
    Creators,   \* the tasks that call get_or_create
    Removers,   \* the tasks that call remove, cleanup or cleanup_empty
    Listeners,  \* the tasks that subscribe to a room they hold
    NumIds,     \* number of room ids in use
    MaxRooms,   \* bound: Room values ever allocated
    MaxCalls    \* bound: registry calls one task makes

ASSUME TasksAssumption == IsFiniteSet(Tasks)
ASSUME RolesAssumption == Creators \cup Removers \cup Listeners \subseteq Tasks
ASSUME BoundAssumption == NumIds \in Nat /\ MaxRooms \in Nat /\ MaxCalls \in Nat

Ids == 1..NumIds
Rooms == 1..MaxRooms
None == 0       \* no room, no id

VARIABLES
    rooms,          \* the DashMap: room id -> Arc<Room>, or None
    roomId,         \* Room.id
    participants,   \* Room.participants: the connections on the roster
    receivers,      \* connections holding a live broadcast receiver
    created,        \* rooms allocated so far; the next one is created + 1
    gauge,          \* StatsRecorder's live-room gauge
    pc,             \* where each task stands in a registry call
    handle,         \* the Arc<Room> a task obtained last
    key,            \* argument of a get_or_create or remove in progress
    mine,           \* the room it allocated, not yet offered to the map
    mode,           \* "cleanup" or "cleanup_empty"
    pos,            \* the shard an iteration stands on
    unread,         \* roster shards is_empty has still to count
    todo,           \* to_remove
    n,              \* to_remove.len(), the number cleanup returns
    closes,         \* room_closed calls a task has still to make
    calls,          \* registry calls made
    lost,           \* history: rooms whose insert-or-get found another room
    detached        \* history: rooms taken out of the map

mapVars == <<rooms, roomId, created, lost, detached>>
roomVars == <<participants, receivers>>
scanVars == <<mode, pos, unread, todo, n>>
vars == <<rooms, roomId, participants, receivers, created, gauge, pc, handle,
          key, mine, mode, pos, unread, todo, n, closes, calls, lost, detached>>

PCs == {"idle", "open", "insert", "remove", "scan", "roster", "recv", "sweep", "close"}

TypeOK ==
    /\ rooms \in [Ids -> Rooms \cup {None}]
    /\ roomId \in [Rooms -> Ids \cup {None}]
    /\ participants \in [Rooms -> SUBSET Tasks]
    /\ receivers \in [Rooms -> SUBSET Tasks]
    /\ created \in 0..MaxRooms
    /\ gauge \in Nat
    /\ pc \in [Tasks -> PCs]
    /\ handle \in [Tasks -> Rooms \cup {None}]
    /\ key \in [Tasks -> Ids \cup {None}]
    /\ mine \in [Tasks -> Rooms \cup {None}]
    /\ mode \in [Tasks -> {"cleanup", "cleanup_empty"}]
    /\ pos \in [Tasks -> 1..(NumIds + 1)]
    /\ unread \in [Tasks -> SUBSET Tasks]
    /\ todo \in [Tasks -> Seq(Ids)]
    /\ n \in [Tasks -> Nat]
    /\ closes \in [Tasks -> Nat]
    /\ calls \in [Tasks -> 0..MaxCalls]
    /\ lost \in SUBSET Rooms
    /\ detached \in SUBSET Rooms

Init ==
    /\ rooms = [k \in Ids |-> None]
    /\ roomId = [r \in Rooms |-> None]
    /\ participants = [r \in Rooms |-> {}]
    /\ receivers = [r \in Rooms |-> {}]
    /\ created = 0
    /\ gauge = 0
    /\ pc = [t \in Tasks |-> "idle"]
    /\ handle = [t \in Tasks |-> None]
    /\ key = [t \in Tasks |-> None]
    /\ mine = [t \in Tasks |-> None]
    /\ mode = [t \in Tasks |-> "cleanup"]
    /\ pos = [t \in Tasks |-> 1]
    /\ unread = [t \in Tasks |-> {}]
    /\ todo = [t \in Tasks |-> << >>]
    /\ n = [t \in Tasks |-> 0]
    /\ closes = [t \in Tasks |-> 0]
    /\ calls = [t \in Tasks |-> 0]
    /\ lost = {}
    /\ detached = {}

----------------------------------------------------------------------------
(* Helpers *)

Live == {r \in Rooms : \E k \in Ids : rooms[k] = r}

\* Some iteration holds the read lock of k's shard: writers of k must wait.
ReadLocked(k) == \E u \in Tasks : pc[u] \in {"roster", "recv"} /\ pos[u] = k

Goto(t, label) == pc' = [pc EXCEPT ![t] = label]

\* Task t, not inside a registry call, starts one.
StartCall(t) ==
    /\ pc[t] = "idle"
    /\ calls[t] < MaxCalls
    /\ calls' = [calls EXCEPT ![t] = @ + 1]

\* DashMap::remove(k): the entry goes, whatever room it holds.
Unbind(k) ==
    /\ ~ReadLocked(k)
    /\ rooms' = [rooms EXCEPT ![k] = None]
    /\ detached' = detached \cup ({rooms[k]} \ {None})

----------------------------------------------------------------------------
(* get_or_create, get_or_create_with_capacity *)

\* The first lookup finds the room ...
GetOrCreateHit(t, k) ==
    /\ t \in Creators
    /\ rooms[k] # None
    /\ StartCall(t)
    /\ handle' = [handle EXCEPT ![t] = rooms[k]]
    /\ UNCHANGED <<mapVars, roomVars, gauge, pc, key, mine, scanVars, closes>>

\* ... or does not, and the task allocates one of its own.
GetOrCreateMiss(t, k) ==
    /\ t \in Creators
    /\ rooms[k] = None
    /\ created < MaxRooms
    /\ StartCall(t)
    /\ created' = created + 1
    /\ roomId' = [roomId EXCEPT ![created + 1] = k]
    /\ mine' = [mine EXCEPT ![t] = created + 1]
    /\ key' = [key EXCEPT ![t] = k]
    /\ Goto(t, "open")
    /\ UNCHANGED <<rooms, roomVars, gauge, handle, scanVars, closes, lost, detached>>

\* room_opened: the gauge goes up before the map is asked again.
RoomOpened(t) ==
    /\ pc[t] = "open"
    /\ gauge' = gauge + 1
    /\ Goto(t, "insert")
    /\ UNCHANGED <<mapVars, roomVars, handle, key, mine, scanVars, closes, calls>>

\* Mutation of InsertOrGet: a plain insert, the last writer wins.
InsertOverwrites(t) ==
    /\ pc[t] = "insert"
    /\ ~ReadLocked(key[t])
    /\ rooms' = [rooms EXCEPT ![key[t]] = mine[t]]
    /\ handle' = [handle EXCEPT ![t] = mine[t]]
    /\ mine' = [mine EXCEPT ![t] = None]
    /\ key' = [key EXCEPT ![t] = None]
    /\ Goto(t, "idle")
    /\ UNCHANGED <<roomId, created, lost, detached, roomVars, gauge, scanVars, closes, calls>>

\* Mutation of InsertOrGet: return the allocated room, not the entry's.
InsertReturnsOwn(t) ==
    /\ pc[t] = "insert"
    /\ ~ReadLocked(key[t])
    /\ IF rooms[key[t]] = None
       THEN rooms' = [rooms EXCEPT ![key[t]] = mine[t]] /\ UNCHANGED lost
       ELSE lost' = lost \cup {mine[t]} /\ UNCHANGED rooms
    /\ handle' = [handle EXCEPT ![t] = mine[t]]
    /\ mine' = [mine EXCEPT ![t] = None]
    /\ key' = [key EXCEPT ![t] = None]
    /\ Goto(t, "idle")
    /\ UNCHANGED <<roomId, created, detached, roomVars, gauge, scanVars, closes, calls>>

\* entry(id).or_insert_with(room): first writer wins, the others get its room.
InsertOrGet(t) ==
    /\ pc[t] = "insert"
    /\ ~ReadLocked(key[t])
    /\ IF rooms[key[t]] = None
       THEN /\ rooms' = [rooms EXCEPT ![key[t]] = mine[t]]
            /\ handle' = [handle EXCEPT ![t] = mine[t]]
            /\ UNCHANGED lost
       ELSE /\ handle' = [handle EXCEPT ![t] = rooms[key[t]]]
            /\ lost' = lost \cup {mine[t]}
            /\ UNCHANGED rooms
    /\ mine' = [mine EXCEPT ![t] = None]
    /\ key' = [key EXCEPT ![t] = None]
    /\ Goto(t, "idle")
    /\ UNCHANGED <<roomId, created, detached, roomVars, gauge, scanVars, closes, calls>>

----------------------------------------------------------------------------
(* get *)

Get(t, k) ==
    /\ StartCall(t)
    /\ handle' = [handle EXCEPT ![t] = rooms[k]]
    /\ UNCHANGED <<mapVars, roomVars, gauge, pc, key, mine, scanVars, closes>>

----------------------------------------------------------------------------
(* remove *)

\* The call waits for the shard's write lock ...
Remove(t, k) ==
    /\ t \in Removers
    /\ StartCall(t)
    /\ key' = [key EXCEPT ![t] = k]
    /\ Goto(t, "remove")
    /\ UNCHANGED <<mapVars, roomVars, gauge, handle, mine, scanVars, closes>>

\* Mutation of RemoveEntry: room_closed also when there was nothing to remove.
RemoveEntryAlwaysCloses(t) ==
    /\ pc[t] = "remove"
    /\ Unbind(key[t])
    /\ handle' = [handle EXCEPT ![t] = rooms[key[t]]]
    /\ key' = [key EXCEPT ![t] = None]
    /\ closes' = [closes EXCEPT ![t] = 1]
    /\ Goto(t, "close")
    /\ UNCHANGED <<roomId, created, lost, roomVars, gauge, mine, scanVars, calls>>

\* ... and takes the entry out; room_closed is for a room that was there.
RemoveEntry(t) ==
    /\ pc[t] = "remove"
    /\ Unbind(key[t])
    /\ handle' = [handle EXCEPT ![t] = rooms[key[t]]]
    /\ key' = [key EXCEPT ![t] = None]
    /\ IF rooms[key[t]] # None
       THEN /\ closes' = [closes EXCEPT ![t] = 1]
            /\ Goto(t, "close")
       ELSE /\ Goto(t, "idle")
            /\ UNCHANGED closes
    /\ UNCHANGED <<roomId, created, lost, roomVars, gauge, mine, scanVars, calls>>

\* Mutation of RoomClosed: no saturation.
RoomClosedWraps(t) ==
    /\ pc[t] = "close"
    /\ gauge' = gauge - 1
    /\ closes' = [closes EXCEPT ![t] = @ - 1]
    /\ Goto(t, IF closes[t] = 1 THEN "idle" ELSE "close")
    /\ UNCHANGED <<mapVars, roomVars, handle, key, mine, scanVars, calls>>

\* One room_closed: the gauge goes down, saturating at zero.
RoomClosed(t) ==
    /\ pc[t] = "close"
    /\ gauge' = IF gauge = 0 THEN 0 ELSE gauge - 1
    /\ closes' = [closes EXCEPT ![t] = @ - 1]
    /\ Goto(t, IF closes[t] = 1 THEN "idle" ELSE "close")
    /\ UNCHANGED <<mapVars, roomVars, handle, key, mine, scanVars, calls>>

----------------------------------------------------------------------------
(* cleanup and cleanup_empty: collect, then remove, then close *)

Cleanup(t, m) ==
    /\ t \in Removers
    /\ StartCall(t)
    /\ mode' = [mode EXCEPT ![t] = m]
    /\ pos' = [pos EXCEPT ![t] = 1]
    /\ todo' = [todo EXCEPT ![t] = << >>]
    /\ Goto(t, "scan")
    /\ UNCHANGED <<mapVars, roomVars, gauge, handle, key, mine, unread, n, closes>>

\* The iteration enters the next shard; an empty one is passed over.
ScanShard(t) ==
    /\ pc[t] = "scan"
    /\ pos[t] \in Ids
    /\ IF rooms[pos[t]] = None
       THEN /\ pos' = [pos EXCEPT ![t] = @ + 1]
            /\ UNCHANGED <<pc, unread>>
       ELSE /\ unread' = [unread EXCEPT ![t] = Tasks]
            /\ Goto(t, "roster")
            /\ UNCHANGED pos
    /\ UNCHANGED <<mapVars, roomVars, gauge, handle, key, mine, mode, todo, n, closes, calls>>

\* The verdict on the room is known; the iteration moves on.
Judged(t, empty) ==
    /\ todo' = IF empty THEN [todo EXCEPT ![t] = Append(@, pos[t])] ELSE todo
    /\ pos' = [pos EXCEPT ![t] = @ + 1]
    /\ Goto(t, "scan")

\* Mutation of ReadRoster: the first roster shard decides.
ReadRosterFirstShard(t, p) ==
    /\ pc[t] = "roster"
    /\ p \in unread[t]
    /\ unread' = [unread EXCEPT ![t] = @ \ {p}]
    /\ IF p \in participants[rooms[pos[t]]]
       THEN Judged(t, FALSE)
       ELSE IF mode[t] = "cleanup"
            THEN Goto(t, "recv") /\ UNCHANGED <<todo, pos>>
            ELSE Judged(t, TRUE)
    /\ UNCHANGED <<mapVars, roomVars, gauge, handle, key, mine, mode, n, closes, calls>>

\* participants.len() counts the roster shard by shard; connection p's shard
\* is read at this moment.
ReadRoster(t, p) ==
    /\ pc[t] = "roster"
    /\ p \in unread[t]
    /\ unread' = [unread EXCEPT ![t] = @ \ {p}]
    /\ \/ /\ p \in participants[rooms[pos[t]]]
          /\ Judged(t, FALSE)
       \/ /\ p \notin participants[rooms[pos[t]]]
          /\ unread[t] # {p}
          /\ UNCHANGED <<todo, pos, pc>>
       \/ /\ p \notin participants[rooms[pos[t]]]
          /\ unread[t] = {p}
          /\ IF mode[t] = "cleanup"
             THEN Goto(t, "recv") /\ UNCHANGED <<todo, pos>>
             ELSE Judged(t, TRUE)
    /\ UNCHANGED <<mapVars, roomVars, gauge, handle, key, mine, mode, n, closes, calls>>

\* Mutation of ReadReceivers: remove an empty room from inside the iteration,
\* waiting for the write lock of the shard it has itself locked for reading.
ReadReceiversRemovesInPlace(t) ==
    /\ pc[t] = "recv"
    /\ \/ /\ receivers[rooms[pos[t]]] # {}
          /\ Judged(t, FALSE)
          /\ UNCHANGED <<mapVars, roomVars, gauge, handle, key, mine, mode, unread, n, closes, calls>>
       \/ /\ receivers[rooms[pos[t]]] = {}
          /\ UNCHANGED vars

\* cleanup then asks for receiver_count; cleanup_empty does not.
ReadReceivers(t) ==
    /\ pc[t] = "recv"
    /\ Judged(t, receivers[rooms[pos[t]]] = {})
    /\ UNCHANGED <<mapVars, roomVars, gauge, handle, key, mine, mode, unread, n, closes, calls>>

\* Mutation of ScanDone: the last shard is never looked at.
ScanDoneEarly(t) ==
    /\ pc[t] = "scan"
    /\ pos[t] >= NumIds
    /\ n' = [n EXCEPT ![t] = Len(todo[t])]
    /\ closes' = [closes EXCEPT ![t] = Len(todo[t])]
    /\ Goto(t, IF todo[t] = << >> THEN "idle" ELSE "sweep")
    /\ UNCHANGED <<mapVars, roomVars, gauge, handle, key, mine, mode, pos, unread, todo, calls>>

\* The iteration is over; no lock is held any more.
ScanDone(t) ==
    /\ pc[t] = "scan"
    /\ pos[t] = NumIds + 1
    /\ n' = [n EXCEPT ![t] = Len(todo[t])]
    /\ closes' = [closes EXCEPT ![t] = Len(todo[t])]
    /\ Goto(t, IF todo[t] = << >> THEN "idle" ELSE "sweep")
    /\ UNCHANGED <<mapVars, roomVars, gauge, handle, key, mine, mode, pos, unread, todo, calls>>

\* rooms.remove(&k) for the next collected key; its result is not looked at.
Sweep(t) ==
    /\ pc[t] = "sweep"
    /\ Unbind(Head(todo[t]))
    /\ todo' = [todo EXCEPT ![t] = Tail(@)]
    /\ Goto(t, IF Len(todo[t]) = 1 THEN "close" ELSE "sweep")
    /\ UNCHANGED <<roomId, created, lost, roomVars, gauge, handle, key, mine,
                   mode, pos, unread, n, closes, calls>>

----------------------------------------------------------------------------
(* Room: join, leave, subscribe, and a receiver going out of scope *)

OnHandle(t) == pc[t] = "idle" /\ handle[t] # None

Join(t) ==
    /\ OnHandle(t)
    /\ participants' = [participants EXCEPT ![handle[t]] = @ \cup {t}]
    /\ UNCHANGED <<mapVars, receivers, gauge, pc, handle, key, mine, scanVars, closes, calls>>

Leave(t) ==
    /\ OnHandle(t)
    /\ participants' = [participants EXCEPT ![handle[t]] = @ \ {t}]
    /\ UNCHANGED <<mapVars, receivers, gauge, pc, handle, key, mine, scanVars, closes, calls>>

Subscribe(t) ==
    /\ t \in Listeners
    /\ OnHandle(t)
    /\ receivers' = [receivers EXCEPT ![handle[t]] = @ \cup {t}]
    /\ UNCHANGED <<mapVars, participants, gauge, pc, handle, key, mine, scanVars, closes, calls>>

DropReceiver(t, r) ==
    /\ pc[t] = "idle"
    /\ t \in receivers[r]
    /\ receivers' = [receivers EXCEPT ![r] = @ \ {t}]
    /\ UNCHANGED <<mapVars, participants, gauge, pc, handle, key, mine, scanVars, closes, calls>>

----------------------------------------------------------------------------

\* A step a registry call in progress takes by itself.
CallStep(t) ==
    \/ RoomOpened(t)
    \/ InsertOrGet(t)
    \/ RemoveEntry(t)
    \/ RoomClosed(t)
    \/ ScanShard(t)
    \/ \E p \in Tasks : ReadRoster(t, p)
    \/ ReadReceivers(t)
    \/ ScanDone(t)
    \/ Sweep(t)

StartsCall(t) ==
    \/ \E k \in Ids : GetOrCreateHit(t, k) \/ GetOrCreateMiss(t, k)
    \/ \E k \in Ids : Get(t, k)
    \/ \E k \in Ids : Remove(t, k)
    \/ \E m \in {"cleanup", "cleanup_empty"} : Cleanup(t, m)

UsesRoom(t) ==
    \/ Join(t)
    \/ Leave(t)
    \/ Subscribe(t)
    \/ \E r \in Rooms : DropReceiver(t, r)

\* Every task is between calls: the registry is quiet, not stuck.
Quiet ==
    /\ \A t \in Tasks : pc[t] = "idle"
    /\ UNCHANGED vars

Next ==
    \/ \E t \in Tasks : CallStep(t) \/ StartsCall(t) \/ UsesRoom(t)
    \/ Quiet

Spec == Init /\ [][Next]_vars

\* The runtime polls every task that is inside a call.
Fairness == \A t \in Tasks : WF_vars(CallStep(t))

----------------------------------------------------------------------------
(* Properties *)

\* A room id that is bound is never rebound: whatever tasks race on it, its
\* entry can only be removed.  Two callers of get_or_create therefore cannot
\* take each other's room out of the map (room.rs, "Insert-or-get to handle
\* race").
KeysNeverRebound ==
    [][\A k \in Ids : rooms[k] # None => rooms'[k] \in {rooms[k], None}]_vars

\* Nobody ends up in a room that was never registered: a room some task can
\* reach through its handle, its place on the roster or its receiver is the
\* one the map holds under its id, or was removed from the map by remove or
\* a cleanup.  The room of a task that lost the insert race is unreachable
\* (room.rs get_or_create_with_capacity returns entry.value()).
InUse(r) ==
    \/ \E t \in Tasks : handle[t] = r
    \/ participants[r] # {}
    \/ receivers[r] # {}

NoOrphanMembers ==
    \A r \in Rooms : InUse(r) => r \in detached \/ \E k \in Ids : k = roomId[r] /\ rooms[k] = r

\* Every registry call returns: an iteration holds one shard's lock for a
\* bounded number of steps, and no call waits for a lock it holds itself.
EveryCallReturns ==
    \A t \in Tasks : pc[t] # "idle" ~> pc[t] = "idle"

(* What the properties above rest on *)

\* A task's locals agree with where it stands.
ControlAgrees ==
    \A t \in Tasks :
        /\ pc[t] \in {"open", "insert"} => key[t] \in Ids /\ mine[t] \in Rooms
        /\ pc[t] = "remove" => key[t] \in Ids
        /\ pc[t] \in {"roster", "recv"} => pos[t] \in Ids
        /\ pc[t] = "sweep" => todo[t] # << >>
        /\ pc[t] \in {"sweep", "close"} => closes[t] # 0

\* The map files every room under its own id.
MapConsistent ==
    \A k \in Ids : rooms[k] # None => roomId[rooms[k]] = k /\ rooms[k] <= created

\* A task offers the map a room made for the key it asks for.
OffersMatch ==
    \A t \in Tasks :
        pc[t] \in {"open", "insert"} => roomId[mine[t]] = key[t] /\ mine[t] <= created

\* Rooms not allocated yet are out of reach.
FutureUnused == \A r \in Rooms : InUse(r) => r <= created

----------------------------------------------------------------------------
(* What the documentation says, checked against the code *)

\* room.rs: room_opened before a lost insert race "can transiently overcount;
\* room_closed on removal keeps the gauge convergent"; stats.rs: "Live room
\* count".  So with no call in progress and nothing left to remove, the gauge
\* is zero.
GaugeConverges ==
    (\A t \in Tasks : pc[t] = "idle") /\ Live = {} => gauge = 0

\* room.rs: cleanup removes "all empty rooms (no participants, no
\* receivers)".
CleanupRemovesOnlyEmptyRooms ==
    [][\A t \in Tasks :
        pc[t] = "sweep" /\ todo'[t] # todo[t] /\ mode[t] = "cleanup" =>
            LET r == rooms[Head(todo[t])]
            IN  r # None => participants[r] = {} /\ receivers[r] = {}]_vars
=============================================================================
