--------------------------- MODULE StatsRecorder ---------------------------
(***************************************************************************)
(* The traffic counters of StatsRecorder (src/stats.rs), fed by tasks that *)
(* receive messages or broadcast into rooms (room.rs broadcast), and read  *)
(* by snapshot().  Every step is one atomic access, or one operation of    *)
(* the per-room DashMap.  Each room's counters are taken to be in a shard  *)
(* of their own.                                                           *)
(***************************************************************************)
EXTENDS Naturals, FiniteSets, SequencesExt

CONSTANTS
    Recorders,      \* tasks that record traffic
    NumRooms,       \* room ids are 1..NumRooms, in the order of their shards
    Traffic,        \* what is recorded: pairs of a room, or NoRoom, and a kind
    Bytes,          \* payload bytes of a message
    Fanout,         \* receivers a successful broadcast reaches
    MaxRecords,     \* bound: records made in all
    MaxSnapshots    \* bound: snapshots taken

ASSUME RecordersAssumption == IsFiniteSet(Recorders)
ASSUME NumbersAssumption ==
    {NumRooms, Bytes, MaxRecords, MaxSnapshots} \subseteq Nat /\ Fanout \in Nat \ {0}

Rooms == 1..NumRooms
NoRoom == 0
Kinds == {"in", "out", "drop"}

ASSUME TrafficAssumption == Traffic \subseteq ({NoRoom} \cup Rooms) \X Kinds

\* RoomStats, and the traffic part of Stats, in the order they are loaded.
Fields == <<"messages_in", "messages_out", "bytes_in", "bytes_out", "drops">>

Field == ToSet(Fields)
Zero == [f \in Field |-> 0]

VARIABLES
    perRoom,    \* inner.rooms: the counters of each room that has an entry
    globals,    \* inner.globals
    holds,      \* per recorder, the room whose counters it has a Ref to
    toRoom,     \* per recorder, the adds it still makes to that room
    toGlobals,  \* per recorder, the adds it still makes to the globals
    records,    \* records begun
    direct,     \* traffic recorded without a room
    shard,      \* the shard a snapshot is at; 0: none is being taken
    roomLoads,  \* the fields it still loads there; << >>: not locked
    loads,      \* the globals it still loads
    view,       \* what it has collected
    shown,      \* what the last snapshot returned
    snapshots   \* snapshots begun

counters == <<perRoom, globals>>
recorderVars == <<holds, toRoom, toGlobals, records, direct>>
snapshotVars == <<shard, roomLoads, loads, view, shown, snapshots>>
vars == <<perRoom, globals, holds, toRoom, toGlobals, records, direct,
          shard, roomLoads, loads, view, shown, snapshots>>

NoStats == [perRoom |-> << >>, globals |-> Zero]

Init ==
    /\ perRoom = << >>
    /\ globals = Zero
    /\ holds = [t \in Recorders |-> NoRoom]
    /\ toRoom = [t \in Recorders |-> << >>]
    /\ toGlobals = [t \in Recorders |-> << >>]
    /\ records = 0
    /\ direct = Zero
    /\ shard = 0
    /\ roomLoads = << >>
    /\ loads = << >>
    /\ view = NoStats
    /\ shown = NoStats
    /\ snapshots = 0

----------------------------------------------------------------------------
(* Recording *)

\* The fetch_adds a record makes, in order: field and amount.
Adds(kind) ==
    CASE kind = "in" -> <<[field |-> "messages_in", n |-> 1], [field |-> "bytes_in", n |-> Bytes]>>
      [] kind = "out" -> <<[field |-> "messages_out", n |-> Fanout],
                           [field |-> "bytes_out", n |-> Bytes * Fanout]>>
      [] kind = "drop" -> <<[field |-> "drops", n |-> 1]>>

\* What a list of adds comes to for one field.
Amount(adds, f) == SumFunction([i \in DOMAIN adds |-> IF adds[i].field = f THEN adds[i].n ELSE 0])

Idle(t) == toRoom[t] = << >> /\ toGlobals[t] = << >>

\* Somebody has a Ref into the room's shard, so its write lock is not free.
ReadLocked(r) ==
    \/ \E t \in Recorders : holds[t] = r
    \/ shard = r /\ roomLoads # << >>

Begin(t) ==
    /\ Idle(t)
    /\ records < MaxRecords
    /\ records' = records + 1

\* Bump a counter by a fetch_add.
Bumped(cells, add) == [cells EXCEPT ![add.field] = @ + add.n]

\* Mutation of RoomCounters: expect the room to have an entry.
RoomCountersGet(r) == perRoom

\* Mutation of RoomCounters: insert fresh counters.
RoomCountersInsert(r) == [x \in DOMAIN perRoom \cup {r} |-> IF x = r THEN Zero ELSE perRoom[x]]

\* entry(room).or_default(): the counters of a room, new ones at first.
RoomCounters(r) == [x \in DOMAIN perRoom \cup {r} |-> IF x \in DOMAIN perRoom THEN perRoom[x] ELSE Zero]

\* Mutation of RecordRoom: look the room up under its read lock.
RecordRoomShared(t, r, kind) ==
    /\ Begin(t)
    /\ perRoom' = RoomCounters(r)
    /\ holds' = [holds EXCEPT ![t] = r]
    /\ toRoom' = [toRoom EXCEPT ![t] = Adds(kind)]
    /\ toGlobals' = [toGlobals EXCEPT ![t] = Adds(kind)]
    /\ UNCHANGED <<globals, direct>>
    /\ UNCHANGED snapshotVars

\* Mutation of RecordRoom: leave the globals to the caller.
RecordRoomOnly(t, r, kind) ==
    /\ Begin(t)
    /\ ~ReadLocked(r)
    /\ perRoom' = RoomCounters(r)
    /\ holds' = [holds EXCEPT ![t] = r]
    /\ toRoom' = [toRoom EXCEPT ![t] = Adds(kind)]
    /\ UNCHANGED <<globals, toGlobals, direct>>
    /\ UNCHANGED snapshotVars

\* record_room_message_in, record_room_message_out, record_room_drop: the
\* entry needs the shard's write lock and keeps its read lock (downgrade).
RecordRoom(t, r, kind) ==
    /\ Begin(t)
    /\ ~ReadLocked(r)
    /\ perRoom' = RoomCounters(r)
    /\ holds' = [holds EXCEPT ![t] = r]
    /\ toRoom' = [toRoom EXCEPT ![t] = Adds(kind)]
    /\ toGlobals' = [toGlobals EXCEPT ![t] = Adds(kind)]
    /\ UNCHANGED <<globals, direct>>
    /\ UNCHANGED snapshotVars

\* One fetch_add on the room's counters; the Ref is dropped after the last.
AddRoom(t) ==
    /\ toRoom[t] # << >>
    /\ perRoom' = [perRoom EXCEPT ![holds[t]] = Bumped(@, Head(toRoom[t]))]
    /\ toRoom' = [toRoom EXCEPT ![t] = Tail(@)]
    /\ holds' = [holds EXCEPT ![t] = IF Len(toRoom[t]) = 1 THEN NoRoom ELSE @]
    /\ UNCHANGED <<globals, toGlobals, records, direct>>
    /\ UNCHANGED snapshotVars

\* record_message_in, record_message_out, record_drop called by themselves.
RecordGlobal(t, kind) ==
    /\ Begin(t)
    /\ toGlobals' = [toGlobals EXCEPT ![t] = Adds(kind)]
    /\ direct' = [f \in Field |-> direct[f] + Amount(Adds(kind), f)]
    /\ UNCHANGED <<perRoom, globals, holds, toRoom>>
    /\ UNCHANGED snapshotVars

\* One fetch_add on the globals.
AddGlobal(t) ==
    /\ toRoom[t] = << >>
    /\ toGlobals[t] # << >>
    /\ globals' = Bumped(globals, Head(toGlobals[t]))
    /\ toGlobals' = [toGlobals EXCEPT ![t] = Tail(@)]
    /\ UNCHANGED <<perRoom, holds, toRoom, records, direct>>
    /\ UNCHANGED snapshotVars

----------------------------------------------------------------------------
(* snapshot(): the rooms shard by shard, then the globals, load by load *)

SnapshotBegin ==
    /\ shard = 0
    /\ snapshots < MaxSnapshots
    /\ shard' = 1
    /\ loads' = Fields
    /\ view' = NoStats
    /\ snapshots' = snapshots + 1
    /\ UNCHANGED <<roomLoads, shown>>
    /\ UNCHANGED <<counters, recorderVars>>

\* The iterator locks the next shard for reading, or passes an empty one.
EnterShard ==
    /\ shard \in Rooms
    /\ roomLoads = << >>
    /\ IF shard \in DOMAIN perRoom
       THEN /\ roomLoads' = Fields
            /\ UNCHANGED shard
       ELSE /\ shard' = shard + 1
            /\ UNCHANGED roomLoads
    /\ UNCHANGED <<loads, view, shown, snapshots>>
    /\ UNCHANGED <<counters, recorderVars>>

\* The entry of the shard's room with one more field loaded.
Loaded(f) ==
    [r \in DOMAIN view.perRoom \cup {shard} |->
        IF r # shard THEN view.perRoom[r]
        ELSE [IF r \in DOMAIN view.perRoom THEN view.perRoom[r] ELSE Zero
                EXCEPT ![f] = perRoom[shard][f]]]

LoadRoom ==
    /\ roomLoads # << >>
    /\ view' = [view EXCEPT !.perRoom = Loaded(Head(roomLoads))]
    /\ roomLoads' = Tail(roomLoads)
    /\ shard' = IF Len(roomLoads) = 1 THEN shard + 1 ELSE shard
    /\ UNCHANGED <<loads, shown, snapshots>>
    /\ UNCHANGED <<counters, recorderVars>>

\* Mutation of LoadGlobal: load the globals whenever.
LoadGlobalEarly ==
    /\ shard # 0
    /\ roomLoads = << >>
    /\ loads # << >>
    /\ view' = [view EXCEPT !.globals[Head(loads)] = globals[Head(loads)]]
    /\ loads' = Tail(loads)
    /\ UNCHANGED <<shard, roomLoads, shown, snapshots>>
    /\ UNCHANGED <<counters, recorderVars>>

LoadGlobal ==
    /\ shard > NumRooms
    /\ loads # << >>
    /\ view' = [view EXCEPT !.globals[Head(loads)] = globals[Head(loads)]]
    /\ loads' = Tail(loads)
    /\ UNCHANGED <<shard, roomLoads, shown, snapshots>>
    /\ UNCHANGED <<counters, recorderVars>>

SnapshotReturns ==
    /\ shard > NumRooms
    /\ loads = << >>
    /\ shown' = view
    /\ view' = NoStats
    /\ shard' = 0
    /\ UNCHANGED <<roomLoads, loads, snapshots>>
    /\ UNCHANGED <<counters, recorderVars>>

----------------------------------------------------------------------------

Snapshot == SnapshotBegin \/ EnterShard \/ LoadRoom \/ LoadGlobal \/ SnapshotReturns

\* No record and no snapshot is under way.
AtRest ==
    /\ shard = 0
    /\ \A t \in Recorders : Idle(t)
    /\ UNCHANGED vars

Next ==
    \/ \E t \in Recorders, r \in Rooms, kind \in Kinds :
        <<r, kind>> \in Traffic /\ RecordRoom(t, r, kind)
    \/ \E t \in Recorders, kind \in Kinds :
        <<NoRoom, kind>> \in Traffic /\ RecordGlobal(t, kind)
    \/ \E t \in Recorders : AddRoom(t) \/ AddGlobal(t)
    \/ Snapshot
    \/ AtRest

Spec == Init /\ [][Next]_vars

----------------------------------------------------------------------------
(* Properties *)

Cells == [Field -> Nat]
AddRecords == [field : Field, n : Nat]

CountersType ==
    /\ globals \in Cells
    /\ DOMAIN perRoom \subseteq Rooms
    /\ \A r \in DOMAIN perRoom : perRoom[r] \in Cells

RecordersType ==
    /\ holds \in [Recorders -> {NoRoom} \cup DOMAIN perRoom]
    /\ toRoom \in [Recorders -> Seq(AddRecords)]
    /\ toGlobals \in [Recorders -> Seq(AddRecords)]
    /\ records \in 0..MaxRecords
    /\ direct \in Cells

StatsType(s) ==
    /\ s.globals \in Cells
    /\ DOMAIN s.perRoom \subseteq DOMAIN perRoom
    /\ \A r \in DOMAIN s.perRoom : s.perRoom[r] \in Cells

SnapshotType ==
    /\ shard \in 0..(NumRooms + 1)
    /\ roomLoads \in Seq(Field) /\ loads \in Seq(Field)
    /\ StatsType(view) /\ StatsType(shown)
    /\ snapshots \in 0..MaxSnapshots

TypeOK == CountersType /\ RecordersType /\ SnapshotType

\* What a set of rooms adds up to in one field.
RoomTotal(rooms, f) == SumFunction([r \in DOMAIN rooms |-> rooms[r][f]])

\* What the recorders have still to add.
Owed(adds, f) == SumFunction([t \in Recorders |-> Amount(adds[t], f)])

\* The globals are the rooms' traffic and what was recorded without a room,
\* but for the adds under way: nothing is lost or counted twice, whatever
\* the interleaving (stats.rs, "also bumps globals", "includes all room
\* traffic"; test concurrent_recording_no_lost_updates).
TotalsAgree ==
    \A f \in Field :
        globals[f] + Owed(toGlobals, f) = RoomTotal(perRoom, f) + Owed(toRoom, f) + direct[f]

\* Messages and bytes disagree by no more than one record.
TornByOneRecord(s) ==
    /\ s.bytes_in <= Bytes * (s.messages_in + 1)
    /\ Bytes * s.messages_in <= s.bytes_in + Bytes
    /\ s.bytes_out <= Bytes * (s.messages_out + Fanout)
    /\ Bytes * s.messages_out <= s.bytes_out + Bytes * Fanout

\* The counters of one room in a snapshot are torn by the record under way
\* at most (stats.rs snapshot against room_counters, whose entry excludes
\* the iterator and other records of the room).
RoomsTornByOneRecord == \A r \in DOMAIN shown.perRoom : TornByOneRecord(shown.perRoom[r])

\* A snapshot's global count lacks at most one record of each recorder among
\* those its rooms show, because the globals are loaded last (stats.rs Stats,
\* "includes all room traffic").
GlobalsLackOneRecordEach ==
    /\ RoomTotal(shown.perRoom, "messages_in") <= shown.globals["messages_in"] + Cardinality(Recorders)
    /\ RoomTotal(shown.perRoom, "drops") <= shown.globals["drops"] + Cardinality(Recorders)
    /\ RoomTotal(shown.perRoom, "messages_out")
        <= shown.globals["messages_out"] + Fanout * Cardinality(Recorders)

\* The difference of two snapshots is never negative and no room disappears
\* from them (stats.rs Stats, "deltas between two snapshots give rates";
\* snapshot, "includes every room that ever recorded traffic").
SnapshotsNeverGoBack ==
    [][/\ \A f \in Field : shown.globals[f] <= shown'.globals[f]
       /\ \A r \in DOMAIN shown.perRoom :
            /\ r \in DOMAIN shown'.perRoom
            /\ \A f \in Field : shown.perRoom[r][f] <= shown'.perRoom[r][f]]_vars

=============================================================================
