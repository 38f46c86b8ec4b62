------------------------- MODULE RoomManagerProofs -------------------------
(***************************************************************************)
(* Proofs about the room registry, its cleanups and its gauge, for any     *)
(* number of tasks, room ids, rooms and calls.                             *)
(***************************************************************************)
EXTENDS RoomManagerHistory, SequenceTheorems, SumTheorems

USE TasksAssumption, BoundAssumption

\* Types and control together are inductive: each keeps the other.
TInv == TypeOK /\ ControlAgrees

\* Removing a key leaves the map and the set of detached rooms well typed.
LEMMA UnbindTypes ==
    ASSUME TypeOK, NEW k \in Ids, Unbind(k)
    PROVE  detached' \in SUBSET Rooms /\ rooms' \in [Ids -> Rooms \cup {None}]
  BY DEF TypeOK, Unbind

\* Moving on to the next shard, with or without collecting the key.
LEMMA JudgedTypes ==
    ASSUME TypeOK, NEW t \in Tasks, pos[t] \in Ids, NEW e \in BOOLEAN, Judged(t, e)
    PROVE  /\ todo' \in [Tasks -> Seq(Ids)] /\ pos' \in [Tasks -> 1..(NumIds + 1)]
           /\ pc' \in [Tasks -> PCs]
<1>1. pos[t] + 1 \in 1..(NumIds + 1)
  BY DEF Ids
<1>2. Append(todo[t], pos[t]) \in Seq(Ids)
  BY DEF TypeOK
<1>3. QED
  BY <1>1, <1>2 DEF TypeOK, Judged, Goto, PCs

\* Every step keeps the types.
LEMMA TypeStep == TInv /\ [Next]_vars => TypeOK'
<1> SUFFICES ASSUME TInv, [Next]_vars PROVE TypeOK'
  OBVIOUS
<1> USE DEF TInv, TypeOK, PCs, Goto, StartCall, mapVars, roomVars, scanVars
<1>1. ASSUME NEW t \in Tasks, NEW k \in Ids, GetOrCreateHit(t, k) PROVE TypeOK'
  BY <1>1, SMTT(30) DEF GetOrCreateHit
<1>2. ASSUME NEW t \in Tasks, NEW k \in Ids, GetOrCreateMiss(t, k) PROVE TypeOK'
  <2>1. created + 1 \in Rooms /\ created + 1 \in 0..MaxRooms
    BY <1>2 DEF GetOrCreateMiss, Rooms
  <2>2. QED
    BY <1>2, <2>1 DEF GetOrCreateMiss
<1>3. ASSUME NEW t \in Tasks, RoomOpened(t) PROVE TypeOK'
  BY <1>3 DEF RoomOpened
<1>4. ASSUME NEW t \in Tasks, InsertOrGet(t) PROVE TypeOK'
  <2>1. key[t] \in Ids /\ mine[t] \in Rooms
    BY <1>4 DEF InsertOrGet, ControlAgrees
  <2>2. rooms' \in [Ids -> Rooms \cup {None}] /\ handle' \in [Tasks -> Rooms \cup {None}]
    <3>1. CASE rooms[key[t]] = None
      <4>1. /\ rooms' = [rooms EXCEPT ![key[t]] = mine[t]]
            /\ handle' = [handle EXCEPT ![t] = mine[t]]
        BY <1>4, <3>1, Zenon DEF InsertOrGet
      <4>2. QED
        BY <2>1, <4>1
    <3>2. CASE rooms[key[t]] # None
      <4>1. rooms' = rooms /\ handle' = [handle EXCEPT ![t] = rooms[key[t]]]
        BY <1>4, <3>2, Zenon DEF InsertOrGet
      <4>2. rooms[key[t]] \in Rooms
        BY <2>1, <3>2
      <4>3. QED
        BY <4>1, <4>2
    <3>3. QED
      BY <3>1, <3>2
  <2>3. lost' \in SUBSET Rooms
    BY <1>4, <2>1 DEF InsertOrGet
  <2>4. QED
    BY <1>4, <2>2, <2>3 DEF InsertOrGet
<1>5. ASSUME NEW t \in Tasks, NEW k \in Ids, Get(t, k) PROVE TypeOK'
  BY <1>5, SMTT(30) DEF Get
<1>6. ASSUME NEW t \in Tasks, NEW k \in Ids, Remove(t, k) PROVE TypeOK'
  BY <1>6 DEF Remove
<1>7. ASSUME NEW t \in Tasks, RemoveEntry(t) PROVE TypeOK'
  <2>1. key[t] \in Ids
    BY <1>7 DEF RemoveEntry, ControlAgrees
  <2>2. detached' \in SUBSET Rooms /\ rooms' \in [Ids -> Rooms \cup {None}]
    BY <1>7, <2>1, UnbindTypes DEF RemoveEntry
  <2>3. \/ closes' = [closes EXCEPT ![t] = 1] /\ pc' = [pc EXCEPT ![t] = "close"]
        \/ closes' = closes /\ pc' = [pc EXCEPT ![t] = "idle"]
    <3>1. CASE rooms[key[t]] # None
      BY <1>7, <3>1, Zenon DEF RemoveEntry
    <3>2. CASE rooms[key[t]] = None
      BY <1>7, <3>2, Zenon DEF RemoveEntry
    <3> QED
      BY <3>1, <3>2
  <2>4. closes' \in [Tasks -> Nat] /\ pc' \in [Tasks -> PCs]
    <3>1. CASE closes' = [closes EXCEPT ![t] = 1] /\ pc' = [pc EXCEPT ![t] = "close"]
      <4>1. closes' \in [Tasks -> Nat]
        BY <3>1
      <4>2. pc' \in [Tasks -> PCs]
        BY <3>1
      <4> QED
        BY <4>1, <4>2
    <3>2. CASE closes' = closes /\ pc' = [pc EXCEPT ![t] = "idle"]
      BY <3>2
    <3> QED
      BY <2>3, <3>1, <3>2
  <2>5. handle' \in [Tasks -> Rooms \cup {None}] /\ key' \in [Tasks -> Ids \cup {None}]
    BY <1>7, <2>1 DEF RemoveEntry
  <2>6. QED
    BY <1>7, <2>2, <2>4, <2>5 DEF RemoveEntry
<1>8. ASSUME NEW t \in Tasks, RoomClosed(t) PROVE TypeOK'
  <2>1. closes[t] - 1 \in Nat
    <3>1. closes[t] \in Nat /\ closes[t] # 0
      BY <1>8 DEF RoomClosed, ControlAgrees
    <3>2. QED
      BY <3>1
  <2>2. gauge' \in Nat
    BY <1>8 DEF RoomClosed
  <2>3. closes' \in [Tasks -> Nat] /\ pc' \in [Tasks -> PCs]
    BY <1>8, <2>1 DEF RoomClosed
  <2>4. QED
    BY <1>8, <2>2, <2>3 DEF RoomClosed
<1>9. ASSUME NEW t \in Tasks, NEW m \in {"cleanup", "cleanup_empty"}, Cleanup(t, m) PROVE TypeOK'
  BY <1>9, SMTT(30) DEF Cleanup
<1>10. ASSUME NEW t \in Tasks, ScanShard(t) PROVE TypeOK'
  <2>1. pos[t] + 1 \in 1..(NumIds + 1)
    BY <1>10 DEF ScanShard, Ids
  <2>2. pos' \in [Tasks -> 1..(NumIds + 1)] /\ pc' \in [Tasks -> PCs] /\ unread' \in [Tasks -> SUBSET Tasks]
    <3>1. CASE rooms[pos[t]] = None
      <4>1. pos' = [pos EXCEPT ![t] = @ + 1] /\ UNCHANGED <<pc, unread>>
        BY <1>10, <3>1, Zenon DEF ScanShard
      <4>2. QED
        BY <2>1, <4>1
    <3>2. CASE rooms[pos[t]] # None
      <4>1. /\ unread' = [unread EXCEPT ![t] = Tasks]
            /\ pc' = [pc EXCEPT ![t] = "roster"]
            /\ UNCHANGED pos
        BY <1>10, <3>2, Zenon DEF ScanShard
      <4>2. QED
        BY <4>1
    <3>3. QED
      BY <3>1, <3>2
  <2>3. QED
    BY <1>10, <2>2 DEF ScanShard
<1>11. ASSUME NEW t \in Tasks, NEW p \in Tasks, ReadRoster(t, p) PROVE TypeOK'
  <2>1. pos[t] \in Ids
    BY <1>11 DEF ReadRoster, ControlAgrees
  <2>2. \/ Judged(t, FALSE)
        \/ UNCHANGED <<todo, pos, pc>>
        \/ Goto(t, "recv") /\ UNCHANGED <<todo, pos>>
        \/ Judged(t, TRUE)
    <3>1. CASE mode[t] = "cleanup"
      BY <1>11, <3>1, Zenon DEF ReadRoster
    <3>2. CASE mode[t] # "cleanup"
      BY <1>11, <3>2, Zenon DEF ReadRoster
    <3>3. QED
      BY <3>1, <3>2
  <2>3. /\ todo' \in [Tasks -> Seq(Ids)] /\ pos' \in [Tasks -> 1..(NumIds + 1)]
        /\ pc' \in [Tasks -> PCs]
    <3>1. CASE Judged(t, FALSE)
      BY <2>1, <3>1, JudgedTypes
    <3>2. CASE Judged(t, TRUE)
      BY <2>1, <3>2, JudgedTypes
    <3>3. CASE UNCHANGED <<todo, pos, pc>>
      BY <3>3
    <3>4. CASE Goto(t, "recv") /\ UNCHANGED <<todo, pos>>
      <4>1. pc' = [pc EXCEPT ![t] = "recv"]
        BY <3>4
      <4>2. QED
        BY <3>4, <4>1
    <3>5. QED
      BY <2>2, <3>1, <3>2, <3>3, <3>4
  <2>4. unread' \in [Tasks -> SUBSET Tasks]
    BY <1>11 DEF ReadRoster
  <2>5. QED
    BY <1>11, <2>3, <2>4 DEF ReadRoster
<1>12. ASSUME NEW t \in Tasks, ReadReceivers(t) PROVE TypeOK'
  <2>1. pos[t] \in Ids
    BY <1>12 DEF ReadReceivers, ControlAgrees
  <2>2. Judged(t, receivers[rooms[pos[t]]] = {})
    BY <1>12 DEF ReadReceivers
  <2>3. /\ todo' \in [Tasks -> Seq(Ids)] /\ pos' \in [Tasks -> 1..(NumIds + 1)]
        /\ pc' \in [Tasks -> PCs]
    BY <2>1, <2>2, JudgedTypes
  <2>4. QED
    BY <1>12, <2>3 DEF ReadReceivers
<1>13. ASSUME NEW t \in Tasks, ScanDone(t) PROVE TypeOK'
  BY <1>13 DEF ScanDone
<1>14. ASSUME NEW t \in Tasks, Sweep(t) PROVE TypeOK'
  <2>1. todo[t] \in Seq(Ids) /\ todo[t] # << >>
    BY <1>14 DEF Sweep, ControlAgrees
  <2>2. Head(todo[t]) \in Ids /\ Tail(todo[t]) \in Seq(Ids)
    BY <2>1
  <2>3. detached' \in SUBSET Rooms /\ rooms' \in [Ids -> Rooms \cup {None}]
    BY <1>14, <2>2, UnbindTypes DEF Sweep
  <2>4. todo' \in [Tasks -> Seq(Ids)] /\ pc' \in [Tasks -> PCs]
    BY <1>14, <2>2 DEF Sweep
  <2>5. QED
    BY <1>14, <2>3, <2>4 DEF Sweep
<1>15. ASSUME NEW t \in Tasks, Join(t) PROVE TypeOK'
  BY <1>15 DEF Join, OnHandle
<1>16. ASSUME NEW t \in Tasks, Leave(t) PROVE TypeOK'
  BY <1>16 DEF Leave, OnHandle
<1>17. ASSUME NEW t \in Tasks, Subscribe(t) PROVE TypeOK'
  BY <1>17 DEF Subscribe, OnHandle
<1>18. ASSUME NEW t \in Tasks, NEW r \in Rooms, DropReceiver(t, r) PROVE TypeOK'
  BY <1>18 DEF DropReceiver
<1>19. CASE UNCHANGED vars
  BY <1>19 DEF vars
<1>20. QED
  BY <1>1, <1>2, <1>3, <1>4, <1>5, <1>6, <1>7, <1>8, <1>9, <1>10, <1>11, <1>12, <1>13, <1>14, <1>15, <1>16, <1>17, <1>18, <1>19
     DEF Next, CallStep, StartsCall, UsesRoom, Quiet

\* Every step keeps a task's locals in agreement with where it stands.
LEMMA ControlStep == TInv /\ [Next]_vars => ControlAgrees'
<1> SUFFICES ASSUME TInv, [Next]_vars PROVE ControlAgrees'
  OBVIOUS
<1> USE DEF TInv, TypeOK, ControlAgrees, Goto, StartCall, mapVars, roomVars, scanVars
<1>1. ASSUME NEW t \in Tasks, NEW k \in Ids, GetOrCreateHit(t, k) PROVE ControlAgrees'
  BY <1>1 DEF GetOrCreateHit
<1>2. ASSUME NEW t \in Tasks, NEW k \in Ids, GetOrCreateMiss(t, k) PROVE ControlAgrees'
  <2>1. created + 1 \in Rooms
    BY <1>2 DEF GetOrCreateMiss, Rooms
  <2>2. QED
    BY <1>2, <2>1 DEF GetOrCreateMiss
<1>3. ASSUME NEW t \in Tasks, RoomOpened(t) PROVE ControlAgrees'
  BY <1>3 DEF RoomOpened
<1>4. ASSUME NEW t \in Tasks, InsertOrGet(t) PROVE ControlAgrees'
  BY <1>4 DEF InsertOrGet
<1>5. ASSUME NEW t \in Tasks, NEW k \in Ids, Get(t, k) PROVE ControlAgrees'
  BY <1>5 DEF Get
<1>6. ASSUME NEW t \in Tasks, NEW k \in Ids, Remove(t, k) PROVE ControlAgrees'
  BY <1>6 DEF Remove
<1>7. ASSUME NEW t \in Tasks, RemoveEntry(t) PROVE ControlAgrees'
  <2>1. pc[t] = "remove" /\ key' = [key EXCEPT ![t] = None] /\ UNCHANGED <<mine, pos, todo>>
    BY <1>7 DEF RemoveEntry
  <2>2. \/ closes' = [closes EXCEPT ![t] = 1] /\ pc' = [pc EXCEPT ![t] = "close"]
        \/ closes' = closes /\ pc' = [pc EXCEPT ![t] = "idle"]
    BY <1>7, Zenon DEF RemoveEntry
  <2> QED
    BY <2>1, <2>2
<1>8. ASSUME NEW t \in Tasks, RoomClosed(t) PROVE ControlAgrees'
  BY <1>8 DEF RoomClosed
<1>9. ASSUME NEW t \in Tasks, NEW m \in {"cleanup", "cleanup_empty"}, Cleanup(t, m) PROVE ControlAgrees'
  BY <1>9 DEF Cleanup
<1>10. ASSUME NEW t \in Tasks, ScanShard(t) PROVE ControlAgrees'
  <2>1. pc[t] = "scan" /\ pos[t] \in Ids /\ UNCHANGED <<key, mine, todo, closes>>
    BY <1>10 DEF ScanShard, Ids
  <2>2. CASE rooms[pos[t]] = None
    <3>1. pos' = [pos EXCEPT ![t] = @ + 1] /\ UNCHANGED pc
      BY <1>10, <2>2, Zenon DEF ScanShard
    <3>2. QED
      BY <2>1, <3>1
  <2>3. CASE rooms[pos[t]] # None
    <3>1. pc' = [pc EXCEPT ![t] = "roster"] /\ UNCHANGED pos
      BY <1>10, <2>3, Zenon DEF ScanShard
    <3>2. QED
      BY <2>1, <3>1
  <2>4. QED
    BY <2>2, <2>3
<1>11. ASSUME NEW t \in Tasks, NEW p \in Tasks, ReadRoster(t, p) PROVE ControlAgrees'
  <2>1. CASE UNCHANGED <<todo, pos, pc>>
    BY <1>11, <2>1 DEF ReadRoster
  <2>2. CASE Goto(t, "recv") /\ UNCHANGED <<todo, pos>>
    BY <1>11, <2>2 DEF ReadRoster
  <2>3. CASE Judged(t, TRUE) \/ Judged(t, FALSE)
    <3>1. pc[t] = "roster" /\ pc' = [pc EXCEPT ![t] = "scan"]
      BY <1>11, <2>3 DEF ReadRoster, Judged
    <3>2. \A u \in Tasks : u # t => todo'[u] = todo[u] /\ pos'[u] = pos[u]
      BY <2>3 DEF Judged
    <3>3. UNCHANGED <<key, mine, closes>>
      BY <1>11 DEF ReadRoster
    <3> QED
      BY <3>1, <3>2, <3>3
  <2> QED
    BY <1>11, <2>1, <2>2, <2>3 DEF ReadRoster
<1>12. ASSUME NEW t \in Tasks, ReadReceivers(t) PROVE ControlAgrees'
  BY <1>12 DEF ReadReceivers, Judged
<1>13. ASSUME NEW t \in Tasks, ScanDone(t) PROVE ControlAgrees'
  BY <1>13 DEF ScanDone
<1>14. ASSUME NEW t \in Tasks, Sweep(t) PROVE ControlAgrees'
  <2>1. todo[t] \in Seq(Ids) /\ todo[t] # << >>
    BY <1>14 DEF Sweep
  <2>2. Len(todo[t]) # 1 => Tail(todo[t]) # << >>
    <3>1. Len(Tail(todo[t])) = Len(todo[t]) - 1 /\ Len(todo[t]) \in Nat
      BY <2>1, HeadTailProperties
    <3>2. Len(<< >>) = 0
      OBVIOUS
    <3>3. Len(todo[t]) # 1 => Len(Tail(todo[t])) # 0
      BY <3>1
    <3>4. QED
      BY <3>2, <3>3, Zenon
  <2>3. /\ pc' = [pc EXCEPT ![t] = IF Len(todo[t]) = 1 THEN "close" ELSE "sweep"]
        /\ todo' = [todo EXCEPT ![t] = Tail(todo[t])]
        /\ UNCHANGED <<key, mine, pos, closes>>
        /\ pc[t] = "sweep"
    BY <1>14 DEF Sweep
  <2>4. ASSUME NEW u \in Tasks PROVE pc'[u] = "sweep" => todo'[u] # << >>
    <3>1. CASE u = t
      BY <2>2, <2>3, <3>1
    <3>2. CASE u # t
      BY <2>3, <3>2
    <3>3. QED
      BY <3>1, <3>2
  <2>5. QED
    BY <2>3, <2>4
<1>15. ASSUME NEW t \in Tasks, Join(t) PROVE ControlAgrees'
  BY <1>15 DEF Join, OnHandle
<1>16. ASSUME NEW t \in Tasks, Leave(t) PROVE ControlAgrees'
  BY <1>16 DEF Leave, OnHandle
<1>17. ASSUME NEW t \in Tasks, Subscribe(t) PROVE ControlAgrees'
  BY <1>17 DEF Subscribe, OnHandle
<1>18. ASSUME NEW t \in Tasks, NEW r \in Rooms, DropReceiver(t, r) PROVE ControlAgrees'
  BY <1>18 DEF DropReceiver
<1>19. CASE UNCHANGED vars
  BY <1>19 DEF vars
<1>20. QED
  BY <1>1, <1>2, <1>3, <1>4, <1>5, <1>6, <1>7, <1>8, <1>9, <1>10, <1>11, <1>12, <1>13, <1>14, <1>15, <1>16, <1>17, <1>18, <1>19
     DEF Next, CallStep, StartsCall, UsesRoom, Quiet

\* The registry starts well typed, and every step keeps it so.
LEMMA TInvHolds == Spec => []TInv
<1>1. Init => TInv
  <2> SUFFICES ASSUME Init PROVE TInv
    OBVIOUS
  <2>1. << >> \in Seq(Ids)
    OBVIOUS
  <2>2. TypeOK
    BY <2>1 DEF Init, TypeOK, PCs
  <2>3. ControlAgrees
    BY DEF Init, ControlAgrees
  <2>4. QED
    BY <2>2, <2>3 DEF TInv
<1>2. TInv /\ [Next]_vars => TInv'
  BY TypeStep, ControlStep DEF TInv
<1>3. QED
  BY <1>1, <1>2, PTL DEF Spec

\* The registry's state keeps its types: no lookup ever returns anything but
\* a room or nothing, an iteration never leaves the map, and the gauge and
\* the closes a task owes never drop below zero (room.rs, stats.rs
\* saturating_dec).
THEOREM RegistryTypeCorrect == Spec => []TypeOK
<1>1. TInv => TypeOK
  BY DEF TInv
<1>2. QED
  BY <1>1, TInvHolds, PTL

\* What a step may do to one entry of the map.
LEMMA UnbindOnlyRemoves ==
    ASSUME TypeOK, NEW i \in Ids, Unbind(i), NEW k \in Ids
    PROVE  rooms'[k] \in {rooms[k], None}
  BY DEF TypeOK, Unbind

LEMMA EntryStep ==
    ASSUME TInv, [Next]_vars, NEW k \in Ids, rooms[k] # None
    PROVE  rooms'[k] \in {rooms[k], None}
<1> DEFINE Kept == rooms'[k] \in {rooms[k], None}
<1> USE DEF TInv, TypeOK, mapVars
<1>1. ASSUME UNCHANGED rooms PROVE Kept
  BY <1>1
<1>2. ASSUME NEW t \in Tasks, CallStep(t) PROVE Kept
  <2>1. CASE InsertOrGet(t)
    <3>1. key[t] \in Ids
      BY <2>1 DEF InsertOrGet, ControlAgrees
    <3>2. QED
      BY <2>1, <3>1 DEF InsertOrGet
  <2>2. CASE Sweep(t)
    <3>1. Head(todo[t]) \in Ids
      <4>1. todo[t] \in Seq(Ids) /\ todo[t] # << >>
        BY <2>2 DEF Sweep, ControlAgrees
      <4>2. QED
        BY <4>1
    <3>2. QED
      BY <2>2, <3>1, UnbindOnlyRemoves DEF Sweep
  <2>3. CASE RemoveEntry(t)
    BY <2>3, UnbindOnlyRemoves DEF RemoveEntry, ControlAgrees
  <2>4. CASE ~InsertOrGet(t) /\ ~Sweep(t) /\ ~RemoveEntry(t)
    BY <1>1, <1>2, <2>4
       DEF CallStep, RoomOpened, RoomClosed, ScanShard, ReadRoster, ReadReceivers, ScanDone
  <2>5. QED
    BY <2>1, <2>2, <2>3, <2>4
<1>3. ASSUME NEW t \in Tasks, StartsCall(t) PROVE Kept
  BY <1>1, <1>3 DEF StartsCall, GetOrCreateHit, GetOrCreateMiss, Get, Remove, Cleanup
<1>4. ASSUME NEW t \in Tasks, UsesRoom(t) PROVE Kept
  BY <1>1, <1>4 DEF UsesRoom, Join, Leave, Subscribe, DropReceiver
<1>5. CASE Quiet \/ UNCHANGED vars
  BY <1>1, <1>5 DEF Quiet, vars
<1>6. QED
  BY <1>2, <1>3, <1>4, <1>5 DEF Next

\* A bound room id is never rebound, for any number of tasks racing on it:
\* get_or_create's second look at the map inserts only where nothing is
\* registered, and every other step leaves an entry alone or removes it.
THEOREM EntriesNeverRebound == Spec => KeysNeverRebound
<1>1. TInv /\ [Next]_vars => [\A k \in Ids : rooms[k] # None => rooms'[k] \in {rooms[k], None}]_vars
  BY EntryStep
<1>2. QED
  BY <1>1, TInvHolds, PTL DEF Spec, KeysNeverRebound

----------------------------------------------------------------------------
(* Nobody is left in a room that was never registered *)

\* The strengthening that makes NoOrphanMembers inductive: the map files a
\* room under its own id, a call in progress offers a room made for the key
\* it asks for, and rooms not allocated yet are out of reach.
RInv == TInv /\ MapConsistent /\ OffersMatch /\ FutureUnused /\ NoOrphanMembers

\* A removal, by remove or by a sweep, marks the room it takes out.
LEMMA UnbindKeeps ==
    ASSUME RInv, NEW k \in Ids, Unbind(k), UNCHANGED <<roomId, created>>
    PROVE  /\ MapConsistent'
           /\ \A r \in Rooms : r \in detached \/ (\E i \in Ids : i = roomId[r] /\ rooms[i] = r)
                => r \in detached' \/ \E i \in Ids : i = roomId[r] /\ rooms'[i] = r
<1> USE DEF RInv, TInv, TypeOK, Unbind
<1>1. MapConsistent'
  BY DEF MapConsistent
<1>2. ASSUME NEW r \in Rooms, r \in detached \/ \E i \in Ids : i = roomId[r] /\ rooms[i] = r
      PROVE  r \in detached' \/ \E i \in Ids : i = roomId[r] /\ rooms'[i] = r
  <2>1. CASE r \in detached
    BY <2>1
  <2>2. CASE r \notin detached
    <3>1. PICK i \in Ids : i = roomId[r] /\ rooms[i] = r
      BY <1>2, <2>2
    <3>2. CASE i = k
      BY <3>1, <3>2 DEF Rooms, None
    <3>3. CASE i # k
      BY <3>1, <3>3
    <3>4. QED
      BY <3>2, <3>3
  <2>3. QED
    BY <2>1, <2>2
<1>3. QED
  BY <1>1, <1>2

\* A registered room is filed under its own id.
LEMMA FiledUnderOwnId ==
    ASSUME RInv, NEW k \in Ids, NEW r \in Rooms, rooms[k] = r
    PROVE  r <= created /\ roomId[r] = k
  BY DEF RInv, MapConsistent, Rooms, None

\* A lookup hands out a room that is registered.
LEMMA LookupKeeps ==
    ASSUME RInv, NEW t \in Tasks, NEW k \in Ids,
           handle' = [handle EXCEPT ![t] = rooms[k]],
           UNCHANGED <<rooms, roomId, participants, receivers, created, detached>>
    PROVE  FutureUnused' /\ NoOrphanMembers'
<1> USE DEF RInv, TInv, TypeOK
<1>1. ASSUME NEW r \in Rooms, InUse(r)' PROVE InUse(r) \/ rooms[k] = r
  BY <1>1 DEF InUse
<1>2. ASSUME NEW r \in Rooms, rooms[k] = r PROVE r <= created /\ roomId[r] = k
  BY <1>2, FiledUnderOwnId
<1>3. FutureUnused'
  BY <1>1, <1>2 DEF FutureUnused
<1>4. NoOrphanMembers'
  BY <1>1, <1>2 DEF NoOrphanMembers
<1>5. QED
  BY <1>3, <1>4

\* Steps that touch neither the map nor what anybody can reach.
LEMMA StillKeeps ==
    ASSUME RInv, UNCHANGED <<mapVars, roomVars, handle>>
    PROVE  MapConsistent' /\ FutureUnused' /\ NoOrphanMembers'
  BY DEF RInv, MapConsistent, FutureUnused, NoOrphanMembers, InUse, mapVars, roomVars

\* Only get_or_create changes what a call in progress is going to offer.
LEMMA OffersKeep ==
    ASSUME RInv, UNCHANGED <<roomId, created, mine>>,
           \A u \in Tasks : pc'[u] \in {"open", "insert"}
                => pc[u] \in {"open", "insert"} /\ key'[u] = key[u]
    PROVE  OffersMatch'
  BY DEF RInv, OffersMatch

\* The allocation of a room disturbs no other room.
LEMMA MissKeeps ==
    ASSUME RInv, NEW t \in Tasks, NEW k \in Ids, GetOrCreateMiss(t, k)
    PROVE  MapConsistent' /\ OffersMatch' /\ FutureUnused' /\ NoOrphanMembers'
<1> USE DEF RInv, TInv, TypeOK, GetOrCreateMiss, Goto, roomVars
<1>1. created + 1 \in Rooms /\ created \in Nat /\ created' = created + 1
  BY DEF Rooms
<1>2. ASSUME NEW r \in Rooms, r <= created PROVE r <= created' /\ roomId'[r] = roomId[r]
  BY <1>1, <1>2 DEF Rooms
<1>3. MapConsistent'
  BY <1>1, <1>2 DEF MapConsistent
<1>4. OffersMatch'
  <2>1. ASSUME NEW u \in Tasks, pc'[u] \in {"open", "insert"}
        PROVE  roomId'[mine'[u]] = key'[u] /\ mine'[u] <= created'
    <3>1. CASE u = t
      BY <1>1, <3>1
    <3>2. CASE u # t
      <4>1. pc[u] \in {"open", "insert"} /\ mine'[u] = mine[u] /\ key'[u] = key[u]
        BY <2>1, <3>2
      <4>2. mine[u] \in Rooms /\ roomId[mine[u]] = key[u] /\ mine[u] <= created
        BY <4>1 DEF ControlAgrees, OffersMatch
      <4>3. QED
        BY <1>2, <4>1, <4>2
    <3>3. QED
      BY <3>1, <3>2
  <2>2. QED
    BY <2>1 DEF OffersMatch
<1>5. ASSUME NEW r \in Rooms PROVE InUse(r)' = InUse(r)
  BY DEF InUse
<1>6. FutureUnused'
  BY <1>2, <1>5 DEF FutureUnused
<1>7. NoOrphanMembers'
  BY <1>2, <1>5 DEF FutureUnused, NoOrphanMembers
<1>8. QED
  BY <1>3, <1>4, <1>6, <1>7

\* The second look at the map: the task's own room where nothing is
\* registered, the registered room otherwise.
LEMMA InsertKeeps ==
    ASSUME RInv, NEW t \in Tasks, InsertOrGet(t)
    PROVE  MapConsistent' /\ OffersMatch' /\ FutureUnused' /\ NoOrphanMembers'
<1> USE DEF RInv, TInv, TypeOK
<1>1. /\ key[t] \in Ids /\ mine[t] \in Rooms
      /\ roomId[mine[t]] = key[t] /\ mine[t] <= created
  BY DEF InsertOrGet, ControlAgrees, OffersMatch
<1>2. OffersMatch'
  <2>1. ASSUME NEW u \in Tasks, pc'[u] \in {"open", "insert"}
        PROVE  pc[u] \in {"open", "insert"} /\ mine'[u] = mine[u] /\ key'[u] = key[u]
    BY <2>1 DEF InsertOrGet, Goto
  <2>2. UNCHANGED <<roomId, created>>
    BY DEF InsertOrGet
  <2>3. QED
    BY <2>1, <2>2 DEF OffersMatch
<1>3. CASE rooms[key[t]] = None
  <2>1. /\ rooms' = [rooms EXCEPT ![key[t]] = mine[t]]
        /\ handle' = [handle EXCEPT ![t] = mine[t]]
        /\ UNCHANGED <<roomId, created, detached, participants, receivers>>
    BY <1>3, Zenon DEF InsertOrGet, roomVars
  <2>2. MapConsistent'
    BY <1>1, <2>1 DEF MapConsistent
  <2>3. ASSUME NEW r \in Rooms, InUse(r)' PROVE InUse(r) \/ r = mine[t]
    BY <2>1, <2>3 DEF InUse
  <2>4. FutureUnused'
    BY <1>1, <2>1, <2>3 DEF FutureUnused
  <2>5. ASSUME NEW r \in Rooms, InUse(r)'
        PROVE  r \in detached \/ \E k \in Ids : k = roomId[r] /\ rooms'[k] = r
    <3>1. CASE r = mine[t]
      BY <1>1, <2>1, <3>1
    <3>2. CASE r # mine[t] /\ r \notin detached
      <4>1. PICK k \in Ids : k = roomId[r] /\ rooms[k] = r
        BY <2>3, <2>5, <3>2 DEF NoOrphanMembers
      <4>2. k # key[t]
        BY <1>3, <4>1 DEF Rooms, None
      <4>3. QED
        BY <2>1, <4>1, <4>2
    <3>3. QED
      BY <3>1, <3>2
  <2>6. NoOrphanMembers'
    BY <2>1, <2>5 DEF NoOrphanMembers
  <2>7. QED
    BY <1>2, <2>2, <2>4, <2>6
<1>4. CASE rooms[key[t]] # None
  <2>1. /\ handle' = [handle EXCEPT ![t] = rooms[key[t]]]
        /\ UNCHANGED <<rooms, roomId, created, detached, participants, receivers>>
    BY <1>4, Zenon DEF InsertOrGet, roomVars
  <2>2. FutureUnused' /\ NoOrphanMembers'
    BY <1>1, <2>1, LookupKeeps
  <2>3. MapConsistent'
    BY <2>1 DEF MapConsistent
  <2>4. QED
    BY <1>2, <2>2, <2>3
<1>5. QED
  BY <1>3, <1>4

\* A task touches a roster or a ring only through a handle or receiver it has.
LEMMA RoomUseKeeps ==
    ASSUME RInv, NEW t \in Tasks, UsesRoom(t)
    PROVE  MapConsistent' /\ OffersMatch' /\ FutureUnused' /\ NoOrphanMembers'
<1> USE DEF RInv, TInv, TypeOK
<1>1. UNCHANGED <<rooms, roomId, created, detached, handle, key, mine, pc>>
  BY DEF UsesRoom, Join, Leave, Subscribe, DropReceiver, mapVars
<1>2. ASSUME NEW r \in Rooms, InUse(r)' PROVE InUse(r)
  <2>1. CASE Join(t)
    BY <1>2, <2>1 DEF Join, OnHandle, InUse
  <2>2. CASE Leave(t)
    BY <1>2, <2>2 DEF Leave, OnHandle, InUse
  <2>3. CASE Subscribe(t)
    BY <1>2, <2>3 DEF Subscribe, OnHandle, InUse
  <2>4. ASSUME NEW q \in Rooms, DropReceiver(t, q) PROVE InUse(r)
    BY <1>2, <2>4 DEF DropReceiver, InUse
  <2>5. QED
    BY <2>1, <2>2, <2>3, <2>4 DEF UsesRoom
<1>3. MapConsistent' /\ OffersMatch'
  BY <1>1 DEF MapConsistent, OffersMatch
<1>4. FutureUnused'
  BY <1>1, <1>2 DEF FutureUnused
<1>5. NoOrphanMembers'
  BY <1>1, <1>2 DEF NoOrphanMembers
<1>6. QED
  BY <1>3, <1>4, <1>5

\* A removal: the room it takes out is marked, and everything else stays.
LEMMA RemovalKeeps ==
    ASSUME RInv, NEW k \in Ids, Unbind(k),
           UNCHANGED <<roomId, created, participants, receivers>>,
           \A r \in Rooms : InUse(r)' => InUse(r) \/ rooms[k] = r
    PROVE  MapConsistent' /\ FutureUnused' /\ NoOrphanMembers'
<1>1. ASSUME NEW r \in Rooms, rooms[k] = r PROVE r <= created /\ roomId[r] = k
  BY <1>1, FiledUnderOwnId
<1>2. FutureUnused'
  BY <1>1 DEF RInv, FutureUnused
<1>3. ASSUME NEW r \in Rooms, InUse(r)'
      PROVE  r \in detached \/ \E i \in Ids : i = roomId[r] /\ rooms[i] = r
  BY <1>1, <1>3 DEF RInv, NoOrphanMembers
<1>4. NoOrphanMembers'
  BY <1>3, UnbindKeeps DEF NoOrphanMembers
<1>5. QED
  BY <1>2, <1>4, UnbindKeeps

LEMMA RegistryStep ==
    RInv /\ [Next]_vars => MapConsistent' /\ OffersMatch' /\ FutureUnused' /\ NoOrphanMembers'
<1> DEFINE Goal == MapConsistent' /\ OffersMatch' /\ FutureUnused' /\ NoOrphanMembers'
<1> SUFFICES ASSUME RInv, [Next]_vars PROVE Goal
  OBVIOUS
<1>t. TypeOK /\ ControlAgrees
  BY DEF RInv, TInv
<1>1. ASSUME NEW t \in Tasks, CallStep(t) PROVE Goal
  <2>1. CASE InsertOrGet(t)
    BY <2>1, InsertKeeps
  <2>2. CASE Sweep(t)
    <3>1. Head(todo[t]) \in Ids
      <4>1. todo[t] \in Seq(Ids) /\ todo[t] # << >>
        BY <1>t, <2>2 DEF Sweep, TypeOK, ControlAgrees
      <4>2. QED
        BY <4>1
    <3>2. \A r \in Rooms : InUse(r)' => InUse(r)
      BY <2>2 DEF Sweep, InUse, roomVars
    <3>3. MapConsistent' /\ FutureUnused' /\ NoOrphanMembers'
      BY <2>2, <3>1, <3>2, RemovalKeeps DEF Sweep, roomVars
    <3>4. OffersMatch'
      BY <1>t, <2>2, OffersKeep DEF Sweep, Goto, TypeOK
    <3>5. QED
      BY <3>3, <3>4
  <2>3. CASE RoomOpened(t)
    BY <1>t, <2>3, StillKeeps, OffersKeep DEF RoomOpened, Goto, TypeOK, mapVars
  <2>4. CASE RoomClosed(t)
    BY <1>t, <2>4, StillKeeps, OffersKeep DEF RoomClosed, Goto, TypeOK, mapVars
  <2>5. CASE ScanShard(t)
    BY <1>t, <2>5, StillKeeps, OffersKeep DEF ScanShard, Goto, TypeOK, mapVars
  <2>6. ASSUME NEW p \in Tasks, ReadRoster(t, p) PROVE Goal
    BY <1>t, <2>6, StillKeeps, OffersKeep, SMTT(30) DEF ReadRoster, Judged, Goto, TypeOK, mapVars
  <2>7. CASE ReadReceivers(t)
    BY <1>t, <2>7, StillKeeps, OffersKeep DEF ReadReceivers, Judged, Goto, TypeOK, mapVars
  <2>8. CASE ScanDone(t)
    BY <1>t, <2>8, StillKeeps, OffersKeep DEF ScanDone, Goto, TypeOK, mapVars
  <2>9. CASE RemoveEntry(t)
    <3>1. key[t] \in Ids
      BY <1>t, <2>9 DEF RemoveEntry, ControlAgrees
    <3>2. \A r \in Rooms : InUse(r)' => InUse(r) \/ rooms[key[t]] = r
      BY <1>t, <2>9 DEF RemoveEntry, InUse, roomVars, TypeOK
    <3>3. MapConsistent' /\ FutureUnused' /\ NoOrphanMembers'
      BY <2>9, <3>1, <3>2, RemovalKeeps DEF RemoveEntry, roomVars
    <3>4. \A u \in Tasks : pc'[u] \in {"open", "insert"} => u # t /\ pc'[u] = pc[u] /\ key'[u] = key[u]
      BY <1>t, <2>9 DEF RemoveEntry, Goto, TypeOK
    <3>5. OffersMatch'
      BY <2>9, <3>4, OffersKeep DEF RemoveEntry
    <3>6. QED
      BY <3>3, <3>5
  <2>10. QED
    BY <1>1, <2>1, <2>2, <2>3, <2>4, <2>5, <2>6, <2>7, <2>8, <2>9 DEF CallStep
<1>2. ASSUME NEW t \in Tasks, StartsCall(t) PROVE Goal
  <2>1. ASSUME NEW k \in Ids, GetOrCreateHit(t, k) \/ Get(t, k) PROVE Goal
    <3>1. /\ handle' = [handle EXCEPT ![t] = rooms[k]]
          /\ UNCHANGED <<rooms, roomId, participants, receivers, created, detached, pc, key, mine>>
      BY <2>1 DEF GetOrCreateHit, Get, mapVars, roomVars
    <3>2. MapConsistent'
      BY <3>1 DEF RInv, MapConsistent
    <3>3. QED
      BY <3>1, <3>2, LookupKeeps, OffersKeep
  <2>2. ASSUME NEW k \in Ids, GetOrCreateMiss(t, k) PROVE Goal
    BY <2>2, MissKeeps
  <2>3. ASSUME NEW k \in Ids, Remove(t, k) PROVE Goal
    BY <1>t, <2>3, StillKeeps, OffersKeep DEF Remove, Goto, TypeOK, mapVars
  <2>4. ASSUME NEW m \in {"cleanup", "cleanup_empty"}, Cleanup(t, m) PROVE Goal
    BY <1>t, <2>4, StillKeeps, OffersKeep DEF Cleanup, Goto, TypeOK, mapVars
  <2>5. QED
    BY <1>2, <2>1, <2>2, <2>3, <2>4 DEF StartsCall
<1>3. ASSUME NEW t \in Tasks, UsesRoom(t) PROVE Goal
  BY <1>3, RoomUseKeeps
<1>4. CASE Quiet \/ UNCHANGED vars
  BY <1>4, StillKeeps, OffersKeep DEF Quiet, vars, mapVars, roomVars
<1>5. QED
  BY <1>1, <1>2, <1>3, <1>4 DEF Next

LEMMA RInvHolds == Spec => []RInv
<1>1. Init => RInv
  <2> SUFFICES ASSUME Init PROVE RInv
    OBVIOUS
  <2>1. << >> \in Seq(Ids)
    OBVIOUS
  <2>2. TInv
    BY <2>1 DEF Init, TInv, TypeOK, PCs, ControlAgrees
  <2>3. \A r \in Rooms : ~InUse(r)
    BY DEF Init, InUse, Rooms, None
  <2>4. QED
    BY <2>2, <2>3 DEF Init, RInv, MapConsistent, OffersMatch, FutureUnused, NoOrphanMembers
<1>2. RInv /\ [Next]_vars => RInv'
  BY TypeStep, ControlStep, RegistryStep DEF RInv, TInv
<1>3. QED
  BY <1>1, <1>2, PTL DEF Spec

\* Whoever holds, joined or listens to a room is in the room the map knows
\* under that id, or in one that was removed from the map: the room of a
\* task that lost the insert race in get_or_create_with_capacity is never
\* handed out, however many tasks race.
THEOREM MembersAreRegistered == Spec => []NoOrphanMembers
<1>1. RInv => NoOrphanMembers
  BY DEF RInv
<1>2. QED
  BY <1>1, RInvHolds, PTL

----------------------------------------------------------------------------
(* The registry under its history *)

\* A registered room is found under its own id.
LEMMA LiveFacts ==
    ASSUME RInv, NEW r \in Live
    PROVE  /\ r \in Rooms /\ r <= created
           /\ roomId[r] \in Ids /\ rooms[roomId[r]] = r
<1>1. PICK k \in Ids : rooms[k] = r
  BY DEF Live
<1>2. r \in Rooms
  BY DEF Live
<1>3. r <= created /\ roomId[r] = k
  BY <1>1, <1>2, FiledUnderOwnId
<1> QED
  BY <1>1, <1>2, <1>3

\* Room ids are given once.
LEMMA IdsKept ==
    ASSUME RInv, [Next]_vars, NEW r \in Rooms, r <= created
    PROVE  roomId'[r] = roomId[r]
<1>1. CASE UNCHANGED roomId
  BY <1>1
<1>2. ASSUME NEW t \in Tasks, NEW k \in Ids, GetOrCreateMiss(t, k)
      PROVE  roomId'[r] = roomId[r]
  <2>1. roomId' = [roomId EXCEPT ![created + 1] = k] /\ created \in Nat /\ r \in Nat
    BY <1>2 DEF GetOrCreateMiss, RInv, TInv, TypeOK, Rooms
  <2>2. r # created + 1
    BY <2>1
  <2> QED
    BY <2>1, <2>2 DEF RInv, TInv, TypeOK
<1>3. UNCHANGED roomId \/ \E t \in Tasks, k \in Ids : GetOrCreateMiss(t, k)
  <2>1. ASSUME NEW t \in Tasks, CallStep(t) PROVE UNCHANGED roomId
    BY <2>1 DEF CallStep, mapVars, RoomOpened, InsertOrGet, RemoveEntry, RoomClosed, ScanShard, ReadRoster,
                ReadReceivers, ScanDone, Sweep
  <2>2. ASSUME NEW t \in Tasks, UsesRoom(t) PROVE UNCHANGED roomId
    BY <2>2 DEF UsesRoom, mapVars, Join, Leave, Subscribe, DropReceiver
  <2>3. ASSUME NEW t \in Tasks, StartsCall(t), ~\E k \in Ids : GetOrCreateMiss(t, k)
        PROVE  UNCHANGED roomId
    BY <2>3 DEF StartsCall, mapVars, GetOrCreateHit, Get, Remove, Cleanup
  <2>4. ASSUME UNCHANGED vars PROVE UNCHANGED roomId
    BY <2>4 DEF vars
  <2> QED
    BY <2>1, <2>2, <2>3, <2>4 DEF Next, Quiet
<1> QED
  BY <1>1, <1>2, <1>3

\* A cleanup advances by its own steps only.
LEMMA OwnSteps ==
    ASSUME TInv, [Next]_vars, NEW t \in Tasks, Cleaning(t)
    PROVE  \/ /\ pc'[t] = pc[t] /\ pos'[t] = pos[t] /\ todo'[t] = todo[t] /\ unread'[t] = unread[t]
              /\ closes'[t] = closes[t]
           \/ ScanShard(t) \/ (\E p \in Tasks : ReadRoster(t, p)) \/ ReadReceivers(t)
           \/ ScanDone(t) \/ Sweep(t)
<1> DEFINE Still == /\ pc'[t] = pc[t] /\ pos'[t] = pos[t] /\ todo'[t] = todo[t] /\ unread'[t] = unread[t]
                    /\ closes'[t] = closes[t]
           Own == \/ ScanShard(t) \/ (\E p \in Tasks : ReadRoster(t, p)) \/ ReadReceivers(t)
                  \/ ScanDone(t) \/ Sweep(t)
<1>1. /\ pc \in [Tasks -> PCs] /\ pos \in [Tasks -> 1..(NumIds + 1)]
      /\ todo \in [Tasks -> Seq(Ids)] /\ unread \in [Tasks -> SUBSET Tasks]
      /\ closes \in [Tasks -> Nat]
  BY DEF TInv, TypeOK
<1>2. pc[t] \in {"scan", "roster", "recv", "sweep"}
  BY DEF Cleaning
<1>3. ASSUME NEW u \in Tasks, CallStep(u) PROVE Still \/ Own
  <2>1. CASE u = t
    BY <1>2, <1>3, <2>1 DEF CallStep, RoomOpened, InsertOrGet, RemoveEntry, RoomClosed
  <2>2. CASE u # t
    <3>1. CASE ScanShard(u) \/ ScanDone(u) \/ Sweep(u) \/ RoomOpened(u) \/ InsertOrGet(u) \/ RemoveEntry(u) \/ RoomClosed(u)
      BY <1>1, <2>2, <3>1 DEF ScanShard, ScanDone, Sweep, RoomOpened, InsertOrGet, RemoveEntry, RoomClosed, Goto, scanVars
    <3>2. CASE ReadReceivers(u)
      BY <1>1, <2>2, <3>2 DEF ReadReceivers, Judged, Goto
    <3>3. ASSUME NEW p \in Tasks, ReadRoster(u, p) PROVE Still
      BY <1>1, <2>2, <3>3 DEF ReadRoster, Judged, Goto
    <3> QED
      BY <1>3, <3>1, <3>2, <3>3 DEF CallStep
  <2> QED
    BY <2>1, <2>2
<1>4. ASSUME NEW u \in Tasks, StartsCall(u) PROVE Still
  <2>1. pc[u] = "idle"
    BY <1>4 DEF StartsCall, GetOrCreateHit, GetOrCreateMiss, Get, Remove, Cleanup, StartCall
  <2>2. u # t
    BY <1>2, <2>1
  <2>3. CASE \E k \in Ids : GetOrCreateHit(u, k) \/ GetOrCreateMiss(u, k) \/ Get(u, k)
    BY <1>1, <2>2, <2>3 DEF GetOrCreateHit, GetOrCreateMiss, Get, Goto, scanVars
  <2>4. CASE \E k \in Ids : Remove(u, k)
    BY <1>1, <2>2, <2>4 DEF Remove, Goto, scanVars
  <2>5. CASE \E m \in {"cleanup", "cleanup_empty"} : Cleanup(u, m)
    BY <1>1, <2>2, <2>5 DEF Cleanup, Goto
  <2> QED
    BY <1>4, <2>3, <2>4, <2>5 DEF StartsCall
<1>5. ASSUME NEW u \in Tasks, UsesRoom(u) PROVE Still
  BY <1>5 DEF UsesRoom, Join, Leave, Subscribe, DropReceiver, scanVars
<1>6. CASE Quiet \/ UNCHANGED vars
  BY <1>6 DEF Quiet, vars
<1> QED
  BY <1>3, <1>4, <1>5, <1>6 DEF Next

\* A cleanup begins at the first shard with nothing collected.
LEMMA CleaningBegins ==
    ASSUME TInv, [Next]_vars, NEW t \in Tasks, ~Cleaning(t), Cleaning(t)'
    PROVE  pc'[t] = "scan" /\ pos'[t] = 1 /\ todo'[t] = << >>
<1>1. /\ pc \in [Tasks -> PCs] /\ pos \in [Tasks -> 1..(NumIds + 1)] /\ todo \in [Tasks -> Seq(Ids)]
  BY DEF TInv, TypeOK
<1>2. pc[t] \notin {"scan", "roster", "recv", "sweep"} /\ pc'[t] \in {"scan", "roster", "recv", "sweep"}
  BY DEF Cleaning
<1>3. pc'[t] # pc[t]
  BY <1>2
<1>4. ASSUME NEW u \in Tasks, CallStep(u) PROVE FALSE
  <2>1. CASE u = t
    BY <1>1, <1>2, <1>4, <2>1 DEF CallStep, RoomOpened, InsertOrGet, RemoveEntry, RoomClosed, ScanShard, ReadRoster,
        ReadReceivers, ScanDone, Sweep, Goto
  <2>2. CASE u # t
    BY <1>1, <1>3, <1>4, <2>2 DEF CallStep, RoomOpened, InsertOrGet, RemoveEntry, RoomClosed, ScanShard, ReadRoster,
        ReadReceivers, ScanDone, Sweep, Judged, Goto
  <2> QED
    BY <2>1, <2>2
<1>5. ASSUME NEW u \in Tasks, StartsCall(u) PROVE \E m \in {"cleanup", "cleanup_empty"} : Cleanup(t, m)
  <2>1. CASE \E k \in Ids : GetOrCreateHit(u, k) \/ GetOrCreateMiss(u, k) \/ Get(u, k)
    BY <1>1, <1>2, <1>3, <2>1 DEF GetOrCreateHit, GetOrCreateMiss, Get, Goto
  <2>2. CASE \E k \in Ids : Remove(u, k)
    BY <1>1, <1>2, <1>3, <2>2 DEF Remove, Goto
  <2>3. ASSUME NEW m \in {"cleanup", "cleanup_empty"}, Cleanup(u, m) PROVE u = t
    BY <1>1, <1>3, <2>3 DEF Cleanup, Goto
  <2> QED
    BY <1>5, <2>1, <2>2, <2>3 DEF StartsCall
<1>6. ~\E u \in Tasks : UsesRoom(u)
  BY <1>3 DEF UsesRoom, Join, Leave, Subscribe, DropReceiver
<1>7. ~(Quiet \/ UNCHANGED vars)
  BY <1>3 DEF Quiet, vars
<1>8. \E m \in {"cleanup", "cleanup_empty"} : Cleanup(t, m)
  BY <1>4, <1>5, <1>6, <1>7 DEF Next
<1> QED
  BY <1>1, <1>8 DEF Cleanup, Goto

----------------------------------------------------------------------------
(* Lists of keys *)

Listed(s, k) == \E i \in 1..Len(s) : s[i] = k

LEMMA ListedAppend ==
    ASSUME NEW s \in Seq(Ids), NEW j \in Ids, NEW k
    PROVE  Listed(Append(s, j), k) <=> Listed(s, k) \/ k = j
<1>1. /\ Len(s) \in Nat /\ Len(Append(s, j)) = Len(s) + 1
      /\ \A i \in 1..Len(s) : Append(s, j)[i] = s[i]
      /\ Append(s, j)[Len(s) + 1] = j
  OBVIOUS
<1>2. \A i \in 1..(Len(s) + 1) : i \in 1..Len(s) \/ i = Len(s) + 1
  BY <1>1
<1>3. \A i \in 1..Len(s) : i \in 1..(Len(s) + 1)
  BY <1>1
<1>4. Len(s) + 1 \in 1..(Len(s) + 1)
  BY <1>1
<1> QED
  BY <1>1, <1>2, <1>3, <1>4 DEF Listed

LEMMA ListedTail ==
    ASSUME NEW s \in Seq(Ids), s # << >>, NEW k
    PROVE  /\ Listed(s, k) <=> k = Head(s) \/ Listed(Tail(s), k)
           /\ Len(Tail(s)) = Len(s) - 1
<1>1. /\ Len(s) \in Nat /\ Len(s) >= 1 /\ Len(Tail(s)) = Len(s) - 1 /\ Head(s) = s[1]
      /\ \A i \in 1..(Len(s) - 1) : Tail(s)[i] = s[i + 1]
  OBVIOUS
<1>2. ASSUME Listed(s, k) PROVE k = Head(s) \/ Listed(Tail(s), k)
  <2>1. PICK i \in 1..Len(s) : s[i] = k
    BY <1>2 DEF Listed
  <2>2. CASE i = 1
    BY <1>1, <2>1, <2>2
  <2>3. CASE i # 1
    <3>1. i - 1 \in 1..(Len(s) - 1) /\ (i - 1) + 1 = i
      BY <1>1, <2>3
    <3>2. Tail(s)[i - 1] = k
      BY <1>1, <2>1, <3>1
    <3> QED
      BY <1>1, <3>1, <3>2 DEF Listed
  <2> QED
    BY <2>2, <2>3
<1>3. ASSUME Listed(Tail(s), k) PROVE Listed(s, k)
  <2>1. PICK i \in 1..(Len(s) - 1) : Tail(s)[i] = k
    BY <1>1, <1>3 DEF Listed
  <2>2. i + 1 \in 1..Len(s) /\ s[i + 1] = k
    BY <1>1, <2>1
  <2> QED
    BY <2>2 DEF Listed
<1>4. k = Head(s) => Listed(s, k)
  <2>1. 1 \in 1..Len(s)
    BY <1>1
  <2> QED
    BY <1>1, <2>1 DEF Listed
<1> QED
  BY <1>1, <1>2, <1>3, <1>4

LEMMA NothingListed == \A k : ~Listed(<< >>, k)
<1>1. 1..Len(<< >>) = {}
  OBVIOUS
<1> QED
  BY <1>1 DEF Listed

----------------------------------------------------------------------------
(* One step of a cleanup *)

LEMMA JudgedFacts ==
    ASSUME TypeOK, NEW t \in Tasks, NEW e, Judged(t, e)
    PROVE  /\ pc'[t] = "scan" /\ pos'[t] = pos[t] + 1
           /\ e => todo'[t] = Append(todo[t], pos[t])
           /\ ~e => todo'[t] = todo[t]
<1>1. pc \in [Tasks -> PCs] /\ pos \in [Tasks -> 1..(NumIds + 1)] /\ todo \in [Tasks -> Seq(Ids)]
  BY DEF TypeOK
<1>2. pc'[t] = "scan" /\ pos'[t] = pos[t] + 1
  BY <1>1 DEF Judged, Goto
<1>3. CASE e
  BY <1>1, <1>2, <1>3 DEF Judged
<1>4. CASE ~e
  BY <1>1, <1>2, <1>4 DEF Judged
<1> QED
  BY <1>3, <1>4

\* The room at the iteration's position is looked at member by member.
LEMMA RosterFacts ==
    ASSUME TInv, NEW t \in Tasks, NEW p \in Tasks, ReadRoster(t, p)
    PROVE  /\ pc[t] = "roster" /\ p \in unread[t] /\ pos[t] \in Ids
           /\ unread'[t] = unread[t] \ {p}
           /\ UNCHANGED <<rooms, participants, receivers>>
           /\ \/ /\ p \in participants[rooms[pos[t]]]
                 /\ pc'[t] = "scan" /\ pos'[t] = pos[t] + 1 /\ todo'[t] = todo[t]
              \/ /\ p \notin participants[rooms[pos[t]]] /\ unread[t] # {p}
                 /\ pc'[t] = pc[t] /\ pos'[t] = pos[t] /\ todo'[t] = todo[t]
              \/ /\ p \notin participants[rooms[pos[t]]] /\ unread[t] = {p}
                 /\ pc'[t] = "recv" /\ pos'[t] = pos[t] /\ todo'[t] = todo[t]
              \/ /\ p \notin participants[rooms[pos[t]]] /\ unread[t] = {p}
                 /\ pc'[t] = "scan" /\ pos'[t] = pos[t] + 1 /\ todo'[t] = Append(todo[t], pos[t])
<1>1. /\ pc \in [Tasks -> PCs] /\ unread \in [Tasks -> SUBSET Tasks] /\ TypeOK
  BY DEF TInv, TypeOK
<1>2. pc[t] = "roster" /\ p \in unread[t] /\ pos[t] \in Ids
  BY DEF ReadRoster, TInv, ControlAgrees
<1>3. unread'[t] = unread[t] \ {p} /\ UNCHANGED <<rooms, participants, receivers>>
  BY <1>1 DEF ReadRoster, mapVars, roomVars
<1>4. CASE p \in participants[rooms[pos[t]]] /\ Judged(t, FALSE)
  BY <1>1, <1>2, <1>3, <1>4, JudgedFacts
<1>5. CASE /\ p \notin participants[rooms[pos[t]]] /\ unread[t] # {p}
           /\ UNCHANGED <<todo, pos, pc>>
  BY <1>2, <1>3, <1>5
<1>6. CASE /\ p \notin participants[rooms[pos[t]]] /\ unread[t] = {p}
           /\ Goto(t, "recv") /\ UNCHANGED <<todo, pos>>
  BY <1>1, <1>2, <1>3, <1>6 DEF Goto
<1>7. CASE /\ p \notin participants[rooms[pos[t]]] /\ unread[t] = {p}
           /\ Judged(t, TRUE)
  BY <1>1, <1>2, <1>3, <1>7, JudgedFacts
<1>8. \/ p \in participants[rooms[pos[t]]] /\ Judged(t, FALSE)
      \/ p \notin participants[rooms[pos[t]]] /\ unread[t] # {p} /\ UNCHANGED <<todo, pos, pc>>
      \/ /\ p \notin participants[rooms[pos[t]]] /\ unread[t] = {p}
         /\ Goto(t, "recv") /\ UNCHANGED <<todo, pos>>
      \/ p \notin participants[rooms[pos[t]]] /\ unread[t] = {p} /\ Judged(t, TRUE)
  <2>1. CASE mode[t] = "cleanup"
    BY <2>1, Zenon DEF ReadRoster
  <2>2. CASE mode[t] # "cleanup"
    BY <2>2, Zenon DEF ReadRoster
  <2> QED
    BY <2>1, <2>2
<1> QED
  BY <1>4, <1>5, <1>6, <1>7, <1>8

LEMMA ReceiversFacts ==
    ASSUME TInv, NEW t \in Tasks, ReadReceivers(t)
    PROVE  /\ pc[t] = "recv" /\ pos[t] \in Ids
           /\ UNCHANGED <<rooms, participants, receivers>>
           /\ pc'[t] = "scan" /\ pos'[t] = pos[t] + 1
           /\ receivers[rooms[pos[t]]] = {} => todo'[t] = Append(todo[t], pos[t])
           /\ todo'[t] \in {todo[t], Append(todo[t], pos[t])}
<1>1. pc[t] = "recv" /\ pos[t] \in Ids /\ UNCHANGED <<rooms, participants, receivers>>
  BY DEF ReadReceivers, TInv, ControlAgrees, mapVars, roomVars
<1>2. TypeOK /\ Judged(t, receivers[rooms[pos[t]]] = {})
  BY DEF ReadReceivers, TInv
<1> QED
  BY <1>1, <1>2, JudgedFacts

LEMMA ShardFacts ==
    ASSUME TInv, NEW t \in Tasks, ScanShard(t)
    PROVE  /\ pc[t] = "scan" /\ pos[t] \in Ids /\ UNCHANGED <<rooms, participants, receivers>>
           /\ todo'[t] = todo[t]
           /\ \/ rooms[pos[t]] = None /\ pc'[t] = "scan" /\ pos'[t] = pos[t] + 1
              \/ /\ rooms[pos[t]] # None /\ pc'[t] = "roster" /\ pos'[t] = pos[t]
                 /\ unread'[t] = Tasks
<1>1. /\ pc \in [Tasks -> PCs] /\ unread \in [Tasks -> SUBSET Tasks] /\ pos \in [Tasks -> 1..(NumIds + 1)]
  BY DEF TInv, TypeOK
<1>2. pc[t] = "scan" /\ pos[t] \in Ids /\ UNCHANGED <<rooms, participants, receivers, todo>>
  BY DEF ScanShard, mapVars, roomVars
<1>3. CASE rooms[pos[t]] = None
  <2>1. pos' = [pos EXCEPT ![t] = @ + 1] /\ pc' = pc
    BY <1>3, Zenon DEF ScanShard
  <2> QED
    BY <1>1, <1>2, <1>3, <2>1
<1>4. CASE rooms[pos[t]] # None
  <2>1. unread' = [unread EXCEPT ![t] = Tasks] /\ pc' = [pc EXCEPT ![t] = "roster"] /\ pos' = pos
    BY <1>4, Zenon DEF ScanShard, Goto
  <2> QED
    BY <1>1, <1>2, <1>4, <2>1
<1> QED
  BY <1>3, <1>4

LEMMA ScanDoneFacts ==
    ASSUME TInv, NEW t \in Tasks, ScanDone(t)
    PROVE  /\ pc[t] = "scan" /\ pos[t] = NumIds + 1 /\ UNCHANGED <<rooms, participants, receivers>>
           /\ todo'[t] = todo[t] /\ pos'[t] = pos[t] /\ closes'[t] = Len(todo[t])
           /\ pc'[t] = IF todo[t] = << >> THEN "idle" ELSE "sweep"
<1>1. pc \in [Tasks -> PCs] /\ closes \in [Tasks -> Nat]
  BY DEF TInv, TypeOK
<1>2. pc' = [pc EXCEPT ![t] = IF todo[t] = << >> THEN "idle" ELSE "sweep"]
  BY DEF ScanDone, Goto
<1>3. pc'[t] = IF todo[t] = << >> THEN "idle" ELSE "sweep"
  BY <1>1, <1>2
<1> QED
  BY <1>1, <1>3 DEF ScanDone, mapVars, roomVars

LEMMA SweepFacts ==
    ASSUME TInv, NEW t \in Tasks, Sweep(t)
    PROVE  /\ pc[t] = "sweep" /\ todo[t] \in Seq(Ids) /\ todo[t] # << >> /\ Head(todo[t]) \in Ids
           /\ rooms' = [rooms EXCEPT ![Head(todo[t])] = None]
           /\ todo'[t] = Tail(todo[t]) /\ pos'[t] = pos[t] /\ UNCHANGED <<closes, lost, gauge>>
           /\ pc'[t] = IF Len(todo[t]) = 1 THEN "close" ELSE "sweep"
<1>1. pc \in [Tasks -> PCs] /\ todo \in [Tasks -> Seq(Ids)]
  BY DEF TInv, TypeOK
<1>2. pc[t] = "sweep" /\ todo[t] # << >>
  BY DEF Sweep, TInv, ControlAgrees
<1>3. todo[t] \in Seq(Ids) /\ Head(todo[t]) \in Ids
  BY <1>1, <1>2
<1>4. pc' = [pc EXCEPT ![t] = IF Len(todo[t]) = 1 THEN "close" ELSE "sweep"]
  BY DEF Sweep, Goto
<1>5. pc'[t] = IF Len(todo[t]) = 1 THEN "close" ELSE "sweep"
  BY <1>1, <1>4
<1> QED
  BY <1>1, <1>2, <1>3, <1>5 DEF Sweep, Unbind

----------------------------------------------------------------------------
(* Rooms with a steady participant *)

\* While t cleans, the room is registered with its participant, its key is
\* not collected, and the participant's roster shard is still to be read if
\* the room is being looked at.
Safe(t, x) ==
    /\ x \in Peopled
    /\ ~Listed(todo[t], roomId[x[1]])
    /\ pc[t] = "roster" /\ pos[t] = roomId[x[1]] => x[2] \in unread[t]
    /\ pc[t] = "recv" => pos[t] # roomId[x[1]]

SteadyInv == \A t \in Tasks : Cleaning(t) => \A x \in steady[t] : Safe(t, x)

LEMMA PeopledFacts ==
    ASSUME RInv, NEW x \in Peopled
    PROVE  /\ x[1] \in Live /\ x[1] \in Rooms /\ x[1] <= created
           /\ x[2] \in Tasks /\ x[2] \in participants[x[1]]
           /\ roomId[x[1]] \in Ids /\ rooms[roomId[x[1]]] = x[1]
<1>1. x[1] \in Live /\ x[2] \in Tasks /\ x[2] \in participants[x[1]]
  BY DEF Peopled
<1> QED
  BY <1>1, LiveFacts

LEMMA SafeStep ==
    ASSUME RInv, [Next]_vars, NEW t \in Tasks, Cleaning(t), NEW x, Safe(t, x), x \in Peopled'
    PROVE  Safe(t, x)'
<1> DEFINE k == roomId[x[1]]
<1>1. /\ x[1] \in Rooms /\ x[1] <= created /\ x[2] \in Tasks /\ x[2] \in participants[x[1]]
      /\ k \in Ids /\ rooms[k] = x[1] /\ x[1] # None
  BY PeopledFacts DEF Safe, Rooms, None
<1>2. roomId'[x[1]] = k
  BY <1>1, IdsKept
<1>3. /\ ~Listed(todo[t], k)
      /\ pc[t] = "roster" /\ pos[t] = k => x[2] \in unread[t]
      /\ pc[t] = "recv" => pos[t] # k
  BY DEF Safe
<1>4. todo[t] \in Seq(Ids) /\ TInv
  BY DEF RInv, TInv, TypeOK
<1> HIDE DEF k
<1> SUFFICES /\ ~Listed(todo'[t], k)
             /\ pc'[t] = "roster" /\ pos'[t] = k => x[2] \in unread'[t]
             /\ pc'[t] = "recv" => pos'[t] # k
  BY <1>2 DEF Safe
<1>5. CASE pc'[t] = pc[t] /\ pos'[t] = pos[t] /\ todo'[t] = todo[t] /\ unread'[t] = unread[t]
  BY <1>3, <1>5
<1>6. CASE ScanShard(t)
  BY <1>1, <1>3, <1>4, <1>6, ShardFacts
<1>7. ASSUME NEW p \in Tasks, ReadRoster(t, p)
      PROVE  /\ ~Listed(todo'[t], k)
             /\ pc'[t] = "roster" /\ pos'[t] = k => x[2] \in unread'[t]
             /\ pc'[t] = "recv" => pos'[t] # k
  <2>1. /\ pc[t] = "roster" /\ p \in unread[t] /\ pos[t] \in Ids /\ unread'[t] = unread[t] \ {p}
    BY <1>4, <1>7, RosterFacts
  <2>2. pos[t] = k /\ p \notin participants[rooms[pos[t]]] => x[2] \in unread'[t]
    BY <1>1, <1>3, <2>1
  <2>3. CASE pc'[t] = "scan" /\ todo'[t] = todo[t]
    BY <1>3, <2>3
  <2>4. CASE /\ p \notin participants[rooms[pos[t]]]
             /\ pc'[t] = pc[t] /\ pos'[t] = pos[t] /\ todo'[t] = todo[t]
    BY <1>3, <2>1, <2>2, <2>4
  <2>5. CASE /\ p \notin participants[rooms[pos[t]]] /\ unread[t] = {p}
             /\ pc'[t] = "recv" /\ pos'[t] = pos[t] /\ todo'[t] = todo[t]
    BY <1>3, <2>1, <2>2, <2>5
  <2>6. CASE /\ p \notin participants[rooms[pos[t]]] /\ unread[t] = {p}
             /\ pc'[t] = "scan" /\ todo'[t] = Append(todo[t], pos[t])
    <3>1. pos[t] # k
      BY <2>1, <2>2, <2>6
    <3>2. ~Listed(todo'[t], k)
      BY <1>3, <1>4, <2>1, <2>6, <3>1, ListedAppend
    <3> QED
      BY <2>6, <3>2
  <2> QED
    BY <1>4, <1>7, <2>3, <2>4, <2>5, <2>6, RosterFacts
<1>8. CASE ReadReceivers(t)
  <2>1. /\ pc[t] = "recv" /\ pos[t] \in Ids /\ pc'[t] = "scan"
        /\ todo'[t] \in {todo[t], Append(todo[t], pos[t])}
    BY <1>4, <1>8, ReceiversFacts
  <2>2. ~Listed(Append(todo[t], pos[t]), k)
    BY <1>3, <1>4, <2>1, ListedAppend
  <2>3. ~Listed(todo'[t], k)
    BY <1>3, <2>1, <2>2
  <2> QED
    BY <2>1, <2>3
<1>9. CASE ScanDone(t)
  <2>1. todo'[t] = todo[t] /\ pc'[t] \in {"idle", "sweep"}
    BY <1>4, <1>9, ScanDoneFacts
  <2> QED
    BY <1>3, <2>1
<1>10. CASE Sweep(t)
  <2>1. todo[t] # << >> /\ todo'[t] = Tail(todo[t]) /\ pc'[t] \in {"close", "sweep"}
    BY <1>4, <1>10, SweepFacts
  <2>2. ~Listed(Tail(todo[t]), k)
    BY <1>3, <1>4, <2>1, ListedTail
  <2> QED
    BY <2>1, <2>2
<1> QED
  BY <1>4, <1>5, <1>6, <1>7, <1>8, <1>9, <1>10, OwnSteps

LEMMA SteadyStep ==
    ASSUME RInv, SteadyInv, [HNext]_hvars
    PROVE  SteadyInv'
<1>1. CASE UNCHANGED hvars
  BY <1>1 DEF hvars, vars, SteadyInv, Safe, Peopled, Live, Cleaning, Listed
<1>2. CASE HNext
  <2> SUFFICES ASSUME NEW t \in Tasks, Cleaning(t)', NEW x, x \in steady'[t]
               PROVE  Safe(t, x)'
    BY DEF SteadyInv
  <2>1. Next /\ steady'[t] = IF Cleaning(t) THEN steady[t] \cap Peopled'
                             ELSE IF Cleaning(t)' THEN Peopled' ELSE {}
    BY <1>2 DEF HNext, Remember
  <2>2. x \in Peopled'
    BY <2>1
  <2>3. CASE Cleaning(t)
    <3>1. Safe(t, x)
      BY <2>1, <2>3 DEF SteadyInv
    <3> QED
      BY <2>1, <2>2, <2>3, <3>1, SafeStep
  <2>4. CASE ~Cleaning(t)
    <3>1. pc'[t] = "scan" /\ todo'[t] = << >>
      BY <2>1, <2>4, CleaningBegins DEF RInv
    <3> QED
      BY <2>2, <3>1, NothingListed DEF Safe
  <2> QED
    BY <2>3, <2>4
<1> QED
  BY <1>1, <1>2

----------------------------------------------------------------------------
(* Rooms that stay vacant *)

\* A sweep begins when the iteration is over.
AtEnd == \A t \in Tasks : pc[t] = "sweep" => pos[t] = NumIds + 1

\* While t cleans, the room is registered and empty, and its key is collected
\* once the iteration is past it.
Doomed(t, r) ==
    /\ r \in Vacant
    /\ roomId[r] < pos[t] => Listed(todo[t], roomId[r])

VacantInv == \A t \in Tasks : Cleaning(t) => \A r \in vacant[t] : Doomed(t, r)

LEMMA AtEndStep ==
    ASSUME TInv, AtEnd, [Next]_vars
    PROVE  AtEnd'
<1> SUFFICES ASSUME NEW t \in Tasks, pc'[t] = "sweep" PROVE pos'[t] = NumIds + 1
  BY DEF AtEnd
<1>1. CASE ~Cleaning(t)
  <2>1. Cleaning(t)'
    BY DEF Cleaning
  <2> QED
    BY <1>1, <2>1, CleaningBegins
<1>2. CASE Cleaning(t)
  <2>1. CASE pc'[t] = pc[t] /\ pos'[t] = pos[t]
    BY <2>1 DEF AtEnd
  <2>2. CASE ScanShard(t)
    BY <2>2, ShardFacts
  <2>3. CASE \E p \in Tasks : ReadRoster(t, p)
    BY <2>3, RosterFacts
  <2>4. CASE ReadReceivers(t)
    BY <2>4, ReceiversFacts
  <2>5. CASE ScanDone(t)
    BY <2>5, ScanDoneFacts
  <2>6. CASE Sweep(t)
    BY <2>6, SweepFacts DEF AtEnd
  <2> QED
    BY <1>2, <2>1, <2>2, <2>3, <2>4, <2>5, <2>6, OwnSteps
<1> QED
  BY <1>1, <1>2

LEMMA DoomedStep ==
    ASSUME RInv, AtEnd, [Next]_vars, NEW t \in Tasks, Cleaning(t), NEW r, Doomed(t, r), r \in Vacant'
    PROVE  Doomed(t, r)' /\ Cleaning(t)'
<1> DEFINE k == roomId[r]
<1>1. r \in Live /\ participants[r] = {} /\ receivers[r] = {} /\ r \in Live'
  BY DEF Doomed, Vacant
<1>2. r \in Rooms /\ r <= created /\ k \in Ids /\ rooms[k] = r /\ r # None
  BY <1>1, LiveFacts DEF Rooms, None
<1>3. roomId'[r] = k
  BY <1>2, IdsKept
<1>4. k < pos[t] => Listed(todo[t], k)
  BY DEF Doomed
<1>5. /\ todo[t] \in Seq(Ids) /\ TInv /\ pos[t] \in 1..(NumIds + 1)
  BY DEF RInv, TInv, TypeOK
<1>6. k \in Nat /\ k <= NumIds /\ pos[t] \in Nat
  BY <1>2, <1>5 DEF Ids
<1> HIDE DEF k
<1> SUFFICES /\ k < pos'[t] => Listed(todo'[t], k)
             /\ pc'[t] \in {"scan", "roster", "recv", "sweep"}
  BY <1>3 DEF Doomed, Cleaning
<1> DEFINE Goal == /\ k < pos'[t] => Listed(todo'[t], k)
                   /\ pc'[t] \in {"scan", "roster", "recv", "sweep"}
<1>7. CASE pc'[t] = pc[t] /\ pos'[t] = pos[t] /\ todo'[t] = todo[t]
  BY <1>4, <1>7 DEF Cleaning
\* Past the room's own shard its key has been collected.
<1>8. ASSUME pos[t] \in Ids, pc'[t] = "scan", pos'[t] = pos[t] + 1,
             \/ todo'[t] = todo[t] /\ pos[t] # k
             \/ todo'[t] = Append(todo[t], pos[t])
      PROVE  Goal
  <2>1. k < pos'[t] => k < pos[t] \/ k = pos[t]
    BY <1>6, <1>8
  <2>2. CASE todo'[t] = todo[t] /\ pos[t] # k
    BY <1>4, <1>8, <2>1, <2>2
  <2>3. CASE todo'[t] = Append(todo[t], pos[t])
    <3>1. Listed(todo'[t], k) <=> Listed(todo[t], k) \/ k = pos[t]
      BY <1>5, <1>8, <2>3, ListedAppend
    <3> QED
      BY <1>4, <1>8, <2>1, <3>1
  <2> QED
    BY <1>8, <2>2, <2>3
<1>9. CASE ScanShard(t)
  <2>1. CASE rooms[pos[t]] = None /\ pc'[t] = "scan" /\ pos'[t] = pos[t] + 1 /\ todo'[t] = todo[t]
    <3>1. pos[t] # k /\ pos[t] \in Ids
      BY <1>2, <1>5, <1>9, <2>1, ShardFacts
    <3> QED
      BY <1>8, <2>1, <3>1
  <2>2. CASE pc'[t] = "roster" /\ pos'[t] = pos[t] /\ todo'[t] = todo[t]
    BY <1>4, <2>2
  <2> QED
    BY <1>5, <1>9, <2>1, <2>2, ShardFacts
<1>10. ASSUME NEW p \in Tasks, ReadRoster(t, p) PROVE Goal
  <2>1. pc[t] = "roster" /\ pos[t] \in Ids
    BY <1>5, <1>10, RosterFacts
  <2>2. CASE /\ p \in participants[rooms[pos[t]]]
             /\ pc'[t] = "scan" /\ pos'[t] = pos[t] + 1 /\ todo'[t] = todo[t]
    <3>1. pos[t] # k
      BY <1>1, <1>2, <2>2
    <3> QED
      BY <1>8, <2>1, <2>2, <3>1
  <2>3. CASE pc'[t] \in {pc[t], "recv"} /\ pos'[t] = pos[t] /\ todo'[t] = todo[t]
    BY <1>4, <2>1, <2>3
  <2>4. CASE pc'[t] = "scan" /\ pos'[t] = pos[t] + 1 /\ todo'[t] = Append(todo[t], pos[t])
    BY <1>8, <2>1, <2>4
  <2> QED
    BY <1>5, <1>10, <2>2, <2>3, <2>4, RosterFacts
<1>11. CASE ReadReceivers(t)
  <2>1. /\ pos[t] \in Ids /\ pc'[t] = "scan" /\ pos'[t] = pos[t] + 1
        /\ receivers[rooms[pos[t]]] = {} => todo'[t] = Append(todo[t], pos[t])
        /\ todo'[t] \in {todo[t], Append(todo[t], pos[t])}
    BY <1>5, <1>11, ReceiversFacts
  <2>2. \/ todo'[t] = todo[t] /\ pos[t] # k
        \/ todo'[t] = Append(todo[t], pos[t])
    BY <1>1, <1>2, <2>1
  <2> QED
    BY <1>8, <2>1, <2>2
<1>12. CASE ScanDone(t)
  <2>1. /\ pos[t] = NumIds + 1 /\ todo'[t] = todo[t] /\ pos'[t] = pos[t]
        /\ pc'[t] = IF todo[t] = << >> THEN "idle" ELSE "sweep"
    BY <1>5, <1>12, ScanDoneFacts
  <2>2. Listed(todo[t], k)
    BY <1>4, <1>6, <2>1, BoundAssumption
  <2>3. todo[t] # << >>
    BY <2>2, NothingListed
  <2> QED
    BY <2>1, <2>2, <2>3
<1>13. CASE Sweep(t)
  <2>1. /\ pc[t] = "sweep" /\ todo[t] # << >> /\ Head(todo[t]) \in Ids
        /\ rooms' = [rooms EXCEPT ![Head(todo[t])] = None]
        /\ todo'[t] = Tail(todo[t]) /\ pos'[t] = pos[t]
        /\ pc'[t] = IF Len(todo[t]) = 1 THEN "close" ELSE "sweep"
    BY <1>5, <1>13, SweepFacts
  <2>2. pos[t] = NumIds + 1
    BY <2>1 DEF AtEnd
  <2>3. Listed(todo[t], k)
    BY <1>4, <1>6, <2>2, BoundAssumption
  <2>4. k # Head(todo[t])
    <3>1. PICK j \in Ids : rooms'[j] = r
      BY <1>1 DEF Live
    <3>2. rooms \in [Ids -> Rooms \cup {None}]
      BY <1>5 DEF TInv, TypeOK
    <3>3. j # Head(todo[t]) /\ rooms[j] = r
      BY <1>2, <2>1, <3>1, <3>2
    <3>4. j = k
      BY <1>2, <3>3, FiledUnderOwnId DEF k
    <3> QED
      BY <3>3, <3>4
  <2>5. Listed(Tail(todo[t]), k) /\ Len(Tail(todo[t])) = Len(todo[t]) - 1
    BY <1>5, <2>1, <2>3, <2>4, ListedTail
  <2>6. Len(todo[t]) # 1
    <3>1. 1..(Len(todo[t]) - 1) # {}
      BY <2>5 DEF Listed
    <3>2. 1..(1 - 1) = {}
      OBVIOUS
    <3> QED
      BY <3>1, <3>2
  <2> QED
    BY <2>1, <2>5, <2>6
<1> QED
  BY <1>5, <1>7, <1>9, <1>10, <1>11, <1>12, <1>13, OwnSteps

LEMMA VacantStep ==
    ASSUME RInv, AtEnd, VacantInv, [HNext]_hvars
    PROVE  VacantInv'
<1>1. CASE UNCHANGED hvars
  BY <1>1 DEF hvars, vars, VacantInv, Doomed, Vacant, Live, Cleaning, Listed
<1>2. CASE HNext
  <2> SUFFICES ASSUME NEW t \in Tasks, Cleaning(t)', NEW r, r \in vacant'[t]
               PROVE  Doomed(t, r)'
    BY DEF VacantInv
  <2>1. Next /\ vacant'[t] = IF Cleaning(t) THEN vacant[t] \cap Vacant'
                             ELSE IF Cleaning(t)' THEN Vacant' ELSE {}
    BY <1>2 DEF HNext, Remember
  <2>2. r \in Vacant'
    BY <2>1
  <2>3. CASE Cleaning(t)
    <3>1. Doomed(t, r)
      BY <2>1, <2>3 DEF VacantInv
    <3> QED
      BY <2>1, <2>2, <2>3, <3>1, DoomedStep
  <2>4. CASE ~Cleaning(t)
    <3>1. pos'[t] = 1
      BY <2>1, <2>4, CleaningBegins DEF RInv
    <3>2. RInv'
      BY <2>1, TypeStep, ControlStep, RegistryStep DEF RInv, TInv
    <3>3. PICK j \in Ids : rooms'[j] = r /\ r \in Rooms
      BY <2>2 DEF Vacant, Live
    <3>4. roomId'[r] \in Ids
      BY <3>2, <3>3 DEF RInv, MapConsistent, Rooms, None
    <3>5. ~(roomId'[r] < 1)
      BY <3>4 DEF Ids
    <3> QED
      BY <2>2, <3>1, <3>5 DEF Doomed
  <2> QED
    BY <2>3, <2>4
<1> QED
  BY <1>1, <1>2

----------------------------------------------------------------------------
(* The gauge's books *)

\* Outside a cleanup nothing is collected.
TodoDone == \A t \in Tasks : ~Cleaning(t) => todo[t] = << >>

\* The closes a sweep owes cover the keys it has still to remove.
SweepOwes == \A t \in Tasks : pc[t] \in {"sweep", "close"} => Len(todo[t]) <= closes[t]

Allocating(t) == pc[t] \in {"open", "insert"}

\* A room that is not yet offered to the map is its task's alone.
Fresh ==
    /\ \A t \in Tasks : Allocating(t) => mine[t] \notin lost /\ mine[t] \notin Live
    /\ \A t, u \in Tasks : Allocating(t) /\ Allocating(u) /\ mine[t] = mine[u] => t = u
    /\ \A r \in lost : r <= created

BInv == TodoDone /\ SweepOwes /\ Fresh

LEMMA TodoKept ==
    ASSUME TInv, [Next]_vars, NEW t \in Tasks, ~Cleaning(t)
    PROVE  todo'[t] = todo[t] \/ Cleaning(t)'
<1>1. /\ pc \in [Tasks -> PCs] /\ todo \in [Tasks -> Seq(Ids)]
  BY DEF TInv, TypeOK
<1>2. pc[t] \notin {"scan", "roster", "recv", "sweep"}
  BY DEF Cleaning
<1>3. ASSUME NEW u \in Tasks, CallStep(u) PROVE todo'[t] = todo[t]
  <2>1. CASE ReadReceivers(u)
    BY <1>1, <1>2, <2>1 DEF ReadReceivers, Judged
  <2>2. ASSUME NEW p \in Tasks, ReadRoster(u, p) PROVE todo'[t] = todo[t]
    BY <1>1, <1>2, <2>2 DEF ReadRoster, Judged
  <2>3. CASE Sweep(u)
    BY <1>1, <1>2, <2>3 DEF Sweep
  <2> QED
    BY <1>3, <2>1, <2>2, <2>3
       DEF CallStep, RoomOpened, InsertOrGet, RemoveEntry, RoomClosed, ScanShard, ScanDone, scanVars
<1>4. ASSUME NEW u \in Tasks, StartsCall(u) PROVE todo'[t] = todo[t] \/ pc'[t] = "scan"
  <2>1. ASSUME NEW m \in {"cleanup", "cleanup_empty"}, Cleanup(u, m)
        PROVE  todo'[t] = todo[t] \/ pc'[t] = "scan"
    BY <1>1, <2>1 DEF Cleanup, Goto
  <2> QED
    BY <1>4, <2>1 DEF StartsCall, GetOrCreateHit, GetOrCreateMiss, Get, Remove, scanVars
<1>5. ASSUME NEW u \in Tasks, UsesRoom(u) PROVE todo'[t] = todo[t]
  BY <1>5 DEF UsesRoom, Join, Leave, Subscribe, DropReceiver, scanVars
<1>6. CASE Quiet \/ UNCHANGED vars
  BY <1>6 DEF Quiet, vars
<1> QED
  BY <1>3, <1>4, <1>5, <1>6 DEF Next, Cleaning

LEMMA TodoDoneStep ==
    ASSUME TInv, TodoDone, [Next]_vars
    PROVE  TodoDone'
<1> SUFFICES ASSUME NEW t \in Tasks, ~Cleaning(t)' PROVE todo'[t] = << >>
  BY DEF TodoDone
<1>1. CASE ~Cleaning(t)
  BY <1>1, TodoKept DEF TodoDone
<1>2. CASE Cleaning(t)
  <2>1. pc'[t] \notin {"scan", "roster", "recv", "sweep"} /\ pc[t] \in {"scan", "roster", "recv", "sweep"}
    BY <1>2 DEF Cleaning
  <2>2. CASE ScanDone(t)
    BY <2>1, <2>2, ScanDoneFacts
  <2>3. CASE Sweep(t)
    <3>1. /\ todo[t] \in Seq(Ids) /\ todo[t] # << >> /\ todo'[t] = Tail(todo[t])
          /\ pc'[t] = IF Len(todo[t]) = 1 THEN "close" ELSE "sweep"
      BY <2>3, SweepFacts
    <3>2. Len(todo[t]) = 1
      BY <2>1, <3>1
    <3>3. Tail(todo[t]) \in Seq(Ids) /\ Len(Tail(todo[t])) = 0
      BY <3>1, <3>2
    <3> QED
      BY <3>1, <3>3, EmptySeq
  <2>4. CASE ScanShard(t)
    BY <2>1, <2>4, ShardFacts
  <2>5. CASE \E p \in Tasks : ReadRoster(t, p)
    BY <2>1, <2>5, RosterFacts
  <2>6. CASE ReadReceivers(t)
    BY <2>1, <2>6, ReceiversFacts
  <2> QED
    BY <1>2, <2>1, <2>2, <2>3, <2>4, <2>5, <2>6, OwnSteps
<1> QED
  BY <1>1, <1>2

LEMMA SweepOwesStep ==
    ASSUME TInv, TInv', SweepOwes, TodoDone', [Next]_vars
    PROVE  SweepOwes'
<1> SUFFICES ASSUME NEW t \in Tasks, pc'[t] \in {"sweep", "close"}
             PROVE  Len(todo'[t]) <= closes'[t]
  BY DEF SweepOwes
<1>1. closes[t] \in Nat /\ closes'[t] \in Nat /\ todo[t] \in Seq(Ids)
  BY DEF TInv, TypeOK
<1>2. CASE pc'[t] = "close"
  <2>1. todo'[t] = << >>
    BY <1>2 DEF TodoDone, Cleaning
  <2>2. Len(<< >>) = 0
    OBVIOUS
  <2> QED
    BY <1>1, <2>1, <2>2
<1>3. CASE pc'[t] = "sweep"
  <2>1. Cleaning(t)
    <3>1. CASE ~Cleaning(t)
      <4>1. Cleaning(t)'
        BY <1>3 DEF Cleaning
      <4> QED
        BY <1>3, <3>1, <4>1, CleaningBegins
    <3> QED
      BY <3>1
  <2>2. CASE pc'[t] = pc[t] /\ todo'[t] = todo[t] /\ closes'[t] = closes[t]
    BY <1>3, <2>2 DEF SweepOwes
  <2>3. CASE ScanDone(t)
    <3>1. todo'[t] = todo[t] /\ closes'[t] = Len(todo[t])
      BY <2>3, ScanDoneFacts
    <3> QED
      BY <1>1, <3>1
  <2>4. CASE Sweep(t)
    <3>1. /\ pc[t] = "sweep" /\ todo[t] # << >> /\ todo'[t] = Tail(todo[t]) /\ closes'[t] = closes[t]
      BY <2>4, SweepFacts
    <3>2. Len(Tail(todo[t])) = Len(todo[t]) - 1 /\ Len(todo[t]) \in Nat
      BY <1>1, <3>1, ListedTail
    <3>3. Len(todo[t]) <= closes[t]
      BY <3>1 DEF SweepOwes
    <3> QED
      BY <1>1, <3>1, <3>2, <3>3
  <2>5. CASE ScanShard(t)
    BY <1>3, <2>5, ShardFacts
  <2>6. CASE \E p \in Tasks : ReadRoster(t, p)
    BY <1>3, <2>6, RosterFacts
  <2>7. CASE ReadReceivers(t)
    BY <1>3, <2>7, ReceiversFacts
  <2> QED
    BY <2>1, <2>2, <2>3, <2>4, <2>5, <2>6, <2>7, OwnSteps
<1> QED
  BY <1>2, <1>3

\* A removal takes the key's room out of the registered ones.
LEMMA UnbindLive ==
    ASSUME RInv, NEW k \in Ids, rooms' = [rooms EXCEPT ![k] = None]
    PROVE  /\ rooms[k] = None => Live' = Live
           /\ rooms[k] # None => rooms[k] \in Live /\ Live' = Live \ {rooms[k]}
<1>1. rooms \in [Ids -> Rooms \cup {None}] /\ None \notin Rooms
  BY DEF RInv, TInv, TypeOK, Rooms, None
<1>2. \A j \in Ids : rooms'[j] = IF j = k THEN None ELSE rooms[j]
  BY <1>1
<1>3. CASE rooms[k] = None
  BY <1>1, <1>2, <1>3 DEF Live
<1>4. CASE rooms[k] # None
  <2>1. rooms[k] \in Rooms /\ rooms[k] \in Live
    BY <1>1, <1>4 DEF Live
  <2>2. \A j \in Ids : rooms[j] = rooms[k] => j = k
    BY <2>1, FiledUnderOwnId
  <2>3. Live' = Live \ {rooms[k]}
    BY <1>1, <1>2, <2>2 DEF Live
  <2> QED
    BY <1>4, <2>1, <2>3
<1> QED
  BY <1>3, <1>4

\* Offering a room: it is registered under a key that was free, or lost.
LEMMA InsertLive ==
    ASSUME RInv, Fresh, NEW u \in Tasks, InsertOrGet(u)
    PROVE  \/ /\ lost' = lost /\ mine[u] \notin Live /\ Live' = Live \cup {mine[u]}
           \/ /\ Live' = Live /\ mine[u] \notin lost /\ lost' = lost \cup {mine[u]}
<1>1. /\ rooms \in [Ids -> Rooms \cup {None}] /\ None \notin Rooms
      /\ key[u] \in Ids /\ mine[u] \in Rooms /\ pc[u] = "insert"
  BY DEF RInv, TInv, TypeOK, Rooms, None, InsertOrGet, ControlAgrees
<1>2. mine[u] \notin lost /\ mine[u] \notin Live
  BY <1>1 DEF Fresh, Allocating
<1>3. CASE rooms[key[u]] = None
  <2>1. rooms' = [rooms EXCEPT ![key[u]] = mine[u]] /\ lost' = lost
    BY <1>3, Zenon DEF InsertOrGet
  <2>2. \A j \in Ids : rooms'[j] = IF j = key[u] THEN mine[u] ELSE rooms[j]
    BY <1>1, <2>1
  <2>3. Live' = Live \cup {mine[u]}
    BY <1>1, <1>3, <2>2 DEF Live
  <2> QED
    BY <1>2, <2>1, <2>3
<1>4. CASE rooms[key[u]] # None
  <2>1. rooms' = rooms /\ lost' = lost \cup {mine[u]}
    BY <1>4, Zenon DEF InsertOrGet
  <2> QED
    BY <1>2, <2>1 DEF Live
<1> QED
  BY <1>3, <1>4

LEMMA FreshKept ==
    ASSUME Fresh, \A t \in Tasks : Allocating(t)' => Allocating(t),
           UNCHANGED <<mine, lost, created>>, Live' \subseteq Live
    PROVE  Fresh'
  BY DEF Fresh

LEMMA FreshStep ==
    ASSUME RInv, Fresh, [Next]_vars
    PROVE  Fresh'
<1>1. /\ pc \in [Tasks -> PCs] /\ rooms \in [Ids -> Rooms \cup {None}]
      /\ mine \in [Tasks -> Rooms \cup {None}] /\ created \in Nat /\ TInv
  BY DEF RInv, TInv, TypeOK
<1>2. UNCHANGED rooms => Live' = Live
  BY DEF Live
<1>3. ASSUME NEW u \in Tasks, CallStep(u) PROVE Fresh'
  <2>1. CASE InsertOrGet(u)
    <3>1. /\ pc[u] = "insert" /\ pc' = [pc EXCEPT ![u] = "idle"] /\ mine' = [mine EXCEPT ![u] = None]
          /\ created' = created
      BY <2>1 DEF InsertOrGet, Goto
    <3>2. \A t \in Tasks : Allocating(t)' => t # u /\ Allocating(t) /\ mine'[t] = mine[t]
      BY <1>1, <3>1 DEF Allocating
    <3>3. \A t \in Tasks : t # u /\ Allocating(t) => mine[t] # mine[u]
      BY <3>1 DEF Fresh, Allocating
    <3>4. mine[u] <= created
      BY <3>1 DEF RInv, OffersMatch
    <3>5. Live' \subseteq Live \cup {mine[u]} /\ lost' \subseteq lost \cup {mine[u]}
      BY <2>1, InsertLive
    <3>6. \A t \in Tasks : Allocating(t)' => mine'[t] \notin lost' /\ mine'[t] \notin Live'
      BY <3>2, <3>3, <3>5 DEF Fresh
    <3>7. \A t, v \in Tasks : Allocating(t)' /\ Allocating(v)' /\ mine'[t] = mine'[v] => t = v
      BY <3>2 DEF Fresh
    <3>8. \A x \in lost' : x <= created'
      BY <3>1, <3>4, <3>5 DEF Fresh
    <3> QED
      BY <3>6, <3>7, <3>8 DEF Fresh
  <2>2. CASE Sweep(u)
    <3>1. Live' \subseteq Live
      BY <1>1, <2>2, SweepFacts, UnbindLive
    <3>2. UNCHANGED <<mine, lost, created>> /\ \A t \in Tasks : Allocating(t)' => Allocating(t)
      BY <1>1, <2>2 DEF Sweep, Goto, Allocating
    <3> QED
      BY <3>1, <3>2, FreshKept
  <2>4. CASE RemoveEntry(u)
    <3>1. Live' \subseteq Live
      BY <2>4, UnbindLive DEF RemoveEntry, Unbind, RInv, TInv, ControlAgrees
    <3>2. UNCHANGED <<mine, lost, created>> /\ \A t \in Tasks : Allocating(t)' => Allocating(t)
      BY <1>1, <2>4 DEF RemoveEntry, Goto, Allocating
    <3> QED
      BY <3>1, <3>2, FreshKept
  <2>3. CASE ~InsertOrGet(u) /\ ~Sweep(u) /\ ~RemoveEntry(u)
    <3>1. UNCHANGED <<rooms, mine, lost, created>>
      BY <1>3, <2>3 DEF CallStep, RoomOpened, RoomClosed, ScanShard, ReadRoster, ReadReceivers, ScanDone, mapVars
    <3>2. \A t \in Tasks : Allocating(t)' => Allocating(t)
      BY <1>1, <1>3, <2>3 DEF CallStep, RoomOpened, RoomClosed, ScanShard, ReadRoster, ReadReceivers,
            ScanDone, Judged, Goto, Allocating
    <3> QED
      BY <1>2, <3>1, <3>2, FreshKept
  <2> QED
    BY <2>1, <2>2, <2>3, <2>4
<1>4. ASSUME NEW u \in Tasks, StartsCall(u) PROVE Fresh'
  <2>1. ASSUME NEW k \in Ids, GetOrCreateMiss(u, k) PROVE Fresh'
    <3>1. /\ pc' = [pc EXCEPT ![u] = "open"] /\ mine' = [mine EXCEPT ![u] = created + 1]
          /\ created' = created + 1 /\ UNCHANGED <<rooms, lost>>
      BY <2>1 DEF GetOrCreateMiss, Goto
    <3>2. /\ \A t \in Tasks : t # u /\ Allocating(t)' => Allocating(t) /\ mine'[t] = mine[t]
          /\ mine'[u] = created + 1
      BY <1>1, <3>1 DEF Allocating
    <3>3. \A t \in Tasks : Allocating(t) => mine[t] <= created /\ mine[t] \in Nat
      BY <1>1 DEF RInv, OffersMatch, Allocating, Rooms, None
    <3>4. \A x \in lost : x <= created /\ x \in Nat
      BY DEF Fresh, RInv, TInv, TypeOK, Rooms
    <3>5. \A x \in Live : x <= created /\ x \in Nat
      BY LiveFacts DEF Rooms
    <3>6. created + 1 \notin lost /\ created + 1 \notin Live
      BY <1>1, <3>4, <3>5
    <3>7. \A t \in Tasks : Allocating(t) => mine[t] # created + 1
      BY <1>1, <3>3
    <3>8. Live' = Live /\ lost' = lost
      BY <1>2, <3>1
    <3>9. \A t \in Tasks : Allocating(t)' => mine'[t] \notin lost' /\ mine'[t] \notin Live'
      BY <3>2, <3>6, <3>8 DEF Fresh
    <3>10. \A t, v \in Tasks : Allocating(t)' /\ Allocating(v)' /\ mine'[t] = mine'[v] => t = v
      BY <3>2, <3>7 DEF Fresh
    <3>11. \A x \in lost' : x <= created'
      BY <1>1, <3>1, <3>4
    <3> QED
      BY <3>9, <3>10, <3>11 DEF Fresh
  <2>2. CASE \/ \E k \in Ids : GetOrCreateHit(u, k) \/ Get(u, k) \/ Remove(u, k)
             \/ \E m \in {"cleanup", "cleanup_empty"} : Cleanup(u, m)
    <3>1. UNCHANGED <<rooms, mine, lost, created>>
      BY <2>2 DEF GetOrCreateHit, Get, Remove, Cleanup, mapVars
    <3>2. \A t \in Tasks : Allocating(t)' => Allocating(t)
      BY <1>1, <2>2 DEF GetOrCreateHit, Get, Remove, Cleanup, Goto, Allocating
    <3> QED
      BY <1>2, <3>1, <3>2, FreshKept
  <2> QED
    BY <1>4, <2>1, <2>2 DEF StartsCall
<1>5. ASSUME NEW u \in Tasks, UsesRoom(u) PROVE Fresh'
  <2>1. UNCHANGED <<rooms, mine, lost, created, pc>>
    BY <1>5 DEF UsesRoom, Join, Leave, Subscribe, DropReceiver, mapVars
  <2> QED
    BY <1>2, <2>1, FreshKept DEF Allocating
<1>6. CASE Quiet \/ UNCHANGED vars
  <2>1. UNCHANGED <<rooms, mine, lost, created, pc>>
    BY <1>6 DEF Quiet, vars
  <2> QED
    BY <1>2, <2>1, FreshKept DEF Allocating
<1> QED
  BY <1>3, <1>4, <1>5, <1>6 DEF Next

----------------------------------------------------------------------------
(* What a step does to the books *)

LEMMA OwedNat ==
    ASSUME NEW c \in Nat, NEW s \in Seq(Ids), NEW label, label \in {"sweep", "close"} => Len(s) <= c
    PROVE  (IF label \in {"sweep", "close"} THEN c - Len(s) ELSE 0) \in Nat
  OBVIOUS

LEMMA FiniteParts ==
    /\ \A R \in SUBSET Rooms : IsFiniteSet(R) /\ Cardinality(R) \in Nat
    /\ \A T \in SUBSET Tasks : IsFiniteSet(T) /\ Cardinality(T) \in Nat
<1>1. IsFiniteSet(Rooms) /\ IsFiniteSet(Tasks)
  BY FS_Interval, BoundAssumption, TasksAssumption DEF Rooms
<1> QED
  BY <1>1, FS_Subset, FS_CardinalityType

\* The other tasks stay where they are.
OthersStill(u) ==
    \A t \in Tasks : t # u => pc'[t] = pc[t] /\ todo'[t] = todo[t] /\ closes'[t] = closes[t]

LEMMA TasksAlone ==
    ASSUME TInv, NEW u \in Tasks, CallStep(u) \/ StartsCall(u) \/ UsesRoom(u)
    PROVE  OthersStill(u)
<1>1. pc \in [Tasks -> PCs] /\ todo \in [Tasks -> Seq(Ids)] /\ closes \in [Tasks -> Nat]
  BY DEF TInv, TypeOK
<1>2. CASE CallStep(u)
  <2>1. CASE ScanShard(u) \/ ScanDone(u) \/ Sweep(u) \/ RoomOpened(u) \/ InsertOrGet(u) \/ RoomClosed(u)
    BY <1>1, <2>1 DEF OthersStill, ScanShard, ScanDone, Sweep, RoomOpened, InsertOrGet, RoomClosed, Goto, scanVars
  <2>4. CASE RemoveEntry(u)
    BY <1>1, <2>4 DEF OthersStill, RemoveEntry, Goto, scanVars
  <2>2. CASE ReadReceivers(u)
    BY <1>1, <2>2 DEF OthersStill, ReadReceivers, Judged, Goto
  <2>3. CASE \E p \in Tasks : ReadRoster(u, p)
    BY <1>1, <2>3 DEF OthersStill, ReadRoster, Judged, Goto
  <2> QED
    BY <1>2, <2>1, <2>2, <2>3, <2>4 DEF CallStep
<1>3. CASE StartsCall(u)
  <2>1. CASE \E k \in Ids : GetOrCreateHit(u, k) \/ GetOrCreateMiss(u, k) \/ Get(u, k)
    BY <1>1, <2>1 DEF OthersStill, GetOrCreateHit, GetOrCreateMiss, Get, Goto, scanVars
  <2>2. CASE \E k \in Ids : Remove(u, k)
    BY <1>1, <2>2 DEF OthersStill, Remove, Goto, scanVars
  <2>3. CASE \E m \in {"cleanup", "cleanup_empty"} : Cleanup(u, m)
    BY <1>1, <2>3 DEF OthersStill, Cleanup, Goto
  <2> QED
    BY <1>3, <2>1, <2>2, <2>3 DEF StartsCall
<1>4. CASE UsesRoom(u)
  BY <1>4 DEF OthersStill, UsesRoom, Join, Leave, Subscribe, DropReceiver, scanVars
<1> QED
  BY <1>2, <1>3, <1>4

\* A task's step changes its own entry of what is owed.
LEMMA Balance ==
    ASSUME TInv, TInv', SweepOwes, SweepOwes', NEW u \in Tasks, OthersStill(u)
    PROVE  /\ Books \in Nat /\ Books' \in Nat
           /\ OwedCloses(u) \in Nat /\ OwedCloses(u)' \in Nat
           /\ {Cardinality(Live), Cardinality(Live'), Cardinality(Offering), Cardinality(Offering'),
               Cardinality(lost), Cardinality(lost')} \subseteq Nat
           /\ Books' + Cardinality(Live) + Cardinality(Offering) + Cardinality(lost) + OwedCloses(u)
               = Books + Cardinality(Live') + Cardinality(Offering') + Cardinality(lost') + OwedCloses(u)'
<1>1. ASSUME NEW t \in Tasks PROVE OwedCloses(t) \in Nat
  <2>1. closes[t] \in Nat /\ todo[t] \in Seq(Ids)
    BY DEF TInv, TypeOK
  <2> QED
    BY <2>1, OwedNat DEF OwedCloses, SweepOwes
<1>2. ASSUME NEW t \in Tasks PROVE OwedCloses(t)' \in Nat
  <2>1. closes'[t] \in Nat /\ todo'[t] \in Seq(Ids)
    BY DEF TInv, TypeOK
  <2> QED
    BY <2>1, OwedNat DEF OwedCloses, SweepOwes
<1>3. ASSUME NEW t \in Tasks, t # u PROVE OwedCloses(t)' = OwedCloses(t)
  BY <1>3 DEF OthersStill, OwedCloses
<1>4. Owed \in [Tasks -> Nat] /\ Owed' \in [Tasks -> Nat] /\ IsFiniteSet(Tasks)
  BY <1>1, <1>2, TasksAssumption DEF Owed
<1>5. \A t \in Tasks : t # u => Owed[t] = Owed'[t]
  BY <1>3 DEF Owed
<1>6. Owed[u] = OwedCloses(u) /\ Owed'[u] = OwedCloses(u)'
  BY DEF Owed
<1>7. SumFunction(Owed') + Owed[u] = SumFunction(Owed) + Owed'[u]
  BY <1>4, <1>5, SumUpdate
<1>8. SumFunction(Owed) \in Nat /\ SumFunction(Owed') \in Nat
  BY <1>4, SumType
<1>9. /\ Live \subseteq Rooms /\ Offering \subseteq Tasks /\ lost \subseteq Rooms
      /\ Live' \subseteq Rooms /\ Offering' \subseteq Tasks /\ lost' \subseteq Rooms
  BY DEF TInv, TypeOK, Live, Offering
<1>10. /\ Cardinality(Live) \in Nat /\ Cardinality(Live') \in Nat /\ Cardinality(Offering) \in Nat
       /\ Cardinality(Offering') \in Nat /\ Cardinality(lost) \in Nat /\ Cardinality(lost') \in Nat
  BY <1>9, FiniteParts
<1>11. /\ Books = Cardinality(Live) + Cardinality(Offering) + Cardinality(lost) + SumFunction(Owed)
       /\ Books' = Cardinality(Live') + Cardinality(Offering') + Cardinality(lost') + SumFunction(Owed')
  BY DEF Books
<1>12. OwedCloses(u) \in Nat /\ OwedCloses(u)' \in Nat
  BY <1>1, <1>2
<1> QED
  BY <1>6, <1>7, <1>8, <1>10, <1>11, <1>12

LEMMA OfferingStep ==
    ASSUME TInv, NEW u \in Tasks, OthersStill(u)
    PROVE  /\ (pc[u] = "insert" <=> pc'[u] = "insert") => Cardinality(Offering') = Cardinality(Offering)
           /\ pc[u] # "insert" /\ pc'[u] = "insert"
                => Cardinality(Offering') = Cardinality(Offering) + 1
           /\ pc[u] = "insert" /\ pc'[u] # "insert"
                => Cardinality(Offering') + 1 = Cardinality(Offering)
<1>1. IsFiniteSet(Offering) /\ Cardinality(Offering) \in Nat /\ IsFiniteSet(Offering')
      /\ Cardinality(Offering') \in Nat
  BY FiniteParts DEF Offering
<1>2. CASE pc[u] = "insert" <=> pc'[u] = "insert"
  BY <1>2 DEF Offering, OthersStill
<1>3. CASE pc[u] # "insert" /\ pc'[u] = "insert"
  <2>1. Offering' = Offering \cup {u} /\ u \notin Offering
    BY <1>3 DEF Offering, OthersStill
  <2> QED
    BY <1>1, <1>3, <2>1, FS_AddElement
<1>4. CASE pc[u] = "insert" /\ pc'[u] # "insert"
  <2>1. Offering = Offering' \cup {u} /\ u \notin Offering'
    BY <1>4 DEF Offering, OthersStill
  <2>2. Cardinality(Offering) = Cardinality(Offering') + 1
    BY <1>1, <2>1, FS_AddElement
  <2> QED
    BY <1>1, <1>4, <2>2
<1> QED
  BY <1>2, <1>3, <1>4

\* Removing a key costs a registered room, or nothing.
LEMMA UnbindCount ==
    ASSUME RInv, NEW k \in Ids, rooms' = [rooms EXCEPT ![k] = None]
    PROVE  /\ rooms[k] = None => Cardinality(Live') = Cardinality(Live)
           /\ rooms[k] # None => Cardinality(Live') + 1 = Cardinality(Live)
<1>1. CASE rooms[k] = None
  BY <1>1, UnbindLive
<1>2. CASE rooms[k] # None
  <2>1. Live = Live' \cup {rooms[k]} /\ rooms[k] \notin Live'
    BY <1>2, UnbindLive
  <2>2. IsFiniteSet(Live') /\ Cardinality(Live') \in Nat
    BY FiniteParts DEF Live
  <2>3. Cardinality(Live) = Cardinality(Live') + 1
    BY <2>1, <2>2, FS_AddElement
  <2> QED
    BY <1>2, <2>2, <2>3
<1> QED
  BY <1>1, <1>2

Even == gauge' + Books = gauge + Books'
KeyGone ==
    /\ \E t \in Tasks : pc[t] = "sweep" /\ rooms[Head(todo[t])] = None
    /\ gauge' + Books + 1 = gauge + Books'
CloseSwallowed ==
    /\ \E t \in Tasks : pc[t] = "close" /\ gauge = 0
    /\ gauge' + Books = gauge + Books' + 1

LEMMA EvenStep ==
    ASSUME TInv, TInv', SweepOwes, SweepOwes', NEW u \in Tasks, OthersStill(u),
           UNCHANGED <<rooms, lost, gauge>>, pc[u] # "insert", pc'[u] # "insert",
           OwedCloses(u)' = OwedCloses(u)
    PROVE  Even
<1>1. Live' = Live
  BY DEF Live
<1>2. Cardinality(Offering') = Cardinality(Offering)
  BY OfferingStep
<1>3. gauge \in Nat
  BY DEF TInv, TypeOK
<1>4. Books' = Books
  BY <1>1, <1>2, Balance
<1> QED
  BY <1>3, <1>4 DEF Even

LEMMA OpenedStep ==
    ASSUME TInv, TInv', SweepOwes, SweepOwes', NEW u \in Tasks, OthersStill(u), RoomOpened(u)
    PROVE  Even
<1>1. /\ pc[u] = "open" /\ pc'[u] = "insert" /\ gauge' = gauge + 1
      /\ UNCHANGED <<rooms, lost>> /\ gauge \in Nat
  BY DEF RoomOpened, Goto, mapVars, TInv, TypeOK
<1>2. OwedCloses(u) = 0 /\ OwedCloses(u)' = 0
  BY <1>1 DEF OwedCloses
<1>3. Live' = Live
  BY <1>1 DEF Live
<1>4. Cardinality(Offering') = Cardinality(Offering) + 1
  BY <1>1, OfferingStep
<1>5. Books' = Books + 1
  BY <1>1, <1>2, <1>3, <1>4, Balance
<1>6. Books \in Nat
  BY Balance
<1> QED
  BY <1>1, <1>5, <1>6 DEF Even

LEMMA InsertStep ==
    ASSUME RInv, TInv', SweepOwes, SweepOwes', Fresh, NEW u \in Tasks, OthersStill(u), InsertOrGet(u)
    PROVE  Even
<1>1. /\ pc[u] = "insert" /\ pc'[u] = "idle" /\ gauge' = gauge
      /\ gauge \in Nat /\ TInv
  BY DEF InsertOrGet, Goto, RInv, TInv, TypeOK
<1>2. OwedCloses(u) = 0 /\ OwedCloses(u)' = 0
  BY <1>1 DEF OwedCloses
<1>3. Cardinality(Offering') + 1 = Cardinality(Offering)
  BY <1>1, OfferingStep
<1>4. IsFiniteSet(Live) /\ IsFiniteSet(lost)
  BY <1>1, FiniteParts DEF TInv, TypeOK, Live
<1>5. Cardinality(Live') + Cardinality(lost') = Cardinality(Live) + Cardinality(lost) + 1
  <2>1. CASE lost' = lost /\ mine[u] \notin Live /\ Live' = Live \cup {mine[u]}
    <3>1. Cardinality(Live') = Cardinality(Live) + 1
      BY <1>4, <2>1, FS_AddElement
    <3> QED
      BY <1>1, <2>1, <3>1, Balance
  <2>2. CASE Live' = Live /\ mine[u] \notin lost /\ lost' = lost \cup {mine[u]}
    <3>1. Cardinality(lost') = Cardinality(lost) + 1
      BY <1>4, <2>2, FS_AddElement
    <3> QED
      BY <1>1, <2>2, <3>1, Balance
  <2> QED
    BY <2>1, <2>2, InsertLive
<1>6. Books' = Books
  BY <1>1, <1>2, <1>3, <1>5, Balance
<1> QED
  BY <1>1, <1>6 DEF Even

LEMMA RemovedStep ==
    ASSUME RInv, TInv', TodoDone, SweepOwes, SweepOwes', NEW u \in Tasks, OthersStill(u), RemoveEntry(u)
    PROVE  Even
<1> DEFINE k == key[u]
<1>1. /\ pc[u] = "remove" /\ k \in Ids /\ gauge' = gauge /\ lost' = lost /\ todo' = todo
      /\ rooms' = [rooms EXCEPT ![k] = None]
      /\ gauge \in Nat /\ TInv /\ closes \in [Tasks -> Nat] /\ pc \in [Tasks -> PCs]
  BY DEF RemoveEntry, Unbind, scanVars, RInv, TInv, TypeOK, ControlAgrees
<1> HIDE DEF k
<1>2. todo[u] = << >> /\ Len(<< >>) = 0
  BY <1>1 DEF TodoDone, Cleaning
<1>3. OwedCloses(u) = 0
  BY <1>1 DEF OwedCloses
<1>4. CASE rooms[k] = None
  <2>1. pc' = [pc EXCEPT ![u] = "idle"] /\ closes' = closes
    BY <1>4, Zenon DEF k, RemoveEntry, Goto
  <2>2. OwedCloses(u)' = 0 /\ Cardinality(Offering') = Cardinality(Offering)
    <3>1. pc'[u] = "idle"
      BY <1>1, <2>1
    <3> QED
      BY <1>1, <3>1, OfferingStep DEF OwedCloses
  <2>3. Cardinality(Live') = Cardinality(Live)
    BY <1>1, <1>4, UnbindCount
  <2>4. Books' = Books
    <3>1. Cardinality(lost') = Cardinality(lost) /\ OwedCloses(u)' = OwedCloses(u)
      BY <1>1, <1>3, <2>2
    <3>2. Books' + Cardinality(Live) + Cardinality(Offering) + Cardinality(lost) + OwedCloses(u)
              = Books + Cardinality(Live') + Cardinality(Offering') + Cardinality(lost') + OwedCloses(u)'
      BY <1>1, Balance
    <3>3. /\ Books \in Nat /\ Books' \in Nat /\ OwedCloses(u) \in Nat
          /\ Cardinality(Live) \in Nat /\ Cardinality(Offering) \in Nat /\ Cardinality(lost) \in Nat
      BY <1>1, Balance
    <3> QED
      BY <2>2, <2>3, <3>1, <3>2, <3>3
  <2> QED
    BY <1>1, <2>4 DEF Even
<1>5. CASE rooms[k] # None
  <2>1. closes' = [closes EXCEPT ![u] = 1] /\ pc' = [pc EXCEPT ![u] = "close"]
    BY <1>5, Zenon DEF k, RemoveEntry, Goto
  <2>2. closes'[u] = 1 /\ pc'[u] = "close"
    BY <1>1, <2>1
  <2>3. OwedCloses(u)' = 1
    BY <1>1, <1>2, <2>2 DEF OwedCloses
  <2>4. Cardinality(Offering') = Cardinality(Offering)
    BY <1>1, <2>2, OfferingStep
  <2>5. Cardinality(Live') + 1 = Cardinality(Live)
    BY <1>1, <1>5, UnbindCount
  <2>6. Books' = Books
    BY <1>1, <1>3, <2>3, <2>4, <2>5, Balance
  <2> QED
    BY <1>1, <2>6 DEF Even
<1> QED
  BY <1>4, <1>5

\* A close takes one from the gauge and one from the books, or from the books
\* alone where the gauge is at zero.
LEMMA CloseSum ==
    ASSUME gauge \in Nat, gauge' = IF gauge = 0 THEN 0 ELSE gauge - 1,
           Books \in Nat, Books' \in Nat, Books' = Books - 1
    PROVE  /\ gauge = 0 => gauge' + Books = gauge + Books' + 1
           /\ gauge # 0 => gauge' + Books = gauge + Books'
<1>1. CASE gauge = 0
  BY <1>1
<1>2. CASE gauge # 0
  BY <1>2
<1> QED
  BY <1>1, <1>2

LEMMA ClosedStep ==
    ASSUME RInv, TInv', TodoDone, SweepOwes, SweepOwes', NEW u \in Tasks, OthersStill(u), RoomClosed(u)
    PROVE  Even \/ CloseSwallowed
<1>1. /\ pc[u] = "close" /\ lost' = lost /\ rooms' = rooms /\ todo' = todo
      /\ gauge' = IF gauge = 0 THEN 0 ELSE gauge - 1
      /\ gauge \in Nat /\ TInv /\ closes[u] \in Nat /\ closes[u] # 0
  BY DEF RoomClosed, mapVars, scanVars, RInv, TInv, TypeOK, ControlAgrees
<1>2. closes'[u] = closes[u] - 1 /\ pc'[u] = IF closes[u] = 1 THEN "idle" ELSE "close"
  <2>1. closes \in [Tasks -> Nat] /\ pc \in [Tasks -> PCs]
    BY <1>1 DEF TInv, TypeOK
  <2>2. /\ closes' = [closes EXCEPT ![u] = closes[u] - 1]
        /\ pc' = [pc EXCEPT ![u] = IF closes[u] = 1 THEN "idle" ELSE "close"]
    BY DEF RoomClosed, Goto
  <2> QED
    BY <2>1, <2>2
<1>3. todo[u] = << >> /\ Len(<< >>) = 0
  BY <1>1 DEF TodoDone, Cleaning
<1>4. OwedCloses(u) = closes[u]
  BY <1>1, <1>3 DEF OwedCloses
<1>5. OwedCloses(u)' = closes[u] - 1
  BY <1>1, <1>2, <1>3 DEF OwedCloses
<1>6. Cardinality(Offering') = Cardinality(Offering)
  BY <1>1, <1>2, OfferingStep
<1>7. Live' = Live
  BY <1>1 DEF Live
<1>8. Books' = Books - 1
  BY <1>1, <1>4, <1>5, <1>6, <1>7, Balance
<1>9. Books \in Nat /\ Books' \in Nat
  BY <1>1, Balance
<1>10. /\ gauge = 0 => gauge' + Books = gauge + Books' + 1
       /\ gauge # 0 => gauge' + Books = gauge + Books'
  BY <1>1, <1>8, <1>9, CloseSum
<1>11. CASE gauge = 0
  BY <1>1, <1>10, <1>11, Zenon DEF CloseSwallowed
<1>12. CASE gauge # 0
  BY <1>10, <1>12, Zenon DEF Even
<1> QED
  BY <1>11, <1>12

LEMMA SweptStep ==
    ASSUME RInv, TInv', SweepOwes, SweepOwes', NEW u \in Tasks, OthersStill(u), Sweep(u)
    PROVE  Even \/ KeyGone
<1>1. /\ pc[u] = "sweep" /\ todo[u] \in Seq(Ids) /\ todo[u] # << >> /\ Head(todo[u]) \in Ids
      /\ rooms' = [rooms EXCEPT ![Head(todo[u])] = None]
      /\ todo'[u] = Tail(todo[u]) /\ UNCHANGED <<closes, lost, gauge>>
      /\ pc'[u] = IF Len(todo[u]) = 1 THEN "close" ELSE "sweep"
  BY SweepFacts DEF RInv
<1>2. gauge \in Nat /\ TInv /\ closes[u] \in Nat
  BY DEF RInv, TInv, TypeOK
<1>3. Len(Tail(todo[u])) = Len(todo[u]) - 1 /\ Len(todo[u]) \in Nat
  BY <1>1, ListedTail
<1>4. OwedCloses(u) = closes[u] - Len(todo[u])
  BY <1>1 DEF OwedCloses
<1>5. OwedCloses(u)' = closes[u] - (Len(todo[u]) - 1)
  BY <1>1, <1>3 DEF OwedCloses
<1>6. OwedCloses(u)' = OwedCloses(u) + 1
  BY <1>2, <1>3, <1>4, <1>5
<1>7. Cardinality(Offering') = Cardinality(Offering)
  BY <1>1, <1>2, OfferingStep
<1>8. Books \in Nat /\ Books' \in Nat
  BY <1>2, Balance
<1>9. CASE rooms[Head(todo[u])] = None
  <2>1. Cardinality(Live') = Cardinality(Live)
    BY <1>1, <1>9, UnbindCount
  <2>2. Books' = Books + 1
    BY <1>1, <1>2, <1>6, <1>7, <2>1, Balance, SMTT(30)
  <2>3. gauge' + Books + 1 = gauge + Books'
    BY <1>1, <1>2, <1>8, <2>2
  <2> QED
    BY <1>1, <1>9, <2>3 DEF KeyGone
<1>10. CASE rooms[Head(todo[u])] # None
  <2>1. Cardinality(Live') + 1 = Cardinality(Live)
    BY <1>1, <1>10, UnbindCount
  <2>2. lost' = lost /\ gauge' = gauge
    BY <1>1
  <2>3. Books' = Books
    <3>1. /\ OwedCloses(u) \in Nat /\ {Cardinality(Live), Cardinality(Live'), Cardinality(Offering),
                                     Cardinality(lost)} \subseteq Nat
          /\ Books' + Cardinality(Live) + Cardinality(Offering) + Cardinality(lost) + OwedCloses(u)
              = Books + Cardinality(Live') + Cardinality(Offering) + Cardinality(lost) + (OwedCloses(u) + 1)
      BY <1>2, <1>6, <1>7, <2>2, Balance
    <3> QED
      BY <1>8, <2>1, <3>1
  <2> QED
    BY <2>2, <2>3 DEF Even
<1> QED
  BY <1>9, <1>10

LEMMA GaugeStep ==
    ASSUME RInv, BInv, [Next]_vars
    PROVE  Even \/ KeyGone \/ CloseSwallowed
<1>1. TInv /\ TInv' /\ TodoDone /\ SweepOwes /\ SweepOwes' /\ Fresh
  <2>1. TInv /\ TInv'
    BY TypeStep, ControlStep DEF RInv, TInv
  <2>2. TodoDone'
    BY <2>1, TodoDoneStep DEF BInv
  <2>3. SweepOwes'
    BY <2>1, <2>2, SweepOwesStep DEF BInv
  <2> QED
    BY <2>1, <2>3 DEF BInv
<1>2. pc \in [Tasks -> PCs] /\ todo \in [Tasks -> Seq(Ids)] /\ closes \in [Tasks -> Nat]
  BY <1>1 DEF TInv, TypeOK
<1>3. ASSUME NEW u \in Tasks, CallStep(u) PROVE Even \/ KeyGone \/ CloseSwallowed
  <2>1. OthersStill(u)
    BY <1>1, <1>3, TasksAlone
  <2>2. CASE RoomOpened(u)
    BY <1>1, <2>1, <2>2, OpenedStep
  <2>3. CASE InsertOrGet(u)
    BY <1>1, <2>1, <2>3, InsertStep
  <2>4. CASE RoomClosed(u)
    BY <1>1, <2>1, <2>4, ClosedStep
  <2>5. CASE Sweep(u)
    BY <1>1, <2>1, <2>5, SweptStep
  <2>6. CASE ScanDone(u)
    <3>1. /\ pc[u] = "scan" /\ todo'[u] = todo[u] /\ closes'[u] = Len(todo[u])
          /\ pc'[u] \in {"idle", "sweep"} /\ UNCHANGED <<rooms, lost, gauge>>
      BY <1>1, <2>6, ScanDoneFacts DEF ScanDone, mapVars
    <3>2. Len(todo[u]) \in Nat
      BY <1>2
    <3>3. OwedCloses(u) = 0 /\ OwedCloses(u)' = 0
      BY <3>1, <3>2 DEF OwedCloses
    <3> QED
      BY <1>1, <2>1, <3>1, <3>3, EvenStep
  <2>7. CASE ScanShard(u) \/ ReadReceivers(u) \/ \E p \in Tasks : ReadRoster(u, p)
    <3>1. pc[u] \in {"scan", "roster", "recv"} /\ pc'[u] \in {"scan", "roster", "recv"}
      BY <1>1, <2>7, ShardFacts, ReceiversFacts, RosterFacts
    <3>2. UNCHANGED <<rooms, lost, gauge>>
      BY <2>7 DEF ScanShard, ReadReceivers, ReadRoster, mapVars
    <3>3. OwedCloses(u) = 0 /\ OwedCloses(u)' = 0
      BY <3>1 DEF OwedCloses
    <3> QED
      BY <1>1, <2>1, <3>1, <3>2, <3>3, EvenStep
  <2>8. CASE RemoveEntry(u)
    BY <1>1, <2>1, <2>8, RemovedStep
  <2> QED
    BY <1>3, <2>2, <2>3, <2>4, <2>5, <2>6, <2>7, <2>8 DEF CallStep
<1>4. ASSUME NEW u \in Tasks, StartsCall(u) PROVE Even
  <2>1. OthersStill(u)
    BY <1>1, <1>4, TasksAlone
  <2>2. pc[u] = "idle" /\ pc'[u] \in {"idle", "open", "remove", "scan"} /\ UNCHANGED <<rooms, lost, gauge>>
    BY <1>2, <1>4 DEF StartsCall, GetOrCreateHit, GetOrCreateMiss, Get, Remove, Cleanup, StartCall, Goto, mapVars
  <2>3. OwedCloses(u) = 0 /\ OwedCloses(u)' = 0
    BY <2>2 DEF OwedCloses
  <2> QED
    BY <1>1, <2>1, <2>2, <2>3, EvenStep
<1>5. ASSUME NEW u \in Tasks, UsesRoom(u) PROVE Even
  <2>1. OthersStill(u)
    BY <1>1, <1>5, TasksAlone
  <2>2. pc[u] = "idle" /\ pc'[u] = "idle" /\ UNCHANGED <<rooms, lost, gauge>>
    BY <1>5 DEF UsesRoom, Join, Leave, Subscribe, DropReceiver, OnHandle, mapVars
  <2>3. OwedCloses(u) = 0 /\ OwedCloses(u)' = 0
    BY <2>2 DEF OwedCloses
  <2> QED
    BY <1>1, <2>1, <2>2, <2>3, EvenStep
<1>6. CASE Quiet \/ UNCHANGED vars
  <2>1. UNCHANGED <<rooms, lost, gauge, pc, todo, closes>>
    BY <1>6 DEF Quiet, vars
  <2>2. Live' = Live /\ Offering' = Offering /\ Owed' = Owed
    BY <2>1 DEF Live, Offering, Owed, OwedCloses
  <2> QED
    BY <2>1, <2>2 DEF Even, Books
<1> QED
  BY <1>3, <1>4, <1>5, <1>6 DEF Next

----------------------------------------------------------------------------
(* Theorems *)

\* The history only watches.
LEMMA HistoryStep == [HNext]_hvars => [Next]_vars
  BY DEF HNext, hvars

LEMMA HistoryIsSpec == HSpec => Spec
<1>1. HInit => Init
  BY DEF HInit
<1> QED
  BY <1>1, HistoryStep, PTL DEF HSpec, Spec

LEMMA HInvHolds == HSpec => [](RInv /\ SteadyInv /\ AtEnd /\ VacantInv /\ BInv)
<1>1. HInit => SteadyInv /\ AtEnd /\ VacantInv /\ BInv
  <2> SUFFICES ASSUME HInit PROVE SteadyInv /\ AtEnd /\ VacantInv /\ BInv
    OBVIOUS
  <2>1. \A t \in Tasks : pc[t] = "idle" /\ todo[t] = << >>
    BY DEF HInit, Init
  <2>2. SteadyInv /\ AtEnd /\ VacantInv
    BY <2>1 DEF SteadyInv, AtEnd, VacantInv, Cleaning
  <2>3. lost = {}
    BY DEF HInit, Init
  <2> QED
    BY <2>1, <2>2, <2>3 DEF BInv, TodoDone, SweepOwes, Fresh, Allocating
<1>2. RInv /\ RInv' /\ SteadyInv /\ AtEnd /\ VacantInv /\ BInv /\ [HNext]_hvars
        => SteadyInv' /\ AtEnd' /\ VacantInv' /\ BInv'
  <2> SUFFICES ASSUME RInv, RInv', SteadyInv, AtEnd, VacantInv, BInv, [HNext]_hvars
               PROVE  SteadyInv' /\ AtEnd' /\ VacantInv' /\ BInv'
    OBVIOUS
  <2>1. [Next]_vars /\ TInv /\ TInv'
    BY HistoryStep DEF RInv
  <2>2. SteadyInv' /\ AtEnd' /\ VacantInv'
    BY <2>1, SteadyStep, AtEndStep, VacantStep
  <2>3. TodoDone' /\ Fresh'
    BY <2>1, TodoDoneStep, FreshStep DEF BInv
  <2>4. SweepOwes'
    BY <2>1, <2>3, SweepOwesStep DEF BInv
  <2> QED
    BY <2>2, <2>3, <2>4 DEF BInv
<1> QED
  BY <1>1, <1>2, RInvHolds, HistoryIsSpec, PTL DEF HSpec

\* A cleanup never takes away a room that some participant stayed in for the
\* whole call, for any number of tasks, rooms and calls at once (room.rs
\* cleanup, cleanup_empty).
THEOREM SteadyRoomsSurvive == HSpec => SteadyRoomsKept
<1> DEFINE Keeps == \A t \in Tasks :
        pc[t] = "sweep" /\ todo'[t] # todo[t] => \A x \in steady[t] : x[1] \in Live'
<1>1. RInv /\ SteadyInv /\ [HNext]_hvars => [Keeps]_hvars
  <2> SUFFICES ASSUME RInv, SteadyInv, [HNext]_hvars,
                      NEW t \in Tasks, pc[t] = "sweep", todo'[t] # todo[t], NEW x \in steady[t]
               PROVE  x[1] \in Live'
    OBVIOUS
  <2>1. [Next]_vars /\ TInv /\ Cleaning(t)
    BY HistoryStep DEF RInv, Cleaning
  <2>2. Sweep(t)
    BY <2>1, OwnSteps DEF ScanShard, ReadRoster, ReadReceivers, ScanDone
  <2>3. /\ todo[t] \in Seq(Ids) /\ todo[t] # << >> /\ Head(todo[t]) \in Ids
        /\ rooms' = [rooms EXCEPT ![Head(todo[t])] = None]
    BY <2>1, <2>2, SweepFacts
  <2>4. Safe(t, x)
    BY <2>1 DEF SteadyInv
  <2>5. x[1] \in Live /\ x[1] \in Rooms /\ roomId[x[1]] \in Ids /\ rooms[roomId[x[1]]] = x[1]
    BY <2>4, PeopledFacts DEF Safe
  <2>6. roomId[x[1]] # Head(todo[t])
    BY <2>3, <2>4, ListedTail DEF Safe
  <2>7. rooms'[roomId[x[1]]] = x[1]
    BY <2>1, <2>3, <2>5, <2>6 DEF TInv, TypeOK
  <2> QED
    BY <2>5, <2>7 DEF Live
<1> QED
  BY <1>1, HInvHolds, PTL DEF HSpec, SteadyRoomsKept

\* A room that is registered and vacant during a whole cleanup is gone at its
\* end, whatever the other tasks do meanwhile (room.rs cleanup).
THEOREM VacantRoomsGo == HSpec => VacantRoomsSwept
<1> DEFINE Swept == \A t \in Tasks : Cleaning(t) /\ ~Cleaning(t)' => vacant'[t] = {}
<1>1. RInv /\ AtEnd /\ VacantInv /\ [HNext]_hvars => [Swept]_hvars
  <2> SUFFICES ASSUME RInv, AtEnd, VacantInv, HNext, NEW t \in Tasks, Cleaning(t), ~Cleaning(t)',
                      NEW r \in vacant'[t]
               PROVE  FALSE
    OBVIOUS
  <2>1. Next /\ vacant'[t] = vacant[t] \cap Vacant'
    BY DEF HNext, Remember
  <2>2. Doomed(t, r) /\ r \in Vacant'
    BY <2>1 DEF VacantInv
  <2> QED
    BY <2>1, <2>2, DoomedStep
<1> QED
  BY <1>1, HInvHolds, PTL DEF HSpec, VacantRoomsSwept

\* The gauge departs from the books in the two ways GaugeAccounting names and
\* in no other, for any number of tasks racing to create, remove and sweep
\* (room.rs room_opened, room_closed; stats.rs saturating_dec).
THEOREM GaugeAccounted == HSpec => GaugeAccounting
<1>1. RInv /\ BInv /\ [HNext]_hvars => [Even \/ KeyGone \/ CloseSwallowed]_hvars
  BY HistoryStep, GaugeStep
<1> QED
  BY <1>1, HInvHolds, PTL DEF HSpec, GaugeAccounting, Even, KeyGone, CloseSwallowed

=============================================================================
