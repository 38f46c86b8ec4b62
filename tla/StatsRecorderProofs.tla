------------------------ MODULE StatsRecorderProofs ------------------------
(***************************************************************************)
(* Proofs about the traffic counters, for any recorders, rooms, traffic,   *)
(* message sizes and fan-out, any number of records and snapshots.         *)
(***************************************************************************)
EXTENDS StatsRecorder, SumTheorems

----------------------------------------------------------------------------
(* The adds of a record *)

\* What is left of a record's adds at some moment.
Lists(kind) == {Adds(kind), Tail(Adds(kind)), << >>}

\* The most one record adds to a field.
Unit(f) ==
    CASE f = "messages_in" -> 1
      [] f = "messages_out" -> Fanout
      [] f = "bytes_in" -> Bytes
      [] f = "bytes_out" -> Bytes * Fanout
      [] f = "drops" -> 1

Part(add, f) == IF add.field = f THEN add.n ELSE 0

LEMMA FieldNames ==
    Field = {"messages_in", "messages_out", "bytes_in", "bytes_out", "drops"}
  BY DEF Field, ToSet, Fields

LEMMA Amounts ==
    /\ Bytes \in Nat /\ Fanout \in Nat /\ Bytes * Fanout \in Nat /\ Fanout >= 1
    /\ NumRooms \in Nat /\ MaxRecords \in Nat /\ MaxSnapshots \in Nat
  BY NumbersAssumption

LEMMA AmountOfNone == ASSUME NEW f PROVE Amount(<< >>, f) = 0
<1>1. [i \in DOMAIN << >> |-> IF << >>[i].field = f THEN << >>[i].n ELSE 0] = << >>
  OBVIOUS
<1> QED
  BY <1>1, SumOfNothing DEF Amount

LEMMA AmountOfOne ==
    ASSUME NEW a, a.n \in Nat, NEW f
    PROVE  Amount(<<a>>, f) = Part(a, f)
<1> DEFINE g == [i \in DOMAIN <<a>> |-> IF <<a>>[i].field = f THEN <<a>>[i].n ELSE 0]
<1>1. g \in [1..1 -> Nat] /\ g[1] = Part(a, f)
  BY DEF Part
<1> HIDE DEF g
<1>2. SumFunction(g) = Part(a, f)
  BY <1>1, SumOfOne
<1> QED
  BY <1>2 DEF Amount, g

LEMMA AmountOfTwo ==
    ASSUME NEW a, a.n \in Nat, NEW b, b.n \in Nat, NEW f
    PROVE  Amount(<<a, b>>, f) = Part(a, f) + Part(b, f)
<1> DEFINE g == [i \in DOMAIN <<a, b>> |-> IF <<a, b>>[i].field = f THEN <<a, b>>[i].n ELSE 0]
<1>1. g \in [1..2 -> Nat] /\ g[1] = Part(a, f) /\ g[2] = Part(b, f)
  BY DEF Part
<1> HIDE DEF g
<1>2. SumFunction(g) = Part(a, f) + Part(b, f)
  BY <1>1, SumOfTwo
<1> QED
  BY <1>2 DEF Amount, g

\* The two shapes of the adds of a record.
LEMMA AddsShapes ==
    ASSUME NEW kind \in Kinds
    PROVE  \/ \E a \in AddRecords, b \in AddRecords :
                /\ Adds(kind) = <<a, b>> /\ Tail(Adds(kind)) = <<b>>
                /\ a.field # b.field
                /\ a.n = Unit(a.field) /\ b.n = Unit(b.field)
                /\ b.n = Bytes * a.n
                /\ \/ a.field = "messages_in" /\ b.field = "bytes_in"
                   \/ a.field = "messages_out" /\ b.field = "bytes_out"
           \/ \E a \in AddRecords :
                /\ Adds(kind) = <<a>> /\ Tail(Adds(kind)) = << >>
                /\ a.n = Unit(a.field) /\ a.field = "drops"
<1>1. CASE kind = "in"
  <2> DEFINE a == [field |-> "messages_in", n |-> 1]
             b == [field |-> "bytes_in", n |-> Bytes]
  <2>1. a \in AddRecords /\ b \in AddRecords
    BY Amounts, FieldNames DEF AddRecords
  <2>2. Adds(kind) = <<a, b>>
    BY <1>1 DEF Adds
  <2>3. Tail(<<a, b>>) = <<b>>
    OBVIOUS
  <2>4. a.n = Unit(a.field) /\ b.n = Unit(b.field) /\ b.n = Bytes * a.n
    BY Amounts DEF Unit
  <2> QED
    BY <2>1, <2>2, <2>3, <2>4
<1>2. CASE kind = "out"
  <2> DEFINE a == [field |-> "messages_out", n |-> Fanout]
             b == [field |-> "bytes_out", n |-> Bytes * Fanout]
  <2>1. a \in AddRecords /\ b \in AddRecords
    BY Amounts, FieldNames DEF AddRecords
  <2>2. Adds(kind) = <<a, b>>
    BY <1>2 DEF Adds
  <2>3. Tail(<<a, b>>) = <<b>>
    OBVIOUS
  <2>4. a.n = Unit(a.field) /\ b.n = Unit(b.field) /\ b.n = Bytes * a.n
    BY Amounts DEF Unit
  <2> QED
    BY <2>1, <2>2, <2>3, <2>4
<1>3. CASE kind = "drop"
  <2> DEFINE a == [field |-> "drops", n |-> 1]
  <2>1. a \in AddRecords
    BY FieldNames DEF AddRecords
  <2>2. Adds(kind) = <<a>>
    BY <1>3 DEF Adds
  <2>3. Tail(<<a>>) = << >>
    OBVIOUS
  <2>4. a.n = Unit(a.field)
    BY DEF Unit
  <2> QED
    BY <2>1, <2>2, <2>3, <2>4
<1> QED
  BY <1>1, <1>2, <1>3 DEF Kinds

LEMMA UnitType == \A f \in Field : Unit(f) \in Nat
  BY Amounts, FieldNames DEF Unit

\* A list of adds comes to the first one and the rest.
LEMMA ListFacts ==
    ASSUME NEW kind \in Kinds, NEW l \in Lists(kind)
    PROVE  /\ l \in Seq(AddRecords)
           /\ \A f \in Field : Amount(l, f) \in Nat /\ Amount(l, f) <= Unit(f)
           /\ l # << >> => /\ Head(l) \in AddRecords /\ Tail(l) \in Lists(kind)
                           /\ Len(l) = 1 <=> Tail(l) = << >>
                           /\ \A f \in Field : Amount(l, f) = Part(Head(l), f) + Amount(Tail(l), f)
<1>1. \A f : Amount(<< >>, f) = 0
  BY AmountOfNone
<1>2. \A a \in AddRecords, f \in Field : Amount(<<a>>, f) = Part(a, f)
  BY AmountOfOne DEF AddRecords
<1>3. \A a, b \in AddRecords, f \in Field : Amount(<<a, b>>, f) = Part(a, f) + Part(b, f)
  BY AmountOfTwo DEF AddRecords
<1>4. \A a \in AddRecords, f \in Field : Part(a, f) \in Nat
  BY DEF Part, AddRecords
<1>5. \A a \in AddRecords, f \in Field : a.n = Unit(a.field) => Part(a, f) <= Unit(f)
  BY UnitType DEF Part, AddRecords
<1>6. \A a, b \in AddRecords, f \in Field :
        a.field # b.field => Part(a, f) = 0 \/ Part(b, f) = 0
  BY DEF Part
<1>7. ASSUME NEW a \in AddRecords, NEW b \in AddRecords, Adds(kind) = <<a, b>>, Tail(Adds(kind)) = <<b>>,
             a.field # b.field, a.n = Unit(a.field), b.n = Unit(b.field)
      PROVE  /\ l \in Seq(AddRecords)
             /\ \A f \in Field : Amount(l, f) \in Nat /\ Amount(l, f) <= Unit(f)
             /\ l # << >> => /\ Head(l) \in AddRecords /\ Tail(l) \in Lists(kind)
                             /\ Len(l) = 1 <=> Tail(l) = << >>
                             /\ \A f \in Field : Amount(l, f) = Part(Head(l), f) + Amount(Tail(l), f)
  <2>1. l = <<a, b>> \/ l = <<b>> \/ l = << >>
    BY <1>7 DEF Lists
  <2>2. CASE l = <<a, b>>
    <3>1. Tail(l) = <<b>> /\ Head(l) = a /\ Len(l) = 2 /\ l \in Seq(AddRecords) /\ <<b>> # << >>
      BY <2>2
    <3>2. \A f \in Field : Amount(l, f) \in Nat /\ Amount(l, f) <= Unit(f)
      BY <1>3, <1>4, <1>5, <1>6, <1>7, <2>2, UnitType
    <3>3. \A f \in Field : Amount(l, f) = Part(Head(l), f) + Amount(Tail(l), f)
      BY <1>2, <1>3, <2>2, <3>1
    <3> QED
      BY <1>7, <3>1, <3>2, <3>3 DEF Lists
  <2>3. CASE l = <<b>>
    <3>1. Tail(l) = << >> /\ Head(l) = b /\ Len(l) = 1 /\ l \in Seq(AddRecords)
      BY <2>3
    <3>2. \A f \in Field : Amount(l, f) \in Nat /\ Amount(l, f) <= Unit(f)
      BY <1>2, <1>4, <1>5, <1>7, <2>3, UnitType
    <3>3. \A f \in Field : Amount(l, f) = Part(Head(l), f) + Amount(Tail(l), f)
      BY <1>1, <1>2, <1>4, <2>3, <3>1
    <3> QED
      BY <3>1, <3>2, <3>3 DEF Lists
  <2>4. CASE l = << >>
    BY <1>1, <2>4, UnitType
  <2> QED
    BY <2>1, <2>2, <2>3, <2>4
<1>8. ASSUME NEW a \in AddRecords, Adds(kind) = <<a>>, Tail(Adds(kind)) = << >>, a.n = Unit(a.field)
      PROVE  /\ l \in Seq(AddRecords)
             /\ \A f \in Field : Amount(l, f) \in Nat /\ Amount(l, f) <= Unit(f)
             /\ l # << >> => /\ Head(l) \in AddRecords /\ Tail(l) \in Lists(kind)
                             /\ Len(l) = 1 <=> Tail(l) = << >>
                             /\ \A f \in Field : Amount(l, f) = Part(Head(l), f) + Amount(Tail(l), f)
  <2>1. l = <<a>> \/ l = << >>
    BY <1>8 DEF Lists
  <2>2. CASE l = <<a>>
    <3>1. Tail(l) = << >> /\ Head(l) = a /\ Len(l) = 1 /\ l \in Seq(AddRecords)
      BY <2>2
    <3>2. \A f \in Field : Amount(l, f) \in Nat /\ Amount(l, f) <= Unit(f)
      BY <1>2, <1>4, <1>5, <1>8, <2>2, UnitType
    <3>3. \A f \in Field : Amount(l, f) = Part(Head(l), f) + Amount(Tail(l), f)
      BY <1>1, <1>2, <1>4, <2>2, <3>1
    <3> QED
      BY <3>1, <3>2, <3>3 DEF Lists
  <2>3. CASE l = << >>
    BY <1>1, <2>3, UnitType
  <2> QED
    BY <2>1, <2>2, <2>3
<1> QED
  BY <1>7, <1>8, AddsShapes

\* A record adds bytes in proportion to messages.
LEMMA RecordBalanced ==
    ASSUME NEW kind \in Kinds
    PROVE  /\ Adds(kind) # << >>
           /\ Amount(Adds(kind), "bytes_in") = Bytes * Amount(Adds(kind), "messages_in")
           /\ Amount(Adds(kind), "bytes_out") = Bytes * Amount(Adds(kind), "messages_out")
<1>1. ASSUME NEW a \in AddRecords, NEW b \in AddRecords, Adds(kind) = <<a, b>>, b.n = Bytes * a.n,
             \/ a.field = "messages_in" /\ b.field = "bytes_in"
             \/ a.field = "messages_out" /\ b.field = "bytes_out"
      PROVE  /\ Adds(kind) # << >>
             /\ Amount(Adds(kind), "bytes_in") = Bytes * Amount(Adds(kind), "messages_in")
             /\ Amount(Adds(kind), "bytes_out") = Bytes * Amount(Adds(kind), "messages_out")
  <2>1. \A f : Amount(Adds(kind), f) = Part(a, f) + Part(b, f)
    BY <1>1, AmountOfTwo DEF AddRecords
  <2>2. a.n \in Nat /\ b.n \in Nat /\ Bytes * 0 = 0
    BY Amounts DEF AddRecords
  <2>3. <<a, b>> # << >>
    OBVIOUS
  <2> QED
    BY <1>1, <2>1, <2>2, <2>3 DEF Part
<1>2. ASSUME NEW a \in AddRecords, Adds(kind) = <<a>>, a.field = "drops"
      PROVE  /\ Adds(kind) # << >>
             /\ Amount(Adds(kind), "bytes_in") = Bytes * Amount(Adds(kind), "messages_in")
             /\ Amount(Adds(kind), "bytes_out") = Bytes * Amount(Adds(kind), "messages_out")
  <2>1. \A f : Amount(Adds(kind), f) = Part(a, f)
    BY <1>2, AmountOfOne DEF AddRecords
  <2>2. Bytes * 0 = 0 /\ <<a>> # << >>
    BY Amounts
  <2> QED
    BY <1>2, <2>1, <2>2 DEF Part
<1> QED
  BY <1>1, <1>2, AddsShapes

----------------------------------------------------------------------------
(* Types and control *)

\* A recorder has a Ref to a room as long as it has something to add there.
RecordersOK ==
    \A t \in Recorders :
        /\ \E kind \in Kinds : toRoom[t] \in Lists(kind) /\ toGlobals[t] \in Lists(kind)
        /\ holds[t] = NoRoom <=> toRoom[t] = << >>

\* Nobody else has a Ref to that room.
Exclusive ==
    \A t, u \in Recorders : holds[t] = holds[u] /\ holds[t] # NoRoom => t = u

\* A snapshot loads the fields of rooms that have counters, and no global
\* before it is through with the rooms.
LoadsOK ==
    /\ roomLoads # << >> => shard \in DOMAIN perRoom
    /\ shard \in Rooms => loads = Fields

ViewShape == view = [perRoom |-> view.perRoom, globals |-> view.globals]

TInv == TypeOK /\ RecordersOK /\ Exclusive /\ LoadsOK /\ ViewShape

LEMMA ZeroType == Zero \in Cells /\ \A f \in Field : Zero[f] = 0
  BY DEF Zero, Cells

LEMMA FieldsType == Fields \in Seq(Field) /\ Fields # << >> /\ \A f \in Field : f \in ToSet(Fields)
  BY DEF Field, Fields, ToSet

LEMMA EmptyLen == ASSUME NEW S, NEW s \in Seq(S) PROVE s = << >> <=> Len(s) = 0
  OBVIOUS

\* Head and tail of the fields still to be loaded.
LEMMA LoadFacts ==
    ASSUME NEW s \in Seq(Field), s # << >>
    PROVE  /\ Head(s) \in Field /\ Tail(s) \in Seq(Field)
           /\ Len(s) = 1 <=> Tail(s) = << >>
           /\ \A f \in ToSet(s) : f = Head(s) \/ f \in ToSet(Tail(s))
<1>1. /\ Head(s) \in Field /\ Tail(s) \in Seq(Field) /\ Len(s) \in Nat \ {0}
      /\ Head(s) = s[1] /\ Len(Tail(s)) = Len(s) - 1
      /\ \A i \in 1..Len(s) : i # 1 => i - 1 \in 1..Len(Tail(s)) /\ s[i] = Tail(s)[i - 1]
  OBVIOUS
<1>2. Len(s) = 1 <=> Tail(s) = << >>
  <2>1. Tail(s) = << >> <=> Len(Tail(s)) = 0
    BY <1>1, EmptyLen
  <2> QED
    BY <1>1, <2>1
<1>3. ASSUME NEW f \in ToSet(s) PROVE f = Head(s) \/ f \in ToSet(Tail(s))
  <2>1. PICK i \in DOMAIN s : f = s[i]
    BY DEF ToSet
  <2>2. i \in 1..Len(s) /\ DOMAIN Tail(s) = 1..Len(Tail(s))
    BY <1>1
  <2> QED
    BY <1>1, <2>1, <2>2 DEF ToSet
<1> QED
  BY <1>1, <1>2, <1>3

LEMMA TypeParts ==
    ASSUME TInv
    PROVE  /\ globals \in Cells /\ direct \in Cells
           /\ DOMAIN perRoom \subseteq Rooms /\ \A r \in DOMAIN perRoom : perRoom[r] \in Cells
           /\ \A t \in Recorders : holds[t] # NoRoom => holds[t] \in DOMAIN perRoom
           /\ DOMAIN view.perRoom \subseteq DOMAIN perRoom
           /\ \A r \in DOMAIN view.perRoom : view.perRoom[r] \in Cells
           /\ DOMAIN shown.perRoom \subseteq DOMAIN perRoom
           /\ \A r \in DOMAIN shown.perRoom : shown.perRoom[r] \in Cells
           /\ view.globals \in Cells /\ shown.globals \in Cells
           /\ roomLoads \in Seq(Field) /\ loads \in Seq(Field)
           /\ NoRoom \notin Rooms
  BY DEF TInv, TypeOK, CountersType, RecordersType, SnapshotType, StatsType, NoRoom, Rooms

LEMMA InitType == Init => TInv
<1> SUFFICES ASSUME Init PROVE TInv
  OBVIOUS
<1>1. TypeOK
  <2>1. CountersType
    BY ZeroType DEF Init, CountersType
  <2>2. RecordersType
    BY ZeroType, Amounts DEF Init, RecordersType
  <2>3. SnapshotType
    BY ZeroType, Amounts DEF Init, SnapshotType, StatsType, NoStats
  <2> QED
    BY <2>1, <2>2, <2>3 DEF TypeOK
<1>2. RecordersOK
  BY DEF Init, RecordersOK, Lists, Kinds
<1>3. Exclusive /\ ViewShape
  BY DEF Init, Exclusive, ViewShape, NoStats
<1>4. LoadsOK
  BY DEF Init, LoadsOK, Rooms
<1> QED
  BY <1>1, <1>2, <1>3, <1>4 DEF TInv

LEMMA BumpedType ==
    ASSUME NEW cells \in Cells, NEW add \in AddRecords
    PROVE  /\ Bumped(cells, add) \in Cells
           /\ \A f \in Field : Bumped(cells, add)[f] = cells[f] + Part(add, f)
<1>1. add.field \in Field /\ add.n \in Nat
  BY DEF AddRecords
<1>2. \A f \in Field : cells[f] \in Nat
  BY DEF Cells
<1> QED
  BY <1>1, <1>2 DEF Bumped, Cells, Part

\* A step of a recorder, by its parts.
LEMMA RecordRoomStep ==
    ASSUME TInv, NEW t \in Recorders, NEW r \in Rooms, NEW kind \in Kinds, RecordRoom(t, r, kind)
    PROVE  TInv'
<1>1. /\ records' = records + 1 /\ records < MaxRecords
      /\ perRoom' = RoomCounters(r) /\ holds' = [holds EXCEPT ![t] = r]
      /\ toRoom' = [toRoom EXCEPT ![t] = Adds(kind)]
      /\ toGlobals' = [toGlobals EXCEPT ![t] = Adds(kind)]
      /\ UNCHANGED <<globals, direct, shard, roomLoads, loads, view, shown, snapshots>>
  BY DEF RecordRoom, Begin, snapshotVars
<1>2. \A u \in Recorders : holds[u] # r
  BY DEF RecordRoom, ReadLocked
<1>3. DOMAIN perRoom' = DOMAIN perRoom \cup {r} /\ \A x \in DOMAIN perRoom' : perRoom'[x] \in Cells
  BY <1>1, ZeroType, TypeParts DEF RoomCounters
<1>4. Adds(kind) \in Seq(AddRecords) /\ Adds(kind) \in Lists(kind) /\ Adds(kind) # << >>
  <2>1. Adds(kind) \in Lists(kind)
    BY DEF Lists
  <2> QED
    BY <2>1, ListFacts, RecordBalanced
<1>5. TypeOK'
  <2>1. CountersType'
    BY <1>1, <1>3, TypeParts DEF CountersType
  <2>2. records' \in 0..MaxRecords
    BY <1>1, Amounts DEF TInv, TypeOK, RecordersType
  <2>3. RecordersType'
    BY <1>1, <1>3, <1>4, <2>2 DEF TInv, TypeOK, RecordersType
  <2>4. SnapshotType'
    BY <1>1, <1>3 DEF TInv, TypeOK, SnapshotType, StatsType
  <2> QED
    BY <2>1, <2>3, <2>4 DEF TypeOK
<1>6. RecordersOK'
  BY <1>1, <1>4 DEF TInv, RecordersOK, TypeOK, RecordersType, NoRoom, Rooms
<1>7. Exclusive'
  BY <1>1, <1>2 DEF TInv, Exclusive, TypeOK, RecordersType
<1>8. LoadsOK' /\ ViewShape'
  BY <1>1, <1>3 DEF TInv, LoadsOK, ViewShape
<1> QED
  BY <1>5, <1>6, <1>7, <1>8 DEF TInv

LEMMA AddRoomStep ==
    ASSUME TInv, NEW t \in Recorders, AddRoom(t)
    PROVE  TInv'
<1>1. /\ toRoom[t] # << >>
      /\ perRoom' = [perRoom EXCEPT ![holds[t]] = Bumped(@, Head(toRoom[t]))]
      /\ toRoom' = [toRoom EXCEPT ![t] = Tail(@)]
      /\ holds' = [holds EXCEPT ![t] = IF Len(toRoom[t]) = 1 THEN NoRoom ELSE @]
      /\ UNCHANGED <<globals, toGlobals, records, direct, shard, roomLoads, loads, view, shown, snapshots>>
  BY DEF AddRoom, snapshotVars
<1>2. PICK kind \in Kinds : toRoom[t] \in Lists(kind) /\ toGlobals[t] \in Lists(kind)
  BY DEF TInv, RecordersOK
<1>3. /\ Head(toRoom[t]) \in AddRecords /\ Tail(toRoom[t]) \in Lists(kind)
      /\ Len(toRoom[t]) = 1 <=> Tail(toRoom[t]) = << >>
  BY <1>1, <1>2, ListFacts
<1>4. Tail(toRoom[t]) \in Seq(AddRecords)
  BY <1>3, ListFacts
<1>5. DOMAIN perRoom' = DOMAIN perRoom /\ \A x \in DOMAIN perRoom' : perRoom'[x] \in Cells
  BY <1>1, <1>3, BumpedType, TypeParts
<1>6. TypeOK'
  <2>1. CountersType'
    BY <1>1, <1>5, TypeParts DEF CountersType
  <2>2. RecordersType'
    BY <1>1, <1>4, <1>5 DEF TInv, TypeOK, RecordersType
  <2>3. SnapshotType'
    BY <1>1, <1>5 DEF TInv, TypeOK, SnapshotType, StatsType
  <2> QED
    BY <2>1, <2>2, <2>3 DEF TypeOK
<1>7. RecordersOK'
  BY <1>1, <1>2, <1>3 DEF TInv, RecordersOK, TypeOK, RecordersType
<1>8. Exclusive'
  BY <1>1 DEF TInv, Exclusive, TypeOK, RecordersType
<1>9. LoadsOK' /\ ViewShape'
  BY <1>1, <1>5 DEF TInv, LoadsOK, ViewShape
<1> QED
  BY <1>6, <1>7, <1>8, <1>9 DEF TInv

LEMMA RecordGlobalStep ==
    ASSUME TInv, NEW t \in Recorders, NEW kind \in Kinds, RecordGlobal(t, kind)
    PROVE  TInv'
<1>1. /\ records' = records + 1 /\ records < MaxRecords /\ toRoom[t] = << >>
      /\ toGlobals' = [toGlobals EXCEPT ![t] = Adds(kind)]
      /\ direct' = [f \in Field |-> direct[f] + Amount(Adds(kind), f)]
      /\ UNCHANGED <<perRoom, globals, holds, toRoom, shard, roomLoads, loads, view, shown, snapshots>>
  BY DEF RecordGlobal, Begin, Idle, snapshotVars
<1>2. Adds(kind) \in Lists(kind) /\ << >> \in Lists(kind)
  BY DEF Lists
<1>3. Adds(kind) \in Seq(AddRecords) /\ \A f \in Field : Amount(Adds(kind), f) \in Nat
  BY <1>2, ListFacts
<1>4. direct' \in Cells
  BY <1>1, <1>3, TypeParts DEF Cells
<1>5. TypeOK'
  <2>1. records' \in 0..MaxRecords
    BY <1>1, Amounts DEF TInv, TypeOK, RecordersType
  <2>2. RecordersType'
    BY <1>1, <1>3, <1>4, <2>1 DEF TInv, TypeOK, RecordersType
  <2>3. CountersType' /\ SnapshotType'
    BY <1>1 DEF TInv, TypeOK, CountersType, SnapshotType, StatsType
  <2> QED
    BY <2>2, <2>3 DEF TypeOK
<1>6. RecordersOK'
  BY <1>1, <1>2 DEF TInv, RecordersOK, TypeOK, RecordersType
<1>7. Exclusive' /\ LoadsOK' /\ ViewShape'
  BY <1>1 DEF TInv, Exclusive, LoadsOK, ViewShape
<1> QED
  BY <1>5, <1>6, <1>7 DEF TInv

LEMMA AddGlobalStep ==
    ASSUME TInv, NEW t \in Recorders, AddGlobal(t)
    PROVE  TInv'
<1>1. /\ toGlobals[t] # << >>
      /\ globals' = Bumped(globals, Head(toGlobals[t]))
      /\ toGlobals' = [toGlobals EXCEPT ![t] = Tail(@)]
      /\ UNCHANGED <<perRoom, holds, toRoom, records, direct, shard, roomLoads, loads, view, shown, snapshots>>
  BY DEF AddGlobal, snapshotVars
<1>2. PICK kind \in Kinds : toRoom[t] \in Lists(kind) /\ toGlobals[t] \in Lists(kind)
  BY DEF TInv, RecordersOK
<1>3. Head(toGlobals[t]) \in AddRecords /\ Tail(toGlobals[t]) \in Lists(kind)
  BY <1>1, <1>2, ListFacts
<1>4. Tail(toGlobals[t]) \in Seq(AddRecords)
  BY <1>3, ListFacts
<1>5. globals' \in Cells
  BY <1>1, <1>3, BumpedType, TypeParts
<1>6. TypeOK'
  <2>1. RecordersType'
    BY <1>1, <1>4 DEF TInv, TypeOK, RecordersType
  <2>2. CountersType' /\ SnapshotType'
    BY <1>1, <1>5 DEF TInv, TypeOK, CountersType, SnapshotType, StatsType
  <2> QED
    BY <2>1, <2>2 DEF TypeOK
<1>7. RecordersOK'
  BY <1>1, <1>2, <1>3 DEF TInv, RecordersOK, TypeOK, RecordersType
<1>8. Exclusive' /\ LoadsOK' /\ ViewShape'
  BY <1>1 DEF TInv, Exclusive, LoadsOK, ViewShape
<1> QED
  BY <1>6, <1>7, <1>8 DEF TInv

\* What the snapshot's steps leave alone.
LEMMA SnapshotLeaves ==
    ASSUME Snapshot
    PROVE  UNCHANGED <<perRoom, globals, holds, toRoom, toGlobals, records, direct>>
  BY DEF Snapshot, SnapshotBegin, EnterShard, LoadRoom, LoadGlobal, SnapshotReturns,
         counters, recorderVars

LEMMA SnapshotStep ==
    ASSUME TInv, Snapshot
    PROVE  TInv'
<1>1. UNCHANGED <<perRoom, globals, holds, toRoom, toGlobals, records, direct>>
  BY SnapshotLeaves
<1>2. RecordersOK' /\ Exclusive'
  BY <1>1 DEF TInv, RecordersOK, Exclusive
<1>3. CountersType' /\ RecordersType'
  BY <1>1 DEF TInv, TypeOK, CountersType, RecordersType
<1>4. ASSUME SnapshotBegin PROVE TypeOK' /\ LoadsOK' /\ ViewShape'
  <2>1. shard' = 1 /\ loads' = Fields /\ view' = NoStats /\ snapshots' = snapshots + 1
        /\ roomLoads' = roomLoads /\ shown' = shown /\ snapshots < MaxSnapshots
        /\ shard = 0
    BY <1>4 DEF SnapshotBegin
  <2>2. TypeOK'
    <3>1. SnapshotType'
      BY <1>1, <2>1, FieldsType, ZeroType, Amounts DEF TInv, TypeOK, SnapshotType, StatsType, NoStats
    <3> QED
      BY <1>3, <3>1 DEF TypeOK
  <2>3. roomLoads = << >>
    BY <2>1, TypeParts DEF TInv, LoadsOK, NoRoom
  <2> QED
    BY <1>1, <2>1, <2>2, <2>3 DEF LoadsOK, ViewShape, NoStats
<1>5. ASSUME EnterShard PROVE TypeOK' /\ LoadsOK' /\ ViewShape'
  <2>1. /\ shard \in Rooms /\ UNCHANGED <<loads, view, shown, snapshots>>
        /\ \/ shard \in DOMAIN perRoom /\ roomLoads' = Fields /\ shard' = shard
           \/ shard' = shard + 1 /\ roomLoads' = roomLoads
        /\ roomLoads = << >>
    BY <1>5 DEF EnterShard
  <2>2. TypeOK'
    <3>1. shard' \in 0..(NumRooms + 1)
      BY <2>1, Amounts DEF Rooms
    <3>2. SnapshotType'
      BY <1>1, <2>1, <3>1, FieldsType DEF TInv, TypeOK, SnapshotType, StatsType
    <3> QED
      BY <1>3, <3>2 DEF TypeOK
  <2> QED
    BY <1>1, <2>1, <2>2 DEF TInv, LoadsOK, ViewShape
<1>6. ASSUME LoadRoom PROVE TypeOK' /\ LoadsOK' /\ ViewShape'
  <2>1. /\ roomLoads # << >> /\ view' = [view EXCEPT !.perRoom = Loaded(Head(roomLoads))]
        /\ roomLoads' = Tail(roomLoads)
        /\ shard' = (IF Len(roomLoads) = 1 THEN shard + 1 ELSE shard)
        /\ UNCHANGED <<loads, shown, snapshots>>
    BY <1>6 DEF LoadRoom
  <2>2. /\ shard \in DOMAIN perRoom /\ shard \in Rooms /\ loads = Fields
        /\ roomLoads \in Seq(Field)
    BY <2>1, TypeParts DEF TInv, LoadsOK
  <2>3. /\ Head(roomLoads) \in Field /\ Tail(roomLoads) \in Seq(Field)
        /\ Len(roomLoads) = 1 <=> Tail(roomLoads) = << >>
    BY <2>1, <2>2, LoadFacts
  <2>4. /\ DOMAIN Loaded(Head(roomLoads)) = DOMAIN view.perRoom \cup {shard}
        /\ \A r \in DOMAIN Loaded(Head(roomLoads)) : Loaded(Head(roomLoads))[r] \in Cells
    <3> DEFINE f == Head(roomLoads)
               old == IF shard \in DOMAIN view.perRoom THEN view.perRoom[shard] ELSE Zero
    <3>1. old \in Cells /\ \A r \in DOMAIN view.perRoom : view.perRoom[r] \in Cells
      BY ZeroType, TypeParts
    <3>2. perRoom[shard] \in Cells
      BY <2>2, TypeParts
    <3> HIDE DEF f, old
    <3>3. [old EXCEPT ![f] = perRoom[shard][f]] \in Cells
      BY <2>3, <3>1, <3>2 DEF Cells, f
    <3>4. /\ DOMAIN Loaded(f) = DOMAIN view.perRoom \cup {shard}
          /\ \A r \in DOMAIN view.perRoom : r # shard => Loaded(f)[r] = view.perRoom[r]
          /\ Loaded(f)[shard] = [old EXCEPT ![f] = perRoom[shard][f]]
      BY DEF Loaded, old
    <3> QED
      BY <3>1, <3>3, <3>4 DEF f
  <2>5. view' = [perRoom |-> Loaded(Head(roomLoads)), globals |-> view.globals]
    BY <2>1 DEF TInv, ViewShape
  <2>6. TypeOK'
    <3>1. StatsType(view)'
      BY <1>1, <2>2, <2>4, <2>5, TypeParts DEF StatsType
    <3>2. shard' \in 0..(NumRooms + 1)
      BY <2>1, <2>2, Amounts DEF TInv, TypeOK, SnapshotType, Rooms
    <3>3. SnapshotType'
      BY <1>1, <2>1, <2>3, <3>1, <3>2 DEF TInv, TypeOK, SnapshotType, StatsType
    <3> QED
      BY <1>3, <3>3 DEF TypeOK
  <2> QED
    BY <1>1, <2>1, <2>2, <2>3, <2>5, <2>6 DEF LoadsOK, ViewShape
<1>7. ASSUME LoadGlobal PROVE TypeOK' /\ LoadsOK' /\ ViewShape'
  <2>1. /\ shard > NumRooms /\ loads # << >> /\ loads' = Tail(loads)
        /\ view' = [view EXCEPT !.globals[Head(loads)] = globals[Head(loads)]]
        /\ UNCHANGED <<shard, roomLoads, shown, snapshots>>
    BY <1>7 DEF LoadGlobal
  <2>2. Head(loads) \in Field /\ Tail(loads) \in Seq(Field)
    BY <2>1, TypeParts, LoadFacts
  <2>3. view' = [perRoom |-> view.perRoom,
                 globals |-> [view.globals EXCEPT ![Head(loads)] = globals[Head(loads)]]]
    BY <2>1 DEF TInv, ViewShape
  <2>4. view'.globals \in Cells /\ view'.perRoom = view.perRoom
    BY <2>2, <2>3, TypeParts DEF Cells
  <2>5. TypeOK'
    <3>1. SnapshotType'
      BY <1>1, <2>1, <2>2, <2>4 DEF TInv, TypeOK, SnapshotType, StatsType
    <3> QED
      BY <1>3, <3>1 DEF TypeOK
  <2>6. shard \notin Rooms
    BY <2>1, Amounts DEF TInv, TypeOK, SnapshotType, Rooms
  <2> QED
    BY <1>1, <2>1, <2>3, <2>5, <2>6 DEF TInv, LoadsOK, ViewShape
<1>8. ASSUME SnapshotReturns PROVE TypeOK' /\ LoadsOK' /\ ViewShape'
  <2>1. /\ shard > NumRooms /\ shown' = view /\ view' = NoStats /\ shard' = 0
        /\ UNCHANGED <<roomLoads, loads, snapshots>>
    BY <1>8 DEF SnapshotReturns
  <2>2. roomLoads = << >>
    <3>1. shard \notin Rooms
      BY <2>1, Amounts DEF TInv, TypeOK, SnapshotType, Rooms
    <3> QED
      BY <3>1, TypeParts DEF TInv, LoadsOK
  <2>3. TypeOK'
    <3>1. SnapshotType'
      BY <1>1, <2>1, ZeroType, Amounts DEF TInv, TypeOK, SnapshotType, StatsType, NoStats
    <3> QED
      BY <1>3, <3>1 DEF TypeOK
  <2> QED
    BY <1>1, <2>1, <2>2, <2>3 DEF LoadsOK, ViewShape, NoStats, Rooms
<1> QED
  BY <1>2, <1>4, <1>5, <1>6, <1>7, <1>8 DEF Snapshot, TInv

LEMMA NextType ==
    ASSUME TInv, [Next]_vars
    PROVE  TInv'
<1>1. CASE UNCHANGED vars
  BY <1>1 DEF vars, TInv, TypeOK, CountersType, RecordersType, SnapshotType, StatsType, RecordersOK, Exclusive, LoadsOK, ViewShape
<1> QED
  BY <1>1, RecordRoomStep, AddRoomStep, RecordGlobalStep, AddGlobalStep, SnapshotStep
     DEF Next, AtRest

LEMMA TypeInvariant == Spec => []TInv
<1>1. Init => TInv
  BY InitType
<1>2. TInv /\ [Next]_vars => TInv'
  BY NextType
<1> QED
  BY <1>1, <1>2, PTL DEF Spec

----------------------------------------------------------------------------
(* Totals *)

LEMMA RoomsFinite == IsFiniteSet(Rooms)
<1>1. 1 \in Int /\ NumRooms \in Int
  BY Amounts
<1> QED
  BY <1>1, FS_Interval DEF Rooms

\* One recorder's list changes.
LEMMA OwedUpdate ==
    ASSUME NEW f, NEW adds, DOMAIN adds = Recorders, \A u \in Recorders : Amount(adds[u], f) \in Nat,
           NEW t \in Recorders, NEW l, Amount(l, f) \in Nat
    PROVE  /\ Owed([adds EXCEPT ![t] = l], f) + Amount(adds[t], f) = Owed(adds, f) + Amount(l, f)
           /\ Owed(adds, f) \in Nat /\ Owed([adds EXCEPT ![t] = l], f) \in Nat
<1> DEFINE new == [adds EXCEPT ![t] = l]
           g == [u \in Recorders |-> Amount(adds[u], f)]
           h == [u \in Recorders |-> Amount(new[u], f)]
<1>1. new[t] = l /\ \A u \in Recorders : u # t => new[u] = adds[u]
  OBVIOUS
<1>2. g \in [Recorders -> Nat] /\ h \in [Recorders -> Nat]
  BY <1>1
<1>3. \A u \in Recorders : u # t => g[u] = h[u]
  BY <1>1
<1>4. g[t] = Amount(adds[t], f) /\ h[t] = Amount(l, f)
  BY <1>1
<1>5. Owed(adds, f) = SumFunction(g) /\ Owed(new, f) = SumFunction(h)
  BY DEF Owed
<1> HIDE DEF g, h, new
<1>6. SumFunction(h) + g[t] = SumFunction(g) + h[t]
  BY <1>2, <1>3, RecordersAssumption, SumUpdate
<1>7. SumFunction(g) \in Nat /\ SumFunction(h) \in Nat
  BY <1>2, RecordersAssumption, SumType
<1>8. Owed(new, f) + Amount(adds[t], f) = Owed(adds, f) + Amount(l, f)
  BY <1>4, <1>5, <1>6
<1> QED
  BY <1>5, <1>7, <1>8 DEF new

\* One room's counters change.
LEMMA TotalUpdate ==
    ASSUME NEW f \in Field, NEW rooms, DOMAIN rooms \subseteq Rooms,
           \A x \in DOMAIN rooms : rooms[x] \in Cells,
           NEW r \in DOMAIN rooms, NEW cells \in Cells
    PROVE  /\ RoomTotal([rooms EXCEPT ![r] = cells], f) + rooms[r][f] = RoomTotal(rooms, f) + cells[f]
           /\ RoomTotal(rooms, f) \in Nat /\ RoomTotal([rooms EXCEPT ![r] = cells], f) \in Nat
<1> DEFINE new == [rooms EXCEPT ![r] = cells]
           D == DOMAIN rooms
           g == [x \in D |-> rooms[x][f]]
           h == [x \in D |-> new[x][f]]
<1>1. DOMAIN new = D /\ new[r] = cells /\ \A x \in D : x # r => new[x] = rooms[x]
  OBVIOUS
<1>2. g \in [D -> Nat] /\ h \in [D -> Nat]
  BY <1>1 DEF Cells
<1>3. (\A x \in D : x # r => g[x] = h[x]) /\ g[r] = rooms[r][f] /\ h[r] = cells[f]
  BY <1>1
<1>4. RoomTotal(rooms, f) = SumFunction(g) /\ RoomTotal(new, f) = SumFunction(h)
  BY <1>1 DEF RoomTotal
<1>5. IsFiniteSet(D)
  BY RoomsFinite, FS_Subset
<1> HIDE DEF g, h, new, D
<1>6. SumFunction(h) + g[r] = SumFunction(g) + h[r]
  BY <1>2, <1>3, <1>5, SumUpdate DEF D
<1>7. SumFunction(g) \in Nat /\ SumFunction(h) \in Nat
  BY <1>2, <1>5, SumType
<1>8. RoomTotal(new, f) + rooms[r][f] = RoomTotal(rooms, f) + cells[f]
  BY <1>3, <1>4, <1>6
<1> QED
  BY <1>4, <1>7, <1>8 DEF new

\* A room without traffic adds nothing.
LEMMA TotalExtend ==
    ASSUME TInv, NEW f \in Field, NEW r \in Rooms
    PROVE  RoomTotal(RoomCounters(r), f) = RoomTotal(perRoom, f)
<1> DEFINE new == RoomCounters(r)
           D == DOMAIN perRoom
           E == D \cup {r}
           g == [x \in D |-> perRoom[x][f]]
           h == [x \in E |-> new[x][f]]
<1>1. DOMAIN new = E /\ (\A x \in D : new[x] = perRoom[x]) /\ \A x \in E \ D : new[x] = Zero
  BY DEF RoomCounters
<1>2. D \subseteq Rooms /\ E \subseteq Rooms /\ \A x \in D : perRoom[x] \in Cells
  BY TypeParts
<1>3. g \in [D -> Nat] /\ h \in [E -> Nat]
  BY <1>1, <1>2, ZeroType DEF Cells
<1>4. (\A x \in D : g[x] = h[x]) /\ \A x \in E \ D : h[x] = 0
  BY <1>1, ZeroType
<1>5. RoomTotal(perRoom, f) = SumFunction(g) /\ RoomTotal(new, f) = SumFunction(h)
  BY <1>1 DEF RoomTotal
<1>6. IsFiniteSet(E) /\ D \subseteq E
  BY <1>2, RoomsFinite, FS_Subset
<1> HIDE DEF g, h, new, D, E
<1>7. SumFunction(g) = SumFunction(h)
  BY <1>3, <1>4, <1>6, SumExtend
<1> QED
  BY <1>5, <1>7 DEF new

LEMMA AmountTypes ==
    ASSUME TInv, NEW t \in Recorders, NEW f \in Field
    PROVE  /\ Amount(toRoom[t], f) \in Nat /\ Amount(toGlobals[t], f) \in Nat
           /\ Amount(toGlobals[t], f) <= Unit(f) /\ Amount(toRoom[t], f) <= Unit(f)
           /\ DOMAIN toRoom = Recorders /\ DOMAIN toGlobals = Recorders
<1>1. PICK kind \in Kinds : toRoom[t] \in Lists(kind) /\ toGlobals[t] \in Lists(kind)
  BY DEF TInv, RecordersOK
<1>2. DOMAIN toRoom = Recorders /\ DOMAIN toGlobals = Recorders
  BY DEF TInv, TypeOK, RecordersType
<1> QED
  BY <1>1, <1>2, ListFacts

LEMMA TotalsStep ==
    ASSUME TInv, TotalsAgree, [Next]_vars
    PROVE  TotalsAgree'
<1> SUFFICES ASSUME NEW f \in Field
             PROVE  globals'[f] + Owed(toGlobals', f)
                        = RoomTotal(perRoom', f) + Owed(toRoom', f) + direct'[f]
  BY DEF TotalsAgree, Owed, RoomTotal, Amount
<1>1. globals[f] + Owed(toGlobals, f) = RoomTotal(perRoom, f) + Owed(toRoom, f) + direct[f]
  BY DEF TotalsAgree
<1>2. globals[f] \in Nat /\ direct[f] \in Nat
  BY TypeParts DEF Cells
<1>3. \A u \in Recorders : /\ Amount(toRoom[u], f) \in Nat /\ Amount(toGlobals[u], f) \in Nat
                           /\ DOMAIN toRoom = Recorders /\ DOMAIN toGlobals = Recorders
  BY AmountTypes
<1>4. RoomTotal(perRoom, f) \in Nat
  <2> DEFINE D == DOMAIN perRoom
             g == [x \in D |-> perRoom[x][f]]
  <2>1. IsFiniteSet(D)
    BY TypeParts, RoomsFinite, FS_Subset
  <2>2. g \in [D -> Nat]
    BY TypeParts DEF Cells
  <2>3. SumFunction(g) \in Nat
    BY <2>1, <2>2, SumType
  <2> QED
    BY <2>3 DEF RoomTotal
<1>5. ASSUME NEW t \in Recorders, NEW r \in Rooms, NEW kind \in Kinds, RecordRoom(t, r, kind)
      PROVE  globals'[f] + Owed(toGlobals', f) = RoomTotal(perRoom', f) + Owed(toRoom', f) + direct'[f]
  <2>1. /\ perRoom' = RoomCounters(r) /\ globals' = globals /\ direct' = direct
        /\ toRoom' = [toRoom EXCEPT ![t] = Adds(kind)]
        /\ toGlobals' = [toGlobals EXCEPT ![t] = Adds(kind)]
        /\ toRoom[t] = << >> /\ toGlobals[t] = << >>
    BY <1>5 DEF RecordRoom, Begin, Idle
  <2>2. Amount(Adds(kind), f) \in Nat /\ Amount(<< >>, f) = 0
    BY ListFacts, AmountOfNone DEF Lists
  <2>3. /\ Owed(toRoom', f) + Amount(toRoom[t], f) = Owed(toRoom, f) + Amount(Adds(kind), f)
        /\ Owed(toRoom, f) \in Nat /\ Owed(toRoom', f) \in Nat
    BY <1>3, <2>1, <2>2, OwedUpdate
  <2>4. /\ Owed(toGlobals', f) + Amount(toGlobals[t], f) = Owed(toGlobals, f) + Amount(Adds(kind), f)
        /\ Owed(toGlobals, f) \in Nat /\ Owed(toGlobals', f) \in Nat
    BY <1>3, <2>1, <2>2, OwedUpdate
  <2>5. RoomTotal(perRoom', f) = RoomTotal(perRoom, f)
    BY <2>1, TotalExtend
  <2>6. /\ globals'[f] = globals[f] /\ direct'[f] = direct[f]
        /\ Amount(toRoom[t], f) = 0 /\ Amount(toGlobals[t], f) = 0
    BY <2>1, <2>2
  <2>7. Owed(toRoom', f) = Owed(toRoom, f) + Amount(Adds(kind), f)
    BY <2>2, <2>3, <2>6
  <2>8. Owed(toGlobals', f) = Owed(toGlobals, f) + Amount(Adds(kind), f)
    BY <2>2, <2>4, <2>6
  <2>9. /\ Owed(toRoom, f) \in Nat /\ Owed(toGlobals, f) \in Nat
        /\ Amount(Adds(kind), f) \in Nat
    BY <2>2, <2>3, <2>4
  <2>10. globals'[f] = globals[f] /\ direct'[f] = direct[f]
    BY <2>6
  <2> QED
    BY <1>1, <1>2, <1>4, <2>5, <2>7, <2>8, <2>9, <2>10
<1>6. ASSUME NEW t \in Recorders, AddRoom(t)
      PROVE  globals'[f] + Owed(toGlobals', f) = RoomTotal(perRoom', f) + Owed(toRoom', f) + direct'[f]
  <2> DEFINE add == Head(toRoom[t])
             r == holds[t]
  <2>1. /\ toRoom[t] # << >> /\ perRoom' = [perRoom EXCEPT ![r] = Bumped(perRoom[r], add)]
        /\ toRoom' = [toRoom EXCEPT ![t] = Tail(toRoom[t])]
        /\ globals' = globals /\ toGlobals' = toGlobals /\ direct' = direct
    BY <1>6 DEF AddRoom
  <2>2. PICK kind \in Kinds : toRoom[t] \in Lists(kind)
    BY DEF TInv, RecordersOK
  <2>3. /\ add \in AddRecords /\ Tail(toRoom[t]) \in Lists(kind)
        /\ Amount(toRoom[t], f) = Part(add, f) + Amount(Tail(toRoom[t]), f)
    BY <2>1, <2>2, ListFacts
  <2>4. Amount(Tail(toRoom[t]), f) \in Nat
    BY <2>3, ListFacts
  <2>5. r \in DOMAIN perRoom
    BY <2>1, TypeParts DEF TInv, RecordersOK
  <2>6. perRoom[r] \in Cells
    BY <2>5, TypeParts
  <2>7. /\ Bumped(perRoom[r], add) \in Cells
        /\ Bumped(perRoom[r], add)[f] = perRoom[r][f] + Part(add, f)
    BY <2>3, <2>6, BumpedType
  <2>8. perRoom[r][f] \in Nat /\ Part(add, f) \in Nat
    BY <2>3, <2>6 DEF Cells, Part, AddRecords
  <2> HIDE DEF add, r
  <2>9. /\ RoomTotal(perRoom', f) + perRoom[r][f] = RoomTotal(perRoom, f) + Bumped(perRoom[r], add)[f]
        /\ RoomTotal(perRoom', f) \in Nat
    <3>1. DOMAIN perRoom \subseteq Rooms /\ \A x \in DOMAIN perRoom : perRoom[x] \in Cells
      BY TypeParts
    <3> QED
      BY <2>1, <2>5, <2>7, <3>1, TotalUpdate
  <2>10. /\ Owed(toRoom', f) + Amount(toRoom[t], f) = Owed(toRoom, f) + Amount(Tail(toRoom[t]), f)
         /\ Owed(toRoom, f) \in Nat /\ Owed(toRoom', f) \in Nat
    <3> DEFINE l == Tail(toRoom[t])
    <3>1. /\ DOMAIN toRoom = Recorders /\ \A u \in Recorders : Amount(toRoom[u], f) \in Nat
          /\ Amount(l, f) \in Nat
      BY <1>3, <2>4
    <3>2. toRoom' = [toRoom EXCEPT ![t] = l]
      BY <2>1
    <3> HIDE DEF l
    <3>3. /\ Owed(toRoom', f) + Amount(toRoom[t], f) = Owed(toRoom, f) + Amount(l, f)
          /\ Owed(toRoom, f) \in Nat /\ Owed(toRoom', f) \in Nat
      BY <3>1, <3>2, OwedUpdate
    <3> QED
      BY <3>3 DEF l
  <2>11. globals'[f] = globals[f] /\ direct'[f] = direct[f] /\ Owed(toGlobals', f) = Owed(toGlobals, f)
    BY <2>1
  <2> QED
    BY <1>1, <1>2, <1>3, <1>4, <2>3, <2>4, <2>7, <2>8, <2>9, <2>10, <2>11
<1>7. ASSUME NEW t \in Recorders, NEW kind \in Kinds, RecordGlobal(t, kind)
      PROVE  globals'[f] + Owed(toGlobals', f) = RoomTotal(perRoom', f) + Owed(toRoom', f) + direct'[f]
  <2>1. /\ perRoom' = perRoom /\ globals' = globals /\ toRoom' = toRoom
        /\ direct' = [x \in Field |-> direct[x] + Amount(Adds(kind), x)]
        /\ toGlobals' = [toGlobals EXCEPT ![t] = Adds(kind)]
        /\ toGlobals[t] = << >>
    BY <1>7 DEF RecordGlobal, Begin, Idle
  <2>2. Amount(Adds(kind), f) \in Nat /\ Amount(<< >>, f) = 0
    BY ListFacts, AmountOfNone DEF Lists
  <2>3. /\ Owed(toGlobals', f) + Amount(toGlobals[t], f) = Owed(toGlobals, f) + Amount(Adds(kind), f)
        /\ Owed(toGlobals, f) \in Nat /\ Owed(toGlobals', f) \in Nat
    BY <1>3, <2>1, <2>2, OwedUpdate
  <2>4. /\ globals'[f] = globals[f] /\ direct'[f] = direct[f] + Amount(Adds(kind), f)
        /\ Amount(toGlobals[t], f) = 0
        /\ RoomTotal(perRoom', f) = RoomTotal(perRoom, f) /\ Owed(toRoom', f) = Owed(toRoom, f)
    BY <2>1, <2>2
  <2>5. Owed(toRoom, f) \in Nat
    BY <1>3, <2>2, OwedUpdate
  <2> QED
    BY <1>1, <1>2, <1>4, <2>2, <2>3, <2>4, <2>5, SMTT(30)
<1>8. ASSUME NEW t \in Recorders, AddGlobal(t)
      PROVE  globals'[f] + Owed(toGlobals', f) = RoomTotal(perRoom', f) + Owed(toRoom', f) + direct'[f]
  <2> DEFINE add == Head(toGlobals[t])
  <2>1. /\ toGlobals[t] # << >> /\ globals' = Bumped(globals, add)
        /\ toGlobals' = [toGlobals EXCEPT ![t] = Tail(toGlobals[t])]
        /\ perRoom' = perRoom /\ toRoom' = toRoom /\ direct' = direct
    BY <1>8 DEF AddGlobal
  <2>2. PICK kind \in Kinds : toGlobals[t] \in Lists(kind)
    BY DEF TInv, RecordersOK
  <2>3. /\ add \in AddRecords /\ Tail(toGlobals[t]) \in Lists(kind)
        /\ Amount(toGlobals[t], f) = Part(add, f) + Amount(Tail(toGlobals[t]), f)
    BY <2>1, <2>2, ListFacts
  <2>4. Amount(Tail(toGlobals[t]), f) \in Nat
    BY <2>3, ListFacts
  <2>5. globals'[f] = globals[f] + Part(add, f) /\ Part(add, f) \in Nat
    BY <2>1, <2>3, BumpedType, TypeParts DEF Part, AddRecords
  <2> HIDE DEF add
  <2>6. /\ Owed(toGlobals', f) + Amount(toGlobals[t], f) = Owed(toGlobals, f) + Amount(Tail(toGlobals[t]), f)
        /\ Owed(toGlobals, f) \in Nat /\ Owed(toGlobals', f) \in Nat
    <3> DEFINE l == Tail(toGlobals[t])
    <3>1. /\ DOMAIN toGlobals = Recorders /\ \A u \in Recorders : Amount(toGlobals[u], f) \in Nat
          /\ Amount(l, f) \in Nat
      BY <1>3, <2>4
    <3>2. toGlobals' = [toGlobals EXCEPT ![t] = l]
      BY <2>1
    <3> HIDE DEF l
    <3>3. /\ Owed(toGlobals', f) + Amount(toGlobals[t], f) = Owed(toGlobals, f) + Amount(l, f)
          /\ Owed(toGlobals, f) \in Nat /\ Owed(toGlobals', f) \in Nat
      BY <3>1, <3>2, OwedUpdate
    <3> QED
      BY <3>3 DEF l
  <2>7. /\ direct'[f] = direct[f]
        /\ RoomTotal(perRoom', f) = RoomTotal(perRoom, f) /\ Owed(toRoom', f) = Owed(toRoom, f)
    BY <2>1
  <2> QED
    BY <1>1, <1>2, <1>3, <1>4, <2>3, <2>4, <2>5, <2>6, <2>7
<1>9. CASE UNCHANGED <<perRoom, globals, toRoom, toGlobals, direct>>
  BY <1>1, <1>9
<1>10. Snapshot \/ AtRest \/ UNCHANGED vars => UNCHANGED <<perRoom, globals, toRoom, toGlobals, direct>>
  BY SnapshotLeaves DEF AtRest, vars
<1> QED
  BY <1>5, <1>6, <1>7, <1>8, <1>9, <1>10 DEF Next

LEMMA TotalsInvariant == Spec => []TotalsAgree
<1>1. Init => TotalsAgree
  <2> SUFFICES ASSUME Init, NEW f \in Field
               PROVE  globals[f] + Owed(toGlobals, f) = RoomTotal(perRoom, f) + Owed(toRoom, f) + direct[f]
    BY DEF TotalsAgree
  <2> DEFINE g == [t \in Recorders |-> 0]
  <2>1. SumFunction(g) = 0
    <3>1. g \in [Recorders -> Nat] /\ g \in [Recorders -> 0..0]
      OBVIOUS
    <3> HIDE DEF g
    <3>2. SumFunction(g) \in Nat /\ SumFunction(g) <= 0 * Cardinality(Recorders)
      BY <3>1, RecordersAssumption, SumType, SumBounded
    <3>3. Cardinality(Recorders) \in Nat
      BY RecordersAssumption, FS_CardinalityType
    <3> QED
      BY <3>2, <3>3
  <2>2. toRoom = [t \in Recorders |-> << >>] /\ toGlobals = toRoom
    BY DEF Init
  <2>3. [t \in Recorders |-> Amount(toRoom[t], f)] = g
    BY <2>2, AmountOfNone
  <2>4. Owed(toRoom, f) = 0 /\ Owed(toGlobals, f) = 0
    BY <2>1, <2>2, <2>3 DEF Owed
  <2>5. [r \in DOMAIN perRoom |-> perRoom[r][f]] = << >>
    BY DEF Init
  <2>6. RoomTotal(perRoom, f) = 0
    BY <2>5, SumOfNothing DEF RoomTotal
  <2>7. globals[f] = 0 /\ direct[f] = 0
    BY ZeroType DEF Init
  <2> QED
    BY <2>4, <2>6, <2>7
<1>2. TInv /\ TotalsAgree /\ [Next]_vars => TotalsAgree'
  BY TotalsStep
<1> QED
  BY <1>1, <1>2, TypeInvariant, PTL DEF Spec

----------------------------------------------------------------------------
(* What the counters of a room come to *)

\* The adds that the holder of room r has still to make, given who holds
\* what and what each has to add.
RemainingOf(h, lists, r) ==
    IF \E t \in Recorders : h[t] = r THEN lists[CHOOSE t \in Recorders : h[t] = r] ELSE << >>

Remaining(r) == RemainingOf(holds, toRoom, r)

\* What a field of room r is when the record under way there is through.
Target(r, f) == perRoom[r][f] + Amount(Remaining(r), f)

BalancedRooms ==
    \A r \in DOMAIN perRoom :
        /\ Target(r, "bytes_in") = Bytes * Target(r, "messages_in")
        /\ Target(r, "bytes_out") = Bytes * Target(r, "messages_out")

LEMMA RemainingHeld ==
    ASSUME NEW h, NEW lists, NEW r, NEW t \in Recorders, h[t] = r,
           \A u \in Recorders : h[u] = r => u = t
    PROVE  RemainingOf(h, lists, r) = lists[t]
<1>1. (CHOOSE u \in Recorders : h[u] = r) = t
  OBVIOUS
<1> QED
  BY <1>1 DEF RemainingOf

LEMMA RemainingFree ==
    ASSUME NEW h, NEW lists, NEW r, \A u \in Recorders : h[u] # r
    PROVE  RemainingOf(h, lists, r) = << >>
  BY DEF RemainingOf

\* Who holds a room and what they add there decide what remains.
LEMMA RemainingSame ==
    ASSUME NEW h, NEW lists, NEW k, NEW newLists, NEW r,
           \A u \in Recorders : (h[u] = r <=> k[u] = r) /\ (h[u] = r => lists[u] = newLists[u]),
           \A u, v \in Recorders : h[u] = r /\ h[v] = r => u = v
    PROVE  RemainingOf(h, lists, r) = RemainingOf(k, newLists, r)
<1>1. CASE \E t \in Recorders : h[t] = r
  <2>1. PICK t \in Recorders : h[t] = r
    BY <1>1
  <2>2. RemainingOf(h, lists, r) = lists[t]
    BY <2>1, RemainingHeld
  <2>3. RemainingOf(k, newLists, r) = newLists[t]
    BY <2>1, RemainingHeld
  <2> QED
    BY <2>1, <2>2, <2>3
<1>2. CASE \A t \in Recorders : h[t] # r
  BY <1>2, RemainingFree
<1> QED
  BY <1>1, <1>2

\* What remains is at most one record.
LEMMA RemainingType ==
    ASSUME TInv, NEW r \in DOMAIN perRoom, NEW f \in Field
    PROVE  /\ Amount(Remaining(r), f) \in Nat /\ Amount(Remaining(r), f) <= Unit(f)
           /\ Target(r, f) \in Nat /\ perRoom[r][f] \in Nat
<1>1. Amount(Remaining(r), f) \in Nat /\ Amount(Remaining(r), f) <= Unit(f)
  <2>1. CASE \E t \in Recorders : holds[t] = r
    <3>1. PICK t \in Recorders : Remaining(r) = toRoom[t]
      BY <2>1 DEF Remaining, RemainingOf
    <3> QED
      BY <3>1, AmountTypes
  <2>2. CASE ~\E t \in Recorders : holds[t] = r
    <3>1. Remaining(r) = << >>
      BY <2>2 DEF Remaining, RemainingOf
    <3> QED
      BY <3>1, AmountOfNone, UnitType
  <2> QED
    BY <2>1, <2>2
<1>2. perRoom[r][f] \in Nat
  BY TypeParts DEF Cells
<1> QED
  BY <1>1, <1>2 DEF Target

\* What the counters of a room come to changes only when a record begins
\* there, and then nobody has a Ref to it.
LEMMA TargetStep ==
    ASSUME TInv, TInv', [Next]_vars, NEW r \in DOMAIN perRoom'
    PROVE  \/ r \in DOMAIN perRoom /\ \A f \in Field : Target(r, f)' = Target(r, f)
           \/ /\ ~ReadLocked(r)
              /\ \E kind \in Kinds : \A f \in Field :
                    Target(r, f)' = (IF r \in DOMAIN perRoom THEN Target(r, f) ELSE 0)
                                        + Amount(Adds(kind), f)
<1> DEFINE Same == r \in DOMAIN perRoom /\ \A f \in Field : Target(r, f)' = Target(r, f)
<1>1. r # NoRoom /\ r \in Rooms
  <2>1. DOMAIN perRoom' \subseteq Rooms
    BY DEF TInv, TypeOK, CountersType
  <2> QED
    BY <2>1 DEF Rooms, NoRoom
<1>2. /\ DOMAIN holds = Recorders /\ DOMAIN toRoom = Recorders
      /\ \A u, v \in Recorders : holds[u] = r /\ holds[v] = r => u = v
  BY <1>1 DEF TInv, TypeOK, RecordersType, Exclusive
<1>3. ASSUME NEW t \in Recorders, NEW s \in Rooms, NEW kind \in Kinds, RecordRoom(t, s, kind)
      PROVE  \/ Same
             \/ /\ ~ReadLocked(r)
                /\ \A f \in Field : Target(r, f)' = (IF r \in DOMAIN perRoom THEN Target(r, f) ELSE 0)
                                                    + Amount(Adds(kind), f)
  <2>1. /\ ~ReadLocked(s) /\ perRoom' = RoomCounters(s) /\ holds' = [holds EXCEPT ![t] = s]
        /\ toRoom' = [toRoom EXCEPT ![t] = Adds(kind)] /\ toRoom[t] = << >>
    BY <1>3 DEF RecordRoom, Begin, Idle
  <2>2. holds[t] = NoRoom
    BY <2>1 DEF TInv, RecordersOK
  <2>3. \A u \in Recorders : u # t => holds'[u] = holds[u] /\ toRoom'[u] = toRoom[u]
    BY <1>2, <2>1
  <2>4. holds'[t] = s /\ toRoom'[t] = Adds(kind)
    BY <1>2, <2>1
  <2>5. CASE r # s
    <3>1. r \in DOMAIN perRoom /\ perRoom'[r] = perRoom[r]
      BY <2>1, <2>5 DEF RoomCounters
    <3>2. RemainingOf(holds, toRoom, r) = RemainingOf(holds', toRoom', r)
      BY <1>1, <1>2, <2>2, <2>3, <2>4, <2>5, RemainingSame
    <3> QED
      BY <3>1, <3>2 DEF Target, Remaining
  <2>6. CASE r = s
    <3>1. \A u \in Recorders : holds[u] # r
      BY <2>1, <2>6 DEF ReadLocked
    <3>2. RemainingOf(holds, toRoom, r) = << >>
      BY <3>1, RemainingFree
    <3>3. \A u \in Recorders : holds'[u] = r => u = t
      BY <2>3, <3>1
    <3>4. RemainingOf(holds', toRoom', r) = Adds(kind)
      BY <2>4, <2>6, <3>3, RemainingHeld
    <3>5. perRoom'[r] = IF r \in DOMAIN perRoom THEN perRoom[r] ELSE Zero
      BY <2>1, <2>6 DEF RoomCounters
    <3>6. ASSUME NEW f \in Field
          PROVE  Target(r, f)' = (IF r \in DOMAIN perRoom THEN Target(r, f) ELSE 0) + Amount(Adds(kind), f)
      <4>1. Target(r, f)' = perRoom'[r][f] + Amount(Adds(kind), f)
        BY <3>4 DEF Target, Remaining
      <4>2. CASE r \in DOMAIN perRoom
        <5>1. Target(r, f) = perRoom[r][f] + 0 /\ perRoom[r][f] \in Nat
          BY <3>2, <4>2, AmountOfNone, RemainingType DEF Target, Remaining
        <5> QED
          BY <3>5, <4>1, <4>2, <5>1
      <4>3. CASE r \notin DOMAIN perRoom
        BY <3>5, <4>1, <4>3, ZeroType
      <4> QED
        BY <4>2, <4>3
    <3> QED
      BY <2>1, <2>6, <3>6
  <2> QED
    BY <2>5, <2>6
<1>4. ASSUME NEW t \in Recorders, AddRoom(t) PROVE Same
  <2> DEFINE add == Head(toRoom[t])
             s == holds[t]
  <2>1. /\ toRoom[t] # << >> /\ perRoom' = [perRoom EXCEPT ![s] = Bumped(perRoom[s], add)]
        /\ toRoom' = [toRoom EXCEPT ![t] = Tail(toRoom[t])]
        /\ holds' = [holds EXCEPT ![t] = IF Len(toRoom[t]) = 1 THEN NoRoom ELSE s]
    BY <1>4 DEF AddRoom
  <2>2. PICK kind \in Kinds : toRoom[t] \in Lists(kind)
    BY DEF TInv, RecordersOK
  <2>3. /\ add \in AddRecords /\ Tail(toRoom[t]) \in Lists(kind)
        /\ Len(toRoom[t]) = 1 <=> Tail(toRoom[t]) = << >>
        /\ \A f \in Field : Amount(toRoom[t], f) = Part(add, f) + Amount(Tail(toRoom[t]), f)
    BY <2>1, <2>2, ListFacts
  <2>4. \A f \in Field : Amount(Tail(toRoom[t]), f) \in Nat /\ Part(add, f) \in Nat
    BY <2>3, ListFacts DEF Part, AddRecords
  <2>5. s \in DOMAIN perRoom /\ s # NoRoom
    BY <2>1, TypeParts DEF TInv, RecordersOK
  <2>6. perRoom[s] \in Cells /\ \A f \in Field : Bumped(perRoom[s], add)[f] = perRoom[s][f] + Part(add, f)
    BY <2>3, <2>5, TypeParts, BumpedType
  <2> HIDE DEF add, s
  <2>7. \A u \in Recorders : u # t => holds'[u] = holds[u] /\ toRoom'[u] = toRoom[u]
    BY <1>2, <2>1
  <2>8. /\ holds'[t] = (IF Len(toRoom[t]) = 1 THEN NoRoom ELSE s) /\ holds[t] = s
        /\ toRoom'[t] = Tail(toRoom[t])
    BY <1>2, <2>1 DEF s
  <2>9. r \in DOMAIN perRoom
    BY <2>1
  <2>10. CASE r # s
    <3>1. perRoom'[r] = perRoom[r]
      BY <2>1, <2>9, <2>10
    <3>2. RemainingOf(holds, toRoom, r) = RemainingOf(holds', toRoom', r)
      BY <1>1, <1>2, <2>7, <2>8, <2>10, RemainingSame
    <3> QED
      BY <2>9, <3>1, <3>2 DEF Target, Remaining
  <2>11. CASE r = s
    <3>1. perRoom'[r] = Bumped(perRoom[s], add)
      BY <2>1, <2>9, <2>11
    <3>2. RemainingOf(holds, toRoom, r) = toRoom[t]
      BY <1>2, <2>8, <2>11, RemainingHeld
    <3>3. RemainingOf(holds', toRoom', r) = Tail(toRoom[t])
      <4>1. CASE Len(toRoom[t]) = 1
        <5>1. \A u \in Recorders : holds'[u] # r
          BY <1>1, <1>2, <2>7, <2>8, <2>11, <4>1
        <5> QED
          BY <2>3, <4>1, <5>1, RemainingFree
      <4>2. CASE Len(toRoom[t]) # 1
        <5>1. holds'[t] = r /\ \A u \in Recorders : holds'[u] = r => u = t
          BY <1>2, <2>7, <2>8, <2>11, <4>2
        <5>2. RemainingOf(holds', toRoom', r) = toRoom'[t]
          BY <5>1, RemainingHeld
        <5> QED
          BY <2>8, <5>2
      <4> QED
        BY <4>1, <4>2
    <3>4. ASSUME NEW f \in Field PROVE Target(r, f)' = Target(r, f)
      <4>1. Target(r, f)' = perRoom'[r][f] + Amount(Tail(toRoom[t]), f)
        BY <3>3 DEF Target, Remaining
      <4>2. Target(r, f) = perRoom[s][f] + Amount(toRoom[t], f)
        BY <2>11, <3>2 DEF Target, Remaining
      <4>3. perRoom'[r][f] = perRoom[s][f] + Part(add, f) /\ perRoom[s][f] \in Nat
        BY <2>6, <3>1 DEF Cells
      <4> QED
        BY <2>3, <2>4, <4>1, <4>2, <4>3
    <3> QED
      BY <2>9, <3>4
  <2> QED
    BY <2>10, <2>11
<1>5. CASE UNCHANGED <<perRoom, holds, toRoom>>
  BY <1>5 DEF Target, Remaining
<1>6. ASSUME NEW t \in Recorders, NEW kind \in Kinds, RecordGlobal(t, kind)
      PROVE  UNCHANGED <<perRoom, holds, toRoom>>
  BY <1>6 DEF RecordGlobal
<1>7. ASSUME NEW t \in Recorders, AddGlobal(t) PROVE UNCHANGED <<perRoom, holds, toRoom>>
  BY <1>7 DEF AddGlobal
<1>8. Snapshot \/ AtRest \/ UNCHANGED vars => UNCHANGED <<perRoom, holds, toRoom>>
  BY SnapshotLeaves DEF AtRest, vars
<1> QED
  BY <1>3, <1>4, <1>5, <1>6, <1>7, <1>8 DEF Next

LEMMA BalancedStep ==
    ASSUME TInv, TInv', BalancedRooms, [Next]_vars
    PROVE  BalancedRooms'
<1> SUFFICES ASSUME NEW r \in DOMAIN perRoom'
             PROVE  /\ Target(r, "bytes_in")' = Bytes * Target(r, "messages_in")'
                    /\ Target(r, "bytes_out")' = Bytes * Target(r, "messages_out")'
  BY DEF BalancedRooms
<1>1. {"bytes_in", "messages_in", "bytes_out", "messages_out"} \subseteq Field
  BY FieldNames
<1>2. CASE r \in DOMAIN perRoom /\ \A f \in Field : Target(r, f)' = Target(r, f)
  BY <1>1, <1>2 DEF BalancedRooms
<1>3. ASSUME NEW kind \in Kinds,
             \A f \in Field : Target(r, f)' = (IF r \in DOMAIN perRoom THEN Target(r, f) ELSE 0)
                                                + Amount(Adds(kind), f)
      PROVE  /\ Target(r, "bytes_in")' = Bytes * Target(r, "messages_in")'
             /\ Target(r, "bytes_out")' = Bytes * Target(r, "messages_out")'
  <2> DEFINE Old(f) == IF r \in DOMAIN perRoom THEN Target(r, f) ELSE 0
             New(f) == Amount(Adds(kind), f)
  <2>1. Old("bytes_in") = Bytes * Old("messages_in") /\ Old("bytes_out") = Bytes * Old("messages_out")
    BY Amounts DEF BalancedRooms
  <2>2. New("bytes_in") = Bytes * New("messages_in") /\ New("bytes_out") = Bytes * New("messages_out")
    BY RecordBalanced
  <2>3. \A f \in Field : Old(f) \in Nat /\ New(f) \in Nat
    BY RemainingType, ListFacts DEF Lists
  <2>4. \A f \in Field : Target(r, f)' = Old(f) + New(f)
    BY <1>3
  <2> HIDE DEF Old, New
  <2>5. \A a, b \in Nat : Bytes * (a + b) = Bytes * a + Bytes * b
    BY Amounts
  <2> QED
    BY <1>1, <2>1, <2>2, <2>3, <2>4, <2>5
<1> QED
  BY <1>2, <1>3, TargetStep

LEMMA BalancedInvariant == Spec => []BalancedRooms
<1>1. Init => BalancedRooms
  BY DEF Init, BalancedRooms
<1>2. TInv /\ TInv' /\ BalancedRooms /\ [Next]_vars => BalancedRooms'
  BY BalancedStep
<1> QED
  BY <1>1, <1>2, TypeInvariant, PTL DEF Spec

----------------------------------------------------------------------------
(* Snapshots *)

\* The snapshot being taken has loaded field f of room r, or passed r.
Taken(r, f) ==
    \/ r < shard
    \/ r = shard /\ roomLoads # << >> /\ f \notin ToSet(roomLoads)

\* Snapshots are never ahead of the counters.
NotAhead ==
    /\ \A f \in Field : shown.globals[f] <= globals[f] /\ view.globals[f] <= globals[f]
    /\ \A r \in DOMAIN shown.perRoom, f \in Field : shown.perRoom[r][f] <= perRoom[r][f]
    /\ \A r \in DOMAIN view.perRoom, f \in Field : view.perRoom[r][f] <= perRoom[r][f]

\* What the snapshot being taken has loaded is not behind the last one.
NotBehind ==
    /\ \A f \in Field : shard # 0 /\ f \notin ToSet(loads) => shown.globals[f] <= view.globals[f]
    /\ \A r \in DOMAIN shown.perRoom, f \in Field :
        Taken(r, f) => r \in DOMAIN view.perRoom /\ shown.perRoom[r][f] <= view.perRoom[r][f]

\* Counters only grow.
LEMMA CountersGrow ==
    ASSUME TInv, [Next]_vars
    PROVE  /\ \A f \in Field : globals[f] <= globals'[f]
           /\ DOMAIN perRoom \subseteq DOMAIN perRoom'
           /\ \A r \in DOMAIN perRoom, f \in Field : perRoom[r][f] <= perRoom'[r][f]
<1>1. \A f \in Field : globals[f] \in Nat
  BY TypeParts DEF Cells
<1>2. \A r \in DOMAIN perRoom, f \in Field : perRoom[r][f] \in Nat
  BY TypeParts DEF Cells
<1>3. ASSUME NEW t \in Recorders, NEW s \in Rooms, NEW kind \in Kinds, RecordRoom(t, s, kind)
      PROVE  /\ \A f \in Field : globals[f] <= globals'[f]
             /\ DOMAIN perRoom \subseteq DOMAIN perRoom'
             /\ \A r \in DOMAIN perRoom, f \in Field : perRoom[r][f] <= perRoom'[r][f]
  BY <1>1, <1>2, <1>3 DEF RecordRoom, RoomCounters
<1>4. ASSUME NEW t \in Recorders, AddRoom(t)
      PROVE  /\ \A f \in Field : globals[f] <= globals'[f]
             /\ DOMAIN perRoom \subseteq DOMAIN perRoom'
             /\ \A r \in DOMAIN perRoom, f \in Field : perRoom[r][f] <= perRoom'[r][f]
  <2> DEFINE add == Head(toRoom[t])
             s == holds[t]
  <2>1. /\ toRoom[t] # << >> /\ perRoom' = [perRoom EXCEPT ![s] = Bumped(perRoom[s], add)]
        /\ globals' = globals
    BY <1>4 DEF AddRoom
  <2>2. PICK kind \in Kinds : toRoom[t] \in Lists(kind)
    BY DEF TInv, RecordersOK
  <2>3. add \in AddRecords
    BY <2>1, <2>2, ListFacts
  <2>4. s \in DOMAIN perRoom
    BY <2>1, TypeParts DEF TInv, RecordersOK
  <2>5. \A f \in Field : Bumped(perRoom[s], add)[f] = perRoom[s][f] + Part(add, f) /\ Part(add, f) \in Nat
    BY <2>3, <2>4, TypeParts, BumpedType, SMTT(30) DEF Part, AddRecords
  <2> HIDE DEF add, s
  <2> QED
    BY <1>1, <1>2, <2>1, <2>4, <2>5
<1>5. ASSUME NEW t \in Recorders, AddGlobal(t)
      PROVE  /\ \A f \in Field : globals[f] <= globals'[f]
             /\ DOMAIN perRoom \subseteq DOMAIN perRoom'
             /\ \A r \in DOMAIN perRoom, f \in Field : perRoom[r][f] <= perRoom'[r][f]
  <2> DEFINE add == Head(toGlobals[t])
  <2>1. toGlobals[t] # << >> /\ globals' = Bumped(globals, add) /\ perRoom' = perRoom
    BY <1>5 DEF AddGlobal
  <2>2. PICK kind \in Kinds : toGlobals[t] \in Lists(kind)
    BY DEF TInv, RecordersOK
  <2>3. add \in AddRecords
    BY <2>1, <2>2, ListFacts
  <2>4. \A f \in Field : Bumped(globals, add)[f] = globals[f] + Part(add, f) /\ Part(add, f) \in Nat
    BY <2>3, TypeParts, BumpedType DEF Part, AddRecords
  <2> HIDE DEF add
  <2> QED
    BY <1>1, <1>2, <2>1, <2>4
<1>6. CASE UNCHANGED <<perRoom, globals>>
  BY <1>1, <1>2, <1>6
<1>7. ASSUME NEW t \in Recorders, NEW kind \in Kinds, RecordGlobal(t, kind)
      PROVE  UNCHANGED <<perRoom, globals>>
  BY <1>7 DEF RecordGlobal
<1>8. Snapshot \/ AtRest \/ UNCHANGED vars => UNCHANGED <<perRoom, globals>>
  BY SnapshotLeaves DEF AtRest, vars
<1> QED
  BY <1>3, <1>4, <1>5, <1>6, <1>7, <1>8 DEF Next

\* The recorders' steps leave the snapshot alone.
LEMMA RecordersLeave ==
    ASSUME [Next]_vars, ~Snapshot
    PROVE  UNCHANGED snapshotVars
<1>1. CASE \E t \in Recorders, r \in Rooms, kind \in Kinds : RecordRoom(t, r, kind)
  BY <1>1 DEF RecordRoom
<1>2. CASE \E t \in Recorders, kind \in Kinds : RecordGlobal(t, kind)
  BY <1>2 DEF RecordGlobal
<1>3. CASE \E t \in Recorders : AddRoom(t) \/ AddGlobal(t)
  BY <1>3 DEF AddRoom, AddGlobal
<1>4. CASE UNCHANGED vars
  BY <1>4 DEF vars, snapshotVars
<1> QED
  BY <1>1, <1>2, <1>3, <1>4 DEF Next, AtRest

\* The steps of a snapshot, by what they do to its view.
LEMMA LoadRoomFacts ==
    ASSUME TInv, LoadRoom, NEW f \in Field, f = Head(roomLoads)
    PROVE  /\ shard \in DOMAIN perRoom /\ shard \in Rooms /\ roomLoads # << >> /\ loads = Fields
           /\ roomLoads' = Tail(roomLoads)
           /\ shard' = IF Tail(roomLoads) = << >> THEN shard + 1 ELSE shard
           /\ \A x \in Field : x \notin ToSet(Tail(roomLoads)) /\ x # f => x \notin ToSet(roomLoads)
           /\ UNCHANGED <<loads, shown, snapshots>>
           /\ view'.globals = view.globals
           /\ DOMAIN view'.perRoom = DOMAIN view.perRoom \cup {shard}
           /\ \A r \in DOMAIN view.perRoom : r # shard => view'.perRoom[r] = view.perRoom[r]
           /\ view'.perRoom[shard] \in Cells
           /\ view'.perRoom[shard][f] = perRoom[shard][f]
           /\ \A x \in Field : x # f =>
                view'.perRoom[shard][x] = IF shard \in DOMAIN view.perRoom THEN view.perRoom[shard][x] ELSE 0
<1>1. /\ roomLoads # << >> /\ view' = [view EXCEPT !.perRoom = Loaded(f)]
      /\ roomLoads' = Tail(roomLoads)
      /\ shard' = (IF Len(roomLoads) = 1 THEN shard + 1 ELSE shard)
      /\ UNCHANGED <<loads, shown, snapshots>>
  BY DEF LoadRoom
<1>2. shard \in DOMAIN perRoom /\ shard \in Rooms /\ loads = Fields /\ roomLoads \in Seq(Field)
  BY <1>1, TypeParts DEF TInv, LoadsOK
<1>3. /\ Len(roomLoads) = 1 <=> Tail(roomLoads) = << >>
      /\ \A x \in ToSet(roomLoads) : x = f \/ x \in ToSet(Tail(roomLoads))
  BY <1>1, <1>2, LoadFacts
<1>4. view'.perRoom = Loaded(f) /\ view'.globals = view.globals
  BY <1>1 DEF TInv, ViewShape
<1> DEFINE old == IF shard \in DOMAIN view.perRoom THEN view.perRoom[shard] ELSE Zero
<1>5. old \in Cells /\ perRoom[shard][f] \in Nat
  BY <1>2, TypeParts, ZeroType DEF Cells
<1>6. /\ DOMAIN Loaded(f) = DOMAIN view.perRoom \cup {shard}
      /\ \A r \in DOMAIN view.perRoom : r # shard => Loaded(f)[r] = view.perRoom[r]
      /\ Loaded(f)[shard] = [old EXCEPT ![f] = perRoom[shard][f]]
  BY DEF Loaded
<1>7. \A x \in Field : old[x] = IF shard \in DOMAIN view.perRoom THEN view.perRoom[shard][x] ELSE 0
  BY ZeroType
<1> HIDE DEF old
<1>8. /\ Loaded(f)[shard] \in Cells /\ Loaded(f)[shard][f] = perRoom[shard][f]
      /\ \A x \in Field : x # f => Loaded(f)[shard][x] = old[x]
  BY <1>5, <1>6 DEF Cells
<1> QED
  BY <1>1, <1>2, <1>3, <1>4, <1>6, <1>7, <1>8

LEMMA LoadGlobalFacts ==
    ASSUME TInv, LoadGlobal, NEW f \in Field, f = Head(loads)
    PROVE  /\ shard > NumRooms /\ loads' = Tail(loads) /\ loads # << >>
           /\ \A x \in Field : x \notin ToSet(Tail(loads)) /\ x # f => x \notin ToSet(loads)
           /\ UNCHANGED <<shard, roomLoads, shown, snapshots>>
           /\ view'.perRoom = view.perRoom
           /\ view'.globals[f] = globals[f]
           /\ \A x \in Field : x # f => view'.globals[x] = view.globals[x]
<1>1. /\ shard > NumRooms /\ loads # << >> /\ loads' = Tail(loads)
      /\ view' = [view EXCEPT !.globals[f] = globals[f]]
      /\ UNCHANGED <<shard, roomLoads, shown, snapshots>>
  BY DEF LoadGlobal
<1>2. \A x \in ToSet(loads) : x = f \/ x \in ToSet(Tail(loads))
  BY <1>1, TypeParts, LoadFacts
<1>3. view' = [perRoom |-> view.perRoom, globals |-> [view.globals EXCEPT ![f] = globals[f]]]
  BY <1>1 DEF TInv, ViewShape
<1>4. view.globals \in Cells
  BY TypeParts
<1>5. /\ view'.perRoom = view.perRoom /\ view'.globals[f] = globals[f]
      /\ \A x \in Field : x # f => view'.globals[x] = view.globals[x]
  BY <1>3, <1>4 DEF Cells
<1> QED
  BY <1>1, <1>2, <1>5

\* The other steps of a snapshot.
LEMMA OtherSnapshotFacts ==
    ASSUME TInv
    PROVE  /\ SnapshotBegin => /\ shard = 0 /\ shard' = 1 /\ loads' = Fields /\ view' = NoStats
                               /\ roomLoads = << >> /\ roomLoads' = << >> /\ shown' = shown
           /\ EnterShard => /\ shard \in Rooms /\ roomLoads = << >> /\ loads = Fields
                            /\ UNCHANGED <<loads, view, shown>>
                            /\ \/ shard \in DOMAIN perRoom /\ roomLoads' = Fields /\ shard' = shard
                               \/ shard \notin DOMAIN perRoom /\ roomLoads' = << >> /\ shard' = shard + 1
           /\ SnapshotReturns => /\ shard > NumRooms /\ loads = << >> /\ roomLoads' = roomLoads
                                 /\ shown' = view /\ view' = NoStats /\ shard' = 0
                                 /\ roomLoads = << >> /\ loads' = loads
<1>1. ASSUME SnapshotBegin
      PROVE  /\ shard = 0 /\ shard' = 1 /\ loads' = Fields /\ view' = NoStats
             /\ roomLoads = << >> /\ roomLoads' = << >> /\ shown' = shown
  BY <1>1, TypeParts DEF SnapshotBegin, TInv, LoadsOK, NoRoom
<1>2. ASSUME EnterShard
      PROVE  /\ shard \in Rooms /\ roomLoads = << >> /\ loads = Fields
             /\ UNCHANGED <<loads, view, shown>>
             /\ \/ shard \in DOMAIN perRoom /\ roomLoads' = Fields /\ shard' = shard
                \/ shard \notin DOMAIN perRoom /\ roomLoads' = << >> /\ shard' = shard + 1
  BY <1>2 DEF EnterShard, TInv, LoadsOK
<1>3. ASSUME SnapshotReturns
      PROVE  /\ shard > NumRooms /\ loads = << >> /\ roomLoads' = roomLoads
             /\ shown' = view /\ view' = NoStats /\ shard' = 0
             /\ roomLoads = << >> /\ loads' = loads
  <2>1. shard > NumRooms
    BY <1>3 DEF SnapshotReturns
  <2>2. shard \notin Rooms
    BY <2>1, Amounts DEF TInv, TypeOK, SnapshotType, Rooms
  <2>3. roomLoads = << >>
    BY <2>2, TypeParts DEF TInv, LoadsOK
  <2> QED
    BY <1>3, <2>3 DEF SnapshotReturns
<1> QED
  BY <1>1, <1>2, <1>3

LEMMA LoadHeads ==
    ASSUME TInv
    PROVE  /\ LoadRoom => Head(roomLoads) \in Field
           /\ LoadGlobal => Head(loads) \in Field
  BY TypeParts, LoadFacts DEF LoadRoom, LoadGlobal

LEMMA NotAheadStep ==
    ASSUME TInv, NotAhead, [Next]_vars
    PROVE  NotAhead'
<1>1. /\ \A f \in Field : globals[f] \in Nat
      /\ \A f \in Field : view.globals[f] \in Nat /\ shown.globals[f] \in Nat
      /\ \A r \in DOMAIN perRoom, f \in Field : perRoom[r][f] \in Nat
      /\ \A r \in DOMAIN view.perRoom, f \in Field : r \in DOMAIN perRoom /\ view.perRoom[r][f] \in Nat
      /\ \A r \in DOMAIN shown.perRoom, f \in Field : r \in DOMAIN perRoom /\ shown.perRoom[r][f] \in Nat
  BY TypeParts DEF Cells
<1>2. CASE Snapshot
  <2>1. UNCHANGED <<perRoom, globals>>
    BY <1>2, SnapshotLeaves
  <2>2. /\ NoStats.globals = Zero /\ DOMAIN NoStats.perRoom = {}
    BY DEF NoStats
  <2>3. ASSUME SnapshotBegin PROVE NotAhead'
    BY <1>1, <2>1, <2>2, <2>3, OtherSnapshotFacts, ZeroType DEF NotAhead
  <2>4. ASSUME EnterShard PROVE NotAhead'
    BY <2>1, <2>4, OtherSnapshotFacts DEF NotAhead
  <2>5. ASSUME LoadRoom PROVE NotAhead'
    <3> DEFINE f == Head(roomLoads)
    <3>1. f \in Field
      BY <2>5, LoadHeads
    <3>2. /\ shard \in DOMAIN perRoom /\ shown' = shown /\ view'.globals = view.globals
          /\ DOMAIN view'.perRoom = DOMAIN view.perRoom \cup {shard}
          /\ \A r \in DOMAIN view.perRoom : r # shard => view'.perRoom[r] = view.perRoom[r]
          /\ view'.perRoom[shard][f] = perRoom[shard][f]
          /\ \A x \in Field : x # f =>
                view'.perRoom[shard][x] = IF shard \in DOMAIN view.perRoom THEN view.perRoom[shard][x] ELSE 0
      BY <2>5, <3>1, LoadRoomFacts
    <3> HIDE DEF f
    <3>3. \A r \in DOMAIN view'.perRoom, x \in Field : view'.perRoom[r][x] <= perRoom[r][x]
      <4> SUFFICES ASSUME NEW r \in DOMAIN view'.perRoom, NEW x \in Field
                   PROVE  view'.perRoom[r][x] <= perRoom[r][x]
        OBVIOUS
      <4>1. CASE r # shard
        BY <3>2, <4>1 DEF NotAhead
      <4>2. CASE r = shard /\ x = f
        BY <1>1, <3>2, <4>2
      <4>3. CASE r = shard /\ x # f
        BY <1>1, <3>2, <4>3 DEF NotAhead
      <4> QED
        BY <4>1, <4>2, <4>3
    <3> QED
      BY <2>1, <3>2, <3>3 DEF NotAhead
  <2>6. ASSUME LoadGlobal PROVE NotAhead'
    <3> DEFINE f == Head(loads)
    <3>1. f \in Field
      BY <2>6, LoadHeads
    <3>2. /\ shown' = shown /\ view'.perRoom = view.perRoom
          /\ view'.globals[f] = globals[f]
          /\ \A x \in Field : x # f => view'.globals[x] = view.globals[x]
      BY <2>6, <3>1, LoadGlobalFacts
    <3> HIDE DEF f
    <3> QED
      BY <1>1, <2>1, <3>2 DEF NotAhead
  <2>7. ASSUME SnapshotReturns PROVE NotAhead'
    BY <1>1, <2>1, <2>2, <2>7, OtherSnapshotFacts, ZeroType DEF NotAhead
  <2> QED
    BY <1>2, <2>3, <2>4, <2>5, <2>6, <2>7 DEF Snapshot
<1>3. CASE ~Snapshot
  <2>1. view' = view /\ shown' = shown
    BY <1>3, RecordersLeave DEF snapshotVars
  <2>2. /\ \A f \in Field : globals[f] <= globals'[f]
        /\ \A r \in DOMAIN perRoom, f \in Field : perRoom[r][f] <= perRoom'[r][f]
    BY CountersGrow
  <2>3. TInv'
    BY NextType
  <2>4. /\ \A f \in Field : globals'[f] \in Nat
        /\ \A r \in DOMAIN perRoom', f \in Field : perRoom'[r][f] \in Nat
        /\ DOMAIN perRoom \subseteq DOMAIN perRoom'
    BY <2>3, CountersGrow DEF TInv, TypeOK, CountersType, Cells
  <2>5. \A f \in Field : shown.globals[f] <= globals'[f] /\ view.globals[f] <= globals'[f]
    BY <1>1, <2>2, <2>4 DEF NotAhead
  <2>6. \A r \in DOMAIN shown.perRoom, f \in Field : shown.perRoom[r][f] <= perRoom'[r][f]
    BY <1>1, <2>2, <2>4 DEF NotAhead
  <2>7. \A r \in DOMAIN view.perRoom, f \in Field : view.perRoom[r][f] <= perRoom'[r][f]
    BY <1>1, <2>2, <2>4 DEF NotAhead
  <2> QED
    BY <2>1, <2>5, <2>6, <2>7 DEF NotAhead
<1> QED
  BY <1>2, <1>3

LEMMA NotBehindStep ==
    ASSUME TInv, NotAhead, NotBehind, [Next]_vars
    PROVE  NotBehind'
<1>1. shard \in Nat /\ NumRooms \in Nat /\ \A r \in DOMAIN perRoom : r \in 1..NumRooms
  BY TypeParts, Amounts DEF TInv, TypeOK, SnapshotType, Rooms
<1>2. DOMAIN shown.perRoom \subseteq DOMAIN perRoom
  BY TypeParts
<1>3. ASSUME SnapshotBegin PROVE NotBehind'
  <2>1. /\ shard' = 1 /\ loads' = Fields /\ roomLoads' = << >> /\ shown' = shown
    BY <1>3, OtherSnapshotFacts
  <2>2. \A r \in DOMAIN shown.perRoom : ~(r < shard') /\ roomLoads' = << >>
    BY <1>1, <1>2, <2>1
  <2>3. \A f \in Field : f \in ToSet(loads')
    BY <2>1, FieldsType
  <2> QED
    BY <2>1, <2>2, <2>3 DEF NotBehind, Taken
<1>4. ASSUME EnterShard PROVE NotBehind'
  <2>1. /\ shard \in Rooms /\ roomLoads = << >> /\ loads' = loads /\ view' = view /\ shown' = shown
        /\ \/ shard \in DOMAIN perRoom /\ roomLoads' = Fields /\ shard' = shard
           \/ shard \notin DOMAIN perRoom /\ roomLoads' = << >> /\ shard' = shard + 1
    BY <1>4, OtherSnapshotFacts
  <2>2. ASSUME NEW r \in DOMAIN shown.perRoom, NEW f \in Field,
               r < shard' \/ (r = shard' /\ roomLoads' # << >> /\ f \notin ToSet(roomLoads'))
        PROVE  r < shard
    BY <1>1, <1>2, <2>1, <2>2, FieldsType
  <2>3. \A r \in DOMAIN shown.perRoom, f \in Field :
            r < shard => r \in DOMAIN view.perRoom /\ shown.perRoom[r][f] <= view.perRoom[r][f]
    BY DEF NotBehind, Taken
  <2>4. \A f \in Field : shard' # 0 /\ f \notin ToSet(loads) => shown.globals[f] <= view.globals[f]
    BY <1>1, <2>1, OtherSnapshotFacts, FieldsType, <1>4
  <2> QED
    BY <2>1, <2>2, <2>3, <2>4 DEF NotBehind, Taken
<1>5. ASSUME LoadRoom PROVE NotBehind'
  <2> DEFINE f == Head(roomLoads)
  <2>1. f \in Field
    BY <1>5, LoadHeads
  <2>2. /\ shard \in DOMAIN perRoom /\ shown' = shown /\ loads = Fields /\ loads' = loads
        /\ roomLoads # << >> /\ roomLoads' = Tail(roomLoads)
        /\ shard' = IF Tail(roomLoads) = << >> THEN shard + 1 ELSE shard
        /\ \A x \in Field : x \notin ToSet(Tail(roomLoads)) /\ x # f => x \notin ToSet(roomLoads)
        /\ DOMAIN view'.perRoom = DOMAIN view.perRoom \cup {shard}
        /\ \A r \in DOMAIN view.perRoom : r # shard => view'.perRoom[r] = view.perRoom[r]
        /\ view'.perRoom[shard][f] = perRoom[shard][f]
        /\ \A x \in Field : x # f =>
              view'.perRoom[shard][x] = IF shard \in DOMAIN view.perRoom THEN view.perRoom[shard][x] ELSE 0
    BY <1>5, <2>1, LoadRoomFacts
  <2> HIDE DEF f
  <2>3. \A x \in Field : x \in ToSet(loads')
    BY <2>2, FieldsType
  <2>4. ASSUME NEW r \in DOMAIN shown.perRoom, NEW x \in Field,
               r < shard' \/ (r = shard' /\ roomLoads' # << >> /\ x \notin ToSet(roomLoads'))
        PROVE  r \in DOMAIN view'.perRoom /\ shown.perRoom[r][x] <= view'.perRoom[r][x]
    <3>1. CASE r < shard
      <4>1. r \in DOMAIN view.perRoom /\ shown.perRoom[r][x] <= view.perRoom[r][x] /\ r # shard
        BY <1>1, <3>1 DEF NotBehind, Taken
      <4> QED
        BY <2>2, <4>1
    <3>2. CASE ~(r < shard)
      <4>1. r = shard
        BY <1>1, <1>2, <2>2, <2>4, <3>2
      <4>2. x \notin ToSet(Tail(roomLoads))
        <5>1. ToSet(<< >>) = {}
          BY DEF ToSet
        <5>2. CASE Tail(roomLoads) = << >>
          BY <5>1, <5>2
        <5>3. CASE Tail(roomLoads) # << >>
          <6>1. shard' = shard /\ ~(r < shard')
            BY <1>1, <2>2, <4>1, <5>3
          <6> QED
            BY <2>2, <2>4, <6>1
        <5> QED
          BY <5>2, <5>3
      <4>3. CASE x = f
        BY <2>2, <4>1, <4>3 DEF NotAhead
      <4>4. CASE x # f
        <5>1. Taken(r, x)
          BY <2>2, <4>1, <4>2, <4>4 DEF Taken
        <5> QED
          BY <2>2, <4>1, <4>4, <5>1 DEF NotBehind
      <4> QED
        BY <4>3, <4>4
    <3> QED
      BY <3>1, <3>2
  <2> QED
    BY <2>2, <2>3, <2>4 DEF NotBehind, Taken
<1>6. ASSUME LoadGlobal PROVE NotBehind'
  <2> DEFINE f == Head(loads)
  <2>1. f \in Field
    BY <1>6, LoadHeads
  <2>2. /\ loads' = Tail(loads) /\ shard' = shard /\ roomLoads' = roomLoads
        /\ shown' = shown /\ view'.perRoom = view.perRoom
        /\ \A x \in Field : x \notin ToSet(Tail(loads)) /\ x # f => x \notin ToSet(loads)
        /\ view'.globals[f] = globals[f]
        /\ \A x \in Field : x # f => view'.globals[x] = view.globals[x]
    BY <1>6, <2>1, LoadGlobalFacts
  <2> HIDE DEF f
  <2>3. \A x \in Field : shard # 0 /\ x \notin ToSet(Tail(loads)) => shown.globals[x] <= view'.globals[x]
    BY <2>2 DEF NotAhead, NotBehind
  <2> QED
    BY <2>2, <2>3 DEF NotBehind, Taken
<1>7. ASSUME SnapshotReturns PROVE NotBehind'
  <2>1. shard' = 0 /\ shown' = view
    BY <1>7, OtherSnapshotFacts
  <2>2. \A r \in DOMAIN view.perRoom : ~(r < 0) /\ r # 0
    BY <1>1, TypeParts
  <2> QED
    BY <2>1, <2>2 DEF NotBehind, Taken
<1>8. CASE ~Snapshot
  <2>1. shard' = shard /\ loads' = loads /\ roomLoads' = roomLoads /\ view' = view /\ shown' = shown
    BY <1>8, RecordersLeave DEF snapshotVars
  <2> QED
    BY <2>1 DEF NotBehind, Taken
<1> QED
  BY <1>3, <1>4, <1>5, <1>6, <1>7, <1>8 DEF Snapshot

LEMMA FollowInvariant == Spec => [](NotAhead /\ NotBehind)
<1>1. Init => NotAhead /\ NotBehind
  <2> SUFFICES ASSUME Init PROVE NotAhead /\ NotBehind
    OBVIOUS
  <2>1. view = NoStats /\ shown = NoStats /\ shard = 0 /\ globals = Zero
    BY DEF Init
  <2> QED
    BY <2>1, ZeroType DEF NotAhead, NotBehind, NoStats
<1>2. TInv /\ NotAhead /\ NotBehind /\ [Next]_vars => (NotAhead /\ NotBehind)'
  BY NotAheadStep, NotBehindStep
<1> QED
  BY <1>1, <1>2, TypeInvariant, PTL DEF Spec

----------------------------------------------------------------------------
(* Torn rooms *)

\* What is loaded of a room in the view is one record at most short of what
\* the room comes to while its shard is locked.
Near(r, f) ==
    /\ r \in DOMAIN view.perRoom
    /\ view.perRoom[r][f] <= Target(r, f)
    /\ Target(r, f) <= view.perRoom[r][f] + Unit(f)

LockedNear ==
    roomLoads # << >> => \A f \in Field : f \notin ToSet(roomLoads) => Near(shard, f)

\* The rooms that the snapshot is through with are torn by a record at most.
ThroughTorn ==
    \A r \in DOMAIN view.perRoom :
        roomLoads = << >> \/ r # shard => TornByOneRecord(view.perRoom[r])

TornInv == LockedNear /\ ThroughTorn /\ RoomsTornByOneRecord

\* Two counters near balanced values.
LEMMA NearBalanced ==
    ASSUME NEW m \in Nat, NEW b \in Nat, NEW M \in Nat, NEW B \in Nat, NEW u \in Nat,
           B = Bytes * M, m <= M, M <= m + u, b <= B, B <= b + Bytes * u
    PROVE  b <= Bytes * (m + u) /\ Bytes * m <= b + Bytes * u
<1>1. Bytes \in Nat
  BY Amounts
<1>2. \A x, y \in Nat : x <= y => Bytes * x <= Bytes * y
  <2> SUFFICES ASSUME NEW x \in Nat, NEW y \in Nat, x <= y PROVE Bytes * x <= Bytes * y
    OBVIOUS
  <2>1. PICK d \in Nat : y = x + d
    <3>1. y - x \in Nat /\ y = x + (y - x)
      OBVIOUS
    <3> QED
      BY <3>1
  <2>2. Bytes * (x + d) = Bytes * x + Bytes * d /\ Bytes * d \in Nat /\ Bytes * x \in Nat
    BY <1>1
  <2> QED
    BY <2>1, <2>2
<1>3. Bytes * m <= Bytes * M /\ Bytes * M <= Bytes * (m + u)
  BY <1>2
<1>4. Bytes * m \in Nat /\ Bytes * u \in Nat /\ Bytes * (m + u) \in Nat
  BY <1>1
<1> QED
  BY <1>3, <1>4

LEMMA NearTorn ==
    ASSUME TInv, BalancedRooms, NEW r \in DOMAIN perRoom, NEW s \in Cells,
           \A f \in Field : s[f] <= Target(r, f) /\ Target(r, f) <= s[f] + Unit(f)
    PROVE  TornByOneRecord(s)
<1>1. {"bytes_in", "messages_in", "bytes_out", "messages_out"} \subseteq Field
  BY FieldNames
<1>2. \A f \in Field : s[f] \in Nat /\ Target(r, f) \in Nat
  BY RemainingType DEF Cells
<1>3. /\ Unit("messages_in") = 1 /\ Unit("bytes_in") = Bytes * 1
      /\ Unit("messages_out") = Fanout /\ Unit("bytes_out") = Bytes * Fanout
  BY Amounts DEF Unit
<1>4. /\ Target(r, "bytes_in") = Bytes * Target(r, "messages_in")
      /\ Target(r, "bytes_out") = Bytes * Target(r, "messages_out")
  BY DEF BalancedRooms
<1>5. /\ s["bytes_in"] <= Bytes * (s["messages_in"] + 1)
      /\ Bytes * s["messages_in"] <= s["bytes_in"] + Bytes * 1
  BY <1>1, <1>2, <1>3, <1>4, NearBalanced
<1>6. /\ s["bytes_out"] <= Bytes * (s["messages_out"] + Fanout)
      /\ Bytes * s["messages_out"] <= s["bytes_out"] + Bytes * Fanout
  BY <1>1, <1>2, <1>3, <1>4, Amounts, NearBalanced
<1>7. Bytes * 1 = Bytes
  BY Amounts
<1> QED
  BY <1>5, <1>6, <1>7 DEF TornByOneRecord

LEMMA TornStep ==
    ASSUME TInv, BalancedRooms, TornInv, [Next]_vars
    PROVE  TornInv'
<1>1. TInv'
  BY NextType
<1>2. shard \in Nat
  BY DEF TInv, TypeOK, SnapshotType
<1>3. ASSUME SnapshotBegin PROVE TornInv'
  <2>1. roomLoads' = << >> /\ view' = NoStats /\ shown' = shown
    BY <1>3, OtherSnapshotFacts
  <2> QED
    BY <2>1 DEF TornInv, LockedNear, ThroughTorn, RoomsTornByOneRecord, NoStats
<1>4. ASSUME EnterShard PROVE TornInv'
  <2>1. /\ view' = view /\ shown' = shown /\ roomLoads = << >>
        /\ roomLoads' = << >> \/ roomLoads' = Fields
    BY <1>4, OtherSnapshotFacts
  <2>2. LockedNear'
    BY <2>1, FieldsType DEF LockedNear
  <2> QED
    BY <2>1, <2>2 DEF TornInv, ThroughTorn, RoomsTornByOneRecord
<1>5. ASSUME LoadRoom PROVE TornInv'
  <2> DEFINE f == Head(roomLoads)
  <2>1. f \in Field
    BY <1>5, LoadHeads
  <2>2. /\ shard \in DOMAIN perRoom /\ shown' = shown
        /\ roomLoads # << >> /\ roomLoads' = Tail(roomLoads)
        /\ shard' = IF Tail(roomLoads) = << >> THEN shard + 1 ELSE shard
        /\ \A x \in Field : x \notin ToSet(Tail(roomLoads)) /\ x # f => x \notin ToSet(roomLoads)
        /\ DOMAIN view'.perRoom = DOMAIN view.perRoom \cup {shard}
        /\ \A r \in DOMAIN view.perRoom : r # shard => view'.perRoom[r] = view.perRoom[r]
        /\ view'.perRoom[shard] \in Cells
        /\ view'.perRoom[shard][f] = perRoom[shard][f]
        /\ \A x \in Field : x # f =>
              view'.perRoom[shard][x] = IF shard \in DOMAIN view.perRoom THEN view.perRoom[shard][x] ELSE 0
    BY <1>5, <2>1, LoadRoomFacts
  <2> HIDE DEF f
  <2>3. \A x \in Field : Target(shard, x) = perRoom[shard][x] + Amount(Remaining(shard), x)
                         /\ Amount(Remaining(shard), x) \in Nat /\ Amount(Remaining(shard), x) <= Unit(x)
                         /\ perRoom[shard][x] \in Nat /\ Unit(x) \in Nat
    BY <2>2, RemainingType, UnitType DEF Target
  <2>4. ASSUME NEW x \in Field, x \notin ToSet(Tail(roomLoads))
        PROVE  /\ view'.perRoom[shard][x] <= Target(shard, x)
               /\ Target(shard, x) <= view'.perRoom[shard][x] + Unit(x)
    <3>1. CASE x = f
      BY <2>2, <2>3, <3>1
    <3>2. CASE x # f
      <4>1. Near(shard, x)
        BY <2>2, <2>4, <3>2 DEF TornInv, LockedNear
      <4> QED
        BY <2>2, <3>2, <4>1 DEF Near
    <3> QED
      BY <3>1, <3>2
  <2>5. UNCHANGED <<perRoom, holds, toRoom>>
    BY <1>5, SnapshotLeaves DEF Snapshot
  <2>6. CASE Tail(roomLoads) = << >>
    <3>1. ToSet(<< >>) = {}
      BY DEF ToSet
    <3>2. TornByOneRecord(view'.perRoom[shard])
      BY <2>2, <2>4, <2>6, <3>1, NearTorn
    <3>3. ThroughTorn'
      BY <2>2, <2>6, <3>2 DEF TornInv, ThroughTorn
    <3>4. LockedNear'
      BY <2>2, <2>6 DEF LockedNear
    <3> QED
      BY <2>2, <3>3, <3>4 DEF TornInv, RoomsTornByOneRecord
  <2>7. CASE Tail(roomLoads) # << >>
    <3>1. shard' = shard
      BY <2>2, <2>7
    <3>2. \A x \in Field : Target(shard, x)' = Target(shard, x)
      BY <2>5, <3>1 DEF Target, Remaining
    <3>3. LockedNear'
      <4> SUFFICES ASSUME NEW x \in Field, x \notin ToSet(roomLoads')
                   PROVE  /\ shard' \in DOMAIN view'.perRoom
                          /\ view'.perRoom[shard'][x] <= Target(shard, x)'
                          /\ Target(shard, x)' <= view'.perRoom[shard'][x] + Unit(x)
        BY DEF LockedNear, Near
      <4> QED
        BY <2>2, <2>4, <3>1, <3>2
    <3>4. ThroughTorn'
      BY <2>2, <2>7, <3>1 DEF TornInv, ThroughTorn
    <3> QED
      BY <2>2, <3>3, <3>4 DEF TornInv, RoomsTornByOneRecord
  <2> QED
    BY <2>6, <2>7
<1>6. ASSUME LoadGlobal PROVE TornInv'
  <2>1. Head(loads) \in Field
    BY <1>6, LoadHeads
  <2>2. shard' = shard /\ roomLoads' = roomLoads /\ shown' = shown /\ view'.perRoom = view.perRoom
    BY <1>6, <2>1, LoadGlobalFacts
  <2>3. UNCHANGED <<perRoom, holds, toRoom>>
    BY <1>6, SnapshotLeaves DEF Snapshot
  <2>4. LockedNear'
    BY <2>2, <2>3 DEF TornInv, LockedNear, Near, Target, Remaining
  <2> QED
    BY <2>2, <2>4 DEF TornInv, ThroughTorn, RoomsTornByOneRecord
<1>7. ASSUME SnapshotReturns PROVE TornInv'
  <2>1. roomLoads = << >> /\ roomLoads' = roomLoads /\ shown' = view /\ view' = NoStats
    BY <1>7, OtherSnapshotFacts
  <2> QED
    BY <2>1 DEF TornInv, LockedNear, ThroughTorn, RoomsTornByOneRecord, NoStats
<1>8. CASE ~Snapshot
  <2>1. shard' = shard /\ roomLoads' = roomLoads /\ view' = view /\ shown' = shown
    BY <1>8, RecordersLeave DEF snapshotVars
  <2>2. LockedNear'
    <3> SUFFICES ASSUME roomLoads # << >>, NEW f \in Field, f \notin ToSet(roomLoads)
                 PROVE  /\ shard \in DOMAIN view.perRoom
                        /\ view.perRoom[shard][f] <= Target(shard, f)'
                        /\ Target(shard, f)' <= view.perRoom[shard][f] + Unit(f)
      BY <2>1 DEF LockedNear, Near
    <3>1. Near(shard, f)
      BY DEF TornInv, LockedNear
    <3>2. shard \in DOMAIN perRoom' /\ ReadLocked(shard)
      BY <1>1, <2>1 DEF TInv, LoadsOK, ReadLocked
    <3>3. Target(shard, f)' = Target(shard, f)
      BY <1>1, <2>1, <3>2, TargetStep
    <3> QED
      BY <3>1, <3>3 DEF Near
  <2> QED
    BY <2>1, <2>2 DEF TornInv, ThroughTorn, RoomsTornByOneRecord
<1> QED
  BY <1>3, <1>4, <1>5, <1>6, <1>7, <1>8 DEF Snapshot

LEMMA TornInvariant == Spec => []TornInv
<1>1. Init => TornInv
  BY DEF Init, TornInv, LockedNear, ThroughTorn, RoomsTornByOneRecord, NoStats
<1>2. TInv /\ BalancedRooms /\ TornInv /\ [Next]_vars => TornInv'
  BY TornStep
<1> QED
  BY <1>1, <1>2, TypeInvariant, BalancedInvariant, PTL DEF Spec

----------------------------------------------------------------------------
(* Globals against rooms *)

\* The rooms of s show at most a record of each recorder more than its globals.
Lacks(s, f) == RoomTotal(s.perRoom, f) <= s.globals[f] + Unit(f) * Cardinality(Recorders)

LackInv ==
    /\ \A f \in Field : Lacks(shown, f)
    /\ \A f \in Field : shard # 0 /\ f \notin ToSet(loads) => Lacks(view, f)

\* What the recorders owe the globals is at most a record of each.
LEMMA OwedBounded ==
    ASSUME TInv, NEW f \in Field
    PROVE  /\ Owed(toGlobals, f) <= Unit(f) * Cardinality(Recorders)
           /\ Owed(toGlobals, f) \in Nat /\ Owed(toRoom, f) \in Nat
<1> DEFINE g == [t \in Recorders |-> Amount(toGlobals[t], f)]
           h == [t \in Recorders |-> Amount(toRoom[t], f)]
<1>1. Unit(f) \in Nat
  BY UnitType
<1>2. \A t \in Recorders : Amount(toGlobals[t], f) \in 0..Unit(f)
  BY <1>1, AmountTypes
<1>3. g \in [Recorders -> 0..Unit(f)] /\ g \in [Recorders -> Nat]
  BY <1>1, <1>2
<1>4. h \in [Recorders -> Nat]
  BY AmountTypes
<1>5. Owed(toGlobals, f) = SumFunction(g) /\ Owed(toRoom, f) = SumFunction(h)
  BY DEF Owed
<1> HIDE DEF g, h
<1>6. SumFunction(g) <= Unit(f) * Cardinality(Recorders)
  BY <1>1, <1>3, RecordersAssumption, SumBounded
<1>7. SumFunction(g) \in Nat /\ SumFunction(h) \in Nat
  BY <1>3, <1>4, RecordersAssumption, SumType
<1> QED
  BY <1>5, <1>6, <1>7

\* The view's rooms show no more than the rooms have.
LEMMA ViewTotal ==
    ASSUME TInv, NotAhead, NEW f \in Field
    PROVE  /\ RoomTotal(view.perRoom, f) <= RoomTotal(perRoom, f)
           /\ RoomTotal(view.perRoom, f) \in Nat /\ RoomTotal(perRoom, f) \in Nat
<1> DEFINE D == DOMAIN view.perRoom
           E == DOMAIN perRoom
           g == [r \in D |-> view.perRoom[r][f]]
           h == [r \in E |-> perRoom[r][f]]
<1>1. D \subseteq E /\ E \subseteq Rooms
  BY TypeParts
<1>2. IsFiniteSet(E) /\ IsFiniteSet(D)
  BY <1>1, RoomsFinite, FS_Subset
<1>3. g \in [D -> Nat] /\ h \in [E -> Nat]
  BY TypeParts DEF Cells
<1>4. \A r \in D : g[r] <= h[r]
  BY <1>1 DEF NotAhead
<1>5. RoomTotal(view.perRoom, f) = SumFunction(g) /\ RoomTotal(perRoom, f) = SumFunction(h)
  BY DEF RoomTotal
<1> HIDE DEF D, E, g, h
<1>6. SumFunction(g) <= SumFunction(h)
  BY <1>1, <1>2, <1>3, <1>4, SumMonotone
<1>7. SumFunction(g) \in Nat /\ SumFunction(h) \in Nat
  BY <1>2, <1>3, SumType
<1> QED
  BY <1>5, <1>6, <1>7

\* A global loaded now lacks at most a record of each recorder.
LEMMA GlobalLoaded ==
    ASSUME TInv, NotAhead, TotalsAgree, NEW f \in Field
    PROVE  RoomTotal(view.perRoom, f) <= globals[f] + Unit(f) * Cardinality(Recorders)
<1>1. globals[f] + Owed(toGlobals, f) = RoomTotal(perRoom, f) + Owed(toRoom, f) + direct[f]
  BY DEF TotalsAgree
<1>2. globals[f] \in Nat /\ direct[f] \in Nat /\ Unit(f) \in Nat /\ Cardinality(Recorders) \in Nat
  BY TypeParts, UnitType, RecordersAssumption, FS_CardinalityType DEF Cells
<1>3. Unit(f) * Cardinality(Recorders) \in Nat
  BY <1>2
<1> QED
  BY <1>1, <1>2, <1>3, OwedBounded, ViewTotal

LEMMA LackStep ==
    ASSUME TInv, NotAhead, TotalsAgree, LackInv, [Next]_vars
    PROVE  LackInv'
<1>1. ASSUME SnapshotBegin PROVE LackInv'
  <2>1. loads' = Fields /\ shown' = shown
    BY <1>1, OtherSnapshotFacts
  <2> QED
    BY <2>1, FieldsType DEF LackInv, Lacks
<1>2. ASSUME EnterShard PROVE LackInv'
  <2>1. loads' = Fields /\ shown' = shown
    BY <1>2, OtherSnapshotFacts
  <2> QED
    BY <2>1, FieldsType DEF LackInv, Lacks
<1>3. ASSUME LoadRoom PROVE LackInv'
  <2>1. Head(roomLoads) \in Field
    BY <1>3, LoadHeads
  <2>2. loads' = Fields /\ shown' = shown
    BY <1>3, <2>1, LoadRoomFacts
  <2> QED
    BY <2>2, FieldsType DEF LackInv, Lacks
<1>4. ASSUME LoadGlobal PROVE LackInv'
  <2> DEFINE f == Head(loads)
  <2>1. f \in Field
    BY <1>4, LoadHeads
  <2>2. /\ loads' = Tail(loads) /\ shard' = shard /\ shown' = shown /\ view'.perRoom = view.perRoom
        /\ \A x \in Field : x \notin ToSet(Tail(loads)) /\ x # f => x \notin ToSet(loads)
        /\ view'.globals[f] = globals[f]
        /\ \A x \in Field : x # f => view'.globals[x] = view.globals[x]
    BY <1>4, <2>1, LoadGlobalFacts
  <2> HIDE DEF f
  <2>3. ASSUME NEW x \in Field, shard # 0, x \notin ToSet(Tail(loads))
        PROVE  RoomTotal(view.perRoom, x) <= view'.globals[x] + Unit(x) * Cardinality(Recorders)
    <3>1. CASE x = f
      BY <2>2, <3>1, GlobalLoaded
    <3>2. CASE x # f
      BY <2>2, <2>3, <3>2 DEF LackInv, Lacks
    <3> QED
      BY <3>1, <3>2
  <2> QED
    BY <2>2, <2>3 DEF LackInv, Lacks
<1>5. ASSUME SnapshotReturns PROVE LackInv'
  <2>1. loads = << >> /\ shown' = view /\ shard' = 0 /\ shard > NumRooms
    BY <1>5, OtherSnapshotFacts
  <2>2. ToSet(<< >>) = {} /\ shard # 0
    BY <2>1, Amounts DEF ToSet
  <2> QED
    BY <2>1, <2>2 DEF LackInv, Lacks
<1>6. CASE ~Snapshot
  <2>1. shard' = shard /\ loads' = loads /\ view' = view /\ shown' = shown
    BY <1>6, RecordersLeave DEF snapshotVars
  <2> QED
    BY <2>1 DEF LackInv, Lacks
<1> QED
  BY <1>1, <1>2, <1>3, <1>4, <1>5, <1>6 DEF Snapshot

LEMMA LackInvariant == Spec => []LackInv
<1>1. Init => LackInv
  <2> SUFFICES ASSUME Init PROVE LackInv
    OBVIOUS
  <2>1. shown.perRoom = << >> /\ shown.globals = Zero /\ shard = 0
    BY DEF Init, NoStats
  <2>2. ASSUME NEW f \in Field PROVE Lacks(shown, f)
    <3>1. [r \in DOMAIN << >> |-> << >>[r][f]] = << >>
      OBVIOUS
    <3>2. RoomTotal(shown.perRoom, f) = 0
      BY <2>1, <3>1, SumOfNothing DEF RoomTotal
    <3>3. Unit(f) \in Nat /\ Cardinality(Recorders) \in Nat
      BY UnitType, RecordersAssumption, FS_CardinalityType
    <3>4. Unit(f) * Cardinality(Recorders) \in Nat
      BY <3>3
    <3> QED
      BY <2>1, <3>2, <3>4, ZeroType DEF Lacks
  <2> QED
    BY <2>1, <2>2 DEF LackInv
<1>2. TInv /\ NotAhead /\ TotalsAgree /\ LackInv /\ [Next]_vars => LackInv'
  BY LackStep
<1> QED
  BY <1>1, <1>2, TypeInvariant, FollowInvariant, TotalsInvariant, PTL DEF Spec

----------------------------------------------------------------------------
(* Theorems *)

\* Every variable keeps its type; a Ref is only ever held to a room that has
\* counters, and a snapshot only shows rooms that have (stats.rs).
THEOREM StatsTypeCorrect == Spec => []TypeOK
  BY TypeInvariant, PTL DEF TInv

\* No traffic is lost or counted twice: the globals are the rooms' traffic
\* and what was recorded without a room, but for the adds under way
\* (stats.rs record_room_message_in and its siblings).
THEOREM NoTrafficLost == Spec => []TotalsAgree
  BY TotalsInvariant, PTL

\* The counters of a room in a snapshot are torn by one record at most
\* (stats.rs snapshot, room_counters).
THEOREM RoomsHardlyTorn == Spec => []RoomsTornByOneRecord
  BY TornInvariant, PTL DEF TornInv

\* A snapshot's globals lack at most one record of each recorder among those
\* its rooms show (stats.rs snapshot loads the globals last).
THEOREM GlobalsHardlyBehind == Spec => []GlobalsLackOneRecordEach
<1>1. LackInv => GlobalsLackOneRecordEach
  <2> SUFFICES ASSUME LackInv PROVE GlobalsLackOneRecordEach
    OBVIOUS
  <2>1. {"messages_in", "drops", "messages_out"} \subseteq Field
    BY FieldNames
  <2>2. /\ Unit("messages_in") * Cardinality(Recorders) = Cardinality(Recorders)
        /\ Unit("drops") * Cardinality(Recorders) = Cardinality(Recorders)
        /\ Unit("messages_out") = Fanout
    BY RecordersAssumption, FS_CardinalityType DEF Unit
  <2>3. \A f \in Field : Lacks(shown, f)
    BY DEF LackInv
  <2> QED
    BY <2>1, <2>2, <2>3 DEF GlobalsLackOneRecordEach, Lacks
<1> QED
  BY <1>1, LackInvariant, PTL

\* No counter of a later snapshot is below that of an earlier one, and no
\* room disappears (stats.rs Stats, snapshot).
THEOREM SnapshotsFollow == Spec => SnapshotsNeverGoBack
<1> DEFINE Follows ==
        /\ \A f \in Field : shown.globals[f] <= shown'.globals[f]
        /\ \A r \in DOMAIN shown.perRoom :
             /\ r \in DOMAIN shown'.perRoom
             /\ \A f \in Field : shown.perRoom[r][f] <= shown'.perRoom[r][f]
<1>1. TInv /\ NotBehind /\ [Next]_vars => [Follows]_vars
  <2> SUFFICES ASSUME TInv, NotBehind, [Next]_vars PROVE Follows
    OBVIOUS
  <2>1. CASE shown' = shown
    BY <2>1, TypeParts DEF Cells
  <2>2. CASE SnapshotReturns
    <3>1. shard > NumRooms /\ loads = << >> /\ shown' = view
      BY <2>2, OtherSnapshotFacts
    <3>2. ToSet(<< >>) = {} /\ shard # 0
      BY <3>1, Amounts DEF ToSet
    <3>3. \A r \in DOMAIN shown.perRoom : r < shard
      BY <3>1, TypeParts, Amounts DEF TInv, TypeOK, SnapshotType, Rooms
    <3>4. \A f \in Field : shown.globals[f] <= view.globals[f]
      BY <3>1, <3>2 DEF NotBehind
    <3>5. ASSUME NEW r \in DOMAIN shown.perRoom, NEW f \in Field
          PROVE  r \in DOMAIN view.perRoom /\ shown.perRoom[r][f] <= view.perRoom[r][f]
      <4>1. Taken(r, f)
        BY <3>3 DEF Taken
      <4> QED
        BY <4>1 DEF NotBehind
    <3>6. "drops" \in Field
      BY FieldNames
    <3>7. \A r \in DOMAIN shown.perRoom : r \in DOMAIN view.perRoom
      BY <3>5, <3>6
    <3> QED
      BY <3>1, <3>4, <3>5, <3>7
  <2>3. shown' = shown \/ SnapshotReturns
    BY RecordersLeave DEF snapshotVars, Snapshot, SnapshotBegin, EnterShard, LoadRoom, LoadGlobal
  <2> QED
    BY <2>1, <2>2, <2>3
<1> QED
  BY <1>1, TypeInvariant, FollowInvariant, PTL DEF Spec, SnapshotsNeverGoBack

=============================================================================
