SPECIFICATION Spec
CONSTANTS
    t1 = t1
    t2 = t2
    Recorders <- TwoRecorders
    NumRooms = 2
    Traffic <- EachKind
    Bytes = 3
    Fanout = 2
    MaxRecords = 3
    MaxSnapshots = 2
INVARIANTS
    TypeOK
    TotalsAgree
    RoomsTornByOneRecord
    GlobalsLackOneRecordEach
PROPERTIES
    SnapshotsNeverGoBack
SYMMETRY SymRecorders
