SPECIFICATION HFairSpec
CONSTANTS
    t1 = t1
    t2 = t2
    Tasks <- TwoTasks
    Creators <- TwoTasks
    Removers <- TwoTasks
    Listeners = {t1}
    NumIds = 2
    MaxRooms = 3
    MaxCalls = 2
INVARIANTS
    TypeOK
    NoOrphanMembers
PROPERTIES
    KeysNeverRebound
    GaugeAccounting
    SteadyRoomsKept
    VacantRoomsSwept
    EveryCallReturns
