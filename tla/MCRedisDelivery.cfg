SPECIFICATION Spec
CONSTANTS
    a = a
    b = b
    t1 = t1
    t2 = t2
    c1 = c1
    c2 = c2
    Nodes <- TwoNodes
    Tasks <- TwoTasks
    Clients <- TwoClients
    TaskNode <- Together
    ClientNode <- ClientsApart
    RoomIds <- OneRoom
    Prefix <- SamePrefix
    FirstId <- DistinctIds
    MaxMsgs = 2
    MaxGens = 2
    MaxFaults = 1
INVARIANTS
    TypeOK
    AtMostOnce
    NoPhantomRooms
    PerTaskOrder
PROPERTIES
    DeliverySpec
SYMMETRY SymTasks
