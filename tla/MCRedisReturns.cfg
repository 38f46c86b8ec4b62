SPECIFICATION FairSpec
CONSTANTS
    a = a
    b = b
    t1 = t1
    t2 = t2
    c1 = c1
    c2 = c2
    Nodes <- TwoNodes
    Tasks <- OneTask
    Clients <- RemoteClient
    TaskNode <- OnlyA
    ClientNode <- OnlyB
    RoomIds <- TwoRooms
    Prefix <- SamePrefix
    FirstId <- DistinctIds
    MaxMsgs = 2
    MaxGens = 1
    MaxFaults = 1
PROPERTIES
    RoomIsolation
    BroadcastReturns
    RemoteDelivery
