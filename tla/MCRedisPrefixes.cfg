SPECIFICATION Spec
CONSTANTS
    a = a
    b = b
    t1 = t1
    t2 = t2
    c1 = c1
    c2 = c2
    Nodes <- TwoNodes
    Tasks <- TwoTasks
    Clients <- TwoClients
    TaskNode <- Apart
    ClientNode <- ClientsApart
    RoomIds <- TwoRooms
    Prefix <- NestedPrefix
    FirstId <- DistinctIds
    MaxMsgs = 1
    MaxGens = 1
    MaxFaults = 0
PROPERTY DeploymentIsolation
