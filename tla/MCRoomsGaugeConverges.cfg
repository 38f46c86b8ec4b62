SPECIFICATION Spec
CONSTANTS
    t1 = t1
    t2 = t2
    Tasks <- TwoTasks
    Creators <- TwoTasks
    Removers <- TwoTasks
    Listeners <- TwoTasks
    NumIds = 1
    MaxRooms = 2
    MaxCalls = 2
INVARIANT GaugeConverges
