SPECIFICATION HSpec
CONSTANTS
    t1 = t1
    t2 = t2
    Tasks <- TwoTasks
    Creators <- TwoTasks
    Removers <- TwoTasks
    Listeners <- TwoTasks
    NumIds = 2
    MaxRooms = 3
    MaxCalls = 2
PROPERTY CleanupReturnsNumberRemoved
