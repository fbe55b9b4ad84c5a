CONSTANTS
    Num = 3
    MaxTasks = 3
    Main = Main
    None = None
SPECIFICATION TpoolFairSpec
INVARIANTS InOrder PoolOutlivesWorkers
PROPERTIES TaskTaken FreeReturnsIfTwo
