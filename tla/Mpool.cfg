CONSTANTS
    Poppers = {a1}
    Pushers = {f1, f2}
    Step = 2
    MaxBlocks = 2
SPECIFICATION FairSpec
INVARIANTS OneOwner
PROPERTIES LeakOnlyAtPublish LockFree
