CONSTANTS
    Poppers = {a1, a2}
    Pushers = {f1}
    Step = 2
    MaxBlocks = 2
SPECIFICATION Spec
INVARIANT OneOwner
CHECK_DEADLOCK FALSE
