CONSTANTS
    Producers = {p1, p2}
    Consumers = {c1, c2}
    QLen = 4
    MaxMsgs = 2
    Nil = Nil
SPECIFICATION AcqFairSpec
INVARIANTS NoLostWakeup
PROPERTIES ImplementsFifo Delivered
