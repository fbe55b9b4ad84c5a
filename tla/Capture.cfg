CONSTANTS
    smtp = smtp
    imap = imap
    Tuples <- MCTuples
    Hash <- MCHash
    Proto <- MCProto
    Streams = {s1, s2}
    QLen = 2
    MaxBufs = 2
    MaxConns = 3
    None = None
SPECIFICATION Spec
INVARIANTS RightNode OneNode NothingLeft
PROPERTIES BufferReturns
CHECK_DEADLOCK FALSE
