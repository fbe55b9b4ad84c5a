CONSTANTS
    Clients = {c1}
    Ids = {1, 2}
    MaxFailures = 1
SPECIFICATION FairSpec
INVARIANTS UsesOpen KeywordsComplete OneThreadEach ReleaseOnce NothingLeft
PROPERTIES Answered
