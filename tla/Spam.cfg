CONSTANTS
    cheap = cheap
    offer = offer
    hello = hello
    NULL = NULL
    Mixture = Mixture
    Words <- MCWords
    Size = 2
    Hash <- MCHash
    Monitors = {m1, m2}
    Mails <- MCMails
    Lessons <- MCLessons
    File <- MCFile
    MaxLines = 3
SPECIFICATION SpamFairSpec
INVARIANTS AloneRight CrashOnlyIfRaced SavedOnce
PROPERTIES FilterEnds
CHECK_DEADLOCK FALSE
