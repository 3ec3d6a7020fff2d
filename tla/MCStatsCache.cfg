SPECIFICATION FairSpec
CONSTANTS
    Readers = {r1, r2}
    Writers = {w1}
    Seeds = {s1}
    StatsTTL = 2
    LockTTL = 1
    PollWait = 1
    Empty = Empty
INVARIANTS StaleOnlyAcrossCommit
PROPERTIES StalenessEnds EveryReadEnds
\* Writes are finite and readers may all have died.
CHECK_DEADLOCK FALSE
