SPECIFICATION FairSpec
CONSTANTS
    Complaints = {c1, c2}
    Patches = {p1, p2}
    NONE = NONE
INVARIANTS TypeOK OneWinnerPerStatus AnswerMatchesEffect
PROPERTIES OnlyTableMoves RegisterSpec EveryPatchEnds
\* Every request is served once and then the system is done.
CHECK_DEADLOCK FALSE
