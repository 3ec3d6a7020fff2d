SPECIFICATION FairSpec
CONSTANTS
    Complaints = {c1}
    Queries = {q1, q2}
    MaxSeq = 5
CHECK_DEADLOCK FALSE
INVARIANTS ShownIsAsked LockedMeansTerminal
PROPERTIES BackOnlyByOverlap AlwaysSettles
