SPECIFICATION FairSpec
CONSTANTS
    Reports = {r1}
    Pods = {d1, d2}
    Capacity = 2
    MaxTries = 2
CHECK_DEADLOCK FALSE
INVARIANTS
    AcknowledgedMeansStored DuplicatesOnlyByRepeat
    ConnectionsOnlyForStatements
PROPERTIES MailboxSpec EverySubmissionEnds
