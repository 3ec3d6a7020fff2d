SPECIFICATION Spec
CONSTANTS
    Complaints = {c1}
    Patches = {p1, p2}
    NONE = NONE
INVARIANTS ConflictReportsActualStatus
CHECK_DEADLOCK FALSE
