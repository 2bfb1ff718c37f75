SPECIFICATION Spec
CONSTANTS
    f1 = f1
    f2 = f2
    d1 = d1
    Files = {f1, f2}
    Unrotated = {f1}
    Dirs = {d1}
    DirOf <- MCDirOf
    Windows = TRUE
    MaxChanges = 1
INVARIANTS
    PassMeansStarts
    HealthyPasses
    LeavesNothing
CHECK_DEADLOCK FALSE
