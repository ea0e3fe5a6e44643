SPECIFICATION Spec
CONSTANTS
    w1 = w1
    w2 = w2
    Nothing = Nothing
    Worker = {w1, w2}
    Job <- TwoJobs
    Yields = 2
    Tries = 2
    MaxFaults = 2
SYMMETRY Alike
CONSTRAINT FewEvents
INVARIANTS WholeStream FinishedIsRead
PROPERTY ImplementsJobs
CHECK_DEADLOCK FALSE
