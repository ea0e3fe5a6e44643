CONSTANTS
    e1 = e1
    alice = alice
    w1 = w1
    w2 = w2
    Nothing = Nothing
    Endpoint = {e1}
    Owner = {alice}
    Worker = {w1, w2}
    OwnerOf <- TheOwner
    MaxWorkers <- UpToTwo
    Job <- TwoJobs
    Batch = 2
    MaxMoves = 2
    MaxFaults = 1
SPECIFICATION Spec
SYMMETRY Alike
CONSTRAINT TwoJobsOrAFault
INVARIANTS TypeOK BusyHasJob SessionIsKnown JobsAtLiveWorkers UnbilledPodIsOrphan BrokeIsStopped
PROPERTY ImplementsJobs
