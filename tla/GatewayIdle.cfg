CONSTANTS
    e1 = e1
    alice = alice
    w1 = w1
    w2 = w2
    Nothing = Nothing
    Endpoint = {e1}
    Owner = {alice}
    Worker = {w1}
    OwnerOf <- TheOwner
    MaxWorkers <- UpToOne
    Job <- TwoJobs
    Batch = 2
    MaxMoves = 0
    MaxFaults = 0
SPECIFICATION Spec
PROPERTY IdleStopHasNoJob
