CONSTANTS
    e1 = e1
    alice = alice
    w1 = w1
    w2 = w2
    Nothing = Nothing
    Endpoint = {e1}
    Owner = {alice}
    Worker = {w1}
    OwnerOf <- TheOwner
    MaxWorkers <- UpToOne
    Job <- OneJob
    Batch = 1
    MaxMoves = 0
    MaxFaults = 2
SPECIFICATION FairSpec
PROPERTIES EveryJobFinishes StoppedEnds
