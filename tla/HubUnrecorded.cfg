SPECIFICATION Spec
CONSTANTS
    alice = alice
    s1 = s1
    s2 = s2
    w1 = w1
    w2 = w2
    gpu = gpu
    cpu = cpu
    gpus = gpus
    NoPool = NoPool
    NoSize = NoSize
    User = {alice}
    Server = {s1}
    Worker = {w1}
    Size = {gpu, cpu}
    Pool = {gpus}
    Owner <- AliceOwnsAll
    Free = {}
    Price <- MCPrice
    SizePool <- MCSizePool
    SizeGpus <- MCSizeGpus
    Cap <- MCCap
    SvMaxGpus = 3
    Enforce = FALSE
    MinTicks = 1
    TicksPerHour = 2
    SignupCredit = 0
    Amounts = {}
    Sid <- ThreeSessions
    MaxTime = 0
    MaxPaid = 2
    MaxFaults = 1
INVARIANTS
    RunningIsBilled
