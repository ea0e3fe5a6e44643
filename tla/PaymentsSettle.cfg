SPECIFICATION FairSpec
CONSTANTS
    alice = alice
    User = {alice}
    Rid <- TwoRequests
    Checker = {}
    Silent = {2}
    Nothing = Nothing
    MaxRestarts = 1
PROPERTIES
    PaidIsCredited
    FailedFreesUser
