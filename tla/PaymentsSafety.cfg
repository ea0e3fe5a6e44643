SPECIFICATION Spec
CONSTANTS
    alice = alice
    User = {alice}
    Rid <- TwoRequests
    Checker = {c1}
    Silent = {2}
    Nothing = Nothing
    MaxRestarts = 1
INVARIANTS
    TypeOK
    CreditedOnce
    OnlyPaidIsCredited
    OnePendingRequest
PROPERTIES
    ImplementsPromise
