SPECIFICATION Spec
CONSTANTS
    alice = alice
    p1 = p1
    p2 = p2
    Nothing = Nothing
    User = {alice}
    Link <- Two
    Ticket <- Two
    Post = {p1, p2}
    SignInTries = 2
    LinkTries = 2
    Allowed = 2
    PerHour = 1
    MaxStep = 3
    MaxSecret = 2
    MaxMoves = 1
    MaxFaults = 1
SYMMETRY Alike
CONSTRAINT FewEvents
INVARIANTS TypeOK CodeOnce OnIsProven ResetSignsOut OneLiveLink
PROPERTY ChangeSpendsLinks
