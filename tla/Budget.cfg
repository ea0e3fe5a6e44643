SPECIFICATION Spec
CONSTANTS
    alice = alice
    p1 = p1
    p2 = p2
    Everyone = Everyone
    Nothing = Nothing
    Nobody = Nobody
    Unlimited = Unlimited
    User = {alice}
    Name = {alice}
    Pod = {p1, p2}
    DefaultBudget = Unlimited
    Hours = {1, 2}
    Asked = {1}
    MonthLength = 3
    BackfillMax = 1
    MaxMinute = 4
    MaxMoves = 2
    MaxFaults = 1
    MaxHolders = 2
    WarnPart = 1
    WarnOf = 2
    Grace = 1
    FailOpen = TRUE
CONSTRAINT FewEvents
INVARIANTS FilledIsProvable NothingMissed ApplicationIsOwn
PROPERTY StopAfterGrace
SYMMETRY Alike
