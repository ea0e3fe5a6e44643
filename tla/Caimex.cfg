SPECIFICATION FairSpec
CONSTANTS
    u1 = u1
    u2 = u2
    User = {u1, u2}
    HubUser = {u1}
    Nobody = Nobody
    MaxJoins = 2
    MaxMoves = 3
    MaxFaults = 1
INVARIANTS OnceUnlessLost KnocksOnce OfferNeedsAccount
PROPERTY EveryMemberCapped
