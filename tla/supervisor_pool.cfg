\* Two calls at a time, room for two owners, four identities.
CONSTANTS
    c1 = c1
    c2 = c2
    c3 = c3
    Calls = {c1, c2}
    MaxOwners = 2
    MaxIds = 4
    None = None
SPECIFICATION FairSpec
INVARIANTS
    NothingEscapes
    OwnersAreServedOnce
PROPERTIES
    OwnersLeave
