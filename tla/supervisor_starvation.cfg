\* One call after the other, room for two owners.
CONSTANTS
    c1 = c1
    c2 = c2
    c3 = c3
    Calls = {c1}
    MaxOwners = 2
    MaxIds = 3
    None = None
SPECIFICATION FairSpec
PROPERTIES
    TryingAgainRetries
