CONSTANTS
    Admins = {a1, a2}
    Clients = {c1}
    MaxCalls = 3
    MaxInitErrors = 1
    MaxBlock = 2
    None = None

SPECIFICATION FairSpec
CHECK_DEADLOCK FALSE
INVARIANTS SingleProducer NumbersFollow DrainedBeforeFollowing
PROPERTY ModeChangeEnds
