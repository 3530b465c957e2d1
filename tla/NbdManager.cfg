SPECIFICATION Spec
CONSTANTS
    Clients = {a, b, c}
    NbdsMax = 2
    MaxRetries = 2
    MaxUses = 1
    MaxDisconnects = 1
    MaxKills = 1
    None = None
INVARIANTS TypeOK HeldIsMine InfoImpliesAttached NoClash
PROPERTY CommandsEnd
CHECK_DEADLOCK FALSE
