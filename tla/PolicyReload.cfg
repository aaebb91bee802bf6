SPECIFICATION Spec
CONSTANTS
    Unreadable = Unreadable
    Fallback = Fallback
    None = None
    Namings = {TRUE, FALSE}
    MaxVersion = 3
CHECK_DEADLOCK FALSE
INVARIANTS
    TypeOK
    PolicyNeverReverts
    NoReloadPending
PROPERTY
    WatchedChangeLands
