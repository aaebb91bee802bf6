SPECIFICATION Spec
CONSTANTS
    Unreadable = Unreadable
    Fallback = Fallback
    None = None
    Namings = {TRUE}
    MaxVersion = 2
CHECK_DEADLOCK FALSE
PROPERTY
    EveryChangeLands
