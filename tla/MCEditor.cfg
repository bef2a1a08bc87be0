SPECIFICATION Spec
CONSTANTS
    Samples <- MCSamples
    MaxRows = 2
    MaxCalls = 2
    Over = Over
    None = None
    Waiting = Waiting
    MaxWrites = 2
    MaxForms = 2
INVARIANTS TypeOK SaveHitsItsRow OwnWritesShown OneRowPerForm
PROPERTY NoSilentOverwrite
CHECK_DEADLOCK FALSE
