SPECIFICATION Spec
CONSTANTS
    NumNotes = 2
    MaxSends = 1
    MaxLater = 1
    MaxCuts = 1
INVARIANTS InputInv TableTellsWhatSounds
CHECK_DEADLOCK FALSE
