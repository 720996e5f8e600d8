SPECIFICATION Spec
CONSTANTS
    i1 = i1
    i2 = i2
    None = None
    Instances = {i1, i2}
    MaxSends = 3
INVARIANTS IInv AckedIsTaken
PROPERTY ImplementsChannel
CHECK_DEADLOCK FALSE
