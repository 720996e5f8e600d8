SPECIFICATION FairSpec
CONSTANTS
    i1 = i1
    i2 = i2
    None = None
    Instances = {i1, i2}
    MaxSends = 2
PROPERTY MailboxEmptied
CHECK_DEADLOCK FALSE
