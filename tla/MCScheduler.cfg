SPECIFICATION FairSpec
CONSTANTS
    MaxEvents = 3
    MaxDelta = 3
    Windows = {1, 2}
    MaxAborts = 2
    MaxLate = 2
    MaxSorted = 6
    MaxKey = 3
INVARIANTS IInv OnTime FewRepeats
PROPERTIES EventuallySent ImplementsAgenda
CHECK_DEADLOCK FALSE
