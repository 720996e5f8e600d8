SPECIFICATION FairSpec
CONSTANTS
    Threads = {h1, h2}
    Values = {0, 1}
    MaxCalls = 1
    MaxKept = 1
INVARIANTS LocksInv CrossedByProgramCall ScriptKnowsParameter
PROPERTY CallsEnd
CHECK_DEADLOCK FALSE
