SPECIFICATION FairSpec
CONSTANTS
    Audio = Audio
    Editor = Editor
    Messages = Messages
    NoThread = NoThread
    n1 = n1
    f1 = f1
    a = a
    b = b
    Loops = {}
    Selectors = {}
    Scripts = {a}
    NoScript = NoScript
    NoRequest = NoRequest
    Events <- Host
    MaxResets = 2
    MaxLeaks = 1
INVARIANTS IInv CallersSeeAState InitFirst NoNestedReInit
PROPERTIES RequestLoaded RequestServed
CHECK_DEADLOCK FALSE
