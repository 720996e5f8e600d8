SPECIFICATION Spec
CONSTANTS
    s1 = s1
    b1 = b1
    b2 = b2
    b3 = b3
    b4 = b4
    NoScript = NoScript
    NoRequest = NoRequest
    Null = Null
    Wild = Wild
    Freed = Freed
    Nobody = Nobody
    NumPrograms = 2
    Scripts = {s1}
    Blocks = {b1, b2, b3, b4}
    Values = {0, 1}
    Interrupts = {"halt", "preset"}
SYMMETRY Symmetry
INVARIANTS IInv TableOfProgram DataKept StringsOwned ParametersFollow ScriptFollows
CHECK_DEADLOCK FALSE
