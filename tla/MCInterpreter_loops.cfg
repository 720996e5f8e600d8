SPECIFICATION Spec
CONSTANTS
    Audio = Audio
    Editor = Editor
    Messages = Messages
    NoThread = NoThread
    n1 = n1
    f1 = f1
    a = a
    b = b
    Loops = {n1}
    Selectors = {f1}
    Scripts = {a}
    NoScript = NoScript
    NoRequest = NoRequest
    Events <- Threaded
    MaxResets = 1
    MaxLeaks = 1
INVARIANT OneStalePacket
PROPERTY OnlyShiftEscapeKeepsLock
CHECK_DEADLOCK FALSE
