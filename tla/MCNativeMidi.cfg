SPECIFICATION PortSpec
CONSTANTS
    Devices = {d1, d2}
    NoDevice = NoDevice
    Keys = {h1, h2, h3}
    NotOpen = NotOpen
    NoHandle = NoHandle
    MaxPorts = 2
    MaxRestarts = 1
    MaxPlugs = 1
SYMMETRY Symmetry
INVARIANTS HandlesInv NamesReachDevices
CHECK_DEADLOCK FALSE
