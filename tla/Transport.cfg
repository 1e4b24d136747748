\* Two addresses with a broadcast link and one ISO-TP identifier.
SPECIFICATION Spec
CONSTANTS
    Nodes = {a, b}
    Global = g
    Ids = {x}
    PacketBytes = 7
    FirstBytes = 6
    Modulus = 2
    Sizes = {6, 14}
    MaxTransfers = 2
    MaxFrames = 6
    MaxLosses = 2
    MaxExtras = 1
INVARIANTS
    FramesOnce
    PayloadsAreExact
    ReceivedIsComplete
CHECK_DEADLOCK FALSE
