CONSTANTS
    MAX_PORTS = 2
    Keys = {4}
    Printable = {4}
    RingRoom = 9
    EventRoom = 2
    KeyRoom = 1
SPECIFICATION MCSpec
INVARIANTS
    XhciTypeOK OneRequest MixedOnlyBy RingsHaveRoom
PROPERTY EnumerationEnds
CHECK_DEADLOCK FALSE
