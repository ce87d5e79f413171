CONSTANTS
    Sessions = {"s1"}
    Children = {c1}
    MaxRows = 5
    MaxRooms = 1
    MaxLag = 1
    MaxLen = 1
    MaxWire = 1
    ChanCap = 1
    MemMax = 1
    Radix = 3
    MaxFaults = 0
SPECIFICATION Spec
INVARIANTS ReadInSequence
