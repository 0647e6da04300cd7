SPECIFICATION Spec
CONSTANTS
    ann = ann
    bob = bob
    u = u
    Slashed <- MCSlashed
    EmptyText = EmptyText
    Absent = Absent
    Keys <- MCKeys
    Values <- MCValues
    MaxPuts = 3
    MaxDrops = 1
    MaxRows = 3
CHECK_DEADLOCK FALSE
PROPERTIES EventuallyStored ImplementsLocation ImplementsBook
