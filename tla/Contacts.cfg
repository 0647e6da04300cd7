SPECIFICATION Safe
CONSTANTS
    ann = ann
    bob = bob
    u = u
    Slashed = {}
    EmptyText = EmptyText
    Absent = Absent
    Keys <- MCKeys
    Values <- MCValues
    MaxPuts = 3
    MaxDrops = 2
    MaxRows = 3
CHECK_DEADLOCK FALSE
INVARIANTS TypeOK RowShown ServerCatchesUp ToldIsStored
PROPERTIES RenameKeepsContact NoFlicker
