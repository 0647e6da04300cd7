SPECIFICATION Safe
CONSTANTS
    gala = gala
    picnic = picnic
    slash = slash
    Names <- MCNames
    Slashed <- MCSlashed
    NoEvent = NoEvent
    MaxCalls = 4
    MaxRows = 3
INVARIANT RowsAreStored
