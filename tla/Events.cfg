SPECIFICATION Spec
CONSTANTS
    gala = gala
    picnic = picnic
    slash = slash
    Names <- MCNames
    Slashed <- MCSlashed
    NoEvent = NoEvent
    MaxCalls = 4
    MaxRows = 3
INVARIANTS TypeOK SelectedIsShown ImagesMatchEvents ReloadIsFaithful
PROPERTIES LoadCompletes
