SPECIFICATION Spec
CONSTANTS
    mia = mia
    zoe = zoe
    gala = gala
    picnic = picnic
    Usernames <- MCUsernames
    Events <- MCEvents
    Known <- MCKnown
    Refused = Refused
    NoEvent = NoEvent
    ScreenRows <- MCScreenRows
    MaxContacts = 3
    MaxWrites <- MCMaxWrites
    MaxSends = 2
    MaxMishaps = 1
INVARIANTS TypeOK InvitedAreChecked RequestsMatchInvites AnswersAnInvite
PROPERTIES AnswerStands InvitationArrives
