SPECIFICATION Safe
CONSTANTS
    mia = mia
    zoe = zoe
    gala = gala
    picnic = picnic
    Usernames <- MCUsernames
    Events <- MCEvents
    Known <- MCKnown
    Refused = Refused
    NoEvent = NoEvent
    ScreenRows <- MCTallScreens
    MaxContacts = 2
    MaxWrites <- MCMaxWrites
    MaxSends = 2
    MaxMishaps = 0
INVARIANT CheckmarksAreAnswers
