SPECIFICATION Safe
CONSTANTS
    ann = ann
    bob = bob
    name1 = name1
    email1 = email1
    Accounts <- MCAccounts
    Names <- MCNames
    Emails <- MCEmails
    NoUser = NoUser
    defaultUsername = defaultUsername
    defaultEmail = defaultEmail
    NotLoaded = NotLoaded
    MaxRequests = 3
PROPERTY UpdatesConfirmed
