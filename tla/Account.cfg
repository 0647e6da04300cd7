SPECIFICATION Spec
CONSTANTS
    ann = ann
    bob = bob
    name1 = name1
    email1 = email1
    Accounts <- MCAccounts
    Names <- MCNames
    Emails <- MCEmails
    NoUser = NoUser
    defaultUsername = defaultUsername
    defaultEmail = defaultEmail
    NotLoaded = NotLoaded
    MaxRequests = 3
INVARIANTS TypeOK TabsFollowUser LabelsFollowProfile NobodyIsStranded
PROPERTIES NoUserLeavesTabs SignedInLeavesForm ConfirmAnswered
