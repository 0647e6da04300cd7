------------------------------ MODULE Account ------------------------------
(***************************************************************************)
(* The account behind the tabs: SettingsPageViewController,                *)
(* EditAccountViewController and Singleton, RecoveryViewController, and    *)
(* what they need of the login page and of a tab that observes the user's  *)
(* data.                                                                   *)
(*                                                                         *)
(* Every request to Firebase Auth is sent and left: its effect on the      *)
(* signed-in user comes first, its callback later on the main queue, and   *)
(* both may come after the user left the screen that asked.  Changes of    *)
(* one user object wait for each other, other requests for nothing.  A     *)
(* segue performed by a controller no longer on screen does nothing.       *)
(***************************************************************************)
EXTENDS Naturals, SequencesExt

CONSTANTS Accounts,         \* user ids
          NoUser,
          Names, Emails,    \* what a user may enter
          defaultUsername,  \* shown when there is no user or no display name
          defaultEmail,
          NotLoaded,        \* a tab never opened
          MaxRequests       \* bound: requests, changes and callbacks under way

ASSUME UsersAssumption == NoUser \notin Accounts /\ NotLoaded \notin Accounts \cup {NoUser}
ASSUME TextsAssumption == defaultUsername \notin Names /\ defaultEmail \notin Emails
ASSUME MaxRequestsAssumption == MaxRequests \in Nat

VARIABLES
    user,        \* Auth.auth().currentUser
    profile,     \* per account: displayName and email
    screen,
    appearing,   \* the login page's viewDidAppear is to come
    resultLabel, \* of the edit screen or the recovery page, the one in front
    contactsTab, \* the user id the contacts tab observes; it and the labels
    labels,      \*   of the settings tab are set when the tab is first opened
    requests,    \* sent, in any order of arrival
    changes,     \* of names and addresses, in the order they were asked for
    queued,      \* the last of them was asked for of the present user object: each
                 \*   sign-in makes one, and each has its serial task queue
    callbacks,   \* successes on the main queue, oldest first
    strayed      \* history: since the login page or the tabs in front came up
                 \*   an answer came after its screen was left, or ended the
                 \*   session by itself

vars == <<user, profile, screen, appearing, resultLabel, contactsTab, labels,
          requests, changes, queued, callbacks, strayed>>

Profile == [name : Names \cup {defaultUsername}, email : Emails \cup {defaultEmail}]
NewProfile == [name |-> defaultUsername, email |-> defaultEmail]
\* `shown`: the controller that sent it is still on screen.
Request == [kind : {"signIn", "delete"}, account : Accounts, shown : BOOLEAN]
             \cup [kind : {"reset"}, shown : {TRUE}]
\* `waits`: a change of the same user object is before it. `with`, history: the
\* display name asked for by the same Confirm.
Change == [kind : {"name"}, account : Accounts, value : Names, waits : BOOLEAN,
           shown : BOOLEAN]
            \cup [kind : {"email"}, account : Accounts, value : Emails, waits : BOOLEAN,
                  with : Names, shown : BOOLEAN]
One(r) == SetToBag({r})

TypeOK ==
    /\ user \in Accounts \cup {NoUser}
    /\ profile \in [Accounts -> Profile]
    /\ screen \in {"login", "recovery", "home", "edit"} /\ appearing \in BOOLEAN
    /\ resultLabel \in {"empty", "confirming", "deleting", "error", "sent"}
    /\ contactsTab \in Accounts \cup {NoUser, NotLoaded}
    /\ labels \in Profile \cup {NotLoaded}
    /\ IsABag(requests) /\ BagToSet(requests) \subseteq Request
    /\ changes \in Seq(Change) /\ queued \in BOOLEAN
    /\ callbacks \in Seq(Request \cup Change)
    /\ strayed \in BOOLEAN

\* Singleton's currentUsername and currentUserEmail.
Current == IF user = NoUser THEN NewProfile ELSE profile[user]

Init ==
    /\ user \in Accounts \cup {NoUser}
    /\ profile = [a \in Accounts |-> NewProfile]
    /\ screen = "login" /\ appearing = TRUE /\ resultLabel = "empty"
    /\ contactsTab = NotLoaded /\ labels = NotLoaded
    /\ requests = EmptyBag /\ changes = <<>> /\ queued = FALSE /\ callbacks = <<>>
    /\ strayed = FALSE

-----------------------------------------------------------------------------
(* Screens. *)

\* The controllers on screen give way to those of another screen, and the
\* result label with them. What a recovery page asked for is then of no effect
\* on the app, and is left out.
Covered(r) == [r EXCEPT !.shown = FALSE]
Lasting(r) == r.kind # "reset"
Copies(r, sent) == IF BagIn(r, sent) THEN sent[r] ELSE 0
CoveredBag(sent) ==
    [c \in {Covered(r) : r \in {q \in DOMAIN sent : Lasting(q)}} |->
        Copies(c, sent) + Copies([c EXCEPT !.shown = TRUE], sent)]
Nth(S, n) == CHOOSE i \in S : Cardinality({j \in S : j <= i}) = n
CoveredQueue(answered) ==
    LET last == {i \in DOMAIN answered : Lasting(answered[i])}
    IN  [n \in 1..Cardinality(last) |-> Covered(answered[Nth(last, n)])]
CoveredChanges == [i \in DOMAIN changes |-> Covered(changes[i])]
LeaveForgetting(sent, answered) ==   \* mutant: a covered controller's callbacks are dropped
    /\ resultLabel' = "empty"
    /\ requests' = CoveredBag(sent) /\ changes' = CoveredChanges /\ UNCHANGED queued
    /\ callbacks' = <<>>

Leave(sent, answered) ==
    /\ resultLabel' = "empty"
    /\ requests' = CoveredBag(sent) /\ changes' = CoveredChanges /\ UNCHANGED queued
    /\ callbacks' = CoveredQueue(answered)

\* goToHome: a new tab bar controller, none of its tabs loaded.
EnterHomeAgain ==   \* mutant: the tabs of the last session are shown again
    /\ screen' = "home" /\ appearing' = FALSE
    /\ strayed' = (strayed /\ user = NoUser)
    /\ UNCHANGED <<contactsTab, labels>>

EnterHome ==
    /\ screen' = "home" /\ appearing' = FALSE
    /\ contactsTab' = NotLoaded /\ labels' = NotLoaded
    /\ strayed' = (strayed /\ user = NoUser)

\* goToLogin: a new login page over everything.
EnterLoginSilently ==   \* mutant: the page does not look at the user again
    /\ screen' = "login" /\ strayed' = FALSE
    /\ UNCHANGED <<appearing, contactsTab, labels>>

EnterLogin ==
    /\ screen' = "login" /\ appearing' = TRUE
    /\ strayed' = FALSE
    /\ UNCHANGED <<contactsTab, labels>>

\* unwindToSettings: the labels are set anew.
ReturnToSettings ==
    /\ screen' = "home"
    /\ labels' = Current
    /\ UNCHANGED <<appearing, contactsTab, strayed>>

-----------------------------------------------------------------------------
(* The login page, without its lockout (module Login), and the recovery page. *)

LoginAppears ==
    /\ screen = "login" /\ appearing
    /\ \/ user # NoUser /\ EnterHome /\ Leave(requests, callbacks)
       \/ user = NoUser /\ appearing' = FALSE
          /\ UNCHANGED <<screen, contactsTab, labels, resultLabel, requests, changes,
                       queued, callbacks, strayed>>
    /\ UNCHANGED <<user, profile>>

Room(n) == BagCardinality(requests) + Len(changes) + Len(callbacks) + n <= MaxRequests

SignInClicked(a) ==
    /\ screen = "login" /\ ~appearing /\ Room(2)
    /\ requests' = requests (+) One([kind |-> "signIn", account |-> a, shown |-> TRUE])
    /\ UNCHANGED <<user, profile, screen, appearing, resultLabel, contactsTab, labels,
                   changes, queued, callbacks, strayed>>

RecoveryClicked ==
    /\ screen = "login" /\ ~appearing
    /\ screen' = "recovery"
    /\ Leave(requests, callbacks)
    /\ UNCHANGED <<user, profile, appearing, contactsTab, labels, strayed>>

\* confirmClicked of the recovery page.
ConfirmRecovery ==
    /\ screen = "recovery" /\ Room(MaxRequests)
    /\ requests' = requests (+) One([kind |-> "reset", shown |-> TRUE])
    /\ UNCHANGED <<user, profile, screen, appearing, resultLabel, contactsTab, labels,
                   changes, queued, callbacks, strayed>>

\* Cancel does not uncover the login page, it shows a new one.
CancelRecovery ==
    /\ screen = "recovery"
    /\ EnterLogin
    /\ Leave(requests, callbacks)
    /\ UNCHANGED <<user, profile>>

-----------------------------------------------------------------------------
(* The tabs. *)

\* viewDidLoad of the contacts tab and of the settings tab.
OpenContacts ==
    /\ screen = "home" /\ contactsTab = NotLoaded
    /\ contactsTab' = user
    /\ UNCHANGED <<user, profile, screen, appearing, resultLabel, labels, requests,
                   changes, queued, callbacks, strayed>>

OpenSettings ==
    /\ screen = "home" /\ labels = NotLoaded
    /\ labels' = Current
    /\ UNCHANGED <<user, profile, screen, appearing, resultLabel, contactsTab,
                   requests, changes, queued, callbacks, strayed>>

\* signOutClicked: a failing signOut is printed and the segue done all the same.
SignOutClicked ==
    /\ screen = "home" /\ labels # NotLoaded
    /\ user' \in {NoUser, user}
    /\ EnterLogin
    /\ Leave(requests, callbacks)
    /\ UNCHANGED profile

EditClicked ==
    /\ screen = "home" /\ labels # NotLoaded
    /\ screen' = "edit"
    /\ UNCHANGED <<user, profile, appearing, resultLabel, contactsTab, labels,
                   requests, changes, queued, callbacks, strayed>>

-----------------------------------------------------------------------------
(* The edit screen. *)

\* clickedConfirm: the change of the name and that of the e-mail address join
\* the tasks of the user object, in this order.
ClickedConfirm(name, email) ==
    /\ screen = "edit" /\ user # NoUser /\ Room(2)
    /\ resultLabel' = "confirming"
    /\ changes' = changes \o
         <<[kind |-> "name", account |-> user, value |-> name, waits |-> queued,
            shown |-> TRUE],
           [kind |-> "email", account |-> user, value |-> email, waits |-> TRUE,
            with |-> name, shown |-> TRUE]>>
    /\ queued' = TRUE
    /\ UNCHANGED <<user, profile, screen, appearing, contactsTab, labels, requests,
                   callbacks, strayed>>

\* Confirm with an empty field, or after the user was deleted; the recovery
\* page refuses an empty field the same way.
ConfirmRefused ==
    /\ screen \in {"edit", "recovery"}
    /\ resultLabel' = "error"
    /\ UNCHANGED <<user, profile, screen, appearing, contactsTab, labels,
                   requests, changes, queued, callbacks, strayed>>

\* clickedDeleteAccount, from the alert's Yes.
ClickedDeleteUnguarded ==   \* mutant: the user is not looked at
    /\ screen = "edit" /\ Room(1)
    /\ resultLabel' = "deleting"
    /\ requests' = requests (+) One([kind |-> "delete", account |-> user, shown |-> TRUE])
    /\ UNCHANGED <<user, profile, screen, appearing, contactsTab, labels, changes,
                   queued, callbacks, strayed>>

ClickedDelete ==
    /\ screen = "edit" /\ Room(1)
    /\ resultLabel' = "deleting"
    /\ requests' = IF user = NoUser THEN requests
                   ELSE requests (+) One([kind |-> "delete", account |-> user, shown |-> TRUE])
    /\ UNCHANGED <<user, profile, screen, appearing, contactsTab, labels, changes,
                   queued, callbacks, strayed>>

ClickedCancelDismiss ==   \* mutant: the screen is dismissed, not unwound
    /\ screen = "edit"
    /\ screen' = "home"
    /\ Leave(requests, callbacks)
    /\ UNCHANGED <<user, profile, appearing, contactsTab, labels, strayed>>

ClickedCancel ==
    /\ screen = "edit"
    /\ ReturnToSettings
    /\ Leave(requests, callbacks)
    /\ UNCHANGED <<user, profile>>

-----------------------------------------------------------------------------
(* Firebase Auth. *)

\* A request succeeds: it signs a user in, as a new object, or deletes the one
\* it was sent for.
RequestSucceeds(r) ==
    /\ requests' = requests (-) One(r)
    /\ user' = CASE r.kind = "signIn" -> r.account
                 [] r.kind = "delete" /\ user = r.account -> NoUser
                 [] OTHER -> user
    /\ queued' = (queued /\ r.kind # "signIn")
    /\ profile' = IF r.kind = "delete" THEN [profile EXCEPT ![r.account] = NewProfile]
                  ELSE profile
    /\ callbacks' = Append(callbacks, r)
    /\ strayed' = (strayed \/ ~r.shown)
    /\ UNCHANGED <<screen, appearing, resultLabel, contactsTab, labels, changes>>

\* The serial queue: an answer, to a change that does not wait, lets the next
\* one of the same user object begin.
ChangeAnswered(i) ==
    /\ ~changes[i].waits
    /\ changes' = RemoveAt([j \in DOMAIN changes |->
                              IF j = i + 1 THEN [changes[j] EXCEPT !.waits = FALSE]
                              ELSE changes[j]], i)
    /\ queued' = (queued /\ i # Len(changes))
    /\ UNCHANGED requests

ChangeSucceeds(i) ==
    LET c == changes[i]
    IN  /\ ChangeAnswered(i)
        /\ profile' = IF c.kind = "name" THEN [profile EXCEPT ![c.account].name = c.value]
                      ELSE [profile EXCEPT ![c.account].email = c.value]
        /\ callbacks' = Append(callbacks, c)
        /\ strayed' = (strayed \/ ~c.shown)
        /\ UNCHANGED <<user, screen, appearing, resultLabel, contactsTab, labels>>

\* A failure: the callback sets the label of its own screen. The SDK signs the
\* user out when the token is no longer valid (FIRUser,
\* signOutIfTokenIsInvalidWithError), of which no screen takes notice.
ErrorUnshown(r) ==   \* mutant: the label is not set
    UNCHANGED <<user, profile, screen, appearing, resultLabel, contactsTab, labels,
                callbacks, strayed>>

ErrorShown(r) ==
    /\ resultLabel' = IF screen \in {"edit", "recovery"} /\ r.shown THEN "error" ELSE resultLabel
    /\ \/ UNCHANGED <<user, strayed>>
       \/ /\ r.kind \in {"name", "email", "delete"} /\ user = r.account
          /\ user' = NoUser /\ strayed' = TRUE
    /\ UNCHANGED <<profile, screen, appearing, contactsTab, labels, callbacks>>

RequestFails(r) ==
    requests' = requests (-) One(r) /\ ErrorShown(r) /\ UNCHANGED <<changes, queued>>

ChangeFails(i) == ChangeAnswered(i) /\ ErrorShown(changes[i])

\* What the callback of a success does on its screen: it leads to another
\* one, or does nothing to a name and tells that the mail for a reset is sent.
LeadingKinds == {"email", "delete", "signIn"}

CallbackSegueNotDelete(kind) ==   \* mutant: a deletion leads nowhere
    \/ kind = "email" /\ ReturnToSettings
    \/ kind = "delete" /\ UNCHANGED <<screen, appearing, contactsTab, labels, strayed>>
    \/ kind = "signIn" /\ EnterHome

CallbackSegue(kind) ==
    \/ kind = "email" /\ ReturnToSettings
    \/ kind = "delete" /\ EnterLogin
    \/ kind = "signIn" /\ EnterHome

Callback ==
    /\ callbacks # <<>>
    /\ LET r == Head(callbacks)
       IN  IF r.shown /\ r.kind \in LeadingKinds
           THEN CallbackSegue(r.kind) /\ Leave(requests, Tail(callbacks))
           ELSE /\ callbacks' = Tail(callbacks)
                /\ resultLabel' = IF r.shown /\ r.kind = "reset" THEN "sent" ELSE resultLabel
                /\ strayed' = (strayed \/ ~r.shown)
                /\ UNCHANGED <<screen, appearing, contactsTab, labels, requests, changes, queued>>
    /\ UNCHANGED <<user, profile>>

\* The app ends and starts again; the SDK keeps the user.
Killed ==
    /\ screen' = "login" /\ appearing' = TRUE /\ resultLabel' = "empty"
    /\ contactsTab' = NotLoaded /\ labels' = NotLoaded
    /\ requests' = EmptyBag /\ changes' = <<>> /\ queued' = FALSE /\ callbacks' = <<>>
    /\ strayed' = FALSE
    /\ UNCHANGED <<user, profile>>

Next ==
    \/ LoginAppears
    \/ \E a \in Accounts : SignInClicked(a)
    \/ RecoveryClicked \/ ConfirmRecovery \/ CancelRecovery
    \/ OpenContacts \/ OpenSettings \/ SignOutClicked \/ EditClicked
    \/ \E name \in Names, email \in Emails : ClickedConfirm(name, email)
    \/ ConfirmRefused \/ ClickedDelete \/ ClickedCancel
    \/ \E r \in BagToSet(requests) : RequestSucceeds(r) \/ RequestFails(r)
    \/ \E i \in DOMAIN changes : ChangeSucceeds(i) \/ ChangeFails(i)
    \/ Callback
    \/ Killed

\* Requests and changes are answered, at the latest with a network error, and
\* the main queue runs.
Fairness ==
    /\ WF_vars(LoginAppears)
    /\ WF_vars(\E r \in BagToSet(requests) : RequestSucceeds(r) \/ RequestFails(r))
    /\ WF_vars(\E i \in DOMAIN changes : ChangeSucceeds(i) \/ ChangeFails(i))
    /\ WF_vars(Callback)

Safe == Init /\ [][Next]_vars
Spec == Safe /\ Fairness

-----------------------------------------------------------------------------
(* Properties. *)

\* A user who stays for the answers works on one account: the contacts tab
\* observes the node of the user it writes to.
TabsFollowUser ==
    /\ screen \in {"home", "edit"} /\ ~strayed
    /\ \A i \in DOMAIN callbacks : callbacks[i].kind # "delete"
    => contactsTab \in {NotLoaded, user}

\* The settings page shows the account as it is, whichever of the two changes
\* of a Confirm succeeded.
LabelsFollowProfile ==
    screen = "home" /\ labels # NotLoaded /\ ~strayed => labels = Current

\* What is to come for a signed-in user on a login form: its viewDidAppear, or
\* the callback of the sign-in.
FormIsLeft ==
    screen = "login" /\ user # NoUser =>
        appearing \/ \E i \in DOMAIN callbacks : callbacks[i].kind = "signIn"
\* For tabs whose user is gone: the callback of the deletion.
TabsAreLeft ==
    screen \in {"home", "edit"} /\ user = NoUser =>
        \E i \in DOMAIN callbacks : callbacks[i].kind = "delete"
\* For "Confirming changes...": the answer about the e-mail address, or its
\* callback.
ConfirmIsUnderWay ==
    screen = "edit" /\ resultLabel = "confirming" =>
        \/ \E i \in DOMAIN changes : changes[i].kind = "email" /\ changes[i].shown
        \/ \E i \in DOMAIN callbacks : callbacks[i].kind = "email" /\ callbacks[i].shown

\* Nobody is left on a screen that no longer fits, with nothing under way that
\* will change it, unless an answer came after its screen was left.
NobodyIsStranded == (strayed \/ (FormIsLeft /\ TabsAreLeft)) /\ ConfirmIsUnderWay

\* Without a user, by a sign-out or a deletion, the tabs are left.
NoUserLeavesTabs ==
    user = NoUser ~> (screen \in {"login", "recovery"} \/ user # NoUser \/ strayed)

\* A user who is signed in does not stay on a login form, be it the first one, a
\* new one after a failed sign-out, a deletion or a password recovery.
SignedInLeavesForm ==
    user # NoUser /\ screen = "login" ~> (screen # "login" \/ user = NoUser \/ strayed)

\* "Confirming changes..." does not stay: the user is told of an error or is
\* returned to the settings.
ConfirmAnswered ==
    (screen = "edit" /\ resultLabel = "confirming")
        ~> ~(screen = "edit" /\ resultLabel = "confirming")

\* When the success of the e-mail address returns to the settings the display
\* name confirmed with it is in effect ("By now, the updates are confirmed to be
\* working.", EditAccountViewController).
UpdatesConfirmed ==
    [][screen = "edit" /\ callbacks # <<>> /\ Head(callbacks).kind = "email"
         /\ Len(callbacks') < Len(callbacks) /\ screen' = "home"
         => profile[Head(callbacks).account].name = Head(callbacks).with]_vars
=============================================================================
