------------------------------- MODULE Login -------------------------------
(***************************************************************************)
(* One LoginViewController (Controllers/Login/LoginViewController.swift):  *)
(* the form, the sign-in requests it leaves in flight, the lockout after   *)
(* repeated wrong passwords and the way to the home tabs.                  *)
(*                                                                         *)
(* Firebase answers requests in any order, on the main queue; the page     *)
(* does not disable its button while a request is in flight, so answers    *)
(* arrive during a lockout too.  Timer() objects are identities: the       *)
(* controller remembers only the last one it scheduled, the run loop keeps *)
(* firing every one that was not invalidated.                              *)
(***************************************************************************)
EXTENDS Naturals

CONSTANTS failedAttemptsLimit,       \* 3 in the code
          lockoutDurationInSeconds,  \* 30 in the code
          MaxPending,  \* bound: requests in flight at once
          Timers,      \* bound: identities of the scheduled timers
          NoTimer      \* the unscheduled Timer() the property starts as

ASSUME LimitAssumption == failedAttemptsLimit \in Nat \ {0}
ASSUME DurationAssumption == lockoutDurationInSeconds \in Nat
ASSUME PendingAssumption == MaxPending \in Nat
ASSUME TimersAssumption == NoTimer \notin Timers

VARIABLES
    selector,             \* segment chosen: sign in or register
    filled,               \* both text fields are non-empty
    enabled,              \* the six widgets, always switched together
    label,                \* what loginLabel says, by kind of text
    failedLoginAttempts,
    timerSeconds,
    timer,                \* the timer the property refers to
    live,                 \* timers the run loop fires
    due,                  \* live timers that have still to fire this second
    elapsed,              \* history: seconds since startTimer
    pending,              \* requests sent, per kind
    succeeded,            \* success callbacks queued on the main queue
    currentUser,          \* Auth.auth().currentUser # nil
    dialog,               \* the Facebook dialog is up
    presented,            \* controller presented over this one
    appearing             \* a viewDidAppear is to be delivered

formVars == <<selector, filled, enabled, label>>
lockoutVars == <<failedLoginAttempts, timerSeconds, timer, live, due, elapsed>>
authVars == <<pending, succeeded, currentUser>>
screenVars == <<dialog, presented, appearing>>
vars == <<formVars, lockoutVars, authVars, screenVars>>

\* A request sent with an empty field is a kind of its own: its answer only
\* changes the label.
Kinds == {"signIn", "register", "empty", "facebook"}
Segments == {"signIn", "register"}
Labels == {"signIn", "register", "retry", "message"}
Controllers == {"none", "recovery", "home"}

Outstanding == pending["signIn"] + pending["register"] + pending["empty"]
                 + pending["facebook"] + succeeded + (IF dialog THEN 1 ELSE 0)

TypeOK ==
    /\ selector \in Segments
    /\ filled \in BOOLEAN
    /\ enabled \in BOOLEAN
    /\ label \in Labels
    /\ failedLoginAttempts \in 0..(failedAttemptsLimit - 1)
    /\ timerSeconds \in 0..lockoutDurationInSeconds
    /\ timer \in Timers \cup {NoTimer}
    /\ live \subseteq Timers
    /\ due \subseteq live
    /\ elapsed \in Nat
    /\ pending \in [Kinds -> 0..MaxPending]
    /\ succeeded \in Nat
    /\ currentUser \in BOOLEAN
    /\ dialog \in BOOLEAN
    /\ presented \in Controllers
    /\ appearing \in BOOLEAN

\* A fresh controller; the user may be signed in from an earlier session.
Init ==
    /\ selector = "signIn" /\ filled = FALSE
    /\ enabled = TRUE /\ label = "message"
    /\ failedLoginAttempts = 0
    /\ timerSeconds = lockoutDurationInSeconds
    /\ timer = NoTimer /\ live = {} /\ due = {} /\ elapsed = 0
    /\ pending = [k \in Kinds |-> 0] /\ succeeded = 0
    /\ currentUser \in BOOLEAN
    /\ dialog = FALSE /\ presented = "none" /\ appearing = TRUE

-----------------------------------------------------------------------------
(* Taps. They need the form in front and its widgets enabled. *)

Usable == enabled /\ presented = "none" /\ ~dialog

\* The user types into, or clears, the two text fields.
TypeCredentials ==
    /\ Usable
    /\ filled' \in BOOLEAN
    /\ UNCHANGED <<selector, enabled, label, lockoutVars, authVars, screenVars>>

\* loginSelectorChanged, resetMenu included.
LoginSelectorChanged ==
    /\ Usable
    /\ \E s \in Segments \ {selector} : selector' = s /\ label' = s
    /\ filled' = FALSE
    /\ UNCHANGED <<enabled, lockoutVars, authVars, screenVars>>

\* signInClicked: the request carries the mode and the fields of this moment.
SignInClicked ==
    /\ Usable
    /\ Outstanding < MaxPending
    /\ LET kind == IF filled THEN selector ELSE "empty"
       IN  pending' = [pending EXCEPT ![kind] = @ + 1]
    /\ UNCHANGED <<formVars, lockoutVars, succeeded, currentUser, screenVars>>

RecoveryClicked ==
    /\ Usable
    /\ presented' = "recovery"
    /\ UNCHANGED <<formVars, lockoutVars, authVars, dialog, appearing>>

\* handleCustomFBLogin up to the dialog.
FacebookClicked ==
    /\ Usable
    /\ Outstanding < MaxPending
    /\ label' = "message"
    /\ dialog' = TRUE
    /\ UNCHANGED <<selector, filled, enabled, lockoutVars, authVars, presented, appearing>>

FacebookDialogEndsSilently ==   \* mutant: the form is not told that it appears
    /\ dialog
    /\ dialog' = FALSE
    /\ \/ label' = "message" /\ UNCHANGED pending
       \/ pending' = [pending EXCEPT !["facebook"] = @ + 1] /\ UNCHANGED label
    /\ UNCHANGED <<selector, filled, enabled, lockoutVars, succeeded, currentUser, presented,
                   appearing>>

\* The dialog closes: with a token the Firebase request is sent, otherwise
\* (an error, or no token) the label says so.  The form appears again.
FacebookDialogEnds ==
    /\ dialog
    /\ dialog' = FALSE
    /\ \/ label' = "message" /\ UNCHANGED pending
       \/ pending' = [pending EXCEPT !["facebook"] = @ + 1] /\ UNCHANGED label
    /\ appearing' = IF presented = "none" THEN TRUE ELSE appearing
    /\ UNCHANGED <<selector, filled, enabled, lockoutVars, succeeded, currentUser, presented>>

-----------------------------------------------------------------------------
(* The lockout. *)

\* startTimer: a new repeating timer; the old reference is overwritten.
StartTimerAgain ==   \* mutant: the seconds are not set back
    /\ label' = "retry" /\ elapsed' = 0
    /\ \E t \in Timers \ live : timer' = t /\ live' = live \cup {t}
    /\ UNCHANGED <<timerSeconds, due>>

StartTimer ==
    /\ timerSeconds' = lockoutDurationInSeconds
    /\ elapsed' = 0
    /\ label' = "retry"
    /\ \E t \in Timers \ live : timer' = t /\ live' = live \cup {t}
    /\ UNCHANGED due

\* failedLoginAttempt, called after the label was set to "Incorrect password."
CountFailureOff ==   \* mutant: the limit is off by one
    /\ failedLoginAttempts < failedAttemptsLimit
    /\ failedLoginAttempts' = failedLoginAttempts + 1
    /\ label' = "message"
    /\ UNCHANGED <<enabled, timerSeconds, timer, live, due, elapsed>>

CountFailure ==
    /\ failedLoginAttempts + 1 < failedAttemptsLimit
    /\ failedLoginAttempts' = failedLoginAttempts + 1
    /\ label' = "message"
    /\ UNCHANGED <<enabled, timerSeconds, timer, live, due, elapsed>>

LockPageNoReset ==   \* mutant: the counter is not reset
    /\ failedLoginAttempts + 1 >= failedAttemptsLimit
    /\ failedLoginAttempts' = failedLoginAttempts + 1
    /\ enabled' = FALSE
    /\ StartTimer

LockPage ==
    /\ failedLoginAttempts + 1 >= failedAttemptsLimit
    /\ failedLoginAttempts' = 0
    /\ enabled' = FALSE
    /\ StartTimer

FailedLoginAttempt == CountFailure \/ LockPage

\* updateTimer at zero. Whichever timer fired, it is the one the property
\* refers to that is invalidated.
LockoutOverNoInvalidate(t) ==   \* mutant: timer.invalidate() is missing
    /\ timerSeconds < 1
    /\ due' = due \ {t}
    /\ label' = "signIn" /\ enabled' = TRUE
    /\ UNCHANGED <<timerSeconds, live>>

LockoutOver(t) ==
    /\ timerSeconds < 1
    /\ live' = live \ {timer}
    /\ due' = due \ {t, timer}
    /\ label' = "signIn"
    /\ enabled' = TRUE
    /\ UNCHANGED timerSeconds

\* updateTimer above zero.
KeepCountingOnce(t) ==   \* mutant: the timer does not repeat
    /\ timerSeconds >= 1
    /\ timerSeconds' = timerSeconds - 1
    /\ live' = live \ {t} /\ due' = due \ {t}
    /\ label' = "retry"
    /\ UNCHANGED enabled

KeepCounting(t) ==
    /\ timerSeconds >= 1
    /\ timerSeconds' = timerSeconds - 1
    /\ due' = due \ {t}
    /\ label' = "retry"
    /\ UNCHANGED <<live, enabled>>

UpdateTimer(t) ==
    /\ t \in due
    /\ LockoutOver(t) \/ KeepCounting(t)
    /\ UNCHANGED <<selector, filled, failedLoginAttempts, timer, elapsed, authVars, screenVars>>

\* Time, while a timer runs: every live timer fires once in each second. A
\* timer scheduled in this second fires first in the next.
NextSecond ==
    /\ live # {} /\ due = {}
    /\ due' = live
    /\ elapsed' = IF enabled THEN elapsed ELSE elapsed + 1
    /\ UNCHANGED <<formVars, failedLoginAttempts, timerSeconds, timer, live, authVars, screenVars>>

-----------------------------------------------------------------------------
(* Answers of Firebase. *)

\* The callback of a wrong password given to signIn.
WrongPassword ==
    /\ pending["signIn"] > 0
    /\ pending' = [pending EXCEPT !["signIn"] = @ - 1]
    /\ FailedLoginAttempt
    /\ UNCHANGED <<selector, filled, succeeded, currentUser, screenVars>>

\* Any other callback that is not a success, and that of an empty field. An
\* error whose code the SDK's enum does not know changes nothing.
OtherError(k) ==
    /\ pending[k] > 0
    /\ pending' = [pending EXCEPT ![k] = @ - 1]
    /\ label' \in {label, "message"}
    /\ UNCHANGED <<selector, filled, enabled, lockoutVars, succeeded, currentUser, screenVars>>

\* Firebase sets currentUser on its own queue; the callback is queued.
AuthSucceeds(k) ==
    /\ k # "empty" /\ pending[k] > 0
    /\ pending' = [pending EXCEPT ![k] = @ - 1]
    /\ currentUser' = TRUE
    /\ succeeded' = succeeded + 1
    /\ UNCHANGED <<formVars, lockoutVars, screenVars>>

\* UIKit presents over the front controller only: the request of a covered
\* one is dropped; under the Facebook dialog either may happen.
GoToHome ==
    \/ presented = "none" /\ presented' = "home"
    \/ (presented # "none" \/ dialog) /\ UNCHANGED presented

\* The success callback: performSegue(goToHome). (The Facebook one sets the
\* label first.)
SuccessCallback ==
    /\ succeeded > 0
    /\ succeeded' = succeeded - 1
    /\ label' \in {label, "message"}
    /\ GoToHome
    /\ UNCHANGED <<selector, filled, enabled, lockoutVars, pending, currentUser, dialog, appearing>>

\* viewDidAppear: a signed-in user is sent on to HomeView.
ViewDidAppearIdle ==   \* mutant: currentUser is not looked at
    /\ appearing /\ ~dialog
    /\ appearing' = FALSE
    /\ UNCHANGED <<formVars, lockoutVars, authVars, dialog, presented>>

ViewDidAppear ==
    /\ appearing /\ ~dialog
    /\ appearing' = FALSE
    /\ presented' = IF currentUser /\ presented = "none" THEN "home" ELSE presented
    /\ UNCHANGED <<formVars, lockoutVars, authVars, dialog>>

Next ==
    \/ TypeCredentials \/ LoginSelectorChanged \/ SignInClicked
    \/ RecoveryClicked \/ FacebookClicked \/ FacebookDialogEnds
    \/ \E t \in Timers : UpdateTimer(t)
    \/ NextSecond
    \/ WrongPassword
    \/ \E k \in Kinds : OtherError(k)
    \/ \E k \in Kinds : AuthSucceeds(k)
    \/ SuccessCallback \/ ViewDidAppear

Safe == Init /\ [][Next]_vars

\* The main run loop fires timers, runs queued callbacks and lays out views;
\* nothing is assumed of the user, nor of Firebase answering.
Fairness ==
    /\ WF_vars(NextSecond)
    /\ WF_vars(\E t \in Timers : UpdateTimer(t))
    /\ WF_vars(SuccessCallback)
    /\ WF_vars(ViewDidAppear)

Spec == Safe /\ Fairness

-----------------------------------------------------------------------------
(* Properties. *)

\* Widgets enabled and no timer running go together: a locked page has the
\* one timer that will open it, the one `timer` refers to, and opening it
\* leaves none behind ("Turn off timer and re-enable widgets", updateTimer).
TimerOff ==
    /\ enabled => live = {}
    /\ ~enabled => live = {timer}

\* A page that opens has shown the whole countdown: one second for each
\* value of "Retry in N seconds", the last being 0.
FullLockout ==
    [][~enabled /\ enabled' => elapsed = lockoutDurationInSeconds + 1]_vars

\* A locked page, however often it was locked again meanwhile, has the timer
\* that its last lock scheduled, and that one opens it within the seconds it
\* announced.
LockIsTimed ==
    ~enabled => timer \in live /\ elapsed <= lockoutDurationInSeconds + 1

\* A user who signed in while the form is in front has a success callback or a
\* viewDidAppear still to come.
SomethingTakesOff ==
    currentUser /\ presented = "none" /\ ~dialog => succeeded > 0 \/ appearing

\* A lockout ends, whatever answers come in meanwhile.
LockoutEnds == ~enabled ~> enabled

\* Whoever is signed in is taken off the form: by the success callback or,
\* when that one was dropped, by viewDidAppear.
SignedInLeavesForm == currentUser ~> (presented # "none" \/ dialog)

\* The lockout as its abstract specification sees it.
LockoutView == INSTANCE Lockout WITH
    Limit     <- failedAttemptsLimit,
    Duration  <- lockoutDurationInSeconds,
    failures  <- failedLoginAttempts,
    remaining <- IF enabled THEN 0 ELSE timerSeconds + 1

\* Every behaviour of the page is one of the lockout specification.
ImplementsLockout == LockoutView!Safe

\* And its countdown runs.
CountdownRuns == LockoutView!Running
=============================================================================
