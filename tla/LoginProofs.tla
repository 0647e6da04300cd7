---------------------------- MODULE LoginProofs ----------------------------
(***************************************************************************)
(* The lockout of the module Login for every limit, every duration, every  *)
(* set of timers.  Whatever the number of requests in flight a locked page *)
(* has a timer and a signed-in user is taken off the form.  The exact      *)
(* lockout takes that no more sign-in requests are in flight than the      *)
(* limit counts: then the answers still to come when the page locks cannot *)
(* lock it a second time.                                                  *)
(***************************************************************************)
EXTENDS Login, TLAPS

\* The answers still in flight while locked stay below the limit.
NoSecondLock ==
    ~enabled => failedLoginAttempts + pending["signIn"] < failedAttemptsLimit

\* One count of the countdown per second of the lockout.
CountKeepsTime ==
    ~enabled => /\ due = {} => elapsed + timerSeconds = lockoutDurationInSeconds
                /\ due # {} => elapsed + timerSeconds = lockoutDurationInSeconds + 1


USE DEF Kinds, Segments, Labels, Controllers

\* Requests in flight, queued callbacks and the dialog respect the bound.
WithinBound == Outstanding <= MaxPending

LockoutInv == TypeOK /\ WithinBound /\ TimerOff /\ NoSecondLock /\ CountKeepsTime

-----------------------------------------------------------------------------
(* Type correctness. *)

LEMMA InitTypes == Init => TypeOK /\ WithinBound
<1> SUFFICES ASSUME Init PROVE TypeOK /\ WithinBound OBVIOUS
<1> USE LimitAssumption, DurationAssumption, PendingAssumption DEF Init
<1>1. pending \in [Kinds -> 0..MaxPending] OBVIOUS
<1>2. failedLoginAttempts \in 0..(failedAttemptsLimit - 1) OBVIOUS
<1>3. timerSeconds \in 0..lockoutDurationInSeconds OBVIOUS
<1>4. live \subseteq Timers /\ due \subseteq live /\ timer \in Timers \cup {NoTimer}
  OBVIOUS
<1>5. TypeOK BY <1>1, <1>2, <1>3, <1>4 DEF TypeOK
<1>6. WithinBound BY DEF WithinBound, Outstanding
<1> QED BY <1>5, <1>6

\* The steps that are neither a timer, nor time, nor a wrong password.
TapOrScreen ==
    \/ TypeCredentials \/ LoginSelectorChanged \/ SignInClicked
    \/ RecoveryClicked \/ FacebookClicked \/ FacebookDialogEnds
    \/ \E k \in Kinds : OtherError(k)
    \/ \E k \in Kinds : AuthSucceeds(k)
    \/ SuccessCallback \/ ViewDidAppear

\* They leave the lockout's variables alone.
LEMMA TapKeepsLockout ==
    ASSUME TapOrScreen PROVE UNCHANGED <<lockoutVars, enabled>>
BY DEF TapOrScreen, lockoutVars, formVars, TypeCredentials, LoginSelectorChanged,
       SignInClicked, RecoveryClicked, FacebookClicked, FacebookDialogEnds,
       OtherError, AuthSucceeds, SuccessCallback, ViewDidAppear

\* While the page is locked they send no sign-in request.
LEMMA TapSendsNothingWhenLocked ==
    ASSUME TypeOK, TapOrScreen, ~enabled
    PROVE  pending'["signIn"] <= pending["signIn"]
<1> USE DEF TypeOK, authVars
<1>1. CASE FacebookDialogEnds BY <1>1 DEF FacebookDialogEnds
<1>2. CASE \E k \in Kinds : OtherError(k) BY <1>2 DEF OtherError
<1>3. CASE \E k \in Kinds : AuthSucceeds(k) BY <1>3 DEF AuthSucceeds
<1>4. CASE SuccessCallback BY <1>4 DEF SuccessCallback
<1>5. CASE ViewDidAppear BY <1>5 DEF ViewDidAppear
<1>6. CASE Usable BY <1>6 DEF Usable
<1> QED BY <1>1, <1>2, <1>3, <1>4, <1>5, <1>6 DEF TapOrScreen, TypeCredentials,
           LoginSelectorChanged, SignInClicked, RecoveryClicked, FacebookClicked

\* What the non-lockout half of the state looks like after a step.
RestTypes ==
    /\ selector \in Segments /\ filled \in BOOLEAN /\ label \in Labels
    /\ pending \in [Kinds -> 0..MaxPending]
    /\ succeeded \in Nat /\ currentUser \in BOOLEAN
    /\ dialog \in BOOLEAN /\ presented \in Controllers /\ appearing \in BOOLEAN
    /\ WithinBound

\* One more request of a kind, where the bound has room for it.
LEMMA OneMore ==
    ASSUME TypeOK, NEW k \in Kinds, Outstanding < MaxPending,
           pending' = [pending EXCEPT ![k] = @ + 1], UNCHANGED <<succeeded, dialog>>
    PROVE  pending' \in [Kinds -> 0..MaxPending] /\ WithinBound'
<1> USE PendingAssumption DEF TypeOK
<1>1. pending[k] + 1 \in 0..MaxPending BY DEF Outstanding
<1>2. pending' \in [Kinds -> 0..MaxPending] BY <1>1
<1>3. WithinBound' BY DEF WithinBound, Outstanding
<1> QED BY <1>2, <1>3

\* One answer taken; what it becomes (a queued callback, or nothing) takes
\* no more room.
LEMMA OneLess ==
    ASSUME TypeOK, WithinBound, NEW k \in Kinds, pending[k] > 0,
           pending' = [pending EXCEPT ![k] = @ - 1], UNCHANGED dialog,
           succeeded' \in {succeeded, succeeded + 1}
    PROVE  pending' \in [Kinds -> 0..MaxPending] /\ WithinBound' /\ succeeded' \in Nat
<1> USE PendingAssumption DEF TypeOK
<1>1. pending[k] - 1 \in 0..MaxPending OBVIOUS
<1>2. pending' \in [Kinds -> 0..MaxPending] BY <1>1
<1>3. WithinBound' BY DEF WithinBound, Outstanding
<1> QED BY <1>2, <1>3

LEMMA TapTypes ==
    ASSUME TypeOK, WithinBound, TapOrScreen PROVE RestTypes'
<1> USE PendingAssumption
    DEF TypeOK, RestTypes, formVars, lockoutVars, authVars, screenVars
<1>1. CASE TypeCredentials BY <1>1 DEF TypeCredentials, WithinBound, Outstanding
<1>2. CASE LoginSelectorChanged BY <1>2 DEF LoginSelectorChanged, WithinBound, Outstanding
<1>3. CASE SignInClicked
  <2> DEFINE kind == IF filled THEN selector ELSE "empty"
  <2>1. kind \in Kinds BY DEF TypeOK
  <2>2. pending' = [pending EXCEPT ![kind] = @ + 1] /\ Outstanding < MaxPending
    BY <1>3 DEF SignInClicked
  <2>3. UNCHANGED <<succeeded, dialog>> BY <1>3 DEF SignInClicked
  <2> HIDE DEF kind
  <2>4. pending' \in [Kinds -> 0..MaxPending] /\ WithinBound'
    BY <2>1, <2>2, <2>3, OneMore
  <2> QED BY <1>3, <2>4 DEF SignInClicked
<1>4. CASE RecoveryClicked BY <1>4 DEF RecoveryClicked, WithinBound, Outstanding
<1>5. CASE FacebookClicked BY <1>5 DEF FacebookClicked, WithinBound, Outstanding, Usable
<1>6. CASE FacebookDialogEnds
  <2>0. dialog /\ dialog' = FALSE /\ succeeded' = succeeded
    BY <1>6 DEF FacebookDialogEnds
  <2>a. /\ selector' \in Segments /\ filled' \in BOOLEAN /\ label' \in Labels
        /\ succeeded' \in Nat /\ currentUser' \in BOOLEAN /\ dialog' \in BOOLEAN
        /\ presented' \in Controllers
    BY <1>6 DEF FacebookDialogEnds
  <2>b. appearing' \in BOOLEAN BY <1>6 DEF FacebookDialogEnds
  <2>1. CASE UNCHANGED pending
    BY <2>a, <2>b, <2>0, <2>1 DEF WithinBound, Outstanding
  <2>2. CASE pending' = [pending EXCEPT !["facebook"] = @ + 1]
    <3>1. pending["facebook"] + 1 \in 0..MaxPending
      BY <2>0 DEF WithinBound, Outstanding
    <3>2. pending' \in [Kinds -> 0..MaxPending] BY <2>2, <3>1
    <3>3. WithinBound' BY <1>6, <2>0, <2>2 DEF FacebookDialogEnds, WithinBound, Outstanding
    <3> QED BY <2>a, <2>b, <3>2, <3>3
  <2> QED BY <1>6, <2>1, <2>2 DEF FacebookDialogEnds
<1>7. ASSUME NEW k \in Kinds, OtherError(k) PROVE RestTypes'
  <2>1. pending' \in [Kinds -> 0..MaxPending] /\ WithinBound'
    BY <1>7, OneLess DEF OtherError
  <2> QED BY <1>7, <2>1 DEF OtherError
<1>8. ASSUME NEW k \in Kinds, AuthSucceeds(k) PROVE RestTypes'
  <2>1. pending' \in [Kinds -> 0..MaxPending] /\ WithinBound' /\ succeeded' \in Nat
    BY <1>8, OneLess DEF AuthSucceeds
  <2> QED BY <1>8, <2>1 DEF AuthSucceeds
<1>9. CASE SuccessCallback
  BY <1>9 DEF SuccessCallback, GoToHome, WithinBound, Outstanding
<1>10. CASE ViewDidAppear BY <1>10 DEF ViewDidAppear, WithinBound, Outstanding
<1> QED BY <1>1, <1>2, <1>3, <1>4, <1>5, <1>6, <1>7, <1>8, <1>9, <1>10 DEF TapOrScreen
-----------------------------------------------------------------------------
(* However many requests are in flight: a locked page keeps a timer, and a   *)
(* user who signed in is taken off the form.                                 *)

\* The seconds of the lockout and the count left stay within the countdown; the
\* timer of the lock has still to fire in the second that is over.
WithinCountdown ==
    ~enabled =>
        /\ timer \in live
        /\ elapsed + timerSeconds <= lockoutDurationInSeconds + 1
        /\ timer \notin due => elapsed + timerSeconds <= lockoutDurationInSeconds

PageInv == TypeOK /\ WithinBound /\ WithinCountdown /\ SomethingTakesOff

LEMMA InitPageInv == Init => PageInv
BY InitTypes DEF Init, PageInv, WithinCountdown, SomethingTakesOff

LEMMA TapKeepsPage == ASSUME PageInv, TapOrScreen PROVE PageInv'
<1> USE DEF PageInv
<1>1. UNCHANGED <<enabled, failedLoginAttempts, timerSeconds, timer, live, due, elapsed>>
  BY TapKeepsLockout DEF lockoutVars
<1>2. RestTypes' BY TapTypes
<1>3. TypeOK' /\ WithinBound' BY <1>1, <1>2 DEF TypeOK, RestTypes
<1>4. WithinCountdown' BY <1>1 DEF WithinCountdown
<1>5. SomethingTakesOff'
  <2> USE DEF SomethingTakesOff, formVars, authVars, screenVars
  <2>1. CASE TypeCredentials \/ LoginSelectorChanged \/ SignInClicked
    BY <2>1 DEF TypeCredentials, LoginSelectorChanged, SignInClicked
  <2>2. CASE RecoveryClicked \/ FacebookClicked BY <2>2 DEF RecoveryClicked, FacebookClicked
\* The form appears again.
  <2>3. CASE FacebookDialogEnds BY <2>3 DEF FacebookDialogEnds
  <2>4. CASE \E k \in Kinds : OtherError(k) BY <2>4 DEF OtherError
\* The callback is queued.
  <2>5. CASE \E k \in Kinds : AuthSucceeds(k)
    <3>1. succeeded' = succeeded + 1 /\ succeeded \in Nat BY <2>5 DEF AuthSucceeds, TypeOK
    <3>2. succeeded' > 0 BY <3>1
    <3> QED BY <3>2
\* The callback goes home, unless something covers the form.
  <2>6. CASE SuccessCallback BY <2>6 DEF SuccessCallback, GoToHome
  <2>7. CASE ViewDidAppear BY <2>7 DEF ViewDidAppear
  <2> QED BY <2>1, <2>2, <2>3, <2>4, <2>5, <2>6, <2>7 DEF TapOrScreen
<1> QED BY <1>3, <1>4, <1>5

LEMMA WrongPasswordKeepsPage == ASSUME PageInv, WrongPassword PROVE PageInv'
<1> USE LimitAssumption, DurationAssumption, PendingAssumption
<1>1. /\ TypeOK /\ WithinBound /\ WithinCountdown /\ SomethingTakesOff
      /\ pending["signIn"] > 0 /\ pending' = [pending EXCEPT !["signIn"] = @ - 1]
      /\ UNCHANGED <<selector, filled, succeeded, currentUser, dialog, presented, appearing>>
  BY DEF PageInv, WrongPassword, screenVars
<1>2. pending' \in [Kinds -> 0..MaxPending] /\ WithinBound' BY <1>1, OneLess
<1>3. SomethingTakesOff' BY <1>1 DEF SomethingTakesOff
<1>4. label' \in Labels
  BY DEF WrongPassword, FailedLoginAttempt, CountFailure, LockPage, StartTimer
<1>5. CASE CountFailure
  <2>1. /\ failedLoginAttempts' = failedLoginAttempts + 1
        /\ failedLoginAttempts + 1 < failedAttemptsLimit
        /\ UNCHANGED <<enabled, timerSeconds, timer, live, due, elapsed>>
    BY <1>5 DEF CountFailure
  <2>2. failedLoginAttempts' \in 0..(failedAttemptsLimit - 1) BY <1>1, <2>1 DEF TypeOK
  <2>3. TypeOK' BY <1>1, <1>2, <1>4, <2>1, <2>2 DEF TypeOK
  <2>4. WithinCountdown' BY <1>1, <2>1 DEF WithinCountdown
  <2> QED BY <1>2, <1>3, <2>3, <2>4 DEF PageInv
<1>6. CASE LockPage
  <2>1. /\ failedLoginAttempts' = 0 /\ enabled' = FALSE /\ due' = due
        /\ timerSeconds' = lockoutDurationInSeconds /\ elapsed' = 0
    BY <1>6 DEF LockPage, StartTimer
  <2>2. PICK t \in Timers \ live : timer' = t /\ live' = live \cup {t}
    BY <1>6 DEF LockPage, StartTimer
  <2>3. timer' \in live' /\ timer' \notin due' /\ live' \subseteq Timers /\ due' \subseteq live'
    BY <1>1, <2>1, <2>2 DEF TypeOK
  <2>4. /\ failedLoginAttempts' \in 0..(failedAttemptsLimit - 1) /\ elapsed' \in Nat
        /\ timerSeconds' \in 0..lockoutDurationInSeconds
    BY <2>1
  <2>5. enabled' \in BOOLEAN /\ timer' \in Timers \cup {NoTimer} BY <2>1, <2>2
  <2>6. TypeOK' BY <1>1, <1>2, <1>4, <2>3, <2>4, <2>5 DEF TypeOK
  <2>7. WithinCountdown' BY <2>1, <2>3 DEF WithinCountdown
  <2> QED BY <1>2, <1>3, <2>6, <2>7 DEF PageInv
<1> QED BY <1>5, <1>6 DEF WrongPassword, FailedLoginAttempt

\* An orphaned timer that fires only shortens the lockout.
LEMMA UpdateTimerKeepsPage ==
    ASSUME PageInv, NEW t \in Timers, UpdateTimer(t) PROVE PageInv'
<1> USE LimitAssumption, DurationAssumption
<1>1. /\ TypeOK /\ WithinBound /\ WithinCountdown /\ SomethingTakesOff /\ t \in due
      /\ UNCHANGED <<selector, filled, failedLoginAttempts, timer, elapsed, pending,
                     succeeded, currentUser, dialog, presented, appearing>>
  BY DEF PageInv, UpdateTimer, authVars, screenVars
<1>2. WithinBound' /\ SomethingTakesOff'
  BY <1>1 DEF WithinBound, Outstanding, SomethingTakesOff
<1>3. CASE LockoutOver(t)
  <2>1. /\ live' = live \ {timer} /\ due' = due \ {t, timer} /\ label' = "signIn"
        /\ enabled' = TRUE /\ timerSeconds' = timerSeconds
    BY <1>3 DEF LockoutOver
  <2>2. live' \subseteq Timers /\ due' \subseteq live' BY <1>1, <2>1 DEF TypeOK
  <2>3. TypeOK' BY <1>1, <2>1, <2>2 DEF TypeOK
  <2> QED BY <1>2, <2>1, <2>3 DEF PageInv, WithinCountdown
<1>4. CASE KeepCounting(t)
  <2>1. /\ timerSeconds >= 1 /\ timerSeconds' = timerSeconds - 1 /\ due' = due \ {t}
        /\ label' = "retry" /\ UNCHANGED <<live, enabled>>
    BY <1>4 DEF KeepCounting
  <2>2. timerSeconds' \in 0..lockoutDurationInSeconds BY <1>1, <2>1 DEF TypeOK
  <2>3. due' \subseteq live' BY <1>1, <2>1 DEF TypeOK
  <2>4. TypeOK' BY <1>1, <2>1, <2>2, <2>3 DEF TypeOK
  <2>5. WithinCountdown'
    <3> SUFFICES ASSUME ~enabled
                 PROVE  timer \in live /\ elapsed + timerSeconds' <= lockoutDurationInSeconds
      BY <1>1, <2>1 DEF WithinCountdown, TypeOK
    <3>1. timer \in live /\ elapsed + timerSeconds <= lockoutDurationInSeconds + 1
      BY <1>1 DEF WithinCountdown
    <3>2. elapsed \in Nat /\ timerSeconds \in Nat BY <1>1 DEF TypeOK
    <3> QED BY <2>1, <3>1, <3>2
  <2> QED BY <1>2, <2>4, <2>5 DEF PageInv
<1> QED BY <1>3, <1>4 DEF UpdateTimer

LEMMA NextSecondKeepsPage == ASSUME PageInv, NextSecond PROVE PageInv'
<1>1. /\ TypeOK /\ WithinBound /\ WithinCountdown /\ SomethingTakesOff
      /\ due = {} /\ due' = live /\ elapsed' = IF enabled THEN elapsed ELSE elapsed + 1
      /\ UNCHANGED <<selector, filled, enabled, label, failedLoginAttempts, timerSeconds,
                     timer, live, pending, succeeded, currentUser, dialog, presented, appearing>>
  BY DEF PageInv, NextSecond, formVars, authVars, screenVars
<1>2. TypeOK' BY <1>1 DEF TypeOK
<1>3. WithinBound' /\ SomethingTakesOff'
  BY <1>1 DEF WithinBound, Outstanding, SomethingTakesOff
<1>4. WithinCountdown'
  <2> SUFFICES ASSUME ~enabled
               PROVE  /\ timer \in live
                      /\ (elapsed + 1) + timerSeconds <= lockoutDurationInSeconds + 1
    BY <1>1 DEF WithinCountdown
  <2>1. timer \in live /\ elapsed + timerSeconds <= lockoutDurationInSeconds
    BY <1>1 DEF WithinCountdown
  <2>2. elapsed \in Nat /\ timerSeconds \in Nat BY <1>1 DEF TypeOK
  <2> QED BY <2>1, <2>2, DurationAssumption
<1> QED BY <1>2, <1>3, <1>4 DEF PageInv

\* Every step is one of four sorts.
LEMMA NextCases ==
    ASSUME Next
    PROVE  TapOrScreen \/ (\E t \in Timers : UpdateTimer(t)) \/ NextSecond \/ WrongPassword
BY DEF Next, TapOrScreen

LEMMA PageInvStep == ASSUME PageInv, [Next]_vars PROVE PageInv'
<1>1. CASE Next
  BY <1>1, NextCases, TapKeepsPage, UpdateTimerKeepsPage, NextSecondKeepsPage,
     WrongPasswordKeepsPage
<1>2. CASE UNCHANGED vars
  <2>1. /\ UNCHANGED <<selector, filled, enabled, label, failedLoginAttempts, timerSeconds,
                       timer, live, due, elapsed>>
        /\ UNCHANGED <<pending, succeeded, currentUser, dialog, presented, appearing>>
    BY <1>2 DEF vars, formVars, lockoutVars, authVars, screenVars
  <2>2. TypeOK' BY <2>1 DEF PageInv, TypeOK
  <2> QED BY <2>1, <2>2
          DEF PageInv, WithinBound, Outstanding, WithinCountdown, SomethingTakesOff
<1> QED BY <1>1, <1>2

LEMMA PageInvariant == Spec => []PageInv
<1>1. PageInv /\ [Next]_vars => PageInv' BY PageInvStep
<1> QED BY <1>1, InitPageInv, PTL DEF Spec, Safe

\* The page's state is well typed, its counters within the limits the code
\* tests, whatever the number of requests in flight.
THEOREM TypeCorrect == Spec => []TypeOK
<1>1. PageInv => TypeOK BY DEF PageInv
<1> QED BY <1>1, PageInvariant, PTL

\* A locked page, also one that was locked again while locked, has the timer of
\* its last lock running and is not locked longer than that one announced
\* (startTimer, updateTimer).
THEOREM LockIsTimedAlways == Spec => []LockIsTimed
<1>1. PageInv => LockIsTimed
  <2> SUFFICES ASSUME PageInv, ~enabled
               PROVE  timer \in live /\ elapsed <= lockoutDurationInSeconds + 1
    BY DEF LockIsTimed
  <2>1. timer \in live /\ elapsed + timerSeconds <= lockoutDurationInSeconds + 1
    BY DEF PageInv, WithinCountdown
  <2>2. elapsed \in Nat /\ timerSeconds \in Nat BY DEF PageInv, TypeOK
  <2> QED BY <2>1, <2>2, DurationAssumption
<1> QED BY <1>1, PageInvariant, PTL

\* No order of answers, dialogs and appearances leaves a signed-in user on the
\* form with nothing to come (handleCustomFBLogin, signInClicked, viewDidAppear).
THEOREM SomethingTakesOffAlways == Spec => []SomethingTakesOff
<1>1. PageInv => SomethingTakesOff BY DEF PageInv
<1> QED BY <1>1, PageInvariant, PTL

-----------------------------------------------------------------------------
(* The lockout, as long as the limit counts every request in flight. *)

LEMMA InitLockoutInv == Init => LockoutInv
BY InitTypes DEF Init, LockoutInv, TimerOff, NoSecondLock, CountKeepsTime

\* A wrong password below the limit only counts; it reaches the limit on an
\* open page only, and then locks it with one new timer.
LEMMA WrongPasswordStep ==
    ASSUME LockoutInv, MaxPending <= failedAttemptsLimit, WrongPassword
    PROVE  \/ /\ failedLoginAttempts + 1 < failedAttemptsLimit
              /\ failedLoginAttempts' = failedLoginAttempts + 1
              /\ UNCHANGED <<enabled, timerSeconds, timer, live, due, elapsed>>
           \/ /\ enabled /\ ~enabled'
              /\ failedLoginAttempts + 1 = failedAttemptsLimit
              /\ failedLoginAttempts' = 0
              /\ timerSeconds' = lockoutDurationInSeconds
              /\ elapsed' = 0 /\ due' = {} /\ live' = {timer'} /\ timer' \in Timers
<1> USE LimitAssumption, PendingAssumption DEF LockoutInv, TypeOK
<1>1. pending["signIn"] > 0 /\ FailedLoginAttempt BY DEF WrongPassword
<1>2. CASE failedLoginAttempts + 1 < failedAttemptsLimit
  BY <1>1, <1>2 DEF FailedLoginAttempt, CountFailure, LockPage
<1>3. CASE failedLoginAttempts + 1 >= failedAttemptsLimit
  <2>1. enabled BY <1>1, <1>3 DEF NoSecondLock
  <2>2. live = {} /\ due = {} BY <2>1 DEF TimerOff
  <2>3. failedLoginAttempts' = 0 /\ enabled' = FALSE /\ StartTimer
    BY <1>1, <1>3 DEF FailedLoginAttempt, CountFailure, LockPage
  <2>4. PICK t \in Timers : timer' = t /\ live' = live \cup {t}
    BY <2>3 DEF StartTimer
  <2>5. live' = {timer'} /\ timer' \in Timers BY <2>2, <2>4
  <2>6. failedLoginAttempts + 1 = failedAttemptsLimit BY <1>3
  <2>7. ~enabled' BY <2>3
  <2>8. timerSeconds' = lockoutDurationInSeconds /\ elapsed' = 0 /\ due' = {}
    BY <2>2, <2>3 DEF StartTimer
  <2> QED BY <2>1, <2>3, <2>5, <2>6, <2>7, <2>8
<1> QED BY <1>2, <1>3

LEMMA WrongPasswordKeeps ==
    ASSUME LockoutInv, MaxPending <= failedAttemptsLimit, WrongPassword
    PROVE  LockoutInv'
<1> USE LimitAssumption, DurationAssumption, PendingAssumption
<1>0. /\ TypeOK /\ WithinBound /\ TimerOff /\ NoSecondLock /\ CountKeepsTime
      /\ pending["signIn"] > 0 /\ pending' = [pending EXCEPT !["signIn"] = @ - 1]
      /\ UNCHANGED <<selector, filled, succeeded, currentUser, dialog, presented, appearing>>
  BY DEF LockoutInv, WrongPassword, screenVars
<1>1. /\ pending' \in [Kinds -> 0..MaxPending] /\ WithinBound'
      /\ pending'["signIn"] = pending["signIn"] - 1
  <2>1. pending' \in [Kinds -> 0..MaxPending] /\ WithinBound' BY <1>0, OneLess
  <2> QED BY <1>0, <2>1 DEF TypeOK
<1>2. label' \in Labels
  BY DEF WrongPassword, FailedLoginAttempt, CountFailure, LockPage, StartTimer
<1>3. CASE /\ failedLoginAttempts + 1 < failedAttemptsLimit
           /\ failedLoginAttempts' = failedLoginAttempts + 1
           /\ UNCHANGED <<enabled, timerSeconds, timer, live, due, elapsed>>
  <2>1. TypeOK' BY <1>0, <1>1, <1>2, <1>3 DEF TypeOK
  <2>2. TimerOff' /\ CountKeepsTime' BY <1>0, <1>3 DEF TimerOff, CountKeepsTime
  <2>3. NoSecondLock' BY <1>0, <1>1, <1>3 DEF NoSecondLock, TypeOK
  <2> QED BY <1>1, <2>1, <2>2, <2>3 DEF LockoutInv
<1>4. CASE /\ enabled /\ ~enabled'
           /\ failedLoginAttempts + 1 = failedAttemptsLimit
           /\ failedLoginAttempts' = 0
           /\ timerSeconds' = lockoutDurationInSeconds
           /\ elapsed' = 0 /\ due' = {} /\ live' = {timer'} /\ timer' \in Timers
  <2>0. enabled' \in BOOLEAN BY <1>0 DEF TypeOK, WrongPassword, FailedLoginAttempt, CountFailure, LockPage
  <2>1. TypeOK' BY <1>0, <1>1, <1>2, <1>4, <2>0 DEF TypeOK
  <2>2. TimerOff' /\ CountKeepsTime' BY <1>4 DEF TimerOff, CountKeepsTime
  <2>3. NoSecondLock' BY <1>0, <1>1, <1>4 DEF NoSecondLock, TypeOK
  <2> QED BY <1>1, <2>1, <2>2, <2>3 DEF LockoutInv
<1> QED BY <1>3, <1>4, WrongPasswordStep

\* On a locked page the timer that fires is the one the property refers to:
\* opening the page leaves no timer.
LEMMA UpdateTimerKeeps ==
    ASSUME LockoutInv, NEW t \in Timers, UpdateTimer(t) PROVE LockoutInv'
<1> USE LimitAssumption, DurationAssumption DEF LockoutInv
<1>0. UNCHANGED <<selector, filled, failedLoginAttempts, timer, elapsed, pending,
                  succeeded, currentUser, dialog, presented, appearing>>
  BY DEF UpdateTimer, LockoutOver, KeepCounting, authVars, screenVars
<1>1. ~enabled /\ live = {timer} /\ t = timer /\ due = {timer}
  BY DEF UpdateTimer, LockoutOver, KeepCounting, TimerOff, TypeOK
<1>2. elapsed + timerSeconds = lockoutDurationInSeconds + 1
  BY <1>1 DEF CountKeepsTime
<1>3. WithinBound' BY <1>0 DEF WithinBound, Outstanding
<1>4. CASE timerSeconds < 1
  <2>1. live' = {} /\ due' = {} /\ label' = "signIn" /\ enabled' = TRUE
        /\ timerSeconds' = timerSeconds
    BY <1>1, <1>4 DEF UpdateTimer, LockoutOver, KeepCounting, TypeOK
  <2>2. TypeOK' BY <1>0, <2>1 DEF TypeOK
  <2> QED BY <1>3, <2>1, <2>2 DEF TimerOff, NoSecondLock, CountKeepsTime
<1>5. CASE timerSeconds >= 1
  <2>1. live' = live /\ due' = {} /\ label' = "retry" /\ enabled' = enabled
        /\ timerSeconds' = timerSeconds - 1
    BY <1>1, <1>5 DEF UpdateTimer, LockoutOver, KeepCounting, TypeOK
  <2>2. TypeOK' BY <1>0, <1>5, <2>1 DEF TypeOK
  <2>3. TimerOff' BY <1>0, <1>1, <2>1 DEF TimerOff
  <2>4. NoSecondLock' BY <1>0, <2>1 DEF NoSecondLock
  <2>5. CountKeepsTime' BY <1>0, <1>2, <2>1 DEF CountKeepsTime, TypeOK
  <2> QED BY <1>3, <2>2, <2>3, <2>4, <2>5
<1> QED BY <1>4, <1>5 DEF TypeOK

LEMMA NextSecondKeeps == ASSUME LockoutInv, NextSecond PROVE LockoutInv'
<1> USE LimitAssumption, DurationAssumption DEF LockoutInv
<1>0. UNCHANGED <<selector, filled, enabled, label, failedLoginAttempts, timerSeconds,
                  timer, live, pending, succeeded, currentUser, dialog, presented, appearing>>
  BY DEF NextSecond, formVars, authVars, screenVars
<1>1. live # {} /\ due = {} /\ due' = live BY DEF NextSecond
<1>2. ~enabled BY <1>1 DEF TimerOff
<1>3. elapsed' = elapsed + 1 BY <1>2 DEF NextSecond
<1>4. TypeOK' BY <1>0, <1>1, <1>3 DEF TypeOK
<1>5. WithinBound' BY <1>0 DEF WithinBound, Outstanding
<1>6. TimerOff' BY <1>0 DEF TimerOff
<1>7. NoSecondLock' BY <1>0 DEF NoSecondLock
<1>8. CountKeepsTime' BY <1>0, <1>1, <1>2, <1>3 DEF CountKeepsTime, TypeOK
<1> QED BY <1>4, <1>5, <1>6, <1>7, <1>8

LEMMA TapKeeps == ASSUME LockoutInv, TapOrScreen PROVE LockoutInv'
<1> USE LimitAssumption DEF LockoutInv
<1>0. UNCHANGED <<enabled, failedLoginAttempts, timerSeconds, timer, live, due, elapsed>>
  BY TapKeepsLockout DEF lockoutVars
<1>1. RestTypes' BY TapTypes
<1>2. TypeOK' BY <1>0, <1>1 DEF TypeOK, RestTypes
<1>3. WithinBound' BY <1>1 DEF RestTypes
<1>4. TimerOff' BY <1>0 DEF TimerOff
<1>5. NoSecondLock'
  <2> SUFFICES ASSUME ~enabled'
               PROVE  failedLoginAttempts' + pending'["signIn"] < failedAttemptsLimit
    BY DEF NoSecondLock
  <2>1. ~enabled BY <1>0
  <2>2. pending'["signIn"] <= pending["signIn"] BY <2>1, TapSendsNothingWhenLocked
  <2>3. failedLoginAttempts + pending["signIn"] < failedAttemptsLimit
    BY <2>1 DEF NoSecondLock
  <2>4. pending["signIn"] \in Nat /\ pending'["signIn"] \in Nat
    BY <1>1, PendingAssumption DEF TypeOK, RestTypes
  <2> QED BY <1>0, <2>2, <2>3, <2>4 DEF TypeOK
<1>6. CountKeepsTime' BY <1>0 DEF CountKeepsTime
<1> QED BY <1>2, <1>3, <1>4, <1>5, <1>6

LEMMA LockoutInvStep ==
    ASSUME MaxPending <= failedAttemptsLimit, LockoutInv, [Next]_vars
    PROVE  LockoutInv'
<1>1. CASE Next
  BY <1>1, NextCases, TapKeeps, UpdateTimerKeeps, NextSecondKeeps, WrongPasswordKeeps
<1>2. CASE UNCHANGED vars
  <2>1. /\ UNCHANGED <<selector, filled, enabled, label, failedLoginAttempts, timerSeconds,
                       timer, live, due, elapsed>>
        /\ UNCHANGED <<pending, succeeded, currentUser, dialog, presented, appearing>>
    BY <1>2 DEF vars, formVars, lockoutVars, authVars, screenVars
  <2>2. TypeOK' BY <2>1 DEF LockoutInv, TypeOK
  <2> QED BY <2>1, <2>2
          DEF LockoutInv, WithinBound, Outstanding, TimerOff, NoSecondLock, CountKeepsTime
<1> QED BY <1>1, <1>2

-----------------------------------------------------------------------------
(* The theorems. *)

LEMMA LockoutInvariant ==
    ASSUME MaxPending <= failedAttemptsLimit PROVE Spec => []LockoutInv
<1>1. Init => LockoutInv BY InitLockoutInv
<1>2. LockoutInv /\ [Next]_vars => LockoutInv' BY LockoutInvStep
<1> QED BY <1>1, <1>2, PTL DEF Spec, Safe

\* A page is locked exactly while one timer runs, the timer that will open it
\* (failedLoginAttempt, startTimer, updateTimer).
THEOREM TimerOffAlways ==
    ASSUME MaxPending <= failedAttemptsLimit PROVE Spec => []TimerOff
<1>1. LockoutInv => TimerOff BY DEF LockoutInv
<1> QED BY <1>1, LockoutInvariant, PTL

\* A step that opens a locked page is the timer's, at zero.
LEMMA OpeningStep ==
    ASSUME LockoutInv, MaxPending <= failedAttemptsLimit, [Next]_vars, ~enabled, enabled'
    PROVE  timerSeconds = 0 /\ elapsed = lockoutDurationInSeconds + 1
<1>1. ~(UNCHANGED vars) BY DEF vars, formVars
<1>2. ~TapOrScreen BY TapKeepsLockout
<1>3. ~NextSecond BY DEF NextSecond, formVars
<1>4. ~WrongPassword BY WrongPasswordStep
<1>5. PICK t \in Timers : UpdateTimer(t) BY <1>1, <1>2, <1>3, <1>4, NextCases
<1>6. due # {} BY <1>5 DEF UpdateTimer, LockoutOver, KeepCounting
<1>7. timerSeconds < 1 BY <1>5 DEF UpdateTimer, LockoutOver, KeepCounting
<1>8. timerSeconds = 0 BY <1>7, DurationAssumption DEF LockoutInv, TypeOK
<1> QED BY <1>6, <1>8, DurationAssumption DEF LockoutInv, CountKeepsTime, TypeOK

\* No lockout is cut short or drawn out: the page opens in the second after
\* "Retry in 0 seconds" (startTimer, updateTimer).
THEOREM FullLockoutAlways ==
    ASSUME MaxPending <= failedAttemptsLimit PROVE Spec => FullLockout
<1>1. LockoutInv /\ [Next]_vars
        => [~enabled /\ enabled' => elapsed = lockoutDurationInSeconds + 1]_vars
  BY OpeningStep
<1> QED BY <1>1, LockoutInvariant, PTL DEF Spec, Safe, FullLockout

\* The page implements the lockout specification: its initial states are, and
\* each step is a step of that specification or leaves its state alone.
THEOREM LockoutImplemented ==
    ASSUME MaxPending <= failedAttemptsLimit PROVE Spec => ImplementsLockout
<1> USE LimitAssumption, DurationAssumption
        DEF LockoutView!Init, LockoutView!Next, LockoutView!absVars, LockoutView!Count,
            LockoutView!Lock, LockoutView!CountDown
<1>1. Init => LockoutView!Init BY DEF Init
<1>2. ASSUME LockoutInv, [Next]_vars
      PROVE  [LockoutView!Next]_(LockoutView!absVars)
  <2> USE <1>2 DEF LockoutInv, TypeOK
  <2>1. CASE UNCHANGED vars
    BY <2>1 DEF vars, formVars, lockoutVars
  <2>2. CASE TapOrScreen
    BY <2>2, TapKeepsLockout DEF lockoutVars
  <2>3. CASE NextSecond
    BY <2>3 DEF NextSecond, formVars
  <2>4. CASE WrongPassword
    BY <2>4, WrongPasswordStep
  <2>5. ASSUME NEW t \in Timers, UpdateTimer(t) PROVE LockoutView!CountDown
    <3>1. ~enabled BY <2>5 DEF UpdateTimer, LockoutOver, KeepCounting, TimerOff
    <3>2. failedLoginAttempts' = failedLoginAttempts BY <2>5 DEF UpdateTimer, LockoutOver, KeepCounting
    <3>3. CASE timerSeconds < 1
      <4>1. timerSeconds = 0 /\ enabled' BY <2>5, <3>3 DEF UpdateTimer, LockoutOver, KeepCounting
      <4> QED BY <3>1, <3>2, <4>1
    <3>4. CASE timerSeconds >= 1
      <4>1. enabled' = enabled /\ timerSeconds' = timerSeconds - 1
        BY <2>5, <3>4 DEF UpdateTimer, LockoutOver, KeepCounting
      <4> QED BY <3>1, <3>2, <4>1
    <3> QED BY <3>3, <3>4
  <2> QED BY <2>1, <2>2, <2>3, <2>4, <2>5, NextCases
<1> QED
  BY <1>1, <1>2, LockoutInvariant, PTL DEF Spec, Safe, ImplementsLockout, LockoutView!Safe
=============================================================================
