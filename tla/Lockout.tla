------------------------------ MODULE Lockout ------------------------------
(***************************************************************************)
(* What the login page promises about repeated wrong passwords: after      *)
(* Limit of them the page locks, counts Duration seconds down once per     *)
(* second, and opens again.  Nothing is said here of buttons, timers or    *)
(* requests in flight; the module Login implements this specification.     *)
(***************************************************************************)
EXTENDS Naturals

CONSTANTS Limit,     \* wrong passwords that lock the page
          Duration   \* seconds of the countdown

VARIABLES failures,  \* wrong passwords counted since the last lock
          remaining  \* 0: open; otherwise ticks until the page opens

absVars == <<failures, remaining>>

Init == failures = 0 /\ remaining = 0

\* A wrong password below the limit, the page open or already locked.
Count == /\ failures + 1 < Limit
         /\ failures' = failures + 1
         /\ UNCHANGED remaining

\* The wrong password that reaches the limit; never while locked.
Lock == /\ remaining = 0
        /\ failures + 1 = Limit
        /\ failures' = 0
        /\ remaining' = Duration + 1

\* One second of the countdown; the last one opens the page.
CountDown == /\ remaining > 0
             /\ remaining' = remaining - 1
             /\ UNCHANGED failures

Next == Count \/ Lock \/ CountDown

Safe == Init /\ [][Next]_absVars

\* The countdown does not stop.
Running == WF_absVars(CountDown)

Spec == Safe /\ Running
=============================================================================
