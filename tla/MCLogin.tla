------------------------------ MODULE MCLogin ------------------------------
(* Login on small instances: the limit of the code, a short countdown. *)
EXTENDS Login, TLC

CONSTANTS t1, t2, t3

MCTimers == {t1, t2, t3}
TimerSymmetry == Permutations(MCTimers)
=============================================================================
