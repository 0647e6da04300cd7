------------------------------ MODULE MCEvents ------------------------------
(* Events with two ordinary names, which is what a rename needs, and one    *)
(* with a / in it.                                                          *)
EXTENDS Events

CONSTANTS gala, picnic, slash

MCNames == {gala, picnic, slash}
MCSlashed == {slash}
=============================================================================
