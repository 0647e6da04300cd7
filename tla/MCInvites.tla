----------------------------- MODULE MCInvites -----------------------------
(* Invites with two names, so that the guest can be renamed, and two events, *)
(* so that cells can change rows.                                            *)
EXTENDS Invites

CONSTANTS mia, zoe, gala, picnic

MCUsernames == {mia, zoe}
MCKnown == {mia}
MCEvents == {gala, picnic}
MCScreenRows == [host |-> 2, guest |-> 1]
MCTallScreens == [host |-> 2, guest |-> 2]
MCMaxWrites == [host |-> 2, guest |-> 1]
=============================================================================
