----------------------------- MODULE MCContacts -----------------------------
(* Contacts with a few names; u is a user name, EmptyText the empty one. *)
EXTENDS Contacts

CONSTANTS ann, bob, u

MCKeys == {ann, bob}
MCSlashed == {bob}
MCValues == {u, EmptyText}
=============================================================================
