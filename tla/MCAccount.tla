----------------------------- MODULE MCAccount -----------------------------
(* Account with two accounts and one new name and address. *)
EXTENDS Account

CONSTANTS ann, bob, name1, email1

MCAccounts == {ann, bob}
MCNames == {name1}
MCEmails == {email1}
=============================================================================
