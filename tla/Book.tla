-------------------------------- MODULE Book --------------------------------
(***************************************************************************)
(* What the contacts tab promises about the user's contacts, said without  *)
(* writes kept, messages, connections or screens: a save, a deletion or a  *)
(* rename changes the book in one step and nothing else does, except that  *)
(* a killed app may bring a name back to something the user has had there  *)
(* since the book was last safe.  Contacts implements this.                *)
(***************************************************************************)
CONSTANTS Keys,    \* names
          Values,  \* user names
          Absent   \* no such contact

VARIABLES
    book,      \* the contact under each name, as the user has left it
    possible   \* what a kill now could bring back, per name

bookVars == <<book, possible>>

Books == [Keys -> Values \cup {Absent}]

\* The books a kill could leave.
Found(p) == {b \in Books : \A k \in Keys : b[k] \in p[k]}

Init ==
    /\ book \in Books
    /\ possible = [k \in Keys |-> {book[k]}]

\* The user adds, changes or, with Absent, deletes a contact.
Edit(name, value) ==
    /\ book' = [book EXCEPT ![name] = value]
    /\ possible' = [possible EXCEPT ![name] = @ \cup {value}]

\* Both names change in one step.
Rename(old, new, value) ==
    /\ old # new
    /\ book' = [book EXCEPT ![new] = value, ![old] = Absent]
    /\ possible' = [possible EXCEPT ![new] = @ \cup {value}, ![old] = @ \cup {Absent}]

\* Some of the past can no longer come back; the present always can.
Settle ==
    /\ UNCHANGED book
    /\ possible' \in {p \in [Keys -> SUBSET (Values \cup {Absent})] :
                        book \in Found(p) /\ \A k \in Keys : p[k] \subseteq possible[k]}

\* A kill: every name is found in one of the states it can be in.
Forget ==
    /\ book' \in Found(possible)
    /\ possible' = [k \in Keys |-> {book'[k]}]

Next ==
    \/ Settle
    \/ \E name \in Keys, value \in Values \cup {Absent} : Edit(name, value)
    \/ \E old, new \in Keys, value \in Values : Rename(old, new, value)
    \/ Forget

Spec == Init /\ [][Next]_bookVars
=============================================================================
