------------------------------ MODULE Contacts ------------------------------
(***************************************************************************)
(* The contacts tab on one device: ContactsViewController with the detail  *)
(* and the add/edit screens it opens, over the location uid/Contacts whose *)
(* keys are the contacts' names and whose values are their user names.     *)
(***************************************************************************)
EXTENDS Database

CONSTANTS Slashed,    \* the names with a / in them
          EmptyText,  \* an empty user name field; stored as ""
          MaxRows     \* bound: rows of the list with those about to come

ASSUME SlashedAssumption == Slashed \subseteq Keys
ASSUME EmptyTextAssumption == EmptyText \in Values
ASSUME MaxRowsAssumption == MaxRows \in Nat

VARIABLES
    contacts,   \* rows of the table
    screen,     \* the screen in front
    row,        \* indexPath the detail screen was given; 0: none
    shown,      \* contact the detail screen was given
    told        \* history: names the observers were told of

uiVars == <<contacts, screen, row, shown>>
vars == <<dbVars, uiVars, told>>

Contact == [name : Keys, username : Values]
NoContact == [name |-> Absent, username |-> Absent]
Screens == {"list", "detail", "add", "edit"}

TypeOK ==
    /\ DatabaseTypeOK
    /\ contacts \in Seq(Contact)
    /\ screen \in Screens
    /\ row \in Nat
    /\ shown \in Contact \cup {NoContact}
    /\ told \subseteq Keys

AtList == screen' = "list" /\ row' = 0 /\ shown' = NoContact

Init ==
    /\ DatabaseInit
    /\ contacts = <<>> /\ screen = "list" /\ row = 0 /\ shown = NoContact
    /\ told = {}

\* The app ends and is started again; viewDidLoad observes anew.
Restart ==
    /\ ForgetAll
    /\ contacts' = <<>> /\ told' = {}
    /\ AtList

Killed == Restart /\ drops < MaxDrops /\ drops' = drops + 1

-----------------------------------------------------------------------------
(* viewDidLoad's observers. *)

InsertChildFirst ==   \* mutant: a new row is put on top
    /\ queue # <<>>
    /\ queue' = Tail(queue)
    /\ LET e == Head(queue)
       IN  IF e.kind = "added"
           THEN /\ contacts' = <<[name |-> e.key, username |-> e.value]>> \o contacts
                /\ told' = told \cup {e.key}
           ELSE contacts' = contacts /\ told' = told \ {e.key}
    /\ UNCHANGED <<server, cache, loaded, calls, puts, applied, down, connected, repeats, drops>>
    /\ UNCHANGED <<screen, row, shown>>

\* A name with a / is two steps of the child's path: the child then holds what
\* lies below it, not a string, and childAdded's cast of it is unwrapped.
Unreadable(e) == e.kind = "added" /\ e.key \in Slashed

\* childAdded appends a row; childRemoved only reloads the table.
ChildEvent ==
    /\ queue # <<>> /\ ~Unreadable(Head(queue))
    /\ queue' = Tail(queue)
    /\ LET e == Head(queue)
       IN  IF e.kind = "added"
           THEN /\ contacts' = Append(contacts, [name |-> e.key, username |-> e.value])
                /\ told' = told \cup {e.key}
           ELSE contacts' = contacts /\ told' = told \ {e.key}
    /\ UNCHANGED <<server, cache, loaded, calls, puts, applied, down, connected, repeats, drops>>
    /\ UNCHANGED <<screen, row, shown>>

\* The app ends now, and at every start while the contact is stored.
ChildEventFails ==
    /\ queue # <<>> /\ Unreadable(Head(queue))
    /\ Restart /\ UNCHANGED drops

-----------------------------------------------------------------------------
(* Taps. *)

OpenDetail ==
    /\ screen = "list"
    /\ \E i \in DOMAIN contacts : row' = i /\ shown' = contacts[i]
    /\ screen' = "detail"
    /\ UNCHANGED <<dbVars, contacts, told>>

OpenAdd ==
    /\ screen = "list"
    /\ screen' = "add"
    /\ UNCHANGED <<dbVars, contacts, row, shown, told>>

OpenEdit ==
    /\ screen = "detail"
    /\ screen' = "edit"
    /\ UNCHANGED <<dbVars, contacts, row, shown, told>>

\* done, and close on the add/edit screen (its fields emptied, the unwind
\* segue changes nothing).
Leave ==
    /\ screen # "list"
    /\ AtList
    /\ UNCHANGED <<dbVars, contacts, told>>

Room ==
    /\ Len(calls) + Len(puts) < MaxPuts - 1
    /\ Len(contacts) + Len(queue) + Len(calls) < MaxRows

\* deleteContact and unwindToContactList from the detail screen.
DeleteContact ==
    /\ screen = "detail" /\ Room
    /\ contacts' = RemoveAt(contacts, row)
    /\ Call(<<[key |-> contacts[row].name, value |-> Absent, to |-> Absent]>>)
    /\ AtList
    /\ UNCHANGED told

\* What save calls for: the contact, then, in a rename, the removal of the old
\* name.
SaveWritesSwapped(name, username) ==   \* mutant: the old name is removed first
    (IF screen = "edit" /\ name # shown.name
     THEN <<[key |-> shown.name, value |-> Absent, to |-> name]>> ELSE <<>>)
    \o <<[key |-> name, value |-> username, to |-> Absent]>>

SaveWritesUnguarded(name, username) ==   \* mutant: tempName # nil is not asked
    <<[key |-> name, value |-> username, to |-> Absent]>>
    \o (IF name # shown.name
        THEN <<[key |-> shown.name, value |-> Absent, to |-> name]>> ELSE <<>>)

SaveWrites(name, username) ==
    <<[key |-> name, value |-> username, to |-> Absent]>>
    \o (IF screen = "edit" /\ name # shown.name
        THEN <<[key |-> shown.name, value |-> Absent, to |-> name]>> ELSE <<>>)

\* What unwindToContactList adds: the same contact once more, if new and filled.
UnwindWrites(name, username) ==
    IF screen = "add" /\ username # EmptyText
    THEN <<[key |-> name, value |-> username, to |-> Absent]>> ELSE <<>>

\* The rows that bear a name, in their order.
RowsNamed(rows, name) ==
    LET keep == {i \in DOMAIN rows : rows[i].name = name}
    IN  [n \in 1..Cardinality(keep) |->
            rows[CHOOSE i \in keep : Cardinality({j \in keep : j <= i}) = n]]

\* The rows after it: the edited row is replaced when both fields are filled;
\* after a rename only rows that bear the old name stay.
RowsAfterSave(name, username) ==
    LET edited == IF screen = "edit" /\ username # EmptyText
                  THEN [contacts EXCEPT ![row] = [name |-> name, username |-> username]]
                  ELSE contacts
    IN  IF screen = "edit" /\ name # shown.name
        THEN RowsNamed(edited, shown.name)
        ELSE edited

\* save and unwindToContactList from the add/edit screen.
Save(name, username) ==
    /\ screen \in {"add", "edit"} /\ Room
    /\ Call(SaveWrites(name, username) \o UnwindWrites(name, username))
    /\ contacts' = RowsAfterSave(name, username)
    /\ AtList
    /\ UNCHANGED told

\* save with a name the database refuses (empty, or with one of . # $ [ ]):
\* child(_:) raises an exception nothing catches.
SaveIllegalName ==
    /\ screen \in {"add", "edit"}
    /\ Killed

-----------------------------------------------------------------------------
Next ==
    \/ RunCall /\ UNCHANGED <<uiVars, told>>
    \/ Connect /\ UNCHANGED <<uiVars, told>>
    \/ Disconnect /\ UNCHANGED <<uiVars, told>>
    \/ Deliver /\ UNCHANGED <<uiVars, told>>
    \/ ServerApplies /\ UNCHANGED <<uiVars, told>>
    \/ ChildEvent \/ ChildEventFails
    \/ OpenDetail \/ OpenAdd \/ OpenEdit \/ Leave \/ DeleteContact
    \/ \E name \in Keys, username \in Values : Save(name, username)
    \/ SaveIllegalName \/ Killed

\* The two queues run, the SDK reconnects and the server answers; nothing is
\* assumed of the user.
Fairness ==
    /\ WF_vars(RunCall /\ UNCHANGED <<uiVars, told>>)
    /\ WF_vars(Connect /\ UNCHANGED <<uiVars, told>>)
    /\ WF_vars(Deliver /\ UNCHANGED <<uiVars, told>>)
    /\ WF_vars(ServerApplies /\ UNCHANGED <<uiVars, told>>)
    /\ WF_vars(ChildEvent \/ ChildEventFails)

Safe == Init /\ [][Next]_vars
Spec == Safe /\ Fairness

-----------------------------------------------------------------------------
(* Properties. *)

\* The detail screen's index still finds the contact it shows, whatever
\* arrived since: Delete deletes, and Save replaces, the row the user sees.
RowShown ==
    screen \in {"detail", "edit"} => row \in DOMAIN contacts /\ contacts[row] = shown

\* The events the screen is told of, by its own writes, the first load and the
\* server's echoes together, are the history of the names it sees: none is lost
\* or raised twice, also when writes, messages and reconnections are mixed.
ContactsLocation == INSTANCE Location
                        WITH view <- {k \in Keys : View[k] # Absent}
ImplementsLocation == ContactsLocation!Spec

\* The server lets a name go only when the user deleted it, or when the name
\* it was changed to is already there: a kill or a lost connection in the
\* middle of a rename may leave both names, never neither.  (A removal that is
\* carried out a second time, after a lost acknowledgement, is not covered: it
\* may run before the writes that followed it are repeated.)
RenameKeepsContact ==
    [][\A k \in Keys : server[k] # Absent /\ server'[k] = Absent /\ applied >= repeats =>
          LET p == puts[applied + 1]
          IN  p.key = k /\ (p.to = Absent \/ server[p.to] # Absent)]_vars

\* Saves, deletions and renames take effect at once and stay: the writes kept,
\* on top of what the server stores, always are the book as the user left it,
\* and a killed app finds each name as the server has it or as a write still
\* under way would have left it.
Unsure == puts \o calls
ContactBook ==
    INSTANCE Book WITH
        book     <- Overlay(server, Unsure),
        possible <- [k \in Keys |->
                       {server[k]} \cup {p.value : p \in {q \in ToSet(Unsure) : q.key = k}}]
ImplementsBook == ContactBook!Spec

\* At rest the tab was told of exactly the names the server stores, after any
\* mixture of writes, lost connections, repeated writes and events.
ToldIsStored ==
    loaded /\ calls = <<>> /\ puts = <<>> /\ queue = <<>> =>
        told = {k \in Keys : server[k] # Absent}

\* At rest the table has a row for each contact ("number of rows (number of
\* contacts we have!)", ContactsViewController).
RowsAreContacts ==
    screen = "list" /\ loaded /\ calls = <<>> /\ queue = <<>> =>
        Len(contacts) = Cardinality({k \in Keys : View[k] # Absent})
=============================================================================
