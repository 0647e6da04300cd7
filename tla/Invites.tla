------------------------------ MODULE Invites ------------------------------
(***************************************************************************)
(* A host and a guest.  The host picks contacts for an event in            *)
(* InviteSendTableViewController and writes username/Invites/event; the    *)
(* guest's InviteTableViewController lists what is at its own displayName  *)
(* and writes its answers there.                                           *)
(*                                                                         *)
(* The guest listens at the displayName of the moment its list was loaded  *)
(* and answers at the present one.  Nobody removes an invitation and no    *)
(* screen observes a changed value, so of the guest's copy of the location *)
(* only which events it knows matters: they are its rows.  A disconnection *)
(* is a delay until the reconnection, which repeats the listen and the     *)
(* writes without an acknowledgement (the module Database has the details).*)
(*                                                                         *)
(* Table cells are reused: reloadData hands the visible cells out again in *)
(* an order UIKit does not promise, with the accessory they have, and so   *)
(* does scrolling in a list longer than the screen.  A row out of sight is *)
(* given the accessory of a cell not in use.                               *)
(***************************************************************************)
EXTENDS Naturals, Sequences, SequencesExt, FiniteSets

CONSTANTS Usernames,  \* display names
          Known,      \* those the host has contacts for
          Events,     \* names of events
          Refused,    \* a contact's user name that no path may have: one of . # $ [ ] in it
          NoEvent,
          ScreenRows, \* rows that fit on the screen of each device
          MaxContacts,\* bound: rows of the send screen
          MaxWrites,  \* bound: writes of each device without acknowledgement
          MaxSends,   \* bound: invitations written by Save
          MaxMishaps  \* bound: reconnections, kills and renames

ASSUME NamesAssumption ==
    /\ IsFiniteSet(Usernames) /\ Known \subseteq Usernames /\ Refused \notin Usernames
    /\ IsFiniteSet(Events) /\ NoEvent \notin Events
ASSUME BoundsAssumption ==
    /\ ScreenRows \in [{"host", "guest"} -> Nat] /\ MaxContacts \in Nat
    /\ MaxWrites \in [{"host", "guest"} -> Nat] /\ MaxSends \in Nat /\ MaxMishaps \in Nat

VARIABLES
    \* the host's send screen
    event,         \* the event people are invited to; NoEvent: screen closed
    contacts,      \* rows: the user name of each contact
    hasCheckmark,
    hostCells,     \* accessory of the cell of each row
    \* the guest's list
    displayName,   \* the guest's name now
    observed,      \* the name the list was loaded for
    requests,      \* rows
    guestCells,
    inbox,         \* children of the observed location on their way
    accepts,        \* history: events listed as accepted or last tapped so
    \* writes and server
    puts,          \* per device, without acknowledgement, oldest first
    applied,       \* per device, how many of them the server carried out
    invites,       \* what the server stores
    again,         \* history: events somebody was invited to a second time
    sends,
    mishaps

hostVars == <<event, contacts, hasCheckmark, hostCells>>
guestVars == <<displayName, observed, requests, guestCells, inbox, accepts>>
netVars == <<puts, applied, invites>>
counters == <<again, sends, mishaps>>
vars == <<hostVars, guestVars, netVars, counters>>

Devices == {"host", "guest"}
Answers == {"open", "accepted"}    \* false and true in the database
Put == [to : Usernames, event : Events, answer : Answers]
Request == [name : Events, accepted : BOOLEAN]
News == [event : Events, answer : Answers]

TypeOK ==
    /\ event \in Events \cup {NoEvent}
    /\ contacts \in Seq(Known \cup {Refused})
    /\ hasCheckmark \in [1..Len(contacts) -> 0..1]
    /\ hostCells \in [1..Len(contacts) -> BOOLEAN]
    /\ displayName \in Usernames /\ observed \in Usernames
    /\ requests \in Seq(Request)
    /\ guestCells \in [1..Len(requests) -> BOOLEAN]
    /\ inbox \in Seq(News)
    /\ puts \in [Devices -> Seq(Put)]
    /\ applied \in [Devices -> Nat] /\ \A d \in Devices : applied[d] <= Len(puts[d])
    /\ invites \in [Usernames -> [Events -> Answers \cup {"none"}]]
    /\ accepts \subseteq Events /\ again \subseteq Events
    /\ sends \in 0..MaxSends /\ mishaps \in 0..MaxMishaps

Listed == {requests[i].name : i \in DOMAIN requests}
Coming == {inbox[i].event : i \in DOMAIN inbox}

\* The accessories after a reload: those of the old cells, on any rows.
Checked(cells) == Cardinality({i \in DOMAIN cells : cells[i]})
Reused(cells, n) == {c \in [1..n -> BOOLEAN] : Checked(c) = Checked(cells)}

\* The answer to a listen: a child the client does not know is news.
ListenForgetting(user, known) ==   \* mutant: the client does not know its cache
    LET stored == {e \in Events : invites[user][e] # "none"}
    IN  [i \in 1..Cardinality(stored) |->
            [event |-> SetToSeq(stored)[i], answer |-> invites[user][SetToSeq(stored)[i]]]]

Listen(user, known) ==
    LET new == {e \in Events : invites[user][e] # "none"} \ known
    IN  [i \in 1..Cardinality(new) |->
            [event |-> SetToSeq(new)[i], answer |-> invites[user][SetToSeq(new)[i]]]]

Init ==
    /\ event = NoEvent
    /\ contacts = <<>> /\ hasCheckmark = <<>> /\ hostCells = <<>>
    /\ displayName \in Usernames /\ observed = displayName
    /\ requests = <<>> /\ guestCells = <<>> /\ inbox = <<>> /\ accepts = {}
    /\ puts = [d \in Devices |-> <<>>] /\ applied = [d \in Devices |-> 0]
    /\ invites = [u \in Usernames |-> [e \in Events |-> "none"]]
    /\ again = {} /\ sends = 0 /\ mishaps = 0

-----------------------------------------------------------------------------
(* The host's send screen. *)

SendClosed == event' = NoEvent /\ contacts' = <<>> /\ hasCheckmark' = <<>> /\ hostCells' = <<>>

\* Invite People, on the detail screen: a new controller observes the host's
\* contacts.
OpenSend ==
    /\ event = NoEvent
    /\ event' \in Events
    /\ UNCHANGED <<contacts, hasCheckmark, hostCells, guestVars, netVars, counters>>

CancelSend ==
    /\ event # NoEvent
    /\ SendClosed
    /\ UNCHANGED <<guestVars, netVars, counters>>

\* reloadData: numberOfRowsInSection starts hasCheckmark anew.
ReloadSendKeeping(rows) ==   \* mutant: the array is only made longer
    /\ contacts' = rows
    /\ hasCheckmark' = [i \in 1..Len(rows) |->
                          IF i \in DOMAIN hasCheckmark THEN hasCheckmark[i] ELSE 0]
    /\ hostCells' \in Reused(hostCells, Len(rows))

ReloadSend(rows) ==
    /\ contacts' = rows
    /\ hasCheckmark' = [i \in 1..Len(rows) |-> 0]
    /\ hostCells' \in Reused(hostCells, Len(rows))

ContactAddedUnreloaded ==   \* mutant: the row is appended, nothing reloaded
    /\ event # NoEvent /\ Len(contacts) < MaxContacts /\ sends < MaxSends
    /\ \E u \in Known \cup {Refused} : contacts' = Append(contacts, u)
    /\ UNCHANGED <<event, hasCheckmark, hostCells, guestVars, netVars, counters>>

\* childAdded: a contact that was there, or one added on the contacts tab.
\* They are told of in the order of their names, which is any order of the
\* user names; several may have the same one.
ContactAdded ==
    /\ event # NoEvent /\ Len(contacts) < MaxContacts /\ sends < MaxSends
    /\ \E u \in Known \cup {Refused} : ReloadSend(Append(contacts, u))
    /\ UNCHANGED <<event, guestVars, netVars, counters>>

\* childRemoved, a contact deleted on the contacts tab: the row stays.
ContactRemoved ==
    /\ event # NoEvent /\ contacts # <<>>
    /\ ReloadSend(contacts)
    /\ UNCHANGED <<event, guestVars, netVars, counters>>

\* Rows come into view in cells that other rows had.
ScrollSend ==
    /\ event # NoEvent /\ Len(contacts) > ScreenRows["host"]
    /\ hostCells' \in Reused(hostCells, Len(contacts))
    /\ UNCHANGED <<event, contacts, hasCheckmark, guestVars, netVars, counters>>

\* didSelectRowAt: the cell decides, the array follows.
SelectContact(i) ==
    /\ event # NoEvent /\ i \in DOMAIN contacts
    /\ hostCells' = [hostCells EXCEPT ![i] = ~@]
    /\ hasCheckmark' = [hasCheckmark EXCEPT ![i] = IF hostCells[i] THEN 0 ELSE 1]
    /\ UNCHANGED <<event, contacts, guestVars, netVars, counters>>

\* prepare for the unwind segue of Save: one write for each row whose entry
\* is 1, in order, up to a user name that child(_:) refuses.
Chosen == {i \in DOMAIN contacts : hasCheckmark[i] = 1}
Raises == \E i \in Chosen : contacts[i] = Refused
Written == {i \in Chosen : \A j \in Chosen : contacts[j] = Refused => i < j}
Nth(S, n) == CHOOSE i \in S : Cardinality({j \in S : j <= i}) = n
Invitations == [n \in 1..Cardinality(Written) |->
                   [to |-> contacts[Nth(Written, n)], event |-> event, answer |-> "open"]]

\* Some write is of an invitation that is there, or written already.
InvitesAgain == \E i \in Written :
    \/ invites[contacts[i]][event] # "none"
    \/ \E j \in Written : j # i /\ contacts[j] = contacts[i]
    \/ \E k \in DOMAIN puts["host"] :
          puts["host"][k].to = contacts[i] /\ puts["host"][k].event = event

SaveInvites ==
    /\ event # NoEvent /\ contacts # <<>> /\ ~Raises
    /\ Len(puts["host"]) + Len(Invitations) <= MaxWrites["host"]
    /\ sends + Len(Invitations) <= MaxSends /\ sends' = sends + Len(Invitations)
    /\ puts' = [puts EXCEPT !["host"] = @ \o Invitations]
    /\ again' = IF InvitesAgain THEN again \cup {event} ELSE again
    /\ SendClosed
    /\ UNCHANGED <<guestVars, applied, invites, mishaps>>

\* The server stores an answer at some names. A child new to the guest's
\* location is announced; of a known one the guest hears a change no observer
\* is registered for.
Stores(names, e, answer) ==
    /\ invites' = [u \in Usernames |->
                     IF u \in names THEN [invites[u] EXCEPT ![e] = answer] ELSE invites[u]]
    /\ inbox' = IF observed \in names /\ e \notin Listed \cup Coming
                THEN Append(inbox, [event |-> e, answer |-> answer])
                ELSE inbox

\* The host's app ends, and what it has not sent is gone.
HostEnds ==
    /\ mishaps < MaxMishaps /\ mishaps' = mishaps + 1
    /\ SendClosed
    /\ puts' = [puts EXCEPT !["host"] = <<>>] /\ applied' = [applied EXCEPT !["host"] = 0]
    /\ UNCHANGED <<displayName, observed, requests, guestCells, accepts, again, sends>>

\* Killed, or ended by Save without a row, whose loop runs over 0...-1, or by a
\* contact whose name has a / (childAdded's cast, as in the module Contacts).
HostKilled == HostEnds /\ UNCHANGED <<inbox, invites>>
SaveWithoutContacts == event # NoEvent /\ contacts = <<>> /\ HostKilled

\* Save comes to a user name that child(_:) refuses, by an exception. Of the
\* writes before it the first may have reached the server, after all earlier
\* ones did.
SaveRaises ==
    /\ event # NoEvent /\ Raises
    /\ \E n \in 0..Len(Invitations) :
          /\ n > 0 => applied["host"] = Len(puts["host"])
          /\ Stores({Invitations[i].to : i \in 1..n}, event, "open")
    /\ HostEnds

-----------------------------------------------------------------------------
(* The guest's list. *)

\* childAdded: the row, then reloadData. cellForRow sets the checkmark of an
\* accepted request and clears none.
InviteArrives ==
    /\ inbox # <<>>
    /\ inbox' = Tail(inbox)
    /\ LET n == Head(inbox)
       IN  /\ requests' = Append(requests, [name |-> n.event, accepted |-> n.answer = "accepted"])
           /\ accepts' = IF n.answer = "accepted" THEN accepts \cup {n.event} ELSE accepts
    /\ \E cells \in Reused(guestCells, Len(requests) + 1) :
          guestCells' = [i \in DOMAIN cells |-> cells[i] \/ requests'[i].accepted]
    /\ UNCHANGED <<displayName, observed, hostVars, netVars, counters>>

\* Rows come into view in cells that other rows had.
ScrollList ==
    /\ Len(requests) > ScreenRows["guest"]
    /\ \E cells \in Reused(guestCells, Len(requests)) :
          guestCells' = [i \in DOMAIN cells |-> cells[i] \/ requests[i].accepted]
    /\ UNCHANGED <<displayName, observed, requests, inbox, accepts, hostVars, netVars, counters>>

\* didSelectRowAt: the cell decides; the row itself is not updated.
Answer(i) ==
    /\ i \in DOMAIN requests
    /\ Len(puts["guest"]) < MaxWrites["guest"]
    /\ guestCells' = [guestCells EXCEPT ![i] = ~@]
    /\ puts' = [puts EXCEPT !["guest"] = Append(@,
                  [to |-> displayName, event |-> requests[i].name,
                   answer |-> IF guestCells[i] THEN "open" ELSE "accepted"])]
    /\ accepts' = IF guestCells[i] THEN accepts \ {requests[i].name}
                 ELSE accepts \cup {requests[i].name}
    /\ UNCHANGED <<displayName, observed, requests, inbox, hostVars, applied, invites,
                   counters>>

RenameFollowed ==   \* mutant: the list observes the new name, its rows stay
    /\ mishaps < MaxMishaps /\ mishaps' = mishaps + 1
    /\ displayName' \in Usernames \ {displayName} /\ observed' = displayName'
    /\ inbox' = <<>>
    /\ UNCHANGED <<requests, guestCells, accepts, hostVars, netVars, again, sends>>

\* EditAccountViewController changes the name under the loaded list.
Rename ==
    /\ mishaps < MaxMishaps /\ mishaps' = mishaps + 1
    /\ displayName' \in Usernames \ {displayName}
    /\ UNCHANGED <<observed, requests, guestCells, inbox, accepts, hostVars, netVars,
                   again, sends>>

\* The guest's app is killed and started again; the list is loaded anew.
GuestKilled ==
    /\ mishaps < MaxMishaps /\ mishaps' = mishaps + 1
    /\ observed' = displayName
    /\ requests' = <<>> /\ guestCells' = <<>> /\ accepts' = {}
    /\ inbox' = Listen(displayName, {})
    /\ puts' = [puts EXCEPT !["guest"] = <<>>] /\ applied' = [applied EXCEPT !["guest"] = 0]
    /\ UNCHANGED <<displayName, hostVars, invites, again, sends>>

-----------------------------------------------------------------------------
(* The server and the connections. *)

ServerAppliesSilently(d) ==   \* mutant: the guest reads once and never observes
    /\ applied[d] < Len(puts[d])
    /\ LET p == puts[d][applied[d] + 1]
       IN  invites' = [invites EXCEPT ![p.to][p.event] = p.answer]
    /\ applied' = [applied EXCEPT ![d] = @ + 1]
    /\ UNCHANGED <<displayName, observed, requests, guestCells, inbox, accepts, hostVars, puts,
                   counters>>

\* A write is carried out.
ServerApplies(d) ==
    /\ applied[d] < Len(puts[d])
    /\ LET p == puts[d][applied[d] + 1]
       IN  Stores({p.to}, p.event, p.answer)
    /\ applied' = [applied EXCEPT ![d] = @ + 1]
    /\ UNCHANGED <<displayName, observed, requests, guestCells, accepts, hostVars, puts,
                   counters>>

AcknowledgedLast(d) ==   \* mutant: the newest write is let go
    /\ applied[d] > 0
    /\ puts' = [puts EXCEPT ![d] = Front(@)]
    /\ applied' = [applied EXCEPT ![d] = @ - 1]
    /\ UNCHANGED <<hostVars, guestVars, invites, counters>>

Acknowledged(d) ==
    /\ applied[d] > 0
    /\ puts' = [puts EXCEPT ![d] = Tail(@)]
    /\ applied' = [applied EXCEPT ![d] = @ - 1]
    /\ UNCHANGED <<hostVars, guestVars, invites, counters>>

\* A connection is lost and made again: acknowledgements and news under way
\* are gone, the writes and the guest's listen are repeated.
Reconnect(d) ==
    /\ mishaps < MaxMishaps /\ mishaps' = mishaps + 1
    /\ applied' = [applied EXCEPT ![d] = 0]
    /\ inbox' = IF d = "guest" THEN Listen(observed, Listed) ELSE inbox
    /\ UNCHANGED <<displayName, observed, requests, guestCells, accepts, hostVars, puts,
                   invites, again, sends>>

Next ==
    \/ OpenSend \/ CancelSend \/ SaveInvites \/ SaveWithoutContacts \/ SaveRaises
    \/ HostKilled \/ ContactAdded \/ ContactRemoved \/ ScrollSend
    \/ \E i \in DOMAIN contacts : SelectContact(i)
    \/ InviteArrives \/ ScrollList
    \/ \E i \in DOMAIN requests : Answer(i)
    \/ Rename \/ GuestKilled
    \/ \E d \in Devices : ServerApplies(d) \/ Acknowledged(d) \/ Reconnect(d)

\* The server answers and the main queue runs; nothing is assumed of users.
Fairness ==
    /\ WF_vars(InviteArrives)
    /\ \A d \in Devices : WF_vars(ServerApplies(d)) /\ WF_vars(Acknowledged(d))

Safe == Init /\ [][Next]_vars
Spec == Safe /\ Fairness

-----------------------------------------------------------------------------
(* Properties. *)

\* In a list that fits on the screen Save invites nobody whose row has no
\* checkmark: a reload may move the checkmarks to other contacts, but then it
\* has forgotten the choices. (A row never leaves the table, so such a list has
\* not been scrolled; in a longer one scrolling moves checkmarks and keeps the
\* choices.)
InvitedAreChecked ==
    Len(contacts) <= ScreenRows["host"] =>
        \A i \in DOMAIN contacts : hasCheckmark[i] = 1 => hostCells[i]

\* The guest's list, with what is on its way, has each invitation stored for
\* the name it was loaded for exactly once, and no other, whatever connections
\* were lost while hosts and guest were writing.
RequestsMatchInvites ==
    /\ Listed \cup Coming = {e \in Events : invites[observed][e] # "none"}
    /\ Len(requests) + Len(inbox) = Cardinality(Listed \cup Coming)

\* The guest never makes an invitation to the list it sees by answering one:
\* an answer not yet acknowledged is to an invitation that list has. Of answers
\* that stray to the location of a new name it says nothing.
AnswersAnInvite ==
    \A i \in DOMAIN puts["guest"] :
        LET p == puts["guest"][i]
        IN  p.to = observed => invites[observed][p.event] # "none"

\* An answer stands until the guest changes it, unless somebody was invited to
\* the event a second time, by another Save or as two contacts of one, or a
\* connection was lost, an app ended or the guest was renamed:
\* setValue(false) of the host is repeated then, and overwrites it.
AnswerStands ==
    [][mishaps' = 0 =>
          \A e \in Events \ again' :
             invites[observed][e] = "accepted" /\ invites'[observed][e] = "open"
                => applied'["guest"] > applied["guest"]]_vars

\* An invitation the host saved to the name the guest's list was loaded for
\* comes to be listed, unless the host's app ends before it is sent or the
\* list is loaded anew for a name that was not invited.
Awaited(e) ==
    \/ invites[observed][e] # "none"
    \/ \E i \in DOMAIN puts["host"] :
          puts["host"][i].to = observed /\ puts["host"][i].event = e
InvitationArrives == \A e \in Events : Awaited(e) ~> (e \in Listed \/ ~Awaited(e))

\* A checkmark stands beside an event the user accepted, on this list or
\* before it was loaded ("if user accepted an event, place a checkmark.",
\* InviteTableViewController).
CheckmarksAreAnswers ==
    \A i \in DOMAIN requests : guestCells[i] => requests[i].name \in accepts
=============================================================================
