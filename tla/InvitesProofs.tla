--------------------------- MODULE InvitesProofs ---------------------------
(***************************************************************************)
(* Five facts about invitations, for every set of user names and events    *)
(* and any number of writes, lost connections, kills and renames: the      *)
(* state keeps its types; in a list that fits on the screen Save invites   *)
(* only contacts with a checkmark; an answer is only written over an       *)
(* invitation the observed list has; that list shows each stored           *)
(* invitation exactly once; and, with no connection lost, only the guest   *)
(* takes an answer back to an event nobody was invited to twice.           *)
(***************************************************************************)
EXTENDS Invites, ListLemmas

-----------------------------------------------------------------------------
(* The host's send screen. *)

\* The three arrays of the send screen have the length of the table.
SendInv ==
    /\ Len(contacts) \in Nat /\ DOMAIN contacts = 1..Len(contacts)
    /\ hasCheckmark \in [1..Len(contacts) -> 0..1]
    /\ hostCells \in [1..Len(contacts) -> BOOLEAN]
    /\ InvitedAreChecked

LEMMA ClosedSendInv ==
    ASSUME contacts = <<>>, hasCheckmark = <<>>, hostCells = <<>>
    PROVE  SendInv
BY DEF SendInv, InvitedAreChecked

\* A reload leaves no entry of hasCheckmark at 1.
LEMMA ReloadSendInv ==
    ASSUME NEW rows, Len(rows) \in Nat, DOMAIN rows = 1..Len(rows), ReloadSend(rows)
    PROVE  SendInv'
<1>1. contacts' = rows /\ hasCheckmark' = [i \in 1..Len(rows) |-> 0] BY DEF ReloadSend
<1>2. hostCells' \in [1..Len(rows) -> BOOLEAN] BY DEF ReloadSend, Reused
<1> QED BY <1>1, <1>2 DEF SendInv, InvitedAreChecked

LEMMA SendStep == ASSUME SendInv, [Next]_vars PROVE SendInv'
<1>1. ASSUME UNCHANGED hostVars PROVE SendInv'
  <2>1. UNCHANGED <<contacts, hasCheckmark, hostCells>> BY <1>1 DEF hostVars
  <2> QED BY <2>1 DEF SendInv, InvitedAreChecked
<1>2. ASSUME SendClosed PROVE SendInv'
  <2>1. contacts' = <<>> /\ hasCheckmark' = <<>> /\ hostCells' = <<>>
    BY <1>2 DEF SendClosed
  <2> QED BY <2>1 DEF SendInv, InvitedAreChecked
<1>3. CASE OpenSend
  <2>1. UNCHANGED <<contacts, hasCheckmark, hostCells>> BY <1>3 DEF OpenSend
  <2> QED BY <2>1 DEF SendInv, InvitedAreChecked
<1>4. CASE CancelSend \/ SaveInvites \/ SaveWithoutContacts \/ SaveRaises \/ HostKilled
  BY <1>2, <1>4 DEF CancelSend, SaveInvites, SaveWithoutContacts, SaveRaises, HostKilled, HostEnds
<1>5. CASE ContactAdded
  <2>1. PICK u : ReloadSend(Append(contacts, u)) BY <1>5 DEF ContactAdded
  <2> DEFINE rows == Append(contacts, u)
  <2>2. Len(rows) \in Nat /\ DOMAIN rows = 1..Len(rows)
    BY DEF SendInv
  <2> QED BY <2>1, <2>2, ReloadSendInv
<1>10. CASE ScrollSend
  <2>1. /\ UNCHANGED <<contacts, hasCheckmark>> /\ Len(contacts) > ScreenRows["host"]
        /\ hostCells' \in [1..Len(contacts) -> BOOLEAN]
    BY <1>10 DEF ScrollSend, Reused
  <2>2. ScreenRows["host"] \in Nat BY BoundsAssumption
  <2>3. ~(Len(contacts) <= ScreenRows["host"]) BY <2>1, <2>2 DEF SendInv
  <2> QED BY <2>1, <2>3 DEF SendInv, InvitedAreChecked
<1>6. CASE ContactRemoved
  BY <1>6, ReloadSendInv DEF ContactRemoved, SendInv
<1>7. ASSUME NEW i \in DOMAIN contacts, SelectContact(i) PROVE SendInv'
  <2>1. /\ contacts' = contacts
        /\ hostCells' = [hostCells EXCEPT ![i] = ~hostCells[i]]
        /\ hasCheckmark' = [hasCheckmark EXCEPT ![i] = IF hostCells[i] THEN 0 ELSE 1]
    BY <1>7 DEF SelectContact
  <2>2. hostCells' \in [1..Len(contacts) -> BOOLEAN] BY <2>1 DEF SendInv
  <2>3. hasCheckmark' \in [1..Len(contacts) -> 0..1] BY <2>1 DEF SendInv
  <2>4. ASSUME Len(contacts) <= ScreenRows["host"],
               NEW j \in DOMAIN contacts', hasCheckmark'[j] = 1
        PROVE  hostCells'[j]
    <3>1. CASE j = i
      <4>1. hasCheckmark'[i] = IF hostCells[i] THEN 0 ELSE 1 BY <2>1 DEF SendInv
      <4>2. ~hostCells[i] BY <2>4, <3>1, <4>1
      <4>3. hostCells'[i] = ~hostCells[i] BY <2>1 DEF SendInv
      <4> QED BY <3>1, <4>2, <4>3
    <3>2. CASE j # i BY <2>1, <2>4, <3>2 DEF SendInv, InvitedAreChecked
    <3> QED BY <3>1, <3>2
  <2> QED BY <2>1, <2>2, <2>3, <2>4 DEF SendInv, InvitedAreChecked
<1>8. CASE \/ InviteArrives \/ ScrollList \/ Rename \/ GuestKilled
           \/ \E i \in DOMAIN requests : Answer(i)
           \/ \E d \in Devices : ServerApplies(d) \/ Acknowledged(d) \/ Reconnect(d)
  BY <1>1, <1>8 DEF InviteArrives, ScrollList, Answer, Rename, GuestKilled, ServerApplies,
                    Acknowledged, Reconnect
<1>9. CASE UNCHANGED vars BY <1>1, <1>9 DEF vars
<1> QED BY <1>3, <1>4, <1>5, <1>6, <1>7, <1>8, <1>9, <1>10 DEF Next

\* Whatever contacts are added, removed and tapped in whatever order, in a list
\* that fits on the screen an entry of hasCheckmark is 1 only where the user
\* sees a checkmark, however the reloads between have dealt the cells out
\* (InviteSendTableViewController). Of a longer list this is not so: ScrollSend
\* breaks it.
THEOREM InvitedAreCheckedAlways == Spec => []InvitedAreChecked
<1>1. Init => SendInv BY ClosedSendInv DEF Init
<1>2. SendInv /\ [Next]_vars => SendInv' BY SendStep
<1>3. SendInv => InvitedAreChecked BY DEF SendInv
<1> QED BY <1>1, <1>2, <1>3, PTL DEF Spec, Safe

-----------------------------------------------------------------------------
(* The guest's answers. *)

\* A write that may be among those kept: it is about an event and never
\* removes anything.
IsPut(p) == p.event \in Events /\ p.answer \in Answers
IsQueue(s) == \E S : s \in Seq(S) /\ \A p \in S : IsPut(p)
IsRows(s) == \E S : s \in Seq(S)
StoredAt(u, e) == e \in Events /\ invites[u][e] # "none"

AnswerInv ==
    /\ event \in Events \cup {NoEvent}
    /\ displayName \in Usernames /\ observed \in Usernames
    /\ invites \in [Usernames -> [Events -> Answers \cup {"none"}]]
    /\ puts = [d \in Devices |-> puts[d]] /\ \A d \in Devices : IsQueue(puts[d])
    /\ \A d \in Devices : applied[d] \in 0..Len(puts[d])
    /\ applied = [d \in Devices |-> applied[d]]
    /\ IsRows(requests) /\ IsRows(inbox)
    /\ \A i \in DOMAIN requests : StoredAt(observed, requests[i].name)
    /\ \A i \in DOMAIN inbox : StoredAt(observed, inbox[i].event)
    /\ AnswersAnInvite

LEMMA EmptyQueue == IsQueue(<<>>) /\ IsRows(<<>>)
<1>1. PICK S : S = {} OBVIOUS
<1>2. <<>> \in Seq(S) /\ \A p \in S : IsPut(p) BY <1>1
<1> QED BY <1>2 DEF IsQueue, IsRows

LEMMA JoinQueues ==
    ASSUME NEW s, NEW t, IsQueue(s), IsQueue(t)
    PROVE  IsQueue(s \o t) /\ Len(s \o t) >= Len(s)
<1>1. PICK S : s \in Seq(S) /\ \A p \in S : IsPut(p) BY DEF IsQueue
<1>2. PICK T : t \in Seq(T) /\ \A p \in T : IsPut(p) BY DEF IsQueue
<1>3. s \in Seq(S \cup T) /\ t \in Seq(S \cup T) BY <1>1, <1>2, SeqMonotonic
<1>4. s \o t \in Seq(S \cup T) BY <1>3, ConcatProperties
<1>5. Len(s \o t) = Len(s) + Len(t) /\ Len(s) \in Nat /\ Len(t) \in Nat
  BY <1>3, ConcatProperties
<1> QED BY <1>1, <1>2, <1>4, <1>5 DEF IsQueue

LEMMA OnePut == ASSUME NEW p, IsPut(p) PROVE IsQueue(<<p>>)
<1>1. PICK S : S = {p} OBVIOUS
<1>2. <<p>> \in Seq(S) /\ \A w \in S : IsPut(w) BY <1>1
<1> QED BY <1>2 DEF IsQueue

LEMMA TailQueue ==
    ASSUME NEW s, IsQueue(s), Len(s) > 0
    PROVE  /\ IsQueue(Tail(s)) /\ Len(Tail(s)) = Len(s) - 1
           /\ \A i \in DOMAIN Tail(s) : i + 1 \in DOMAIN s /\ Tail(s)[i] = s[i + 1]
<1>1. PICK S : s \in Seq(S) /\ \A p \in S : IsPut(p) BY DEF IsQueue
<1>2. s # <<>> BY <1>1
<1>3. Tail(s) \in Seq(S) /\ Len(Tail(s)) = Len(s) - 1
      /\ \A i \in 1..Len(Tail(s)) : Tail(s)[i] = s[i + 1]
  BY <1>1, <1>2, HeadTailProperties
<1>4. \A i \in 1..Len(Tail(s)) : i + 1 \in 1..Len(s) BY <1>1, <1>3
<1> QED BY <1>1, <1>3, <1>4 DEF IsQueue

LEMMA TailRows ==
    ASSUME NEW s, IsRows(s), s # <<>>
    PROVE  /\ IsRows(Tail(s)) /\ 1 \in DOMAIN s /\ Head(s) = s[1]
           /\ \A i \in DOMAIN Tail(s) : i + 1 \in DOMAIN s /\ Tail(s)[i] = s[i + 1]
<1>1. PICK S : s \in Seq(S) BY DEF IsRows
<1>2. Tail(s) \in Seq(S) /\ Len(Tail(s)) = Len(s) - 1
      /\ \A i \in 1..Len(Tail(s)) : Tail(s)[i] = s[i + 1]
  BY <1>1, HeadTailProperties
<1>3. 1 \in DOMAIN s /\ \A i \in 1..Len(Tail(s)) : i + 1 \in 1..Len(s) BY <1>1, <1>2
<1> QED BY <1>1, <1>2, <1>3 DEF IsRows

LEMMA AppendRows ==
    ASSUME NEW s, IsRows(s), NEW r
    PROVE  /\ IsRows(Append(s, r))
           /\ \A i \in DOMAIN Append(s, r) : Append(s, r)[i] = r
                                             \/ (i \in DOMAIN s /\ Append(s, r)[i] = s[i])
<1>1. PICK S : s \in Seq(S) BY DEF IsRows
<1>2. s \in Seq(S \cup {r}) BY <1>1, SeqMonotonic
<1>3. Append(s, r) \in Seq(S \cup {r}) BY <1>2, AppendProperties
<1> QED BY <1>2, <1>3, AppendProperties DEF IsRows

\* The answer to a listen names stored invitations only.
LEMMA ListenStored ==
    ASSUME NEW u, NEW known
    PROVE  /\ IsRows(Listen(u, known))
           /\ \A i \in DOMAIN Listen(u, known) : StoredAt(u, Listen(u, known)[i].event)
<1> DEFINE new == {e \in Events : invites[u][e] # "none"} \ known
           news(i) == [event |-> SetToSeq(new)[i], answer |-> invites[u][SetToSeq(new)[i]]]
<1>1. IsFiniteSet(new) BY NamesAssumption, FS_Subset
<1>2. /\ Cardinality(new) \in Nat
      /\ \A i \in 1..Cardinality(new) : SetToSeq(new)[i] \in new
  BY <1>1, SetToSeqLists
<1>3. Listen(u, known) = [i \in 1..Cardinality(new) |-> news(i)] BY DEF Listen
<1>4. \A i \in 1..Cardinality(new) : StoredAt(u, news(i).event) BY <1>2 DEF StoredAt
<1> HIDE DEF new, news
<1>5. [i \in 1..Cardinality(new) |-> news(i)] \in Seq({news(i) : i \in 1..Cardinality(new)})
  BY <1>2, IsASeq
<1> QED BY <1>3, <1>4, <1>5 DEF IsRows

\* The writes of one Save are writes.
LEMMA InvitationsAreQueue ==
    ASSUME event \in Events, Len(contacts) \in Nat, DOMAIN contacts = 1..Len(contacts)
    PROVE  IsQueue(Invitations)
<1> DEFINE N == Cardinality(Written)
           write(n) == [to |-> contacts[Nth(Written, n)], event |-> event, answer |-> "open"]
<1>1. IsFiniteSet(Written)
  <2>1. IsFiniteSet(1..Len(contacts)) BY FS_Interval
  <2>2. Written \subseteq 1..Len(contacts) BY DEF Written, Chosen
  <2> QED BY <2>1, <2>2, FS_Subset
<1>2. N \in Nat BY <1>1, FS_CardinalityType
<1>3. Invitations = [n \in 1..N |-> write(n)] BY DEF Invitations
<1>4. \A n \in 1..N : IsPut(write(n)) BY DEF IsPut, Answers
<1> HIDE DEF N, write
<1>5. [n \in 1..N |-> write(n)] \in Seq({write(n) : n \in 1..N})
  BY <1>2, IsASeq
<1>6. \A p \in {write(n) : n \in 1..N} : IsPut(p) BY <1>4
<1> QED BY <1>3, <1>5, <1>6 DEF IsQueue

\* What the server stores is an invitation from then on, and what was one stays one.
LEMMA StoresAtRows ==
    ASSUME AnswerInv, NEW names, NEW e \in Events, NEW a \in Answers, Stores(names, e, a),
           UNCHANGED <<observed, requests>>,
           \A d \in Devices : IsQueue(puts'[d]) /\ applied'[d] \in 0..Len(puts'[d]),
           puts' = [d \in Devices |-> puts'[d]], applied' = [d \in Devices |-> applied'[d]],
           puts'["guest"] = puts["guest"],
           event' \in Events \cup {NoEvent}, displayName' \in Usernames
    PROVE  AnswerInv'
<1>1. /\ invites \in [Usernames -> [Events -> Answers \cup {"none"}]] /\ observed \in Usernames
      /\ invites' = [u \in Usernames |->
                       IF u \in names THEN [invites[u] EXCEPT ![e] = a] ELSE invites[u]]
      /\ inbox' = inbox \/ (observed \in names /\ inbox' = Append(inbox, [event |-> e, answer |-> a]))
  BY DEF AnswerInv, Stores
<1>2. invites' \in [Usernames -> [Events -> Answers \cup {"none"}]] BY <1>1
<1>3. a # "none" BY DEF Answers
<1>4. \A f \in Events : invites[observed][f] # "none" => invites'[observed][f] # "none"
  BY <1>1, <1>3
<1>5. observed \in names => invites'[observed][e] # "none" BY <1>1, <1>3
<1>6. \A f : StoredAt(observed, f) => f \in Events /\ invites'[observed][f] # "none"
  BY <1>4 DEF StoredAt
<1>7. AnswersAnInvite'
  <2>1. ASSUME NEW i \in DOMAIN puts["guest"], puts["guest"][i].to = observed
        PROVE  invites'[observed][puts["guest"][i].event] # "none"
    <3>1. IsQueue(puts["guest"]) BY DEF AnswerInv, Devices
    <3>2. PICK S : puts["guest"] \in Seq(S) /\ \A w \in S : IsPut(w) BY <3>1 DEF IsQueue
    <3>3. puts["guest"][i].event \in Events BY <3>2 DEF IsPut
    <3>4. invites[observed][puts["guest"][i].event] # "none"
      BY <2>1 DEF AnswerInv, AnswersAnInvite
    <3> QED BY <1>4, <3>3, <3>4
  <2> QED BY <2>1 DEF AnswersAnInvite
<1>8. /\ IsRows(inbox')
      /\ \A i \in DOMAIN inbox' :
            inbox'[i].event \in Events /\ invites'[observed][inbox'[i].event] # "none"
  <2>1. CASE inbox' = inbox BY <1>6, <2>1 DEF AnswerInv
  <2>2. CASE observed \in names /\ inbox' = Append(inbox, [event |-> e, answer |-> a])
    <3>1. /\ IsRows(inbox')
          /\ \A i \in DOMAIN inbox' :
                inbox'[i].event = e \/ (i \in DOMAIN inbox /\ inbox'[i] = inbox[i])
      BY <2>2, AppendRows DEF AnswerInv
    <3> QED BY <1>5, <1>6, <2>2, <3>1 DEF AnswerInv
  <2> QED BY <1>1, <2>1, <2>2
<1>9. \A i \in DOMAIN requests :
         requests[i].name \in Events /\ invites'[observed][requests[i].name] # "none"
  BY <1>6 DEF AnswerInv
<1>10. IsRows(requests') BY DEF AnswerInv, IsRows
<1> QED BY <1>1, <1>2, <1>7, <1>8, <1>9, <1>10 DEF AnswerInv, StoredAt

-----------------------------------------------------------------------------

LEMMA AnswerInit == Init => AnswerInv
<1> SUFFICES ASSUME Init PROVE AnswerInv OBVIOUS
<1>1. /\ puts = [d \in Devices |-> <<>>] /\ applied = [d \in Devices |-> 0]
      /\ requests = <<>> /\ inbox = <<>>
      /\ event = NoEvent /\ observed \in Usernames /\ displayName \in Usernames
      /\ invites = [u \in Usernames |-> [e \in Events |-> "none"]]
  BY DEF Init
<1>2. \A d \in Devices : puts[d] = <<>> /\ applied[d] = 0 BY <1>1
<1>3. invites \in [Usernames -> [Events -> Answers \cup {"none"}]] BY <1>1
<1>4. AnswersAnInvite BY <1>2 DEF AnswersAnInvite, Devices
<1>5. \A d \in Devices : IsQueue(puts[d]) /\ applied[d] \in 0..Len(puts[d])
  BY <1>2, EmptyQueue
<1> QED BY <1>1, <1>2, <1>3, <1>4, <1>5, EmptyQueue DEF AnswerInv

\* Steps of the host's screen that write nothing.
LEMMA HostScreenStep ==
    ASSUME AnswerInv, UNCHANGED <<guestVars, netVars>>, event' \in Events \cup {NoEvent}
    PROVE  AnswerInv'
<1>1. UNCHANGED <<displayName, observed, requests, inbox, puts, applied, invites>>
  BY DEF guestVars, netVars
<1> QED BY <1>1 DEF AnswerInv, IsQueue, IsRows, StoredAt, AnswersAnInvite

\* Steps that change only one device's writes, and those only to writes of
\* which the guest's are answers to invitations.
LEMMA PutsStep ==
    ASSUME AnswerInv, NEW d \in Devices, NEW q, NEW n,
           UNCHANGED <<displayName, observed, requests, inbox, invites>>,
           event' \in Events \cup {NoEvent},
           puts' = [puts EXCEPT ![d] = q], applied' = [applied EXCEPT ![d] = n],
           IsQueue(q), n \in 0..Len(q),
           d = "guest" => \A i \in DOMAIN q :
               q[i].to = observed => invites[observed][q[i].event] # "none"
    PROVE  AnswerInv'
<1>1. DOMAIN puts = Devices /\ DOMAIN applied = Devices BY DEF AnswerInv
<1>2. /\ puts'[d] = q /\ applied'[d] = n
      /\ \A c \in Devices \ {d} : puts'[c] = puts[c] /\ applied'[c] = applied[c]
      /\ puts' = [c \in Devices |-> puts'[c]] /\ applied' = [c \in Devices |-> applied'[c]]
  BY <1>1
<1>3. \A c \in Devices : IsQueue(puts'[c]) /\ applied'[c] \in 0..Len(puts'[c])
  BY <1>2 DEF AnswerInv
<1>4. AnswersAnInvite'
  <2>1. CASE d = "guest" BY <1>2, <2>1 DEF AnswersAnInvite
  <2>2. CASE d # "guest"
    <3>1. puts'["guest"] = puts["guest"] BY <1>2, <2>2 DEF Devices
    <3> QED BY <3>1 DEF AnswerInv, AnswersAnInvite
  <2> QED BY <2>1, <2>2
<1> QED BY <1>2, <1>3, <1>4 DEF AnswerInv, IsQueue, IsRows, StoredAt

LEMMA AnswerStep == ASSUME SendInv, AnswerInv, [Next]_vars PROVE AnswerInv'
<1> DEFINE AnswersOf(q) == \A i \in DOMAIN q :
               q[i].to = observed => invites[observed][q[i].event] # "none"
<1>1. /\ "host" \in Devices /\ "guest" \in Devices
      /\ DOMAIN puts = Devices /\ DOMAIN applied = Devices
      /\ \A d \in Devices : IsQueue(puts[d]) /\ applied[d] \in 0..Len(puts[d])
      /\ AnswersOf(puts["guest"])
  BY DEF Devices, AnswerInv, AnswersAnInvite
<1>2. CASE OpenSend \/ CancelSend \/ ContactAdded \/ ContactRemoved \/ ScrollSend
           \/ \E i \in DOMAIN contacts : SelectContact(i)
  <2>1. UNCHANGED <<guestVars, netVars>> /\ event' \in Events \cup {NoEvent}
    BY <1>2 DEF OpenSend, CancelSend, SendClosed, ContactAdded, ContactRemoved, ScrollSend,
                SelectContact, AnswerInv
  <2> QED BY <2>1, HostScreenStep
<1>3. CASE SaveInvites
  <2>1. /\ event \in Events
        /\ puts' = [puts EXCEPT !["host"] = puts["host"] \o Invitations]
        /\ applied' = applied /\ event' = NoEvent
        /\ UNCHANGED <<displayName, observed, requests, inbox, invites>>
    BY <1>3 DEF SaveInvites, SendClosed, guestVars, AnswerInv
  <2>2. IsQueue(Invitations) BY <2>1, InvitationsAreQueue DEF SendInv
  <2>3. IsQueue(puts["host"] \o Invitations)
        /\ Len(puts["host"] \o Invitations) >= Len(puts["host"])
    BY <1>1, <2>2, JoinQueues
  <2>4. Len(puts["host"] \o Invitations) \in Nat BY <2>3 DEF IsQueue
  <2>5. applied["host"] \in 0..Len(puts["host"] \o Invitations)
    BY <1>1, <2>3, <2>4
  <2>6. applied' = [applied EXCEPT !["host"] = applied["host"]] BY <1>1, <2>1 DEF AnswerInv
  <2> QED BY <1>1, <2>1, <2>3, <2>5, <2>6, PutsStep
<1>4. CASE SaveWithoutContacts \/ HostKilled
  <2>1. /\ event' = NoEvent
        /\ puts' = [puts EXCEPT !["host"] = <<>>] /\ applied' = [applied EXCEPT !["host"] = 0]
        /\ UNCHANGED <<displayName, observed, requests, inbox, invites>>
    BY <1>4 DEF SaveWithoutContacts, HostKilled, HostEnds, SendClosed
  <2>2. IsQueue(<<>>) /\ 0 \in 0..Len(<<>>) BY EmptyQueue
  <2> QED BY <1>1, <2>1, <2>2, PutsStep
<1>13. CASE SaveRaises
  <2>1. /\ event \in Events /\ event' = NoEvent
        /\ puts' = [puts EXCEPT !["host"] = <<>>] /\ applied' = [applied EXCEPT !["host"] = 0]
        /\ UNCHANGED <<displayName, observed, requests>>
        /\ \E names : Stores(names, event, "open")
    BY <1>13 DEF SaveRaises, HostEnds, SendClosed, AnswerInv
  <2>2. PICK names : Stores(names, event, "open") BY <2>1
  <2>3. \A d \in Devices : IsQueue(puts'[d]) /\ applied'[d] \in 0..Len(puts'[d])
    BY <1>1, <2>1, EmptyQueue
  <2>4. /\ puts' = [d \in Devices |-> puts'[d]] /\ applied' = [d \in Devices |-> applied'[d]]
        /\ puts'["guest"] = puts["guest"]
    BY <1>1, <2>1
  <2>5. "open" \in Answers /\ displayName' \in Usernames BY <2>1 DEF Answers, AnswerInv
  <2>6. event' \in Events \cup {NoEvent} BY <2>1
  <2>7. UNCHANGED <<observed, requests>> BY <2>1
  <2> QED BY <2>1, <2>2, <2>3, <2>4, <2>5, <2>6, <2>7, StoresAtRows
<1>14. CASE ScrollList
  <2>1. UNCHANGED <<event, displayName, observed, requests, inbox, puts, applied, invites>>
    BY <1>14 DEF ScrollList, hostVars, netVars
  <2> QED BY <2>1 DEF AnswerInv, IsQueue, IsRows, StoredAt, AnswersAnInvite
<1>5. CASE InviteArrives
  <2>1. /\ inbox # <<>> /\ inbox' = Tail(inbox)
        /\ \E r : r.name = Head(inbox).event /\ requests' = Append(requests, r)
        /\ UNCHANGED <<event, displayName, observed, puts, applied, invites>>
    BY <1>5 DEF InviteArrives, hostVars, netVars
  <2>2. PICK r : r.name = Head(inbox).event /\ requests' = Append(requests, r) BY <2>1
  <2>3. StoredAt(observed, r.name) BY <2>1, <2>2, TailRows DEF AnswerInv
  <2>4. /\ IsRows(requests')
        /\ \A i \in DOMAIN requests' : StoredAt(observed, requests'[i].name)
    BY <2>2, <2>3, AppendRows DEF AnswerInv
  <2>5. /\ IsRows(inbox')
        /\ \A i \in DOMAIN inbox' : StoredAt(observed, inbox'[i].event)
    BY <2>1, TailRows DEF AnswerInv
  <2> QED BY <2>1, <2>4, <2>5 DEF AnswerInv, IsQueue, StoredAt, AnswersAnInvite
<1>6. ASSUME NEW i \in DOMAIN requests, Answer(i) PROVE AnswerInv'
  <2> DEFINE p == [to |-> displayName, event |-> requests[i].name,
                   answer |-> IF guestCells[i] THEN "open" ELSE "accepted"]
             q == puts["guest"] \o <<p>>
  <2>1. /\ puts' = [puts EXCEPT !["guest"] = Append(puts["guest"], p)]
        /\ applied' = applied
        /\ UNCHANGED <<event, displayName, observed, requests, inbox, invites>>
    BY <1>6 DEF Answer, hostVars
  <2>2. StoredAt(observed, p.event) BY DEF AnswerInv
  <2>3. IsPut(p) BY <2>2 DEF StoredAt, IsPut, Answers
  <2>4. invites[observed][p.event] # "none" BY <2>2 DEF StoredAt
  <2> HIDE DEF p
  <2>5. Append(puts["guest"], p) = q /\ AnswersOf(q)
    <3>1. PICK S : puts["guest"] \in Seq(S) BY <1>1 DEF IsQueue
    <3>2. Append(puts["guest"], p) = q
          /\ \A j \in DOMAIN q : q[j] = p \/ (j \in DOMAIN puts["guest"] /\ q[j] = puts["guest"][j])
      BY <3>1
    <3> QED BY <1>1, <2>4, <3>2
  <2>6. IsQueue(q) /\ Len(q) >= Len(puts["guest"]) BY <1>1, <2>3, OnePut, JoinQueues
  <2> HIDE DEF q
  <2>7. Len(q) \in Nat BY <2>6 DEF IsQueue
  <2>8. applied["guest"] \in 0..Len(q) BY <1>1, <2>6, <2>7
  <2>9. applied' = [applied EXCEPT !["guest"] = applied["guest"]] BY <1>1, <2>1 DEF AnswerInv
  <2>10. event' \in Events \cup {NoEvent} BY <2>1 DEF AnswerInv
  <2> QED BY <1>1, <2>1, <2>5, <2>6, <2>8, <2>9, <2>10, PutsStep
<1>7. CASE Rename
  <2>1. /\ displayName' \in Usernames
        /\ UNCHANGED <<event, observed, requests, inbox, puts, applied, invites>>
    BY <1>7 DEF Rename, hostVars, netVars
  <2> QED BY <2>1 DEF AnswerInv, IsQueue, IsRows, StoredAt, AnswersAnInvite
<1>8. CASE GuestKilled
  <2>1. /\ observed' = displayName /\ requests' = <<>>
        /\ inbox' = Listen(displayName, {})
        /\ puts' = [puts EXCEPT !["guest"] = <<>>] /\ applied' = [applied EXCEPT !["guest"] = 0]
        /\ UNCHANGED <<event, displayName, invites>>
    BY <1>8 DEF GuestKilled, hostVars
  <2>2. \A d \in Devices : IsQueue(puts'[d]) /\ applied'[d] \in 0..Len(puts'[d])
    BY <1>1, <2>1, EmptyQueue
  <2>3. /\ puts' = [d \in Devices |-> puts'[d]] /\ applied' = [d \in Devices |-> applied'[d]]
        /\ puts'["guest"] = <<>>
    BY <1>1, <2>1
  <2>4. AnswersAnInvite' BY <2>3 DEF AnswersAnInvite
  <2>5. IsRows(inbox') /\ \A i \in DOMAIN inbox' : StoredAt(observed', inbox'[i].event)
    BY <2>1, ListenStored
  <2> QED BY <2>1, <2>2, <2>3, <2>4, <2>5, EmptyQueue DEF AnswerInv, StoredAt
<1>9. ASSUME NEW d \in Devices, ServerApplies(d) PROVE AnswerInv'
  <2> DEFINE p == puts[d][applied[d] + 1]
  <2>1. /\ applied[d] < Len(puts[d]) /\ Stores({p.to}, p.event, p.answer)
        /\ applied' = [applied EXCEPT ![d] = applied[d] + 1]
        /\ UNCHANGED <<event, displayName, observed, requests, puts>>
    BY <1>9 DEF ServerApplies, hostVars
  <2>2. IsPut(p) /\ Len(puts[d]) \in Nat
    <3>1. PICK S : puts[d] \in Seq(S) /\ \A w \in S : IsPut(w) BY <1>1 DEF IsQueue
    <3>2. applied[d] + 1 \in 1..Len(puts[d]) BY <1>1, <2>1, <3>1
    <3> QED BY <3>1, <3>2
  <2> HIDE DEF p
  <2>3. p.event \in Events /\ p.answer \in Answers BY <2>2 DEF IsPut
  <2>4. \A c \in Devices : IsQueue(puts'[c]) /\ applied'[c] \in 0..Len(puts'[c])
    BY <1>1, <2>1, <2>2
  <2>5. puts' = [c \in Devices |-> puts'[c]] /\ applied' = [c \in Devices |-> applied'[c]]
    BY <1>1, <2>1 DEF AnswerInv
  <2>6. event' \in Events \cup {NoEvent} /\ displayName' \in Usernames BY <2>1 DEF AnswerInv
  <2>7. UNCHANGED <<observed, requests>> /\ puts'["guest"] = puts["guest"] BY <2>1
  <2> QED BY <2>1, <2>3, <2>4, <2>5, <2>6, <2>7, StoresAtRows
<1>10. ASSUME NEW d \in Devices, Acknowledged(d) PROVE AnswerInv'
  <2>1. /\ applied[d] > 0
        /\ puts' = [puts EXCEPT ![d] = Tail(puts[d])]
        /\ applied' = [applied EXCEPT ![d] = applied[d] - 1]
        /\ UNCHANGED <<event, displayName, observed, requests, inbox, invites>>
    BY <1>10 DEF Acknowledged, hostVars, guestVars
  <2>2. Len(puts[d]) \in Nat BY <1>1 DEF IsQueue
  <2>3. Len(puts[d]) > 0 BY <1>1, <2>1, <2>2
  <2>4. /\ IsQueue(Tail(puts[d])) /\ Len(Tail(puts[d])) = Len(puts[d]) - 1
        /\ \A i \in DOMAIN Tail(puts[d]) :
              i + 1 \in DOMAIN puts[d] /\ Tail(puts[d])[i] = puts[d][i + 1]
    BY <1>1, <2>3, TailQueue
  <2>5. applied[d] - 1 \in 0..Len(Tail(puts[d])) BY <1>1, <2>1, <2>2, <2>4
  <2>6. d = "guest" => AnswersOf(Tail(puts[d])) BY <1>1, <2>4
  <2>7. event' \in Events \cup {NoEvent} BY <2>1 DEF AnswerInv
  <2> QED BY <2>1, <2>4, <2>5, <2>6, <2>7, PutsStep
<1>11. ASSUME NEW d \in Devices, Reconnect(d) PROVE AnswerInv'
  <2>1. /\ applied' = [applied EXCEPT ![d] = 0]
        /\ inbox' \in {Listen(observed, Listed), inbox}
        /\ UNCHANGED <<event, displayName, observed, requests, puts, invites>>
    BY <1>11 DEF Reconnect, hostVars
  <2>2. IsRows(inbox') /\ \A i \in DOMAIN inbox' : StoredAt(observed, inbox'[i].event)
    BY <2>1, ListenStored DEF AnswerInv
  <2>3. \A c \in Devices : applied'[c] \in 0..Len(puts[c])
    <3>1. \A c \in Devices : Len(puts[c]) \in Nat BY <1>1 DEF IsQueue
    <3> QED BY <1>1, <2>1, <3>1
  <2>4. applied' = [c \in Devices |-> applied'[c]] BY <1>1, <2>1
  <2> QED BY <2>1, <2>2, <2>3, <2>4 DEF AnswerInv, IsQueue, IsRows, StoredAt, AnswersAnInvite
<1>12. CASE UNCHANGED vars
  <2>1. UNCHANGED <<guestVars, netVars>> /\ event' = event BY <1>12 DEF vars, hostVars
  <2> QED BY <2>1, HostScreenStep DEF AnswerInv
<1> QED
  BY <1>2, <1>3, <1>4, <1>5, <1>6, <1>7, <1>8, <1>9, <1>10, <1>11, <1>12, <1>13, <1>14 DEF Next

\* While the guest's list is that of the guest's name every answer on its way
\* is to an invitation stored there: answering never creates one
\* (InviteTableViewController didSelectRowAt), whatever is resent or renamed.
THEOREM AnswersAnInviteAlways == Spec => []AnswersAnInvite
<1>1. Init => SendInv /\ AnswerInv BY ClosedSendInv, AnswerInit DEF Init
<1>2. (SendInv /\ AnswerInv) /\ [Next]_vars => (SendInv /\ AnswerInv)'
  BY SendStep, AnswerStep
<1>3. SendInv /\ AnswerInv => AnswersAnInvite BY DEF AnswerInv
<1> QED BY <1>1, <1>2, <1>3, PTL DEF Spec, Safe

-----------------------------------------------------------------------------
(* Types. *)

\* A listen announces each stored event the client did not know once.
LEMMA ListenLists ==
    ASSUME TypeOK, NEW u \in Usernames, NEW known
    PROVE  LET new == {e \in Events : invites[u][e] # "none"} \ known
               said == Listen(u, known)
           IN  /\ said \in Seq(News) /\ Len(said) \in Nat /\ DOMAIN said = 1..Len(said)
               /\ \A i \in 1..Len(said) : said[i].event \in new
               /\ \A i, j \in 1..Len(said) : said[i].event = said[j].event => i = j
               /\ \A e \in new : \E i \in 1..Len(said) : said[i].event = e
<1> DEFINE new == {e \in Events : invites[u][e] # "none"} \ known
           news(i) == [event |-> SetToSeq(new)[i], answer |-> invites[u][SetToSeq(new)[i]]]
           n == Cardinality(new)
<1>1. IsFiniteSet(new) BY NamesAssumption, FS_Subset
<1>2. /\ n \in Nat /\ \A i \in 1..n : SetToSeq(new)[i] \in new
      /\ \A i, j \in 1..n : SetToSeq(new)[i] = SetToSeq(new)[j] => i = j
      /\ \A e \in new : \E i \in 1..n : SetToSeq(new)[i] = e
  BY <1>1, SetToSeqLists
<1>3. Listen(u, known) = [i \in 1..n |-> news(i)] BY DEF Listen
<1>4. \A i \in 1..n : news(i) \in News /\ news(i).event = SetToSeq(new)[i]
  BY <1>2 DEF TypeOK, News
<1> HIDE DEF new, news
<1>5. [i \in 1..n |-> news(i)] \in Seq(News) BY <1>2, <1>4, IsASeq
<1>6. /\ Len(Listen(u, known)) = n /\ DOMAIN Listen(u, known) = 1..n
      /\ \A i \in 1..n : Listen(u, known)[i] = news(i)
  BY <1>2, <1>3, <1>5
<1> DEFINE said == Listen(u, known)
<1>7. /\ said \in Seq(News) /\ Len(said) = n /\ DOMAIN said = 1..n
      /\ \A i \in 1..n : said[i].event = SetToSeq(new)[i]
  BY <1>3, <1>4, <1>5, <1>6
<1> HIDE DEF said
<1>8. /\ said \in Seq(News) /\ Len(said) \in Nat /\ DOMAIN said = 1..Len(said)
      /\ \A i \in 1..Len(said) : said[i].event \in new
      /\ \A i, j \in 1..Len(said) : said[i].event = said[j].event => i = j
      /\ \A e \in new : \E i \in 1..Len(said) : said[i].event = e
  BY <1>2, <1>7
<1> QED BY <1>8 DEF new, said

LEMMA NthIsNth ==
    ASSUME NEW M \in Nat, NEW keep \in SUBSET (1..M), NEW n \in 1..Cardinality(keep)
    PROVE  Nth(keep, n) \in keep /\ Cardinality({j \in keep : j <= Nth(keep, n)}) = n
<1> DEFINE upto(i) == {j \in keep : j <= i}
           P(i) == Cardinality(upto(i)) = n
<1>1. \E i \in keep : P(i) BY NthOf
<1>2. Nth(keep, n) = CHOOSE i \in keep : P(i) BY DEF Nth
<1>3. P(Nth(keep, n)) /\ Nth(keep, n) \in keep
  <2> HIDE DEF P
  <2> QED BY <1>1, <1>2
<1> QED BY <1>3

\* A Save writes invitations to its event; where none is repeated, they are to
\* different people, not stored and not written before.
NewWrite(n) ==
    LET u == Invitations[n].to
    IN  /\ invites[u][event] = "none"
        /\ \A k \in DOMAIN puts["host"] : puts["host"][k].to = u => puts["host"][k].event # event
        /\ \A m \in DOMAIN Invitations : Invitations[m].to = u => m = n

LEMMA InvitationsTyped ==
    ASSUME TypeOK, event \in Events
    PROVE  /\ Invitations \in Seq(Put)
           /\ \A n \in DOMAIN Invitations : Invitations[n].event = event
           /\ ~InvitesAgain => \A n \in DOMAIN Invitations : NewWrite(n)
<1> DEFINE write(n) == [to |-> contacts[Nth(Written, n)], event |-> event, answer |-> "open"]
           N == Cardinality(Written)
<1>1. contacts \in Seq(Known \cup {Refused}) BY DEF TypeOK
<1>2. Written \in SUBSET (1..Len(contacts)) /\ Len(contacts) \in Nat BY <1>1 DEF Written, Chosen
<1>3. N \in Nat
  <2>1. IsFiniteSet(1..Len(contacts)) BY <1>2, FS_Interval
  <2> QED BY <1>2, <2>1, FS_Subset, FS_CardinalityType
<1>4. Invitations = [n \in 1..N |-> write(n)] BY DEF Invitations
<1>5. ASSUME NEW i \in Written PROVE contacts[i] \in Usernames
  <2>1. contacts[i] \in Known \cup {Refused} /\ i \in Chosen /\ i \in Nat
    BY <1>1, <1>2 DEF Written
  <2>2. contacts[i] # Refused
    <3>1. contacts[i] = Refused => i < i BY <2>1 DEF Written
    <3> QED BY <2>1, <3>1
  <2> QED BY <2>1, <2>2, NamesAssumption
<1>6. \A n \in 1..N : Nth(Written, n) \in Written
                      /\ Cardinality({j \in Written : j <= Nth(Written, n)}) = n
  BY <1>2, NthIsNth
<1>7. \A n \in 1..N : /\ write(n) \in Put /\ write(n).to = contacts[Nth(Written, n)]
                      /\ write(n).event = event
  <2> SUFFICES ASSUME NEW n \in 1..N
               PROVE  /\ write(n) \in Put /\ write(n).to = contacts[Nth(Written, n)]
                      /\ write(n).event = event
    OBVIOUS
  <2>1. contacts[Nth(Written, n)] \in Usernames BY <1>5, <1>6
  <2> QED BY <2>1 DEF Put, Answers
<1> HIDE DEF write
<1>8. Invitations \in Seq(Put) BY <1>3, <1>4, <1>7, IsASeq
<1>9. DOMAIN Invitations = 1..N
      /\ \A n \in 1..N : Invitations[n].to = contacts[Nth(Written, n)]
                         /\ Invitations[n].event = event
  BY <1>4, <1>7
<1>10. ASSUME ~InvitesAgain, NEW n \in 1..N PROVE NewWrite(n)
  <2> DEFINE i == Nth(Written, n)
  <2>1. i \in Written /\ Invitations[n].to = contacts[i] BY <1>6, <1>9
  <2>2. /\ invites[contacts[i]][event] = "none"
        /\ \A j \in Written : contacts[j] = contacts[i] => j = i
        /\ \A k \in DOMAIN puts["host"] :
              puts["host"][k].to = contacts[i] => puts["host"][k].event # event
    BY <1>10, <2>1 DEF InvitesAgain
  <2>3. ASSUME NEW m \in 1..N, Invitations[m].to = contacts[i] PROVE m = n
    <3>1. Nth(Written, m) = Nth(Written, n) BY <1>6, <1>9, <2>2, <2>3
    <3> QED BY <1>6, <3>1
  <2> HIDE DEF i
  <2> QED BY <1>9, <2>1, <2>2, <2>3 DEF NewWrite
<1> QED BY <1>8, <1>9, <1>10

LEMMA TypeInit == Init => TypeOK
<1> SUFFICES ASSUME Init PROVE TypeOK OBVIOUS
<1>1. \A S : <<>> \in Seq(S) OBVIOUS
<1>2. 0 \in 0..MaxSends /\ 0 \in 0..MaxMishaps BY BoundsAssumption
<1> QED BY <1>1, <1>2 DEF Init, TypeOK

\* Steps of the host's screen alone.
LEMMA HostTypes ==
    ASSUME TypeOK, UNCHANGED <<guestVars, netVars, counters>>,
           event' \in Events \cup {NoEvent},
           contacts' \in Seq(Known \cup {Refused}), hasCheckmark' \in [1..Len(contacts') -> 0..1],
           hostCells' \in [1..Len(contacts') -> BOOLEAN]
    PROVE  TypeOK'
BY DEF TypeOK, guestVars, netVars, counters

LEMMA ReloadTypes ==
    ASSUME NEW rows, ReloadSend(rows)
    PROVE  /\ contacts' = rows /\ hasCheckmark' \in [1..Len(contacts') -> 0..1]
           /\ hostCells' \in [1..Len(contacts') -> BOOLEAN]
BY DEF ReloadSend, Reused

LEMMA ClosedTypes ==
    ASSUME SendClosed
    PROVE  /\ event' \in Events \cup {NoEvent}
           /\ contacts' \in Seq(Known \cup {Refused}) /\ hasCheckmark' \in [1..Len(contacts') -> 0..1]
           /\ hostCells' \in [1..Len(contacts') -> BOOLEAN]
<1>1. \A S : <<>> \in Seq(S) OBVIOUS
<1> QED BY <1>1 DEF SendClosed

\* Steps of the guest, the server and the connections.
LEMMA GuestTypes ==
    ASSUME TypeOK, UNCHANGED hostVars,
           displayName' \in Usernames, observed' \in Usernames, requests' \in Seq(Request),
           guestCells' \in [1..Len(requests') -> BOOLEAN], inbox' \in Seq(News),
           accepts' \subseteq Events, puts' \in [Devices -> Seq(Put)],
           applied' \in [Devices -> Nat], \A d \in Devices : applied'[d] <= Len(puts'[d]),
           invites' \in [Usernames -> [Events -> Answers \cup {"none"}]],
           again' = again, sends' \in 0..MaxSends, mishaps' \in 0..MaxMishaps
    PROVE  TypeOK'
BY DEF TypeOK, hostVars

\* What the server stores is an answer, and so is what it announces.
LEMMA StoresTypes ==
    ASSUME TypeOK, NEW names, NEW e \in Events, NEW a \in Answers, Stores(names, e, a)
    PROVE  /\ inbox' \in Seq(News)
           /\ invites' \in [Usernames -> [Events -> Answers \cup {"none"}]]
<1> DEFINE n == [event |-> e, answer |-> a]
<1>1. /\ inbox \in Seq(News) /\ invites \in [Usernames -> [Events -> Answers \cup {"none"}]]
      /\ inbox' \in {inbox, Append(inbox, n)}
      /\ invites' = [u \in Usernames |->
                       IF u \in names THEN [invites[u] EXCEPT ![e] = a] ELSE invites[u]]
  BY DEF Stores, TypeOK
<1>2. n \in News BY DEF News
<1> HIDE DEF n
<1>3. Append(inbox, n) \in Seq(News) BY <1>1, <1>2, AppendProperties
<1>4. invites' \in [Usernames -> [Events -> Answers \cup {"none"}]] BY <1>1
<1> QED BY <1>1, <1>3, <1>4

\* A bounded counter goes on.
LEMMA OneMoreOf == ASSUME NEW n, NEW max \in Nat, n \in 0..max, n < max PROVE n + 1 \in 0..max
OBVIOUS

LEMMA HostStepTypes ==
    ASSUME TypeOK,
           \/ OpenSend \/ CancelSend \/ SaveInvites \/ SaveWithoutContacts \/ SaveRaises
           \/ HostKilled \/ ContactAdded \/ ContactRemoved \/ ScrollSend
           \/ \E i \in DOMAIN contacts : SelectContact(i)
    PROVE  TypeOK'
<1>1. contacts \in Seq(Known \cup {Refused}) /\ puts \in [Devices -> Seq(Put)]
      /\ event \in Events \cup {NoEvent}
      /\ hasCheckmark \in [1..Len(contacts) -> 0..1] /\ hostCells \in [1..Len(contacts) -> BOOLEAN]
  BY DEF TypeOK
<1>2. CASE OpenSend BY <1>1, <1>2, HostTypes DEF OpenSend
<1>3. CASE CancelSend BY <1>3, ClosedTypes, HostTypes DEF CancelSend
<1>4. CASE SaveInvites
  <2>1. /\ event \in Events /\ SendClosed
        /\ sends + Len(Invitations) <= MaxSends /\ sends' = sends + Len(Invitations)
        /\ puts' = [puts EXCEPT !["host"] = puts["host"] \o Invitations]
        /\ again' \in {again, again \cup {event}}
        /\ UNCHANGED <<guestVars, applied, invites, mishaps>>
    BY <1>1, <1>4 DEF SaveInvites
  <2>2. Invitations \in Seq(Put) BY <2>1, InvitationsTyped
  <2>3. puts["host"] \in Seq(Put) BY <1>1 DEF Devices
  <2>4. /\ puts["host"] \o Invitations \in Seq(Put)
        /\ Len(puts["host"] \o Invitations) = Len(puts["host"]) + Len(Invitations)
        /\ Len(puts["host"]) \in Nat /\ Len(Invitations) \in Nat
    BY <2>2, <2>3, ConcatProperties
  <2> DEFINE q == puts["host"] \o Invitations
  <2> HIDE DEF q
  <2>5. puts' \in [Devices -> Seq(Put)] BY <1>1, <2>1, <2>4 DEF q
  <2>6. puts'["host"] = q /\ puts'["guest"] = puts["guest"] BY <1>1, <2>1 DEF Devices, q
  <2>7. \A d \in Devices : applied'[d] <= Len(puts'[d])
    <3>1. /\ applied["host"] \in Nat /\ applied["host"] <= Len(puts["host"])
          /\ applied["guest"] <= Len(puts["guest"])
      BY DEF TypeOK, Devices
    <3>2. applied["host"] <= Len(q) BY <2>4, <3>1 DEF q
    <3> QED BY <2>1, <2>6, <3>1, <3>2 DEF Devices
  <2>8. sends' \in 0..MaxSends BY <2>1, <2>4, BoundsAssumption DEF TypeOK
  <2>9. again' \subseteq Events BY <2>1 DEF TypeOK
  <2> QED BY <2>1, <2>5, <2>7, <2>8, <2>9, ClosedTypes DEF TypeOK, guestVars
<1>5. CASE SaveWithoutContacts \/ HostKilled \/ SaveRaises
  <2>1. /\ SendClosed /\ mishaps < MaxMishaps /\ mishaps' = mishaps + 1
        /\ puts' = [puts EXCEPT !["host"] = <<>>] /\ applied' = [applied EXCEPT !["host"] = 0]
        /\ UNCHANGED <<displayName, observed, requests, guestCells, accepts, again, sends>>
    BY <1>5 DEF SaveWithoutContacts, HostKilled, SaveRaises, HostEnds
  <2>2. <<>> \in Seq(Put) /\ Len(<<>>) = 0 OBVIOUS
  <2>3. puts' \in [Devices -> Seq(Put)] BY <1>1, <2>1, <2>2
  <2>4. applied' \in [Devices -> Nat] /\ \A d \in Devices : applied'[d] <= Len(puts'[d])
    BY <1>1, <2>1, <2>2 DEF TypeOK, Devices
  <2>5. mishaps' \in 0..MaxMishaps BY <2>1, OneMoreOf, BoundsAssumption DEF TypeOK
  <2>6. inbox' \in Seq(News) /\ invites' \in [Usernames -> [Events -> Answers \cup {"none"}]]
    <3>1. CASE SaveWithoutContacts \/ HostKilled
      BY <3>1 DEF SaveWithoutContacts, HostKilled, TypeOK
    <3>2. CASE SaveRaises
      <4>1. event \in Events /\ \E names : Stores(names, event, "open")
        BY <1>1, <3>2 DEF SaveRaises
      <4> QED BY <4>1, StoresTypes DEF Answers
    <3> QED BY <1>5, <3>1, <3>2
  <2> QED BY <2>1, <2>3, <2>4, <2>5, <2>6, ClosedTypes DEF TypeOK
<1>6. CASE ContactAdded
  <2>1. PICK u \in Known \cup {Refused} : ReloadSend(Append(contacts, u))
    BY <1>6 DEF ContactAdded
  <2>2. UNCHANGED <<event, guestVars, netVars, counters>> BY <1>6 DEF ContactAdded
  <2>3. contacts' \in Seq(Known \cup {Refused})
    <3>1. contacts' = Append(contacts, u) BY <2>1, ReloadTypes
    <3> QED BY <1>1, <3>1, AppendProperties
  <2> QED BY <1>1, <2>1, <2>2, <2>3, ReloadTypes, HostTypes
<1>9. CASE ScrollSend
  <2>1. UNCHANGED <<event, contacts, hasCheckmark, guestVars, netVars, counters>>
        /\ hostCells' \in [1..Len(contacts) -> BOOLEAN]
    BY <1>9 DEF ScrollSend, Reused
  <2> QED BY <1>1, <2>1, HostTypes
<1>7. CASE ContactRemoved BY <1>1, <1>7, ReloadTypes, HostTypes DEF ContactRemoved
<1>8. ASSUME NEW i \in DOMAIN contacts, SelectContact(i) PROVE TypeOK'
  <2>1. /\ hostCells' = [hostCells EXCEPT ![i] = ~hostCells[i]]
        /\ hasCheckmark' = [hasCheckmark EXCEPT ![i] = IF hostCells[i] THEN 0 ELSE 1]
        /\ UNCHANGED <<event, contacts, guestVars, netVars, counters>>
    BY <1>8 DEF SelectContact
  <2>2. hostCells' \in [1..Len(contacts) -> BOOLEAN] BY <1>1, <2>1
  <2>3. hasCheckmark' \in [1..Len(contacts) -> 0..1] BY <1>1, <2>1
  <2> QED BY <1>1, <2>1, <2>2, <2>3, HostTypes
<1> QED BY <1>2, <1>3, <1>4, <1>5, <1>6, <1>7, <1>8, <1>9

LEMMA GuestStepTypes ==
    ASSUME TypeOK,
           \/ InviteArrives \/ ScrollList \/ \E i \in DOMAIN requests : Answer(i)
           \/ Rename \/ GuestKilled
    PROVE  TypeOK'
<1>1. /\ requests \in Seq(Request) /\ inbox \in Seq(News) /\ puts \in [Devices -> Seq(Put)]
      /\ applied \in [Devices -> Nat] /\ \A d \in Devices : applied[d] <= Len(puts[d])
      /\ displayName \in Usernames /\ observed \in Usernames /\ "guest" \in Devices
      /\ guestCells \in [1..Len(requests) -> BOOLEAN] /\ accepts \subseteq Events
  BY DEF TypeOK, Devices
<1>2. CASE InviteArrives
  <2> DEFINE n == Head(inbox)
             r == [name |-> n.event, accepted |-> n.answer = "accepted"]
  <2>1. /\ inbox # <<>> /\ inbox' = Tail(inbox) /\ requests' = Append(requests, r)
        /\ accepts' \in {accepts, accepts \cup {n.event}}
        /\ \E cells \in Reused(guestCells, Len(requests) + 1) :
              guestCells' = [i \in DOMAIN cells |-> cells[i] \/ requests'[i].accepted]
        /\ UNCHANGED <<displayName, observed, hostVars, netVars, counters>>
    BY <1>2 DEF InviteArrives
  <2>2. n \in News /\ inbox' \in Seq(News) BY <1>1, <2>1, HeadTailProperties
  <2> HIDE DEF n
  <2>3. n.event \in Events BY <2>2 DEF News
  <2>4. r \in Request BY <2>3 DEF Request
  <2> HIDE DEF r
  <2>5. requests' \in Seq(Request) /\ Len(requests') = Len(requests) + 1
    BY <1>1, <2>1, <2>4, AppendProperties
  <2>6. guestCells' \in [1..Len(requests') -> BOOLEAN]
    <3>1. PICK cells \in [1..Len(requests) + 1 -> BOOLEAN] :
             guestCells' = [i \in DOMAIN cells |-> cells[i] \/ requests'[i].accepted]
      BY <2>1 DEF Reused
    <3>2. \A i \in 1..Len(requests') : requests'[i].accepted \in BOOLEAN
      <4>1. \A i \in 1..Len(requests') : requests'[i] \in Request BY <2>5
      <4> QED BY <4>1 DEF Request
    <3> QED BY <2>5, <3>1, <3>2
  <2> QED BY <1>1, <2>1, <2>2, <2>3, <2>5, <2>6, GuestTypes DEF TypeOK, netVars, counters
<1>3. ASSUME NEW i \in DOMAIN requests, Answer(i) PROVE TypeOK'
  <2> DEFINE p == [to |-> displayName, event |-> requests[i].name,
                   answer |-> IF guestCells[i] THEN "open" ELSE "accepted"]
             q == Append(puts["guest"], p)
  <2>1. /\ guestCells' = [guestCells EXCEPT ![i] = ~guestCells[i]]
        /\ puts' = [puts EXCEPT !["guest"] = q]
        /\ accepts' \in {accepts \ {requests[i].name}, accepts \cup {requests[i].name}}
        /\ UNCHANGED <<displayName, observed, requests, inbox, hostVars, applied, invites, counters>>
    BY <1>3 DEF Answer
  <2>2. requests[i].name \in Events
    <3>1. requests[i] \in Request BY <1>1
    <3> QED BY <3>1 DEF Request
  <2>3. p \in Put BY <1>1, <2>2 DEF Put, Answers
  <2>4. q \in Seq(Put) /\ Len(q) = Len(puts["guest"]) + 1 /\ Len(puts["guest"]) \in Nat
    BY <1>1, <2>3, AppendProperties
  <2> HIDE DEF p, q
  <2>5. puts' \in [Devices -> Seq(Put)] BY <1>1, <2>1, <2>4
  <2>6. \A d \in Devices : applied'[d] <= Len(puts'[d]) BY <1>1, <2>1, <2>4 DEF Devices
  <2>7. guestCells' \in [1..Len(requests) -> BOOLEAN] BY <1>1, <2>1
  <2> QED BY <1>1, <2>1, <2>2, <2>5, <2>6, <2>7, GuestTypes DEF TypeOK, counters
<1>4. CASE Rename
  <2>1. /\ mishaps < MaxMishaps /\ mishaps' = mishaps + 1 /\ displayName' \in Usernames
        /\ UNCHANGED <<observed, requests, guestCells, inbox, accepts, hostVars, netVars, again, sends>>
    BY <1>4 DEF Rename
  <2>2. mishaps' \in 0..MaxMishaps BY <2>1, OneMoreOf, BoundsAssumption DEF TypeOK
  <2> QED BY <1>1, <2>1, <2>2, GuestTypes DEF TypeOK, netVars
<1>5. CASE GuestKilled
  <2>1. /\ mishaps < MaxMishaps /\ mishaps' = mishaps + 1 /\ observed' = displayName
        /\ requests' = <<>> /\ guestCells' = <<>> /\ accepts' = {}
        /\ inbox' = Listen(displayName, {})
        /\ puts' = [puts EXCEPT !["guest"] = <<>>] /\ applied' = [applied EXCEPT !["guest"] = 0]
        /\ UNCHANGED <<displayName, hostVars, invites, again, sends>>
    BY <1>5 DEF GuestKilled
  <2>2. mishaps' \in 0..MaxMishaps BY <2>1, OneMoreOf, BoundsAssumption DEF TypeOK
  <2>3. inbox' \in Seq(News) BY <1>1, <2>1, ListenLists
  <2>4. (\A S : <<>> \in Seq(S)) /\ Len(<<>>) = 0 /\ <<>> \in [1..0 -> BOOLEAN] OBVIOUS
  <2>5. puts' \in [Devices -> Seq(Put)] BY <1>1, <2>1, <2>4
  <2>6. applied' \in [Devices -> Nat] /\ \A d \in Devices : applied'[d] <= Len(puts'[d])
    BY <1>1, <2>1, <2>4
  <2> QED BY <1>1, <2>1, <2>2, <2>3, <2>4, <2>5, <2>6, GuestTypes DEF TypeOK
<1>6. CASE ScrollList
  <2>1. PICK cells \in [1..Len(requests) -> BOOLEAN] :
           guestCells' = [i \in DOMAIN cells |-> cells[i] \/ requests[i].accepted]
    BY <1>6 DEF ScrollList, Reused
  <2>2. UNCHANGED <<displayName, observed, requests, inbox, accepts, hostVars, netVars, counters>>
    BY <1>6 DEF ScrollList
  <2>3. \A i \in 1..Len(requests) : requests[i].accepted \in BOOLEAN
    <3>1. \A i \in 1..Len(requests) : requests[i] \in Request BY <1>1
    <3> QED BY <3>1 DEF Request
  <2>4. guestCells' \in [1..Len(requests) -> BOOLEAN] BY <2>1, <2>3
  <2> QED BY <1>1, <2>2, <2>4, GuestTypes DEF TypeOK, netVars, counters
<1> QED BY <1>2, <1>3, <1>4, <1>5, <1>6

LEMMA ServerStepTypes ==
    ASSUME TypeOK, NEW d \in Devices, ServerApplies(d) \/ Acknowledged(d) \/ Reconnect(d)
    PROVE  TypeOK'
<1>1. /\ inbox \in Seq(News) /\ puts \in [Devices -> Seq(Put)] /\ applied \in [Devices -> Nat]
      /\ \A c \in Devices : applied[c] <= Len(puts[c]) /\ Len(puts[c]) \in Nat
      /\ observed \in Usernames
      /\ invites \in [Usernames -> [Events -> Answers \cup {"none"}]]
  BY DEF TypeOK
<1>2. CASE ServerApplies(d)
  <2> DEFINE p == puts[d][applied[d] + 1]
  <2>1. /\ applied[d] < Len(puts[d]) /\ applied' = [applied EXCEPT ![d] = applied[d] + 1]
        /\ Stores({p.to}, p.event, p.answer)
        /\ UNCHANGED <<displayName, observed, requests, guestCells, accepts, hostVars, puts, counters>>
    BY <1>2 DEF ServerApplies
  <2>2. p \in Put
    <3>1. puts[d] \in Seq(Put) /\ applied[d] + 1 \in 1..Len(puts[d]) BY <1>1, <2>1
    <3> QED BY <3>1
  <2> HIDE DEF p
  <2>3. p.event \in Events /\ p.answer \in Answers BY <2>2 DEF Put
  <2>4. inbox' \in Seq(News) /\ invites' \in [Usernames -> [Events -> Answers \cup {"none"}]]
    BY <2>1, <2>3, StoresTypes
  <2>5. applied' \in [Devices -> Nat] /\ \A c \in Devices : applied'[c] <= Len(puts[c])
    BY <1>1, <2>1
  <2> QED BY <2>1, <2>4, <2>5, GuestTypes DEF TypeOK, counters
<1>3. CASE Acknowledged(d)
  <2>1. /\ applied[d] > 0 /\ puts' = [puts EXCEPT ![d] = Tail(puts[d])]
        /\ applied' = [applied EXCEPT ![d] = applied[d] - 1]
        /\ UNCHANGED <<hostVars, guestVars, invites, counters>>
    BY <1>3 DEF Acknowledged
  <2>2. puts[d] \in Seq(Put) /\ puts[d] # <<>> BY <1>1, <2>1
  <2>3. Tail(puts[d]) \in Seq(Put) /\ Len(Tail(puts[d])) = Len(puts[d]) - 1
    BY <2>2, HeadTailProperties
  <2>4. puts' \in [Devices -> Seq(Put)] BY <1>1, <2>1, <2>3
  <2>5. applied' \in [Devices -> Nat] /\ \A c \in Devices : applied'[c] <= Len(puts'[c])
    <3>1. applied[d] - 1 \in Nat /\ applied[d] - 1 <= Len(Tail(puts[d]))
      BY <1>1, <2>1, <2>3
    <3> QED BY <1>1, <2>1, <3>1
  <2> QED BY <2>1, <2>4, <2>5, GuestTypes DEF TypeOK, guestVars, counters
<1>4. CASE Reconnect(d)
  <2>1. /\ mishaps < MaxMishaps /\ mishaps' = mishaps + 1
        /\ applied' = [applied EXCEPT ![d] = 0]
        /\ inbox' \in {Listen(observed, Listed), inbox}
        /\ UNCHANGED <<displayName, observed, requests, guestCells, accepts, hostVars, puts,
                       invites, again, sends>>
    BY <1>4 DEF Reconnect
  <2>2. mishaps' \in 0..MaxMishaps BY <2>1, OneMoreOf, BoundsAssumption DEF TypeOK
  <2>3. inbox' \in Seq(News) BY <1>1, <2>1, ListenLists
  <2>4. applied' \in [Devices -> Nat] /\ \A c \in Devices : applied'[c] <= Len(puts[c])
    BY <1>1, <2>1
  <2> QED BY <2>1, <2>2, <2>3, <2>4, GuestTypes DEF TypeOK
<1> QED BY <1>2, <1>3, <1>4

LEMMA TypeStep == ASSUME TypeOK, [Next]_vars PROVE TypeOK'
<1>1. CASE UNCHANGED vars
  BY <1>1 DEF vars, hostVars, guestVars, netVars, counters, TypeOK
<1> QED BY <1>1, HostStepTypes, GuestStepTypes, ServerStepTypes DEF Next

\* The table, the cells' accessories and the array of choices keep one length,
\* and the writes of both devices stay writes.
THEOREM TypeCorrect == Spec => []TypeOK
<1> QED BY TypeInit, TypeStep, PTL DEF Spec, Safe

-----------------------------------------------------------------------------
(* The guest's rows.  What is listed and what is on its way, one after the  *)
(* other, are the stored invitations, each once.                            *)

StoredEvents == {e \in Events : invites[observed][e] # "none"}
Size == Len(requests) + Len(inbox)
Announced(i) == IF i <= Len(requests) THEN requests[i].name
                ELSE inbox[i - Len(requests)].event

Once ==
    /\ \A i \in 1..Size : Announced(i) \in StoredEvents
    /\ \A i, j \in 1..Size : Announced(i) = Announced(j) => i = j
    /\ \A e \in StoredEvents : \E i \in 1..Size : Announced(i) = e

LEMMA Lengths ==
    ASSUME TypeOK
    PROVE  /\ Len(requests) \in Nat /\ Len(inbox) \in Nat /\ Size \in Nat
           /\ DOMAIN requests = 1..Len(requests) /\ DOMAIN inbox = 1..Len(inbox)
BY DEF TypeOK, Size

LEMMA ListedOrComing ==
    ASSUME TypeOK
    PROVE  Listed \cup Coming = {Announced(i) : i \in 1..Size}
<1>1. \A i \in DOMAIN requests : i \in 1..Size /\ Announced(i) = requests[i].name
  BY Lengths DEF Size, Announced
<1>2. \A i \in DOMAIN inbox : Len(requests) + i \in 1..Size
                              /\ Announced(Len(requests) + i) = inbox[i].event
  <2> SUFFICES ASSUME NEW i \in DOMAIN inbox
               PROVE  Len(requests) + i \in 1..Size
                      /\ Announced(Len(requests) + i) = inbox[i].event
    OBVIOUS
  <2>1. Len(requests) + i \in 1..Size /\ ~(Len(requests) + i <= Len(requests))
        /\ (Len(requests) + i) - Len(requests) = i
    BY Lengths DEF Size
  <2> QED BY <2>1 DEF Announced
<1>3. \A i \in 1..Size : Announced(i) \in Listed \cup Coming
  <2> SUFFICES ASSUME NEW i \in 1..Size PROVE Announced(i) \in Listed \cup Coming OBVIOUS
  <2>1. CASE i <= Len(requests)
    <3>1. i \in DOMAIN requests /\ Announced(i) = requests[i].name BY <2>1, Lengths DEF Announced
    <3> QED BY <3>1 DEF Listed
  <2>2. CASE ~(i <= Len(requests))
    <3>1. i - Len(requests) \in DOMAIN inbox BY <2>2, Lengths DEF Size
    <3>2. Announced(i) = inbox[i - Len(requests)].event BY <2>2 DEF Announced
    <3> QED BY <3>1, <3>2 DEF Coming
  <2> QED BY <2>1, <2>2
<1>4. \A e \in Listed \cup Coming : \E i \in 1..Size : Announced(i) = e
  BY <1>1, <1>2 DEF Listed, Coming
<1> QED BY <1>3, <1>4

LEMMA OnceMatches == ASSUME TypeOK, Once PROVE RequestsMatchInvites
<1> DEFINE f == [i \in 1..Size |-> Announced(i)]
<1>1. Listed \cup Coming = StoredEvents
  BY ListedOrComing DEF Once
<1>2. f \in Bijection(1..Size, StoredEvents)
  BY DEF Once, Bijection, Injection, Surjection, IsInjective
<1>3. ExistsBijection(1..Size, StoredEvents) BY <1>2, Zenon DEF ExistsBijection
<1>4. IsFiniteSet(1..Size) /\ Cardinality(1..Size) = Size BY Lengths, FS_Interval
<1>5. Cardinality(StoredEvents) = Size BY <1>3, <1>4, FS_Bijection
<1> QED BY <1>1, <1>5 DEF RequestsMatchInvites, StoredEvents, Size

LEMMA OnceInit == Init => Once
<1> SUFFICES ASSUME Init PROVE Once OBVIOUS
<1>1. requests = <<>> /\ inbox = <<>> /\ observed \in Usernames
      /\ invites = [u \in Usernames |-> [e \in Events |-> "none"]]
  BY DEF Init
<1>2. Size = 0 BY <1>1 DEF Size
<1>3. StoredEvents = {} BY <1>1 DEF StoredEvents
<1> QED BY <1>2, <1>3 DEF Once

LEMMA SameLists ==
    ASSUME Once, UNCHANGED <<requests, inbox>>, StoredEvents' = StoredEvents
    PROVE  Once'
BY DEF Once, Size, Announced

\* The server announces what the rows lack: after a new listen both together
\* are again what is stored.
LEMMA RelistedOnce ==
    ASSUME TypeOK, invites' = invites, observed' \in Usernames, requests' \in Seq(Request),
           inbox' = Listen(observed', Listed'),
           \A i \in DOMAIN requests' : requests'[i].name \in StoredEvents',
           \A i, j \in DOMAIN requests' : requests'[i].name = requests'[j].name => i = j
    PROVE  Once'
<1> DEFINE k == Len(requests')
           new == StoredEvents' \ Listed'
<1>1. k \in Nat /\ DOMAIN requests' = 1..k OBVIOUS
<1>2. StoredEvents' = {e \in Events : invites[observed'][e] # "none"} BY DEF StoredEvents
<1>3. /\ Len(inbox') \in Nat /\ \A i \in 1..Len(inbox') : inbox'[i].event \in new
      /\ \A i, j \in 1..Len(inbox') : inbox'[i].event = inbox'[j].event => i = j
      /\ \A e \in new : \E i \in 1..Len(inbox') : inbox'[i].event = e
  BY <1>2, ListenLists
<1>4. Listed' = {requests'[i].name : i \in 1..k} BY <1>1 DEF Listed
<1>5. /\ Size' = k + Len(inbox')
      /\ \A i : Announced(i)' = IF i <= k THEN requests'[i].name ELSE inbox'[i - k].event
  BY DEF Size, Announced
<1> HIDE DEF k
<1>6. \A i \in 1..Size' : (i <= k => i \in 1..k /\ Announced(i)' = requests'[i].name)
                          /\ (~(i <= k) => i - k \in 1..Len(inbox')
                                           /\ Announced(i)' = inbox'[i - k].event)
  BY <1>1, <1>3, <1>5
<1>7. \A i \in 1..Size' : /\ i <= k => Announced(i)' \in Listed' /\ Announced(i)' \in StoredEvents'
                          /\ ~(i <= k) => Announced(i)' \in new
  <2> SUFFICES ASSUME NEW i \in 1..Size'
               PROVE  /\ i <= k => Announced(i)' \in Listed' /\ Announced(i)' \in StoredEvents'
                      /\ ~(i <= k) => Announced(i)' \in new
    OBVIOUS
  <2>1. CASE i <= k
    <3>1. i \in 1..k /\ Announced(i)' = requests'[i].name BY <1>6, <2>1
    <3>2. i \in DOMAIN requests' BY <1>1, <3>1
    <3> QED BY <1>4, <2>1, <3>1, <3>2
  <2>2. CASE ~(i <= k)
    <3>1. i - k \in 1..Len(inbox') /\ Announced(i)' = inbox'[i - k].event BY <1>6, <2>2
    <3> QED BY <1>3, <2>2, <3>1
  <2> QED BY <2>1, <2>2
<1>8. ASSUME NEW i \in 1..Size', NEW j \in 1..Size', Announced(i)' = Announced(j)' PROVE i = j
  <2>1. CASE i <= k /\ j <= k BY <1>1, <1>6, <1>8, <2>1
  <2>2. CASE ~(i <= k) /\ ~(j <= k)
    <3>1. i - k = j - k BY <1>3, <1>6, <1>8, <2>2
    <3> QED BY <1>1, <1>3, <1>5, <3>1
  <2>3. CASE (i <= k) # (j <= k) BY <1>7, <1>8, <2>3
  <2> QED BY <2>1, <2>2, <2>3
<1>9. ASSUME NEW e \in StoredEvents' PROVE \E i \in 1..Size' : Announced(i)' = e
  <2>1. CASE e \in Listed'
    <3>1. PICK i \in 1..k : requests'[i].name = e BY <1>4, <2>1
    <3>2. i \in 1..Size' /\ i <= k BY <1>1, <1>3, <1>5
    <3> QED BY <1>6, <3>1, <3>2
  <2>2. CASE e \notin Listed'
    <3>1. PICK i \in 1..Len(inbox') : inbox'[i].event = e BY <1>3, <2>2
    <3>2. k + i \in 1..Size' /\ ~(k + i <= k) /\ (k + i) - k = i BY <1>1, <1>3, <1>5
    <3> QED BY <1>6, <3>1, <3>2
  <2> QED BY <2>1, <2>2
<1> QED BY <1>7, <1>8, <1>9 DEF Once

\* A row comes from the news: nothing else changes place.
LEMMA ArrivalOnce == ASSUME TypeOK, Once, InviteArrives PROVE Once'
<1> DEFINE r == [name |-> Head(inbox).event, accepted |-> Head(inbox).answer = "accepted"]
           k == Len(requests)
<1>1. /\ inbox # <<>> /\ inbox' = Tail(inbox) /\ requests' = Append(requests, r)
      /\ UNCHANGED <<observed, invites>>
  BY DEF InviteArrives, netVars
<1>2. requests \in Seq(Request) /\ inbox \in Seq(News) /\ k \in Nat BY DEF TypeOK
<1>3. /\ Len(inbox') = Len(inbox) - 1 /\ Len(inbox) \in Nat
      /\ \A i \in 1..Len(inbox') : inbox'[i] = inbox[i + 1]
      /\ Head(inbox) = inbox[1] /\ inbox[1] \in News
  BY <1>1, <1>2, HeadTailProperties
<1>4. r \in Request BY <1>3 DEF News, Request
<1>5. /\ Len(requests') = k + 1 /\ requests'[k + 1] = r
      /\ \A i \in 1..k : requests'[i] = requests[i]
  BY <1>1, <1>2, <1>4, AppendProperties
<1>6. r.name = inbox[1].event BY <1>3
<1> HIDE DEF r, k
<1>7. Size' = Size BY <1>2, <1>3, <1>5 DEF Size, k
<1>8. ASSUME NEW i \in 1..Size PROVE Announced(i)' = Announced(i)
  <2>1. Announced(i)' = IF i <= k + 1 THEN requests'[i].name ELSE inbox'[i - (k + 1)].event
    BY <1>5 DEF Announced
  <2>2. Announced(i) = IF i <= k THEN requests[i].name ELSE inbox[i - k].event
    BY DEF Announced, k
  <2>3. CASE i <= k
    <3>1. i <= k + 1 /\ i \in 1..k BY <1>2, <1>3, <2>3 DEF Size, k
    <3> QED BY <1>5, <2>1, <2>2, <2>3, <3>1
  <2>4. CASE i = k + 1
    <3>1. i <= k + 1 /\ ~(i <= k) /\ i - k = 1 BY <1>2, <2>4
    <3> QED BY <1>5, <1>6, <2>1, <2>2, <2>4, <3>1
  <2>5. CASE i > k + 1
    <3>1. ~(i <= k + 1) /\ ~(i <= k) /\ i - (k + 1) \in 1..Len(inbox')
          /\ (i - (k + 1)) + 1 = i - k
      BY <1>2, <1>3, <2>5 DEF Size, k
    <3> QED BY <1>3, <2>1, <2>2, <3>1
  <2> QED BY <1>2, <2>3, <2>4, <2>5
<1>9. StoredEvents' = StoredEvents BY <1>1 DEF StoredEvents
<1> QED BY <1>7, <1>8, <1>9 DEF Once

\* What the server stores joins the stored events, of the observed name alone.
LEMMA StoresEvents ==
    ASSUME TypeOK, NEW names, NEW e \in Events, NEW a \in Answers, Stores(names, e, a),
           observed' = observed
    PROVE  /\ observed \notin names => StoredEvents' = StoredEvents
           /\ observed \in names => StoredEvents' = StoredEvents \cup {e}
<1>1. /\ observed \in Usernames /\ invites \in [Usernames -> [Events -> Answers \cup {"none"}]]
      /\ invites' = [u \in Usernames |->
                       IF u \in names THEN [invites[u] EXCEPT ![e] = a] ELSE invites[u]]
  BY DEF Stores, TypeOK
<1>2. observed \notin names => invites'[observed] = invites[observed] BY <1>1
<1>3. observed \in names => \A f \in Events :
         invites'[observed][f] = IF f = e THEN a ELSE invites[observed][f]
  BY <1>1
<1>4. a # "none" BY DEF Answers
<1>5. observed \notin names => StoredEvents' = StoredEvents BY <1>2 DEF StoredEvents
<1>6. observed \in names => StoredEvents' = StoredEvents \cup {e} BY <1>3, <1>4 DEF StoredEvents
<1> QED BY <1>5, <1>6

\* The write the server carries out.
LEMMA AppliedWrite ==
    ASSUME TypeOK, NEW d \in Devices, ServerApplies(d)
    PROVE  LET p == puts[d][applied[d] + 1]
           IN  /\ applied[d] + 1 \in DOMAIN puts[d] /\ p \in Put
               /\ Stores({p.to}, p.event, p.answer)
               /\ invites' = [invites EXCEPT ![p.to][p.event] = p.answer]
<1> DEFINE p == puts[d][applied[d] + 1]
<1>1. applied[d] < Len(puts[d]) /\ Stores({p.to}, p.event, p.answer) BY DEF ServerApplies
<1>2. puts[d] \in Seq(Put) /\ applied[d] \in Nat
      /\ invites \in [Usernames -> [Events -> Answers \cup {"none"}]]
  BY DEF TypeOK
<1>3. applied[d] + 1 \in DOMAIN puts[d] /\ p \in Put BY <1>1, <1>2
<1> HIDE DEF p
<1>4. p.to \in Usernames BY <1>3 DEF Put
<1>5. invites' = [u \in Usernames |->
                   IF u = p.to THEN [invites[u] EXCEPT ![p.event] = p.answer] ELSE invites[u]]
  BY <1>1 DEF Stores
<1>6. invites' = [invites EXCEPT ![p.to][p.event] = p.answer] BY <1>2, <1>4, <1>5
<1> QED BY <1>1, <1>3, <1>6 DEF p

LEMMA StoresOnce ==
    ASSUME TypeOK, Once, NEW names, NEW e \in Events, NEW a \in Answers, Stores(names, e, a),
           UNCHANGED <<observed, requests>>
    PROVE  Once'
<1> DEFINE n == [event |-> e, answer |-> a]
<1>1. inbox' = IF observed \in names /\ e \notin Listed \cup Coming
               THEN Append(inbox, n) ELSE inbox
  BY DEF Stores
<1>2. /\ observed \notin names => StoredEvents' = StoredEvents
      /\ observed \in names => StoredEvents' = StoredEvents \cup {e}
  BY StoresEvents
<1>3. Listed \cup Coming = StoredEvents BY ListedOrComing DEF Once
<1>4. CASE ~(observed \in names /\ e \notin StoredEvents)
  <2>1. StoredEvents' = StoredEvents BY <1>2, <1>4
  <2>2. UNCHANGED <<requests, inbox>> BY <1>1, <1>3, <1>4
  <2> QED BY <2>1, <2>2, SameLists
<1>5. CASE observed \in names /\ e \notin StoredEvents
  <2>1. n \in News /\ inbox \in Seq(News) BY DEF News, TypeOK
  <2>2. inbox' = Append(inbox, n) BY <1>1, <1>3, <1>5
  <2>3. n.event = e OBVIOUS
  <2> HIDE DEF n
  <2>4. /\ Len(inbox') = Len(inbox) + 1 /\ inbox'[Len(inbox) + 1] = n
        /\ \A i \in 1..Len(inbox) : inbox'[i] = inbox[i]
    BY <2>1, <2>2, AppendProperties
  <2>5. PICK last \in Nat : last = Size + 1 BY Lengths
  <2>14. Size' = last /\ Size \in Nat BY <2>4, <2>5, Lengths DEF Size
  <2>6. Announced(last)' = e
    <3>1. ~(last <= Len(requests)) /\ last - Len(requests) = Len(inbox) + 1
      BY <2>5, Lengths DEF Size
    <3> QED BY <2>3, <2>4, <3>1 DEF Announced
  <2>7. ASSUME NEW i \in 1..Size PROVE Announced(i)' = Announced(i)
    <3>1. ~(i <= Len(requests)) => i - Len(requests) \in 1..Len(inbox) BY Lengths DEF Size
    <3> QED BY <2>4, <3>1 DEF Announced
  <2>8. StoredEvents' = StoredEvents \cup {e} BY <1>2, <1>5
  <2>9. \A i \in 1..Size' : i \in 1..Size \/ i = last BY <2>5, <2>14
  <2>10. last \in 1..Size' /\ \A i \in 1..Size : i \in 1..Size' BY <2>5, <2>14
  <2>11. \A i \in 1..Size' : Announced(i)' \in StoredEvents'
    BY <2>6, <2>7, <2>8, <2>9 DEF Once
  <2>12. ASSUME NEW i \in 1..Size', NEW j \in 1..Size', Announced(i)' = Announced(j)'
         PROVE  i = j
    <3>1. CASE i \in 1..Size /\ j \in 1..Size
      <4>1. Announced(i) = Announced(j) BY <2>7, <2>12, <3>1
      <4> QED BY <3>1, <4>1 DEF Once
    <3>2. CASE i \in 1..Size /\ j = last
      <4>1. Announced(i) = e BY <2>6, <2>7, <2>12, <3>2
      <4> QED BY <1>5, <3>2, <4>1 DEF Once
    <3>3. CASE i = last /\ j \in 1..Size
      <4>1. Announced(j) = e BY <2>6, <2>7, <2>12, <3>3
      <4> QED BY <1>5, <3>3, <4>1 DEF Once
    <3> QED BY <2>9, <3>1, <3>2, <3>3
  <2>13. ASSUME NEW f \in StoredEvents' PROVE \E i \in 1..Size' : Announced(i)' = f
    <3>1. CASE f = e BY <2>6, <2>10, <3>1
    <3>2. CASE f \in StoredEvents
      <4>1. PICK i \in 1..Size : Announced(i) = f BY <3>2 DEF Once
      <4> QED BY <2>7, <2>10, <4>1
    <3> QED BY <2>8, <3>1, <3>2
  <2> QED BY <2>11, <2>12, <2>13 DEF Once
<1> QED BY <1>4, <1>5

LEMMA AppliesOnce ==
    ASSUME TypeOK, Once, NEW d \in Devices, ServerApplies(d) PROVE Once'
<1> DEFINE p == puts[d][applied[d] + 1]
<1>1. p \in Put /\ Stores({p.to}, p.event, p.answer) BY AppliedWrite
<1>2. UNCHANGED <<observed, requests>> BY DEF ServerApplies
<1> HIDE DEF p
<1>3. p.event \in Events /\ p.answer \in Answers BY <1>1 DEF Put
<1> QED BY <1>1, <1>2, <1>3, StoresOnce

LEMMA OnceStep == ASSUME TypeOK, Once, [Next]_vars PROVE Once'
<1>1. requests \in Seq(Request) /\ displayName \in Usernames /\ observed \in Usernames
  BY DEF TypeOK
<1>2. ASSUME UNCHANGED <<observed, requests, inbox, invites>> PROVE Once'
  <2>1. StoredEvents' = StoredEvents BY <1>2 DEF StoredEvents
  <2> QED BY <1>2, <2>1, SameLists
<1>3. CASE \/ OpenSend \/ CancelSend \/ SaveInvites \/ SaveWithoutContacts \/ HostKilled
           \/ ContactAdded \/ ContactRemoved \/ ScrollSend
           \/ (\E i \in DOMAIN contacts : SelectContact(i))
           \/ ScrollList \/ (\E i \in DOMAIN requests : Answer(i)) \/ Rename
           \/ (\E d \in Devices : Acknowledged(d)) \/ UNCHANGED vars
  <2>1. UNCHANGED <<observed, requests, inbox, invites>>
    BY <1>3 DEF OpenSend, CancelSend, SaveInvites, SaveWithoutContacts, HostKilled, HostEnds,
       ContactAdded, ContactRemoved, ScrollSend, SelectContact, ScrollList, Answer, Rename,
       Acknowledged, vars, guestVars, netVars
  <2> QED BY <1>2, <2>1
<1>4. CASE InviteArrives BY <1>4, ArrivalOnce
<1>5. CASE GuestKilled
  <2>1. /\ observed' = displayName /\ requests' = <<>> /\ invites' = invites
        /\ inbox' = Listen(displayName, {})
    BY <1>5 DEF GuestKilled
  <2>2. Listed' = {} /\ requests' \in Seq(Request) /\ DOMAIN requests' = {}
    BY <2>1 DEF Listed
  <2> QED BY <1>1, <2>1, <2>2, RelistedOnce
<1>6. ASSUME NEW d \in Devices, ServerApplies(d) PROVE Once' BY <1>6, AppliesOnce
<1>8. CASE SaveRaises
  <2>1. event \in Events /\ \E names : Stores(names, event, "open")
    BY <1>8 DEF SaveRaises, TypeOK
  <2>2. UNCHANGED <<observed, requests>> BY <1>8 DEF SaveRaises, HostEnds
  <2> QED BY <2>1, <2>2, StoresOnce DEF Answers
<1>7. ASSUME NEW d \in Devices, Reconnect(d) PROVE Once'
  <2>1. UNCHANGED <<observed, requests, invites>> BY <1>7 DEF Reconnect
  <2>2. CASE d = "guest"
    <3>1. inbox' = Listen(observed', Listed') BY <1>7, <2>1, <2>2 DEF Reconnect, Listed
    <3>2. StoredEvents' = StoredEvents BY <2>1 DEF StoredEvents
    <3>3. \A i \in DOMAIN requests : i \in 1..Size /\ Announced(i) = requests[i].name
      BY Lengths DEF Size, Announced
    <3>4. /\ \A i \in DOMAIN requests' : requests'[i].name \in StoredEvents'
          /\ \A i, j \in DOMAIN requests' : requests'[i].name = requests'[j].name => i = j
      BY <2>1, <3>2, <3>3 DEF Once
    <3> QED BY <1>1, <2>1, <3>1, <3>4, RelistedOnce
  <2>3. CASE d # "guest"
    <3>1. inbox' = inbox BY <1>7, <2>3 DEF Reconnect
    <3> QED BY <1>2, <2>1, <3>1
  <2> QED BY <2>2, <2>3
<1> QED BY <1>3, <1>4, <1>5, <1>6, <1>7, <1>8 DEF Next

\* Whatever connections are lost and whoever is killed or renamed, the guest's
\* list with what is on its way has each invitation stored for its name once
\* (InviteTableViewController, whose childAdded appends without looking).
THEOREM RequestsMatchInvitesAlways == Spec => []RequestsMatchInvites
<1>1. Init => TypeOK /\ Once BY TypeInit, OnceInit
<1>2. (TypeOK /\ Once) /\ [Next]_vars => (TypeOK /\ Once)' BY TypeStep, OnceStep
<1>3. TypeOK /\ Once => RequestsMatchInvites BY OnceMatches
<1> QED BY <1>1, <1>2, <1>3, PTL DEF Spec, Safe

-----------------------------------------------------------------------------
(* First invitations, while no connection is lost.  Of the host's writes h  *)
(* the server carried out the first a; one still to come, of an event not   *)
(* in repeated, is to an invitation not stored, and the only such write.    *)

FirstWrites(h, a, stored, repeated) ==
    \A i \in DOMAIN h : i > a /\ h[i].event \notin repeated =>
        /\ stored[h[i].to][h[i].event] = "none"
        /\ \A j \in DOMAIN h :
              j > a /\ h[j].to = h[i].to /\ h[j].event = h[i].event => j = i

LEMMA FirstWritesApply ==
    ASSUME NEW h \in Seq(Put), NEW a \in Nat, a + 1 \in DOMAIN h, NEW repeated,
           NEW stored \in [Usernames -> [Events -> Answers \cup {"none"}]],
           FirstWrites(h, a, stored, repeated), NEW x
    PROVE  FirstWrites(h, a + 1,
                       [stored EXCEPT ![h[a + 1].to][h[a + 1].event] = x], repeated)
<1> DEFINE p == h[a + 1]
           after == [stored EXCEPT ![p.to][p.event] = x]
<1> SUFFICES ASSUME NEW i \in DOMAIN h, i > a + 1, h[i].event \notin repeated
             PROVE  /\ after[h[i].to][h[i].event] = "none"
                    /\ \A j \in DOMAIN h :
                          j > a + 1 /\ h[j].to = h[i].to /\ h[j].event = h[i].event => j = i
  BY DEF FirstWrites
<1>1. i \in Nat /\ i > a /\ i # a + 1 /\ a + 1 > a
      /\ \A j \in DOMAIN h : j > a + 1 => j > a
  OBVIOUS
<1>2. stored[h[i].to][h[i].event] = "none"
      /\ \A j \in DOMAIN h : j > a /\ h[j].to = h[i].to /\ h[j].event = h[i].event => j = i
  BY <1>1 DEF FirstWrites
<1>3. h[i] \in Put /\ p \in Put OBVIOUS
<1>4. p.to # h[i].to \/ p.event # h[i].event BY <1>1, <1>2
<1> HIDE DEF p
<1>5. after[h[i].to][h[i].event] = stored[h[i].to][h[i].event] BY <1>3, <1>4 DEF Put
<1> QED BY <1>1, <1>2, <1>5

\* A write over what is stored leaves the host's first invitations new.
LEMMA FirstWritesOver ==
    ASSUME NEW h \in Seq(Put), NEW a, NEW repeated,
           NEW stored \in [Usernames -> [Events -> Answers \cup {"none"}]],
           FirstWrites(h, a, stored, repeated),
           NEW u \in Usernames, NEW e \in Events, stored[u][e] # "none", NEW x
    PROVE  FirstWrites(h, a, [stored EXCEPT ![u][e] = x], repeated)
<1> DEFINE after == [stored EXCEPT ![u][e] = x]
<1> SUFFICES ASSUME NEW i \in DOMAIN h, i > a, h[i].event \notin repeated
             PROVE  after[h[i].to][h[i].event] = "none"
  BY DEF FirstWrites
<1>1. stored[h[i].to][h[i].event] = "none" BY DEF FirstWrites
<1>2. h[i] \in Put OBVIOUS
<1>3. u # h[i].to \/ e # h[i].event BY <1>1
<1>4. after[h[i].to][h[i].event] = stored[h[i].to][h[i].event] BY <1>2, <1>3 DEF Put
<1> QED BY <1>1, <1>4

LEMMA FirstWritesTail ==
    ASSUME NEW h \in Seq(Put), NEW a \in Nat, a > 0, a <= Len(h), NEW stored, NEW repeated,
           FirstWrites(h, a, stored, repeated)
    PROVE  FirstWrites(Tail(h), a - 1, stored, repeated)
<1> DEFINE t == Tail(h)
<1>1. /\ \A i \in DOMAIN t : i \in Nat /\ i + 1 \in DOMAIN h /\ t[i] = h[i + 1]
  <2>1. t \in Seq(Put) /\ Len(t) = Len(h) - 1 /\ \A i \in 1..Len(t) : t[i] = h[i + 1]
    BY HeadTailProperties
  <2> QED BY <2>1
<1>2. \A i \in DOMAIN t : i > a - 1 => i + 1 > a BY <1>1
<1>3. \A i, j \in DOMAIN t : i + 1 = j + 1 => i = j BY <1>1
<1> HIDE DEF t
<1> SUFFICES ASSUME NEW i \in DOMAIN t, i > a - 1, t[i].event \notin repeated
             PROVE  /\ stored[t[i].to][t[i].event] = "none"
                    /\ \A j \in DOMAIN t :
                          j > a - 1 /\ t[j].to = t[i].to /\ t[j].event = t[i].event => j = i
  BY DEF FirstWrites, t
<1>4. PICK k \in DOMAIN h : k = i + 1 /\ k > a /\ t[i] = h[k] BY <1>1, <1>2
<1>5. stored[h[k].to][h[k].event] = "none"
      /\ \A j \in DOMAIN h : j > a /\ h[j].to = h[k].to /\ h[j].event = h[k].event => j = k
  BY <1>4 DEF FirstWrites
<1> QED BY <1>1, <1>2, <1>3, <1>4, <1>5

\* One Save: either its event counts as repeated, or its writes are first ones.
LEMMA FirstWritesJoin ==
    ASSUME NEW h \in Seq(Put), NEW t \in Seq(Put), NEW a \in Nat, a <= Len(h),
           NEW stored, NEW repeated, NEW e, FirstWrites(h, a, stored, repeated),
           \A n \in DOMAIN t : t[n].event = e,
           NEW now, repeated \subseteq now,
           e \in now \/ \A n \in DOMAIN t :
                           /\ stored[t[n].to][e] = "none"
                           /\ \A k \in DOMAIN h : h[k].to = t[n].to => h[k].event # e
                           /\ \A m \in DOMAIN t : t[m].to = t[n].to => m = n
    PROVE  FirstWrites(h \o t, a, stored, now)
<1> DEFINE q == h \o t
           L == Len(h)
<1>1. /\ L \in Nat /\ DOMAIN h = 1..L /\ DOMAIN t = 1..Len(t) /\ Len(t) \in Nat
      /\ DOMAIN q = 1..(L + Len(t))
      /\ \A i \in 1..L : q[i] = h[i]
      /\ \A n \in 1..Len(t) : q[L + n] = t[n]
  OBVIOUS
<1>2. ASSUME NEW i \in DOMAIN q, i > L
      PROVE  \E n \in DOMAIN t : i = L + n /\ q[i] = t[n]
  <2>1. i - L \in 1..Len(t) /\ i = L + (i - L) BY <1>1, <1>2
  <2> QED BY <1>1, <2>1
<1>3. \A i \in DOMAIN q : i > L \/ (i \in DOMAIN h /\ q[i] = h[i]) BY <1>1
<1> HIDE DEF q, L
<1> SUFFICES ASSUME NEW i \in DOMAIN q, i > a, q[i].event \notin now
             PROVE  /\ stored[q[i].to][q[i].event] = "none"
                    /\ \A j \in DOMAIN q :
                          j > a /\ q[j].to = q[i].to /\ q[j].event = q[i].event => j = i
  BY DEF FirstWrites, q
<1>4. CASE i > L
  <2>1. PICK n \in DOMAIN t : i = L + n /\ q[i] = t[n] BY <1>2, <1>4
  <2>2. /\ q[i].event = e /\ stored[t[n].to][e] = "none"
        /\ \A k \in DOMAIN h : h[k].to = t[n].to => h[k].event # e
        /\ \A m \in DOMAIN t : t[m].to = t[n].to => m = n
    BY <2>1
  <2>3. ASSUME NEW j \in DOMAIN q, q[j].to = q[i].to, q[j].event = q[i].event PROVE j = i
    <3>1. j > L BY <1>3, <2>1, <2>2, <2>3
    <3>2. PICK m \in DOMAIN t : j = L + m /\ q[j] = t[m] BY <1>2, <3>1
    <3> QED BY <2>1, <2>2, <2>3, <3>2
  <2> QED BY <2>1, <2>2, <2>3
<1>5. CASE ~(i > L)
  <2>1. i \in DOMAIN h /\ q[i] = h[i] /\ h[i].event \notin repeated BY <1>3, <1>5
  <2>2. stored[h[i].to][h[i].event] = "none"
        /\ \A j \in DOMAIN h : j > a /\ h[j].to = h[i].to /\ h[j].event = h[i].event => j = i
    BY <2>1 DEF FirstWrites
  <2>3. ASSUME NEW j \in DOMAIN q, j > a, q[j].to = q[i].to, q[j].event = q[i].event PROVE j = i
    <3>1. CASE j > L
      <4>1. PICK m \in DOMAIN t : q[j] = t[m] BY <1>2, <3>1
      <4>2. q[i].event = e BY <2>3, <4>1
      <4>3. \A k \in DOMAIN h : h[k].to = t[m].to => h[k].event # e BY <4>2
      <4> QED BY <2>1, <2>3, <4>1, <4>2, <4>3
    <3>2. CASE ~(j > L) BY <1>3, <2>1, <2>2, <2>3, <3>2
    <3> QED BY <3>1, <3>2
  <2> QED BY <2>1, <2>2, <2>3
<1> QED BY <1>4, <1>5

\* Until a connection is lost, an app ends or the guest is renamed, the guest
\* answers at the observed name and the host's first invitations are new.
FirstInvites ==
    mishaps = 0 =>
        /\ displayName = observed
        /\ \A i \in DOMAIN puts["guest"] : puts["guest"][i].to = observed
        /\ FirstWrites(puts["host"], applied["host"], invites, again)

LEMMA FirstInvitesInit == Init => FirstInvites
<1> SUFFICES ASSUME Init PROVE FirstInvites OBVIOUS
<1>1. puts["host"] = <<>> /\ puts["guest"] = <<>> /\ displayName = observed BY DEF Init, Devices
<1> QED BY <1>1 DEF FirstInvites, FirstWrites

LEMMA FirstInvitesStep ==
    ASSUME TypeOK, AnswersAnInvite, FirstInvites, [Next]_vars
    PROVE  FirstInvites'
<1>1. /\ puts \in [Devices -> Seq(Put)] /\ applied \in [Devices -> Nat]
      /\ \A d \in Devices : applied[d] <= Len(puts[d]) /\ Len(puts[d]) \in Nat
      /\ "host" \in Devices /\ "guest" \in Devices /\ "host" # "guest"
      /\ mishaps \in Nat
      /\ invites \in [Usernames -> [Events -> Answers \cup {"none"}]]
  BY BoundsAssumption DEF TypeOK, Devices
<1>2. CASE \/ SaveWithoutContacts \/ SaveRaises \/ HostKilled \/ Rename \/ GuestKilled
           \/ \E d \in Devices : Reconnect(d)
  <2>1. mishaps' = mishaps + 1
    BY <1>2 DEF SaveWithoutContacts, SaveRaises, HostKilled, HostEnds, Rename, GuestKilled, Reconnect
  <2> QED BY <1>1, <2>1 DEF FirstInvites
<1>3. CASE \/ OpenSend \/ CancelSend \/ ContactAdded \/ ContactRemoved \/ ScrollSend
           \/ InviteArrives \/ ScrollList
           \/ (\E i \in DOMAIN contacts : SelectContact(i)) \/ UNCHANGED vars
  <2>1. UNCHANGED <<displayName, observed, netVars, counters>>
    BY <1>3 DEF OpenSend, CancelSend, ContactAdded, ContactRemoved, ScrollSend, InviteArrives,
       ScrollList, SelectContact, vars, guestVars
  <2>2. UNCHANGED <<displayName, observed, puts, applied, invites, again, mishaps>>
    BY <2>1 DEF netVars, counters
  <2> QED BY <2>2 DEF FirstInvites
<1>11. mishaps' # 0 => FirstInvites' BY DEF FirstInvites
<1> SUFFICES ASSUME mishaps' = 0,
                    \/ SaveInvites
                    \/ \E i \in DOMAIN requests : Answer(i)
                    \/ \E d \in Devices : ServerApplies(d) \/ Acknowledged(d)
             PROVE  FirstInvites'
  BY <1>2, <1>3, <1>11, Zenon DEF Next
<1>4. UNCHANGED <<mishaps, displayName, observed>>
  BY DEF SaveInvites, Answer, ServerApplies, Acknowledged, guestVars, counters
<1>5. /\ mishaps = 0 /\ displayName = observed
      /\ \A i \in DOMAIN puts["guest"] : puts["guest"][i].to = observed
      /\ FirstWrites(puts["host"], applied["host"], invites, again)
  BY <1>4 DEF FirstInvites
<1> DEFINE h == puts["host"]
           g == puts["guest"]
           a == applied["host"]
<1>6. h \in Seq(Put) /\ g \in Seq(Put) /\ a \in Nat /\ a <= Len(h) BY <1>1
<1> HIDE DEF h, g, a
<1>7. CASE SaveInvites
  <2>1. /\ event \in Events
        /\ puts' = [puts EXCEPT !["host"] = puts["host"] \o Invitations]
        /\ again' = IF InvitesAgain THEN again \cup {event} ELSE again
        /\ UNCHANGED <<applied, invites>>
    BY <1>7 DEF SaveInvites, TypeOK
  <2>2. puts'["host"] = h \o Invitations /\ puts'["guest"] = puts["guest"] BY <1>1, <2>1 DEF h
  <2>3. /\ Invitations \in Seq(Put) /\ \A n \in DOMAIN Invitations : Invitations[n].event = event
        /\ ~InvitesAgain => \A n \in DOMAIN Invitations : NewWrite(n)
    BY <2>1, InvitationsTyped
  <2>4. again \subseteq again' BY <2>1
  <2>5. event \in again' \/ \A n \in DOMAIN Invitations :
           /\ invites[Invitations[n].to][event] = "none"
           /\ \A k \in DOMAIN h : h[k].to = Invitations[n].to => h[k].event # event
           /\ \A m \in DOMAIN Invitations : Invitations[m].to = Invitations[n].to => m = n
    BY <2>1, <2>3 DEF NewWrite, h
  <2>6. FirstWrites(h, a, invites, again) BY <1>5 DEF h, a
  <2>7. FirstWrites(h \o Invitations, a, invites, again')
    BY <1>6, <2>3, <2>4, <2>5, <2>6, FirstWritesJoin
  <2> QED BY <1>4, <1>5, <2>1, <2>2, <2>7 DEF FirstInvites, a
<1>8. ASSUME NEW i \in DOMAIN requests, Answer(i) PROVE FirstInvites'
  <2> DEFINE p == [to |-> displayName, event |-> requests[i].name,
                   answer |-> IF guestCells[i] THEN "open" ELSE "accepted"]
  <2>1. /\ puts' = [puts EXCEPT !["guest"] = Append(puts["guest"], p)]
        /\ UNCHANGED <<applied, invites, again>>
    BY <1>8 DEF Answer, counters
  <2>2. p.to = observed BY <1>5
  <2> HIDE DEF p
  <2>3. puts'["host"] = puts["host"] /\ puts'["guest"] = Append(g, p) BY <1>1, <2>1 DEF g
  <2>4. \A j \in DOMAIN Append(g, p) : Append(g, p)[j] = p \/ (j \in DOMAIN g /\ Append(g, p)[j] = g[j])
    BY <1>6
  <2>5. \A j \in DOMAIN puts'["guest"] : puts'["guest"][j].to = observed
    BY <1>5, <2>2, <2>3, <2>4 DEF g
  <2> QED BY <1>4, <1>5, <2>1, <2>3, <2>5 DEF FirstInvites
<1>9. ASSUME NEW d \in Devices, ServerApplies(d) PROVE FirstInvites'
  <2> DEFINE p == puts[d][applied[d] + 1]
  <2>1. /\ applied' = [applied EXCEPT ![d] = applied[d] + 1]
        /\ UNCHANGED <<puts, again>>
    BY <1>9 DEF ServerApplies, counters
  <2>2. /\ applied[d] + 1 \in DOMAIN puts[d] /\ p \in Put
        /\ invites' = [invites EXCEPT ![p.to][p.event] = p.answer]
    BY <1>9, AppliedWrite
  <2>3. FirstWrites(h, a, invites, again) BY <1>5 DEF h, a
  <2>4. CASE d = "host"
    <3>1. a + 1 \in DOMAIN h /\ p = h[a + 1] /\ applied'["host"] = a + 1
      BY <1>1, <2>1, <2>2, <2>4 DEF h, a
    <3>2. FirstWrites(h, a + 1, [invites EXCEPT ![h[a + 1].to][h[a + 1].event] = p.answer], again)
      BY <1>1, <1>6, <2>3, <3>1, FirstWritesApply
    <3>3. FirstWrites(h, a + 1, invites', again)
      <4> HIDE DEF p
      <4> QED BY <2>2, <3>1, <3>2
    <3> QED BY <1>4, <1>5, <2>1, <3>1, <3>3 DEF FirstInvites, h
  <2>5. CASE d = "guest"
    <3>1. p.to = observed /\ invites[observed][p.event] # "none"
      BY <1>5, <2>2, <2>5 DEF AnswersAnInvite
    <3> HIDE DEF p
    <3>2. p.to \in Usernames /\ p.event \in Events BY <2>2 DEF Put
    <3>3. FirstWrites(h, a, [invites EXCEPT ![p.to][p.event] = p.answer], again)
      BY <1>1, <1>6, <2>3, <3>1, <3>2, FirstWritesOver
    <3>4. FirstWrites(h, a, invites', again) BY <2>2, <3>3
    <3>5. applied'["host"] = a BY <1>1, <2>1, <2>5 DEF a
    <3> QED BY <1>4, <1>5, <2>1, <3>4, <3>5 DEF FirstInvites, h
  <2> QED BY <2>4, <2>5 DEF Devices
<1>10. ASSUME NEW d \in Devices, Acknowledged(d) PROVE FirstInvites'
  <2>1. /\ applied[d] > 0
        /\ puts' = [puts EXCEPT ![d] = Tail(puts[d])]
        /\ applied' = [applied EXCEPT ![d] = applied[d] - 1]
        /\ UNCHANGED <<invites, again>>
    BY <1>10 DEF Acknowledged, guestVars, counters
  <2>2. CASE d = "guest"
    <3>1. /\ puts'["host"] = puts["host"] /\ applied'["host"] = applied["host"]
          /\ puts'["guest"] = Tail(g)
      BY <1>1, <2>1, <2>2 DEF g
    <3>2. g # <<>>
      <4>1. Len(puts["guest"]) > 0 BY <1>1, <2>1, <2>2
      <4> QED BY <4>1 DEF g
    <3>3. \A i \in DOMAIN Tail(g) : i + 1 \in DOMAIN g /\ Tail(g)[i] = g[i + 1]
      <4>1. Tail(g) \in Seq(Put) /\ Len(Tail(g)) = Len(g) - 1
            /\ \A i \in 1..Len(Tail(g)) : Tail(g)[i] = g[i + 1]
        BY <1>6, <3>2, HeadTailProperties
      <4> QED BY <1>6, <4>1
    <3>4. \A i \in DOMAIN Tail(g) : Tail(g)[i].to = observed BY <1>5, <3>3 DEF g
    <3> QED BY <1>4, <1>5, <2>1, <3>1, <3>4 DEF FirstInvites
  <2>3. CASE d = "host"
    <3>1. /\ a > 0 /\ puts'["host"] = Tail(h) /\ applied'["host"] = a - 1
          /\ puts'["guest"] = puts["guest"]
      BY <1>1, <2>1, <2>3 DEF h, a
    <3>2. FirstWrites(h, a, invites, again) BY <1>5 DEF h, a
    <3>3. FirstWrites(Tail(h), a - 1, invites, again)
      BY <1>6, <3>1, <3>2, FirstWritesTail
    <3> QED BY <1>4, <1>5, <2>1, <3>1, <3>3 DEF FirstInvites
  <2> QED BY <2>2, <2>3 DEF Devices
<1> QED BY <1>7, <1>8, <1>9, <1>10

\* A write that makes an accepted invitation open is the guest's, unless its
\* event was repeated or the step is a mishap.
LEMMA AnswerStandsStep ==
    ASSUME TypeOK, FirstInvites, [Next]_vars,
           mishaps' = 0, NEW e \in Events, e \notin again',
           invites[observed][e] = "accepted", invites'[observed][e] = "open"
    PROVE  applied'["guest"] > applied["guest"]
<1>1. PICK d \in Devices : ServerApplies(d)
  <2>1. invites' # invites BY Zenon
  <2>2. SaveRaises => mishaps' = mishaps + 1 /\ mishaps \in Nat
    BY BoundsAssumption DEF SaveRaises, HostEnds, TypeOK
  <2>3. ~SaveRaises BY <2>2
  <2> QED BY <2>1, <2>3 DEF Next, OpenSend, CancelSend, SaveInvites, SaveWithoutContacts,
       HostKilled, ContactAdded, ContactRemoved, ScrollSend, SelectContact, InviteArrives,
       ScrollList, Answer, Rename, GuestKilled, Acknowledged, Reconnect, vars, netVars
<1>2. applied \in [Devices -> Nat] /\ puts \in [Devices -> Seq(Put)]
      /\ invites \in [Usernames -> [Events -> Answers \cup {"none"}]] /\ observed \in Usernames
  BY DEF TypeOK
<1>3. CASE d = "guest"
  <2>1. applied' = [applied EXCEPT !["guest"] = applied["guest"] + 1]
    BY <1>1, <1>3 DEF ServerApplies
  <2> QED BY <1>2, <2>1 DEF Devices
<1>4. CASE d = "host"
  <2> DEFINE k == applied["host"] + 1
             p == puts["host"][k]
  <2>1. /\ k \in DOMAIN puts["host"] /\ p \in Put /\ k > applied["host"]
        /\ invites' = [invites EXCEPT ![p.to][p.event] = p.answer]
    BY <1>1, <1>2, <1>4, AppliedWrite DEF Devices
  <2>2. UNCHANGED <<mishaps, again>> BY <1>1 DEF ServerApplies, counters
  <2>3. p.event \notin again => invites[p.to][p.event] = "none"
    BY <2>1, <2>2 DEF FirstInvites, FirstWrites
  <2> HIDE DEF p, k
  <2>4. p.to \in Usernames /\ p.event \in Events BY <2>1 DEF Put
  <2>5. p.to = observed /\ p.event = e BY <1>2, <2>1, <2>4
  <2> QED BY <2>2, <2>3, <2>5
<1> QED BY <1>3, <1>4 DEF Devices

\* The host takes no answer back to an event that nobody was invited to a
\* second time: of an invitation the guest accepted, only the guest makes an
\* open one again (InviteSendTableViewController, prepare: setValue(false)).
THEOREM AnswerStandsAlways == Spec => AnswerStands
<1> DEFINE I == TypeOK /\ FirstInvites
<1>1. Init => I BY TypeInit, FirstInvitesInit
<1>2. I /\ AnswersAnInvite /\ [Next]_vars => I'
  BY TypeStep, FirstInvitesStep
<1>3. I /\ [Next]_vars
         => [mishaps' = 0 =>
                \A e \in Events \ again' :
                   invites[observed][e] = "accepted" /\ invites'[observed][e] = "open"
                      => applied'["guest"] > applied["guest"]]_vars
  BY AnswerStandsStep
<1>4. Spec => []AnswersAnInvite BY AnswersAnInviteAlways
<1> QED BY <1>1, <1>2, <1>3, <1>4, PTL DEF Spec, Safe, AnswerStands
=============================================================================
