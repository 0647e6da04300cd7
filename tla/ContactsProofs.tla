--------------------------- MODULE ContactsProofs ---------------------------
(***************************************************************************)
(* The contacts tab for every set of names, every number of writes kept    *)
(* and every order of taps, messages, lost connections and restarts: the   *)
(* detail screen's index stays good, the screen's view is what the server  *)
(* will hold, and the events the tab is told of are its history.  What the *)
(* database's own steps preserve is in DatabaseProofs.                     *)
(***************************************************************************)
EXTENDS Contacts, DatabaseProofs

-----------------------------------------------------------------------------
(* Rows. *)

\* Rows picked by name are rows.
LEMMA RowsNamedTyped ==
    ASSUME NEW rows \in Seq(Contact), NEW name
    PROVE  RowsNamed(rows, name) \in Seq(Contact)
<1> DEFINE keep == {i \in DOMAIN rows : rows[i].name = name}
           nth(n) == CHOOSE i \in keep : Cardinality({j \in keep : j <= i}) = n
           pick(n) == rows[nth(n)]
<1>1. DOMAIN rows = 1..Len(rows) /\ Len(rows) \in Nat OBVIOUS
<1>2. keep \in SUBSET (1..Len(rows)) BY <1>1
<1>3. Cardinality(keep) \in Nat
  <2>1. IsFiniteSet(1..Len(rows)) BY <1>1, FS_Interval
  <2> QED BY <1>2, <2>1, FS_Subset, FS_CardinalityType
<1>4. RowsNamed(rows, name) = [n \in 1..Cardinality(keep) |-> pick(n)] BY DEF RowsNamed
<1>5. \A i \in keep : rows[i] \in Contact BY <1>1
<1> HIDE DEF keep
<1>6. ASSUME NEW n \in 1..Cardinality(keep) PROVE pick(n) \in Contact
  <2>1. nth(n) \in keep BY <1>1, <1>2, NthOf
  <2> QED BY <1>5, <2>1
<1> HIDE DEF pick
<1>7. [n \in 1..Cardinality(keep) |-> pick(n)] \in Seq(Contact) BY <1>3, <1>6, IsASeq
<1> QED BY <1>4, <1>7

LEMMA RowsAfterSaveTyped ==
    ASSUME TypeOK, RowShown, NEW name \in Keys, NEW username \in Values
    PROVE  RowsAfterSave(name, username) \in Seq(Contact)
<1> DEFINE c == [name |-> name, username |-> username]
           edited == IF screen = "edit" /\ username # EmptyText
                     THEN [contacts EXCEPT ![row] = c] ELSE contacts
<1>1. c \in Contact BY DEF Contact
<1>2. contacts \in Seq(Contact) BY DEF TypeOK
<1>3. screen = "edit" => row \in 1..Len(contacts) BY <1>2 DEF RowShown
<1> HIDE DEF c
<1>4. screen = "edit" => [contacts EXCEPT ![row] = c] \in Seq(Contact)
  BY <1>1, <1>2, <1>3, ExceptSeq
<1>5. edited \in Seq(Contact) BY <1>2, <1>4
<1>6. RowsAfterSave(name, username) = IF screen = "edit" /\ name # shown.name
                                      THEN RowsNamed(edited, shown.name) ELSE edited
  BY DEF RowsAfterSave, c
<1> HIDE DEF edited
<1> QED BY <1>5, <1>6, RowsNamedTyped

\* Lists of one and of two.
LEMMA ShortLists ==
    ASSUME NEW S, NEW a \in S, NEW b \in S
    PROVE  /\ <<a>> \in Seq(S) /\ <<a, b>> \in Seq(S)
           /\ <<a>> \o <<b>> = <<a, b>>
           /\ (<<a>> \o <<b>>) \o <<>> = <<a, b>>
           /\ (<<a>> \o <<>>) \o <<b>> = <<a, b>>
           /\ (<<a>> \o <<>>) \o <<>> = <<a>>
<1>1. <<a>> \in Seq(S) /\ <<a, b>> \in Seq(S) /\ <<b>> \in Seq(S) OBVIOUS
<1>2. <<a>> \o <<b>> = <<a, b>>
  <2>1. Append(<<a>>, b) = <<a>> \o <<b>> BY <1>1, AppendIsConcat
  <2>2. Append(<<a>>, b) \in Seq(S) /\ Len(Append(<<a>>, b)) = 2
        /\ Append(<<a>>, b)[1] = a /\ Append(<<a>>, b)[2] = b
    BY <1>1, AppendProperties
  <2>3. Len(<<a, b>>) = 2 /\ <<a, b>>[1] = a /\ <<a, b>>[2] = b OBVIOUS
  <2>4. \A i \in 1..2 : i = 1 \/ i = 2 OBVIOUS
  <2>5. \A i \in 1..Len(Append(<<a>>, b)) : Append(<<a>>, b)[i] = <<a, b>>[i]
    BY <2>2, <2>3, <2>4
  <2>6. Len(Append(<<a>>, b)) = Len(<<a, b>>) BY <2>2, <2>3
  <2>7. Append(<<a>>, b) = <<a, b>> BY <1>1, <2>2, <2>5, <2>6, SeqEqual
  <2> QED BY <2>1, <2>7
<1>3. <<a>> \o <<>> = <<a>> /\ <<a, b>> \o <<>> = <<a, b>> BY <1>1, ConcatEmptySeq
<1> QED BY <1>1, <1>2, <1>3

\* What a save calls for: the contact alone, the contact and then the removal of
\* the name it had, or the contact twice.
LEMMA SaveCalls ==
    ASSUME TypeOK, RowShown, NEW name \in Keys, NEW username \in Values
    PROVE  \E set, other \in Put :
              /\ set.key = name /\ set.value = username /\ set.to = Absent
              /\ other = set \/ (other.key # name /\ other.value = Absent /\ other.to = name)
              /\ SaveWrites(name, username) \o UnwindWrites(name, username)
                    \in {<<set>>, <<set, other>>}
<1> DEFINE set == [key |-> name, value |-> username, to |-> Absent]
           remove == [key |-> shown.name, value |-> Absent, to |-> name]
           mid == IF screen = "edit" /\ name # shown.name THEN <<remove>> ELSE <<>>
           last == IF screen = "add" /\ username # EmptyText THEN <<set>> ELSE <<>>
<1>1. set \in Put /\ set.key = name /\ set.value = username /\ set.to = Absent BY DEF Put
<1>2. screen = "edit" => shown \in Contact
  BY DEF RowShown, TypeOK
<1>3. screen = "edit" => remove \in Put BY <1>2 DEF Put, Contact
<1>5. SaveWrites(name, username) = <<set>> \o mid /\ UnwindWrites(name, username) = last
  BY DEF SaveWrites, UnwindWrites
<1> HIDE DEF set, remove
<1>6. CASE screen = "edit" /\ name # shown.name
  <2>1. mid = <<remove>> /\ last = <<>> BY <1>6
  <2> HIDE DEF mid, last
  <2>2. (<<set>> \o mid) \o last = <<set, remove>> BY <1>1, <1>3, <1>6, <2>1, ShortLists
  <2>3. remove.key # name /\ remove.value = Absent /\ remove.to = name BY <1>6 DEF remove
  <2> QED BY <1>1, <1>3, <1>5, <1>6, <2>2, <2>3
<1>7. CASE screen = "add" /\ username # EmptyText
  <2>1. mid = <<>> /\ last = <<set>> BY <1>7
  <2> HIDE DEF mid, last
  <2>2. (<<set>> \o mid) \o last = <<set, set>> BY <1>1, <2>1, ShortLists
  <2> QED BY <1>1, <1>5, <2>2
<1>8. CASE ~(screen = "edit" /\ name # shown.name) /\ ~(screen = "add" /\ username # EmptyText)
  <2>1. mid = <<>> /\ last = <<>> BY <1>8
  <2> HIDE DEF mid, last
  <2>2. (<<set>> \o mid) \o last = <<set>> BY <1>1, <2>1, ShortLists
  <2> QED BY <1>1, <1>5, <2>2
<1> QED BY <1>6, <1>7, <1>8

LEMMA SaveCallsTyped ==
    ASSUME TypeOK, RowShown, NEW name \in Keys, NEW username \in Values
    PROVE  SaveWrites(name, username) \o UnwindWrites(name, username) \in Seq(Put)
<1>1. PICK set, other \in Put : SaveWrites(name, username) \o UnwindWrites(name, username)
                                   \in {<<set>>, <<set, other>>}
  BY SaveCalls
<1>2. <<set>> \in Seq(Put) /\ <<set, other>> \in Seq(Put) BY ShortLists
<1> QED BY <1>1, <1>2

-----------------------------------------------------------------------------
(* The tab and the database together. *)

TabInv == DatabaseInv /\ TypeOK /\ RowShown

LEMMA TabInit == Init => TabInv
<1> SUFFICES ASSUME Init PROVE TabInv OBVIOUS
<1>1. DatabaseInv BY DatabaseStart DEF Init
<1>2. <<>> \in Seq(Contact) OBVIOUS
<1> QED BY <1>1, <1>2 DEF Init, TabInv, DatabaseInv, TypeOK, RowShown, Screens

\* Steps of the database on its own leave the tab alone.
LEMMA DatabaseStepInTab ==
    ASSUME TabInv, DatabaseInv', UNCHANGED <<uiVars, told>>
    PROVE  TabInv'
BY DEF TabInv, TypeOK, RowShown, uiVars, DatabaseInv

\* Steps that close every detail screen.
LEMMA AtListInTab ==
    ASSUME TabInv, DatabaseInv', contacts' \in Seq(Contact), told' \subseteq Keys, AtList
    PROVE  TabInv'
BY DEF TabInv, TypeOK, RowShown, DatabaseInv, AtList, Screens

\* However the app ends, it starts again the same way.
Ends == SaveIllegalName \/ Killed \/ ChildEventFails

LEMMA EndsInTab ==
    ASSUME TabInv, Ends
    PROVE  /\ ForgetAll /\ contacts' = <<>> /\ told' = {} /\ AtList
           /\ drops' \in 0..MaxDrops
<1>1. drops \in 0..MaxDrops BY DEF TabInv, DatabaseInv, DatabaseTypeOK
<1>2. CASE Killed \/ SaveIllegalName
  BY <1>1, <1>2, BoundsAssumption DEF Killed, SaveIllegalName, Restart
<1>3. CASE ChildEventFails BY <1>1, <1>3 DEF ChildEventFails, Restart
<1> QED BY <1>2, <1>3 DEF Ends

LEMMA TabStep == ASSUME TabInv, [Next]_vars PROVE TabInv'
<1>1. DatabaseInv /\ TypeOK /\ RowShown BY DEF TabInv
<1>2. contacts \in Seq(Contact) /\ told \subseteq Keys /\ shown \in Contact \cup {NoContact}
  BY <1>1 DEF TypeOK
<1>3. CASE /\ RunCall \/ Connect \/ Disconnect \/ Deliver \/ ServerApplies
           /\ UNCHANGED <<uiVars, told>>
  BY <1>1, <1>3, DatabaseStepInTab, RunCallStep, ConnectStep, DisconnectStep, DeliverStep,
     ServerAppliesStep
<1>4. CASE ChildEvent
  <2> DEFINE e == Head(queue)
             c == [name |-> e.key, username |-> e.value]
  <2>1. /\ queue \in Seq(Event) /\ queue # <<>> /\ queue' = Tail(queue)
        /\ UNCHANGED <<server, cache, loaded, calls, puts, applied, down, connected, repeats,
                       drops, screen, row, shown>>
        /\ \/ e.kind = "added" /\ contacts' = Append(contacts, c) /\ told' = told \cup {e.key}
           \/ contacts' = contacts /\ told' = told \ {e.key}
    BY <1>1, <1>4 DEF ChildEvent, DatabaseInv, DatabaseTypeOK
  <2>2. e \in Event /\ queue' \in Seq(Event) BY <2>1, HeadTailProperties
  <2> HIDE DEF e
  <2>3. e.key \in Keys /\ (e.kind = "added" => e.value \in Values) BY <2>2 DEF Event
  <2>4. e.kind = "added" => c \in Contact BY <2>3 DEF Contact
  <2> HIDE DEF c
  <2>5. DatabaseInv'
    <3>1. DatabaseTypeOK' BY <1>1, <2>1, <2>2 DEF DatabaseInv, DatabaseTypeOK
    <3> QED BY <1>1, <2>1, <3>1, WireUnchanged DEF DatabaseInv
  <2>6. told' \subseteq Keys BY <1>2, <2>1, <2>3
  <2>7. /\ contacts' \in Seq(Contact)
        /\ \A i \in DOMAIN contacts : i \in DOMAIN contacts' /\ contacts'[i] = contacts[i]
    <3>1. CASE contacts' = contacts BY <1>2, <3>1
    <3>2. CASE e.kind = "added" /\ contacts' = Append(contacts, c)
      BY <1>2, <2>4, <3>2, AppendProperties
    <3> QED BY <2>1, <3>1, <3>2
  <2>8. TypeOK' BY <1>1, <2>1, <2>5, <2>6, <2>7 DEF TypeOK, DatabaseInv
  <2>9. RowShown' BY <1>1, <2>1, <2>7 DEF RowShown
  <2> QED BY <2>5, <2>8, <2>9 DEF TabInv
\* Taps that call for no write.
<1>5. CASE OpenDetail \/ OpenAdd \/ OpenEdit \/ Leave
  <2>1. UNCHANGED <<dbVars, contacts, told>>
    BY <1>5 DEF OpenDetail, OpenAdd, OpenEdit, Leave
  <2>2. DatabaseInv'
    <3>1. UNCHANGED <<server, cache, loaded, calls, puts, applied, down, queue, connected,
                      repeats, drops>>
      BY <2>1 DEF dbVars
    <3>2. DatabaseTypeOK' BY <1>1, <3>1 DEF DatabaseInv, DatabaseTypeOK
    <3> QED BY <1>1, <3>1, <3>2, WireUnchanged DEF DatabaseInv
  <2>3. CASE Leave BY <1>2, <2>1, <2>2, <2>3, AtListInTab DEF Leave
  <2>4. CASE OpenDetail
    <3>1. PICK i \in DOMAIN contacts : row' = i /\ shown' = contacts[i] /\ screen' = "detail"
      BY <2>4 DEF OpenDetail
    <3>2. shown' \in Contact /\ row' \in Nat BY <1>2, <3>1
    <3>3. RowShown' BY <2>1, <3>1 DEF RowShown
    <3> QED BY <1>2, <2>1, <2>2, <3>1, <3>2, <3>3 DEF TabInv, TypeOK, DatabaseInv, Screens
  <2>5. CASE OpenAdd \/ OpenEdit
    <3>1. /\ UNCHANGED <<row, shown>>
          /\ (screen = "list" /\ screen' = "add") \/ (screen = "detail" /\ screen' = "edit")
      BY <2>5 DEF OpenAdd, OpenEdit
    <3>2. RowShown' BY <1>1, <2>1, <3>1 DEF RowShown
    <3> QED BY <1>1, <2>1, <2>2, <3>1, <3>2 DEF TabInv, TypeOK, DatabaseInv, Screens
  <2> QED BY <1>5, <2>3, <2>4, <2>5
<1>6. CASE DeleteContact
  <2> DEFINE ps == <<[key |-> contacts[row].name, value |-> Absent, to |-> Absent]>>
  <2>1. row \in DOMAIN contacts BY <1>1, <1>6 DEF DeleteContact, RowShown
  <2>2. contacts' \in Seq(Contact) BY <1>2, <1>6, <2>1, RemoveAtTyped DEF DeleteContact
  <2>3. ps \in Seq(Put)
    <3>1. contacts[row] \in Contact BY <1>2, <2>1
    <3>2. [key |-> contacts[row].name, value |-> Absent, to |-> Absent] \in Put
      BY <3>1 DEF Put, Contact
    <3> QED BY <3>2
  <2>4. Call(ps) /\ AtList /\ told' = told BY <1>6 DEF DeleteContact
  <2> HIDE DEF ps
  <2>5. DatabaseInv' BY <1>1, <2>3, <2>4, CallStep
  <2> QED BY <1>2, <2>2, <2>4, <2>5, AtListInTab
<1>7. ASSUME NEW name \in Keys, NEW username \in Values, Save(name, username)
      PROVE  TabInv'
  <2>1. /\ contacts' = RowsAfterSave(name, username) /\ AtList /\ told' = told
        /\ Call(SaveWrites(name, username) \o UnwindWrites(name, username))
    BY <1>7 DEF Save
  <2>2. DatabaseInv' BY <1>1, <2>1, SaveCallsTyped, CallStep
  <2> QED BY <1>1, <1>2, <2>1, <2>2, RowsAfterSaveTyped, AtListInTab
<1>8. CASE Ends
  <2>1. ForgetAll /\ contacts' = <<>> /\ told' = {} /\ AtList /\ drops' \in 0..MaxDrops
    BY <1>8, EndsInTab
  <2>2. <<>> \in Seq(Contact) OBVIOUS
  <2> QED BY <1>1, <2>1, <2>2, ForgetAllStep, AtListInTab
<1>9. CASE UNCHANGED vars
  <2>1. UNCHANGED <<dbVars, uiVars, told>> BY <1>9 DEF vars
  <2>2. UNCHANGED <<server, cache, loaded, calls, puts, applied, down, queue, connected,
                    repeats, drops>>
    BY <2>1 DEF dbVars
  <2>3. DatabaseTypeOK' BY <1>1, <2>2 DEF DatabaseInv, DatabaseTypeOK
  <2>4. DatabaseInv' BY <1>1, <2>2, <2>3, WireUnchanged DEF DatabaseInv
  <2> QED BY <2>1, <2>4, DatabaseStepInTab
<1> QED BY <1>3, <1>4, <1>5, <1>6, <1>7, <1>8, <1>9 DEF Next, Ends

LEMMA TabInvariant == Safe => []TabInv
BY TabInit, TabStep, PTL DEF Safe

\* The database's variables and the tab's keep their types: an acknowledgement
\* always finds the write it answers, an edit the row it replaces.
THEOREM TypeCorrect == Spec => []TypeOK
<1>1. TabInv => TypeOK BY DEF TabInv
<1> QED BY <1>1, TabInvariant, PTL DEF Spec

\* Delete and Save act on the contact the user is looking at, whatever events
\* were delivered while the detail screen was open (ContactsViewController
\* prepare, unwindToContactList).
THEOREM RowShownAlways == Spec => []RowShown
<1>1. TabInv => RowShown BY DEF TabInv
<1> QED BY <1>1, TabInvariant, PTL DEF Spec

\* What the screen was told is what the server will hold, whatever was lost,
\* acknowledged or sent twice (FPersistentConnection restoreState, FSyncTree
\* ackUserWriteWithWriteId).
THEOREM ServerCatchesUpAlways == Spec => []ServerCatchesUp
<1>1. TabInv => ServerCatchesUp BY KeptWritesHide DEF TabInv
<1> QED BY <1>1, TabInvariant, PTL DEF Spec

\* Which steps change the view: a write, data, a restart.
LEMMA ViewStep ==
    ASSUME TabInv, [Next]_vars
    PROVE  \/ View' = View /\ UNCHANGED told /\ queue' = queue
           \/ View' = View /\ ChildEvent
           \/ RunCall /\ UNCHANGED told
           \/ Deliver /\ UNCHANGED told /\ (loaded => View' = View)
           \/ View' = Nothing /\ queue' = <<>> /\ told' = {} /\ loaded' = FALSE
<1>1. DatabaseInv /\ TypeOK /\ RowShown BY DEF TabInv
<1>2. CASE RunCall /\ UNCHANGED <<uiVars, told>> BY <1>2
<1>3. CASE (Connect \/ Disconnect \/ ServerApplies) /\ UNCHANGED <<uiVars, told>>
  BY <1>1, <1>3, ConnectStep, DisconnectStep, ServerAppliesStep
<1>4. CASE Deliver /\ UNCHANGED <<uiVars, told>> BY <1>1, <1>4, DeliverStep
<1>5. CASE ChildEvent BY <1>5 DEF ChildEvent, View
<1>6. CASE OpenDetail \/ OpenAdd \/ OpenEdit \/ Leave
  BY <1>6 DEF OpenDetail, OpenAdd, OpenEdit, Leave, dbVars, View
<1>7. CASE DeleteContact
  BY <1>7 DEF DeleteContact, Call, View
<1>8. ASSUME NEW name \in Keys, NEW username \in Values, Save(name, username)
      PROVE  View' = View /\ UNCHANGED told /\ queue' = queue
  BY <1>8 DEF Save, Call, View
<1>9. CASE Ends
  <2>1. ForgetAll /\ told' = {} /\ drops' \in 0..MaxDrops BY <1>9, EndsInTab
  <2>2. loaded' = FALSE BY <2>1 DEF ForgetAll
  <2> QED BY <1>1, <2>1, <2>2, ForgetAllStep
<1>10. CASE UNCHANGED vars BY <1>10 DEF vars, dbVars, View
<1> QED BY <1>2, <1>3, <1>4, <1>5, <1>6, <1>7, <1>8, <1>9, <1>10 DEF Next, Ends

\* No echo, acknowledgement or repeated listen changes what the screen was told
\* (FSyncTree applyServerOverwrite, under the writes of FWriteTree).
THEOREM NoFlickerAlways == Spec => NoFlicker
<1>1. ASSUME TabInv, [Next]_vars, loaded, loaded', View' # View
      PROVE  Len(puts') > Len(puts)
  <2>1. RunCall BY <1>1, ViewStep DEF ChildEvent
  <2>2. /\ puts \in Seq(Put) /\ calls \in Seq(Put) /\ calls # <<>>
        /\ puts' = Append(puts, Head(calls))
    BY <1>1, <2>1 DEF RunCall, TabInv, DatabaseInv, DatabaseTypeOK
  <2>3. Len(puts') = Len(puts) + 1 /\ Len(puts) \in Nat
    BY <2>2, HeadTailProperties, AppendProperties
  <2> QED BY <2>3
<1>2. TabInv /\ [Next]_vars => [loaded /\ loaded' /\ View' # View => Len(puts') > Len(puts)]_dbVars
  BY <1>1
<1> QED BY <1>2, TabInvariant, PTL DEF Spec, Safe, NoFlicker

-----------------------------------------------------------------------------
(* Renames. *)

\* A removal that makes room for a name follows the write of that name.
Follows(ps) ==
    \A r \in DOMAIN ps : ps[r].to # Absent /\ r # 1 =>
        ps[r - 1].key = ps[r].to /\ ps[r - 1].value # Absent

\* Where the write of the new name is gone from the writes kept, the server has
\* carried it out, or is about to carry the rename out once more.
HeadAfterName ==
    puts # <<>> /\ puts[1].to # Absent =>
        applied >= 1 \/ repeats >= 1 \/ server[puts[1].to] # Absent

CallAfterName ==
    calls # <<>> /\ calls[1].to # Absent =>
        \/ puts = <<>> /\ server[calls[1].to] # Absent
        \/ /\ puts # <<>>
           /\ puts[Len(puts)].key = calls[1].to /\ puts[Len(puts)].value # Absent

RenameInv == Follows(puts) /\ Follows(calls) /\ HeadAfterName /\ CallAfterName

LEMMA RenameCall ==
    ASSUME TabInv, RenameInv, NEW ps \in Seq(Put), ps # <<>>, ps[1].to = Absent, Follows(ps),
           Call(ps)
    PROVE  RenameInv'
<1>1. /\ calls \in Seq(Put) /\ calls' = calls \o ps
      /\ UNCHANGED <<server, puts, applied, repeats>>
  BY DEF TabInv, DatabaseInv, DatabaseTypeOK, Call
<1> DEFINE L == Len(calls)
           M == Len(ps)
<1>2. /\ calls' \in Seq(Put) /\ Len(calls') = L + M /\ L \in Nat /\ M \in Nat
      /\ \A i \in 1..(L + M) : calls'[i] = IF i <= L THEN calls[i] ELSE ps[i - L]
      /\ DOMAIN calls = 1..L /\ DOMAIN ps = 1..M
  BY <1>1, ConcatProperties
<1> HIDE DEF L, M
<1>3. DOMAIN calls' = 1..(L + M) BY <1>2
<1>4. M # 0 BY EmptySeq DEF M
<1>5. Follows(calls')
  <2> SUFFICES ASSUME NEW r \in 1..(L + M), calls'[r].to # Absent, r # 1
               PROVE  calls'[r - 1].key = calls'[r].to /\ calls'[r - 1].value # Absent
    BY <1>3 DEF Follows
  <2>1. CASE r <= L
    <3>1. r \in DOMAIN calls /\ r - 1 \in 1..(L + M) /\ r - 1 <= L BY <1>2, <2>1
    <3>2. calls'[r] = calls[r] /\ calls'[r - 1] = calls[r - 1] BY <1>2, <2>1, <3>1
    <3> QED BY <3>1, <3>2 DEF RenameInv, Follows
  <2>2. CASE r = L + 1
    <3>1. calls'[r] = ps[1]
      <4>1. ~(r <= L) /\ r - L = 1 BY <1>2, <2>2
      <4> QED BY <1>2, <4>1
    <3> QED BY <3>1
  <2>3. CASE r > L + 1
    <3> DEFINE n == r - L
    <3>1. n \in DOMAIN ps /\ n # 1 BY <1>2, <2>3
    <3>2. calls'[r] = ps[n] BY <1>2, <2>3
    <3>3. calls'[r - 1] = ps[n - 1]
      <4> DEFINE o == r - 1
      <4>1. o \in 1..(L + M) /\ ~(o <= L) /\ o - L = n - 1 BY <1>2, <2>3
      <4> HIDE DEF o, n
      <4>2. calls'[o] = ps[n - 1] BY <1>2, <4>1
      <4> QED BY <4>2 DEF o
    <3> HIDE DEF n
    <3> QED BY <3>1, <3>2, <3>3 DEF Follows
  <2> QED BY <1>2, <2>1, <2>2, <2>3
<1>6. CallAfterName'
  <2>1. CASE L = 0
    <3>1. calls'[1] = ps[1]
      <4>1. 1 \in 1..(L + M) /\ ~(1 <= L) /\ 1 - L = 1 BY <1>2, <1>4, <2>1
      <4> QED BY <1>2, <4>1
    <3> QED BY <3>1 DEF CallAfterName
  <2>2. CASE L # 0
    <3>1. calls'[1] = calls[1]
      <4>1. 1 \in 1..(L + M) /\ 1 <= L BY <1>2, <2>2
      <4> QED BY <1>2, <4>1
    <3>2. calls # <<>> BY <2>2 DEF L
    <3> QED BY <1>1, <3>1, <3>2 DEF RenameInv, CallAfterName
  <2> QED BY <2>1, <2>2
<1> QED BY <1>1, <1>5, <1>6 DEF RenameInv, HeadAfterName

LEMMA RenameRunCall == ASSUME TabInv, RenameInv, RunCall PROVE RenameInv'
<1> DEFINE L == Len(calls)
           P == Len(puts)
<1>1. /\ calls \in Seq(Put) /\ calls # <<>> /\ calls' = Tail(calls)
      /\ puts \in Seq(Put) /\ puts' = Append(puts, Head(calls))
      /\ UNCHANGED <<server, applied, repeats>>
  BY DEF RunCall, TabInv, DatabaseInv, DatabaseTypeOK
<1>2. /\ Head(calls) = calls[1] /\ Head(calls) \in Put /\ calls' \in Seq(Put)
      /\ Len(calls') = L - 1 /\ \A i \in 1..(L - 1) : calls'[i] = calls[i + 1]
      /\ L \in Nat /\ L # 0 /\ DOMAIN calls = 1..L
  BY <1>1, HeadTailProperties, EmptySeq
<1>3. /\ puts' \in Seq(Put) /\ Len(puts') = P + 1 /\ P \in Nat /\ DOMAIN puts = 1..P
      /\ \A i \in 1..P : puts'[i] = puts[i]
      /\ puts'[P + 1] = calls[1] /\ puts' # <<>>
  BY <1>1, <1>2, AppendProperties
<1>4. (puts = <<>>) <=> P = 0 BY <1>1, EmptySeq
<1> HIDE DEF L, P
<1>5. DOMAIN puts' = 1..(P + 1) /\ DOMAIN calls' = 1..(L - 1) BY <1>2, <1>3
<1>6. Follows(puts')
  <2> SUFFICES ASSUME NEW r \in 1..(P + 1), puts'[r].to # Absent, r # 1
               PROVE  puts'[r - 1].key = puts'[r].to /\ puts'[r - 1].value # Absent
    BY <1>5 DEF Follows
  <2>1. r - 1 \in 1..P /\ puts'[r - 1] = puts[r - 1] BY <1>3
  <2>2. CASE r = P + 1
    <3>1. puts # <<>> /\ puts'[r] = calls[1] /\ r - 1 = P BY <1>3, <1>4, <2>1, <2>2
    <3>2. puts[P].key = calls[1].to /\ puts[P].value # Absent
      BY <1>1, <3>1 DEF RenameInv, CallAfterName, P
    <3> QED BY <2>1, <3>1, <3>2
  <2>3. CASE r # P + 1
    <3>1. r \in 1..P /\ puts'[r] = puts[r] BY <1>3, <2>3
    <3> QED BY <1>3, <2>1, <3>1 DEF RenameInv, Follows
  <2> QED BY <2>2, <2>3
<1>7. Follows(calls')
  <2> SUFFICES ASSUME NEW r \in 1..(L - 1), calls'[r].to # Absent, r # 1
               PROVE  calls'[r - 1].key = calls'[r].to /\ calls'[r - 1].value # Absent
    BY <1>5 DEF Follows
  <2> DEFINE n == r + 1
             o == r - 1
  <2>1. n \in 1..L /\ n # 1 /\ calls'[r] = calls[n] BY <1>2
  <2>2. o \in 1..(L - 1) /\ o + 1 = n - 1 BY <1>2
  <2> HIDE DEF n, o
  <2>3. calls'[o] = calls[n - 1] BY <1>2, <2>2
  <2> QED BY <1>2, <2>1, <2>3 DEF RenameInv, Follows, o
<1>8. HeadAfterName'
  <2>1. CASE P = 0
    <3>1. puts'[1] = calls[1] BY <1>3, <2>1
    <3> QED BY <1>1, <1>4, <2>1, <3>1 DEF RenameInv, CallAfterName, HeadAfterName
  <2>2. CASE P # 0
    <3>1. puts'[1] = puts[1] /\ puts # <<>> BY <1>3, <1>4, <2>2
    <3> QED BY <1>1, <3>1 DEF RenameInv, HeadAfterName
  <2> QED BY <2>1, <2>2
<1>9. CallAfterName'
  <2> SUFFICES ASSUME calls' # <<>>, calls'[1].to # Absent
               PROVE  calls[1].key = calls'[1].to /\ calls[1].value # Absent
    BY <1>3 DEF CallAfterName
  <2>1. Len(calls') # 0 BY <1>2, EmptySeq
  <2>2. 1 \in 1..(L - 1) /\ 2 \in 1..L BY <1>2, <2>1
  <2>3. calls'[1] = calls[2] BY <1>2, <2>2
  <2>4. 2 - 1 = 1 /\ 2 # 1 OBVIOUS
  <2> QED BY <1>2, <2>2, <2>3, <2>4 DEF RenameInv, Follows
<1> QED BY <1>6, <1>7, <1>8, <1>9 DEF RenameInv

LEMMA RenameAck ==
    ASSUME TabInv, RenameInv, Deliver, Head(down).type = "ack"
    PROVE  RenameInv'
<1> DEFINE P == Len(puts)
<1>1. /\ puts \in Seq(Put) /\ puts' = Tail(puts) /\ applied' = applied - 1
      /\ applied \in 0..P /\ P \in Nat /\ DOMAIN puts = 1..P
      /\ UNCHANGED <<server, calls>>
  BY DEF Deliver, TabInv, DatabaseInv, DatabaseTypeOK
<1>2. applied' \in Nat BY DeliverStep DEF TabInv, DatabaseInv, DatabaseTypeOK
<1>3. applied >= 1 /\ applied <= P BY <1>1, <1>2
<1>4. puts # <<>> BY <1>1, <1>3
<1>5. /\ puts' \in Seq(Put) /\ Len(puts') = P - 1
      /\ \A i \in 1..(P - 1) : puts'[i] = puts[i + 1]
  BY <1>1, <1>4, HeadTailProperties
<1>6. (puts' = <<>>) <=> P - 1 = 0 BY <1>5, EmptySeq
<1> HIDE DEF P
<1>7. DOMAIN puts' = 1..(P - 1) BY <1>1, <1>5
\* The write that is let go was carried out, last to its child if alone.
<1>8. applied = 1 => server[puts[1].key] = puts[1].value
  <2> SUFFICES ASSUME applied = 1 PROVE server[puts[1].key] = puts[1].value OBVIOUS
  <2>1. 1 \in 1..applied /\ \A j \in 1..applied : ~(j > 1) BY <1>1
  <2>2. puts[1].key \in Keys
    <3>1. puts[1] \in Put BY <1>1, <1>4
    <3> QED BY <3>1 DEF Put
  <2> QED BY <2>1, <2>2 DEF TabInv, DatabaseInv, Wire, LastWriteCounts
<1>9. Follows(puts')
  <2> SUFFICES ASSUME NEW r \in 1..(P - 1), puts'[r].to # Absent, r # 1
               PROVE  puts'[r - 1].key = puts'[r].to /\ puts'[r - 1].value # Absent
    BY <1>7 DEF Follows
  <2> DEFINE n == r + 1
             o == r - 1
  <2>1. n \in 1..P /\ n # 1 /\ puts'[r] = puts[n] BY <1>1, <1>5
  <2>2. o \in 1..(P - 1) /\ o + 1 = n - 1 BY <1>1
  <2> HIDE DEF n, o
  <2>3. puts'[o] = puts[n - 1] BY <1>5, <2>2
  <2> QED BY <1>1, <2>1, <2>3 DEF RenameInv, Follows, o
<1>10. HeadAfterName'
  <2> SUFFICES ASSUME puts' # <<>>, puts'[1].to # Absent
               PROVE  applied' >= 1 \/ server'[puts'[1].to] # Absent
    BY DEF HeadAfterName
  <2>1. 1 \in 1..(P - 1) /\ 2 \in 1..P BY <1>1, <1>3, <1>6
  <2>2. puts'[1] = puts[2] BY <1>5, <2>1
  <2>3. 2 - 1 = 1 /\ 2 # 1 OBVIOUS
  <2>4. puts[1].key = puts'[1].to /\ puts[1].value # Absent
    BY <1>1, <2>1, <2>2, <2>3 DEF RenameInv, Follows
  <2>5. applied = 1 \/ applied' >= 1 BY <1>1, <1>3
  <2> QED BY <1>1, <1>8, <2>4, <2>5
<1>11. CallAfterName'
  <2> SUFFICES ASSUME calls # <<>>, calls[1].to # Absent
               PROVE  \/ puts' = <<>> /\ server[calls[1].to] # Absent
                      \/ /\ puts' # <<>> /\ puts'[Len(puts')].key = calls[1].to
                         /\ puts'[Len(puts')].value # Absent
    BY <1>1 DEF CallAfterName
  <2>1. puts[P].key = calls[1].to /\ puts[P].value # Absent
    BY <1>4 DEF RenameInv, CallAfterName, P
  <2>2. CASE P = 1
    <3>1. applied = 1 /\ puts' = <<>> BY <1>1, <1>3, <1>6, <2>2
    <3> QED BY <1>8, <2>1, <2>2, <3>1
  <2>3. CASE P # 1
    <3>1. P - 1 \in 1..(P - 1) /\ (P - 1) + 1 = P /\ puts' # <<>> BY <1>1, <1>3, <1>6, <2>3
    <3>2. puts'[P - 1] = puts[P] BY <1>5, <3>1
    <3> QED BY <1>5, <2>1, <3>1, <3>2
  <2> QED BY <2>2, <2>3
<1> QED BY <1>1, <1>9, <1>10, <1>11 DEF RenameInv

LEMMA RenameStep == ASSUME TabInv, RenameInv, [Next]_vars PROVE RenameInv'
<1>1. CASE UNCHANGED <<server, puts, calls, applied, repeats>>
  BY <1>1 DEF RenameInv, Follows, HeadAfterName, CallAfterName
<1>2. CASE RunCall BY <1>2, RenameRunCall
<1>3. CASE Connect BY <1>1, <1>3 DEF Connect
<1>4. CASE Disconnect
  <2>1. /\ UNCHANGED <<server, puts, calls>> /\ applied' = 0
        /\ repeats' = Max({repeats, applied}) /\ repeats \in Nat /\ applied \in Nat
    BY <1>4 DEF Disconnect, TabInv, DatabaseInv, DatabaseTypeOK
  <2>2. applied >= 1 \/ repeats >= 1 => repeats' >= 1
    <3>1. repeats' = IF repeats >= applied THEN repeats ELSE applied BY <2>1, MaxOfTwo
    <3> QED BY <2>1, <3>1
  <2> QED BY <2>1, <2>2 DEF RenameInv, Follows, HeadAfterName, CallAfterName
<1>5. CASE Deliver
  <2>1. CASE Head(down).type = "ack" BY <1>5, <2>1, RenameAck
  <2>2. CASE Head(down).type # "ack" BY <1>1, <1>5, <2>2 DEF Deliver
  <2> QED BY <2>1, <2>2
<1>6. CASE ServerApplies
  <2>1. /\ UNCHANGED <<puts, calls, repeats>> /\ applied' = applied + 1
        /\ applied < Len(puts) /\ applied \in Nat /\ puts \in Seq(Put)
    BY <1>6 DEF ServerApplies, TabInv, DatabaseInv, DatabaseTypeOK
  <2>2. applied' >= 1 /\ puts # <<>> BY <2>1, EmptySeq
  <2> QED BY <2>1, <2>2 DEF RenameInv, Follows, HeadAfterName, CallAfterName
<1>7. CASE ChildEvent BY <1>1, <1>7 DEF ChildEvent
<1>8. CASE OpenDetail \/ OpenAdd \/ OpenEdit \/ Leave
  BY <1>1, <1>8 DEF OpenDetail, OpenAdd, OpenEdit, Leave, dbVars
<1>9. CASE DeleteContact
  <2> DEFINE p == [key |-> contacts[row].name, value |-> Absent, to |-> Absent]
             ps == <<p>>
  <2>1. contacts[row] \in Contact BY <1>9 DEF DeleteContact, TabInv, TypeOK, RowShown
  <2>2. p \in Put /\ p.to = Absent BY <2>1 DEF Put, Contact
  <2>3. Call(ps) BY <1>9 DEF DeleteContact
  <2> HIDE DEF p
  <2>4. ps \in Seq(Put) /\ ps # <<>> /\ ps[1].to = Absent /\ DOMAIN ps = {1} BY <2>2
  <2> HIDE DEF ps
  <2>5. Follows(ps) BY <2>4 DEF Follows
  <2> QED BY <2>3, <2>4, <2>5, RenameCall
<1>10. ASSUME NEW name \in Keys, NEW username \in Values, Save(name, username)
       PROVE  RenameInv'
  <2> DEFINE ps == SaveWrites(name, username) \o UnwindWrites(name, username)
  <2>1. PICK set, other \in Put :
           /\ set.key = name /\ set.value = username /\ set.to = Absent
           /\ other = set \/ (other.key # name /\ other.value = Absent /\ other.to = name)
           /\ ps \in {<<set>>, <<set, other>>}
    BY SaveCalls DEF TabInv
  <2>2. Call(ps) BY <1>10 DEF Save
  <2> HIDE DEF ps
  <2>3. username # Absent BY KeysAssumption
  <2>4. ps \in Seq(Put) /\ ps # <<>> /\ ps[1] = set /\ Follows(ps)
    <3>1. CASE ps = <<set>>
      <4>1. ps \in Seq(Put) /\ ps # <<>> /\ DOMAIN ps = {1} /\ ps[1] = set BY <3>1
      <4> QED BY <4>1 DEF Follows
    <3>2. CASE ps = <<set, other>>
      <4>1. /\ ps \in Seq(Put) /\ ps # <<>> /\ DOMAIN ps = {1, 2} /\ ps[1] = set
            /\ ps[2] = other /\ 2 - 1 = 1
        BY <3>2
      <4> QED BY <2>1, <2>3, <4>1 DEF Follows
    <3> QED BY <2>1, <3>1, <3>2
  <2> QED BY <2>1, <2>2, <2>4, RenameCall
<1>11. CASE Ends
  <2>1. puts' = <<>> /\ calls' = <<>> BY <1>11, EndsInTab DEF ForgetAll
  <2>2. DOMAIN <<>> = {} OBVIOUS
  <2> QED BY <2>1, <2>2 DEF RenameInv, Follows, HeadAfterName, CallAfterName
<1>12. CASE UNCHANGED vars BY <1>1, <1>12 DEF vars, dbVars
<1> QED BY <1>2, <1>3, <1>4, <1>5, <1>6, <1>7, <1>8, <1>9, <1>10, <1>11, <1>12 DEF Next, Ends

\* A lost connection or a kill in the middle of a rename may leave both names at
\* the server, never neither (AddContactViewController prepare: the new name is
\* set, then the old one removed).
THEOREM RenameKeepsContactAlways == Spec => RenameKeepsContact
<1>1. Init => RenameInv
  <2>1. DOMAIN <<>> = {} OBVIOUS
  <2> QED BY <2>1 DEF Init, DatabaseInit, RenameInv, Follows, HeadAfterName, CallAfterName
<1>2. ASSUME TabInv, RenameInv, [Next]_vars, NEW k \in Keys,
             server[k] # Absent, server'[k] = Absent, applied >= repeats
      PROVE  LET p == puts[applied + 1]
             IN  p.key = k /\ (p.to = Absent \/ server[p.to] # Absent)
  <2> DEFINE p == puts[applied + 1]
  <2>1. ServerApplies
    BY <1>2 DEF Next, vars, dbVars, RunCall, Connect, Disconnect, Deliver, ChildEvent,
                OpenDetail, OpenAdd, OpenEdit, Leave, DeleteContact, Save, Call,
                SaveIllegalName, Killed, ChildEventFails, Restart, ForgetAll
  <2>2. /\ applied < Len(puts) /\ server' = [server EXCEPT ![p.key] = p.value]
        /\ puts \in Seq(Put) /\ applied \in Nat /\ repeats \in Nat /\ server \in Data
    BY <1>2, <2>1 DEF ServerApplies, TabInv, DatabaseInv, DatabaseTypeOK
  <2>3. p.key = k BY <1>2, <2>2 DEF Data
  <2>4. ASSUME p.to # Absent PROVE server[p.to] # Absent
    <3>1. CASE applied = 0
      <4>1. puts # <<>> /\ p = puts[1] /\ ~(applied >= 1) /\ ~(repeats >= 1)
        BY <1>2, <2>2, <3>1
      <4> QED BY <1>2, <2>4, <4>1 DEF RenameInv, HeadAfterName
    <3>2. CASE applied # 0
      <4> DEFINE r == applied + 1
      <4>1. /\ r \in DOMAIN puts /\ r # 1 /\ r - 1 = applied
            /\ applied \in 1..applied /\ \A j \in 1..applied : ~(j > applied)
        BY <2>2, <3>2
      <4>2. puts[r].to # Absent BY <2>4
      <4> HIDE DEF r, p
      <4>3. puts[applied].key = puts[r].to /\ puts[applied].value # Absent
        BY <1>2, <4>1, <4>2 DEF RenameInv, Follows
      <4>4. puts[applied].key \in Keys
        <5>1. applied \in 1..Len(puts) BY <2>2, <3>2
        <5>2. puts[applied] \in Put BY <2>2, <5>1
        <5> QED BY <5>2 DEF Put
      <4>5. server[puts[applied].key] = puts[applied].value
        BY <1>2, <4>1, <4>4 DEF TabInv, DatabaseInv, Wire, LastWriteCounts
      <4> QED BY <4>3, <4>5 DEF p, r
    <3> QED BY <3>1, <3>2
  <2> QED BY <2>3, <2>4
<1>3. TabInv /\ RenameInv /\ [Next]_vars =>
         [\A k \in Keys : server[k] # Absent /\ server'[k] = Absent /\ applied >= repeats =>
             LET p == puts[applied + 1]
             IN  p.key = k /\ (p.to = Absent \/ server[p.to] # Absent)]_vars
  BY <1>2
<1>4. TabInv /\ RenameInv /\ [Next]_vars => RenameInv' BY RenameStep
<1> QED BY <1>1, <1>3, <1>4, TabInvariant, PTL DEF Spec, Safe, RenameKeepsContact

-----------------------------------------------------------------------------
(* The location the tab observes. *)

Present(data) == {k \in Keys : data[k] # Absent}

LP == INSTANCE LocationProofs WITH view <- {k \in Keys : View[k] # Absent}

\* LocationProofs speaks of its own copy of Location.
LEMMA SameLocation ==
    /\ \A S, q, T : ContactsLocation!Leads(S, q, T) <=> LP!Leads(S, q, T)
    /\ \A S, q, i : ContactsLocation!IsNews(S, q, i) <=> LP!IsNews(S, q, i)
BY DEF ContactsLocation!Leads, LP!Leads, ContactsLocation!IsNews, LP!IsNews,
       ContactsLocation!Replay, LP!Replay

\* The events of one change tell how the names in view have changed.
LEMMA ChildEventsLead ==
    ASSUME NEW old \in Data, NEW new \in Data
    PROVE  LP!Leads(Present(old), ChildEvents(old, new), Present(new))
<1> DEFINE q == ChildEvents(old, new)
<1>1. /\ q \in Seq(Event)
      /\ \A i \in DOMAIN q :
            /\ q[i].key \in Keys
            /\ q[i].kind = IF old[q[i].key] # Absent THEN "removed" ELSE "added"
      /\ \A i, j \in DOMAIN q : q[i].key = q[j].key => i = j
      /\ \A k \in Keys : (old[k] # Absent) = (new[k] # Absent) <=>
            \A i \in DOMAIN q : q[i].key # k
  BY ChildEventsList
<1> HIDE DEF q
<1>2. /\ \A k \in Keys : k \in Present(old) <=> old[k] # Absent
      /\ \A k \in Keys : k \in Present(new) <=> new[k] # Absent
      /\ Present(old) \subseteq Keys /\ Present(new) \subseteq Keys
  BY DEF Present
<1>3. \A i \in DOMAIN q :
         /\ q[i].key \in Keys
         /\ q[i].kind = IF q[i].key \in Present(old) THEN "removed" ELSE "added"
  BY <1>1, <1>2
<1>4. \A k \in Keys : (k \in Present(old)) = (k \in Present(new)) <=>
                      \A i \in DOMAIN q : q[i].key # k
  BY <1>1, <1>2
<1>5. LP!Leads(Present(old), q, Present(new)) BY <1>1, <1>2, <1>3, <1>4, LP!BatchLeads
<1> QED BY <1>5 DEF q

LocationKept == TabInv /\ LP!LocationInv

LEMMA StepOfLocation ==
    ASSUME LocationKept, TabInv', [Next]_vars
    PROVE  [LP!Next]_LP!locationVars
<1> DEFINE view == {k \in Keys : View[k] # Absent}
<1>1. TabInv /\ LP!LocationInv /\ queue \in Seq(Event)
  BY DEF LocationKept, TabInv, DatabaseInv, DatabaseTypeOK
<1>2. View \in Data /\ View' \in Data
  <2>1. cache \in Data /\ puts \in Seq(Put) /\ cache' \in Data /\ puts' \in Seq(Put)
    BY DEF LocationKept, TabInv, DatabaseInv, DatabaseTypeOK
  <2> QED BY <2>1, OverlayTyped DEF View
<1>3. LP!Leads(view, ChildEvents(View, View'), view')
  BY <1>2, ChildEventsLead DEF Present
<1>4. CASE View' = View /\ UNCHANGED told /\ queue' = queue
  BY <1>4 DEF LP!locationVars
<1>5. CASE queue' = queue \o ChildEvents(View, View') /\ UNCHANGED told
  BY <1>1, <1>3, <1>5, LP!ChangeBy DEF LP!Next
<1>6. CASE View' = View /\ ChildEvent
  <2>1. /\ queue # <<>> /\ queue' = Tail(queue)
        /\ told' = IF Head(queue).kind = "added" THEN told \cup {Head(queue).key}
                   ELSE told \ {Head(queue).key}
    BY <1>6 DEF ChildEvent
  <2>2. LP!IsNews(told, queue, 1)
    BY <1>1, <2>1, LP!TellHead DEF LP!LocationInv, LP!EventsExplainView
  <2> QED BY <1>6, <2>1, <2>2 DEF LP!Next, LP!Tell
<1>7. CASE View' = Nothing /\ queue' = <<>> /\ told' = {}
  <2>1. view' = {} BY <1>7 DEF Nothing
  <2>2. LP!Leads({}, <<>>, {}) BY LP!EmptyLeads
  <2> QED BY <1>7, <2>1, <2>2 DEF LP!Next, LP!Restart
<1> QED BY <1>1, <1>4, <1>5, <1>6, <1>7, ViewStep DEF RunCall, Deliver

LEMMA StepOfContactsLocation ==
    [LP!Next]_LP!locationVars => [ContactsLocation!Next]_ContactsLocation!locationVars
BY SameLocation
   DEF LP!Next, ContactsLocation!Next, LP!locationVars, ContactsLocation!locationVars,
       LP!Change, ContactsLocation!Change, LP!Tell, ContactsLocation!Tell,
       LP!Restart, ContactsLocation!Restart

LEMMA LocationStart == Init => LP!LocationInv /\ ContactsLocation!Init
<1> SUFFICES ASSUME Init PROVE LP!LocationInv /\ ContactsLocation!Init OBVIOUS
<1>1. View = Nothing /\ queue = <<>> /\ told = {}
  BY DatabaseStart DEF Init, DatabaseInit
<1>2. {k \in Keys : View[k] # Absent} = {} BY <1>1 DEF Nothing
<1>3. LP!Leads({}, <<>>, {}) BY LP!EmptyLeads
<1> QED BY <1>1, <1>2, <1>3, SameLocation
        DEF LP!LocationInv, LP!EventsExplainView, ContactsLocation!Init

LEMMA LocationKeptAlways == Safe => []LocationKept
<1>1. LocationKept /\ TabInv' /\ [Next]_vars => [LP!Next]_LP!locationVars
  BY StepOfLocation
<1>2. LP!LocationInv /\ [LP!Next]_LP!locationVars => LP!LocationInv' BY LP!LocationStep
<1>3. LocationKept <=> TabInv /\ LP!LocationInv BY DEF LocationKept
<1> QED BY <1>1, <1>2, <1>3, LocationStart, TabInvariant, PTL DEF Safe

\* Writes, echoes, lost connections and restarts of the client are steps of an
\* observed location: the tab is told of each change of its view, in order, none
\* of them twice (FEventGenerator generateEventsForChanges, FEventRaiser
\* raiseEvents).
THEOREM ImplementsLocationAlways == Spec => ImplementsLocation
<1>1. LocationKept /\ TabInv' /\ [Next]_vars => [LP!Next]_LP!locationVars
  BY StepOfLocation
<1> QED
  BY <1>1, LocationStart, StepOfContactsLocation, LocationKeptAlways, TabInvariant, PTL
     DEF Spec, Safe, ImplementsLocation, ContactsLocation!Spec

\* At rest the tab was told of exactly the names the server stores, whatever was
\* lost, repeated or reordered on the way (FRepo, FPersistentConnection,
\* ContactsViewController.viewDidLoad).
THEOREM ToldIsStoredAlways == Spec => []ToldIsStored
<1>1. ASSUME LocationKept, loaded, puts = <<>>, queue = <<>>
      PROVE  told = {k \in Keys : server[k] # Absent}
  <2>1. told = {k \in Keys : View[k] # Absent} BY <1>1, LP!ToldAtRest DEF LocationKept
  <2>2. \A k \in Keys : View[k] = cache[k]
    <3>1. DOMAIN puts = {} BY <1>1
    <3> QED BY <3>1, OverlayNone DEF View
\* With no write kept there is no difference left.
  <2>3. \A k \in Keys : cache[k] = server[k]
    <3>1. DOMAIN puts = {} BY <1>1
    <3> QED BY <1>1, <3>1 DEF LocationKept, TabInv, DatabaseInv, Wire, DifferenceKept
  <2> QED BY <2>1, <2>2, <2>3
<1>2. LocationKept => ToldIsStored BY <1>1 DEF ToldIsStored
<1> QED BY <1>2, LocationKeptAlways, PTL DEF Spec

-----------------------------------------------------------------------------
(* The contact book the tab implements. *)

\* What a kill could bring back: what the server has under each name, and what
\* the writes not yet acknowledged would put there.
Possible(d, w) ==
    [k \in Keys |-> {d[k]} \cup {p.value : p \in {q \in ToSet(w) : q.key = k}}]

LEMMA PossibleOf ==
    ASSUME NEW d, NEW w, NEW k \in Keys, NEW v
    PROVE  v \in Possible(d, w)[k] <=>
              v = d[k] \/ \E i \in DOMAIN w : w[i].key = k /\ w[i].value = v
BY DEF Possible, ToSet

\* The book as the user has left it is possible.
LEMMA PossibleTyped ==
    ASSUME NEW d \in Data, NEW w \in Seq(Put)
    PROVE  /\ Possible(d, w) \in [Keys -> SUBSET (Values \cup {Absent})]
           /\ Overlay(d, w) \in Data
           /\ \A k \in Keys : Overlay(d, w)[k] \in Possible(d, w)[k]
<1>1. ASSUME NEW k \in Keys
      PROVE  /\ Possible(d, w)[k] \subseteq Values \cup {Absent}
             /\ Overlay(d, w)[k] \in Possible(d, w)[k]
  <2>1. ASSUME NEW v \in Possible(d, w)[k] PROVE v \in Values \cup {Absent}
    <3>1. CASE v = d[k] BY <3>1 DEF Data
    <3>2. CASE v # d[k]
      <4>1. PICK i \in DOMAIN w : w[i].value = v BY <2>1, <3>2, PossibleOf
      <4>2. w[i] \in Put BY <4>1
      <4> QED BY <4>1, <4>2 DEF Put
    <3> QED BY <3>1, <3>2
  <2>2. CASE \A i \in DOMAIN w : w[i].key # k
    <3>1. Overlay(d, w)[k] = d[k] BY <2>2, OverlayNone
    <3> QED BY <2>1, <3>1, PossibleOf
  <2>3. CASE ~\A i \in DOMAIN w : w[i].key # k
    <3>1. PICK i : IsLast(w, k, i) BY <2>3, LastExists
    <3>2. i \in DOMAIN w /\ w[i].key = k BY <3>1 DEF IsLast
    <3>3. Overlay(d, w)[k] = w[i].value BY <3>1, OverlayLast
    <3> QED BY <2>1, <3>2, <3>3, PossibleOf
  <2> QED BY <2>2, <2>3
<1>2. DOMAIN Possible(d, w) = Keys /\ Possible(d, w) = [k \in Keys |-> Possible(d, w)[k]]
  BY DEF Possible
<1> QED BY <1>1, <1>2, OverlayTyped

\* A write called for makes one thing more possible.
LEMMA PossibleAppend ==
    ASSUME NEW d \in Data, NEW w \in Seq(Put), NEW p \in Put
    PROVE  Possible(d, Append(w, p)) = [Possible(d, w) EXCEPT ![p.key] = @ \cup {p.value}]
<1> DEFINE v == Append(w, p)
           new == Possible(d, v)
           old == Possible(d, w)
<1>1. /\ v \in Seq(Put) /\ Len(v) = Len(w) + 1 /\ \A i \in 1..Len(w) : v[i] = w[i]
      /\ v[Len(w) + 1] = p /\ Len(w) \in Nat
  BY AppendProperties
<1>2. /\ \A i \in DOMAIN w : i \in DOMAIN v /\ v[i] = w[i]
      /\ \A i \in DOMAIN v : (i \in DOMAIN w /\ v[i] = w[i]) \/ v[i] = p
      /\ \E i \in DOMAIN v : v[i] = p
  BY <1>1
<1>3. p.key \in Keys BY DEF Put
<1> HIDE DEF v
<1>4. ASSUME NEW k \in Keys, NEW x
      PROVE  x \in new[k] <=> x \in old[k] \/ (k = p.key /\ x = p.value)
  BY <1>2, PossibleOf
<1>5. new \in [Keys -> SUBSET (Values \cup {Absent})] /\ old \in [Keys -> SUBSET (Values \cup {Absent})]
  BY <1>1, PossibleTyped
<1> HIDE DEF new, old
<1>6. \A k \in Keys : new[k] = IF k = p.key THEN old[k] \cup {p.value} ELSE old[k] BY <1>4
<1>7. new = [old EXCEPT ![p.key] = @ \cup {p.value}] BY <1>3, <1>5, <1>6
<1> QED BY <1>7 DEF new, old, v

LEMMA UnsureTyped ==
    ASSUME DatabaseTypeOK
    PROVE  /\ Unsure \in Seq(Put) /\ Len(Unsure) = Len(puts) + Len(calls)
           /\ \A i \in DOMAIN puts : i \in DOMAIN Unsure /\ Unsure[i] = puts[i]
<1>1. puts \in Seq(Put) /\ calls \in Seq(Put) BY DEF DatabaseTypeOK
<1>2. /\ puts \o calls \in Seq(Put) /\ Len(puts \o calls) = Len(puts) + Len(calls)
      /\ \A i \in 1..(Len(puts) + Len(calls)) :
            (puts \o calls)[i] = IF i <= Len(puts) THEN puts[i] ELSE calls[i - Len(puts)]
  BY <1>1, ConcatProperties
<1> DEFINE w == puts \o calls
<1>3. w \in Seq(Put) /\ Len(w) = Len(puts) + Len(calls) BY <1>2
<1>4. \A i \in 1..Len(puts) : w[i] = puts[i] /\ i \in 1..(Len(puts) + Len(calls)) BY <1>1, <1>2
<1> HIDE DEF w
<1>5. DOMAIN w = 1..(Len(puts) + Len(calls)) /\ DOMAIN puts = 1..Len(puts) BY <1>1, <1>3
<1> QED BY <1>3, <1>4, <1>5 DEF Unsure, w

\* Steps that change neither what the server stores nor what is under way.
LEMMA BookStays ==
    ASSUME UNCHANGED <<server, Unsure>> PROVE UNCHANGED ContactBook!bookVars
BY DEF ContactBook!bookVars

\* Steps that keep the book and take something from what is possible.
LEMMA BookSettles ==
    ASSUME TabInv, TabInv', Overlay(server', Unsure') = Overlay(server, Unsure),
           \A k \in Keys : Possible(server', Unsure')[k] \subseteq Possible(server, Unsure)[k]
    PROVE  ContactBook!Settle
<1>1. server' \in Data /\ Unsure' \in Seq(Put)
  <2>1. server' \in Data /\ puts' \in Seq(Put) /\ calls' \in Seq(Put)
    BY DEF TabInv, DatabaseInv, DatabaseTypeOK
  <2> QED BY <2>1, ConcatProperties DEF Unsure
<1>2. /\ Possible(server', Unsure') \in [Keys -> SUBSET (Values \cup {Absent})]
      /\ Overlay(server', Unsure') \in Data
      /\ \A k \in Keys : Overlay(server', Unsure')[k] \in Possible(server', Unsure')[k]
  BY <1>1, PossibleTyped
<1> QED BY <1>2 DEF ContactBook!Settle, ContactBook!Found, ContactBook!Books, Possible, Data

\* The server carries a write out: the write is still under way, so only the
\* value it overwrites is no longer possible.
LEMMA BookAtServer == ASSUME TabInv, TabInv', ServerApplies PROVE ContactBook!Settle
<1>1. /\ applied < Len(puts) /\ UNCHANGED <<puts, calls>> /\ puts \in Seq(Put)
      /\ applied \in Nat /\ server \in Data /\ server' \in Data
      /\ server' = [server EXCEPT ![puts[applied + 1].key] = puts[applied + 1].value]
  BY DEF ServerApplies, TabInv, DatabaseInv, DatabaseTypeOK
<1>2. PICK n \in DOMAIN puts : n = applied + 1 BY <1>1
<1>3. puts[n] \in Put BY <1>1
<1>4. /\ Unsure \in Seq(Put) /\ Unsure' = Unsure /\ n \in DOMAIN Unsure /\ Unsure[n] = puts[n]
  BY <1>1, UnsureTyped DEF TabInv, DatabaseInv, Unsure
<1>5. \A k \in Keys : server'[k] = server[k] \/ (k = puts[n].key /\ server'[k] = puts[n].value)
  BY <1>1, <1>2, <1>3 DEF Data, Put
<1>6. \A k \in Keys : server'[k] # server[k] => \E i \in DOMAIN Unsure : Unsure[i].key = k
  BY <1>4, <1>5
<1>7. Overlay(server', Unsure) = Overlay(server, Unsure) BY <1>1, <1>4, <1>6, OverlaySame
<1>8. ASSUME NEW k \in Keys, NEW v \in Possible(server', Unsure)[k]
      PROVE  v \in Possible(server, Unsure)[k]
  <2>1. v = server'[k] \/ \E i \in DOMAIN Unsure : Unsure[i].key = k /\ Unsure[i].value = v
    BY <1>8, PossibleOf
  <2>2. v = server[k] \/ \E i \in DOMAIN Unsure : Unsure[i].key = k /\ Unsure[i].value = v
    BY <1>4, <1>5, <2>1
  <2> QED BY <2>2, PossibleOf
<1> QED BY <1>4, <1>7, <1>8, BookSettles

\* The acknowledged write is no longer under way, but the server has it.
LEMMA BookAtAck ==
    ASSUME TabInv, TabInv', Deliver, Head(down).type = "ack"
    PROVE  ContactBook!Settle
<1>1. /\ puts \in Seq(Put) /\ calls \in Seq(Put) /\ applied' = applied - 1
      /\ puts' = Tail(puts) /\ UNCHANGED <<server, calls>>
      /\ applied \in 0..Len(puts) /\ applied' \in Nat /\ server \in Data
  BY DEF Deliver, TabInv, DatabaseInv, DatabaseTypeOK
<1>2. applied >= 1 /\ applied <= Len(puts) /\ Len(puts) \in Nat BY <1>1
<1>3. puts # <<>> BY <1>1, <1>2
<1>4. puts[1] \in Put /\ 1 \in DOMAIN puts BY <1>1, <1>3
<1>5. /\ Head(puts) \in Put /\ Tail(puts) \in Seq(Put) /\ puts = <<Head(puts)>> \o Tail(puts)
      /\ Head(puts) = puts[1]
  BY <1>1, <1>3, HeadThenTail
<1>6. /\ Unsure \in Seq(Put) /\ Unsure' \in Seq(Put) /\ Unsure[1] = puts[1]
      /\ \A i \in DOMAIN puts : i \in DOMAIN Unsure /\ Unsure[i] = puts[i]
      /\ 1 \in DOMAIN Unsure
  <2>1. Unsure' \in Seq(Put) BY <1>1, <1>5, ConcatProperties DEF Unsure
  <2> QED BY <1>4, <2>1, UnsureTyped DEF TabInv, DatabaseInv
<1>7. Unsure = <<puts[1]>> \o Unsure'
  <2>1. <<puts[1]>> \in Seq(Put) BY <1>4
  <2>2. Unsure = (<<puts[1]>> \o Tail(puts)) \o calls BY <1>5 DEF Unsure
  <2>3. Unsure' = Tail(puts) \o calls BY <1>1 DEF Unsure
  <2> QED BY <1>1, <1>5, <2>1, <2>2, <2>3, ConcatAssociative
<1>8. /\ Len(Unsure') = Len(Unsure) - 1
      /\ \A i \in 1..Len(Unsure') : Unsure'[i] = Unsure[i + 1] /\ i + 1 \in DOMAIN Unsure
  <2> DEFINE a == <<puts[1]>>
             v == Unsure'
  <2>1. a \in Seq(Put) /\ Len(a) = 1 /\ v \in Seq(Put) /\ Len(v) \in Nat BY <1>4, <1>6
  <2> HIDE DEF a, v
  <2>2. /\ Len(a \o v) = 1 + Len(v)
        /\ \A i \in 1..(1 + Len(v)) : (a \o v)[i] = IF i <= 1 THEN a[i] ELSE v[i - 1]
    BY <2>1, ConcatProperties
  <2>3. ASSUME NEW i \in 1..Len(v) PROVE (a \o v)[i + 1] = v[i] /\ i + 1 \in 1..(1 + Len(v))
    <3> DEFINE j == i + 1
    <3>1. j \in 1..(1 + Len(v)) /\ ~(j <= 1) /\ j - 1 = i BY <2>1
    <3> HIDE DEF j
    <3>2. (a \o v)[j] = v[i] BY <2>2, <3>1
    <3> QED BY <3>1, <3>2 DEF j
  <2>4. Unsure = a \o v BY <1>7 DEF a, v
  <2>5. Len(Unsure) = 1 + Len(v) /\ DOMAIN Unsure = 1..(1 + Len(v)) BY <1>6, <2>2, <2>4
  <2>6. Len(v) = Len(Unsure) - 1 BY <2>1, <2>5
  <2> QED BY <2>3, <2>4, <2>5, <2>6 DEF v
\* What it wrote is stored, unless a later write under way changes it anyway.
<1>9. ASSUME \A i \in DOMAIN Unsure : i # 1 => Unsure[i].key # Unsure[1].key
      PROVE  server[Unsure[1].key] = Unsure[1].value
  <2>1. \A i \in 1..applied : i \in DOMAIN puts /\ (i > 1 => i # 1) BY <1>1, <1>2
  <2>2. \A i \in 1..applied : i > 1 => puts[i].key # puts[1].key BY <1>6, <1>9, <2>1
  <2>3. puts[1].key \in Keys /\ 1 \in 1..applied BY <1>1, <1>2, <1>4 DEF Put
  <2> QED BY <1>6, <2>2, <2>3 DEF TabInv, DatabaseInv, Wire, LastWriteCounts
<1>10. Unsure # <<>> BY <1>6
<1>11. Overlay(server, Unsure') = Overlay(server, Unsure)
  <2> DEFINE v == Unsure'
             w == Unsure
  <2>1. /\ w \in Seq(Put) /\ w # <<>> /\ v \in Seq(Put) /\ Len(v) = Len(w) - 1
        /\ \A i \in 1..Len(v) : v[i] = w[i + 1]
        /\ (\A i \in DOMAIN w : i # 1 => w[i].key # w[1].key) => server[w[1].key] = w[1].value
    BY <1>6, <1>8, <1>9, <1>10
  <2> HIDE DEF v, w
  <2>2. Overlay(server, v) = Overlay(server, w) BY <1>1, <2>1, OldestGone
  <2> QED BY <2>2 DEF v, w
<1>12. ASSUME NEW k \in Keys, NEW x \in Possible(server, Unsure')[k]
       PROVE  x \in Possible(server, Unsure)[k]
  <2>1. x = server[k] \/ \E i \in DOMAIN Unsure' : Unsure'[i].key = k /\ Unsure'[i].value = x
    BY <1>12, PossibleOf
  <2>2. DOMAIN Unsure' = 1..Len(Unsure') BY <1>6
  <2>3. x = server[k] \/ \E i \in DOMAIN Unsure : Unsure[i].key = k /\ Unsure[i].value = x
    BY <1>8, <2>1, <2>2
  <2> QED BY <2>3, PossibleOf
<1> QED BY <1>1, <1>11, <1>12, BookSettles

\* A call that has its turn is under way before and after.
LEMMA BookAtRunCall == ASSUME TabInv, RunCall PROVE UNCHANGED <<server, Unsure>>
<1>1. /\ puts \in Seq(Put) /\ calls \in Seq(Put) /\ calls # <<>> /\ server' = server
      /\ puts' = Append(puts, Head(calls)) /\ calls' = Tail(calls)
  BY DEF RunCall, TabInv, DatabaseInv, DatabaseTypeOK
<1> DEFINE h == Head(calls)
           t == Tail(calls)
<1>2. h \in Put /\ t \in Seq(Put) /\ <<h>> \o t = calls BY <1>1, HeadThenTail
<1>3. Unsure' = Append(puts, h) \o t BY <1>1 DEF Unsure
<1> HIDE DEF h, t
<1>4. Append(puts, h) = puts \o <<h>> /\ <<h>> \in Seq(Put) BY <1>1, <1>2, AppendIsConcat
<1>5. (puts \o <<h>>) \o t = puts \o (<<h>> \o t) BY <1>1, <1>2, <1>4, ConcatAssociative
<1> QED BY <1>1, <1>2, <1>3, <1>4, <1>5 DEF Unsure

\* Calls join what is under way, one after the other.
LEMMA BookAtCall ==
    ASSUME TabInv, NEW a \in Put
    PROVE  /\ Call(<<a>>) => server' = server /\ Unsure' = Append(Unsure, a)
           /\ \A b \in Put : Call(<<a, b>>) =>
                 server' = server /\ Unsure' = Append(Append(Unsure, a), b)
<1>1. puts \in Seq(Put) /\ calls \in Seq(Put) /\ Unsure \in Seq(Put)
  BY UnsureTyped DEF TabInv, DatabaseInv, DatabaseTypeOK
<1>2. ASSUME NEW ps \in Seq(Put), Call(ps) PROVE server' = server /\ Unsure' = Unsure \o ps
  <2>1. UNCHANGED <<server, puts>> /\ calls' = calls \o ps BY <1>2 DEF Call
  <2>2. (puts \o calls) \o ps = puts \o (calls \o ps) BY <1>1, ConcatAssociative
  <2>3. Unsure' = puts \o (calls \o ps) BY <2>1 DEF Unsure
  <2> QED BY <2>1, <2>2, <2>3 DEF Unsure
<1>3. <<a>> \in Seq(Put) OBVIOUS
<1>4. Append(Unsure, a) = Unsure \o <<a>> /\ Append(Unsure, a) \in Seq(Put)
  BY <1>1, AppendIsConcat, AppendProperties
<1>5. ASSUME NEW b \in Put, Call(<<a, b>>)
      PROVE  server' = server /\ Unsure' = Append(Append(Unsure, a), b)
  <2>1. <<a>> \o <<b>> = <<a, b>> /\ <<a, b>> \in Seq(Put) /\ <<b>> \in Seq(Put) BY ShortLists
  <2> DEFINE w == Append(Unsure, a)
             two == <<a, b>>
  <2>2. server' = server /\ Unsure' = Unsure \o two BY <1>2, <1>5, <2>1
  <2>3. Unsure \o two = (Unsure \o <<a>>) \o <<b>>
    BY <1>1, <1>3, <2>1, ConcatAssociative
  <2>4. w \in Seq(Put) /\ w = Unsure \o <<a>> BY <1>4
  <2> HIDE DEF w, two
  <2>5. Append(w, b) = w \o <<b>> BY <2>4, AppendIsConcat
  <2> QED BY <2>2, <2>3, <2>4, <2>5 DEF w
<1> QED BY <1>2, <1>3, <1>4, <1>5

LEMMA BookAtSave ==
    ASSUME TabInv, NEW name \in Keys, NEW username \in Values, Save(name, username)
    PROVE  \/ ContactBook!Edit(name, username)
           \/ \E old \in Keys : ContactBook!Rename(old, name, username)
<1>1. server \in Data /\ Unsure \in Seq(Put)
  BY UnsureTyped DEF TabInv, DatabaseInv, DatabaseTypeOK
<1> DEFINE b == Overlay(server, Unsure)
           p == Possible(server, Unsure)
<1>2. b \in Data /\ p \in [Keys -> SUBSET (Values \cup {Absent})] BY <1>1, PossibleTyped
<1>3. PICK set, other \in Put :
         /\ set.key = name /\ set.value = username
         /\ other = set \/ (other.key # name /\ other.value = Absent /\ other.to = name)
         /\ SaveWrites(name, username) \o UnwindWrites(name, username)
               \in {<<set>>, <<set, other>>}
  BY SaveCalls DEF TabInv
<1>4. Call(<<set>>) \/ Call(<<set, other>>) BY <1>3 DEF Save
<1> DEFINE w == Append(Unsure, set)
<1>5. /\ w \in Seq(Put) /\ Overlay(server, w) = [b EXCEPT ![name] = username]
      /\ Possible(server, w) = [p EXCEPT ![name] = @ \cup {username}]
  BY <1>1, <1>3, OverlayAppend, PossibleAppend, AppendProperties
<1>6. CASE Call(<<set>>)
  <2>1. server' = server /\ Unsure' = w BY <1>6, BookAtCall
  <2>2. ContactBook!Edit(name, username) BY <1>5, <2>1 DEF ContactBook!Edit, Possible
  <2> QED BY <2>2
<1>7. CASE Call(<<set, other>>)
  <2>1. server' = server /\ Unsure' = Append(w, other) BY <1>7, BookAtCall
  <2>2. /\ Overlay(server, Append(w, other)) = [Overlay(server, w) EXCEPT ![other.key] = other.value]
        /\ Possible(server, Append(w, other))
              = [Possible(server, w) EXCEPT ![other.key] = @ \cup {other.value}]
    <3> DEFINE v == w
    <3>1. v \in Seq(Put) BY <1>5
    <3> HIDE DEF v
    <3>2. Overlay(server, Append(v, other)) = [Overlay(server, v) EXCEPT ![other.key] = other.value]
      BY <1>1, <3>1, OverlayAppend
    <3>3. Possible(server, Append(v, other))
             = [Possible(server, v) EXCEPT ![other.key] = @ \cup {other.value}]
      BY <1>1, <3>1, PossibleAppend
    <3> QED BY <3>2, <3>3 DEF v
  <2> HIDE DEF w, b, p
  <2>3. CASE other = set
    <3>1. Overlay(server, Append(w, other)) = [b EXCEPT ![name] = username]
      BY <1>2, <1>3, <1>5, <2>2, <2>3 DEF Data
    <3>2. Possible(server, Append(w, other)) = [p EXCEPT ![name] = @ \cup {username}]
      BY <1>2, <1>3, <1>5, <2>2, <2>3
    <3> QED BY <2>1, <3>1, <3>2 DEF ContactBook!Edit, Possible, b, p
  <2>4. CASE other.key # name /\ other.value = Absent
    <3>1. PICK old \in Keys : old = other.key BY DEF Put
    <3>2. Overlay(server, Append(w, other)) = [b EXCEPT ![name] = username, ![old] = Absent]
      BY <1>5, <2>2, <2>4, <3>1
    <3>3. Possible(server, Append(w, other))
             = [p EXCEPT ![name] = @ \cup {username}, ![old] = @ \cup {Absent}]
      BY <1>5, <2>2, <2>4, <3>1
    <3>4. ContactBook!Rename(old, name, username)
      BY <2>1, <2>4, <3>1, <3>2, <3>3 DEF ContactBook!Rename, Possible, b, p
    <3> QED BY <3>4
  <2> QED BY <1>3, <2>3, <2>4
<1> QED BY <1>4, <1>6, <1>7

LEMMA BookAtDelete ==
    ASSUME TabInv, DeleteContact
    PROVE  \E name \in Keys : ContactBook!Edit(name, Absent)
<1>1. server \in Data /\ Unsure \in Seq(Put)
  BY UnsureTyped DEF TabInv, DatabaseInv, DatabaseTypeOK
<1>2. contacts[row] \in Contact BY DEF DeleteContact, TabInv, TypeOK, RowShown
<1>3. PICK name \in Keys : name = contacts[row].name BY <1>2 DEF Contact
<1> DEFINE a == [key |-> name, value |-> Absent, to |-> Absent]
<1>4. a \in Put /\ a.key = name /\ a.value = Absent BY DEF Put
<1>5. Call(<<a>>) BY <1>3 DEF DeleteContact
<1> HIDE DEF a
<1>6. server' = server /\ Unsure' = Append(Unsure, a) BY <1>4, <1>5, BookAtCall
<1> DEFINE w == Unsure
<1>7. w \in Seq(Put) BY <1>1
<1> HIDE DEF w
<1>8. Overlay(server, Append(w, a)) = [Overlay(server, w) EXCEPT ![name] = Absent]
  BY <1>1, <1>4, <1>7, OverlayAppend
<1>9. Possible(server, Append(w, a)) = [Possible(server, w) EXCEPT ![name] = @ \cup {Absent}]
  BY <1>1, <1>4, <1>7, PossibleAppend
<1>10. ContactBook!Edit(name, Absent)
  BY <1>6, <1>8, <1>9 DEF ContactBook!Edit, Possible, w
<1> QED BY <1>10

\* A kill leaves what the server has, which was possible.
LEMMA BookAtKill == ASSUME TabInv, TabInv', ForgetAll PROVE ContactBook!Forget
<1>1. server' = server /\ puts' = <<>> /\ calls' = <<>> /\ server \in Data
  BY DEF ForgetAll, TabInv, DatabaseInv, DatabaseTypeOK
<1>2. Unsure' = <<>>
  <2>1. <<>> \in Seq(Put) OBVIOUS
  <2>2. <<>> \o <<>> = <<>> BY <2>1, ConcatEmptySeq
  <2> QED BY <1>1, <2>2 DEF Unsure
<1>3. DOMAIN <<>> = {} OBVIOUS
<1>4. \A k \in Keys : Overlay(server, <<>>)[k] = server[k] BY <1>3, OverlayNone
<1>5. Overlay(server, <<>>) \in Data
  <2>1. <<>> \in Seq(Put) OBVIOUS
  <2> QED BY <1>1, <2>1, OverlayTyped
<1>6. Possible(server, <<>>) = [k \in Keys |-> {server[k]}] BY <1>3 DEF Possible, ToSet
<1>7. \A k \in Keys : Overlay(server, <<>>)[k] \in Possible(server, Unsure)[k]
  BY <1>4, PossibleOf
<1>8. Overlay(server', Unsure') = Overlay(server, <<>>) /\ Possible(server', Unsure') = Possible(server, <<>>)
  BY <1>1, <1>2
<1>9. Possible(server, <<>>) = [k \in Keys |-> {Overlay(server, <<>>)[k]}] BY <1>4, <1>6
<1>10. Overlay(server, <<>>) \in ContactBook!Found(Possible(server, Unsure))
  BY <1>5, <1>7 DEF ContactBook!Found, ContactBook!Books, Data
<1> QED BY <1>8, <1>9, <1>10 DEF ContactBook!Forget, Possible

LEMMA StepOfBook ==
    ASSUME TabInv, TabInv', [Next]_vars
    PROVE  [ContactBook!Next]_ContactBook!bookVars
<1>1. CASE RunCall BY <1>1, BookAtRunCall, BookStays
<1>2. CASE UNCHANGED <<server, puts, calls>> BY <1>2, BookStays DEF Unsure
<1>3. CASE Connect \/ Disconnect \/ ChildEvent BY <1>2, <1>3 DEF Connect, Disconnect, ChildEvent
<1>4. CASE Deliver
  <2>1. CASE Head(down).type = "ack" BY <1>4, <2>1, BookAtAck DEF ContactBook!Next
  <2>2. CASE Head(down).type # "ack" BY <1>2, <1>4, <2>2 DEF Deliver
  <2> QED BY <2>1, <2>2
<1>5. CASE ServerApplies BY <1>5, BookAtServer DEF ContactBook!Next
<1>6. CASE OpenDetail \/ OpenAdd \/ OpenEdit \/ Leave
  BY <1>2, <1>6 DEF OpenDetail, OpenAdd, OpenEdit, Leave, dbVars
<1>7. CASE DeleteContact
  <2>1. PICK name \in Keys : ContactBook!Edit(name, Absent) BY <1>7, BookAtDelete
  <2> QED BY <2>1 DEF ContactBook!Next
<1>8. ASSUME NEW name \in Keys, NEW username \in Values, Save(name, username)
      PROVE  ContactBook!Next
  BY <1>8, BookAtSave DEF ContactBook!Next
<1>9. CASE Ends BY <1>9, BookAtKill, EndsInTab DEF ContactBook!Next
<1>10. CASE UNCHANGED vars BY <1>2, <1>10 DEF vars, dbVars
<1> QED BY <1>1, <1>3, <1>4, <1>5, <1>6, <1>7, <1>8, <1>9, <1>10 DEF Next, Ends

\* Saves, deletions and renames take effect at once, each in one step, and
\* nothing else changes the book, but for a kill, which leaves under each name
\* what the server has or what a write still under way would have put there
\* (AddContactViewController prepare, ContactsViewController unwindToContactList,
\* FRepo, FPersistentConnection).
THEOREM ImplementsBookAlways == Spec => ImplementsBook
<1>1. Init => ContactBook!Init
  <2> SUFFICES ASSUME Init PROVE ContactBook!Init OBVIOUS
  <2>1. server \in Data /\ puts = <<>> /\ calls = <<>> BY DEF Init, DatabaseInit
  <2>2. DOMAIN <<>> = {} /\ <<>> \in Seq(Put) OBVIOUS
  <2>3. Unsure = <<>> BY <2>1, <2>2, ConcatEmptySeq DEF Unsure
  <2>4. \A k \in Keys : Overlay(server, <<>>)[k] = server[k] BY <2>2, OverlayNone
  <2>5. Overlay(server, <<>>) \in Data BY <2>1, <2>2, OverlayTyped
  <2>6. Possible(server, <<>>) = [k \in Keys |-> {server[k]}] BY <2>2 DEF Possible, ToSet
  <2> QED BY <2>3, <2>4, <2>5, <2>6 DEF ContactBook!Init, ContactBook!Books, Possible, Data
<1>2. TabInv /\ TabInv' /\ [Next]_vars => [ContactBook!Next]_ContactBook!bookVars
  BY StepOfBook
<1> QED BY <1>1, <1>2, TabInvariant, PTL DEF Spec, Safe, ImplementsBook, ContactBook!Spec

=============================================================================
