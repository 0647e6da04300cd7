---------------------------- MODULE EventsProofs ----------------------------
(***************************************************************************)
(* The events tab for every set of names and every number of calls in      *)
(* flight: the edited row is the selected one, an event no call is under   *)
(* way for has an image if and only if it is stored, and a load brings one *)
(* row for each event with an image.                                       *)
(***************************************************************************)
EXTENDS Events, ListLemmas

USE NamesAssumption, SlashedAssumption

LEMMA LoadEventsLists ==
    ASSUME NEW names \in SUBSET Names
    PROVE  /\ LoadEvents(names) \in Seq(ChildEvents)
           /\ Len(LoadEvents(names)) = Cardinality(names)
           /\ Cardinality(names) \in Nat
           /\ \A i \in 1..Cardinality(names) :
                 LoadEvents(names)[i] = [kind |-> "added", key |-> SetToSeq(names)[i]]
<1>1. IsFiniteSet(names) BY FS_Subset
<1>2. Cardinality(names) \in Nat /\ SetToSeq(names) \in [1..Cardinality(names) -> names]
  BY <1>1, SetToSeqLists
<1> DEFINE n == Cardinality(names)
           f == SetToSeq(names)
           e(i) == [kind |-> "added", key |-> f[i]]
<1>3. \A i \in 1..n : e(i) \in ChildEvents BY <1>2 DEF ChildEvents
<1>4. LoadEvents(names) = [i \in 1..n |-> e(i)] BY DEF LoadEvents
<1>5. n \in Nat BY <1>2
<1> HIDE DEF n, f, e
<1>6. [i \in 1..n |-> e(i)] \in [1..n -> ChildEvents] BY <1>3
<1>7. [i \in 1..n |-> e(i)] \in Seq(ChildEvents) BY <1>5, <1>6, SeqDef
<1>8. Len([i \in 1..n |-> e(i)]) = n BY <1>5, <1>7, LenProperties
<1>9. /\ LoadEvents(names) \in Seq(ChildEvents) /\ Len(LoadEvents(names)) = n
      /\ \A i \in 1..n : LoadEvents(names)[i] = e(i)
  BY <1>4, <1>7, <1>8
<1> QED BY <1>5, <1>9 DEF n, f, e

LEMMA CallsTyped ==
    ASSUME NEW calls \in Calls, NEW n \in Names
    PROVE  /\ More(calls, n) \in Calls
           /\ calls[n] > 0 => Fewer(calls, n) \in Calls
           /\ None \in Calls
BY DEF Calls, More, Fewer, None

-----------------------------------------------------------------------------
(* Types and the selection. *)

TabInv == TypeOK /\ SelectedIsShown

LEMMA TabInit == Init => TabInv
<1> SUFFICES ASSUME Init PROVE TabInv OBVIOUS
<1>1. queue \in Seq(ChildEvents) BY DEF Init
<1>2. None \in Calls BY DEF None, Calls
<1>3. <<>> \in Seq(Names) /\ 0 \in 0..Len(<<>>) OBVIOUS
<1>4. disturbed \subseteq Names BY DEF Init, SymDiff
<1> QED BY <1>1, <1>2, <1>3, <1>4 DEF Init, TabInv, TypeOK, SelectedIsShown, Screens

\* A new process starts as the first one does.
LEMMA TabRestart == ASSUME TabInv, Restart PROVE TabInv'
<1>1. queue' \in Seq(ChildEvents) BY DEF Restart
<1>2. None \in Calls BY DEF None, Calls
<1>3. <<>> \in Seq(Names) /\ 0 \in 0..Len(<<>>) OBVIOUS
<1>4. stored' \subseteq Names /\ disturbed' \subseteq Names /\ images' \subseteq Names
  BY DEF Restart, TabInv, TypeOK, SymDiff
<1> QED BY <1>1, <1>2, <1>3, <1>4
        DEF Restart, AtList, TabInv, TypeOK, SelectedIsShown, Screens

LEMMA SetChildTyped ==
    ASSUME NEW n \in Names, queue \in Seq(ChildEvents), SetChild(n)
    PROVE  queue' \in Seq(ChildEvents)
<1>1. [kind |-> "added", key |-> n] \in ChildEvents BY DEF ChildEvents
<1> QED BY <1>1, AppendProperties DEF SetChild

LEMMA RemoveChildTyped ==
    ASSUME NEW n \in Names, queue \in Seq(ChildEvents), RemoveChild(n)
    PROVE  queue' \in Seq(ChildEvents)
<1>1. [kind |-> "removed", key |-> n] \in ChildEvents BY DEF ChildEvents
<1> QED BY <1>1, AppendProperties DEF RemoveChild

LEMMA TabStep == ASSUME TabInv, [Next]_vars PROVE TabInv'
<1> USE DEF TabInv, TypeOK
<1>1. Len(rows) \in Nat /\ DOMAIN rows = 1..Len(rows) OBVIOUS
\* Taps that change nothing but screen and selection.
<1>2. CASE OpenDetail
  <2>1. PICK i \in DOMAIN rows : selected' = i /\ shown' = rows[i] BY <1>2 DEF OpenDetail
  <2>2. UNCHANGED <<stored, unsure, known, images, queue, uploads, deletes, asked, found, rows,
                    disturbed, fresh>> /\ screen' = "detail"
    BY <1>2 DEF OpenDetail, cloudVars, history
  <2>3. selected' \in 0..Len(rows') /\ shown' \in Names BY <1>1, <2>1, <2>2
  <2>4. SelectedIsShown' BY <2>1, <2>2 DEF SelectedIsShown
  <2> QED BY <2>2, <2>3, <2>4 DEF Screens
<1>3. CASE OpenAdd \/ OpenEdit
  <2>1. UNCHANGED <<stored, unsure, known, images, queue, uploads, deletes, asked, found, rows,
                    selected, shown, disturbed, fresh>>
    BY <1>3 DEF OpenAdd, OpenEdit, cloudVars, history
  <2>2. (screen = "list" /\ screen' = "add") \/ (screen = "detail" /\ screen' = "edit")
    BY <1>3 DEF OpenAdd, OpenEdit
  <2>3. SelectedIsShown' BY <2>1, <2>2 DEF SelectedIsShown
  <2> QED BY <2>1, <2>2, <2>3 DEF Screens
<1>4. CASE Leave
  <2>1. UNCHANGED <<stored, unsure, known, images, queue, uploads, deletes, asked, found, rows,
                    disturbed, fresh>> /\ AtList
    BY <1>4 DEF Leave, cloudVars, history
  <2> QED BY <1>1, <2>1 DEF AtList, SelectedIsShown, Screens
<1>5. ASSUME NEW n \in Names, Save(n) PROVE TabInv'
  <2>1. rows' \in Seq(Names)
    <3>1. CASE selected # 0
      <4>1. selected \in 1..Len(rows) BY <1>1, <3>1
      <4> QED BY <1>5, <3>1, <4>1, ExceptSeq DEF Save, RowsAfterSave
    <3>2. CASE selected = 0
      BY <1>5, <3>2, AppendProperties DEF Save, RowsAfterSave
    <3> QED BY <3>1, <3>2
  <2>2. SetChild(n) /\ UserWrites(n) BY <1>5 DEF Save
  <2>3. uploads' \in Calls /\ queue' \in Seq(ChildEvents)
    BY <1>5, <2>2, CallsTyped, SetChildTyped DEF Save
  <2>4. AtList /\ UNCHANGED <<images, deletes, asked, found>> BY <1>5 DEF Save
  <2>5. stored' \subseteq Names /\ unsure' \subseteq Names /\ known' \subseteq stored'
    BY <2>2 DEF SetChild
  <2>7. disturbed' \subseteq Names /\ fresh' \in BOOLEAN BY <2>2 DEF UserWrites
  <2>6. Len(rows') \in Nat BY <2>1
  <2> QED BY <2>1, <2>3, <2>4, <2>5, <2>6, <2>7 DEF AtList, SelectedIsShown, Screens
<1>6. CASE DeleteRow
  <2>1. PICK i \in DOMAIN rows :
           /\ UserWrites(rows[i]) /\ deletes' = More(deletes, rows[i])
           /\ RemoveChild(rows[i]) /\ rows' = RemoveAt(rows, i)
    BY <1>6 DEF DeleteRow
  <2>2. PICK n \in Names : n = rows[i] BY <1>1
  <2>3. queue' \in Seq(ChildEvents) BY <2>1, <2>2, RemoveChildTyped
  <2>4. deletes' \in Calls BY <2>1, <2>2, CallsTyped
  <2>5. rows' \in Seq(Names) BY <2>1, RemoveAtTyped
  <2>6. Len(rows') \in Nat BY <2>5
  <2>7. /\ UNCHANGED <<images, uploads, asked, found, selected, screen, shown>>
        /\ screen = "list"
    BY <1>6 DEF DeleteRow
  <2>8. selected = 0 BY <2>7 DEF SelectedIsShown
  <2>9. /\ stored' \subseteq Names /\ unsure' \subseteq Names /\ known' \subseteq stored'
        /\ disturbed' \subseteq Names /\ fresh' \in BOOLEAN
    BY <2>1, <2>2 DEF RemoveChild, UserWrites
  <2> QED BY <2>3, <2>4, <2>5, <2>6, <2>7, <2>8, <2>9 DEF SelectedIsShown
<1>7. CASE SaveIncomplete \/ GeocodingFails \/ Killed \/ ChildEventFails
  BY <1>7, TabRestart DEF SaveIncomplete, GeocodingFails, Killed, ChildEventFails
<1>8. CASE ChildEvent
  <2>1. /\ Head(queue) \in ChildEvents /\ Tail(queue) \in Seq(ChildEvents)
    BY <1>8, HeadTailProperties DEF ChildEvent
  <2>2. Head(queue).key \in Names BY <2>1 DEF ChildEvents
  <2>3. asked' \in Calls
    BY <1>8, <2>2, CallsTyped DEF ChildEvent
  <2>4. selected' = selected \/ selected' = 0 BY <1>8 DEF ChildEvent
  <2>5. /\ queue' = Tail(queue)
        /\ UNCHANGED <<stored, unsure, known, images, uploads, deletes, found, rows, screen,
                       shown, disturbed, fresh>>
    BY <1>8 DEF ChildEvent, history
  <2> QED BY <1>1, <2>1, <2>3, <2>4, <2>5 DEF SelectedIsShown
<1>9. ASSUME NEW n \in Names, ImageShown(n) PROVE TabInv'
  <2>1. /\ rows' = Append(rows, n) /\ selected' = 0 /\ found' = Fewer(found, n) /\ found[n] > 0
        /\ UNCHANGED <<stored, unsure, known, images, uploads, deletes, asked, queue, screen,
                       shown, disturbed, fresh>>
    BY <1>9 DEF ImageShown, history
  <2>2. rows' \in Seq(Names) /\ found' \in Calls BY <2>1, CallsTyped, AppendProperties
  <2>3. Len(rows') \in Nat BY <2>2
  <2> QED BY <2>1, <2>2, <2>3 DEF SelectedIsShown
<1>10. ASSUME NEW n \in Names, UploadEnds(n) \/ DeleteEnds(n) \/ FetchEnds(n) PROVE TabInv'
  <2>1. UNCHANGED <<stored, unsure, known, queue, rows, selected, screen, shown>>
    BY <1>10 DEF UploadEnds, DeleteEnds, FetchEnds, uiVars, history
  <2>2. images' \subseteq Names /\ disturbed' \subseteq Names /\ fresh' \in BOOLEAN
    BY <1>10 DEF UploadEnds, DeleteEnds, FetchEnds, history
  <2>3. uploads' \in Calls /\ deletes' \in Calls
    BY <1>10, CallsTyped DEF UploadEnds, DeleteEnds, FetchEnds
  <2>4. asked' \in Calls /\ found' \in Calls
    BY <1>10, CallsTyped DEF UploadEnds, DeleteEnds, FetchEnds
  <2> QED BY <2>1, <2>2, <2>3, <2>4 DEF SelectedIsShown
<1>11. CASE UNCHANGED vars
  BY <1>11 DEF vars, cloudVars, uiVars, history, SelectedIsShown
<1>12. CASE Load
  <2>1. stored \ known \in SUBSET Names OBVIOUS
  <2>2. queue' \in Seq(ChildEvents) BY <1>12, <2>1, LoadEventsLists, ConcatProperties DEF Load
  <2>3. /\ known' = stored
        /\ UNCHANGED <<stored, unsure, images, uploads, deletes, asked, found, rows, selected,
                       screen, shown, disturbed, fresh>>
    BY <1>12 DEF Load, uiVars, history
  <2> QED BY <2>2, <2>3 DEF SelectedIsShown
<1>13. CASE Settle
  BY <1>13 DEF Settle, uiVars, history, SelectedIsShown
<1> QED BY <1>2, <1>3, <1>4, <1>5, <1>6, <1>7, <1>8, <1>9, <1>10, <1>11, <1>12, <1>13 DEF Next

LEMMA TabInvariant == Safe => []TabInv
BY TabInit, TabStep, PTL DEF Safe

\* Rows, selection, calls in flight and queue keep their types: no callback
\* answers a call that was not made, no selection points behind the table.
THEOREM TypeCorrect == Spec => []TypeOK
<1>1. TabInv => TypeOK BY DEF TabInv
<1> QED BY <1>1, TabInvariant, PTL DEF Spec

\* What Save replaces is the row of the event being edited, whatever images
\* arrive while it is edited (unwindTEventList, getData's callback).
THEOREM SelectedIsShownAlways == Spec => []SelectedIsShown
<1>1. TabInv => SelectedIsShown BY DEF TabInv
<1> QED BY <1>1, TabInvariant, PTL DEF Spec

-----------------------------------------------------------------------------
(* Database and Storage. *)

\* The image of an event not disturbed is as its child is, or one call brings
\* it there.
Follows(n) ==
    \/ Idle(n) /\ (n \in images <=> n \in stored)
    \/ uploads[n] = 1 /\ deletes[n] = 0 /\ n \in stored
    \/ uploads[n] = 0 /\ deletes[n] = 1 /\ n \notin stored
ImagesFollow == \A n \in Names \ disturbed : Follows(n)

LEMMA CallsCounted ==
    ASSUME NEW calls \in Calls, NEW n \in Names
    PROVE  /\ More(calls, n)[n] = calls[n] + 1 /\ Fewer(calls, n)[n] = calls[n] - 1
           /\ \A m \in Names \ {n} : More(calls, n)[m] = calls[m] /\ Fewer(calls, n)[m] = calls[m]
           /\ calls[n] \in Nat /\ None[n] = 0
BY DEF Calls, More, Fewer, None

LEMMA ImagesStep == ASSUME TabInv, ImagesFollow, [Next]_vars PROVE ImagesFollow'
<1>0. uploads \in Calls /\ deletes \in Calls BY DEF TabInv, TypeOK
<1> SUFFICES ASSUME NEW m \in Names, m \notin disturbed' PROVE Follows(m)' BY DEF ImagesFollow
<1>1. ASSUME m \notin disturbed, UNCHANGED <<uploads[m], deletes[m]>>,
             m \in images' <=> m \in images, m \in stored' <=> m \in stored
      PROVE  Follows(m)'
  BY <1>1 DEF ImagesFollow, Follows, Idle
<1>2. ASSUME UNCHANGED <<stored, images, uploads, deletes, disturbed>> PROVE Follows(m)'
  BY <1>1, <1>2
<1>3. CASE OpenDetail \/ OpenAdd \/ OpenEdit \/ Leave \/ ChildEvent \/ Load \/ Settle
  BY <1>2, <1>3
     DEF OpenDetail, OpenAdd, OpenEdit, Leave, ChildEvent, Load, Settle, cloudVars, history
<1>4. ASSUME NEW n \in Names, ImageShown(n) \/ FetchEnds(n) PROVE Follows(m)'
  BY <1>2, <1>4 DEF ImageShown, FetchEnds, history
<1>5. ASSUME NEW n \in Names, Save(n) PROVE Follows(m)'
  <2>1. /\ UserWrites(n) /\ uploads' = More(uploads, n) /\ stored' = stored \cup {n}
        /\ UNCHANGED <<images, deletes>>
    BY <1>5 DEF Save, SetChild
  <2>2. CASE m = n
    <3>1. Idle(m) BY <2>1, <2>2 DEF UserWrites
    <3> QED BY <1>0, <2>1, <2>2, <3>1, CallsCounted DEF Follows, Idle
  <2>3. CASE m # n
    <3>1. m \notin disturbed BY <2>1, <2>3 DEF UserWrites
    <3> QED BY <1>0, <1>1, <2>1, <2>3, <3>1, CallsCounted
  <2> QED BY <2>2, <2>3
<1>6. CASE DeleteRow
  <2>1. PICK n \in Names : /\ UserWrites(n) /\ deletes' = More(deletes, n)
                           /\ stored' = stored \ {n}
    <3>1. PICK i \in DOMAIN rows : /\ UserWrites(rows[i]) /\ deletes' = More(deletes, rows[i])
                                   /\ stored' = stored \ {rows[i]}
      BY <1>6 DEF DeleteRow, RemoveChild
    <3>2. PICK n \in Names : n = rows[i] BY DEF TabInv, TypeOK
    <3> QED BY <3>1, <3>2
  <2>2. UNCHANGED <<images, uploads>> BY <1>6 DEF DeleteRow
  <2>3. CASE m = n
    <3>1. Idle(m) BY <2>1, <2>3 DEF UserWrites
    <3> QED BY <1>0, <2>1, <2>2, <2>3, <3>1, CallsCounted DEF Follows, Idle
  <2>4. CASE m # n
    <3>1. m \notin disturbed BY <2>1, <2>4 DEF UserWrites
    <3> QED BY <1>0, <1>1, <2>1, <2>2, <2>4, <3>1, CallsCounted
  <2> QED BY <2>3, <2>4
<1>7. ASSUME NEW n \in Names, UploadEnds(n) PROVE Follows(m)'
  <2>1. /\ uploads[n] > 0 /\ uploads' = Fewer(uploads, n) /\ UNCHANGED <<stored, deletes>>
        /\ m \notin disturbed
        /\ images' = images \cup {n} \/ (images' = images /\ m # n)
    BY <1>7 DEF UploadEnds
  <2>2. CASE m = n
    <3>1. uploads[m] = 1 /\ deletes[m] = 0 /\ m \in stored
      BY <1>0, <2>1, <2>2, CallsCounted DEF ImagesFollow, Follows, Idle
    <3> QED BY <1>0, <2>1, <2>2, <3>1, CallsCounted DEF Follows, Idle
  <2>3. CASE m # n BY <1>0, <1>1, <2>1, <2>3, CallsCounted
  <2> QED BY <2>2, <2>3
<1>8. ASSUME NEW n \in Names, DeleteEnds(n) PROVE Follows(m)'
  <2>1. /\ deletes[n] > 0 /\ deletes' = Fewer(deletes, n) /\ UNCHANGED <<stored, uploads>>
        /\ m \notin disturbed
        /\ images' = images \ {n} \/ (images' = images /\ m # n)
    BY <1>8 DEF DeleteEnds
  <2>2. CASE m = n
    <3>1. deletes[m] = 1 /\ uploads[m] = 0 /\ m \notin stored
      BY <1>0, <2>1, <2>2, CallsCounted DEF ImagesFollow, Follows, Idle
    <3> QED BY <1>0, <2>1, <2>2, <3>1, CallsCounted DEF Follows, Idle
  <2>3. CASE m # n BY <1>0, <1>1, <2>1, <2>3, CallsCounted
  <2> QED BY <2>2, <2>3
\* A kill disturbs what it interrupts and what it takes back.
<1>9. CASE SaveIncomplete \/ GeocodingFails \/ Killed \/ ChildEventFails
  <2>1. Restart BY <1>9 DEF SaveIncomplete, GeocodingFails, Killed, ChildEventFails
  <2>2. PICK lost \in SUBSET unsure :
           /\ stored' = SymDiff(stored, lost)
           /\ disturbed' = disturbed \cup lost \cup {n \in Names : ~Idle(n)}
    BY <2>1 DEF Restart
  <2>3. m \notin disturbed /\ Idle(m) /\ (m \in stored' <=> m \in stored)
    BY <2>2 DEF SymDiff
  <2>4. uploads' = None /\ deletes' = None /\ images' = images BY <2>1 DEF Restart
  <2>5. uploads'[m] = 0 /\ deletes'[m] = 0 BY <2>4 DEF None
  <2> QED BY <1>1, <2>3, <2>4, <2>5 DEF Idle
<1>10. CASE UNCHANGED vars BY <1>2, <1>10 DEF vars, cloudVars, history
<1> QED BY <1>3, <1>4, <1>5, <1>6, <1>7, <1>8, <1>9, <1>10 DEF Next

\* An event no call is under way for has an image, and a removed one none; only
\* an event whose two halves a kill, a failed call or a second write came
\* between is excepted, until it is saved or deleted again (prepare, tableView
\* commit .delete).
THEOREM ImagesMatchEventsAlways == Spec => []ImagesMatchEvents
<1>1. Init => ImagesFollow BY DEF Init, ImagesFollow, Follows, Idle, None, SymDiff
<1>2. TabInv /\ ImagesFollow /\ [Next]_vars => ImagesFollow' BY ImagesStep
<1>3. TabInv /\ ImagesFollow => ImagesMatchEvents
  BY DEF ImagesFollow, ImagesMatchEvents, Follows, Idle
<1> QED BY <1>1, <1>2, <1>3, TabInvariant, PTL DEF Spec, Safe

-----------------------------------------------------------------------------
(* The load.  Until the user does something an event is in one place at a    *)
(* time: not known to the device, still to be told of, its image asked for,  *)
(* the image there, or a row; those without an image drop out.               *)

Told(n) == \A i \in DOMAIN queue : queue[i].key # n
Pending(n) == asked[n] + found[n]
HasRow(n) == \E i \in DOMAIN rows : rows[i] = n

Loads ==
    fresh =>
        /\ uploads = None /\ deletes = None
        /\ \A i \in DOMAIN queue : queue[i].kind = "added" /\ queue[i].key \in stored
        /\ \A i, j \in DOMAIN queue : queue[i].key = queue[j].key => i = j
        /\ \A i, j \in DOMAIN rows : rows[i] = rows[j] => i = j
        /\ \A n \in Names :
              /\ n \notin known => Told(n) /\ Pending(n) = 0 /\ ~HasRow(n)
              /\ ~Told(n) => Pending(n) = 0 /\ ~HasRow(n)
              /\ Pending(n) <= 1 /\ (Pending(n) > 0 => n \in stored /\ ~HasRow(n))
              /\ found[n] > 0 \/ HasRow(n) => n \in stored \cap images
              /\ n \in stored \cap images =>
                    n \notin known \/ ~Told(n) \/ Pending(n) > 0 \/ HasRow(n)

\* What a start leaves: Init, and Restart.
LoadStart ==
    /\ known = {} /\ queue = <<>> /\ rows = <<>>
    /\ uploads = None /\ deletes = None /\ asked = None /\ found = None

LEMMA LoadBegins == LoadStart => Loads
BY DEF LoadStart, Loads, Told, Pending, HasRow, None

\* Nothing that is counted changes.
LEMMA LoadsSame ==
    ASSUME Loads, UNCHANGED <<stored, known, images, uploads, deletes, asked, found, queue, rows>>,
           fresh' = fresh \/ ~fresh'
    PROVE  Loads'
BY DEF Loads, Told, Pending, HasRow

\* The answer to the listen tells of the events not yet known.
LEMMA LoadsLoad == ASSUME TabInv, Loads, Load PROVE Loads'
<1> DEFINE new == stored \ known
           k == Cardinality(new)
           f == SetToSeq(new)
           q == LoadEvents(new)
           l == Len(queue)
<1>1. /\ known' = stored /\ queue' = queue \o q /\ queue \in Seq(ChildEvents)
      /\ known \subseteq stored /\ stored \subseteq Names
      /\ UNCHANGED <<stored, images, uploads, deletes, asked, found, rows, fresh>>
  BY DEF Load, TabInv, TypeOK, history, uiVars
<1> SUFFICES ASSUME fresh PROVE Loads' BY <1>1 DEF Loads
<1>2. new \in SUBSET Names /\ IsFiniteSet(new) BY <1>1, FS_Subset
<1>3. /\ \A i, j \in 1..k : f[i] = f[j] => i = j
      /\ \A x \in new : \E i \in 1..k : f[i] = x
      /\ \A i \in 1..k : f[i] \in new
  BY <1>2, SetToSeqLists
<1>4. /\ q \in Seq(ChildEvents) /\ Len(q) = k /\ k \in Nat
      /\ \A i \in 1..k : q[i] = [kind |-> "added", key |-> f[i]]
  BY <1>2, LoadEventsLists
<1>5. l \in Nat /\ DOMAIN queue = 1..l BY <1>1
<1> DEFINE Old(i) == i \in 1..l
           New(i) == i \in (l + 1)..(l + k)
<1> HIDE DEF k, f, q, l
<1>6. /\ DOMAIN queue' = 1..(l + k)
      /\ \A i \in 1..l : queue'[i] = queue[i]
      /\ \A i \in (l + 1)..(l + k) : queue'[i] = q[i - l]
  BY <1>1, <1>4, <1>5, ConcatProperties DEF l
<1>7. /\ \A i \in 1..(l + k) : Old(i) \/ New(i)
      /\ \A i : Old(i) \/ New(i) => i \in 1..(l + k)
      /\ \A i \in 1..k : i + l \in (l + 1)..(l + k) /\ (i + l) - l = i
      /\ \A i \in (l + 1)..(l + k) : i - l \in 1..k
  BY <1>4, <1>5
<1>8. \A i : New(i) => /\ queue'[i].kind = "added" /\ queue'[i].key = f[i - l]
                       /\ queue'[i].key \in new /\ i - l \in 1..k
  BY <1>3, <1>4, <1>6, <1>7
<1>9. \A i : Old(i) => /\ queue'[i] = queue[i] /\ queue[i].kind = "added"
                       /\ queue[i].key \in known
  <2>0. \A i \in DOMAIN queue : queue[i] \in ChildEvents BY <1>1
  <2>1. \A i \in DOMAIN queue : queue[i].key \in Names BY <2>0 DEF ChildEvents
  <2>2. \A i \in DOMAIN queue : queue[i].key \in known
    BY <2>1 DEF Loads, Told
  <2> QED BY <1>5, <1>6, <2>2 DEF Loads
<1>10. \A i, j \in 1..(l + k) : queue'[i].key = queue'[j].key => i = j
  <2> SUFFICES ASSUME NEW i \in 1..(l + k), NEW j \in 1..(l + k),
                      queue'[i].key = queue'[j].key
               PROVE  i = j
    OBVIOUS
  <2>1. CASE Old(i) /\ Old(j) BY <1>5, <1>9, <2>1 DEF Loads
  <2>2. CASE New(i) /\ New(j)
    <3>1. i - l = j - l BY <1>3, <1>8, <2>2
    <3> QED BY <1>4, <1>5, <3>1
  <2>3. CASE Old(i) /\ New(j) BY <1>8, <1>9, <2>3
  <2>4. CASE New(i) /\ Old(j) BY <1>8, <1>9, <2>4
  <2> QED BY <1>7, <2>1, <2>2, <2>3, <2>4
<1>11. ASSUME NEW i \in 1..(l + k) PROVE queue'[i].kind = "added" /\ queue'[i].key \in stored'
  <2>1. CASE Old(i) BY <1>1, <1>9, <2>1
  <2>2. CASE New(i) BY <1>1, <1>8, <2>2
  <2> QED BY <1>7, <2>1, <2>2
<1>12. ASSUME NEW n \in new PROVE ~Told(n)'
  <2>1. PICK i \in 1..k : f[i] = n BY <1>3
  <2>2. PICK j : j = i + l /\ New(j) /\ j - l = i BY <1>7, <2>1
  <2>3. j \in DOMAIN queue' /\ queue'[j].key = n BY <1>6, <1>7, <1>8, <2>1, <2>2
  <2> QED BY <2>3 DEF Told
<1>13. \A n \in Names \ new : Told(n)' <=> Told(n)
  <2> SUFFICES ASSUME NEW n \in Names \ new PROVE Told(n)' <=> Told(n) OBVIOUS
  <2>1. ASSUME Told(n)', NEW i \in DOMAIN queue PROVE queue[i].key # n
    <3>1. i \in DOMAIN queue' /\ queue'[i] = queue[i] BY <1>5, <1>6, <1>7
    <3> QED BY <2>1, <3>1 DEF Told
  <2>2. ASSUME Told(n), NEW i \in DOMAIN queue' PROVE queue'[i].key # n
    <3>1. Old(i) \/ New(i) BY <1>6, <1>7, <2>2
    <3>2. CASE New(i) BY <1>8, <3>2
    <3>3. CASE Old(i) BY <1>5, <1>9, <2>2, <3>3 DEF Told
    <3> QED BY <3>1, <3>2, <3>3
  <2>3. Told(n)' => Told(n) BY <2>1 DEF Told
  <2>4. Told(n) => Told(n)' BY <2>2 DEF Told
  <2> QED BY <2>3, <2>4
<1>14. ASSUME NEW n \in Names
       PROVE  (HasRow(n)' <=> HasRow(n)) /\ Pending(n)' = Pending(n) /\ found'[n] = found[n]
  BY <1>1 DEF HasRow, Pending
<1>15. ASSUME NEW n \in Names
       PROVE  /\ n \notin known' => Told(n)' /\ Pending(n)' = 0 /\ ~HasRow(n)'
              /\ ~Told(n)' => Pending(n)' = 0 /\ ~HasRow(n)'
              /\ Pending(n)' <= 1 /\ (Pending(n)' > 0 => n \in stored' /\ ~HasRow(n)')
              /\ found'[n] > 0 \/ HasRow(n)' => n \in stored' \cap images'
              /\ n \in stored' \cap images' =>
                    n \notin known' \/ ~Told(n)' \/ Pending(n)' > 0 \/ HasRow(n)'
  <2>1. CASE n \in new
    <3>1. n \notin known /\ n \in known' BY <1>1, <2>1
    <3>2. Pending(n) = 0 /\ ~HasRow(n) /\ (found[n] > 0 => n \in stored \cap images)
      BY <3>1 DEF Loads
    <3>3. Pending(n)' = 0 /\ ~HasRow(n)' /\ ~Told(n)' BY <1>12, <1>14, <2>1, <3>2
    <3>4. found'[n] > 0 => n \in stored' \cap images' BY <1>1, <1>14, <3>2
    <3> QED BY <3>1, <3>3, <3>4
  <2>2. CASE n \notin new
    <3>1. n \in known' <=> n \in known BY <1>1, <2>2
    <3>2. Told(n)' <=> Told(n) BY <1>13, <2>2
    <3>3. /\ HasRow(n)' <=> HasRow(n)
          /\ Pending(n)' = Pending(n) /\ found'[n] = found[n]
      BY <1>14
    <3>4. /\ n \notin known => Told(n) /\ Pending(n) = 0 /\ ~HasRow(n)
          /\ ~Told(n) => Pending(n) = 0 /\ ~HasRow(n)
          /\ Pending(n) <= 1 /\ (Pending(n) > 0 => n \in stored /\ ~HasRow(n))
          /\ found[n] > 0 \/ HasRow(n) => n \in stored \cap images
          /\ n \in stored \cap images =>
                n \notin known \/ ~Told(n) \/ Pending(n) > 0 \/ HasRow(n)
      BY DEF Loads
    <3>5. stored' = stored /\ images' = images BY <1>1
    <3> HIDE DEF new
    <3> QED BY <3>1, <3>2, <3>3, <3>4, <3>5
  <2> QED BY <2>1, <2>2
<1> QED BY <1>1, <1>6, <1>10, <1>11, <1>15 DEF Loads

LEMMA LoadsAsks == ASSUME TabInv, Loads, ChildEvent PROVE Loads'
<1> DEFINE e == Head(queue)
<1>1. /\ queue \in Seq(ChildEvents) /\ queue # <<>> /\ queue' = Tail(queue)
      /\ asked \in Calls /\ found \in Calls
      /\ UNCHANGED <<stored, known, images, uploads, deletes, found, rows, fresh>>
  BY DEF ChildEvent, TabInv, TypeOK, history
<1> SUFFICES ASSUME fresh PROVE Loads' BY <1>1 DEF Loads
<1>2. /\ e = queue[1] /\ 1 \in DOMAIN queue /\ e \in ChildEvents
      /\ \A i \in DOMAIN queue' : i \in Nat /\ i # 0 /\ i + 1 \in DOMAIN queue
                                  /\ queue'[i] = queue[i + 1]
      /\ \A i \in DOMAIN queue : i = 1 \/ (i - 1 \in DOMAIN queue' /\ queue'[i - 1] = queue[i])
  <2>1. /\ queue' \in Seq(ChildEvents) /\ Len(queue') = Len(queue) - 1
        /\ \A i \in 1..Len(queue') : queue'[i] = queue[i + 1]
        /\ e = queue[1] /\ Len(queue) \in Nat /\ Len(queue) >= 1
    BY <1>1, HeadTailProperties
  <2>2. DOMAIN queue' = 1..(Len(queue) - 1) /\ DOMAIN queue = 1..Len(queue) BY <1>1, <2>1
  <2>3. \A i \in 2..Len(queue) : i - 1 \in 1..(Len(queue) - 1) /\ (i - 1) + 1 = i BY <2>1
  <2>4. \A i \in 1..Len(queue) : i = 1 \/ i \in 2..Len(queue) BY <2>1
  <2>5. \A i \in 1..(Len(queue) - 1) : i \in Nat /\ i # 0 /\ i + 1 \in 1..Len(queue) BY <2>1
  <2> QED BY <1>1, <2>1, <2>2, <2>3, <2>4, <2>5
<1>3. PICK k \in Names : k = e.key BY <1>2 DEF ChildEvents
<1>4. e.kind = "added" /\ k \in stored BY <1>2, <1>3 DEF Loads
<1>5. asked' = More(asked, k) BY <1>4, <1>3 DEF ChildEvent
<1>6. ~Told(k) BY <1>2, <1>3 DEF Told
<1>7. Told(k)'
  <2> SUFFICES ASSUME NEW i \in DOMAIN queue' PROVE queue'[i].key # k BY DEF Told
  <2>1. i + 1 # 1 /\ i + 1 \in DOMAIN queue /\ queue'[i] = queue[i + 1] BY <1>2
  <2> QED BY <1>2, <1>3, <2>1 DEF Loads
<1>8. \A n \in Names \ {k} : Told(n)' <=> Told(n) BY <1>2, <1>3 DEF Told
<1>9. \A n \in Names : HasRow(n)' <=> HasRow(n) BY <1>1 DEF HasRow
<1>10. /\ Pending(k) = 0 /\ Pending(k)' = 1 /\ \A n \in Names \ {k} : Pending(n)' = Pending(n)
      /\ \A n \in Names : Pending(n) \in Nat
  <2>1. Pending(k) = 0 BY <1>4, <1>6 DEF Loads
  <2>2. \A n \in Names : asked[n] \in Nat /\ found[n] \in Nat BY <1>1 DEF Calls
  <2>3. asked'[k] = asked[k] + 1 /\ \A n \in Names \ {k} : asked'[n] = asked[n]
    BY <1>1, <1>4, <1>5 DEF More, Calls
  <2> QED BY <1>1, <1>4, <2>1, <2>2, <2>3 DEF Pending
<1>11. /\ \A i \in DOMAIN queue' : queue'[i].kind = "added" /\ queue'[i].key \in stored'
       /\ \A i, j \in DOMAIN queue' : queue'[i].key = queue'[j].key => i = j
  <2>1. \A i \in DOMAIN queue' : queue'[i].kind = "added" /\ queue'[i].key \in stored'
    BY <1>1, <1>2 DEF Loads
  <2>2. ASSUME NEW i \in DOMAIN queue', NEW j \in DOMAIN queue', queue'[i].key = queue'[j].key
        PROVE  i = j
    <3>1. i + 1 = j + 1 BY <1>2, <2>2 DEF Loads
    <3> QED BY <1>2, <3>1
  <2> QED BY <2>1, <2>2
<1>12. ASSUME NEW n \in Names
       PROVE  /\ n \notin known' => Told(n)' /\ Pending(n)' = 0 /\ ~HasRow(n)'
              /\ ~Told(n)' => Pending(n)' = 0 /\ ~HasRow(n)'
              /\ Pending(n)' <= 1 /\ (Pending(n)' > 0 => n \in stored' /\ ~HasRow(n)')
              /\ found'[n] > 0 \/ HasRow(n)' => n \in stored' \cap images'
              /\ n \in stored' \cap images' =>
                    n \notin known' \/ ~Told(n)' \/ Pending(n)' > 0 \/ HasRow(n)'
  <2>1. CASE n = k BY <1>1, <1>4, <1>6, <1>7, <1>9, <1>10, <2>1 DEF Loads
  <2>2. CASE n # k BY <1>1, <1>8, <1>9, <1>10, <2>2 DEF Loads
  <2> QED BY <2>1, <2>2
<1> QED BY <1>1, <1>11, <1>12 DEF Loads

LEMMA LoadsFetches == ASSUME TabInv, Loads, NEW n \in Names, FetchEnds(n) PROVE Loads'
<1>1. /\ asked \in Calls /\ found \in Calls /\ asked[n] > 0 /\ asked' = Fewer(asked, n)
      /\ \/ n \in images /\ found' = More(found, n) /\ fresh' = fresh
         \/ n \notin images /\ found' = found /\ fresh' = fresh
         \/ ~fresh'
      /\ UNCHANGED <<stored, known, images, uploads, deletes, queue, rows>>
  BY DEF FetchEnds, TabInv, TypeOK, uiVars, history
<1> SUFFICES ASSUME fresh, fresh' PROVE Loads' BY <1>1 DEF Loads
<1>2. \A m \in Names : asked[m] \in Nat /\ found[m] \in Nat BY <1>1 DEF Calls
<1>3. /\ Pending(n) = 1 /\ asked[n] = 1 /\ found[n] = 0 /\ n \in stored /\ n \in known
      /\ Told(n) /\ ~HasRow(n)
  BY <1>1, <1>2 DEF Loads, Pending
<1>4. /\ asked'[n] = 0 /\ found'[n] = (IF n \in images THEN 1 ELSE 0)
      /\ \A m \in Names \ {n} : asked'[m] = asked[m] /\ found'[m] = found[m]
  BY <1>1, <1>3 DEF Fewer, More, Calls
<1>5. \A m \in Names : (Told(m)' <=> Told(m)) /\ (HasRow(m)' <=> HasRow(m))
  BY <1>1 DEF Told, HasRow
<1>6. ASSUME NEW m \in Names
      PROVE  /\ m \notin known' => Told(m)' /\ Pending(m)' = 0 /\ ~HasRow(m)'
             /\ ~Told(m)' => Pending(m)' = 0 /\ ~HasRow(m)'
             /\ Pending(m)' <= 1 /\ (Pending(m)' > 0 => m \in stored' /\ ~HasRow(m)')
             /\ found'[m] > 0 \/ HasRow(m)' => m \in stored' \cap images'
             /\ m \in stored' \cap images' =>
                   m \notin known' \/ ~Told(m)' \/ Pending(m)' > 0 \/ HasRow(m)'
  <2>1. CASE m = n BY <1>1, <1>3, <1>4, <1>5, <2>1 DEF Pending
  <2>2. CASE m # n
    <3>1. Pending(m)' = Pending(m) /\ found'[m] = found[m] BY <1>4, <2>2 DEF Pending
    <3> QED BY <1>1, <1>5, <3>1 DEF Loads
  <2> QED BY <2>1, <2>2
<1> QED BY <1>1, <1>6 DEF Loads

LEMMA LoadsShows == ASSUME TabInv, Loads, NEW n \in Names, ImageShown(n) PROVE Loads'
<1>1. /\ asked \in Calls /\ found \in Calls /\ found[n] > 0 /\ found' = Fewer(found, n)
      /\ rows \in Seq(Names) /\ rows' = Append(rows, n)
      /\ UNCHANGED <<stored, known, images, uploads, deletes, asked, queue, fresh>>
  BY DEF ImageShown, TabInv, TypeOK, history
<1> SUFFICES ASSUME fresh PROVE Loads' BY <1>1 DEF Loads
<1>2. \A m \in Names : asked[m] \in Nat /\ found[m] \in Nat BY <1>1 DEF Calls
<1>3. /\ asked[n] = 0 /\ found[n] = 1 /\ n \in stored \cap images /\ n \in known
      /\ Told(n) /\ ~HasRow(n)
  BY <1>1, <1>2 DEF Loads, Pending
<1>4. found'[n] = 0 /\ \A m \in Names \ {n} : found'[m] = found[m]
  BY <1>1, <1>3 DEF Fewer, Calls
<1> DEFINE k == Len(rows)
<1>5. /\ k \in Nat /\ DOMAIN rows = 1..k /\ DOMAIN rows' = 1..(k + 1) /\ rows'[k + 1] = n
      /\ \A i \in 1..k : rows'[i] = rows[i]
  <2>1. /\ rows' \in Seq(Names) /\ Len(rows') = k + 1 /\ rows'[k + 1] = n
        /\ \A i \in 1..k : rows'[i] = rows[i]
    BY <1>1, AppendProperties
  <2> QED BY <1>1, <2>1
<1> HIDE DEF k
<1>6. \A i \in 1..(k + 1) : i \in 1..k \/ i = k + 1 BY <1>5
<1>7. \A i \in 1..k : rows[i] # n BY <1>3, <1>5 DEF HasRow
<1>8. \A i, j \in DOMAIN rows' : rows'[i] = rows'[j] => i = j
  <2> SUFFICES ASSUME NEW i \in 1..(k + 1), NEW j \in 1..(k + 1), rows'[i] = rows'[j]
               PROVE  i = j
    BY <1>5
  <2>1. CASE i \in 1..k /\ j \in 1..k BY <1>5, <2>1 DEF Loads
  <2>2. CASE i = k + 1 /\ j = k + 1 BY <2>2
  <2>3. CASE i \in 1..k /\ j = k + 1 BY <1>5, <1>7, <2>3
  <2>4. CASE j \in 1..k /\ i = k + 1 BY <1>5, <1>7, <2>4
  <2> QED BY <1>6, <2>1, <2>2, <2>3, <2>4
<1>9. HasRow(n)' /\ \A m \in Names \ {n} : HasRow(m)' <=> HasRow(m)
  <2>1. k + 1 \in 1..(k + 1) /\ \A i \in 1..k : i \in 1..(k + 1) BY <1>5
  <2> QED BY <1>5, <1>6, <2>1 DEF HasRow
<1>10. \A m \in Names : Told(m)' <=> Told(m) BY <1>1 DEF Told
<1>11. ASSUME NEW m \in Names
       PROVE  /\ m \notin known' => Told(m)' /\ Pending(m)' = 0 /\ ~HasRow(m)'
              /\ ~Told(m)' => Pending(m)' = 0 /\ ~HasRow(m)'
              /\ Pending(m)' <= 1 /\ (Pending(m)' > 0 => m \in stored' /\ ~HasRow(m)')
              /\ found'[m] > 0 \/ HasRow(m)' => m \in stored' \cap images'
              /\ m \in stored' \cap images' =>
                    m \notin known' \/ ~Told(m)' \/ Pending(m)' > 0 \/ HasRow(m)'
  <2>1. CASE m = n BY <1>1, <1>3, <1>4, <1>9, <1>10, <2>1 DEF Pending
  <2>2. CASE m # n
    <3>1. Pending(m)' = Pending(m) /\ found'[m] = found[m] BY <1>1, <1>4, <2>2 DEF Pending
    <3> QED BY <1>1, <1>9, <1>10, <2>2, <3>1 DEF Loads
  <2> QED BY <2>1, <2>2
<1> QED BY <1>1, <1>8, <1>11 DEF Loads

LEMMA LoadsStep == ASSUME TabInv, Loads, [Next]_vars PROVE Loads'
<1>1. stored \in SUBSET Names /\ uploads \in Calls /\ deletes \in Calls BY DEF TabInv, TypeOK
<1>2. CASE OpenDetail \/ OpenAdd \/ OpenEdit \/ Leave \/ Settle \/ UNCHANGED vars
  <2>1. UNCHANGED <<stored, known, images, uploads, deletes, asked, found, queue, rows, fresh>>
    BY <1>2 DEF OpenDetail, OpenAdd, OpenEdit, Leave, Settle, vars, cloudVars, uiVars, history
  <2> QED BY <2>1, LoadsSame
<1>3. CASE (\E n \in Names : Save(n)) \/ DeleteRow
  <2>1. ~fresh' BY <1>3 DEF Save, DeleteRow, UserWrites
  <2> QED BY <2>1 DEF Loads
<1>4. CASE SaveIncomplete \/ GeocodingFails \/ Killed \/ ChildEventFails
  <2>1. LoadStart'
    BY <1>4 DEF SaveIncomplete, GeocodingFails, Killed, ChildEventFails, Restart, LoadStart
  <2>2. (LoadStart => Loads)' BY LoadBegins, PTL
  <2> QED BY <2>1, <2>2
<1>5. CASE ChildEvent BY <1>5, LoadsAsks
<1>6. CASE \E n \in Names : ImageShown(n) \/ FetchEnds(n) BY <1>6, LoadsShows, LoadsFetches
<1>7. ASSUME NEW n \in Names, UploadEnds(n) \/ DeleteEnds(n) PROVE Loads'
  <2>1. fresh' = fresh /\ (uploads[n] > 0 \/ deletes[n] > 0) BY <1>7 DEF UploadEnds, DeleteEnds
  <2>2. fresh => FALSE BY <2>1 DEF Loads, None
  <2> QED BY <2>1, <2>2 DEF Loads
<1>8. CASE Load BY <1>8, LoadsLoad
<1> QED BY <1>2, <1>3, <1>4, <1>5, <1>6, <1>7, <1>8 DEF Next

LEMMA LoadsFaithful == ASSUME TabInv, Loads PROVE ReloadIsFaithful
<1> SUFFICES ASSUME fresh, Quiet
             PROVE  /\ ToSet(rows) = stored \cap images
                    /\ Len(rows) = Cardinality(stored \cap images)
  BY DEF ReloadIsFaithful
<1> DEFINE S == stored \cap images
           k == Len(rows)
<1>1. k \in Nat /\ DOMAIN rows = 1..k /\ rows \in [1..k -> Names] BY DEF TabInv, TypeOK
<1>2. /\ known = stored
      /\ \A n \in Names : Pending(n) = 0 /\ Told(n)
  BY DEF Quiet, None, Pending, Told
<1>3. \A n \in Names : HasRow(n) <=> n \in S BY <1>2 DEF Loads
<1>4. S \subseteq Names BY DEF TabInv, TypeOK
<1>5. \A i, j \in 1..k : rows[i] = rows[j] => i = j BY <1>1 DEF Loads
<1> HIDE DEF S, k
<1>6. \A i \in 1..k : rows[i] \in S BY <1>1, <1>3 DEF HasRow
<1>7. \A n \in S : \E i \in 1..k : rows[i] = n BY <1>1, <1>3, <1>4 DEF HasRow
<1>8. ToSet(rows) = S BY <1>1, <1>6, <1>7 DEF ToSet
<1>9. rows \in Bijection(1..k, S)
  BY <1>1, <1>5, <1>6, <1>7 DEF Bijection, Injection, Surjection, IsInjective
<1>10. ExistsBijection(1..k, S) BY <1>9, Zenon DEF ExistsBijection
<1>11. IsFiniteSet(1..k) /\ Cardinality(1..k) = k BY <1>1, FS_Interval
<1>12. Cardinality(S) = k BY <1>10, <1>11, FS_Bijection
<1> QED BY <1>8, <1>12 DEF S, k

\* Right after a start the table has one row for every event with an image and
\* no other, in whatever order the images come (loadEvents, getData).
THEOREM ReloadIsFaithfulAlways == Spec => []ReloadIsFaithful
<1>1. Init => Loads BY LoadBegins DEF Init, LoadStart
<1>2. TabInv /\ Loads /\ [Next]_vars => Loads' BY LoadsStep
<1>3. TabInv /\ Loads => ReloadIsFaithful BY LoadsFaithful
<1> QED BY <1>1, <1>2, <1>3, TabInvariant, PTL DEF Spec, Safe
=============================================================================
