------------------------------- MODULE Events -------------------------------
(***************************************************************************)
(* The events tab on one device: EventTableViewController with the detail  *)
(* screen and the add/edit screen (class ViewController).  An event is two *)
(* things at Firebase: a child of uid/Events in the database and an image  *)
(* of the same name in Storage.  The app writes, removes and reads the two *)
(* by calls it does not wait for; a row is only loaded when its image is.  *)
(*                                                                         *)
(* The database under it is the one of the module Contacts, taken here at  *)
(* the level of Book and Location: a write takes effect at once, its child *)
(* events are raised in order, the children already stored arrive with the *)
(* answer to the listen, and a killed app may find a child as it was       *)
(* before a write the server has not carried out.                          *)
(***************************************************************************)
EXTENDS Naturals, Sequences, SequencesExt, FiniteSetsExt

CONSTANTS Names,     \* names an event may be given
          Slashed,   \* those of them with a / in them
          NoEvent,
          MaxCalls,  \* bound: calls to Storage in flight and events queued
          MaxRows    \* bound: rows of the table with those about to come

ASSUME NamesAssumption == IsFiniteSet(Names) /\ NoEvent \notin Names
ASSUME SlashedAssumption == Slashed \subseteq Names
ASSUME BoundsAssumption == MaxCalls \in Nat /\ MaxRows \in Nat

VARIABLES
    stored,     \* children of uid/Events, as the user has left them
    unsure,     \* those that a kill could still find as they were before
    known,      \* children the device sees: its own, after the load all
    images,     \* images in Storage
    queue,      \* child events on the main queue
    uploads,    \* putData in flight, per name
    deletes,    \* delete in flight, per name
    asked,      \* getData sent, per name
    found,      \* getData answered with an image, callback still queued
    rows,       \* Events, the rows of the table
    selected,   \* indexPathForSelectedRow; 0: none
    screen,
    shown,      \* the event the detail screen was given
    disturbed,  \* history: events written twice at a time, or by a call that was lost
    fresh       \* history: nothing but the first load has happened

cloudVars == <<stored, unsure, known, images, uploads, deletes, asked, found>>
uiVars == <<rows, selected, screen, shown>>
history == <<disturbed, fresh>>
vars == <<cloudVars, queue, uiVars, history>>

Calls == [Names -> Nat]
Screens == {"list", "detail", "add", "edit"}
ChildEvents == [kind : {"added", "removed"}, key : Names]

TypeOK ==
    /\ stored \subseteq Names /\ unsure \subseteq Names /\ images \subseteq Names
    /\ known \subseteq stored
    /\ queue \in Seq(ChildEvents)
    /\ uploads \in Calls /\ deletes \in Calls /\ asked \in Calls /\ found \in Calls
    /\ rows \in Seq(Names)
    /\ selected \in 0..Len(rows)
    /\ screen \in Screens
    /\ shown \in Names \cup {NoEvent}
    /\ disturbed \subseteq Names /\ fresh \in BOOLEAN

None == [n \in Names |-> 0]
More(calls, n) == [calls EXCEPT ![n] = @ + 1]
Fewer(calls, n) == [calls EXCEPT ![n] = @ - 1]

Total(calls) == FoldFunction(LAMBDA a, b : a + b, 0, calls)
InFlight == Total(uploads) + Total(deletes) + Total(asked) + Total(found) + Len(queue)
Loading == Cardinality(stored \ known) + Total(asked) + Total(found) + Len(queue)
Quiet ==
    /\ known = stored /\ queue = <<>>
    /\ uploads = None /\ deletes = None /\ asked = None /\ found = None

\* No call to Storage for this event is under way.
Idle(n) == uploads[n] = 0 /\ deletes[n] = 0

\* The observer is told of each of these events.
LoadEvents(names) ==
    [i \in 1..Cardinality(names) |-> [kind |-> "added", key |-> SetToSeq(names)[i]]]

AtListSelected ==   \* mutant: the selection is kept
    screen' = "list" /\ shown' = NoEvent /\ UNCHANGED selected

AtList == screen' = "list" /\ selected' = 0 /\ shown' = NoEvent

Init ==
    /\ stored \in SUBSET Names /\ images \in SUBSET Names
    /\ unsure = {} /\ known = {} /\ queue = <<>>
    /\ uploads = None /\ deletes = None /\ asked = None /\ found = None
    /\ rows = <<>> /\ selected = 0 /\ screen = "list" /\ shown = NoEvent
    /\ disturbed = SymDiff(stored, images) /\ fresh = TRUE

\* The process ends and starts again, loading or not: the calls in flight are
\* lost, and of the writes those that the server has not carried out.
Restart ==
    /\ \E lost \in SUBSET unsure :
          /\ stored' = SymDiff(stored, lost)
          /\ disturbed' = disturbed \cup lost \cup {n \in Names : ~Idle(n)}
    /\ unsure' = {} /\ known' = {} /\ queue' = <<>>
    /\ uploads' = None /\ deletes' = None /\ asked' = None /\ found' = None
    /\ rows' = <<>> /\ AtList
    /\ fresh' = TRUE
    /\ UNCHANGED images

-----------------------------------------------------------------------------
(* Taps. *)

\* A write by the user, with the history it leaves: written again, an event is
\* whole again.
UserWrites(n) ==
    /\ InFlight + 3 <= MaxCalls
    /\ disturbed' = IF Idle(n) THEN disturbed \ {n} ELSE disturbed \cup {n}
    /\ fresh' = FALSE

\* setValue and removeValue: the child is there, or gone, at once.
SetChild(n) ==
    /\ stored' = stored \cup {n} /\ known' = known \cup {n}
    /\ unsure' = IF n \in stored THEN unsure ELSE unsure \cup {n}
    /\ queue' = IF n \in known THEN queue
                ELSE Append(queue, [kind |-> "added", key |-> n])

RemoveChild(n) ==
    /\ stored' = stored \ {n} /\ known' = known \ {n}
    /\ unsure' = IF n \in stored THEN unsure \cup {n} ELSE unsure
    /\ queue' = IF n \in known THEN Append(queue, [kind |-> "removed", key |-> n])
                ELSE queue

OpenDetail ==
    /\ screen = "list"
    /\ \E i \in DOMAIN rows : selected' = i /\ shown' = rows[i]
    /\ screen' = "detail"
    /\ UNCHANGED <<cloudVars, queue, rows, history>>

OpenAdd ==
    /\ screen = "list" /\ screen' = "add"
    /\ UNCHANGED <<cloudVars, queue, rows, selected, shown, history>>

OpenEdit ==
    /\ screen = "detail" /\ screen' = "edit"
    /\ UNCHANGED <<cloudVars, queue, rows, selected, shown, history>>

\* Back and cancel; the table drops its selection when it appears again.
Leave ==
    /\ screen # "list"
    /\ AtList
    /\ UNCHANGED <<cloudVars, queue, rows, history>>

\* The rows after unwindTEventList: the selected one is replaced; without a
\* selection a row is added.
RowsAfterSave(name) ==
    IF selected # 0 THEN [rows EXCEPT ![selected] = name] ELSE Append(rows, name)

SaveWithoutImage(name) ==   \* mutant: putData is not called
    /\ screen \in {"add", "edit"}
    /\ Len(rows) + Loading + 2 <= MaxRows
    /\ UserWrites(name)
    /\ SetChild(name)
    /\ rows' = RowsAfterSave(name)
    /\ AtList
    /\ UNCHANGED <<images, uploads, deletes, asked, found>>

\* Save: prepare starts the upload and sets the child, then the unwind. An
\* edited event keeps its old child and image whatever its new name.
Save(name) ==
    /\ screen \in {"add", "edit"}
    /\ Len(rows) + Loading + 2 <= MaxRows
    /\ UserWrites(name)
    /\ uploads' = More(uploads, name)
    /\ SetChild(name)
    /\ rows' = RowsAfterSave(name)
    /\ AtList
    /\ UNCHANGED <<images, deletes, asked, found>>

\* Save without a name, an address or a photo, or with a name the database
\* refuses: a nil is unwrapped, or child(_:) raises, before the child is set.
SaveIncomplete == screen \in {"add", "edit"} /\ Restart

\* commit(.delete): both removals are called, the row goes at once.
DeleteRow ==
    /\ screen = "list"
    /\ \E i \in DOMAIN rows :
          /\ UserWrites(rows[i])
          /\ deletes' = More(deletes, rows[i])
          /\ RemoveChild(rows[i])
          /\ rows' = RemoveAt(rows, i)
    /\ UNCHANGED <<images, uploads, asked, found, selected, screen, shown>>

\* A shown row's address cannot be geocoded: completion(nil), unwrapped. Or
\* the system ends the app.
GeocodingFails == rows # <<>> /\ Restart
Killed == Restart

-----------------------------------------------------------------------------
(* The observers and the callbacks, on the main queue. *)

\* A name with a / is two steps of the child's path: the child then holds what
\* lies below it, not a string, and childAdded's cast of it is unwrapped.
Unreadable(e) == e.kind = "added" /\ e.key \in Slashed

\* childAdded asks for the image; childRemoved reloads the table, which drops
\* its selection.
ChildEvent ==
    /\ queue # <<>> /\ ~Unreadable(Head(queue))
    /\ queue' = Tail(queue)
    /\ IF Head(queue).kind = "added"
       THEN asked' = More(asked, Head(queue).key) /\ UNCHANGED selected
       ELSE selected' = 0 /\ UNCHANGED asked
    /\ UNCHANGED <<stored, unsure, known, images, uploads, deletes, found, rows, screen, shown,
                   history>>

ChildEventFails ==
    /\ queue # <<>> /\ Unreadable(Head(queue))
    /\ Restart

\* getData's callback with an image: append, then reloadData.
ImageShownOnTop(n) ==   \* mutant: the row goes where insertRows says, no reload
    /\ found[n] > 0
    /\ found' = Fewer(found, n)
    /\ rows' = <<n>> \o rows
    /\ UNCHANGED <<stored, unsure, known, images, uploads, deletes, asked, queue, selected, screen,
                   shown, history>>

ImageShown(n) ==
    /\ found[n] > 0
    /\ found' = Fewer(found, n)
    /\ rows' = Append(rows, n)
    /\ selected' = 0
    /\ UNCHANGED <<stored, unsure, known, images, uploads, deletes, asked, queue, screen, shown,
                   history>>

-----------------------------------------------------------------------------
(* The database: the answer to the listen, and writes carried out.          *)

Load ==
    /\ known # stored
    /\ known' = stored
    /\ queue' = queue \o LoadEvents(stored \ known)
    /\ UNCHANGED <<stored, unsure, images, uploads, deletes, asked, found, uiVars, history>>

Settle ==
    /\ \E n \in unsure : unsure' = unsure \ {n}
    /\ UNCHANGED <<stored, known, images, uploads, deletes, asked, found, queue, uiVars, history>>

-----------------------------------------------------------------------------
(* Storage. Calls are carried out in any order; a failure is only printed,  *)
(* or not even that.                                                        *)

UploadEnds(n) ==
    /\ uploads[n] > 0
    /\ uploads' = Fewer(uploads, n)
    /\ \/ images' = images \cup {n} /\ UNCHANGED disturbed
       \/ disturbed' = disturbed \cup {n} /\ UNCHANGED images
    /\ UNCHANGED <<stored, unsure, known, deletes, asked, found, queue, uiVars, fresh>>

DeleteEnds(n) ==
    /\ deletes[n] > 0
    /\ deletes' = Fewer(deletes, n)
    /\ \/ images' = images \ {n} /\ UNCHANGED disturbed
       \/ disturbed' = disturbed \cup {n} /\ UNCHANGED images
    /\ UNCHANGED <<stored, unsure, known, uploads, asked, found, queue, uiVars, fresh>>

FetchAskedTwice(n) ==   \* mutant: the answer is delivered twice
    /\ asked[n] > 0
    /\ asked' = Fewer(asked, n)
    /\ found' = IF n \in images THEN More(More(found, n), n) ELSE found
    /\ UNCHANGED <<stored, unsure, known, images, uploads, deletes, queue, uiVars, history>>

FetchRetried(n) ==   \* mutant: a missing image is asked for again
    /\ asked[n] > 0 /\ n \in images
    /\ asked' = Fewer(asked, n)
    /\ found' = More(found, n)
    /\ UNCHANGED <<stored, unsure, known, images, uploads, deletes, queue, uiVars, history>>

\* getData finds the image or not; the callback for a failure changes nothing.
FetchEnds(n) ==
    /\ asked[n] > 0
    /\ asked' = Fewer(asked, n)
    /\ \/ n \in images /\ found' = More(found, n) /\ UNCHANGED history
       \/ n \notin images /\ UNCHANGED <<found, history>>
       \/ fresh' = FALSE /\ UNCHANGED <<found, disturbed>>
    /\ UNCHANGED <<stored, unsure, known, images, uploads, deletes, queue, uiVars>>

Next ==
    \/ OpenDetail \/ OpenAdd \/ OpenEdit \/ Leave
    \/ \E n \in Names : Save(n)
    \/ DeleteRow
    \/ SaveIncomplete \/ GeocodingFails \/ Killed
    \/ ChildEvent \/ ChildEventFails
    \/ Load \/ Settle
    \/ \E n \in Names : ImageShown(n)
    \/ \E n \in Names : UploadEnds(n)
    \/ \E n \in Names : DeleteEnds(n)
    \/ \E n \in Names : FetchEnds(n)

\* The main queue runs, the listen is answered, and so is what Storage was
\* asked for.
Fairness ==
    /\ WF_vars(ChildEvent \/ ChildEventFails)
    /\ WF_vars(Load)
    /\ \A n \in Names : WF_vars(ImageShown(n)) /\ WF_vars(FetchEnds(n))

Safe == Init /\ [][Next]_vars
Spec == Safe /\ Fairness

-----------------------------------------------------------------------------
(* Properties. *)

\* What unwindTEventList replaces is the row of the event being edited, or
\* there is no selection and nothing is replaced: rows that load meanwhile
\* never put another event under the selection.
SelectedIsShown ==
    selected # 0 => screen \in {"detail", "edit"} /\ rows[selected] = shown

\* An event no call is under way for has an image, and a removed one has none,
\* unless the last thing done to it met a call still under way, or a kill or a
\* failed call came between its two halves; and then the next save or deletion
\* mends it.  No other event of the user is harmed by any of this.
ImagesMatchEvents ==
    \A n \in Names \ disturbed : Idle(n) => (n \in images <=> n \in stored)

\* Right after a start, once everything asked for was answered, the table has
\* one row for every event that has an image, and no other.
ReloadIsFaithful ==
    fresh /\ Quiet =>
        /\ ToSet(rows) = stored \cap images
        /\ Len(rows) = Cardinality(stored \cap images)

\* A load comes to its end, unless the user does something, a fetch fails or the
\* app ends again and again: a stored name with a / or an address that cannot be
\* geocoded ends it at every start.
LoadCompletes == []<><<Restart>>_vars \/ (fresh ~> (Quiet \/ ~fresh))

\* At rest no row is left of an event that was removed ("if child is removed,
\* refresh the screen", EventTableViewController).
RowsAreStored == Quiet => ToSet(rows) \subseteq stored
=============================================================================
