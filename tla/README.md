# A formal model of Are You Free

*Are You Free* (`AreYouFreeV0.2/AreYouFree`) is an iOS application: a user
signs in, keeps contacts and events, invites contacts to events and answers
invitations.  It has no server of its own.  Every screen talks to Firebase
(Auth, Realtime Database, Storage) by calls it does not wait for and hears of
their outcome in callbacks on the main queue.  That is where its difficulty is:
not in threads, the Swift code runs on one queue and the database client on
another, but in the order of answers,
in answers that come after the screen has moved on, in writes of several parts,
in lost connections and in an application that is killed at any moment.

This directory holds TLA+ modules translated from the Swift code and, for the
database, from the client library under `Pods/FirebaseDatabase`; TLC
configurations; and proofs checked by TLAPS.

## 1. Inventory

| Component (source) | State | Operations | Talks to |
|---|---|---|---|
| Login page (`LoginViewController`) | form, widgets enabled, `failedLoginAttempts`, `timerSeconds`, `timer` | sign in, register, Facebook, lockout after three wrong passwords, 30 s countdown | Firebase Auth; presents the tabs or the recovery page |
| Recovery page (`RecoveryViewController`) | a label | ask for a new password, cancel | Firebase Auth; returns to a *new* login page |
| Database client (`Pods/FirebaseDatabase`) | server cache, writes called, outstanding writes, connection | set/remove, observe, acknowledge, reconnect | the server; its own queue; child events on the main queue |
| Contacts tab (`ContactsViewController`, `ContactDetail…`, `AddContact…`) | `contacts`, index and contact of the detail screen, `tempName`, `replaced` | add, edit, rename, delete | `uid/Contacts` |
| Events tab (`EventTableViewController`, `EventDetail…`, `ViewController` in `EventViewController.swift`) | `Events`, selected row | add, edit, delete, load | `uid/Events` in the database, `uid/EventImages` in Storage, the geocoder |
| Invitations (`InviteSendTable…`, `InviteTable…`) | `contacts`, `hasCheckmark`, `requests`, the accessories of the cells | choose, save, answer | `uid/Contacts`, `username/Invites` of host and guest |
| Settings (`SettingsPage…`, `EditAccount…`, `Singleton`) | labels, `resultLabel`; `Singleton` reads the current user each time | sign out, change name and e-mail, delete the account | Firebase Auth; every tab through `Singleton` |
| Event cell, maps, orientation lock, app delegate, UI extensions | display | – | – |

How they interact: the screens call Firebase and share nothing but
`Singleton.shared`, which answers with the user *of the moment*; a tab fixes the
location it observes when it is first loaded.  A segue changes the screen; a
segue performed by a controller that is no longer in front does nothing, which
is what a late callback meets.  An unwind segue runs code of the screen that
is returned to (`unwindToContactList`, `unwindTEventList`, `unwindToSettings`).

What makes each component correct:

* **Login** – a locked page has one timer and that one opens it; the countdown
  is complete; whoever is signed in does not stay on the form.
* **Database client** – view and server converge through lost connections and
  repeated writes, without flicker for a single writer; what an observer is
  told of is the history of what the device sees, each event once and in order.
* **Contacts** – saves, deletions and renames take effect at once and are the
  only changes of the book but for a kill; the detail screen acts on the contact it shows; a rename, two
  writes, never loses the contact; the table has a row for each contact.
* **Events** – database child and image stay together, unless a call or the app
  ends between them; the edited row is the opened one; a start loads each event
  once, and no removed event.
* **Invitations** – only checked contacts are invited; the guest's list is what
  is stored for it; an answer does not create an invitation and stands until the
  guest changes it or the invitation is repeated; a checkmark is an answer.
* **Account** – the tabs belong to the signed-in user; without a user they are
  left; with one, the login page in front is; the settings show the account;
  Confirm is answered, and what it returns with is in effect.

The hazards behind these, each with its line, are in `PROJECT.json`.

## 2. Modules

| Module | Models | Notes |
|---|---|---|
| `Lockout` | the promise of the lockout | abstract: failures counted, seconds remaining |
| `Login` | `LoginViewController` | implements `Lockout` (`LockoutView`) |
| `Location` | the promise of an observed location | abstract: the view, the events queued, what was told |
| `Database` | one observed location, one writing device | extended by `Contacts` |
| `Book` | the promise of the contacts tab | abstract: the contact under each name, what a kill could bring back |
| `Contacts` | the contacts tab over `Database` | implements `Location` (`ContactsLocation`) and `Book` (`ContactBook`) |
| `Events` | the events tab, Storage, the database child | the database at the level of `Location` and `Book`, see below |
| `Invites` | a host and a guest, their locations and cells | |
| `Account` | settings, edit screen, recovery page, `Singleton`, the tabs' user | |
| `MC…` | instances for TLC | |
| `LoginProofs`, `LocationProofs`, `DatabaseProofs`, `ContactsProofs`, `EventsProofs`, `InvitesProofs`, `AccountProofs` | theorems | |
| `ListLemmas` | lemmas about `SetToSeq`, `RemoveAt` and the n-th of a set of positions | used by the theorems |

**Login.** `SignInClicked` adds a request to `pending` by kind; the code does
not disable its button meanwhile, so several are in flight and are answered in
any order.  `WrongPassword` is `failedLoginAttempt` with `startTimer`.
A `Timer` is an identity: `timer` is what the property refers to, `live` are
those the run loop fires; `NextSecond` makes each of them due once.
`AuthSucceeds` sets `currentUser` before the callback is run, as `FIRAuth.m`
does; `GoToHome` is the segue that UIKit drops when something is in front.

**Location.** `Leads(S, q, T)`: the events of `q`, each news when its turn comes,
turn the set of children `S` into `T`.  `Change` raises such events, `Tell` runs
one on the main queue, `Restart` is a new process that observes from nothing.
`told` is a history: what the events run so far tell of.

**Database and Contacts.** `Call` is `setValue` or `removeValue` as the screen sees
it: a block queued on the database's own queue (`FIRDatabaseReference.m:145`).
`RunCall` is `FRepo set:` when the block has its turn – view changed, events
raised, put queued –, between messages of the server.  `Connect` is `restoreState`: the listen, then all outstanding puts
in order.  `ServerApplies` is what the client relies on: the listener is told
before the writer is acknowledged.  `Deliver` is a message of either kind, and
`ChildEvents` orders removals before additions as `FEventGenerator` does.
`Save` is `save` *and* `unwindToContactList`; `SaveWrites` are the writes of the
first, `UnwindWrites` that of the second, `RowsAfterSave` its effect on the
rows.  The book that `Book` speaks of is what the server stores with all writes
over it that are called and not yet acknowledged (`Unsure`, both queues); what a kill
could bring back under a name is what the server has there or what one of
those writes puts there.  `to` in a put records which rename a removal belongs to; no action
reads it.  The view that the abstract location sees is the set of names in
`View`.

A name with a `/` in it is accepted by `child(_:)` as two steps of a path.  What
is then stored under its first step is not a string, `childAdded` unwraps a
failed cast, and the app ends at this start and at every later one:
`ChildEventFails`, in this module and in `Events`, for the names in `Slashed`.

**Events.** Calls to Storage are counted per name and end in any order;
`FetchEnds` is the answer of `getData`, `ImageShown` its callback.  The database
is the one of `Contacts`, at the level of its abstract specifications: a write
is seen at once and its child events are raised in order (`SetChild`,
`RemoveChild`), what was stored before arrives with the answer to the listen
(`Load`, after or between such events, as writes called while it is under way
are seen first), and what the server has not carried out yet (`unsure`, until
`Settle`) may be lost by an app that ends (`Restart`).  The wait of a call on the database's
own queue is left out: it would only put the events of a write later among those of the load.
Nothing of Storage is undone by a kill, but calls in flight are lost,
so that an image may be there without its child, or the child without its
image.  The app ends by a kill, an incomplete event (`SaveIncomplete`), an address
that cannot be geocoded on any row in sight (`GeocodingFails`) or a name with a
`/`, at any time, the first load included.  `disturbed` and `fresh` are history
variables: the events whose last save or deletion met another call of
theirs, or came apart by a kill or a failed call; and "nothing but the
load since the start".  No action reads them.

**Invites.** The guest's copy of the location matters only by which events it
knows, for nobody removes an invitation and no screen observes a changed value.
Reused cells (`Reused`) keep their accessories but go to any row, with each
reload and, in a list longer than the screen (`ScreenRows`), with scrolling
(`ScrollSend`, `ScrollList`); a row out of sight is given the accessory of a cell
not in use.  Contacts are keyed by their name, so the send screen may
have several of one user name, and any number may arrive while it is open
(`ContactAdded`).  `Known` are the display names the host has contacts for;
`Refused` stands for a user name that `child(_:)` refuses by an
exception, which ends the app in the middle of the loop of Save with some of
the invitations written (`SaveRaises`).  `accepts` is a history of the answers, `again` one of
the events somebody was invited to a second time.

**Account.** `requests` (sign-in, deletion, reset) is a bag: an answer may
overtake another.  `changes` of display name and e-mail address go through the
serial task queue of the user object (`FIRUser.m:442`,
`FIRAuthSerialTaskQueue.m:38`): one waits (`waits`) while one of the same
object is before it, and an answer, success or failure, lets the next one begin
(`ChangeAnswered`).  So within a Confirm the name is answered before the address
is asked for; a deletion is not on that queue, and each sign-in makes a new
user object with a queue of its own (`queued`).  `shown` in a request says that
the controller that sent it is still on screen; `Leave` clears
it.  `strayed` is a history: an answer came after its screen was left, or the
SDK signed the user out because the token was no longer valid.  A failing
change may do the latter (`FIRUser`, `signOutIfTokenIsInvalidWithError`).  The
recovery page covers the login page with a sign-in perhaps still under way,
and its Cancel shows a new login page (`EnterLogin`, as a deletion and a sign-out
do); a reset whose page was left has no effect on the app and is dropped
(`CoveredBag`, `CoveredQueue`).

Bounds and histories are named in the comments of the variables and constants.
Definitions marked "mutant" are plausible faults of the definition below
them; no specification uses them.

## 3. Runs

`tlc -workers 2 -config X.cfg MCxxx.tla`

| Configuration | Checks | Result | States |
|---|---|---|---|
| `LoginLockout` | `TypeOK`, `TimerOff`, `FullLockout`, `ImplementsLockout`, `CountdownRuns` | hold | 71 k |
| `LoginOverlap` | `LockIsTimed`, `SomethingTakesOff`, `LockoutEnds`, `SignedInLeavesForm` | hold | 548 k |
| `LoginOrphanTimer` | `TimerOff` | **violated** | |
| `Contacts` | `TypeOK`, `RowShown`, `ServerCatchesUp`, `ToldIsStored`, `RenameKeepsContact`, `NoFlicker` | hold | 5.5 M |
| `ContactsDelivery` | `EventuallyStored`, `ImplementsLocation`, `ImplementsBook` | hold | 205 k |
| `ContactsRows` | `RowsAreContacts` | **violated** | |
| `Events` | `TypeOK`, `SelectedIsShown`, `ImagesMatchEvents`, `ReloadIsFaithful`, `LoadCompletes` | hold | 895 k |
| `EventsGhost` | `RowsAreStored` | **violated** | |
| `Invites` | `TypeOK`, `InvitedAreChecked`, `RequestsMatchInvites`, `AnswersAnInvite`, `AnswerStands`, `InvitationArrives` | hold | 764 k |
| `InviteCheckmarks` | `CheckmarksAreAnswers` | **violated** | |
| `Account` | `TypeOK`, `TabsFollowUser`, `LabelsFollowProfile`, `NobodyIsStranded`, `NoUserLeavesTabs`, `SignedInLeavesForm`, `ConfirmAnswered` | hold | 1.4 M |
| `AccountConfirm` | `UpdatesConfirmed` | **violated** | |

### What the violations show

1. **Orphaned timer** (`LoginViewController.swift:246,253`).  Three wrong answers
   lock the page, three more of requests already sent lock it again;
   `startTimer` overwrites `timer`, and `updateTimer` invalidates only the new
   one.  The old timer goes on firing on an open page, sets the label each
   second, and in a later lockout counts down a second time.
2. **Rows lost by a rename** (`ContactsViewController.swift:85`).  `removeAll`
   keeps the rows with the *old* name instead of the others.
3. **Ghost row** (`EventTableViewController.swift:39,49`).  An image that arrives
   after its event was removed becomes a row; `childRemoved` removes none.
4. **Wandering checkmark** (`InviteTableViewController.swift:58-61`).  A reused
   cell keeps its checkmark, `cellForRowAt` never clears one.
5. **Unconfirmed update** (`EditAccountViewController.swift:116`).  The change of
   the display name fails, which sets a label; the change of the address, next on the
   queue, succeeds and returns to the settings, label and all.  The user sees
   the old name and no message.

More results are worth knowing.  A contact
renamed there and back while acknowledgements are lost has its removals
repeated: for a moment the server has neither name, and a kill at that moment
loses the contact (`RenameKeepsContact` therefore speaks of removals carried out
for the first time).  In the end the last write counts whatever was repeated
(`ServerCatchesUp`, `EventuallyStored`).  And `childAdded` appends a row that may be there already,
so a name deleted and added again while its row was kept appears twice.  An
answer to an invitation is safe (`AnswerStands`) only as long as no
connection is lost, no app ends, the guest keeps its name and nobody is invited
twice to the event, be it by two Saves or by one with two contacts of
one user name; otherwise the host's `setValue(false)` is carried out after the
answer and the guest's list,
which hears of new children only, goes on showing it as accepted.
`InvitedAreChecked` speaks of lists that fit on the screen: in a longer one
scrolling hands the cell of a checked row to another row, and Save invites the
row that no longer shows a checkmark.  `AnswersAnInvite` is about the
list that is observed: an answer that strays to the location of a new name may
make an invitation there.  `SignedInLeavesForm` and `NobodyIsStranded` except
answers that come after a new form has appeared over the one they were
asked for on (`strayed`): there the code leaves the user on the form.
And an image stored without its child, or the reverse, stays until
the event is saved or deleted again (`ImagesMatchEvents`): the app neither notices nor
repairs it.

### Bounds, and why they are enough

* `Login`: the limit is 3 as in the code where the theorem's bound matters, 2 in
  `LoginOverlap`, whose three requests in flight exceed it; the countdown is 2
  instead of 30, as only zero, one and more than one differ.  Three timer
  identities allow two orphans beside the timer of a lockout; orphans gather over
  several lockouts, so this is a bound on `LoginOverlap`, which does not
  look at a fourth.  With no more requests than the limit one identity is alive at a
  time (`TimerOff`).
* `Contacts`: two names and two user names, one of them empty, are what rename,
  overwrite and the empty field need.  Three waiting writes hold a rename and one
  more, counted over both queues; two drops hold a lost connection followed by a
  kill; three rows with those about to come hold a duplicate.  `ContactsDelivery`
  has one drop, as liveness asks for a graph that is searched as
  a whole, and a `/` in one of its names (`Slashed`), whose crashes are no drops and take
  none of the bound; its two refinements are also proved, without bounds.
* `Events`: two names, for a rename, and a third one with a `/`; four calls
  and events in flight, of which a save takes three (upload, child event, fetch), so that it
  overlaps the rest of the one before; three rows with those about to come.
  Larger instances were run once and hold: five calls (2.7 M states), and, for the
  safety properties, two names with six calls and four rows (5.1 M).
* `Invites`: two names for the guest, one of them in the host's contacts; with the
  refused one that gives three rows (`MaxContacts`) in which a user name comes twice.  Two events so
  that a cell can change rows, a screen of two rows for the host and of one for the guest,
  so that both lists scroll and `InvitedAreChecked` still meets two rows; in
  `InviteCheckmarks` everything fits on the screen, so that the reload alone moves the
  checkmark.  Two invitations saved, one mishap of any kind at any moment.
  A rename followed by a restart is two mishaps and
  is covered for `AnswersAnInvite` and `InvitedAreChecked` by the theorems, which
  have no bounds.  Larger instances, run once for all properties or for safety only, hold:
  three invitations (13.1 M), two mishaps (8.5 M), contacts for both names (10.5 M).
* `Account`: two accounts, one new name and address, three requests and callbacks
  under way: both changes of a Confirm with a deletion or a sign-in (four, safety only: 12.5 M states, hold).  A sign-in is
  sent while two places are free and a password reset while all three are: its
  answer sets a label and meets other requests only as what is dropped.
* `Location` and `Book` have no instance of their own: they are checked through the
  contacts tab.

Deadlock is checked for `Events`, `Invites` and `Account`.  In `Login` and `Contacts` it
is not: a page covered for good by the tabs and an exhausted bound on
drops are legitimate ends.

### Fairness

Only what the platform provides: the main queue runs its callbacks and events,
the run loop fires its timers, the SDK reconnects (`tryScheduleReconnect`) and
the server answers; Auth requests are answered at the latest with a network
error, and a Storage call ends; the calls on the database's queue are run
(`RunCall`).  In `Events` the listen is answered (`Load`) and each fetch and each
callback has its turn; the changes of `Account` have a fairness of their own, as each is on
the queue of its user object and is answered whatever other requests do.  That the main queue
runs its events is assumed and nowhere counted as a result.
`Lockout`'s `Running` (`CountdownRuns`) is the weak fairness of its countdown, written out
because it is checked under a substitution; what it needs is not only the run loop, but a timer
that lives.  Weak fairness is enough, each of these stays
enabled until it is taken.  In `Login` not even an answer of Firebase is assumed.
Nothing is assumed of the user, and failures are never fair.

## 4. Proofs

`tlapm XProofs.tla`, each in a few minutes from nothing.  Every invariant and every
action property that a run finds to hold is also a theorem: it holds for any sets
of names, users, events and values (finite ones where a list is made of them, as
the assumptions say), any bounds, any number of kills, lost connections and
requests.

* **LoginProofs**, for every limit and duration and for
  `MaxPending <= failedAttemptsLimit` – the assumption under which the code is
  right; the run `LoginOrphanTimer` shows that one request more breaks it.
  Two invariants hold without that assumption, `PageInv`: the types,
  `LockIsTimed` and `SomethingTakesOff` (`TypeCorrect`, `LockIsTimedAlways`,
  `SomethingTakesOffAlways`); they are what is left of the lockout and of signing in
  when timers are orphaned and answers come late.  `LockIsTimed` needs
  `WithinCountdown` (the seconds elapsed and those shown together stay within
  the duration: another lock starts the count anew, an orphan only hastens it).
  Inductive invariant `LockoutInv`, under the assumption: `TimerOff`, `WithinBound` (requests
  outstanding are bounded by `MaxPending`), `NoSecondLock` (while locked the requests
  in flight and the failures counted are together below the limit, so no
  second lock can happen; `TimerOff` alone does not say why) and `CountKeepsTime`
  (seconds elapsed and seconds left add up, which `FullLockout` needs).
  `TimerOffAlways`, `FullLockoutAlways` follow, and `LockoutImplemented`: initial
  states map to initial states and each step to a step or a stutter of `Lockout`.
* **LocationProofs**: what the queued events lead to, from what was told, is what the
  device sees (`EventsExplainViewAlways`).  Two lemmas carry it and both refinements:
  histories can be put one after the other (`Chain`) and told one event at a
  time (`TellHead`).
* **DatabaseProofs** and **ContactsProofs**: `ServerCatchesUp` is not inductive.  An
  acknowledgement lets a write go, and that must not change the view; why it
  does not depends on what is still under way.  `Wire` says so: each write
  carried out in this connection has its acknowledgement among the messages,
  in order (`AcksAt`), each echo stands just before the acknowledgement of its
  write (`EchoesAt`); what the client does not know is under way (`NewsPending`),
  and the last message about a child is up to date (`NewsCorrect`); client and
  server differ only under a kept write (`DifferenceKept`); of the writes carried
  out the last one to a child counts (`LastWriteCounts`).  One lemma per action
  shows that `Wire` is kept; `ServerCatchesUpAlways` and, with the view before and
  after, `NoFlickerAlways` follow.  `RenameKeepsContactAlways` needs `RenameInv`: a
  removal stands directly behind the write of the new name, in either queue or
  across the two, and where that write is gone it was carried out.
  `ImplementsLocationAlways` puts `ChildEventsLead` (the events of one change lead
  from the old view to the new) on the lemmas of `LocationProofs`; `ToldIsStoredAlways`
  is what it says at rest.  `ImplementsBookAlways` has one lemma per action that
  changes the server or the writes over it.  A save or a deletion appends its
  writes (`OverlayAppend`); that a rename is *one* step of the book needs `SaveCalls`: a
  save calls for at most the new name and the removal of another.  The call
  that has its turn moves from one queue to the other (`BookAtRunCall`).  A write
  carried out is still under way, so the book is the same and only an old
  value goes (`BookAtServer`); a write acknowledged is no longer under way, and
  `LastWriteCounts` of `Wire` says that the server has it, or that a later write
  hides it (`BookAtAck`, `OldestGone`).  A repeated removal, which may take a name from the
  server that `RenameKeepsContact` does not cover, is such a step too: `possible` says
  what a kill then leaves.
* **EventsProofs**: `SelectedIsShownAlways` by types and itself;
  `ImagesMatchEventsAlways` by `ImagesFollow` (for an event not disturbed, either no call is
  under way and image and child agree, or one upload or one removal is, and it will bring the
  image to where the child is; a kill that takes back a child
  puts its event among the disturbed); `ReloadIsFaithfulAlways` by `Loads` (until the user does
  something an event is in one place at a time: not known to the device, to be
  told of, asked for, found, or a row; so after any start, whatever was lost before it).
* **InvitesProofs**: `InvitedAreCheckedAlways` by `SendInv` (the three arrays of the send
  screen have one length, and an entry is 1 only beside a checkmark);
  `AnswersAnInviteAlways` by `AnswerInv`: rows and news of the guest are stored for
  the observed name, and invitations are never taken back;
  `RequestsMatchInvitesAlways` by `Once` (rows and news together list each stored
  invitation at one position); `AnswerStandsAlways` by `FirstInvites` (with no mishap
  so far, a write still to be carried out for an event nobody was
  invited to a second time is to an invitation not stored, and the only one to it;
  `InvitesAgain` is what Save must look at for that to be inductive, two contacts
  of one user name included).
* **AccountProofs**: `TypeCorrect`, `TabsFollowUserAlways`, `LabelsFollowProfileAlways` by
  `AccountInv`, which adds to the three that a request or change whose controller is on screen
  was sent from the screen in front (`InFront`).  Without that a callback of
  the edit screen could lead to the settings from anywhere.  `NobodyIsStrandedAlways` by `StayInv`:
  what a screen waits for is a change whose controller is on screen or a callback
  in the queue, and another answer, which takes one entry out of the changes or
  the head off the queue, leaves it there (`AnsweredChange`, `TailEntries`,
  `AppendEntries`); and a sign-in's callback that will lead home has its user.

Only model-checked: the liveness properties (`LockoutEnds`, `CountdownRuns`,
`SignedInLeavesForm` of `Login` and of `Account`, `EventuallyStored`,
`LoadCompletes`, `InvitationArrives`, `NoUserLeavesTabs`, `ConfirmAnswered`), as fairness and
ENABLED are out of the prover's reach.  Where liveness rests on something always
being under way, that part is an invariant of its own and proved: `LockIsTimed`,
`SomethingTakesOff`, `NobodyIsStranded`.  The refinements (`ImplementsLockout`, `ImplementsLocation`,
`ImplementsBook`) are of specifications without fairness and proved as they
are checked.  There are no recursive operators.

## 5. Plan

Done: all modules of section 2, their instances, and the theorems of section 4.

Left:

1. Compose `Account` with the guest's list: users without a display name share
   `Missing Username/Invites`, and a sign-in changes what `Singleton` answers.
2. A second host in `Invites`, for events of the same name.
3. An abstract specification of an invitation and its answer, with `Invites`
   shown to implement it as long as nothing is lost.
4. `Events` over `Database` itself instead of its abstraction.

## 6. Not modelled

* **Display**: layout, colours, texts beyond their kind; the orientation lock
  (`AppUtility`), one mask that each screen sets as it appears; the event cell and
  the hand-over to the maps application (a failing geocoder is modelled, as the
  end of the app that it causes).
* **Code that does not run**: `AreYouFree/ViewController.swift`, which is in no target; the
  test targets, which hold no test.
* **Libraries under `Pods`**: of Firebase only the behaviour the app depends on, which is
  translated where its source is there (`FirebaseDatabase`, `FirebaseAuth`) and external
  where it is not: no transactions, priorities, refused permissions or persistence.
  `leveldb-library` is linked for that persistence only, which the app never
  enables; `nanopb`, `GTMSessionFetcher` and the Facebook kit serve the libraries.
  All C, C++ and header files of the repository are of this kind, so that none
  of them is mapped; the application itself is written in Swift, of which the
  modules map about half, everything but the display.
* **Paths**: a name with a `/` is modelled by the crash it leads to.  Two things more
  that it does are not: a contact or event `A` renamed to `A/x` is removed with its
  new child, as that lies below it; and a name of slashes only
  writes the whole location.  An event of such a name would also end the guest's app
  (`as? Bool`, `InviteTableViewController.swift:25`).
* **Auth**: for a user without a password (Facebook) `updateEmail` asks for the user's
  data once more after its task has ended, so the next change of the same user object
  may overtake this last step, and a failure of it is reported for an address
  that was changed.  The model answers a change when its task ends.
* **Data**: a picture is its presence, an address its legality, a password only right or
  wrong.
