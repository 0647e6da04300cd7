------------------------------ MODULE Location ------------------------------
(***************************************************************************)
(* What an observed location of the Realtime Database promises a screen    *)
(* that registers for childAdded and childRemoved: the events it is told   *)
(* of, one after the other, are the whole history of the location as the   *)
(* device sees it.  No event is lost, none is told twice, and an event is  *)
(* news when it is told.  Contacts implements this over the module         *)
(* Database.                                                               *)
(***************************************************************************)
EXTENDS Naturals, Sequences

CONSTANTS Keys,   \* children of the location
          Event   \* what the observers are told: a kind, a key, perhaps data

VARIABLES
    view,    \* children the device sees
    queue,   \* events raised, not yet run on the main queue
    told     \* history: the children that the events run so far tell of

locationVars == <<view, queue, told>>

\* The children that the events of q lead to from those of S.
Replay(S, q) ==
    {k \in Keys :
        \/ \E i \in DOMAIN q :
              /\ q[i].key = k /\ q[i].kind = "added"
              /\ \A j \in DOMAIN q : j > i => q[j].key # k
        \/ k \in S /\ \A i \in DOMAIN q : q[i].key # k}

\* Event i of q is news to whoever was told of S and of the events before it.
IsNews(S, q, i) ==
    q[i].kind = IF q[i].key \in Replay(S, SubSeq(q, 1, i - 1)) THEN "removed" ELSE "added"

\* The events of q tell, each at its turn, how S became T.
Leads(S, q, T) ==
    /\ q \in Seq(Event)
    /\ \A i \in DOMAIN q : q[i].key \in Keys /\ IsNews(S, q, i)
    /\ Replay(S, q) = T

Init ==
    /\ view \subseteq Keys /\ told = {}
    /\ Leads(told, queue, view)

\* The view changes, by a write of this device or a message of the server, and
\* raises the events of the change.
Change ==
    /\ LET raised == SubSeq(queue', Len(queue) + 1, Len(queue'))
       IN  queue' = queue \o raised /\ Leads(view, raised, view')
    /\ UNCHANGED told

\* The observers are told of one event.
Tell ==
    /\ queue # <<>>
    /\ IsNews(told, queue, 1)
    /\ queue' = Tail(queue)
    /\ told' = IF Head(queue).kind = "added" THEN told \cup {Head(queue).key}
               ELSE told \ {Head(queue).key}
    /\ UNCHANGED view

\* A new process observes the location from the start.
Restart ==
    /\ told' = {}
    /\ Leads(told', queue', view')

Next == Change \/ Tell \/ Restart

Spec == Init /\ [][Next]_locationVars

\* Once the events still queued are told, the observers know the view.
EventsExplainView == Leads(told, queue, view)
=============================================================================
