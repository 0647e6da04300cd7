------------------------------ MODULE Database ------------------------------
(***************************************************************************)
(* One location of the Realtime Database that a screen observes and one    *)
(* device writes: uid/Contacts for the contact list.  Translated from the  *)
(* client in Pods/FirebaseDatabase (FRepo, FSyncTree, FEventGenerator,     *)
(* FPersistentConnection); the server is what that client relies on.       *)
(*                                                                         *)
(* setValue and removeValue return at once: the write waits for its turn   *)
(* on the database's own queue, between the server's messages, and is then *)
(* kept until the server acknowledges it.  The observers see the server's  *)
(* last known data overlaid with the kept writes, and every change of that *)
(* view raises child events on the main queue.  After a lost connection    *)
(* the listen and then the kept writes are sent again, in order.  The app  *)
(* does not enable persistence: a killed app loses the writes not sent.    *)
(***************************************************************************)
EXTENDS Naturals, Sequences, SequencesExt, FiniteSetsExt

CONSTANTS Keys,      \* children of the location
          Values,    \* what a child may hold
          Absent,    \* a child that does not exist
          MaxPuts,   \* bound: writes called or waiting for the server
          MaxDrops   \* bound: lost connections and kills

ASSUME KeysAssumption == IsFiniteSet(Keys) /\ Absent \notin Values \cup Keys
ASSUME BoundsAssumption == MaxPuts \in Nat /\ MaxDrops \in Nat

VARIABLES
    server,     \* what the server stores
    cache,      \* server data the client knows
    loaded,     \* the first answer to the listen has arrived
    calls,      \* writes called, not yet run on the database's queue
    puts,       \* outstandingPuts, oldest first
    applied,    \* how many of them the server has carried out, this connection
    down,       \* messages from the server to the client
    queue,      \* child events raised, not yet run on the main queue
    connected,
    repeats,    \* history: how many of puts an earlier connection carried out
    drops       \* connections lost and kills so far

dbVars == <<server, cache, loaded, calls, puts, applied, down, queue, connected,
            repeats, drops>>

Data == [Keys -> Values \cup {Absent}]
\* `to` says why a removal was asked for: the name it makes room for in a
\* rename, Absent otherwise. No code reads it.
Put == [key : Keys, value : Values \cup {Absent}, to : Keys \cup {Absent}]
Message == [type : {"all"}, data : Data]
             \cup [type : {"child"}, key : Keys, value : Values \cup {Absent}]
             \cup [type : {"ack"}]
Event == [kind : {"added"}, key : Keys, value : Values]
           \cup [kind : {"removed"}, key : Keys]

DatabaseTypeOK ==
    /\ server \in Data /\ cache \in Data
    /\ loaded \in BOOLEAN /\ connected \in BOOLEAN
    /\ calls \in Seq(Put) /\ puts \in Seq(Put) /\ applied \in 0..Len(puts)
    /\ down \in Seq(Message) /\ queue \in Seq(Event)
    /\ repeats \in 0..Len(puts)
    /\ drops \in 0..MaxDrops

Nothing == [k \in Keys |-> Absent]

\* What the observers see: server data under the writes still kept.
Overlay(data, ps) ==
    [k \in Keys |-> LET mine == {i \in DOMAIN ps : ps[i].key = k}
                    IN  IF mine = {} THEN data[k] ELSE ps[Max(mine)].value]

View == Overlay(cache, puts)

\* The child events of one change of the view: removals first. Nothing is
\* raised for a changed value, no screen registers for it.
ChildEvents(old, new) ==
    LET gone == {k \in Keys : old[k] # Absent /\ new[k] = Absent}
        come == {k \in Keys : old[k] = Absent /\ new[k] # Absent}
    IN  [i \in 1..Cardinality(gone) |-> [kind |-> "removed", key |-> SetToSeq(gone)[i]]]
        \o [i \in 1..Cardinality(come) |->
              [kind |-> "added", key |-> SetToSeq(come)[i], value |-> new[SetToSeq(come)[i]]]]

DatabaseInit ==
    /\ server \in Data
    /\ cache = Nothing /\ loaded = FALSE
    /\ calls = <<>> /\ puts = <<>> /\ applied = 0 /\ down = <<>> /\ queue = <<>>
    /\ connected = FALSE /\ repeats = 0 /\ drops = 0

-----------------------------------------------------------------------------
(* The client's side. *)

\* setValue and removeValue, called in this order.
Call(ps) ==
    /\ calls' = calls \o ps
    /\ UNCHANGED <<server, cache, loaded, puts, applied, down, queue, connected,
                   repeats, drops>>

RunCallOnCache ==   \* mutant: other writes still kept are overlooked
    /\ calls # <<>>
    /\ calls' = Tail(calls)
    /\ puts' = Append(puts, Head(calls))
    /\ UNCHANGED <<server, cache, loaded, applied, down, connected, repeats, drops>>
    /\ queue' = queue \o ChildEvents(cache, View')

\* A call has its turn: the view changes and the write is sent, or kept for
\* the reconnection.
RunCall ==
    /\ calls # <<>>
    /\ calls' = Tail(calls)
    /\ puts' = Append(puts, Head(calls))
    /\ UNCHANGED <<server, cache, loaded, applied, down, connected, repeats, drops>>
    /\ queue' = queue \o ChildEvents(View, View')

\* (Re)connect: the listen is answered with all the data, then the kept
\* writes are sent again.
ConnectForgetting ==   \* mutant: outstanding puts are not restored
    /\ ~connected
    /\ connected' = TRUE
    /\ down' = <<[type |-> "all", data |-> server]>>
    /\ puts' = <<>>
    /\ repeats' = 0
    /\ UNCHANGED <<server, cache, loaded, calls, applied, queue, drops>>

ConnectUnsent ==   \* mutant: outstanding puts count as sent
    /\ ~connected
    /\ connected' = TRUE
    /\ down' = <<[type |-> "all", data |-> server]>>
    /\ applied' = Len(puts)
    /\ UNCHANGED <<server, cache, loaded, calls, puts, queue, repeats, drops>>

Connect ==
    /\ ~connected
    /\ connected' = TRUE
    /\ down' = <<[type |-> "all", data |-> server]>>
    /\ UNCHANGED <<server, cache, loaded, calls, puts, applied, queue, repeats, drops>>

\* Messages under way are lost; what the server did or did not do is unknown.
Disconnect ==
    /\ connected /\ drops < MaxDrops
    /\ connected' = FALSE
    /\ drops' = drops + 1
    /\ down' = <<>> /\ applied' = 0
    /\ repeats' = Max({repeats, applied})
    /\ UNCHANGED <<server, cache, loaded, calls, puts, queue>>

\* A message of the server: data changes the cache, an acknowledgement lets
\* the oldest write go.
Deliver ==
    /\ down # <<>>
    /\ down' = Tail(down)
    /\ LET m == Head(down)
       IN  /\ cache' = CASE m.type = "all"   -> m.data
                         [] m.type = "child" -> [cache EXCEPT ![m.key] = m.value]
                         [] m.type = "ack"   -> cache
           /\ IF m.type = "ack"
              THEN /\ puts' = Tail(puts) /\ applied' = applied - 1
                   /\ repeats' = Max({0, repeats - 1})
              ELSE UNCHANGED <<puts, applied, repeats>>
           /\ loaded' = (loaded \/ m.type = "all")
    /\ queue' = queue \o ChildEvents(View, View')
    /\ UNCHANGED <<server, calls, connected, drops>>

-----------------------------------------------------------------------------
(* The server: one write at a time in the order sent; the listener hears of *)
(* a change before its writer hears of the write.                           *)

ServerAckFirst ==   \* mutant: the acknowledgement overtakes the data
    /\ connected /\ applied < Len(puts)
    /\ LET p == puts[applied + 1]
       IN  /\ server' = [server EXCEPT ![p.key] = p.value]
           /\ down' = down \o <<[type |-> "ack"]>>
                        \o <<[type |-> "child", key |-> p.key, value |-> p.value]>>
    /\ applied' = applied + 1
    /\ UNCHANGED <<cache, loaded, calls, puts, queue, connected, repeats, drops>>

ServerApplies ==
    /\ connected /\ applied < Len(puts)
    /\ LET p == puts[applied + 1]
       IN  /\ server' = [server EXCEPT ![p.key] = p.value]
           /\ down' = down \o (IF server[p.key] = p.value THEN <<>>
                               ELSE <<[type |-> "child", key |-> p.key, value |-> p.value]>>)
                        \o <<[type |-> "ack"]>>
    /\ applied' = applied + 1
    /\ UNCHANGED <<cache, loaded, calls, puts, queue, connected, repeats, drops>>

\* The process ends, by a crash or by the system: memory is gone.
ForgetAll ==
    /\ cache' = Nothing /\ loaded' = FALSE
    /\ calls' = <<>> /\ puts' = <<>> /\ applied' = 0 /\ down' = <<>> /\ queue' = <<>>
    /\ connected' = FALSE /\ repeats' = 0
    /\ UNCHANGED server

-----------------------------------------------------------------------------
(* Properties. *)

\* What the screen was told is what the server will hold once it has carried
\* out the writes still kept: nothing is forgotten by an acknowledgement that
\* comes early, by a lost connection or by a write sent twice.
ServerCatchesUp == loaded => Overlay(server, puts) = View

\* With one device writing, nothing that arrives from the server (echoes of
\* its own writes, acknowledgements, the answer to a repeated listen) changes
\* what the screen was told: only a write, the first load or a restart does.
NoFlicker ==
    [][loaded /\ loaded' /\ View' # View => Len(puts') > Len(puts)]_dbVars

\* What the screen was told reaches the server, through lost connections and
\* repeated writes, unless it is overwritten (or the app killed) meanwhile.
EventuallyStored ==
    \A k \in Keys, v \in Values :
        (View[k] = v) ~> (server[k] = v \/ View[k] # v)
=============================================================================
