--------------------------- MODULE DatabaseProofs ---------------------------
(***************************************************************************)
(* The client's side of the Realtime Database for every set of children    *)
(* and every number of writes kept: what the messages under way and the    *)
(* writes kept say together (Wire), step by step.  The tab's own steps are *)
(* in ContactsProofs, which puts these lemmas together.                    *)
(***************************************************************************)
EXTENDS Database, ListLemmas

-----------------------------------------------------------------------------
(* The view. *)

\* Write i is the last one to child k.
IsLast(ps, k, i) ==
    i \in DOMAIN ps /\ ps[i].key = k /\ \A j \in DOMAIN ps : j > i => ps[j].key # k

LEMMA LastExists ==
    ASSUME NEW S, NEW ps \in Seq(S), NEW k, NEW i \in DOMAIN ps, ps[i].key = k
    PROVE  \E n : IsLast(ps, k, n)
<1> DEFINE T == {j \in DOMAIN ps : ps[j].key = k}
<1>1. Len(ps) \in Nat /\ T \subseteq 1..Len(ps) /\ i \in T OBVIOUS
<1>2. PICK x \in T : \A y \in T : x >= y
  <2> HIDE DEF T
  <2> QED BY <1>1, LastOf
<1>3. \A j \in DOMAIN ps : j > x => j \notin T BY <1>1, <1>2
<1> QED BY <1>2, <1>3 DEF IsLast

LEMMA OverlayLast ==
    ASSUME NEW S, NEW data, NEW ps \in Seq(S), NEW k \in Keys, NEW i, IsLast(ps, k, i)
    PROVE  Overlay(data, ps)[k] = ps[i].value
<1> DEFINE mine == {j \in DOMAIN ps : ps[j].key = k}
<1>1. i \in mine /\ mine \subseteq Nat BY DEF IsLast
<1>2. \A j \in mine : i >= j BY <1>1 DEF IsLast
<1> HIDE DEF mine
<1>3. Max(mine) \in mine /\ \A j \in mine : Max(mine) >= j BY <1>1, <1>2 DEF Max
<1> DEFINE m == Max(mine)
<1>4. m = i
  <2> HIDE DEF m
  <2>1. m \in Nat /\ i \in Nat /\ m >= i /\ i >= m BY <1>1, <1>2, <1>3 DEF m
  <2> QED BY <2>1
<1>5. Overlay(data, ps)[k] = IF mine = {} THEN data[k] ELSE ps[Max(mine)].value
  BY DEF Overlay, mine
<1> QED BY <1>1, <1>4, <1>5

LEMMA OverlayNone ==
    ASSUME NEW data, NEW ps, NEW k \in Keys, \A i \in DOMAIN ps : ps[i].key # k
    PROVE  Overlay(data, ps)[k] = data[k]
BY DEF Overlay

LEMMA OverlayTyped ==
    ASSUME NEW data \in Data, NEW ps \in Seq(Put)
    PROVE  Overlay(data, ps) \in Data
<1>1. ASSUME NEW k \in Keys PROVE Overlay(data, ps)[k] \in Values \cup {Absent}
  <2>1. CASE \A i \in DOMAIN ps : ps[i].key # k BY <2>1, OverlayNone DEF Data
  <2>2. CASE ~\A i \in DOMAIN ps : ps[i].key # k
    <3>1. PICK i : IsLast(ps, k, i) BY <2>2, LastExists
    <3>2. ps[i] \in Put BY <3>1 DEF IsLast
    <3> QED BY <3>1, <3>2, OverlayLast DEF Put
  <2> QED BY <2>1, <2>2
<1>2. Overlay(data, ps) = [k \in Keys |-> Overlay(data, ps)[k]] BY DEF Overlay
<1> DEFINE v == Overlay(data, ps)
<1> HIDE DEF v
<1>3. v \in Data BY <1>1, <1>2 DEF Data, v
<1> QED BY <1>3 DEF v

\* Data that differ under kept writes only look the same.
LEMMA OverlaySame ==
    ASSUME NEW a \in Data, NEW b \in Data, NEW ps \in Seq(Put),
           \A k \in Keys : a[k] # b[k] => \E i \in DOMAIN ps : ps[i].key = k
    PROVE  Overlay(a, ps) = Overlay(b, ps)
<1>1. ASSUME NEW k \in Keys PROVE Overlay(a, ps)[k] = Overlay(b, ps)[k]
  <2>1. CASE \A i \in DOMAIN ps : ps[i].key # k BY <2>1, OverlayNone
  <2>2. CASE ~\A i \in DOMAIN ps : ps[i].key # k
    <3>1. PICK i : IsLast(ps, k, i) BY <2>2, LastExists
    <3> QED BY <3>1, OverlayLast
  <2> QED BY <2>1, <2>2
<1>2. Overlay(a, ps) \in Data /\ Overlay(b, ps) \in Data BY OverlayTyped
<1> DEFINE x == Overlay(a, ps)
           y == Overlay(b, ps)
<1> HIDE DEF x, y
<1>3. x = y BY <1>1, <1>2 DEF Data, x, y
<1> QED BY <1>3 DEF x, y

\* A write more changes its child.
LEMMA OverlayAppend ==
    ASSUME NEW d \in Data, NEW w \in Seq(Put), NEW p \in Put
    PROVE  Overlay(d, Append(w, p)) = [Overlay(d, w) EXCEPT ![p.key] = p.value]
<1> DEFINE v == Append(w, p)
           n == Len(w) + 1
           old == Overlay(d, w)
           new == Overlay(d, v)
<1>1. /\ v \in Seq(Put) /\ Len(v) = n /\ \A i \in 1..Len(w) : v[i] = w[i]
      /\ v[n] = p /\ Len(w) \in Nat
  BY AppendProperties
<1>2. /\ DOMAIN w = 1..Len(w) /\ DOMAIN v = 1..n /\ n \in DOMAIN v
      /\ \A i \in DOMAIN v : i \in DOMAIN w \/ i = n
      /\ \A i \in DOMAIN w : i \in DOMAIN v /\ v[i] = w[i] /\ n > i /\ ~(i > n)
  BY <1>1
<1>3. ~(n > n) /\ p.key \in Keys /\ p.value \in Values \cup {Absent} BY <1>1 DEF Put
<1> HIDE DEF v, n
<1>4. new[p.key] = p.value
  <2>1. IsLast(v, p.key, n) BY <1>1, <1>2, <1>3 DEF IsLast
  <2> QED BY <1>1, <1>3, <2>1, OverlayLast
<1>5. ASSUME NEW k \in Keys, k # p.key PROVE new[k] = old[k]
  <2>1. CASE \A i \in DOMAIN w : w[i].key # k
    <3>1. \A i \in DOMAIN v : v[i].key # k BY <1>1, <1>2, <1>5, <2>1
    <3> QED BY <2>1, <3>1, OverlayNone
  <2>2. CASE ~\A i \in DOMAIN w : w[i].key # k
    <3>1. PICK i : IsLast(w, k, i) BY <2>2, LastExists
    <3>2. IsLast(v, k, i) BY <1>1, <1>2, <1>5, <3>1 DEF IsLast
    <3>3. v[i] = w[i] BY <1>2, <3>1 DEF IsLast
    <3> QED BY <1>1, <3>1, <3>2, <3>3, OverlayLast
  <2> QED BY <2>1, <2>2
<1>6. new \in Data /\ old \in Data BY <1>1, OverlayTyped
<1> HIDE DEF new, old
<1>7. new = [old EXCEPT ![p.key] = p.value] BY <1>3, <1>4, <1>5, <1>6 DEF Data
<1> QED BY <1>7 DEF new, old, v

\* The oldest write can be let go when the data has it, or a later write to its
\* child is kept.
LEMMA OldestGone ==
    ASSUME NEW d \in Data, NEW w \in Seq(Put), w # <<>>, NEW v \in Seq(Put),
           Len(v) = Len(w) - 1, \A i \in 1..Len(v) : v[i] = w[i + 1],
           (\A i \in DOMAIN w : i # 1 => w[i].key # w[1].key) => d[w[1].key] = w[1].value
    PROVE  Overlay(d, v) = Overlay(d, w)
<1> DEFINE P == Len(w)
<1>1. /\ P \in Nat /\ DOMAIN w = 1..P /\ DOMAIN v = 1..(P - 1) /\ 1 \in 1..P
      /\ \A i \in 1..(P - 1) : v[i] = w[i + 1] /\ i + 1 \in 1..P
  BY EmptySeq
<1> HIDE DEF P
<1>2. ASSUME NEW i \in 1..P, i # 1 PROVE \E o \in 1..(P - 1) : i = o + 1 /\ v[o] = w[i]
  <2> DEFINE o == i - 1
  <2>1. o \in 1..(P - 1) /\ o + 1 = i BY <1>1, <1>2
  <2> HIDE DEF o
  <2> QED BY <1>1, <2>1
<1>3. ASSUME NEW k \in Keys PROVE Overlay(d, v)[k] = Overlay(d, w)[k]
  <2>1. CASE \E j \in DOMAIN v : v[j].key = k
    <3>1. PICK j : IsLast(v, k, j) BY <2>1, LastExists
    <3>2. j \in 1..(P - 1) /\ j + 1 \in DOMAIN w /\ v[j] = w[j + 1] /\ v[j].key = k
      BY <1>1, <3>1 DEF IsLast
    <3>3. ASSUME NEW i \in 1..P, i > j + 1 PROVE w[i].key # k
      <4>1. i # 1 BY <1>1, <3>2, <3>3
      <4>2. PICK o \in 1..(P - 1) : i = o + 1 /\ v[o] = w[i] BY <1>2, <4>1
      <4>3. o > j BY <1>1, <3>2, <3>3, <4>2
      <4> QED BY <1>1, <3>1, <4>2, <4>3 DEF IsLast
    <3>4. IsLast(w, k, j + 1) BY <1>1, <3>2, <3>3 DEF IsLast
    <3> QED BY <3>1, <3>2, <3>4, OverlayLast
  <2>2. CASE ~\E j \in DOMAIN v : v[j].key = k
    <3>1. Overlay(d, v)[k] = d[k] BY <2>2, OverlayNone
    <3>2. ASSUME NEW i \in 1..P, i # 1 PROVE w[i].key # k
      <4>1. PICK o \in 1..(P - 1) : i = o + 1 /\ v[o] = w[i] BY <1>2, <3>2
      <4>2. v[o].key # k BY <1>1, <2>2
      <4> QED BY <4>1, <4>2
    <3>3. CASE w[1].key = k
      <4>1. \A i \in 1..P : i > 1 => w[i].key # k BY <1>1, <3>2
      <4>2. IsLast(w, k, 1) BY <1>1, <3>3, <4>1 DEF IsLast
      <4>3. Overlay(d, w)[k] = w[1].value BY <4>2, OverlayLast
      <4> QED BY <1>1, <3>1, <3>2, <3>3, <4>3
    <3>4. CASE w[1].key # k
      <4>1. Overlay(d, w)[k] = d[k] BY <1>1, <3>2, <3>4, OverlayNone
      <4> QED BY <3>1, <4>1
    <3> QED BY <3>3, <3>4
  <2> QED BY <2>1, <2>2
<1>4. Overlay(d, v) \in Data /\ Overlay(d, w) \in Data BY OverlayTyped
<1> DEFINE x == Overlay(d, v)
           y == Overlay(d, w)
<1> HIDE DEF x, y
<1>5. x = y BY <1>3, <1>4 DEF Data, x, y
<1> QED BY <1>5 DEF x, y

-----------------------------------------------------------------------------
(* Writes kept and messages under way. *)

\* f tells, for each write carried out in this connection, where its
\* acknowledgement is among the messages under way.
AcksAt(f) ==
    /\ f \in [1..applied -> DOMAIN down]
    /\ \A m, n \in 1..applied : m < n => f[m] < f[n]
    /\ \A i \in DOMAIN down : down[i].type = "ack" <=> \E n \in 1..applied : f[n] = i

\* A changed child is followed by the acknowledgement of the write it echoes.
EchoesAt(f) ==
    \A i \in DOMAIN down : down[i].type = "child" =>
        \E n \in 1..applied : f[n] = i + 1 /\ puts[n].key = down[i].key

Touches(m, k) == m.type = "all" \/ (m.type = "child" /\ m.key = k)
Carried(m, k) == IF m.type = "all" THEN m.data[k] ELSE m.value

Linked == \E f : AcksAt(f) /\ EchoesAt(f)
Idle == connected \/ (down = <<>> /\ applied = 0)
AllIsFirst == \A i \in DOMAIN down : down[i].type = "all" => i = 1
\* What the client does not know yet is under way.
NewsPending ==
    connected => \A k \in Keys : cache[k] # server[k] =>
                    \E i \in DOMAIN down : Touches(down[i], k)
\* The last message about a child is up to date.
NewsCorrect ==
    \A k \in Keys, i \in DOMAIN down :
        /\ Touches(down[i], k)
        /\ \A j \in DOMAIN down : j > i => ~Touches(down[j], k)
        => Carried(down[i], k) = server[k]
\* Client and server differ in children with a kept write only.
DifferenceKept ==
    loaded => \A k \in Keys : cache[k] # server[k] => \E i \in DOMAIN puts : puts[i].key = k
\* Of the writes carried out the last one to a child counts.
LastWriteCounts ==
    \A k \in Keys, i \in 1..applied :
        /\ puts[i].key = k
        /\ \A j \in 1..applied : j > i => puts[j].key # k
        => server[k] = puts[i].value

Wire ==
    /\ Linked /\ Idle /\ AllIsFirst
    /\ NewsPending /\ NewsCorrect /\ DifferenceKept /\ LastWriteCounts

DatabaseInv == DatabaseTypeOK /\ Wire

LEMMA MessageTyped ==
    ASSUME NEW m \in Message
    PROVE  /\ m.type \in {"all", "child", "ack"}
           /\ m.type = "all" => m.data \in Data
           /\ m.type = "child" => m.key \in Keys /\ m.value \in Values \cup {Absent}
BY DEF Message

LEMMA NothingTyped == Nothing \in Data
BY DEF Nothing, Data

\* A change of the view raises one event for each child that appears or goes.
LEMMA ChildEventsList ==
    ASSUME NEW old \in Data, NEW new \in Data
    PROVE  LET q == ChildEvents(old, new)
           IN  /\ q \in Seq(Event)
               /\ \A i \in DOMAIN q :
                     /\ q[i].key \in Keys
                     /\ q[i].kind = IF old[q[i].key] # Absent THEN "removed" ELSE "added"
               /\ \A i, j \in DOMAIN q : q[i].key = q[j].key => i = j
               /\ \A k \in Keys : (old[k] # Absent) = (new[k] # Absent) <=>
                     \A i \in DOMAIN q : q[i].key # k
<1> DEFINE gone == {k \in Keys : old[k] # Absent /\ new[k] = Absent}
           come == {k \in Keys : old[k] = Absent /\ new[k] # Absent}
           g == SetToSeq(gone)
           c == SetToSeq(come)
           m == Cardinality(gone)
           n == Cardinality(come)
           eg(i) == [kind |-> "removed", key |-> g[i]]
           ec(i) == [kind |-> "added", key |-> c[i], value |-> new[c[i]]]
           r == [i \in 1..m |-> eg(i)]
           s == [i \in 1..n |-> ec(i)]
<1>1. ChildEvents(old, new) = r \o s BY DEF ChildEvents
<1>2. IsFiniteSet(gone) /\ IsFiniteSet(come) BY KeysAssumption, FS_Subset
<1>3. /\ m \in Nat /\ g \in [1..m -> gone]
      /\ \A i, j \in 1..m : g[i] = g[j] => i = j
      /\ \A k \in gone : \E i \in 1..m : g[i] = k
  BY <1>2, SetToSeqLists
<1>4. /\ n \in Nat /\ c \in [1..n -> come]
      /\ \A i, j \in 1..n : c[i] = c[j] => i = j
      /\ \A k \in come : \E i \in 1..n : c[i] = k
  BY <1>2, SetToSeqLists
<1>5. \A k \in gone : k \in Keys /\ old[k] # Absent /\ new[k] = Absent OBVIOUS
<1>6. \A k \in come : k \in Keys /\ old[k] = Absent /\ new[k] # Absent OBVIOUS
<1>7. \A k \in Keys : k \in gone \/ k \in come <=> (old[k] # Absent) # (new[k] # Absent)
  OBVIOUS
<1> HIDE DEF gone, come, g, c, m, n
<1>8. \A i \in 1..m : eg(i) \in Event BY <1>3, <1>5 DEF Event
<1>9. \A i \in 1..n : ec(i) \in Event
  <2> SUFFICES ASSUME NEW i \in 1..n PROVE ec(i) \in Event OBVIOUS
  <2>1. c[i] \in come BY <1>4
  <2>2. c[i] \in Keys /\ new[c[i]] \in Values BY <1>6, <2>1 DEF Data
  <2> QED BY <2>2 DEF Event
<1> HIDE DEF eg, ec
<1>10. r \in Seq(Event) BY <1>3, <1>8, IsASeq
<1>11. s \in Seq(Event) BY <1>4, <1>9, IsASeq
<1>12. Len(r) = m /\ \A i \in 1..m : r[i] = eg(i) BY <1>3, <1>10
<1>13. Len(s) = n /\ \A i \in 1..n : s[i] = ec(i) BY <1>4, <1>11
<1> HIDE DEF r, s
<1> DEFINE q == r \o s
<1>14. /\ q \in Seq(Event) /\ Len(q) = m + n
       /\ \A i \in 1..(m + n) : q[i] = IF i <= m THEN r[i] ELSE s[i - m]
  BY <1>10, <1>11, <1>12, <1>13, ConcatProperties
<1> HIDE DEF q
<1>15. DOMAIN q = 1..(m + n) BY <1>14
<1>16. ASSUME NEW i \in 1..(m + n)
       PROVE  \/ i \in 1..m /\ q[i] = eg(i)
              \/ i - m \in 1..n /\ q[i] = ec(i - m)
  <2>1. CASE i <= m
    <3>1. i \in 1..m BY <1>3, <2>1
    <3> QED BY <1>12, <1>14, <2>1, <3>1
  <2>2. CASE ~(i <= m)
    <3>1. i - m \in 1..n BY <1>3, <1>4, <2>2
    <3> QED BY <1>13, <1>14, <2>2, <3>1
  <2> QED BY <2>1, <2>2
<1>17. /\ \A i \in 1..m : eg(i).kind = "removed" /\ eg(i).key = g[i]
       /\ \A i \in 1..n : ec(i).kind = "added" /\ ec(i).key = c[i]
  BY DEF eg, ec
<1>18. ASSUME NEW i \in DOMAIN q
       PROVE  \/ i \in 1..m /\ q[i].key = g[i] /\ q[i].kind = "removed" /\ g[i] \in gone
              \/ /\ i - m \in 1..n /\ q[i].key = c[i - m] /\ q[i].kind = "added"
                 /\ c[i - m] \in come
  BY <1>3, <1>4, <1>15, <1>16, <1>17
<1>19. ASSUME NEW i \in DOMAIN q
       PROVE  /\ q[i].key \in Keys
              /\ q[i].kind = IF old[q[i].key] # Absent THEN "removed" ELSE "added"
  BY <1>5, <1>6, <1>18
<1>20. ASSUME NEW i \in DOMAIN q, NEW j \in DOMAIN q, q[i].key = q[j].key PROVE i = j
  <2>1. CASE i \in 1..m /\ q[i].key = g[i] /\ g[i] \in gone
    <3>1. j \in 1..m /\ q[j].key = g[j] BY <1>5, <1>6, <1>18, <1>20, <2>1
    <3> QED BY <1>3, <1>20, <2>1, <3>1
  <2>2. CASE i - m \in 1..n /\ q[i].key = c[i - m] /\ c[i - m] \in come
    <3>1. j - m \in 1..n /\ q[j].key = c[j - m] BY <1>5, <1>6, <1>18, <1>20, <2>2
    <3>2. i - m = j - m BY <1>4, <1>20, <2>2, <3>1
    <3> QED BY <1>3, <1>15, <3>2
  <2> QED BY <1>18, <2>1, <2>2
<1>21. ASSUME NEW k \in Keys
       PROVE  (old[k] # Absent) = (new[k] # Absent) <=> \A i \in DOMAIN q : q[i].key # k
  <2>1. ASSUME k \in gone PROVE \E i \in DOMAIN q : q[i].key = k
    <3>1. PICK i \in 1..m : g[i] = k BY <1>3, <2>1
    <3>2. i \in DOMAIN q /\ i <= m BY <1>3, <1>4, <1>15
    <3> QED BY <1>12, <1>14, <1>15, <1>17, <3>1, <3>2
  <2>2. ASSUME k \in come PROVE \E i \in DOMAIN q : q[i].key = k
    <3>1. PICK i \in 1..n : c[i] = k BY <1>4, <2>2
    <3>2. i + m \in DOMAIN q /\ ~(i + m <= m) /\ (i + m) - m = i BY <1>3, <1>4, <1>15
    <3> QED BY <1>13, <1>14, <1>15, <1>17, <3>1, <3>2
  <2>3. ASSUME NEW i \in DOMAIN q, q[i].key = k PROVE k \in gone \/ k \in come
    BY <1>18, <2>3
  <2> QED BY <1>7, <2>1, <2>2, <2>3
<1> QED BY <1>1, <1>14, <1>19, <1>20, <1>21 DEF q


LEMMA EmptyTyped ==
    /\ <<>> \in Seq(Put) /\ <<>> \in Seq(Message) /\ <<>> \in Seq(Event)
    /\ 0 \in 0..Len(<<>>)
OBVIOUS

LEMMA RaiseTyped ==
    ASSUME NEW q \in Seq(Event), NEW old \in Data, NEW new \in Data
    PROVE  q \o ChildEvents(old, new) \in Seq(Event)
BY ChildEventsList, ConcatProperties

LEMMA ViewTyped == DatabaseTypeOK => View \in Data
BY OverlayTyped DEF DatabaseTypeOK, View

-----------------------------------------------------------------------------
(* One lemma for each action. *)

LEMMA DatabaseStart == DatabaseInit => DatabaseInv /\ View = Nothing
<1> SUFFICES ASSUME DatabaseInit PROVE DatabaseInv /\ View = Nothing OBVIOUS
<1>0. 0 \in 0..MaxDrops BY BoundsAssumption
<1>1. DatabaseTypeOK
  BY NothingTyped, EmptyTyped, <1>0 DEF DatabaseInit, DatabaseTypeOK
<1>2. AcksAt([n \in 1..0 |-> 1]) /\ EchoesAt([n \in 1..0 |-> 1])
  BY DEF AcksAt, EchoesAt, DatabaseInit
<1>3. Wire
  BY <1>2 DEF Wire, Linked, Idle, AllIsFirst, NewsPending, NewsCorrect, DifferenceKept,
              LastWriteCounts, DatabaseInit
<1>4. View = Nothing BY DEF DatabaseInit, View, Overlay, Nothing
<1> QED BY <1>1, <1>3, <1>4 DEF DatabaseInv

LEMMA WireUnchanged ==
    ASSUME Wire, UNCHANGED <<server, cache, loaded, puts, applied, down, connected>>
    PROVE  Wire' /\ View' = View
<1>1. Linked'
  <2>1. PICK f : AcksAt(f) /\ EchoesAt(f) BY DEF Wire, Linked
  <2>2. AcksAt(f)' /\ EchoesAt(f)' BY <2>1 DEF AcksAt, EchoesAt
  <2> QED BY <2>2 DEF Linked
<1>2. Wire'
  BY <1>1 DEF Wire, Idle, AllIsFirst, NewsPending, NewsCorrect, DifferenceKept,
              LastWriteCounts
<1> QED BY <1>2 DEF View

LEMMA CallStep ==
    ASSUME DatabaseInv, NEW ps \in Seq(Put), Call(ps)
    PROVE  DatabaseInv' /\ View' = View /\ UNCHANGED queue
<1> USE DEF DatabaseInv
<1>1. calls' \in Seq(Put) BY ConcatProperties DEF Call, DatabaseTypeOK
<1>2. UNCHANGED <<server, cache, loaded, puts, applied, down, queue, connected, repeats, drops>>
  BY DEF Call
<1>3. DatabaseTypeOK' BY <1>1, <1>2 DEF DatabaseTypeOK
<1>4. Wire' /\ View' = View BY <1>2, WireUnchanged
<1> QED BY <1>2, <1>3, <1>4

LEMMA RunCallStep == ASSUME DatabaseInv, RunCall PROVE DatabaseInv'
<1> USE DEF DatabaseInv
<1>1. /\ calls \in Seq(Put) /\ calls # <<>> /\ calls' = Tail(calls)
      /\ puts' = Append(puts, Head(calls)) /\ queue' = queue \o ChildEvents(View, View')
      /\ UNCHANGED <<server, cache, loaded, applied, down, connected, repeats, drops>>
  BY DEF RunCall, DatabaseTypeOK
<1>2. Head(calls) \in Put /\ calls' \in Seq(Put) BY <1>1, HeadTailProperties
<1>3. /\ puts \in Seq(Put) /\ Len(puts) \in Nat /\ puts' \in Seq(Put)
      /\ Len(puts') = Len(puts) + 1 /\ \A i \in 1..Len(puts) : puts'[i] = puts[i]
  BY <1>1, <1>2, AppendProperties DEF DatabaseTypeOK
<1>4. applied \in 0..Len(puts) /\ repeats \in 0..Len(puts) BY DEF DatabaseTypeOK
<1>5. View \in Data BY ViewTyped
<1>6. View' \in Data BY <1>1, <1>3, OverlayTyped DEF View, DatabaseTypeOK
<1>7. queue' \in Seq(Event) BY <1>1, <1>5, <1>6, RaiseTyped DEF DatabaseTypeOK
<1>8. applied' \in 0..Len(puts') /\ repeats' \in 0..Len(puts') BY <1>1, <1>3, <1>4
<1>9. DatabaseTypeOK' BY <1>1, <1>2, <1>3, <1>7, <1>8 DEF DatabaseTypeOK
<1>10. \A i \in 1..applied : i \in DOMAIN puts /\ puts'[i] = puts[i] BY <1>3, <1>4
<1>11. Linked'
  <2>1. PICK f : AcksAt(f) /\ EchoesAt(f) BY DEF Wire, Linked
  <2>2. AcksAt(f)' /\ EchoesAt(f)' BY <1>1, <1>10, <2>1 DEF AcksAt, EchoesAt
  <2> QED BY <2>2 DEF Linked
<1>12. Idle' /\ AllIsFirst' /\ NewsPending' /\ NewsCorrect'
  BY <1>1 DEF Wire, Idle, AllIsFirst, NewsPending, NewsCorrect
<1>13. DifferenceKept'
  <2>1. \A i \in DOMAIN puts : i \in DOMAIN puts' /\ puts'[i] = puts[i] BY <1>3
  <2> QED BY <1>1, <2>1 DEF Wire, DifferenceKept
<1>14. LastWriteCounts' BY <1>1, <1>10 DEF Wire, LastWriteCounts
<1> QED BY <1>9, <1>11, <1>12, <1>13, <1>14 DEF Wire

LEMMA ConnectStep ==
    ASSUME DatabaseInv, Connect
    PROVE  DatabaseInv' /\ View' = View /\ UNCHANGED queue
<1> USE DEF DatabaseInv
<1> DEFINE m == [type |-> "all", data |-> server]
<1>1. /\ ~connected /\ connected' = TRUE /\ down' = <<m>>
      /\ UNCHANGED <<server, cache, loaded, calls, puts, applied, queue, repeats, drops>>
  BY DEF Connect
<1>2. applied = 0 BY <1>1 DEF Wire, Idle
<1>3. m \in Message /\ m.type = "all" /\ m.data = server BY DEF DatabaseTypeOK, Message
<1> HIDE DEF m
<1>4. down' \in Seq(Message) /\ DOMAIN down' = {1} /\ down'[1] = m BY <1>1, <1>3
<1>5. DatabaseTypeOK' BY <1>1, <1>4 DEF DatabaseTypeOK
<1>6. AcksAt([n \in 1..0 |-> 1])' /\ EchoesAt([n \in 1..0 |-> 1])'
  BY <1>1, <1>2, <1>3, <1>4 DEF AcksAt, EchoesAt
<1>7. Linked' BY <1>6 DEF Linked
<1>8. Idle' /\ AllIsFirst' BY <1>1, <1>4 DEF Idle, AllIsFirst
<1>9. NewsPending' BY <1>1, <1>3, <1>4 DEF NewsPending, Touches
<1>10. NewsCorrect' BY <1>1, <1>3, <1>4 DEF NewsCorrect, Carried
<1>11. DifferenceKept' /\ LastWriteCounts'
  BY <1>1 DEF Wire, DifferenceKept, LastWriteCounts
<1> QED BY <1>1, <1>5, <1>7, <1>8, <1>9, <1>10, <1>11 DEF Wire, View

LEMMA MaxOfTwo ==
    ASSUME NEW a \in Nat, NEW b \in Int
    PROVE  Max({a, b}) = IF a >= b THEN a ELSE b
<1>1. \E x \in {a, b} : \A y \in {a, b} : x >= y OBVIOUS
<1> DEFINE m == Max({a, b})
<1>2. m \in {a, b} /\ \A y \in {a, b} : m >= y BY <1>1 DEF Max
<1> HIDE DEF m
<1>3. m = IF a >= b THEN a ELSE b BY <1>2
<1> QED BY <1>3 DEF m

LEMMA DisconnectStep ==
    ASSUME DatabaseInv, Disconnect
    PROVE  DatabaseInv' /\ View' = View /\ UNCHANGED queue
<1> USE DEF DatabaseInv
<1>1. /\ connected' = FALSE /\ drops' = drops + 1 /\ drops < MaxDrops
      /\ down' = <<>> /\ applied' = 0 /\ repeats' = Max({repeats, applied})
      /\ UNCHANGED <<server, cache, loaded, calls, puts, queue>>
  BY DEF Disconnect
<1>2. /\ repeats \in 0..Len(puts) /\ applied \in 0..Len(puts) /\ Len(puts) \in Nat
      /\ drops \in 0..MaxDrops /\ MaxDrops \in Nat
  BY BoundsAssumption DEF DatabaseTypeOK
<1>3. repeats' \in 0..Len(puts') BY <1>1, <1>2, MaxOfTwo
<1>4. applied' \in 0..Len(puts') /\ drops' \in 0..MaxDrops BY <1>1, <1>2
<1>5. DatabaseTypeOK' BY <1>1, <1>3, <1>4, EmptyTyped DEF DatabaseTypeOK
<1>6. AcksAt([n \in 1..0 |-> 1])' /\ EchoesAt([n \in 1..0 |-> 1])'
  BY <1>1 DEF AcksAt, EchoesAt
<1>7. Wire'
  BY <1>1, <1>6 DEF Wire, Linked, Idle, AllIsFirst, NewsPending, NewsCorrect, DifferenceKept,
                    LastWriteCounts
<1> QED BY <1>1, <1>5, <1>7 DEF View

LEMMA ForgetAllStep ==
    ASSUME DatabaseInv, ForgetAll, drops' \in 0..MaxDrops
    PROVE  DatabaseInv' /\ View' = Nothing /\ queue' = <<>>
<1> USE DEF DatabaseInv
<1>1. /\ cache' = Nothing /\ loaded' = FALSE
      /\ calls' = <<>> /\ puts' = <<>> /\ applied' = 0 /\ down' = <<>> /\ queue' = <<>>
      /\ connected' = FALSE /\ repeats' = 0
      /\ drops' \in 0..MaxDrops /\ server' = server
  BY DEF ForgetAll
<1>3. DatabaseTypeOK' BY <1>1, NothingTyped, EmptyTyped DEF DatabaseTypeOK
<1>4. AcksAt([n \in 1..0 |-> 1])' /\ EchoesAt([n \in 1..0 |-> 1])'
  BY <1>1 DEF AcksAt, EchoesAt
<1>5. Wire'
  BY <1>1, <1>4 DEF Wire, Linked, Idle, AllIsFirst, NewsPending, NewsCorrect, DifferenceKept,
                    LastWriteCounts
<1>6. View' = Nothing BY <1>1 DEF View, Overlay, Nothing
<1> QED BY <1>1, <1>3, <1>5, <1>6


LEMMA ExceptData ==
    ASSUME NEW d \in Data, NEW k \in Keys, NEW v \in Values \cup {Absent}
    PROVE  /\ [d EXCEPT ![k] = v] \in Data
           /\ [d EXCEPT ![k] = v][k] = v
           /\ \A j \in Keys : j # k => [d EXCEPT ![k] = v][j] = d[j]
           /\ d[k] = v => [d EXCEPT ![k] = v] = d
BY DEF Data

LEMMA ServerAppliesStep ==
    ASSUME DatabaseInv, ServerApplies
    PROVE  DatabaseInv' /\ View' = View /\ UNCHANGED queue
<1> USE DEF DatabaseInv
<1> DEFINE a == applied
           L == Len(down)
           p == puts[a + 1]
           c == IF server[p.key] = p.value THEN 0 ELSE 1
           child == [type |-> "child", key |-> p.key, value |-> p.value]
           ack == [type |-> "ack"]
<1>1. /\ connected /\ applied < Len(puts) /\ applied' = a + 1
      /\ server' = [server EXCEPT ![p.key] = p.value]
      /\ down' = down \o (IF server[p.key] = p.value THEN <<>> ELSE <<child>>) \o <<ack>>
      /\ UNCHANGED <<cache, loaded, calls, puts, queue, connected, repeats, drops>>
  BY DEF ServerApplies
<1>2. /\ a \in Nat /\ L \in Nat /\ a + 1 \in 1..Len(puts) /\ Len(puts) \in Nat
      /\ DOMAIN puts = 1..Len(puts) /\ DOMAIN down = 1..L
      /\ server \in Data /\ down \in Seq(Message)
  BY <1>1 DEF DatabaseTypeOK
<1>3. p \in Put /\ p.key \in Keys /\ p.value \in Values \cup {Absent}
  <2> DEFINE n == a + 1
  <2>1. n \in 1..Len(puts) /\ puts \in Seq(Put) BY <1>2 DEF DatabaseTypeOK
  <2> HIDE DEF n
  <2>2. puts[n] \in Put BY <2>1
  <2>3. p \in Put BY <2>2 DEF n
  <2> HIDE DEF p
  <2> QED BY <2>3 DEF Put
<1>4. child \in Message /\ child.type = "child" /\ child.key = p.key /\ child.value = p.value
  BY <1>3 DEF Message
<1>5. ack \in Message /\ ack.type = "ack" BY DEF Message
<1>6. /\ server' \in Data /\ server'[p.key] = p.value
      /\ \A k \in Keys : k # p.key => server'[k] = server[k]
      /\ c = 0 => server' = server
  <2>1. c = 0 => server[p.key] = p.value OBVIOUS
  <2>2. /\ [server EXCEPT ![p.key] = p.value] \in Data
        /\ [server EXCEPT ![p.key] = p.value][p.key] = p.value
        /\ \A j \in Keys : j # p.key => [server EXCEPT ![p.key] = p.value][j] = server[j]
        /\ server[p.key] = p.value => [server EXCEPT ![p.key] = p.value] = server
    <3> HIDE DEF p
    <3> QED BY <1>2, <1>3, ExceptData
  <2> HIDE DEF p, c
  <2> QED BY <1>1, <2>1, <2>2
<1>7. c \in {0, 1} OBVIOUS
<1>8. /\ down' \in Seq(Message) /\ DOMAIN down' = 1..(L + c + 1)
      /\ \A i \in 1..L : down'[i] = down[i]
      /\ c = 1 => down'[L + 1] = child
      /\ down'[L + c + 1] = ack
  <2>1. CASE server[p.key] = p.value
    <3>1. c = 0 /\ down' = (down \o <<>>) \o <<ack>> BY <1>1, <2>1
    <3> HIDE DEF a, p, child, ack, c, L
    <3>2. down' = Append(down, ack) BY <1>2, <1>5, <3>1, ConcatEmptySeq, AppendIsConcat
    <3>3. /\ down' \in Seq(Message) /\ Len(down') = L + 1
          /\ \A i \in 1..L : down'[i] = down[i]
          /\ down'[L + 1] = ack
      BY <1>2, <1>5, <3>2, AppendProperties DEF L
    <3> QED BY <1>2, <3>1, <3>3
  <2>2. CASE server[p.key] # p.value
    <3>1. c = 1 /\ down' = (down \o <<child>>) \o <<ack>> BY <1>1, <2>2
    <3> HIDE DEF a, p, child, ack, c, L
    <3> DEFINE d == Append(down, child)
    <3>2. /\ d \in Seq(Message) /\ Len(d) = L + 1
          /\ \A i \in 1..L : d[i] = down[i]
          /\ d[L + 1] = child
          /\ d = down \o <<child>>
      BY <1>2, <1>4, AppendProperties, AppendIsConcat DEF L
    <3> HIDE DEF d
    <3>3. down' = Append(d, ack) BY <1>5, <3>1, <3>2, AppendIsConcat
    <3>4. /\ down' \in Seq(Message) /\ Len(down') = Len(d) + 1
          /\ \A i \in 1..Len(d) : down'[i] = d[i]
          /\ down'[Len(d) + 1] = ack
      BY <1>5, <3>2, <3>3, AppendProperties
    <3> QED BY <1>2, <3>1, <3>2, <3>4
  <2> QED BY <2>1, <2>2
<1> HIDE DEF a, p, c, child, ack, L
<1>9. DatabaseTypeOK'
  <2>1. applied' \in 0..Len(puts') BY <1>1, <1>2
  <2> QED BY <1>1, <1>6, <1>8, <2>1 DEF DatabaseTypeOK
<1>10. \A i \in DOMAIN down' : i \in 1..L \/ (c = 1 /\ i = L + 1) \/ i = L + c + 1
  BY <1>2, <1>7, <1>8
<1>11. \A i \in 1..L : i \in DOMAIN down' BY <1>2, <1>7, <1>8
<1>12. L + 1 > L /\ L + c + 1 > L BY <1>2, <1>7
<1>13. applied = a BY DEF a
<1>14. Linked'
  <2>1. PICK f : AcksAt(f) /\ EchoesAt(f) BY DEF Wire, Linked
  <2>2. /\ f \in [1..a -> 1..L] /\ \A m, n \in 1..a : m < n => f[m] < f[n]
        /\ \A i \in 1..L : down[i].type = "ack" <=> \E n \in 1..a : f[n] = i
        /\ \A i \in 1..L : down[i].type = "child" =>
              \E n \in 1..a : f[n] = i + 1 /\ puts[n].key = down[i].key
    BY <1>2, <1>13, <2>1 DEF AcksAt, EchoesAt
  <2>10. PICK g : g = [n \in 1..(a + 1) |-> IF n = a + 1 THEN L + c + 1 ELSE f[n]]
    OBVIOUS
  <2>3. /\ \A n \in 1..a : n \in 1..(a + 1) /\ g[n] = f[n] /\ f[n] \in 1..L
        /\ a + 1 \in 1..(a + 1) /\ g[a + 1] = L + c + 1
        /\ \A n \in 1..(a + 1) : n \in 1..a \/ n = a + 1
    BY <1>2, <2>2, <2>10
  <2>4. g \in [1..(a + 1) -> 1..(L + c + 1)] BY <1>2, <1>7, <2>2, <2>10
  <2>5. \A m, n \in 1..(a + 1) : m < n => g[m] < g[n]
    <3> SUFFICES ASSUME NEW m \in 1..(a + 1), NEW n \in 1..(a + 1), m < n PROVE g[m] < g[n]
      OBVIOUS
    <3>1. m \in 1..a BY <1>2
    <3>2. CASE n \in 1..a BY <2>2, <2>3, <3>1, <3>2
    <3>3. CASE n = a + 1 BY <1>2, <1>7, <2>3, <3>1, <3>3
    <3> QED BY <2>3, <3>2, <3>3
  <2>6. ASSUME NEW i \in DOMAIN down'
        PROVE  down'[i].type = "ack" <=> \E n \in 1..(a + 1) : g[n] = i
    <3>1. CASE i \in 1..L
      <4>1. g[a + 1] # i BY <1>2, <1>7, <2>3, <3>1
      <4> QED BY <1>8, <2>2, <2>3, <3>1, <4>1
    <3>2. CASE c = 1 /\ i = L + 1
      <4>1. \A n \in 1..a : g[n] # i BY <1>2, <2>3, <3>2
      <4>2. g[a + 1] # i BY <1>2, <2>3, <3>2
      <4> QED BY <1>4, <1>8, <2>3, <3>2, <4>1, <4>2
    <3>3. CASE i = L + c + 1 BY <1>5, <1>8, <2>3, <3>3
    <3> QED BY <1>10, <3>1, <3>2, <3>3
  <2>7. ASSUME NEW i \in DOMAIN down', down'[i].type = "child"
        PROVE  \E n \in 1..(a + 1) : g[n] = i + 1 /\ puts[n].key = down'[i].key
    <3>1. CASE i \in 1..L BY <1>8, <2>2, <2>3, <2>7, <3>1
    <3>2. CASE c = 1 /\ i = L + 1
      <4>1. puts[a + 1].key = down'[i].key BY <1>4, <1>8, <3>2 DEF p
      <4>2. L + c + 1 = i + 1 BY <1>2, <3>2
      <4> QED BY <2>3, <4>1, <4>2
    <3>3. CASE i = L + c + 1 BY <1>5, <1>8, <2>7, <3>3
    <3> QED BY <1>10, <3>1, <3>2, <3>3
  <2>8. AcksAt(g)' BY <1>1, <1>8, <2>4, <2>5, <2>6 DEF AcksAt
  <2>9. EchoesAt(g)' BY <1>1, <2>7 DEF EchoesAt
  <2> QED BY <2>8, <2>9 DEF Linked
<1>15. Idle' BY <1>1 DEF Idle
<1>16. AllIsFirst'
  BY <1>2, <1>4, <1>5, <1>8, <1>10 DEF Wire, AllIsFirst
<1>17. ASSUME NEW k \in Keys, server'[k] # server[k]
       PROVE  k = p.key /\ c = 1 /\ L + 1 \in DOMAIN down' /\ Touches(down'[L + 1], k)
  <2>1. k = p.key /\ c = 1 BY <1>6, <1>7, <1>17
  <2> QED BY <1>2, <1>4, <1>8, <2>1 DEF Touches
<1>18. NewsPending'
  <2> SUFFICES ASSUME NEW k \in Keys, cache[k] # server'[k]
               PROVE  \E i \in DOMAIN down' : Touches(down'[i], k)
    BY <1>1 DEF NewsPending
  <2>1. CASE server'[k] # server[k] BY <1>17, <2>1
  <2>2. CASE server'[k] = server[k]
    <3>1. PICK i \in DOMAIN down : Touches(down[i], k)
      BY <1>1, <2>2 DEF Wire, NewsPending
    <3> QED BY <1>2, <1>8, <1>11, <3>1
  <2> QED BY <2>1, <2>2
<1>19. NewsCorrect'
  <2> SUFFICES ASSUME NEW k \in Keys, NEW i \in DOMAIN down', Touches(down'[i], k),
                      \A j \in DOMAIN down' : j > i => ~Touches(down'[j], k)
               PROVE  Carried(down'[i], k) = server'[k]
    BY DEF NewsCorrect
  <2>1. CASE i \in 1..L
    <3>1. Touches(down[i], k) /\ \A j \in DOMAIN down : j > i => ~Touches(down[j], k)
      BY <1>2, <1>8, <1>11, <2>1
    <3>2. Carried(down[i], k) = server[k]
      BY <1>2, <2>1, <3>1 DEF Wire, NewsCorrect
    <3>3. L + 1 > i BY <1>2, <2>1
    <3>4. server'[k] = server[k] BY <1>17, <3>3
    <3> QED BY <1>8, <2>1, <3>2, <3>4
  <2>2. CASE c = 1 /\ i = L + 1
    <3>1. down'[i] = child /\ k = p.key BY <1>4, <1>8, <2>2 DEF Touches
    <3> QED BY <1>4, <1>6, <3>1 DEF Carried
  <2>3. CASE i = L + c + 1 BY <1>5, <1>8, <2>3 DEF Touches
  <2> QED BY <1>10, <2>1, <2>2, <2>3
<1>20. DifferenceKept'
  <2> SUFFICES ASSUME loaded, NEW k \in Keys, cache[k] # server'[k]
               PROVE  \E i \in DOMAIN puts : puts[i].key = k
    BY <1>1 DEF DifferenceKept
  <2>1. CASE server'[k] # server[k] BY <1>2, <1>17, <2>1 DEF p
  <2>2. CASE server'[k] = server[k] BY <2>2 DEF Wire, DifferenceKept
  <2> QED BY <2>1, <2>2
<1>21. LastWriteCounts'
  <2> SUFFICES ASSUME NEW k \in Keys, NEW i \in 1..(a + 1), puts[i].key = k,
                      \A j \in 1..(a + 1) : j > i => puts[j].key # k
               PROVE  server'[k] = puts[i].value
    BY <1>1 DEF LastWriteCounts
  <2>1. CASE i = a + 1 BY <1>6, <2>1 DEF p
  <2>2. CASE i # a + 1
    <3>1. i \in 1..a /\ a + 1 > i /\ a + 1 \in 1..(a + 1) BY <1>2, <2>2
    <3>2. \A j \in 1..a : j \in 1..(a + 1) BY <1>2
    <3>3. k # p.key BY <3>1 DEF p
    <3>4. server[k] = puts[i].value
      BY <1>13, <3>1, <3>2 DEF Wire, LastWriteCounts
    <3> QED BY <1>6, <3>3, <3>4
  <2> QED BY <2>1, <2>2
<1>22. Wire' BY <1>14, <1>15, <1>16, <1>18, <1>19, <1>20, <1>21 DEF Wire
<1> QED BY <1>1, <1>9, <1>22 DEF View


\* What a message about data does to a child of the cache.
LEMMA DeliverCache ==
    ASSUME DatabaseTypeOK, Deliver
    PROVE  /\ Head(down).type # "ack" =>
                 /\ cache' \in Data
                 /\ \A k \in Keys : cache'[k] = IF Touches(Head(down), k)
                                               THEN Carried(Head(down), k) ELSE cache[k]
           /\ Head(down).type = "ack" => cache' = cache
<1> DEFINE m == Head(down)
<1>1. m \in Message BY HeadTailProperties DEF Deliver, DatabaseTypeOK
<1>2. cache' = CASE m.type = "all"   -> m.data
                 [] m.type = "child" -> [cache EXCEPT ![m.key] = m.value]
                 [] m.type = "ack"   -> cache
  BY DEF Deliver
<1>3. cache \in Data BY DEF DatabaseTypeOK
<1> HIDE DEF m
<1>4. CASE m.type = "all" BY <1>1, <1>2, <1>4, MessageTyped DEF Touches, Carried, m
<1>5. CASE m.type = "child"
  <2>1. /\ [cache EXCEPT ![m.key] = m.value] \in Data
        /\ [cache EXCEPT ![m.key] = m.value][m.key] = m.value
        /\ \A j \in Keys : j # m.key => [cache EXCEPT ![m.key] = m.value][j] = cache[j]
    BY <1>1, <1>3, <1>5, MessageTyped, ExceptData
  <2>2. cache' = [cache EXCEPT ![m.key] = m.value] BY <1>2, <1>5
  <2> QED BY <1>5, <2>1, <2>2 DEF Touches, Carried, m
<1>6. CASE m.type = "ack" BY <1>2, <1>6 DEF m
<1> QED BY <1>1, <1>4, <1>5, <1>6, MessageTyped DEF m

\* Data arrives.
LEMMA DeliverDataStep ==
    ASSUME DatabaseInv, Deliver, Head(down).type # "ack"
    PROVE  DatabaseInv' /\ (loaded => View' = View)
<1> USE DEF DatabaseInv
<1> DEFINE m == Head(down)
           L == Len(down)
<1>1. /\ down # <<>> /\ down' = Tail(down) /\ queue' = queue \o ChildEvents(View, View')
      /\ loaded' = (loaded \/ m.type = "all")
      /\ UNCHANGED <<server, calls, connected, drops, puts, applied, repeats>>
  BY DEF Deliver
<1>2. /\ L \in Nat /\ 1 \in DOMAIN down /\ m = down[1] /\ m \in Message
      /\ down' \in Seq(Message) /\ DOMAIN down' = 1..(L - 1) /\ DOMAIN down = 1..L
      /\ \A i \in 1..(L - 1) : down'[i] = down[i + 1] /\ i + 1 \in 1..L
      /\ \A i \in 1..L : i # 1 => i - 1 \in 1..(L - 1) /\ down'[i - 1] = down[i]
  <2>1. /\ m = down[1] /\ m \in Message /\ down' \in Seq(Message) /\ Len(down') = L - 1
        /\ \A i \in 1..(L - 1) : down'[i] = down[i + 1]
        /\ L \in Nat /\ DOMAIN down = 1..L /\ L # 0
    BY <1>1, HeadTailProperties, EmptySeq DEF DatabaseTypeOK
  <2> HIDE DEF L, m
  <2>2. DOMAIN down' = 1..(L - 1) BY <2>1
  <2>3. ASSUME NEW i \in 1..L, i # 1 PROVE i - 1 \in 1..(L - 1) /\ down'[i - 1] = down[i]
    <3> DEFINE j == i - 1
    <3>1. j \in 1..(L - 1) /\ j + 1 = i BY <2>1, <2>3
    <3> HIDE DEF j
    <3>2. down'[j] = down[j + 1] BY <2>1, <3>1
    <3> QED BY <3>1, <3>2 DEF j
  <2> QED BY <2>1, <2>2, <2>3
<1>3. connected BY <1>1 DEF Wire, Idle
<1>4. /\ cache' \in Data
      /\ \A k \in Keys : cache'[k] = IF Touches(m, k) THEN Carried(m, k) ELSE cache[k]
  BY DeliverCache
<1> HIDE DEF m, L
<1>5. DatabaseTypeOK'
  <2>1. View \in Data BY ViewTyped
  <2>2. View' \in Data BY <1>1, <1>4, OverlayTyped DEF View, DatabaseTypeOK
  <2>3. queue' \in Seq(Event) BY <1>1, <2>1, <2>2, RaiseTyped DEF DatabaseTypeOK
  <2> QED BY <1>1, <1>2, <1>4, <2>3 DEF DatabaseTypeOK
<1>6. PICK f : AcksAt(f) /\ EchoesAt(f) BY DEF Wire, Linked
<1>7. /\ f \in [1..applied -> 1..L] /\ \A j, n \in 1..applied : j < n => f[j] < f[n]
      /\ \A i \in 1..L : down[i].type = "ack" <=> \E n \in 1..applied : f[n] = i
      /\ \A i \in 1..L : down[i].type = "child" =>
            \E n \in 1..applied : f[n] = i + 1 /\ puts[n].key = down[i].key
  BY <1>2, <1>6 DEF AcksAt, EchoesAt
<1>8. \A n \in 1..applied : f[n] \in 1..L /\ f[n] # 1 BY <1>2, <1>7 DEF m
<1>9. PICK g : g = [n \in 1..applied |-> f[n] - 1] OBVIOUS
<1>10. AcksAt(g)'
  <2>1. g \in [1..applied -> 1..(L - 1)] BY <1>2, <1>8, <1>9
  <2>2. \A j, n \in 1..applied : j < n => g[j] < g[n] BY <1>7, <1>8, <1>9
  <2>3. ASSUME NEW i \in 1..(L - 1)
        PROVE  down'[i].type = "ack" <=> \E n \in 1..applied : g[n] = i
    <3>1. \A n \in 1..applied : g[n] = i <=> f[n] = i + 1 BY <1>8, <1>9
    <3> QED BY <1>2, <1>7, <3>1
  <2> QED BY <1>1, <1>2, <2>1, <2>2, <2>3 DEF AcksAt
<1>11. ASSUME NEW i \in 1..(L - 1), down'[i].type = "child"
       PROVE  \E n \in 1..applied : g[n] = i + 1 /\ puts[n].key = down'[i].key
  <2>1. PICK n \in 1..applied : f[n] = (i + 1) + 1 /\ puts[n].key = down[i + 1].key
    BY <1>2, <1>7, <1>11
  <2> QED BY <1>2, <1>9, <2>1
<1>12. EchoesAt(g)' BY <1>1, <1>2, <1>11 DEF EchoesAt
<1>13. Linked' BY <1>10, <1>12 DEF Linked
<1>14. Idle' BY <1>1, <1>3 DEF Idle
<1>15. \A i \in 1..(L - 1) : down'[i].type # "all"
  <2> SUFFICES ASSUME NEW i \in 1..(L - 1) PROVE down[i + 1].type # "all" BY <1>2
  <2>1. i + 1 \in DOMAIN down /\ i + 1 # 1 BY <1>2
  <2> QED BY <2>1 DEF Wire, AllIsFirst
<1>16. AllIsFirst' BY <1>2, <1>15 DEF AllIsFirst
<1>17. ASSUME NEW k \in Keys, cache'[k] # server[k]
       PROVE  \E i \in 1..(L - 1) : Touches(down'[i], k)
  <2>1. PICK i \in DOMAIN down : i # 1 /\ Touches(down[i], k)
    <3>1. CASE Touches(m, k)
      <4>1. Carried(down[1], k) # server[k] BY <1>2, <1>4, <1>17, <3>1
      <4>2. PICK j \in DOMAIN down : j > 1 /\ Touches(down[j], k)
        BY <1>2, <3>1, <4>1 DEF Wire, NewsCorrect
      <4> QED BY <4>2
    <3>2. CASE ~Touches(m, k)
      <4>1. cache[k] # server[k] BY <1>4, <1>17, <3>2
      <4> QED BY <1>2, <1>3, <3>2, <4>1 DEF Wire, NewsPending
    <3> QED BY <3>1, <3>2
  <2> QED BY <1>2, <2>1
<1>18. NewsPending' BY <1>1, <1>2, <1>17 DEF NewsPending
<1>19. NewsCorrect'
  <2> SUFFICES ASSUME NEW k \in Keys, NEW i \in 1..(L - 1), Touches(down'[i], k),
                      \A j \in 1..(L - 1) : j > i => ~Touches(down'[j], k)
               PROVE  Carried(down'[i], k) = server[k]
    BY <1>1, <1>2 DEF NewsCorrect
  <2>1. i + 1 \in DOMAIN down /\ Touches(down[i + 1], k) BY <1>2
  <2>2. \A j \in DOMAIN down : j > i + 1 => ~Touches(down[j], k)
    <3> SUFFICES ASSUME NEW j \in DOMAIN down, j > i + 1 PROVE ~Touches(down[j], k) OBVIOUS
    <3>1. j - 1 \in 1..(L - 1) /\ j - 1 > i /\ down'[j - 1] = down[j] BY <1>2
    <3> QED BY <3>1
  <2>3. Carried(down[i + 1], k) = server[k] BY <2>1, <2>2 DEF Wire, NewsCorrect
  <2> QED BY <1>2, <2>3
<1>20. ASSUME NEW k \in Keys, cache'[k] # server[k]
       PROVE  \E i \in DOMAIN puts : puts[i].key = k
  <2>1. PICK i \in 1..(L - 1) : Touches(down'[i], k) BY <1>17, <1>20
  <2>2. down'[i].type = "child" /\ down'[i].key = k BY <1>15, <2>1 DEF Touches
  <2>3. PICK n \in 1..applied : puts[n].key = k BY <1>11, <2>2
  <2>4. n \in DOMAIN puts BY <2>3 DEF DatabaseTypeOK
  <2> QED BY <2>3, <2>4
<1>21. DifferenceKept' BY <1>1, <1>20 DEF DifferenceKept
<1>22. LastWriteCounts' BY <1>1 DEF Wire, LastWriteCounts
<1>23. ASSUME loaded PROVE View' = View
  <2>1. \A k \in Keys : cache'[k] # cache[k] => \E i \in DOMAIN puts : puts[i].key = k
    BY <1>20, <1>23 DEF Wire, DifferenceKept
  <2>2. Overlay(cache', puts) = Overlay(cache, puts)
    BY <1>4, <2>1, OverlaySame DEF DatabaseTypeOK
  <2> QED BY <1>1, <2>2 DEF View
<1>24. Wire' BY <1>13, <1>14, <1>16, <1>18, <1>19, <1>21, <1>22 DEF Wire
<1> QED BY <1>5, <1>23, <1>24


\* An acknowledgement arrives: the write it lets go is the oldest, and what it
\* wrote is known already, or overlaid by a later write.
LEMMA DeliverAckStep ==
    ASSUME DatabaseInv, Deliver, Head(down).type = "ack"
    PROVE  DatabaseInv' /\ (loaded => View' = View)
<1> USE DEF DatabaseInv
<1> DEFINE L == Len(down)
           P == Len(puts)
<1>1. /\ down # <<>> /\ down' = Tail(down) /\ queue' = queue \o ChildEvents(View, View')
      /\ puts' = Tail(puts) /\ applied' = applied - 1 /\ repeats' = Max({0, repeats - 1})
      /\ loaded' = (loaded \/ FALSE) /\ cache' = cache
      /\ UNCHANGED <<server, calls, connected, drops>>
  BY DeliverCache DEF Deliver
<1>2. /\ L \in Nat /\ 1 \in DOMAIN down /\ down[1].type = "ack"
      /\ down' \in Seq(Message) /\ DOMAIN down' = 1..(L - 1) /\ DOMAIN down = 1..L
      /\ \A i \in 1..(L - 1) : down'[i] = down[i + 1] /\ i + 1 \in 1..L
      /\ \A i \in 1..L : i # 1 => i - 1 \in 1..(L - 1) /\ down'[i - 1] = down[i]
  <2>1. /\ Head(down) = down[1] /\ down' \in Seq(Message) /\ Len(down') = L - 1
        /\ \A i \in 1..(L - 1) : down'[i] = down[i + 1]
        /\ L \in Nat /\ DOMAIN down = 1..L /\ L # 0
    BY <1>1, HeadTailProperties, EmptySeq DEF DatabaseTypeOK
  <2> HIDE DEF L
  <2>2. DOMAIN down' = 1..(L - 1) BY <2>1
  <2>3. ASSUME NEW i \in 1..L, i # 1 PROVE i - 1 \in 1..(L - 1) /\ down'[i - 1] = down[i]
    <3> DEFINE j == i - 1
    <3>1. j \in 1..(L - 1) /\ j + 1 = i BY <2>1, <2>3
    <3> HIDE DEF j
    <3>2. down'[j] = down[j + 1] BY <2>1, <3>1
    <3> QED BY <3>1, <3>2 DEF j
  <2> QED BY <2>1, <2>2, <2>3
<1>3. connected BY <1>1 DEF Wire, Idle
<1>4. PICK f : AcksAt(f) /\ EchoesAt(f) BY DEF Wire, Linked
<1>5. /\ f \in [1..applied -> 1..L] /\ \A j, n \in 1..applied : j < n => f[j] < f[n]
      /\ \A i \in 1..L : down[i].type = "ack" <=> \E n \in 1..applied : f[n] = i
      /\ \A i \in 1..L : down[i].type = "child" =>
            \E n \in 1..applied : f[n] = i + 1 /\ puts[n].key = down[i].key
      /\ applied \in Nat
  <2>1. applied \in Nat BY DEF DatabaseTypeOK
  <2> QED BY <1>2, <1>4, <2>1 DEF AcksAt, EchoesAt
<1>6. 1 \in 1..applied /\ f[1] = 1
  <2>1. PICK n \in 1..applied : f[n] = 1 BY <1>2, <1>5
  <2>2. 1 \in 1..applied /\ f[1] \in 1..L BY <1>5, <2>1
  <2>3. ~(1 < n) BY <1>5, <2>1, <2>2
  <2>4. n = 1 BY <1>5, <2>1, <2>3
  <2> QED BY <2>1, <2>4
<1>7. /\ P \in Nat /\ applied <= P /\ DOMAIN puts = 1..P /\ 1 \in 1..P
      /\ puts' \in Seq(Put) /\ Len(puts') = P - 1 /\ DOMAIN puts' = 1..(P - 1)
      /\ \A i \in 1..(P - 1) : puts'[i] = puts[i + 1]
  <2>1. P \in Nat /\ applied <= P /\ DOMAIN puts = 1..P /\ puts \in Seq(Put) /\ applied \in Nat
    BY DEF DatabaseTypeOK
  <2>2. 1 \in 1..P /\ puts # <<>> BY <1>6, <2>1
  <2>3. /\ puts' \in Seq(Put) /\ Len(puts') = P - 1
        /\ \A i \in 1..(P - 1) : puts'[i] = puts[i + 1]
    BY <1>1, <2>1, <2>2, HeadTailProperties
  <2> HIDE DEF P
  <2>4. DOMAIN puts' = 1..(P - 1) BY <2>3
  <2> QED BY <2>1, <2>2, <2>3, <2>4
<1> HIDE DEF L, P
<1>8. DatabaseTypeOK'
  <2>1. View \in Data BY ViewTyped
  <2>2. View' \in Data BY <1>1, <1>7, OverlayTyped DEF View, DatabaseTypeOK
  <2>3. queue' \in Seq(Event) BY <1>1, <2>1, <2>2, RaiseTyped DEF DatabaseTypeOK
  <2>4. applied' \in 0..Len(puts') BY <1>1, <1>5, <1>6, <1>7
  <2>5. repeats' \in 0..Len(puts')
    <3>1. repeats \in 0..P BY DEF DatabaseTypeOK, P
    <3>2. repeats' = IF 0 >= repeats - 1 THEN 0 ELSE repeats - 1 BY <1>1, <3>1, MaxOfTwo
    <3> QED BY <1>7, <3>1, <3>2
  <2> QED BY <1>1, <1>2, <1>7, <2>3, <2>4, <2>5 DEF DatabaseTypeOK
<1>9. PICK g : g = [n \in 1..(applied - 1) |-> f[n + 1] - 1] OBVIOUS
<1>10. \A n \in 1..(applied - 1) : /\ n + 1 \in 1..applied /\ f[n + 1] \in 1..L
                                   /\ f[n + 1] # 1 /\ g[n] = f[n + 1] - 1
  <2> SUFFICES ASSUME NEW n \in 1..(applied - 1)
               PROVE  /\ n + 1 \in 1..applied /\ f[n + 1] \in 1..L /\ f[n + 1] # 1
    BY <1>9
  <2>1. n + 1 \in 1..applied /\ 1 < n + 1 BY <1>5
  <2>2. f[1] < f[n + 1] /\ f[n + 1] \in 1..L BY <1>5, <1>6, <2>1
  <2> QED BY <1>2, <1>6, <2>1, <2>2
<1>11. AcksAt(g)'
  <2>1. g \in [1..(applied - 1) -> 1..(L - 1)]
    <3>1. \A n \in 1..(applied - 1) : f[n + 1] - 1 \in 1..(L - 1) BY <1>2, <1>10
    <3> QED BY <1>9, <3>1
  <2>2. ASSUME NEW j \in 1..(applied - 1), NEW n \in 1..(applied - 1), j < n
        PROVE  g[j] < g[n]
    <3>1. f[j + 1] < f[n + 1] BY <1>5, <1>10, <2>2
    <3> QED BY <1>2, <1>10, <3>1
  <2>3. ASSUME NEW i \in 1..(L - 1)
        PROVE  down'[i].type = "ack" <=> \E n \in 1..(applied - 1) : g[n] = i
    <3>1. ASSUME NEW n \in 1..(applied - 1), g[n] = i PROVE down'[i].type = "ack"
      <4>1. n + 1 \in 1..applied /\ f[n + 1] \in 1..L /\ g[n] = f[n + 1] - 1 BY <1>10
      <4>2. f[n + 1] = i + 1 BY <1>2, <3>1, <4>1
      <4>3. down[i + 1].type = "ack" BY <1>2, <1>5, <4>1, <4>2
      <4> QED BY <1>2, <4>3
    <3>2. ASSUME down'[i].type = "ack" PROVE \E n \in 1..(applied - 1) : g[n] = i
      <4>1. PICK n \in 1..applied : f[n] = i + 1 BY <1>2, <1>5, <3>2
      <4>2. n # 1 BY <1>2, <1>6, <4>1
      <4> DEFINE o == n - 1
      <4>3. o \in 1..(applied - 1) /\ o + 1 = n BY <1>5, <4>2
      <4> HIDE DEF o
      <4>4. g[o] = f[o + 1] - 1 /\ f[o + 1] = i + 1 BY <1>10, <4>1, <4>3
      <4>5. g[o] = i BY <4>4
      <4> QED BY <4>3, <4>5
    <3> QED BY <3>1, <3>2
  <2> QED BY <1>1, <1>2, <2>1, <2>2, <2>3 DEF AcksAt
<1>12. ASSUME NEW i \in 1..(L - 1), down'[i].type = "child"
       PROVE  \E n \in 1..(applied - 1) : g[n] = i + 1 /\ puts'[n].key = down'[i].key
  <2>1. PICK n \in 1..applied : f[n] = (i + 1) + 1 /\ puts[n].key = down[i + 1].key
    BY <1>2, <1>5, <1>12
  <2>2. n # 1 BY <1>2, <1>6, <2>1
  <2> DEFINE o == n - 1
  <2>3. o \in 1..(applied - 1) /\ o + 1 = n BY <1>5, <2>2
  <2> HIDE DEF o
  <2>4. g[o] = i + 1 BY <1>2, <1>10, <2>1, <2>3
  <2>5. puts'[o] = puts[n] BY <1>5, <1>7, <2>3
  <2> QED BY <1>2, <2>1, <2>3, <2>4, <2>5
<1>13. EchoesAt(g)' BY <1>1, <1>2, <1>12 DEF EchoesAt
<1>14. Linked' BY <1>11, <1>13 DEF Linked
<1>15. Idle' BY <1>1, <1>3 DEF Idle
<1>16. \A i \in 1..(L - 1) : down'[i].type # "all"
  <2> SUFFICES ASSUME NEW i \in 1..(L - 1) PROVE down[i + 1].type # "all" BY <1>2
  <2>1. i + 1 \in DOMAIN down /\ i + 1 # 1 BY <1>2
  <2> QED BY <2>1 DEF Wire, AllIsFirst
<1>17. AllIsFirst' BY <1>2, <1>16 DEF AllIsFirst
<1>18. ASSUME NEW k \in Keys, cache[k] # server[k]
       PROVE  \E i \in 1..(L - 1) : Touches(down'[i], k)
  <2>1. PICK i \in DOMAIN down : Touches(down[i], k)
    BY <1>3, <1>18 DEF Wire, NewsPending
  <2>2. i # 1 BY <1>2, <2>1 DEF Touches
  <2> QED BY <1>2, <2>1, <2>2
<1>19. NewsPending' BY <1>1, <1>2, <1>18 DEF NewsPending
<1>20. NewsCorrect'
  <2> SUFFICES ASSUME NEW k \in Keys, NEW i \in 1..(L - 1), Touches(down'[i], k),
                      \A j \in 1..(L - 1) : j > i => ~Touches(down'[j], k)
               PROVE  Carried(down'[i], k) = server[k]
    BY <1>1, <1>2 DEF NewsCorrect
  <2>1. i + 1 \in DOMAIN down /\ Touches(down[i + 1], k) BY <1>2
  <2>2. \A j \in DOMAIN down : j > i + 1 => ~Touches(down[j], k)
    <3> SUFFICES ASSUME NEW j \in DOMAIN down, j > i + 1 PROVE ~Touches(down[j], k) OBVIOUS
    <3>1. j - 1 \in 1..(L - 1) /\ j - 1 > i /\ down'[j - 1] = down[j] BY <1>2
    <3> QED BY <3>1
  <2>3. Carried(down[i + 1], k) = server[k] BY <2>1, <2>2 DEF Wire, NewsCorrect
  <2> QED BY <1>2, <2>3
<1>21. ASSUME NEW k \in Keys, cache[k] # server[k]
       PROVE  \E i \in DOMAIN puts' : puts'[i].key = k
  <2>1. PICK i \in 1..(L - 1) : Touches(down'[i], k) BY <1>18, <1>21
  <2>2. down'[i].type = "child" /\ down'[i].key = k BY <1>16, <2>1 DEF Touches
  <2>3. PICK n \in 1..(applied - 1) : puts'[n].key = k BY <1>12, <2>2
  <2>4. n \in DOMAIN puts' BY <1>5, <1>7, <2>3
  <2> QED BY <2>3, <2>4
<1>22. DifferenceKept' BY <1>1, <1>21 DEF DifferenceKept
<1>23. LastWriteCounts'
  <2> SUFFICES ASSUME NEW k \in Keys, NEW i \in 1..(applied - 1), puts'[i].key = k,
                      \A j \in 1..(applied - 1) : j > i => puts'[j].key # k
               PROVE  server[k] = puts'[i].value
    BY <1>1 DEF LastWriteCounts
  <2>1. i + 1 \in 1..applied /\ puts'[i] = puts[i + 1] BY <1>5, <1>7
  <2>2. \A j \in 1..applied : j > i + 1 => puts[j].key # k
    <3> SUFFICES ASSUME NEW j \in 1..applied, j > i + 1 PROVE puts[j].key # k OBVIOUS
    <3> DEFINE o == j - 1
    <3>1. o \in 1..(applied - 1) /\ o > i /\ o \in 1..(P - 1) /\ o + 1 = j BY <1>5, <1>7
    <3> HIDE DEF o
    <3> QED BY <1>7, <3>1
  <2> QED BY <2>1, <2>2 DEF Wire, LastWriteCounts
<1>24. Wire' BY <1>14, <1>15, <1>17, <1>19, <1>20, <1>22, <1>23 DEF Wire
<1>25. ASSUME loaded PROVE View' = View
  <2>1. puts \in Seq(Put) /\ puts # <<>> /\ puts[1].key \in Keys /\ cache \in Data
    <3>1. puts \in Seq(Put) /\ puts # <<>> /\ cache \in Data BY <1>7, EmptySeq DEF DatabaseTypeOK, P
    <3>2. puts[1] \in Put BY <1>7, <3>1
    <3> QED BY <3>1, <3>2 DEF Put
  <2>2. ASSUME \A i \in DOMAIN puts : i # 1 => puts[i].key # puts[1].key
        PROVE  cache[puts[1].key] = puts[1].value
    <3>1. \A i \in 1..applied : i > 1 => puts[i].key # puts[1].key BY <1>5, <1>7, <2>2
    <3>2. server[puts[1].key] = puts[1].value
      BY <1>6, <2>1, <3>1 DEF Wire, LastWriteCounts
    <3>3. \A i \in DOMAIN puts' : puts'[i].key # puts[1].key
      <4> SUFFICES ASSUME NEW i \in 1..(P - 1) PROVE puts'[i].key # puts[1].key BY <1>7
      <4>1. i + 1 \in DOMAIN puts /\ i + 1 # 1 BY <1>7
      <4> QED BY <1>7, <2>2, <4>1
    <3> QED BY <1>21, <2>1, <3>2, <3>3
  <2>3. Len(puts') = Len(puts) - 1 /\ \A i \in 1..Len(puts') : puts'[i] = puts[i + 1]
    BY <1>7 DEF P
  <2>4. Overlay(cache, puts') = Overlay(cache, puts)
    BY <1>7, <2>1, <2>2, <2>3, OldestGone
  <2> QED BY <1>1, <2>4 DEF View
<1> QED BY <1>8, <1>24, <1>25

LEMMA DeliverStep ==
    ASSUME DatabaseInv, Deliver
    PROVE  DatabaseInv' /\ (loaded => View' = View)
BY DeliverDataStep, DeliverAckStep

\* Kept writes hide whatever client and server may differ in.
LEMMA KeptWritesHide == DatabaseInv => ServerCatchesUp
<1> SUFFICES ASSUME DatabaseInv, loaded PROVE Overlay(server, puts) = View
  BY DEF ServerCatchesUp
<1>1. \A k \in Keys : server[k] # cache[k] => \E i \in DOMAIN puts : puts[i].key = k
  BY DEF DatabaseInv, Wire, DifferenceKept
<1> QED BY <1>1, OverlaySame DEF View, DatabaseInv, DatabaseTypeOK

=============================================================================
