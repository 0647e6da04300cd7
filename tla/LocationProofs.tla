--------------------------- MODULE LocationProofs ---------------------------
(***************************************************************************)
(* The events still queued lead from what the observers were told to what  *)
(* the device sees: histories of a location can be put one after the other *)
(* (Chain) and told one event at a time (TellHead).  The proofs that a tab *)
(* implements or uses a Location rest on these two lemmas.                 *)
(***************************************************************************)
EXTENDS Location, SequenceTheorems, TLAPS

\* What the events of one sequence lead to does not depend on where it is cut.
LEMMA ReplayConcat ==
    ASSUME NEW S, NEW q \in Seq(Event), NEW r \in Seq(Event)
    PROVE  Replay(S, q \o r) = Replay(Replay(S, q), r)
<1> DEFINE c == q \o r
<1>1. /\ c \in Seq(Event) /\ Len(c) = Len(q) + Len(r)
      /\ \A i \in 1..Len(c) : c[i] = IF i <= Len(q) THEN q[i] ELSE r[i - Len(q)]
  BY ConcatProperties
<1>2. Len(q) \in Nat /\ Len(r) \in Nat OBVIOUS
<1>3. \A i \in DOMAIN q : i \in DOMAIN c /\ c[i] = q[i] BY <1>1, <1>2
<1>4. \A i \in DOMAIN r : Len(q) + i \in DOMAIN c /\ c[Len(q) + i] = r[i] BY <1>1, <1>2
<1>5. \A i \in DOMAIN c : i \in DOMAIN q \/ (\E j \in DOMAIN r : i = Len(q) + j)
  <2> SUFFICES ASSUME NEW i \in DOMAIN c, i \notin DOMAIN q
               PROVE  i - Len(q) \in DOMAIN r /\ i = Len(q) + (i - Len(q))
    BY Zenon
  <2> QED BY <1>1, <1>2
<1>6. \A i \in DOMAIN q, j \in DOMAIN r : Len(q) + j > i BY <1>2
<1>7. \A i, j \in DOMAIN r : Len(q) + j > Len(q) + i <=> j > i BY <1>2
<1> HIDE DEF c
<1>8. ASSUME NEW k \in Keys, \A i \in DOMAIN r : r[i].key # k
      PROVE  k \in Replay(S, c) <=> k \in Replay(Replay(S, q), r)
  <2>1. k \in Replay(Replay(S, q), r) <=> k \in Replay(S, q) BY <1>8 DEF Replay
  <2>2. ASSUME k \in Replay(S, q) PROVE k \in Replay(S, c)
    <3>1. CASE \A i \in DOMAIN q : q[i].key # k
      <4>1. \A i \in DOMAIN c : c[i].key # k BY <1>3, <1>4, <1>5, <1>8, <3>1
      <4> QED BY <2>2, <3>1, <4>1 DEF Replay
    <3>2. CASE ~\A i \in DOMAIN q : q[i].key # k
      <4>1. PICK i \in DOMAIN q : /\ q[i].key = k /\ q[i].kind = "added"
                                  /\ \A j \in DOMAIN q : j > i => q[j].key # k
        BY <2>2, <3>2 DEF Replay
      <4>2. \A j \in DOMAIN c : j > i => c[j].key # k BY <1>3, <1>4, <1>5, <1>8, <4>1
      <4> QED BY <1>3, <4>1, <4>2 DEF Replay
    <3> QED BY <3>1, <3>2
  <2>3. ASSUME k \in Replay(S, c) PROVE k \in Replay(S, q)
    <3>1. CASE \A i \in DOMAIN c : c[i].key # k BY <1>3, <2>3, <3>1 DEF Replay
    <3>2. CASE ~\A i \in DOMAIN c : c[i].key # k
      <4>1. PICK i \in DOMAIN c : /\ c[i].key = k /\ c[i].kind = "added"
                                  /\ \A j \in DOMAIN c : j > i => c[j].key # k
        BY <2>3, <3>2 DEF Replay
      <4>2. i \in DOMAIN q BY <1>4, <1>5, <1>8, <4>1
      <4>3. \A j \in DOMAIN q : j > i => q[j].key # k BY <1>3, <4>1
      <4> QED BY <1>3, <4>1, <4>2, <4>3 DEF Replay
    <3> QED BY <3>1, <3>2
  <2> QED BY <2>1, <2>2, <2>3
<1>9. ASSUME NEW k \in Keys, NEW n \in DOMAIN r, r[n].key = k
      PROVE  k \in Replay(S, c) <=> k \in Replay(Replay(S, q), r)
  <2>1. ~\A i \in DOMAIN c : c[i].key # k BY <1>4, <1>9
  <2>2. ~\A i \in DOMAIN r : r[i].key # k BY <1>9
  <2>3. ASSUME k \in Replay(S, c) PROVE k \in Replay(Replay(S, q), r)
    <3>1. PICK i \in DOMAIN c : /\ c[i].key = k /\ c[i].kind = "added"
                                /\ \A j \in DOMAIN c : j > i => c[j].key # k
      BY <2>1, <2>3 DEF Replay
    <3>2. i \notin DOMAIN q BY <1>4, <1>6, <1>9, <3>1
    <3>3. PICK j \in DOMAIN r : i = Len(q) + j BY <1>5, <3>2
    <3>4. r[j].key = k /\ r[j].kind = "added" BY <1>4, <3>1, <3>3
    <3>5. \A m \in DOMAIN r : m > j => r[m].key # k BY <1>4, <1>7, <3>1, <3>3
    <3> QED BY <3>4, <3>5 DEF Replay
  <2>4. ASSUME k \in Replay(Replay(S, q), r) PROVE k \in Replay(S, c)
    <3>1. PICK j \in DOMAIN r : /\ r[j].key = k /\ r[j].kind = "added"
                                /\ \A m \in DOMAIN r : m > j => r[m].key # k
      BY <2>2, <2>4 DEF Replay
    <3> DEFINE i == Len(q) + j
    <3>2. i \in DOMAIN c /\ c[i].key = k /\ c[i].kind = "added" BY <1>4, <3>1
    <3>3. \A m \in DOMAIN c : m > i => c[m].key # k
      <4> SUFFICES ASSUME NEW m \in DOMAIN c, m > i PROVE c[m].key # k OBVIOUS
      <4>1. m \notin DOMAIN q BY <1>2
      <4>2. PICK l \in DOMAIN r : m = Len(q) + l BY <1>5, <4>1
      <4>3. l > j BY <1>7, <4>2
      <4> QED BY <1>4, <3>1, <4>2, <4>3
    <3> QED BY <3>2, <3>3 DEF Replay
  <2> QED BY <2>3, <2>4
<1>10. \A k \in Keys : k \in Replay(S, c) <=> k \in Replay(Replay(S, q), r)
  BY <1>8, <1>9
<1>11. Replay(S, c) \subseteq Keys /\ Replay(Replay(S, q), r) \subseteq Keys BY DEF Replay
<1> QED BY <1>10, <1>11 DEF c

\* Two histories, one after the other, are a history.
LEMMA Chain ==
    ASSUME NEW S, NEW T, NEW U, NEW q, NEW r, Leads(S, q, T), Leads(T, r, U)
    PROVE  Leads(S, q \o r, U)
<1> DEFINE c == q \o r
<1>1. q \in Seq(Event) /\ r \in Seq(Event) BY DEF Leads
<1>2. /\ c \in Seq(Event) /\ Len(c) = Len(q) + Len(r)
      /\ \A i \in 1..Len(c) : c[i] = IF i <= Len(q) THEN q[i] ELSE r[i - Len(q)]
  BY <1>1, ConcatProperties
<1>3. Len(q) \in Nat /\ Len(r) \in Nat BY <1>1
<1>4. ASSUME NEW i \in DOMAIN c PROVE c[i].key \in Keys /\ IsNews(S, c, i)
  <2>1. CASE i <= Len(q)
    <3>1. i \in DOMAIN q /\ c[i] = q[i] BY <1>1, <1>2, <1>3, <2>1
    <3>2. SubSeq(c, 1, i - 1) = SubSeq(q, 1, i - 1)
      <4>1. CASE i = 1 BY <4>1, SubSeqEmpty
      <4>2. CASE i # 1
        <5>1. 1 \in 1..Len(q) /\ i - 1 \in 1..Len(q) BY <1>3, <2>1, <3>1, <4>2
        <5> QED BY <1>1, <5>1, SubSeqOfConcat1
      <4> QED BY <4>1, <4>2
    <3>3. q[i].key \in Keys /\ IsNews(S, q, i) BY <3>1 DEF Leads
    <3> QED BY <3>1, <3>2, <3>3 DEF IsNews
  <2>2. CASE ~(i <= Len(q))
    <3> DEFINE j == i - Len(q)
    <3>1. j \in DOMAIN r /\ c[i] = r[j] BY <1>1, <1>2, <1>3, <2>2
    <3>2. SubSeq(r, 1, j - 1) \in Seq(Event)
      BY <1>1, <1>3, <3>1, SubSeqProperties
    <3>3. SubSeq(c, 1, i - 1) = q \o SubSeq(r, 1, j - 1)
      <4>1. /\ SubSeq(c, 1, i - 1) \in Seq(Event) /\ Len(SubSeq(c, 1, i - 1)) = i - 1
            /\ \A n \in 1..(i - 1) : SubSeq(c, 1, i - 1)[n] = c[n]
        <5>1. \A n \in 1..(i - 1) : c[n] \in Event BY <1>2
        <5>2. i \in Int /\ 1 <= i BY <1>2
        <5> QED BY <5>1, <5>2, SubSeqProperties
      <4>2. /\ Len(SubSeq(r, 1, j - 1)) = j - 1
            /\ \A n \in 1..(j - 1) : SubSeq(r, 1, j - 1)[n] = r[n]
        <5>1. \A n \in 1..(j - 1) : r[n] \in Event BY <1>1, <3>1
        <5>2. j \in Int /\ 1 <= j BY <1>1, <1>3, <3>1
        <5> QED BY <5>1, <5>2, SubSeqProperties
      <4> DEFINE d == q \o SubSeq(r, 1, j - 1)
      <4>3. /\ d \in Seq(Event) /\ Len(d) = Len(q) + (j - 1)
            /\ \A n \in 1..(Len(q) + (j - 1)) :
                  d[n] = IF n <= Len(q) THEN q[n] ELSE SubSeq(r, 1, j - 1)[n - Len(q)]
        <5> DEFINE rest == SubSeq(r, 1, j - 1)
        <5>1. rest \in Seq(Event) /\ Len(rest) = j - 1 BY <3>2, <4>2
        <5> HIDE DEF rest, j
        <5>2. /\ q \o rest \in Seq(Event) /\ Len(q \o rest) = Len(q) + Len(rest)
              /\ \A n \in 1..Len(q) + Len(rest) :
                    (q \o rest)[n] = IF n <= Len(q) THEN q[n] ELSE rest[n - Len(q)]
          BY <1>1, <5>1, ConcatProperties
        <5> QED BY <5>1, <5>2 DEF rest
      <4>4. Len(d) = i - 1 BY <1>2, <1>3, <4>3
      <4>5. \A n \in 1..(i - 1) : d[n] = c[n]
        <5> SUFFICES ASSUME NEW n \in 1..(i - 1) PROVE d[n] = c[n] OBVIOUS
        <5>1. n \in 1..Len(c) BY <1>2
        <5>2. CASE n <= Len(q) BY <1>2, <1>3, <4>3, <5>1, <5>2
        <5>3. CASE ~(n <= Len(q))
          <6>1. n - Len(q) \in 1..(j - 1) BY <1>3, <5>3
          <6>2. d[n] = r[n - Len(q)] BY <1>3, <4>2, <4>3, <5>3, <6>1
          <6> QED BY <1>2, <5>1, <5>3, <6>2
        <5> QED BY <5>2, <5>3
      <4> HIDE DEF d, c, j
      <4>6. SubSeq(c, 1, i - 1) = d BY <4>1, <4>3, <4>4, <4>5, SeqEqual
      <4> QED BY <4>6 DEF d
    <3>4. Replay(S, SubSeq(c, 1, i - 1)) = Replay(T, SubSeq(r, 1, j - 1))
      <4>1. Replay(S, q) = T BY DEF Leads
      <4> DEFINE rest == SubSeq(r, 1, j - 1)
      <4> HIDE DEF rest
      <4>2. rest \in Seq(Event) BY <3>2 DEF rest
      <4>3. Replay(S, q \o rest) = Replay(Replay(S, q), rest) BY <1>1, <4>2, ReplayConcat
      <4> QED BY <3>3, <4>1, <4>3 DEF rest
    <3>5. r[j].key \in Keys /\ IsNews(T, r, j) BY <3>1 DEF Leads
    <3> QED BY <3>1, <3>4, <3>5 DEF IsNews
  <2> QED BY <2>1, <2>2
<1>5. Replay(S, c) = U BY <1>1, ReplayConcat DEF Leads
<1> QED BY <1>2, <1>4, <1>5 DEF Leads

\* One event brings the names it tells of from S to ToldOf(S, e).
ToldOf(S, e) == IF e.kind = "added" THEN S \cup {e.key} ELSE S \ {e.key}

LEMMA ReplayOne ==
    ASSUME NEW S, S \subseteq Keys, NEW e, e.key \in Keys
    PROVE  Replay(S, <<e>>) = ToldOf(S, e)
<1> DEFINE q == <<e>>
<1>1. DOMAIN q = {1} /\ q[1] = e OBVIOUS
<1>2. ~(1 > 1) OBVIOUS
<1> HIDE DEF q
<1>3. Replay(S, q) = {k \in Keys : \/ e.key = k /\ e.kind = "added"
                                   \/ k \in S /\ e.key # k}
  BY <1>1, <1>2 DEF Replay
<1> QED BY <1>3 DEF ToldOf, q

LEMMA ReplayEmpty == ASSUME NEW S, S \subseteq Keys PROVE Replay(S, <<>>) = S
<1>1. DOMAIN <<>> = {} OBVIOUS
<1> QED BY <1>1 DEF Replay

LEMMA EmptyLeads == ASSUME NEW S, S \subseteq Keys PROVE Leads(S, <<>>, S)
<1>1. DOMAIN <<>> = {} /\ <<>> \in Seq(Event) OBVIOUS
<1> QED BY <1>1, ReplayEmpty DEF Leads

\* The first event of a history is news, and what remains is a history.
LEMMA TellHead ==
    ASSUME NEW S, S \subseteq Keys, NEW T, NEW q, Leads(S, q, T), q # <<>>
    PROVE  /\ IsNews(S, q, 1) /\ Head(q).key \in Keys
           /\ Leads(ToldOf(S, Head(q)), Tail(q), T)
<1> DEFINE e == Head(q)
           rest == Tail(q)
           R == ToldOf(S, e)
<1>1. /\ q \in Seq(Event) /\ Len(q) \in Nat \ {0} /\ e = q[1] /\ e \in Event
      /\ rest \in Seq(Event) /\ Len(rest) = Len(q) - 1
      /\ \A i \in 1..Len(rest) : rest[i] = q[i + 1]
  BY HeadTailProperties, EmptySeq DEF Leads
<1>2. 1 \in DOMAIN q BY <1>1
<1>3. IsNews(S, q, 1) /\ e.key \in Keys BY <1>1, <1>2 DEF Leads
<1> HIDE DEF e, rest
<1>4. <<e>> \in Seq(Event) BY <1>1
<1>5. Replay(S, <<e>>) = R BY <1>3, ReplayOne
<1>6. ASSUME NEW s \in Seq(Event) PROVE Replay(S, <<e>> \o s) = Replay(R, s)
  <2> DEFINE one == <<e>>
  <2> HIDE DEF one, R
  <2>1. one \in Seq(Event) /\ Replay(S, one) = R BY <1>4, <1>5 DEF one
  <2>2. Replay(S, one \o s) = Replay(Replay(S, one), s) BY <2>1, ReplayConcat
  <2> QED BY <2>1, <2>2 DEF one
<1> HIDE DEF R
<1>7. q = <<e>> \o rest
  <2>1. /\ <<e>> \o rest \in Seq(Event) /\ Len(<<e>> \o rest) = 1 + Len(rest)
        /\ \A i \in 1..(1 + Len(rest)) :
              (<<e>> \o rest)[i] = IF i <= 1 THEN <<e>>[i] ELSE rest[i - 1]
    BY <1>1, <1>4, ConcatProperties
  <2> DEFINE d == <<e>> \o rest
  <2>2. \A i \in 1..Len(q) : q[i] = d[i] BY <1>1, <2>1
  <2>3. Len(q) = Len(d) /\ d \in Seq(Event) BY <1>1, <2>1
  <2> HIDE DEF d
  <2>4. q = d BY <1>1, <2>2, <2>3, SeqEqual
  <2> QED BY <2>4 DEF d
<1>8. ASSUME NEW i \in DOMAIN rest PROVE rest[i].key \in Keys /\ IsNews(R, rest, i)
  <2>1. i \in 1..Len(rest) /\ i + 1 \in DOMAIN q /\ rest[i] = q[i + 1] BY <1>1
  <2> DEFINE s == SubSeq(rest, 1, i - 1)
  <2>2. /\ s \in Seq(Event) /\ Len(s) = i - 1 /\ \A n \in 1..(i - 1) : s[n] = rest[n]
    <3>1. \A n \in 1..(i - 1) : rest[n] \in Event BY <1>1, <2>1
    <3>2. i \in Int /\ 1 <= i BY <1>1, <2>1
    <3> QED BY <3>1, <3>2, SubSeqProperties
  <2>3. SubSeq(q, 1, i) = <<e>> \o s
    <3>1. /\ SubSeq(q, 1, i) \in Seq(Event) /\ Len(SubSeq(q, 1, i)) = i
          /\ \A n \in 1..i : SubSeq(q, 1, i)[n] = q[n]
      <4>1. \A n \in 1..i : q[n] \in Event BY <1>1, <2>1
      <4>2. i \in Int /\ 1 <= i BY <1>1, <2>1
      <4> QED BY <4>1, <4>2, SubSeqProperties
    <3> HIDE DEF s
    <3>2. /\ <<e>> \o s \in Seq(Event) /\ Len(<<e>> \o s) = 1 + Len(s)
          /\ \A n \in 1..(1 + Len(s)) : (<<e>> \o s)[n] = IF n <= 1 THEN <<e>>[n] ELSE s[n - 1]
      BY <1>4, <2>2, ConcatProperties
    <3> DEFINE d == <<e>> \o s
               u == SubSeq(q, 1, i)
    <3>3. \A n \in 1..i : q[n] = d[n]
      <4> SUFFICES ASSUME NEW n \in 1..i PROVE q[n] = d[n] OBVIOUS
      <4>0. i \in Nat /\ 1 <= i /\ i <= Len(rest) BY <1>1, <2>1
      <4>1. CASE n = 1 BY <1>1, <2>2, <3>2, <4>0, <4>1
      <4>2. CASE n # 1
        <5>1. n - 1 \in 1..(i - 1) /\ n - 1 \in 1..Len(rest) BY <4>0, <4>2
        <5>2. s[n - 1] = q[n] BY <1>1, <2>2, <4>0, <5>1
        <5>3. n \in 1..(1 + Len(s)) /\ ~(n <= 1) BY <2>2, <4>0, <4>2
        <5> QED BY <3>2, <5>2, <5>3
      <4> QED BY <4>1, <4>2
    <3>4. Len(d) = i /\ d \in Seq(Event) BY <1>1, <2>1, <2>2, <3>2
    <3>5. \A n \in 1..Len(u) : u[n] = d[n] BY <3>1, <3>3
    <3>6. u \in Seq(Event) /\ Len(u) = Len(d) BY <3>1, <3>4
    <3> HIDE DEF d, u
    <3>7. u = d BY <3>4, <3>5, <3>6, SeqEqual
    <3> QED BY <3>7 DEF d, u
  <2>4. (i + 1) - 1 = i BY <1>1, <2>1
  <2> HIDE DEF s
  <2>5. Replay(S, SubSeq(q, 1, i)) = Replay(R, s) BY <1>6, <2>2, <2>3
  <2>6. q[i + 1].key \in Keys /\ IsNews(S, q, i + 1) BY <2>1 DEF Leads
  <2> QED BY <2>1, <2>4, <2>5, <2>6 DEF IsNews, s
<1>9. Replay(R, rest) = T
  <2>1. Replay(S, q) = T BY DEF Leads
  <2> QED BY <1>1, <1>6, <1>7, <2>1
<1> QED BY <1>1, <1>3, <1>8, <1>9 DEF Leads, e, rest, R

\* The events of one change, each of another child, lead from S to the set in
\* which exactly these children have changed sides.
LEMMA BatchLeads ==
    ASSUME NEW S, S \subseteq Keys, NEW T, T \subseteq Keys, NEW q \in Seq(Event),
           \A i \in DOMAIN q : /\ q[i].key \in Keys
                               /\ q[i].kind = IF q[i].key \in S THEN "removed" ELSE "added",
           \A i, j \in DOMAIN q : q[i].key = q[j].key => i = j,
           \A k \in Keys : (k \in S) = (k \in T) <=> \A i \in DOMAIN q : q[i].key # k
    PROVE  Leads(S, q, T)
<1>1. Len(q) \in Nat /\ DOMAIN q = 1..Len(q) OBVIOUS
<1>2. ASSUME NEW i \in DOMAIN q PROVE IsNews(S, q, i)
  <2> DEFINE s == SubSeq(q, 1, i - 1)
  <2>1. i \in 1..Len(q) /\ 1 \in Int /\ i - 1 \in Int BY <1>1
  <2>2. \A n \in 1..(i - 1) : q[n] \in Event BY <1>1
  <2>3. Len(s) = i - 1 /\ s \in Seq(Event) /\ \A n \in 1..(i - 1) : s[n] = q[n]
    BY <2>1, <2>2, SubSeqProperties
  <2> HIDE DEF s
  <2>4. ASSUME NEW n \in DOMAIN s PROVE s[n].key # q[i].key
    <3>1. n \in 1..(i - 1) BY <2>3
    <3>2. n \in DOMAIN q /\ n # i /\ s[n] = q[n] BY <1>1, <2>1, <2>3, <3>1
    <3> QED BY <3>2
  <2>5. q[i].key \in Replay(S, s) <=> q[i].key \in S BY <2>4 DEF Replay
  <2> QED BY <2>5 DEF IsNews, s
<1>3. ASSUME NEW k \in Keys PROVE k \in Replay(S, q) <=> k \in T
  <2>1. CASE \A i \in DOMAIN q : q[i].key # k BY <2>1 DEF Replay
  <2>2. CASE ~\A i \in DOMAIN q : q[i].key # k
    <3>1. PICK i \in DOMAIN q : q[i].key = k BY <2>2
    <3>2. \A j \in DOMAIN q : j > i => q[j].key # k
      <4> SUFFICES ASSUME NEW j \in DOMAIN q, j > i, q[j].key = k PROVE FALSE OBVIOUS
      <4>1. i = j BY <3>1
      <4> QED BY <1>1, <4>1
    <3>3. \A j \in DOMAIN q : q[j].key = k => q[j].kind = q[i].kind BY <3>1
    <3>4. k \in Replay(S, q) <=> q[i].kind = "added" BY <2>2, <3>1, <3>2, <3>3 DEF Replay
    <3>5. k \in T <=> k \notin S BY <2>2
    <3> QED BY <3>1, <3>4, <3>5
  <2> QED BY <2>1, <2>2
<1>4. Replay(S, q) = T BY <1>3 DEF Replay
<1> QED BY <1>2, <1>4 DEF Leads

\* What is put behind the queue is what was raised.
LEMMA RaisedIsRest ==
    ASSUME NEW q \in Seq(Event), NEW r \in Seq(Event)
    PROVE  SubSeq(q \o r, Len(q) + 1, Len(q \o r)) = r
<1> DEFINE c == q \o r
           d == SubSeq(c, Len(q) + 1, Len(c))
<1>1. Len(q) \in Nat /\ Len(r) \in Nat OBVIOUS
<1>2. /\ c \in Seq(Event) /\ Len(c) = Len(q) + Len(r)
      /\ \A i \in 1..Len(c) : c[i] = IF i <= Len(q) THEN q[i] ELSE r[i - Len(q)]
  BY ConcatProperties
<1>3. \A i \in 1..Len(r) : Len(q) + i \in 1..Len(c) /\ c[Len(q) + i] = r[i]
  <2> HIDE DEF c
  <2> SUFFICES ASSUME NEW i \in 1..Len(r)
               PROVE  Len(q) + i \in 1..Len(c) /\ c[Len(q) + i] = r[i]
    OBVIOUS
  <2> DEFINE m == Len(q) + i
  <2>1. m \in 1..Len(c) /\ ~(m <= Len(q)) /\ m - Len(q) = i BY <1>1, <1>2
  <2> HIDE DEF m
  <2>2. m \in 1..Len(c) /\ c[m] = r[i] BY <1>2, <2>1
  <2> QED BY <2>2 DEF m
<1>4. d \in Seq(Event) /\ Len(d) = Len(r) /\ \A i \in 1..Len(r) : d[i] = c[Len(q) + i]
  <2> HIDE DEF c
  <2> DEFINE m == Len(q) + 1
             n == Len(c)
  <2>1. m \in Int /\ n \in Int /\ (IF m <= n THEN n - m + 1 ELSE 0) = Len(r) BY <1>1, <1>2
  <2>2. \A i \in m..n : c[i] \in Event BY <1>1, <1>2
  <2>3. \A i \in 1..Len(r) : m + i - 1 = Len(q) + i BY <1>1
  <2>4. /\ d \in Seq(Event) /\ Len(d) = Len(r) /\ \A i \in 1..Len(r) : d[i] = c[m + i - 1]
    <3> HIDE DEF m, n
    <3>1. /\ SubSeq(c, m, n) \in Seq(Event)
          /\ Len(SubSeq(c, m, n)) = IF m <= n THEN n - m + 1 ELSE 0
          /\ \A i \in 1..n - m + 1 : SubSeq(c, m, n)[i] = c[m + i - 1]
      BY <2>1, <2>2, SubSeqProperties
    <3>2. \A i \in 1..Len(r) : i \in 1..n - m + 1 BY <1>1, <2>1
    <3> QED BY <2>1, <3>1, <3>2 DEF m, n
  <2> QED BY <2>3, <2>4
<1> HIDE DEF c, d
<1>5. \A i \in 1..Len(d) : d[i] = r[i] BY <1>3, <1>4
<1>6. d = r BY <1>4, <1>5, SeqEqual
<1> QED BY <1>6 DEF c, d

\* So a step that puts a history of the view's change behind the queue is a
\* Change.
LEMMA ChangeBy ==
    ASSUME queue \in Seq(Event), NEW r, queue' = queue \o r, Leads(view, r, view'),
           UNCHANGED told
    PROVE  Change
<1>1. r \in Seq(Event) BY DEF Leads
<1>2. SubSeq(queue', Len(queue) + 1, Len(queue')) = r BY <1>1, RaisedIsRest
<1> QED BY <1>2 DEF Change

-----------------------------------------------------------------------------

LocationInv == told \subseteq Keys /\ EventsExplainView

LEMMA LocationStep == ASSUME LocationInv, [Next]_locationVars PROVE LocationInv'
<1> USE DEF LocationInv, EventsExplainView
<1>1. CASE Change BY <1>1, Chain DEF Change
<1>2. CASE Tell
  <2>1. told' = ToldOf(told, Head(queue)) BY <1>2 DEF Tell, ToldOf
  <2>2. Head(queue).key \in Keys /\ Leads(told', Tail(queue), view)
    BY <1>2, <2>1, TellHead DEF Tell
  <2>3. told' \subseteq Keys BY <2>1, <2>2 DEF ToldOf
  <2> QED BY <1>2, <2>2, <2>3 DEF Tell
<1>3. CASE Restart BY <1>3 DEF Restart
<1>4. CASE UNCHANGED locationVars BY <1>4 DEF locationVars
<1> QED BY <1>1, <1>2, <1>3, <1>4 DEF Next

\* With nothing left to tell, the observers know the view.
LEMMA ToldAtRest == ASSUME LocationInv, queue = <<>> PROVE told = view
<1>1. Leads(told, <<>>, view) /\ told \subseteq Keys BY DEF LocationInv, EventsExplainView
<1>2. Replay(told, <<>>) = view BY <1>1 DEF Leads
<1> QED BY <1>1, <1>2, ReplayEmpty

\* Whatever the writes, messages and restarts: once the events queued are told,
\* the observers know exactly the children the device sees (raiseEvents of
\* FEventRaiser, behind every childAdded and childRemoved of the tabs).
THEOREM EventsExplainViewAlways == Spec => []EventsExplainView
<1>1. Init => LocationInv BY DEF Init, LocationInv, EventsExplainView
<1>2. LocationInv /\ [Next]_locationVars => LocationInv' BY LocationStep
<1>3. LocationInv => EventsExplainView BY DEF LocationInv
<1> QED BY <1>1, <1>2, <1>3, PTL DEF Spec
=============================================================================
