--------------------------- MODULE AccountProofs ---------------------------
(***************************************************************************)
(* The account behind the tabs, for every set of accounts, names and       *)
(* addresses and any number of requests under way: the tabs follow the     *)
(* signed-in user and the settings page shows the account, unless an       *)
(* answer came after its screen was left.                                  *)
(***************************************************************************)
EXTENDS Account, ListLemmas

-----------------------------------------------------------------------------
(* Requests and changes, and bags and queues of them. *)

Asked == Request \cup Change

LEMMA RequestFields ==
    ASSUME NEW r \in Asked
    PROVE  /\ r.kind \in {"name", "email", "signIn", "delete", "reset"} /\ r.shown \in BOOLEAN
           /\ Lasting(r) => r.account \in Accounts
           /\ r \in Change <=> r.kind \in {"name", "email"}
           /\ r.kind = "name" => r.value \in Names
           /\ r.kind = "email" => r.value \in Emails
BY DEF Asked, Request, Change, Lasting

\* Covering a request takes only its screen; uncovering it gives that back.
LEMMA CoveredRequest ==
    ASSUME NEW r \in Asked, Lasting(r)
    PROVE  /\ Covered(r) \in Asked /\ ~Covered(r).shown
           /\ r \in Request => Covered(r) \in Request
           /\ r \in Change => Covered(r) \in Change
           /\ Covered(r).kind = r.kind
           /\ ~r.shown => Covered(r) = r
           /\ r.shown => [Covered(r) EXCEPT !.shown = TRUE] = r
<1>1. CASE r \in [kind : {"signIn", "delete"}, account : Accounts, shown : BOOLEAN]
  BY <1>1 DEF Covered, Request, Change, Asked
<1>2. CASE r \in [kind : {"reset"}, shown : {TRUE}] BY <1>2 DEF Lasting
<1>3. CASE r \in [kind : {"name"}, account : Accounts, value : Names, waits : BOOLEAN,
                  shown : BOOLEAN]
  <2>1. Covered(r) \in Change BY <1>3 DEF Covered, Change
  <2> QED BY <1>3, <2>1 DEF Covered, Request, Asked
<1>4. CASE r \in [kind : {"email"}, account : Accounts, value : Emails, waits : BOOLEAN,
                  with : Names, shown : BOOLEAN]
  <2>1. Covered(r) \in Change BY <1>4 DEF Covered, Change
  <2> QED BY <1>4, <2>1 DEF Covered, Request, Asked
<1> QED BY <1>1, <1>2, <1>3, <1>4 DEF Request, Change, Asked

LEMMA OneMore ==
    ASSUME NEW B, IsABag(B), NEW e
    PROVE  IsABag(B (+) One(e)) /\ BagToSet(B (+) One(e)) = BagToSet(B) \cup {e}
BY DEF IsABag, One, SetToBag, BagToSet, (+)

LEMMA OneLess ==
    ASSUME NEW B, IsABag(B), NEW e
    PROVE  IsABag(B (-) One(e)) /\ BagToSet(B (-) One(e)) \subseteq BagToSet(B)
BY DEF IsABag, One, SetToBag, BagToSet, (-)

\* A queue without its oldest entry.
LEMMA TailEntries ==
    ASSUME NEW S, NEW s \in Seq(S), s # <<>>
    PROVE  /\ Head(s) = s[1] /\ 1 \in DOMAIN s /\ Tail(s) \in Seq(S)
           /\ \A j \in DOMAIN Tail(s) : j + 1 \in DOMAIN s /\ Tail(s)[j] = s[j + 1]
           /\ \A j \in DOMAIN s \ {1} :
                 j - 1 \in DOMAIN Tail(s) /\ Tail(s)[j - 1] = s[j]
<1>1. /\ Tail(s) \in Seq(S) /\ Len(Tail(s)) = Len(s) - 1
      /\ \A j \in 1..Len(Tail(s)) : Tail(s)[j] = s[j + 1]
  BY HeadTailProperties
<1>2. Head(s) = s[1] /\ 1 \in DOMAIN s OBVIOUS
<1>3. \A j \in DOMAIN s \ {1} : j - 1 \in 1..Len(Tail(s)) /\ (j - 1) + 1 = j BY <1>1
<1>4. \A j \in 1..Len(Tail(s)) : j + 1 \in 1..Len(s) BY <1>1
<1> QED BY <1>1, <1>2, <1>3, <1>4

\* A queue with one entry more.
LEMMA AppendEntries ==
    ASSUME NEW S, NEW s \in Seq(S), NEW e \in S
    PROVE  /\ Append(s, e) \in Seq(S)
           /\ \A j \in DOMAIN Append(s, e) :
                 Append(s, e)[j] = e \/ (j \in DOMAIN s /\ Append(s, e)[j] = s[j])
           /\ \A j \in DOMAIN s : j \in DOMAIN Append(s, e) /\ Append(s, e)[j] = s[j]
           /\ \E j \in DOMAIN Append(s, e) : Append(s, e)[j] = e
<1>1. /\ Append(s, e) \in Seq(S) /\ Len(Append(s, e)) = Len(s) + 1
      /\ \A j \in 1..Len(s) : Append(s, e)[j] = s[j]
      /\ Append(s, e)[Len(s) + 1] = e
  BY AppendProperties
<1>2. Len(s) + 1 \in DOMAIN Append(s, e) BY <1>1
<1> QED BY <1>1, <1>2

\* A list with two entries more.
LEMMA TwoMore ==
    ASSUME NEW S, NEW s \in Seq(S), NEW d \in S, NEW e \in S
    PROVE  /\ s \o <<d, e>> \in Seq(S) /\ Len(s \o <<d, e>>) = Len(s) + 2
           /\ \A j \in DOMAIN (s \o <<d, e>>) :
                 (s \o <<d, e>>)[j] \in {d, e}
                   \/ (j \in DOMAIN s /\ (s \o <<d, e>>)[j] = s[j])
           /\ \A j \in DOMAIN s :
                 j \in DOMAIN (s \o <<d, e>>) /\ (s \o <<d, e>>)[j] = s[j]
           /\ Len(s) + 2 \in DOMAIN (s \o <<d, e>>) /\ (s \o <<d, e>>)[Len(s) + 2] = e
<1> DEFINE w == <<d, e>>
           v == s \o w
<1>1. w \in Seq(S) /\ Len(w) = 2 /\ w[1] = d /\ w[2] = e OBVIOUS
<1>2. Len(s) \in Nat OBVIOUS
<1> HIDE DEF w
<1>3. /\ v \in Seq(S) /\ Len(v) = Len(s) + 2
      /\ \A j \in 1..(Len(s) + 2) : v[j] = IF j <= Len(s) THEN s[j] ELSE w[j - Len(s)]
  <2>1. /\ s \o w \in Seq(S) /\ Len(s \o w) = Len(s) + Len(w)
        /\ \A j \in 1..(Len(s) + Len(w)) :
              (s \o w)[j] = IF j <= Len(s) THEN s[j] ELSE w[j - Len(s)]
    BY <1>1, ConcatProperties
  <2> QED BY <1>1, <2>1
<1> HIDE DEF v
<1>4. DOMAIN v = 1..(Len(s) + 2) /\ DOMAIN s = 1..Len(s) BY <1>2, <1>3
<1>5. ASSUME NEW j \in 1..(Len(s) + 2), ~(j <= Len(s)) PROVE v[j] \in {d, e}
  <2>1. j - Len(s) \in {1, 2} BY <1>2, <1>5
  <2> QED BY <1>1, <1>3, <1>5, <2>1
<1>6. v[Len(s) + 2] = e
  <2>1. Len(s) + 2 \in 1..(Len(s) + 2) /\ ~(Len(s) + 2 <= Len(s)) /\ (Len(s) + 2) - Len(s) = 2
    BY <1>2
  <2> QED BY <1>1, <1>3, <2>1
<1>7. \A j \in DOMAIN s : j \in DOMAIN v /\ v[j] = s[j] BY <1>2, <1>3, <1>4
<1>8. \A j \in DOMAIN v : v[j] \in {d, e} \/ (j \in DOMAIN s /\ v[j] = s[j])
  BY <1>2, <1>3, <1>4, <1>5
<1>9. Len(s) + 2 \in DOMAIN v BY <1>2, <1>4
<1> QED BY <1>3, <1>6, <1>7, <1>8, <1>9 DEF v, w

LEMMA CoveredBagTyped ==
    ASSUME NEW sent, IsABag(sent), BagToSet(sent) \subseteq Request
    PROVE  /\ IsABag(CoveredBag(sent)) /\ BagToSet(CoveredBag(sent)) \subseteq Request
           /\ \A c \in BagToSet(CoveredBag(sent)) : ~c.shown
<1> DEFINE kept == {q \in DOMAIN sent : Lasting(q)}
           covered == {Covered(r) : r \in kept}
           copies(c) == Copies(c, sent) + Copies([c EXCEPT !.shown = TRUE], sent)
<1>1. DOMAIN sent \subseteq Request /\ \A q \in DOMAIN sent : sent[q] \in Nat /\ sent[q] > 0
  BY DEF IsABag, BagToSet
<1>2. \A c : Copies(c, sent) \in Nat /\ (c \in DOMAIN sent => Copies(c, sent) > 0)
  BY <1>1 DEF Copies, BagIn, BagToSet
<1>3. ASSUME NEW r \in kept
      PROVE  /\ Covered(r) \in Request /\ ~Covered(r).shown
             /\ copies(Covered(r)) \in Nat /\ copies(Covered(r)) > 0
  <2>1. r \in Request /\ r \in Asked /\ Lasting(r) /\ r \in DOMAIN sent /\ r.shown \in BOOLEAN
    BY <1>1, RequestFields DEF Asked
  <2>2. Covered(r) = r \/ [Covered(r) EXCEPT !.shown = TRUE] = r BY <2>1, CoveredRequest
  <2> DEFINE c == Covered(r)
             u == [c EXCEPT !.shown = TRUE]
  <2>3. c = r \/ u = r BY <2>2
  <2>4. copies(c) = Copies(c, sent) + Copies(u, sent) OBVIOUS
  <2>5. Covered(r) \in Request /\ ~Covered(r).shown BY <2>1, CoveredRequest
  <2> HIDE DEF c, u, copies
  <2>6. copies(c) \in Nat /\ copies(c) > 0 BY <1>2, <2>1, <2>3, <2>4
  <2> QED BY <2>5, <2>6 DEF c
<1>4. CoveredBag(sent) = [c \in covered |-> copies(c)] BY DEF CoveredBag
<1> HIDE DEF copies, kept
<1>5. \A c \in covered : c \in Request /\ ~c.shown /\ copies(c) \in Nat /\ copies(c) > 0
  BY <1>3
<1> HIDE DEF covered
<1> QED BY <1>4, <1>5 DEF IsABag, BagToSet

LEMMA CoveredQueueTyped ==
    ASSUME NEW answered \in Seq(Asked)
    PROVE  /\ CoveredQueue(answered) \in Seq(Asked)
           /\ \A i \in DOMAIN CoveredQueue(answered) : ~CoveredQueue(answered)[i].shown
           /\ \A i \in DOMAIN answered : Lasting(answered[i])
                 => \E n \in DOMAIN CoveredQueue(answered) :
                       CoveredQueue(answered)[n].kind = answered[i].kind
<1> DEFINE last == {i \in DOMAIN answered : Lasting(answered[i])}
           entry(n) == Covered(answered[Nth(last, n)])
<1>1. Len(answered) \in Nat /\ last \in SUBSET (1..Len(answered)) OBVIOUS
<1>2. Cardinality(last) \in Nat
  <2>1. IsFiniteSet(1..Len(answered)) BY <1>1, FS_Interval
  <2> QED BY <1>1, <2>1, FS_Subset, FS_CardinalityType
<1>3. \A i \in last : answered[i] \in Asked /\ Lasting(answered[i]) BY <1>1
<1>4. CoveredQueue(answered) = [n \in 1..Cardinality(last) |-> entry(n)] BY DEF CoveredQueue
<1> HIDE DEF last
<1>5. ASSUME NEW n \in 1..Cardinality(last) PROVE entry(n) \in Asked /\ ~entry(n).shown
  <2>1. Nth(last, n) \in last BY <1>1, NthOf DEF Nth
  <2> QED BY <1>3, <2>1, CoveredRequest
<1>6. ASSUME NEW i \in last
      PROVE  \E n \in 1..Cardinality(last) : entry(n).kind = answered[i].kind
  <2>1. PICK n \in 1..Cardinality(last) : i = Nth(last, n) BY <1>1, NthOnto DEF Nth
  <2> QED BY <1>3, <2>1, CoveredRequest
<1> HIDE DEF entry
<1>7. [n \in 1..Cardinality(last) |-> entry(n)] \in Seq(Asked) BY <1>2, <1>5, IsASeq
<1>8. \A i \in DOMAIN answered : Lasting(answered[i]) => i \in last BY DEF last
<1> QED BY <1>2, <1>4, <1>5, <1>6, <1>7, <1>8

LEMMA CoveredChangesTyped ==
    ASSUME changes \in Seq(Change)
    PROVE  /\ CoveredChanges \in Seq(Change)
           /\ \A i \in DOMAIN CoveredChanges : ~CoveredChanges[i].shown
<1>1. Len(changes) \in Nat /\ DOMAIN changes = 1..Len(changes) OBVIOUS
<1>2. ASSUME NEW i \in 1..Len(changes)
      PROVE  Covered(changes[i]) \in Change /\ ~Covered(changes[i]).shown
  <2>1. changes[i] \in Change /\ changes[i] \in Asked BY <1>1 DEF Asked
  <2>2. Lasting(changes[i]) BY <2>1, RequestFields DEF Lasting
  <2> QED BY <2>1, <2>2, CoveredRequest
<1>3. CoveredChanges = [i \in 1..Len(changes) |-> Covered(changes[i])]
  BY <1>1 DEF CoveredChanges
<1>4. [i \in 1..Len(changes) |-> Covered(changes[i])] \in Seq(Change) BY <1>1, <1>2, IsASeq
<1> QED BY <1>1, <1>2, <1>3, <1>4

\* An answered change leaves the queue; the others keep kind and screen.
Same(c, d) == c.kind = d.kind /\ c.shown = d.shown

LEMMA AnsweredChange ==
    ASSUME changes \in Seq(Change), NEW i \in DOMAIN changes, ChangeAnswered(i)
    PROVE  /\ changes' \in Seq(Change)
           /\ \A j \in DOMAIN changes' : \E k \in DOMAIN changes : Same(changes'[j], changes[k])
           /\ \A k \in DOMAIN changes \ {i} :
                 \E j \in DOMAIN changes' : Same(changes'[j], changes[k])
<1> DEFINE begun(j) == IF j = i + 1 THEN [changes[j] EXCEPT !.waits = FALSE] ELSE changes[j]
           s == [j \in DOMAIN changes |-> begun(j)]
<1>1. changes' = RemoveAt(s, i) BY DEF ChangeAnswered
<1>2. Len(changes) \in Nat /\ DOMAIN changes = 1..Len(changes) OBVIOUS
<1>3. ASSUME NEW j \in 1..Len(changes) PROVE begun(j) \in Change /\ Same(begun(j), changes[j])
  <2>1. changes[j] \in Change BY <1>2
  <2>2. [changes[j] EXCEPT !.waits = FALSE] \in Change
        /\ Same([changes[j] EXCEPT !.waits = FALSE], changes[j])
    BY <2>1 DEF Change, Same
  <2>3. Same(changes[j], changes[j]) BY DEF Same
  <2> QED BY <2>1, <2>2, <2>3
<1>4. s = [j \in 1..Len(changes) |-> begun(j)] BY <1>2
<1> HIDE DEF begun
<1>5. s \in Seq(Change) /\ Len(s) = Len(changes) /\ i \in DOMAIN s
      /\ \A j \in 1..Len(changes) : Same(s[j], changes[j])
  <2>1. [j \in 1..Len(changes) |-> begun(j)] \in Seq(Change)
        /\ Len([j \in 1..Len(changes) |-> begun(j)]) = Len(changes)
    BY <1>2, <1>3, IsASeq
  <2> QED BY <1>2, <1>3, <1>4, <2>1
<1> HIDE DEF s
<1>6. changes' \in Seq(Change) /\ Len(changes') = Len(changes) - 1
  BY <1>1, <1>5, RemoveAtTyped
<1>7. /\ \A j \in 1..(i - 1) : changes'[j] = s[j]
      /\ \A j \in i..(Len(changes) - 1) : changes'[j] = s[j + 1]
  BY <1>1, <1>5, RemoveAtEntries
<1>8. DOMAIN changes' = 1..(Len(changes) - 1) BY <1>2, <1>6
<1>9. ASSUME NEW j \in DOMAIN changes'
      PROVE  \E k \in DOMAIN changes : Same(changes'[j], changes[k])
  <2>1. CASE j < i BY <1>2, <1>5, <1>7, <1>8, <2>1
  <2>2. CASE ~(j < i)
    <3>1. j \in i..(Len(changes) - 1) /\ j + 1 \in 1..Len(changes) BY <1>2, <1>8, <2>2
    <3> QED BY <1>2, <1>5, <1>7, <3>1
  <2> QED BY <2>1, <2>2
<1>10. ASSUME NEW k \in DOMAIN changes \ {i}
       PROVE  \E j \in DOMAIN changes' : Same(changes'[j], changes[k])
  <2>1. CASE k < i
    <3>1. k \in 1..(i - 1) /\ k \in DOMAIN changes' BY <1>2, <1>8, <2>1
    <3> QED BY <1>2, <1>5, <1>7, <3>1
  <2>2. CASE ~(k < i)
    <3>1. /\ k - 1 \in i..(Len(changes) - 1) /\ k - 1 \in DOMAIN changes'
          /\ (k - 1) + 1 = k
      BY <1>2, <1>8, <2>2
    <3>2. changes'[k - 1] = s[k] BY <1>7, <3>1
    <3> QED BY <1>2, <1>5, <3>1, <3>2
  <2> QED BY <2>1, <2>2
<1> QED BY <1>6, <1>9, <1>10

-----------------------------------------------------------------------------
(* The tabs and the settings page. *)

\* A request whose controller is on screen was sent from the screen in front.
InFront(r) ==
    r.shown => \/ screen = "edit" /\ r.kind \in {"name", "email", "delete"}
               \/ screen = "login" /\ r.kind = "signIn"
               \/ screen = "recovery" /\ r.kind = "reset"
ChangesInFront == \A i \in DOMAIN changes : InFront(changes[i])

AccountInv ==
    /\ TypeOK
    /\ \A r \in BagToSet(requests) : InFront(r)
    /\ ChangesInFront
    /\ \A i \in DOMAIN callbacks : InFront(callbacks[i])
    /\ TabsFollowUser
    /\ LabelsFollowProfile

LEMMA CurrentTyped == ASSUME TypeOK PROVE Current \in Profile
BY DEF TypeOK, Current, NewProfile, Profile

LEMMA AccountInit == Init => AccountInv
<1> SUFFICES ASSUME Init PROVE AccountInv OBVIOUS
<1>1. /\ requests = EmptyBag /\ changes = <<>> /\ queued = FALSE /\ callbacks = <<>>
      /\ screen = "login"
  BY DEF Init
<1>2. IsABag(requests) /\ BagToSet(requests) = {}
  BY <1>1 DEF EmptyBag, SetToBag, IsABag, BagToSet
<1>3. NewProfile \in Profile BY DEF NewProfile, Profile
<1>4. /\ callbacks \in Seq(Request \cup Change) /\ DOMAIN callbacks = {}
      /\ changes \in Seq(Change) /\ DOMAIN changes = {}
  BY <1>1
<1>5. profile \in [Accounts -> Profile] BY <1>3 DEF Init
<1>6. TypeOK BY <1>1, <1>2, <1>4, <1>5 DEF Init, TypeOK
<1> QED BY <1>1, <1>2, <1>4, <1>6
        DEF AccountInv, ChangesInFront, TabsFollowUser, LabelsFollowProfile

\* After Leave no request has its controller on screen.
LEMMA LeaveCovers ==
    ASSUME NEW sent, IsABag(sent), BagToSet(sent) \subseteq Request,
           NEW answered \in Seq(Asked), Leave(sent, answered), changes \in Seq(Change)
    PROVE  /\ resultLabel' = "empty" /\ queued' = queued
           /\ IsABag(requests') /\ BagToSet(requests') \subseteq Request
           /\ changes' \in Seq(Change)
           /\ callbacks' \in Seq(Request \cup Change)
           /\ \A r \in BagToSet(requests') : InFront(r)'
           /\ ChangesInFront'
           /\ \A i \in DOMAIN callbacks' : InFront(callbacks[i])'
           /\ \A i \in DOMAIN answered : Lasting(answered[i])
                 => \E n \in DOMAIN callbacks' : callbacks'[n].kind = answered[i].kind
<1>1. /\ resultLabel' = "empty" /\ requests' = CoveredBag(sent) /\ changes' = CoveredChanges
      /\ queued' = queued /\ callbacks' = CoveredQueue(answered)
  BY DEF Leave
<1>2. /\ IsABag(requests') /\ BagToSet(requests') \subseteq Request
      /\ \A c \in BagToSet(requests') : ~c.shown
  BY <1>1, CoveredBagTyped
<1>3. /\ callbacks' \in Seq(Request \cup Change)
      /\ \A i \in DOMAIN callbacks' : ~callbacks'[i].shown
      /\ \A i \in DOMAIN answered : Lasting(answered[i])
            => \E n \in DOMAIN callbacks' : callbacks'[n].kind = answered[i].kind
  BY <1>1, CoveredQueueTyped DEF Asked
<1>4. changes' \in Seq(Change) /\ \A i \in DOMAIN changes' : ~changes'[i].shown
  BY <1>1, CoveredChangesTyped
<1> QED BY <1>1, <1>2, <1>3, <1>4 DEF InFront, ChangesInFront

\* Steps that show the login page, or new tabs.
LEMMA NewScreen ==
    ASSUME AccountInv, NEW sent, IsABag(sent), BagToSet(sent) \subseteq Request,
           NEW answered \in Seq(Asked), Leave(sent, answered),
           user' \in Accounts \cup {NoUser}, profile' = profile,
           EnterLogin \/ EnterHome
    PROVE  AccountInv'
<1>1. /\ screen' \in {"login", "home"} /\ appearing' \in BOOLEAN /\ strayed' \in BOOLEAN
      /\ contactsTab' \in {contactsTab, NotLoaded} /\ labels' \in {labels, NotLoaded}
      /\ screen' = "home" => contactsTab' = NotLoaded /\ labels' = NotLoaded
  BY DEF EnterLogin, EnterHome, AccountInv, TypeOK
<1>2. TypeOK' BY <1>1, LeaveCovers DEF AccountInv, TypeOK
<1>3. TabsFollowUser' BY <1>1 DEF TabsFollowUser
<1>4. LabelsFollowProfile' BY <1>1 DEF LabelsFollowProfile
<1>5. changes \in Seq(Change) BY DEF AccountInv, TypeOK
<1> QED BY <1>2, <1>3, <1>4, <1>5, LeaveCovers DEF AccountInv

\* The return to the settings, which shows them anew; the callback that leads
\* there is not that of a deletion.
LEMMA SettingsAgain ==
    ASSUME AccountInv, NEW answered \in Seq(Asked), Leave(requests, answered),
           screen = "edit", ReturnToSettings, UNCHANGED <<user, profile>>,
           \A i \in DOMAIN callbacks : callbacks[i].kind = "delete"
              => \E n \in DOMAIN answered : answered[n].kind = "delete"
    PROVE  AccountInv'
<1>1. /\ screen' = "home" /\ labels' = Current
      /\ UNCHANGED <<appearing, contactsTab, strayed>>
  BY DEF ReturnToSettings
<1>2. Current' = Current BY DEF Current
<1>3. IsABag(requests) /\ BagToSet(requests) \subseteq Request /\ changes \in Seq(Change)
  BY DEF AccountInv, TypeOK
<1>4. TypeOK'
  <2>1. Current \in Profile BY CurrentTyped DEF AccountInv
  <2> QED BY <1>1, <1>3, <2>1, LeaveCovers DEF AccountInv, TypeOK
<1>5. LabelsFollowProfile' BY <1>1, <1>2 DEF LabelsFollowProfile
<1>6. TabsFollowUser'
  <2> SUFFICES ASSUME ~strayed', \A i \in DOMAIN callbacks' : callbacks'[i].kind # "delete"
               PROVE  contactsTab \in {NotLoaded, user}
    BY <1>1 DEF TabsFollowUser
  <2>1. \A n \in DOMAIN answered : answered[n].kind # "delete"
    BY <1>3, LeaveCovers DEF Lasting
  <2>2. \A i \in DOMAIN callbacks : callbacks[i].kind # "delete" BY <2>1
  <2> QED BY <1>1, <2>2 DEF AccountInv, TabsFollowUser
<1> QED BY <1>3, <1>4, <1>5, <1>6, LeaveCovers DEF AccountInv

\* Steps that ask for something from the screen in front.
LEMMA SentFromFront ==
    ASSUME AccountInv,
           UNCHANGED <<user, profile, screen, appearing, contactsTab, labels, callbacks, strayed>>,
           resultLabel' \in {"empty", "confirming", "deleting", "error", "sent"},
           IsABag(requests'), BagToSet(requests') \subseteq Request,
           \A r \in BagToSet(requests') \ BagToSet(requests) : InFront(r),
           changes' \in Seq(Change), queued' \in BOOLEAN, ChangesInFront'
    PROVE  AccountInv'
<1>1. TypeOK' BY DEF AccountInv, TypeOK
<1>2. \A r \in BagToSet(requests') : InFront(r)' BY DEF AccountInv, InFront
<1>3. \A j \in DOMAIN callbacks' : InFront(callbacks[j])' BY DEF AccountInv, InFront
<1>4. TabsFollowUser' BY DEF AccountInv, TabsFollowUser
<1>5. LabelsFollowProfile' BY DEF AccountInv, LabelsFollowProfile, Current
<1> QED BY <1>1, <1>2, <1>3, <1>4, <1>5 DEF AccountInv

LEMMA ChangesStay ==
    ASSUME AccountInv, UNCHANGED <<screen, changes, queued>>
    PROVE  changes' \in Seq(Change) /\ queued' \in BOOLEAN /\ ChangesInFront'
BY DEF AccountInv, TypeOK, ChangesInFront, InFront

\* Steps of the tabs, which send nothing.
LEMMA TabStep ==
    ASSUME AccountInv, OpenContacts \/ OpenSettings \/ EditClicked
    PROVE  AccountInv'
<1>1. UNCHANGED <<user, profile, appearing, resultLabel, requests, changes, queued, callbacks,
                  strayed>>
      /\ screen = "home"
  BY DEF OpenContacts, OpenSettings, EditClicked
<1>2. \/ contactsTab = NotLoaded /\ contactsTab' = user /\ UNCHANGED <<labels, screen>>
      \/ labels' = Current /\ UNCHANGED <<contactsTab, screen>>
      \/ screen' = "edit" /\ UNCHANGED <<contactsTab, labels>>
  BY DEF OpenContacts, OpenSettings, EditClicked
<1>3. Current \in Profile /\ Current' = Current BY <1>1, CurrentTyped DEF AccountInv, Current
<1>4. TypeOK' BY <1>1, <1>2, <1>3 DEF AccountInv, TypeOK
<1>5. /\ \A r \in BagToSet(requests') : ~r.shown
      /\ \A j \in DOMAIN changes' : ~changes'[j].shown
      /\ \A j \in DOMAIN callbacks' : ~callbacks'[j].shown
  BY <1>1 DEF AccountInv, InFront, ChangesInFront
<1>6. TabsFollowUser' BY <1>1, <1>2 DEF AccountInv, TabsFollowUser
<1>7. LabelsFollowProfile' BY <1>1, <1>2, <1>3 DEF AccountInv, LabelsFollowProfile
<1> QED BY <1>4, <1>5, <1>6, <1>7 DEF AccountInv, InFront, ChangesInFront

\* A success: the queue of callbacks has one more.
Succeeds(r) ==
    /\ callbacks' = Append(callbacks, r)
    /\ strayed' = (strayed \/ ~r.shown)
    /\ UNCHANGED <<screen, appearing, resultLabel, contactsTab, labels>>
    /\ user' \in Accounts \cup {NoUser} /\ profile' \in [Accounts -> Profile]
    /\ r.kind \notin {"signIn", "delete"} => user' = user

\* What is asked for and not answered is what was.
Rest ==
    /\ IsABag(requests') /\ BagToSet(requests') \subseteq BagToSet(requests)
    /\ changes' \in Seq(Change) /\ queued' \in BOOLEAN
    /\ \A j \in DOMAIN changes' : \E k \in DOMAIN changes : Same(changes'[j], changes[k])

LEMMA RestInFront ==
    ASSUME AccountInv, Rest, UNCHANGED screen
    PROVE  /\ BagToSet(requests') \subseteq Request /\ \A q \in BagToSet(requests') : InFront(q)'
           /\ ChangesInFront'
<1>1. ASSUME NEW j \in DOMAIN changes' PROVE InFront(changes'[j])
  <2>1. PICK k \in DOMAIN changes : Same(changes'[j], changes[k]) BY DEF Rest
  <2> QED BY <2>1 DEF AccountInv, ChangesInFront, InFront, Same
<1> QED BY <1>1 DEF AccountInv, TypeOK, Rest, ChangesInFront, InFront

LEMMA SuccessStep ==
    ASSUME AccountInv, NEW r \in Asked, InFront(r), Succeeds(r), Rest
    PROVE  AccountInv'
<1>1. callbacks \in Seq(Asked) BY DEF AccountInv, TypeOK, Asked
<1>2. /\ strayed' = (strayed \/ ~r.shown)
      /\ UNCHANGED <<screen, appearing, resultLabel, contactsTab, labels>>
  BY DEF Succeeds
<1>3. BagToSet(requests') \subseteq Request BY <1>2, RestInFront
<1>4. /\ callbacks' \in Seq(Asked)
      /\ \A j \in DOMAIN callbacks' :
            callbacks'[j] = r \/ (j \in DOMAIN callbacks /\ callbacks'[j] = callbacks[j])
      /\ \A j \in DOMAIN callbacks : j \in DOMAIN callbacks' /\ callbacks'[j] = callbacks[j]
      /\ \E j \in DOMAIN callbacks' : callbacks'[j] = r
  BY <1>1, AppendEntries DEF Succeeds
<1>5. TypeOK'
  <2>1. callbacks' \in Seq(Request \cup Change) BY <1>4 DEF Asked
  <2> QED BY <1>2, <1>3, <2>1 DEF AccountInv, TypeOK, Succeeds, Rest
<1>6. TabsFollowUser'
  <2> SUFFICES ASSUME screen \in {"home", "edit"}, ~strayed',
                      \A j \in DOMAIN callbacks' : callbacks'[j].kind # "delete"
               PROVE  contactsTab \in {NotLoaded, user'}
    BY <1>2 DEF TabsFollowUser
  <2>1. r.shown /\ ~strayed /\ r.kind # "delete" BY <1>2, <1>4, RequestFields
  <2>2. r.kind # "signIn" BY <2>1 DEF InFront
  <2>3. user' = user BY <2>1, <2>2 DEF Succeeds
  <2>4. \A j \in DOMAIN callbacks : callbacks[j].kind # "delete" BY <1>4
  <2> QED BY <2>1, <2>3, <2>4 DEF AccountInv, TabsFollowUser
<1>7. LabelsFollowProfile'
  <2>1. screen = "home" => strayed' BY <1>2, RequestFields DEF InFront
  <2> QED BY <1>2, <2>1 DEF LabelsFollowProfile
<1>8. \A j \in DOMAIN callbacks' : InFront(callbacks[j])'
  <2>1. \A j \in DOMAIN callbacks' : InFront(callbacks'[j]) BY <1>4 DEF AccountInv
  <2> QED BY <1>2, <2>1 DEF InFront
<1> QED BY <1>2, <1>5, <1>6, <1>7, <1>8, RestInFront DEF AccountInv

LEMMA RequestAnswered ==
    ASSUME AccountInv, NEW r \in BagToSet(requests), RequestSucceeds(r)
    PROVE  r \in Asked /\ InFront(r) /\ Succeeds(r) /\ Rest
<1>1. /\ r \in Request /\ r \in Asked /\ InFront(r) /\ IsABag(requests)
      /\ profile \in [Accounts -> Profile] /\ changes \in Seq(Change) /\ queued \in BOOLEAN
  BY DEF AccountInv, TypeOK, Asked
<1>2. r.kind \in {"signIn", "delete"} => r.account \in Accounts BY <1>1, RequestFields DEF Lasting
<1>3. user' \in Accounts \cup {NoUser} /\ (r.kind \notin {"signIn", "delete"} => user' = user)
  <2>1. /\ r.kind = "signIn" => user' = r.account
        /\ r.kind = "delete" => user' \in {NoUser, user}
        /\ r.kind \notin {"signIn", "delete"} => user' = user
    BY DEF RequestSucceeds
  <2> QED BY <1>2, <2>1 DEF AccountInv, TypeOK
<1>4. profile' \in [Accounts -> Profile]
  <2>1. NewProfile \in Profile BY DEF NewProfile, Profile
  <2> QED BY <1>1, <2>1 DEF RequestSucceeds
<1>5. Succeeds(r) BY <1>3, <1>4 DEF RequestSucceeds, Succeeds
<1>6. Rest
  <2>1. IsABag(requests') /\ BagToSet(requests') \subseteq BagToSet(requests)
    BY <1>1, OneLess DEF RequestSucceeds
  <2>2. changes' = changes /\ queued' \in BOOLEAN BY <1>1 DEF RequestSucceeds
  <2> QED BY <1>1, <2>1, <2>2 DEF Rest, Same
<1> QED BY <1>1, <1>5, <1>6

LEMMA ChangeLeavesRest ==
    ASSUME AccountInv, NEW i \in DOMAIN changes, ChangeAnswered(i)
    PROVE  changes[i] \in Asked /\ InFront(changes[i]) /\ Rest
<1>1. /\ changes \in Seq(Change) /\ queued \in BOOLEAN /\ IsABag(requests)
      /\ requests' = requests /\ queued' = (queued /\ i # Len(changes))
  BY DEF AccountInv, TypeOK, ChangeAnswered
<1>2. changes[i] \in Asked /\ InFront(changes[i])
  BY <1>1 DEF Asked, AccountInv, ChangesInFront
<1>3. queued' \in BOOLEAN BY <1>1
<1> QED BY <1>1, <1>2, <1>3, AnsweredChange DEF Rest

LEMMA ChangeMade ==
    ASSUME AccountInv, NEW i \in DOMAIN changes, ChangeSucceeds(i)
    PROVE  Succeeds(changes[i])
<1> DEFINE c == changes[i]
<1>1. c \in Change /\ c \in Asked /\ profile \in [Accounts -> Profile]
      /\ user \in Accounts \cup {NoUser}
  BY DEF AccountInv, TypeOK, Asked
<1>2. c.kind \in {"name", "email"} /\ c.account \in Accounts BY <1>1 DEF Change
<1>3. CASE c.kind = "name"
  <2>1. profile' = [profile EXCEPT ![c.account].name = c.value] BY <1>3 DEF ChangeSucceeds
  <2>2. c.value \in Names BY <1>1, <1>3, RequestFields
  <2>3. [profile[c.account] EXCEPT !.name = c.value] \in Profile BY <1>1, <1>2, <2>2 DEF Profile
  <2>4. profile' \in [Accounts -> Profile] BY <1>1, <1>2, <2>1, <2>3
  <2> QED BY <1>1, <2>4 DEF ChangeSucceeds, Succeeds
<1>4. CASE c.kind = "email"
  <2>1. profile' = [profile EXCEPT ![c.account].email = c.value] BY <1>4 DEF ChangeSucceeds
  <2>2. c.value \in Emails BY <1>1, <1>4, RequestFields
  <2>3. [profile[c.account] EXCEPT !.email = c.value] \in Profile BY <1>1, <1>2, <2>2 DEF Profile
  <2>4. profile' \in [Accounts -> Profile] BY <1>1, <1>2, <2>1, <2>3
  <2> QED BY <1>1, <2>4 DEF ChangeSucceeds, Succeeds
<1> QED BY <1>2, <1>3, <1>4

LEMMA FailureStep ==
    ASSUME AccountInv, NEW r, ErrorShown(r), Rest
    PROVE  AccountInv'
<1>1. /\ UNCHANGED <<profile, screen, appearing, contactsTab, labels, callbacks>>
      /\ resultLabel' \in {"error", resultLabel}
      /\ UNCHANGED <<user, strayed>> \/ (user' = NoUser /\ strayed' = TRUE)
  BY DEF ErrorShown
<1>2. TypeOK' BY <1>1, RestInFront DEF AccountInv, TypeOK, Rest
<1>3. TabsFollowUser' BY <1>1 DEF AccountInv, TabsFollowUser
<1>4. LabelsFollowProfile' BY <1>1 DEF AccountInv, LabelsFollowProfile, Current
<1>5. \A j \in DOMAIN callbacks' : InFront(callbacks[j])' BY <1>1 DEF AccountInv, InFront
<1> QED BY <1>1, <1>2, <1>3, <1>4, <1>5, RestInFront DEF AccountInv

\* A request that failed is no longer under way.
LEMMA RequestFailed ==
    ASSUME AccountInv, NEW r \in BagToSet(requests), RequestFails(r)
    PROVE  ErrorShown(r) /\ Rest
<1>1. IsABag(requests) /\ changes \in Seq(Change) /\ queued \in BOOLEAN
  BY DEF AccountInv, TypeOK
<1>2. /\ requests' = requests (-) One(r) /\ UNCHANGED <<changes, queued>> /\ ErrorShown(r)
  BY DEF RequestFails
<1>3. IsABag(requests') /\ BagToSet(requests') \subseteq BagToSet(requests)
  BY <1>1, <1>2, OneLess
<1> QED BY <1>1, <1>2, <1>3 DEF Rest, Same

LEMMA CallbackStep == ASSUME AccountInv, Callback PROVE AccountInv'
<1> DEFINE r == Head(callbacks)
<1>1. callbacks # <<>> /\ callbacks \in Seq(Asked) /\ UNCHANGED <<user, profile>>
  BY DEF Callback, AccountInv, TypeOK, Asked
<1>2. /\ r \in Asked /\ InFront(r) /\ 1 \in DOMAIN callbacks /\ r = callbacks[1]
      /\ Tail(callbacks) \in Seq(Asked)
      /\ \A j \in DOMAIN Tail(callbacks) :
            j + 1 \in DOMAIN callbacks /\ Tail(callbacks)[j] = callbacks[j + 1]
      /\ \A j \in DOMAIN callbacks \ {1} :
            j - 1 \in DOMAIN Tail(callbacks) /\ Tail(callbacks)[j - 1] = callbacks[j]
  BY <1>1, TailEntries DEF AccountInv
<1>3. IsABag(requests) /\ BagToSet(requests) \subseteq Request /\ changes \in Seq(Change)
  BY DEF AccountInv, TypeOK
<1>4. CASE r.shown /\ r.kind \in LeadingKinds
  <2>1. CallbackSegue(r.kind) /\ Leave(requests, Tail(callbacks)) BY <1>4 DEF Callback
  <2>2. user' \in Accounts \cup {NoUser} BY <1>1 DEF AccountInv, TypeOK
  <2>3. CASE EnterLogin \/ EnterHome BY <1>1, <1>2, <1>3, <2>1, <2>2, <2>3, NewScreen
  <2>4. CASE r.kind = "email" /\ ReturnToSettings
    <3>1. screen = "edit" BY <1>2, <1>4, <2>4 DEF InFront
    <3>2. \A j \in DOMAIN callbacks : callbacks[j].kind = "delete"
             => \E n \in DOMAIN Tail(callbacks) : Tail(callbacks)[n].kind = "delete"
      BY <1>2, <2>4
    <3> QED BY <1>1, <1>2, <2>1, <2>4, <3>1, <3>2, SettingsAgain
  <2> QED BY <2>1, <2>3, <2>4 DEF CallbackSegue
<1>5. CASE ~(r.shown /\ r.kind \in LeadingKinds)
  <2>1. /\ callbacks' = Tail(callbacks) /\ resultLabel' \in {"sent", resultLabel}
        /\ strayed' = (strayed \/ ~r.shown)
        /\ UNCHANGED <<user, profile, screen, appearing, contactsTab, labels, requests,
                       changes, queued>>
    BY <1>5 DEF Callback
  <2>2. TypeOK' BY <1>2, <2>1 DEF AccountInv, TypeOK, Asked
  <2>3. TabsFollowUser'
    <3> SUFFICES ASSUME screen \in {"home", "edit"}, ~strayed',
                        \A j \in DOMAIN callbacks' : callbacks'[j].kind # "delete"
                 PROVE  contactsTab \in {NotLoaded, user}
      BY <2>1 DEF TabsFollowUser
    <3>1. r.shown /\ ~strayed BY <1>2, <2>1, RequestFields
    <3>2. r.kind # "delete" BY <1>5, <3>1 DEF LeadingKinds
    <3>3. \A n \in DOMAIN Tail(callbacks) : Tail(callbacks)[n].kind # "delete" BY <2>1
    <3>4. ASSUME NEW j \in DOMAIN callbacks PROVE callbacks[j].kind # "delete"
      <4>1. CASE j = 1 BY <1>2, <3>2, <4>1
      <4>2. CASE j # 1
        <5>1. j - 1 \in DOMAIN Tail(callbacks) /\ Tail(callbacks)[j - 1] = callbacks[j]
          BY <1>2, <4>2
        <5> QED BY <3>3, <5>1
      <4> QED BY <4>1, <4>2
    <3> QED BY <3>1, <3>4 DEF AccountInv, TabsFollowUser
  <2>4. LabelsFollowProfile' BY <2>1 DEF AccountInv, LabelsFollowProfile, Current
  <2>5. \A j \in DOMAIN callbacks' : InFront(callbacks[j])' BY <1>2, <2>1 DEF AccountInv, InFront
  <2>6. ChangesInFront' BY <2>1, ChangesStay
  <2> QED BY <2>1, <2>2, <2>3, <2>4, <2>5, <2>6 DEF AccountInv, InFront
<1> QED BY <1>4, <1>5

LEMMA AccountStep == ASSUME AccountInv, [Next]_vars PROVE AccountInv'
<1>1. /\ IsABag(requests) /\ BagToSet(requests) \subseteq Request /\ callbacks \in Seq(Asked)
      /\ user \in Accounts \cup {NoUser} /\ changes \in Seq(Change) /\ queued \in BOOLEAN
  BY DEF AccountInv, TypeOK, Asked
<1>2. CASE LoginAppears
  <2>1. CASE /\ UNCHANGED <<user, profile, screen, contactsTab, labels, resultLabel, requests>>
             /\ UNCHANGED <<changes, queued, callbacks, strayed>> /\ appearing' = FALSE
    <3>1. TypeOK' BY <2>1 DEF AccountInv, TypeOK
    <3>2. /\ \A r \in BagToSet(requests') : InFront(r)'
          /\ ChangesInFront' /\ \A i \in DOMAIN callbacks' : InFront(callbacks[i])'
      BY <2>1 DEF AccountInv, InFront, ChangesInFront
    <3>3. TabsFollowUser' BY <2>1 DEF AccountInv, TabsFollowUser
    <3>4. LabelsFollowProfile' BY <2>1 DEF AccountInv, LabelsFollowProfile, Current
    <3> QED BY <3>1, <3>2, <3>3, <3>4 DEF AccountInv
  <2>2. CASE EnterHome /\ Leave(requests, callbacks) /\ UNCHANGED <<user, profile>>
    BY <1>1, <2>2, NewScreen
  <2> QED BY <1>2, <2>1, <2>2 DEF LoginAppears
<1>3. ASSUME NEW a \in Accounts, SignInClicked(a) PROVE AccountInv'
  <2> DEFINE r == [kind |-> "signIn", account |-> a, shown |-> TRUE]
  <2>1. /\ screen = "login" /\ requests' = requests (+) One(r)
        /\ UNCHANGED <<user, profile, screen, appearing, resultLabel, contactsTab, labels,
                       changes, queued, callbacks, strayed>>
    BY <1>3 DEF SignInClicked
  <2>2. r \in Request BY DEF Request
  <2>3. InFront(r) BY <2>1 DEF InFront
  <2> HIDE DEF r
  <2>4. IsABag(requests') /\ BagToSet(requests') = BagToSet(requests) \cup {r}
    BY <1>1, <2>1, OneMore
  <2>5. changes' \in Seq(Change) /\ queued' \in BOOLEAN /\ ChangesInFront' BY <2>1, ChangesStay
  <2> QED BY <1>1, <2>1, <2>2, <2>3, <2>4, <2>5, SentFromFront DEF AccountInv, TypeOK
<1>4. CASE RecoveryClicked
  <2>1. /\ screen' = "recovery" /\ Leave(requests, callbacks)
        /\ UNCHANGED <<user, profile, appearing, contactsTab, labels, strayed>>
    BY <1>4 DEF RecoveryClicked
  <2>2. TypeOK' BY <1>1, <2>1, LeaveCovers DEF AccountInv, TypeOK
  <2> QED BY <1>1, <2>1, <2>2, LeaveCovers DEF AccountInv, TabsFollowUser, LabelsFollowProfile
<1>5. CASE ConfirmRecovery
  <2> DEFINE r == [kind |-> "reset", shown |-> TRUE]
  <2>1. /\ screen = "recovery" /\ requests' = requests (+) One(r)
        /\ UNCHANGED <<user, profile, screen, appearing, resultLabel, contactsTab, labels,
                       changes, queued, callbacks, strayed>>
    BY <1>5 DEF ConfirmRecovery
  <2>2. r \in Request BY DEF Request
  <2>3. InFront(r) BY <2>1 DEF InFront
  <2> HIDE DEF r
  <2>4. IsABag(requests') /\ BagToSet(requests') = BagToSet(requests) \cup {r}
    BY <1>1, <2>1, OneMore
  <2>5. changes' \in Seq(Change) /\ queued' \in BOOLEAN /\ ChangesInFront' BY <2>1, ChangesStay
  <2> QED BY <1>1, <2>1, <2>2, <2>3, <2>4, <2>5, SentFromFront DEF AccountInv, TypeOK
<1>6. CASE CancelRecovery \/ SignOutClicked
  <2>1. /\ EnterLogin /\ Leave(requests, callbacks)
        /\ user' \in Accounts \cup {NoUser} /\ profile' = profile
    BY <1>1, <1>6 DEF CancelRecovery, SignOutClicked
  <2> QED BY <1>1, <2>1, NewScreen
<1>7. CASE OpenContacts \/ OpenSettings \/ EditClicked BY <1>7, TabStep
<1>8. ASSUME NEW name \in Names, NEW email \in Emails, ClickedConfirm(name, email)
      PROVE  AccountInv'
  <2> DEFINE r == [kind |-> "name", account |-> user, value |-> name, waits |-> queued,
                   shown |-> TRUE]
             s == [kind |-> "email", account |-> user, value |-> email, waits |-> TRUE,
                   with |-> name, shown |-> TRUE]
  <2>1. /\ screen = "edit" /\ user \in Accounts /\ resultLabel' = "confirming"
        /\ changes' = changes \o <<r, s>> /\ queued' = TRUE /\ requests' = requests
        /\ UNCHANGED <<user, profile, screen, appearing, contactsTab, labels, callbacks, strayed>>
    BY <1>1, <1>8 DEF ClickedConfirm
  <2>2. r \in Change /\ s \in Change BY <1>1, <2>1 DEF Change
  <2>3. InFront(r) /\ InFront(s) BY <2>1 DEF InFront
  <2> HIDE DEF r, s
  <2>4. /\ changes' \in Seq(Change)
        /\ \A j \in DOMAIN changes' :
              changes'[j] \in {r, s} \/ (j \in DOMAIN changes /\ changes'[j] = changes[j])
    BY <1>1, <2>1, <2>2, TwoMore
  <2>5. \A j \in DOMAIN changes' : InFront(changes'[j])
    BY <2>3, <2>4 DEF AccountInv, ChangesInFront
  <2>6. ChangesInFront' BY <2>1, <2>5 DEF ChangesInFront, InFront
  <2> QED BY <1>1, <2>1, <2>4, <2>6, SentFromFront
<1>9. CASE ConfirmRefused
  BY <1>1, <1>9, ChangesStay, SentFromFront DEF ConfirmRefused
<1>10. CASE ClickedDelete
  <2> DEFINE r == [kind |-> "delete", account |-> user, shown |-> TRUE]
  <2>1. /\ screen = "edit" /\ resultLabel' = "deleting"
        /\ requests' = requests \/ (user \in Accounts /\ requests' = requests (+) One(r))
        /\ UNCHANGED <<user, profile, screen, appearing, contactsTab, labels, changes, queued,
                       callbacks, strayed>>
    BY <1>1, <1>10 DEF ClickedDelete
  <2>2. user \in Accounts => r \in Request BY DEF Request
  <2>3. InFront(r) BY <2>1 DEF InFront
  <2> HIDE DEF r
  <2>4. /\ IsABag(requests (+) One(r))
        /\ BagToSet(requests (+) One(r)) = BagToSet(requests) \cup {r}
    BY <1>1, OneMore
  <2>5. changes' \in Seq(Change) /\ queued' \in BOOLEAN /\ ChangesInFront' BY <2>1, ChangesStay
  <2> QED BY <1>1, <2>1, <2>2, <2>3, <2>4, <2>5, SentFromFront
<1>11. CASE ClickedCancel
  <2>1. /\ screen = "edit" /\ ReturnToSettings /\ Leave(requests, callbacks)
        /\ UNCHANGED <<user, profile>>
    BY <1>11 DEF ClickedCancel
  <2> QED BY <1>1, <2>1, SettingsAgain
<1>12. ASSUME NEW r \in BagToSet(requests), RequestSucceeds(r) \/ RequestFails(r)
       PROVE  AccountInv'
  BY <1>12, RequestAnswered, SuccessStep, RequestFailed, FailureStep
<1>13. ASSUME NEW i \in DOMAIN changes, ChangeSucceeds(i) \/ ChangeFails(i)
       PROVE  AccountInv'
  <2>1. changes[i] \in Asked /\ InFront(changes[i]) /\ Rest
    BY <1>13, ChangeLeavesRest DEF ChangeSucceeds, ChangeFails
  <2>2. CASE ChangeSucceeds(i) BY <2>1, <2>2, ChangeMade, SuccessStep
  <2>3. CASE ChangeFails(i)
    <3>1. ErrorShown(changes[i]) BY <2>3 DEF ChangeFails
    <3> QED BY <2>1, <3>1, FailureStep
  <2> QED BY <1>13, <2>2, <2>3
<1>14. CASE Callback BY <1>14, CallbackStep
<1>15. CASE Killed
  <2>1. /\ screen' = "login" /\ appearing' = TRUE /\ resultLabel' = "empty"
        /\ contactsTab' = NotLoaded /\ labels' = NotLoaded
        /\ requests' = EmptyBag /\ changes' = <<>> /\ queued' = FALSE
        /\ callbacks' = <<>> /\ strayed' = FALSE
        /\ UNCHANGED <<user, profile>>
    BY <1>15 DEF Killed
  <2>2. IsABag(requests') /\ BagToSet(requests') = {}
    BY <2>1 DEF EmptyBag, SetToBag, IsABag, BagToSet
  <2>3. /\ callbacks' \in Seq(Request \cup Change) /\ DOMAIN callbacks' = {}
        /\ changes' \in Seq(Change) /\ DOMAIN changes' = {}
    BY <2>1
  <2>4. TypeOK' BY <2>1, <2>2, <2>3 DEF AccountInv, TypeOK
  <2> QED BY <2>1, <2>2, <2>3, <2>4
          DEF AccountInv, ChangesInFront, TabsFollowUser, LabelsFollowProfile
<1>16. CASE UNCHANGED vars
  BY <1>16 DEF vars, AccountInv, TypeOK, InFront, ChangesInFront, TabsFollowUser,
               LabelsFollowProfile, Current
<1> QED BY <1>2, <1>3, <1>4, <1>5, <1>6, <1>7, <1>8, <1>9, <1>10, <1>11, <1>12, <1>13, <1>14,
           <1>15, <1>16 DEF Next

LEMMA AccountInvAlways == Spec => []AccountInv
<1>1. Init => AccountInv BY AccountInit
<1>2. AccountInv /\ [Next]_vars => AccountInv' BY AccountStep
<1> QED BY <1>1, <1>2, PTL DEF Spec, Safe

-----------------------------------------------------------------------------
(* Nobody is left on a screen that no longer fits.                           *)

\* A sign-in that is about to lead home has its user; "Confirming changes..."
\* is left with the edit screen.
StayInv ==
    /\ strayed \/ (FormIsLeft /\ TabsAreLeft)
    /\ ConfirmIsUnderWay
    /\ resultLabel = "confirming" => screen = "edit"
    /\ strayed \/ \A i \in DOMAIN callbacks :
                      callbacks[i].kind = "signIn" /\ callbacks[i].shown => user # NoUser

Parts == /\ IsABag(requests) /\ BagToSet(requests) \subseteq Request
         /\ changes \in Seq(Change) /\ callbacks \in Seq(Asked) /\ user \in Accounts \cup {NoUser}
         /\ strayed \in BOOLEAN

LEMMA PartsTyped == AccountInv => Parts
BY DEF AccountInv, TypeOK, Parts, Asked

LEMMA StayInit == Init => StayInv
BY DEF Init, StayInv, FormIsLeft, TabsAreLeft, ConfirmIsUnderWay

\* Steps that show another screen.
LEMMA ScreenLeft ==
    ASSUME AccountInv, StayInv, NEW answered \in Seq(Asked), Leave(requests, answered),
           \/ EnterLogin
           \/ EnterHome /\ user' = user /\ (strayed \/ user # NoUser)
           \/ screen' = "recovery"
    PROVE  StayInv'
<1>1. Parts BY PartsTyped
<1>2. resultLabel' = "empty" BY DEF Leave
<1>3. \A c \in DOMAIN changes' : ~changes'[c].shown BY <1>1, CoveredChangesTyped DEF Leave, Parts
<1>4. \A i \in DOMAIN callbacks' : ~callbacks'[i].shown BY CoveredQueueTyped DEF Leave
<1>5. CASE EnterLogin
  BY <1>2, <1>4, <1>5
     DEF EnterLogin, StayInv, FormIsLeft, TabsAreLeft, ConfirmIsUnderWay
<1>6. CASE EnterHome /\ user' = user /\ (strayed \/ user # NoUser)
  BY <1>2, <1>4, <1>6
     DEF EnterHome, StayInv, FormIsLeft, TabsAreLeft, ConfirmIsUnderWay
<1>7. CASE screen' = "recovery"
  BY <1>2, <1>4, <1>7
     DEF StayInv, FormIsLeft, TabsAreLeft, ConfirmIsUnderWay
<1> QED BY <1>5, <1>6, <1>7

LEMMA SettingsFit ==
    ASSUME AccountInv, StayInv, NEW answered \in Seq(Asked), Leave(requests, answered),
           screen = "edit", ReturnToSettings, user' = user,
           \A i \in DOMAIN callbacks : callbacks[i].kind = "delete"
              => \E n \in DOMAIN answered : answered[n].kind = "delete"
    PROVE  StayInv'
<1>1. Parts BY PartsTyped
<1>2. resultLabel' = "empty" /\ screen' = "home" /\ strayed' = strayed
  BY DEF Leave, ReturnToSettings
<1>3. \A i \in DOMAIN callbacks' : ~callbacks'[i].shown BY CoveredQueueTyped DEF Leave
<1>4. ASSUME ~strayed PROVE FormIsLeft' /\ TabsAreLeft'
  <2>1. ASSUME user = NoUser PROVE \E n \in DOMAIN callbacks' : callbacks'[n].kind = "delete"
    <3>1. PICK i \in DOMAIN callbacks : callbacks[i].kind = "delete"
      BY <1>4, <2>1 DEF StayInv, TabsAreLeft
    <3>2. PICK n \in DOMAIN answered : answered[n].kind = "delete" BY <3>1
    <3>3. \A k \in DOMAIN answered : Lasting(answered[k])
             => \E m \in DOMAIN callbacks' : callbacks'[m].kind = answered[k].kind
      BY <1>1, LeaveCovers DEF Parts
    <3> QED BY <3>2, <3>3 DEF Lasting
  <2> QED BY <1>2, <2>1 DEF FormIsLeft, TabsAreLeft
<1> QED BY <1>2, <1>3, <1>4 DEF StayInv, ConfirmIsUnderWay

\* The change that "Confirming changes..." waits for.
Confirming(c) == c.kind = "email" /\ c.shown

\* Steps that keep the screen and what is under way.
LEMMA StayOn ==
    ASSUME StayInv, UNCHANGED <<user, screen, appearing, changes, callbacks, strayed>>,
           resultLabel' = "confirming" => UNCHANGED resultLabel
    PROVE  StayInv'
BY DEF StayInv, FormIsLeft, TabsAreLeft, ConfirmIsUnderWay

LEMMA SuccessLeaves ==
    ASSUME AccountInv, StayInv, NEW r \in Asked, InFront(r), Succeeds(r),
           r.kind = "signIn" => user' = r.account,
           r.kind = "delete" => user' \in {user, NoUser},
           \A k \in DOMAIN changes : Confirming(changes[k])
              => Confirming(r) \/ \E j \in DOMAIN changes' : Confirming(changes'[j])
    PROVE  StayInv'
<1>1. Parts /\ r.shown \in BOOLEAN BY PartsTyped, RequestFields
<1>2. /\ callbacks' = Append(callbacks, r)
      /\ strayed' = (strayed \/ ~r.shown)
      /\ UNCHANGED <<screen, appearing, resultLabel>>
  BY DEF Succeeds
<1>3. /\ \A j \in DOMAIN callbacks' :
            callbacks'[j] = r \/ (j \in DOMAIN callbacks /\ callbacks'[j] = callbacks[j])
      /\ \A j \in DOMAIN callbacks : j \in DOMAIN callbacks' /\ callbacks'[j] = callbacks[j]
      /\ \E j \in DOMAIN callbacks' : callbacks'[j] = r
  BY <1>1, <1>2, AppendEntries DEF Parts
<1>4. ConfirmIsUnderWay'
  <2> SUFFICES ASSUME screen = "edit", resultLabel = "confirming"
               PROVE  \/ \E i \in DOMAIN changes' : Confirming(changes'[i])
                      \/ \E i \in DOMAIN callbacks' : Confirming(callbacks'[i])
    BY <1>2 DEF ConfirmIsUnderWay, Confirming
  <2>1. \/ \E k \in DOMAIN changes : Confirming(changes[k])
        \/ \E i \in DOMAIN callbacks : Confirming(callbacks[i])
    BY DEF StayInv, ConfirmIsUnderWay, Confirming
  <2> QED BY <1>3, <2>1
<1>5. CASE ~r.shown BY <1>2, <1>4, <1>5 DEF StayInv
<1>6. CASE r.shown /\ r.kind = "signIn"
  <2>1. screen = "login" /\ user' = r.account BY <1>6 DEF InFront
  <2>2. user' # NoUser BY <1>6, <2>1, RequestFields, UsersAssumption DEF Lasting
  <2>3. FormIsLeft' /\ TabsAreLeft'
    BY <1>2, <1>3, <1>6, <2>1, <2>2 DEF FormIsLeft, TabsAreLeft
  <2> QED BY <1>2, <1>4, <2>2, <2>3 DEF StayInv
<1>7. CASE r.shown /\ r.kind # "signIn"
  <2>1. screen \in {"edit", "recovery"} /\ strayed' = strayed
    BY <1>1, <1>2, <1>7 DEF InFront, Parts
  <2>2. \/ user' = user
        \/ user' = NoUser /\ \E j \in DOMAIN callbacks' : callbacks'[j].kind = "delete"
    BY <1>3, <1>7 DEF Succeeds
  <2>3. strayed \/ (FormIsLeft' /\ TabsAreLeft')
    BY <1>2, <1>3, <2>1, <2>2 DEF StayInv, FormIsLeft, TabsAreLeft
\* No sign-in is shown on these screens.
  <2>4. \A i \in DOMAIN callbacks' :
           ~(callbacks'[i].kind = "signIn" /\ callbacks'[i].shown)
    BY <1>3, <1>7, <2>1 DEF AccountInv, InFront
  <2> QED BY <1>2, <1>4, <2>1, <2>3, <2>4 DEF StayInv
<1> QED BY <1>1, <1>5, <1>6, <1>7

LEMMA FailureLeaves ==
    ASSUME AccountInv, StayInv, NEW r, ErrorShown(r),
           \A k \in DOMAIN changes : Confirming(changes[k])
              => Confirming(r) \/ \E j \in DOMAIN changes' : Confirming(changes'[j])
    PROVE  StayInv'
<1>1. /\ resultLabel' = IF screen \in {"edit", "recovery"} /\ r.shown THEN "error" ELSE resultLabel
      /\ UNCHANGED <<user, strayed>> \/ strayed' = TRUE
      /\ UNCHANGED <<screen, appearing, callbacks>>
  BY DEF ErrorShown
<1>2. ConfirmIsUnderWay'
  <2> SUFFICES ASSUME screen = "edit", resultLabel' = "confirming"
               PROVE  \/ \E i \in DOMAIN changes' : Confirming(changes'[i])
                      \/ \E i \in DOMAIN callbacks : Confirming(callbacks[i])
    BY <1>1 DEF ConfirmIsUnderWay, Confirming
  <2>1. resultLabel = "confirming" /\ ~r.shown BY <1>1
  <2>2. \/ \E k \in DOMAIN changes : Confirming(changes[k])
        \/ \E i \in DOMAIN callbacks : Confirming(callbacks[i])
    BY <2>1 DEF StayInv, ConfirmIsUnderWay, Confirming
  <2>3. ~Confirming(r) BY <2>1 DEF Confirming
  <2> QED BY <2>2, <2>3
<1>3. strayed' \/ (FormIsLeft' /\ TabsAreLeft')
  BY <1>1 DEF StayInv, FormIsLeft, TabsAreLeft
<1>4. strayed' \/ \A i \in DOMAIN callbacks' :
                    callbacks'[i].kind = "signIn" /\ callbacks'[i].shown => user' # NoUser
  BY <1>1 DEF StayInv
<1> QED BY <1>1, <1>2, <1>3, <1>4 DEF StayInv

\* Of the changes under way an answer takes one.
LEMMA ConfirmingStays ==
    ASSUME AccountInv, NEW i \in DOMAIN changes, ChangeAnswered(i)
    PROVE  \A k \in DOMAIN changes : Confirming(changes[k])
              => Confirming(changes[i]) \/ \E j \in DOMAIN changes' : Confirming(changes'[j])
<1> SUFFICES ASSUME NEW k \in DOMAIN changes, Confirming(changes[k]), ~Confirming(changes[i])
             PROVE  \E j \in DOMAIN changes' : Confirming(changes'[j])
  OBVIOUS
<1>1. changes \in Seq(Change) BY DEF AccountInv, TypeOK
<1>2. k # i OBVIOUS
<1>3. PICK j \in DOMAIN changes' : Same(changes'[j], changes[k])
  BY <1>1, <1>2, AnsweredChange
<1> QED BY <1>3 DEF Same, Confirming

LEMMA RequestLeaves ==
    ASSUME AccountInv, StayInv, NEW r \in BagToSet(requests), RequestSucceeds(r)
    PROVE  StayInv'
<1>1. r \in Asked /\ InFront(r) /\ Succeeds(r) BY RequestAnswered
<1>2. /\ r.kind = "signIn" => user' = r.account
      /\ r.kind = "delete" => user' \in {user, NoUser}
      /\ changes' = changes
  BY DEF RequestSucceeds
<1> QED BY <1>1, <1>2, SuccessLeaves

LEMMA ChangeLeaves ==
    ASSUME AccountInv, StayInv, NEW i \in DOMAIN changes, ChangeSucceeds(i)
    PROVE  StayInv'
<1>1. ChangeAnswered(i) /\ Succeeds(changes[i]) BY ChangeMade DEF ChangeSucceeds
<1>2. changes[i] \in Asked /\ InFront(changes[i]) BY <1>1, ChangeLeavesRest
<1>3. changes[i].kind \in {"name", "email"}
  <2>1. changes[i] \in Change BY DEF AccountInv, TypeOK
  <2> QED BY <2>1 DEF Change
<1> QED BY <1>1, <1>2, <1>3, ConfirmingStays, SuccessLeaves

LEMMA CallbackLeaves == ASSUME AccountInv, StayInv, Callback PROVE StayInv'
<1> DEFINE r == Head(callbacks)
<1>1. Parts /\ callbacks # <<>> /\ UNCHANGED <<user, profile>> BY PartsTyped DEF Callback
<1>2. /\ r \in Asked /\ InFront(r) /\ r.shown \in BOOLEAN
      /\ 1 \in DOMAIN callbacks /\ r = callbacks[1]
      /\ Tail(callbacks) \in Seq(Asked)
      /\ \A j \in DOMAIN Tail(callbacks) :
            j + 1 \in DOMAIN callbacks /\ Tail(callbacks)[j] = callbacks[j + 1]
      /\ \A j \in DOMAIN callbacks \ {1} :
            j - 1 \in DOMAIN Tail(callbacks) /\ Tail(callbacks)[j - 1] = callbacks[j]
  BY <1>1, TailEntries, RequestFields DEF AccountInv, Parts
<1>3. CASE r.shown /\ r.kind \in LeadingKinds
  <2>1. CallbackSegue(r.kind) /\ Leave(requests, Tail(callbacks)) BY <1>3 DEF Callback
  <2>2. CASE EnterLogin BY <1>2, <2>1, <2>2, ScreenLeft
  <2>3. CASE r.kind = "signIn" /\ EnterHome
    <3>1. strayed \/ user # NoUser BY <1>2, <1>3, <2>3 DEF StayInv
    <3> QED BY <1>1, <1>2, <2>1, <2>3, <3>1, ScreenLeft
  <2>4. CASE r.kind = "email" /\ ReturnToSettings
    <3>1. screen = "edit" BY <1>2, <1>3, <2>4 DEF InFront
    <3>2. \A j \in DOMAIN callbacks : callbacks[j].kind = "delete"
             => \E n \in DOMAIN Tail(callbacks) : Tail(callbacks)[n].kind = "delete"
      BY <1>2, <2>4
    <3> QED BY <1>1, <1>2, <2>1, <2>4, <3>1, <3>2, SettingsFit
  <2> QED BY <2>1, <2>2, <2>3, <2>4 DEF CallbackSegue
<1>4. CASE ~(r.shown /\ r.kind \in LeadingKinds)
  <2>1. /\ callbacks' = Tail(callbacks) /\ resultLabel' \in {"sent", resultLabel}
        /\ strayed' = (strayed \/ ~r.shown)
        /\ UNCHANGED <<user, screen, appearing, changes>>
    BY <1>4 DEF Callback
  <2>2. \A j \in DOMAIN callbacks :
           callbacks[j] = r \/ \E n \in DOMAIN callbacks' : callbacks'[n] = callbacks[j]
    BY <1>2, <2>1
  <2>3. \A n \in DOMAIN callbacks' : \E j \in DOMAIN callbacks : callbacks'[n] = callbacks[j]
    BY <1>2, <2>1
\* The one taken is not one that a screen waits for.
  <2>4. ConfirmIsUnderWay' BY <1>4, <2>1, <2>2 DEF StayInv, ConfirmIsUnderWay, LeadingKinds
  <2>5. strayed' \/ (FormIsLeft' /\ TabsAreLeft')
    BY <1>4, <2>1, <2>2 DEF StayInv, FormIsLeft, TabsAreLeft, LeadingKinds
  <2> QED BY <2>1, <2>3, <2>4, <2>5 DEF StayInv
<1> QED BY <1>3, <1>4

LEMMA StayStep == ASSUME AccountInv, StayInv, [Next]_vars PROVE StayInv'
<1>1. Parts BY PartsTyped
<1>2. CASE LoginAppears
  <2>1. CASE user # NoUser /\ EnterHome /\ Leave(requests, callbacks) /\ user' = user
    BY <1>1, <2>1, ScreenLeft DEF Parts
  <2>2. CASE user = NoUser /\ UNCHANGED <<user, screen, resultLabel, changes, callbacks, strayed>>
    BY <2>2 DEF StayInv, FormIsLeft, TabsAreLeft, ConfirmIsUnderWay
  <2> QED BY <1>2, <2>1, <2>2 DEF LoginAppears
<1>3. ASSUME NEW a \in Accounts, SignInClicked(a) PROVE StayInv'
  BY <1>3, StayOn DEF SignInClicked
<1>4. CASE RecoveryClicked BY <1>1, <1>4, ScreenLeft DEF RecoveryClicked, Parts
<1>5. CASE ConfirmRecovery BY <1>5, StayOn DEF ConfirmRecovery
<1>6. CASE CancelRecovery \/ SignOutClicked
  BY <1>1, <1>6, ScreenLeft DEF CancelRecovery, SignOutClicked, Parts
<1>7. CASE OpenContacts \/ OpenSettings
  BY <1>7, StayOn DEF OpenContacts, OpenSettings
\* No change is being confirmed when the edit screen is shown.
<1>8. CASE EditClicked
  BY <1>8 DEF EditClicked, StayInv, FormIsLeft, TabsAreLeft, ConfirmIsUnderWay
<1>9. ASSUME NEW name \in Names, NEW email \in Emails, ClickedConfirm(name, email)
      PROVE  StayInv'
  <2> DEFINE r == [kind |-> "name", account |-> user, value |-> name, waits |-> queued,
                   shown |-> TRUE]
             s == [kind |-> "email", account |-> user, value |-> email, waits |-> TRUE,
                   with |-> name, shown |-> TRUE]
  <2>1. /\ screen = "edit" /\ changes' = changes \o <<r, s>>
        /\ UNCHANGED <<user, screen, appearing, callbacks, strayed>>
    BY <1>9 DEF ClickedConfirm
  <2>2. Confirming(s) BY DEF Confirming
  <2> HIDE DEF r, s
  <2>3. changes \in Seq(Change \cup {r, s}) BY <1>1 DEF Parts
  <2>4. Len(changes) + 2 \in DOMAIN changes' /\ changes'[Len(changes) + 2] = s
    BY <2>1, <2>3, TwoMore
  <2>5. ConfirmIsUnderWay' BY <2>2, <2>4 DEF ConfirmIsUnderWay, Confirming
  <2> QED BY <2>1, <2>5 DEF StayInv, FormIsLeft, TabsAreLeft
<1>10. CASE ConfirmRefused BY <1>10, StayOn DEF ConfirmRefused
<1>11. CASE ClickedDelete BY <1>11, StayOn DEF ClickedDelete
<1>12. CASE ClickedCancel BY <1>1, <1>12, SettingsFit DEF ClickedCancel, Parts
<1>13. ASSUME NEW r \in BagToSet(requests), RequestSucceeds(r) \/ RequestFails(r)
       PROVE  StayInv'
  <2>1. CASE RequestSucceeds(r) BY <2>1, RequestLeaves
  <2>2. CASE RequestFails(r) BY <2>2, FailureLeaves DEF RequestFails
  <2> QED BY <1>13, <2>1, <2>2
<1>14. ASSUME NEW i \in DOMAIN changes, ChangeSucceeds(i) \/ ChangeFails(i)
       PROVE  StayInv'
  <2>1. CASE ChangeSucceeds(i) BY <2>1, ChangeLeaves
  <2>2. CASE ChangeFails(i) BY <2>2, ConfirmingStays, FailureLeaves DEF ChangeFails
  <2> QED BY <1>14, <2>1, <2>2
<1>15. CASE Callback BY <1>15, CallbackLeaves
<1>16. CASE Killed
  BY <1>16 DEF Killed, StayInv, FormIsLeft, TabsAreLeft, ConfirmIsUnderWay
<1>17. CASE UNCHANGED vars
  BY <1>17 DEF vars, StayInv, FormIsLeft, TabsAreLeft, ConfirmIsUnderWay
<1> QED BY <1>2, <1>3, <1>4, <1>5, <1>6, <1>7, <1>8, <1>9, <1>10, <1>11, <1>12, <1>13, <1>14,
           <1>15, <1>16, <1>17 DEF Next

\* Whatever is answered or fails, and in whatever order the SDK allows, what is
\* under way belongs to some account, and the screens show accounts that exist.
THEOREM TypeCorrect == Spec => []TypeOK
<1>1. AccountInv => TypeOK BY DEF AccountInv
<1> QED BY <1>1, AccountInvAlways, PTL

\* The contacts tab observes the node of the user who is signed in, unless an
\* answer came after its screen was left (SettingsPageViewController,
\* EditAccountViewController and ContactsViewController.viewDidLoad).
THEOREM TabsFollowUserAlways == Spec => []TabsFollowUser
<1>1. AccountInv => TabsFollowUser BY DEF AccountInv
<1> QED BY <1>1, AccountInvAlways, PTL

\* The settings page shows the account as it is, however the two changes of a
\* Confirm end (SettingsPageViewController, unwindToSettings).
THEOREM LabelsFollowProfileAlways == Spec => []LabelsFollowProfile
<1>1. AccountInv => LabelsFollowProfile BY DEF AccountInv
<1> QED BY <1>1, AccountInvAlways, PTL

\* A signed-in user's form, the tabs of a user who is gone and "Confirming
\* changes..." each have the answer under way that will leave them, unless an
\* answer came after its screen was left (LoginViewController,
\* SettingsPageViewController, EditAccountViewController).
THEOREM NobodyIsStrandedAlways == Spec => []NobodyIsStranded
<1>1. Init => AccountInv /\ StayInv BY AccountInit, StayInit
<1>2. (AccountInv /\ StayInv) /\ [Next]_vars => (AccountInv /\ StayInv)'
  BY AccountStep, StayStep
<1>3. StayInv => NobodyIsStranded BY DEF StayInv, NobodyIsStranded
<1> QED BY <1>1, <1>2, <1>3, PTL DEF Spec, Safe
=============================================================================
