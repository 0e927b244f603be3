---------------------------- MODULE SessionProofs ----------------------------
(***************************************************************************)
(* Theorems about Session.tla and EditFocus.tla, for any addresses, any    *)
(* window and threshold of the crash guard, any debounce, any pages and    *)
(* fields, and any bounds.                                                 *)
(***************************************************************************)
EXTENDS MCSession, FiniteSetTheorems, SequenceTheorems, TLAPS

\* The lemmas about the strips of tabs; the state of Tabs plays no part in them.
Strips == INSTANCE TabsProofs WITH
  Engines <- {0}, Initial <- 0,
  strips <- 0, cur <- 0, confirm <- 0, fresh <- 0, tabIds <- 0, drag <- 0, exiting <- 0

LEMMA Assumed == StackCap \in Nat /\ 0 \in {0} /\ MaxTabs \in Nat
BY StackCapAssumption, BoundsAssumption

-----------------------------------------------------------------------------
(* Strips in use: there is an active tab.                                  *)

TabRecord == [id : Nat, pinned : BOOLEAN]

Good(s) == Strips!Good(s)
InUse(s) == Good(s) /\ s.active \in Positions(s)

\* The tabs of r that s knew have the pins they had.
Alike(s, r) ==
  /\ r.next >= s.next
  /\ \A i \in Positions(r) : r.tabs[i].id < s.next => \E j \in Positions(s) : r.tabs[i] = s.tabs[j]

\* At most one tab has come in, with the next number.
Grows(s, r) == InUse(r) /\ Alike(s, r) /\ Ids(r) \subseteq Ids(s) \cup {s.next}
Stays(s, r) == InUse(r) /\ Alike(s, r) /\ Ids(r) \subseteq Ids(s)

LEMMA GoodIs ==
  ASSUME NEW s, Good(s)
  PROVE  /\ s.tabs \in Seq(TabRecord) /\ s.next \in Nat /\ s.active \in Nat
         /\ s \in Strips!StripSet
         /\ \A i \in Positions(s) : s.tabs[i] \in TabRecord /\ s.tabs[i].id \in Nat /\ s.tabs[i].id < s.next
         /\ \A i, j \in Positions(s) : s.tabs[i].id = s.tabs[j].id => i = j
         /\ \A i \in Positions(s) : s.tabs[i].pinned \in BOOLEAN
<1>1. /\ s \in Strips!StripSet /\ Strips!Distinct(s.tabs)
      /\ \A x \in Strips!Names(s.tabs) : x < s.next
  BY DEF Good, Strips!Good, Strips!Fair
<1>2. /\ s.tabs \in Seq(TabRecord) /\ s.next \in Nat /\ s.active \in Nat
  BY <1>1 DEF Strips!StripSet, Strips!TabSet, TabRecord
<1>3. ASSUME NEW i \in Positions(s)
      PROVE s.tabs[i] \in TabRecord /\ s.tabs[i].id \in Nat /\ s.tabs[i].id < s.next /\ s.tabs[i].pinned \in BOOLEAN
  <2>1. i \in 1 .. Len(s.tabs)
    BY DEF Positions
  <2>2. s.tabs[i] \in TabRecord
    BY <1>2, <2>1, ElementOfSeq
  <2>3. s.tabs[i].id \in Strips!Names(s.tabs)
    BY <2>1 DEF Strips!Names
  <2>4. s.tabs[i].id \in Nat /\ s.tabs[i].pinned \in BOOLEAN
    BY <2>2 DEF TabRecord
  <2>5. QED
    BY <1>1, <2>2, <2>3, <2>4
<1>4. \A i, j \in Positions(s) : s.tabs[i].id = s.tabs[j].id => i = j
  BY <1>1 DEF Strips!Distinct, Positions
<1>5. QED
  BY <1>1, <1>2, <1>3, <1>4

LEMMA Alikes ==
  ASSUME NEW s, NEW r, s.next \in Nat, r.next >= s.next,
         \A i \in Positions(r) : \/ r.tabs[i].id = s.next
                                 \/ \E j \in Positions(s) : r.tabs[i] = s.tabs[j]
  PROVE  Alike(s, r)
BY DEF Alike

LEMMA NamesAreIds == ASSUME NEW s PROVE Strips!Names(s.tabs) = Ids(s)
BY DEF Strips!Names, Ids, Positions

LEMMA Activated ==
  ASSUME NEW s, Good(s), NEW i \in Positions(s)
  PROVE  /\ Stays(s, SetActive(s, i))
         /\ SetActive(s, i).tabs = s.tabs /\ SetActive(s, i).active = i /\ SetActive(s, i).next = s.next
<1> DEFINE r == Strips!SetActive(s, i)
<1>1. r = SetActive(s, i)
  BY DEF SetActive, Strips!SetActive, Positions, Strips!Positions, ActiveId, Strips!ActiveId
<1>2. Strips!Fair(s) /\ i \in 1 .. Len(s.tabs)
  BY DEF Good, Strips!Good, Positions
<1>3. Strips!Good(r) /\ r.tabs = s.tabs /\ r.next = s.next /\ r.active = i
  BY <1>2, Assumed, Strips!SetActiveIs
<1> HIDE DEF r
<1>4. s.next \in Nat
  BY GoodIs
<1>5. Stays(s, r)
  BY <1>3, <1>4 DEF Stays, InUse, Good, Alike, Positions, Ids
<1>6. QED
  BY <1>1, <1>3, <1>5

LEMMA Grown ==
  ASSUME NEW S, NEW t \in Seq(S), NEW e \in S, NEW u, u = Append(t, e)
  PROVE  /\ u \in Seq(S) /\ Len(u) = Len(t) + 1 /\ u[Len(t) + 1] = e
         /\ \A j \in 1 .. Len(t) : u[j] = t[j]
BY AppendProperties

LEMMA LenIs ==
  ASSUME NEW S, NEW t \in Seq(S), NEW n \in Nat, DOMAIN t = 1 .. n
  PROVE  Len(t) = n
<1> DEFINE m == Len(t)
<1>1. m \in Nat /\ 1 .. m = 1 .. n
  BY LenProperties
<1> HIDE DEF m
<1>2. \A k \in Nat : k \in 1 .. m <=> k \in 1 .. n
  BY <1>1
<1>3. n <= m
  <2>1. n = 0 \/ n \in 1 .. n
    OBVIOUS
  <2>2. QED
    BY <1>1, <1>2, <2>1
<1>4. m <= n
  <2>1. m = 0 \/ m \in 1 .. m
    BY <1>1
  <2>2. QED
    BY <1>1, <1>2, <2>1
<1>5. m = n
  BY <1>1, <1>3, <1>4
<1>6. QED
  BY <1>5 DEF m

\* The newcomer is behind the others.
Gained(s, r, a) ==
  /\ r.tabs = Append(s.tabs, Tab(s.next, FALSE)) /\ r.next = s.next + 1 /\ r.active = a
  /\ Len(r.tabs) = Len(s.tabs) + 1 /\ r.tabs[Len(s.tabs) + 1] = Tab(s.next, FALSE)
  /\ \A j \in 1 .. Len(s.tabs) : r.tabs[j] = s.tabs[j]

LEMMA OpenedTabs ==
  ASSUME NEW s, Good(s), NEW background \in BOOLEAN
  PROVE  Gained(s, Opened(s, background), IF background THEN s.active ELSE Len(s.tabs) + 1)
<1> DEFINE n == Len(s.tabs)
           r == Opened(s, background)
           e == Tab(s.next, FALSE)
<1>1. s.tabs \in Seq(TabRecord) /\ s.next \in Nat /\ n \in Nat /\ n + 1 \in 1 .. n + 1
  <2>1. s.tabs \in Seq(TabRecord) /\ s.next \in Nat
    BY GoodIs
  <2>2. n \in Nat
    BY <2>1, LenProperties
  <2>3. QED
    BY <2>1, <2>2
<1>2. /\ r.tabs = Append(s.tabs, e) /\ r.next = s.next + 1
      /\ r.active = IF background THEN s.active ELSE n + 1
  <2>0. r = Opened(s, background)
    OBVIOUS
  <2> HIDE DEF r
  <2> DEFINE p == [s EXCEPT !.tabs = Append(s.tabs, e), !.next = s.next + 1,
                            !.shown = IF background THEN s.shown ELSE s.shown \cup {e.id}]
  <2>1. s \in [tabs : Seq(TabRecord), active : Nat, stack : Seq(Strips!EntrySet), shown : SUBSET Nat, next : Nat]
    BY GoodIs DEF Strips!StripSet, Strips!TabSet, TabRecord
  <2>2. p.tabs = Append(s.tabs, e) /\ p.next = s.next + 1 /\ p.active = s.active
    BY <2>1
  <2>3. Len(p.tabs) = n + 1
    BY <1>1, <2>2, AppendProperties DEF Tab, TabRecord
  <2>4. r = IF background THEN p ELSE SetActive(p, Len(p.tabs))
    BY <2>0 DEF Opened
  <2>5. p \in [tabs : {p.tabs}, active : {p.active}, stack : {p.stack}, shown : {p.shown}, next : {p.next}]
    BY <2>1
  <2> HIDE DEF p
  <2>6. CASE background
    BY <2>2, <2>4, <2>6
  <2>7. CASE ~background
    <3>1. r = SetActive(p, n + 1)
      BY <2>3, <2>4, <2>7
    <3>2. n + 1 \in Positions(p)
      BY <1>1, <2>3 DEF Positions
    <3>3. r.tabs = p.tabs /\ r.next = p.next /\ r.active = n + 1
      BY <2>5, <3>1, <3>2 DEF SetActive
    <3>4. QED
      BY <2>2, <2>7, <3>3
  <2>8. QED
    BY <2>6, <2>7
<1>3. Len(r.tabs) = n + 1 /\ r.tabs[n + 1] = e /\ \A j \in 1 .. n : r.tabs[j] = s.tabs[j]
  <2> DEFINE t == s.tabs
             u == r.tabs
  <2>1. e \in TabRecord
    BY <1>1 DEF Tab, TabRecord
  <2>2. t \in Seq(TabRecord) /\ u = Append(t, e)
    BY <1>1, <1>2
  <2> HIDE DEF t, u, e
  <2>3. Len(u) = Len(t) + 1 /\ u[Len(t) + 1] = e /\ \A j \in 1 .. Len(t) : u[j] = t[j]
    BY <2>1, <2>2, Grown
  <2>4. QED
    BY <2>3 DEF t, u
<1> HIDE DEF r
<1>4. QED
  BY <1>2, <1>3 DEF Gained, r

LEMMA OpenedAlike ==
  ASSUME NEW s, InUse(s), NEW background \in BOOLEAN
  PROVE  Grows(s, Opened(s, background))
<1> DEFINE r == Strips!Opened(s, background)
           n == Len(s.tabs)
<1>1. r = Opened(s, background)
  BY DEF Opened, Strips!Opened, SetActive, Strips!SetActive, Positions, Strips!Positions, ActiveId,
     Strips!ActiveId,
         Tab, Strips!Tab
<1>2. Good(s) /\ s.active \in Positions(s)
  BY DEF InUse
<1>3. Good(r)
  BY <1>2, Assumed, Strips!OpenedIs DEF Good
<1>4. s.tabs \in Seq(TabRecord) /\ s.next \in Nat /\ n \in Nat /\ n + 1 \in 1 .. n + 1
  <2>1. s.tabs \in Seq(TabRecord) /\ s.next \in Nat
    BY <1>2, GoodIs
  <2>2. n \in Nat
    BY <2>1, LenProperties
  <2>3. QED
    BY <2>1, <2>2
<1>5. /\ r.next = s.next + 1 /\ r.active = (IF background THEN s.active ELSE n + 1)
      /\ Len(r.tabs) = n + 1 /\ r.tabs[n + 1] = Tab(s.next, FALSE)
      /\ \A j \in 1 .. n : r.tabs[j] = s.tabs[j]
  <2>1. Gained(s, Opened(s, background), IF background THEN s.active ELSE n + 1)
    BY <1>2, OpenedTabs
  <2> HIDE DEF r
  <2>2. Gained(s, r, IF background THEN s.active ELSE n + 1)
    BY <1>1, <2>1
  <2>3. QED
    BY <2>2 DEF Gained
<1> HIDE DEF r
<1>7. ASSUME NEW j \in Positions(r)
      PROVE r.tabs[j] = Tab(s.next, FALSE) \/ \E k \in Positions(s) : r.tabs[j] = s.tabs[k]
  <2>1. j \in 1 .. n + 1
    BY <1>5 DEF Positions
  <2>2. j = n + 1 \/ j \in 1 .. n
    BY <1>4, <2>1
  <2>3. QED
    BY <1>5, <2>2 DEF Positions
<1>8. Alike(s, r)
  <2>1. Tab(s.next, FALSE).id = s.next
    BY DEF Tab
  <2>2. r.next >= s.next
    BY <1>4, <1>5
  <2>3. \A i \in Positions(r) : \/ r.tabs[i].id = s.next
                                \/ \E j \in Positions(s) : r.tabs[i] = s.tabs[j]
    BY <1>7, <2>1
  <2>4. QED
    BY <1>4, <2>2, <2>3, Alikes
<1>9. Ids(r) \subseteq Ids(s) \cup {s.next}
  <2>1. Tab(s.next, FALSE).id = s.next
    BY DEF Tab
  <2>2. QED
    BY <1>7, <2>1 DEF Ids
<1>10. r.active \in Positions(r)
  <2>1. s.active \in 1 .. n
    BY <1>2 DEF Positions
  <2>2. r.active \in 1 .. n + 1
    BY <1>4, <1>5, <2>1
  <2>3. QED
    BY <1>5, <2>2 DEF Positions
<1>11. QED
  BY <1>1, <1>3, <1>8, <1>9, <1>10 DEF Grows, InUse

LEMMA OpenedAtAlike ==
  ASSUME NEW s, InUse(s), NEW i \in Nat \ {0}
  PROVE  Grows(s, OpenedAt(s, i))
<1> DEFINE r == Strips!OpenedAt(s, i)
<1>1. r = OpenedAt(s, i)
  BY ZenonT(40) DEF OpenedAt, Strips!OpenedAt, Opened, Strips!Opened, SetActive, Strips!SetActive, Positions,
     Strips!Positions,
         ActiveId, Strips!ActiveId, Tab, Strips!Tab, Min, Strips!Min, InsertAt, Strips!InsertAt, Front, Strips!Front,
         Last, Strips!Last
<1>2. Good(s) /\ s.active \in Positions(s)
  BY DEF InUse
<1>3. /\ Strips!Good(r) /\ Strips!ActiveId(r) # {} /\ Strips!OneMore(s, r)
      /\ Strips!Names(r.tabs) \subseteq Strips!Names(s.tabs) \cup {s.next}
  BY <1>2, Assumed, Strips!OpenedAtIs DEF Good
<1> HIDE DEF r
<1>4. r.active \in Positions(r)
  BY <1>3 DEF Strips!ActiveId, Strips!Positions, Positions
<1>5. Ids(r) \subseteq Ids(s) \cup {s.next}
  BY <1>3, NamesAreIds
<1>6. s.next \in Nat
  BY <1>2, GoodIs
<1>7. Alike(s, r)
  <2>1. r.next >= s.next
    BY <1>3, <1>6 DEF Strips!OneMore
  <2>2. \A j \in Positions(r) : \/ r.tabs[j].id = s.next
                                \/ \E k \in Positions(s) : r.tabs[j] = s.tabs[k]
    BY <1>3 DEF Strips!OneMore, Strips!Tab, Positions
  <2>3. QED
    BY <1>6, <2>1, <2>2, Alikes
<1>8. QED
  BY <1>1, <1>3, <1>4, <1>5, <1>7 DEF Grows, InUse, Good

\* A method that drops no more than tabs, and leaves one active.
LEMMA SameAlike ==
  ASSUME NEW s, NEW r, s.next \in Nat, r.next = s.next, Strips!SameTabs(s, r)
  PROVE  Alike(s, r) /\ Ids(r) \subseteq Ids(s)
<1>1. \A j \in Positions(r) : \E k \in Positions(s) : r.tabs[j] = s.tabs[k]
  BY DEF Strips!SameTabs, Positions
<1>2. Alike(s, r)
  BY <1>1, Alikes
<1>3. QED
  BY <1>1, <1>2 DEF Ids

LEMMA GoodActive ==
  ASSUME NEW r, Good(r), r.active # 0
  PROVE  InUse(r)
<1>1. r.active \in 0 .. Len(r.tabs)
  BY DEF Good, Strips!Good
<1>2. r.tabs \in Seq(TabRecord)
  BY GoodIs
<1>3. Len(r.tabs) \in Nat
  BY <1>2, LenProperties
<1>4. QED
  BY <1>1, <1>3 DEF InUse, Positions

LEMMA MovedAlike ==
  ASSUME NEW s, InUse(s), NEW from \in Nat, NEW target \in Nat
  PROVE  Stays(s, Moved(s, from, target))
<1> DEFINE r == Strips!Moved(s, from, target)
<1>1. r = Moved(s, from, target)
  BY DEF Moved, Strips!Moved, PinnedCount, Strips!PinnedCount, Positions, Strips!Positions, Max,
     Strips!Max,
         Min, Strips!Min, InsertAt, Strips!InsertAt, RemoveAt, Strips!RemoveAt, ShiftedByMove, Strips!ShiftedByMove,
         Cardinality, Strips!Cardinality, IsFiniteSet, Strips!IsFiniteSet
<1>2. Good(s) /\ s.active \in Positions(s)
  BY DEF InUse
<1>3. s.active \in Nat /\ s.active # 0 /\ s.next \in Nat /\ s \in Strips!StripSet
  BY <1>2, GoodIs DEF Positions
<1>4. Strips!Good(r) /\ r.active # 0 /\ Strips!SameTabs(s, r)
  BY <1>2, <1>3, Assumed, Strips!MovedIs DEF Good
<1>5. r.next = s.next
  BY <1>3 DEF Strips!Moved, Strips!StripSet
<1> HIDE DEF r
<1>6. Alike(s, r) /\ Ids(r) \subseteq Ids(s)
  BY <1>3, <1>4, <1>5, SameAlike
<1>7. InUse(r)
  BY <1>4, GoodActive DEF Good
<1>8. QED
  BY <1>1, <1>6, <1>7 DEF Stays

LEMMA ClosedAlike ==
  ASSUME NEW s, InUse(s), NEW i \in Positions(s), Len(s.tabs) > 1
  PROVE  Stays(s, Closed(s, i, TRUE))
<1> DEFINE r == Strips!Closed(s, i, TRUE)
<1>1. r = Closed(s, i, TRUE)
  BY DEF Closed, Strips!Closed, SetActive, Strips!SetActive, Positions, Strips!Positions, ActiveId,
     Strips!ActiveId,
         Min, Strips!Min, RemoveAt, Strips!RemoveAt, ActiveAfterClose, Strips!ActiveAfterClose,
         Stashed, Strips!Stashed
<1>2. Good(s)
  BY DEF InUse
<1>3. s.next \in Nat /\ i \in 1 .. Len(s.tabs) /\ Len(s.tabs) # 1
  <2>1. s.next \in Nat /\ s.tabs \in Seq(TabRecord)
    BY <1>2, GoodIs
  <2>2. Len(s.tabs) \in Nat
    BY <2>1, LenProperties
  <2>3. Len(s.tabs) # 1
    <3> DEFINE n == Len(s.tabs)
    <3>1. n \in Nat /\ n > 1
      BY <2>2
    <3> HIDE DEF n
    <3>2. n # 1
      BY <3>1
    <3>3. QED
      BY <3>2 DEF n
  <2>4. QED
    BY <2>1, <2>3 DEF Positions
<1>4. Strips!Good(r) /\ Strips!OneLess(s, r)
  BY <1>2, <1>3, Assumed, Strips!ClosedIs DEF Good
<1> HIDE DEF r
<1>5. r.active # 0 /\ Strips!SameTabs(s, r) /\ r.next = s.next
  BY <1>3, <1>4 DEF Strips!OneLess
<1>6. Alike(s, r) /\ Ids(r) \subseteq Ids(s)
  BY <1>3, <1>5, SameAlike
<1>7. InUse(r)
  BY <1>4, <1>5, GoodActive DEF Good
<1>8. QED
  BY <1>1, <1>6, <1>7 DEF Stays

LEMMA PinnedStill ==
  ASSUME NEW s, InUse(s), NEW i \in Positions(s), NEW pinned \in BOOLEAN
  PROVE  InUse(WithPin(s, i, pinned)) /\ Ids(WithPin(s, i, pinned)) = Ids(s)
<1> DEFINE r == Strips!WithPin(s, i, pinned)
<1>1. r = WithPin(s, i, pinned)
  BY DEF WithPin, Strips!WithPin, Partitioned, Strips!Partitioned, Positions, Strips!Positions,
     PlaceOf, Strips!PlaceOf,
         ActiveAfterSort, Strips!ActiveAfterSort, ActiveId, Strips!ActiveId,
         Cardinality, Strips!Cardinality, IsFiniteSet, Strips!IsFiniteSet
<1>2. Good(s) /\ s.active \in Positions(s) /\ i \in 1 .. Len(s.tabs)
  BY DEF InUse, Positions
<1>3. Strips!Good(r) /\ Strips!Names(r.tabs) = Strips!Names(s.tabs)
  BY <1>2, Assumed, Strips!WithPinIs DEF Good
<1>4. Strips!ActiveId(r) # {}
  <2>1. Strips!ActiveId(r) = Strips!ActiveId(s)
    BY <1>2, Assumed, Strips!WithPinIs DEF Good
  <2>2. Strips!ActiveId(s) # {}
    BY <1>2 DEF Strips!ActiveId, Strips!Positions, Positions
  <2>3. QED
    BY <2>1, <2>2
<1> HIDE DEF r
<1>5. r.active \in Positions(r)
  BY <1>4 DEF Strips!ActiveId, Strips!Positions, Positions
<1>6. QED
  BY <1>1, <1>3, <1>5, NamesAreIds DEF InUse, Good

-----------------------------------------------------------------------------
(* What is saved.                                                          *)

\* Every tab has an address.
Addressed(s, u) == u \in [DOMAIN u -> Urls] /\ Ids(s) \subseteq DOMAIN u

LEMMA AddressOf ==
  ASSUME NEW s, NEW u, Addressed(s, u), NEW i \in Positions(s)
  PROVE  u[s.tabs[i].id] \in Urls
BY DEF Addressed, Ids

\* Which tab comes k-th once the pinned ones are in front.
Kth(s, k) == CHOOSE i \in Positions(s) : PlaceOf(s, i) = k
Sorted(s) == [k \in Positions(s) |-> s.tabs[Kth(s, k)]]

LEMMA PartitionedTabs ==
  ASSUME NEW s, Good(s)
  PROVE  Partitioned(s).tabs = Sorted(s)
<1>1. s \in Strips!StripSet
  BY GoodIs
<1>2. Partitioned(s) = [s EXCEPT !.tabs = Sorted(s), !.active = ActiveAfterSort(s, Sorted(s))]
  BY DEF Partitioned, Sorted, Kth
<1>3. QED
  BY <1>1, <1>2 DEF Strips!StripSet

LEMMA SortedSame ==
  ASSUME NEW s, NEW r, s.tabs = r.tabs
  PROVE  Sorted(s) = Sorted(r)
BY DEF Sorted, Kth, Positions, PlaceOf

\* Where the pinned tabs are in front, each is at its place.
LEMMA OwnPlace ==
  ASSUME NEW s, Good(s), Strips!PinsFirst(s.tabs), NEW i \in Positions(s)
  PROVE  PlaceOf(s, i) = i
<1> DEFINE n == Len(s.tabs)
           S == {j \in Positions(s) : IF s.tabs[j].pinned = s.tabs[i].pinned THEN j <= i ELSE s.tabs[j].pinned}
<1>1. n \in Nat /\ i \in 1 .. n /\ Positions(s) = 1 .. n
  <2>1. s.tabs \in Seq(TabRecord)
    BY GoodIs
  <2>2. n \in Nat
    BY <2>1, LenProperties
  <2>3. QED
    BY <2>2 DEF Positions
<1>2. \A j \in 1 .. n : s.tabs[j].pinned \in BOOLEAN
  BY <1>1, GoodIs
<1>3. \A j, k \in 1 .. n : j < k /\ s.tabs[k].pinned => s.tabs[j].pinned
  BY DEF Strips!PinsFirst
<1>4. ASSUME NEW j \in 1 .. n
      PROVE (IF s.tabs[j].pinned = s.tabs[i].pinned THEN j <= i ELSE s.tabs[j].pinned) <=> j <= i
  <2>1. CASE s.tabs[j].pinned = s.tabs[i].pinned
    BY <2>1
  <2>2. CASE s.tabs[j].pinned # s.tabs[i].pinned
    <3>1. j # i
      BY <2>2
    <3>2. s.tabs[j].pinned => ~s.tabs[i].pinned
      BY <1>1, <1>2, <2>2
    <3>3. ~s.tabs[j].pinned => s.tabs[i].pinned
      BY <1>1, <1>2, <2>2
    <3>4. CASE j < i
      <4>1. s.tabs[j].pinned
        BY <1>1, <1>3, <3>3, <3>4
      <4>2. j <= i
        BY <1>1, <3>4
      <4>3. QED
        BY <2>2, <4>1, <4>2
    <3>5. CASE i < j
      <4>1. ~s.tabs[j].pinned
        BY <1>1, <1>3, <3>2, <3>5
      <4>2. ~(j <= i)
        BY <1>1, <3>5
      <4>3. QED
        BY <2>2, <4>1, <4>2
    <3>6. j < i \/ i < j
      BY <1>1, <3>1
    <3>7. QED
      BY <3>4, <3>5, <3>6
  <2>3. QED
    BY <2>1, <2>2
<1>5. S = 1 .. i
  <2>1. \A j \in 1 .. n : j \in S <=> j <= i
    BY <1>1, <1>4
  <2>2. S \subseteq 1 .. n /\ 1 .. i \subseteq 1 .. n /\ \A j \in 1 .. n : j <= i <=> j \in 1 .. i
    BY <1>1
  <2> HIDE DEF S, n
  <2>3. QED
    BY <2>1, <2>2
<1>6. Cardinality(1 .. i) = i
  <2>1. i \in Int /\ 1 \in Int /\ ~(1 > i) /\ i - 1 + 1 = i
    BY <1>1
  <2>2. QED
    BY <2>1, FS_Interval
<1>7. QED
  BY <1>5, <1>6 DEF PlaceOf

LEMMA SortedStays ==
  ASSUME NEW s, Good(s), Strips!PinsFirst(s.tabs)
  PROVE  Sorted(s) = s.tabs
<1>1. ASSUME NEW k \in Positions(s) PROVE Kth(s, k) = k
  <2>1. PlaceOf(s, k) = k
    BY OwnPlace
  <2>2. \A i \in Positions(s) : PlaceOf(s, i) = k => i = k
    BY OwnPlace
  <2>3. QED
    BY <2>1, <2>2 DEF Kth
<1>2. Sorted(s) = [k \in Positions(s) |-> s.tabs[k]]
  BY <1>1 DEF Sorted
<1>3. s.tabs \in Seq(TabRecord)
  BY GoodIs
<1>4. s.tabs \in [1 .. Len(s.tabs) -> TabRecord]
  BY <1>3, LenProperties
<1>5. s.tabs = [k \in Positions(s) |-> s.tabs[k]]
  BY <1>4 DEF Positions
<1>6. QED
  BY <1>2, <1>5

\* What a session that saves s with the addresses of u lists.
LEMMA SavedList ==
  ASSUME NEW s, Good(s), NEW u
  PROVE  /\ Snapshot(s, u).active = s.active
         /\ DOMAIN Snapshot(s, u).entries = Positions(s)
         /\ \A i \in Positions(s) :
              /\ Snapshot(s, u).entries[i].pinned = Sorted(s)[i].pinned
              /\ Snapshot(s, u).entries[i].url = u[Sorted(s)[i].id]
<1> DEFINE p == Partitioned(s)
           t == Sorted(s)
<1>1. p.tabs = t
  BY PartitionedTabs
<1>2. t \in Seq({t[i] : i \in Positions(s)}) /\ Len(t) = Len(s.tabs)
  <2>1. s.tabs \in Seq(TabRecord)
    BY GoodIs
  <2>2. Len(s.tabs) \in Nat
    BY <2>1, LenProperties
  <2>3. t \in [1 .. Len(s.tabs) -> {t[i] : i \in Positions(s)}]
    BY DEF Sorted, Positions
  <2> HIDE DEF t
  <2>4. t \in Seq({t[i] : i \in Positions(s)})
    BY <2>2, <2>3, SeqDef
  <2>5. DOMAIN t = 1 .. Len(t) /\ DOMAIN t = 1 .. Len(s.tabs) /\ Len(t) \in Nat
    BY <2>3, <2>4, LenProperties
  <2>6. Len(t) = Len(s.tabs)
    BY <2>2, <2>5
  <2>7. QED
    BY <2>4, <2>6
<1>3. Positions(p) = Positions(s)
  BY <1>1, <1>2 DEF Positions
<1>4. Snapshot(s, u) = [entries |-> List(p, u), active |-> s.active]
  BY DEF Snapshot, Session
<1> HIDE DEF p, t
<1>5. Snapshot(s, u).entries = List(p, u) /\ Snapshot(s, u).active = s.active
  BY <1>4
<1>6. List(p, u) = [i \in Positions(s) |-> [url |-> u[t[i].id], pinned |-> t[i].pinned]]
  BY <1>1, <1>3 DEF List
<1>7. QED
  BY <1>5, <1>6 DEF t

\* A saved session stands for a strip whose tabs are those saved.
LEMMA StandsForSame ==
  ASSUME NEW s, NEW u, NEW s0, NEW u0, InUse(s), InUse(s0), s.tabs = s0.tabs, s.active = s0.active,
         ActiveUrl(s, u) = ActiveUrl(s0, u0)
  PROVE  StandsFor({Snapshot(s0, u0)}, s, u)
<1> DEFINE saved == Snapshot(s0, u0)
           new == Snapshot(s, u)
           Pins(list) == [i \in DOMAIN list |-> list[i].pinned]
<1>1. Good(s) /\ Good(s0) /\ Positions(s) = Positions(s0) /\ Sorted(s) = Sorted(s0) /\ s.active \in Positions(s)
  BY SortedSame DEF InUse, Positions
<1>2. /\ saved.active = s0.active /\ DOMAIN saved.entries = Positions(s)
      /\ \A i \in Positions(s) : saved.entries[i].pinned = Sorted(s)[i].pinned
      /\ \A i \in Positions(s) : saved.entries[i].url = u0[Sorted(s)[i].id]
  BY <1>1, SavedList
<1>3. /\ DOMAIN new.entries = Positions(s)
      /\ \A i \in Positions(s) : new.entries[i].pinned = Sorted(s)[i].pinned
  BY <1>1, SavedList
<1> HIDE DEF saved, new
<1>4. Pins(saved.entries) = Pins(new.entries)
  BY <1>2, <1>3
<1>5. ASSUME PinnedFirst(List(s, u)) PROVE saved.entries[s.active].url = ActiveUrl(s, u)
  <2>1. DOMAIN List(s, u) = Positions(s) /\ \A i \in Positions(s) : List(s, u)[i].pinned = s.tabs[i].pinned
    BY DEF List
  <2>2. Strips!PinsFirst(s.tabs)
    BY <1>5, <2>1 DEF PinnedFirst, Strips!PinsFirst, Positions
  <2>3. Sorted(s) = s.tabs
    BY <1>1, <2>2, SortedStays
  <2>4. saved.entries[s.active].url = u0[s.tabs[s.active].id]
    BY <1>1, <1>2, <2>3
  <2>5. s0.active # 0
    BY <1>1 DEF Positions
  <2>6. ActiveUrl(s0, u0) = u0[s.tabs[s.active].id]
    BY <2>5 DEF ActiveUrl
  <2>7. QED
    BY <2>4, <2>6
<1>6. QED
  BY <1>2, <1>4, <1>5 DEF StandsFor, saved, new

LEMMA Recognised ==
  ASSUME NEW s, NEW s0, InUse(s), InUse(s0), Alike(s0, s), IdList(s) = IdList(s0)
  PROVE  s.tabs = s0.tabs
<1>1. Good(s) /\ Good(s0)
  BY DEF InUse
<1>2. s.tabs \in Seq(TabRecord) /\ s0.tabs \in Seq(TabRecord)
  BY <1>1, GoodIs
<1>3. Len(s.tabs) \in Nat /\ Len(s0.tabs) \in Nat
  BY <1>2, LenProperties
<1>4. Positions(s) = Positions(s0)
  BY DEF IdList
<1>5. Len(s.tabs) = Len(s0.tabs)
  BY <1>3, <1>4 DEF Positions
<1>6. ASSUME NEW i \in 1 .. Len(s.tabs) PROVE s.tabs[i] = s0.tabs[i]
  <2>1. i \in Positions(s) /\ i \in Positions(s0)
    BY <1>4 DEF Positions
  <2>2. s.tabs[i].id = s0.tabs[i].id
    <3>1. IdList(s)[i] = s.tabs[i].id /\ IdList(s0)[i] = s0.tabs[i].id
      BY <2>1 DEF IdList
    <3>2. QED
      BY <3>1
  <2>3. s0.tabs[i].id < s0.next
    BY <1>1, <2>1, GoodIs
  <2>4. PICK j \in Positions(s0) : s.tabs[i] = s0.tabs[j]
    BY <2>1, <2>2, <2>3 DEF Alike
  <2>5. j = i
    BY <1>1, <2>1, <2>2, <2>4, GoodIs
  <2>6. QED
    BY <2>4, <2>5
<1>7. QED
  BY <1>2, <1>5, <1>6, SeqEqual

LEMMA AlikeOn ==
  ASSUME NEW s, NEW r, NEW q, Good(s), Good(r), Good(q), Alike(s, r), Alike(r, q)
  PROVE  Alike(s, q)
<1>1. s.next \in Nat /\ r.next \in Nat /\ q.next \in Nat
  BY GoodIs
<1>2. q.next >= s.next
  BY <1>1 DEF Alike
<1>3. ASSUME NEW i \in Positions(q), q.tabs[i].id < s.next PROVE \E j \in Positions(s) : q.tabs[i] = s.tabs[j]
  <2>1. q.tabs[i].id \in Nat
    BY GoodIs
  <2>2. q.tabs[i].id < r.next
    BY <1>1, <1>3, <2>1 DEF Alike
  <2>3. PICK k \in Positions(r) : q.tabs[i] = r.tabs[k]
    BY <2>2 DEF Alike
  <2>4. r.tabs[k].id < s.next
    BY <1>3, <2>3
  <2>5. PICK j \in Positions(s) : r.tabs[k] = s.tabs[j]
    BY <2>4 DEF Alike
  <2>6. QED
    BY <2>3, <2>5
<1>4. QED
  BY <1>2, <1>3 DEF Alike

LEMMA AlikeSelf == ASSUME NEW s, Good(s) PROVE Alike(s, s)
<1>1. s.next \in Nat
  BY GoodIs
<1>2. QED
  BY <1>1 DEF Alike

-----------------------------------------------------------------------------
(* What a launch opens.                                                    *)

\* The strip that n tabs have been opened in, one behind the other, of which
\* the first was selected; p says which are pinned.
RowTabs(p, n) == [i \in 1 .. n |-> Tab(i - 1, p[i])]
StripRow(p, n) == [tabs |-> RowTabs(p, n), active |-> 1, stack |-> <<>>, shown |-> {0}, next |-> n]

LEMMA RowTabsAre ==
  ASSUME NEW n \in Nat \ {0}, NEW p, \A i \in 1 .. n : p[i] \in BOOLEAN
  PROVE  /\ RowTabs(p, n) \in Seq(TabRecord) /\ Len(RowTabs(p, n)) = n
         /\ \A i \in 1 .. n : RowTabs(p, n)[i] = Tab(i - 1, p[i])
<1> DEFINE t == RowTabs(p, n)
<1>1. ASSUME NEW i \in 1 .. n PROVE Tab(i - 1, p[i]) \in TabRecord
  BY DEF Tab, TabRecord
<1>2. t \in [1 .. n -> TabRecord] /\ \A i \in 1 .. n : t[i] = Tab(i - 1, p[i])
  BY <1>1 DEF RowTabs
<1> HIDE DEF t
<1>3. t \in Seq(TabRecord)
  BY <1>2, SeqDef
<1>4. DOMAIN t = 1 .. Len(t) /\ DOMAIN t = 1 .. n /\ Len(t) \in Nat
  BY <1>2, <1>3, LenProperties
<1>5. Len(t) = n
  <2> DEFINE m == Len(t)
  <2>1. m \in Nat /\ 1 .. m = 1 .. n
    BY <1>4
  <2> HIDE DEF m
  <2>2. \A k \in Nat : k \in 1 .. m <=> k \in 1 .. n
    BY <2>1
  <2>3. n \in 1 .. n
    OBVIOUS
  <2>4. n <= m
    BY <2>1, <2>2, <2>3
  <2>5. m <= n
    BY <2>1, <2>2, <2>4
  <2>6. m = n
    BY <2>1, <2>4, <2>5
  <2>7. QED
    BY <2>6 DEF m
<1>6. QED
  BY <1>2, <1>3, <1>5 DEF t

LEMMA RowIs ==
  ASSUME NEW n \in Nat \ {0}, NEW p, \A i \in 1 .. n : p[i] \in BOOLEAN, NEW s, s = StripRow(p, n)
  PROVE  /\ InUse(s) /\ Positions(s) = 1 .. n
         /\ s.tabs = RowTabs(p, n) /\ s.active = 1 /\ s.next = n /\ s.stack = <<>> /\ s.shown = {0}
         /\ \A i \in 1 .. n : s.tabs[i].id = i - 1 /\ s.tabs[i].pinned = p[i]
         /\ Ids(s) = 0 .. n - 1
<1> DEFINE t == RowTabs(p, n)
<1>1. /\ t \in Seq(TabRecord) /\ Len(t) = n
      /\ \A i \in 1 .. n : t[i] = Tab(i - 1, p[i])
  BY RowTabsAre
<1>2. /\ s.tabs = t /\ s.active = 1 /\ s.next = n /\ s.stack = <<>> /\ s.shown = {0}
      /\ s = [tabs |-> t, active |-> 1, stack |-> <<>>, shown |-> {0}, next |-> n]
  BY DEF StripRow
<1> HIDE DEF t
<1>3. ASSUME NEW i \in 1 .. n PROVE t[i].id = i - 1 /\ t[i].pinned = p[i]
  BY <1>1 DEF Tab
<1>4. Positions(s) = 1 .. n
  BY <1>1, <1>2 DEF Positions
<1>5. Ids(s) = 0 .. n - 1
  <2>1. ASSUME NEW x \in Ids(s) PROVE x \in 0 .. n - 1
    <3>1. PICK i \in 1 .. n : x = s.tabs[i].id
      BY <1>4 DEF Ids
    <3>2. x = i - 1
      BY <1>2, <1>3, <3>1
    <3>3. QED
      BY <3>2
  <2>2. ASSUME NEW x \in 0 .. n - 1 PROVE x \in Ids(s)
    <3>1. x + 1 \in 1 .. n /\ (x + 1) - 1 = x
      OBVIOUS
    <3>2. s.tabs[x + 1].id = x
      BY <1>2, <1>3, <3>1
    <3>3. QED
      BY <1>4, <3>1, <3>2 DEF Ids
  <2>3. QED
    BY <2>1, <2>2
<1>6. Strips!Names(t) = 0 .. n - 1
  BY <1>2, <1>5, NamesAreIds
<1>7. Good(s)
  <2>1. s \in Strips!StripSet
    <3>1. <<>> \in Seq(Strips!EntrySet)
      OBVIOUS
    <3>2. QED
      BY <1>1, <1>2, <3>1 DEF Strips!StripSet, Strips!TabSet, TabRecord
  <2>2. Strips!Distinct(t)
    <3>1. ASSUME NEW i \in 1 .. n, NEW j \in 1 .. n, t[i].id = t[j].id PROVE i = j
      <4>1. t[i].id = i - 1 /\ t[j].id = j - 1
        BY <1>3
      <4>2. i - 1 = j - 1
        BY <3>1, <4>1
      <4>3. QED
        BY <4>2
    <3>2. QED
      BY <1>1, <3>1 DEF Strips!Distinct
  <2>3. Len(<<>>) = 0 /\ 1 .. 0 = {}
    OBVIOUS
  <2>4. Strips!StashDistinct(<<>>) /\ Strips!StashNames(<<>>) = {}
    BY <2>3 DEF Strips!StashDistinct, Strips!StashNames
  <2>5. Len(<<>>) <= StackCap
    BY Assumed
  <2>6. {0} \subseteq 0 .. n - 1 /\ \A x \in 0 .. n - 1 : x < n
    OBVIOUS
  <2>7. Strips!Fair(s)
    BY <1>2, <1>6, <2>1, <2>2, <2>4, <2>5, <2>6 DEF Strips!Fair
  <2>8. s.active \in 0 .. Len(s.tabs)
    BY <1>1, <1>2
  <2>9. Strips!ActiveId(s) \subseteq s.shown
    <3>1. s.tabs[1].id = 0
      <4>1. 1 \in 1 .. n /\ 1 - 1 = 0
        OBVIOUS
      <4>2. QED
        BY <1>2, <1>3, <4>1
    <3>2. QED
      BY <1>2, <3>1 DEF Strips!ActiveId
  <2>10. QED
    BY <2>7, <2>8, <2>9 DEF Good, Strips!Good
<1>8. InUse(s)
  <2>1. 1 \in 1 .. n
    OBVIOUS
  <2>2. QED
    BY <1>2, <1>4, <1>7, <2>1 DEF InUse
<1>9. QED
  BY <1>2, <1>3, <1>4, <1>5, <1>8 DEF t

\* Strips with the same contents are the same.
LEMMA SameStrip ==
  ASSUME NEW s \in Strips!StripSet, NEW r \in Strips!StripSet,
         s.tabs = r.tabs, s.active = r.active, s.stack = r.stack, s.shown = r.shown, s.next = r.next
  PROVE  s = r
BY DEF Strips!StripSet

\* Sorting changes nothing where the pinned tabs are in front.
LEMMA PartitionedSame ==
  ASSUME NEW s, InUse(s), Strips!PinsFirst(s.tabs)
  PROVE  Partitioned(s) = s
<1>1. Good(s) /\ s \in Strips!StripSet /\ s.active \in Positions(s)
  BY GoodIs DEF InUse
<1>2. Sorted(s) = s.tabs
  BY <1>1, SortedStays
<1>3. ActiveAfterSort(s, s.tabs) = s.active
  <2>1. ActiveId(s) = {s.tabs[s.active].id}
    BY <1>1 DEF ActiveId
  <2>2. DOMAIN s.tabs = Positions(s)
    <3>1. s.tabs \in Seq(TabRecord)
      BY <1>1, GoodIs
    <3>2. QED
      BY <3>1, LenProperties DEF Positions
  <2>3. \A i \in Positions(s) : s.tabs[i].id \in ActiveId(s) <=> i = s.active
    BY <1>1, <2>1, GoodIs
  <2>4. QED
    BY <1>1, <2>1, <2>2, <2>3 DEF ActiveAfterSort
<1>4. Partitioned(s) = [s EXCEPT !.tabs = s.tabs, !.active = s.active]
  BY <1>2, <1>3 DEF Partitioned, Sorted, Kth
<1>5. QED
  BY <1>1, <1>4 DEF Strips!StripSet

LEMMA FirstOpened ==
  ASSUME NEW p, p[1] = FALSE
  PROVE  Opened(EmptyStrip, FALSE) = StripRow(p, 1)
<1> DEFINE e == Tab(0, FALSE)
           s == [tabs |-> <<e>>, active |-> 0, stack |-> <<>>, shown |-> {0}, next |-> 1]
<1>1. Append(<<>>, e) = <<e>> /\ Len(<<e>>) = 1 /\ <<e>>[1] = e
  OBVIOUS
<1>2. e.id = 0
  BY DEF Tab
<1> HIDE DEF e
<1>3. Opened(EmptyStrip, FALSE) = SetActive(s, 1)
  <2> DEFINE z == EmptyStrip
             y == [z EXCEPT !.tabs = Append(z.tabs, e), !.next = z.next + 1, !.shown = z.shown \cup {e.id}]
  <2>1. {} \cup {0} = {0} /\ 0 + 1 = 1
    OBVIOUS
  <2>2. z = [tabs |-> <<>>, active |-> 0, stack |-> <<>>, shown |-> {}, next |-> 0]
    BY DEF EmptyStrip
  <2> HIDE DEF z
  <2>3. z.tabs = <<>> /\ z.next = 0 /\ z.shown = {}
    BY <2>2
  <2>4. y = s
    <3>1. Append(z.tabs, e) = <<e>> /\ z.next + 1 = 1 /\ z.shown \cup {e.id} = {0}
      BY <1>1, <1>2, <2>1, <2>3
    <3>2. y = [z EXCEPT !.tabs = <<e>>, !.next = 1, !.shown = {0}]
      BY <3>1
    <3> HIDE DEF y
    <3>3. QED
      BY <2>2, <3>2
  <2>5. Tab(z.next, FALSE) = e
    BY <2>3 DEF e
  <2>6. Opened(z, FALSE) = SetActive(y, Len(y.tabs))
    BY <2>5 DEF Opened
  <2> HIDE DEF y
  <2>7. Len(s.tabs) = 1
    BY <1>1
  <2>8. QED
    BY <2>4, <2>6, <2>7 DEF z
<1>4. Positions(s) = 1 .. 1 /\ 1 \in 1 .. 1
  BY <1>1 DEF Positions
<1>5. ActiveId(s) = {}
  <2>1. s.active = 0 /\ 0 \notin 1 .. 1
    OBVIOUS
  <2>2. Positions(s) \cap {s.active} = {}
    BY <1>4, <2>1
  <2>3. QED
    BY <2>2 DEF ActiveId
<1>6. SetActive(s, 1) = [tabs |-> <<e>>, active |-> 1, stack |-> <<>>, shown |-> ({0} \ {}) \cup {0}, next |-> 1]
  BY <1>1, <1>2, <1>4, <1>5 DEF SetActive
<1>7. RowTabs(p, 1) = <<e>>
  <2>1. RowTabs(p, 1) \in Seq(TabRecord) /\ Len(RowTabs(p, 1)) = 1 /\ RowTabs(p, 1)[1] = Tab(1 - 1, FALSE)
    <3>1. 1 \in Nat \ {0} /\ 1 \in 1 .. 1 /\ \A i \in 1 .. 1 : i = 1
      OBVIOUS
    <3>2. \A i \in 1 .. 1 : p[i] \in BOOLEAN
      BY <3>1
    <3> DEFINE m == 1
    <3>3. m \in Nat \ {0} /\ m \in 1 .. m /\ \A i \in 1 .. m : p[i] \in BOOLEAN
      BY <3>1, <3>2
    <3> HIDE DEF m
    <3>4. RowTabs(p, m) \in Seq(TabRecord) /\ Len(RowTabs(p, m)) = m /\ RowTabs(p, m)[m] = Tab(m - 1, p[m])
      BY <3>3, RowTabsAre
    <3>5. QED
      BY <3>4 DEF m
  <2>2. <<e>> \in Seq(TabRecord)
    <3>1. e \in TabRecord
      BY DEF e, Tab, TabRecord
    <3>2. QED
      BY <3>1
  <2>3. RowTabs(p, 1)[1] = e
    <3>1. 1 - 1 = 0
      OBVIOUS
    <3>2. QED
      BY <2>1, <3>1 DEF e
  <2>4. \A i \in 1 .. 1 : i = 1
    OBVIOUS
  <2>5. QED
    BY <1>1, <2>1, <2>2, <2>3, <2>4, SeqEqual
<1>8. ({0} \ {}) \cup {0} = {0}
  OBVIOUS
<1>9. QED
  BY <1>3, <1>6, <1>7, <1>8 DEF StripRow

LEMMA RowGrows ==
  ASSUME NEW n \in Nat \ {0}, NEW p, \A i \in 1 .. n : p[i] \in BOOLEAN,
         NEW q, \A i \in 1 .. n : q[i] = p[i], q[n + 1] = FALSE
  PROVE  Opened(StripRow(p, n), TRUE) = StripRow(q, n + 1)
<1> DEFINE s == StripRow(p, n)
           t == RowTabs(p, n)
           u == RowTabs(q, n + 1)
           e == Tab(n, FALSE)
<1>1. /\ t \in Seq(TabRecord) /\ Len(t) = n
      /\ \A i \in 1 .. n : t[i] = Tab(i - 1, p[i])
  BY RowTabsAre
<1>2. n + 1 \in Nat \ {0} /\ n + 1 \in 1 .. n + 1 /\ (n + 1) - 1 = n
  OBVIOUS
<1>3. \A i \in 1 .. n + 1 : q[i] \in BOOLEAN
  <2>1. ASSUME NEW i \in 1 .. n + 1 PROVE q[i] \in BOOLEAN
    <3>1. i \in 1 .. n \/ i = n + 1
      OBVIOUS
    <3>2. QED
      BY <3>1
  <2>2. QED
    BY <2>1
<1>4. /\ u \in Seq(TabRecord) /\ Len(u) = n + 1
      /\ \A i \in 1 .. n + 1 : u[i] = Tab(i - 1, q[i])
  <2> DEFINE m == n + 1
  <2>1. m \in Nat \ {0} /\ \A i \in 1 .. m : q[i] \in BOOLEAN
    BY <1>2, <1>3
  <2> HIDE DEF m, u
  <2>2. /\ RowTabs(q, m) \in Seq(TabRecord) /\ Len(RowTabs(q, m)) = m
        /\ \A i \in 1 .. m : RowTabs(q, m)[i] = Tab(i - 1, q[i])
    BY <2>1, RowTabsAre
  <2>3. QED
    BY <2>2 DEF m, u
<1>5. e \in TabRecord
  BY DEF Tab, TabRecord
<1>6. u = Append(t, e)
  <2> DEFINE v == Append(t, e)
  <2> HIDE DEF t, u, e
  <2>1. v \in Seq(TabRecord) /\ Len(v) = n + 1 /\ v[n + 1] = e /\ \A i \in 1 .. n : v[i] = t[i]
    BY <1>1, <1>5, AppendProperties
  <2> HIDE DEF v
  <2>2. ASSUME NEW i \in 1 .. n + 1 PROVE u[i] = v[i]
    <3>1. CASE i = n + 1
      <4>1. u[n + 1] = Tab(n, FALSE)
        BY <1>2, <1>4
      <4>2. QED
        BY <2>1, <3>1, <4>1 DEF e
    <3>2. CASE i # n + 1
      <4>1. i \in 1 .. n
        BY <3>2
      <4>2. u[i] = Tab(i - 1, q[i]) /\ q[i] = p[i]
        BY <1>4, <4>1
      <4>3. v[i] = Tab(i - 1, p[i])
        BY <1>1, <2>1, <4>1
      <4>4. QED
        BY <4>2, <4>3
    <3>3. QED
      BY <3>1, <3>2
  <2>3. u = v
    BY <1>4, <2>1, <2>2, SeqEqual
  <2>4. QED
    BY <2>3 DEF v
<1>7. s = [tabs |-> t, active |-> 1, stack |-> <<>>, shown |-> {0}, next |-> n]
  BY DEF StripRow
<1> HIDE DEF s, t, u
<1>8. s.tabs = t /\ s.next = n
  BY <1>7
<1>9. Opened(s, TRUE) = [s EXCEPT !.tabs = Append(t, e), !.next = n + 1, !.shown = s.shown]
  BY <1>8 DEF Opened
<1>10. Opened(s, TRUE) = [tabs |-> u, active |-> 1, stack |-> <<>>, shown |-> {0}, next |-> n + 1]
  BY <1>6, <1>7, <1>9
<1>11. QED
  BY <1>10 DEF StripRow, s, u

\* Only the pins of the tabs that are there count.
LEMMA RowSame ==
  ASSUME NEW n \in Nat \ {0}, NEW p, NEW q, \A i \in 1 .. n : q[i] = p[i]
  PROVE  StripRow(p, n) = StripRow(q, n)
<1>1. RowTabs(p, n) = RowTabs(q, n)
  BY DEF RowTabs
<1>2. QED
  BY <1>1 DEF StripRow

\* The last of them is pinned when all before it are.
LEMMA RowPinned ==
  ASSUME NEW n \in Nat \ {0}, NEW p, \A i \in 1 .. n : p[i] \in BOOLEAN, \A i \in 1 .. n : i < n => p[i] = TRUE,
         NEW q, \A i \in 1 .. n : q[i] = TRUE
  PROVE  WithPin(StripRow(p, n), n, TRUE) = StripRow(q, n)
<1> DEFINE s == StripRow(p, n)
           t == RowTabs(p, n)
           u == RowTabs(q, n)
           r == StripRow(q, n)
<1>1. /\ t \in Seq(TabRecord) /\ Len(t) = n
      /\ \A i \in 1 .. n : t[i] = Tab(i - 1, p[i])
  BY RowTabsAre
<1>2. /\ u \in Seq(TabRecord) /\ Len(u) = n
      /\ \A i \in 1 .. n : u[i] = Tab(i - 1, q[i])
  <2>1. \A i \in 1 .. n : q[i] \in BOOLEAN
    OBVIOUS
  <2>2. QED
    BY <2>1, RowTabsAre
<1>3. InUse(r) /\ r.tabs = u /\ Positions(r) = 1 .. n /\ \A i \in 1 .. n : r.tabs[i].pinned = TRUE
  <2>1. \A i \in 1 .. n : q[i] \in BOOLEAN
    OBVIOUS
  <2>2. QED
    BY <2>1, RowIs
<1>4. s = [tabs |-> t, active |-> 1, stack |-> <<>>, shown |-> {0}, next |-> n]
  BY DEF StripRow
<1>5. r = [tabs |-> u, active |-> 1, stack |-> <<>>, shown |-> {0}, next |-> n]
  BY DEF StripRow
<1> HIDE DEF s, t, u, r
<1>6. [t EXCEPT ![n].pinned = TRUE] = u
  <2> DEFINE v == [t EXCEPT ![n].pinned = TRUE]
             e == [t[n] EXCEPT !.pinned = TRUE]
  <2>1. n \in 1 .. n
    OBVIOUS
  <2>2. t \in [1 .. n -> TabRecord] /\ u \in [1 .. n -> TabRecord]
    BY <1>1, <1>2, LenProperties
  <2>3. e = Tab(n - 1, TRUE)
    <3>1. t[n] = Tab(n - 1, p[n])
      BY <1>1, <2>1
    <3>2. e = [Tab(n - 1, p[n]) EXCEPT !.pinned = TRUE]
      BY <3>1
    <3> HIDE DEF e
    <3>3. QED
      BY <3>2 DEF Tab
  <2> HIDE DEF e
  <2>4. v = [t EXCEPT ![n] = e]
    BY DEF e
  <2> HIDE DEF v
  <2>5. DOMAIN v = 1 .. n /\ v = [i \in 1 .. n |-> v[i]] /\ \A i \in 1 .. n : v[i] = IF i = n THEN e ELSE t[i]
    BY <2>2, <2>4
  <2>6. ASSUME NEW i \in 1 .. n PROVE v[i] = u[i]
    <3>1. u[i] = Tab(i - 1, TRUE)
      BY <1>2
    <3>2. CASE i = n
      BY <2>3, <2>5, <3>1, <3>2
    <3>3. CASE i # n
      <4>1. i < n
        BY <3>3
      <4>2. t[i] = Tab(i - 1, TRUE)
        BY <1>1, <4>1
      <4>3. QED
        BY <2>5, <3>1, <3>3, <4>2
    <3>4. QED
      BY <3>2, <3>3
  <2>7. u = [i \in 1 .. n |-> u[i]]
    BY <2>2
  <2>8. QED
    BY <2>5, <2>6, <2>7 DEF v
<1>7. [s EXCEPT !.tabs[n].pinned = TRUE] = r
  <2>1. [s EXCEPT !.tabs[n].pinned = TRUE] = [s EXCEPT !.tabs = [t EXCEPT ![n].pinned = TRUE]]
    BY <1>4
  <2>2. [s EXCEPT !.tabs[n].pinned = TRUE] = [s EXCEPT !.tabs = u]
    BY <1>6, <2>1
  <2>3. [s EXCEPT !.tabs = u] = r
    <3> DEFINE v == [s EXCEPT !.tabs = u]
    <3>1. s \in Strips!StripSet /\ r \in Strips!StripSet
      <4>1. InUse(s)
        BY RowIs DEF s
      <4>2. QED
        BY <1>3, <4>1, GoodIs DEF InUse
    <3>2. /\ v \in Strips!StripSet /\ v.tabs = u /\ v.active = s.active /\ v.stack = s.stack
          /\ v.shown = s.shown /\ v.next = s.next
      BY <1>2, <3>1 DEF Strips!StripSet, Strips!TabSet, TabRecord
    <3>3. s.active = 1 /\ s.stack = <<>> /\ s.shown = {0} /\ s.next = n
      BY <1>4
    <3>4. r.active = 1 /\ r.stack = <<>> /\ r.shown = {0} /\ r.next = n
      BY <1>5
    <3> HIDE DEF v
    <3>5. r.tabs = u
      BY <1>3
    <3>6. v = r
      <4>1. v.tabs = r.tabs
        BY <3>2, <3>5
      <4>2. v.active = r.active
        BY <3>2, <3>3, <3>4
      <4>3. v.stack = r.stack
        BY <3>2, <3>3, <3>4
      <4>4. v.shown = r.shown
        BY <3>2, <3>3, <3>4
      <4>5. v.next = r.next
        BY <3>2, <3>3, <3>4
      <4>6. v \in Strips!StripSet /\ r \in Strips!StripSet
        BY <3>1, <3>2
      <4>7. QED
        BY <4>1, <4>2, <4>3, <4>4, <4>5, <4>6, SameStrip
    <3>7. QED
      BY <3>6 DEF v
  <2>4. QED
    BY <2>2, <2>3
<1>8. Strips!PinsFirst(r.tabs)
  <2>1. Len(r.tabs) = n
    BY <1>2, <1>3
  <2>2. QED
    BY <1>3, <2>1 DEF Strips!PinsFirst
<1>9. Partitioned(r) = r
  BY <1>3, <1>8, PartitionedSame
<1>10. WithPin(s, n, TRUE) = Partitioned([s EXCEPT !.tabs[n].pinned = TRUE])
  BY DEF WithPin
<1>11. QED
  BY <1>7, <1>9, <1>10 DEF s, r

LEMMA NewestIsLast ==
  ASSUME NEW n \in Nat \ {0}, NEW p, \A i \in 1 .. n : p[i] \in BOOLEAN
  PROVE  PinTarget(StripRow(p, n)) = n
<1> DEFINE s == StripRow(p, n)
<1>1. Positions(s) = 1 .. n /\ s.next = n /\ \A i \in 1 .. n : s.tabs[i].id = i - 1
  BY RowIs
<1> HIDE DEF s
<1>2. \A i \in 1 .. n : s.tabs[i].id = n - 1 <=> i = n
  <2>1. \A i \in 1 .. n : i - 1 = n - 1 <=> i = n
    OBVIOUS
  <2>2. QED
    BY <1>1, <2>1
<1>3. n \in 1 .. n
  OBVIOUS
<1>4. PositionOf(s, n - 1) = n
  BY <1>1, <1>2, <1>3 DEF PositionOf
<1>5. QED
  BY <1>1, <1>4 DEF PinTarget, s

\* The window after n of the saved tabs.
Pins(entries) == [i \in 1 .. Len(entries) |-> entries[i].pinned]
RowUrls(entries, n) == [k \in 0 .. n - 1 |-> entries[k + 1].url]
Row(entries, n) == Window(StripRow(Pins(entries), n), RowUrls(entries, n))

LEMMA EntriesAre ==
  ASSUME NEW entries \in Seq(Entry)
  PROVE  /\ Len(entries) \in Nat
         /\ \A i \in 1 .. Len(entries) : /\ entries[i] = [url |-> entries[i].url, pinned |-> entries[i].pinned]
                                         /\ entries[i].url \in Urls /\ entries[i].pinned \in BOOLEAN
                                         /\ Pins(entries)[i] = entries[i].pinned
<1>1. Len(entries) \in Nat
  BY LenProperties
<1>2. ASSUME NEW i \in 1 .. Len(entries)
      PROVE  /\ entries[i] = [url |-> entries[i].url, pinned |-> entries[i].pinned]
             /\ entries[i].url \in Urls /\ entries[i].pinned \in BOOLEAN
             /\ Pins(entries)[i] = entries[i].pinned
  <2>1. entries[i] \in Entry
    BY ElementOfSeq
  <2>2. Pins(entries)[i] = entries[i].pinned
    BY DEF Pins
  <2>3. QED
    BY <2>1, <2>2 DEF Entry
<1>3. QED
  BY <1>1, <1>2

LEMMA WindowIs == ASSUME NEW s, NEW u PROVE Window(s, u).s = s /\ Window(s, u).url = u
BY DEF Window

LEMMA WindowWith ==
  ASSUME NEW s, NEW u, NEW r, NEW w, w = Window(s, u)
  PROVE  [w EXCEPT !.s = r] = Window(r, u)
BY DEF Window

\* The first saved tab takes the homepage's place.
LEMMA FirstRow ==
  ASSUME NEW entries \in Seq(Entry), 1 <= Len(entries),
         NEW first, first = Navigated(FreshWindow, entries[1].url)
  PROVE  (IF entries[1].pinned THEN [first EXCEPT !.s = WithPin(@, @.active, TRUE)] ELSE first) = Row(entries, 1)
<1> DEFINE no == [i \in 1 .. 1 |-> FALSE]
           s == StripRow(no, 1)
           e == entries[1]
           fs == [id \in {0} |-> Home]
           p == Pins(entries)
<1>1. 1 \in 1 .. 1 /\ 1 \in Nat \ {0} /\ (\A i \in 1 .. 1 : i = 1) /\ 1 - 1 = 0
  OBVIOUS
<1>2. no[1] = FALSE /\ \A i \in 1 .. 1 : no[i] \in BOOLEAN
  BY <1>1
<1>3. Len(entries) \in Nat /\ 1 \in 1 .. Len(entries)
  BY EntriesAre
<1>4. e.url \in Urls /\ e.pinned \in BOOLEAN /\ p[1] = e.pinned
  BY <1>3, EntriesAre
<1> HIDE DEF no, e, p
<1>5. Opened(EmptyStrip, FALSE) = s
  BY <1>2, FirstOpened
<1>6. s.active = 1 /\ s.tabs[1].id = 0
  <2> DEFINE m == 1
  <2>1. m \in Nat \ {0} /\ 1 \in 1 .. m /\ \A i \in 1 .. m : no[i] \in BOOLEAN
    BY <1>1, <1>2
  <2> HIDE DEF m
  <2>2. StripRow(no, m).active = 1 /\ StripRow(no, m).tabs[1].id = 1 - 1
    BY <2>1, RowIs
  <2>3. QED
    BY <1>1, <2>2 DEF m
<1> HIDE DEF s
<1>7. FreshWindow = [s |-> s, url |-> fs]
  BY <1>5 DEF FreshWindow, Window
<1>8. first = [s |-> s, url |-> [fs EXCEPT ![0] = e.url]]
  <2>1. first = [FreshWindow EXCEPT !.url[FreshWindow.s.tabs[FreshWindow.s.active].id] = e.url]
    BY DEF Navigated, e
  <2>2. FreshWindow.s.tabs[FreshWindow.s.active].id = 0
    BY <1>6, <1>7
  <2>3. first = [FreshWindow EXCEPT !.url[0] = e.url]
    BY <2>1, <2>2
  <2> HIDE DEF fs
  <2>4. QED
    BY <1>7, <2>3
<1>9. [fs EXCEPT ![0] = e.url] = RowUrls(entries, 1)
  <2>1. 0 .. 1 - 1 = {0} /\ 0 + 1 = 1
    OBVIOUS
  <2>2. RowUrls(entries, 1) = [k \in {0} |-> e.url]
    BY <2>1 DEF RowUrls, e
  <2>3. QED
    BY <2>2
<1> HIDE DEF fs
<1>10. first = Window(s, RowUrls(entries, 1))
  BY <1>8, <1>9 DEF Window
<1>11. CASE e.pinned
  <2>1. WithPin(s, 1, TRUE) = StripRow(p, 1)
    <3> DEFINE m == 1
    <3>1. /\ m \in Nat \ {0} /\ \A i \in 1 .. m : no[i] \in BOOLEAN
          /\ \A i \in 1 .. m : p[i] = TRUE
      BY <1>1, <1>2, <1>4, <1>11
    <3>2. \A i \in 1 .. m : i < m => no[i] = TRUE
      BY <1>1
    <3> HIDE DEF m
    <3>3. WithPin(StripRow(no, m), m, TRUE) = StripRow(p, m)
      BY <3>1, <3>2, RowPinned
    <3>4. QED
      BY <3>3 DEF m, s
  <2>2. [first EXCEPT !.s = WithPin(first.s, first.s.active, TRUE)] = Window(StripRow(p, 1), RowUrls(entries, 1))
    <3>1. first.s = s /\ first.s.active = 1
      BY <1>6, <1>10, WindowIs
    <3>2. [first EXCEPT !.s = WithPin(first.s, first.s.active, TRUE)] = [first EXCEPT !.s = StripRow(p, 1)]
      BY <2>1, <3>1
    <3>3. [first EXCEPT !.s = StripRow(p, 1)] = Window(StripRow(p, 1), RowUrls(entries, 1))
      BY <1>10, WindowWith
    <3>4. QED
      BY <3>2, <3>3
  <2>3. QED
    BY <1>11, <2>2 DEF Row, p, e
<1>12. CASE ~e.pinned
  <2>1. s = StripRow(p, 1)
    <3> DEFINE m == 1
    <3>1. m \in Nat \ {0} /\ \A i \in 1 .. m : p[i] = no[i]
      BY <1>1, <1>2, <1>4, <1>12
    <3> HIDE DEF m
    <3>2. StripRow(no, m) = StripRow(p, m)
      BY <3>1, RowSame
    <3>3. QED
      BY <3>2 DEF m, s
  <2>2. QED
    BY <1>10, <1>12, <2>1 DEF Row, p, e
<1>13. QED
  BY <1>4, <1>11, <1>12 DEF e

\* The others follow in the background.
LEMMA NextRow ==
  ASSUME NEW entries \in Seq(Entry), PinnedFirst(entries), NEW n \in Nat \ {0}, n + 1 <= Len(entries)
  PROVE  Restored(Row(entries, n), entries[n + 1]) = Row(entries, n + 1)
<1> DEFINE p == Pins(entries)
           q == [i \in 1 .. n + 1 |-> IF i = n + 1 THEN FALSE ELSE p[i]]
           e == entries[n + 1]
           s == StripRow(p, n)
           w == Row(entries, n)
           r == StripRow(q, n + 1)
           u == RowUrls(entries, n + 1)
<1>1. /\ Len(entries) \in Nat
      /\ \A i \in 1 .. n + 1 : i \in 1 .. Len(entries)
      /\ \A i \in 1 .. n : i \in 1 .. Len(entries)
      /\ n + 1 \in Nat \ {0} /\ n + 1 \in 1 .. n + 1
  BY EntriesAre
<1>2. \A i \in 1 .. Len(entries) : p[i] = entries[i].pinned /\ p[i] \in BOOLEAN /\ entries[i].url \in Urls
  BY EntriesAre
<1>3. e.url \in Urls /\ e.pinned \in BOOLEAN /\ p[n + 1] = e.pinned
  BY <1>1, <1>2
<1>4. q[n + 1] = FALSE /\ (\A i \in 1 .. n : q[i] = p[i]) /\ \A i \in 1 .. n + 1 : q[i] \in BOOLEAN
  <2>1. q[n + 1] = FALSE
    BY <1>1
  <2>2. ASSUME NEW i \in 1 .. n PROVE q[i] = p[i]
    <3>1. i \in 1 .. n + 1 /\ i # n + 1
      OBVIOUS
    <3>2. QED
      BY <3>1
  <2>3. ASSUME NEW i \in 1 .. n + 1 PROVE q[i] \in BOOLEAN
    <3>1. p[i] \in BOOLEAN
      BY <1>1, <1>2
    <3>2. QED
      BY <3>1
  <2>4. QED
    BY <2>1, <2>2, <2>3
<1>5. ASSUME NEW i \in 1 .. n PROVE p[i] \in BOOLEAN
  BY <1>1, <1>2
<1> HIDE DEF p, q, e
<1>6. Opened(s, TRUE) = r
  BY <1>4, <1>5, RowGrows
<1>7. s.next = n
  BY <1>5, RowIs
<1> HIDE DEF s
<1>8. w.s = s /\ w.url = RowUrls(entries, n)
  BY WindowIs DEF Row, s, p
<1>9. Also(RowUrls(entries, n), n, e.url) = u
  <2>1. DOMAIN RowUrls(entries, n) = 0 .. n - 1 /\ \A k \in 0 .. n - 1 : RowUrls(entries, n)[k] = entries[k + 1].url
    BY DEF RowUrls
  <2>2. (0 .. n - 1) \cup {n} = 0 .. (n + 1) - 1 /\ n \notin 0 .. n - 1
    OBVIOUS
  <2>3. ASSUME NEW k \in 0 .. (n + 1) - 1
        PROVE (IF k = n THEN e.url ELSE RowUrls(entries, n)[k]) = entries[k + 1].url
    <3>1. k = n \/ k \in 0 .. n - 1
      OBVIOUS
    <3>2. QED
      BY <2>1, <2>2, <3>1 DEF e
  <2>4. Also(RowUrls(entries, n), n, e.url)
         = [k \in 0 .. (n + 1) - 1 |-> IF k = n THEN e.url ELSE RowUrls(entries, n)[k]]
    BY <2>1, <2>2 DEF Also
  <2>5. QED
    BY <2>3, <2>4 DEF RowUrls
<1> HIDE DEF w, u
<1>10. InBackground(w, e.url) = Window(r, u)
  BY <1>6, <1>7, <1>8, <1>9 DEF InBackground
<1>11. CASE e.pinned
  <2>1. PinTarget(r) = n + 1
    BY <1>1, <1>4, NewestIsLast
  <2>2. \A i \in 1 .. n + 1 : p[i] = TRUE
    <3>1. ASSUME NEW i \in 1 .. n + 1 PROVE p[i] = TRUE
      <4>1. entries[i].pinned
        <5>1. i = n + 1 \/ i < n + 1
          BY <1>1
        <5>2. DOMAIN entries = 1 .. Len(entries)
          BY LenProperties
        <5>3. QED
          BY <1>1, <1>11, <5>1, <5>2 DEF PinnedFirst, e
      <4>2. p[i] = entries[i].pinned /\ p[i] \in BOOLEAN
        BY <1>1, <1>2
      <4>3. QED
        BY <4>1, <4>2
    <3>2. QED
      BY <3>1
  <2>3. WithPin(r, n + 1, TRUE) = StripRow(p, n + 1)
    <3> DEFINE m == n + 1
    <3>1. /\ m \in Nat \ {0} /\ \A i \in 1 .. m : q[i] \in BOOLEAN
          /\ \A i \in 1 .. m : p[i] = TRUE
      BY <1>1, <1>4, <2>2
    <3>2. \A i \in 1 .. m : i < m => q[i] = TRUE
      <4>1. ASSUME NEW i \in 1 .. m, i < m PROVE q[i] = TRUE
        <5>1. i \in 1 .. n
          BY <4>1
        <5>2. q[i] = p[i] /\ p[i] = TRUE
          BY <1>4, <2>2, <5>1
        <5>3. QED
          BY <5>2
      <4>2. QED
        BY <4>1
    <3> HIDE DEF m
    <3>3. WithPin(StripRow(q, m), m, TRUE) = StripRow(p, m)
      BY <3>1, <3>2, RowPinned
    <3>4. QED
      BY <3>3 DEF m
  <2> HIDE DEF r
  <2> DEFINE v == Window(r, u)
  <2>4. v.s = r /\ v = Window(r, u)
    BY WindowIs
  <2> HIDE DEF v
  <2>5. Restored(w, e) = [v EXCEPT !.s = WithPin(v.s, PinTarget(v.s), TRUE)]
    BY <1>10, <1>11, <2>4 DEF Restored
  <2>6. Restored(w, e) = [v EXCEPT !.s = StripRow(p, n + 1)]
    BY <2>1, <2>3, <2>4, <2>5
  <2>7. Restored(w, e) = Window(StripRow(p, n + 1), u)
    BY <2>4, <2>6, WindowWith
  <2>8. QED
    BY <2>7 DEF Row, p, u, e, w
<1>12. CASE ~e.pinned
  <2>1. StripRow(q, n + 1) = StripRow(p, n + 1)
    <3> DEFINE m == n + 1
    <3>1. m \in Nat \ {0} /\ \A i \in 1 .. m : p[i] = q[i]
      <4>1. ASSUME NEW i \in 1 .. m PROVE p[i] = q[i]
        <5>1. i \in 1 .. n \/ i = n + 1
          OBVIOUS
        <5>2. QED
          BY <1>3, <1>4, <1>12, <5>1
      <4>2. QED
        BY <1>1, <4>1
    <3> HIDE DEF m
    <3>2. StripRow(q, m) = StripRow(p, m)
      BY <3>1, RowSame
    <3>3. QED
      BY <3>2 DEF m
  <2>2. Restored(w, e) = Window(r, u)
    BY <1>10, <1>12 DEF Restored
  <2>3. QED
    BY <2>1, <2>2 DEF Row, p, u, e, w
<1>13. QED
  BY <1>3, <1>11, <1>12 DEF e, w

LEMMA RestoredAllIs ==
  ASSUME NEW entries \in Seq(Entry), PinnedFirst(entries)
  PROVE  RestoredAll(entries) = IF entries = <<>> THEN FreshWindow ELSE Row(entries, Len(entries))
<1>1. CASE entries = <<>>
  BY <1>1 DEF RestoredAll
<1>2. CASE entries # <<>>
  <2> DEFINE N == Len(entries)
             first == Navigated(FreshWindow, entries[1].url)
             pinned == [first EXCEPT !.s = WithPin(@, @.active, TRUE)]
             One == IF entries[1].pinned THEN pinned ELSE first
             Body(g) == [n \in 1 .. N |-> IF n = 1 THEN IF entries[1].pinned THEN pinned ELSE first
                                          ELSE Restored(g[n - 1], entries[n])]
             f == [n \in 1 .. N |-> Row(entries, n)]
             F == CHOOSE g : g = Body(g)
  <2>1. N \in Nat /\ N >= 1 /\ N \in 1 .. N /\ 1 \in 1 .. N
    BY <1>2, LenProperties, EmptySeq
  <2>2. RestoredAll(entries) = F[N]
    BY <1>2 DEF RestoredAll
  <2>3. (IF entries[1].pinned THEN pinned ELSE first) = Row(entries, 1)
    BY <2>1, FirstRow
  <2> HIDE DEF N, first, pinned
  <2>4. ASSUME NEW n \in 1 .. N, n # 1
        PROVE n - 1 \in 1 .. N /\ Restored(Row(entries, n - 1), entries[n]) = Row(entries, n)
    <3>1. n - 1 \in 1 .. N /\ n - 1 \in Nat \ {0} /\ (n - 1) + 1 = n /\ n <= Len(entries)
      BY <2>1, <2>4 DEF N
    <3> DEFINE m == n - 1
    <3>2. m \in Nat \ {0} /\ m + 1 <= Len(entries)
      BY <3>1
    <3> HIDE DEF m
    <3>3. Restored(Row(entries, m), entries[m + 1]) = Row(entries, m + 1)
      BY <3>2, NextRow
    <3>4. QED
      BY <3>1, <3>3 DEF m
  <2>5. f = Body(f)
    <3>1. ASSUME NEW n \in 1 .. N
          PROVE Row(entries, n) = IF n = 1 THEN IF entries[1].pinned THEN pinned ELSE first
                                  ELSE Restored(f[n - 1], entries[n])
      <4>1. CASE n = 1
        BY <2>3, <4>1
      <4>2. CASE n # 1
        <5>1. n - 1 \in 1 .. N /\ Restored(Row(entries, n - 1), entries[n]) = Row(entries, n)
          BY <2>4, <4>2
        <5>2. f[n - 1] = Row(entries, n - 1)
          BY <5>1
        <5>3. QED
          BY <4>2, <5>1, <5>2
      <4>3. QED
        BY <4>1, <4>2
    <3>2. QED
      BY <3>1
  <2> HIDE DEF f
  <2>6. F = Body(F)
    BY <2>5
  <2> HIDE DEF F
  <2>7. /\ F[1] = Row(entries, 1)
        /\ \A n \in 1 .. N : n # 1 => F[n] = Restored(F[n - 1], entries[n])
    BY <2>1, <2>3, <2>6
  <2> DEFINE T == {n \in 0 .. N : n = 0 \/ F[n] = Row(entries, n)}
  <2>8. 0 \in T
    BY <2>1
  <2>9. ASSUME NEW n \in 1 .. N, n - 1 \in T PROVE n \in T
    <3>1. n \in 0 .. N
      BY <2>1
    <3>2. CASE n = 1
      BY <2>7, <3>1, <3>2
    <3>3. CASE n # 1
      <4>1. n - 1 # 0
        BY <2>1, <3>3
      <4>2. F[n - 1] = Row(entries, n - 1)
        BY <2>9, <4>1
      <4>3. F[n] = Row(entries, n)
        BY <2>4, <2>7, <3>3, <4>2
      <4>4. QED
        BY <3>1, <4>3
    <3>4. QED
      BY <3>2, <3>3
  <2> HIDE DEF T
  <2>10. \A n \in 0 .. N : n \in T
    BY <2>1, <2>8, <2>9, Assumed, Strips!UpTo
  <2>11. F[N] = Row(entries, N)
    <3>1. N \in 0 .. N /\ N # 0
      BY <2>1
    <3>2. QED
      BY <2>10, <3>1 DEF T
  <2>12. QED
    BY <1>2, <2>2, <2>11 DEF N
<1>3. QED
  BY <1>1, <1>2

\* A window as it is between two events.
Ready(w) == w = Window(w.s, w.url) /\ InUse(w.s) /\ Addressed(w.s, w.url)

LEMMA ListIs ==
  ASSUME NEW s, Good(s), NEW u, Addressed(s, u)
  PROVE  List(s, u) \in Seq(Entry) /\ Len(List(s, u)) = Len(s.tabs)
<1>1. s.tabs \in Seq(TabRecord) /\ \A i \in Positions(s) : s.tabs[i].pinned \in BOOLEAN
  BY GoodIs
<1>2. Len(s.tabs) \in Nat
  BY <1>1, LenProperties
<1>3. List(s, u) \in [1 .. Len(s.tabs) -> Entry]
  BY <1>1, AddressOf DEF List, Entry, Positions
<1>4. List(s, u) \in Seq(Entry)
  BY <1>2, <1>3, SeqDef
<1>5. QED
  BY <1>2, <1>3, <1>4, LenIs

LEMMA RowReady ==
  ASSUME NEW entries \in Seq(Entry), entries # <<>>, NEW w, w = Row(entries, Len(entries))
  PROVE  /\ Ready(w) /\ List(w.s, w.url) = entries /\ Positions(w.s) = 1 .. Len(entries) /\ w.s.active = 1
<1> DEFINE n == Len(entries)
           p == Pins(entries)
<1>1. n \in Nat \ {0}
  BY LenProperties, EmptySeq
<1>2. \A i \in 1 .. n : p[i] = entries[i].pinned /\ p[i] \in BOOLEAN /\ entries[i].url \in Urls
  BY EntriesAre
<1>3. w = Window(StripRow(p, n), RowUrls(entries, n)) /\ w.s = StripRow(p, n) /\ w.url = RowUrls(entries, n)
  BY WindowIs DEF Row
<1> HIDE DEF n, p
<1>4. /\ InUse(w.s) /\ Positions(w.s) = 1 .. n /\ w.s.active = 1
      /\ \A i \in 1 .. n : w.s.tabs[i].id = i - 1 /\ w.s.tabs[i].pinned = p[i]
      /\ Ids(w.s) = 0 .. n - 1
  BY <1>1, <1>2, <1>3, RowIs
<1>5. /\ w.url \in [0 .. n - 1 -> Urls]
      /\ \A k \in 0 .. n - 1 : w.url[k] = entries[k + 1].url
  <2>1. ASSUME NEW k \in 0 .. n - 1 PROVE entries[k + 1].url \in Urls
    <3>1. k + 1 \in 1 .. n
      BY <1>1
    <3>2. QED
      BY <1>2, <3>1
  <2>2. QED
    BY <1>3, <2>1 DEF RowUrls
<1>6. Addressed(w.s, w.url)
  BY <1>4, <1>5 DEF Addressed
<1>7. List(w.s, w.url) = entries
  <2>1. ASSUME NEW i \in 1 .. n PROVE [url |-> w.url[w.s.tabs[i].id], pinned |-> w.s.tabs[i].pinned] = entries[i]
    <3>1. i - 1 \in 0 .. n - 1 /\ (i - 1) + 1 = i
      BY <1>1
    <3>2. w.url[w.s.tabs[i].id] = entries[i].url /\ w.s.tabs[i].pinned = entries[i].pinned
      BY <1>2, <1>4, <1>5, <3>1
    <3>3. entries[i] = [url |-> entries[i].url, pinned |-> entries[i].pinned]
      BY EntriesAre DEF n
    <3>4. QED
      BY <3>2, <3>3
  <2>2. List(w.s, w.url) = [i \in 1 .. n |-> entries[i]]
    BY <1>4, <2>1 DEF List
  <2>3. entries = [i \in 1 .. n |-> entries[i]]
    BY LenProperties DEF n
  <2>4. QED
    BY <2>2, <2>3
<1>8. QED
  BY <1>3, <1>4, <1>6, <1>7 DEF Ready, n

LEMMA FreshReady == Ready(FreshWindow)
<1> DEFINE p == [i \in 1 .. 1 |-> FALSE]
           w == FreshWindow
           fs == [id \in {0} |-> Home]
<1>1. 1 \in 1 .. 1 /\ p[1] = FALSE
  OBVIOUS
<1> HIDE DEF p
<1>2. Opened(EmptyStrip, FALSE) = StripRow(p, 1)
  BY <1>1, FirstOpened
<1>3. InUse(StripRow(p, 1)) /\ Ids(StripRow(p, 1)) = {0}
  <2> DEFINE m == 1
  <2>1. m \in Nat \ {0} /\ (\A i \in 1 .. m : p[i] \in BOOLEAN) /\ 0 .. m - 1 = {0}
    <3>1. \A i \in 1 .. 1 : i = 1
      OBVIOUS
    <3>2. 0 .. 1 - 1 = {0}
      OBVIOUS
    <3>3. \A i \in 1 .. 1 : p[i] \in BOOLEAN
      BY <1>1, <3>1
    <3>4. QED
      BY <3>2, <3>3
  <2> HIDE DEF m
  <2>2. InUse(StripRow(p, m)) /\ Ids(StripRow(p, m)) = 0 .. m - 1
    BY <2>1, RowIs
  <2>3. QED
    BY <2>1, <2>2 DEF m
<1>4. fs \in [{0} -> Urls]
  BY UrlsAssumption
<1>5. w = Window(StripRow(p, 1), fs)
  BY <1>2 DEF FreshWindow
<1> HIDE DEF w, fs
<1>6. w.s = StripRow(p, 1) /\ w.url = fs
  BY <1>5, WindowIs
<1>7. Addressed(w.s, w.url)
  BY <1>3, <1>4, <1>6 DEF Addressed
<1>8. QED
  BY <1>3, <1>5, <1>6, <1>7 DEF Ready, w

\* The tab that was active is selected, if it is there.
Selects(w, i, v) ==
  /\ Ready(v) /\ List(v.s, v.url) = List(w.s, w.url)
  /\ v.s.active = IF i \in Positions(w.s) THEN i ELSE w.s.active

LEMMA SelectedReady ==
  ASSUME NEW w, Ready(w), NEW i, NEW v, v = [w EXCEPT !.s = SetActive(@, i)]
  PROVE  Selects(w, i, v)
<1> DEFINE s == SetActive(w.s, i)
<1>1. w = Window(w.s, w.url) /\ Good(w.s) /\ InUse(w.s) /\ Addressed(w.s, w.url)
  BY DEF Ready, InUse
<1>2. v = [w EXCEPT !.s = s]
  OBVIOUS
<1> HIDE DEF s
<1>3. v = Window(s, w.url) /\ v.s = s /\ v.url = w.url
  <2>1. [w EXCEPT !.s = s] = Window(s, w.url)
    BY <1>1, WindowWith
  <2>2. v = Window(s, w.url)
    BY <1>2, <2>1
  <2> DEFINE x == w.url
  <2>3. v = Window(s, x)
    BY <2>2
  <2> HIDE DEF x
  <2>4. v.s = s /\ v.url = x
    BY <2>3, WindowIs, ZenonT(40)
  <2>5. QED
    BY <2>2, <2>4 DEF x
<1>4. CASE i \in Positions(w.s)
  <2>1. Stays(w.s, s) /\ s.tabs = w.s.tabs /\ s.active = i
    BY <1>1, <1>4, Activated DEF s
  <2>2. Addressed(s, w.url)
    BY <1>1, <2>1 DEF Stays, Addressed
  <2>3. List(s, w.url) = List(w.s, w.url)
    BY <2>1 DEF List, Positions
  <2>4. QED
    BY <1>3, <1>4, <2>1, <2>2, <2>3 DEF Ready, Stays, Selects
<1>5. CASE i \notin Positions(w.s)
  <2>1. s = w.s
    BY <1>5 DEF s, SetActive
  <2>2. QED
    BY <1>1, <1>3, <1>5, <2>1 DEF Ready, Selects
<1>6. QED
  BY <1>4, <1>5

LEMMA NavigatedReady ==
  ASSUME NEW w, Ready(w), NEW a \in Urls, NEW v, v = Navigated(w, a)
  PROVE  /\ Ready(v) /\ v.s = w.s
         /\ v.url = [w.url EXCEPT ![w.s.tabs[w.s.active].id] = a]
<1> DEFINE k == w.s.tabs[w.s.active].id
           f == [w.url EXCEPT ![k] = a]
<1>1. w = Window(w.s, w.url) /\ InUse(w.s) /\ Addressed(w.s, w.url)
  BY DEF Ready
<1>2. v = [w EXCEPT !.url[k] = a]
  BY DEF Navigated
<1> HIDE DEF k
<1>3. w = [s |-> w.s, url |-> w.url]
  BY <1>1 DEF Window
<1>4. v = [w EXCEPT !.url = f]
  BY <1>2, <1>3
<1> HIDE DEF f
<1>5. v = [s |-> w.s, url |-> f]
  BY <1>3, <1>4
<1>6. f \in [DOMAIN w.url -> Urls]
  BY <1>1 DEF Addressed, f
<1>7. Addressed(w.s, f)
  BY <1>1, <1>6 DEF Addressed
<1>8. QED
  BY <1>1, <1>5, <1>7 DEF Ready, Window, f, k

\* An address of the command line is opened behind the session and selected.
LEMMA BehindReady ==
  ASSUME NEW w, Ready(w), NEW a \in Urls,
         NEW v, v = [InBackground(w, a) EXCEPT !.s = SelectId(@, w.s.next)]
  PROVE  /\ Ready(v) /\ v.s.active = Len(v.s.tabs) /\ Len(v.s.tabs) = Len(w.s.tabs) + 1
         /\ \A i \in 1 .. Len(w.s.tabs) : List(v.s, v.url)[i] = List(w.s, w.url)[i]
         /\ List(v.s, v.url)[Len(w.s.tabs) + 1] = [url |-> a, pinned |-> FALSE]
<1> DEFINE n == Len(w.s.tabs)
           o == Opened(w.s, TRUE)
           u == Also(w.url, w.s.next, a)
           s == SelectId(o, w.s.next)
<1>1. w = Window(w.s, w.url) /\ Good(w.s) /\ InUse(w.s) /\ Addressed(w.s, w.url)
  BY DEF Ready, InUse
<1>2. /\ w.s.tabs \in Seq(TabRecord) /\ w.s.next \in Nat
      /\ \A i \in Positions(w.s) : w.s.tabs[i].id \in Nat /\ w.s.tabs[i].id < w.s.next
  BY <1>1, GoodIs
<1>3. n \in Nat /\ n + 1 \in 1 .. n + 1
  <2>1. n \in Nat
    BY <1>2, LenProperties
  <2>2. QED
    BY <2>1
<1>4. /\ Len(o.tabs) = n + 1 /\ o.tabs[n + 1] = Tab(w.s.next, FALSE) /\ \A i \in 1 .. n : o.tabs[i] = w.s.tabs[i]
  BY <1>1, OpenedTabs DEF Gained
<1>5. InUse(o) /\ Good(o) /\ Ids(o) \subseteq Ids(w.s) \cup {w.s.next}
  BY <1>1, OpenedAlike DEF Grows, InUse
<1> HIDE DEF o, u
<1>6. Positions(o) = 1 .. n + 1
  BY <1>4 DEF Positions
<1>7. o.tabs[n + 1].id = w.s.next
  BY <1>4 DEF Tab
<1>8. s = SetActive(o, n + 1)
  <2>1. w.s.next \in Ids(o)
    BY <1>3, <1>6, <1>7 DEF Ids
  <2>2. \A i \in Positions(o) : o.tabs[i].id = w.s.next <=> i = n + 1
    BY <1>3, <1>5, <1>6, <1>7, GoodIs
  <2>3. PositionOf(o, w.s.next) = n + 1
    BY <1>3, <1>6, <2>2 DEF PositionOf
  <2>4. QED
    BY <2>1, <2>3 DEF SelectId
<1> HIDE DEF s
<1>9. Stays(o, s) /\ s.tabs = o.tabs /\ s.active = n + 1
  BY <1>3, <1>5, <1>6, <1>8, Activated
<1>10. v = Window(s, u) /\ v.s = s /\ v.url = u
  <2> DEFINE b == InBackground(w, a)
  <2>1. b = Window(o, u) /\ b.s = o
    BY WindowIs DEF InBackground, o, u
  <2> HIDE DEF b
  <2>2. v = [b EXCEPT !.s = SelectId(b.s, w.s.next)]
    BY DEF b
  <2>3. v = [b EXCEPT !.s = s]
    BY <2>1, <2>2 DEF s
  <2>4. [b EXCEPT !.s = s] = Window(s, u)
    BY <2>1, WindowWith
  <2>5. v = Window(s, u)
    BY <2>3, <2>4
  <2>6. QED
    BY <2>5, WindowIs, ZenonT(40)
<1>11. /\ u \in [DOMAIN w.url \cup {w.s.next} -> Urls]
       /\ u[w.s.next] = a /\ \A x \in DOMAIN w.url : x # w.s.next => u[x] = w.url[x]
  BY <1>1 DEF u, Also, Addressed
<1>12. Addressed(s, u)
  BY <1>1, <1>5, <1>9, <1>11 DEF Addressed, Stays
<1>13. Ready(v)
  BY <1>9, <1>10, <1>12 DEF Ready, Stays
<1>14. ASSUME NEW i \in 1 .. n PROVE List(s, u)[i] = List(w.s, w.url)[i]
  <2>1. i \in Positions(s) /\ i \in Positions(w.s)
    BY <1>3, <1>4, <1>9 DEF Positions
  <2>2. s.tabs[i] = w.s.tabs[i]
    BY <1>4, <1>9
  <2>3. u[w.s.tabs[i].id] = w.url[w.s.tabs[i].id]
    <3>1. w.s.tabs[i].id \in DOMAIN w.url
      BY <1>1, <2>1 DEF Addressed, Ids
    <3>2. w.s.tabs[i].id # w.s.next
      BY <1>2, <2>1
    <3>3. QED
      BY <1>11, <3>1, <3>2
  <2>4. QED
    BY <2>1, <2>2, <2>3 DEF List
<1>15. List(s, u)[n + 1] = [url |-> a, pinned |-> FALSE]
  <2>1. n + 1 \in Positions(s)
    BY <1>3, <1>4, <1>9 DEF Positions
  <2>2. s.tabs[n + 1].id = w.s.next /\ s.tabs[n + 1].pinned = FALSE
    BY <1>4, <1>9 DEF Tab
  <2>3. QED
    BY <1>11, <2>1, <2>2 DEF List
<1>16. QED
  BY <1>4, <1>9, <1>10, <1>13, <1>14, <1>15

-----------------------------------------------------------------------------
(* The window that opens.                                                  *)

OpenedWith(p) == WithCli([RestoredAll(p.entries) EXCEPT !.s = SetActive(@, p.active)], p)

\* What may be waiting to be opened.
Waiting(p) ==
  /\ p.entries \in Seq(Entry) /\ PinnedFirst(p.entries) /\ p.active \in Nat
  /\ p.cli \in Seq(Safe) /\ Len(p.cli) \in {0, 1}

Behind(cli) == [i \in DOMAIN cli |-> [url |-> cli[i], pinned |-> FALSE]]

\* The saved tabs, and the address of the command line behind them.
Lists(w, p) ==
  /\ List(w.s, w.url) = p.entries \o Behind(p.cli)
  /\ w.s.active = IF p.cli = <<>> THEN IF p.active \in 1 .. Len(p.entries) THEN p.active ELSE 1
                  ELSE Len(w.s.tabs)

LEMMA BehindIs ==
  ASSUME NEW cli \in Seq(Safe), Len(cli) \in {0, 1}
  PROVE  /\ cli = <<>> => Behind(cli) = <<>>
         /\ cli # <<>> => /\ Len(cli) = 1 /\ cli[1] \in Urls
                          /\ Behind(cli) \in Seq(Entry) /\ Len(Behind(cli)) = 1
                          /\ Behind(cli)[1] = [url |-> cli[1], pinned |-> FALSE]
<1> DEFINE b == Behind(cli)
<1>1. CASE cli = <<>>
  <2>1. DOMAIN cli = 1 .. 0
    BY <1>1
  <2>2. b \in [1 .. 0 -> Entry]
    BY <2>1 DEF Behind
  <2> HIDE DEF b
  <2>3. b \in Seq(Entry)
    BY <2>2, SeqDef
  <2>4. Len(b) = 0
    BY <2>2, <2>3, LenIs
  <2>5. b = <<>>
    BY <2>3, <2>4, EmptySeq
  <2>6. QED
    BY <1>1, <2>5 DEF b
<1>2. CASE cli # <<>>
  <2>1. Len(cli) = 1 /\ DOMAIN cli = 1 .. 1 /\ 1 \in 1 .. 1
    BY <1>2, LenProperties, EmptySeq
  <2>2. \A i \in 1 .. 1 : cli[i] \in Urls
    <3>1. ASSUME NEW i \in 1 .. 1 PROVE cli[i] \in Urls
      <4>1. cli[i] \in Safe
        BY <2>1, <3>1, ElementOfSeq
      <4>2. QED
        BY <4>1, UrlsAssumption
    <3>2. QED
      BY <3>1
  <2>3. b \in [1 .. 1 -> Entry] /\ b[1] = [url |-> cli[1], pinned |-> FALSE]
    BY <2>1, <2>2 DEF Behind, Entry
  <2> HIDE DEF b
  <2>4. b \in Seq(Entry)
    BY <2>3, SeqDef
  <2>5. Len(b) = 1
    BY <2>3, <2>4, LenIs
  <2>6. QED
    BY <1>2, <2>1, <2>2, <2>3, <2>4, <2>5 DEF b
<1>3. QED
  BY <1>1, <1>2

LEMMA RestoredReady ==
  ASSUME NEW p, Waiting(p), NEW v, v = [RestoredAll(p.entries) EXCEPT !.s = SetActive(@, p.active)]
  PROVE  /\ Ready(v)
         /\ p.entries # <<>> =>
              /\ List(v.s, v.url) = p.entries
              /\ v.s.active = IF p.active \in 1 .. Len(p.entries) THEN p.active ELSE 1
<1> DEFINE w == RestoredAll(p.entries)
<1>1. p.entries \in Seq(Entry) /\ PinnedFirst(p.entries)
  BY DEF Waiting
<1>2. w = IF p.entries = <<>> THEN FreshWindow ELSE Row(p.entries, Len(p.entries))
  BY <1>1, RestoredAllIs
<1> HIDE DEF w
<1>3. v = [w EXCEPT !.s = SetActive(@, p.active)]
  BY DEF w
<1>4. CASE p.entries = <<>>
  <2>1. Ready(w)
    BY <1>2, <1>4, FreshReady
  <2>2. QED
    BY <1>3, <1>4, <2>1, SelectedReady DEF Selects
<1>5. CASE p.entries # <<>>
  <2>1. /\ Ready(w) /\ List(w.s, w.url) = p.entries /\ Positions(w.s) = 1 .. Len(p.entries)
        /\ w.s.active = 1
    BY <1>1, <1>2, <1>5, RowReady
  <2>2. /\ Ready(v) /\ List(v.s, v.url) = List(w.s, w.url)
        /\ v.s.active = IF p.active \in Positions(w.s) THEN p.active ELSE w.s.active
    <3>1. Selects(w, p.active, v)
      BY <1>3, <2>1, SelectedReady
    <3>2. QED
      BY <3>1 DEF Selects
  <2>3. QED
    BY <2>1, <2>2
<1>6. QED
  BY <1>4, <1>5

LEMMA WindowOpens ==
  ASSUME NEW p, Waiting(p), NEW w, w = OpenedWith(p)
  PROVE  Ready(w) /\ (p.entries # <<>> => Lists(w, p))
<1> DEFINE v == [RestoredAll(p.entries) EXCEPT !.s = SetActive(@, p.active)]
           a == p.cli[1]
<1>1. /\ Ready(v)
      /\ p.entries # <<>> =>
           /\ List(v.s, v.url) = p.entries
           /\ v.s.active = IF p.active \in 1 .. Len(p.entries) THEN p.active ELSE 1
  BY RestoredReady
<1>2. w = WithCli(v, p)
  BY DEF OpenedWith
<1> HIDE DEF v
<1>3. p.entries \in Seq(Entry) /\ p.cli \in Seq(Safe) /\ Len(p.cli) \in {0, 1}
  BY DEF Waiting
<1>4. CASE p.cli = <<>>
  <2>1. w = v /\ Behind(p.cli) = <<>>
    BY <1>2, <1>3, <1>4, BehindIs DEF WithCli
  <2>2. p.entries \o <<>> = p.entries
    BY <1>3, ConcatEmptySeq
  <2>3. QED
    BY <1>1, <1>4, <2>1, <2>2 DEF Lists
<1>5. CASE p.cli # <<>>
  <2>1. /\ a \in Urls /\ Behind(p.cli) \in Seq(Entry) /\ Len(Behind(p.cli)) = 1
        /\ Behind(p.cli)[1] = [url |-> a, pinned |-> FALSE]
    BY <1>3, <1>5, BehindIs
  <2> HIDE DEF a
  <2>2. CASE p.entries = <<>>
    <3>1. w = Navigated(v, a)
      BY <1>2, <1>5, <2>2 DEF WithCli, a
    <3>2. QED
      BY <1>1, <2>1, <2>2, <3>1, NavigatedReady
  <2>3. CASE p.entries # <<>>
    <3> DEFINE n == Len(v.s.tabs)
               l == List(w.s, w.url)
               b == Behind(p.cli)
               e == p.entries
    <3>1. w = [InBackground(v, a) EXCEPT !.s = SelectId(@, v.s.next)]
      BY <1>2, <1>5, <2>3 DEF WithCli, a
    <3>2. /\ Ready(w) /\ w.s.active = Len(w.s.tabs) /\ Len(w.s.tabs) = n + 1
          /\ \A i \in 1 .. n : l[i] = List(v.s, v.url)[i]
          /\ l[n + 1] = [url |-> a, pinned |-> FALSE]
      BY <1>1, <2>1, <3>1, BehindReady
    <3>3. l \in Seq(Entry) /\ Len(l) = n + 1
      BY <3>2, ListIs DEF Ready, InUse
    <3>4. e \in Seq(Entry) /\ e = List(v.s, v.url) /\ Len(e) = n
      BY <1>1, <1>3, <2>3, ListIs DEF Ready, InUse
    <3> HIDE DEF l, b, n, e
    <3>5. n \in Nat
      BY <3>4, LenProperties
    <3>6. b \in Seq(Entry) /\ Len(b) = 1 /\ b[1] = [url |-> a, pinned |-> FALSE]
      BY <2>1 DEF b
    <3>7. /\ e \o b \in Seq(Entry) /\ Len(e \o b) = n + 1
          /\ \A i \in 1 .. n + 1 : (e \o b)[i] = IF i <= n THEN e[i] ELSE b[i - n]
      <4>1. /\ e \o b \in Seq(Entry) /\ Len(e \o b) = Len(e) + Len(b)
            /\ \A i \in 1 .. Len(e) + Len(b) : (e \o b)[i] = IF i <= Len(e) THEN e[i] ELSE b[i - Len(e)]
        BY <3>4, <3>6, ConcatProperties
      <4>2. Len(e) = n /\ Len(b) = 1
        BY <3>4, <3>6
      <4>3. QED
        BY <4>1, <4>2
    <3>8. ASSUME NEW i \in 1 .. n + 1 PROVE l[i] = (e \o b)[i]
      <4>1. CASE i \in 1 .. n
        <5>1. l[i] = e[i]
          BY <3>2, <3>4, <4>1
        <5>2. i <= n
          BY <3>5, <4>1
        <5>3. QED
          BY <3>7, <5>1, <5>2
      <4>2. CASE i \notin 1 .. n
        <5>1. i = n + 1 /\ ~(i <= n) /\ i - n = 1
          BY <3>5, <4>2
        <5>2. (e \o b)[i] = b[1]
          BY <3>7, <5>1
        <5>3. l[i] = [url |-> a, pinned |-> FALSE]
          BY <3>2, <5>1
        <5>4. QED
          BY <3>6, <5>2, <5>3
      <4>3. QED
        BY <4>1, <4>2
    <3>9. l = e \o b
      BY <3>3, <3>7, <3>8, SeqEqual
    <3>10. Lists(w, p)
      BY <1>5, <3>2, <3>9 DEF Lists, l, e, b
    <3>11. QED
      BY <3>2, <3>10
  <2>4. QED
    BY <2>2, <2>3
<1>6. QED
  BY <1>4, <1>5

-----------------------------------------------------------------------------
(* Lists of which some members are kept.                                   *)

\* What is kept of the first i members.
Sifts(F, list, S, T) ==
  /\ F[0] = <<>>
  /\ \A i \in 1 .. Len(list) : F[i] = IF list[i] \in S THEN Append(F[i - 1], list[i]) ELSE F[i - 1]
  /\ \A i \in 0 .. Len(list) : F[i] \in Seq(T)

LEMMA OnlySifts ==
  ASSUME NEW T, NEW list \in Seq(T), NEW S
  PROVE  \E F : Sifts(F, list, S, T) /\ Only(list, S) = F[Len(list)]
<1> DEFINE n == Len(list)
           One(q, i) == IF list[i] \in S THEN Append(q, list[i]) ELSE q
           step == [x \in (1 .. n) \X Seq(T) |-> One(x[2], x[1])]
           Body(g) == [i \in 0 .. n |-> IF i = 0 THEN <<>>
                                        ELSE IF list[i] \in S THEN Append(g[i - 1], list[i]) ELSE g[i - 1]]
           F == CHOOSE g : g = Body(g)
<1>1. n \in Nat /\ <<>> \in Seq(T) /\ \A i \in 1 .. n : list[i] \in T
  BY LenProperties, ElementOfSeq
<1>2. ASSUME NEW q \in Seq(T), NEW i \in 1 .. n PROVE One(q, i) \in Seq(T)
  <2>1. list[i] \in T
    BY <1>1
  <2> HIDE DEF n
  <2>2. Append(q, list[i]) \in Seq(T)
    BY <2>1, AppendProperties
  <2>3. QED
    BY <2>2
<1> HIDE DEF One
<1>3. step \in [(1 .. n) \X Seq(T) -> Seq(T)]
  BY <1>2
<1>4. \A i \in 1 .. n, q \in Seq(T) : step[<<i, q>>] = One(q, i)
  OBVIOUS
<1> HIDE DEF step, n
<1>5. PICK f : Strips!Runs(f, n, Seq(T), <<>>, step)
  BY <1>1, <1>3, Assumed, Strips!Recursion
<1>6. /\ f = [i \in 0 .. n |-> f[i]] /\ f[0] = <<>>
      /\ \A i \in 1 .. n : f[i] = step[<<i, f[i - 1]>>]
      /\ \A i \in 0 .. n : f[i] \in Seq(T)
  BY <1>5 DEF Strips!Runs
<1>7. ASSUME NEW i \in 1 .. n PROVE f[i] = One(f[i - 1], i)
  <2>1. i - 1 \in 0 .. n
    BY <1>1
  <2>2. QED
    BY <1>4, <1>6, <2>1
<1>8. f = Body(f)
  <2>1. ASSUME NEW i \in 0 .. n
        PROVE  f[i] = IF i = 0 THEN <<>>
                      ELSE IF list[i] \in S THEN Append(f[i - 1], list[i]) ELSE f[i - 1]
    <3>1. CASE i = 0
      BY <1>6, <3>1
    <3>2. CASE i # 0
      <4>1. i \in 1 .. n
        BY <1>1, <3>2
      <4>2. QED
        BY <1>7, <3>2, <4>1 DEF One
    <3>3. QED
      BY <3>1, <3>2
  <2>2. QED
    BY <1>6, <2>1
<1>9. F = Body(F)
  BY <1>8
<1>10. Only(list, S) = F[n]
  BY DEF Only, n
<1> HIDE DEF F
<1>11. /\ F[0] = <<>>
       /\ \A i \in 1 .. n : F[i] = IF list[i] \in S THEN Append(F[i - 1], list[i]) ELSE F[i - 1]
  <2>1. F[0] = <<>>
    <3>1. 0 \in 0 .. n
      BY <1>1
    <3>2. QED
      BY <1>9, <3>1
  <2>2. ASSUME NEW i \in 1 .. n PROVE F[i] = IF list[i] \in S THEN Append(F[i - 1], list[i]) ELSE F[i - 1]
    <3>1. i \in 0 .. n /\ i # 0
      BY <1>1
    <3>2. QED
      BY <1>9, <3>1
  <2>3. QED
    BY <2>1, <2>2
<1> DEFINE In == {i \in 0 .. n : F[i] \in Seq(T)}
<1>12. \A i \in 0 .. n : i \in In
  <2>1. 0 \in In
    <3>1. F[0] \in Seq(T)
      BY <1>1, <1>11
    <3>2. 0 \in 0 .. n
      BY <1>1
    <3>3. QED
      BY <3>1, <3>2
  <2>2. ASSUME NEW i \in 1 .. n, i - 1 \in In PROVE i \in In
    <3>1. F[i - 1] \in Seq(T)
      BY <2>2
    <3>2. F[i] = One(F[i - 1], i)
      BY <1>11 DEF One
    <3>3. F[i] \in Seq(T)
      BY <1>2, <3>1, <3>2
    <3>4. i \in 0 .. n
      BY <1>1
    <3>5. QED
      BY <3>3, <3>4
  <2> HIDE DEF In
  <2>3. QED
    BY <1>1, <2>1, <2>2, Assumed, Strips!UpTo
<1>13. Sifts(F, list, S, T)
  BY <1>11, <1>12 DEF Sifts, n
<1>14. QED
  BY <1>10, <1>13 DEF n

LEMMA OnlyIs ==
  ASSUME NEW T, NEW list \in Seq(T), NEW S
  PROVE  Only(list, S) \in Seq(T)
<1>1. PICK F : Sifts(F, list, S, T) /\ Only(list, S) = F[Len(list)]
  BY OnlySifts
<1>2. Len(list) \in 0 .. Len(list)
  BY LenProperties
<1>3. QED
  BY <1>1, <1>2 DEF Sifts

\* One member more.
LEMMA OnlyAppend ==
  ASSUME NEW T, NEW list \in Seq(T), NEW x \in T, NEW S
  PROVE  Only(Append(list, x), S) = IF x \in S THEN Append(Only(list, S), x) ELSE Only(list, S)
<1> DEFINE n == Len(list)
           more == Append(list, x)
<1>1. n \in Nat /\ more \in Seq(T) /\ Len(more) = n + 1 /\ more[n + 1] = x /\ \A i \in 1 .. n : more[i] = list[i]
  BY LenProperties, AppendProperties
<1> HIDE DEF more, n
<1>2. PICK F : Sifts(F, list, S, T) /\ Only(list, S) = F[Len(list)]
  BY OnlySifts
<1>3. PICK G : Sifts(G, more, S, T) /\ Only(more, S) = G[Len(more)]
  BY <1>1, OnlySifts
<1>4. /\ F[0] = <<>>
      /\ \A i \in 1 .. n : F[i] = IF list[i] \in S THEN Append(F[i - 1], list[i]) ELSE F[i - 1]
  BY <1>2 DEF Sifts, n
<1>5. /\ G[0] = <<>>
      /\ \A i \in 1 .. n + 1 : G[i] = IF more[i] \in S THEN Append(G[i - 1], more[i]) ELSE G[i - 1]
  BY <1>1, <1>3 DEF Sifts
<1> DEFINE Same == {i \in 0 .. n : G[i] = F[i]}
<1>6. \A i \in 0 .. n : i \in Same
  <2>1. 0 \in Same
    BY <1>1, <1>4, <1>5
  <2>2. ASSUME NEW i \in 1 .. n, i - 1 \in Same PROVE i \in Same
    <3>1. i \in 0 .. n /\ i \in 1 .. n + 1
      BY <1>1
    <3>2. G[i - 1] = F[i - 1] /\ more[i] = list[i]
      BY <1>1, <2>2
    <3>3. G[i] = F[i]
      BY <1>4, <1>5, <3>1, <3>2
    <3>4. QED
      BY <3>1, <3>3
  <2> HIDE DEF Same
  <2>3. QED
    BY <1>1, <2>1, <2>2, Assumed, Strips!UpTo
<1>7. G[n] = F[n] /\ Only(list, S) = F[n]
  BY <1>1, <1>2, <1>6 DEF n
<1>8. n + 1 \in 1 .. n + 1 /\ (n + 1) - 1 = n
  BY <1>1
<1>9. G[n + 1] = IF x \in S THEN Append(G[n], x) ELSE G[n]
  BY <1>1, <1>5, <1>8
<1>10. Only(more, S) = G[n + 1]
  BY <1>1, <1>3
<1>11. QED
  BY <1>7, <1>9, <1>10 DEF more

\* Induction over the first members of a list.
LEMMA Prefix ==
  ASSUME NEW T, NEW list \in Seq(T), NEW i \in 1 .. Len(list)
  PROVE  /\ SubSeq(list, 1, i) = Append(SubSeq(list, 1, i - 1), list[i])
         /\ SubSeq(list, 1, i - 1) \in Seq(T) /\ list[i] \in T
<1> DEFINE a == SubSeq(list, 1, i - 1)
           b == SubSeq(list, 1, i)
           n == Len(list)
<1>1. n \in Nat /\ i \in 1 .. n /\ i - 1 \in Nat /\ i - 1 <= n
  BY LenProperties
<1>2. list[i] \in T
  BY ElementOfSeq
<1>3. a \in Seq(T) /\ Len(a) = i - 1 /\ \A j \in 1 .. i - 1 : a[j] = list[j]
  OBVIOUS
<1>4. b \in Seq(T) /\ Len(b) = i /\ \A j \in 1 .. i : b[j] = list[j]
  OBVIOUS
<1> HIDE DEF a, b
<1> DEFINE c == Append(a, list[i])
<1>5. c \in Seq(T) /\ Len(c) = (i - 1) + 1 /\ c[(i - 1) + 1] = list[i] /\ \A j \in 1 .. i - 1 : c[j] = a[j]
  BY <1>2, <1>3, Grown
<1> HIDE DEF c
<1>6. ASSUME NEW j \in 1 .. i PROVE b[j] = c[j]
  <2>1. j = i \/ j \in 1 .. i - 1
    BY <1>1
  <2>2. (i - 1) + 1 = i
    BY <1>1
  <2>3. QED
    BY <1>3, <1>4, <1>5, <2>1, <2>2
<1>7. Len(c) = i
  BY <1>1, <1>5
<1>8. b = c
  BY <1>4, <1>5, <1>6, <1>7, SeqEqual
<1>9. QED
  BY <1>2, <1>3, <1>8 DEF a, b, c

LEMMA WholeList ==
  ASSUME NEW T, NEW list \in Seq(T)
  PROVE  SubSeq(list, 1, 0) = <<>> /\ SubSeq(list, 1, Len(list)) = list
<1> DEFINE n == Len(list)
           a == SubSeq(list, 1, n)
           z == SubSeq(list, 1, 0)
<1>1. n \in Nat
  BY LenProperties
<1>2. a \in Seq(T) /\ Len(a) = n /\ \A j \in 1 .. n : a[j] = list[j]
  OBVIOUS
<1>3. z \in Seq(T) /\ Len(z) = 0
  OBVIOUS
<1> HIDE DEF a, z
<1>4. a = list
  <2>1. Len(a) = Len(list) /\ \A j \in 1 .. Len(a) : a[j] = list[j]
    BY <1>2
  <2> HIDE DEF n
  <2>2. QED
    BY <1>2, <2>1, SeqEqual
<1>5. z = <<>>
  BY <1>3, EmptySeq
<1>6. QED
  BY <1>4, <1>5 DEF a, z

LEMMA OnlyNone == ASSUME NEW S PROVE Only(<<>>, S) = <<>>
<1>1. <<>> \in Seq({}) /\ Len(<<>>) = 0
  BY EmptySeq
<1>2. PICK F : Sifts(F, <<>>, S, {}) /\ Only(<<>>, S) = F[Len(<<>>)]
  BY <1>1, OnlySifts
<1>3. QED
  BY <1>1, <1>2 DEF Sifts

LEMMA OnlyAll ==
  ASSUME NEW S, NEW list \in Seq(S)
  PROVE  Only(list, S) = list
<1> DEFINE n == Len(list)
           A == {i \in 0 .. n : Only(SubSeq(list, 1, i), S) = SubSeq(list, 1, i)}
<1>1. n \in Nat
  BY LenProperties
<1>2. 0 \in A
  <2>1. SubSeq(list, 1, 0) = <<>>
    BY WholeList
  <2>2. Only(SubSeq(list, 1, 0), S) = SubSeq(list, 1, 0)
    BY <2>1, OnlyNone
  <2>3. 0 \in 0 .. n
    BY <1>1
  <2>4. QED
    BY <2>2, <2>3
<1>3. ASSUME NEW i \in 1 .. n, i - 1 \in A PROVE i \in A
  <2> DEFINE p == SubSeq(list, 1, i - 1)
             q == SubSeq(list, 1, i)
             x == list[i]
  <2>1. q = Append(p, x) /\ p \in Seq(S) /\ x \in S
    BY Prefix
  <2>2. Only(p, S) = p
    BY <1>3
  <2>3. i \in 0 .. n
    BY <1>1
  <2> HIDE DEF p, q, x
  <2>4. Only(Append(p, x), S) = Append(p, x)
    BY <2>1, <2>2, OnlyAppend
  <2>5. QED
    BY <2>1, <2>3, <2>4 DEF q
<1> HIDE DEF A
<1>4. \A i \in 0 .. n : i \in A
  BY <1>1, <1>2, <1>3, Assumed, Strips!UpTo
<1>5. n \in A
  BY <1>1, <1>4
<1>6. QED
  BY <1>5, WholeList DEF A

LEMMA OnlyThose ==
  ASSUME NEW T, NEW list \in Seq(T), NEW S
  PROVE  Only(list, S) \in Seq(S)
<1> DEFINE n == Len(list)
           A == {i \in 0 .. n : Only(SubSeq(list, 1, i), S) \in Seq(S)}
<1>1. n \in Nat
  BY LenProperties
<1>2. 0 \in A
  <2>1. SubSeq(list, 1, 0) = <<>>
    BY WholeList
  <2>2. Only(SubSeq(list, 1, 0), S) \in Seq(S)
    BY <2>1, OnlyNone, EmptySeq
  <2>3. 0 \in 0 .. n
    BY <1>1
  <2>4. QED
    BY <2>2, <2>3
<1>3. ASSUME NEW i \in 1 .. n, i - 1 \in A PROVE i \in A
  <2> DEFINE p == SubSeq(list, 1, i - 1)
             q == SubSeq(list, 1, i)
             x == list[i]
             o == Only(p, S)
  <2>1. q = Append(p, x) /\ p \in Seq(T) /\ x \in T
    BY Prefix
  <2>2. o \in Seq(S)
    BY <1>3
  <2>3. i \in 0 .. n
    BY <1>1
  <2> HIDE DEF p, q, x
  <2>4. Only(Append(p, x), S) = IF x \in S THEN Append(o, x) ELSE o
    BY <2>1, OnlyAppend
  <2> HIDE DEF o
  <2>5. Only(q, S) \in Seq(S)
    <3>1. CASE x \in S
      BY <2>1, <2>2, <2>4, <3>1, AppendProperties
    <3>2. CASE x \notin S
      BY <2>1, <2>2, <2>4, <3>2
    <3>3. QED
      BY <3>1, <3>2
  <2>6. QED
    BY <2>3, <2>5 DEF q
<1> HIDE DEF A
<1>4. \A i \in 0 .. n : i \in A
  BY <1>1, <1>2, <1>3, Assumed, Strips!UpTo
<1>5. n \in A
  BY <1>1, <1>4
<1>6. QED
  BY <1>5, WholeList DEF A

\* As many as there are.
Those(list, S, i) == {j \in 1 .. i : list[j] \in S}

LEMMA ThoseAre ==
  ASSUME NEW list, NEW S, NEW i \in Nat
  PROVE  /\ IsFiniteSet(Those(list, S, i)) /\ Cardinality(Those(list, S, i)) \in Nat
         /\ Those(list, S, i) \subseteq 1 .. i
<1>1. IsFiniteSet(1 .. i)
  BY FS_Interval
<1>2. Those(list, S, i) \subseteq 1 .. i
  BY DEF Those
<1>3. IsFiniteSet(Those(list, S, i))
  BY <1>1, <1>2, FS_Subset
<1>4. QED
  BY <1>2, <1>3, FS_CardinalityType

LEMMA OneMoreThose ==
  ASSUME NEW list, NEW S, NEW i \in Nat \ {0}
  PROVE  Cardinality(Those(list, S, i)) = Cardinality(Those(list, S, i - 1)) + (IF list[i] \in S THEN 1 ELSE 0)
<1> DEFINE a == Those(list, S, i - 1)
           b == Those(list, S, i)
<1>1. i - 1 \in Nat /\ i \in 1 .. i /\ i \notin 1 .. i - 1 /\ 1 .. i = (1 .. i - 1) \cup {i}
  OBVIOUS
<1>2. IsFiniteSet(a) /\ Cardinality(a) \in Nat
  BY <1>1, ThoseAre
<1>3. CASE list[i] \in S
  <2>1. b = a \cup {i} /\ i \notin a
    BY <1>1, <1>3 DEF Those
  <2> HIDE DEF a, b
  <2>2. Cardinality(a \cup {i}) = Cardinality(a) + 1
    BY <1>2, <2>1, FS_AddElement
  <2>3. Cardinality(b) = Cardinality(a) + 1
    BY <2>1, <2>2
  <2>4. QED
    BY <1>3, <2>3 DEF a, b
<1>4. CASE list[i] \notin S
  <2>1. b = a
    BY <1>1, <1>4 DEF Those
  <2> HIDE DEF a, b
  <2>2. Cardinality(b) = Cardinality(a) + 0
    BY <1>2, <2>1
  <2>3. QED
    BY <1>4, <2>2 DEF a, b
<1>5. QED
  BY <1>3, <1>4

LEMMA OnlyCounts ==
  ASSUME NEW T, NEW list \in Seq(T), NEW S
  PROVE  Len(Only(list, S)) = Cardinality(Those(list, S, Len(list)))
<1> DEFINE n == Len(list)
           A == {i \in 0 .. n : Len(Only(SubSeq(list, 1, i), S)) = Cardinality(Those(list, S, i))}
<1>1. n \in Nat
  BY LenProperties
<1>2. 0 \in A
  <2>1. SubSeq(list, 1, 0) = <<>>
    BY WholeList
  <2>2. Len(Only(SubSeq(list, 1, 0), S)) = 0
    BY <2>1, OnlyNone, EmptySeq
  <2>3. Those(list, S, 0) = {}
    <3>1. 1 .. 0 = {}
      OBVIOUS
    <3>2. QED
      BY <3>1 DEF Those
  <2>4. Cardinality(Those(list, S, 0)) = 0
    BY <2>3, FS_EmptySet
  <2>5. 0 \in 0 .. n
    BY <1>1
  <2>6. QED
    BY <2>2, <2>4, <2>5
<1>3. ASSUME NEW i \in 1 .. n, i - 1 \in A PROVE i \in A
  <2> DEFINE p == SubSeq(list, 1, i - 1)
             q == SubSeq(list, 1, i)
             x == list[i]
             o == Only(p, S)
             c == Cardinality(Those(list, S, i - 1))
             d == Cardinality(Those(list, S, i))
  <2>1. q = Append(p, x) /\ p \in Seq(T) /\ x \in T
    BY Prefix
  <2>2. Len(o) = c
    BY <1>3
  <2>3. i \in 0 .. n /\ i \in Nat \ {0} /\ i - 1 \in Nat
    BY <1>1
  <2>4. c \in Nat /\ d = c + (IF x \in S THEN 1 ELSE 0)
    BY <2>3, ThoseAre, OneMoreThose
  <2> HIDE DEF p, q, x, c, d
  <2>5. Only(Append(p, x), S) = IF x \in S THEN Append(o, x) ELSE o
    BY <2>1, OnlyAppend
  <2>6. o \in Seq(T)
    BY <2>1, OnlyIs
  <2> HIDE DEF o
  <2>7. Len(Only(q, S)) = d
    <3>1. CASE x \in S
      <4>1. Len(Append(o, x)) = Len(o) + 1
        BY <2>1, <2>6, AppendProperties
      <4>2. QED
        BY <2>1, <2>2, <2>4, <2>5, <3>1, <4>1
    <3>2. CASE x \notin S
      BY <2>1, <2>2, <2>4, <2>5, <3>2
    <3>3. QED
      BY <3>1, <3>2
  <2>8. QED
    BY <2>3, <2>7 DEF q, d
<1> HIDE DEF A
<1>4. \A i \in 0 .. n : i \in A
  BY <1>1, <1>2, <1>3, Assumed, Strips!UpTo
<1>5. n \in A
  BY <1>1, <1>4
<1>6. QED
  BY <1>5, WholeList DEF A, n

\* Pinned tabs in front stay in front.
AllPinned(list) == \A i \in 1 .. Len(list) : list[i].pinned

LEMMA PinnedAppend ==
  ASSUME NEW list \in Seq(Entry), NEW x \in Entry
  PROVE  /\ PinnedFirst(list) /\ (x.pinned => AllPinned(list)) => PinnedFirst(Append(list, x))
         /\ AllPinned(list) /\ x.pinned => AllPinned(Append(list, x))
<1> DEFINE n == Len(list)
           l == Append(list, x)
<1>1. n \in Nat /\ DOMAIN list = 1 .. n
  BY LenProperties
<1>2. l \in Seq(Entry) /\ Len(l) = n + 1 /\ l[n + 1] = x /\ \A i \in 1 .. n : l[i] = list[i]
  BY Grown
<1>3. DOMAIN l = 1 .. n + 1
  BY <1>2, LenProperties
<1> HIDE DEF n, l
<1>4. ASSUME PinnedFirst(list), x.pinned => AllPinned(list) PROVE PinnedFirst(l)
  <2>1. ASSUME NEW i \in 1 .. n + 1, NEW j \in 1 .. n + 1, i < j, l[j].pinned PROVE l[i].pinned
    <3>1. i \in 1 .. n
      BY <1>1, <2>1
    <3>2. CASE j = n + 1
      <4>1. AllPinned(list)
        BY <1>2, <1>4, <2>1, <3>2
      <4>2. QED
        BY <1>2, <3>1, <4>1 DEF AllPinned, n
    <3>3. CASE j # n + 1
      <4>1. j \in 1 .. n
        BY <1>1, <3>3
      <4>2. list[j].pinned
        BY <1>2, <2>1, <4>1
      <4>3. list[i].pinned
        BY <1>1, <1>4, <2>1, <3>1, <4>1, <4>2 DEF PinnedFirst
      <4>4. QED
        BY <1>2, <3>1, <4>3
    <3>4. QED
      BY <3>2, <3>3
  <2>2. QED
    BY <1>3, <2>1 DEF PinnedFirst
<1>5. ASSUME AllPinned(list), x.pinned PROVE AllPinned(l)
  <2>1. ASSUME NEW i \in 1 .. n + 1 PROVE l[i].pinned
    <3>1. CASE i = n + 1
      BY <1>2, <1>5, <3>1
    <3>2. CASE i # n + 1
      <4>1. i \in 1 .. n
        BY <1>1, <3>2
      <4>2. QED
        BY <1>2, <1>5, <4>1 DEF AllPinned, n
    <3>3. QED
      BY <3>1, <3>2
  <2>2. QED
    BY <1>2, <2>1 DEF AllPinned
<1>6. QED
  BY <1>4, <1>5 DEF l

LEMMA OnlyPinned ==
  ASSUME NEW list \in Seq(Entry), PinnedFirst(list), NEW S
  PROVE  PinnedFirst(Only(list, S))
<1> DEFINE n == Len(list)
           Led(i) == (\A j \in 1 .. i : list[j].pinned) => AllPinned(Only(SubSeq(list, 1, i), S))
           A == {i \in 0 .. n : PinnedFirst(Only(SubSeq(list, 1, i), S)) /\ Led(i)}
<1>1. n \in Nat /\ DOMAIN list = 1 .. n
  BY LenProperties
<1>2. 0 \in A
  <2>1. Only(SubSeq(list, 1, 0), S) = <<>>
    BY WholeList, OnlyNone
  <2>2. Len(<<>>) = 0 /\ 1 .. 0 = {} /\ DOMAIN <<>> = {}
    OBVIOUS
  <2>3. PinnedFirst(<<>>) /\ AllPinned(<<>>)
    BY <2>2 DEF PinnedFirst, AllPinned
  <2>4. 0 \in 0 .. n
    BY <1>1
  <2>5. QED
    BY <2>1, <2>3, <2>4
<1>3. ASSUME NEW i \in 1 .. n, i - 1 \in A PROVE i \in A
  <2> DEFINE p == SubSeq(list, 1, i - 1)
             q == SubSeq(list, 1, i)
             x == list[i]
             o == Only(p, S)
             r == Only(q, S)
  <2>1. q = Append(p, x) /\ p \in Seq(Entry) /\ x \in Entry
    BY Prefix
  <2>2. PinnedFirst(o) /\ ((\A j \in 1 .. i - 1 : list[j].pinned) => AllPinned(o))
    BY <1>3
  <2>3. i \in 0 .. n
    BY <1>1
  <2>4. x.pinned => \A j \in 1 .. i - 1 : list[j].pinned
    <3>1. ASSUME x.pinned, NEW j \in 1 .. i - 1 PROVE list[j].pinned
      <4>1. j \in 1 .. n /\ j < i
        BY <1>1
      <4>2. QED
        BY <1>1, <3>1, <4>1 DEF PinnedFirst
    <3>2. QED
      BY <3>1
  <2>5. (\A j \in 1 .. i : list[j].pinned) => x.pinned /\ \A j \in 1 .. i - 1 : list[j].pinned
    <3>1. i \in 1 .. i /\ \A j \in 1 .. i - 1 : j \in 1 .. i
      BY <1>1
    <3>2. QED
      BY <3>1
  <2> HIDE DEF p, q, x
  <2>6. Only(Append(p, x), S) = IF x \in S THEN Append(o, x) ELSE o
    BY <2>1, OnlyAppend
  <2>7. o \in Seq(Entry)
    BY <2>1, OnlyIs
  <2> HIDE DEF o
  <2>8. PinnedFirst(r) /\ ((\A j \in 1 .. i : list[j].pinned) => AllPinned(r))
    <3>1. CASE x \in S
      <4>1. r = Append(o, x)
        BY <2>1, <2>6, <3>1
      <4> HIDE DEF r
      <4>2. x.pinned => AllPinned(o)
        BY <2>2, <2>4
      <4>3. PinnedFirst(r)
        BY <2>1, <2>2, <2>7, <4>1, <4>2, PinnedAppend
      <4>4. (\A j \in 1 .. i : list[j].pinned) => AllPinned(r)
        BY <2>1, <2>5, <2>7, <4>1, <4>2, PinnedAppend
      <4>5. QED
        BY <4>3, <4>4
    <3>2. CASE x \notin S
      <4>1. r = o
        BY <2>1, <2>6, <3>2
      <4>2. QED
        BY <2>2, <2>5, <4>1
    <3>3. QED
      BY <3>1, <3>2
  <2>9. QED
    BY <2>3, <2>8 DEF q
<1> HIDE DEF A
<1>4. \A i \in 0 .. n : i \in A
  BY <1>1, <1>2, <1>3, Assumed, Strips!UpTo
<1>5. n \in A
  BY <1>1, <1>4
<1>6. QED
  BY <1>5, WholeList DEF A

-----------------------------------------------------------------------------
(* Where the focus lands.                                                  *)

\* A saved session.
IsSession(s) ==
  /\ s = Session(s.entries, s.active)
  /\ s.entries \in Seq(Entry) /\ PinnedFirst(s.entries) /\ s.active \in Nat

Allowed == [url : Safe, pinned : BOOLEAN]
KeptPlaces(s) == {i \in DOMAIN s.entries : s.entries[i].url \in Safe}
KeptBefore(s) == {i \in KeptPlaces(s) : i < s.active}
DroppedBefore(s) == {i \in DOMAIN s.entries : i < s.active /\ s.entries[i].url \notin Safe}
KeptFrom(s) == {i \in KeptPlaces(s) : i >= s.active}

LEMMA KeptIs ==
  ASSUME NEW s, IsSession(s)
  PROVE  /\ Kept(s) \in Seq(Entry) /\ PinnedFirst(Kept(s))
         /\ IsFiniteSet(KeptPlaces(s)) /\ Cardinality(KeptPlaces(s)) \in Nat
         /\ Len(Kept(s)) = Cardinality(KeptPlaces(s))
<1> DEFINE list == s.entries
           n == Len(list)
<1>1. list \in Seq(Entry) /\ PinnedFirst(list)
  BY DEF IsSession
<1>2. n \in Nat /\ DOMAIN list = 1 .. n
  BY <1>1, LenProperties
<1>3. KeptPlaces(s) = Those(list, Allowed, n)
  <2>1. ASSUME NEW i \in 1 .. n PROVE (list[i].url \in Safe) <=> (list[i] \in Allowed)
    <3>1. list[i] \in Entry
      BY <1>1, ElementOfSeq
    <3>2. list[i] = [url |-> list[i].url, pinned |-> list[i].pinned] /\ list[i].pinned \in BOOLEAN
      BY <3>1 DEF Entry
    <3>3. QED
      BY <3>2 DEF Allowed
  <2>2. QED
    BY <1>2, <2>1 DEF KeptPlaces, Those
<1>4. Kept(s) = Only(list, Allowed)
  BY DEF Kept, Allowed
<1>5. IsFiniteSet(Those(list, Allowed, n)) /\ Cardinality(Those(list, Allowed, n)) \in Nat
  BY <1>2, ThoseAre
<1>6. Len(Only(list, Allowed)) = Cardinality(Those(list, Allowed, n))
  BY <1>1, OnlyCounts
<1>7. Only(list, Allowed) \in Seq(Entry)
  BY <1>1, OnlyIs
<1>8. PinnedFirst(Only(list, Allowed))
  BY <1>1, OnlyPinned
<1>9. QED
  BY <1>3, <1>4, <1>5, <1>6, <1>7, <1>8

\* The places before the active one, kept and dropped.
LEMMA PlacesBefore ==
  ASSUME NEW s, IsSession(s), s.active # 0
  PROVE  /\ IsFiniteSet(KeptBefore(s)) /\ Cardinality(KeptBefore(s)) \in Nat
         /\ IsFiniteSet(DroppedBefore(s)) /\ Cardinality(DroppedBefore(s)) \in Nat
         /\ Cardinality(KeptBefore(s)) + Cardinality(DroppedBefore(s)) <= s.active - 1
         /\ s.active <= Len(s.entries) =>
              Cardinality(KeptBefore(s)) + Cardinality(DroppedBefore(s)) = s.active - 1
<1> DEFINE a == s.active
           n == Len(s.entries)
           k == KeptBefore(s)
           d == DroppedBefore(s)
<1>1. a \in Nat \ {0} /\ n \in Nat /\ DOMAIN s.entries = 1 .. n
  BY LenProperties DEF IsSession
<1>2. k \subseteq 1 .. a - 1 /\ d \subseteq 1 .. a - 1
  BY <1>1 DEF KeptBefore, KeptPlaces, DroppedBefore
<1>3. k \cap d = {}
  BY DEF KeptBefore, KeptPlaces, DroppedBefore
<1>4. a <= n => k \cup d = 1 .. a - 1
  BY <1>1, <1>2 DEF KeptBefore, KeptPlaces, DroppedBefore
<1> HIDE DEF k, d, n
<1>5. a - 1 \in Nat
  BY <1>1
<1> DEFINE b == a - 1
<1> HIDE DEF a
<1>6. IsFiniteSet(1 .. b) /\ Cardinality(1 .. b) = b
  <2>1. b \in Nat /\ 1 <= b + 1 /\ b - 1 + 1 = b
    BY <1>5
  <2>2. Cardinality(1 .. b) = IF 1 > b THEN 0 ELSE b - 1 + 1
    BY <2>1, FS_Interval, SMTT(30)
  <2>3. IsFiniteSet(1 .. b)
    BY <2>1, FS_Interval
  <2>4. QED
    BY <2>1, <2>2, <2>3
<1> HIDE DEF b
<1>7. IsFiniteSet(k) /\ IsFiniteSet(d)
  BY <1>2, <1>6, FS_Subset DEF b
<1>8. Cardinality(k) \in Nat /\ Cardinality(d) \in Nat
  BY <1>7, FS_CardinalityType
<1>9. IsFiniteSet(k \cup d) /\ Cardinality(k \cup d) = Cardinality(k) + Cardinality(d)
  <2>1. Cardinality(k \cup d) = Cardinality(k) + Cardinality(d) - Cardinality(k \cap d)
    BY <1>7, FS_Union
  <2>2. IsFiniteSet(k \cup d)
    BY <1>7, FS_Union
  <2>3. Cardinality(k \cap d) = 0
    BY <1>3, FS_EmptySet
  <2>4. QED
    BY <1>8, <2>1, <2>2, <2>3
<1>10. Cardinality(k \cup d) <= Cardinality(1 .. b)
  <2>1. k \cup d \subseteq 1 .. b
    BY <1>2 DEF b
  <2>2. QED
    BY <1>6, <2>1, FS_Subset
<1>11. Cardinality(k) + Cardinality(d) <= b
  BY <1>6, <1>9, <1>10
<1>12. a <= n => Cardinality(k) + Cardinality(d) = b
  BY <1>4, <1>6, <1>9 DEF b
<1>13. QED
  BY <1>7, <1>8, <1>11, <1>12 DEF a, b, k, d, n

\* A focus that was left out goes to the next tab that is kept.
LEMMA FocusLands ==
  ASSUME NEW s, IsSession(s)
  PROVE  Landing(s) = IF Rebased(s) \in 1 .. Len(Kept(s)) THEN Rebased(s) ELSE 1
<1> DEFINE kept == KeptPlaces(s)
           from == KeptFrom(s)
           c == Cardinality(kept)
           d == Cardinality(DroppedBefore(s))
           k == Cardinality(KeptBefore(s))
           a == Max({s.active - d, 1})
           m == Min(from)
<1>1. s.active \in Nat /\ Len(Kept(s)) = c /\ c \in Nat /\ IsFiniteSet(kept)
  BY KeptIs DEF IsSession
<1>2. Landing(s) = IF s.active = 0 \/ from = {} THEN 1 ELSE Cardinality({i \in kept : i <= m})
  BY DEF Landing, KeptPlaces, KeptFrom
<1>3. Rebased(s) = IF s.active = 0 \/ a > c THEN 0 ELSE a
  BY <1>1 DEF Rebased, DroppedBefore
<1>4. CASE s.active = 0
  BY <1>1, <1>2, <1>3, <1>4
<1>5. CASE s.active # 0
  <2>1. k \in Nat /\ d \in Nat /\ k + d <= s.active - 1
    BY <1>5, PlacesBefore
  <2>2. s.active - d \in Nat /\ s.active - d >= 1 /\ s.active - d >= k + 1
    BY <1>1, <2>1
  <2> DEFINE r == s.active - d
  <2> HIDE DEF r
  <2>3. a = r
    BY <2>2 DEF Max, r
  <2> HIDE DEF a
  <2>4. CASE from = {}
    <3>1. KeptBefore(s) = kept
      BY <1>1, <2>4 DEF KeptBefore, KeptFrom, KeptPlaces, IsSession
    <3>2. k = c
      BY <3>1
    <3>3. a > c
      BY <1>1, <2>2, <2>3, <3>2 DEF r
    <3>4. Rebased(s) = 0 /\ Landing(s) = 1
      BY <1>2, <1>3, <2>4, <3>3
    <3>5. QED
      BY <1>1, <3>4
  <2>5. CASE from # {}
    <3>1. from \subseteq Nat /\ from \subseteq kept /\ \A i \in from : i >= s.active
      <4>1. kept \subseteq Nat
        <5>1. DOMAIN s.entries = 1 .. Len(s.entries)
          BY LenProperties DEF IsSession
        <5>2. QED
          BY <5>1 DEF KeptPlaces
      <4>2. QED
        BY <4>1 DEF KeptFrom
    <3>2. m \in from /\ \A i \in from : m <= i
      <4> HIDE DEF from, m
      <4>1. PICK x \in from : \A i \in from : x <= i
        BY <2>5, <3>1, Assumed, Strips!LeastNat
      <4>2. QED
        BY <4>1 DEF Min, m
    <3> HIDE DEF m
    <3>3. {i \in kept : i <= m} = KeptBefore(s) \cup {m} /\ m \notin KeptBefore(s)
      <4>1. kept \subseteq Nat
        <5>1. DOMAIN s.entries = 1 .. Len(s.entries)
          BY LenProperties DEF IsSession
        <5>2. QED
          BY <5>1 DEF KeptPlaces
      <4>2. m \in Nat /\ m \in kept /\ m >= s.active
        BY <3>1, <3>2
      <4>3. ASSUME NEW i \in kept, i <= m PROVE i \in KeptBefore(s) \cup {m}
        <5>1. i \in Nat
          BY <4>1
        <5>2. CASE i < s.active
          BY <5>2 DEF KeptBefore
        <5>3. CASE i >= s.active
          <6>1. i \in from
            BY <5>3 DEF KeptFrom
          <6>2. m <= i
            BY <3>2, <6>1
          <6>3. QED
            BY <4>2, <4>3, <5>1, <6>2
        <5>4. QED
          BY <1>1, <5>1, <5>2, <5>3
      <4>4. ASSUME NEW i \in KeptBefore(s) PROVE i \in kept /\ i <= m /\ i # m
        <5>1. i \in kept /\ i < s.active
          BY DEF KeptBefore
        <5>2. i \in Nat
          BY <4>1, <5>1
        <5>3. QED
          BY <1>1, <4>2, <5>1, <5>2
      <4>5. m <= m
        BY <4>2
      <4> HIDE DEF kept, from
      <4>6. m \notin KeptBefore(s)
        BY <4>4
      <4>7. {i \in kept : i <= m} \subseteq KeptBefore(s) \cup {m}
        BY <4>3
      <4>8. KeptBefore(s) \cup {m} \subseteq {i \in kept : i <= m}
        BY <4>2, <4>4, <4>5
      <4>9. QED
        BY <4>6, <4>7, <4>8
    <3>4. IsFiniteSet(KeptBefore(s))
      BY <1>5, PlacesBefore
    <3>5. Cardinality(KeptBefore(s) \cup {m}) = k + 1
      BY <3>3, <3>4, FS_AddElement
    <3>6. k + 1 <= c
      <4>1. KeptBefore(s) \cup {m} \subseteq kept
        BY <3>1, <3>2 DEF KeptBefore
      <4>2. Cardinality(KeptBefore(s) \cup {m}) <= c
        BY <1>1, <4>1, FS_Subset
      <4>3. QED
        BY <3>5, <4>2
    <3>7. s.active <= Len(s.entries)
      <4>1. m \in 1 .. Len(s.entries) /\ Len(s.entries) \in Nat
        BY <3>1, <3>2, LenProperties DEF IsSession, KeptPlaces
      <4>2. m >= s.active
        BY <3>1, <3>2
      <4>3. QED
        BY <1>1, <4>1, <4>2
    <3>8. k + d = s.active - 1
      BY <1>5, <3>7, PlacesBefore
    <3>9. r = k + 1
      BY <1>1, <2>1, <3>8 DEF r
    <3>10. Landing(s) = k + 1
      BY <1>2, <1>5, <2>5, <3>3, <3>5
    <3> HIDE DEF k, c, d, from
    <3>11. Rebased(s) = k + 1
      BY <1>1, <1>3, <1>5, <2>1, <2>3, <3>6, <3>9
    <3>12. k + 1 \in 1 .. c
      BY <1>1, <2>1, <3>6
    <3>13. QED
      BY <1>1, <3>10, <3>11, <3>12
  <2>6. QED
    BY <2>4, <2>5
<1>6. QED
  BY <1>4, <1>5

-----------------------------------------------------------------------------
(* The launch log as time passes.                                          *)

Each(l, g) == [i \in DOMAIN l |-> g[l[i]]]
Near == 0 .. LoopWindow
Later == [x \in Nat |-> x + 1]
Capped == [x \in Nat |-> Min({x + 1, LoopWindow + 1})]

\* A tick later an attempt is near in one log if it is in the other.
Agrees(x) ==
  /\ Later[x] = x + 1 /\ Capped[x] \in Nat
  /\ (Capped[x] \in Near) <=> (x + 1 \in Near)
  /\ x + 1 \in Near => Capped[x] = x + 1 /\ x \in Near

LEMMA Ages ==
  Later \in [Nat -> Nat] /\ Capped \in [Nat -> Nat] /\ \A x \in Nat : Agrees(x)
<1>1. LoopWindow \in Nat
  BY LoopAssumption
<1>2. ASSUME NEW x \in Nat PROVE Agrees(x)
  <2> DEFINE m == Min({x + 1, LoopWindow + 1})
  <2>1. m \in {x + 1, LoopWindow + 1} /\ m <= x + 1 /\ m <= LoopWindow + 1
    <3>1. x + 1 \in Nat /\ LoopWindow + 1 \in Nat
      BY <1>1
    <3>2. QED
      BY <3>1, Assumed, Strips!MinOfTwo DEF Min, Strips!Min
  <2>2. Capped[x] = m
    BY DEF Capped
  <2>3. Later[x] = x + 1
    BY DEF Later
  <2> HIDE DEF m
  <2>4. m \in Nat /\ ((m \in Near) <=> (x + 1 \in Near)) /\ (x + 1 \in Near => m = x + 1 /\ x \in Near)
    BY <1>1, <2>1 DEF Near
  <2>5. QED
    BY <2>2, <2>3, <2>4 DEF Agrees
<1>3. Later \in [Nat -> Nat]
  BY DEF Later
<1>4. Capped \in [Nat -> Nat]
  <2>1. \A x \in Nat : Capped[x] \in Nat
    BY <1>2 DEF Agrees
  <2>2. \A x \in Nat : Min({x + 1, LoopWindow + 1}) \in Nat
    BY <2>1 DEF Capped
  <2>3. QED
    BY <2>2 DEF Capped
<1>5. QED
  BY <1>2, <1>3, <1>4

LEMMA EachIs ==
  ASSUME NEW g \in [Nat -> Nat], NEW l \in Seq(Nat), NEW u, u = Each(l, g)
  PROVE  /\ u \in Seq(Nat) /\ Len(u) = Len(l) /\ \A i \in 1 .. Len(l) : u[i] = g[l[i]]
<1> DEFINE n == Len(l)
<1>1. n \in Nat /\ DOMAIN l = 1 .. n
  BY LenProperties
<1>2. \A i \in 1 .. n : l[i] \in Nat
  BY ElementOfSeq
<1>3. u = [i \in 1 .. n |-> g[l[i]]]
  BY <1>1 DEF Each
<1> HIDE DEF n
<1>4. \A i \in 1 .. n : g[l[i]] \in Nat
  BY <1>2
<1>5. u \in [1 .. n -> Nat]
  BY <1>3, <1>4
<1>6. u \in Seq(Nat)
  BY <1>1, <1>5, SeqDef
<1>7. Len(u) = n
  BY <1>1, <1>3, <1>6, LenIs
<1>8. QED
  BY <1>3, <1>6, <1>7 DEF n

LEMMA EachAppend ==
  ASSUME NEW g \in [Nat -> Nat], NEW l \in Seq(Nat), NEW x \in Nat
  PROVE  Each(Append(l, x), g) = Append(Each(l, g), g[x])
<1> DEFINE a == Append(l, x)
           u == Each(a, g)
           w == Each(l, g)
           v == Append(w, g[x])
           n == Len(l)
<1>1. a \in Seq(Nat) /\ Len(a) = n + 1 /\ a[n + 1] = x /\ \A j \in 1 .. n : a[j] = l[j]
  BY Grown
<1>2. n \in Nat
  BY LenProperties
<1> HIDE DEF a
<1>3. u \in Seq(Nat) /\ Len(u) = n + 1 /\ \A i \in 1 .. n + 1 : u[i] = g[a[i]]
  <2>1. u \in Seq(Nat) /\ Len(u) = Len(a) /\ \A i \in 1 .. Len(a) : u[i] = g[a[i]]
    BY <1>1, EachIs, ZenonT(40)
  <2>2. QED
    BY <1>1, <2>1
<1>4. w \in Seq(Nat) /\ Len(w) = n /\ \A i \in 1 .. n : w[i] = g[l[i]]
  BY EachIs, ZenonT(40)
<1> HIDE DEF u, w, n
<1>5. g[x] \in Nat
  OBVIOUS
<1>6. v \in Seq(Nat) /\ Len(v) = n + 1 /\ v[n + 1] = g[x] /\ \A j \in 1 .. n : v[j] = w[j]
  <2> DEFINE e == g[x]
  <2>1. e \in Nat
    BY <1>5
  <2>2. v = Append(w, e)
    BY DEF e
  <2> HIDE DEF e, v
  <2>3. w \in Seq(Nat)
    BY <1>4
  <2>4. v \in Seq(Nat) /\ Len(v) = Len(w) + 1 /\ v[Len(w) + 1] = e /\ \A j \in 1 .. Len(w) : v[j] = w[j]
    BY <2>1, <2>2, <2>3, Grown
  <2>5. QED
    BY <1>4, <2>4 DEF e
<1> HIDE DEF v
<1>7. ASSUME NEW i \in 1 .. n + 1 PROVE u[i] = v[i]
  <2>1. u[i] = g[a[i]]
    BY <1>3
  <2>2. CASE i = n + 1
    BY <1>1, <1>6, <2>1, <2>2
  <2>3. CASE i # n + 1
    <3>1. i \in 1 .. n
      BY <1>2, <2>3
    <3>2. a[i] = l[i] /\ v[i] = w[i] /\ w[i] = g[l[i]]
      BY <1>1, <1>4, <1>6, <3>1
    <3>3. QED
      BY <2>1, <3>2
  <2>4. QED
    BY <2>2, <2>3
<1>8. \A i \in 1 .. Len(u) : u[i] = v[i]
  BY <1>3, <1>7
<1>9. u = v
  BY <1>3, <1>6, <1>8, SeqEqual
<1>10. QED
  BY <1>9 DEF u, v, w, a

LEMMA EachNone == ASSUME NEW g PROVE Each(<<>>, g) = <<>>
<1>1. DOMAIN <<>> = {}
  OBVIOUS
<1>2. Each(<<>>, g) = [i \in {} |-> g[<<>>[i]]]
  BY <1>1 DEF Each
<1>3. [i \in {} |-> g[<<>>[i]]] = <<>>
  OBVIOUS
<1>4. QED
  BY <1>2, <1>3

\* The attempts that are still near are those that were, a tick later.
LEMMA OnlyAged ==
  ASSUME NEW list \in Seq(Nat)
  PROVE  Only(Each(Only(list, Near), Later), Near) = Only(Each(list, Capped), Near)
<1> DEFINE n == Len(list)
           At(l) == Only(Each(Only(l, Near), Later), Near) = Only(Each(l, Capped), Near)
           A == {i \in 0 .. n : At(SubSeq(list, 1, i))}
<1>1. n \in Nat
  BY LenProperties
<1>2. 0 \in A
  <2>1. SubSeq(list, 1, 0) = <<>>
    BY WholeList
  <2>2. At(<<>>)
    BY OnlyNone, EachNone
  <2>3. 0 \in 0 .. n
    BY <1>1
  <2>4. QED
    BY <2>1, <2>2, <2>3
<1>3. ASSUME NEW i \in 1 .. n, i - 1 \in A PROVE i \in A
  <2> DEFINE p == SubSeq(list, 1, i - 1)
             q == SubSeq(list, 1, i)
             x == list[i]
  <2>1. q = Append(p, x) /\ p \in Seq(Nat) /\ x \in Nat
    BY Prefix
  <2>2. At(p)
    BY <1>3
  <2>3. i \in 0 .. n
    BY <1>1
  <2> HIDE DEF p, q, x
  <2> DEFINE o == Only(p, Near)
             aged == Each(o, Later)
             capped == Each(p, Capped)
  <2>4. o \in Seq(Nat) /\ Only(q, Near) = IF x \in Near THEN Append(o, x) ELSE o
    BY <2>1, OnlyIs, OnlyAppend
  <2>5. aged \in Seq(Nat) /\ capped \in Seq(Nat)
    BY <2>1, <2>4, Ages, EachIs
  <2>6. Only(aged, Near) = Only(capped, Near)
    BY <2>2
  <2>7. Agrees(x)
    BY <2>1, Ages
  <2>8. Each(q, Capped) = Append(capped, Capped[x]) /\ Capped[x] \in Nat
    BY <2>1, <2>7, Ages, EachAppend DEF Agrees
  <2> DEFINE y == Capped[x]
             z == x + 1
  <2>9. Only(Each(q, Capped), Near) = IF y \in Near THEN Append(Only(capped, Near), y) ELSE Only(capped, Near)
    <3>1. capped \in Seq(Nat) /\ y \in Nat /\ Each(q, Capped) = Append(capped, y)
      BY <2>5, <2>8
    <3> HIDE DEF capped, y
    <3>2. QED
      BY <3>1, OnlyAppend, ZenonT(40)
  <2>10. z \in Nat /\ Later[x] = z /\ ((y \in Near) <=> (z \in Near)) /\ (z \in Near => y = z /\ x \in Near)
    BY <2>1, <2>7 DEF Agrees
  <2> HIDE DEF y, z
  <2>11. CASE x \in Near
    <3>1. Each(Only(q, Near), Later) = Append(aged, z)
      <4>1. Each(Append(o, x), Later) = Append(Each(o, Later), Later[x])
        BY <2>1, <2>4, Ages, EachAppend
      <4>2. QED
        BY <2>4, <2>10, <2>11, <4>1
    <3>2. Only(Each(Only(q, Near), Later), Near) = IF z \in Near THEN Append(Only(aged, Near), z) ELSE Only(aged, Near)
      <4>1. aged \in Seq(Nat) /\ z \in Nat
        BY <2>5, <2>10
      <4> HIDE DEF aged
      <4>2. Only(Append(aged, z), Near) = IF z \in Near THEN Append(Only(aged, Near), z) ELSE Only(aged, Near)
        BY <4>1, OnlyAppend
      <4>3. QED
        BY <3>1, <4>2
    <3> HIDE DEF o, aged, capped
    <3>3. At(q)
      BY <2>6, <2>9, <2>10, <3>2
    <3>4. QED
      BY <2>3, <3>3 DEF q
  <2>12. CASE x \notin Near
    <3>1. z \notin Near /\ y \notin Near
      BY <2>10, <2>12
    <3>2. Only(Each(Only(q, Near), Later), Near) = Only(aged, Near)
      BY <2>4, <2>12
    <3>3. At(q)
      BY <2>6, <2>9, <3>1, <3>2
    <3>4. QED
      BY <2>3, <3>3 DEF q
  <2>13. QED
    BY <2>11, <2>12
<1> HIDE DEF A
<1>4. \A i \in 0 .. n : i \in A
  BY <1>1, <1>2, <1>3, Assumed, Strips!UpTo
<1>5. n \in A
  BY <1>1, <1>4
<1>6. QED
  BY <1>5, WholeList DEF A

LEMMA RebasedIs ==
  ASSUME NEW s, IsSession(s)
  PROVE  Rebased(s) \in Nat
<1> DEFINE d == Cardinality(DroppedBefore(s))
           a == Max({s.active - d, 1})
<1>1. s.active \in Nat
  BY DEF IsSession
<1>2. Rebased(s) = IF s.active = 0 \/ a > Len(Kept(s)) THEN 0 ELSE a
  BY DEF Rebased, DroppedBefore
<1>3. CASE s.active = 0
  BY <1>2, <1>3
<1>4. CASE s.active # 0
  <2>1. s.active - d \in Nat /\ s.active - d >= 1
    <3>1. d \in Nat /\ Cardinality(KeptBefore(s)) \in Nat /\ Cardinality(KeptBefore(s)) + d <= s.active - 1
      BY <1>4, PlacesBefore
    <3>2. QED
      BY <1>1, <3>1
  <2>2. a = s.active - d
    BY <2>1 DEF Max
  <2> HIDE DEF a
  <2>3. QED
    BY <1>2, <2>1, <2>2
<1>5. QED
  BY <1>3, <1>4

-----------------------------------------------------------------------------
(* The invariant of the saved session.                                     *)

LEMMA SnapshotIs ==
  ASSUME NEW s, Good(s), NEW u, Addressed(s, u)
  PROVE  IsSession(Snapshot(s, u))
<1> DEFINE p == Partitioned(s)
<1>1. p = Strips!Partitioned(s)
  BY DEF Partitioned, Strips!Partitioned, Positions, Strips!Positions, PlaceOf, Strips!PlaceOf,
         ActiveAfterSort, Strips!ActiveAfterSort, ActiveId, Strips!ActiveId,
         Cardinality, Strips!Cardinality, IsFiniteSet, Strips!IsFiniteSet
<1>2. Strips!Fair(s) /\ Strips!ActiveId(s) \subseteq s.shown
  BY DEF Good, Strips!Good
<1> HIDE DEF p
<1>3. Strips!Fair(p) /\ p.active \in 0 .. Len(p.tabs) /\ Strips!ActiveId(p) = Strips!ActiveId(s)
  BY <1>1, <1>2, Assumed, Strips!PartitionedIs
<1>4. Strips!Names(p.tabs) = Strips!Names(s.tabs) /\ Strips!PinsFirst(p.tabs) /\ p.shown = s.shown
  BY <1>1, <1>2, Assumed, Strips!PartitionedIs
<1>5. Good(p)
  BY <1>2, <1>3, <1>4 DEF Good, Strips!Good
<1>6. Ids(p) = Ids(s)
  BY <1>4, NamesAreIds
<1>7. Addressed(p, u)
  BY <1>6 DEF Addressed
<1> DEFINE list == List(p, u)
<1>8. list \in Seq(Entry) /\ Len(list) = Len(p.tabs)
  BY <1>5, <1>7, ListIs
<1>9. PinnedFirst(list)
  <2>1. DOMAIN list = Positions(p) /\ \A i \in Positions(p) : list[i].pinned = p.tabs[i].pinned
    BY DEF List
  <2> HIDE DEF list
  <2>2. QED
    BY <1>4, <2>1 DEF PinnedFirst, Strips!PinsFirst, Positions
<1>10. Snapshot(s, u) = Session(list, s.active)
  BY DEF Snapshot, p
<1>11. s.active \in Nat
  BY GoodIs
<1> HIDE DEF list
<1>12. QED
  BY <1>8, <1>9, <1>10, <1>11 DEF IsSession, Session

\* A strip without tabs is saved as one.
LEMMA EmptySaved ==
  /\ Snapshot(EmptyStrip, <<>>) = Session(<<>>, 0) /\ IsSession(Session(<<>>, 0))
  /\ Live(EmptyStrip, <<>>) = Untracked
<1> DEFINE p == Partitioned(EmptyStrip)
<1>1. EmptyStrip.tabs = <<>> /\ EmptyStrip.active = 0 /\ Positions(EmptyStrip) = {}
  <2>1. Len(<<>>) = 0 /\ 1 .. 0 = {}
    OBVIOUS
  <2>2. QED
    BY <2>1 DEF EmptyStrip, Positions
<1>2. p.tabs = <<>>
  <2> DEFINE t == [k \in Positions(EmptyStrip) |->
                     EmptyStrip.tabs[CHOOSE i \in Positions(EmptyStrip) : PlaceOf(EmptyStrip, i) = k]]
  <2>1. t = <<>>
    <3>1. DOMAIN t = {}
      BY <1>1
    <3>2. QED
      BY <3>1
  <2>2. p = [EmptyStrip EXCEPT !.tabs = t, !.active = ActiveAfterSort(EmptyStrip, t)]
    BY DEF Partitioned
  <2> HIDE DEF t
  <2>3. p.tabs = t
    BY <2>2 DEF EmptyStrip
  <2>4. QED
    BY <2>1, <2>3
<1> HIDE DEF p
<1>3. Positions(p) = {}
  <2>1. Len(<<>>) = 0 /\ 1 .. 0 = {}
    OBVIOUS
  <2>2. QED
    BY <1>2, <2>1 DEF Positions
<1> DEFINE list == List(p, <<>>)
<1>4. list = <<>>
  <2>1. DOMAIN list = {}
    BY <1>3 DEF List
  <2>2. QED
    BY <1>3, <2>1 DEF List
<1>5. Snapshot(EmptyStrip, <<>>) = Session(list, 0)
  BY <1>1 DEF Snapshot, p
<1>6. IsSession(Session(<<>>, 0))
  <2>1. PinnedFirst(<<>>)
    <3>1. DOMAIN <<>> = {}
      OBVIOUS
    <3>2. QED
      BY <3>1 DEF PinnedFirst
  <2>2. <<>> \in Seq(Entry)
    BY EmptySeq
  <2>3. QED
    BY <2>1, <2>2 DEF IsSession, Session
<1>7. QED
  BY <1>4, <1>5, <1>6 DEF Untracked

\* What was last saved stands for a strip whose known tabs have the pins they
\* had then.
Tracked(s, d, l) ==
  \E s0, u0 : /\ InUse(s0) /\ Addressed(s0, u0)
              /\ d = {Snapshot(s0, u0)} /\ l = Live(s0, u0) /\ Alike(s0, s)

DiskInv == disk = {} \/ \E s : disk = {s} /\ IsSession(s)
LogInv == log \in Seq(Nat) /\ recent = Only(log, Near)
FromDisk == \E s \in disk : pending.entries = Kept(s) /\ pending.active = Rebased(s)
PendingInv == Waiting(pending) /\ (phase = "start" /\ pending.entries # <<>> => FromDisk)
IdleInv == ~Running => last = Untracked
RunInv ==
  Running => /\ InUse(strip) /\ Addressed(strip, url)
             /\ dirty \/ last = Untracked \/ Tracked(strip, disk, last)
SessionInv == DiskInv /\ LogInv /\ PendingInv /\ IdleInv /\ RunInv

LEMMA NothingWaits == Waiting(Nothing) /\ Nothing.entries = <<>> /\ Nothing.cli = <<>> /\ Nothing.active = 0
<1>1. Nothing.entries = <<>> /\ Nothing.cli = <<>> /\ Nothing.active = 0
  BY DEF Nothing
<1>2. <<>> \in Seq(Entry) /\ <<>> \in Seq(Safe) /\ Len(<<>>) = 0
  BY EmptySeq
<1>3. PinnedFirst(<<>>)
  <2>1. DOMAIN <<>> = {}
    OBVIOUS
  <2>2. QED
    BY <2>1 DEF PinnedFirst
<1>4. QED
  BY <1>1, <1>2, <1>3 DEF Waiting

LEMMA SessionStutters ==
  ASSUME SessionInv, UNCHANGED vars
  PROVE  SessionInv'
BY DEF vars, files, tracking, SessionInv, DiskInv, LogInv, PendingInv, FromDisk, IdleInv, RunInv,
   Running, Tracked, Waiting

LEMMA Bounded ==
  ASSUME NEW S, NEW n \in Nat, NEW x \in BoundedSeq(S, n)
  PROVE  x \in Seq(S) /\ Len(x) \in 0 .. n
<1>1. PICK m \in 0 .. n : x \in [1 .. m -> S]
  BY DEF BoundedSeq, SeqOf
<1>2. m \in Nat
  OBVIOUS
<1>3. x \in Seq(S)
  BY <1>1, <1>2, SeqDef
<1>4. Len(x) = m
  BY <1>1, <1>2, <1>3, LenIs
<1>5. QED
  BY <1>3, <1>4

LEMMA SessionStarts ==
  ASSUME Init
  PROVE  SessionInv
<1>1. DiskInv
  <2>1. CASE disk = {}
    BY <2>1 DEF DiskInv
  <2>2. CASE disk # {}
    <3>1. PICK entries \in BoundedSeq(Entry, MaxSaved), active \in 0..MaxSaved + 1 :
            PinnedFirst(entries) /\ disk = {Session(entries, active)}
      BY <2>2 DEF Init
    <3>2. entries \in Seq(Entry)
      BY BoundsAssumption, Bounded
    <3>3. active \in Nat
      BY BoundsAssumption
    <3>4. IsSession(Session(entries, active))
      BY <3>1, <3>2, <3>3 DEF IsSession, Session
    <3>5. QED
      BY <3>1, <3>4 DEF DiskInv
  <2>3. QED
    BY <2>1, <2>2
<1>2. LogInv
  <2>1. <<>> \in Seq(Nat) /\ Only(<<>>, Near) = <<>>
    BY EmptySeq, OnlyNone
  <2>2. QED
    BY <2>1 DEF LogInv, Init
<1>3. phase = "off" /\ pending = Nothing /\ last = Untracked
  BY DEF Init
<1>4. PendingInv
  BY <1>3, NothingWaits DEF PendingInv
<1>5. QED
  BY <1>1, <1>2, <1>3, <1>4 DEF SessionInv, IdleInv, RunInv, Running

\* The process ends.
LEMMA EndFine ==
  ASSUME Gone, DiskInv', LogInv'
  PROVE  SessionInv'
<1>1. phase' = "off" /\ pending' = Nothing /\ last' = Untracked
  BY DEF Gone
<1>2. PendingInv'
  BY <1>1, NothingWaits DEF PendingInv, Waiting
<1>3. IdleInv' /\ RunInv'
  BY <1>1 DEF IdleInv, RunInv, Running
<1>4. QED
  BY <1>2, <1>3 DEF SessionInv

\* A step of a running browser that does not save.
LEMMA WorkFine ==
  ASSUME SessionInv, Running, phase' = phase, UNCHANGED <<files, pending, recent, last>>,
         InUse(strip'), Addressed(strip', url'), dirty' \/ (~dirty /\ Alike(strip, strip'))
  PROVE  SessionInv'
<1>1. DiskInv' /\ LogInv' /\ PendingInv' /\ IdleInv'
  BY DEF SessionInv, DiskInv, LogInv, PendingInv, FromDisk, IdleInv, Running, files, Waiting
<1>2. InUse(strip) /\ (dirty \/ last = Untracked \/ Tracked(strip, disk, last))
  BY DEF SessionInv, RunInv
<1>3. dirty' \/ last' = Untracked \/ Tracked(strip', disk', last')
  <2>1. CASE dirty'
    BY <2>1
  <2>2. CASE ~dirty /\ Alike(strip, strip') /\ last # Untracked
    <3>1. Tracked(strip, disk, last)
      BY <1>2, <2>2
    <3>2. PICK s0, u0 : /\ InUse(s0) /\ Addressed(s0, u0)
                        /\ disk = {Snapshot(s0, u0)} /\ last = Live(s0, u0) /\ Alike(s0, strip)
      BY <3>1 DEF Tracked
    <3>3. Alike(s0, strip')
      BY <1>2, <2>2, <3>2, AlikeOn DEF InUse
    <3>4. disk' = disk /\ last' = last
      BY DEF files
    <3>5. QED
      BY <3>2, <3>3, <3>4 DEF Tracked
  <2>3. QED
    BY <2>1, <2>2
<1>4. QED
  BY <1>1, <1>3 DEF SessionInv, RunInv

-----------------------------------------------------------------------------
(* The steps of the saved session.                                         *)

LEMMA AttemptsAre ==
  ASSUME LogInv
  PROVE  /\ Attempts = Append(recent, 0) /\ Len(Attempts) = Len(recent) + 1 /\ Attempts \in Seq(Nat)
         /\ Only(Attempts, Near) = Attempts
<1>1. log \in Seq(Nat) /\ recent = Only(log, Near)
  BY DEF LogInv
<1>2. Attempts = Append(recent, 0)
  BY <1>1 DEF Attempts, Near
<1>3. recent \in Seq(Near)
  BY <1>1, OnlyThose
<1>4. 0 \in Near /\ Near \subseteq Nat
  BY LoopAssumption DEF Near
<1>5. Attempts \in Seq(Near) /\ Len(Attempts) = Len(recent) + 1
  BY <1>2, <1>3, <1>4, AppendProperties
<1>6. Only(Attempts, Near) = Attempts
  BY <1>5, OnlyAll
<1>7. Attempts \in Seq(Nat)
  <2>1. recent \in Seq(Nat)
    BY <1>1, OnlyIs
  <2>2. 0 \in Nat
    OBVIOUS
  <2>3. QED
    BY <1>2, <2>1, <2>2, AppendProperties
<1>8. QED
  BY <1>2, <1>5, <1>6, <1>7

LEMMA LaunchFine ==
  ASSUME SessionInv, NEW cli \in CliUrls, NEW noRestore \in BOOLEAN, Launch(cli, noRestore)
  PROVE  SessionInv'
<1>1. /\ phase = "off" /\ phase' = "start" /\ log' = Attempts /\ recent' = Append(recent, 0)
      /\ disk' = IF LoopDetected(Attempts) THEN {} ELSE disk
      /\ last' = last
  BY DEF Launch, tracking
<1>2. DiskInv' /\ (disk = {} \/ \E s : disk = {s} /\ IsSession(s))
  BY <1>1 DEF SessionInv, DiskInv
<1>3. LogInv'
  <2>1. Attempts = Append(recent, 0) /\ Attempts \in Seq(Nat) /\ Only(Attempts, Near) = Attempts
    BY AttemptsAre DEF SessionInv
  <2>2. QED
    BY <1>1, <2>1 DEF LogInv
<1>4. IdleInv' /\ RunInv'
  BY <1>1 DEF SessionInv, IdleInv, RunInv, Running
<1>5. cli \in Seq(Safe) /\ Len(cli) \in {0, 1}
  <2> DEFINE m == 1
  <2>1. m \in Nat /\ 0 .. m = {0, 1}
    OBVIOUS
  <2>2. cli \in BoundedSeq(Safe, m)
    BY DEF CliUrls
  <2> HIDE DEF m
  <2>3. cli \in Seq(Safe) /\ Len(cli) \in 0 .. m
    BY <2>1, <2>2, Bounded
  <2>4. QED
    BY <2>1, <2>3
<1>6. PendingInv'
  <2>1. CASE noRestore \/ LoopDetected(Attempts) \/ disk = {}
    <3>1. pending' = [Nothing EXCEPT !.cli = cli]
      BY <2>1 DEF Launch
    <3>2. pending'.entries = <<>> /\ pending'.active = 0 /\ pending'.cli = cli
      BY <3>1 DEF Nothing
    <3>3. <<>> \in Seq(Entry) /\ PinnedFirst(<<>>)
      BY NothingWaits DEF Waiting
    <3>4. QED
      BY <1>5, <3>2, <3>3 DEF PendingInv, Waiting
  <2>2. CASE ~(noRestore \/ LoopDetected(Attempts) \/ disk = {})
    <3>1. PICK s : disk = {s} /\ IsSession(s)
      BY <1>2, <2>2
    <3>2. (CHOOSE x \in disk : TRUE) = s
      BY <3>1
    <3>3. pending' = [entries |-> Kept(s), active |-> Rebased(s), cli |-> cli]
      BY <2>2, <3>2 DEF Launch
    <3>4. pending'.entries = Kept(s) /\ pending'.active = Rebased(s) /\ pending'.cli = cli
      BY <3>3
    <3>5. Kept(s) \in Seq(Entry) /\ PinnedFirst(Kept(s))
      BY <3>1, KeptIs
    <3>6. Rebased(s) \in Nat
      BY <3>1, RebasedIs
    <3>7. disk' = {s}
      BY <1>1, <2>2, <3>1
    <3>8. Waiting(pending)'
      BY <1>5, <3>4, <3>5, <3>6 DEF Waiting
    <3>9. FromDisk'
      BY <3>4, <3>7 DEF FromDisk
    <3>10. QED
      BY <3>8, <3>9 DEF PendingInv
  <2>3. QED
    BY <2>1, <2>2
<1>7. QED
  BY <1>2, <1>3, <1>4, <1>6 DEF SessionInv

LEMMA OpenPendingFine ==
  ASSUME SessionInv, OpenPendingTabs
  PROVE  SessionInv'
<1> DEFINE w == OpenedWith(pending)
<1>1. /\ phase = "start" /\ phase' = "run" /\ pending' = Nothing
      /\ disk' = disk /\ log' = log /\ recent' = recent /\ last' = last
  BY DEF OpenPendingTabs, files, tracking
<1>2. strip' = w.s /\ url' = w.url
  BY DEF OpenPendingTabs, OpenedWith
<1> HIDE DEF w
<1>3. Ready(w)
  <2>1. Waiting(pending)
    BY DEF SessionInv, PendingInv
  <2>2. QED
    BY <2>1, WindowOpens DEF w
<1>4. InUse(strip') /\ Addressed(strip', url')
  BY <1>2, <1>3 DEF Ready
<1>5. last' = Untracked
  BY <1>1 DEF SessionInv, IdleInv, Running
<1>6. RunInv'
  BY <1>4, <1>5 DEF RunInv
<1>7. DiskInv' /\ LogInv'
  BY <1>1 DEF SessionInv, DiskInv, LogInv
<1>8. PendingInv'
  BY <1>1, NothingWaits DEF PendingInv, Waiting
<1>9. IdleInv'
  BY <1>1 DEF IdleInv, Running
<1>10. QED
  BY <1>6, <1>7, <1>8, <1>9 DEF SessionInv

\* What a running browser is in.
LEMMA InTheRun ==
  ASSUME SessionInv, Running
  PROVE  InUse(strip) /\ Good(strip) /\ Addressed(strip, url) /\ Alike(strip, strip)
         /\ strip.active \in Positions(strip) /\ strip.next \in Nat /\ Len(strip.tabs) \in Nat
<1>1. InUse(strip) /\ Addressed(strip, url)
  BY DEF SessionInv, RunInv
<1>2. Good(strip) /\ strip.active \in Positions(strip)
  BY <1>1 DEF InUse
<1>3. strip.tabs \in Seq(TabRecord) /\ strip.next \in Nat
  BY <1>2, GoodIs
<1>4. Len(strip.tabs) \in Nat
  BY <1>3, LenProperties
<1>5. QED
  BY <1>1, <1>2, <1>3, <1>4, AlikeSelf

LEMMA NotedIs ==
  ASSUME NEW marks \in BOOLEAN, Noted(marks)
  PROVE  UNCHANGED last /\ (dirty' \/ ~dirty)
<1>1. CASE marks
  BY <1>1 DEF Noted, MarkDirty
<1>2. CASE ~marks
  BY <1>2 DEF Noted, tracking
<1>3. QED
  BY <1>1, <1>2

LEMMA SafeIsUrl == Safe \subseteq Urls /\ Home \in Urls /\ NoUrl \notin Urls
BY UrlsAssumption

\* A new tab has an address.
LEMMA AlsoIs ==
  ASSUME NEW s, NEW u, Addressed(s, u), NEW id, NEW a \in Urls, NEW r, Ids(r) \subseteq Ids(s) \cup {id}
  PROVE  Addressed(r, Also(u, id, a))
<1>1. u \in [DOMAIN u -> Urls] /\ Ids(s) \subseteq DOMAIN u
  BY DEF Addressed
<1>2. Also(u, id, a) \in [DOMAIN u \cup {id} -> Urls]
  BY <1>1 DEF Also
<1>3. DOMAIN Also(u, id, a) = DOMAIN u \cup {id}
  BY DEF Also
<1>4. QED
  BY <1>1, <1>2, <1>3 DEF Addressed

LEMMA OpenTabFine ==
  ASSUME SessionInv, NEW u \in Safe, NEW background \in BOOLEAN, OpenTab(u, background)
  PROVE  SessionInv'
<1>1. /\ Running /\ strip' = Opened(strip, background) /\ url' = Also(url, strip.next, u)
      /\ phase' = phase /\ UNCHANGED <<files, pending, recent, last>> /\ dirty' = dirty
  BY DEF OpenTab, Used, tracking
<1>2. InUse(strip) /\ Addressed(strip, url)
  BY <1>1, InTheRun
<1>3. InUse(strip') /\ Alike(strip, strip') /\ Ids(strip') \subseteq Ids(strip) \cup {strip.next}
  BY <1>1, <1>2, OpenedAlike DEF Grows
<1>4. Addressed(strip', url')
  BY <1>1, <1>2, <1>3, AlsoIs, SafeIsUrl
<1>5. dirty' \/ (~dirty /\ Alike(strip, strip'))
  BY <1>1, <1>3
<1>6. QED
  BY <1>1, <1>3, <1>4, <1>5, WorkFine

LEMMA OpenAdjacentFine ==
  ASSUME SessionInv, NEW u \in Safe, NEW i \in {strip.active, strip.active + 1}, NEW marks \in BOOLEAN,
         OpenAdjacent(u, i, marks)
  PROVE  SessionInv'
<1>1. /\ Running /\ strip' = OpenedAt(strip, i) /\ url' = Also(url, strip.next, u)
      /\ phase' = phase /\ UNCHANGED <<files, pending, recent>> /\ Noted(marks)
  BY DEF OpenAdjacent, Used
<1>2. InUse(strip) /\ Addressed(strip, url) /\ strip.active \in Positions(strip) /\ Len(strip.tabs) \in Nat
  BY <1>1, InTheRun
<1>3. i \in Nat \ {0}
  BY <1>2 DEF Positions
<1>4. InUse(strip') /\ Alike(strip, strip') /\ Ids(strip') \subseteq Ids(strip) \cup {strip.next}
  BY <1>1, <1>2, <1>3, OpenedAtAlike DEF Grows
<1>5. Addressed(strip', url')
  BY <1>1, <1>2, <1>4, AlsoIs, SafeIsUrl
<1>6. UNCHANGED last /\ (dirty' \/ (~dirty /\ Alike(strip, strip')))
  BY <1>1, <1>4, NotedIs
<1>7. QED
  BY <1>1, <1>4, <1>5, <1>6, WorkFine

LEMMA SelectFine ==
  ASSUME SessionInv, NEW i \in Positions(strip), SelectTab(i)
  PROVE  SessionInv'
<1>1. /\ Running /\ strip' = SetActive(strip, i) /\ url' = url
      /\ phase' = phase /\ UNCHANGED <<files, pending, recent, last>> /\ dirty' = dirty
  BY DEF SelectTab, Used, tracking
<1>2. Good(strip) /\ Addressed(strip, url)
  BY <1>1, InTheRun
<1>3. InUse(strip') /\ Alike(strip, strip') /\ Ids(strip') \subseteq Ids(strip)
  BY <1>1, <1>2, Activated DEF Stays
<1>4. Addressed(strip', url')
  BY <1>1, <1>2, <1>3 DEF Addressed
<1>5. dirty' \/ (~dirty /\ Alike(strip, strip'))
  BY <1>1, <1>3
<1>6. QED
  BY <1>1, <1>3, <1>4, <1>5, WorkFine

LEMMA MoveFine ==
  ASSUME SessionInv, NEW i \in Positions(strip), NEW to \in Positions(strip), NEW marks \in BOOLEAN,
         MoveTab(i, to, marks)
  PROVE  SessionInv'
<1>1. /\ Running /\ strip' = Moved(strip, i, to) /\ url' = url
      /\ phase' = phase /\ UNCHANGED <<files, pending, recent>> /\ Noted(marks)
  BY DEF MoveTab, Used
<1>2. InUse(strip) /\ Addressed(strip, url)
  BY <1>1, InTheRun
<1>3. i \in Nat /\ to \in Nat
  BY DEF Positions
<1>4. InUse(strip') /\ Alike(strip, strip') /\ Ids(strip') \subseteq Ids(strip)
  BY <1>1, <1>2, <1>3, MovedAlike DEF Stays
<1>5. Addressed(strip', url')
  BY <1>1, <1>2, <1>4 DEF Addressed
<1>6. UNCHANGED last /\ (dirty' \/ (~dirty /\ Alike(strip, strip')))
  BY <1>1, <1>4, NotedIs
<1>7. QED
  BY <1>1, <1>4, <1>5, <1>6, WorkFine

LEMMA PinFine ==
  ASSUME SessionInv, NEW i \in Positions(strip), PinTab(i)
  PROVE  SessionInv'
<1> DEFINE pinned == ~strip.tabs[i].pinned
<1>1. /\ Running /\ strip' = WithPin(strip, i, pinned) /\ url' = url
      /\ phase' = phase /\ UNCHANGED <<files, pending, recent, last>> /\ dirty'
  BY DEF PinTab, Used, Noted, PinMarks, MarkDirty
<1>2. InUse(strip) /\ Addressed(strip, url)
  BY <1>1, InTheRun
<1>3. pinned \in BOOLEAN
  OBVIOUS
<1> HIDE DEF pinned
<1>4. InUse(strip') /\ Ids(strip') = Ids(strip)
  BY <1>1, <1>2, <1>3, PinnedStill
<1>5. Addressed(strip', url')
  BY <1>1, <1>2, <1>4 DEF Addressed
<1>6. QED
  BY <1>1, <1>4, <1>5, WorkFine

\* A strip as it was, with other addresses for its tabs.
LEMMA ReaddressedFine ==
  ASSUME SessionInv, Running, phase' = phase, UNCHANGED <<files, pending, recent, last, strip>>,
         dirty' \/ ~dirty, NEW i \in Positions(strip), NEW u \in Safe,
         url' = [url EXCEPT ![strip.tabs[i].id] = u]
  PROVE  SessionInv'
<1>1. InUse(strip) /\ Alike(strip, strip) /\ Addressed(strip, url) /\ strip' = strip
  BY InTheRun
<1>2. InUse(strip') /\ Alike(strip, strip')
  BY <1>1
<1>3. Addressed(strip', url')
  <2>1. url \in [DOMAIN url -> Urls] /\ Ids(strip) \subseteq DOMAIN url
    BY <1>1 DEF Addressed
  <2>2. u \in Urls
    BY SafeIsUrl
  <2>3. url' \in [DOMAIN url -> Urls] /\ DOMAIN url' = DOMAIN url
    BY <2>1, <2>2
  <2>4. Ids(strip') = Ids(strip)
    BY <1>1
  <2>5. QED
    BY <2>1, <2>3, <2>4 DEF Addressed
<1>4. QED
  BY <1>2, <1>3, WorkFine

LEMMA NavigateFine ==
  ASSUME SessionInv, NEW u \in Safe, Navigate(u)
  PROVE  SessionInv'
<1>1. /\ Running /\ url' = Navigated(Window(strip, url), u).url
      /\ phase' = phase /\ UNCHANGED <<files, pending, recent, last, strip>> /\ dirty' = dirty
  BY DEF Navigate, Used, tracking
<1>2. InUse(strip) /\ Addressed(strip, url) /\ strip.active \in Positions(strip)
  BY <1>1, InTheRun
<1> DEFINE w == Window(strip, url)
<1>3. w.s = strip /\ w.url = url
  BY WindowIs
<1>4. Ready(w)
  BY <1>2, <1>3 DEF Ready
<1> HIDE DEF w
<1>5. u \in Urls
  BY SafeIsUrl
<1> DEFINE v == Navigated(w, u)
<1>6. v.url = [w.url EXCEPT ![w.s.tabs[w.s.active].id] = u]
  <2> HIDE DEF v
  <2>1. v = Navigated(w, u)
    BY DEF v
  <2>2. QED
    BY <1>4, <1>5, <2>1, NavigatedReady
<1>7. url' = v.url
  BY <1>1 DEF w
<1> HIDE DEF v
<1>8. url' = [url EXCEPT ![strip.tabs[strip.active].id] = u]
  BY <1>3, <1>6, <1>7
<1>9. QED
  BY <1>1, <1>2, <1>8, ReaddressedFine

LEMMA AddressFine ==
  ASSUME SessionInv, NEW i \in Positions(strip), NEW u \in Safe, AddressChange(i, u)
  PROVE  SessionInv'
<1>1. /\ Running /\ url' = [url EXCEPT ![strip.tabs[i].id] = u]
      /\ phase' = phase /\ UNCHANGED <<files, pending, recent, last, strip>> /\ dirty'
  BY DEF AddressChange, Used, MarkDirty
<1>2. QED
  BY <1>1, ReaddressedFine

LEMMA CloseFine ==
  ASSUME SessionInv, NEW i \in Positions(strip), NEW marks \in BOOLEAN, CloseTab(i, marks)
  PROVE  SessionInv'
<1>1. /\ Running /\ Len(strip.tabs) > 1 /\ strip' = Closed(strip, i, TRUE) /\ url' = Restrict(url, Ids(strip'))
      /\ phase' = phase /\ UNCHANGED <<files, pending, recent>> /\ Noted(marks)
  BY DEF CloseTab, Used
<1>2. InUse(strip) /\ Addressed(strip, url)
  BY <1>1, InTheRun
<1>3. InUse(strip') /\ Alike(strip, strip') /\ Ids(strip') \subseteq Ids(strip)
  BY <1>1, <1>2, ClosedAlike DEF Stays
<1>4. Addressed(strip', url')
  <2> DEFINE ids == Ids(strip')
  <2>1. url \in [DOMAIN url -> Urls] /\ ids \subseteq DOMAIN url
    BY <1>2, <1>3 DEF Addressed
  <2> HIDE DEF ids
  <2>2. Restrict(url, ids) = [x \in ids |-> url[x]]
    BY DEF Restrict
  <2>3. Restrict(url, ids) \in [ids -> Urls] /\ DOMAIN Restrict(url, ids) = ids
    BY <2>1, <2>2
  <2>4. url' = Restrict(url, ids)
    BY <1>1 DEF ids
  <2>5. url' \in [DOMAIN url' -> Urls] /\ ids \subseteq DOMAIN url'
    BY <2>3, <2>4
  <2>6. QED
    BY <2>5 DEF Addressed, ids
<1>5. UNCHANGED last /\ (dirty' \/ (~dirty /\ Alike(strip, strip')))
  BY <1>1, <1>3, NotedIs
<1>6. QED
  BY <1>1, <1>3, <1>4, <1>5, WorkFine

LEMMA PollFine ==
  ASSUME SessionInv, Poll
  PROVE  SessionInv'
<1>1. /\ Running /\ strip' = strip /\ url' = url
      /\ phase' = phase /\ UNCHANGED <<files, pending, recent, last>> /\ dirty' = (dirty \/ Differs)
  BY DEF Poll
<1>2. InUse(strip) /\ Alike(strip, strip) /\ Addressed(strip, url)
  BY <1>1, InTheRun
<1>3. InUse(strip') /\ Alike(strip, strip') /\ Addressed(strip', url')
  BY <1>1, <1>2
<1>4. dirty' \/ (~dirty /\ Alike(strip, strip'))
  BY <1>1, <1>3
<1>5. QED
  BY <1>1, <1>3, <1>4, WorkFine

\* A save.
LEMMA SavedIs ==
  ASSUME SessionInv, Running
  PROVE  /\ IsSession(Snapshot(strip, url))
         /\ Saved(strip, url) = disk \/ Saved(strip, url) = {Snapshot(strip, url)}
         /\ dirty => Saved(strip, url) = {Snapshot(strip, url)} /\ ~NothingToSave(strip, url)
<1>1. Good(strip) /\ Addressed(strip, url)
  BY InTheRun
<1>2. IsSession(Snapshot(strip, url))
  BY <1>1, SnapshotIs
<1>3. QED
  BY <1>2 DEF Saved, NothingToSave

LEMMA FlushFine ==
  ASSUME SessionInv, Flush
  PROVE  SessionInv'
<1>1. /\ Running /\ dirty /\ disk' = Saved(strip, url)
      /\ phase' = phase /\ strip' = strip /\ url' = url /\ log' = log /\ pending' = pending /\ recent' = recent
  BY DEF Flush
<1>2. IsSession(Snapshot(strip, url)) /\ disk' = {Snapshot(strip, url)} /\ ~NothingToSave(strip, url)
  BY <1>1, SavedIs
<1>3. last' = Live(strip, url)
  BY <1>2 DEF Flush
<1>4. InUse(strip) /\ Addressed(strip, url) /\ Alike(strip, strip)
  BY <1>1, InTheRun
<1>5. Tracked(strip', disk', last')
  BY <1>1, <1>2, <1>3, <1>4 DEF Tracked
<1>6. InUse(strip') /\ Addressed(strip', url')
  BY <1>1, <1>4
<1>7. RunInv'
  BY <1>5, <1>6 DEF RunInv
<1>8. DiskInv'
  BY <1>2 DEF DiskInv
<1>9. Running' /\ phase = "run" /\ phase' # "start"
  BY <1>1 DEF Running
<1>10. LogInv' /\ IdleInv'
  BY <1>1, <1>9 DEF SessionInv, LogInv, IdleInv
<1>11. PendingInv'
  BY <1>1, <1>9 DEF SessionInv, PendingInv, Waiting
<1>12. QED
  BY <1>7, <1>8, <1>10, <1>11 DEF SessionInv

\* The log of a clean exit.
LEMMA CleanLog ==
  ASSUME CleanExit
  PROVE  LogInv'
<1>1. log' = <<>> /\ recent' = <<>>
  BY DEF CleanExit, CleanExitLog
<1>2. <<>> \in Seq(Nat) /\ Only(<<>>, Near) = <<>>
  BY EmptySeq, OnlyNone
<1>3. QED
  BY <1>1, <1>2 DEF LogInv

LEMMA QuitFine ==
  ASSUME SessionInv, Quit
  PROVE  SessionInv'
<1>1. Running /\ disk' = Saved(strip, url) /\ CleanExit /\ Gone
  BY DEF Quit
<1>2. IsSession(Snapshot(strip, url)) /\ (disk' = disk \/ disk' = {Snapshot(strip, url)})
  BY <1>1, SavedIs
<1>3. DiskInv'
  BY <1>2 DEF SessionInv, DiskInv
<1>4. QED
  BY <1>1, <1>3, CleanLog, EndFine

LEMMA QuitEarlyFine ==
  ASSUME SessionInv, QuitEarly
  PROVE  SessionInv'
<1>1. CleanExit /\ Gone /\ disk' = disk
  BY DEF QuitEarly
<1>2. DiskInv'
  BY <1>1 DEF SessionInv, DiskInv
<1>3. QED
  BY <1>1, <1>2, CleanLog, EndFine

\* What the closing of the last tab leaves.
LEMMA LastClosed ==
  ASSUME NEW marks \in BOOLEAN, LastTabCloses(marks)
  PROVE  disk' = {Session(<<>>, 0)} \/ (~marks /\ ~dirty /\ last = Untracked /\ disk' = disk)
<1>1. disk' = IF marks THEN {Snapshot(EmptyStrip, <<>>)} ELSE Saved(EmptyStrip, <<>>)
  BY DEF LastTabCloses
<1>2. Snapshot(EmptyStrip, <<>>) = Session(<<>>, 0) /\ Live(EmptyStrip, <<>>) = Untracked
  BY EmptySaved
<1>3. Saved(EmptyStrip, <<>>) = IF ~dirty /\ Untracked = last THEN disk ELSE {Session(<<>>, 0)}
  BY <1>2 DEF Saved, NothingToSave
<1>4. QED
  BY <1>1, <1>2, <1>3

LEMMA LastTabFine ==
  ASSUME SessionInv, NEW marks \in BOOLEAN, LastTabCloses(marks)
  PROVE  SessionInv'
<1>1. CleanExit /\ Gone
  BY DEF LastTabCloses
<1>2. disk' = {Session(<<>>, 0)} \/ disk' = disk
  BY LastClosed
<1>3. IsSession(Session(<<>>, 0))
  BY EmptySaved
<1>4. DiskInv'
  BY <1>2, <1>3 DEF SessionInv, DiskInv
<1>5. QED
  BY <1>1, <1>4, CleanLog, EndFine

LEMMA CrashFine ==
  ASSUME SessionInv, Crash
  PROVE  SessionInv'
<1>1. Gone /\ disk' = disk /\ log' = log /\ recent' = recent
  BY DEF Crash, files
<1>2. DiskInv' /\ LogInv'
  BY <1>1 DEF SessionInv, DiskInv, LogInv
<1>3. QED
  BY <1>1, <1>2, EndFine

LEMMA TickFine ==
  ASSUME SessionInv, Tick
  PROVE  SessionInv'
<1>1. /\ phase = "off" /\ phase' = phase /\ disk' = disk /\ pending' = pending /\ last' = last
      /\ log' = [i \in DOMAIN log |-> Min({log[i] + 1, LoopWindow + 1})]
      /\ recent' = Only([i \in DOMAIN recent |-> recent[i] + 1], 0..LoopWindow)
  BY DEF Tick, tracking
<1>2. log \in Seq(Nat) /\ recent = Only(log, Near)
  BY DEF SessionInv, LogInv
<1>3. recent \in Seq(Nat)
  BY <1>2, OnlyIs
<1>4. DOMAIN log = 1 .. Len(log) /\ DOMAIN recent = 1 .. Len(recent)
      /\ (\A i \in 1 .. Len(log) : log[i] \in Nat) /\ (\A i \in 1 .. Len(recent) : recent[i] \in Nat)
  BY <1>2, <1>3, LenProperties, ElementOfSeq
<1>5. log' = Each(log, Capped)
  BY <1>1, <1>4 DEF Each, Capped
<1>6. [i \in DOMAIN recent |-> recent[i] + 1] = Each(recent, Later)
  BY <1>4 DEF Each, Later
<1>7. recent' = Only(Each(recent, Later), Near)
  BY <1>1, <1>6 DEF Near
<1>8. recent' = Only(log', Near)
  BY <1>2, <1>5, <1>7, OnlyAged
<1>9. log' \in Seq(Nat)
  BY <1>2, <1>5, Ages, EachIs
<1>10. LogInv'
  BY <1>8, <1>9 DEF LogInv
<1>11. DiskInv' /\ PendingInv' /\ IdleInv' /\ RunInv'
  BY <1>1 DEF SessionInv, DiskInv, PendingInv, IdleInv, RunInv, Running, Waiting
<1>12. QED
  BY <1>10, <1>11 DEF SessionInv

LEMMA SessionStep ==
  ASSUME SessionInv, Next
  PROVE  SessionInv'
<1>1. CASE \E cli \in CliUrls, noRestore \in BOOLEAN : Launch(cli, noRestore)
  BY <1>1, LaunchFine
<1>2. CASE OpenPendingTabs
  BY <1>2, OpenPendingFine
<1>3. CASE \E u \in Safe, background \in BOOLEAN : OpenTab(u, background)
  BY <1>3, OpenTabFine
<1>4. CASE \E u \in Safe, i \in {strip.active, strip.active + 1}, marks \in BOOLEAN : OpenAdjacent(u, i, marks)
  BY <1>4, OpenAdjacentFine
<1>5. CASE \E i \in Positions(strip) : SelectTab(i)
  BY <1>5, SelectFine
<1>6. CASE \E i \in Positions(strip) : \E to \in Positions(strip), marks \in BOOLEAN : MoveTab(i, to, marks)
  BY <1>6, MoveFine
<1>7. CASE \E i \in Positions(strip) : PinTab(i)
  BY <1>7, PinFine
<1>8. CASE \E i \in Positions(strip) : \E u \in Safe : AddressChange(i, u)
  BY <1>8, AddressFine
<1>9. CASE \E i \in Positions(strip) : \E marks \in BOOLEAN : CloseTab(i, marks)
  BY <1>9, CloseFine
<1>10. CASE \E u \in Safe : Navigate(u)
  BY <1>10, NavigateFine
<1>11. CASE Poll
  BY <1>11, PollFine
<1>12. CASE Flush
  BY <1>12, FlushFine
<1>13. CASE Quit
  BY <1>13, QuitFine
<1>14. CASE QuitEarly
  BY <1>14, QuitEarlyFine
<1>15. CASE \E marks \in BOOLEAN : LastTabCloses(marks)
  BY <1>15, LastTabFine
<1>16. CASE Crash
  BY <1>16, CrashFine
<1>17. CASE Tick
  BY <1>17, TickFine
<1>18. QED
  BY <1>1, <1>2, <1>3, <1>4, <1>5, <1>6, <1>7, <1>8, <1>9, <1>10, <1>11, <1>12, <1>13, <1>14, <1>15,
     <1>16, <1>17
     DEF Next

\* What is on disk, what waits to be opened and what was last saved fit the
\* open tabs.
THEOREM SessionInvariant == PartsSpec => []SessionInv
<1>1. PartsInit => SessionInv
  BY SessionStarts DEF PartsInit
<1>2. SessionInv /\ [OfSession(Next) \/ OfEdit(Edit!Next)]_<<part, vars, focusVars>> => SessionInv'
  <2>1. SUFFICES ASSUME SessionInv, [OfSession(Next) \/ OfEdit(Edit!Next)]_<<part, vars, focusVars>>
                 PROVE  SessionInv'
    OBVIOUS
  <2>2. CASE OfSession(Next)
    BY <2>1, <2>2, SessionStep DEF OfSession
  <2>3. CASE OfEdit(Edit!Next)
    BY <2>1, <2>3, SessionStutters DEF OfEdit
  <2>4. CASE UNCHANGED <<part, vars, focusVars>>
    BY <2>1, <2>4, SessionStutters
  <2>5. QED
    BY <2>1, <2>2, <2>3, <2>4
<1>3. QED
  BY <1>1, <1>2, PTL DEF PartsSpec

-----------------------------------------------------------------------------
(* The properties of the saved session.                                    *)

\* The active tab has an address.
LEMMA ActiveHasUrl ==
  ASSUME NEW s, InUse(s), NEW u, Addressed(s, u)
  PROVE  ActiveUrl(s, u) \in Urls /\ ActiveUrl(s, u) # NoUrl
<1>1. s.active \in Positions(s) /\ s.active # 0
  BY DEF InUse, Positions
<1>2. u[s.tabs[s.active].id] \in Urls
  BY <1>1, AddressOf
<1>3. QED
  BY <1>1, <1>2, SafeIsUrl DEF ActiveUrl

LEMMA InUseHasIds ==
  ASSUME NEW s, InUse(s)
  PROVE  IdList(s) # IdList(EmptyStrip)
<1>1. s.active \in Positions(s)
  BY DEF InUse
<1>2. DOMAIN IdList(s) = Positions(s)
  BY DEF IdList
<1>3. DOMAIN IdList(EmptyStrip) = {}
  <2>1. Len(<<>>) = 0 /\ 1 .. 0 = {}
    OBVIOUS
  <2>2. QED
    BY <2>1 DEF IdList, EmptyStrip, Positions
<1>4. QED
  BY <1>1, <1>2, <1>3

LEMMA LiveIs ==
  ASSUME NEW s, NEW u
  PROVE  Live(s, u).ids = IdList(s) /\ Live(s, u).active = s.active /\ Live(s, u).url = ActiveUrl(s, u)
BY DEF Live

\* Where nothing is marked and nothing differs, what is on disk is right.
LEMMA Recorded ==
  ASSUME SessionInv, Running, ~dirty,
         last.ids = IdList(strip), last.active = strip.active, last.url = ActiveUrl(strip, url)
  PROVE  StandsFor(disk, strip, url)
<1>1. InUse(strip) /\ Addressed(strip, url)
  BY InTheRun
<1>2. last # Untracked
  <2>1. Untracked.ids = IdList(EmptyStrip)
    BY LiveIs DEF Untracked
  <2>2. QED
    BY <1>1, <2>1, InUseHasIds
<1>3. Tracked(strip, disk, last)
  BY <1>2 DEF SessionInv, RunInv
<1>4. PICK s0, u0 : /\ InUse(s0) /\ Addressed(s0, u0)
                    /\ disk = {Snapshot(s0, u0)} /\ last = Live(s0, u0) /\ Alike(s0, strip)
  BY <1>3 DEF Tracked
<1>5. IdList(strip) = IdList(s0) /\ strip.active = s0.active /\ ActiveUrl(strip, url) = ActiveUrl(s0, u0)
  BY <1>4, LiveIs
<1>6. strip.tabs = s0.tabs
  BY <1>1, <1>4, <1>5, Recognised
<1>7. QED
  BY <1>1, <1>4, <1>5, <1>6, StandsForSame

\* No change of the open tabs escapes both the marks and the poll
\* (event_loop.rs:1795-1811).
THEOREM UnsavedAlwaysNoticed == PartsSpec => []UnsavedIsNoticed
<1>1. SessionInv => UnsavedIsNoticed
  <2>1. SUFFICES ASSUME SessionInv, Running, ~dirty, ~Differs PROVE StandsFor(disk, strip, url)
    BY DEF UnsavedIsNoticed
  <2>2. Live(strip, url).ids = last.ids /\ Live(strip, url).active = last.active
        /\ Live(strip, url).url \in {NoUrl, last.url}
    BY <2>1 DEF Differs
  <2>3. InUse(strip) /\ Addressed(strip, url)
    BY <2>1, InTheRun
  <2>4. ActiveUrl(strip, url) # NoUrl
    BY <2>3, ActiveHasUrl
  <2>5. last.ids = IdList(strip) /\ last.active = strip.active /\ last.url = ActiveUrl(strip, url)
    BY <2>2, <2>4, LiveIs
  <2>6. QED
    BY <2>1, <2>5, Recorded
<1>2. QED
  BY <1>1, SessionInvariant, PTL

LEMMA QuitSaves ==
  ASSUME SessionInv, Quit
  PROVE  StandsFor(disk', strip, url)
<1>1. Running /\ disk' = Saved(strip, url)
  BY DEF Quit
<1>2. InUse(strip)
  BY <1>1, InTheRun
<1>3. CASE NothingToSave(strip, url)
  <2>1. ~dirty /\ last = Live(strip, url)
    BY <1>3 DEF NothingToSave
  <2>2. last.ids = IdList(strip) /\ last.active = strip.active /\ last.url = ActiveUrl(strip, url)
    BY <2>1, LiveIs
  <2>3. disk' = disk
    BY <1>1, <1>3 DEF Saved
  <2>4. QED
    BY <1>1, <2>1, <2>2, <2>3, Recorded
<1>4. CASE ~NothingToSave(strip, url)
  <2>1. disk' = {Snapshot(strip, url)}
    BY <1>1, <1>4 DEF Saved
  <2>2. StandsFor({Snapshot(strip, url)}, strip, url)
    BY <1>2, StandsForSame
  <2>3. QED
    BY <2>1, <2>2
<1>5. QED
  BY <1>3, <1>4

\* A clean exit leaves the open tabs on disk (check_shutdown, request_exit).
THEOREM CleanExitsSave == PartsSpec => CleanExitSaves
<1>1. SessionInv /\ [OfSession(Next) \/ OfEdit(Edit!Next)]_<<part, vars, focusVars>>
        => [/\ Quit => StandsFor(disk', strip, url)
            /\ \A marks \in BOOLEAN : LastTabCloses(marks) =>
                 disk' = {Session(<<>>, 0)} \/ (~marks /\ ~dirty /\ last = Untracked)]_vars
  <2>1. ASSUME SessionInv PROVE Quit => StandsFor(disk', strip, url)
    BY <2>1, QuitSaves
  <2>2. \A marks \in BOOLEAN : LastTabCloses(marks) =>
           disk' = {Session(<<>>, 0)} \/ (~marks /\ ~dirty /\ last = Untracked)
    BY LastClosed
  <2>3. QED
    BY <2>1, <2>2
<1>2. QED
  BY <1>1, SessionInvariant, PTL DEF PartsSpec, CleanExitSaves

\* What a launch makes of what is on disk.
Restores(noRestore) ==
  IF Len(recent') >= LoopThreshold THEN pending'.entries = <<>> /\ disk' = {}
  ELSE disk' = disk /\ (noRestore \/ \A s \in disk : pending'.entries = Kept(s))

LEMMA LaunchRestores ==
  ASSUME SessionInv, NEW cli \in CliUrls, NEW noRestore \in BOOLEAN, Launch(cli, noRestore)
  PROVE  Restores(noRestore)
<1>1. Attempts = Append(recent, 0)
  BY AttemptsAre DEF SessionInv
<1>2. recent' = Attempts /\ disk' = IF LoopDetected(Attempts) THEN {} ELSE disk
  BY <1>1 DEF Launch
<1>3. LoopDetected(Attempts) <=> Len(recent') >= LoopThreshold
  BY <1>2 DEF LoopDetected
<1>4. CASE LoopDetected(Attempts)
  <2>1. pending' = [Nothing EXCEPT !.cli = cli]
    BY <1>4 DEF Launch
  <2>2. pending'.entries = <<>>
    BY <2>1 DEF Nothing
  <2>3. disk' = {}
    BY <1>2, <1>4
  <2>4. QED
    BY <1>3, <1>4, <2>2, <2>3 DEF Restores
<1>5. CASE ~LoopDetected(Attempts)
  <2>1. disk' = disk
    BY <1>2, <1>5
  <2>2. ASSUME ~noRestore, NEW s \in disk PROVE pending'.entries = Kept(s)
    <3>1. disk = {s}
      BY <2>2 DEF SessionInv, DiskInv
    <3>2. (CHOOSE x \in disk : TRUE) = s
      BY <3>1
    <3>3. pending' = [entries |-> Kept(s), active |-> Rebased(s), cli |-> cli]
      BY <1>5, <2>2, <3>1, <3>2 DEF Launch
    <3>4. QED
      BY <3>3
  <2>3. QED
    BY <1>3, <1>5, <2>1, <2>2 DEF Restores
<1>6. QED
  BY <1>4, <1>5

\* A launch restores what was saved, unless it completes a crash loop or was
\* told not to (crash_guard.rs, main).
THEOREM LaunchesRestore == PartsSpec => RestoresUnlessLooping
<1>1. SessionInv /\ [OfSession(Next) \/ OfEdit(Edit!Next)]_<<part, vars, focusVars>>
        => [phase' = "start" => \A cli \in CliUrls, noRestore \in BOOLEAN : Launch(cli, noRestore) =>
              IF Len(recent') >= LoopThreshold THEN pending'.entries = <<>> /\ disk' = {}
              ELSE disk' = disk /\ (noRestore \/ \A s \in disk : pending'.entries = Kept(s))]_vars
  BY LaunchRestores DEF Restores
<1>2. QED
  BY <1>1, SessionInvariant, PTL DEF PartsSpec, RestoresUnlessLooping

\* Only open_pending_tabs leads from the start into the run.
LEMMA OnlyOpens ==
  ASSUME Next, phase = "start", phase' = "run"
  PROVE  OpenPendingTabs
BY DEF Next, Launch, OpenTab, OpenAdjacent, SelectTab, MoveTab, PinTab, Navigate, AddressChange,
   CloseTab, Poll, Flush,
       Quit, QuitEarly, LastTabCloses, Crash, Tick, Gone, Used, Running

LEMMA OpensAsSaved ==
  ASSUME SessionInv, OpenPendingTabs, pending.entries # <<>>
  PROVE  \E s \in disk :
           /\ List(strip', url') =
                Kept(s) \o [i \in DOMAIN pending.cli |-> [url |-> pending.cli[i], pinned |-> FALSE]]
           /\ strip'.active = IF pending.cli = <<>> THEN Landing(s) ELSE Len(strip'.tabs)
<1> DEFINE w == OpenedWith(pending)
<1>1. strip' = w.s /\ url' = w.url /\ phase = "start"
  BY DEF OpenPendingTabs, OpenedWith
<1> HIDE DEF w
<1>2. Waiting(pending) /\ FromDisk
  BY <1>1 DEF SessionInv, PendingInv
<1>3. Lists(w, pending)
  BY <1>2, WindowOpens DEF w
<1>4. PICK s \in disk : pending.entries = Kept(s) /\ pending.active = Rebased(s)
  BY <1>2 DEF FromDisk
<1>5. IsSession(s)
  BY <1>4 DEF SessionInv, DiskInv
<1>6. List(strip', url') = Kept(s) \o [i \in DOMAIN pending.cli |-> [url |-> pending.cli[i], pinned |-> FALSE]]
  BY <1>1, <1>3, <1>4 DEF Lists, Behind
<1>7. w.s.active = IF pending.cli = <<>> THEN IF Rebased(s) \in 1 .. Len(Kept(s)) THEN Rebased(s) ELSE 1
                   ELSE Len(w.s.tabs)
  BY <1>3, <1>4 DEF Lists
<1>8. Landing(s) = IF Rebased(s) \in 1 .. Len(Kept(s)) THEN Rebased(s) ELSE 1
  BY <1>5, FocusLands
<1>9. strip'.active = IF pending.cli = <<>> THEN Landing(s) ELSE Len(strip'.tabs)
  BY <1>1, <1>7, <1>8
<1>10. QED
  BY <1>4, <1>6, <1>9

\* A session opens as it was saved (filter_entries, open_pending_tabs).
THEOREM OpensAsItWas == PartsSpec => RestoredAsSaved
<1>1. SessionInv /\ [OfSession(Next) \/ OfEdit(Edit!Next)]_<<part, vars, focusVars>>
        => [phase = "start" /\ phase' = "run" /\ pending.entries # <<>> =>
              \E s \in disk :
                /\ List(strip', url') =
                     Kept(s) \o [i \in DOMAIN pending.cli |-> [url |-> pending.cli[i], pinned |-> FALSE]]
                /\ strip'.active = IF pending.cli = <<>> THEN Landing(s) ELSE Len(strip'.tabs)]_vars
  <2>1. SUFFICES ASSUME SessionInv, [OfSession(Next) \/ OfEdit(Edit!Next)]_<<part, vars, focusVars>>,
                        phase = "start", phase' = "run", pending.entries # <<>>
                 PROVE  \E s \in disk :
                          /\ List(strip', url') =
                               Kept(s) \o [i \in DOMAIN pending.cli |-> [url |-> pending.cli[i], pinned |-> FALSE]]
                          /\ strip'.active = IF pending.cli = <<>> THEN Landing(s) ELSE Len(strip'.tabs)
    OBVIOUS
  <2>2. Next
    BY <2>1 DEF OfSession, OfEdit, vars
  <2>3. OpenPendingTabs
    BY <2>1, <2>2, OnlyOpens
  <2>4. QED
    BY <2>1, <2>3, OpensAsSaved
<1>2. QED
  BY <1>1, SessionInvariant, PTL DEF PartsSpec, RestoredAsSaved

\* The tabs of a session come back with the next, as they were.
THEOREM SessionAlwaysSurvives == PartsSpec => SessionSurvives
BY CleanExitsSave, LaunchesRestore, OpensAsItWas DEF SessionSurvives

-----------------------------------------------------------------------------
(* EditFocus.                                                              *)

\* What an event of the queue makes of the field that p is taken to edit.
Told(p, x, e) ==
  IF e.tab # p THEN x
  ELSE IF e.kind = "focus" THEN e.field
  ELSE IF e.field = x THEN NoField ELSE x

\* f follows the queue from its i-th event on.
Walks(f, q, p, i) ==
  /\ f \in [i .. Len(q) -> Edit!Focusable]
  /\ \A n \in i + 1 .. Len(q) : f[n] = Told(p, f[n - 1], q[n])

\* Whoever takes p to edit x after the i-th event ends with one of Y.
Ends(q, p, i, x, Y) ==
  \A f \in [i .. Len(q) -> Edit!Focusable] : Walks(f, q, p, i) /\ f[i] = x => f[Len(q)] \in Y

\* What edit.js last said of the page is true of it.
Fits(d) == (d.lit => d.latch = d.focus) /\ d.latch \in {d.focus, NoField}

\* The i-th event is a focus in the document that is there now.
Telling(q, i) == q[i].kind = "focus" /\ ~q[i].old

\* Where an EXIT_INSERT is on its way to the page.
Leaving(messages) == IF "exit" \in Range(messages) THEN {NoField} ELSE {}

Doc == [focus : Edit!Focusable, lit : BOOLEAN, latch : Edit!Focusable]
Event == [tab : Tabs, old : BOOLEAN, kind : {"focus", "blur"}, field : Fields]
Message == {"inject", "exit", "first", "cycle", "dark", "light"}

FocusTypes ==
  /\ page \in [Tabs -> Doc] /\ sent \in [Tabs -> Seq(Message)] /\ sink \in Seq(Event)
  /\ app \in [active : Tabs, editing : Edit!Focusable, insert : BOOLEAN, blurred : {"no", "new", "old"}]
  /\ tracked \in BOOLEAN

TellingInv ==
  \A i \in 1 .. Len(sink) : Telling(sink, i) =>
    /\ Fits(page[sink[i].tab])
    /\ Ends(sink, sink[i].tab, i, sink[i].field, {page[sink[i].tab].latch})

TrackedInv ==
  tracked =>
    /\ Fits(page[app.active])
    /\ Ends(sink, app.active, 0, app.editing, {page[app.active].latch} \cup Leaving(sent[app.active]))

BlurInv == app.blurred # "no" => app.editing = NoField

FocusInv == FocusTypes /\ TellingInv /\ TrackedInv /\ BlurInv

LEMMA EventIs ==
  ASSUME NEW e \in Event
  PROVE  e.tab \in Tabs /\ e.old \in BOOLEAN /\ e.kind \in {"focus", "blur"} /\ e.field \in Fields
BY DEF Event

LEMMA ToldIs ==
  ASSUME NEW p, NEW x \in Edit!Focusable, NEW e \in Event
  PROVE  Told(p, x, e) \in Edit!Focusable
BY EventIs DEF Told, Edit!Focusable

\* What two events at most make of it.
Said(p, events, x) ==
  IF Len(events) = 0 THEN x
  ELSE IF Len(events) = 1 THEN Told(p, x, events[1])
  ELSE Told(p, Told(p, x, events[1]), events[2])

Brings(p, events, Y, Z) == \A y \in Y : Said(p, events, y) \in Z

\* Events that are added to the queue are followed after it.
LEMMA Appended ==
  ASSUME NEW p, NEW q \in Seq(Event), NEW new \in Seq(Event), Len(new) <= 2,
         NEW i \in 0 .. Len(q), NEW x, NEW Y, Ends(q, p, i, x, Y),
         NEW Z, Brings(p, new, Y, Z)
  PROVE  Ends(q \o new, p, i, x, Z)
<1> DEFINE n == Len(q)
           r == q \o new
<1>1. /\ n \in Nat /\ i \in Nat /\ i <= n /\ Len(r) = n + Len(new) /\ Len(new) \in 0 .. 2
      /\ \A k \in 1 .. n : r[k] = q[k]
      /\ \A k \in 1 .. Len(new) : r[n + k] = new[k]
  <2>1. n \in Nat /\ Len(new) \in Nat
    BY LenProperties
  <2>2. n \in Nat /\ i \in Nat /\ i <= n /\ Len(new) \in 0 .. 2
    <3>1. Len(new) \in 0 .. 2
      <4> DEFINE m == Len(new)
      <4>1. m \in Nat /\ m <= 2
        BY <2>1
      <4> HIDE DEF m
      <4>2. m \in 0 .. 2
        BY <4>1
      <4>3. QED
        BY <4>2 DEF m
    <3>2. i \in Nat /\ i <= n
      BY <2>1
    <3>3. QED
      BY <2>1, <3>1, <3>2
  <2>3. Len(r) = n + Len(new)
    BY ConcatProperties
  <2>4. ASSUME NEW k \in 1 .. n PROVE r[k] = q[k]
    BY <2>4, ConcatProperties
  <2>5. ASSUME NEW k \in 1 .. Len(new) PROVE r[n + k] = new[k]
    BY <2>1, <2>5
  <2>6. QED
    BY <2>2, <2>3, <2>4, <2>5
<1> HIDE DEF n, r
<1>2. SUFFICES ASSUME NEW f \in [i .. Len(r) -> Edit!Focusable], Walks(f, r, p, i), f[i] = x
               PROVE  f[Len(r)] \in Z
  BY DEF Ends, r
<1> DEFINE g == [k \in i .. n |-> f[k]]
<1>3. g \in [i .. n -> Edit!Focusable]
  <2>1. \A k \in i .. n : k \in i .. Len(r)
    BY <1>1
  <2>2. QED
    BY <1>2, <2>1
<1>4. \A k \in i + 1 .. n : g[k] = Told(p, g[k - 1], q[k])
  <2>1. TAKE k \in i + 1 .. n
  <2>2. k \in i .. n /\ k - 1 \in i .. n /\ k \in 1 .. n /\ k \in i + 1 .. Len(r)
    BY <1>1, <2>1
  <2>3. f[k] = Told(p, f[k - 1], r[k])
    BY <1>2, <2>2 DEF Walks
  <2>4. g[k] = f[k] /\ g[k - 1] = f[k - 1]
    BY <2>2
  <2>5. QED
    BY <1>1, <2>2, <2>3, <2>4
<1>5. g[i] = x /\ g[n] = f[n]
  BY <1>1, <1>2
<1> HIDE DEF g
<1>6. f[n] \in Y
  <2>1. Walks(g, q, p, i)
    BY <1>3, <1>4 DEF Walks, n
  <2>2. QED
    BY <1>3, <1>5, <2>1 DEF Ends, n
<1>7. \A k \in n + 1 .. Len(r) : f[k] = Told(p, f[k - 1], new[k - n])
  <2>1. TAKE k \in n + 1 .. Len(r)
  <2>2. k \in i + 1 .. Len(r) /\ k - n \in 1 .. Len(new) /\ n + (k - n) = k
    BY <1>1, <2>1
  <2>3. f[k] = Told(p, f[k - 1], r[k])
    BY <1>2, <2>2 DEF Walks
  <2>4. r[n + (k - n)] = new[k - n]
    BY <1>1, <2>2
  <2>5. QED
    BY <2>2, <2>3, <2>4
<1>8. f[Len(r)] = Said(p, new, f[n])
  <2>1. CASE Len(new) = 0
    BY <1>1, <2>1 DEF Said
  <2>2. CASE Len(new) = 1
    <3>1. Len(r) = n + 1 /\ n + 1 \in n + 1 .. Len(r) /\ (n + 1) - 1 = n /\ (n + 1) - n = 1
      BY <1>1, <2>2
    <3>2. QED
      BY <1>7, <2>2, <3>1 DEF Said
  <2>3. CASE Len(new) = 2
    <3>1. /\ Len(r) = n + 2 /\ n + 1 \in n + 1 .. Len(r) /\ (n + 1) - 1 = n /\ (n + 1) - n = 1
          /\ n + 2 \in n + 1 .. Len(r) /\ (n + 2) - 1 = n + 1 /\ (n + 2) - n = 2
      BY <1>1, <2>3
    <3>2. f[n + 1] = Told(p, f[n], new[1])
      BY <1>7, <3>1
    <3>3. f[n + 2] = Told(p, f[n + 1], new[2])
      BY <1>7, <3>1
    <3>4. QED
      BY <2>3, <3>1, <3>2, <3>3 DEF Said
  <2>4. QED
    BY <1>1, <2>1, <2>2, <2>3
<1>9. QED
  BY <1>6, <1>8 DEF Brings

LEMMA AtTheEnd ==
  ASSUME NEW p, NEW q, NEW x
  PROVE  Ends(q, p, Len(q), x, {x})
BY DEF Ends

\* It does not matter what went before, or how old the events are.
LEMMA Dropped ==
  ASSUME NEW p, NEW q \in Seq(Event), NEW d \in 0 .. Len(q), NEW i \in 1 .. Len(q) - d, NEW x, NEW Y,
         Ends(q, p, i + d, x, Y)
  PROVE  Ends(SubSeq(q, d + 1, Len(q)), p, i, x, Y)
<1> DEFINE n == Len(q)
           r == SubSeq(q, d + 1, n)
<1>1. /\ n \in Nat /\ i \in Nat /\ d \in Nat /\ i <= n - d /\ d <= n /\ Len(r) = n - d
      /\ \A k \in 1 .. n - d : r[k] = q[k + d]
  OBVIOUS
<1> HIDE DEF n, r
<1>2. SUFFICES ASSUME NEW f \in [i .. Len(r) -> Edit!Focusable], Walks(f, r, p, i), f[i] = x
               PROVE  f[Len(r)] \in Y
  BY DEF Ends, r, n
<1> DEFINE g == [k \in i + d .. n |-> f[k - d]]
<1>3. g \in [i + d .. n -> Edit!Focusable]
  <2>1. \A k \in i + d .. n : k - d \in i .. Len(r)
    BY <1>1
  <2>2. QED
    BY <1>2, <2>1
<1>4. \A k \in i + d + 1 .. n : g[k] = Told(p, g[k - 1], q[k])
  <2>1. TAKE k \in i + d + 1 .. n
  <2>2. /\ k \in i + d .. n /\ k - 1 \in i + d .. n /\ k - d \in i + 1 .. Len(r)
        /\ (k - d) - 1 = (k - 1) - d /\ (k - d) + d = k /\ k - d \in 1 .. n - d
    BY <1>1, <2>1
  <2>3. f[k - d] = Told(p, f[(k - d) - 1], r[k - d])
    BY <1>2, <2>2 DEF Walks
  <2>4. g[k] = f[k - d] /\ g[k - 1] = f[(k - 1) - d]
    BY <2>2
  <2>5. r[k - d] = q[(k - d) + d]
    BY <1>1, <2>2
  <2>6. QED
    BY <2>2, <2>3, <2>4, <2>5
<1>5. g[i + d] = x /\ g[n] = f[Len(r)]
  <2>1. i + d \in i + d .. n /\ n \in i + d .. n /\ (i + d) - d = i /\ n - d = Len(r)
    BY <1>1
  <2>2. QED
    BY <1>2, <2>1
<1> HIDE DEF g
<1>6. Walks(g, q, p, i + d)
  BY <1>3, <1>4 DEF Walks, n
<1>7. QED
  BY <1>3, <1>5, <1>6 DEF Ends, n

LEMMA AnyAge ==
  ASSUME NEW p, NEW q, NEW r, Len(r) = Len(q), NEW i \in Nat,
         \A k \in 1 .. Len(q) : r[k].tab = q[k].tab /\ r[k].kind = q[k].kind /\ r[k].field = q[k].field,
         Len(q) \in Nat, NEW x, NEW Y, Ends(q, p, i, x, Y)
  PROVE  Ends(r, p, i, x, Y)
<1>1. SUFFICES ASSUME NEW f \in [i .. Len(r) -> Edit!Focusable], Walks(f, r, p, i), f[i] = x
               PROVE  f[Len(r)] \in Y
  BY DEF Ends
<1>2. ASSUME NEW k \in i + 1 .. Len(q) PROVE f[k] = Told(p, f[k - 1], q[k])
  <2>1. k \in 1 .. Len(q) /\ k \in i + 1 .. Len(r)
    OBVIOUS
  <2>2. f[k] = Told(p, f[k - 1], r[k])
    BY <1>1, <2>1 DEF Walks
  <2>3. QED
    BY <2>1, <2>2 DEF Told
<1>3. Walks(f, q, p, i)
  BY <1>1, <1>2 DEF Walks
<1>4. QED
  BY <1>1, <1>3 DEF Ends

\* The whole queue can be followed.
LEMMA AllFollowed ==
  ASSUME NEW p, NEW q \in Seq(Event), NEW x \in Edit!Focusable
  PROVE  \E f \in [0 .. Len(q) -> Edit!Focusable] : Walks(f, q, p, 0) /\ f[0] = x
<1> DEFINE n == Len(q)
           step == [z \in (1 .. n) \X Edit!Focusable |-> Told(p, z[2], q[z[1]])]
<1>1. n \in Nat /\ \A k \in 1 .. n : q[k] \in Event
  OBVIOUS
<1> HIDE DEF n
<1>2. step \in [(1 .. n) \X Edit!Focusable -> Edit!Focusable]
  <2>1. ASSUME NEW z \in (1 .. n) \X Edit!Focusable PROVE Told(p, z[2], q[z[1]]) \in Edit!Focusable
    <3>1. z[1] \in 1 .. n /\ z[2] \in Edit!Focusable
      OBVIOUS
    <3>2. q[z[1]] \in Event
      BY <1>1, <3>1
    <3>3. QED
      BY <3>1, <3>2, ToldIs
  <2>2. QED
    BY <2>1
<1>3. ASSUME NEW k \in 1 .. n, NEW y \in Edit!Focusable PROVE step[<<k, y>>] = Told(p, y, q[k])
  <2>1. <<k, y>> \in (1 .. n) \X Edit!Focusable /\ <<k, y>>[1] = k /\ <<k, y>>[2] = y
    OBVIOUS
  <2>2. QED
    BY <2>1
<1> HIDE DEF step
<1>4. PICK f : Strips!Runs(f, n, Edit!Focusable, x, step)
  BY <1>1, <1>2, Assumed, Strips!Recursion
<1>5. /\ f = [k \in 0 .. n |-> f[k]] /\ f[0] = x
      /\ \A k \in 1 .. n : f[k] = step[<<k, f[k - 1]>>]
      /\ \A k \in 0 .. n : f[k] \in Edit!Focusable
  BY <1>4 DEF Strips!Runs
<1>6. f \in [0 .. n -> Edit!Focusable]
  BY <1>5
<1>7. ASSUME NEW k \in 1 .. n PROVE f[k] = Told(p, f[k - 1], q[k])
  <2>1. k - 1 \in 0 .. n
    BY <1>1
  <2>2. f[k - 1] \in Edit!Focusable
    BY <1>5, <2>1
  <2>3. QED
    BY <1>3, <1>5, <2>2
<1>8. Walks(f, q, p, 0)
  BY <1>6, <1>7 DEF Walks, n
<1>9. QED
  BY <1>5, <1>6, <1>8 DEF n

\* Who takes no field to be edited ends with the same field, or with none.
LEMMA FromNoField ==
  ASSUME NEW p, NEW q \in Seq(Event), NEW x \in Edit!Focusable, NEW Y, Ends(q, p, 0, x, Y)
  PROVE  Ends(q, p, 0, NoField, Y \cup {NoField})
<1> DEFINE n == Len(q)
<1>1. n \in Nat
  OBVIOUS
<1>2. SUFFICES ASSUME NEW f \in [0 .. n -> Edit!Focusable], Walks(f, q, p, 0), f[0] = NoField
               PROVE  f[n] \in Y \cup {NoField}
  BY DEF Ends
<1>3. PICK g \in [0 .. n -> Edit!Focusable] : Walks(g, q, p, 0) /\ g[0] = x
  BY AllFollowed
<1>4. g[n] \in Y
  BY <1>3 DEF Ends
<1> DEFINE T == {k \in 0 .. n : f[k] \in {g[k], NoField}}
<1>5. 0 \in T
  BY <1>1, <1>2
<1>6. ASSUME NEW k \in 1 .. n, k - 1 \in T PROVE k \in T
  <2>1. f[k - 1] \in {g[k - 1], NoField}
    BY <1>6
  <2>2. k \in 0 + 1 .. n /\ k \in 0 .. n
    BY <1>1
  <2>3. f[k] = Told(p, f[k - 1], q[k]) /\ g[k] = Told(p, g[k - 1], q[k])
    BY <1>2, <1>3, <2>2, n = Len(q) DEF Walks
  <2>4. f[k] \in {g[k], NoField}
    BY <2>1, <2>3 DEF Told
  <2>5. QED
    BY <2>2, <2>4
<1>7. \A k \in 0 .. n : k \in T
  <2> HIDE DEF T
  <2>1. QED
    BY <1>1, <1>5, <1>6, Assumed, Strips!UpTo
<1>8. f[n] \in {g[n], NoField}
  BY <1>1, <1>7
<1>9. QED
  BY <1>4, <1>8

AppSet == [active : Tabs, editing : Edit!Focusable, insert : BOOLEAN, blurred : {"no", "new", "old"}]

BlurKept(a) == a.blurred # "no" => a.editing = NoField

\* What following one event changes.
Follows(a, e, b) ==
  /\ b \in AppSet /\ b.active = a.active /\ b.editing = Told(a.active, a.editing, e)
  /\ a.insert => b.insert
  /\ BlurKept(a) => BlurKept(b)

LEMMA FollowedIs ==
  ASSUME NEW a \in AppSet, NEW e \in Event
  PROVE  Follows(a, e, Edit!Followed(a, e))
<1> USE DEF Follows, BlurKept
<1>1. /\ e.tab \in Tabs /\ e.old \in BOOLEAN /\ e.kind \in {"focus", "blur"} /\ e.field \in Fields
      /\ e.field # NoField /\ e.field \in Edit!Focusable /\ NoField \in Edit!Focusable
  BY EventIs, FieldsAssumption DEF Edit!Focusable
<1>2. CASE e.tab # a.active
  BY <1>2 DEF Edit!Followed, Told
<1>3. CASE e.tab = a.active /\ e.kind = "focus" /\ a.editing # e.field
  <2>1. Edit!Followed(a, e) = [a EXCEPT !.editing = e.field, !.blurred = "no", !.insert = TRUE]
    BY <1>3 DEF Edit!Followed
  <2>2. QED
    BY <1>1, <1>3, <2>1 DEF Told, AppSet
<1>4. CASE e.tab = a.active /\ e.kind = "blur" /\ a.editing = e.field
  <2>1. Edit!Followed(a, e) = [a EXCEPT !.editing = NoField, !.blurred = "new"]
    BY <1>4 DEF Edit!Followed
  <2>2. QED
    BY <1>1, <1>4, <2>1 DEF Told, AppSet
<1>5. CASE e.tab = a.active /\ ((e.kind = "focus" /\ a.editing = e.field) \/ (e.kind = "blur" /\ a.editing # e.field))
  <2>1. Edit!Followed(a, e) = a
    BY <1>1, <1>5 DEF Edit!Followed
  <2>2. QED
    BY <1>1, <1>5, <2>1 DEF Told
<1>6. QED
  BY <1>1, <1>2, <1>3, <1>4, <1>5

\* What following the whole queue changes.
LEMMA FollowedAllIs ==
  ASSUME NEW a \in AppSet, NEW q \in Seq(Event)
  PROVE  /\ Edit!FollowedAll(a, q) \in AppSet /\ Edit!FollowedAll(a, q).active = a.active
         /\ a.insert => Edit!FollowedAll(a, q).insert
         /\ BlurKept(a) => BlurKept(Edit!FollowedAll(a, q))
         /\ \A Y : Ends(q, a.active, 0, a.editing, Y) => Edit!FollowedAll(a, q).editing \in Y
         /\ q = <<>> => Edit!FollowedAll(a, q) = a
<1> DEFINE n == Len(q)
           Body(g) == [k \in 0 .. n |-> IF k = 0 THEN a ELSE Edit!Followed(g[k - 1], q[k])]
           F == CHOOSE g : g = Body(g)
           step == [z \in (1 .. n) \X AppSet |-> Edit!Followed(z[2], q[z[1]])]
<1>1. n \in Nat /\ \A k \in 1 .. n : q[k] \in Event
  OBVIOUS
<1>2. Edit!FollowedAll(a, q) = F[n]
  BY DEF Edit!FollowedAll
<1> HIDE DEF n
<1>3. step \in [(1 .. n) \X AppSet -> AppSet]
  <2>1. ASSUME NEW z \in (1 .. n) \X AppSet PROVE Edit!Followed(z[2], q[z[1]]) \in AppSet
    <3>1. z[1] \in 1 .. n /\ z[2] \in AppSet
      OBVIOUS
    <3>2. q[z[1]] \in Event
      BY <1>1, <3>1
    <3>3. QED
      BY <3>1, <3>2, FollowedIs DEF Follows
  <2>2. QED
    BY <2>1
<1>4. ASSUME NEW k \in 1 .. n, NEW b \in AppSet PROVE step[<<k, b>>] = Edit!Followed(b, q[k])
  <2>1. <<k, b>> \in (1 .. n) \X AppSet /\ <<k, b>>[1] = k /\ <<k, b>>[2] = b
    OBVIOUS
  <2>2. QED
    BY <2>1
<1> HIDE DEF step
<1>5. PICK f : Strips!Runs(f, n, AppSet, a, step)
  BY <1>1, <1>3, Assumed, Strips!Recursion
<1>6. /\ f = [k \in 0 .. n |-> f[k]] /\ f[0] = a
      /\ \A k \in 1 .. n : f[k] = step[<<k, f[k - 1]>>]
      /\ \A k \in 0 .. n : f[k] \in AppSet
  BY <1>5 DEF Strips!Runs
<1>7. ASSUME NEW k \in 1 .. n PROVE f[k] = Edit!Followed(f[k - 1], q[k])
  <2>1. k - 1 \in 0 .. n
    BY <1>1
  <2>2. f[k - 1] \in AppSet
    BY <1>6, <2>1
  <2>3. QED
    BY <1>4, <1>6, <2>2
<1>8. f = Body(f)
  <2>1. ASSUME NEW k \in 0 .. n PROVE f[k] = Body(f)[k]
    <3>1. CASE k = 0
      BY <1>6, <3>1
    <3>2. CASE k # 0
      <4>1. k \in 1 .. n
        BY <1>1, <3>2
      <4>2. QED
        BY <1>7, <3>2, <4>1
    <3>3. QED
      BY <3>1, <3>2
  <2>2. QED
    BY <1>6, <2>1
<1>9. F = Body(F)
  <2> HIDE DEF Body
  <2>1. QED
    BY <1>8
<1> HIDE DEF F
<1>10. F[0] = a
  <2>1. 0 \in 0 .. n
    BY <1>1
  <2>2. QED
    BY <1>9, <2>1
<1>11. ASSUME NEW k \in 1 .. n PROVE F[k] = Edit!Followed(F[k - 1], q[k])
  <2>1. k \in 0 .. n /\ k # 0
    BY <1>1
  <2>2. QED
    BY <1>9, <2>1
<1> HIDE DEF Body
<1> DEFINE T == {k \in 0 .. n : /\ F[k] \in AppSet /\ F[k].active = a.active /\ (a.insert => F[k].insert)
                               /\ (BlurKept(a) => BlurKept(F[k]))}
<1>12. \A k \in 0 .. n : k \in T
  <2>1. 0 \in T
    BY <1>1, <1>10
  <2>2. ASSUME NEW k \in 1 .. n, k - 1 \in T PROVE k \in T
    <3>1. F[k - 1] \in AppSet /\ F[k - 1].active = a.active /\ q[k] \in Event /\ k \in 0 .. n
      BY <1>1, <2>2
    <3>2. F[k] = Edit!Followed(F[k - 1], q[k])
      BY <1>11
    <3>3. Follows(F[k - 1], q[k], F[k])
      BY <3>1, <3>2, FollowedIs
    <3>4. /\ F[k] \in AppSet /\ F[k].active = a.active
          /\ F[k - 1].insert => F[k].insert
          /\ BlurKept(F[k - 1]) => BlurKept(F[k])
      BY <3>1, <3>3 DEF Follows
    <3>5. QED
      BY <2>2, <3>1, <3>4
  <2> HIDE DEF T
  <2>3. QED
    BY <1>1, <2>1, <2>2, Assumed, Strips!UpTo
<1>13. ASSUME NEW Y, Ends(q, a.active, 0, a.editing, Y) PROVE F[n].editing \in Y
  <2> DEFINE g == [k \in 0 .. n |-> F[k].editing]
  <2>1. g \in [0 .. n -> Edit!Focusable]
    <3>1. \A k \in 0 .. n : F[k].editing \in Edit!Focusable
      BY <1>12 DEF AppSet
    <3>2. QED
      BY <3>1
  <2>2. ASSUME NEW k \in 1 .. n PROVE g[k] = Told(a.active, g[k - 1], q[k])
    <3>1. k \in 0 .. n /\ k - 1 \in 0 .. n /\ q[k] \in Event
      BY <1>1
    <3>2. F[k - 1] \in AppSet /\ F[k - 1].active = a.active /\ F[k] = Edit!Followed(F[k - 1], q[k])
      BY <1>11, <1>12, <3>1
    <3>3. Follows(F[k - 1], q[k], F[k])
      BY <3>1, <3>2, FollowedIs
    <3>4. g[k] = F[k].editing /\ g[k - 1] = F[k - 1].editing
      BY <3>1
    <3>5. F[k].editing = Told(a.active, F[k - 1].editing, q[k])
      BY <3>2, <3>3 DEF Follows
    <3>6. QED
      BY <3>4, <3>5
  <2>3. g[0] = a.editing /\ g[n] = F[n].editing
    BY <1>1, <1>10
  <2> HIDE DEF g
  <2>4. Walks(g, q, a.active, 0)
    BY <2>1, <2>2 DEF Walks, n
  <2>5. QED
    BY <1>13, <2>1, <2>3, <2>4 DEF Ends, n
<1>14. q = <<>> => F[n] = a
  <2>1. ASSUME q = <<>> PROVE n = 0
    BY <2>1 DEF n
  <2>2. QED
    BY <1>10, <2>1
<1>15. F[n] \in AppSet /\ F[n].active = a.active /\ (a.insert => F[n].insert) /\ (BlurKept(a) => BlurKept(F[n]))
  BY <1>1, <1>12
<1>16. QED
  BY <1>2, <1>13, <1>14, <1>15 DEF n

LEMMA PushedIs ==
  ASSUME NEW q \in Seq(Event), NEW new \in Seq(Event)
  PROVE  \E d \in 0 .. Len(q \o new) :
           /\ Edit!Pushed(q, new) = SubSeq(q \o new, d + 1, Len(q \o new))
           /\ Len(q \o new) <= SinkCap => d = 0
<1> DEFINE all == q \o new
           m == Len(all)
           low == Edit!Max({1, m - SinkCap + 1})
<1>1. all \in Seq(Event) /\ m \in Nat /\ SinkCap \in Nat \ {0}
  BY SinkAssumption
<1>2. Edit!Pushed(q, new) = SubSeq(all, low, m)
  BY DEF Edit!Pushed
<1>3. low = IF m - SinkCap + 1 >= 1 THEN m - SinkCap + 1 ELSE 1
  <2> HIDE DEF m
  <2>1. low \in {1, m - SinkCap + 1} /\ \A y \in {1, m - SinkCap + 1} : low >= y
    <3>1. \E x \in {1, m - SinkCap + 1} : \A y \in {1, m - SinkCap + 1} : x >= y
      BY <1>1
    <3>2. QED
      BY <3>1 DEF Edit!Max
  <2> HIDE DEF low
  <2>2. QED
    BY <1>1, <2>1
<1> HIDE DEF low, m
<1>4. low - 1 \in 0 .. m /\ (low - 1) + 1 = low /\ (m <= SinkCap => low - 1 = 0)
  BY <1>1, <1>3
<1>5. QED
  BY <1>2, <1>4 DEF m

Line == [kind : {"focus", "blur"}, field : Fields]

\* What p writes about itself is true of d, what it has become.
Honest(p, d, lines, missed) ==
  /\ d \in Doc /\ lines \in Seq(Line) /\ Len(lines) <= 2 /\ missed \in BOOLEAN
  /\ \A i \in 1 .. Len(lines) : lines[i].kind = "focus" => i = Len(lines) /\ Fits(d) /\ lines[i].field = d.latch
  /\ ~missed /\ Fits(page[p]) =>
       /\ Fits(d)
       /\ Said(p, Edit!Tagged(p, lines), page[p].latch) = d.latch
       /\ "exit" \in Range(sent[p]) => Said(p, Edit!Tagged(p, lines), NoField) \in {d.latch} \cup Leaving(sent'[p])

\* One page writes, and the others do nothing.
OneWrites(p, d, lines, missed) ==
  /\ Honest(p, d, lines, missed) /\ Edit!Written(p, lines, missed)
  /\ page' = [page EXCEPT ![p] = d] /\ app' = app
  /\ sent' \in [Tabs -> Seq(Message)] /\ \A t \in Tabs : t # p => sent'[t] = sent[t]

\* All that is told is true.
AllTrue(q, pages) ==
  \A i \in 1 .. Len(q) : Telling(q, i) =>
    Fits(pages[q[i].tab]) /\ Ends(q, q[i].tab, i, q[i].field, {pages[q[i].tab].latch})

LEMMA TaggedIs ==
  ASSUME NEW p \in Tabs, NEW lines \in Seq(Line)
  PROVE  /\ Edit!Tagged(p, lines) \in Seq(Event) /\ Len(Edit!Tagged(p, lines)) = Len(lines)
         /\ \A k \in 1 .. Len(lines) :
              Edit!Tagged(p, lines)[k] = [tab |-> p, old |-> FALSE, kind |-> lines[k].kind, field |-> lines[k].field]
<1> DEFINE n == Len(lines)
           r == Edit!Tagged(p, lines)
<1>1. n \in Nat /\ DOMAIN lines = 1 .. n /\ \A k \in 1 .. n : lines[k] \in Line
  OBVIOUS
<1> HIDE DEF n
<1>2. r = [k \in 1 .. n |-> [tab |-> p, old |-> FALSE, kind |-> lines[k].kind, field |-> lines[k].field]]
  BY <1>1 DEF Edit!Tagged
<1>3. ASSUME NEW k \in 1 .. n PROVE r[k] \in Event
  <2>1. lines[k].kind \in {"focus", "blur"} /\ lines[k].field \in Fields
    BY <1>1 DEF Line
  <2>2. QED
    BY <1>2, <2>1 DEF Event
<1>4. r \in [1 .. n -> Event]
  BY <1>2, <1>3
<1>5. r \in Seq(Event)
  BY <1>1, <1>4, SeqDef
<1>6. Len(r) = n
  BY <1>1, <1>2, <1>5, LenProperties
<1>7. QED
  BY <1>2, <1>5, <1>6 DEF n

LEMMA OtherTab ==
  ASSUME NEW p \in Tabs, NEW lines \in Seq(Line), Len(lines) <= 2, NEW t, t # p, NEW y
  PROVE  Said(t, Edit!Tagged(p, lines), y) = y
<1> DEFINE r == Edit!Tagged(p, lines)
<1>1. Len(lines) \in Nat /\ Len(r) = Len(lines) /\ \A k \in 1 .. Len(lines) : r[k].tab = p
  <2>1. Len(r) = Len(lines)
    BY TaggedIs
  <2>2. ASSUME NEW k \in 1 .. Len(lines) PROVE r[k].tab = p
    <3>1. r[k] = [tab |-> p, old |-> FALSE, kind |-> lines[k].kind, field |-> lines[k].field]
      BY TaggedIs
    <3> HIDE DEF r
    <3>2. QED
      BY <3>1
  <2>3. QED
    BY <2>1, <2>2
<1> HIDE DEF r
<1>2. ASSUME NEW k \in 1 .. Len(lines), NEW x PROVE Told(t, x, r[k]) = x
  BY <1>1 DEF Told
<1>3. CASE Len(lines) = 0
  BY <1>1, <1>3 DEF Said, r
<1>4. CASE Len(lines) = 1
  BY <1>1, <1>2, <1>4 DEF Said, r
<1>5. CASE Len(lines) = 2
  <2>1. 1 \in 1 .. Len(lines) /\ 2 \in 1 .. Len(lines)
    BY <1>5
  <2>2. QED
    BY <1>1, <1>2, <1>5, <2>1 DEF Said, r
<1>6. QED
  BY <1>1, <1>3, <1>4, <1>5

LEMMA AgedIs ==
  ASSUME sink \in Seq(Event), NEW p \in Tabs
  PROVE  /\ Edit!Aged(p) \in Seq(Event) /\ Len(Edit!Aged(p)) = Len(sink)
         /\ \A k \in 1 .. Len(sink) :
              /\ Edit!Aged(p)[k].tab = sink[k].tab /\ Edit!Aged(p)[k].kind = sink[k].kind
              /\ Edit!Aged(p)[k].field = sink[k].field
              /\ Telling(Edit!Aged(p), k) => Telling(sink, k) /\ sink[k].tab # p
<1> DEFINE n == Len(sink)
           r == Edit!Aged(p)
           One(k) == IF sink[k].tab = p THEN [sink[k] EXCEPT !.old = TRUE] ELSE sink[k]
<1>1. n \in Nat /\ DOMAIN sink = 1 .. n /\ \A k \in 1 .. n : sink[k] \in Event
  OBVIOUS
<1> HIDE DEF n
<1>2. r = [k \in 1 .. n |-> One(k)]
  BY <1>1 DEF Edit!Aged
<1>3. ASSUME NEW k \in 1 .. n
      PROVE  /\ r[k] \in Event /\ r[k].tab = sink[k].tab /\ r[k].kind = sink[k].kind /\ r[k].field = sink[k].field
             /\ r[k].old = IF sink[k].tab = p THEN TRUE ELSE sink[k].old
  <2>1. sink[k] \in Event /\ r[k] = One(k)
    BY <1>1, <1>2
  <2>2. QED
    BY <2>1 DEF Event
<1>4. r \in [1 .. n -> Event]
  BY <1>2, <1>3
<1>5. r \in Seq(Event)
  BY <1>1, <1>4, SeqDef
<1>6. Len(r) = n
  BY <1>1, <1>2, <1>5, LenProperties
<1>7. ASSUME NEW k \in 1 .. n, Telling(r, k) PROVE Telling(sink, k) /\ sink[k].tab # p
  BY <1>3, <1>7 DEF Telling
<1>8. QED
  BY <1>3, <1>5, <1>6, <1>7 DEF n

LEMMA WrittenKeeps ==
  ASSUME FocusTypes, TellingInv, TrackedInv,
         NEW p \in Tabs, NEW d, NEW lines, NEW missed, OneWrites(p, d, lines, missed)
  PROVE  sink' \in Seq(Event) /\ tracked' \in BOOLEAN /\ TellingInv' /\ TrackedInv'
<1> DEFINE refused == "inject" \in Edit!Range(sent'[p])
           lost == missed \/ (refused /\ lines # <<>>)
           q == IF lost THEN Edit!Aged(p) ELSE sink
           new == Edit!Tagged(p, IF refused THEN <<>> ELSE lines)
           all == q \o new
           n == Len(sink)
           m == Len(all)
<1>1. /\ page \in [Tabs -> Doc] /\ sink \in Seq(Event) /\ app \in AppSet /\ n \in Nat
      /\ app.active \in Tabs /\ app.editing \in Edit!Focusable
      /\ \A i \in 1 .. n : sink[i] \in Event
  BY DEF FocusTypes, AppSet
<1>2. /\ d \in Doc /\ lines \in Seq(Line) /\ Len(lines) \in 0 .. 2 /\ missed \in BOOLEAN
      /\ page' = [page EXCEPT ![p] = d] /\ app' = app /\ \A t \in Tabs : t # p => sent'[t] = sent[t]
  <2>1. d \in Doc /\ lines \in Seq(Line) /\ Len(lines) <= 2 /\ missed \in BOOLEAN
    BY DEF OneWrites, Honest
  <2>2. Len(lines) \in 0 .. 2
    <3> DEFINE k == Len(lines)
    <3>1. k \in Nat /\ k <= 2
      BY <2>1
    <3> HIDE DEF k
    <3>2. k \in 0 .. 2
      BY <3>1
    <3>3. QED
      BY <3>2 DEF k
  <2>3. QED
    BY <2>1, <2>2 DEF OneWrites
<1>3. /\ sink' = Edit!Pushed(q, new)
      /\ tracked' = (tracked /\ n + Len(lines) <= SinkCap /\ ~(lost /\ p = app.active))
  BY DEF OneWrites, Edit!Written
<1>4. /\ \A i \in 1 .. Len(lines) : lines[i].kind = "focus" => i = Len(lines) /\ Fits(d) /\ lines[i].field = d.latch
      /\ ~missed /\ Fits(page[p]) =>
           /\ Fits(d) /\ Said(p, Edit!Tagged(p, lines), page[p].latch) = d.latch
           /\ "exit" \in Range(sent[p])
                => Said(p, Edit!Tagged(p, lines), NoField) \in {d.latch} \cup Leaving(sent'[p])
  BY DEF OneWrites, Honest
<1>5. /\ q \in Seq(Event) /\ Len(q) = n
      /\ \A k \in 1 .. n :
           /\ q[k].tab = sink[k].tab /\ q[k].kind = sink[k].kind /\ q[k].field = sink[k].field
           /\ Telling(q, k) => Telling(sink, k) /\ (sink[k].tab # p \/ ~lost)
  <2>1. CASE lost
    <3>1. q = Edit!Aged(p)
      BY <2>1
    <3> HIDE DEF q, lost
    <3>2. QED
      BY <1>1, <2>1, <3>1, AgedIs
  <2>2. CASE ~lost
    <3>1. q = sink
      BY <2>2
    <3> HIDE DEF q, lost
    <3>2. QED
      BY <1>1, <2>2, <3>1
  <2>3. QED
    BY <2>1, <2>2
<1>6. /\ new \in Seq(Event) /\ Len(new) \in 0 .. 2 /\ Len(new) <= Len(lines)
      /\ \A k \in 1 .. Len(new) : /\ k \in 1 .. Len(lines) /\ Len(new) = Len(lines)
                                  /\ new[k].tab = p /\ new[k].kind = lines[k].kind
                                  /\ new[k].field = lines[k].field
  <2>1. CASE refused
    <3>1. new = Edit!Tagged(p, <<>>)
      BY <2>1
    <3>2. new = <<>>
      BY <3>1 DEF Edit!Tagged
    <3> HIDE DEF new
    <3>3. QED
      BY <1>2, <3>2
  <2>2. CASE ~refused
    <3>1. new = Edit!Tagged(p, lines)
      BY <2>2
    <3> HIDE DEF new
    <3>2. new \in Seq(Event) /\ Len(new) = Len(lines)
      BY <1>2, <3>1, TaggedIs
    <3>3. ASSUME NEW k \in 1 .. Len(lines)
          PROVE  new[k] = [tab |-> p, old |-> FALSE, kind |-> lines[k].kind, field |-> lines[k].field]
      BY <1>2, <3>1, TaggedIs
    <3>4. ASSUME NEW k \in 1 .. Len(new)
          PROVE  k \in 1 .. Len(lines) /\ new[k].tab = p /\ new[k].kind = lines[k].kind /\ new[k].field = lines[k].field
      <4>1. k \in 1 .. Len(lines)
        BY <3>2
      <4>2. new[k] = [tab |-> p, old |-> FALSE, kind |-> lines[k].kind, field |-> lines[k].field]
        BY <3>3, <4>1
      <4>3. QED
        BY <4>1, <4>2
    <3>5. Len(new) \in 0 .. 2 /\ Len(new) <= Len(lines)
      BY <1>2, <3>2
    <3>6. QED
      BY <3>2, <3>4, <3>5
  <2>3. QED
    BY <2>1, <2>2
<1>7. /\ \A t \in Tabs : \A y : t # p => Said(t, new, y) = y
      /\ ~lost => new = Edit!Tagged(p, lines)
  <2>1. ~lost => new = Edit!Tagged(p, lines)
    OBVIOUS
  <2>2. ASSUME NEW t \in Tabs, NEW y, t # p PROVE Said(t, new, y) = y
    <3> DEFINE ls == IF refused THEN <<>> ELSE lines
    <3>1. ls \in Seq(Line) /\ Len(ls) <= 2
      <4>1. CASE refused
        BY <4>1
      <4>2. CASE ~refused
        <5>1. ls = lines
          BY <4>2
        <5> HIDE DEF ls
        <5>2. ls \in Seq(Line)
          BY <1>2, <5>1
        <5>3. Len(ls) <= 2
          <6> DEFINE k == Len(ls)
          <6>1. k \in 0 .. 2
            BY <1>2, <5>1
          <6> HIDE DEF k
          <6>2. k <= 2
            BY <6>1
          <6>3. QED
            BY <6>2 DEF k
        <5>4. QED
          BY <5>2, <5>3
      <4>3. QED
        BY <4>1, <4>2
    <3>2. new = Edit!Tagged(p, ls)
      OBVIOUS
    <3> HIDE DEF ls, new
    <3>3. QED
      BY <2>2, <3>1, <3>2, OtherTab
  <2>3. QED
    BY <2>1, <2>2
<1> HIDE DEF new, q, lost, refused
<1>8. /\ all \in Seq(Event) /\ m \in Nat /\ m = n + Len(new)
      /\ \A k \in 1 .. n : all[k] = q[k]
      /\ \A k \in 1 .. Len(new) : all[n + k] = new[k]
  <2>1. all \in Seq(Event) /\ Len(all) = Len(q) + Len(new)
    BY <1>5, <1>6, ConcatProperties
  <2>2. m \in Nat /\ m = n + Len(new)
    BY <1>5, <2>1
  <2>3. \A k \in 1 .. n : all[k] = q[k]
    BY <1>1, <1>5, <1>6, ConcatProperties
  <2>4. \A k \in 1 .. Len(new) : all[n + k] = new[k]
    BY <1>1, <1>5, <1>6
  <2>5. QED
    BY <2>1, <2>2, <2>3, <2>4
<1>9. AllTrue(all, page')
  <2>1. SUFFICES ASSUME NEW i \in 1 .. m, Telling(all, i)
                 PROVE  /\ Fits(page'[all[i].tab])
                        /\ Ends(all, all[i].tab, i, all[i].field, {page'[all[i].tab].latch})
    BY DEF AllTrue
  <2>2. CASE i \in 1 .. n
    <3> DEFINE t == sink[i].tab
               x == sink[i].field
    <3>1. all[i] = q[i] /\ t \in Tabs /\ x \in Fields /\ q[i].tab = t /\ q[i].field = x
      BY <1>1, <1>5, <1>8, <2>2, EventIs
    <3>2. Telling(q, i)
      BY <2>1, <3>1 DEF Telling
    <3>3. Telling(sink, i) /\ (t # p \/ ~lost)
      BY <1>5, <2>2, <3>2
    <3>4. Fits(page[t]) /\ Ends(sink, t, i, x, {page[t].latch})
      BY <2>2, <3>3 DEF TellingInv
    <3> HIDE DEF t, x
    <3>5. Ends(q, t, i, x, {page[t].latch})
      <4>1. i \in Nat /\ Len(q) = Len(sink) /\ Len(sink) \in Nat
        BY <1>1, <1>5, <2>2
      <4>2. \A k \in 1 .. Len(sink) : q[k].tab = sink[k].tab /\ q[k].kind = sink[k].kind /\ q[k].field = sink[k].field
        BY <1>5
      <4>3. QED
        BY <3>4, <4>1, <4>2, AnyAge
    <3>6. Fits(page'[t]) /\ Brings(t, new, {page[t].latch}, {page'[t].latch})
      <4>1. CASE t # p
        <5>1. page'[t] = page[t]
          BY <1>1, <1>2, <3>1, <4>1
        <5>2. Said(t, new, page[t].latch) = page[t].latch
          BY <1>7, <3>1, <4>1
        <5>3. QED
          BY <3>4, <5>1, <5>2 DEF Brings
      <4>2. CASE t = p
        <5>1. page'[p] = d
          BY <1>1, <1>2
        <5>2. ~missed /\ new = Edit!Tagged(p, lines)
          BY <1>7, <3>3, <4>2 DEF lost
        <5>3. Fits(d) /\ Said(p, new, page[p].latch) = d.latch
          BY <1>4, <3>4, <4>2, <5>2
        <5>4. QED
          BY <4>2, <5>1, <5>3 DEF Brings
      <4>3. QED
        BY <4>1, <4>2
    <3>7. i \in 0 .. Len(q) /\ Len(new) <= 2
      BY <1>5, <1>6, <2>2
    <3>8. Ends(all, t, i, x, {page'[t].latch})
      BY <1>5, <1>6, <3>5, <3>6, <3>7, Appended
    <3>9. QED
      BY <3>1, <3>6, <3>8
  <2>3. CASE i \notin 1 .. n
    <3> DEFINE k == i - n
    <3>1. k \in 1 .. Len(new) /\ n + k = i
      BY <1>1, <1>6, <1>8, <2>1, <2>3
    <3> HIDE DEF k
    <3>2. /\ all[i] = new[k] /\ k \in 1 .. Len(lines) /\ Len(new) = Len(lines)
          /\ new[k].tab = p /\ new[k].kind = lines[k].kind /\ new[k].field = lines[k].field
      BY <1>6, <1>8, <3>1
    <3>3. lines[k].kind = "focus"
      BY <2>1, <3>2 DEF Telling
    <3>4. k = Len(lines) /\ Fits(d) /\ all[i].field = d.latch /\ all[i].tab = p
      BY <1>4, <3>2, <3>3
    <3>5. i = Len(all) /\ page'[p] = d
      BY <1>1, <1>2, <1>8, <3>1, <3>2, <3>4
    <3> HIDE DEF all
    <3>6. Ends(all, p, i, d.latch, {d.latch})
      BY <3>5, AtTheEnd
    <3>7. QED
      BY <3>4, <3>5, <3>6
  <2>4. QED
    BY <2>2, <2>3
<1>10. PICK drop \in 0 .. m : sink' = SubSeq(all, drop + 1, m) /\ (m <= SinkCap => drop = 0)
  BY <1>3, <1>5, <1>6, PushedIs
<1> HIDE DEF all
<1>11. /\ sink' \in Seq(Event) /\ Len(sink') = m - drop
       /\ \A k \in 1 .. m - drop : sink'[k] = all[k + drop] /\ k + drop \in 1 .. m
  BY <1>8, <1>10
<1>12. TellingInv'
  <2>1. SUFFICES ASSUME NEW i \in 1 .. m - drop, Telling(sink', i)
                 PROVE  /\ Fits(page'[sink'[i].tab])
                        /\ Ends(sink', sink'[i].tab, i, sink'[i].field, {page'[sink'[i].tab].latch})
    BY <1>11 DEF TellingInv
  <2>2. i + drop \in 1 .. Len(all) /\ sink'[i] = all[i + drop] /\ drop \in 0 .. Len(all) /\ i \in 1 .. Len(all) - drop
    BY <1>8, <1>10, <1>11
  <2>3. Telling(all, i + drop)
    BY <2>1, <2>2 DEF Telling
  <2>4. /\ Fits(page'[sink'[i].tab])
        /\ Ends(all, sink'[i].tab, i + drop, sink'[i].field, {page'[sink'[i].tab].latch})
    BY <1>9, <2>2, <2>3 DEF AllTrue
  <2>5. Ends(SubSeq(all, drop + 1, Len(all)), sink'[i].tab, i, sink'[i].field, {page'[sink'[i].tab].latch})
    BY <1>8, <2>2, <2>4, Dropped
  <2>6. QED
    BY <1>10, <2>4, <2>5
<1>13. TrackedInv'
  <2>1. SUFFICES ASSUME tracked'
                 PROVE  /\ Fits(page'[app.active])
                        /\ Ends(sink', app.active, 0, app.editing,
                                {page'[app.active].latch} \cup Leaving(sent'[app.active]))
    BY <1>2 DEF TrackedInv
  <2> DEFINE t == app.active
             x == app.editing
             Y == {page[t].latch} \cup Leaving(sent[t])
             Z == {page'[t].latch} \cup Leaving(sent'[t])
  <2>2. tracked /\ n + Len(lines) <= SinkCap /\ ~(lost /\ p = t)
    BY <1>3, <2>1
  <2>3. Fits(page[t]) /\ Ends(sink, t, 0, x, Y)
    BY <2>2 DEF TrackedInv
  <2>4. sink' = all
    <3>1. m <= SinkCap
      BY <1>1, <1>2, <1>6, <1>8, <2>2, SinkAssumption
    <3>2. sink' = SubSeq(all, 1, m)
      BY <1>10, <3>1
    <3>3. QED
      BY <1>8, <3>2
  <2>5. Fits(page'[t]) /\ Brings(t, new, Y, Z)
    <3>1. CASE t # p
      <4>1. page'[t] = page[t] /\ sent'[t] = sent[t]
        BY <1>1, <1>2, <3>1
      <4>2. \A y \in Y : Said(t, new, y) = y
        BY <1>1, <1>7, <3>1
      <4>3. QED
        BY <2>3, <4>1, <4>2 DEF Brings
    <3>2. CASE t = p
      <4>1. page'[p] = d
        BY <1>1, <1>2
      <4>2. ~missed /\ new = Edit!Tagged(p, lines)
        BY <1>7, <2>2, <3>2 DEF lost
      <4>3. /\ Fits(d) /\ Said(p, new, page[p].latch) = d.latch
            /\ "exit" \in Range(sent[p]) => Said(p, new, NoField) \in {d.latch} \cup Leaving(sent'[p])
        BY <1>4, <2>3, <3>2, <4>2
      <4>4. QED
        BY <3>2, <4>1, <4>3 DEF Brings, Leaving
    <3>3. QED
      BY <3>1, <3>2
  <2>6. Ends(q, t, 0, x, Y)
    <3> HIDE DEF t, x, Y
    <3>1. 0 \in Nat /\ Len(q) = Len(sink) /\ Len(sink) \in Nat
      BY <1>1, <1>5
    <3>2. \A k \in 1 .. Len(sink) : q[k].tab = sink[k].tab /\ q[k].kind = sink[k].kind /\ q[k].field = sink[k].field
      BY <1>5
    <3>3. QED
      BY <2>3, <3>1, <3>2, AnyAge
  <2>7. Ends(all, t, 0, x, Z)
    <3> HIDE DEF t, x, Y, Z
    <3>1. 0 \in 0 .. Len(q) /\ Len(new) <= 2
      BY <1>1, <1>5, <1>6
    <3>2. QED
      BY <1>5, <1>6, <2>5, <2>6, <3>1, Appended DEF all
  <2>8. QED
    BY <2>4, <2>5, <2>7
<1>14. tracked' \in BOOLEAN
  BY <1>3 DEF FocusTypes
<1>15. QED
  BY <1>11, <1>12, <1>13, <1>14

Says(kind, g) == [kind |-> kind, field |-> g]

\* What a line makes of the field.
Follow(x, l) == IF l.kind = "focus" THEN l.field ELSE IF l.field = x THEN NoField ELSE x

LEMMA SaidNone ==
  ASSUME NEW p \in Tabs, NEW x
  PROVE  Said(p, Edit!Tagged(p, <<>>), x) = x
<1>1. Edit!Tagged(p, <<>>) = <<>>
  BY DEF Edit!Tagged
<1>2. QED
  BY <1>1 DEF Said

LEMMA ToldTagged ==
  ASSUME NEW p \in Tabs, NEW x, NEW l \in Line
  PROVE  Told(p, x, [tab |-> p, old |-> FALSE, kind |-> l.kind, field |-> l.field]) = Follow(x, l)
BY DEF Told, Follow

LEMMA SaidOne ==
  ASSUME NEW p \in Tabs, NEW x, NEW l \in Line, NEW lines, lines = <<l>>
  PROVE  lines \in Seq(Line) /\ Len(lines) = 1 /\ Said(p, Edit!Tagged(p, lines), x) = Follow(x, l)
<1> DEFINE r == Edit!Tagged(p, lines)
<1>1. lines \in Seq(Line) /\ Len(lines) = 1 /\ lines[1] = l /\ 1 \in 1 .. Len(lines)
  OBVIOUS
<1>2. Len(r) = 1
  BY <1>1, TaggedIs
<1>3. r[1] = [tab |-> p, old |-> FALSE, kind |-> lines[1].kind, field |-> lines[1].field]
  BY <1>1, TaggedIs
<1> HIDE DEF r
<1>4. Said(p, r, x) = Told(p, x, r[1])
  BY <1>2 DEF Said
<1>5. QED
  BY <1>1, <1>3, <1>4, ToldTagged DEF r

LEMMA SaidTwo ==
  ASSUME NEW p \in Tabs, NEW x, NEW l \in Line, NEW k \in Line, NEW lines, lines = <<l, k>>
  PROVE  /\ lines \in Seq(Line) /\ Len(lines) = 2
         /\ Said(p, Edit!Tagged(p, lines), x) = Follow(Follow(x, l), k)
<1> DEFINE r == Edit!Tagged(p, lines)
<1>1. /\ lines \in Seq(Line) /\ Len(lines) = 2 /\ lines[1] = l /\ lines[2] = k
      /\ 1 \in 1 .. Len(lines) /\ 2 \in 1 .. Len(lines)
  OBVIOUS
<1>2. Len(r) = 2
  BY <1>1, TaggedIs
<1>3. r[1] = [tab |-> p, old |-> FALSE, kind |-> lines[1].kind, field |-> lines[1].field]
  BY <1>1, TaggedIs
<1>4. r[2] = [tab |-> p, old |-> FALSE, kind |-> lines[2].kind, field |-> lines[2].field]
  BY <1>1, TaggedIs
<1> HIDE DEF r
<1>5. Said(p, r, x) = Told(p, Told(p, x, r[1]), r[2])
  BY <1>2 DEF Said
<1>6. Told(p, x, r[1]) = Follow(x, l)
  BY <1>1, <1>3, ToldTagged
<1>7. Told(p, Follow(x, l), r[2]) = Follow(Follow(x, l), k)
  BY <1>1, <1>4, ToldTagged
<1>8. QED
  BY <1>1, <1>5, <1>6, <1>7 DEF r

LEMMA PairIs ==
  ASSUME NEW a, NEW b
  PROVE  <<a>> \o <<b>> = <<a, b>>
<1> DEFINE S == {a, b}
           r == <<a>> \o <<b>>
           t == <<a, b>>
<1>1. <<a>> \in Seq(S) /\ <<b>> \in Seq(S) /\ t \in Seq(S)
  OBVIOUS
<1>2. r \in Seq(S) /\ Len(r) = 2 /\ r[1] = a /\ r[2] = b
  BY <1>1
<1>3. Len(t) = 2 /\ t[1] = a /\ t[2] = b
  OBVIOUS
<1> HIDE DEF r, S, t
<1>4. Len(r) = Len(t) /\ \A i \in 1 .. Len(r) : r[i] = t[i]
  BY <1>2, <1>3
<1>5. r = t
  BY <1>1, <1>2, <1>4, SeqEqual
<1>6. QED
  BY <1>5 DEF r, t

\* Lines: a blur or none, a focus or none.
Lines(b, g, blurs, focuses) ==
  (IF blurs THEN <<Says("blur", b)>> ELSE <<>>) \o (IF focuses THEN <<Says("focus", g)>> ELSE <<>>)

Yield(p, b, g, blurs, focuses, lines) ==
  /\ lines \in Seq(Line) /\ Len(lines) <= 2
  /\ \A i \in 1 .. Len(lines) : lines[i].kind = "focus" => i = Len(lines) /\ focuses /\ lines[i].field = g
  /\ \A x : Said(p, Edit!Tagged(p, lines), x) =
              IF focuses THEN g ELSE IF blurs /\ b = x THEN NoField ELSE x

LEMMA LinesAre ==
  ASSUME NEW p \in Tabs, NEW b, NEW g, NEW blurs \in BOOLEAN, NEW focuses \in BOOLEAN,
         blurs => b \in Fields, focuses => g \in Fields, NEW lines, lines = Lines(b, g, blurs, focuses)
  PROVE  Yield(p, b, g, blurs, focuses, lines)
<1> USE DEF Yield
<1> DEFINE l == Says("blur", b)
           k == Says("focus", g)
<1>1. /\ blurs => l \in Line
      /\ focuses => k \in Line
      /\ l.kind = "blur" /\ l.field = b /\ k.kind = "focus" /\ k.field = g
  BY DEF Says, Line
<1>2. CASE ~blurs /\ ~focuses
  <2>1. lines = <<>>
    BY <1>2 DEF Lines
  <2>2. QED
    BY <1>2, <2>1, SaidNone
<1>3. CASE blurs /\ ~focuses
  <2>1. lines = <<l>> /\ l \in Line
    BY <1>1, <1>3 DEF Lines
  <2>2. lines[1].kind = "blur"
    BY <1>1, <2>1
  <2> HIDE DEF l, k
  <2>3. lines \in Seq(Line) /\ Len(lines) = 1
    BY <2>1
  <2>4. \A x : Said(p, Edit!Tagged(p, lines), x) = Follow(x, l)
    BY <2>1, SaidOne
  <2>5. \A x : Follow(x, l) = IF b = x THEN NoField ELSE x
    BY <1>1 DEF Follow
  <2>6. \A i \in 1 .. Len(lines) : lines[i].kind # "focus"
    BY <2>2, <2>3
  <2>7. Len(lines) <= 2
    BY <2>3
  <2>8. \A x : Said(p, Edit!Tagged(p, lines), x) = IF focuses THEN g ELSE IF blurs /\ b = x THEN NoField ELSE x
    BY <1>3, <2>4, <2>5
  <2>9. QED
    BY <1>3, <2>3, <2>6, <2>7, <2>8
<1>4. CASE ~blurs /\ focuses
  <2>1. lines = <<k>> /\ k \in Line
    BY <1>1, <1>4 DEF Lines
  <2>2. lines[1].field = g
    BY <1>1, <2>1
  <2> HIDE DEF l, k
  <2>3. lines \in Seq(Line) /\ Len(lines) = 1
    BY <2>1
  <2>4. \A x : Said(p, Edit!Tagged(p, lines), x) = Follow(x, k)
    BY <2>1, SaidOne
  <2>5. \A x : Follow(x, k) = g
    BY <1>1 DEF Follow
  <2>6. \A i \in 1 .. Len(lines) : i = Len(lines) /\ lines[i].field = g
    BY <2>2, <2>3
  <2>7. Len(lines) <= 2
    BY <2>3
  <2>8. \A x : Said(p, Edit!Tagged(p, lines), x) = IF focuses THEN g ELSE IF blurs /\ b = x THEN NoField ELSE x
    BY <1>4, <2>4, <2>5
  <2>9. QED
    BY <1>4, <2>3, <2>6, <2>7, <2>8
<1>5. CASE blurs /\ focuses
  <2>1. lines = <<l, k>> /\ l \in Line /\ k \in Line
    <3>1. lines = <<l>> \o <<k>>
      BY <1>5 DEF Lines
    <3>2. l \in Line /\ k \in Line
      BY <1>1, <1>5
    <3> HIDE DEF l, k
    <3>3. <<l>> \o <<k>> = <<l, k>>
      BY PairIs
    <3>4. QED
      BY <3>1, <3>2, <3>3
  <2>2. lines[1].kind = "blur" /\ lines[2].field = g
    BY <1>1, <2>1
  <2> HIDE DEF l, k
  <2>3. lines \in Seq(Line) /\ Len(lines) = 2
    BY <2>1
  <2>4. \A x : Said(p, Edit!Tagged(p, lines), x) = Follow(Follow(x, l), k)
    BY <2>1, SaidTwo
  <2>5. \A x : Follow(x, k) = g
    BY <1>1 DEF Follow
  <2>6. ASSUME NEW i \in 1 .. Len(lines), lines[i].kind = "focus" PROVE i = Len(lines) /\ lines[i].field = g
    <3>1. i = 1 \/ i = 2
      BY <2>3
    <3>2. QED
      BY <2>2, <2>3, <2>6, <3>1
  <2>7. Len(lines) <= 2
    BY <2>3
  <2>8. \A x : Said(p, Edit!Tagged(p, lines), x) = IF focuses THEN g ELSE IF blurs /\ b = x THEN NoField ELSE x
    BY <1>5, <2>4, <2>5
  <2>9. QED
    BY <1>5, <2>3, <2>6, <2>7, <2>8
<1>6. QED
  BY <1>2, <1>3, <1>4, <1>5

\* EXIT_INSERT is on its way still, or has done what it is for.
ExitKept(p, d) ==
  "exit" \in Range(sent[p]) => "exit" \in Range(sent'[p]) \/ d.latch = NoField

\* What the lines say, that is.
Right(p, d, b, g, blurs, focuses, missed) ==
  /\ focuses => Fits(d) /\ g = d.latch
  /\ ~missed /\ Fits(page[p]) =>
       /\ Fits(d) /\ ExitKept(p, d)
       /\ d.latch = IF focuses THEN g ELSE IF blurs /\ b = page[p].latch THEN NoField ELSE page[p].latch

LEMMA HonestIs ==
  ASSUME NEW p \in Tabs, NEW d \in Doc, NEW b, NEW g, NEW blurs \in BOOLEAN, NEW focuses \in BOOLEAN,
         blurs => b \in Fields, focuses => g \in Fields, NEW missed \in BOOLEAN,
         NEW lines, lines = Lines(b, g, blurs, focuses),
         Right(p, d, b, g, blurs, focuses, missed)
  PROVE  Honest(p, d, lines, missed)
<1>1. /\ lines \in Seq(Line) /\ Len(lines) <= 2
      /\ \A i \in 1 .. Len(lines) : lines[i].kind = "focus" => i = Len(lines) /\ focuses /\ lines[i].field = g
      /\ \A x : Said(p, Edit!Tagged(p, lines), x) =
                  IF focuses THEN g ELSE IF blurs /\ b = x THEN NoField ELSE x
  <2>1. Yield(p, b, g, blurs, focuses, lines)
    BY LinesAre
  <2>2. QED
    BY <2>1 DEF Yield
<1>2. \A i \in 1 .. Len(lines) : lines[i].kind = "focus" => i = Len(lines) /\ Fits(d) /\ lines[i].field = d.latch
  BY <1>1 DEF Right
<1>3. ASSUME ~missed, Fits(page[p])
      PROVE  /\ Fits(d)
             /\ Said(p, Edit!Tagged(p, lines), page[p].latch) = d.latch
             /\ "exit" \in Range(sent[p])
                  => Said(p, Edit!Tagged(p, lines), NoField) \in {d.latch} \cup Leaving(sent'[p])
  <2>1. /\ Fits(d) /\ ExitKept(p, d)
        /\ d.latch = IF focuses THEN g ELSE IF blurs /\ b = page[p].latch THEN NoField ELSE page[p].latch
    BY <1>3 DEF Right
  <2>2. Said(p, Edit!Tagged(p, lines), page[p].latch) = d.latch
    BY <1>1, <2>1
  <2>3. Said(p, Edit!Tagged(p, lines), NoField) \in {g, NoField} /\ (focuses => Said(p, Edit!Tagged(p, lines), NoField) = g)
    BY <1>1
  <2>4. Said(p, Edit!Tagged(p, lines), NoField) \in {d.latch, NoField}
    <3>1. CASE focuses
      BY <2>1, <2>3, <3>1
    <3>2. CASE ~focuses
      <4>1. Said(p, Edit!Tagged(p, lines), NoField) = NoField
        BY <1>1, <3>2
      <4>2. QED
        BY <4>1
    <3>3. QED
      BY <3>1, <3>2
  <2>5. QED
    BY <2>1, <2>2, <2>4 DEF ExitKept, Leaving
<1>4. QED
  BY <1>1, <1>2, <1>3 DEF Honest

LEMMA DocIs ==
  ASSUME NEW d \in Doc
  PROVE  /\ d.focus \in Edit!Focusable /\ d.lit \in BOOLEAN /\ d.latch \in Edit!Focusable
         /\ Edit!Reported(d) \in Doc /\ Edit!Unreported(d) \in Doc
         /\ Edit!Reported(d).focus = d.focus /\ Edit!Reported(d).lit = d.lit
         /\ Edit!Reported(d).latch = IF d.focus = NoField THEN d.latch ELSE d.focus
         /\ Edit!Unreported(d).focus = d.focus /\ Edit!Unreported(d).lit = d.lit
         /\ Edit!Unreported(d).latch = IF d.latch = d.focus THEN NoField ELSE d.latch
<1>1. NoField \in Edit!Focusable
  BY DEF Edit!Focusable
<1>2. QED
  BY <1>1 DEF Doc, Edit!Reported, Edit!Unreported

LEMMA LinesOf ==
  ASSUME NEW d \in Doc
  PROVE  /\ Edit!BlurLines(d) = IF d.focus # NoField THEN <<Says("blur", d.focus)>> ELSE <<>>
         /\ Edit!FocusLines(d) = IF d.focus # NoField /\ d.latch # d.focus THEN <<Says("focus", d.focus)>> ELSE <<>>
         /\ d.focus # NoField => d.focus \in Fields
BY DocIs DEF Edit!BlurLines, Edit!FocusLines, Edit!Lit, Says, Edit!Focusable

\* PageMoves and Receives move the focus.
LEMMA MovesIs ==
  ASSUME NEW p \in Tabs, page \in [Tabs -> Doc], NEW f \in Edit!Focusable, NEW announced \in BOOLEAN,
         Edit!Moves(p, f, announced),
         "exit" \in Range(sent[p]) => "exit" \in Range(sent'[p]) \/ (f = NoField /\ ~announced)
  PROVE  \E d, lines, missed :
           Honest(p, d, lines, missed) /\ Edit!Written(p, lines, missed) /\ page' = [page EXCEPT ![p] = d]
<1> DEFINE c == page[p]
           leaves == c.lit /\ f # c.focus
           gone == IF leaves THEN Edit!Unreported(c) ELSE c
           there == [gone EXCEPT !.focus = f]
           told == announced \/ leaves
           d == IF told THEN Edit!Reported(there) ELSE there
           blurs == leaves /\ c.focus # NoField
           focuses == told /\ f # NoField /\ there.latch # f
           lines == (IF leaves THEN Edit!BlurLines(c) ELSE <<>>)
                      \o (IF told THEN Edit!FocusLines(there) ELSE <<>>)
           missed == f # c.focus /\ ~c.lit
<1>1. page' = [page EXCEPT ![p] = d] /\ Edit!Written(p, lines, missed)
  BY DEF Edit!Moves
<1>2. c \in Doc
  OBVIOUS
<1> HIDE DEF c
<1>3. /\ gone \in Doc /\ gone.focus = c.focus /\ gone.lit = c.lit
      /\ gone.latch = IF leaves /\ c.latch = c.focus THEN NoField ELSE c.latch
      /\ c.focus \in Edit!Focusable /\ c.lit \in BOOLEAN /\ c.latch \in Edit!Focusable
  BY <1>2, DocIs
<1> HIDE DEF gone
<1>4. there \in Doc /\ there.focus = f /\ there.lit = c.lit /\ there.latch = gone.latch
  BY <1>3 DEF Doc
<1> HIDE DEF there
<1>5. /\ d \in Doc /\ d.focus = f /\ d.lit = c.lit
      /\ d.latch = IF told /\ f # NoField THEN f ELSE gone.latch
  BY <1>4, DocIs
<1>6. lines = Lines(c.focus, f, blurs, focuses)
  <2>1. (IF leaves THEN Edit!BlurLines(c) ELSE <<>>) = IF blurs THEN <<Says("blur", c.focus)>> ELSE <<>>
    BY <1>2, LinesOf
  <2>2. (IF told THEN Edit!FocusLines(there) ELSE <<>>) = IF focuses THEN <<Says("focus", f)>> ELSE <<>>
    BY <1>4, LinesOf
  <2> HIDE DEF leaves, told, blurs, focuses
  <2>3. QED
    BY <2>1, <2>2 DEF Lines
<1>7. /\ blurs \in BOOLEAN /\ focuses \in BOOLEAN /\ missed \in BOOLEAN
      /\ blurs => c.focus \in Fields
      /\ focuses => f \in Fields
  BY <1>3 DEF Edit!Focusable
<1> HIDE DEF d, lines
<1>8. focuses => Fits(d) /\ f = d.latch
  BY <1>5 DEF Fits
<1>9. ASSUME ~missed, Fits(c)
      PROVE  /\ Fits(d) /\ ExitKept(p, d)
             /\ d.latch = IF focuses THEN f ELSE IF blurs /\ c.focus = c.latch THEN NoField ELSE c.latch
  <2>1. /\ c.lit => c.latch = c.focus
        /\ c.latch \in {c.focus, NoField}
        /\ f = c.focus \/ c.lit
    BY <1>9 DEF Fits
  <2>2. Fits(d)
    BY <1>3, <1>5, <2>1 DEF Fits
  <2>3. d.latch = IF focuses THEN f ELSE IF blurs /\ c.focus = c.latch THEN NoField ELSE c.latch
    BY <1>3, <1>4, <1>5, <2>1
  <2>4. f = NoField /\ ~announced => d.latch = NoField
    BY <1>3, <1>5, <2>1
  <2>5. ExitKept(p, d)
    BY <2>4 DEF ExitKept
  <2>6. QED
    BY <2>2, <2>3, <2>5
<1> HIDE DEF missed, blurs, focuses
<1>10. Honest(p, d, lines, missed)
  <2>1. Right(p, d, c.focus, f, blurs, focuses, missed)
    BY <1>8, <1>9 DEF Right, c
  <2>2. d \in Doc
    BY <1>5
  <2> HIDE DEF c
  <2>3. QED
    BY <1>6, <1>7, <2>1, <2>2, HonestIs
<1>11. QED
  BY <1>1, <1>10

LEMMA StillThere ==
  ASSUME NEW q \in Seq(Message), q # <<>>, "exit" \in Range(q), Head(q) # "exit"
  PROVE  "exit" \in Range(Tail(q))
<1>1. PICK i \in 1 .. Len(q) : q[i] = "exit"
  BY DEF Range
<1>2. Head(q) = q[1] /\ Len(Tail(q)) = Len(q) - 1 /\ \A k \in 1 .. Len(q) - 1 : Tail(q)[k] = q[k + 1]
  OBVIOUS
<1>3. i - 1 \in 1 .. Len(q) - 1 /\ (i - 1) + 1 = i
  BY <1>1, <1>2
<1>4. Tail(q)[i - 1] = "exit" /\ i - 1 \in DOMAIN Tail(q)
  BY <1>1, <1>2, <1>3
<1>5. QED
  BY <1>4 DEF Range

LEMMA MoreComes ==
  ASSUME NEW q \in Seq(Message), NEW m \in Message
  PROVE  /\ Append(q, m) \in Seq(Message)
         /\ Range(Append(q, m)) = Range(q) \cup {m}
<1>1. /\ Append(q, m) \in Seq(Message) /\ Len(Append(q, m)) = Len(q) + 1
      /\ DOMAIN Append(q, m) = 1 .. Len(q) + 1 /\ DOMAIN q = 1 .. Len(q)
      /\ \A k \in 1 .. Len(q) : Append(q, m)[k] = q[k]
      /\ Append(q, m)[Len(q) + 1] = m
  OBVIOUS
<1> DEFINE r == Append(q, m)
           n == Len(q)
<1>2. n \in Nat
  OBVIOUS
<1> HIDE DEF r, n
<1>3. DOMAIN r = 1 .. n + 1 /\ DOMAIN q = 1 .. n /\ (\A k \in 1 .. n : r[k] = q[k]) /\ r[n + 1] = m
  BY <1>1 DEF r, n
<1>4. ASSUME NEW x PROVE x \in Range(r) <=> x \in Range(q) \/ x = m
  <2>1. ASSUME x \in Range(r) PROVE x \in Range(q) \/ x = m
    <3>1. PICK k \in 1 .. n + 1 : x = r[k]
      BY <1>3, <2>1 DEF Range
    <3>2. CASE k = n + 1
      BY <1>3, <3>1, <3>2
    <3>3. CASE k # n + 1
      <4>1. k \in 1 .. n
        BY <1>2, <3>3
      <4>2. QED
        BY <1>3, <3>1, <4>1 DEF Range
    <3>4. QED
      BY <3>2, <3>3
  <2>2. ASSUME x \in Range(q) PROVE x \in Range(r)
    <3>1. PICK k \in 1 .. n : x = q[k]
      BY <1>3, <2>2 DEF Range
    <3>2. k \in 1 .. n + 1
      BY <1>2
    <3>3. QED
      BY <1>3, <3>1, <3>2 DEF Range
  <2>3. n + 1 \in 1 .. n + 1
    BY <1>2
  <2>4. m \in Range(r)
    BY <1>3, <2>3 DEF Range
  <2>5. QED
    BY <2>1, <2>2, <2>4
<1>5. QED
  BY <1>1, <1>4 DEF r

\* A page that gets a message writes about itself, truly.
LEMMA ReceivesIs ==
  ASSUME FocusTypes, NEW p \in Tabs, Edit!Receives(p)
  PROVE  \E d, lines, missed : OneWrites(p, d, lines, missed)
<1> DEFINE m == Head(sent[p])
           c == page[p]
<1>1. /\ page \in [Tabs -> Doc] /\ c \in Doc /\ sent \in [Tabs -> Seq(Message)] /\ sent[p] \in Seq(Message)
      /\ sent[p] # <<>> /\ sent' = [sent EXCEPT ![p] = Tail(@)] /\ app' = app
  BY DEF FocusTypes, Edit!Receives
<1>2. sent' \in [Tabs -> Seq(Message)] /\ sent'[p] = Tail(sent[p]) /\ \A t \in Tabs : t # p => sent'[t] = sent[t]
  <2>1. Tail(sent[p]) \in Seq(Message)
    BY <1>1
  <2>2. QED
    BY <1>1, <2>1
<1>3. "exit" \in Range(sent[p]) /\ m # "exit" => "exit" \in Range(sent'[p])
  BY <1>1, <1>2, StillThere
<1>4. \A d : m # "exit" => ExitKept(p, d)
  BY <1>3 DEF ExitKept
<1>5. SUFFICES \E d, lines, missed :
        Honest(p, d, lines, missed) /\ Edit!Written(p, lines, missed) /\ page' = [page EXCEPT ![p] = d]
  BY <1>1, <1>2 DEF OneWrites
<1>6. CASE m = "exit" /\ Edit!Moves(p, NoField, FALSE)
  <2>1. NoField \in Edit!Focusable /\ FALSE \in BOOLEAN
    BY DEF Edit!Focusable
  <2>2. QED
    BY <1>1, <1>6, <2>1, MovesIs
<1>7. CASE m \in {"first", "cycle"} /\ \E f \in Fields \cup {c.focus} : Edit!Moves(p, f, TRUE)
  <2>1. PICK f \in Fields \cup {c.focus} : Edit!Moves(p, f, TRUE)
    BY <1>7
  <2>2. f \in Edit!Focusable /\ TRUE \in BOOLEAN
    BY <1>1, DocIs DEF Edit!Focusable
  <2>3. m # "exit"
    BY <1>7
  <2>4. QED
    BY <1>1, <1>3, <2>1, <2>2, <2>3, MovesIs
<1>8. CASE /\ m = "dark"
           /\ page' = [page EXCEPT ![p] = [(IF c.lit THEN Edit!Unreported(c) ELSE c) EXCEPT !.lit = FALSE]]
           /\ Edit!Written(p, IF c.lit THEN Edit!BlurLines(c) ELSE <<>>, FALSE)
  <2> DEFINE e == IF c.lit THEN Edit!Unreported(c) ELSE c
             d == [e EXCEPT !.lit = FALSE]
             blurs == c.lit /\ c.focus # NoField
             lines == IF c.lit THEN Edit!BlurLines(c) ELSE <<>>
  <2>1. c.focus \in Edit!Focusable /\ c.lit \in BOOLEAN /\ c.latch \in Edit!Focusable
    BY <1>1, DocIs
  <2>2. /\ e \in Doc /\ e.focus = c.focus
        /\ e.latch = IF c.lit /\ c.latch = c.focus THEN NoField ELSE c.latch
    BY <1>1, DocIs
  <2> HIDE DEF e
  <2>3. d \in Doc /\ d.focus = c.focus /\ d.lit = FALSE /\ d.latch = e.latch
    BY <2>2 DEF Doc
  <2>4. lines = Lines(c.focus, NoField, blurs, FALSE)
    <3>1. Edit!BlurLines(c) = IF c.focus # NoField THEN <<Says("blur", c.focus)>> ELSE <<>>
      BY <1>1, LinesOf
    <3>2. <<Says("blur", c.focus)>> \o <<>> = <<Says("blur", c.focus)>> /\ <<>> \o <<>> = <<>>
      OBVIOUS
    <3>3. QED
      BY <3>1, <3>2 DEF Lines
  <2>5. blurs \in BOOLEAN /\ (blurs => c.focus \in Fields)
    BY <2>1 DEF Edit!Focusable
  <2>6. Right(p, d, c.focus, NoField, blurs, FALSE, FALSE)
    <3>1. m # "exit"
      BY <1>8
    <3>2. ASSUME Fits(c)
          PROVE  Fits(d) /\ d.latch = IF blurs /\ c.focus = c.latch THEN NoField ELSE c.latch
      BY <2>1, <2>2, <2>3, <3>2 DEF Fits
    <3>3. QED
      BY <1>4, <3>1, <3>2 DEF Right
  <2>7. Edit!Written(p, lines, FALSE) /\ page' = [page EXCEPT ![p] = d]
    BY <1>8 DEF e
  <2> HIDE DEF d, lines, blurs, c
  <2>8. Honest(p, d, lines, FALSE)
    BY <2>3, <2>4, <2>5, <2>6, HonestIs
  <2>9. QED
    BY <2>7, <2>8
<1>9. CASE /\ m = "light"
           /\ page' = [page EXCEPT ![p] = [(IF c.lit THEN c ELSE Edit!Reported(c)) EXCEPT !.lit = TRUE]]
           /\ Edit!Written(p, IF c.lit THEN <<>> ELSE Edit!FocusLines(c), FALSE)
  <2> DEFINE e == IF c.lit THEN c ELSE Edit!Reported(c)
             d == [e EXCEPT !.lit = TRUE]
             focuses == ~c.lit /\ c.focus # NoField /\ c.latch # c.focus
             lines == IF c.lit THEN <<>> ELSE Edit!FocusLines(c)
  <2>1. c.focus \in Edit!Focusable /\ c.lit \in BOOLEAN /\ c.latch \in Edit!Focusable
    BY <1>1, DocIs
  <2>2. /\ e \in Doc /\ e.focus = c.focus
        /\ e.latch = IF c.lit \/ c.focus = NoField THEN c.latch ELSE c.focus
    BY <1>1, DocIs
  <2> HIDE DEF e
  <2>3. d \in Doc /\ d.focus = c.focus /\ d.lit = TRUE /\ d.latch = e.latch
    BY <2>2 DEF Doc
  <2>4. lines = Lines(NoField, c.focus, FALSE, focuses)
    <3>1. Edit!FocusLines(c) = IF c.focus # NoField /\ c.latch # c.focus THEN <<Says("focus", c.focus)>> ELSE <<>>
      BY <1>1, LinesOf
    <3>2. <<>> \o <<Says("focus", c.focus)>> = <<Says("focus", c.focus)>> /\ <<>> \o <<>> = <<>>
      OBVIOUS
    <3>3. QED
      BY <3>1, <3>2 DEF Lines
  <2>5. focuses \in BOOLEAN /\ (focuses => c.focus \in Fields)
    BY <2>1 DEF Edit!Focusable
  <2>6. Right(p, d, NoField, c.focus, FALSE, focuses, FALSE)
    <3>1. m # "exit"
      BY <1>9
    <3>2. ASSUME Fits(c)
          PROVE  Fits(d) /\ d.latch = IF focuses THEN c.focus ELSE c.latch
      BY <2>1, <2>2, <2>3, <3>2 DEF Fits
    <3>3. focuses => Fits(d) /\ c.focus = d.latch
      BY <2>2, <2>3 DEF Fits
    <3>4. QED
      BY <1>4, <3>1, <3>2, <3>3 DEF Right
  <2>7. Edit!Written(p, lines, FALSE) /\ page' = [page EXCEPT ![p] = d]
    BY <1>9 DEF e
  <2> HIDE DEF d, lines, focuses, c
  <2>8. Honest(p, d, lines, FALSE)
    BY <2>3, <2>4, <2>5, <2>6, HonestIs
  <2>9. QED
    BY <2>7, <2>8
<1>10. CASE /\ m = "inject"
            /\ \E f \in Fields :
                 LET n == [c EXCEPT !.focus = IF @ = NoField THEN NoField ELSE f, !.latch = NoField] IN
                 /\ page' = [page EXCEPT ![p] = Edit!Reported(n)]
                 /\ Edit!Written(p, Edit!FocusLines(n), FALSE)
  <2>1. PICK f \in Fields :
          LET n == [c EXCEPT !.focus = IF @ = NoField THEN NoField ELSE f, !.latch = NoField] IN
          /\ page' = [page EXCEPT ![p] = Edit!Reported(n)]
          /\ Edit!Written(p, Edit!FocusLines(n), FALSE)
    BY <1>10
  <2> DEFINE n == [c EXCEPT !.focus = IF @ = NoField THEN NoField ELSE f, !.latch = NoField]
             d == Edit!Reported(n)
             focuses == n.focus # NoField
             lines == Edit!FocusLines(n)
  <2>2. page' = [page EXCEPT ![p] = d] /\ Edit!Written(p, lines, FALSE)
    BY <2>1
  <2>3. c.focus \in Edit!Focusable /\ c.lit \in BOOLEAN /\ c.latch \in Edit!Focusable /\ f \in Edit!Focusable /\ NoField \in Edit!Focusable
    BY <1>1, DocIs DEF Edit!Focusable
  <2>4. /\ n \in Doc /\ n.lit = c.lit /\ n.latch = NoField
        /\ n.focus = IF c.focus = NoField THEN NoField ELSE f
    BY <1>1, <2>3 DEF Doc
  <2> HIDE DEF n
  <2>5. /\ d \in Doc /\ d.focus = n.focus /\ d.lit = n.lit
        /\ d.latch = IF n.focus = NoField THEN NoField ELSE n.focus
    BY <2>4, DocIs
  <2>6. lines = Lines(NoField, n.focus, FALSE, focuses)
    <3>1. lines = IF n.focus # NoField /\ n.latch # n.focus THEN <<Says("focus", n.focus)>> ELSE <<>>
      BY <2>4, LinesOf
    <3>2. <<>> \o <<Says("focus", n.focus)>> = <<Says("focus", n.focus)>> /\ <<>> \o <<>> = <<>>
      OBVIOUS
    <3>3. QED
      BY <2>4, <3>1, <3>2 DEF Lines
  <2>7. focuses \in BOOLEAN /\ (focuses => n.focus \in Fields)
    BY <2>4
  <2>8. Right(p, d, NoField, n.focus, FALSE, focuses, FALSE)
    <3>1. m # "exit"
      BY <1>10
    <3>2. Fits(d) /\ (focuses => n.focus = d.latch)
      BY <2>5 DEF Fits
    <3>3. ASSUME Fits(c), ~focuses PROVE d.latch = c.latch
      <4>1. c.focus = NoField
        BY <2>4, <3>3, FieldsAssumption
      <4>2. QED
        BY <2>5, <3>3, <4>1 DEF Fits
    <3>4. QED
      BY <1>4, <3>1, <3>2, <3>3 DEF Right
  <2> HIDE DEF d, lines, focuses, c
  <2>9. Honest(p, d, lines, FALSE)
    BY <2>5, <2>6, <2>7, <2>8, HonestIs
  <2>10. QED
    BY <2>2, <2>9
<1>11. QED
  BY <1>6, <1>7, <1>8, <1>9, <1>10 DEF Edit!Receives

\* Everything about the focus that an action may leave alone.
LEMMA NothingWritten ==
  ASSUME FocusInv, page' = page, sink' = sink, app'.active = app.active, app'.editing = app.editing,
         tracked' = tracked, sent' \in [Tabs -> Seq(Message)],
         \A t \in Tabs : Range(sent[t]) \subseteq Range(sent'[t])
  PROVE  TellingInv' /\ TrackedInv'
<1>1. app.active \in Tabs
  BY DEF FocusInv, FocusTypes
<1>2. TellingInv'
  BY DEF FocusInv, TellingInv
<1>3. ASSUME tracked'
      PROVE  /\ Fits(page'[app'.active])
             /\ Ends(sink', app'.active, 0, app'.editing, {page'[app'.active].latch} \cup Leaving(sent'[app'.active]))
  <2> DEFINE t == app.active
             x == app.editing
             Y == {page[t].latch} \cup Leaving(sent[t])
             Z == {page[t].latch} \cup Leaving(sent'[t])
  <2>1. Fits(page[t]) /\ Ends(sink, t, 0, x, Y)
    BY <1>3 DEF FocusInv, TrackedInv
  <2>2. Y \subseteq Z
    BY <1>1 DEF Leaving
  <2> HIDE DEF t, x, Y, Z
  <2>3. Ends(sink, t, 0, x, Z)
    BY <2>1, <2>2 DEF Ends
  <2>4. QED
    BY <2>1, <2>3 DEF t, x, Z
<1>4. QED
  BY <1>2, <1>3 DEF TrackedInv

LEMMA WriterFine ==
  ASSUME FocusInv, NEW p \in Tabs, NEW d, NEW lines, NEW missed, OneWrites(p, d, lines, missed)
  PROVE  FocusInv'
<1>1. FocusTypes /\ TellingInv /\ TrackedInv /\ BlurInv
  BY DEF FocusInv
<1>2. sink' \in Seq(Event) /\ tracked' \in BOOLEAN /\ TellingInv' /\ TrackedInv'
  BY <1>1, WrittenKeeps
<1>3. d \in Doc /\ page' = [page EXCEPT ![p] = d] /\ app' = app /\ sent' \in [Tabs -> Seq(Message)]
  BY DEF OneWrites, Honest
<1>4. FocusTypes'
  BY <1>1, <1>2, <1>3 DEF FocusTypes
<1>5. BlurInv'
  BY <1>1, <1>3 DEF BlurInv
<1>6. QED
  BY <1>2, <1>4, <1>5 DEF FocusInv

LEMMA PageMovesFine ==
  ASSUME FocusInv, NEW p \in Tabs, Edit!PageMoves(p)
  PROVE  FocusInv'
<1>1. FocusTypes
  BY DEF FocusInv
<1>2. PICK f \in Edit!Focusable : sent' = sent /\ app' = app /\ Edit!Moves(p, f, FALSE)
  BY DEF Edit!PageMoves
<1>3. page \in [Tabs -> Doc] /\ sent \in [Tabs -> Seq(Message)]
  BY <1>1 DEF FocusTypes
<1>4. \E d, lines, missed :
        Honest(p, d, lines, missed) /\ Edit!Written(p, lines, missed) /\ page' = [page EXCEPT ![p] = d]
  BY <1>2, <1>3, MovesIs
<1>5. \E d, lines, missed : OneWrites(p, d, lines, missed)
  BY <1>2, <1>3, <1>4 DEF OneWrites
<1>6. QED
  BY <1>5, WriterFine

LEMMA ReceivesFine ==
  ASSUME FocusInv, NEW p \in Tabs, Edit!Receives(p)
  PROVE  FocusInv'
<1>1. FocusTypes
  BY DEF FocusInv
<1>2. \E d, lines, missed : OneWrites(p, d, lines, missed)
  BY <1>1, ReceivesIs
<1>3. QED
  BY <1>2, WriterFine

\* Another message on its way.
SentTo(p, m) == sent' = [sent EXCEPT ![p] = Append(@, m)]

LEMMA SentToIs ==
  ASSUME FocusTypes, NEW p \in Tabs, NEW m \in Message, SentTo(p, m)
  PROVE  /\ sent' \in [Tabs -> Seq(Message)] /\ \A t \in Tabs : Range(sent[t]) \subseteq Range(sent'[t])
         /\ m \in Range(sent'[p])
<1>1. sent \in [Tabs -> Seq(Message)] /\ sent' = [sent EXCEPT ![p] = Append(@, m)]
  BY DEF FocusTypes, SentTo
<1>2. Append(sent[p], m) \in Seq(Message) /\ Range(Append(sent[p], m)) = Range(sent[p]) \cup {m}
  BY <1>1, MoreComes
<1>3. sent'[p] = Append(sent[p], m) /\ \A t \in Tabs : t # p => sent'[t] = sent[t]
  BY <1>1
<1>4. sent' \in [Tabs -> Seq(Message)]
  BY <1>1, <1>2
<1>5. QED
  BY <1>2, <1>3, <1>4

LEMMA LoadEndsFine ==
  ASSUME FocusInv, NEW p \in Tabs, Edit!LoadEnds(p)
  PROVE  FocusInv'
<1>1. FocusTypes /\ BlurInv /\ UNCHANGED <<page, sink, app, tracked>> /\ SentTo(p, "inject") /\ "inject" \in Message
  BY DEF FocusInv, Edit!LoadEnds, SentTo, Message
<1>2. sent' \in [Tabs -> Seq(Message)] /\ \A t \in Tabs : Range(sent[t]) \subseteq Range(sent'[t])
  BY <1>1, SentToIs
<1>3. TellingInv' /\ TrackedInv'
  BY <1>1, <1>2, NothingWritten
<1>4. QED
  BY <1>1, <1>2, <1>3 DEF FocusInv, FocusTypes, BlurInv

LEMMA AsksFine ==
  ASSUME FocusInv, NEW m \in {"first", "cycle", "light"}, Edit!Asks(m)
  PROVE  FocusInv'
<1>1. /\ FocusTypes /\ BlurInv /\ UNCHANGED <<page, sink, app, tracked>>
      /\ SentTo(app.active, m) /\ m \in Message /\ app.active \in Tabs
  BY DEF FocusInv, FocusTypes, Edit!Asks, Edit!Sends, SentTo, Message
<1>2. sent' \in [Tabs -> Seq(Message)] /\ \A t \in Tabs : Range(sent[t]) \subseteq Range(sent'[t])
  BY <1>1, SentToIs
<1>3. TellingInv' /\ TrackedInv'
  BY <1>1, <1>2, NothingWritten
<1>4. QED
  BY <1>1, <1>2, <1>3 DEF FocusInv, FocusTypes, BlurInv

LEMMA NavigatesFine ==
  ASSUME FocusInv, NEW p \in Tabs, Edit!Navigates(p)
  PROVE  FocusInv'
<1>1. /\ FocusTypes /\ TellingInv /\ TrackedInv /\ BlurInv /\ app' = app /\ sink' = Edit!Aged(p)
      /\ tracked' = (tracked /\ p # app.active) /\ sent' = [sent EXCEPT ![p] = <<"inject">>]
  BY DEF FocusInv, Edit!Navigates
<1>2. /\ page \in [Tabs -> Doc] /\ sent \in [Tabs -> Seq(Message)] /\ sink \in Seq(Event) /\ app.active \in Tabs
      /\ Len(sink) \in Nat /\ tracked \in BOOLEAN
  BY <1>1 DEF FocusTypes
<1>3. PICK f \in Edit!Focusable : page' = [page EXCEPT ![p] = [Edit!Document(f) EXCEPT !.lit = page[p].lit]]
  BY DEF Edit!Navigates
<1>4. page' \in [Tabs -> Doc] /\ \A t \in Tabs : t # p => page'[t] = page[t]
  <2> DEFINE d == [Edit!Document(f) EXCEPT !.lit = page[p].lit]
  <2>1. d \in Doc
    BY <1>2 DEF Edit!Document, Doc, Edit!Focusable
  <2> HIDE DEF d
  <2>2. page' = [page EXCEPT ![p] = d]
    BY <1>3 DEF d
  <2>3. QED
    BY <1>2, <2>1, <2>2
<1>5. sent' \in [Tabs -> Seq(Message)] /\ \A t \in Tabs : t # p => sent'[t] = sent[t]
  <2>1. <<"inject">> \in Seq(Message)
    BY DEF Message
  <2>2. QED
    BY <1>1, <1>2, <2>1
<1>6. /\ sink' \in Seq(Event) /\ Len(sink') = Len(sink)
      /\ \A k \in 1 .. Len(sink) : /\ sink'[k].tab = sink[k].tab /\ sink'[k].kind = sink[k].kind
                                   /\ sink'[k].field = sink[k].field
                                   /\ Telling(sink', k) => Telling(sink, k) /\ sink[k].tab # p
  BY <1>1, <1>2, AgedIs
<1>7. TellingInv'
  <2>1. SUFFICES ASSUME NEW i \in 1 .. Len(sink), Telling(sink', i)
                 PROVE  /\ Fits(page'[sink'[i].tab])
                        /\ Ends(sink', sink'[i].tab, i, sink'[i].field, {page'[sink'[i].tab].latch})
    BY <1>6 DEF TellingInv
  <2>2. Telling(sink, i) /\ sink[i].tab # p /\ sink'[i].tab = sink[i].tab /\ sink'[i].field = sink[i].field
    BY <1>6, <2>1
  <2>3. Fits(page[sink[i].tab]) /\ Ends(sink, sink[i].tab, i, sink[i].field, {page[sink[i].tab].latch})
    BY <1>1, <2>2 DEF TellingInv
  <2>4. sink[i].tab \in Tabs
    BY <1>2, EventIs
  <2>5. page'[sink[i].tab] = page[sink[i].tab]
    BY <1>4, <2>2, <2>4
  <2>6. Ends(sink', sink[i].tab, i, sink[i].field, {page[sink[i].tab].latch})
    <3>1. \A k \in 1 .. Len(sink) : sink'[k].tab = sink[k].tab /\ sink'[k].kind = sink[k].kind /\ sink'[k].field = sink[k].field
      BY <1>6
    <3>2. i \in Nat
      OBVIOUS
    <3>3. QED
      BY <1>2, <1>6, <2>3, <3>1, <3>2, AnyAge
  <2>7. QED
    BY <2>2, <2>3, <2>5, <2>6
<1>8. TrackedInv'
  <2>1. SUFFICES ASSUME tracked'
                 PROVE  /\ Fits(page'[app.active])
                        /\ Ends(sink', app.active, 0, app.editing,
                                {page'[app.active].latch} \cup Leaving(sent'[app.active]))
    BY <1>1 DEF TrackedInv
  <2>2. tracked /\ p # app.active
    BY <1>1, <2>1
  <2>3. /\ Fits(page[app.active])
        /\ Ends(sink, app.active, 0, app.editing, {page[app.active].latch} \cup Leaving(sent[app.active]))
    BY <1>1, <2>2 DEF TrackedInv
  <2>4. page'[app.active] = page[app.active] /\ sent'[app.active] = sent[app.active]
    BY <1>2, <1>4, <1>5, <2>2
  <2>5. Ends(sink', app.active, 0, app.editing, {page[app.active].latch} \cup Leaving(sent[app.active]))
    <3>1. \A k \in 1 .. Len(sink) : sink'[k].tab = sink[k].tab /\ sink'[k].kind = sink[k].kind /\ sink'[k].field = sink[k].field
      BY <1>6
    <3>2. QED
      BY <1>2, <1>6, <2>3, <3>1, AnyAge
  <2>6. QED
    BY <2>3, <2>4, <2>5
<1>9. FocusTypes' /\ BlurInv'
  BY <1>1, <1>2, <1>4, <1>5, <1>6 DEF FocusTypes, BlurInv
<1>10. QED
  BY <1>7, <1>8, <1>9 DEF FocusInv

LEMMA AboutToWaitFine ==
  ASSUME FocusInv, Edit!AboutToWait
  PROVE  FocusInv' /\ (app.insert /\ ~app'.insert => app'.editing = NoField)
<1> DEFINE b == Edit!FollowedAll(app, sink)
           t == app.active
<1>1. /\ FocusTypes /\ TellingInv /\ TrackedInv /\ BlurInv
      /\ app' = Edit!Expired(b) /\ sink' = <<>>
      /\ tracked' = (tracked \/ \E i \in DOMAIN sink : Edit!Tells(sink[i]))
      /\ page' = page /\ sent' = sent
  BY DEF FocusInv, Edit!AboutToWait
<1>2. app \in AppSet /\ sink \in Seq(Event) /\ t \in Tabs /\ app.editing \in Edit!Focusable /\ Len(sink) \in Nat
  BY <1>1 DEF FocusTypes, AppSet
<1>3. /\ b \in AppSet /\ b.active = t
      /\ app.insert => b.insert
      /\ BlurKept(app) => BlurKept(b)
      /\ \A Y : Ends(sink, t, 0, app.editing, Y) => b.editing \in Y
  BY <1>2, FollowedAllIs
<1>4. BlurKept(b)
  BY <1>1, <1>3 DEF BlurInv, BlurKept
<1> HIDE DEF b
<1>5. /\ app' \in AppSet /\ app'.active = t /\ app'.editing = b.editing /\ BlurKept(app')
      /\ app.insert /\ ~app'.insert => app'.editing = NoField
  <2>1. CASE b.blurred # "old"
    <3>1. app' = b
      BY <1>1, <2>1 DEF Edit!Expired
    <3>2. QED
      BY <1>3, <1>4, <3>1
  <2>2. CASE b.blurred = "old"
    <3>1. app' = [b EXCEPT !.blurred = "no", !.insert = FALSE]
      BY <1>1, <2>2 DEF Edit!Expired
    <3>2. b.editing = NoField
      BY <1>4, <2>2 DEF BlurKept
    <3>3. QED
      BY <1>3, <3>1, <3>2 DEF AppSet, BlurKept
  <2>3. QED
    BY <2>1, <2>2
<1>6. tracked' => Fits(page[t]) /\ b.editing \in {page[t].latch} \cup Leaving(sent[t])
  <2>1. CASE tracked
    <3>1. Fits(page[t]) /\ Ends(sink, t, 0, app.editing, {page[t].latch} \cup Leaving(sent[t]))
      BY <1>1, <2>1 DEF TrackedInv
    <3>2. QED
      BY <1>3, <3>1
  <2>2. CASE \E i \in DOMAIN sink : Edit!Tells(sink[i])
    <3>1. PICK i \in 1 .. Len(sink) : Edit!Tells(sink[i])
      BY <1>2, <2>2
    <3>2. sink[i].tab = t /\ sink[i].kind = "focus" /\ Telling(sink, i)
      BY <3>1 DEF Edit!Tells, Telling
    <3>3. Fits(page[t]) /\ Ends(sink, t, i, sink[i].field, {page[t].latch})
      BY <1>1, <3>2 DEF TellingInv
    <3>4. Ends(sink, t, 0, app.editing, {page[t].latch})
      <4> DEFINE n == Len(sink)
      <4>1. SUFFICES ASSUME NEW f \in [0 .. n -> Edit!Focusable], Walks(f, sink, t, 0)
                     PROVE  f[n] \in {page[t].latch}
        BY DEF Ends
      <4>2. n \in Nat /\ i \in 1 .. n
        BY <1>2, <3>1
      <4> HIDE DEF n
      <4> DEFINE g == [k \in i .. n |-> f[k]]
      <4>3. g \in [i .. n -> Edit!Focusable]
        <5>1. \A k \in i .. n : k \in 0 .. n
          BY <4>2
        <5>2. QED
          BY <4>1, <5>1
      <4>4. \A k \in 0 + 1 .. n : f[k] = Told(t, f[k - 1], sink[k])
        BY <4>1 DEF Walks, n
      <4>5. f[i] = sink[i].field
        <5>1. i \in 0 + 1 .. n
          BY <4>2
        <5>2. f[i] = Told(t, f[i - 1], sink[i])
          BY <4>4, <5>1
        <5>3. QED
          BY <3>2, <5>2 DEF Told
      <4>6. ASSUME NEW k \in i + 1 .. n PROVE g[k] = Told(t, g[k - 1], sink[k])
        <5>1. k \in 0 + 1 .. n /\ k \in i .. n /\ k - 1 \in i .. n
          BY <4>2
        <5>2. f[k] = Told(t, f[k - 1], sink[k])
          BY <4>4, <5>1
        <5>3. QED
          BY <5>1, <5>2
      <4>7. g[i] = sink[i].field /\ g[n] = f[n]
        BY <4>2, <4>5
      <4> HIDE DEF g
      <4>8. Walks(g, sink, t, i)
        BY <4>3, <4>6 DEF Walks, n
      <4>9. QED
        BY <3>3, <4>3, <4>7, <4>8 DEF Ends, n
    <3>5. b.editing \in {page[t].latch}
      BY <1>3, <3>4
    <3>6. QED
      BY <3>3, <3>5
  <2>3. QED
    BY <1>1, <2>1, <2>2
<1>7. TrackedInv'
  <2>1. Ends(<<>>, t, 0, b.editing, {b.editing})
    <3>1. Len(<<>>) = 0
      OBVIOUS
    <3>2. QED
      BY <3>1, AtTheEnd
  <2>2. ASSUME NEW Y, b.editing \in Y PROVE Ends(<<>>, t, 0, b.editing, Y)
    BY <2>1, <2>2 DEF Ends
  <2>3. QED
    BY <1>1, <1>5, <1>6, <2>2 DEF TrackedInv
<1>8. TellingInv'
  BY <1>1 DEF TellingInv
<1>9. FocusTypes' /\ BlurInv'
  <2>1. tracked' \in BOOLEAN
    BY <1>1 DEF FocusTypes
  <2>2. <<>> \in Seq(Event)
    OBVIOUS
  <2>3. QED
    BY <1>1, <1>5, <2>1, <2>2 DEF FocusTypes, AppSet, BlurInv, BlurKept
<1>10. QED
  BY <1>5, <1>7, <1>8, <1>9 DEF FocusInv

LEMMA TimePassesFine ==
  ASSUME FocusInv, Edit!TimePasses
  PROVE  FocusInv'
<1>1. /\ FocusTypes /\ BlurInv /\ UNCHANGED <<page, sent, sink, tracked>>
      /\ app.blurred = "new" /\ app' = [app EXCEPT !.blurred = "old"]
  BY DEF FocusInv, Edit!TimePasses
<1>2. app \in AppSet /\ app' \in AppSet /\ app'.active = app.active /\ app'.editing = app.editing
  BY <1>1 DEF FocusTypes, AppSet
<1>3. sent' \in [Tabs -> Seq(Message)] /\ \A t \in Tabs : Range(sent[t]) \subseteq Range(sent'[t])
  BY <1>1 DEF FocusTypes
<1>4. TellingInv' /\ TrackedInv'
  BY <1>1, <1>2, <1>3, NothingWritten
<1>5. QED
  BY <1>1, <1>2, <1>4 DEF FocusInv, FocusTypes, BlurInv, AppSet

LEMMA ModeChangesFine ==
  ASSUME FocusInv, Edit!ModeChanges
  PROVE  FocusInv'
<1>1. /\ FocusTypes /\ BlurInv /\ UNCHANGED <<page, sent, sink, tracked>>
      /\ app' = [app EXCEPT !.insert = ~app.insert]
  BY DEF FocusInv, Edit!ModeChanges
<1>2. app \in AppSet
  BY <1>1 DEF FocusTypes, AppSet
<1>3. /\ app' \in AppSet /\ app'.active = app.active /\ app'.editing = app.editing
      /\ app'.blurred = app.blurred
  BY <1>1, <1>2 DEF AppSet
<1>4. sent' \in [Tabs -> Seq(Message)] /\ \A t \in Tabs : Range(sent[t]) \subseteq Range(sent'[t])
  BY <1>1 DEF FocusTypes
<1>5. TellingInv' /\ TrackedInv'
  BY <1>1, <1>3, <1>4, NothingWritten
<1>6. QED
  BY <1>1, <1>3, <1>5 DEF FocusInv, FocusTypes, BlurInv, AppSet

LEMMA SelectTabFine ==
  ASSUME FocusInv, NEW t \in Tabs, Edit!SelectTab(t)
  PROVE  FocusInv'
<1>1. /\ FocusTypes /\ TellingInv /\ BlurInv /\ page' = page /\ sink' = sink /\ tracked' = FALSE
      /\ app' = [app EXCEPT !.active = t]
      /\ sent' = [sent EXCEPT ![app.active] = Append(@, "dark"), ![t] = Append(@, "light")]
  BY DEF FocusInv, Edit!SelectTab
<1>2. app \in AppSet /\ sent \in [Tabs -> Seq(Message)] /\ "dark" \in Message /\ "light" \in Message
  BY <1>1 DEF FocusTypes, AppSet, Message
<1>3. app' \in AppSet /\ app'.editing = app.editing /\ app'.blurred = app.blurred
  BY <1>1, <1>2 DEF AppSet
<1>4. sent' \in [Tabs -> Seq(Message)]
  <2>1. ASSUME NEW p \in Tabs PROVE Append(sent[p], "dark") \in Seq(Message) /\ Append(sent[p], "light") \in Seq(Message)
    BY <1>2
  <2>2. t # app.active
    BY DEF Edit!SelectTab
  <2>3. sent' = [p \in Tabs |-> IF p = t THEN Append(sent[p], "light")
                              ELSE IF p = app.active THEN Append(sent[p], "dark") ELSE sent[p]]
    BY <1>1, <1>2, <2>2
  <2>4. QED
    BY <1>2, <2>1, <2>3
<1>5. TellingInv' /\ TrackedInv'
  BY <1>1 DEF TellingInv, TrackedInv
<1>6. QED
  BY <1>1, <1>3, <1>4, <1>5 DEF FocusInv, FocusTypes, BlurInv, AppSet

LEMMA ExitFine ==
  ASSUME FocusInv, Edit!Exit
  PROVE  FocusInv'
<1> DEFINE t == app.active
<1>1. /\ FocusTypes /\ TellingInv /\ TrackedInv /\ BlurInv /\ UNCHANGED <<page, sink, tracked>>
      /\ app' = [app EXCEPT !.editing = NoField, !.insert = FALSE] /\ SentTo(t, "exit")
  BY DEF FocusInv, Edit!Exit, Edit!Sends, SentTo
<1>2. app \in AppSet /\ "exit" \in Message /\ t \in Tabs /\ sink \in Seq(Event) /\ app.editing \in Edit!Focusable
  BY <1>1 DEF FocusTypes, AppSet, Message
<1>3. app' \in AppSet /\ app'.editing = NoField /\ app'.active = t
  <2>1. NoField \in Edit!Focusable
    BY DEF Edit!Focusable
  <2>2. QED
    BY <1>1, <1>2, <2>1 DEF AppSet
<1>4. /\ sent' \in [Tabs -> Seq(Message)] /\ \A p \in Tabs : Range(sent[p]) \subseteq Range(sent'[p])
      /\ "exit" \in Range(sent'[t])
  BY <1>1, <1>2, SentToIs
<1> HIDE DEF t
<1>5. TrackedInv'
  <2>1. SUFFICES ASSUME tracked
                 PROVE  /\ Fits(page[t])
                        /\ Ends(sink, t, 0, NoField, {page[t].latch} \cup Leaving(sent'[t]))
    BY <1>1, <1>3 DEF TrackedInv
  <2> DEFINE Y == {page[t].latch} \cup Leaving(sent[t])
  <2>2. Fits(page[t]) /\ Ends(sink, t, 0, app.editing, Y)
    BY <1>1, <2>1 DEF TrackedInv, t
  <2>3. Y \cup {NoField} = {page[t].latch} \cup Leaving(sent'[t])
    BY <1>4 DEF Leaving
  <2> HIDE DEF Y
  <2>4. Ends(sink, t, 0, NoField, Y \cup {NoField})
    BY <1>2, <2>2, FromNoField
  <2>5. QED
    BY <2>2, <2>3, <2>4
<1>6. TellingInv'
  BY <1>1 DEF TellingInv
<1>7. QED
  BY <1>1, <1>3, <1>4, <1>5, <1>6 DEF FocusInv, FocusTypes, BlurInv, AppSet

LEMMA FocusInit ==
  ASSUME Edit!Init
  PROVE  FocusInv
<1>1. /\ page = [p \in Tabs |-> Edit!Document(NoField)] /\ sent = [p \in Tabs |-> <<>>] /\ sink = <<>>
      /\ app \in [active : Tabs, editing : {NoField}, insert : {FALSE}, blurred : {"no"}] /\ tracked = TRUE
  BY DEF Edit!Init
<1>2. app \in AppSet /\ app.active \in Tabs /\ app.editing = NoField /\ app.blurred = "no"
  BY <1>1 DEF AppSet, Edit!Focusable
<1>3. Edit!Document(NoField) \in Doc /\ Fits(Edit!Document(NoField)) /\ Edit!Document(NoField).latch = NoField
  BY DEF Edit!Document, Doc, Edit!Focusable, Fits
<1>4. FocusTypes
  <2>1. <<>> \in Seq(Message) /\ <<>> \in Seq(Event)
    OBVIOUS
  <2>2. QED
    BY <1>1, <1>2, <1>3, <2>1 DEF FocusTypes, AppSet
<1>5. TellingInv
  BY <1>1 DEF TellingInv
<1>6. TrackedInv
  <2>1. Ends(<<>>, app.active, 0, NoField, {NoField})
    <3>1. Len(<<>>) = 0
      OBVIOUS
    <3>2. QED
      BY <3>1, AtTheEnd
  <2>2. page[app.active] = Edit!Document(NoField)
    BY <1>1, <1>2
  <2>3. Ends(<<>>, app.active, 0, NoField, {NoField} \cup Leaving(sent[app.active]))
    BY <2>1 DEF Ends
  <2>4. QED
    BY <1>1, <1>2, <1>3, <2>2, <2>3 DEF TrackedInv
<1>7. QED
  BY <1>2, <1>4, <1>5, <1>6 DEF FocusInv, BlurInv

LEMMA FocusStep ==
  ASSUME FocusInv, Edit!Next
  PROVE  FocusInv'
<1>1. CASE \E p \in Tabs : Edit!PageMoves(p) \/ Edit!Receives(p) \/ Edit!LoadEnds(p) \/ Edit!Navigates(p)
  BY <1>1, PageMovesFine, ReceivesFine, LoadEndsFine, NavigatesFine
<1>2. CASE Edit!AboutToWait
  BY <1>2, AboutToWaitFine
<1>3. CASE Edit!TimePasses
  BY <1>3, TimePassesFine
<1>4. CASE Edit!Exit
  BY <1>4, ExitFine
<1>5. CASE Edit!ModeChanges
  BY <1>5, ModeChangesFine
<1>6. CASE \E m \in {"first", "cycle", "light"} : Edit!Asks(m)
  BY <1>6, AsksFine
<1>7. CASE \E t \in Tabs : Edit!SelectTab(t)
  BY <1>7, SelectTabFine
<1>8. QED
  BY <1>1, <1>2, <1>3, <1>4, <1>5, <1>6, <1>7 DEF Edit!Next

LEMMA FocusStutters ==
  ASSUME FocusInv, UNCHANGED focusVars
  PROVE  FocusInv'
BY DEF focusVars, FocusInv, FocusTypes, TellingInv, TrackedInv, BlurInv

\* What the application knows of the focus follows what the pages last said of
\* it, whatever is in the queue and on its way to them.
THEOREM FocusIsFollowed == PartsSpec => []FocusInv
<1>1. PartsInit => FocusInv
  BY FocusInit DEF PartsInit
<1>2. FocusInv /\ [OfSession(Next) \/ OfEdit(Edit!Next)]_<<part, vars, focusVars>> => FocusInv'
  <2>1. SUFFICES ASSUME FocusInv, [OfSession(Next) \/ OfEdit(Edit!Next)]_<<part, vars, focusVars>>
                 PROVE  FocusInv'
    OBVIOUS
  <2>2. CASE OfSession(Next)
    BY <2>1, <2>2, FocusStutters DEF OfSession
  <2>3. CASE OfEdit(Edit!Next)
    BY <2>1, <2>3, FocusStep DEF OfEdit
  <2>4. CASE UNCHANGED <<part, vars, focusVars>>
    BY <2>1, <2>4, FocusStutters
  <2>5. QED
    BY <2>1, <2>2, <2>3, <2>4
<1>3. QED
  BY <1>1, <1>2, PTL DEF PartsSpec

\* Once a focus has been reported, and while nothing is lost and the tab stays
\* with its document, the keyboard goes to the field that has the focus as soon
\* as the queue is empty and nothing is on its way to the page (edit.js,
\* drain_edit_focus_events).
THEOREM KeysGoToTheFocus == PartsSpec => []InSync
<1>1. ASSUME FocusInv PROVE InSync
  <2>1. SUFFICES ASSUME sink = <<>>, sent[app.active] = <<>>, tracked, page[app.active].lit
                 PROVE  app.editing = page[app.active].focus
    BY DEF InSync, Edit!InSync, Edit!Quiet
  <2>2. /\ Fits(page[app.active])
        /\ Ends(sink, app.active, 0, app.editing, {page[app.active].latch} \cup Leaving(sent[app.active]))
    BY <1>1, <2>1 DEF FocusInv, TrackedInv
  <2>3. sink \in Seq(Event) /\ app.editing \in Edit!Focusable
    BY <1>1 DEF FocusInv, FocusTypes
  <2>4. Len(sink) = 0 /\ Leaving(sent[app.active]) = {}
    BY <2>1 DEF Leaving, Range
  <2>5. app.editing = page[app.active].latch
    <3> DEFINE t == app.active
               x == app.editing
    <3>1. Ends(sink, t, 0, x, {page[t].latch})
      BY <2>2, <2>4
    <3> HIDE DEF t, x
    <3>2. \E f \in [0 .. Len(sink) -> Edit!Focusable] : Walks(f, sink, t, 0) /\ f[0] = x
      BY <2>3, AllFollowed DEF x
    <3>3. x = page[t].latch
      BY <2>4, <3>1, <3>2 DEF Ends
    <3>4. QED
      BY <3>3 DEF t, x
  <2>6. QED
    BY <2>1, <2>2, <2>5 DEF Fits
<1>2. QED
  BY <1>1, FocusIsFollowed, PTL

\* The timer of a blur ends Insert mode only when no field has the focus
\* (expire_pending_blur).
THEOREM NoFieldIsEverLeft == PartsSpec => NoFieldIsLeft
<1>1. FocusInv /\ [OfSession(Next) \/ OfEdit(Edit!Next)]_<<part, vars, focusVars>>
        => [app.insert /\ ~app'.insert /\ Edit!AboutToWait => app'.editing = NoField]_(Edit!vars)
  BY AboutToWaitFine
<1>2. QED
  BY <1>1, FocusIsFollowed, PTL DEF PartsSpec, NoFieldIsLeft, Edit!NoFieldIsLeft
==============================================================================
