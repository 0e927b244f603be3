------------------------ MODULE WebKitChannelProofs -------------------------
(***************************************************************************)
(* Theorems about the invariants that MCWorkers checks of the WebKit       *)
(* worker's channel (WebKitChannel.tla), of its signals (WebKitSignals),   *)
(* of its pages (WebKitPages) and of the idle inhibitor (Inhibit), for     *)
(* channels of any length, any tabs and any number of requests.            *)
(***************************************************************************)
EXTENDS MCWorkers, FiniteSetTheorems, SequenceTheorems, TLAPS

-----------------------------------------------------------------------------
(* The list of the tabs (WebKitTabs).                                      *)

\* A list of different tabs, numbered up to n, with one of them or none active;
\* the tabs are members of R.
ListOf(R, l, n) ==
  /\ l \in [tabs : Seq(R), active : Nat]
  /\ l.active \in 0..Len(l.tabs)
  /\ \A i \in Positions(l) : l.tabs[i].id \in 1..n
  /\ \A i, j \in Positions(l) : l.tabs[i].id = l.tabs[j].id => i = j
IsList(l, n) == ListOf([id : Nat], l, n)

\* The tabs of a list, and that two lists have the same one active.
TabsOf(l) == {l.tabs[i] : i \in Positions(l)}
SameActive(l, m) ==
  /\ l.active = 0 <=> m.active = 0
  /\ l.active # 0 => ActiveTab(m) = ActiveTab(l)

LEMMA RemoveAtFacts ==
  ASSUME NEW S, NEW s \in Seq(S), NEW i \in 1..Len(s)
  PROVE  /\ RemoveAt(s, i) \in Seq(S)
         /\ Len(RemoveAt(s, i)) = Len(s) - 1
         /\ \A j \in 1..(Len(s) - 1) : RemoveAt(s, i)[j] = s[IF j < i THEN j ELSE j + 1]
<1> DEFINE a == SubSeq(s, 1, i - 1)
           b == SubSeq(s, i + 1, Len(s))
<1>1. a \in Seq(S) /\ Len(a) = i - 1 /\ \A j \in 1..(i - 1) : a[j] = s[j]
  OBVIOUS
<1>2. b \in Seq(S) /\ Len(b) = Len(s) - i /\ \A j \in 1..(Len(s) - i) : b[j] = s[j + i]
  OBVIOUS
<1> HIDE DEF a, b
<1>0. i \in Nat /\ Len(s) \in Nat
  OBVIOUS
<1>3. /\ a \o b \in Seq(S) /\ Len(a \o b) = Len(s) - 1
      /\ \A j \in 1..(Len(s) - 1) : (a \o b)[j] = IF j <= i - 1 THEN a[j] ELSE b[j - (i - 1)]
  <2>1. /\ a \o b \in Seq(S) /\ Len(a \o b) = Len(a) + Len(b)
        /\ \A j \in 1..(Len(a) + Len(b)) :
             (a \o b)[j] = IF j <= Len(a) THEN a[j] ELSE b[j - Len(a)]
    BY <1>1, <1>2, ConcatProperties
  <2>2. Len(a) + Len(b) = Len(s) - 1
    BY <1>0, <1>1, <1>2
  <2>3. QED
    BY <1>1, <2>1, <2>2
<1>4. \A j \in 1..(Len(s) - 1) : (a \o b)[j] = s[IF j < i THEN j ELSE j + 1]
  <2> TAKE j \in 1..(Len(s) - 1)
  <2>1. CASE j < i
    BY <1>1, <1>3, <2>1
  <2>2. CASE ~(j < i)
    <3>1. j - (i - 1) \in 1..(Len(s) - i) /\ (j - (i - 1)) + i = j + 1
      BY <2>2
    <3>2. QED
      BY <1>2, <1>3, <2>2, <3>1
  <2>3. QED
    BY <1>0, <2>1, <2>2
<1>5. QED
  BY <1>3, <1>4 DEF RemoveAt, a, b

LEMMA InsertAtFacts ==
  ASSUME NEW S, NEW s \in Seq(S), NEW i \in 1..(Len(s) + 1), NEW e \in S
  PROVE  /\ InsertAt(s, i, e) \in Seq(S)
         /\ Len(InsertAt(s, i, e)) = Len(s) + 1
         /\ \A j \in 1..(Len(s) + 1) :
              InsertAt(s, i, e)[j] = IF j < i THEN s[j] ELSE IF j = i THEN e ELSE s[j - 1]
<1> DEFINE a == SubSeq(s, 1, i - 1)
           b == SubSeq(s, i, Len(s))
<1>1. a \in Seq(S) /\ Len(a) = i - 1 /\ \A j \in 1..(i - 1) : a[j] = s[j]
  OBVIOUS
<1>2. /\ b \in Seq(S) /\ Len(b) = Len(s) - (i - 1)
      /\ \A j \in 1..(Len(s) - (i - 1)) : b[j] = s[j + (i - 1)]
  OBVIOUS
<1> HIDE DEF a, b
<1>3. /\ a \o <<e>> \in Seq(S) /\ Len(a \o <<e>>) = i
      /\ \A j \in 1..i : (a \o <<e>>)[j] = IF j < i THEN s[j] ELSE e
  BY <1>1
<1> DEFINE c == a \o <<e>>
<1> HIDE DEF c
<1>0. i \in Nat /\ Len(s) \in Nat
  OBVIOUS
<1>4. /\ c \o b \in Seq(S) /\ Len(c \o b) = Len(s) + 1
      /\ \A j \in 1..(Len(s) + 1) : (c \o b)[j] = IF j <= i THEN c[j] ELSE b[j - i]
  BY <1>2, <1>3, <1>0, ConcatProperties DEF c
<1>5. \A j \in 1..(Len(s) + 1) :
        (c \o b)[j] = IF j < i THEN s[j] ELSE IF j = i THEN e ELSE s[j - 1]
  <2> TAKE j \in 1..(Len(s) + 1)
  <2>1. CASE j <= i
    BY <1>3, <1>4, <2>1 DEF c
  <2>2. CASE ~(j <= i)
    <3>1. j - i \in 1..(Len(s) - (i - 1)) /\ (j - i) + (i - 1) = j - 1
      BY <2>2
    <3>2. QED
      BY <1>2, <1>4, <2>2, <3>1
  <2>3. QED
    BY <1>0, <2>1, <2>2
<1>6. QED
  BY <1>4, <1>5 DEF InsertAt, a, b, c

LEMMA PushedFacts ==
  ASSUME NEW n \in Nat, NEW l, IsList(l, n), NEW background \in BOOLEAN
  PROVE  LET m == Pushed(l, Tab(n + 1), background) IN
         /\ IsList(m, n + 1)
         /\ Ids(m) = Ids(l) \cup {n + 1}
         /\ Front(m.tabs) = l.tabs /\ Last(m.tabs).id = n + 1
         /\ m.active = IF background THEN l.active ELSE Len(m.tabs)
<1> DEFINE N == Len(l.tabs)
           t == Tab(n + 1)
           m == Pushed(l, t, background)
<1>1. /\ l.tabs \in Seq([id : Nat]) /\ l.active \in 0..N /\ N \in Nat /\ Positions(l) = 1..N
      /\ \A i \in 1..N : l.tabs[i].id \in 1..n
      /\ \A i, j \in 1..N : l.tabs[i].id = l.tabs[j].id => i = j
  BY DEF IsList, ListOf, Positions
<1>2. t \in [id : Nat] /\ t.id = n + 1
  BY DEF Tab
<1>3. /\ m.tabs = Append(l.tabs, t) /\ m.active = IF background THEN l.active ELSE N + 1
  BY DEF Pushed
<1>0. m = [tabs |-> m.tabs, active |-> m.active]
  BY DEF Pushed
<1> HIDE DEF N, t, m
<1>4. /\ m.tabs \in Seq([id : Nat]) /\ Len(m.tabs) = N + 1 /\ m.tabs[N + 1] = t
      /\ \A i \in 1..N : m.tabs[i] = l.tabs[i]
  BY <1>1, <1>2, <1>3, AppendProperties DEF N
<1>5. Positions(m) = 1..(N + 1) /\ m.active \in 0..(N + 1) /\ m \in [tabs : Seq([id : Nat]), active : Nat]
  <2>1. m.active \in 0..(N + 1) /\ m.active \in Nat
    BY <1>1, <1>3
  <2>2. m \in [tabs : Seq([id : Nat]), active : Nat]
    BY <1>0, <1>4, <2>1
  <2>3. QED
    BY <1>4, <2>1, <2>2 DEF Positions
<1>6. m.tabs[N + 1].id = n + 1 /\ \A i \in 1..N : m.tabs[i].id = l.tabs[i].id
  BY <1>2, <1>4
<1>12. 1..(N + 1) = 1..N \cup {N + 1} /\ 1..n \subseteq 1..(n + 1) /\ n + 1 \in 1..(n + 1) /\ n + 1 \notin 1..n
  BY <1>1
<1>7. IsList(m, n + 1)
  <2>1. \A i \in 1..(N + 1) : m.tabs[i].id \in 1..(n + 1)
    <3> TAKE i \in 1..(N + 1)
    <3>1. CASE i \in 1..N
      BY <1>1, <1>6, <1>12, <3>1, Zenon
    <3>2. CASE i = N + 1
      BY <1>6, <1>12, <3>2, Zenon
    <3>3. QED
      BY <1>12, <3>1, <3>2
  <2>2. ASSUME NEW i \in 1..(N + 1), NEW j \in 1..(N + 1), m.tabs[i].id = m.tabs[j].id PROVE i = j
    <3>1. CASE i \in 1..N /\ j \in 1..N
      <4>1. l.tabs[i].id = l.tabs[j].id
        BY <1>4, <2>2, <3>1
      <4>2. QED
        BY <1>1, <3>1, <4>1
    <3>2. CASE ~(i \in 1..N /\ j \in 1..N)
      <4>1. i \in 1..N \cup {N + 1} /\ j \in 1..N \cup {N + 1}
        BY <1>12
      <4>2. \A k \in 1..N : m.tabs[k].id # n + 1
        <5> TAKE k \in 1..N
        <5>1. m.tabs[k].id = l.tabs[k].id /\ l.tabs[k].id \in 1..n
          BY <1>1, <1>6
        <5>2. QED
          BY <1>12, <5>1
      <4>3. QED
        BY <1>6, <2>2, <3>2, <4>1, <4>2
    <3>3. QED
      BY <3>1, <3>2
  <2>3. QED
    BY <1>4, <1>5, <2>1, <2>2 DEF IsList, ListOf
<1>8. Ids(m) = Ids(l) \cup {n + 1}
  <2>1. Positions(m) = Positions(l) \cup {N + 1} /\ Positions(l) = 1..N
    BY <1>1, <1>5, <1>12
  <2>2. \A x : x \in Ids(m) => x \in Ids(l) \cup {n + 1}
    BY <1>6, <2>1 DEF Ids
  <2>3. \A x : x \in Ids(l) \cup {n + 1} => x \in Ids(m)
    BY <1>6, <2>1 DEF Ids
  <2>4. QED
    BY <2>2, <2>3
<1>9. Front(m.tabs) = l.tabs
  <2>0. Len(m.tabs) - 1 = N
    BY <1>1, <1>4
  <2>1. Front(m.tabs) = [i \in 1..N |-> m.tabs[i]]
    <3>1. Front(m.tabs) = SubSeq(m.tabs, 1, N)
      BY <2>0 DEF Front
    <3>2. QED
      BY <1>1, <1>4, <3>1
  <2>2. l.tabs = [i \in 1..N |-> l.tabs[i]]
    BY <1>1 DEF N
  <2>3. [i \in 1..N |-> m.tabs[i]] = [i \in 1..N |-> l.tabs[i]]
    BY <1>4
  <2>4. QED
    BY <2>1, <2>2, <2>3
<1>10. Last(m.tabs).id = n + 1 /\ m.active = IF background THEN l.active ELSE Len(m.tabs)
  BY <1>2, <1>3, <1>4 DEF Last
<1>11. QED
  BY <1>7, <1>8, <1>9, <1>10 DEF m, t

LEMMA PositionIs ==
  ASSUME NEW R, NEW n \in Nat, NEW l, ListOf(R, l, n), NEW id \in Ids(l)
  PROVE  /\ PositionOf(l, id) \in Positions(l) /\ l.tabs[PositionOf(l, id)].id = id
         /\ \A i \in Positions(l) : l.tabs[i].id = id => i = PositionOf(l, id)
BY DEF PositionOf, Ids, ListOf

LEMMA PositionFacts ==
  ASSUME NEW n \in Nat, NEW l, IsList(l, n), NEW id \in Ids(l)
  PROVE  /\ PositionOf(l, id) \in Positions(l) /\ l.tabs[PositionOf(l, id)].id = id
         /\ \A i \in Positions(l) : l.tabs[i].id = id => i = PositionOf(l, id)
BY DEF PositionOf, Ids, IsList, ListOf

LEMMA SelectedFacts ==
  ASSUME NEW n \in Nat, NEW l, IsList(l, n), NEW id \in Ids(l)
  PROVE  /\ IsList(Selected(l, id), n)
         /\ [l EXCEPT !.active = Selected(l, id).active] = Selected(l, id)
<1>1. PositionOf(l, id) \in Positions(l)
  BY PositionFacts
<1>2. l \in [tabs : Seq([id : Nat]), active : Nat] /\ Positions(l) = 1..Len(l.tabs)
  BY DEF IsList, ListOf, Positions
<1>3. Selected(l, id) = [tabs |-> l.tabs, active |-> PositionOf(l, id)]
  BY <1>2 DEF Selected
<1>4. Positions(Selected(l, id)) = Positions(l) /\ PositionOf(l, id) \in 0..Len(l.tabs) /\ PositionOf(l, id) \in Nat
  BY <1>1, <1>2, <1>3 DEF Positions
<1> DEFINE m == Selected(l, id)
<1>5. IsList(m, n)
  <2>1. m.tabs = l.tabs /\ m.active = PositionOf(l, id) /\ m \in [tabs : Seq([id : Nat]), active : Nat]
    BY <1>2, <1>3, <1>4
  <2>2. Positions(m) = Positions(l)
    BY <1>4
  <2> HIDE DEF m
  <2>3. m.active \in 0..Len(m.tabs)
    BY <1>4, <2>1
  <2>4. QED
    BY <2>1, <2>2, <2>3 DEF IsList, ListOf
<1>6. QED
  BY <1>2, <1>3, <1>5

LEMMA WithoutKeeps ==
  ASSUME NEW R, NEW n \in Nat, NEW l, ListOf(R, l, n), NEW id \in Ids(l)
  PROVE  /\ ListOf(R, Without(l, id), n) /\ Ids(Without(l, id)) = Ids(l) \ {id}
         /\ TabsOf(Without(l, id)) = {r \in TabsOf(l) : r.id # id}
         /\ ~IsActive(l, id) => SameActive(l, Without(l, id))
<1> DEFINE i == PositionOf(l, id)
           left == RemoveAt(l.tabs, i)
           m == Without(l, id)
           N == Len(l.tabs)
<1>1. i \in Positions(l) /\ l.tabs[i].id = id /\ \A j \in Positions(l) : l.tabs[j].id = id => j = i
  BY PositionIs
<1>2. l.tabs \in Seq(R) /\ l.active \in 0..N /\ N \in Nat /\ Positions(l) = 1..N /\ i \in 1..N
  BY <1>1 DEF ListOf, Positions
<1>3. /\ left \in Seq(R) /\ Len(left) = N - 1
      /\ \A j \in 1..(N - 1) : left[j] = l.tabs[IF j < i THEN j ELSE j + 1]
  BY <1>2, RemoveAtFacts
<1>4. IsActive(l, id) => l.active = i
  BY <1>1, <1>2 DEF IsActive, ActiveTab, Positions
<1>5. /\ m = [tabs |-> left, active |-> m.active]
      /\ m.active = IF IsActive(l, id) THEN (IF l.active > Len(left) THEN Len(left) ELSE l.active)
                    ELSE (IF i < l.active THEN l.active - 1 ELSE l.active)
  BY <1>4 DEF Without, WithoutActive
<1> HIDE DEF i, left, m, N
<1>6. ~IsActive(l, id) => l.active # i
  BY <1>1 DEF IsActive, ActiveTab, Positions
<1>7. m.tabs = left /\ m.active \in 0..Len(left)
  <2>1. CASE IsActive(l, id)
    <3>1. m.active = IF l.active > N - 1 THEN N - 1 ELSE l.active
      BY <1>3, <1>5, <2>1
    <3>2. QED
      BY <1>2, <1>3, <1>5, <3>1
  <2>2. CASE ~IsActive(l, id)
    <3>1. m.active = IF i < l.active THEN l.active - 1 ELSE l.active
      BY <1>5, <2>2
    <3>2. l.active # i
      BY <1>6, <2>2
    <3>3. QED
      BY <1>2, <1>3, <1>5, <3>1, <3>2
  <2>3. QED
    BY <2>1, <2>2
<1>8. Positions(m) = 1..(N - 1)
  BY <1>3, <1>7 DEF Positions
<1>9. ASSUME NEW j \in Positions(m)
      PROVE  LET k == IF j < i THEN j ELSE j + 1
             IN  k \in Positions(l) /\ k # i /\ m.tabs[j] = l.tabs[k]
  <2>1. j \in 1..(N - 1) /\ m.tabs[j] = l.tabs[IF j < i THEN j ELSE j + 1]
    BY <1>3, <1>7, <1>8
  <2>2. (IF j < i THEN j ELSE j + 1) \in 1..N /\ (IF j < i THEN j ELSE j + 1) # i
    BY <1>2, <2>1
  <2>3. QED
    BY <1>2, <2>1, <2>2
<1>10. ASSUME NEW k \in Positions(l), k # i
       PROVE  LET j == IF k < i THEN k ELSE k - 1
              IN  j \in Positions(m) /\ m.tabs[j] = l.tabs[k]
  <2> DEFINE j == IF k < i THEN k ELSE k - 1
  <2>1. j \in 1..(N - 1) /\ (IF j < i THEN j ELSE j + 1) = k
    BY <1>2, <1>10
  <2> HIDE DEF j
  <2>2. left[j] = l.tabs[k]
    BY <1>3, <2>1
  <2>3. QED
    BY <1>7, <1>8, <2>1, <2>2 DEF j
<1>11. ListOf(R, m, n)
  <2>1. m \in [tabs : Seq(R), active : Nat] /\ m.active \in 0..Len(m.tabs)
    BY <1>3, <1>5, <1>7
  <2>2. \A j \in Positions(m) : m.tabs[j].id \in 1..n
    BY <1>9 DEF ListOf
  <2>3. ASSUME NEW j \in Positions(m), NEW k \in Positions(m), m.tabs[j].id = m.tabs[k].id PROVE j = k
    <3>1. j \in Nat /\ k \in Nat /\ i \in Nat
      BY <1>2, <1>8
    <3>2. (IF j < i THEN j ELSE j + 1) = (IF k < i THEN k ELSE k + 1)
      BY <1>9, <2>3 DEF ListOf
    <3>3. QED
      BY <3>1, <3>2
  <2>4. QED
    BY <2>1, <2>2, <2>3 DEF ListOf
<1>12. Ids(m) = Ids(l) \ {id}
  <2>1. Ids(m) \subseteq Ids(l) \ {id}
    BY <1>1, <1>9 DEF Ids
  <2>2. Ids(l) \ {id} \subseteq Ids(m)
    BY <1>1, <1>10 DEF Ids
  <2>3. QED
    BY <2>1, <2>2
<1>13. TabsOf(m) = {r \in TabsOf(l) : r.id # id}
  <2>1. TabsOf(m) \subseteq {r \in TabsOf(l) : r.id # id}
    BY <1>1, <1>9 DEF TabsOf
  <2>2. {r \in TabsOf(l) : r.id # id} \subseteq TabsOf(m)
    BY <1>1, <1>10 DEF TabsOf
  <2>3. QED
    BY <2>1, <2>2
<1>14. ~IsActive(l, id) => SameActive(l, m)
  <2> SUFFICES ASSUME ~IsActive(l, id) PROVE SameActive(l, m)
    OBVIOUS
  <2>1. m.active = (IF i < l.active THEN l.active - 1 ELSE l.active) /\ l.active # i
    BY <1>5, <1>6
  <2>2. CASE l.active = 0
    BY <1>2, <2>1, <2>2 DEF SameActive
  <2>3. CASE l.active # 0
    <3>1. l.active \in Positions(l) /\ m.active = (IF l.active < i THEN l.active ELSE l.active - 1)
          /\ m.active # 0
      BY <1>2, <2>1, <2>3
    <3>2. m.tabs[m.active] = l.tabs[l.active]
      BY <1>10, <2>1, <3>1
    <3>3. QED
      BY <2>3, <3>1, <3>2 DEF SameActive, ActiveTab
  <2>4. QED
    BY <2>2, <2>3
<1>15. QED
  BY <1>11, <1>12, <1>13, <1>14 DEF m

LEMMA MovedKeeps ==
  ASSUME NEW R, NEW n \in Nat, NEW l, ListOf(R, l, n), NEW from \in Positions(l), NEW to \in Positions(l)
  PROVE  /\ ListOf(R, Moved(l, from, to), n)
         /\ TabsOf(Moved(l, from, to)) = TabsOf(l) /\ SameActive(l, Moved(l, from, to))
<1> DEFINE target == IF to > from THEN to - 1 ELSE to
           rest == RemoveAt(l.tabs, from)
           order == InsertAt(rest, target, l.tabs[from])
           m == Moved(l, from, to)
           N == Len(l.tabs)
           Source(k) == IF k = target THEN from
                        ELSE IF k < target THEN (IF k < from THEN k ELSE k + 1)
                        ELSE (IF k - 1 < from THEN k - 1 ELSE k)
           Place(k) == IF k = from THEN target
                       ELSE LET j == IF k < from THEN k ELSE k - 1
                            IN  IF j < target THEN j ELSE j + 1
<1>1. /\ l.tabs \in Seq(R) /\ l.active \in 0..N /\ N \in Nat /\ Positions(l) = 1..N
      /\ from \in 1..N /\ to \in 1..N /\ target \in 1..N
  BY DEF ListOf, Positions
<1>2. /\ rest \in Seq(R) /\ Len(rest) = N - 1
      /\ \A j \in 1..(N - 1) : rest[j] = l.tabs[IF j < from THEN j ELSE j + 1]
  BY <1>1, RemoveAtFacts
<1>3. l.tabs[from] \in R
  BY <1>1, ElementOfSeq
<1> HIDE DEF rest, target
<1>4. /\ order \in Seq(R) /\ Len(order) = N
      /\ \A j \in 1..N :
           order[j] = IF j < target THEN rest[j] ELSE IF j = target THEN l.tabs[from] ELSE rest[j - 1]
  <2>1. target \in 1..(Len(rest) + 1) /\ (Len(rest) + 1) = N
    BY <1>1, <1>2
  <2>2. /\ order \in Seq(R) /\ Len(order) = Len(rest) + 1
        /\ \A j \in 1..(Len(rest) + 1) :
             order[j] = IF j < target THEN rest[j] ELSE IF j = target THEN l.tabs[from] ELSE rest[j - 1]
    <3> DEFINE T == R
               e == l.tabs[from]
    <3>1. rest \in Seq(T) /\ e \in T
      BY <1>2, <1>3
    <3> HIDE DEF T, e
    <3>2. /\ InsertAt(rest, target, e) \in Seq(T) /\ Len(InsertAt(rest, target, e)) = Len(rest) + 1
          /\ \A j \in 1..(Len(rest) + 1) :
               InsertAt(rest, target, e)[j] = IF j < target THEN rest[j] ELSE IF j = target THEN e ELSE rest[j - 1]
      BY <2>1, <3>1, InsertAtFacts
    <3>3. QED
      BY <3>2 DEF T, e
  <2> HIDE DEF order, N
  <2>3. QED
    BY <2>1, <2>2
<1> HIDE DEF order, N
<1>5. ASSUME NEW k \in 1..N PROVE Source(k) \in 1..N /\ order[k] = l.tabs[Source(k)]
  <2>1. CASE k < target
    <3>1. k \in 1..(N - 1) /\ order[k] = rest[k]
      BY <1>1, <1>4, <2>1
    <3>2. rest[k] = l.tabs[IF k < from THEN k ELSE k + 1]
      BY <1>2, <3>1
    <3>3. k # target
      BY <1>1, <2>1
    <3>4. Source(k) = IF k < from THEN k ELSE k + 1
      BY <2>1, <3>3
    <3>5. QED
      BY <1>1, <3>1, <3>2, <3>4
  <2>2. CASE k = target
    BY <1>1, <1>2, <1>4, <2>2
  <2>3. CASE ~(k <= target)
    <3>1. k - 1 \in 1..(N - 1)
      BY <1>1, <2>3
    <3>2. order[k] = rest[k - 1]
      BY <1>1, <1>4, <2>3
    <3>3. rest[k - 1] = l.tabs[IF k - 1 < from THEN k - 1 ELSE k]
      BY <1>1, <1>2, <3>1
    <3>4. QED
      BY <1>1, <2>3, <3>2, <3>3
  <2>4. QED
    BY <1>1, <2>1, <2>2, <2>3
<1>6. ASSUME NEW k \in 1..N PROVE Place(k) \in 1..N /\ Source(Place(k)) = k
  BY <1>1
<1>7. ASSUME NEW j \in 1..N, NEW k \in 1..N, Source(j) = Source(k) PROVE j = k
  BY <1>1, <1>7
<1>8. /\ m = [tabs |-> order, active |-> m.active]
      /\ m.active = IF l.active = 0 THEN 0
                    ELSE PositionOf([l EXCEPT !.tabs = order], ActiveTab(l).id)
  BY DEF Moved, order, rest, target
<1> HIDE DEF m, Source, Place
<1>9. m.active \in 0..N
  <2>1. ASSUME l.active # 0 PROVE m.active \in 1..N
    <3>1. l.active \in 1..N /\ Place(l.active) \in 1..N
      BY <1>1, <1>6, <2>1
    <3>2. order[Place(l.active)] = l.tabs[l.active]
      BY <1>5, <1>6, <3>1
    <3>3. [l EXCEPT !.tabs = order].tabs = order
      BY DEF ListOf
    <3>4. m.active = CHOOSE i \in 1..N : order[i].id = l.tabs[l.active].id
      BY <1>4, <1>8, <2>1, <3>3 DEF PositionOf, Positions, ActiveTab
    <3>5. QED
      BY <3>1, <3>2, <3>4
  <2>2. QED
    BY <1>1, <1>8, <2>1
<1>10. ListOf(R, m, n)
  <2>1. m \in [tabs : Seq(R), active : Nat] /\ m.active \in 0..Len(m.tabs) /\ Positions(m) = 1..N
    BY <1>4, <1>8, <1>9 DEF Positions
  <2>2. \A j \in Positions(m) : m.tabs[j].id \in 1..n
    BY <1>1, <1>5, <1>8, <2>1 DEF ListOf
  <2>3. ASSUME NEW j \in Positions(m), NEW k \in Positions(m), m.tabs[j].id = m.tabs[k].id PROVE j = k
    <3>1. l.tabs[Source(j)].id = l.tabs[Source(k)].id /\ Source(j) \in 1..N /\ Source(k) \in 1..N
      BY <1>5, <1>8, <2>1, <2>3
    <3>2. Source(j) = Source(k)
      BY <1>1, <3>1 DEF ListOf
    <3>3. QED
      BY <1>7, <2>1, <3>2
  <2>4. QED
    BY <2>1, <2>2, <2>3 DEF ListOf
<1>11. TabsOf(m) = TabsOf(l)
  <2>1. Positions(m) = 1..N
    BY <1>4, <1>8 DEF Positions
  <2>2. ASSUME NEW k \in 1..N PROVE l.tabs[k] = order[Place(k)] /\ Place(k) \in 1..N
    BY <1>5, <1>6
  <2>0. m.tabs = order /\ Positions(l) = 1..N
    BY <1>1, <1>8
  <2>3. TabsOf(m) \subseteq TabsOf(l)
    <3> SUFFICES ASSUME NEW k \in 1..N PROVE order[k] \in TabsOf(l)
      BY <2>0, <2>1 DEF TabsOf
    <3>1. Source(k) \in 1..N /\ order[k] = l.tabs[Source(k)]
      BY <1>5
    <3>2. QED
      BY <2>0, <3>1 DEF TabsOf
  <2>4. TabsOf(l) \subseteq TabsOf(m)
    <3> SUFFICES ASSUME NEW k \in 1..N PROVE l.tabs[k] \in TabsOf(m)
      BY <2>0 DEF TabsOf
    <3>1. QED
      BY <2>0, <2>1, <2>2 DEF TabsOf
  <2>5. QED
    BY <2>3, <2>4
<1>12. SameActive(l, m)
  <2>1. CASE l.active = 0
    BY <1>8, <2>1 DEF SameActive
  <2>2. CASE l.active # 0
    <3>1. l.active \in 1..N /\ Place(l.active) \in 1..N
      BY <1>1, <1>6, <2>2
    <3>2. order[Place(l.active)] = l.tabs[l.active]
      BY <1>5, <1>6, <3>1
    <3>3. [l EXCEPT !.tabs = order].tabs = order
      BY DEF ListOf
    <3>4. m.active = CHOOSE i \in 1..N : order[i].id = l.tabs[l.active].id
      BY <1>4, <1>8, <2>2, <3>3 DEF PositionOf, Positions, ActiveTab
    <3>5. m.active \in 1..N /\ order[m.active].id = l.tabs[l.active].id
      BY <3>1, <3>2, <3>4
    <3>6. Source(m.active) \in 1..N /\ order[m.active] = l.tabs[Source(m.active)]
      BY <1>5, <3>5
    <3>7. Source(m.active) = l.active
      BY <1>1, <3>1, <3>5, <3>6 DEF ListOf
    <3>8. m.active # 0 /\ m.tabs[m.active] = l.tabs[l.active]
      BY <1>1, <1>8, <3>5, <3>6, <3>7
    <3>9. QED
      BY <2>2, <3>8 DEF SameActive, ActiveTab
  <2>3. QED
    BY <2>1, <2>2
<1>13. QED
  BY <1>10, <1>11, <1>12 DEF m

LEMMA WithoutFacts ==
  ASSUME NEW n \in Nat, NEW l, IsList(l, n), NEW id \in Ids(l)
  PROVE  IsList(Without(l, id), n) /\ Ids(Without(l, id)) = Ids(l) \ {id}
BY WithoutKeeps DEF IsList

LEMMA MovedFacts ==
  ASSUME NEW n \in Nat, NEW l, IsList(l, n), NEW from \in Positions(l), NEW to \in Positions(l)
  PROVE  IsList(Moved(l, from, to), n)
BY MovedKeeps DEF IsList

-----------------------------------------------------------------------------
(* The inductive invariant.                                                *)

\* The commands somebody waits for, and the others.
Waited ==
  [op : {"open"}, background : BOOLEAN, heard : BOOLEAN]
    \cup [op : {"close"}, id : Nat, heard : BOOLEAN]
    \cup [op : {"closeActive"}, heard : BOOLEAN]
Plain ==
  [op : {"select", "resolve"}, id : Nat] \cup [op : {"move"}, from : Nat, to : Nat]
    \cup [op : {"other", "shutdown"}]
Commands == Waited \cup Plain
Ops == {"none", "open", "close", "closeActive"}

TypeOK ==
  /\ QueueLen \in Nat
  /\ phase \in {"open", "closing", "dropping", "joining", "joined"}
  /\ worker \in {"starting", "running", "gone"}
  /\ call \in [op : Ops, id : Nat] /\ reply \in [op : Ops, id : Nat]
  /\ cmds \in Seq(Commands)
  /\ opening \in [id : Nat, background : BOOLEAN, heard : BOOLEAN]
  /\ minted \in Nat /\ answers \in Seq(Nat) /\ queued \subseteq 1..Len(answers)

\* The channel never holds more than its places, and dies with the worker;
\* no call is made once the application closes.
ChannelInv ==
  /\ Len(cmds) <= QueueLen
  /\ worker = "gone" => cmds = <<>>
  /\ phase # "open" => call = NoCall

\* The mirror is the worker's list, or that list with the tab being built.
MirrorInv ==
  IF opening = NoOpening THEN mirror = views /\ IsList(views, minted)
  ELSE /\ worker = "running" /\ minted > 0 /\ opening.id = minted
       /\ IsList(views, minted - 1)
       /\ mirror = Pushed(views, Tab(minted), opening.background)

Heard(cmd) == cmd \in Waited /\ cmd.heard
Matches(cmd) == Heard(cmd) /\ cmd.op = call.op /\ (cmd.op = "close" => cmd.id = call.id)

\* A caller that waits: its command is the last one in the channel and the only
\* one that is heard, or its tab is being built, or it has its reply, and in the
\* last two cases nothing is left in the channel that could change the mirror.
Waits ==
  /\ reply = NoReply /\ ~opening.heard
  /\ worker # "gone" =>
       /\ cmds # <<>> /\ Matches(cmds[Len(cmds)])
       /\ \A i \in 1..(Len(cmds) - 1) : ~Heard(cmds[i])
Opens == reply = NoReply /\ opening.heard /\ call.op = "open" /\ cmds = <<>>
Replied ==
  reply # NoReply /\ opening = NoOpening /\ cmds = <<>> /\ worker = "running" /\ ReplyIsTrue

CallInv ==
  IF call = NoCall
  THEN reply = NoReply /\ ~opening.heard /\ \A i \in 1..Len(cmds) : ~Heard(cmds[i])
  ELSE Waits \/ Opens \/ Replied

\* A request is in the map until WebKit has its one answer.
AnswerInv ==
  /\ pending \subseteq 1..Len(answers)
  /\ worker = "starting" => answers = <<>>
  /\ worker = "gone" => pending = {}
  /\ AnsweredOnce

IInv == TypeOK /\ ChannelInv /\ MirrorInv /\ CallInv /\ AnswerInv

LEMMA InvInit == QueueLen \in Nat /\ Init => IInv
<1> SUFFICES ASSUME QueueLen \in Nat, Init PROVE IInv
  OBVIOUS
<1>1. TypeOK
  BY DEF Init, TypeOK, NoCall, NoReply, NoOpening, Ops
<1>2. ChannelInv /\ CallInv
  BY DEF Init, ChannelInv, CallInv, NoCall, NoReply, NoOpening
<1>3. MirrorInv
  BY DEF Init, MirrorInv, IsList, ListOf, EmptyList, Positions
<1>4. AnswerInv
  BY DEF Init, AnswerInv, AnsweredOnce
<1>5. QED
  BY <1>1, <1>2, <1>3, <1>4 DEF IInv

LEMMA TailFacts ==
  ASSUME NEW S, NEW s \in Seq(S), s # <<>>
  PROVE  /\ Head(s) = s[1] /\ Head(s) \in S /\ Len(s) \in Nat \ {0}
         /\ Tail(s) \in Seq(S) /\ Len(Tail(s)) = Len(s) - 1
         /\ \A i \in 1..(Len(s) - 1) : Tail(s)[i] = s[i + 1]
OBVIOUS

\* The worker takes a command: if somebody waits for it, the channel is empty
\* after it, and if not, whoever waits goes on waiting.
LEMMA TakeFacts ==
  ASSUME IInv, Idle, cmds # <<>>, cmds' = Tail(cmds)
  PROVE  /\ Head(cmds) \in Commands /\ cmds' \in Seq(Commands) /\ Len(cmds') <= QueueLen
         /\ Heard(Head(cmds)) =>
              call # NoCall /\ reply = NoReply /\ cmds' = <<>> /\ Matches(Head(cmds))
         /\ ~Heard(Head(cmds)) /\ call' = call /\ reply' = reply /\ worker' = worker
              /\ ~opening'.heard => CallInv'
<1> USE TailFacts
<1>1. cmds \in Seq(Commands) /\ Len(cmds) <= QueueLen /\ QueueLen \in Nat
  BY DEF IInv, TypeOK, ChannelInv
<1>2. /\ Head(cmds) = cmds[1] /\ Head(cmds) \in Commands /\ Len(cmds) \in Nat \ {0}
      /\ cmds' \in Seq(Commands) /\ Len(cmds') = Len(cmds) - 1
      /\ \A i \in 1..(Len(cmds) - 1) : cmds'[i] = cmds[i + 1]
  BY <1>1
<1>3. ~opening.heard /\ worker = "running" /\ opening = NoOpening
  BY DEF Idle, NoOpening
<1>4. IF call = NoCall THEN reply = NoReply /\ \A i \in 1..Len(cmds) : ~Heard(cmds[i])
      ELSE /\ reply = NoReply /\ Matches(cmds[Len(cmds)])
           /\ \A i \in 1..(Len(cmds) - 1) : ~Heard(cmds[i])
  BY <1>3 DEF IInv, CallInv, Waits, Opens, Replied
<1>5. ASSUME Heard(Head(cmds))
      PROVE  call # NoCall /\ reply = NoReply /\ cmds' = <<>> /\ Matches(Head(cmds))
  <2>1. call # NoCall /\ Len(cmds) = 1
    BY <1>2, <1>4, <1>5
  <2>2. QED
    BY <1>2, <1>4, <2>1
<1>6. ASSUME ~Heard(Head(cmds)), call' = call, reply' = reply, worker' = worker, ~opening'.heard
      PROVE  CallInv'
  <2>1. CASE call = NoCall
    <3>1. \A i \in 1..Len(cmds') : ~Heard(cmds'[i])
      BY <1>2, <1>4, <2>1
    <3>2. \A i \in 1..Len(cmds') : ~Heard(cmds[i])'
      BY <3>1 DEF Heard
    <3>3. QED
      BY <1>4, <1>6, <2>1, <3>2 DEF CallInv, NoCall, NoReply
  <2>2. CASE call # NoCall
    <3>1. Matches(cmds[Len(cmds)]) /\ Len(cmds) # 1
      BY <1>2, <1>4, <1>6, <2>2 DEF Matches
    <3>2. cmds' # <<>> /\ cmds'[Len(cmds')] = cmds[Len(cmds)]
      <4>1. Len(cmds') \in 1..(Len(cmds) - 1) /\ Len(cmds') + 1 = Len(cmds)
        BY <1>2, <3>1
      <4>2. cmds'[Len(cmds')] = cmds[Len(cmds') + 1]
        BY <1>2, <4>1
      <4>3. cmds' # <<>>
        BY <4>1, Len(<<>>) = 0
      <4>4. QED
        BY <4>1, <4>2, <4>3
    <3>3. \A i \in 1..(Len(cmds') - 1) : ~Heard(cmds'[i])
      BY <1>2, <1>4, <2>2
    <3>4. Waits'
      BY <1>4, <1>6, <2>2, <3>1, <3>2, <3>3 DEF Waits, Matches, Heard, NoReply
    <3>5. QED
      BY <1>6, <2>2, <3>4 DEF CallInv, NoCall
  <2>3. QED
    BY <2>1, <2>2
<1>7. QED
  BY <1>1, <1>2, <1>5, <1>6

LEMMA UnheardFacts ==
  ASSUME NEW q \in Seq(Commands)
  PROVE  /\ Unheard(q) \in Seq(Commands) /\ Len(Unheard(q)) = Len(q)
         /\ \A i \in 1..Len(q) : ~Heard(Unheard(q)[i])
<1> DEFINE quiet(c) == IF "heard" \in DOMAIN c THEN [c EXCEPT !.heard = FALSE] ELSE c
<1>1. ASSUME NEW c \in Commands PROVE quiet(c) \in Commands /\ ~Heard(quiet(c))
  <2>1. CASE c \in [op : {"open"}, background : BOOLEAN, heard : BOOLEAN]
    BY <2>1 DEF Commands, Waited, Heard
  <2>2. CASE c \in [op : {"close"}, id : Nat, heard : BOOLEAN]
    BY <2>2 DEF Commands, Waited, Heard
  <2>3. CASE c \in [op : {"closeActive"}, heard : BOOLEAN]
    BY <2>3 DEF Commands, Waited, Heard
  <2>4. CASE c \in Plain
    <3>1. "heard" \notin DOMAIN c
      BY <2>4 DEF Plain
    <3>2. c \notin Waited
      BY <3>1 DEF Waited
    <3>3. QED
      BY <2>4, <3>1, <3>2 DEF Commands, Heard
  <2>5. QED
    BY <2>1, <2>2, <2>3, <2>4 DEF Commands, Waited
<1>2. Unheard(q) = [i \in 1..Len(q) |-> quiet(q[i])] /\ Len(q) \in Nat
  BY DEF Unheard
<1>3. \A i \in 1..Len(q) : quiet(q[i]) \in Commands /\ ~Heard(quiet(q[i]))
  BY <1>1, ElementOfSeq
<1> HIDE DEF quiet
<1>4. QED
  BY <1>2, <1>3

-----------------------------------------------------------------------------
(* The application's steps.                                                *)

\* What Sent does to the channel.
LEMMA SentFacts ==
  ASSUME IInv, NEW c \in Commands
  PROVE  LET q == Sent(cmds, c) IN
         /\ q \in Seq(Commands) /\ Len(q) <= QueueLen
         /\ worker = "gone" => q = <<>>
         /\ ~Heard(c) /\ call = NoCall => \A i \in 1..Len(q) : ~Heard(q[i])
<1>1. cmds \in Seq(Commands) /\ Len(cmds) <= QueueLen /\ QueueLen \in Nat
  BY DEF IInv, TypeOK, ChannelInv
<1>2. /\ Append(cmds, c) \in Seq(Commands) /\ Len(Append(cmds, c)) = Len(cmds) + 1
      /\ \A i \in 1..Len(cmds) : Append(cmds, c)[i] = cmds[i]
      /\ Append(cmds, c)[Len(cmds) + 1] = c
  BY <1>1, AppendProperties
<1>3. CASE Fits(cmds)
  <2>1. Sent(cmds, c) = Append(cmds, c) /\ Len(cmds) < QueueLen /\ worker # "gone"
    BY <1>3 DEF Sent, Fits
  <2>2. call = NoCall => \A i \in 1..Len(cmds) : ~Heard(cmds[i])
    BY DEF IInv, CallInv
  <2>3. QED
    BY <1>1, <1>2, <2>1, <2>2
<1>4. CASE ~Fits(cmds)
  <2>1. Sent(cmds, c) = cmds
    BY <1>4 DEF Sent
  <2>2. call = NoCall => \A i \in 1..Len(cmds) : ~Heard(cmds[i])
    BY DEF IInv, CallInv
  <2>3. QED
    BY <1>1, <2>1, <2>2 DEF IInv, ChannelInv
<1>5. QED
  BY <1>3, <1>4

\* The parts that speak of the worker's side only.
WorkerSide == MirrorInv /\ AnswerInv

LEMMA AppSteps ==
  ASSUME IInv, UNCHANGED <<worker, views, mirror, minted, pending, answers>>,
         opening' = opening \/ opening' = [opening EXCEPT !.heard = FALSE]
  PROVE  /\ opening' \in [id : Nat, background : BOOLEAN, heard : BOOLEAN]
         /\ WorkerSide'
<1>1. /\ opening' \in [id : Nat, background : BOOLEAN, heard : BOOLEAN]
      /\ opening'.id = opening.id /\ opening'.background = opening.background
      /\ opening = NoOpening <=> opening' = NoOpening
  <2>1. opening \in [id : Nat, background : BOOLEAN, heard : BOOLEAN]
    BY DEF IInv, TypeOK
  <2>2. opening = NoOpening \/ opening.id > 0
    BY DEF IInv, MirrorInv
  <2>3. opening' \in [id : Nat, background : BOOLEAN, heard : BOOLEAN]
        /\ opening'.id = opening.id /\ opening'.background = opening.background
        /\ opening'.heard \in {opening.heard, FALSE}
    BY <2>1
  <2>4. CASE opening = NoOpening
    <3>1. opening' = [id |-> opening'.id, background |-> opening'.background, heard |-> opening'.heard]
      BY <2>3
    <3>2. opening'.id = 0 /\ opening'.background = FALSE /\ opening'.heard = FALSE
      BY <2>3, <2>4 DEF NoOpening
    <3>3. opening' = NoOpening
      BY <3>1, <3>2 DEF NoOpening
    <3>4. QED
      BY <2>3, <2>4, <3>3
  <2>5. CASE opening.id > 0
    BY <2>3, <2>5 DEF NoOpening
  <2>6. QED
    BY <2>2, <2>4, <2>5
<1>2. MirrorInv'
  BY <1>1 DEF IInv, MirrorInv, IsList, ListOf, Pushed, Tab, NoOpening, Positions
<1>3. AnswerInv'
  BY DEF IInv, AnswerInv, AnsweredOnce
<1>4. QED
  BY <1>1, <1>2, <1>3 DEF WorkerSide

\* Nobody waits, and what is sent is not heard.
LEMMA SendKeeps ==
  ASSUME IInv, call = NoCall, NEW c \in Plain, cmds' = Sent(cmds, c),
         UNCHANGED <<call, reply, worker, opening, views, mirror, minted, pending, answers>>,
         phase' \in {"open", "closing", "dropping", "joining", "joined"}, queued' \subseteq queued
  PROVE  IInv'
<1>1. c \in Commands /\ ~Heard(c)
  BY DEF Commands, Plain, Heard, Waited
<1>2. /\ cmds' \in Seq(Commands) /\ Len(cmds') <= QueueLen
      /\ worker = "gone" => cmds' = <<>>
      /\ \A i \in 1..Len(cmds') : ~Heard(cmds'[i])
  BY <1>1, SentFacts
<1>3. TypeOK'
  BY <1>2 DEF IInv, TypeOK
<1>4. ChannelInv'
  BY <1>2 DEF ChannelInv, NoCall
<1>5. CallInv'
  BY <1>2 DEF IInv, CallInv, Heard, NoCall, NoReply
<1>6. QED
  BY <1>3, <1>4, <1>5, AppSteps DEF IInv, WorkerSide

\* A command is sent that the caller then waits for.
LEMMA CallKeeps ==
  ASSUME IInv, NEW cmd \in Waited, NEW id \in Nat, Call(cmd, id), cmd.heard,
         cmd.op = "close" => cmd.id = id
  PROVE  IInv'
<1>1. /\ call = NoCall /\ phase = "open" /\ worker # "gone"
      /\ cmds' = Append(cmds, cmd) /\ call' = [op |-> cmd.op, id |-> id]
      /\ UNCHANGED <<phase, reply, worker, opening, views, mirror, minted, pending, queued, answers>>
      /\ Len(cmds) < QueueLen
  BY DEF Call, Free, Fits, tabVars, requestVars
<1>2. cmd \in Commands /\ Heard(cmd) /\ cmd.op \in {"open", "close", "closeActive"}
  BY DEF Commands, Heard, Waited
<1>3. cmds \in Seq(Commands)
  BY DEF IInv, TypeOK
<1>4. /\ cmds' \in Seq(Commands) /\ Len(cmds') = Len(cmds) + 1 /\ cmds' # <<>>
      /\ \A i \in 1..Len(cmds) : cmds'[i] = cmds[i]
      /\ cmds'[Len(cmds')] = cmd /\ Len(cmds) \in Nat
  BY <1>1, <1>2, <1>3, AppendProperties
<1>5. TypeOK'
  BY <1>1, <1>2, <1>4 DEF IInv, TypeOK, Ops
<1>6. ChannelInv'
  BY <1>1, <1>4, <1>5 DEF IInv, ChannelInv, TypeOK
<1>7. CallInv'
  <2>1. reply = NoReply /\ ~opening.heard /\ \A i \in 1..Len(cmds) : ~Heard(cmds[i])
    BY <1>1 DEF IInv, CallInv
  <2>2. \A i \in 1..(Len(cmds') - 1) : ~Heard(cmds'[i])
    BY <1>4, <2>1
  <2>3. Matches(cmd)'
    BY <1>1, <1>2 DEF Matches, Heard
  <2>4. Waits'
    BY <1>1, <1>4, <2>1, <2>2, <2>3 DEF Waits, Matches, Heard, NoReply
  <2>5. call' # NoCall
    BY <1>1, <1>2 DEF NoCall
  <2>6. QED
    BY <2>4, <2>5 DEF CallInv, NoCall
<1>8. QED
  BY <1>1, <1>5, <1>6, <1>7, AppSteps DEF IInv, WorkerSide

LEMMA ReturnKeeps == IInv /\ Return => IInv'
<1> SUFFICES ASSUME IInv, Return PROVE IInv'
  OBVIOUS
<1>1. /\ call # NoCall /\ (reply # NoReply \/ worker = "gone")
      /\ call' = NoCall /\ reply' = NoReply
      /\ UNCHANGED <<phase, cmds, worker, opening, views, mirror, minted, pending, queued, answers>>
  BY DEF Return, tabVars, requestVars
<1>2. ~opening.heard /\ cmds = <<>>
  <2>1. CASE Waits
    BY <1>1, <2>1 DEF Waits, IInv, ChannelInv
  <2>2. CASE Opens
    BY <1>1, <2>2 DEF Opens, IInv, MirrorInv, NoOpening
  <2>3. CASE Replied
    BY <2>3 DEF Replied, NoOpening
  <2>4. QED
    BY <1>1, <2>1, <2>2, <2>3 DEF IInv, CallInv
<1>3. TypeOK' /\ ChannelInv'
  BY <1>1 DEF IInv, TypeOK, ChannelInv, NoCall, NoReply, Ops
<1>4. CallInv'
  BY <1>1, <1>2 DEF CallInv, NoCall, NoReply
<1>5. QED
  BY <1>1, <1>3, <1>4, AppSteps DEF IInv, WorkerSide

LEMMA TimeOutKeeps == IInv /\ TimeOut => IInv'
<1> SUFFICES ASSUME IInv, TimeOut PROVE IInv'
  OBVIOUS
<1>1. /\ reply = NoReply /\ call' = NoCall /\ cmds' = Unheard(cmds)
      /\ opening' = [opening EXCEPT !.heard = FALSE]
      /\ UNCHANGED <<phase, reply, worker, views, mirror, minted, pending, queued, answers>>
  BY DEF TimeOut, requestVars
<1>2. cmds \in Seq(Commands)
  BY DEF IInv, TypeOK
<1>3. /\ cmds' \in Seq(Commands) /\ Len(cmds') = Len(cmds)
      /\ \A i \in 1..Len(cmds') : ~Heard(cmds'[i])
  BY <1>1, <1>2, UnheardFacts
<1>4. opening' \in [id : Nat, background : BOOLEAN, heard : BOOLEAN] /\ WorkerSide'
  BY <1>1, AppSteps
<1>5. ~opening'.heard
  BY <1>1 DEF IInv, TypeOK
<1>6. TypeOK'
  BY <1>1, <1>3, <1>4 DEF IInv, TypeOK, NoCall, Ops
<1>7. ChannelInv'
  <2>1. ASSUME worker = "gone" PROVE cmds' = <<>>
    <3>1. cmds = <<>>
      BY <2>1 DEF IInv, ChannelInv
    <3>2. Len(cmds') = 0
      BY <1>3, <3>1
    <3>3. QED
      BY <1>3, <3>2, EmptySeq
  <2>2. QED
    BY <1>1, <1>3, <2>1 DEF IInv, ChannelInv, NoCall
<1>8. CallInv'
  BY <1>1, <1>3, <1>5 DEF CallInv, NoCall, NoReply, Heard
<1>9. QED
  BY <1>4, <1>6, <1>7, <1>8 DEF IInv, WorkerSide

\* The refusals that find a place in the channel.
LEMMA DeferredFacts ==
  ASSUME IInv, NEW rest \in InOrder(queued)
  PROVE  LET n == Room(Len(rest))
             tail == [i \in 1..n |-> Resolve(rest[i])]
         IN  /\ n \in Nat /\ Len(cmds) + n <= QueueLen
             /\ worker = "gone" => n = 0
             /\ tail \in Seq(Commands) /\ Len(tail) = n
             /\ \A i \in 1..n : ~Heard(tail[i])
<1>1. queued \subseteq 1..Len(answers) /\ Len(answers) \in Nat
  BY DEF IInv, TypeOK
<1>2. Cardinality(queued) \in Nat
  <2>1. IsFiniteSet(1..Len(answers))
    BY <1>1, FS_Interval
  <2>2. IsFiniteSet(queued)
    BY <1>1, <2>1, FS_Subset
  <2>3. QED
    BY <2>2, FS_CardinalityType
<1>3. rest \in [1..Cardinality(queued) -> Nat] /\ Len(rest) = Cardinality(queued)
  <2>1. rest \in [1..Cardinality(queued) -> queued]
    BY DEF InOrder, SetToSeqs
  <2>2. queued \subseteq Nat
    BY <1>1
  <2>3. rest \in [1..Cardinality(queued) -> Nat]
    BY <2>1, <2>2
  <2>4. QED
    BY <1>2, <2>3
<1>4. /\ cmds \in Seq(Commands) /\ Len(cmds) <= QueueLen /\ QueueLen \in Nat /\ Len(cmds) \in Nat
      /\ worker = "gone" => cmds = <<>>
  BY DEF IInv, TypeOK, ChannelInv
<1> DEFINE n == Room(Len(rest))
           tail == [i \in 1..n |-> Resolve(rest[i])]
<1>5. /\ n \in Nat /\ n <= Len(rest) /\ Len(cmds) + n <= QueueLen
      /\ worker = "gone" => n = 0
  BY <1>2, <1>3, <1>4 DEF Room
<1> HIDE DEF n
<1>6. \A i \in 1..n : Resolve(rest[i]) \in Commands /\ ~Heard(Resolve(rest[i]))
  BY <1>2, <1>3, <1>5 DEF Resolve, Commands, Plain, Heard, Waited
<1>7. tail \in Seq(Commands) /\ Len(tail) = n /\ \A i \in 1..n : ~Heard(tail[i])
  BY <1>5, <1>6
<1>8. QED
  BY <1>5, <1>7 DEF n

LEMMA DeferKeeps == IInv /\ DeferRequests => IInv'
<1> SUFFICES ASSUME IInv, DeferRequests PROVE IInv'
  OBVIOUS
<1>1. /\ phase = "closing" /\ phase' = "dropping" /\ queued' = {}
      /\ UNCHANGED <<call, reply, worker, opening, views, mirror, minted, pending, answers>>
  BY DEF DeferRequests, tabVars
<1>2. PICK rest \in InOrder(queued) :
        cmds' = cmds \o [i \in 1..Room(Len(rest)) |-> Resolve(rest[i])]
  BY DEF DeferRequests
<1>3. call = NoCall
  BY <1>1 DEF IInv, ChannelInv
<1>4. /\ cmds \in Seq(Commands) /\ Len(cmds) <= QueueLen /\ QueueLen \in Nat /\ Len(cmds) \in Nat
      /\ worker = "gone" => cmds = <<>>
  BY DEF IInv, TypeOK, ChannelInv
<1> DEFINE n == Room(Len(rest))
           tail == [i \in 1..n |-> Resolve(rest[i])]
<1>5. /\ n \in Nat /\ Len(cmds) + n <= QueueLen
      /\ worker = "gone" => n = 0
      /\ tail \in Seq(Commands) /\ Len(tail) = n /\ \A i \in 1..n : ~Heard(tail[i])
  BY <1>2, DeferredFacts
<1>6. cmds' = cmds \o tail
  BY <1>2
<1> HIDE DEF n, tail
<1>7. /\ cmds' \in Seq(Commands) /\ Len(cmds') = Len(cmds) + n
       /\ \A i \in 1..(Len(cmds) + n) :
            cmds'[i] = IF i <= Len(cmds) THEN cmds[i] ELSE tail[i - Len(cmds)]
  <2>1. /\ cmds' \in Seq(Commands) /\ Len(cmds') = Len(cmds) + Len(tail)
        /\ \A i \in 1..(Len(cmds) + Len(tail)) :
             cmds'[i] = IF i <= Len(cmds) THEN cmds[i] ELSE tail[i - Len(cmds)]
    <3>1. /\ cmds \o tail \in Seq(Commands) /\ Len(cmds \o tail) = Len(cmds) + Len(tail)
          /\ \A i \in 1..(Len(cmds) + Len(tail)) :
               (cmds \o tail)[i] = IF i <= Len(cmds) THEN cmds[i] ELSE tail[i - Len(cmds)]
      <4>1. cmds \in Seq(Commands) /\ tail \in Seq(Commands)
        BY <1>4, <1>5
      <4>2. QED
        BY <4>1, ConcatProperties
    <3>2. QED
      BY <1>6, <3>1
  <2>2. QED
    BY <1>5, <2>1
<1>8. \A i \in 1..Len(cmds') : ~Heard(cmds'[i])
  <2>1. \A i \in 1..Len(cmds) : ~Heard(cmds[i])
    BY <1>3 DEF IInv, CallInv
  <2>2. ASSUME NEW i \in 1..Len(cmds') PROVE ~Heard(cmds'[i])
    <3>1. CASE i <= Len(cmds)
      <4>1. i \in 1..Len(cmds) /\ i \in 1..(Len(cmds) + n)
        BY <1>4, <1>7, <3>1
      <4>2. QED
        BY <1>7, <2>1, <3>1, <4>1
    <3>2. CASE ~(i <= Len(cmds))
      <4>1. i - Len(cmds) \in 1..n /\ i \in 1..(Len(cmds) + n)
        BY <1>4, <1>5, <1>7, <3>2
      <4>2. QED
        BY <1>5, <1>7, <3>2, <4>1
    <3>3. QED
      BY <3>1, <3>2
  <2>3. QED
    BY <2>2
<1>9. TypeOK'
  BY <1>1, <1>7 DEF IInv, TypeOK
<1>10. ChannelInv'
  <2>1. worker = "gone" => cmds' = <<>>
    BY <1>4, <1>5, <1>7
  <2>2. QED
    BY <1>1, <1>3, <1>5, <1>7, <2>1 DEF ChannelInv, NoCall
<1>11. CallInv'
  BY <1>1, <1>3, <1>8 DEF IInv, CallInv, Heard, NoCall, NoReply
<1>12. QED
  BY <1>1, <1>9, <1>10, <1>11, AppSteps DEF IInv, WorkerSide

LEMMA MirrorFacts ==
  ASSUME IInv
  PROVE  IsList(mirror, minted) /\ Ids(mirror) \subseteq Nat /\ Positions(mirror) \subseteq Nat
<1>1. minted \in Nat
  BY DEF IInv, TypeOK
<1>2. IsList(mirror, minted)
  <2>1. CASE opening = NoOpening
    BY <2>1 DEF IInv, MirrorInv
  <2>2. CASE opening # NoOpening
    <3>1. minted - 1 \in Nat /\ (minted - 1) + 1 = minted /\ opening.background \in BOOLEAN
      BY <1>1, <2>2 DEF IInv, MirrorInv, TypeOK
    <3>2. IsList(views, minted - 1) /\ mirror = Pushed(views, Tab(minted), opening.background)
      BY <2>2 DEF IInv, MirrorInv
    <3>3. IsList(Pushed(views, Tab((minted - 1) + 1), opening.background), (minted - 1) + 1)
      BY <3>1, <3>2, PushedFacts
    <3>4. QED
      BY <3>1, <3>2, <3>3
  <2>3. QED
    BY <2>1, <2>2
<1>3. mirror.active \in 0..Len(mirror.tabs) /\ Positions(mirror) = 1..Len(mirror.tabs)
  BY <1>2 DEF IsList, ListOf, Positions
<1>4. Ids(mirror) \subseteq 1..minted
  BY <1>2 DEF IsList, ListOf, Ids
<1>5. QED
  BY <1>1, <1>2, <1>3, <1>4 DEF IsList, ListOf

LEMMA NeighbourFacts ==
  ASSUME NEW n \in Nat, NEW l, IsList(l, n), l.active # 0, NEW forward \in BOOLEAN
  PROVE  Neighbour(l, forward) \in Nat
<1> DEFINE N == Len(l.tabs)
           p == IF forward THEN (l.active % N) + 1 ELSE IF l.active = 1 THEN N ELSE l.active - 1
<1>1. N \in Nat \ {0} /\ l.active \in 1..N /\ Positions(l) = 1..N
  BY DEF IsList, ListOf, Positions
<1>2. l.active % N \in 0..(N - 1)
  BY <1>1
<1> HIDE DEF N
<1>3. p \in 1..N
  <2>1. (l.active % N) + 1 \in 1..N
    <3> DEFINE r == l.active % N
    <3>1. r \in 0..(N - 1)
      BY <1>2
    <3> HIDE DEF r
    <3>2. r + 1 \in 1..N
      BY <1>1, <3>1
    <3>3. QED
      BY <3>2 DEF r
  <2>2. ~forward => p \in 1..N
    BY <1>1
  <2>3. QED
    BY <2>1, <2>2
<1> HIDE DEF p
<1>4. l.tabs[p].id \in 1..n
  BY <1>1, <1>3 DEF IsList, ListOf
<1>5. Neighbour(l, forward) = l.tabs[p].id
  BY DEF Neighbour, p, N
<1>6. QED
  BY <1>4, <1>5

LEMMA AppKeeps == IInv /\ AppNext => IInv'
<1> SUFFICES ASSUME IInv, AppNext PROVE IInv'
  OBVIOUS
<1> USE MirrorFacts DEF tabVars, requestVars, appVars
<1>1. ASSUME NEW c \in Plain, SendOnly(c) PROVE IInv'
  <2>1. phase' \in {"open", "closing", "dropping", "joining", "joined"}
    BY <1>1 DEF SendOnly, IInv, TypeOK
  <2>2. QED
    BY <1>1, <2>1, SendKeeps DEF SendOnly, Free
<1>2. CASE SelectTab
  <2>1. PICK id \in Ids(mirror) : SendOnly(Select(id))
    BY <1>2 DEF SelectTab
  <2>2. Select(id) \in Plain
    BY DEF Select, Plain
  <2>3. QED
    BY <1>1, <2>1, <2>2
<1>3. CASE CycleTab
  <2>1. PICK forward \in BOOLEAN : SendOnly(Select(Neighbour(mirror, forward)))
    BY <1>3 DEF CycleTab
  <2>2. Neighbour(mirror, forward) \in Nat
    BY <1>3, NeighbourFacts DEF CycleTab, IInv, TypeOK
  <2>3. Select(Neighbour(mirror, forward)) \in Plain
    BY <2>2 DEF Select, Plain
  <2>4. QED
    BY <1>1, <2>1, <2>3
<1>4. CASE MoveTab
  <2>1. PICK from \in Positions(mirror), to \in Positions(mirror) : SendOnly(Move(from, to))
    BY <1>4 DEF MoveTab
  <2>2. Move(from, to) \in Plain
    BY DEF Move, Plain
  <2>3. QED
    BY <1>1, <2>1, <2>2
<1>5. CASE SendOther
  BY <1>1, <1>5 DEF SendOther, Other, Plain
<1>6. CASE OpenTab
  <2>1. PICK background \in BOOLEAN : Call(Open(background), 0)
    BY <1>6 DEF OpenTab
  <2>2. Open(background) \in Waited /\ Open(background).heard /\ Open(background).op # "close"
    BY DEF Open, Waited
  <2>3. QED
    BY <2>1, <2>2, CallKeeps
<1>7. CASE CloseTab
  <2>1. PICK id \in Ids(mirror) : Call(Close(id), id)
    BY <1>7 DEF CloseTab
  <2>2. Close(id) \in Waited /\ Close(id).heard /\ Close(id).id = id /\ id \in Nat
    BY DEF Close, Waited
  <2>3. QED
    BY <2>1, <2>2, CallKeeps
<1>8. CASE CloseActive
  <2>1. CloseFront \in Waited /\ CloseFront.heard /\ CloseFront.op # "close"
    BY DEF CloseFront, Waited
  <2>2. QED
    BY <1>8, <2>1, CallKeeps DEF CloseActive
<1>9. CASE ResolvePermission
  <2>1. PICK r \in queued : cmds' = Sent(cmds, Resolve(r)) /\ queued' = queued \ {r}
    BY <1>9 DEF ResolvePermission
  <2>2. Resolve(r) \in Plain
    BY <2>1 DEF Resolve, Plain, IInv, TypeOK
  <2>3. phase' \in {"open", "closing", "dropping", "joining", "joined"} /\ call = NoCall
    BY <1>9 DEF ResolvePermission, Free, IInv, TypeOK
  <2>4. QED
    BY <1>9, <2>1, <2>2, <2>3, SendKeeps DEF ResolvePermission
<1>10. CASE CloseAllBrowsers \/ Join
  <2>1. ShutDown \in Plain /\ cmds' = Sent(cmds, ShutDown)
    BY <1>10 DEF ShutDown, Plain, CloseAllBrowsers, Join
  <2>2. phase' \in {"open", "closing", "dropping", "joining", "joined"} /\ call = NoCall
    BY <1>10 DEF CloseAllBrowsers, Join, Free, IInv, ChannelInv
  <2>3. QED
    BY <1>10, <2>1, <2>2, SendKeeps DEF CloseAllBrowsers, Join
<1>11. CASE Joined
  <2>1. UNCHANGED <<call, reply, cmds, worker, opening, views, mirror, minted, pending, queued, answers>>
    BY <1>11 DEF Joined
  <2>2. phase' = "joined" /\ call = NoCall
    BY <1>11 DEF Joined, IInv, ChannelInv
  <2>3. TypeOK' /\ ChannelInv' /\ CallInv'
    BY <2>1, <2>2 DEF IInv, TypeOK, ChannelInv, CallInv, Heard, NoCall, NoReply
  <2>4. QED
    BY <2>1, <2>3, AppSteps DEF IInv, WorkerSide
<1>12. QED
  BY <1>2, <1>3, <1>4, <1>5, <1>6, <1>7, <1>8, <1>9, <1>10, <1>11, ReturnKeeps, TimeOutKeeps,
     DeferKeeps
     DEF AppNext

-----------------------------------------------------------------------------
(* The worker's steps.                                                     *)

\* The view that is being built.
LEMMA BuiltFacts ==
  ASSUME IInv, opening # NoOpening
  PROVE  LET m == Pushed(views, Tab(minted), opening.background) IN
         /\ worker = "running" /\ minted \in Nat \ {0} /\ opening.id = minted /\ mirror = m
         /\ IsList(views, minted) /\ IsList(m, minted) /\ minted \in Ids(m)
         /\ Front(m.tabs) = views.tabs
<1>1. /\ worker = "running" /\ minted \in Nat \ {0} /\ opening.id = minted
      /\ IsList(views, minted - 1) /\ opening.background \in BOOLEAN
      /\ mirror = Pushed(views, Tab(minted), opening.background)
  BY DEF IInv, MirrorInv, TypeOK
<1>2. minted - 1 \in Nat /\ (minted - 1) + 1 = minted
  BY <1>1
<1>3. LET m == Pushed(views, Tab((minted - 1) + 1), opening.background) IN
      /\ IsList(m, (minted - 1) + 1) /\ Ids(m) = Ids(views) \cup {(minted - 1) + 1}
      /\ Front(m.tabs) = views.tabs
  BY <1>1, <1>2, PushedFacts
<1>4. LET m == Pushed(views, Tab(minted), opening.background) IN
      IsList(m, minted) /\ minted \in Ids(m) /\ Front(m.tabs) = views.tabs
  BY <1>2, <1>3
<1>5. IsList(views, minted)
  <2>1. \A k \in 1..(minted - 1) : k \in 1..minted
    BY <1>1
  <2>2. QED
    BY <1>1, <2>1 DEF IsList, ListOf
<1>6. QED
  BY <1>1, <1>4, <1>5

\* Who waits while a view is being built.
LEMMA OpeningFacts ==
  ASSUME IInv, opening # NoOpening
  PROVE  IF opening.heard
         THEN call # NoCall /\ reply = NoReply /\ call.op = "open" /\ cmds = <<>>
         ELSE reply = NoReply /\ IF call = NoCall THEN \A i \in 1..Len(cmds) : ~Heard(cmds[i])
                                 ELSE Waits
BY DEF IInv, CallInv, Waits, Opens, Replied

LEMMA StartFailsKeeps == IInv /\ StartFails => IInv'
<1> SUFFICES ASSUME IInv, StartFails PROVE IInv'
  OBVIOUS
<1>1. /\ worker = "starting" /\ worker' = "gone" /\ cmds' = <<>>
      /\ UNCHANGED <<phase, call, reply, opening, views, mirror, minted, pending, queued, answers>>
  BY DEF StartFails, appVars, tabVars, requestVars
<1>2. opening = NoOpening
  BY <1>1 DEF IInv, MirrorInv
<1>3. TypeOK' /\ ChannelInv'
  BY <1>1 DEF IInv, TypeOK, ChannelInv, NoCall
<1>4. MirrorInv'
  BY <1>1, <1>2 DEF IInv, MirrorInv, IsList, ListOf, NoOpening, Positions
<1>5. CallInv'
  <2>1. reply = NoReply /\ ~opening.heard
    BY <1>1, <1>2 DEF IInv, CallInv, Waits, Opens, Replied, NoOpening
  <2>2. QED
    BY <1>1, <2>1 DEF CallInv, Waits, NoCall, NoReply
<1>6. AnswerInv'
  BY <1>1 DEF IInv, AnswerInv, AnsweredOnce
<1>7. QED
  BY <1>3, <1>4, <1>5, <1>6 DEF IInv

\* The mirror's half of open_tab.
LEMMA StartOpeningKeeps ==
  ASSUME IInv, opening = NoOpening, NEW background \in BOOLEAN, NEW hears \in BOOLEAN,
         StartOpening(background, hears), worker' = "running"
  PROVE  /\ opening' \in [id : Nat, background : BOOLEAN, heard : BOOLEAN] /\ minted' \in Nat
         /\ opening' # NoOpening /\ opening'.heard = hears /\ MirrorInv'
<1>1. minted \in Nat /\ mirror = views /\ IsList(views, minted)
  BY DEF IInv, TypeOK, MirrorInv
<1>2. /\ minted' = minted + 1 /\ mirror' = Pushed(mirror, Tab(minted'), background)
      /\ opening' = [id |-> minted', background |-> background, heard |-> hears] /\ views' = views
  BY DEF StartOpening
<1>3. minted' \in Nat /\ minted' > 0 /\ minted' - 1 = minted
  BY <1>1, <1>2
<1>4. /\ opening' \in [id : Nat, background : BOOLEAN, heard : BOOLEAN] /\ opening' # NoOpening
      /\ opening'.heard = hears /\ opening'.id = minted' /\ opening'.background = background
  BY <1>2, <1>3 DEF NoOpening
<1>5. IsList(views', minted' - 1)
  BY <1>1, <1>2, <1>3
<1>6. MirrorInv'
  BY <1>1, <1>2, <1>3, <1>4, <1>5 DEF MirrorInv, IsList, ListOf, Pushed, Tab, NoOpening, Positions
<1>7. QED
  BY <1>3, <1>4, <1>6

LEMMA StartKeeps == IInv /\ Start => IInv'
<1> SUFFICES ASSUME IInv, Start PROVE IInv'
  OBVIOUS
<1>1. /\ worker = "starting" /\ worker' = "running" /\ StartOpening(FALSE, FALSE)
      /\ UNCHANGED <<phase, call, reply, cmds, pending, queued, answers>>
  BY DEF Start, StartOpening, appVars, requestVars
<1>2. opening = NoOpening
  BY <1>1 DEF IInv, MirrorInv
<1>3. /\ opening' \in [id : Nat, background : BOOLEAN, heard : BOOLEAN] /\ minted' \in Nat
      /\ ~opening'.heard /\ MirrorInv'
  BY <1>1, <1>2, StartOpeningKeeps
<1>4. TypeOK' /\ ChannelInv'
  BY <1>1, <1>3 DEF IInv, TypeOK, ChannelInv, NoCall
<1>5. CallInv'
  <2>1. CASE call = NoCall
    BY <1>1, <1>3, <2>1 DEF IInv, CallInv, Heard, NoCall, NoReply
  <2>2. CASE call # NoCall
    <3>1. Waits
      BY <1>1, <1>2, <2>2 DEF IInv, CallInv, Opens, Replied, NoOpening
    <3>2. Waits'
      BY <1>1, <1>3, <3>1 DEF Waits, Matches, Heard, NoReply
    <3>3. QED
      BY <1>1, <2>2, <3>2 DEF CallInv, NoCall
  <2>3. QED
    BY <2>1, <2>2
<1>6. AnswerInv'
  BY <1>1 DEF IInv, AnswerInv, AnsweredOnce
<1>7. QED
  BY <1>3, <1>4, <1>5, <1>6 DEF IInv

\* The view was built or was not: whoever waited for it is told.
LEMMA BuiltKeeps ==
  ASSUME IInv, opening # NoOpening, NEW id \in Nat, Answering(opening.heard, "open", id),
         opening' = NoOpening, mirror' = views', IsList(views', minted),
         id # 0 => id \in Ids(mirror'),
         UNCHANGED <<phase, call, cmds, worker, minted, pending, queued, answers>>
  PROVE  IInv'
<1>1. worker = "running"
  BY BuiltFacts
<1>2. reply' \in [op : Ops, id : Nat]
  BY DEF Answering, IInv, TypeOK, Ops
<1>3. TypeOK' /\ ChannelInv'
  <2>1. opening' \in [id : Nat, background : BOOLEAN, heard : BOOLEAN]
    BY DEF NoOpening
  <2>2. QED
    BY <1>2, <2>1 DEF IInv, TypeOK, ChannelInv, NoCall
<1>4. MirrorInv'
  BY DEF MirrorInv, IsList, ListOf, NoOpening, Positions
<1>5. CallInv'
  <2>1. CASE opening.heard
    <3>1. call # NoCall /\ call.op = "open" /\ cmds = <<>>
      BY <2>1, OpeningFacts
    <3>2. reply' = [op |-> "open", id |-> id]
      BY <2>1 DEF Answering
    <3>3. ReplyIsTrue'
      BY <3>1, <3>2 DEF ReplyIsTrue, Ids, Positions
    <3>4. reply' # NoReply
      BY <3>2 DEF NoReply
    <3>5. Replied'
      BY <1>1, <3>1, <3>3, <3>4 DEF Replied, NoReply, NoOpening
    <3>6. QED
      BY <3>1, <3>5 DEF CallInv, NoCall
  <2>2. CASE ~opening.heard
    <3>1. reply' = NoReply /\ IF call = NoCall THEN \A i \in 1..Len(cmds) : ~Heard(cmds[i]) ELSE Waits
      BY <2>2, OpeningFacts DEF Answering
    <3>2. ~opening'.heard
      BY DEF NoOpening
    <3>3. CASE call = NoCall
      BY <3>1, <3>2, <3>3 DEF CallInv, Heard, NoCall, NoReply
    <3>4. CASE call # NoCall
      <4>1. Waits'
        BY <3>1, <3>2, <3>4 DEF Waits, Matches, Heard, NoReply
      <4>2. QED
        BY <3>4, <4>1 DEF CallInv, NoCall
    <3>5. QED
      BY <3>3, <3>4
  <2>3. QED
    BY <2>1, <2>2
<1>6. AnswerInv'
  BY DEF IInv, AnswerInv, AnsweredOnce
<1>7. QED
  BY <1>3, <1>4, <1>5, <1>6 DEF IInv

LEMMA OpenSucceedsKeeps == IInv /\ OpenSucceeds => IInv'
<1> SUFFICES ASSUME IInv, OpenSucceeds PROVE IInv'
  OBVIOUS
<1>1. /\ opening # NoOpening /\ views' = Pushed(views, Tab(opening.id), opening.background)
      /\ opening' = NoOpening /\ Answering(opening.heard, "open", opening.id)
      /\ UNCHANGED <<phase, call, cmds, worker, mirror, minted, pending, queued, answers>>
  BY DEF OpenSucceeds, appVars, requestVars
<1>2. /\ opening.id \in Nat /\ opening.id = minted /\ mirror' = views'
      /\ IsList(views', minted) /\ opening.id \in Ids(mirror')
  BY <1>1, BuiltFacts
<1>3. QED
  BY <1>1, <1>2, BuiltKeeps

LEMMA OpenFailsKeeps == IInv /\ OpenFails => IInv'
<1> SUFFICES ASSUME IInv, OpenFails PROVE IInv'
  OBVIOUS
<1>1. /\ opening # NoOpening /\ mirror' = RolledBack(mirror)
      /\ opening' = NoOpening /\ Answering(opening.heard, "open", 0)
      /\ UNCHANGED <<phase, call, cmds, worker, views, minted, pending, queued, answers>>
  BY DEF OpenFails, appVars, requestVars
<1>2. mirror' = views /\ IsList(views, minted)
  <2>1. Front(mirror.tabs) = views.tabs /\ IsList(views, minted)
    BY <1>1, BuiltFacts
  <2>2. views = [tabs |-> views.tabs, active |-> views.active]
    BY <2>1 DEF IsList, ListOf
  <2>3. QED
    BY <1>1, <2>1, <2>2 DEF RolledBack
<1>3. QED
  BY <1>1, <1>2, BuiltKeeps

\* What each command in the channel is.
LEMMA CommandFacts ==
  ASSUME NEW c \in Commands
  PROVE  /\ c.op = "open" => c.background \in BOOLEAN /\ c.heard \in BOOLEAN /\ (Heard(c) <=> c.heard)
         /\ c.op \in {"close", "closeActive"} => c.heard \in BOOLEAN /\ (Heard(c) <=> c.heard)
         /\ c.op \in {"select", "move", "other", "resolve", "shutdown"} => ~Heard(c)
BY DEF Commands, Waited, Plain, Heard

LEMMA HandleOpenKeeps == IInv /\ HandleOpen => IInv'
<1> SUFFICES ASSUME IInv, HandleOpen PROVE IInv'
  OBVIOUS
<1> DEFINE c == Head(cmds)
<1>1. /\ Idle /\ cmds # <<>> /\ c.op = "open" /\ cmds' = Tail(cmds)
      /\ StartOpening(c.background, c.heard) /\ worker = "running" /\ opening = NoOpening
      /\ UNCHANGED <<phase, call, reply, worker, pending, queued, answers>>
  BY DEF HandleOpen, Takes, IsNext, Idle, StartOpening, appVars, requestVars
<1>2. /\ c \in Commands /\ cmds' \in Seq(Commands) /\ Len(cmds') <= QueueLen
      /\ Heard(c) => call # NoCall /\ reply = NoReply /\ cmds' = <<>> /\ Matches(c)
      /\ ~Heard(c) /\ ~opening'.heard => CallInv'
  BY <1>1, TakeFacts
<1>3. c.background \in BOOLEAN /\ c.heard \in BOOLEAN /\ (Heard(c) <=> c.heard)
  BY <1>1, <1>2, CommandFacts
<1>4. /\ opening' \in [id : Nat, background : BOOLEAN, heard : BOOLEAN] /\ minted' \in Nat
      /\ opening'.heard = c.heard /\ MirrorInv'
  BY <1>1, <1>3, StartOpeningKeeps
<1>5. TypeOK' /\ ChannelInv'
  BY <1>1, <1>2, <1>4 DEF IInv, TypeOK, ChannelInv, NoCall
<1>6. CallInv'
  <2>1. CASE c.heard
    <3>1. call # NoCall /\ reply = NoReply /\ cmds' = <<>> /\ call.op = "open" /\ opening'.heard
      BY <1>1, <1>2, <1>3, <1>4, <2>1 DEF Matches
    <3>2. Opens' /\ call' # NoCall
      BY <1>1, <3>1 DEF Opens, NoReply, NoCall
    <3>3. QED
      BY <3>2 DEF CallInv, NoCall
  <2>2. CASE ~c.heard
    BY <1>2, <1>3, <1>4, <2>2
  <2>3. QED
    BY <2>1, <2>2
<1>7. AnswerInv'
  BY <1>1 DEF IInv, AnswerInv, AnsweredOnce
<1>8. QED
  BY <1>4, <1>5, <1>6, <1>7 DEF IInv

\* A tab is closed, or nothing is: whoever waits is told.
LEMMA ClosingKeeps ==
  ASSUME IInv, NEW op \in {"close", "closeActive"}, Takes(op), NEW id \in Nat, Closing(id),
         id # 0 => id \in Ids(views), op = "close" => id \in {0, Head(cmds).id}
  PROVE  IInv'
<1> DEFINE c == Head(cmds)
<1>1. /\ Idle /\ cmds # <<>> /\ c.op = op /\ cmds' = Tail(cmds)
      /\ worker = "running" /\ opening = NoOpening
      /\ UNCHANGED <<phase, call, worker, opening, minted, pending, queued, answers>>
      /\ Answering(c.heard, op, id)
      /\ views' = IF id = 0 THEN views ELSE Without(views, id)
      /\ mirror' = IF id = 0 THEN mirror ELSE Without(mirror, id)
  BY DEF Takes, IsNext, Idle, Closing, appVars, requestVars
<1>2. /\ c \in Commands /\ cmds' \in Seq(Commands) /\ Len(cmds') <= QueueLen
      /\ Heard(c) => call # NoCall /\ reply = NoReply /\ cmds' = <<>> /\ Matches(c)
      /\ ~Heard(c) /\ reply' = reply => CallInv'
  <2>1. ~opening'.heard
    BY <1>1 DEF NoOpening
  <2>2. QED
    BY <1>1, <2>1, TakeFacts
<1>3. c.heard \in BOOLEAN /\ (Heard(c) <=> c.heard)
  BY <1>1, <1>2, CommandFacts
<1>4. minted \in Nat /\ mirror = views /\ IsList(views, minted)
  BY <1>1 DEF IInv, TypeOK, MirrorInv
<1>5. /\ mirror' = views' /\ IsList(views', minted)
      /\ id # 0 => id \notin Ids(mirror')
  <2>1. CASE id = 0
    BY <1>1, <1>4, <2>1
  <2>2. CASE id # 0
    <3>1. IsList(Without(views, id), minted) /\ Ids(Without(views, id)) = Ids(views) \ {id}
      BY <1>4, <2>2, WithoutFacts
    <3>2. QED
      BY <1>1, <1>4, <2>2, <3>1
  <2>3. QED
    BY <2>1, <2>2
<1>6. reply' \in [op : Ops, id : Nat]
  BY <1>1 DEF Answering, IInv, TypeOK, Ops
<1>7. TypeOK' /\ ChannelInv'
  BY <1>1, <1>2, <1>6 DEF IInv, TypeOK, ChannelInv, NoCall
<1>8. MirrorInv'
  BY <1>1, <1>5 DEF MirrorInv, IsList, ListOf, NoOpening, Positions
<1>9. CallInv'
  <2>1. CASE c.heard
    <3>1. /\ call # NoCall /\ cmds' = <<>> /\ call.op = op /\ (op = "close" => c.id = call.id)
          /\ reply' = [op |-> op, id |-> id]
      BY <1>1, <1>2, <1>3, <2>1 DEF Matches, Answering
    <3>2. ReplyIsTrue'
      <4>1. call'.op = op /\ reply'.op = op /\ reply'.id = id /\ op # "open"
        BY <1>1, <3>1
      <4>2. op = "close" => id \in {0, call'.id}
        BY <1>1, <3>1
      <4>3. id # 0 => id \notin Ids(mirror)'
        BY <1>5 DEF Ids, Positions
      <4>4. QED
        BY <4>1, <4>2, <4>3 DEF ReplyIsTrue
    <3>3. Replied' /\ call' # NoCall
      BY <1>1, <3>1, <3>2 DEF Replied, NoReply, NoOpening, NoCall
    <3>4. QED
      BY <3>3 DEF CallInv, NoCall
  <2>2. CASE ~c.heard
    BY <1>1, <1>2, <1>3, <2>2 DEF Answering
  <2>3. QED
    BY <2>1, <2>2
<1>10. AnswerInv'
  BY <1>1 DEF IInv, AnswerInv, AnsweredOnce
<1>11. QED
  BY <1>7, <1>8, <1>9, <1>10 DEF IInv

LEMMA HandleCloseKeeps == IInv /\ HandleClose => IInv'
<1> SUFFICES ASSUME IInv, HandleClose PROVE IInv'
  OBVIOUS
<1>1. opening = NoOpening /\ minted \in Nat /\ IsList(views, minted)
  BY DEF IInv, HandleClose, Takes, IsNext, Idle, MirrorInv, TypeOK
<1>2. Ids(views) \subseteq Nat
  BY <1>1 DEF IsList, ListOf, Ids
<1> DEFINE named == IF Head(cmds).id \in Ids(views) THEN Head(cmds).id ELSE 0
           fore == IF views.active = 0 THEN 0 ELSE ActiveTab(views).id
<1>3. CASE Takes("close") /\ Closing(named)
  <2>1. named \in Nat /\ named \in {0, Head(cmds).id} /\ (named # 0 => named \in Ids(views))
    BY <1>2
  <2> HIDE DEF named
  <2>2. QED
    BY <1>3, <2>1, ClosingKeeps
<1>4. CASE Takes("closeActive") /\ Closing(fore)
  <2>1. views.active # 0 => views.active \in Positions(views)
    BY <1>1 DEF IsList, ListOf, Positions
  <2>2. fore \in Nat /\ (fore # 0 => fore \in Ids(views))
    BY <1>2, <2>1 DEF Ids, ActiveTab
  <2> HIDE DEF fore
  <2>3. QED
    BY <1>4, <2>2, ClosingKeeps
<1>5. QED
  BY <1>3, <1>4 DEF HandleClose

\* A command nobody waits for changes the list of the tabs or nothing of it.
LEMMA PlainKeeps ==
  ASSUME IInv, NEW op \in {"select", "move", "other", "resolve"}, Takes(op),
         UNCHANGED <<phase, call, reply, worker, opening, minted, queued>>,
         mirror' = views', IsList(views', minted),
         answers' \in Seq(Nat), Len(answers') = Len(answers), AnswerInv'
  PROVE  IInv'
<1>1. /\ Idle /\ cmds # <<>> /\ Head(cmds).op = op /\ cmds' = Tail(cmds) /\ opening = NoOpening
  BY DEF Takes, IsNext, Idle
<1>2. Head(cmds) \in Commands /\ cmds' \in Seq(Commands) /\ Len(cmds') <= QueueLen
  BY <1>1, TakeFacts
<1>3. ~Heard(Head(cmds)) /\ ~opening'.heard
  BY <1>1, <1>2, CommandFacts DEF NoOpening
<1>4. CallInv'
  BY <1>1, <1>3, TakeFacts
<1>5. TypeOK' /\ ChannelInv'
  BY <1>1, <1>2 DEF IInv, TypeOK, ChannelInv, NoCall, Idle
<1>6. MirrorInv'
  BY <1>1 DEF MirrorInv, IsList, ListOf, NoOpening, Positions
<1>7. QED
  BY <1>4, <1>5, <1>6 DEF IInv

\* One more answer.
LEMMA CountedFacts ==
  ASSUME NEW s \in Seq(Nat), NEW r \in 1..Len(s)
  PROVE  [s EXCEPT ![r] = @ + 1] \in Seq(Nat) /\ Len([s EXCEPT ![r] = @ + 1]) = Len(s)
OBVIOUS

LEMMA PlainHandlersKeep ==
  IInv /\ (HandleSelect \/ HandleMove \/ HandleOther \/ HandleResolve) => IInv'
<1> SUFFICES ASSUME IInv, HandleSelect \/ HandleMove \/ HandleOther \/ HandleResolve PROVE IInv'
  OBVIOUS
<1> USE DEF appVars, tabVars, requestVars
<1>1. opening = NoOpening /\ worker = "running"
  BY DEF HandleSelect, HandleMove, HandleOther, HandleResolve, Takes, IsNext, Idle
<1>2. minted \in Nat /\ mirror = views /\ IsList(views, minted)
  BY <1>1 DEF IInv, MirrorInv, TypeOK
<1>3. answers \in Seq(Nat)
  BY DEF IInv, TypeOK
<1>4. ASSUME UNCHANGED <<worker, pending, answers>> PROVE AnswerInv'
  BY <1>4 DEF IInv, AnswerInv, AnsweredOnce
<1>5. CASE HandleSelect
  <2> DEFINE id == Head(cmds).id
             selects == id \in Ids(views) /\ ~IsActive(views, id)
  <2>1. /\ Takes("select") /\ views' = IF selects THEN Selected(views, id) ELSE views
        /\ mirror' = IF selects THEN [mirror EXCEPT !.active = views'.active] ELSE mirror
        /\ UNCHANGED <<phase, call, reply, worker, opening, minted, pending, queued, answers>>
    BY <1>5 DEF HandleSelect
  <2>2. mirror' = views' /\ IsList(views', minted)
    <3>1. CASE selects
      <4>1. /\ IsList(Selected(views, id), minted)
            /\ [views EXCEPT !.active = Selected(views, id).active] = Selected(views, id)
        BY <1>2, <3>1, SelectedFacts
      <4>2. views' = Selected(views, id) /\ mirror' = [views EXCEPT !.active = views'.active]
        BY <1>2, <2>1, <3>1
      <4>3. QED
        BY <4>1, <4>2
    <3>2. CASE ~selects
      BY <1>2, <2>1, <3>2
    <3>3. QED
      BY <3>1, <3>2
  <2>3. QED
    BY <1>3, <1>4, <2>1, <2>2, PlainKeeps
<1>6. CASE HandleMove
  <2> DEFINE from == Head(cmds).from
             to == Head(cmds).to
             moves == {from, to} \subseteq Positions(views)
  <2>1. /\ Takes("move") /\ views' = IF moves THEN Moved(views, from, to) ELSE views
        /\ mirror' = IF moves THEN Moved(mirror, from, to) ELSE mirror
        /\ UNCHANGED <<phase, call, reply, worker, opening, minted, pending, queued, answers>>
    BY <1>6 DEF HandleMove
  <2>2. mirror' = views' /\ IsList(views', minted)
    BY <1>2, <2>1, MovedFacts
  <2>3. QED
    BY <1>3, <1>4, <2>1, <2>2, PlainKeeps
<1>7. CASE HandleOther
  <2>1. Takes("other") /\ UNCHANGED <<phase, call, reply, worker, opening, views, mirror, minted,
                                      pending, queued, answers>>
    BY <1>7 DEF HandleOther
  <2>2. mirror' = views' /\ IsList(views', minted)
    BY <1>2, <2>1
  <2>3. QED
    BY <1>3, <1>4, <2>1, <2>2, PlainKeeps
<1>8. CASE HandleResolve
  <2> DEFINE r == Head(cmds).id
  <2>1. /\ Takes("resolve") /\ pending' = pending \ {r}
        /\ answers' = IF r \in pending THEN [answers EXCEPT ![r] = @ + 1] ELSE answers
        /\ UNCHANGED <<phase, call, reply, worker, opening, views, mirror, minted, queued>>
    BY <1>8 DEF HandleResolve, Unregistered
  <2>2. mirror' = views' /\ IsList(views', minted)
    BY <1>2, <2>1
  <2>3. pending \subseteq 1..Len(answers) /\ Len(answers) \in Nat
    BY <1>3 DEF IInv, AnswerInv
  <2>4. answers' \in Seq(Nat) /\ Len(answers') = Len(answers)
    <3>1. r \in pending => r \in 1..Len(answers)
      BY <2>3
    <3>2. QED
      BY <1>3, <2>1, <3>1, CountedFacts
  <2>5. AnsweredOnce'
    <3>1. ASSUME NEW k \in DOMAIN answers' PROVE answers'[k] = IF k \in pending' THEN 0 ELSE 1
      <4>1. k \in 1..Len(answers) /\ answers[k] = IF k \in pending THEN 0 ELSE 1
        BY <1>1, <1>3, <2>4, <3>1 DEF IInv, AnswerInv, AnsweredOnce
      <4>2. CASE k = r /\ r \in pending
        BY <1>3, <2>1, <4>1, <4>2
      <4>3. CASE ~(k = r /\ r \in pending)
        BY <1>3, <2>1, <4>1, <4>3
      <4>4. QED
        BY <4>2, <4>3
    <3>2. QED
      BY <1>1, <2>1, <3>1 DEF AnsweredOnce
  <2>6. AnswerInv'
    BY <1>1, <2>1, <2>3, <2>4, <2>5 DEF AnswerInv
  <2>7. QED
    BY <2>1, <2>2, <2>4, <2>6, PlainKeeps
<1>9. QED
  BY <1>5, <1>6, <1>7, <1>8

\* The end of the worker denies what still waits.
LEMMA HandleShutdownKeeps == IInv /\ HandleShutdown => IInv'
<1> SUFFICES ASSUME IInv, HandleShutdown PROVE IInv'
  OBVIOUS
<1>1. /\ worker = "running" /\ opening = NoOpening /\ cmds # <<>> /\ Head(cmds).op = "shutdown"
      /\ worker' = "gone" /\ cmds' = <<>> /\ answers' = Drained /\ pending' = {}
      /\ UNCHANGED <<phase, call, reply, opening, views, mirror, minted, queued>>
  BY DEF HandleShutdown, IsNext, Idle, Stopped, appVars, tabVars
<1>2. answers \in Seq(Nat) /\ Len(answers) \in Nat
  BY DEF IInv, TypeOK
<1>3. /\ answers' = [r \in 1..Len(answers) |-> IF r \in pending THEN answers[r] + 1 ELSE answers[r]]
      /\ \A r \in 1..Len(answers) : answers[r] = IF r \in pending THEN 0 ELSE 1
  BY <1>1, <1>2 DEF Drained, IInv, AnswerInv, AnsweredOnce
<1>4. answers' \in Seq(Nat) /\ Len(answers') = Len(answers) /\ \A r \in 1..Len(answers) : answers'[r] = 1
  <2>1. answers' = [r \in 1..Len(answers) |-> 1]
    BY <1>3
  <2>2. QED
    BY <1>2, <2>1
<1>5. TypeOK' /\ ChannelInv'
  BY <1>1, <1>4 DEF IInv, TypeOK, ChannelInv, NoCall
<1>6. MirrorInv'
  BY <1>1 DEF IInv, MirrorInv, IsList, ListOf, NoOpening, Positions
<1>7. CallInv'
  <2>1. reply = NoReply /\ ~opening.heard
    BY <1>1 DEF IInv, CallInv, Waits, Opens, Replied, NoOpening
  <2>2. QED
    BY <1>1, <2>1 DEF CallInv, Waits, NoCall, NoReply
<1>8. AnswerInv'
  BY <1>1, <1>2, <1>4 DEF AnswerInv, AnsweredOnce
<1>9. QED
  BY <1>5, <1>6, <1>7, <1>8 DEF IInv

LEMMA RequestKeeps == IInv /\ RequestPermission => IInv'
<1> SUFFICES ASSUME IInv, RequestPermission PROVE IInv'
  OBVIOUS
<1> DEFINE n == Len(answers)
<1>1. /\ worker = "running"
      /\ pending' = pending \cup {n + 1} /\ queued' = queued \cup {n + 1} /\ answers' = Append(answers, 0)
      /\ UNCHANGED <<phase, call, reply, cmds, worker, opening, views, mirror, minted>>
  BY DEF RequestPermission, Idle, appVars, tabVars
<1>2. answers \in Seq(Nat) /\ n \in Nat /\ queued \subseteq 1..n /\ pending \subseteq 1..n
  BY DEF IInv, TypeOK, AnswerInv
<1>3. /\ answers' \in Seq(Nat) /\ Len(answers') = n + 1 /\ answers'[n + 1] = 0
      /\ \A r \in 1..n : answers'[r] = answers[r]
  BY <1>1, <1>2, AppendProperties
<1> HIDE DEF n
<1>4. pending' \subseteq 1..(n + 1) /\ queued' \subseteq 1..(n + 1)
  BY <1>1, <1>2
<1>5. TypeOK' /\ ChannelInv'
  BY <1>1, <1>3, <1>4 DEF IInv, TypeOK, ChannelInv, NoCall
<1>6. MirrorInv'
  BY <1>1 DEF IInv, MirrorInv, IsList, ListOf, NoOpening, Positions
<1>7. CallInv'
  BY <1>1 DEF IInv, CallInv, Waits, Opens, Replied, Matches, Heard, ReplyIsTrue, Ids, Positions,
              NoCall, NoReply, NoOpening
<1>8. AnsweredOnce'
  <2>1. \A r \in 1..n : answers[r] = IF r \in pending THEN 0 ELSE 1
    BY <1>1, <1>2 DEF IInv, AnswerInv, AnsweredOnce, n
  <2>2. \A r \in 1..(n + 1) : answers'[r] = IF r \in pending' THEN 0 ELSE 1
    <3> TAKE r \in 1..(n + 1)
    <3>1. CASE r = n + 1
      BY <1>1, <1>3, <3>1
    <3>2. CASE r # n + 1
      <4>1. r \in 1..n /\ (r \in pending' <=> r \in pending)
        BY <1>1, <1>2, <3>2
      <4>2. QED
        BY <1>3, <2>1, <4>1
    <3>3. QED
      BY <3>1, <3>2
  <2>3. QED
    BY <1>1, <1>3, <2>2 DEF AnsweredOnce
<1>9. AnswerInv'
  BY <1>1, <1>3, <1>4, <1>8 DEF AnswerInv
<1>10. QED
  BY <1>5, <1>6, <1>7, <1>9 DEF IInv

LEMMA StutterKeeps == IInv /\ UNCHANGED vars => IInv'
<1> SUFFICES ASSUME IInv, UNCHANGED vars PROVE IInv'
  OBVIOUS
<1> USE DEF vars
<1>1. TypeOK' /\ ChannelInv'
  BY DEF IInv, TypeOK, ChannelInv, NoCall
<1>2. MirrorInv'
  BY DEF IInv, MirrorInv, IsList, ListOf, NoOpening, Positions
<1>3. CallInv'
  BY DEF IInv, CallInv, Waits, Opens, Replied, Matches, Heard, ReplyIsTrue, Ids, Positions,
         NoCall, NoReply, NoOpening
<1>4. AnswerInv'
  BY DEF IInv, AnswerInv, AnsweredOnce
<1>5. QED
  BY <1>1, <1>2, <1>3, <1>4 DEF IInv

-----------------------------------------------------------------------------
(* The theorems.                                                           *)

\* The invariant holds in every behaviour: the channel is never over its
\* length, a caller has one command that is heard, a view being built or its
\* reply, and the mirror never leaves the worker's list by more than that view.
THEOREM IInvHolds == Init /\ [][Next]_vars => []IInv
<1>1. Init => IInv
  BY InvInit, CapacityAssumption
<1>2. IInv /\ [Next]_vars => IInv'
  <2> SUFFICES ASSUME IInv, [Next]_vars PROVE IInv'
    OBVIOUS
  <2>1. CASE AppNext
    BY <2>1, AppKeeps
  <2>2. CASE WorkerNext
    BY <2>2, StartKeeps, StartFailsKeeps, OpenSucceedsKeeps, OpenFailsKeeps, HandleOpenKeeps,
       HandleCloseKeeps, PlainHandlersKeep, HandleShutdownKeeps DEF WorkerNext
  <2>3. CASE RequestPermission
    BY <2>3, RequestKeeps
  <2>4. CASE UNCHANGED vars
    BY <2>4, StutterKeeps
  <2>5. QED
    BY <2>1, <2>2, <2>3, <2>4 DEF Next
<1>3. QED
  BY <1>1, <1>2, PTL

\* A Shutdown in the channel stays there until the worker goes: nothing that is
\* sent, taken or given up removes it.
LEMMA ToldStays ==
  ASSUME IInv, [Next]_vars, Told, ~Told'
  PROVE  worker' = "gone"
<1> SUFFICES ASSUME worker' # "gone" PROVE FALSE
  OBVIOUS
<1> USE DEF appVars, tabVars, requestVars
<1>1. cmds \in Seq(Commands) /\ Len(cmds) \in Nat /\ QueueLen \in Nat
  BY DEF IInv, TypeOK
<1>2. PICK i \in 1..Len(cmds) : cmds[i] = ShutDown
  BY <1>1 DEF Told
<1>3. cmds' # cmds
  BY DEF Told
<1>4. ASSUME NEW c, cmds' = Sent(cmds, c) \/ cmds' = Append(cmds, c) PROVE FALSE
  <2>1. cmds' = Append(cmds, c)
    BY <1>3, <1>4 DEF Sent
  <2>2. cmds'[i] = ShutDown /\ i \in DOMAIN cmds'
    BY <1>1, <1>2, <2>1
  <2>3. QED
    BY <2>2 DEF Told
<1>5. ASSUME NEW q \in Seq(Commands), cmds' = cmds \o q PROVE FALSE
  <2>1. cmds'[i] = ShutDown /\ i \in DOMAIN cmds'
    BY <1>1, <1>2, <1>5
  <2>2. QED
    BY <2>1 DEF Told
<1>6. ASSUME cmds' = Tail(cmds), Head(cmds) # ShutDown PROVE FALSE
  <2>1. i # 1 /\ cmds # <<>>
    BY <1>1, <1>2, <1>6
  <2>2. i - 1 \in 1..(Len(cmds) - 1) /\ (i - 1) + 1 = i
    BY <1>1, <2>1
  <2>3. cmds' \in Seq(Commands) /\ Len(cmds') = Len(cmds) - 1 /\ cmds'[i - 1] = cmds[i]
    BY <1>1, <1>6, <2>1, <2>2, TailFacts
  <2>4. cmds'[i - 1] = ShutDown /\ i - 1 \in DOMAIN cmds'
    BY <1>2, <2>2, <2>3
  <2>5. QED
    BY <2>4 DEF Told
<1>7. ASSUME NEW op, Takes(op), op # "shutdown" PROVE FALSE
  BY <1>6, <1>7 DEF Takes, IsNext, ShutDown
<1>8. CASE AppNext
  <2>1. CASE SelectTab \/ CycleTab \/ MoveTab \/ SendOther
    BY <1>4, <2>1 DEF SelectTab, CycleTab, MoveTab, SendOther, SendOnly
  <2>2. CASE OpenTab \/ CloseTab \/ CloseActive
    BY <1>4, <2>2 DEF OpenTab, CloseTab, CloseActive, Call
  <2>3. CASE Return \/ Joined
    BY <1>3, <2>3 DEF Return, Joined
  <2>4. CASE TimeOut
    <3>1. cmds' = Unheard(cmds) /\ "heard" \notin DOMAIN cmds[i]
      BY <1>2, <2>4 DEF TimeOut, ShutDown
    <3>2. cmds'[i] = ShutDown /\ i \in DOMAIN cmds'
      BY <1>1, <1>2, <3>1 DEF Unheard
    <3>3. QED
      BY <3>2 DEF Told
  <2>5. CASE ResolvePermission \/ CloseAllBrowsers \/ Join
    BY <1>4, <2>5 DEF ResolvePermission, CloseAllBrowsers, Join
  <2>6. CASE DeferRequests
    <3>1. PICK rest \in InOrder(queued) :
            cmds' = cmds \o [k \in 1..Room(Len(rest)) |-> Resolve(rest[k])]
      BY <2>6 DEF DeferRequests
    <3>2. [k \in 1..Room(Len(rest)) |-> Resolve(rest[k])] \in Seq(Commands)
      BY DeferredFacts
    <3>3. QED
      BY <1>5, <3>1, <3>2
  <2>7. QED
    BY <1>8, <2>1, <2>2, <2>3, <2>4, <2>5, <2>6 DEF AppNext
<1>9. CASE WorkerNext
  <2>1. CASE Start \/ OpenSucceeds \/ OpenFails
    BY <1>3, <2>1 DEF Start, OpenSucceeds, OpenFails
  <2>2. CASE StartFails \/ HandleShutdown
    BY <2>2 DEF StartFails, HandleShutdown, Stopped
  <2>3. CASE HandleOpen \/ HandleClose \/ HandleSelect \/ HandleMove \/ HandleOther \/ HandleResolve
    BY <1>7, <2>3 DEF HandleOpen, HandleClose, HandleSelect, HandleMove, HandleOther, HandleResolve
  <2>4. QED
    BY <1>9, <2>1, <2>2, <2>3 DEF WorkerNext
<1>10. CASE RequestPermission \/ UNCHANGED vars
  BY <1>3, <1>10 DEF RequestPermission, vars
<1>11. QED
  BY <1>8, <1>9, <1>10 DEF Next

\* A Shutdown that found a place in the channel leaves it only with the worker's
\* end (Command::Shutdown, run).
THEOREM ShutdownIsObeyed == Init /\ [][Next]_vars => [][Told /\ ~Told' => worker' = "gone"]_vars
<1>1. IInv /\ [Next]_vars => [Told /\ ~Told' => worker' = "gone"]_vars
  BY ToldStays
<1>2. QED
  BY <1>1, IInvHolds, PTL

\* The mirror that the application reads behind the lock is the worker's list,
\* or that list with the one tab that is being built, at every moment
\* (open_tab, select_tab, close_tab, move_tab).
THEOREM MirrorIsTrue == Init /\ [][Next]_vars => []MirrorAgrees
<1>1. IInv => MirrorAgrees
  <2> SUFFICES ASSUME IInv PROVE MirrorAgrees
    OBVIOUS
  <2>1. CASE opening = NoOpening
    BY <2>1 DEF IInv, MirrorInv, MirrorAgrees
  <2>2. CASE opening # NoOpening
    <3>1. /\ minted - 1 \in Nat /\ (minted - 1) + 1 = minted /\ opening.id = minted
          /\ IsList(views, minted - 1) /\ opening.background \in BOOLEAN
          /\ mirror = Pushed(views, Tab(minted), opening.background)
      BY <2>2 DEF IInv, MirrorInv, TypeOK
    <3>2. LET m == Pushed(views, Tab((minted - 1) + 1), opening.background) IN
          /\ Front(m.tabs) = views.tabs /\ Last(m.tabs).id = (minted - 1) + 1
          /\ m.active = IF opening.background THEN views.active ELSE Len(m.tabs)
      BY <3>1, PushedFacts
    <3>3. QED
      BY <2>2, <3>1, <3>2 DEF MirrorAgrees
  <2>3. QED
    BY <2>1, <2>2
<1>2. QED
  BY <1>1, IInvHolds, PTL

\* Whoever waits for the worker, a caller or a page, is told the truth, and a
\* page is told once: also when a call timed out, its command was dropped, or
\* the worker ended in between (open_tab_sync, resolve_permission, Drop).
THEOREM RepliesAlwaysTrue == Init /\ [][Next]_vars => []RepliesAreTrue
<1>1. IInv => RepliesAreTrue
  <2> SUFFICES ASSUME IInv PROVE RepliesAreTrue
    OBVIOUS
  <2>1. ReplyIsTrue
    BY DEF IInv, CallInv, Waits, Opens, Replied, ReplyIsTrue
  <2>2. QED
    BY <2>1 DEF IInv, AnswerInv, RepliesAreTrue
<1>2. QED
  BY <1>1, IInvHolds, PTL

-----------------------------------------------------------------------------
(* What the engine tells of its pages, and its pages of the clipboard      *)
(* (WebKitSignals), for any tabs and a channel of any length.              *)

PageOK ==
  /\ openTabs \subseteq Tabs /\ inFront \in Tabs \cup {Signals!Nobody}
  /\ page \in [Tabs -> [phase : {Signals!Idle, Signals!Asked, Signals!Started, Signals!Committed},
                        past : BOOLEAN, home : BOOLEAN]]

\* A request that is still open has no answer yet, and one whose text is or may
\* be fetched is of a buffr:// page.
ReadsInv ==
  /\ reads \in Seq([tab : Tabs, asker : BOOLEAN, told : BOOLEAN, answers : Nat,
                    stage : {"thread", "text", "nothing", "answered"}])
  /\ \A i \in 1..Len(reads) :
       /\ reads[i].answers = IF reads[i].stage = "answered" THEN 1 ELSE 0
       /\ (reads[i].stage \in {"thread", "text"} \/ reads[i].told) => reads[i].asker

LEMMA PageKeeps == PageOK /\ [Signals!Next]_Signals!vars => PageOK'
<1> SUFFICES ASSUME PageOK, [Signals!Next]_Signals!vars PROVE PageOK'
  OBVIOUS
<1> USE DEF Signals!shown, Signals!Outside, Signals!Noted
<1> DEFINE Phases == {Signals!Idle, Signals!Asked, Signals!Started, Signals!Committed}
<1>1. ASSUME UNCHANGED <<openTabs, inFront, page>> PROVE PageOK'
  BY <1>1 DEF PageOK
<1>2. ASSUME NEW t \in Tabs, NEW phase1 \in Phases, page' = [page EXCEPT ![t].phase = phase1],
             UNCHANGED <<openTabs, inFront>>
      PROVE  PageOK'
  BY <1>2 DEF PageOK
<1>3. CASE Signals!Navigate \/ Signals!Act
  BY <1>1, <1>3 DEF Signals!Navigate, Signals!Act
<1>4. CASE Signals!Obey
  <2> DEFINE order == Head(orders)
  <2>1. CASE order.do = "select"
    BY <1>4, <2>1 DEF Signals!Obey, Signals!HandleSelect, PageOK
  <2>2. CASE order.do = "load" /\ inFront # Signals!Nobody
    <3>1. page' = [page EXCEPT ![inFront].phase = Signals!Asked] /\ inFront \in Tabs /\ UNCHANGED <<openTabs, inFront>>
      BY <1>4, <2>2 DEF Signals!Obey, Signals!HandleLoad, PageOK
    <3>2. QED
      BY <1>2, <3>1
  <2>3. CASE order.do # "select" /\ ~(order.do = "load" /\ inFront # Signals!Nobody)
    BY <1>1, <1>4, <2>3 DEF Signals!Obey
  <2>4. QED
    BY <2>1, <2>2, <2>3
<1>5. ASSUME NEW t \in Tabs, Signals!SelectTab(t) \/ Signals!Read(t) PROVE PageOK'
  BY <1>1, <1>5 DEF Signals!SelectTab, Signals!Read
<1>6. ASSUME NEW t \in Tabs, Signals!CloseTab(t) PROVE PageOK'
  BY <1>6 DEF Signals!CloseTab, PageOK
<1>7. ASSUME NEW t \in Tabs, Signals!PushState(t) PROVE PageOK'
  BY <1>7 DEF Signals!PushState, PageOK
<1>8. ASSUME NEW t \in Tabs, NEW free \in BOOLEAN, Signals!Ends(t, free) PROVE PageOK'
  BY <1>8 DEF Signals!Ends, Signals!LoadEnds, PageOK
<1>9. ASSUME NEW t \in Tabs, NEW free \in BOOLEAN, NEW yes \in BOOLEAN, Signals!Begins(t, yes, free)
      PROVE  PageOK'
  BY <1>2, <1>9 DEF Signals!Begins, Signals!LoadStarts
<1>10. ASSUME NEW t \in Tabs, NEW free \in BOOLEAN, NEW yes \in BOOLEAN, Signals!Commits(t, yes, free)
       PROVE  PageOK'
  BY <1>10 DEF Signals!Commits, Signals!LoadCommits, PageOK
<1>11. ASSUME NEW i, NEW text, Signals!Answer(i) \/ Signals!Fetched(i, text) PROVE PageOK'
  BY <1>1, <1>11 DEF Signals!Answer, Signals!Fetched
<1>12. CASE UNCHANGED Signals!vars
  BY <1>1, <1>12 DEF Signals!vars
<1>13. QED
  BY <1>3, <1>4, <1>5, <1>6, <1>7, <1>8, <1>9, <1>10, <1>11, <1>12 DEF Signals!Next

LEMMA ReadsKeep == PageOK /\ ReadsInv /\ [Signals!Next]_Signals!vars => ReadsInv'
<1> SUFFICES ASSUME PageOK, ReadsInv, [Signals!Next]_Signals!vars PROVE ReadsInv'
  OBVIOUS
<1> DEFINE T == [tab : Tabs, asker : BOOLEAN, told : BOOLEAN, answers : Nat,
                 stage : {"thread", "text", "nothing", "answered"}]
           Good(r) == /\ r \in T
                      /\ r.answers = IF r.stage = "answered" THEN 1 ELSE 0
                      /\ (r.stage \in {"thread", "text"} \/ r.told) => r.asker
<1>1. ReadsInv <=> reads \in Seq(T) /\ \A i \in 1..Len(reads) : Good(reads[i])
  BY ElementOfSeq DEF ReadsInv
<1>2. ReadsInv' <=> reads' \in Seq(T) /\ \A i \in 1..Len(reads') : Good(reads'[i])
  BY ElementOfSeq DEF ReadsInv
<1>3. ASSUME NEW i \in 1..Len(reads), NEW r, Good(r), reads' = [reads EXCEPT ![i] = r] PROVE ReadsInv'
  <2>1. r \in T
    BY <1>3
  <2> HIDE DEF Good, T
  <2>2. QED
    BY <1>1, <1>2, <1>3, <2>1
<1>4. CASE UNCHANGED reads
  BY <1>1, <1>2, <1>4
<1>5. ASSUME NEW t \in Tabs, Signals!Read(t) PROVE ReadsInv'
  <2> DEFINE r == [tab |-> t, asker |-> page[t].home,
                   stage |-> IF page[t].home THEN "thread" ELSE "answered",
                   told |-> FALSE, answers |-> IF page[t].home THEN 0 ELSE 1]
  <2>1. reads' = Append(reads, r) /\ page[t].home \in BOOLEAN
    BY <1>5 DEF Signals!Read, Signals!MayRead, PageOK
  <2>2. Good(r) /\ r \in T
    BY <2>1
  <2> HIDE DEF Good, T, r
  <2>3. /\ reads' \in Seq(T) /\ Len(reads') = Len(reads) + 1 /\ Len(reads) \in Nat
        /\ reads'[Len(reads) + 1] = r /\ \A i \in 1..Len(reads) : reads'[i] = reads[i]
    BY <1>1, <2>1, <2>2, AppendProperties
  <2>4. QED
    BY <1>1, <1>2, <2>2, <2>3
<1>6. ASSUME NEW i \in DOMAIN reads, NEW text \in BOOLEAN, Signals!Fetched(i, text) PROVE ReadsInv'
  <2> DEFINE r == [reads[i] EXCEPT !.stage = IF text THEN "text" ELSE "nothing"]
  <2>1. /\ i \in 1..Len(reads) /\ Good(reads[i]) /\ reads[i].stage = "thread"
        /\ reads' = [reads EXCEPT ![i] = r]
    BY <1>1, <1>6 DEF Signals!Fetched
  <2>2. Good(r)
    BY <2>1
  <2>3. QED
    BY <1>3, <2>1, <2>2
<1>7. ASSUME NEW i \in DOMAIN reads, Signals!Answer(i) PROVE ReadsInv'
  <2> DEFINE w == reads[i]
             r == [w EXCEPT !.stage = "answered", !.told = (w.stage = "text"), !.answers = @ + 1]
  <2>1. i \in 1..Len(reads) /\ Good(w) /\ w.stage \in {"text", "nothing"}
    BY <1>1, <1>7 DEF Signals!Answer
  <2>2. reads' = [reads EXCEPT ![i] = r]
    BY <1>7 DEF Signals!Answer, Signals!Finished
  <2> HIDE DEF w
  <2>3. w.answers = 0 /\ (w.stage = "text" => w.asker) /\ w \in T
    BY <2>1
  <2>4. ASSUME NEW told \in BOOLEAN, told => w.asker
        PROVE  Good([w EXCEPT !.stage = "answered", !.told = told, !.answers = 1])
    <3> DEFINE x == [w EXCEPT !.stage = "answered", !.told = told, !.answers = 1]
    <3>1. x \in T
      BY <2>3
    <3>2. x.stage = "answered" /\ x.answers = 1
      BY <2>3
    <3>3. x.told = told /\ x.asker = w.asker
      BY <2>3
    <3> HIDE DEF x, T
    <3>4. QED
      BY <2>4, <3>1, <3>2, <3>3 DEF x
  <2>5. r = [w EXCEPT !.stage = "answered", !.told = (w.stage = "text"), !.answers = 1]
    BY <2>3
  <2> HIDE DEF r, T, Good
  <2>6. Good(r)
    BY <2>3, <2>4, <2>5
  <2>7. QED
    BY <1>3, <2>1, <2>2, <2>6
<1>8. QED
  BY <1>4, <1>5, <1>6, <1>7 DEF Signals!Next, Signals!vars, Signals!Navigate, Signals!Act,
     Signals!Obey,
     Signals!SelectTab, Signals!CloseTab, Signals!PushState, Signals!Ends, Signals!Begins, Signals!Commits

\* Each reading of the clipboard is answered once, and only buffr:// pages are
\* told, whatever the page has become while the clipboard was read
\* (on_clipboard_paste_scheme_request).
THEOREM ReadsAnswered == Signals!Spec => []Signals!ReadsAreAnswered
<1>1. Signals!Init => PageOK /\ ReadsInv
  BY DEF Signals!Init, PageOK, ReadsInv
<1>2. PageOK /\ ReadsInv /\ [Signals!Next]_Signals!vars => PageOK' /\ ReadsInv'
  BY PageKeeps, ReadsKeep
<1>3. PageOK /\ ReadsInv => Signals!ReadsAreAnswered
  BY ElementOfSeq DEF ReadsInv, Signals!ReadsAreAnswered
<1>4. QED
  BY <1>1, <1>2, <1>3, PTL DEF Signals!Spec

\* The record of a tab whose updates all arrived tells whether the tab loads,
\* the flags tell it of the tab in front, but for a load the application has
\* asked for and the worker has not heard of.
NoLoadWaits == \A i \in 1..Len(orders) : orders[i].do # "load"
Loading(t, says) ==
  (page[t].phase = Signals!Started => says) /\ (page[t].phase = Signals!Idle => ~says)

OrdersOK ==
  /\ QueueLen \in Nat /\ chosen \in Tabs \cup {Signals!Nobody}
  /\ orders \in Seq([do : {"load", "select", "act"}, tab : Tabs \cup {Signals!Nobody}])
InfoInv ==
  /\ info \in [Tabs -> BOOLEAN] /\ tabFlags \in [loading : BOOLEAN, back : BOOLEAN]
  /\ \A t \in Tabs \ missed : Loading(t, info[t])
BackInv == inFront # Signals!Nobody /\ "back" \notin unsure => tabFlags.back = page[inFront].past
LoadInv ==
  inFront # Signals!Nobody /\ "loading" \notin unsure /\ inFront \notin missed =>
    /\ page[inFront].phase = Signals!Started => tabFlags.loading
    /\ NoLoadWaits /\ page[inFront].phase = Signals!Idle => ~tabFlags.loading
FlagsInv == OrdersOK /\ InfoInv /\ BackInv /\ LoadInv

LEMMA OrdersKeep ==
  ASSUME PageOK, FlagsInv, [Signals!Next]_Signals!vars
  PROVE  /\ OrdersOK'
         /\ Signals!Obey \/ orders' = orders \/ Signals!Sent([do |-> "load", tab |-> chosen])
              \/ Signals!Sent([do |-> "act", tab |-> chosen])
              \/ \E t \in Tabs : Signals!Sent([do |-> "select", tab |-> t])
         /\ NoLoadWaits' /\ ~Signals!Obey => NoLoadWaits
         /\ NoLoadWaits' /\ Signals!Obey /\ Head(orders).do # "load" => NoLoadWaits
         /\ orders = <<>> => NoLoadWaits
<1> DEFINE O == [do : {"load", "select", "act"}, tab : Tabs \cup {Signals!Nobody}]
<1>1. /\ orders \in Seq(O) /\ chosen \in Tabs \cup {Signals!Nobody} /\ Len(orders) \in Nat
      /\ QueueLen \in Nat
  BY DEF FlagsInv, OrdersOK
<1>2. ASSUME NEW o \in O, Signals!Sent(o) PROVE orders' \in Seq(O) /\ (NoLoadWaits' => NoLoadWaits)
  <2> HIDE DEF O
  <2>1. /\ Append(orders, o) \in Seq(O) /\ Len(Append(orders, o)) = Len(orders) + 1
        /\ \A i \in 1..Len(orders) : Append(orders, o)[i] = orders[i]
    BY <1>1, AppendProperties
  <2>2. \A i \in 1..Len(orders) : i \in 1..(Len(orders) + 1)
    BY <1>1
  <2>3. QED
    BY <1>1, <1>2, <2>1, <2>2 DEF Signals!Sent, NoLoadWaits
<1>3. ASSUME orders' = orders PROVE orders' \in Seq(O) /\ (NoLoadWaits' => NoLoadWaits)
  BY <1>1, <1>3 DEF NoLoadWaits
<1>4. CASE Signals!Obey
  <2> HIDE DEF O
  <2>1. /\ orders' \in Seq(O) /\ Len(orders') = Len(orders) - 1 /\ Len(orders) > 0
        /\ \A i \in 1..(Len(orders) - 1) : orders'[i] = orders[i + 1]
        /\ Head(orders) = orders[1] /\ chosen' = chosen
    BY <1>1, <1>4, TailFacts DEF Signals!Obey
  <2>2. NoLoadWaits' /\ Head(orders).do # "load" => NoLoadWaits
    <3> SUFFICES ASSUME NoLoadWaits', Head(orders).do # "load", NEW i \in 1..Len(orders)
                 PROVE  orders[i].do # "load"
      BY DEF NoLoadWaits
    <3>1. CASE i = 1
      BY <2>1, <3>1
    <3>2. CASE i # 1
      <4>1. i - 1 \in 1..(Len(orders) - 1) /\ (i - 1) + 1 = i
        BY <1>1, <3>2
      <4>2. orders'[i - 1].do # "load"
        BY <2>1, <4>1 DEF NoLoadWaits
      <4>3. QED
        BY <2>1, <4>1, <4>2
    <3>3. QED
      BY <3>1, <3>2
  <2>3. QED
    BY <1>1, <1>4, <2>1, <2>2 DEF OrdersOK, NoLoadWaits, O
<1>5. ASSUME ~Signals!Obey, chosen' \in Tabs \cup {Signals!Nobody},
             \/ orders' = orders \/ Signals!Sent([do |-> "load", tab |-> chosen])
             \/ Signals!Sent([do |-> "act", tab |-> chosen])
             \/ \E t \in Tabs : Signals!Sent([do |-> "select", tab |-> t])
      PROVE  OrdersOK' /\ (NoLoadWaits' => NoLoadWaits)
  <2>1. /\ [do |-> "load", tab |-> chosen] \in O /\ [do |-> "act", tab |-> chosen] \in O
        /\ \A t \in Tabs : [do |-> "select", tab |-> t] \in O
    BY <1>1
  <2>2. orders' \in Seq(O) /\ (NoLoadWaits' => NoLoadWaits)
    BY <1>2, <1>3, <1>5, <2>1
  <2>3. QED
    BY <1>1, <1>5, <2>2 DEF OrdersOK
<1>6. ASSUME ~Signals!Obey
      PROVE  /\ chosen' \in Tabs \cup {Signals!Nobody}
             /\ \/ orders' = orders \/ Signals!Sent([do |-> "load", tab |-> chosen])
                \/ Signals!Sent([do |-> "act", tab |-> chosen])
                \/ \E t \in Tabs : Signals!Sent([do |-> "select", tab |-> t])
  <2> USE <1>1, <1>6 DEF Signals!shown
  <2>1. CASE Signals!Navigate \/ Signals!Act
    BY <2>1 DEF Signals!Navigate, Signals!Act
  <2>2. ASSUME NEW t \in Tabs,
               \/ Signals!SelectTab(t) \/ Signals!PushState(t) \/ Signals!Read(t)
               \/ \E free \in BOOLEAN :
                    \/ Signals!Ends(t, free)
                    \/ \E yes \in BOOLEAN : Signals!Begins(t, yes, free) \/ Signals!Commits(t, yes, free)
        PROVE  /\ chosen' \in Tabs \cup {Signals!Nobody}
               /\ orders' = orders \/ Signals!Sent([do |-> "select", tab |-> t])
    BY <2>2 DEF Signals!SelectTab, Signals!PushState, Signals!Read, Signals!Ends, Signals!Begins,
       Signals!Commits
  <2>3. ASSUME NEW t \in Tabs, Signals!CloseTab(t)
        PROVE  chosen' \in Tabs \cup {Signals!Nobody} /\ orders' = orders
    BY <2>3 DEF Signals!CloseTab, PageOK
  <2>4. ASSUME NEW i, NEW text, Signals!Answer(i) \/ Signals!Fetched(i, text)
        PROVE  chosen' \in Tabs \cup {Signals!Nobody} /\ orders' = orders
    BY <2>4 DEF Signals!Answer, Signals!Fetched
  <2>5. CASE UNCHANGED Signals!vars
    BY <2>5 DEF Signals!vars
  <2>6. QED
    BY <2>1, <2>2, <2>3, <2>4, <2>5 DEF Signals!Next
<1>7. orders = <<>> => NoLoadWaits
  BY DEF NoLoadWaits
<1>8. QED
  BY <1>4, <1>5, <1>6, <1>7

\* What the flags and the records depend on stays, and no load is taken out.
LEMMA FlagsFrame ==
  ASSUME FlagsInv, UNCHANGED <<inFront, page, info, missed>>, NoLoadWaits' => NoLoadWaits,
         unsure \subseteq unsure',
         tabFlags' = tabFlags \/ (tabFlags' = [tabFlags EXCEPT !.loading = TRUE] /\
                            (NoLoadWaits' => "loading" \in unsure'))
  PROVE  InfoInv' /\ BackInv' /\ LoadInv'
<1>1. /\ info \in [Tabs -> BOOLEAN] /\ tabFlags \in [loading : BOOLEAN, back : BOOLEAN]
      /\ \A t \in Tabs \ missed : Loading(t, info[t])
  BY DEF FlagsInv, InfoInv
<1>2. tabFlags' \in [loading : BOOLEAN, back : BOOLEAN] /\ tabFlags'.back = tabFlags.back
  BY <1>1
<1>3. InfoInv'
  BY <1>1, <1>2 DEF InfoInv, Loading
<1>4. BackInv'
  BY <1>2 DEF FlagsInv, BackInv
<1>5. tabFlags' = tabFlags \/ (tabFlags'.loading /\ (NoLoadWaits' => "loading" \in unsure'))
  BY <1>1
<1>6. LoadInv'
  BY <1>5 DEF FlagsInv, LoadInv
<1>7. QED
  BY <1>3, <1>4, <1>6

\* A signal of the page in t: its record follows unless the lock was taken, and
\* the flags do if it is in front.
Signal(t, p, says, free, flag, back) ==
  /\ page' = [page EXCEPT ![t] = p] /\ Signals!Noted(t, says, free)
  /\ free => (p.phase = Signals!Started => says) /\ (p.phase = Signals!Idle => ~says)
  /\ (p.phase = Signals!Started => flag) /\ (p.phase = Signals!Idle => ~flag)
  /\ tabFlags' \in [loading : BOOLEAN, back : BOOLEAN]
  /\ t = inFront => tabFlags'.loading = flag /\ tabFlags'.back = back
  /\ t # inFront => tabFlags' = tabFlags /\ unsure' = unsure
  /\ \/ back = p.past
     \/ back = tabFlags.back /\ p.past = page[t].past /\ ("back" \in unsure => "back" \in unsure')
  /\ inFront' = inFront

LEMMA SignalKeeps ==
  ASSUME PageOK, FlagsInv, NEW t \in Tabs, NEW p, p.past \in BOOLEAN,
         NEW says \in BOOLEAN, NEW free \in BOOLEAN, NEW flag \in BOOLEAN, NEW back \in BOOLEAN,
         Signal(t, p, says, free, flag, back), NoLoadWaits' => NoLoadWaits
  PROVE  InfoInv' /\ BackInv' /\ LoadInv'
<1> USE DEF Signal
<1>1. /\ info \in [Tabs -> BOOLEAN] /\ tabFlags \in [loading : BOOLEAN, back : BOOLEAN]
      /\ \A k \in Tabs \ missed : Loading(k, info[k])
      /\ DOMAIN page = Tabs
  BY DEF FlagsInv, InfoInv, PageOK
<1>2. /\ page'[t] = p /\ \A k \in Tabs \ {t} : page'[k] = page[k]
      /\ info' \in [Tabs -> BOOLEAN] /\ (free => info'[t] = says)
      /\ \A k \in Tabs \ {t} : info'[k] = info[k]
      /\ missed' = IF free THEN missed \ {t} ELSE missed \cup {t}
  BY <1>1 DEF Signals!Noted
<1>3. tabFlags' \in [loading : BOOLEAN, back : BOOLEAN]
  BY <1>1
<1>4. InfoInv'
  <2>1. ASSUME NEW k \in Tabs \ missed'
        PROVE  (page'[k].phase = Signals!Started => info'[k]) /\ (page'[k].phase = Signals!Idle => ~info'[k])
    <3>1. CASE k = t
      BY <1>2, <2>1, <3>1
    <3>2. CASE k # t
      BY <1>1, <1>2, <2>1, <3>2 DEF Loading
    <3>3. QED
      BY <3>1, <3>2
  <2>2. QED
    BY <1>2, <1>3, <2>1 DEF InfoInv, Loading
<1>5. CASE t = inFront
  <2>1. tabFlags'.loading = flag /\ tabFlags'.back = back
    BY <1>5
  <2>2. BackInv'
    BY <1>2, <1>5, <2>1 DEF FlagsInv, BackInv
  <2>3. LoadInv'
    BY <1>2, <1>5, <2>1 DEF LoadInv
  <2>4. QED
    BY <1>4, <2>2, <2>3
<1>6. CASE t # inFront
  <2>1. inFront # Signals!Nobody => inFront \in Tabs \ {t}
    BY <1>6 DEF PageOK
  <2>2. tabFlags' = tabFlags /\ unsure' = unsure /\ (inFront # Signals!Nobody => page'[inFront] = page[inFront])
    BY <1>2, <1>6, <2>1
  <2>3. BackInv'
    BY <2>2 DEF FlagsInv, BackInv
  <2>4. inFront \in missed => inFront \in missed' \/ inFront = Signals!Nobody
    BY <1>2, <1>6
  <2>5. LoadInv'
    BY <2>2, <2>4 DEF FlagsInv, LoadInv
  <2>6. QED
    BY <1>4, <2>3, <2>5
<1>7. QED
  BY <1>5, <1>6

LEMMA ObeyKeeps == PageOK /\ FlagsInv /\ Signals!Obey => InfoInv' /\ BackInv' /\ LoadInv'
<1> SUFFICES ASSUME PageOK, FlagsInv, Signals!Obey PROVE InfoInv' /\ BackInv' /\ LoadInv'
  OBVIOUS
<1> DEFINE order == Head(orders)
           t == order.tab
<1>1. NoLoadWaits' /\ order.do # "load" => NoLoadWaits
  <2>1. [Signals!Next]_Signals!vars
    BY DEF Signals!Next
  <2>2. QED
    BY <2>1, OrdersKeep
<1>2. /\ info \in [Tabs -> BOOLEAN] /\ tabFlags \in [loading : BOOLEAN, back : BOOLEAN]
      /\ \A k \in Tabs \ missed : Loading(k, info[k])
  BY DEF FlagsInv, InfoInv
<1>3. CASE order.do = "select"
  <2>1. Signals!HandleSelect(t) /\ UNCHANGED <<page, info, missed>>
    BY <1>3 DEF Signals!Obey
  <2>2. CASE t \notin openTabs \/ t = inFront
    <3>1. UNCHANGED <<inFront, page, info, missed, tabFlags, unsure>> /\ (NoLoadWaits' => NoLoadWaits)
      BY <1>1, <1>3, <2>1, <2>2 DEF Signals!HandleSelect
    <3>2. QED
      BY <3>1, FlagsFrame
  <2>3. CASE t \in openTabs /\ t # inFront
    <3>1. /\ t \in Tabs /\ inFront' = t /\ unsure' = {} /\ UNCHANGED <<page, info, missed>>
          /\ tabFlags' = [loading |-> info[t], back |-> page[t].past]
      BY <2>1, <2>3 DEF Signals!HandleSelect, Signals!Restored, PageOK
    <3>2. info[t] \in BOOLEAN /\ page[t].past \in BOOLEAN
      BY <1>2, <3>1 DEF PageOK
    <3> HIDE DEF t, order
    <3>3. tabFlags' \in [loading : BOOLEAN, back : BOOLEAN]
      BY <3>1, <3>2
    <3>4. InfoInv'
      BY <1>2, <3>1, <3>3 DEF InfoInv, Loading
    <3>5. BackInv'
      BY <3>1, <3>2 DEF BackInv
    <3>6. t \notin missed => Loading(t, info[t])
      BY <1>2, <3>1
    <3>7. tabFlags'.loading = info[t]
      BY <3>1
    <3>8. LoadInv'
      BY <3>1, <3>2, <3>6, <3>7 DEF LoadInv, Loading
    <3>9. QED
      BY <3>4, <3>5, <3>8
  <2>4. QED
    BY <2>2, <2>3
<1>4. CASE order.do = "load" /\ inFront # Signals!Nobody
  <2>1. Signals!HandleLoad /\ UNCHANGED <<inFront, tabFlags, unsure>>
    BY <1>4 DEF Signals!Obey
  <2>2. /\ inFront \in Tabs /\ UNCHANGED <<inFront, tabFlags, unsure>>
        /\ page'[inFront].phase = Signals!Asked /\ page'[inFront].past = page[inFront].past
        /\ info' \in [Tabs -> BOOLEAN]
        /\ \A k \in Tabs \ {inFront} : page'[k] = page[k] /\ info'[k] = info[k]
        /\ missed' = missed \ {inFront}
    BY <1>2, <1>4, <2>1 DEF Signals!HandleLoad, PageOK
  <2>3. Signals!Asked # Signals!Started /\ Signals!Asked # Signals!Idle
    BY DEF Signals!Asked, Signals!Started, Signals!Idle
  <2>4. InfoInv'
    <3>1. ASSUME NEW k \in Tabs \ missed'
          PROVE  (page'[k].phase = Signals!Started => info'[k]) /\ (page'[k].phase = Signals!Idle => ~info'[k])
      BY <1>2, <2>2, <2>3 DEF Loading
    <3>2. QED
      BY <1>2, <2>2, <3>1 DEF InfoInv, Loading
  <2>5. BackInv' /\ LoadInv'
    BY <2>2, <2>3 DEF FlagsInv, BackInv, LoadInv
  <2>6. QED
    BY <2>4, <2>5
<1>5. CASE order.do # "select" /\ ~(order.do = "load" /\ inFront # Signals!Nobody)
  <2>1. UNCHANGED <<inFront, page, info, tabFlags, missed, unsure>>
    BY <1>5 DEF Signals!Obey
  <2>2. inFront = Signals!Nobody \/ order.do # "load"
    BY <1>5
  <2>3. InfoInv' /\ BackInv'
    BY <2>1 DEF FlagsInv, InfoInv, BackInv, Loading
  <2>4. LoadInv'
    BY <1>1, <2>1, <2>2 DEF FlagsInv, LoadInv
  <2>5. QED
    BY <2>3, <2>4
<1>6. QED
  BY <1>3, <1>4, <1>5

LEMMA FlagsKeep == PageOK /\ FlagsInv /\ [Signals!Next]_Signals!vars => FlagsInv'
<1> SUFFICES ASSUME PageOK, FlagsInv, [Signals!Next]_Signals!vars PROVE FlagsInv'
  OBVIOUS
<1> DEFINE Inv == InfoInv /\ BackInv /\ LoadInv
<1>1. OrdersOK' /\ (NoLoadWaits' /\ ~Signals!Obey => NoLoadWaits)
  BY OrdersKeep
<1>2. tabFlags \in [loading : BOOLEAN, back : BOOLEAN] /\ info \in [Tabs -> BOOLEAN]
  BY DEF FlagsInv, InfoInv
<1> SUFFICES ASSUME ~Signals!Obey PROVE Inv'
  BY <1>1, ObeyKeeps DEF FlagsInv
<1>3. ASSUME UNCHANGED <<inFront, page, info, tabFlags, missed, unsure>> PROVE Inv'
  BY <1>1, <1>3, FlagsFrame
<1>4. CASE Signals!Navigate
  <2>1. /\ UNCHANGED <<inFront, page, info, missed>> /\ tabFlags' = [tabFlags EXCEPT !.loading = TRUE]
        /\ unsure' = IF Signals!Lost THEN unsure \cup {"loading"} ELSE unsure
        /\ Signals!Sent([do |-> "load", tab |-> chosen])
    BY <1>4 DEF Signals!Navigate
  <2>2. ASSUME ~Signals!Lost PROVE ~NoLoadWaits'
    <3> DEFINE O == [do : {"load", "select", "act"}, tab : Tabs \cup {Signals!Nobody}]
               o == [do |-> "load", tab |-> chosen]
    <3>1. orders \in Seq(O) /\ o \in O /\ o.do = "load"
      BY DEF FlagsInv, OrdersOK
    <3> HIDE DEF O, o
    <3>2. Len(orders) \in Nat /\ Len(Append(orders, o)) = Len(orders) + 1
          /\ Append(orders, o)[Len(orders) + 1] = o
      BY <3>1, AppendProperties
    <3>3. orders' = Append(orders, o)
      <4>1. Len(orders) < QueueLen \/ Len(orders) >= QueueLen
        BY <3>2 DEF FlagsInv, OrdersOK
      <4>2. QED
        BY <2>1, <2>2, <4>1 DEF Signals!Sent, Signals!Lost, o
    <3>4. QED
      BY <3>1, <3>2, <3>3 DEF NoLoadWaits
  <2>3. QED
    BY <1>1, <2>1, <2>2, FlagsFrame
<1>5. CASE Signals!Act
  BY <1>3, <1>5 DEF Signals!Act, Signals!shown
<1>6. ASSUME NEW t \in Tabs, Signals!SelectTab(t) \/ Signals!Read(t) PROVE Inv'
  BY <1>3, <1>6 DEF Signals!SelectTab, Signals!Read, Signals!shown
<1>7. ASSUME NEW t \in Tabs, Signals!CloseTab(t) PROVE Inv'
  <2>1. UNCHANGED <<page, info, tabFlags, missed, orders>>
        /\ (t = inFront => {"loading", "back"} \subseteq unsure')
        /\ (t # inFront => UNCHANGED <<inFront, unsure>>)
    BY <1>7 DEF Signals!CloseTab
  <2>2. InfoInv'
    BY <2>1 DEF FlagsInv, InfoInv, Loading
  <2>3. BackInv' /\ LoadInv'
    BY <2>1 DEF FlagsInv, BackInv, LoadInv, NoLoadWaits
  <2>4. QED
    BY <2>2, <2>3
<1>8. ASSUME NEW t \in Tabs, Signals!PushState(t) PROVE Inv'
  <2>1. /\ UNCHANGED <<inFront, info, tabFlags, missed, orders>>
        /\ page' = [page EXCEPT ![t].past = TRUE]
        /\ unsure' = IF t = inFront THEN unsure \cup {"back"} ELSE unsure
    BY <1>8 DEF Signals!PushState
  <2>2. /\ \A k \in Tabs : page'[k].phase = page[k].phase
        /\ \A k \in Tabs \ {t} : page'[k].past = page[k].past
    BY <2>1 DEF PageOK
  <2>3. InfoInv'
    BY <2>1, <2>2 DEF FlagsInv, InfoInv, Loading
  <2>4. BackInv'
    BY <2>1, <2>2 DEF FlagsInv, BackInv, PageOK
  <2>5. LoadInv'
    BY <2>1, <2>2 DEF FlagsInv, LoadInv, NoLoadWaits, PageOK
  <2>6. QED
    BY <2>3, <2>4, <2>5
<1> USE DEF Signals!Idle, Signals!Asked, Signals!Started, Signals!Committed
<1>9. ASSUME NEW t \in Tabs, NEW free \in BOOLEAN, Signals!Ends(t, free) PROVE Inv'
  <2>1. PICK p : p = [page[t] EXCEPT !.phase = IF @ = Signals!Asked THEN Signals!Asked ELSE Signals!Idle]
    OBVIOUS
  <2>2. PICK past \in BOOLEAN : past = page[t].past
    BY DEF PageOK
  <2>3. PICK no \in BOOLEAN : ~no
    OBVIOUS
  <2>4. /\ page' = [page EXCEPT ![t] = p] /\ Signals!Noted(t, no, free) /\ inFront' = inFront
        /\ tabFlags' = IF t = inFront THEN [loading |-> no, back |-> past] ELSE tabFlags
        /\ unsure' = IF t = inFront THEN {} ELSE unsure
    BY <1>9, <2>1, <2>2, <2>3 DEF Signals!Ends, Signals!LoadEnds, Signals!IsFront
  <2>5. p.past = past /\ p.phase # Signals!Started
    BY <2>1, <2>2 DEF PageOK
  <2>6. Signal(t, p, no, free, no, past)
    BY <1>2, <2>3, <2>4, <2>5 DEF Signal
  <2>7. p.past \in BOOLEAN
    BY <2>5
  <2>8. QED
    BY <1>1, <2>6, <2>7, SignalKeeps
<1>10. ASSUME NEW t \in Tabs, NEW free \in BOOLEAN, NEW yes \in BOOLEAN, Signals!Begins(t, yes, free)
       PROVE  Inv'
  <2>1. PICK p : p = [page[t] EXCEPT !.phase = Signals!Started]
    OBVIOUS
  <2>2. PICK back \in BOOLEAN : back = tabFlags.back
    BY <1>2
  <2>3. PICK yea \in BOOLEAN : yea
    OBVIOUS
  <2>4. /\ page' = [page EXCEPT ![t] = p] /\ Signals!Noted(t, yea, free) /\ inFront' = inFront
        /\ tabFlags' = IF t = inFront THEN [tabFlags EXCEPT !.loading = yea] ELSE tabFlags
        /\ unsure' = IF t = inFront THEN unsure \ {"loading"} ELSE unsure
    BY <1>10, <2>1, <2>3 DEF Signals!Begins, Signals!LoadStarts, Signals!IsFront
  <2>5. p.past = page[t].past /\ p.past \in BOOLEAN /\ p.phase = Signals!Started
    BY <2>1 DEF PageOK
  <2>6. Signal(t, p, yea, free, yea, back)
    <3>1. tabFlags' \in [loading : BOOLEAN, back : BOOLEAN] /\ tabFlags'.back = IF t = inFront THEN back ELSE tabFlags.back
      BY <1>2, <2>2, <2>4
    <3>2. t = inFront => tabFlags'.loading = yea
      BY <1>2, <2>4
    <3>3. QED
      BY <2>2, <2>3, <2>4, <2>5, <3>1, <3>2 DEF Signal
  <2>7. QED
    BY <1>1, <2>5, <2>6, SignalKeeps
<1>11. ASSUME NEW t \in Tabs, NEW free \in BOOLEAN, NEW yes \in BOOLEAN, Signals!Commits(t, yes, free)
       PROVE  Inv'
  <2>1. PICK p : p = [phase |-> Signals!Committed, past |-> TRUE, home |-> yes]
    OBVIOUS
  <2>2. PICK says \in BOOLEAN : says = info[t]
    BY <1>2
  <2>3. PICK no \in BOOLEAN, yea \in BOOLEAN : ~no /\ yea
    OBVIOUS
  <2>4. /\ page' = [page EXCEPT ![t] = p] /\ Signals!Noted(t, says, free) /\ inFront' = inFront
        /\ tabFlags' = IF t = inFront THEN [loading |-> no, back |-> yea] ELSE tabFlags
        /\ unsure' = IF t = inFront THEN {} ELSE unsure
    BY <1>11, <2>1, <2>2, <2>3 DEF Signals!Commits, Signals!LoadCommits, Signals!IsFront,
       Signals!Noted
  <2>5. p.past = yea /\ p.past \in BOOLEAN /\ p.phase = Signals!Committed
    BY <2>1, <2>3
  <2>6. Signal(t, p, says, free, no, yea)
    BY <1>2, <2>3, <2>4, <2>5 DEF Signal
  <2>7. QED
    BY <1>1, <2>5, <2>6, SignalKeeps
<1>12. ASSUME NEW i, NEW text, Signals!Answer(i) \/ Signals!Fetched(i, text) PROVE Inv'
  BY <1>3, <1>12 DEF Signals!Answer, Signals!Fetched, Signals!shown
<1>13. CASE UNCHANGED Signals!vars
  BY <1>3, <1>13 DEF Signals!vars, Signals!shown
<1>14. QED
  BY <1>1, <1>4, <1>5, <1>6, <1>7, <1>8, <1>9, <1>10, <1>11, <1>12, <1>13 DEF Signals!Next, FlagsInv

\* In every behaviour of the signals the types, the records and the flags are right.
LEMMA FlagsHold == Signals!Spec => [](PageOK /\ FlagsInv)
<1>1. Signals!Init => PageOK /\ FlagsInv
  <2> SUFFICES ASSUME Signals!Init PROVE PageOK /\ FlagsInv
    OBVIOUS
  <2> USE DEF Signals!Init, Signals!Idle, Signals!Started
  <2>1. PageOK
    BY DEF PageOK
  <2>2. OrdersOK
    BY CapacityAssumption DEF OrdersOK
  <2>3. InfoInv
    BY DEF InfoInv, Loading
  <2>4. BackInv /\ LoadInv
    BY DEF BackInv, LoadInv
  <2>5. QED
    BY <2>1, <2>2, <2>3, <2>4 DEF FlagsInv
<1>2. PageOK /\ FlagsInv /\ [Signals!Next]_Signals!vars => PageOK' /\ FlagsInv'
  BY PageKeeps, FlagsKeep
<1>3. QED
  BY <1>1, <1>2, PTL DEF Signals!Spec

\* Once nothing is on its way, the two flags that the application reads without
\* a lock say how the page in front is doing, unless an update was dropped, the
\* tab came to the front because another closed, or no signal told
\* (on_load_changed, select_tab, with_tab_info).
THEOREM FlagsTellTheTruth == Signals!Spec => []Signals!FlagsAreTrue
<1>1. PageOK /\ FlagsInv => Signals!FlagsAreTrue
  <2> SUFFICES ASSUME PageOK, FlagsInv PROVE Signals!FlagsAreTrue
    OBVIOUS
  <2>1. orders = <<>> => NoLoadWaits
    BY DEF NoLoadWaits
  <2>2. QED
    BY <2>1 DEF FlagsInv, BackInv, LoadInv, Signals!FlagsAreTrue
<1>2. QED
  BY <1>1, FlagsHold, PTL

-----------------------------------------------------------------------------
(* Orders and the tabs they are for (WebKitSignals).                       *)

\* Each order in the channel is for the tab that is in front once it is carried
\* out: what is selected is open, what is not a selection is for the tab the
\* order before it leaves in front, and the last one leaves the chosen tab there.
AimInv ==
  /\ orders = <<>> => chosen = inFront
  /\ orders # <<>> =>
       /\ orders[1].do # "select" => orders[1].tab = inFront
       /\ orders[Len(orders)].tab = chosen
  /\ \A i \in 1..Len(orders) :
       /\ orders[i].do = "select" => orders[i].tab \in openTabs
       /\ i > 1 /\ orders[i].do # "select" => orders[i].tab = orders[i - 1].tab

\* Sending one more keeps the chain.
LEMMA SendingAims ==
  ASSUME OrdersOK, AimInv, NEW o, o.do \in {"load", "select", "act"}, Signals!Sent(o),
         UNCHANGED <<openTabs, inFront>>,
         IF o.do = "select"
         THEN o.tab \in openTabs /\ chosen' = IF Signals!Lost THEN chosen ELSE o.tab
         ELSE o.tab = chosen /\ chosen' = chosen
  PROVE  AimInv'
<1> DEFINE O == [do : {"load", "select", "act"}, tab : Tabs \cup {Signals!Nobody}]
<1>1. orders \in Seq(O) /\ Len(orders) \in Nat /\ QueueLen \in Nat
  BY DEF OrdersOK
<1> HIDE DEF O
<1>2. CASE Signals!Lost
  <2>1. orders' = orders /\ chosen' = chosen
    BY <1>1, <1>2 DEF Signals!Lost, Signals!Sent
  <2>2. QED
    BY <2>1 DEF AimInv
<1>3. CASE ~Signals!Lost
  <2>1. orders' = Append(orders, o) /\ chosen' = o.tab
    BY <1>1, <1>3 DEF Signals!Lost, Signals!Sent
  <2>2. /\ Len(orders') = Len(orders) + 1 /\ orders' # <<>>
        /\ \A i \in 1..Len(orders) : orders'[i] = orders[i]
        /\ orders'[Len(orders) + 1] = o
    BY <1>1, <2>1
  <2>3. o.do # "select" => o.tab = IF orders = <<>> THEN inFront ELSE orders[Len(orders)].tab
    BY DEF AimInv
  <2>4. orders'[1].do # "select" => orders'[1].tab = inFront
    <3>1. CASE orders = <<>>
      BY <2>2, <2>3, <3>1
    <3>2. CASE orders # <<>>
      <4>1. 1 \in 1..Len(orders)
        BY <1>1, <3>2
      <4>2. QED
        BY <2>2, <3>2, <4>1 DEF AimInv
    <3>3. QED
      BY <3>1, <3>2
  <2>5. ASSUME NEW i \in 1..(Len(orders) + 1)
        PROVE  /\ orders'[i].do = "select" => orders'[i].tab \in openTabs
               /\ i > 1 /\ orders'[i].do # "select" => orders'[i].tab = orders'[i - 1].tab
    <3>1. CASE i <= Len(orders)
      <4>1. i \in 1..Len(orders) /\ (i > 1 => i - 1 \in 1..Len(orders))
        BY <1>1, <3>1
      <4>2. QED
        BY <2>2, <4>1 DEF AimInv
    <3>2. CASE i = Len(orders) + 1
      <4>1. i > 1 => i - 1 = Len(orders) /\ i - 1 \in 1..Len(orders) /\ orders # <<>>
        BY <1>1, <3>2
      <4>2. QED
        BY <2>2, <2>3, <3>2, <4>1
    <3>3. QED
      BY <1>1, <3>1, <3>2
  <2>6. QED
    BY <2>1, <2>2, <2>4, <2>5 DEF AimInv
<1>4. QED
  BY <1>2, <1>3

\* Carrying one out leaves its tab in front, if it is open.
LEMMA ObeyingAims ==
  ASSUME PageOK, OrdersOK, AimInv, Signals!Obey
  PROVE  /\ AimInv'
         /\ inFront' = Head(orders).tab
<1> DEFINE O == [do : {"load", "select", "act"}, tab : Tabs \cup {Signals!Nobody}]
<1>0. orders \in Seq(O) /\ orders # <<>> /\ orders' = Tail(orders)
  BY DEF OrdersOK, Signals!Obey
<1>1. /\ Head(orders) = orders[1] /\ Head(orders) \in O /\ Len(orders) \in Nat \ {0}
      /\ orders' \in Seq(O) /\ Len(orders') = Len(orders) - 1
      /\ \A i \in 1..(Len(orders) - 1) : orders'[i] = orders[i + 1]
  <2> HIDE DEF O
  <2>1. QED
    BY <1>0, TailFacts
<1>2. inFront' = Head(orders).tab
  <2>1. CASE Head(orders).do = "select"
    <3>1. Head(orders).tab \in openTabs
      BY <1>1, <2>1 DEF AimInv
    <3>2. Signals!HandleSelect(Head(orders).tab)
      BY <2>1 DEF Signals!Obey
    <3>3. QED
      BY <3>1, <3>2 DEF Signals!HandleSelect
  <2>2. CASE Head(orders).do # "select"
    <3>1. inFront' = inFront
      BY <2>2 DEF Signals!Obey
    <3>2. QED
      BY <1>0, <1>1, <2>2, <3>1 DEF AimInv
  <2>3. QED
    BY <2>1, <2>2
<1>3. UNCHANGED <<openTabs, chosen>>
  BY DEF Signals!Obey
<1> HIDE DEF O
<1>4. CASE Len(orders) = 1
  <2>1. orders' = <<>>
    BY <1>1, <1>4
  <2>2. chosen = Head(orders).tab
    BY <1>0, <1>1, <1>4 DEF AimInv
  <2>3. QED
    BY <1>2, <1>3, <2>1, <2>2 DEF AimInv
<1>5. CASE Len(orders) > 1
  <2>1. orders' # <<>> /\ 1 \in 1..(Len(orders) - 1) /\ Len(orders) - 1 \in 1..(Len(orders) - 1)
    BY <1>1, <1>5
  <2>2. orders'[Len(orders')].tab = chosen'
    BY <1>0, <1>1, <1>3, <2>1 DEF AimInv
  <2>3. orders'[1].do # "select" => orders'[1].tab = inFront'
    <3>1. orders'[1] = orders[2] /\ 2 \in 1..Len(orders) /\ 2 > 1 /\ 2 - 1 = 1
      BY <1>1, <1>5, <2>1
    <3>2. orders[2].do # "select" => orders[2].tab = orders[2 - 1].tab
      BY <3>1 DEF AimInv
    <3>3. QED
      BY <1>1, <1>2, <3>1, <3>2
  <2>4. ASSUME NEW i \in 1..Len(orders')
        PROVE  /\ orders'[i].do = "select" => orders'[i].tab \in openTabs'
               /\ i > 1 /\ orders'[i].do # "select" => orders'[i].tab = orders'[i - 1].tab
    <3>1. i \in 1..(Len(orders) - 1) /\ i + 1 \in 1..Len(orders) /\ i + 1 > 1 /\ (i + 1) - 1 = i
      BY <1>1
    <3>2. i > 1 => orders'[i - 1] = orders[i]
      <4>1. i > 1 => i - 1 \in 1..(Len(orders) - 1) /\ (i - 1) + 1 = i
        BY <3>1
      <4>2. QED
        BY <1>1, <4>1
    <3>3. /\ orders[i + 1].do = "select" => orders[i + 1].tab \in openTabs
          /\ orders[i + 1].do # "select" => orders[i + 1].tab = orders[(i + 1) - 1].tab
      BY <3>1 DEF AimInv
    <3>4. QED
      BY <1>1, <1>3, <3>1, <3>2, <3>3
  <2>5. \A i \in 1..Len(orders') :
          /\ orders'[i].do = "select" => orders'[i].tab \in openTabs'
          /\ i > 1 /\ orders'[i].do # "select" => orders'[i].tab = orders'[i - 1].tab
    BY <2>4
  <2>6. /\ orders' = <<>> => chosen' = inFront'
        /\ orders' # <<>> =>
             /\ orders'[1].do # "select" => orders'[1].tab = inFront'
             /\ orders'[Len(orders')].tab = chosen'
    BY <2>1, <2>2, <2>3
  <2>7. QED
    BY <1>2, <2>5, <2>6 DEF AimInv
<1>6. QED
  BY <1>1, <1>2, <1>4, <1>5

LEMMA AimKeeps ==
  ASSUME PageOK, OrdersOK, AimInv, [Signals!Next]_Signals!vars
  PROVE  AimInv'
<1> USE DEF Signals!shown
<1>1. CASE Signals!Navigate
  <2>1. Signals!Sent([do |-> "load", tab |-> chosen]) /\ UNCHANGED <<openTabs, inFront, chosen>>
    BY <1>1 DEF Signals!Navigate
  <2>2. QED
    BY <2>1, SendingAims
<1>2. CASE Signals!Act
  <2>1. Signals!Sent([do |-> "act", tab |-> chosen]) /\ UNCHANGED <<openTabs, inFront, chosen>>
    BY <1>2 DEF Signals!Act
  <2>2. QED
    BY <2>1, SendingAims
<1>3. ASSUME NEW t \in Tabs, Signals!SelectTab(t) PROVE AimInv'
  <2>1. /\ Signals!Sent([do |-> "select", tab |-> t]) /\ UNCHANGED <<openTabs, inFront>>
        /\ t \in openTabs /\ chosen' = IF Signals!Lost THEN chosen ELSE t
    BY <1>3 DEF Signals!SelectTab
  <2>2. QED
    BY <2>1, SendingAims
<1>4. ASSUME NEW t \in Tabs, Signals!CloseTab(t) PROVE AimInv'
  <2>1. orders = <<>> /\ orders' = <<>> /\ chosen' = inFront'
    BY <1>4 DEF Signals!CloseTab
  <2>2. QED
    BY <2>1 DEF AimInv
<1>5. CASE Signals!Obey
  BY <1>5, ObeyingAims
<1>6. ASSUME UNCHANGED <<openTabs, inFront, orders, chosen>> PROVE AimInv'
  BY <1>6 DEF AimInv
<1>7. ASSUME NEW t \in Tabs,
             \/ Signals!PushState(t) \/ Signals!Read(t)
             \/ \E free \in BOOLEAN :
                  \/ Signals!Ends(t, free)
                  \/ \E yes \in BOOLEAN : Signals!Begins(t, yes, free) \/ Signals!Commits(t, yes, free)
      PROVE  AimInv'
  BY <1>6, <1>7 DEF Signals!PushState, Signals!Read, Signals!Ends, Signals!Begins, Signals!Commits
<1>8. ASSUME NEW i, NEW text, Signals!Answer(i) \/ Signals!Fetched(i, text) PROVE AimInv'
  BY <1>6, <1>8 DEF Signals!Answer, Signals!Fetched
<1>9. CASE UNCHANGED Signals!vars
  BY <1>6, <1>9 DEF Signals!vars
<1>10. QED
  BY <1>1, <1>2, <1>3, <1>4, <1>5, <1>7, <1>8, <1>9 DEF Signals!Next

\* An order is carried out on the tab the application had selected when it gave
\* it, whatever orders are lost and tabs close in between (send, dispatch_event,
\* eval_js, navigate).
THEOREM OrdersReachTheirTab == Signals!Spec => Signals!OrdersFindTheirTab
<1> DEFINE Inv == PageOK /\ FlagsInv /\ AimInv
           Found == \A t \in openTabs :
                      /\ (Signals!Obey /\ Head(orders) = [do |-> "act", tab |-> t]) => got' = t
                      /\ (Signals!Obey /\ Head(orders) = [do |-> "load", tab |-> t])
                           => page'[t].phase = Signals!Asked
<1>1. Signals!Init => AimInv
  BY DEF Signals!Init, AimInv
<1>2. Inv /\ [Signals!Next]_Signals!vars => Inv'
  BY PageKeeps, FlagsKeep, AimKeeps DEF FlagsInv
<1>3. Inv /\ [Signals!Next]_Signals!vars => [Found]_Signals!vars
  <2> SUFFICES ASSUME PageOK, OrdersOK, AimInv, NEW t \in openTabs, Signals!Obey
               PROVE  /\ Head(orders) = [do |-> "act", tab |-> t] => got' = t
                      /\ Head(orders) = [do |-> "load", tab |-> t] => page'[t].phase = Signals!Asked
    BY DEF FlagsInv
  <2>1. t \in Tabs /\ t # Signals!Nobody /\ inFront' = Head(orders).tab
    BY ObeyingAims, TabsAssumption DEF PageOK
  <2>2. ASSUME Head(orders).do # "select" PROVE inFront' = inFront
    BY <2>2 DEF Signals!Obey
  <2>3. ASSUME Head(orders) = [do |-> "act", tab |-> t] PROVE got' = t
    <3>1. got' = Signals!Given(Head(orders)) /\ Head(orders).do = "act" /\ Head(orders).tab = t
      BY <2>3 DEF Signals!Obey
    <3>2. QED
      BY <2>1, <2>2, <3>1 DEF Signals!Given
  <2>4. ASSUME Head(orders) = [do |-> "load", tab |-> t] PROVE page'[t].phase = Signals!Asked
    <3>1. Head(orders).do = "load" /\ Head(orders).tab = t
      BY <2>4
    <3>2. inFront = t
      BY <2>1, <2>2, <3>1
    <3>3. Signals!HandleLoad
      BY <2>1, <3>1, <3>2 DEF Signals!Obey
    <3>4. QED
      BY <2>1, <3>2, <3>3 DEF Signals!HandleLoad, PageOK
  <2>5. QED
    BY <2>3, <2>4
<1>4. Signals!Spec => []Inv
  <2>1. Signals!Spec => [](PageOK /\ FlagsInv)
    BY FlagsHold
  <2>2. QED
    BY <1>1, <1>2, <2>1, PTL DEF Signals!Spec
<1>5. QED
  BY <1>3, <1>4, PTL DEF Signals!Spec, Signals!OrdersFindTheirTab

-----------------------------------------------------------------------------
(* The pages of the engine (WebKitPages.tla): the tabs are records, and the *)
(* lists are those of WebKitTabs.                                           *)

PageTab == [id : Nat, front : BOOLEAN, parked : BOOLEAN, playing : BOOLEAN]

LEMMA SameLists ==
  ASSUME NEW l, NEW id, NEW tab, NEW from, NEW to, NEW background
  PROVE  /\ Pages!Positions(l) = Positions(l) /\ Pages!Ids(l) = Ids(l)
         /\ Pages!ActiveTab(l) = ActiveTab(l) /\ Pages!IsActive(l, id) = IsActive(l, id)
         /\ Pages!Pushed(l, tab, background) = Pushed(l, tab, background)
         /\ Pages!Selected(l, id) = Selected(l, id)
         /\ Pages!WithoutActive(l) = WithoutActive(l) /\ Pages!Without(l, id) = Without(l, id)
         /\ Pages!Moved(l, from, to) = Moved(l, from, to)
         /\ Pages!EmptyList = EmptyList
<1> USE DEF Pages!Positions, Positions, Pages!ActiveTab, ActiveTab, Pages!PositionOf, PositionOf
<1>1. /\ Pages!Positions(l) = Positions(l) /\ Pages!Ids(l) = Ids(l)
      /\ Pages!ActiveTab(l) = ActiveTab(l) /\ Pages!EmptyList = EmptyList
  BY DEF Pages!Ids, Ids, Pages!EmptyList, EmptyList
<1>2. Pages!IsActive(l, id) = IsActive(l, id)
  BY DEF Pages!IsActive, IsActive
<1>3. Pages!Pushed(l, tab, background) = Pushed(l, tab, background)
  BY DEF Pages!Pushed, Pushed
<1>4. Pages!Selected(l, id) = Selected(l, id)
  BY DEF Pages!Selected, Selected
<1>5. Pages!WithoutActive(l) = WithoutActive(l)
  BY DEF Pages!WithoutActive, WithoutActive, Pages!RemoveAt, RemoveAt
<1>6. Pages!Without(l, id) = Without(l, id)
  BY <1>5, <1>2 DEF Pages!Without, Without, Pages!RemoveAt, RemoveAt
<1>7. Pages!Moved(l, from, to) = Moved(l, from, to)
  BY DEF Pages!Moved, Moved, Pages!InsertAt, InsertAt, Pages!RemoveAt, RemoveAt
<1>8. QED
  BY <1>1, <1>2, <1>3, <1>4, <1>5, <1>6, <1>7

\* Only the active tab is in front; no tab is; the tabs that play.
Fronted(l) == \A i \in Positions(l) : l.tabs[i].front <=> i = l.active
Dark(l) == \A i \in Positions(l) : ~l.tabs[i].front
PlayingIn(l) == {r.id : r \in {s \in TabsOf(l) : s.playing}}

\* The application shows the active tab's pixels, and the tabs that play are
\* those it was told of.
PagesInv ==
  /\ made \in Nat /\ ListOf(PageTab, list, made)
  /\ Fronted(list)
  /\ frame.fresh /\ list.active # 0 /\ frame.of # Pages!Nobody => frame.of = ActiveTab(list).id
  /\ announced = PlayingIn(list)

LEMMA ReplacedFacts ==
  ASSUME NEW n \in Nat, NEW l, ListOf(PageTab, l, n), NEW i \in Positions(l),
         NEW r \in PageTab, r.id = l.tabs[i].id
  PROVE  LET m == [l EXCEPT !.tabs[i] = r] IN
         /\ ListOf(PageTab, m, n) /\ m.active = l.active /\ Positions(m) = Positions(l)
         /\ m.tabs[i] = r /\ \A j \in Positions(l) \ {i} : m.tabs[j] = l.tabs[j]
         /\ \A j \in Positions(l) : m.tabs[j].id = l.tabs[j].id
         /\ r.playing = l.tabs[i].playing => PlayingIn(m) = PlayingIn(l)
<1> DEFINE m == [l EXCEPT !.tabs[i] = r]
<1>1. /\ l.tabs \in Seq(PageTab) /\ l.active \in 0..Len(l.tabs) /\ Positions(l) = 1..Len(l.tabs)
      /\ i \in 1..Len(l.tabs)
  BY DEF ListOf, Positions
<1>2. m = [tabs |-> [l.tabs EXCEPT ![i] = r], active |-> l.active]
  <2>1. l = [tabs |-> l.tabs, active |-> l.active]
    BY DEF ListOf
  <2>2. QED
    BY <2>1
<1> DEFINE T == PageTab
           u == [l.tabs EXCEPT ![i] = r]
<1>3. u \in Seq(T) /\ Len(u) = Len(l.tabs) /\ u[i] = r /\ \A j \in 1..Len(l.tabs) : j # i => u[j] = l.tabs[j]
  <2>1. l.tabs \in Seq(T) /\ r \in T
    BY <1>1
  <2> HIDE DEF T
  <2>2. QED
    BY <1>1, <2>1
<1> HIDE DEF u
<1>4. m.tabs = u /\ m.active = l.active /\ m \in [tabs : Seq(T), active : Nat]
  BY <1>1, <1>2, <1>3 DEF u
<1> HIDE DEF m, T
<1>5. Positions(m) = Positions(l)
  BY <1>3, <1>4 DEF Positions
<1>6. \A j \in Positions(l) : m.tabs[j].id = l.tabs[j].id
  BY <1>1, <1>3, <1>4
<1>7. ListOf(PageTab, m, n)
  BY <1>1, <1>3, <1>4, <1>5, <1>6 DEF ListOf, T
<1>8. ASSUME r.playing = l.tabs[i].playing PROVE PlayingIn(m) = PlayingIn(l)
  <2>1. \A j \in Positions(l) : m.tabs[j].playing = l.tabs[j].playing
    BY <1>1, <1>3, <1>4, <1>8
  <2>2. QED
    BY <1>5, <1>6, <2>1 DEF PlayingIn, TabsOf
<1>9. QED
  BY <1>1, <1>3, <1>4, <1>5, <1>6, <1>7, <1>8 DEF m
\* The same of a list that is known to be that one.
LEMMA Replaced ==
  ASSUME NEW n \in Nat, NEW l, ListOf(PageTab, l, n), NEW i \in Positions(l),
         NEW r \in PageTab, r.id = l.tabs[i].id, NEW m, m = [l EXCEPT !.tabs[i] = r]
  PROVE  /\ ListOf(PageTab, m, n) /\ m.active = l.active /\ Positions(m) = Positions(l)
         /\ m.tabs[i] = r /\ \A j \in Positions(l) \ {i} : m.tabs[j] = l.tabs[j]
         /\ \A j \in Positions(l) : m.tabs[j].id = l.tabs[j].id
         /\ r.playing = l.tabs[i].playing => PlayingIn(m) = PlayingIn(l)
<1> DEFINE k == [l EXCEPT !.tabs[i] = r]
<1>1. /\ ListOf(PageTab, k, n) /\ k.active = l.active /\ Positions(k) = Positions(l)
      /\ k.tabs[i] = r /\ \A j \in Positions(l) \ {i} : k.tabs[j] = l.tabs[j]
      /\ \A j \in Positions(l) : k.tabs[j].id = l.tabs[j].id
      /\ r.playing = l.tabs[i].playing => PlayingIn(k) = PlayingIn(l)
  BY ReplacedFacts
<1>2. m = k
  OBVIOUS
<1> HIDE DEF k
<1>3. QED
  BY <1>1, <1>2


LEMMA HiddenFacts ==
  ASSUME NEW n \in Nat, NEW l, ListOf(PageTab, l, n), Fronted(l)
  PROVE  LET h == Pages!Hidden(l) IN
         /\ ListOf(PageTab, h, n) /\ Dark(h) /\ h.active = l.active /\ PlayingIn(h) = PlayingIn(l)
         /\ Ids(h) = Ids(l)
<1>1. CASE l.active = 0
  BY <1>1 DEF Pages!Hidden, Fronted, Dark, Positions
<1>2. CASE l.active # 0
  <2> DEFINE i == l.active
             r == [l.tabs[i] EXCEPT !.front = FALSE]
  <2>1. i \in Positions(l) /\ l.tabs \in Seq(PageTab) /\ l \in [tabs : Seq(PageTab), active : Nat]
    BY <1>2 DEF ListOf, Positions
  <2>2. l.tabs[i] \in PageTab
    BY <2>1, ElementOfSeq DEF Positions
  <2>3. r \in PageTab /\ r.id = l.tabs[i].id /\ r.playing = l.tabs[i].playing /\ ~r.front
    BY <2>2 DEF PageTab
  <2>4. Pages!Hidden(l) = [l EXCEPT !.tabs[i] = r]
    BY <1>2, <2>1 DEF Pages!Hidden
  <2> HIDE DEF r
  <2> DEFINE h == Pages!Hidden(l)
             m == [l EXCEPT !.tabs[i] = r]
  <2>5. /\ ListOf(PageTab, h, n) /\ h.active = l.active /\ Positions(h) = Positions(l)
        /\ h.tabs[i] = r /\ \A j \in Positions(l) \ {i} : h.tabs[j] = l.tabs[j]
        /\ \A j \in Positions(l) : h.tabs[j].id = l.tabs[j].id
        /\ PlayingIn(h) = PlayingIn(l)
    <3>1. h = m
      BY <2>4
    <3> HIDE DEF h
    <3>2. r \in PageTab /\ r.id = l.tabs[i].id /\ i \in Positions(l)
      BY <2>1, <2>3
    <3>3. /\ ListOf(PageTab, m, n) /\ m.active = l.active /\ Positions(m) = Positions(l)
          /\ m.tabs[i] = r /\ \A j \in Positions(l) \ {i} : m.tabs[j] = l.tabs[j]
          /\ \A j \in Positions(l) : m.tabs[j].id = l.tabs[j].id
          /\ r.playing = l.tabs[i].playing => PlayingIn(m) = PlayingIn(l)
      BY <3>2, ReplacedFacts
    <3> HIDE DEF m, i
    <3>4. QED
      BY <3>1, <3>3, <2>3
  <2> HIDE DEF h
  <2>6. Dark(h)
    BY <2>3, <2>5 DEF Dark, Fronted
  <2>7. QED
    BY <2>5, <2>6 DEF h, Ids
<1>3. QED
  BY <1>1, <1>2

LEMMA ShownFacts ==
  ASSUME NEW n \in Nat, NEW l, ListOf(PageTab, l, n), Dark(l)
  PROVE  LET s == Pages!Shown(l) IN
         /\ ListOf(PageTab, s, n) /\ Fronted(s) /\ s.active = l.active /\ PlayingIn(s) = PlayingIn(l)
         /\ l.active # 0 => ActiveTab(s).id = ActiveTab(l).id
<1>1. CASE l.active = 0
  BY <1>1 DEF Pages!Shown, Fronted, Dark, Positions
<1>2. CASE l.active # 0
  <2> DEFINE i == l.active
             r == [l.tabs[i] EXCEPT !.front = TRUE, !.parked = FALSE]
  <2>1. i \in Positions(l) /\ l.tabs \in Seq(PageTab) /\ l \in [tabs : Seq(PageTab), active : Nat]
    BY <1>2 DEF ListOf, Positions
  <2>2. l.tabs[i] \in PageTab
    BY <2>1, ElementOfSeq DEF Positions
  <2>3. r \in PageTab /\ r.id = l.tabs[i].id /\ r.playing = l.tabs[i].playing /\ r.front
    BY <2>2 DEF PageTab
  <2> DEFINE s == Pages!Shown(l)
  <2>4. s = [l EXCEPT !.tabs[i] = r]
    BY <1>2, <2>1 DEF Pages!Shown, Positions
  <2> HIDE DEF r, s
  <2>5. /\ ListOf(PageTab, s, n) /\ s.active = l.active /\ Positions(s) = Positions(l)
        /\ s.tabs[i] = r /\ \A j \in Positions(l) \ {i} : s.tabs[j] = l.tabs[j]
        /\ \A j \in Positions(l) : s.tabs[j].id = l.tabs[j].id
        /\ PlayingIn(s) = PlayingIn(l)
    BY <2>1, <2>3, <2>4, Replaced
  <2>6. Fronted(s)
    BY <2>3, <2>5 DEF Dark, Fronted
  <2>7. QED
    BY <2>1, <2>5, <2>6 DEF s, ActiveTab
<1>3. QED
  BY <1>1, <1>2

\* A tab that goes takes its place in the announcements with it.
LEMMA GoneFacts ==
  ASSUME NEW n \in Nat, NEW l, ListOf(PageTab, l, n), NEW id \in Ids(l)
  PROVE  PlayingIn(Without(l, id)) = PlayingIn(l) \ {id}
BY WithoutKeeps DEF PlayingIn

LEMMA FrontedIs ==
  ASSUME NEW n \in Nat, NEW l, ListOf(PageTab, l, n)
  PROVE  Fronted(l) <=> \A r \in TabsOf(l) : r.front <=> IsActive(l, r.id)
<1>1. \A i \in Positions(l) : IsActive(l, l.tabs[i].id) <=> i = l.active
  BY DEF ListOf, IsActive, ActiveTab, Positions
<1>2. QED
  BY <1>1 DEF Fronted, TabsOf

LEMMA OpenPageKeeps ==
  ASSUME PagesInv, NEW background \in BOOLEAN, Pages!OpenTab(background) \/ Pages!OpenFails(background)
  PROVE  PagesInv'
<1>1. /\ made \in Nat /\ ListOf(PageTab, list, made) /\ Fronted(list) /\ announced = PlayingIn(list)
      /\ announced' = announced /\ made' = made + 1
  BY DEF PagesInv, Pages!OpenTab, Pages!OpenFails
<1> DEFINE base == IF background THEN list ELSE Pages!Hidden(list)
<1>2. /\ ListOf(PageTab, base, made) /\ base.active = list.active /\ PlayingIn(base) = announced
      /\ (background => Fronted(base)) /\ (~background => Dark(base))
  BY <1>1, HiddenFacts
<1>3. CASE Pages!OpenTab(background)
  <2> DEFINE tab == Pages!NewTab(~background)
             m == Pushed(base, tab, background)
  <2>1. list' = m /\ frame' = IF background THEN frame ELSE Pages!Awaited(frame)
    BY <1>3, SameLists DEF Pages!OpenTab
  <2>2. tab \in PageTab /\ tab.id = made + 1 /\ tab.front = ~background /\ ~tab.playing
    BY <1>1 DEF Pages!NewTab, PageTab
  <2> HIDE DEF base, tab
  <2> DEFINE N == Len(base.tabs)
  <2>3. /\ base.tabs \in Seq(PageTab) /\ base.active \in 0..N /\ N \in Nat /\ Positions(base) = 1..N
        /\ \A i \in 1..N : base.tabs[i].id \in 1..made
    BY <1>2 DEF ListOf, Positions
  <2>4. /\ m = [tabs |-> Append(base.tabs, tab), active |-> IF background THEN base.active ELSE N + 1]
        /\ m.tabs \in Seq(PageTab) /\ Len(m.tabs) = N + 1 /\ m.tabs[N + 1] = tab
        /\ \A i \in 1..N : m.tabs[i] = base.tabs[i]
    BY <2>2, <2>3, AppendProperties DEF Pushed
  <2> HIDE DEF m, N
  <2>5. /\ m.active = (IF background THEN base.active ELSE N + 1) /\ Positions(m) = 1..(N + 1)
        /\ m \in [tabs : Seq(PageTab), active : Nat]
    BY <2>3, <2>4 DEF Positions
  <2>6. ListOf(PageTab, m, made + 1)
    <3>1. m.active \in 0..(N + 1)
      BY <2>3, <2>5
    <3>0. made \in Nat /\ N \in Nat /\ \A i \in 1..N : base.tabs[i].id \in 1..made
      BY <1>1, <2>3
    <3>2. m.tabs[N + 1].id = made + 1 /\ \A i \in 1..N : m.tabs[i].id = base.tabs[i].id
      BY <2>2, <2>4
    <3>3. \A i \in 1..(N + 1) : m.tabs[i].id \in 1..(made + 1)
      <4> TAKE i \in 1..(N + 1)
      <4>1. CASE i \in 1..N
        <5>1. m.tabs[i].id \in 1..made
          BY <3>0, <3>2, <4>1
        <5>2. QED
          BY <3>0, <5>1
      <4>2. CASE i \notin 1..N
        <5>1. i = N + 1
          BY <3>0, <4>2
        <5>2. QED
          BY <3>0, <3>2, <5>1
      <4>3. QED
        BY <4>1, <4>2
    <3>6. \A i \in 1..N : m.tabs[i].id # made + 1
      BY <3>0, <3>2
    <3>4. ASSUME NEW i \in 1..(N + 1), NEW j \in 1..(N + 1), m.tabs[i].id = m.tabs[j].id PROVE i = j
      <4>1. CASE i = N + 1 \/ j = N + 1
        <5>1. i \in 1..N \cup {N + 1} /\ j \in 1..N \cup {N + 1}
          BY <3>0
        <5>2. QED
          BY <3>2, <3>4, <3>6, <4>1, <5>1
      <4>2. CASE i # N + 1 /\ j # N + 1
        <5>1. i \in 1..N /\ j \in 1..N
          BY <3>0, <4>2
        <5>2. base.tabs[i].id = base.tabs[j].id
          BY <3>2, <3>4, <5>1
        <5>3. QED
          BY <1>2, <2>3, <5>1, <5>2 DEF ListOf
      <4>3. QED
        BY <4>1, <4>2
    <3>5. QED
      BY <2>4, <2>5, <3>1, <3>3, <3>4 DEF ListOf
  <2>7. Fronted(m)
    <3> SUFFICES ASSUME NEW i \in 1..(N + 1) PROVE m.tabs[i].front <=> i = m.active
      BY <2>5 DEF Fronted
    <3>1. CASE i = N + 1
      <4>1. m.tabs[i] = tab
        BY <2>4, <3>1
      <4>2. m.active = i <=> ~background
        BY <2>3, <2>5, <3>1
      <4>3. QED
        BY <2>2, <4>1, <4>2
    <3>2. CASE i # N + 1
      <4>1. i \in 1..N /\ m.tabs[i] = base.tabs[i] /\ i \in Positions(base)
        BY <2>3, <2>4, <3>2
      <4>2. QED
        BY <1>2, <2>5, <3>2, <4>1 DEF Fronted, Dark
    <3>3. QED
      BY <3>1, <3>2
  <2>8. PlayingIn(m) = PlayingIn(base)
    <3>0. Positions(m) = Positions(base) \cup {N + 1} /\ Positions(base) = 1..N
      BY <2>3, <2>5
    <3>1. TabsOf(m) = TabsOf(base) \cup {tab}
      <4>1. \A i \in Positions(base) : m.tabs[i] = base.tabs[i]
        BY <2>4, <3>0
      <4>2. m.tabs[N + 1] = tab
        BY <2>4
      <4>3. \A x : x \in TabsOf(m) => x \in TabsOf(base) \cup {tab}
        BY <3>0, <4>1, <4>2 DEF TabsOf
      <4>4. \A x : x \in TabsOf(base) \cup {tab} => x \in TabsOf(m)
        BY <3>0, <4>1, <4>2 DEF TabsOf
      <4>5. QED
        BY <4>3, <4>4
    <3>2. QED
      BY <2>2, <3>1 DEF PlayingIn
  <2>9. frame'.fresh /\ m.active # 0 /\ frame'.of # Pages!Nobody => frame'.of = ActiveTab(m).id
    <3>1. CASE background
      <4>1. base = list /\ m.active = list.active /\ frame' = frame
        BY <2>1, <2>5, <3>1 DEF base
      <4>2. m.active # 0 => ActiveTab(m) = ActiveTab(list)
        BY <2>3, <2>4, <4>1 DEF ActiveTab
      <4>3. QED
        BY <4>1, <4>2 DEF PagesInv
    <3>2. CASE ~background
      <4>1. frame' = Pages!Awaited(frame)
        BY <2>1, <3>2
      <4>2. QED
        BY <4>1 DEF Pages!Awaited, PagesInv
    <3>3. QED
      BY <3>1, <3>2
  <2>10. QED
    BY <1>1, <1>2, <2>1, <2>6, <2>7, <2>8, <2>9 DEF PagesInv
<1>4. CASE Pages!OpenFails(background)
  <2>1. list' = (IF background THEN list ELSE Pages!Shown(base)) /\ frame' = frame
    BY <1>4 DEF Pages!OpenFails
  <2>2. /\ ListOf(PageTab, list', made) /\ Fronted(list') /\ list'.active = list.active
        /\ PlayingIn(list') = announced
    BY <1>1, <1>2, <2>1, ShownFacts
  <2>3. list.active # 0 => ActiveTab(list').id = ActiveTab(list).id
    <3>1. CASE background
      BY <2>1, <3>1
    <3>2. CASE ~background
      <4>1. list.active # 0 => ActiveTab(Pages!Shown(base)).id = ActiveTab(base).id
        BY <1>1, <1>2, <3>2, ShownFacts
      <4>2. list.active # 0 => ActiveTab(base).id = ActiveTab(list).id
        BY <1>1, <3>2, HiddenFacts DEF Pages!Hidden, ActiveTab, ListOf
      <4>3. QED
        BY <2>1, <3>2, <4>1, <4>2
    <3>3. QED
      BY <3>1, <3>2
  <2>4. ListOf(PageTab, list', made + 1)
    BY <1>1, <2>2 DEF ListOf
  <2>5. QED
    BY <1>1, <2>1, <2>2, <2>3, <2>4 DEF PagesInv
<1>5. QED
  BY <1>3, <1>4

LEMMA SelectPageKeeps == ASSUME PagesInv, NEW id, Pages!SelectTab(id) PROVE PagesInv'
<1> DEFINE h == Pages!Hidden(list)
           m == Selected(h, id)
<1>1. /\ made \in Nat /\ ListOf(PageTab, list, made) /\ Fronted(list) /\ announced = PlayingIn(list)
      /\ id \in Ids(list)
      /\ list' = Pages!Shown(m) /\ frame' = Pages!Awaited(frame) /\ UNCHANGED <<made, announced>>
  BY SameLists DEF PagesInv, Pages!SelectTab
<1>2. ListOf(PageTab, h, made) /\ Dark(h) /\ PlayingIn(h) = announced /\ Ids(h) = Ids(list)
  BY <1>1, HiddenFacts
<1>3. PositionOf(h, id) \in Positions(h)
  BY <1>1, <1>2, PositionIs
<1> HIDE DEF h
<1>4. m.tabs = h.tabs /\ m.active = PositionOf(h, id) /\ m \in [tabs : Seq(PageTab), active : Nat]
  <2>1. h \in [tabs : Seq(PageTab), active : Nat]
    BY <1>2 DEF ListOf
  <2>2. PositionOf(h, id) \in Nat
    BY <1>3 DEF Positions
  <2>3. m = [tabs |-> h.tabs, active |-> PositionOf(h, id)]
    BY <2>1 DEF Selected
  <2>4. QED
    BY <2>1, <2>2, <2>3
<1>5. ListOf(PageTab, m, made) /\ Dark(m) /\ PlayingIn(m) = announced
  BY <1>2, <1>3, <1>4 DEF ListOf, Dark, PlayingIn, TabsOf, Positions
<1> HIDE DEF m
<1>6. ListOf(PageTab, list', made) /\ Fronted(list') /\ PlayingIn(list') = announced
  BY <1>1, <1>5, ShownFacts
<1>7. QED
  BY <1>1, <1>6 DEF PagesInv, Pages!Awaited

LEMMA ClosePageKeeps ==
  ASSUME PagesInv, NEW id, Pages!CloseActive \/ Pages!CloseTab(id)
  PROVE  PagesInv'
<1>1. /\ made \in Nat /\ ListOf(PageTab, list, made) /\ Fronted(list) /\ announced = PlayingIn(list)
      /\ made' = made
  BY DEF PagesInv, Pages!CloseActive, Pages!CloseTab
<1>2. CASE Pages!CloseActive
  <2> DEFINE gone == ActiveTab(list).id
             m == WithoutActive(list)
  <2>1. /\ list.active # 0 /\ announced' = announced \ {gone} /\ list' = Pages!Shown(m)
        /\ frame' = Pages!Awaited(frame)
    BY <1>2, SameLists DEF Pages!CloseActive, Pages!Silenced
  <2>2. gone \in Ids(list) /\ IsActive(list, gone) /\ m = Without(list, gone)
    BY <1>1, <2>1 DEF Ids, ActiveTab, IsActive, Without, ListOf, Positions
  <2> HIDE DEF gone, m
  <2>3. /\ ListOf(PageTab, m, made) /\ TabsOf(m) = {r \in TabsOf(list) : r.id # gone}
        /\ PlayingIn(m) = announced'
    BY <1>1, <2>1, <2>2, WithoutKeeps, GoneFacts
  <2>4. \A r \in TabsOf(list) : r.front <=> IsActive(list, r.id)
    BY <1>1, FrontedIs
  <2>5. \A r \in TabsOf(m) : ~r.front
    BY <2>2, <2>3, <2>4 DEF IsActive
  <2>6. Dark(m)
    BY <2>5 DEF Dark, TabsOf
  <2>7. ListOf(PageTab, list', made) /\ Fronted(list') /\ PlayingIn(list') = announced'
    BY <1>1, <2>1, <2>3, <2>6, ShownFacts
  <2>8. QED
    BY <1>1, <2>1, <2>7 DEF PagesInv, Pages!Awaited
<1>3. CASE Pages!CloseTab(id)
  <2>1. /\ id \in Ids(list) /\ ~IsActive(list, id) /\ announced' = announced \ {id}
        /\ list' = Without(list, id) /\ frame' = frame
    BY <1>3, SameLists DEF Pages!CloseTab, Pages!Silenced
  <2>2. /\ ListOf(PageTab, list', made) /\ TabsOf(list') = {r \in TabsOf(list) : r.id # id}
        /\ PlayingIn(list') = announced' /\ SameActive(list, list')
    BY <1>1, <2>1, WithoutKeeps, GoneFacts
  <2>3. \A r \in TabsOf(list) : r.front <=> IsActive(list, r.id)
    BY <1>1, FrontedIs
  <2>4. \A r \in TabsOf(list') : r.front <=> IsActive(list', r.id)
    BY <2>2, <2>3 DEF IsActive, SameActive
  <2>5. Fronted(list')
    BY <1>1, <2>2, <2>4, FrontedIs
  <2>6. QED
    BY <1>1, <2>1, <2>2, <2>5 DEF PagesInv, SameActive
<1>4. QED
  BY <1>2, <1>3

LEMMA MovePageKeeps == ASSUME PagesInv, NEW from, NEW to, Pages!MoveTab(from, to) PROVE PagesInv'
<1>1. /\ made \in Nat /\ ListOf(PageTab, list, made) /\ Fronted(list) /\ announced = PlayingIn(list)
      /\ from \in Positions(list) /\ to \in Positions(list)
      /\ list' = Moved(list, from, to) /\ UNCHANGED <<made, frame, announced>>
  BY SameLists DEF PagesInv, Pages!MoveTab
<1>2. ListOf(PageTab, list', made) /\ TabsOf(list') = TabsOf(list) /\ SameActive(list, list')
  BY <1>1, MovedKeeps
<1>3. \A r \in TabsOf(list) : r.front <=> IsActive(list, r.id)
  BY <1>1, FrontedIs
<1>4. Fronted(list')
  <2>1. \A r \in TabsOf(list') : r.front <=> IsActive(list', r.id)
    BY <1>2, <1>3 DEF IsActive, SameActive
  <2>2. QED
    BY <1>1, <1>2, <2>1, FrontedIs
<1>5. PlayingIn(list') = announced
  BY <1>1, <1>2 DEF PlayingIn
<1>6. QED
  BY <1>1, <1>2, <1>4, <1>5 DEF PagesInv, SameActive

LEMMA PaintKeeps ==
  ASSUME PagesInv, NEW i \in Positions(list), Pages!RenderBuffer(i) \/ Pages!AudioChanges(i)
  PROVE  PagesInv'
<1> DEFINE tab == list.tabs[i]
<1>1. /\ made \in Nat /\ ListOf(PageTab, list, made) /\ Fronted(list) /\ announced = PlayingIn(list)
      /\ made' = made /\ list.tabs \in Seq(PageTab) /\ list \in [tabs : Seq(PageTab), active : Nat]
  BY DEF PagesInv, ListOf, Pages!RenderBuffer, Pages!AudioChanges
<1>2. tab \in PageTab
  BY <1>1, ElementOfSeq DEF Positions
<1>r. ASSUME NEW r \in PageTab, r.id = tab.id, list' = [list EXCEPT !.tabs[i] = r]
      PROVE  /\ ListOf(PageTab, list', made) /\ list'.active = list.active
             /\ Positions(list') = Positions(list)
             /\ list'.tabs[i] = r /\ \A j \in Positions(list) \ {i} : list'.tabs[j] = list.tabs[j]
             /\ \A j \in Positions(list) : list'.tabs[j].id = list.tabs[j].id
             /\ r.playing = list.tabs[i].playing => PlayingIn(list') = PlayingIn(list)
  BY <1>1, <1>r, Replaced
<1>3. ASSUME Pages!RenderBuffer(i), tab.front PROVE PagesInv'
  <2>1. frame' = [of |-> tab.id, fresh |-> TRUE] /\ UNCHANGED <<list, made, announced>>
    BY <1>3 DEF Pages!RenderBuffer, Pages!MayPaint
  <2>2. i = list.active
    BY <1>1, <1>3 DEF Fronted
  <2>3. QED
    BY <1>1, <2>1, <2>2 DEF PagesInv, ActiveTab
<1>4. ASSUME Pages!RenderBuffer(i), ~tab.front PROVE PagesInv'
  <2> DEFINE r == [tab EXCEPT !.parked = TRUE]
  <2>1. r \in PageTab /\ r.id = tab.id /\ r.playing = tab.playing /\ r.front = tab.front
    BY <1>2 DEF PageTab
  <2>2. list' = [list EXCEPT !.tabs[i] = r] /\ UNCHANGED <<made, frame, announced>>
    BY <1>1, <1>4 DEF Pages!RenderBuffer, Pages!MayPaint, Positions
  <2> HIDE DEF r
  <2>3. /\ ListOf(PageTab, list', made) /\ list'.active = list.active /\ Positions(list') = Positions(list)
        /\ list'.tabs[i] = r /\ \A j \in Positions(list) \ {i} : list'.tabs[j] = list.tabs[j]
        /\ \A j \in Positions(list) : list'.tabs[j].id = list.tabs[j].id
        /\ PlayingIn(list') = PlayingIn(list)
    BY <2>1, <2>2, <1>r
  <2>4. Fronted(list')
    BY <1>1, <2>1, <2>3 DEF Fronted
  <2>5. list.active # 0 => ActiveTab(list').id = ActiveTab(list).id
    BY <1>1, <2>3 DEF ActiveTab, ListOf, Positions
  <2>6. QED
    BY <1>1, <2>2, <2>3, <2>4, <2>5 DEF PagesInv
<1>5. ASSUME Pages!AudioChanges(i) PROVE PagesInv'
  <2>1. PICK now \in BOOLEAN : now = ~tab.playing
    BY <1>2 DEF PageTab
  <2> DEFINE r == [tab EXCEPT !.playing = now]
  <2>2. r \in PageTab /\ r.id = tab.id /\ r.playing = now /\ r.front = tab.front
    BY <1>2 DEF PageTab
  <2>3. /\ list' = [list EXCEPT !.tabs[i] = r] /\ UNCHANGED <<made, frame>>
        /\ announced' = IF now THEN announced \cup {tab.id} ELSE announced \ {tab.id}
    BY <1>1, <1>5, <2>1 DEF Pages!AudioChanges, Positions
  <2> HIDE DEF r
  <2>4. /\ ListOf(PageTab, list', made) /\ list'.active = list.active /\ Positions(list') = Positions(list)
        /\ list'.tabs[i] = r /\ \A j \in Positions(list) \ {i} : list'.tabs[j] = list.tabs[j]
        /\ \A j \in Positions(list) : list'.tabs[j].id = list.tabs[j].id
    BY <2>2, <2>3, <1>r
  <2>5. Fronted(list')
    BY <1>1, <2>2, <2>4 DEF Fronted
  <2>6. list.active # 0 => ActiveTab(list').id = ActiveTab(list).id
    BY <1>1, <2>4 DEF ActiveTab, ListOf, Positions
  <2>7. \A j \in Positions(list) \ {i} : list.tabs[j].id # tab.id
    BY <1>1 DEF ListOf
  <2>8. PlayingIn(list') = announced'
    <3>1. ASSUME NEW l, NEW x
          PROVE  x \in PlayingIn(l) <=> \E j \in Positions(l) : l.tabs[j].playing /\ x = l.tabs[j].id
      BY DEF PlayingIn, TabsOf
    <3>2. ASSUME NEW x
          PROVE  x \in PlayingIn(list') <=>
                   (now /\ x = tab.id) \/ (x # tab.id /\ x \in PlayingIn(list))
      <4>1. x \in PlayingIn(list') <=>
              (now /\ x = tab.id) \/ \E j \in Positions(list) \ {i} : list.tabs[j].playing /\ x = list.tabs[j].id
        BY <2>2, <2>4, <3>1
      <4>2. x \in PlayingIn(list) <=>
              (tab.playing /\ x = tab.id) \/ \E j \in Positions(list) \ {i} : list.tabs[j].playing /\ x = list.tabs[j].id
        BY <3>1
      <4>3. QED
        BY <2>7, <4>1, <4>2
    <3>3. QED
      BY <1>1, <2>3, <3>2
  <2>9. QED
    BY <1>1, <2>3, <2>4, <2>5, <2>6, <2>8 DEF PagesInv
<1>6. QED
  BY <1>3, <1>4, <1>5

\* What the application paints as fresh are the pixels of the active tab, and
\* the tabs it counts as audible are the open ones that play, however tabs were
\* opened, closed, moved and chosen and whatever they parked (is_active,
\* needs_fresh, Drop for TabEntry).
THEOREM SeenIsShown == Pages!Init /\ [][Pages!Next]_Pages!vars => []Pages!SeenAndHeard
<1>1. Pages!Init => PagesInv
  <2> SUFFICES ASSUME Pages!Init PROVE PagesInv
    OBVIOUS
  <2>1. /\ list = [tabs |-> <<>>, active |-> 0] /\ made = 0 /\ announced = {}
        /\ Positions(list) = {}
    BY DEF Pages!Init, Pages!EmptyList, Positions
  <2>2. ListOf(PageTab, list, made)
    BY <2>1 DEF ListOf
  <2>3. QED
    BY <2>1, <2>2 DEF PagesInv, Fronted, PlayingIn, TabsOf
<1>2. PagesInv /\ [Pages!Next]_Pages!vars => PagesInv'
  <2> SUFFICES ASSUME PagesInv, [Pages!Next]_Pages!vars PROVE PagesInv'
    OBVIOUS
  <2>1. CASE Pages!Repaint
    BY <2>1 DEF Pages!Repaint, Pages!Awaited, PagesInv
  <2>2. CASE UNCHANGED Pages!vars
    BY <2>2 DEF Pages!vars, PagesInv
  <2>3. QED
    BY <2>1, <2>2, SameLists, OpenPageKeeps, SelectPageKeeps, ClosePageKeeps, MovePageKeeps,
       PaintKeeps
       DEF Pages!Next
<1>3. PagesInv => Pages!SeenAndHeard
  <2> SUFFICES ASSUME PagesInv PROVE Pages!SeenAndHeard
    OBVIOUS
  <2>1. Pages!FreshIsActives
    BY SameLists DEF PagesInv, Fronted, Pages!FreshIsActives
  <2>2. PlayingIn(list) = {list.tabs[i].id : i \in {j \in Positions(list) : list.tabs[j].playing}}
    BY DEF PlayingIn, TabsOf
  <2>3. QED
    BY <2>1, <2>2, SameLists DEF PagesInv, Pages!SeenAndHeard, Pages!AnnouncedIsPlaying
<1>4. QED
  BY <1>1, <1>2, <1>3, PTL

-----------------------------------------------------------------------------
(* What keeps the screen on (Inhibit.tla).                                  *)

AudioInv ==
  /\ streams \in [Tabs -> Nat] /\ heard \in BOOLEAN
  /\ app \in [up : BOOLEAN, video : BOOLEAN, media : BOOLEAN, focused : BOOLEAN, occluded : BOOLEAN]
  /\ flags \in [webkit : BOOLEAN, video : BOOLEAN, audio : BOOLEAN]
  /\ Screen!AudioIsHeard

\* The commands are the three that the worker knows, and only a backend with a
\* worker has one that is up.
FlagInv ==
  /\ asks \in Seq({"acquire", "release", "shutdown"}) /\ CmdCap \in Nat
  /\ held \in BOOLEAN /\ helper \in {"up", "down"}
  /\ Screen!FlagIsTrue

\* Nothing gets loud or silent without an event.
LEMMA EdgeIsHeard ==
  ASSUME streams \in [Tabs -> Nat], NEW t \in Tabs, NEW n \in Nat,
         streams' = [streams EXCEPT ![t] = n], Screen!EventAtEdge(t), ~heard'
  PROVE  ~heard /\ Screen!Loud' = Screen!Loud
BY DEF Screen!EventAtEdge, Screen!Loud

LEMMA AudioKeeps == AudioInv /\ [Screen!Next]_Screen!vars => AudioInv'
<1> SUFFICES ASSUME AudioInv, [Screen!Next]_Screen!vars PROVE AudioInv'
  OBVIOUS
<1> USE DEF Screen!pages, Screen!engine, Screen!inhibitor
<1> DEFINE Apps == [up : BOOLEAN, video : BOOLEAN, media : BOOLEAN, focused : BOOLEAN, occluded : BOOLEAN]
           Flags == [webkit : BOOLEAN, video : BOOLEAN, audio : BOOLEAN]
<1>1. /\ streams \in [Tabs -> Nat] /\ heard \in BOOLEAN /\ app \in Apps /\ flags \in Flags
      /\ (~flags.webkit /\ app.up /\ ~heard) => (app.media = (Screen!Loud # {}))
  BY DEF AudioInv, Screen!AudioIsHeard
\* The application does not change, and the streams of one tab may.
<1>2. ASSUME NEW t \in Tabs, NEW n \in Nat, streams' = [streams EXCEPT ![t] = n],
             app' = app, flags' \in Flags, flags'.webkit = flags.webkit,
             Screen!EventAtEdge(t) \/ (heard' = TRUE)
      PROVE  AudioInv'
  <2>1. streams' \in [Tabs -> Nat] /\ heard' \in BOOLEAN
    BY <1>1, <1>2 DEF Screen!EventAtEdge
  <2>2. ~heard' => ~heard /\ Screen!Loud' = Screen!Loud
    BY <1>1, <1>2, EdgeIsHeard
  <2>3. QED
    BY <1>1, <1>2, <2>1, <2>2 DEF AudioInv, Screen!AudioIsHeard
<1>3. ASSUME UNCHANGED <<streams, heard>>, app' \in Apps, flags' \in Flags, flags'.webkit = flags.webkit,
             app'.up => app.up, app'.media = app.media
      PROVE  AudioInv'
  BY <1>1, <1>3 DEF AudioInv, Screen!AudioIsHeard, Screen!Loud
<1>4. ASSUME UNCHANGED <<streams, heard, app>>, flags' \in Flags, flags'.webkit = flags.webkit
      PROVE  AudioInv'
  BY <1>1, <1>3, <1>4
<1>5. ASSUME NEW t \in Tabs, Screen!FilmChanges(t) \/ Screen!Selects(t) PROVE AudioInv'
  BY <1>1, <1>4, <1>5 DEF Screen!FilmChanges, Screen!Selects
<1>6. ASSUME NEW t \in Tabs, Screen!StreamStarts(t) PROVE AudioInv'
  <2>1. /\ streams' = [streams EXCEPT ![t] = streams[t] + 1] /\ streams[t] + 1 \in Nat
        /\ Screen!EventAtEdge(t) /\ UNCHANGED <<app, flags>>
    BY <1>1, <1>6 DEF Screen!StreamStarts
  <2>2. QED
    BY <1>1, <1>2, <2>1
<1>7. ASSUME NEW t \in Tabs, Screen!StreamEnds(t) PROVE AudioInv'
  <2> DEFINE n == IF streams[t] = 0 THEN 0 ELSE streams[t] - 1
  <2>1. /\ streams' = [streams EXCEPT ![t] = n] /\ n \in Nat
        /\ Screen!EventAtEdge(t) /\ UNCHANGED <<app, flags>>
    BY <1>1, <1>7 DEF Screen!StreamEnds
  <2> HIDE DEF n
  <2>2. QED
    BY <1>1, <1>2, <2>1
<1>8. ASSUME NEW t \in Tabs, Screen!Navigates(t) \/ Screen!Closes(t) PROVE AudioInv'
  <2>1. /\ streams' = [streams EXCEPT ![t] = 0] /\ UNCHANGED app
        /\ Screen!EventAtEdge(t) \/ (heard' = TRUE)
    BY <1>8 DEF Screen!Navigates, Screen!Closes, Screen!PageGoes
  <2>2. flags' \in Flags /\ flags'.webkit = flags.webkit
    BY <1>1, <1>8 DEF Screen!Navigates, Screen!Closes
  <2>3. QED
    BY <1>2, <2>1, <2>2
<1>9. ASSUME NEW t \in Tabs, Screen!Probe(t) PROVE AudioInv'
  <2>1. UNCHANGED <<streams, heard, app>> /\ (flags' = flags \/ flags' = [flags EXCEPT !.video = t \in film])
    BY <1>9 DEF Screen!Probe
  <2>2. (t \in film) \in BOOLEAN
    OBVIOUS
  <2>3. PICK video \in BOOLEAN : video = (t \in film)
    BY <2>2, Zenon
  <2>4. flags' = flags \/ flags' = [flags EXCEPT !.video = video]
    BY <2>1, <2>3
  <2>5. flags' \in Flags /\ flags'.webkit = flags.webkit
    BY <1>1, <2>4
  <2>6. QED
    BY <1>4, <2>1, <2>5
<1>10. ASSUME NEW on \in BOOLEAN, Screen!Focus(on) \/ Screen!Occlude(on) PROVE AudioInv'
  <2>1. PICK seen \in BOOLEAN : seen = (app.occluded /\ ~on)
    OBVIOUS
  <2>2. /\ UNCHANGED <<streams, heard, flags>>
        /\ \/ app' = [app EXCEPT !.focused = on, !.occluded = seen]
           \/ app' = [app EXCEPT !.occluded = on]
    BY <1>10, <2>1 DEF Screen!Focus, Screen!Occlude
  <2>3. app' \in Apps /\ app'.up = app.up /\ app'.media = app.media
    BY <1>1, <2>2
  <2>4. QED
    BY <1>1, <1>3, <2>2, <2>3
<1>11. CASE Screen!AudioPoll
  <2>1. PICK audio \in BOOLEAN : audio = (Screen!Loud # {})
    OBVIOUS
  <2>2. UNCHANGED <<streams, heard, app>> /\ flags' = [flags EXCEPT !.audio = audio]
    BY <1>11, <2>1 DEF Screen!AudioPoll
  <2>3. QED
    BY <1>1, <1>4, <2>2
<1>12. ASSUME NEW due \in BOOLEAN, Screen!Tick(due) PROVE AudioInv'
  <2>1. PICK audio \in BOOLEAN : audio = Screen!AnyAudioActive
    BY <1>1 DEF Screen!AnyAudioActive
  <2>2. PICK media \in BOOLEAN : media = IF heard THEN audio ELSE app.media
    BY <1>1
  <2>3. PICK video \in BOOLEAN : video = flags.video
    BY <1>1
  <2>4. app' = [app EXCEPT !.media = media, !.video = video] /\ heard' = FALSE /\ app.up
        /\ UNCHANGED <<streams, flags>>
    BY <1>12, <2>1, <2>2, <2>3 DEF Screen!Tick
  <2>5. app' \in Apps /\ app'.media = media
    BY <1>1, <2>4
  <2>6. ~flags.webkit => audio = (Screen!Loud # {})
    BY <2>1 DEF Screen!AnyAudioActive
  <2>7. ~flags.webkit => media = (Screen!Loud # {})
    BY <1>1, <2>2, <2>4, <2>6
  <2>8. Screen!Loud' = Screen!Loud
    BY <2>4 DEF Screen!Loud
  <2>9. QED
    BY <1>1, <2>4, <2>5, <2>7, <2>8 DEF AudioInv, Screen!AudioIsHeard
<1>13. CASE Screen!Quit
  <2>1. app' = [app EXCEPT !.up = FALSE] /\ UNCHANGED <<streams, heard, flags>>
    BY <1>13 DEF Screen!Quit
  <2>2. app' \in Apps /\ ~app'.up /\ app'.media = app.media
    BY <1>1, <2>1
  <2>3. QED
    BY <1>1, <1>3, <2>1, <2>2
<1>14. CASE Screen!WorkerStep \/ UNCHANGED Screen!vars
  BY <1>1, <1>4, <1>14 DEF Screen!WorkerStep, Screen!vars
<1>15. QED
  BY <1>5, <1>6, <1>7, <1>8, <1>9, <1>10, <1>11, <1>12, <1>13, <1>14 DEF Screen!Next

LEMMA FlagKeeps == FlagInv /\ [Screen!Next]_Screen!vars => FlagInv'
<1> SUFFICES ASSUME FlagInv, [Screen!Next]_Screen!vars PROVE FlagInv'
  OBVIOUS
<1> DEFINE Cmds == {"acquire", "release", "shutdown"}
<1>1. asks \in Seq(Cmds) /\ CmdCap \in Nat
  BY DEF FlagInv
<1>2. CASE UNCHANGED Screen!inhibitor
  BY <1>2 DEF FlagInv, Screen!FlagIsTrue, Screen!inhibitor
<1>3. ASSUME NEW cmd \in Cmds, Screen!Change(cmd) PROVE FlagInv'
  <2>1. Screen!Posted(cmd) \in Seq(Cmds)
    <3> HIDE DEF Cmds
    <3>1. QED
      BY <1>1, AppendProperties DEF Screen!Posted
  <2>2. asks' \in Seq(Cmds)
    BY <1>1, <1>3, <2>1 DEF Screen!Change
  <2>3. QED
    BY <1>3, <2>2 DEF Screen!Change, FlagInv, Screen!FlagIsTrue
<1>4. ASSUME NEW due \in BOOLEAN, Screen!Tick(due) PROVE FlagInv'
  <2>1. CASE UNCHANGED Screen!inhibitor
    BY <1>2, <2>1
  <2>2. ASSUME Screen!Change(IF active THEN "release" ELSE "acquire") PROVE FlagInv'
    <3>1. CASE active
      <4>1. Screen!Change("release")
        BY <2>2, <3>1
      <4>2. QED
        BY <1>3, <4>1
    <3>2. CASE ~active
      <4>1. Screen!Change("acquire")
        BY <2>2, <3>2
      <4>2. QED
        BY <1>3, <4>1
    <3>3. QED
      BY <3>1, <3>2
  <2>3. QED
    BY <1>4, <2>1, <2>2 DEF Screen!Tick
<1>5. CASE Screen!Quit
  <2>1. CASE backend = "worker"
    <3> DEFINE all == asks \o <<"release", "shutdown">>
               n == IF Len(all) < CmdCap THEN Len(all) ELSE CmdCap
    <3>1. asks' = SubSeq(all, 1, n) /\ UNCHANGED <<held, active, backend, helper>>
      BY <1>5, <2>1 DEF Screen!Quit
    <3>2. all \in Seq(Cmds) /\ Len(all) \in Nat
      BY <1>1
    <3>3. CASE Len(all) < CmdCap
      <4>1. asks' = SubSeq(all, 1, Len(all))
        BY <3>1, <3>3
      <4> HIDE DEF all, Cmds, n
      <4>2. SubSeq(all, 1, Len(all)) \in Seq(Cmds)
        BY <3>2
      <4> USE DEF Cmds
      <4>3. QED
        BY <3>1, <4>1, <4>2 DEF FlagInv, Screen!FlagIsTrue
    <3>4. CASE ~(Len(all) < CmdCap)
      <4>1. asks' = SubSeq(all, 1, CmdCap)
        BY <3>1, <3>4
      <4>2. \A i \in 1..CmdCap : i \in 1..Len(all)
        BY <3>2, <3>4, <1>1
      <4> HIDE DEF all, Cmds, n
      <4>3. SubSeq(all, 1, CmdCap) \in Seq(Cmds)
        BY <1>1, <3>2, <4>2
      <4> USE DEF Cmds
      <4>4. QED
        BY <3>1, <4>1, <4>3 DEF FlagInv, Screen!FlagIsTrue
    <3>5. QED
      BY <3>3, <3>4
  <2>2. CASE backend # "worker"
    BY <1>5, <2>2 DEF Screen!Quit, FlagInv, Screen!FlagIsTrue
  <2>3. QED
    BY <2>1, <2>2
<1>6. CASE Screen!WorkerStep
  <2>1. CASE asks # <<>>
    <3>1. /\ Screen!Obeys(Head(asks)) /\ asks' = Tail(asks) /\ backend' = backend
      BY <1>6, <2>1 DEF Screen!WorkerStep
    <3>2. Head(asks) \in Cmds /\ asks' \in Seq(Cmds)
      BY <1>1, <2>1, <3>1
    <3>3. QED
      BY <1>6, <3>1, <3>2 DEF Screen!Obeys, Screen!Ends, FlagInv, Screen!FlagIsTrue,
         Screen!WorkerStep
  <2>2. CASE asks = <<>>
    BY <1>6, <2>2 DEF Screen!WorkerStep, Screen!Closed, Screen!Ends, FlagInv, Screen!FlagIsTrue
  <2>3. QED
    BY <2>1, <2>2
<1>7. QED
  BY <1>2, <1>4, <1>5, <1>6
     DEF Screen!Next, Screen!vars, Screen!FilmChanges, Screen!StreamStarts, Screen!StreamEnds,
         Screen!Navigates, Screen!Closes, Screen!Selects, Screen!Probe, Screen!Focus, Screen!Occlude,
         Screen!AudioPoll

\* What the application knows of audio is so, unless an event waits, and the
\* flag that the event loop reads is what the worker has done, whatever the
\* pages do and however many commands a full channel drops (drain_audio_events,
\* run_worker, is_active).
THEOREM HeardAndHeld ==
  Screen!Init /\ [][Screen!Next]_Screen!vars => [](Screen!AudioIsHeard /\ Screen!FlagIsTrue)
<1>1. Screen!Init => AudioInv /\ FlagInv
  <2> SUFFICES ASSUME Screen!Init PROVE AudioInv /\ FlagInv
    OBVIOUS
  <2>1. Screen!Loud = {}
    BY DEF Screen!Init, Screen!Loud
  <2>2. flags \in [webkit : BOOLEAN, video : BOOLEAN, audio : BOOLEAN]
    <3>1. PICK webkit \in BOOLEAN : flags = [webkit |-> webkit, video |-> FALSE, audio |-> FALSE]
      BY DEF Screen!Init
    <3>2. QED
      BY <3>1
  <2>3. AudioInv
    BY <2>1, <2>2 DEF Screen!Init, AudioInv, Screen!AudioIsHeard
  <2>4. FlagInv
    <3>1. asks = <<>> /\ held = FALSE /\ active = FALSE /\ backend \in {"worker", "direct"}
          /\ helper = IF backend = "worker" THEN "up" ELSE "down"
      BY DEF Screen!Init
    <3>2. asks \in Seq({"acquire", "release", "shutdown"}) /\ helper \in {"up", "down"}
      BY <3>1
    <3>3. active = held /\ ~held /\ held \in BOOLEAN
      BY <3>1
    <3>4. QED
      BY <3>2, <3>3, CapacityAssumption DEF FlagInv, Screen!FlagIsTrue
  <2>5. QED
    BY <2>3, <2>4
<1>2. AudioInv /\ FlagInv /\ [Screen!Next]_Screen!vars => AudioInv' /\ FlagInv'
  BY AudioKeeps, FlagKeeps
<1>3. AudioInv /\ FlagInv => Screen!AudioIsHeard /\ Screen!FlagIsTrue
  BY DEF AudioInv, FlagInv
<1>4. QED
  BY <1>1, <1>2, <1>3, PTL

-----------------------------------------------------------------------------
(* The parts together, as MCWorkers runs them.                              *)

\* Each part of a behaviour of the run is a behaviour of its own specification.
LEMMA PartsApart ==
  PartsSpec => /\ Init /\ [][Next]_vars
               /\ Pages!Init /\ [][Pages!Next]_Pages!vars
               /\ Signals!Init /\ [][Signals!Next]_Signals!vars
               /\ Screen!Init /\ [][Screen!Next]_Screen!vars
<1> DEFINE Step == \/ OfChannel(Next) \/ OfSession(Saved!Next)
                   \/ OfPages(Pages!Next) \/ OfSignals(Signals!Next) \/ OfScreen(Screen!Next)
<1>1. PartsInit => Init /\ Pages!Init /\ Signals!Init /\ Screen!Init
  BY DEF PartsInit
<1>2. [Step]_allVars => /\ [Next]_vars /\ [Pages!Next]_Pages!vars
                        /\ [Signals!Next]_Signals!vars /\ [Screen!Next]_Screen!vars
  <2> SUFFICES ASSUME [Step]_allVars
               PROVE  /\ [Next]_vars /\ [Pages!Next]_Pages!vars
                      /\ [Signals!Next]_Signals!vars /\ [Screen!Next]_Screen!vars
    OBVIOUS
  <2>1. UNCHANGED pageVars => UNCHANGED Pages!vars
    BY DEF pageVars, Pages!vars
  <2>2. UNCHANGED signalVars => UNCHANGED Signals!vars
    BY DEF signalVars, Signals!vars, Signals!shown
  <2>3. UNCHANGED inhibitVars => UNCHANGED Screen!vars
    BY DEF inhibitVars, Screen!vars, Screen!pages, Screen!engine, Screen!inhibitor
  <2>4. UNCHANGED allVars => UNCHANGED <<vars, pageVars, signalVars, inhibitVars>>
    BY DEF allVars
  <2>5. QED
    BY <2>1, <2>2, <2>3, <2>4 DEF OfChannel, OfSession, OfPages, OfSignals, OfScreen
<1>3. PartsSpec => PartsInit /\ [][Step]_allVars
  BY PTL DEF PartsSpec
<1>4. QED
  BY <1>1, <1>2, <1>3, PTL

\* The mirror agrees with the worker's list, beside the other parts
\* (open_tab, select_tab, close_tab, move_tab).
THEOREM MirrorAlwaysAgrees == PartsSpec => []MirrorAgrees
<1>1. QED
  BY PartsApart, MirrorIsTrue, PTL

\* A caller blocked in the engine, a page that asks for permission and one that
\* reads the clipboard are told the truth, and pages once
\* (open_tab_sync, resolve_permission, on_clipboard_paste_scheme_request).
THEOREM WhoeverAsksIsTold == PartsSpec => []WhoAsksIsTold
<1>1. PartsSpec => Signals!Spec
  BY PartsApart, PTL DEF Signals!Spec
<1>2. QED
  BY <1>1, PartsApart, RepliesAlwaysTrue, ReadsAnswered, PTL DEF WhoAsksIsTold

\* What is on screen is the front tab's, the announced tabs are those that play,
\* the flags are those of the page in front, and the machine stays awake as the
\* worker was told (ack_pending_buffer, on_load_changed, run_worker).
THEOREM AllSeenAndHeard == PartsSpec => []SeenAndHeard
<1>1. PartsSpec => Signals!Spec
  BY PartsApart, PTL DEF Signals!Spec
<1>2. QED
  BY <1>1, PartsApart, SeenIsShown, FlagsTellTheTruth, HeardAndHeld, PTL DEF SeenAndHeard
=============================================================================
