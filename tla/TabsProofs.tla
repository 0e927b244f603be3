----------------------------- MODULE TabsProofs -----------------------------
(***************************************************************************)
(* Theorems about Tabs.tla and the operators of TabStrip.tla it is built   *)
(* from, for any engines, any number of tabs and any cap on the stack of   *)
(* closed tabs.                                                            *)
(***************************************************************************)
EXTENDS Tabs, FiniteSetTheorems, SequenceTheorems, WellFoundedInduction, TLAPS

-----------------------------------------------------------------------------
(* Numbers and sequences.                                                  *)

\* A set of numbers has a least one.
LEMMA LeastNat == ASSUME NEW T, T \subseteq Nat, T # {} PROVE \E m \in T : \A k \in T : m <= k
<1> DEFINE R == OpToRel(<, Nat)
<1>1. IsWellFoundedOn(R, Nat)
  BY NatLessThanWellFounded
<1>2. \A x, y \in Nat : y < x => <<y, x>> \in R
  BY DEF OpToRel
<1> HIDE DEF R
<1>3. PICK x \in T : \A y \in T : ~(<<y, x>> \in R)
  BY <1>1, WFMin
<1>4. ASSUME NEW k \in T PROVE x <= k
  <2>1. x \in Nat /\ k \in Nat /\ ~(<<k, x>> \in R)
    BY <1>3
  <2>2. ~(k < x)
    BY <2>1, <1>2
  <2>3. QED
    BY <2>1, <2>2
<1>5. QED
  BY <1>4

\* Induction up to a bound, with a set in the place of a predicate.
LEMMA UpTo ==
  ASSUME NEW n \in Nat, NEW T, 0 \in T, \A i \in 1 .. n : i - 1 \in T => i \in T
  PROVE  \A i \in 0 .. n : i \in T
<1> DEFINE Out == {i \in 0 .. n : i \notin T}
<1>1. SUFFICES ASSUME Out # {} PROVE FALSE
  OBVIOUS
<1>2. PICK m \in Out : \A k \in Out : m <= k
  <2>1. Out \subseteq Nat
    OBVIOUS
  <2> HIDE DEF Out
  <2>2. QED
    BY <1>1, <2>1, LeastNat
<1>3. m \in 1 .. n
  BY <1>2
<1>4. m - 1 \in 0 .. n /\ m - 1 \notin Out
  BY <1>2, <1>3
<1>5. QED
  BY <1>2, <1>3, <1>4

\* What a step computes from the one before it can be computed n times.
Runs(f, n, S, first, step) ==
  /\ f = [i \in 0 .. n |-> f[i]] /\ f[0] = first
  /\ \A i \in 1 .. n : f[i] = step[<<i, f[i - 1]>>]
  /\ \A i \in 0 .. n : f[i] \in S

LEMMA Recursion ==
  ASSUME NEW n \in Nat, NEW S, NEW first \in S, NEW step \in [(1 .. n) \X S -> S]
  PROVE  \E f : Runs(f, n, S, first, step)
<1> DEFINE Good(f, m) == /\ f[0] = first
                         /\ \A i \in 1 .. m : f[i] = step[<<i, f[i - 1]>>]
                         /\ \A i \in 0 .. m : f[i] \in S
           T == {m \in 0 .. n : \E f : Good(f, m)}
<1>1. 0 \in T
  <2> DEFINE f == [i \in 0 .. 0 |-> first]
  <2>1. Good(f, 0)
    OBVIOUS
  <2> HIDE DEF f, Good
  <2>2. QED
    BY <2>1
<1>2. ASSUME NEW m \in 1 .. n, m - 1 \in T PROVE m \in T
  <2>1. PICK f : Good(f, m - 1)
    BY <1>2
  <2> DEFINE x == step[<<m, f[m - 1]>>]
             g == [i \in 0 .. m |-> IF i = m THEN x ELSE f[i]]
  <2>2. m - 1 \in 0 .. m - 1 /\ m \in Nat /\ m # 0 /\ m - 1 # m
    OBVIOUS
  <2>3. f[m - 1] \in S /\ <<m, f[m - 1]>> \in (1 .. n) \X S
    BY <2>1, <2>2
  <2>4. x \in S
    BY <2>3
  <2> HIDE DEF x
  <2>5. \A i \in 0 .. m - 1 : g[i] = f[i]
    BY <2>2
  <2>6. g[m] = x
    BY <2>2
  <2> HIDE DEF g
  <2>7. g[0] = first
    BY <2>1, <2>2, <2>5
  <2>8. ASSUME NEW i \in 1 .. m PROVE g[i] = step[<<i, g[i - 1]>>]
    <3>1. i - 1 \in 0 .. m - 1
      OBVIOUS
    <3>2. CASE i = m
      BY <2>2, <2>5, <2>6, <3>2 DEF x
    <3>3. CASE i # m
      <4>1. i \in 1 .. m - 1 /\ i \in 0 .. m - 1
        BY <3>3
      <4>2. QED
        BY <2>1, <2>5, <3>1, <4>1
    <3>4. QED
      BY <3>2, <3>3
  <2>9. ASSUME NEW i \in 0 .. m PROVE g[i] \in S
    <3>1. CASE i = m
      BY <2>4, <2>6, <3>1
    <3>2. CASE i # m
      <4>1. i \in 0 .. m - 1
        BY <3>2
      <4>2. QED
        BY <2>1, <2>5, <4>1
    <3>3. QED
      BY <3>1, <3>2
  <2>10. Good(g, m)
    BY <2>7, <2>8, <2>9
  <2> HIDE DEF Good
  <2>11. QED
    BY <2>10
<1>3. n \in T
  <2>1. \A i \in 0 .. n : i \in T
    <3> HIDE DEF T
    <3>1. QED
      BY <1>1, <1>2, UpTo
  <2>2. QED
    BY <2>1
<1>4. PICK f : Good(f, n)
  BY <1>3
<1> DEFINE h == [i \in 0 .. n |-> f[i]]
<1>5. \A i \in 0 .. n : h[i] = f[i]
  OBVIOUS
<1>6. h = [i \in 0 .. n |-> h[i]]
  OBVIOUS
<1> HIDE DEF h
<1>7. ASSUME NEW i \in 1 .. n PROVE h[i] = step[<<i, h[i - 1]>>]
  <2>1. i - 1 \in 0 .. n /\ i \in 0 .. n
    OBVIOUS
  <2>2. QED
    BY <1>4, <1>5, <2>1
<1>8. h[0] = first /\ \A i \in 0 .. n : h[i] \in S
  BY <1>4, <1>5
<1>9. Runs(h, n, S, first, step)
  BY <1>6, <1>7, <1>8 DEF Runs
<1>10. QED
  BY <1>9

LEMMA MaxOfTwo ==
  ASSUME NEW a \in Nat, NEW b \in Nat
  PROVE  /\ Max({a, b}) \in Nat /\ Max({a, b}) \in {a, b}
         /\ Max({a, b}) >= a /\ Max({a, b}) >= b
<1>1. \E x \in {a, b} : \A y \in {a, b} : x >= y
  OBVIOUS
<1> DEFINE m == CHOOSE x \in {a, b} : \A y \in {a, b} : x >= y
<1>2. m \in {a, b} /\ \A y \in {a, b} : m >= y
  BY <1>1
<1>3. m = Max({a, b})
  BY DEF Max
<1> HIDE DEF m
<1>4. QED
  BY <1>2, <1>3

LEMMA MinOfTwo ==
  ASSUME NEW a \in Nat, NEW b \in Nat
  PROVE  /\ Min({a, b}) \in Nat /\ Min({a, b}) \in {a, b}
         /\ Min({a, b}) <= a /\ Min({a, b}) <= b
<1>1. \E x \in {a, b} : \A y \in {a, b} : x =< y
  OBVIOUS
<1> DEFINE m == CHOOSE x \in {a, b} : \A y \in {a, b} : x =< y
<1>2. m \in {a, b} /\ \A y \in {a, b} : m =< y
  BY <1>1
<1>3. m = Min({a, b})
  BY DEF Min
<1> HIDE DEF m
<1>4. QED
  BY <1>2, <1>3

\* What a part of a sequence is.
LEMMA PartOf ==
  ASSUME NEW S, NEW t \in Seq(S), NEW a \in Nat \ {0}, NEW b \in Nat, b <= Len(t), a <= b + 1
  PROVE  /\ SubSeq(t, a, b) \in Seq(S) /\ Len(SubSeq(t, a, b)) = b - a + 1
         /\ \A j \in 1 .. b - a + 1 : SubSeq(t, a, b)[j] = t[a + j - 1]
OBVIOUS

LEMMA AtPlace ==
  ASSUME NEW S, NEW t \in Seq(S), NEW j \in 1 .. Len(t)
  PROVE  t[j] \in S
OBVIOUS

\* Two of them behind each other.
LEMMA Joined ==
  ASSUME NEW S, NEW t \in Seq(S), NEW u \in Seq(S)
  PROVE  /\ t \o u \in Seq(S) /\ Len(t \o u) = Len(t) + Len(u)
         /\ \A j \in 1 .. Len(t) : (t \o u)[j] = t[j]
         /\ \A j \in 1 .. Len(u) : (t \o u)[Len(t) + j] = u[j]
OBVIOUS

LEMMA Inserted ==
  ASSUME NEW S, NEW t \in Seq(S), NEW i \in 1 .. Len(t) + 1, NEW e \in S
  PROVE  /\ InsertAt(t, i, e) \in Seq(S) /\ Len(InsertAt(t, i, e)) = Len(t) + 1
         /\ InsertAt(t, i, e)[i] = e
         /\ \A j \in 1 .. Len(t) : j < i => InsertAt(t, i, e)[j] = t[j]
         /\ \A j \in 1 .. Len(t) : j >= i => InsertAt(t, i, e)[j + 1] = t[j]
<1> DEFINE n == Len(t)
           a == SubSeq(t, 1, i - 1)
           c == SubSeq(t, i, n)
           r == (a \o <<e>>) \o c
<1>1. n \in Nat /\ i \in Nat \ {0} /\ i - 1 \in Nat /\ i - 1 <= n /\ i <= n + 1 /\ 1 <= (i - 1) + 1
  OBVIOUS
<1>2. a \in Seq(S) /\ Len(a) = i - 1 /\ \A j \in 1 .. i - 1 : a[j] = t[j]
  OBVIOUS
<1>3. c \in Seq(S) /\ Len(c) = n - i + 1 /\ \A j \in 1 .. n - i + 1 : c[j] = t[i + j - 1]
  BY <1>1, PartOf
<1>4. InsertAt(t, i, e) = r
  BY DEF InsertAt
<1> HIDE DEF a, c
<1> DEFINE b == a \o <<e>>
<1>5. /\ b \in Seq(S) /\ Len(b) = i /\ b[i] = e
      /\ \A j \in 1 .. i - 1 : b[j] = t[j]
  <2>1. <<e>> \in Seq(S) /\ Len(<<e>>) = 1 /\ <<e>>[1] = e /\ 1 \in 1 .. 1
    OBVIOUS
  <2>2. /\ b \in Seq(S) /\ Len(b) = (i - 1) + 1 /\ b[(i - 1) + 1] = e
        /\ \A j \in 1 .. i - 1 : b[j] = a[j]
    BY <1>2, <2>1, Joined
  <2>3. (i - 1) + 1 = i
    BY <1>1
  <2>4. QED
    BY <1>2, <2>2, <2>3
<1> HIDE DEF b
<1>6. /\ b \o c \in Seq(S) /\ Len(b \o c) = i + (n - i + 1)
      /\ \A j \in 1 .. i : (b \o c)[j] = b[j]
      /\ \A j \in 1 .. n - i + 1 : (b \o c)[i + j] = c[j]
  BY <1>3, <1>5, Joined
<1>7. r = b \o c
  BY DEF b
<1> HIDE DEF r, n
<1>8. Len(r) = n + 1 /\ r[i] = e
  BY <1>1, <1>5, <1>6, <1>7
<1>9. ASSUME NEW j \in 1 .. n, j < i PROVE r[j] = t[j]
  <2>1. j \in 1 .. i - 1 /\ j \in 1 .. i
    BY <1>1, <1>9
  <2>2. QED
    BY <1>5, <1>6, <1>7, <2>1
<1>10. ASSUME NEW j \in 1 .. n, j >= i PROVE r[j + 1] = t[j]
  <2> DEFINE k == j - i + 1
  <2>1. k \in 1 .. n - i + 1 /\ i + k = j + 1 /\ i + k - 1 = j
    BY <1>1, <1>10
  <2> HIDE DEF k
  <2>2. c[k] = t[i + k - 1] /\ (b \o c)[i + k] = c[k]
    BY <1>3, <1>6, <2>1
  <2>3. QED
    BY <1>7, <2>1, <2>2
<1>11. QED
  BY <1>4, <1>6, <1>7, <1>8, <1>9, <1>10 DEF n

LEMMA Removed ==
  ASSUME NEW S, NEW t \in Seq(S), NEW i \in 1 .. Len(t)
  PROVE  /\ RemoveAt(t, i) \in Seq(S) /\ Len(RemoveAt(t, i)) = Len(t) - 1
         /\ \A j \in 1 .. Len(t) - 1 : j < i => RemoveAt(t, i)[j] = t[j]
         /\ \A j \in 1 .. Len(t) - 1 : j >= i => RemoveAt(t, i)[j] = t[j + 1]
<1> DEFINE n == Len(t)
           a == SubSeq(t, 1, i - 1)
           c == SubSeq(t, i + 1, n)
           r == a \o c
<1>1. n \in Nat /\ i \in Nat \ {0} /\ i <= n /\ i + 1 \in Nat \ {0} /\ i + 1 <= n + 1
  OBVIOUS
<1>2. a \in Seq(S) /\ Len(a) = i - 1 /\ \A j \in 1 .. i - 1 : a[j] = t[j]
  OBVIOUS
<1>3. c \in Seq(S) /\ Len(c) = n - (i + 1) + 1 /\ \A j \in 1 .. n - (i + 1) + 1 : c[j] = t[(i + 1) + j - 1]
  BY <1>1, PartOf
<1>4. RemoveAt(t, i) = r
  BY DEF RemoveAt
<1> HIDE DEF a, c, n
<1>5. /\ r \in Seq(S) /\ Len(r) = (i - 1) + (n - (i + 1) + 1)
      /\ \A j \in 1 .. i - 1 : r[j] = a[j]
      /\ \A j \in 1 .. n - (i + 1) + 1 : r[(i - 1) + j] = c[j]
  <2>1. /\ r \in Seq(S) /\ Len(r) = Len(a) + Len(c)
        /\ \A j \in 1 .. Len(a) : r[j] = a[j]
        /\ \A j \in 1 .. Len(c) : r[Len(a) + j] = c[j]
    <3>1. a \in Seq(S) /\ c \in Seq(S)
      BY <1>2, <1>3
    <3>2. QED
      BY <3>1, Joined
  <2>2. QED
    BY <1>2, <1>3, <2>1
<1> HIDE DEF r
<1>6. Len(r) = n - 1
  BY <1>1, <1>5
<1>7. ASSUME NEW j \in 1 .. n - 1, j < i PROVE r[j] = t[j]
  <2>1. j \in 1 .. i - 1
    BY <1>1, <1>7
  <2>2. QED
    BY <1>2, <1>5, <2>1
<1>8. ASSUME NEW j \in 1 .. n - 1, j >= i PROVE r[j] = t[j + 1]
  <2>1. (j - i + 1) \in 1 .. n - (i + 1) + 1 /\ (i - 1) + (j - i + 1) = j /\ (i + 1) + (j - i + 1) - 1 = j + 1
    BY <1>1, <1>8
  <2>2. r[(i - 1) + (j - i + 1)] = c[j - i + 1] /\ c[j - i + 1] = t[(i + 1) + (j - i + 1) - 1]
    BY <1>3, <1>5, <2>1
  <2>3. QED
    BY <2>1, <2>2
<1>9. QED
  BY <1>4, <1>5, <1>6, <1>7, <1>8 DEF n

-----------------------------------------------------------------------------
(* Lists of tabs.                                                          *)

TabSet == [id : Nat, pinned : BOOLEAN]
EntrySet == [tab : TabSet, at : Nat \ {0}]

Names(t) == {t[i].id : i \in 1 .. Len(t)}
Distinct(t) == \A i, j \in 1 .. Len(t) : t[i].id = t[j].id => i = j
PinsFirst(t) == \A i, j \in 1 .. Len(t) : i < j /\ t[j].pinned => t[i].pinned

LEMMA NamesAre ==
  ASSUME NEW t
  PROVE  /\ \A i \in 1 .. Len(t) : t[i].id \in Names(t)
         /\ \A x \in Names(t) : \E i \in 1 .. Len(t) : x = t[i].id
BY DEF Names

\* A tab that comes into a list.
LEMMA InsertNames ==
  ASSUME NEW t \in Seq(TabSet), NEW i \in 1 .. Len(t) + 1, NEW e \in TabSet
  PROVE  /\ Names(InsertAt(t, i, e)) = Names(t) \cup {e.id}
         /\ Distinct(t) /\ e.id \notin Names(t) => Distinct(InsertAt(t, i, e))
<1> DEFINE n == Len(t)
           r == InsertAt(t, i, e)
<1>1. n \in Nat /\ i \in 1 .. n + 1
  OBVIOUS
<1>2. /\ Len(r) = n + 1 /\ r[i] = e
      /\ \A j \in 1 .. n : j < i => r[j] = t[j]
      /\ \A j \in 1 .. n : j >= i => r[j + 1] = t[j]
  BY Inserted
<1> HIDE DEF n, r
<1>3. ASSUME NEW j \in 1 .. n + 1, j # i
      PROVE  LET m == IF j < i THEN j ELSE j - 1 IN m \in 1 .. n /\ r[j] = t[m]
  <2>1. CASE j < i
    <3>1. j \in 1 .. n
      BY <1>1, <2>1
    <3>2. QED
      BY <1>2, <2>1, <3>1
  <2>2. CASE ~(j < i)
    <3>1. j - 1 \in 1 .. n /\ j - 1 >= i /\ (j - 1) + 1 = j
      BY <1>1, <1>3, <2>2
    <3>2. r[(j - 1) + 1] = t[j - 1]
      BY <1>2, <3>1
    <3>3. QED
      BY <2>2, <3>1, <3>2
  <2>3. QED
    BY <2>1, <2>2
<1>4. \A m \in 1 .. n : \E j \in 1 .. n + 1 : r[j] = t[m]
  <2>1. ASSUME NEW m \in 1 .. n PROVE \E j \in 1 .. n + 1 : r[j] = t[m]
    <3>1. m \in 1 .. n + 1 /\ m + 1 \in 1 .. n + 1
      BY <1>1
    <3>2. m < i \/ m >= i
      BY <1>1
    <3>3. QED
      BY <1>2, <3>1, <3>2
  <2>2. QED
    BY <2>1
<1>5. Names(r) \subseteq Names(t) \cup {e.id}
  <2>1. ASSUME NEW j \in 1 .. n + 1 PROVE r[j].id \in Names(t) \cup {e.id}
    <3>1. CASE j = i
      BY <1>2, <3>1
    <3>2. CASE j # i
      <4>1. PICK m \in 1 .. n : r[j] = t[m]
        BY <1>3, <3>2
      <4>2. QED
        BY <4>1, NamesAre DEF n
    <3>3. QED
      BY <3>1, <3>2
  <2>2. QED
    BY <1>2, <2>1, NamesAre
<1>6. Names(t) \cup {e.id} \subseteq Names(r)
  <2>1. e.id \in Names(r)
    BY <1>1, <1>2, NamesAre
  <2>2. ASSUME NEW m \in 1 .. n PROVE t[m].id \in Names(r)
    BY <1>2, <1>4, NamesAre
  <2>3. ASSUME NEW x \in Names(t) PROVE x \in Names(r)
    <3>1. PICK m \in 1 .. n : x = t[m].id
      BY NamesAre DEF n
    <3>2. QED
      BY <2>2, <3>1
  <2>4. QED
    BY <2>1, <2>3
<1>7. ASSUME Distinct(t), e.id \notin Names(t) PROVE Distinct(r)
  <2>1. ASSUME NEW j \in 1 .. n + 1, NEW k \in 1 .. n + 1, r[j].id = r[k].id PROVE j = k
    <3>1. ASSUME NEW x \in 1 .. n + 1, x # i PROVE r[x].id # e.id
      <4>1. PICK m \in 1 .. n : r[x] = t[m]
        BY <1>3, <3>1
      <4>2. t[m].id \in Names(t)
        BY NamesAre DEF n
      <4>3. QED
        BY <1>7, <4>1, <4>2
    <3>2. CASE j = i \/ k = i
      BY <1>2, <2>1, <3>1, <3>2
    <3>3. CASE j # i /\ k # i
      <4> DEFINE a == IF j < i THEN j ELSE j - 1
                 b == IF k < i THEN k ELSE k - 1
      <4>1. a \in 1 .. n /\ b \in 1 .. n /\ r[j] = t[a] /\ r[k] = t[b]
        BY <1>3, <3>3
      <4> HIDE DEF a, b
      <4>2. a = b
        BY <1>7, <2>1, <4>1 DEF Distinct, n
      <4>3. QED
        BY <1>1, <3>3, <4>2 DEF a, b
    <3>4. QED
      BY <3>2, <3>3
  <2>2. QED
    BY <1>2, <2>1 DEF Distinct
<1>8. QED
  BY <1>5, <1>6, <1>7 DEF r

\* A tab that leaves a list.
LEMMA RemoveNames ==
  ASSUME NEW t \in Seq(TabSet), NEW i \in 1 .. Len(t), Distinct(t)
  PROVE  /\ Names(RemoveAt(t, i)) = Names(t) \ {t[i].id}
         /\ Distinct(RemoveAt(t, i))
<1> DEFINE n == Len(t)
           r == RemoveAt(t, i)
<1>1. n \in Nat /\ i \in 1 .. n
  OBVIOUS
<1>2. /\ Len(r) = n - 1
      /\ \A j \in 1 .. n - 1 : j < i => r[j] = t[j]
      /\ \A j \in 1 .. n - 1 : j >= i => r[j] = t[j + 1]
  BY Removed
<1>3. \A j, k \in 1 .. n : t[j].id = t[k].id => j = k
  BY DEF Distinct
<1> HIDE DEF n, r
<1>4. ASSUME NEW j \in 1 .. n - 1
      PROVE  LET m == IF j < i THEN j ELSE j + 1 IN m \in 1 .. n /\ m # i /\ r[j] = t[m]
  <2>1. CASE j < i
    <3>1. j \in 1 .. n
      BY <1>1
    <3>2. QED
      BY <1>2, <2>1, <3>1
  <2>2. CASE ~(j < i)
    <3>1. j + 1 \in 1 .. n /\ j >= i /\ j + 1 # i
      BY <1>1, <2>2
    <3>2. QED
      BY <1>2, <2>2, <3>1
  <2>3. QED
    BY <2>1, <2>2
<1>5. \A m \in 1 .. n : m # i => \E j \in 1 .. n - 1 : r[j] = t[m]
  <2>1. ASSUME NEW m \in 1 .. n, m # i PROVE \E j \in 1 .. n - 1 : r[j] = t[m]
    <3>1. CASE m < i
      <4>1. m \in 1 .. n - 1
        BY <1>1, <3>1
      <4>2. QED
        BY <1>2, <3>1, <4>1
    <3>2. CASE ~(m < i)
      <4>1. m - 1 \in 1 .. n - 1 /\ m - 1 >= i /\ (m - 1) + 1 = m
        BY <1>1, <2>1, <3>2
      <4>2. QED
        BY <1>2, <4>1
    <3>3. QED
      BY <3>1, <3>2
  <2>2. QED
    BY <2>1
<1>6. Names(r) \subseteq Names(t) \ {t[i].id}
  <2>1. ASSUME NEW j \in 1 .. n - 1 PROVE r[j].id \in Names(t) \ {t[i].id}
    <3>1. PICK m \in 1 .. n : m # i /\ r[j] = t[m]
      BY <1>4
    <3>2. t[m].id \in Names(t)
      BY NamesAre DEF n
    <3>3. QED
      BY <1>1, <1>3, <3>1, <3>2
  <2>2. ASSUME NEW x \in Names(r) PROVE x \in Names(t) \ {t[i].id}
    <3>1. PICK j \in 1 .. n - 1 : x = r[j].id
      BY <1>2, NamesAre
    <3>2. QED
      BY <2>1, <3>1
  <2>3. QED
    BY <2>2
<1>7. Names(t) \ {t[i].id} \subseteq Names(r)
  <2>1. ASSUME NEW m \in 1 .. n, m # i PROVE t[m].id \in Names(r)
    BY <1>2, <1>5, <2>1, NamesAre
  <2>2. ASSUME NEW x \in Names(t), x # t[i].id PROVE x \in Names(r)
    <3>1. PICK m \in 1 .. n : x = t[m].id
      BY NamesAre DEF n
    <3>2. QED
      BY <2>1, <2>2, <3>1
  <2>3. QED
    BY <2>2
<1>8. Distinct(r)
  <2>1. ASSUME NEW j \in 1 .. n - 1, NEW k \in 1 .. n - 1, r[j].id = r[k].id PROVE j = k
    <3> DEFINE a == IF j < i THEN j ELSE j + 1
               b == IF k < i THEN k ELSE k + 1
    <3>1. a \in 1 .. n /\ b \in 1 .. n /\ r[j] = t[a] /\ r[k] = t[b]
      BY <1>4
    <3> HIDE DEF a, b
    <3>2. a = b
      BY <1>3, <2>1, <3>1
    <3>3. QED
      BY <1>1, <3>2 DEF a, b
  <2>2. QED
    BY <1>2, <2>1 DEF Distinct
<1>9. QED
  BY <1>6, <1>7, <1>8 DEF r

\* The pinned tabs stay in front where one comes in among its like.
LEMMA InsertPins ==
  ASSUME NEW t \in Seq(TabSet), NEW i \in 1 .. Len(t) + 1, NEW e \in TabSet, PinsFirst(t),
         e.pinned => \A j \in 1 .. Len(t) : j < i => t[j].pinned,
         ~e.pinned => \A j \in 1 .. Len(t) : j >= i => ~t[j].pinned
  PROVE  PinsFirst(InsertAt(t, i, e))
<1> DEFINE n == Len(t)
           r == InsertAt(t, i, e)
<1>1. n \in Nat /\ i \in 1 .. n + 1
  OBVIOUS
<1>2. /\ Len(r) = n + 1 /\ r[i] = e
      /\ \A j \in 1 .. n : j < i => r[j] = t[j]
      /\ \A j \in 1 .. n : j >= i => r[j + 1] = t[j]
  BY Inserted
<1>3. /\ e.pinned => \A j \in 1 .. n : j < i => t[j].pinned
      /\ ~e.pinned => \A j \in 1 .. n : j >= i => ~t[j].pinned
      /\ \A j, k \in 1 .. n : j < k /\ t[k].pinned => t[j].pinned
  BY DEF PinsFirst
<1> HIDE DEF n, r
<1>4. ASSUME NEW j \in 1 .. n + 1, j < i PROVE j \in 1 .. n /\ r[j] = t[j]
  <2>1. j \in 1 .. n
    BY <1>1, <1>4
  <2>2. QED
    BY <1>2, <1>4, <2>1
<1>5. ASSUME NEW j \in 1 .. n + 1, j > i PROVE j - 1 \in 1 .. n /\ j - 1 >= i /\ r[j] = t[j - 1]
  <2>1. j - 1 \in 1 .. n /\ j - 1 >= i /\ (j - 1) + 1 = j
    BY <1>1, <1>5
  <2>2. r[(j - 1) + 1] = t[j - 1]
    BY <1>2, <2>1
  <2>3. QED
    BY <2>1, <2>2
<1>6. ASSUME NEW j \in 1 .. n + 1, NEW k \in 1 .. n + 1, j < k, r[k].pinned PROVE r[j].pinned
  <2>1. CASE k < i
    <3>1. j < i
      BY <1>1, <1>6, <2>1
    <3>2. QED
      BY <1>3, <1>4, <1>6, <2>1, <3>1
  <2>2. CASE k = i
    BY <1>2, <1>3, <1>4, <1>6, <2>2
  <2>3. CASE k > i
    <3>1. t[k - 1].pinned /\ k - 1 \in 1 .. n /\ k - 1 >= i
      BY <1>5, <1>6, <2>3
    <3>2. CASE j < i
      <4>1. j < k - 1
        BY <1>1, <3>1, <3>2
      <4>2. QED
        BY <1>3, <1>4, <3>1, <3>2, <4>1
    <3>3. CASE j = i
      BY <1>2, <1>3, <3>1, <3>3
    <3>4. CASE j > i
      <4>1. j - 1 < k - 1
        BY <1>1, <1>6
      <4>2. QED
        BY <1>3, <1>5, <3>1, <3>4, <4>1
    <3>5. QED
      BY <1>1, <3>2, <3>3, <3>4
  <2>4. QED
    BY <1>1, <2>1, <2>2, <2>3
<1>7. QED
  BY <1>2, <1>6 DEF PinsFirst, r

LEMMA RemovePins ==
  ASSUME NEW t \in Seq(TabSet), NEW i \in 1 .. Len(t), PinsFirst(t)
  PROVE  PinsFirst(RemoveAt(t, i))
<1> DEFINE n == Len(t)
           r == RemoveAt(t, i)
           old(j) == IF j < i THEN j ELSE j + 1
<1>1. n \in Nat /\ i \in 1 .. n
  OBVIOUS
<1>2. /\ Len(r) = n - 1
      /\ \A j \in 1 .. n - 1 : j < i => r[j] = t[j]
      /\ \A j \in 1 .. n - 1 : j >= i => r[j] = t[j + 1]
  BY Removed
<1>3. \A j, k \in 1 .. n : j < k /\ t[k].pinned => t[j].pinned
  BY DEF PinsFirst
<1> HIDE DEF n, r
<1>4. \A j \in 1 .. n - 1 : old(j) \in 1 .. n
  BY <1>1
<1>5. ASSUME NEW j \in 1 .. n - 1 PROVE r[j] = t[old(j)]
  <2>1. j < i \/ j >= i
    BY <1>1
  <2>2. QED
    BY <1>1, <1>2, <2>1
<1>6. \A j, k \in 1 .. n - 1 : j < k => old(j) < old(k)
  BY <1>1
<1> HIDE DEF old
<1>7. ASSUME NEW j \in 1 .. n - 1, NEW k \in 1 .. n - 1, j < k, r[k].pinned PROVE r[j].pinned
  BY <1>3, <1>4, <1>5, <1>6, <1>7
<1>8. QED
  BY <1>2, <1>7 DEF PinsFirst, r

\* Where the pinned tabs are in front they are the first ones.
LEMMA PinnedBlock ==
  ASSUME NEW t \in Seq(TabSet), PinsFirst(t)
  PROVE  \A i \in 1 .. Len(t) : t[i].pinned <=> i <= Cardinality({j \in 1 .. Len(t) : t[j].pinned})
<1> DEFINE n == Len(t)
           P == {j \in 1 .. n : t[j].pinned}
           U == {j \in 1 .. n + 1 : j = n + 1 \/ ~t[j].pinned}
<1>1. n \in Nat
  OBVIOUS
<1>2. \A j, k \in 1 .. n : j < k /\ t[k].pinned => t[j].pinned
  BY DEF PinsFirst
<1> HIDE DEF n
<1>3. PICK q \in U : \A j \in U : q <= j
  <2>1. U \subseteq Nat /\ n + 1 \in U
    BY <1>1
  <2> HIDE DEF U
  <2>2. QED
    BY <2>1, LeastNat
<1>4. q \in 1 .. n + 1 /\ (q = n + 1 \/ ~t[q].pinned)
  BY <1>3
<1>5. ASSUME NEW i \in 1 .. n PROVE t[i].pinned <=> i <= q - 1
  <2>1. CASE i < q
    <3>1. i \notin U
      BY <1>1, <1>3, <1>4, <2>1
    <3>2. i \in 1 .. n + 1 /\ i # n + 1
      BY <1>1
    <3>3. t[i].pinned
      BY <3>1, <3>2
    <3>4. QED
      BY <1>1, <1>4, <2>1, <3>3
  <2>2. CASE i = q
    <3>1. ~t[i].pinned
      BY <1>1, <1>4, <2>2
    <3>2. QED
      BY <1>1, <1>4, <2>2, <3>1
  <2>3. CASE i > q
    <3>1. q \in 1 .. n /\ ~t[q].pinned
      BY <1>1, <1>4, <2>3
    <3>2. ~t[i].pinned
      BY <1>2, <2>3, <3>1
    <3>3. QED
      BY <1>1, <1>4, <2>3, <3>2
  <2>4. QED
    BY <1>1, <1>4, <2>1, <2>2, <2>3
<1>6. P = 1 .. q - 1
  <2>1. \A i \in 1 .. q - 1 : i \in 1 .. n /\ i <= q - 1
    BY <1>1, <1>4
  <2>2. \A i \in 1 .. n : i <= q - 1 => i \in 1 .. q - 1
    BY <1>1, <1>4
  <2>3. QED
    BY <1>5, <2>1, <2>2
<1>7. Cardinality(1 .. q - 1) = q - 1
  <2>1. q - 1 \in Int /\ 1 \in Int /\ (1 > q - 1 => q - 1 = 0) /\ (q - 1) - 1 + 1 = q - 1
    BY <1>1, <1>4
  <2>2. QED
    BY <2>1, FS_Interval
<1>8. QED
  BY <1>5, <1>6, <1>7 DEF n

-----------------------------------------------------------------------------
(* Strips.                                                                 *)

StripSet == [tabs : Seq(TabSet), active : Nat, stack : Seq(EntrySet), shown : SUBSET Nat, next : Nat]

StashNames(k) == {k[i].tab.id : i \in 1 .. Len(k)}
StashDistinct(k) == \A i, j \in 1 .. Len(k) : k[i].tab.id = k[j].tab.id => i = j

\* Each browser is in one place, and what is shown is in the strip.
Fair(s) ==
  /\ s \in StripSet
  /\ Distinct(s.tabs) /\ StashDistinct(s.stack)
  /\ \A x \in Names(s.tabs) : x \notin StashNames(s.stack)
  /\ \A x \in Names(s.tabs) : x < s.next
  /\ \A x \in StashNames(s.stack) : x < s.next
  /\ Len(s.stack) <= StackCap
  /\ s.shown \subseteq Names(s.tabs)

\* Between two calls the active index is that of a shown tab, too.
Good(s) == Fair(s) /\ s.active \in 0 .. Len(s.tabs) /\ ActiveId(s) \subseteq s.shown

\* What a call keeps: one browser in the foreground, newcomers hidden or active,
\* and pinned tabs in front.
KeepsForeground(s, r) == ForegroundIsActive(s) => ForegroundIsActive(r)
HidesComers(s, r) == \A x \in Names(r.tabs) \ Names(s.tabs) : x \in r.shown => ActiveId(r) = {x}
KeepsPins(s, r) == PinsFirst(s.tabs) => PinsFirst(r.tabs)
Keeps(s, r) == KeepsForeground(s, r) /\ HidesComers(s, r) /\ KeepsPins(s, r)

\* No tab but those of s, as they were.
SameTabs(s, r) == \A i \in 1 .. Len(r.tabs) : \E j \in 1 .. Len(s.tabs) : r.tabs[i] = s.tabs[j]

\* Those and a new one.
OneMore(s, r) ==
  /\ r.next = s.next + 1
  /\ \A i \in 1 .. Len(r.tabs) :
       r.tabs[i] = Tab(s.next, FALSE) \/ \E j \in 1 .. Len(s.tabs) : r.tabs[i] = s.tabs[j]

LEMMA NamesAreNumbers == ASSUME NEW t \in Seq(TabSet) PROVE Names(t) \subseteq Nat
<1>1. ASSUME NEW i \in 1 .. Len(t) PROVE t[i].id \in Nat
  <2>1. t[i] \in TabSet
    BY AtPlace
  <2>2. QED
    BY <2>1 DEF TabSet
<1>2. QED
  BY <1>1 DEF Names

LEMMA StashAreNumbers == ASSUME NEW k \in Seq(EntrySet) PROVE StashNames(k) \subseteq Nat
<1>1. ASSUME NEW i \in 1 .. Len(k) PROVE k[i].tab.id \in Nat
  <2>1. k[i] \in EntrySet
    BY AtPlace
  <2>2. k[i].tab \in TabSet
    BY <2>1 DEF EntrySet
  <2>3. QED
    BY <2>2 DEF TabSet
<1>2. QED
  BY <1>1 DEF StashNames

LEMMA ActiveIs ==
  ASSUME NEW s
  PROVE  /\ s.active \in 1 .. Len(s.tabs) => ActiveId(s) = {s.tabs[s.active].id}
         /\ s.active \notin 1 .. Len(s.tabs) => ActiveId(s) = {}
BY DEF ActiveId, Positions

LEMMA SetActiveIs ==
  ASSUME NEW s, Fair(s), NEW i \in 1 .. Len(s.tabs), NEW r, r = SetActive(s, i)
  PROVE  /\ Good(r) /\ KeepsForeground(s, r)
         /\ r.tabs = s.tabs /\ r.stack = s.stack /\ r.next = s.next /\ r.active = i
         /\ ActiveId(r) = {s.tabs[i].id}
         /\ r.shown \subseteq s.shown \cup {s.tabs[i].id}
         /\ s.active # i => r.shown = (s.shown \ ActiveId(s)) \cup {s.tabs[i].id}
<1> DEFINE x == s.tabs[i].id
           seen == (IF s.active = i THEN s.shown ELSE s.shown \ ActiveId(s)) \cup {x}
<1>1. s \in StripSet /\ s.shown \subseteq Names(s.tabs)
  BY DEF Fair
<1>2. s.tabs \in Seq(TabSet) /\ s.shown \in SUBSET Nat /\ i \in Nat
  BY <1>1 DEF StripSet
<1>3. x \in Nat /\ x \in Names(s.tabs)
  <2>1. s.tabs[i] \in TabSet
    BY <1>2, AtPlace
  <2>2. x \in Nat
    BY <2>1 DEF TabSet
  <2>3. QED
    BY <2>2, NamesAre
<1>4. r = [s EXCEPT !.active = i, !.shown = seen]
  BY DEF SetActive, Positions
<1>5. seen \in SUBSET Nat /\ seen \subseteq Names(s.tabs) /\ seen \subseteq s.shown \cup {x} /\ x \in seen
  BY <1>1, <1>2, <1>3
<1>6. ForegroundIsActive(s) => seen \subseteq {x}
  <2>1. CASE s.active = i
    BY <2>1, ActiveIs DEF ForegroundIsActive
  <2>2. CASE s.active # i
    BY <2>2 DEF ForegroundIsActive
  <2>3. QED
    BY <2>1, <2>2
<1>13. s.active # i => seen = (s.shown \ ActiveId(s)) \cup {x}
  OBVIOUS
<1> HIDE DEF seen
<1>7. /\ r \in StripSet /\ r.tabs = s.tabs /\ r.stack = s.stack /\ r.next = s.next
      /\ r.active = i /\ r.shown = seen
  BY <1>1, <1>2, <1>4, <1>5 DEF StripSet
<1>8. ActiveId(r) = {x}
  BY <1>7, ActiveIs
<1> HIDE DEF x
<1>9. Fair(r)
  BY <1>5, <1>7 DEF Fair
<1>10. Good(r)
  <2>1. r.active \in 0 .. Len(r.tabs)
    BY <1>7
  <2>2. QED
    BY <1>5, <1>7, <1>8, <1>9, <2>1 DEF Good
<1>11. KeepsForeground(s, r)
  BY <1>6, <1>7, <1>8 DEF KeepsForeground, ForegroundIsActive
<1>12. QED
  BY <1>5, <1>7, <1>8, <1>10, <1>11, <1>13 DEF x

\* A tab put into a list of tabs.
Into(u, t, i, e) ==
  /\ u \in Seq(TabSet) /\ Len(u) = Len(t) + 1 /\ u[i] = e
  /\ \A j \in 1 .. Len(t) : j < i => u[j] = t[j]
  /\ \A j \in 1 .. Len(t) : j >= i => u[j + 1] = t[j]

LEMMA TabInserted ==
  ASSUME NEW t \in Seq(TabSet), NEW i \in 1 .. Len(t) + 1, NEW e \in TabSet
  PROVE  Into(InsertAt(t, i, e), t, i, e)
BY Inserted DEF Into

\* The strip with a new tab in it that is not active yet.
GetsTab(s, i, a, shown, r) ==
  /\ i \in 1 .. Len(s.tabs) + 1
  /\ a = IF s.active < i THEN s.active ELSE s.active + 1
  /\ s.shown \subseteq shown /\ shown \subseteq s.shown \cup {s.next}
  /\ r = [s EXCEPT !.tabs = InsertAt(s.tabs, i, Tab(s.next, FALSE)), !.next = s.next + 1,
                   !.active = a, !.shown = shown]

HasTab(s, i, a, shown, r) ==
  /\ Good(r) /\ ActiveId(r) = ActiveId(s) /\ Names(r.tabs) = Names(s.tabs) \cup {s.next}
  /\ s.next \notin Names(s.tabs) /\ r.shown = shown /\ r.tabs[i].id = s.next
  /\ Len(r.tabs) = Len(s.tabs) + 1 /\ r.next = s.next + 1
  /\ r.tabs = InsertAt(s.tabs, i, Tab(s.next, FALSE)) /\ r.stack = s.stack /\ r.active = a

LEMMA WithTab ==
  ASSUME NEW s, Good(s), NEW i, NEW a, NEW shown, NEW r, GetsTab(s, i, a, shown, r)
  PROVE  HasTab(s, i, a, shown, r)
<1> DEFINE n == Len(s.tabs)
           t == s.tabs
           e == Tab(s.next, FALSE)
           u == InsertAt(s.tabs, i, e)
<1>1. s \in StripSet /\ Fair(s) /\ s.active \in 0 .. n /\ ActiveId(s) \subseteq s.shown
  BY DEF Good, Fair
<1>2. /\ t \in Seq(TabSet) /\ s.shown \in SUBSET Nat /\ s.next \in Nat /\ s.active \in Nat
      /\ s.stack \in Seq(EntrySet) /\ s.next + 1 \in Nat
  BY <1>1 DEF StripSet
<1>3. e \in TabSet /\ e.id = s.next
  BY <1>2 DEF TabSet, Tab
<1>4. n \in Nat /\ i \in 1 .. n + 1 /\ i \in Nat
  BY <1>2 DEF GetsTab
<1>14. s.shown \subseteq shown /\ shown \subseteq s.shown \cup {s.next}
  BY DEF GetsTab
<1>15. a = IF s.active < i THEN s.active ELSE s.active + 1
  BY DEF GetsTab
<1> HIDE DEF e
<1>5. /\ u \in Seq(TabSet) /\ Len(u) = n + 1 /\ u[i] = e
      /\ \A j \in 1 .. n : j < i => u[j] = t[j]
      /\ \A j \in 1 .. n : j >= i => u[j + 1] = t[j]
  <2> HIDE DEF t, n
  <2>1. t \in Seq(TabSet) /\ i \in 1 .. Len(t) + 1 /\ e \in TabSet /\ n = Len(t)
    BY <1>2, <1>3, <1>4 DEF t, n
  <2>2. u = InsertAt(t, i, e)
    BY DEF u, t
  <2> HIDE DEF u
  <2>3. Into(InsertAt(t, i, e), t, i, e)
    BY <2>1, TabInserted
  <2>4. QED
    BY <2>1, <2>2, <2>3 DEF Into
<1>6. s.next \notin Names(t)
  BY <1>1, <1>2 DEF Fair
<1>7. Names(u) = Names(t) \cup {s.next} /\ Distinct(u)
  BY <1>1, <1>2, <1>3, <1>4, <1>6, InsertNames DEF Fair
<1> HIDE DEF u
<1>8. a \in Nat /\ a \in 0 .. n + 1 /\ shown \in SUBSET Nat
  <2>1. a \in Nat /\ a \in 0 .. n + 1
    BY <1>1, <1>2, <1>4, <1>15
  <2>2. QED
    BY <1>2, <1>14, <2>1
<1>9. /\ r \in StripSet /\ r.tabs = u /\ r.stack = s.stack /\ r.next = s.next + 1
      /\ r.active = a /\ r.shown = shown
  <2>1. r = [s EXCEPT !.tabs = u, !.next = s.next + 1, !.active = a, !.shown = shown]
    BY DEF GetsTab, u, e
  <2>2. QED
    BY <1>1, <1>2, <1>5, <1>8, <2>1 DEF StripSet
<1>10. ActiveId(r) = ActiveId(s)
  <2>1. CASE s.active = 0
    <3>1. a = 0 /\ 0 \notin 1 .. n /\ 0 \notin 1 .. Len(u)
      BY <1>4, <1>5, <1>15, <2>1
    <3>2. QED
      BY <1>9, <2>1, <3>1, ActiveIs
  <2>2. CASE s.active # 0
    <3>1. s.active \in 1 .. n /\ a \in 1 .. n + 1
      BY <1>1, <1>4, <1>15, <2>2
    <3>2. u[a] = t[s.active]
      <4>1. s.active < i \/ s.active >= i
        BY <1>2, <1>4
      <4>2. QED
        BY <1>5, <1>15, <3>1, <4>1, <1>4, <1>2
    <3>3. ActiveId(s) = {t[s.active].id}
      BY <3>1, ActiveIs
    <3>4. ActiveId(r) = {u[a].id}
      BY <1>5, <1>9, <3>1, ActiveIs
    <3>5. QED
      BY <3>2, <3>3, <3>4
  <2>3. QED
    BY <2>1, <2>2
<1>11. Fair(r)
  <2>1. /\ Distinct(s.tabs) /\ StashDistinct(s.stack) /\ Len(s.stack) <= StackCap
        /\ \A x \in Names(t) : x \notin StashNames(s.stack)
        /\ \A x \in Names(t) : x < s.next
        /\ \A x \in StashNames(s.stack) : x < s.next
        /\ s.shown \subseteq Names(t)
    BY <1>1 DEF Fair
  <2>2. \A x \in Names(t) \cup StashNames(s.stack) : x \in Nat
    <3>1. \A x \in Names(t) : x \in Nat
      BY <1>2, NamesAreNumbers
    <3>2. \A x \in StashNames(s.stack) : x \in Nat
      BY <1>2, StashAreNumbers
    <3>3. QED
      BY <3>1, <3>2
  <2>3. \A x \in Names(u) : x < s.next + 1 /\ x \notin StashNames(s.stack)
    BY <1>2, <1>7, <2>1, <2>2
  <2>4. \A x \in StashNames(s.stack) : x < s.next + 1
    BY <1>2, <2>1, <2>2
  <2>5. shown \subseteq Names(u)
    BY <1>7, <1>14, <2>1
  <2>6. QED
    BY <1>7, <1>9, <2>1, <2>3, <2>4, <2>5 DEF Fair
<1>12. Good(r)
  <2>1. ActiveId(r) \subseteq r.shown
    BY <1>1, <1>9, <1>10, <1>14
  <2>2. r.active \in 0 .. Len(r.tabs)
    BY <1>5, <1>8, <1>9
  <2>3. QED
    BY <1>11, <2>1, <2>2 DEF Good
<1>13. QED
  BY <1>3, <1>5, <1>6, <1>7, <1>9, <1>10, <1>12 DEF HasTab, u, e

\* create_browser.
LEMMA OpenedIs ==
  ASSUME NEW s, Good(s), NEW background \in BOOLEAN, NEW r, r = Opened(s, background)
  PROVE  /\ Good(r) /\ Keeps(s, r) /\ Names(s.tabs) \subseteq Names(r.tabs)
<1> DEFINE n == Len(s.tabs)
           e == Tab(s.next, FALSE)
           seen == IF background THEN s.shown ELSE s.shown \cup {s.next}
           p == [s EXCEPT !.tabs = InsertAt(s.tabs, n + 1, e), !.next = s.next + 1,
                          !.active = s.active, !.shown = seen]
<1>1. /\ s \in StripSet /\ s.active \in 0 .. n /\ s.tabs \in Seq(TabSet) /\ s.next \in Nat /\ n \in Nat
      /\ n + 1 \in 1 .. n + 1
  BY DEF Good, Fair, StripSet
<1>2. e \in TabSet /\ e.id = s.next /\ ~e.pinned
  BY <1>1 DEF TabSet, Tab
<1>3. InsertAt(s.tabs, n + 1, e) = Append(s.tabs, e)
  <2> DEFINE u == InsertAt(s.tabs, n + 1, e)
             v == Append(s.tabs, e)
  <2>0. s.tabs \in Seq(TabSet) /\ e \in TabSet /\ n + 1 \in 1 .. n + 1
    BY <1>1, <1>2
  <2> HIDE DEF e
  <2>1. u \in Seq(TabSet) /\ Len(u) = n + 1 /\ u[n + 1] = e /\ \A j \in 1 .. n : j < n + 1 => u[j] = s.tabs[j]
    <3> DEFINE i == n + 1
    <3>1. i \in 1 .. Len(s.tabs) + 1 /\ u = InsertAt(s.tabs, i, e)
      BY <2>0
    <3> HIDE DEF i, u
    <3>2. u \in Seq(TabSet) /\ Len(u) = n + 1 /\ u[i] = e /\ \A j \in 1 .. n : j < i => u[j] = s.tabs[j]
      <4>1. s.tabs \in Seq(TabSet) /\ i \in 1 .. Len(s.tabs) + 1 /\ e \in TabSet
        BY <2>0, <3>1
      <4>2. /\ InsertAt(s.tabs, i, e) \in Seq(TabSet) /\ Len(InsertAt(s.tabs, i, e)) = n + 1
            /\ InsertAt(s.tabs, i, e)[i] = e
            /\ \A j \in 1 .. n : j < i => InsertAt(s.tabs, i, e)[j] = s.tabs[j]
        BY <4>1, Inserted
      <4>3. QED
        BY <3>1, <4>2
    <3>3. QED
      BY <3>2 DEF i
  <2>2. v \in Seq(TabSet) /\ Len(v) = n + 1 /\ v[n + 1] = e /\ \A j \in 1 .. n : v[j] = s.tabs[j]
    BY <2>0, AppendProperties
  <2> HIDE DEF u, v, n
  <2>3. \A j \in 1 .. n + 1 : u[j] = v[j]
    <3>1. ASSUME NEW j \in 1 .. n + 1 PROVE u[j] = v[j]
      <4>1. j = n + 1 \/ (j \in 1 .. n /\ j < n + 1)
        BY <1>1
      <4>2. QED
        BY <2>1, <2>2, <4>1
    <3>2. QED
      BY <3>1
  <2>4. u = v
    BY <2>1, <2>2, <2>3
  <2>5. QED
    BY <2>4 DEF u, v
<1>4. p = [s EXCEPT !.tabs = Append(s.tabs, e), !.next = s.next + 1, !.shown = seen]
  BY <1>1, <1>3 DEF StripSet
<1>5. /\ Good(p) /\ ActiveId(p) = ActiveId(s) /\ Names(p.tabs) = Names(s.tabs) \cup {s.next}
      /\ s.next \notin Names(s.tabs) /\ p.shown = seen /\ p.tabs[n + 1].id = s.next
      /\ Len(p.tabs) = n + 1 /\ p.tabs = InsertAt(s.tabs, n + 1, e) /\ p.active = s.active
  <2> DEFINE i == n + 1
  <2>1. s.active = IF s.active < n + 1 THEN s.active ELSE s.active + 1
    BY <1>1
  <2>2. GetsTab(s, i, s.active, seen, p)
    BY <1>1, <2>1 DEF GetsTab
  <2> HIDE DEF i, p, seen, e, n
  <2>3. HasTab(s, i, s.active, seen, p)
    <3>1. ASSUME NEW a, a = s.active PROVE HasTab(s, i, a, seen, p)
      BY <2>2, <3>1, WithTab
    <3>2. QED
      BY <3>1
  <2>4. QED
    BY <2>3 DEF HasTab, i, e, n
<1>6. KeepsPins(s, p)
  <2>1. ASSUME PinsFirst(s.tabs) PROVE PinsFirst(p.tabs)
    <3>1. \A j \in 1 .. n : ~(j >= n + 1)
      BY <1>1
    <3>2. PinsFirst(InsertAt(s.tabs, n + 1, e))
      BY <1>1, <1>2, <2>1, <3>1, InsertPins
    <3>3. QED
      BY <1>5, <3>2
  <2>2. QED
    BY <2>1 DEF KeepsPins
<1> HIDE DEF p, e
<1>7. CASE background
  <2>1. r = p /\ seen = s.shown
    BY <1>4, <1>7 DEF Opened, e
  <2>2. KeepsForeground(s, r)
    BY <1>5, <2>1 DEF KeepsForeground, ForegroundIsActive
  <2>3. HidesComers(s, r)
    <3>1. s.shown \subseteq Names(s.tabs)
      BY DEF Good, Fair
    <3>2. r.shown = s.shown
      BY <1>5, <2>1
    <3>3. QED
      BY <3>1, <3>2 DEF HidesComers
  <2>4. QED
    BY <1>5, <1>6, <2>1, <2>2, <2>3 DEF Keeps
<1>8. CASE ~background
  <2>1. r = SetActive(p, n + 1)
    <3>1. seen = s.shown \cup {e.id}
      BY <1>2, <1>8
    <3>2. Len([s EXCEPT !.tabs = Append(s.tabs, e), !.next = s.next + 1, !.shown = seen].tabs) = n + 1
      BY <1>4, <1>5
    <3>3. QED
      BY <1>4, <1>8, <3>1, <3>2 DEF Opened, e
  <2>2. Fair(p) /\ n + 1 \in 1 .. Len(p.tabs)
    BY <1>1, <1>5 DEF Good
  <2>3. /\ Good(r) /\ r.tabs = p.tabs /\ r.active = n + 1 /\ KeepsForeground(p, r)
        /\ ActiveId(r) = {p.tabs[n + 1].id}
    BY <2>1, <2>2, SetActiveIs
  <2>4. r.shown \subseteq p.shown \cup {s.next} /\ ActiveId(r) = {s.next}
    BY <1>5, <2>1, <2>2, <2>3, SetActiveIs
  <2>5. KeepsForeground(s, r)
    <3>1. ASSUME ForegroundIsActive(s) PROVE ForegroundIsActive(r)
      <4>1. s.shown \subseteq ActiveId(s)
        BY <3>1 DEF ForegroundIsActive
      <4>2. p.active # n + 1
        BY <1>1, <1>5
      <4>3. r.shown = (p.shown \ ActiveId(p)) \cup {p.tabs[n + 1].id}
        BY <2>1, <2>2, <4>2, SetActiveIs
      <4>4. r.shown \subseteq {s.next}
        BY <1>5, <4>1, <4>3, <1>8
      <4>5. QED
        BY <2>4, <4>4 DEF ForegroundIsActive
    <3>2. QED
      BY <3>1 DEF KeepsForeground
  <2>6. HidesComers(s, r)
    BY <1>5, <2>3, <2>4 DEF HidesComers
  <2>7. KeepsPins(s, r)
    BY <1>6, <2>3 DEF KeepsPins
  <2>8. QED
    BY <1>5, <2>3, <2>5, <2>6, <2>7 DEF Keeps
<1>9. QED
  BY <1>7, <1>8

\* What a call that ends with showing the newcomer makes of the strip.
Shows(s, p, i, r) ==
  /\ Good(r) /\ r.tabs = p.tabs /\ r.stack = p.stack /\ r.next = p.next
  /\ ActiveId(r) = {p.tabs[i].id} /\ KeepsForeground(s, r) /\ HidesComers(s, r)

\* The newcomer becomes the active tab, and the one that was is hidden.
LEMMA NewcomerShown ==
  ASSUME NEW s, Good(s), NEW i, NEW a, NEW p, HasTab(s, i, a, s.shown, p), i \in 1 .. Len(p.tabs), a # i,
         NEW r, r = SetActive(p, i)
  PROVE  Shows(s, p, i, r)
<1>1. /\ Good(p) /\ Fair(p) /\ ActiveId(p) = ActiveId(s) /\ p.shown = s.shown /\ p.active = a
      /\ Names(p.tabs) = Names(s.tabs) \cup {s.next} /\ p.tabs[i].id = s.next
  BY DEF HasTab, Good
<1>2. /\ Good(r) /\ r.tabs = p.tabs /\ r.stack = p.stack /\ r.next = p.next
      /\ ActiveId(r) = {p.tabs[i].id} /\ r.shown = (p.shown \ ActiveId(p)) \cup {p.tabs[i].id}
  BY <1>1, SetActiveIs
<1>3. KeepsForeground(s, r)
  BY <1>1, <1>2 DEF KeepsForeground, ForegroundIsActive
<1>4. HidesComers(s, r)
  BY <1>1, <1>2 DEF HidesComers
<1>5. QED
  BY <1>2, <1>3, <1>4 DEF Shows

\* open_tab_at.  Behind the pinned tabs it keeps their order.
LEMMA OpenedAtIs ==
  ASSUME NEW s, Good(s), NEW i \in Nat \ {0}, NEW r, r = OpenedAt(s, i)
  PROVE  /\ Good(r) /\ KeepsForeground(s, r) /\ HidesComers(s, r)
         /\ Names(s.tabs) \subseteq Names(r.tabs) /\ Names(r.tabs) \subseteq Names(s.tabs) \cup {s.next}
         /\ i > PinnedCount(s) => KeepsPins(s, r)
         /\ ActiveId(r) # {} /\ OneMore(s, r)
<1> DEFINE n == Len(s.tabs)
           e == Tab(s.next, FALSE)
           at == Min({i, n + 1})
           a == IF s.active < at THEN s.active ELSE s.active + 1
           p == [s EXCEPT !.tabs = InsertAt(s.tabs, at, e), !.next = s.next + 1, !.active = a, !.shown = s.shown]
<1>1. /\ s \in StripSet /\ s.active \in 0 .. n /\ s.tabs \in Seq(TabSet) /\ s.next \in Nat /\ n \in Nat
      /\ n + 1 \in Nat /\ i \in Nat
  BY DEF Good, Fair, StripSet
<1>2. e \in TabSet /\ e.id = s.next /\ ~e.pinned
  BY <1>1 DEF TabSet, Tab
<1>3. at \in 1 .. n + 1 /\ at <= i /\ (at = i \/ at = n + 1)
  <2>1. at \in Nat /\ at \in {i, n + 1} /\ at <= i /\ at <= n + 1
    BY <1>1, MinOfTwo
  <2> HIDE DEF at
  <2>2. QED
    BY <1>1, <2>1
<1>4. r = SetActive(p, at)
  <2> DEFINE all == Append(s.tabs, e)
             pushed == [s EXCEPT !.tabs = all, !.next = s.next + 1, !.shown = s.shown]
             b == IF at = n + 1 \/ s.active < at THEN s.active ELSE s.active + 1
  <2>1. Opened(s, TRUE) = pushed
    BY DEF Opened, e
  <2>2. Len(all) = n + 1 /\ Front(all) = s.tabs /\ Last(all) = e
    <3> HIDE DEF e
    <3>1. all \in Seq(TabSet) /\ Len(all) = n + 1 /\ all[n + 1] = e /\ \A j \in 1 .. n : all[j] = s.tabs[j]
      BY <1>1, <1>2, AppendProperties
    <3> HIDE DEF all
    <3> DEFINE f == SubSeq(all, 1, n)
    <3>2. f \in Seq(TabSet) /\ Len(f) = n /\ \A j \in 1 .. n : f[j] = all[j]
      BY <1>1, <3>1
    <3>3. Front(all) = f
      BY <1>1, <3>1 DEF Front
    <3> HIDE DEF f
    <3>4. f = s.tabs
      <4> DEFINE t == s.tabs
      <4>1. t \in Seq(TabSet) /\ Len(t) = n /\ \A j \in 1 .. n : f[j] = t[j]
        BY <1>1, <3>1, <3>2
      <4> HIDE DEF t, n
      <4>2. f = t
        BY <3>2, <4>1
      <4>3. QED
        BY <4>2 DEF t
    <3>5. QED
      BY <3>1, <3>3, <3>4 DEF Last
  <2>3. b = a
    <3> HIDE DEF at, n
    <3>1. at = n + 1 => s.active < at
      BY <1>1
    <3>2. QED
      BY <3>1
  <2> HIDE DEF all, e, at, b, a
  <2>4. pushed.tabs = all /\ pushed.active = s.active
    BY <1>1 DEF StripSet
  <2>5. [pushed EXCEPT !.tabs = InsertAt(s.tabs, at, e), !.active = b] = p
    BY <1>1, <2>3 DEF StripSet
  <2>6. Min({i, n + 1}) = at
    BY DEF at
  <2> HIDE DEF pushed, p
  <2>7. Len(pushed.tabs) = n + 1 /\ Front(pushed.tabs) = s.tabs /\ Last(pushed.tabs) = e
    BY <2>2, <2>4
  <2>8. OpenedAt(s, i) = SetActive([pushed EXCEPT !.tabs = InsertAt(s.tabs, at, e), !.active = b], at)
    BY <2>1, <2>4, <2>6, <2>7 DEF OpenedAt, b
  <2>9. QED
    BY <2>5, <2>8
<1>5. HasTab(s, at, a, s.shown, p)
  <2>1. GetsTab(s, at, a, s.shown, p)
    BY <1>1, <1>3 DEF GetsTab
  <2> HIDE DEF at, a, p
  <2>2. QED
    BY <2>1, WithTab
<1>6. a # at /\ at \in 1 .. Len(p.tabs)
  <2>1. Len(p.tabs) = n + 1
    BY <1>5 DEF HasTab
  <2> HIDE DEF p, at, n
  <2>2. QED
    BY <1>1, <1>3, <2>1
<1> HIDE DEF p, a
<1>7. Shows(s, p, at, r)
  <2> HIDE DEF at
  <2>1. QED
    BY <1>4, <1>5, <1>6, NewcomerShown
<1>8. Names(r.tabs) = Names(s.tabs) \cup {s.next} /\ r.tabs = InsertAt(s.tabs, at, e)
  BY <1>5, <1>7 DEF Shows, HasTab
<1>9. ASSUME i > PinnedCount(s), PinsFirst(s.tabs) PROVE PinsFirst(r.tabs)
  <2> DEFINE c == Cardinality({j \in 1 .. n : s.tabs[j].pinned})
  <2>1. c = PinnedCount(s)
    BY DEF PinnedCount, Positions
  <2>2. \A j \in 1 .. n : s.tabs[j].pinned <=> j <= c
    BY <1>1, <1>9, PinnedBlock
  <2>3. c \in Nat
    <3>1. IsFiniteSet(1 .. n)
      BY <1>1, FS_Interval
    <3>2. IsFiniteSet({j \in 1 .. n : s.tabs[j].pinned})
      BY <3>1, FS_Subset
    <3>3. QED
      BY <3>2, FS_CardinalityType
  <2> HIDE DEF c, e, at
  <2>4. \A j \in 1 .. n : j >= at => ~s.tabs[j].pinned
    <3>1. ASSUME NEW j \in 1 .. n, j >= at PROVE ~(j <= c)
      BY <1>1, <1>3, <1>9, <2>1, <2>3, <3>1
    <3>2. QED
      BY <2>2, <3>1
  <2>5. PinsFirst(InsertAt(s.tabs, at, e))
    BY <1>1, <1>2, <1>3, <1>9, <2>4, InsertPins
  <2>6. QED
    BY <1>8, <2>5
<1>10. \A j \in 1 .. Len(r.tabs) : r.tabs[j] = e \/ \E k \in 1 .. n : r.tabs[j] = s.tabs[k]
  <2> DEFINE t == s.tabs
             u == InsertAt(t, at, e)
  <2>1. t \in Seq(TabSet) /\ at \in 1 .. Len(t) + 1 /\ e \in TabSet /\ n = Len(t) /\ n \in Nat
    BY <1>1, <1>2, <1>3
  <2>2. r.tabs = u
    BY <1>8
  <2> HIDE DEF t, at, e, n
  <2>3. /\ Len(u) = n + 1 /\ u[at] = e
        /\ \A j \in 1 .. n : j < at => u[j] = t[j]
        /\ \A j \in 1 .. n : j >= at => u[j + 1] = t[j]
    <3>1. t \in Seq(TabSet) /\ at \in 1 .. Len(t) + 1 /\ e \in TabSet
      BY <2>1
    <3>2. Into(u, t, at, e)
      BY <3>1, TabInserted DEF u
    <3>3. QED
      BY <2>1, <3>2 DEF Into
  <2> HIDE DEF u
  <2>4. ASSUME NEW j \in 1 .. n + 1 PROVE u[j] = e \/ \E k \in 1 .. n : u[j] = t[k]
    <3>1. at \in 1 .. n + 1
      BY <2>1
    <3>2. CASE j = at
      BY <2>3, <3>2
    <3>3. CASE j < at
      <4>1. j \in 1 .. n
        BY <2>1, <3>1, <3>3
      <4>2. QED
        BY <2>3, <3>3, <4>1
    <3>4. CASE j > at
      <4>1. j - 1 \in 1 .. n /\ j - 1 >= at /\ (j - 1) + 1 = j
        BY <2>1, <3>1, <3>4
      <4>2. QED
        BY <2>3, <4>1
    <3>5. QED
      BY <2>1, <3>1, <3>2, <3>3, <3>4
  <2>5. QED
    BY <2>2, <2>3, <2>4 DEF t
<1>11. ActiveId(r) # {}
  BY <1>7 DEF Shows
<1>12. OneMore(s, r)
  <2>1. r.next = s.next + 1
    BY <1>5, <1>7 DEF Shows, HasTab
  <2>2. QED
    BY <1>10, <2>1 DEF OneMore
<1>13. QED
  BY <1>7, <1>8, <1>9, <1>11, <1>12 DEF Shows, KeepsPins

-----------------------------------------------------------------------------
(* Sorting the pinned tabs to the front.                                   *)

\* What the order goes by: of two tabs alike the earlier one, else the pinned.
Ahead(t, i, j) == IF t[i].pinned = t[j].pinned THEN i < j ELSE t[i].pinned

LEMMA AheadIsAnOrder ==
  ASSUME NEW t \in Seq(TabSet), NEW i \in 1 .. Len(t), NEW j \in 1 .. Len(t)
  PROVE  /\ i = j \/ Ahead(t, i, j) \/ Ahead(t, j, i)
         /\ ~(Ahead(t, i, j) /\ Ahead(t, j, i)) /\ ~Ahead(t, i, i)
         /\ \A k \in 1 .. Len(t) : Ahead(t, i, j) /\ Ahead(t, j, k) => Ahead(t, i, k)
<1> DEFINE P == {h \in 1 .. Len(t) : t[h].pinned}
<1>1. ASSUME NEW h \in 1 .. Len(t), NEW k \in 1 .. Len(t)
      PROVE  Ahead(t, h, k) <=> IF h \in P <=> k \in P THEN h < k ELSE h \in P
  <2>1. t[h] \in TabSet /\ t[k] \in TabSet
    BY AtPlace
  <2>2. t[h].pinned \in BOOLEAN /\ t[k].pinned \in BOOLEAN
    BY <2>1 DEF TabSet
  <2>3. (h \in P <=> t[h].pinned) /\ (k \in P <=> t[k].pinned)
    OBVIOUS
  <2> HIDE DEF P
  <2>4. (t[h].pinned = t[k].pinned) <=> (h \in P <=> k \in P)
    BY <2>2, <2>3
  <2>5. QED
    BY <2>3, <2>4 DEF Ahead
<1>2. i \in Nat /\ j \in Nat /\ Len(t) \in Nat
  OBVIOUS
<1> HIDE DEF P
<1>3. ASSUME NEW k \in 1 .. Len(t), Ahead(t, i, j), Ahead(t, j, k) PROVE Ahead(t, i, k)
  <2>1. k \in Nat
    OBVIOUS
  <2>2. QED
    BY <1>1, <1>2, <1>3, <2>1
<1>4. QED
  BY <1>1, <1>2, <1>3

\* Every tab has a place of its own, and every place has a tab.
LEMMA PlacesAreOnes ==
  ASSUME NEW s, s.tabs \in Seq(TabSet)
  PROVE  /\ \A i \in 1 .. Len(s.tabs) : PlaceOf(s, i) \in 1 .. Len(s.tabs)
         /\ \A i, j \in 1 .. Len(s.tabs) : Ahead(s.tabs, i, j) => PlaceOf(s, i) < PlaceOf(s, j)
         /\ \A i, j \in 1 .. Len(s.tabs) : PlaceOf(s, i) = PlaceOf(s, j) => i = j
         /\ \A k \in 1 .. Len(s.tabs) : \E i \in 1 .. Len(s.tabs) : PlaceOf(s, i) = k
<1> DEFINE n == Len(s.tabs)
           t == s.tabs
           D(i) == {j \in 1 .. n : IF t[j].pinned = t[i].pinned THEN j <= i ELSE t[j].pinned}
<1>1. n \in Nat
  OBVIOUS
<1>2. ASSUME NEW i \in 1 .. n, NEW j \in 1 .. n PROVE j \in D(i) <=> j = i \/ Ahead(t, j, i)
  <2>1. i \in Nat /\ j \in Nat
    OBVIOUS
  <2>2. j <= i <=> j = i \/ j < i
    BY <2>1
  <2>3. j = i => t[j].pinned = t[i].pinned
    OBVIOUS
  <2>4. QED
    BY <2>2, <2>3 DEF Ahead
<1>3. ASSUME NEW i \in 1 .. n
      PROVE  IsFiniteSet(D(i)) /\ PlaceOf(s, i) = Cardinality(D(i)) /\ PlaceOf(s, i) \in 1 .. n
  <2>1. IsFiniteSet(1 .. n) /\ Cardinality(1 .. n) = n
    <3>1. n \in Int /\ 1 \in Int /\ (IF 1 > n THEN 0 ELSE n - 1 + 1) = n
      BY <1>1
    <3>2. QED
      BY <3>1, FS_Interval
  <2>2. D(i) \in SUBSET (1 .. n) /\ i \in D(i)
    BY <1>2
  <2>3. PlaceOf(s, i) = Cardinality(D(i))
    BY DEF PlaceOf, Positions
  <2> HIDE DEF D, n
  <2>4. IsFiniteSet(D(i)) /\ Cardinality(D(i)) <= n
    BY <2>1, <2>2, FS_Subset
  <2>5. Cardinality(D(i)) \in Nat /\ Cardinality(D(i)) # 0
    <3>1. Cardinality(D(i)) \in Nat
      BY <2>4, FS_CardinalityType
    <3>2. Cardinality(D(i)) = 0 <=> D(i) = {}
      BY <2>4, FS_EmptySet
    <3>3. QED
      BY <2>2, <3>1, <3>2
  <2>6. QED
    BY <1>1, <2>3, <2>4, <2>5
<1> HIDE DEF D
<1>4. ASSUME NEW i \in 1 .. n, NEW j \in 1 .. n, Ahead(t, i, j) PROVE PlaceOf(s, i) < PlaceOf(s, j)
  <2>1. D(i) \in SUBSET D(j)
    <3>1. \A k \in D(i) : k \in 1 .. n
      BY DEF D
    <3>2. ASSUME NEW k \in 1 .. n, k \in D(i) PROVE k \in D(j)
      <4>1. k = i \/ Ahead(t, k, i)
        BY <1>2, <3>2
      <4>2. Ahead(t, k, j)
        BY <1>4, <4>1, AheadIsAnOrder
      <4>3. QED
        BY <1>2, <4>2
    <3>3. QED
      BY <3>1, <3>2
  <2>2. j \in D(j) /\ j \notin D(i)
    <3>1. j \in D(j)
      BY <1>2
    <3>2. j # i /\ ~Ahead(t, j, i)
      BY <1>4, AheadIsAnOrder
    <3>3. QED
      BY <1>2, <3>1, <3>2
  <2>3. IsFiniteSet(D(i)) /\ IsFiniteSet(D(j))
    BY <1>3
  <2>4. Cardinality(D(i)) <= Cardinality(D(j)) /\ Cardinality(D(i)) # Cardinality(D(j))
    BY <2>1, <2>2, <2>3, FS_Subset
  <2>5. Cardinality(D(i)) \in Nat /\ Cardinality(D(j)) \in Nat
    BY <2>3, FS_CardinalityType
  <2>6. PlaceOf(s, i) = Cardinality(D(i)) /\ PlaceOf(s, j) = Cardinality(D(j))
    BY <1>3
  <2>7. QED
    BY <2>4, <2>5, <2>6
<1>5. ASSUME NEW i \in 1 .. n, NEW j \in 1 .. n, PlaceOf(s, i) = PlaceOf(s, j) PROVE i = j
  <2>1. PlaceOf(s, i) \in 1 .. n
    BY <1>3
  <2>2. ~(PlaceOf(s, i) < PlaceOf(s, j)) /\ ~(PlaceOf(s, j) < PlaceOf(s, i))
    BY <1>5, <2>1
  <2>3. QED
    BY <1>4, <2>2, AheadIsAnOrder
<1>6. ASSUME NEW k \in 1 .. n PROVE \E i \in 1 .. n : PlaceOf(s, i) = k
  <2> DEFINE f == [i \in 1 .. n |-> PlaceOf(s, i)]
  <2>1. f \in [1 .. n -> 1 .. n] /\ \A i \in 1 .. n : f[i] = PlaceOf(s, i)
    BY <1>3
  <2> HIDE DEF f
  <2>2. \A i, j \in 1 .. n : f[i] = f[j] => i = j
    BY <1>5, <2>1
  <2>3. f \in Injection(1 .. n, 1 .. n)
    BY <2>1, <2>2 DEF Injection, IsInjective
  <2>4. IsFiniteSet(1 .. n)
    BY <1>1, FS_Interval
  <2>5. f \in Surjection(1 .. n, 1 .. n)
    BY <2>3, <2>4, FS_Injection
  <2>6. QED
    BY <2>1, <2>5 DEF Surjection
<1>7. QED
  BY <1>3, <1>4, <1>5, <1>6 DEF n

\* enforce_pinned_ordering: the same tabs, the pinned ones first, and the
\* active one followed.
LEMMA PartitionedIs ==
  ASSUME NEW s, Fair(s), NEW r, r = Partitioned(s)
  PROVE  /\ Fair(r) /\ r.active \in 0 .. Len(r.tabs) /\ ActiveId(r) = ActiveId(s)
         /\ Names(r.tabs) = Names(s.tabs) /\ PinsFirst(r.tabs)
         /\ r.stack = s.stack /\ r.shown = s.shown /\ r.next = s.next
<1> DEFINE n == Len(s.tabs)
           t == s.tabs
           P == [k \in 1 .. n |-> CHOOSE i \in 1 .. n : PlaceOf(s, i) = k]
           u == [k \in 1 .. n |-> t[CHOOSE i \in 1 .. n : PlaceOf(s, i) = k]]
<1>1. /\ s \in StripSet /\ t \in Seq(TabSet) /\ n \in Nat /\ Distinct(t) /\ t = s.tabs /\ n = Len(t)
      /\ s.shown \in SUBSET Nat /\ s.next \in Nat /\ s.stack \in Seq(EntrySet)
  BY DEF Fair, StripSet
<1>2. ASSUME NEW k \in 1 .. n PROVE P[k] \in 1 .. n /\ PlaceOf(s, P[k]) = k /\ u[k] = t[P[k]]
  <2>1. \E i \in 1 .. n : PlaceOf(s, i) = k
    BY <1>1, PlacesAreOnes
  <2>2. QED
    BY <2>1
<1>3. ASSUME NEW i \in 1 .. n PROVE PlaceOf(s, i) \in 1 .. n /\ P[PlaceOf(s, i)] = i
  <2>1. PlaceOf(s, i) \in 1 .. n
    BY <1>1, PlacesAreOnes
  <2> HIDE DEF P
  <2>2. PlaceOf(s, P[PlaceOf(s, i)]) = PlaceOf(s, i) /\ P[PlaceOf(s, i)] \in 1 .. n
    BY <1>2, <2>1
  <2>3. QED
    BY <1>1, <2>1, <2>2, PlacesAreOnes
<1>4. u \in Seq(TabSet) /\ Len(u) = n
  <2>1. \A k \in 1 .. n : u[k] \in TabSet
    BY <1>1, <1>2, AtPlace
  <2>2. u \in [1 .. n -> TabSet]
    BY <2>1
  <2> HIDE DEF u
  <2>3. QED
    BY <1>1, <2>2, SeqDef, LenProperties
<1> DEFINE a == ActiveAfterSort(s, u)
<1>5. r = [s EXCEPT !.tabs = u, !.active = a]
  BY DEF Partitioned, Positions
<1> HIDE DEF P, u, a, t, n
<1>6. Names(u) = Names(t)
  <2>1. ASSUME NEW x \in Names(u) PROVE x \in Names(t)
    <3>1. PICK k \in 1 .. n : x = u[k].id
      BY <1>4, NamesAre
    <3>2. P[k] \in 1 .. n /\ x = t[P[k]].id
      BY <1>2, <3>1
    <3>3. QED
      BY <1>1, <3>2, NamesAre
  <2>2. ASSUME NEW x \in Names(t) PROVE x \in Names(u)
    <3>1. PICK i \in 1 .. n : x = t[i].id
      BY <1>1, NamesAre
    <3>2. PlaceOf(s, i) \in 1 .. n /\ u[PlaceOf(s, i)] = t[i]
      BY <1>2, <1>3
    <3>3. QED
      BY <1>4, <3>1, <3>2, NamesAre
  <2>3. QED
    BY <2>1, <2>2
<1>7. Distinct(u)
  <2>1. ASSUME NEW k \in 1 .. n, NEW l \in 1 .. n, u[k].id = u[l].id PROVE k = l
    <3>1. P[k] \in 1 .. n /\ P[l] \in 1 .. n /\ t[P[k]].id = t[P[l]].id
      BY <1>2, <2>1
    <3>2. P[k] = P[l]
      BY <1>1, <3>1 DEF Distinct
    <3>3. QED
      BY <1>2, <3>2
  <2>2. QED
    BY <1>4, <2>1 DEF Distinct
<1>8. PinsFirst(u)
  <2>1. ASSUME NEW k \in 1 .. n, NEW l \in 1 .. n, k < l, u[l].pinned PROVE u[k].pinned
    <3>1. /\ P[k] \in 1 .. n /\ P[l] \in 1 .. n /\ u[k] = t[P[k]] /\ u[l] = t[P[l]]
          /\ PlaceOf(s, P[k]) = k /\ PlaceOf(s, P[l]) = l
      BY <1>2
    <3>2. ~(PlaceOf(s, P[l]) < PlaceOf(s, P[k])) /\ P[k] # P[l]
      BY <2>1, <3>1
    <3>3. ~Ahead(t, P[l], P[k])
      BY <1>1, <3>1, <3>2, PlacesAreOnes
    <3>4. Ahead(t, P[k], P[l])
      BY <1>1, <3>1, <3>2, <3>3, AheadIsAnOrder
    <3>5. t[P[l]].pinned
      BY <2>1, <3>1
    <3>6. t[P[k]].pinned
      <4>1. t[P[k]] \in TabSet /\ t[P[l]] \in TabSet
        BY <1>1, <3>1, AtPlace
      <4>2. t[P[k]].pinned \in BOOLEAN /\ t[P[l]].pinned \in BOOLEAN
        BY <4>1 DEF TabSet
      <4>3. QED
        BY <3>4, <3>5, <4>2 DEF Ahead
    <3>7. QED
      BY <3>1, <3>6
  <2>2. QED
    BY <1>4, <2>1 DEF PinsFirst
<1>9. a \in 0 .. n /\ (ActiveId(s) = {} => a = 0) /\ (ActiveId(s) # {} => a \in 1 .. n /\ u[a].id \in ActiveId(s))
  <2>1. CASE ActiveId(s) = {}
    BY <1>1, <2>1 DEF a, ActiveAfterSort
  <2>2. CASE ActiveId(s) # {}
    <3>1. DOMAIN u = 1 .. n
      BY <1>4
    <3>2. a = CHOOSE i \in 1 .. n : u[i].id \in ActiveId(s)
      BY <2>2, <3>1 DEF a, ActiveAfterSort
    <3>3. s.active \in 1 .. n /\ ActiveId(s) = {t[s.active].id}
      BY <1>1, <2>2, ActiveIs
    <3>4. \E i \in 1 .. n : u[i].id \in ActiveId(s)
      <4>1. t[s.active].id \in Names(u)
        BY <1>1, <1>6, <3>3, NamesAre
      <4>2. PICK i \in 1 .. n : t[s.active].id = u[i].id
        BY <1>4, <4>1, NamesAre
      <4>3. QED
        BY <3>3, <4>2
    <3>5. QED
      BY <1>1, <2>2, <3>2, <3>4
  <2>3. QED
    BY <2>1, <2>2
<1>10. /\ r \in StripSet /\ r.tabs = u /\ r.active = a /\ r.stack = s.stack /\ r.shown = s.shown
       /\ r.next = s.next
  <2>1. a \in Nat
    BY <1>1, <1>9
  <2>2. QED
    BY <1>1, <1>4, <1>5, <2>1 DEF StripSet
<1>11. ActiveId(r) = ActiveId(s)
  <2>1. CASE ActiveId(s) = {}
    <3>1. r.active \notin 1 .. Len(r.tabs)
      BY <1>1, <1>4, <1>9, <1>10, <2>1
    <3>2. QED
      BY <2>1, <3>1, ActiveIs
  <2>2. CASE ActiveId(s) # {}
    <3>1. ActiveId(r) = {u[a].id}
      BY <1>4, <1>9, <1>10, <2>2, ActiveIs
    <3>2. ActiveId(s) = {t[s.active].id}
      BY <1>1, <2>2, ActiveIs
    <3>3. QED
      BY <1>9, <2>2, <3>1, <3>2
  <2>3. QED
    BY <2>1, <2>2
<1>12. Fair(r)
  <2>1. Names(r.tabs) = Names(s.tabs)
    BY <1>1, <1>6, <1>10
  <2>2. QED
    BY <1>7, <1>10, <2>1 DEF Fair
<1>13. QED
  BY <1>1, <1>4, <1>6, <1>8, <1>9, <1>10, <1>11, <1>12

\* toggle_pin.
LEMMA WithPinIs ==
  ASSUME NEW s, Good(s), NEW i \in 1 .. Len(s.tabs), NEW pinned \in BOOLEAN, NEW r, r = WithPin(s, i, pinned)
  PROVE  /\ Good(r) /\ Keeps(s, r) /\ Names(r.tabs) = Names(s.tabs)
         /\ ActiveId(r) = ActiveId(s)
<1> DEFINE n == Len(s.tabs)
           t == s.tabs
           u == [t EXCEPT ![i].pinned = pinned]
           p == [s EXCEPT !.tabs = u]
<1>1. /\ s \in StripSet /\ Fair(s) /\ t \in Seq(TabSet) /\ n \in Nat /\ t = s.tabs /\ n = Len(t) /\ i \in 1 .. n
      /\ s.shown \in SUBSET Nat /\ s.next \in Nat /\ s.stack \in Seq(EntrySet) /\ s.active \in Nat
      /\ s.active \in 0 .. n
  BY DEF Good, Fair, StripSet
<1>2. t[i] \in TabSet
  BY AtPlace, <1>1
<1>3. /\ u \in Seq(TabSet) /\ Len(u) = n
      /\ \A j \in 1 .. n : u[j].id = t[j].id
  <2> DEFINE e == [t[i] EXCEPT !.pinned = pinned]
  <2>1. e \in TabSet /\ e.id = t[i].id
    BY <1>2 DEF TabSet
  <2>2. u = [t EXCEPT ![i] = e]
    OBVIOUS
  <2> HIDE DEF e, u, t
  <2>3. u \in Seq(TabSet) /\ Len(u) = n /\ \A j \in 1 .. n : u[j] = IF j = i THEN e ELSE t[j]
    <3>1. t \in [1 .. n -> TabSet]
      BY <1>1, LenProperties
    <3>2. u \in [1 .. n -> TabSet] /\ \A j \in 1 .. n : u[j] = IF j = i THEN e ELSE t[j]
      BY <1>1, <2>1, <2>2, <3>1
    <3>3. u \in Seq(TabSet)
      <4>1. n \in Nat /\ u \in [1 .. n -> TabSet]
        BY <1>1, <3>2
      <4>2. QED
        BY <4>1, SeqDef
    <3>4. Len(u) = n
      BY <1>1, <3>2, <3>3, LenProperties
    <3>5. QED
      BY <3>2, <3>3, <3>4
  <2>4. QED
    BY <2>1, <2>3
<1>4. r = Partitioned(p)
  BY DEF WithPin
<1> HIDE DEF u
<1>5. /\ p \in StripSet /\ p.tabs = u /\ p.stack = s.stack /\ p.shown = s.shown /\ p.next = s.next
      /\ p.active = s.active
  BY <1>1, <1>3 DEF StripSet
<1> HIDE DEF p, t, n
<1>6. Names(u) = Names(t) /\ Distinct(u)
  <2>1. ASSUME NEW x \in Names(u) PROVE x \in Names(t)
    <3>1. PICK j \in 1 .. n : x = u[j].id
      BY <1>3, NamesAre
    <3>2. QED
      BY <1>1, <1>3, <3>1, NamesAre
  <2>2. ASSUME NEW x \in Names(t) PROVE x \in Names(u)
    <3>1. PICK j \in 1 .. n : x = t[j].id
      BY <1>1, NamesAre
    <3>2. QED
      BY <1>3, <3>1, NamesAre
  <2>3. Distinct(u)
    BY <1>1, <1>3 DEF Distinct, Fair
  <2>4. QED
    BY <2>1, <2>2, <2>3
<1>7. Fair(p)
  BY <1>1, <1>5, <1>6 DEF Fair
<1>8. ActiveId(p) = ActiveId(s)
  <2>1. CASE s.active \in 1 .. n
    BY <1>1, <1>3, <1>5, <2>1, ActiveIs
  <2>2. CASE s.active \notin 1 .. n
    BY <1>1, <1>3, <1>5, <2>2, ActiveIs
  <2>3. QED
    BY <2>1, <2>2
<1>9. /\ Fair(r) /\ r.active \in 0 .. Len(r.tabs) /\ ActiveId(r) = ActiveId(s)
      /\ Names(r.tabs) = Names(s.tabs) /\ PinsFirst(r.tabs) /\ r.shown = s.shown
  BY <1>1, <1>4, <1>5, <1>6, <1>7, <1>8, PartitionedIs
<1>10. Good(r)
  BY <1>9 DEF Good
<1>11. Keeps(s, r)
  BY <1>9 DEF Keeps, KeepsForeground, HidesComers, KeepsPins, ForegroundIsActive
<1>12. QED
  BY <1>9, <1>10, <1>11

\* How many tabs are pinned.
LEMMA PinsCounted ==
  ASSUME NEW s, s.tabs \in Seq(TabSet)
  PROVE  /\ PinnedCount(s) = Cardinality({j \in 1 .. Len(s.tabs) : s.tabs[j].pinned})
         /\ PinnedCount(s) \in Nat /\ PinnedCount(s) <= Len(s.tabs)
         /\ \A i \in 1 .. Len(s.tabs) : ~s.tabs[i].pinned => PinnedCount(s) <= Len(s.tabs) - 1
<1> DEFINE n == Len(s.tabs)
           P == {j \in 1 .. n : s.tabs[j].pinned}
<1>1. n \in Nat
  OBVIOUS
<1>2. IsFiniteSet(1 .. n) /\ Cardinality(1 .. n) = n
  <2>1. n \in Int /\ 1 \in Int /\ (IF 1 > n THEN 0 ELSE n - 1 + 1) = n
    BY <1>1
  <2>2. QED
    BY <2>1, FS_Interval
<1>3. P \in SUBSET (1 .. n) /\ PinnedCount(s) = Cardinality(P)
  BY DEF PinnedCount, Positions
<1>4. ASSUME NEW i \in 1 .. n, ~s.tabs[i].pinned PROVE P \in SUBSET ((1 .. n) \ {i})
  BY <1>4
<1> HIDE DEF P
<1>5. IsFiniteSet(P) /\ Cardinality(P) <= n
  BY <1>2, <1>3, FS_Subset
<1>6. Cardinality(P) \in Nat
  BY <1>5, FS_CardinalityType
<1>7. ASSUME NEW i \in 1 .. n, ~s.tabs[i].pinned PROVE Cardinality(P) <= n - 1
  <2>1. IsFiniteSet((1 .. n) \ {i}) /\ Cardinality((1 .. n) \ {i}) = n - 1
    BY <1>2, FS_RemoveElement
  <2>2. P \in SUBSET ((1 .. n) \ {i})
    BY <1>4, <1>7
  <2>3. QED
    BY <2>1, <2>2, FS_Subset
<1>8. QED
  BY <1>3, <1>5, <1>6, <1>7 DEF P

\* Where a move ends: among the tabs of the same kind.
MoveEnd(n, k, target, pinned) ==
  Min({Max({target, IF pinned THEN 1 ELSE k + 1}), IF pinned THEN Max({1, k}) ELSE n})

LEMMA MoveEnds ==
  ASSUME NEW n \in Nat, NEW k \in Nat, NEW target \in Nat, NEW pinned \in BOOLEAN, n # 0, k <= n,
         ~pinned => k <= n - 1, NEW to, to = MoveEnd(n, k, target, pinned)
  PROVE  /\ to \in 1 .. n
         /\ pinned /\ k # 0 => to <= k
         /\ ~pinned => to >= k + 1
<1> DEFINE lo == IF pinned THEN 1 ELSE k + 1
           hi == IF pinned THEN Max({1, k}) ELSE n
           m == Max({target, lo})
<1>1. lo \in Nat /\ lo >= 1 /\ (~pinned => lo = k + 1)
  OBVIOUS
<1>2. hi \in Nat /\ hi <= n /\ hi >= lo /\ (pinned /\ k # 0 => hi <= k)
  <2>1. CASE pinned
    <3>1. Max({1, k}) \in Nat /\ Max({1, k}) \in {1, k} /\ Max({1, k}) >= 1 /\ Max({1, k}) >= k
      BY MaxOfTwo
    <3>2. hi = Max({1, k}) /\ lo = 1
      BY <2>1
    <3> HIDE DEF hi, lo
    <3>3. hi \in Nat /\ hi \in {1, k} /\ hi >= 1
      BY <3>1, <3>2
    <3>4. QED
      BY <3>2, <3>3
  <2>2. CASE ~pinned
    BY <2>2
  <2>3. QED
    BY <2>1, <2>2
<1> HIDE DEF lo, hi
<1>3. m \in Nat /\ m >= lo
  BY <1>1, MaxOfTwo
<1>4. to = Min({m, hi})
  BY DEF MoveEnd, lo, hi
<1> HIDE DEF m
<1>5. to \in Nat /\ to \in {m, hi} /\ to <= hi
  BY <1>2, <1>3, <1>4, MinOfTwo
<1>6. to >= lo
  BY <1>1, <1>2, <1>3, <1>5
<1>7. QED
  BY <1>1, <1>2, <1>5, <1>6

\* move_tab.
LEMMA MovedIs ==
  ASSUME NEW s, Good(s), NEW from \in Nat, NEW target \in Nat, NEW r, r = Moved(s, from, target)
  PROVE  /\ Good(r) /\ Keeps(s, r) /\ Names(r.tabs) = Names(s.tabs)
         /\ SameTabs(s, r) /\ (s.active # 0 => r.active # 0)
<1> DEFINE n == Len(s.tabs)
           t == s.tabs
           k == PinnedCount(s)
           to == Min({Max({target, IF t[from].pinned THEN 1 ELSE k + 1}),
                      IF t[from].pinned THEN Max({1, k}) ELSE n})
           w == RemoveAt(t, from)
           u == InsertAt(w, to, t[from])
           a == IF s.active = 0 THEN 0 ELSE ShiftedByMove(s.active, from, to)
<1>1. /\ s \in StripSet /\ Fair(s) /\ t \in Seq(TabSet) /\ n \in Nat /\ t = s.tabs /\ n = Len(t)
      /\ s.shown \in SUBSET Nat /\ s.next \in Nat /\ s.stack \in Seq(EntrySet) /\ s.active \in Nat
      /\ s.active \in 0 .. n /\ Distinct(t)
  BY DEF Good, Fair, StripSet
<1>2. CASE r = s
  BY <1>2 DEF Keeps, KeepsForeground, HidesComers, KeepsPins, SameTabs
<1>3. CASE r # s
  <2>1. from \in 1 .. n /\ r = [s EXCEPT !.tabs = u, !.active = a]
    BY <1>3 DEF Moved, Positions
  <2>2. t[from] \in TabSet /\ t[from].pinned \in BOOLEAN
    <3>1. t[from] \in TabSet
      BY <1>1, <2>1, AtPlace
    <3>2. QED
      BY <3>1 DEF TabSet
  <2>3. /\ k = Cardinality({j \in 1 .. n : t[j].pinned})
        /\ k \in Nat /\ k <= n /\ (~t[from].pinned => k <= n - 1)
    BY <1>1, <2>1, PinsCounted
  <2>4. /\ to \in 1 .. n
        /\ t[from].pinned /\ k # 0 => to <= k
        /\ ~t[from].pinned => to >= k + 1
    <3> DEFINE e == t[from].pinned
    <3>1. e \in BOOLEAN /\ (~e => k <= n - 1) /\ n # 0
      BY <1>1, <2>1, <2>2, <2>3
    <3>2. to = MoveEnd(n, k, target, e)
      BY DEF MoveEnd
    <3> HIDE DEF e, k, n, to
    <3>3. to \in 1 .. n /\ (e /\ k # 0 => to <= k) /\ (~e => to >= k + 1)
      BY <1>1, <2>3, <3>1, <3>2, MoveEnds
    <3>4. QED
      BY <3>3 DEF e
  <2> HIDE DEF to, k
  <2>5. /\ w \in Seq(TabSet) /\ Len(w) = n - 1
        /\ \A j \in 1 .. n - 1 : j < from => w[j] = t[j]
        /\ \A j \in 1 .. n - 1 : j >= from => w[j] = t[j + 1]
        /\ Names(w) = Names(t) \ {t[from].id} /\ Distinct(w)
    <3>1. /\ w \in Seq(TabSet) /\ Len(w) = n - 1
          /\ \A j \in 1 .. n - 1 : j < from => w[j] = t[j]
          /\ \A j \in 1 .. n - 1 : j >= from => w[j] = t[j + 1]
      BY <1>1, <2>1, Removed
    <3>2. Names(w) = Names(t) \ {t[from].id} /\ Distinct(w)
      BY <1>1, <2>1, RemoveNames
    <3>3. QED
      BY <3>1, <3>2
  <2>6. to \in 1 .. Len(w) + 1 /\ Len(w) = n - 1
    BY <1>1, <2>4, <2>5
  <2>7. PinsFirst(t) => PinsFirst(w)
    BY <1>1, <2>1, RemovePins
  <2> DEFINE e == t[from]
  <2>8. e \in TabSet /\ e.id = t[from].id
    BY <2>2
  <2> HIDE DEF e, w, n, t
  <2>9. u = InsertAt(w, to, e)
    BY DEF e
  <2>10. /\ InsertAt(w, to, e) \in Seq(TabSet) /\ Len(InsertAt(w, to, e)) = Len(w) + 1
         /\ InsertAt(w, to, e)[to] = e
         /\ \A j \in 1 .. Len(w) : j < to => InsertAt(w, to, e)[j] = w[j]
         /\ \A j \in 1 .. Len(w) : j >= to => InsertAt(w, to, e)[j + 1] = w[j]
    <3>1. w \in Seq(TabSet) /\ to \in 1 .. Len(w) + 1 /\ e \in TabSet
      BY <2>5, <2>6, <2>8
    <3>2. Into(InsertAt(w, to, e), w, to, e)
      BY <3>1, TabInserted
    <3>3. QED
      BY <3>2 DEF Into
  <2>11. Names(u) = Names(t) /\ Distinct(u)
    <3>1. e.id \notin Names(w) /\ e.id \in Names(t)
      BY <1>1, <2>1, <2>5, <2>8, NamesAre
    <3>2. Names(u) = Names(w) \cup {e.id} /\ Distinct(u)
      BY <2>5, <2>6, <2>8, <2>9, <3>1, InsertNames
    <3>3. QED
      BY <2>5, <2>8, <3>1, <3>2
  <2>12. ASSUME PinsFirst(t) PROVE PinsFirst(u)
    <3>1. \A j \in 1 .. n : t[j].pinned <=> j <= k
      BY <1>1, <2>3, <2>12, PinnedBlock
    <3>2. ASSUME e.pinned, NEW j \in 1 .. n - 1, j < to PROVE w[j].pinned
      <4>1. from <= k
        BY <2>1, <3>1, <3>2 DEF e
      <4>2. k # 0 /\ to <= k
        BY <2>1, <2>3, <2>4, <3>2, <4>1 DEF e
      <4>3. CASE j < from
        <5>1. j \in 1 .. n /\ j <= k
          BY <1>1, <2>1, <2>3, <4>1, <4>3
        <5>2. QED
          BY <2>5, <3>1, <4>3, <5>1
      <4>4. CASE ~(j < from)
        <5>1. j + 1 \in 1 .. n /\ j + 1 <= k /\ j >= from
          <6>1. n \in Nat /\ from \in 1 .. n /\ k \in Nat /\ to \in 1 .. n /\ to <= k /\ j \in 1 .. n - 1 /\ j < to
            BY <1>1, <2>1, <2>3, <2>4, <3>2, <4>2
          <6>2. QED
            BY <4>4, <6>1
        <5>2. QED
          BY <2>5, <3>1, <5>1
      <4>5. QED
        BY <4>3, <4>4
    <3>3. ASSUME ~e.pinned, NEW j \in 1 .. n - 1, j >= to PROVE ~w[j].pinned
      <4>1. to >= k + 1
        BY <2>4, <3>3 DEF e
      <4>2. CASE j < from
        <5>1. j \in 1 .. n /\ ~(j <= k)
          BY <1>1, <2>1, <2>3, <2>4, <3>3, <4>1, <4>2
        <5>2. QED
          BY <2>5, <3>1, <4>2, <5>1
      <4>3. CASE ~(j < from)
        <5>1. j + 1 \in 1 .. n /\ ~(j + 1 <= k) /\ j >= from
          <6>1. /\ n \in Nat /\ from \in 1 .. n /\ k \in Nat /\ to \in 1 .. n /\ to >= k + 1
                /\ j \in 1 .. n - 1 /\ j >= to
            BY <1>1, <2>1, <2>3, <2>4, <3>3, <4>1
          <6>2. QED
            BY <4>3, <6>1
        <5>2. QED
          BY <2>5, <3>1, <5>1
      <4>4. QED
        BY <4>2, <4>3
    <3>4. PinsFirst(InsertAt(w, to, e))
      <4>1. \A j \in 1 .. Len(w) : j \in 1 .. n - 1
        BY <2>6
      <4>2. e.pinned => \A j \in 1 .. Len(w) : j < to => w[j].pinned
        BY <3>2, <4>1
      <4>3. ~e.pinned => \A j \in 1 .. Len(w) : j >= to => ~w[j].pinned
        BY <3>3, <4>1
      <4>4. PinsFirst(w)
        BY <2>7, <2>12
      <4>5. QED
        BY <2>5, <2>6, <2>8, <4>2, <4>3, <4>4, InsertPins
    <3>5. QED
      BY <2>9, <3>4
  <2>13. u \in Seq(TabSet) /\ Len(u) = n
    <3>1. Len(w) + 1 = n
      BY <1>1, <2>6
    <3>2. QED
      BY <2>9, <2>10, <3>1
  <2>14. a \in 0 .. n /\ (s.active = 0 => a = 0) /\ (s.active # 0 => a \in 1 .. n /\ u[a] = t[s.active])
    <3>1. CASE s.active = 0
      BY <1>1, <3>1
    <3>2. CASE s.active # 0
      <4> DEFINE b == s.active
      <4>1. b \in 1 .. n /\ a = ShiftedByMove(b, from, to)
        BY <1>1, <3>2
      <4> HIDE DEF b, a, u
      <4>2. CASE b = from
        <5>1. a = to /\ a \in 1 .. n
          BY <2>4, <4>1, <4>2 DEF ShiftedByMove
        <5>2. u[to] = t[from]
          BY <2>9, <2>10 DEF e
        <5>3. a \in 0 .. n
          BY <1>1, <5>1
        <5>4. u[a] = t[s.active]
          BY <4>2, <5>1, <5>2 DEF b
        <5>5. QED
          BY <3>2, <5>1, <5>3, <5>4
      <4>3. CASE b > from
        <5>1. b - 1 \in 1 .. n - 1 /\ b - 1 >= from /\ (b - 1) + 1 = b
          BY <1>1, <2>1, <4>1, <4>3
        <5>2. w[b - 1] = t[b]
          <6>1. w[b - 1] = t[(b - 1) + 1]
            BY <2>5, <5>1
          <6>2. QED
            BY <5>1, <6>1
        <5>3. CASE to >= b
          <6>1. a = b - 1 /\ b - 1 < to /\ b - 1 \in 1 .. Len(w)
            BY <1>1, <2>1, <2>4, <2>6, <4>1, <4>3, <5>1, <5>3 DEF ShiftedByMove
          <6>2. u[b - 1] = w[b - 1]
            BY <2>9, <2>10, <6>1
          <6>3. QED
            BY <1>1, <3>2, <4>1, <5>1, <5>2, <6>1, <6>2 DEF b
        <5>4. CASE ~(to >= b)
          <6>1. a = b /\ b - 1 >= to /\ b - 1 \in 1 .. Len(w)
            BY <1>1, <2>1, <2>4, <2>6, <4>1, <4>3, <5>1, <5>4 DEF ShiftedByMove
          <6>2. u[(b - 1) + 1] = w[b - 1]
            BY <2>9, <2>10, <6>1
          <6>3. QED
            BY <1>1, <3>2, <4>1, <5>1, <5>2, <6>1, <6>2 DEF b
        <5>5. QED
          BY <5>3, <5>4
      <4>4. CASE b < from
        <5>1. b \in 1 .. n - 1 /\ b \in 1 .. Len(w)
          BY <1>1, <2>1, <2>6, <4>1, <4>4
        <5>2. w[b] = t[b]
          BY <2>5, <4>4, <5>1
        <5>3. CASE to <= b
          <6>1. a = b + 1 /\ b >= to /\ b + 1 \in 1 .. n
            BY <1>1, <2>1, <2>4, <2>6, <4>1, <4>4, <5>1, <5>3 DEF ShiftedByMove
          <6>2. u[b + 1] = w[b]
            BY <2>9, <2>10, <5>1, <6>1
          <6>3. QED
            BY <1>1, <3>2, <4>1, <5>1, <5>2, <6>1, <6>2 DEF b
        <5>4. CASE ~(to <= b)
          <6>1. a = b /\ b < to
            BY <1>1, <2>1, <2>4, <2>6, <4>1, <4>4, <5>1, <5>4 DEF ShiftedByMove
          <6>2. u[b] = w[b]
            BY <2>9, <2>10, <5>1, <6>1
          <6>3. QED
            BY <1>1, <3>2, <4>1, <5>1, <5>2, <6>1, <6>2 DEF b
        <5>5. QED
          BY <5>3, <5>4
      <4>5. QED
        BY <2>1, <4>1, <4>2, <4>3, <4>4, <3>2 DEF b
    <3>3. QED
      BY <3>1, <3>2
  <2> HIDE DEF u, a
  <2>15. /\ r \in StripSet /\ r.tabs = u /\ r.active = a /\ r.stack = s.stack /\ r.shown = s.shown
         /\ r.next = s.next
    <3>1. a \in Nat
      BY <1>1, <2>14
    <3>2. QED
      BY <1>1, <2>1, <2>13, <3>1 DEF StripSet
  <2>16. ActiveId(r) = ActiveId(s)
    <3>1. CASE s.active = 0
      <4>1. s.active \notin 1 .. Len(s.tabs) /\ r.active \notin 1 .. Len(r.tabs)
        BY <2>14, <2>15, <3>1
      <4>2. QED
        BY <4>1, ActiveIs
    <3>2. CASE s.active # 0
      <4>1. s.active \in 1 .. n /\ a \in 1 .. n /\ u[a] = t[s.active]
        BY <1>1, <2>14, <3>2
      <4>2. ActiveId(s) = {t[s.active].id}
        BY <1>1, <4>1, ActiveIs
      <4>3. ActiveId(r) = {u[a].id}
        BY <2>13, <2>15, <4>1, ActiveIs
      <4>4. QED
        BY <4>1, <4>2, <4>3
    <3>3. QED
      BY <3>1, <3>2
  <2>17. Fair(r) /\ Names(r.tabs) = Names(s.tabs)
    <3>1. Names(r.tabs) = Names(s.tabs) /\ Distinct(r.tabs)
      BY <1>1, <2>11, <2>15
    <3>2. QED
      BY <1>1, <2>15, <3>1 DEF Fair
  <2>18. Good(r)
    BY <2>13, <2>14, <2>15, <2>16, <2>17 DEF Good
  <2>19. Keeps(s, r)
    BY <1>1, <2>12, <2>15, <2>16, <2>17 DEF Keeps, KeepsForeground, HidesComers, KeepsPins,
       ForegroundIsActive
  <2>20. SameTabs(s, r)
    <3>1. ASSUME NEW j \in 1 .. n - 1 PROVE \E h \in 1 .. n : w[j] = t[h]
      <4>1. n \in Nat /\ j \in 1 .. n /\ j + 1 \in 1 .. n
        BY <1>1
      <4>2. CASE j < from
        BY <2>5, <4>1, <4>2
      <4>3. CASE ~(j < from)
        <5>1. j >= from
          BY <2>1, <4>1, <4>3
        <5>2. QED
          BY <2>5, <4>1, <5>1
      <4>4. QED
        BY <4>2, <4>3
    <3>2. ASSUME NEW j \in 1 .. n PROVE \E h \in 1 .. n : u[j] = t[h]
      <4>1. n \in Nat /\ to \in 1 .. n
        BY <1>1, <2>4
      <4>2. CASE j = to
        BY <2>1, <2>9, <2>10, <4>2 DEF e
      <4>3. CASE j < to
        <5>1. j \in 1 .. n - 1
          BY <4>1, <4>3
        <5>2. u[j] = w[j]
          BY <2>6, <2>9, <2>10, <4>3, <5>1
        <5>3. QED
          BY <3>1, <5>1, <5>2
      <4>4. CASE j > to
        <5>1. j - 1 \in 1 .. n - 1 /\ j - 1 >= to /\ (j - 1) + 1 = j
          BY <4>1, <4>4
        <5>2. u[j] = w[j - 1]
          BY <2>6, <2>9, <2>10, <5>1
        <5>3. QED
          BY <3>1, <5>1, <5>2
      <4>5. QED
        BY <4>1, <4>2, <4>3, <4>4
    <3>3. r.tabs = u /\ Len(u) = n /\ t = s.tabs /\ n = Len(s.tabs)
      BY <1>1, <2>13, <2>15
    <3>4. QED
      BY <3>2, <3>3 DEF SameTabs
  <2>21. s.active # 0 => r.active # 0
    BY <1>1, <2>14, <2>15
  <2>22. QED
    BY <2>17, <2>18, <2>19, <2>20, <2>21
<1>4. QED
  BY <1>2, <1>3

-----------------------------------------------------------------------------
(* Closing.                                                                *)

\* What the stack of closed tabs holds after one more: no other tabs.
LEMMA StashedIs ==
  ASSUME NEW k \in Seq(EntrySet), NEW t \in TabSet, NEW i \in Nat \ {0}, Len(k) <= StackCap,
         StashDistinct(k), t.id \notin StashNames(k), NEW r, r = Stashed(k, t, i)
  PROVE  /\ r \in Seq(EntrySet) /\ Len(r) <= StackCap /\ StashDistinct(r)
         /\ StashNames(r) \subseteq StashNames(k) \cup {t.id}
<1> DEFINE e == [tab |-> t, at |-> i]
           all == Append(k, e)
           L == Len(k) + 1
           m == Min({L, StackCap})
           from == L - m + 1
<1>1. e \in EntrySet /\ e.tab = t
  BY DEF EntrySet
<1> HIDE DEF e
<1>2. Len(k) \in Nat /\ L \in Nat /\ StackCap \in Nat
  BY StackCapAssumption
<1>3. all \in Seq(EntrySet) /\ Len(all) = L /\ all[L] = e /\ \A j \in 1 .. Len(k) : all[j] = k[j]
  BY <1>1, AppendProperties
<1>4. m \in Nat /\ m <= L /\ m <= StackCap
  <2> HIDE DEF L
  <2>1. m \in Nat /\ m \in {L, StackCap} /\ m <= L /\ m <= StackCap
    BY <1>2, MinOfTwo
  <2>2. QED
    BY <2>1
<1>5. r = SubSeq(all, from, L)
  BY <1>3 DEF Stashed, e
<1> HIDE DEF all, m
<1>6. from \in Nat \ {0} /\ L <= Len(all) /\ from <= L + 1 /\ L - from + 1 = m
  BY <1>2, <1>3, <1>4
<1>7. r \in Seq(EntrySet) /\ Len(r) = m /\ \A j \in 1 .. m : r[j] = all[from + j - 1]
  <2> HIDE DEF from, L
  <2>1. /\ r \in Seq(EntrySet) /\ Len(r) = L - from + 1
        /\ \A j \in 1 .. L - from + 1 : r[j] = all[from + j - 1]
    BY <1>2, <1>3, <1>5, <1>6, PartOf
  <2>2. QED
    BY <1>6, <2>1
<1>8. \A x, y \in 1 .. L : all[x].tab.id = all[y].tab.id => x = y
  <2>1. ASSUME NEW x \in 1 .. L PROVE x = L \/ (x \in 1 .. Len(k) /\ all[x] = k[x] /\ all[x].tab.id # t.id)
    <3>1. x = L \/ x \in 1 .. Len(k)
      BY <1>2
    <3>2. ASSUME x \in 1 .. Len(k) PROVE k[x].tab.id # t.id
      BY <3>2 DEF StashNames
    <3>3. QED
      BY <1>3, <3>1, <3>2
  <2> HIDE DEF L
  <2>2. all[L].tab.id = t.id
    BY <1>1, <1>3
  <2>3. QED
    BY <2>1, <2>2 DEF StashDistinct
<1>9. \A x \in 1 .. L : all[x].tab.id \in StashNames(k) \cup {t.id}
  <2>1. ASSUME NEW x \in 1 .. L PROVE all[x].tab.id \in StashNames(k) \cup {t.id}
    <3>1. x = L \/ x \in 1 .. Len(k)
      BY <1>2
    <3>2. ASSUME x \in 1 .. Len(k) PROVE k[x].tab.id \in StashNames(k)
      BY <3>2 DEF StashNames
    <3>3. QED
      BY <1>1, <1>3, <3>1, <3>2
  <2>2. QED
    BY <2>1
<1>10. \A j \in 1 .. m : from + j - 1 \in 1 .. L
  BY <1>2, <1>4
<1> HIDE DEF from, L
<1>11. StashDistinct(r)
  <2>1. ASSUME NEW x \in 1 .. m, NEW y \in 1 .. m, r[x].tab.id = r[y].tab.id PROVE x = y
    <3>1. PICK g \in 1 .. L : g = from + x - 1
      BY <1>10
    <3>2. PICK h \in 1 .. L : h = from + y - 1
      BY <1>10
    <3>3. all[g].tab.id = all[h].tab.id
      <4>1. r[x] = all[g] /\ r[y] = all[h]
        BY <1>7, <3>1, <3>2
      <4>2. QED
        BY <2>1, <4>1
    <3>4. g = h
      BY <1>8, <3>3
    <3>5. QED
      BY <1>6, <3>1, <3>2, <3>4
  <2>2. QED
    BY <1>7, <2>1 DEF StashDistinct
<1>12. StashNames(r) \subseteq StashNames(k) \cup {t.id}
  <2>1. ASSUME NEW x \in 1 .. m PROVE r[x].tab.id \in StashNames(k) \cup {t.id}
    BY <1>7, <1>9, <1>10
  <2>2. ASSUME NEW y \in StashNames(r) PROVE y \in StashNames(k) \cup {t.id}
    <3>1. PICK x \in 1 .. m : y = r[x].tab.id
      BY <1>7 DEF StashNames
    <3>2. QED
      BY <2>1, <3>1
  <2>3. QED
    BY <2>2
<1>13. QED
  BY <1>4, <1>7, <1>11, <1>12

\* The other tabs stay as they were, and one of them is active if there is any.
OneLess(s, r) == SameTabs(s, r) /\ (Len(s.tabs) # 1 => r.active # 0) /\ r.next = s.next

\* close_index: the tab leaves the strip, for the stack or for good.
LEMMA ClosedIs ==
  ASSUME NEW s, Good(s), NEW i \in 1 .. Len(s.tabs), NEW blank \in BOOLEAN, NEW r, r = Closed(s, i, blank)
  PROVE  /\ Good(r) /\ Keeps(s, r) /\ Names(r.tabs) = Names(s.tabs) \ {s.tabs[i].id}
         /\ OneLess(s, r)
<1> DEFINE n == Len(s.tabs)
           t == s.tabs
           id == t[i].id
           u == RemoveAt(t, i)
           k == IF blank THEN s.stack ELSE Stashed(s.stack, t[i], i)
           rest == [s EXCEPT !.tabs = u, !.shown = s.shown \ {id}, !.stack = k]
           b == IF n = 1 THEN 0 ELSE ActiveAfterClose(s.active, i)
           q == [rest EXCEPT !.active = b]
<1>1. /\ s \in StripSet /\ Fair(s) /\ t \in Seq(TabSet) /\ n \in Nat /\ t = s.tabs /\ n = Len(t)
      /\ s.shown \in SUBSET Nat /\ s.next \in Nat /\ s.stack \in Seq(EntrySet) /\ s.active \in Nat
      /\ s.active \in 0 .. n /\ Distinct(t) /\ i \in 1 .. n /\ i \in Nat \ {0} /\ StackCap \in Nat
  BY StackCapAssumption DEF Good, Fair, StripSet
<1>2. t[i] \in TabSet /\ id \in Nat /\ id \in Names(t) /\ id = t[i].id
  <2>1. t[i] \in TabSet
    BY <1>1, AtPlace
  <2>2. QED
    BY <1>1, <2>1, NamesAre DEF TabSet
<1>3. /\ StashDistinct(s.stack) /\ Len(s.stack) <= StackCap
      /\ \A x \in Names(t) : x \notin StashNames(s.stack)
      /\ \A x \in Names(t) : x < s.next
      /\ \A x \in StashNames(s.stack) : x < s.next
      /\ s.shown \subseteq Names(t)
  BY <1>1 DEF Fair
<1>4. /\ k \in Seq(EntrySet) /\ Len(k) <= StackCap /\ StashDistinct(k)
      /\ StashNames(k) \subseteq StashNames(s.stack) \cup {id}
  <2>1. CASE blank
    BY <1>1, <1>3, <2>1
  <2>2. CASE ~blank
    <3>1. k = Stashed(s.stack, t[i], i)
      BY <2>2
    <3> HIDE DEF k, t, n
    <3>2. QED
      BY <1>1, <1>2, <1>3, <3>1, StashedIs
  <2>3. QED
    BY <2>1, <2>2
<1>5. /\ u \in Seq(TabSet) /\ Len(u) = n - 1
      /\ \A j \in 1 .. n - 1 : j < i => u[j] = t[j]
      /\ \A j \in 1 .. n - 1 : j >= i => u[j] = t[j + 1]
  BY <1>1, Removed
<1>6. Names(u) = Names(t) \ {id} /\ Distinct(u)
  BY <1>1, RemoveNames
<1>7. PinsFirst(t) => PinsFirst(u)
  BY <1>1, RemovePins
<1>8. b \in Nat /\ b \in 0 .. n
  BY <1>1 DEF ActiveAfterClose
<1> DEFINE shown == s.shown \ {id}
<1>22. r = IF Len(rest.tabs) = 0 THEN [rest EXCEPT !.active = 0]
           ELSE SetActive([rest EXCEPT !.active = ActiveAfterClose(rest.active, i)], Min({i, Len(rest.tabs)}))
  BY DEF Closed
<1> HIDE DEF u, k, t, n, b, id
<1>9. rest.tabs = u /\ rest.active = s.active
  BY <1>1 DEF StripSet
<1>10. /\ q \in StripSet /\ q.tabs = u /\ q.active = b /\ q.stack = k /\ q.shown = shown /\ q.next = s.next
  BY <1>1, <1>4, <1>5, <1>8 DEF StripSet
<1>11. r = IF n = 1 THEN q ELSE SetActive(q, Min({i, n - 1}))
  <2>1. Len(rest.tabs) = n - 1 /\ rest.active = s.active
    BY <1>5, <1>9
  <2> HIDE DEF rest
  <2>2. CASE n = 1
    BY <1>22, <2>1, <2>2 DEF b
  <2>3. CASE n # 1
    <3>1. n - 1 # 0
      BY <1>1, <2>3
    <3>2. QED
      BY <1>22, <2>1, <2>3, <3>1 DEF b
  <2>4. QED
    BY <2>2, <2>3
<1> HIDE DEF q, rest
<1>12. Fair(q)
  <2>1. \A x \in Names(u) : x \notin StashNames(k) /\ x < s.next
    BY <1>3, <1>4, <1>6
  <2>2. \A x \in StashNames(k) : x < s.next
    BY <1>2, <1>3, <1>4
  <2>3. shown \subseteq Names(u)
    BY <1>3, <1>6
  <2> HIDE DEF shown
  <2>4. QED
    BY <1>4, <1>6, <1>10, <2>1, <2>2, <2>3 DEF Fair
<1>13. KeepsForeground(s, q)
  <2>1. ASSUME ForegroundIsActive(s), NEW x \in q.shown PROVE x \in ActiveId(q)
    <3>1. x \in ActiveId(s) /\ x # id
      BY <1>10, <2>1 DEF ForegroundIsActive
    <3>2. s.active \in 1 .. n /\ x = t[s.active].id
      BY <1>1, <3>1, ActiveIs
    <3>3. s.active # i
      BY <1>2, <3>1, <3>2
    <3>4. n # 1
      <4>1. n \in Nat /\ i \in 1 .. n
        BY <1>1
      <4>2. QED
        BY <3>2, <3>3, <4>1
    <3>5. b \in 1 .. n - 1 /\ u[b] = t[s.active]
      <4>1. CASE i < s.active
        <5>1. b = s.active - 1 /\ b \in 1 .. n - 1 /\ b >= i /\ b + 1 = s.active
          <6>1. s.active \in 1 .. n /\ i \in 1 .. n /\ n \in Nat /\ i < s.active
            BY <1>1, <3>2, <4>1
          <6>2. b = s.active - 1
            BY <3>4, <6>1 DEF b, ActiveAfterClose
          <6> HIDE DEF b, n
          <6>3. QED
            BY <6>1, <6>2
        <5>2. u[b] = t[b + 1]
          BY <1>5, <5>1
        <5>3. QED
          BY <5>1, <5>2
      <4>2. CASE ~(i < s.active)
        <5>1. b = s.active /\ b \in 1 .. n - 1 /\ b < i
          BY <1>1, <3>2, <3>3, <3>4, <4>2 DEF b, ActiveAfterClose
        <5>2. QED
          BY <1>5, <5>1
      <4>3. QED
        BY <4>1, <4>2
    <3>6. ActiveId(q) = {u[b].id}
      BY <1>5, <1>10, <3>5, ActiveIs
    <3>7. QED
      BY <3>2, <3>5, <3>6
  <2>2. QED
    BY <2>1 DEF KeepsForeground, ForegroundIsActive
<1>14. Good(r) /\ r.tabs = u /\ KeepsForeground(q, r) /\ (n # 1 => r.active # 0) /\ r.next = s.next
  <2>1. CASE n = 1
    <3>1. r = q
      BY <1>11, <2>1
    <3>2. b = 0 /\ 0 \notin 1 .. Len(u)
      BY <2>1 DEF b
    <3>3. ActiveId(q) = {}
      BY <1>10, <3>2, ActiveIs
    <3>4. Good(q)
      <4>1. q.active \in 0 .. Len(q.tabs)
        BY <1>1, <1>5, <1>10, <3>2
      <4>2. QED
        BY <1>12, <3>3, <4>1 DEF Good
    <3>5. QED
      BY <1>10, <2>1, <3>1, <3>4 DEF KeepsForeground
  <2>2. CASE n # 1
    <3> DEFINE m == Min({i, n - 1})
    <3>1. r = SetActive(q, m)
      BY <1>11, <2>2
    <3>2. n - 1 \in Nat /\ n - 1 # 0
      BY <1>1, <2>2
    <3>3. m \in Nat /\ m \in {i, n - 1} /\ m <= i /\ m <= n - 1
      BY <1>1, <3>2, MinOfTwo
    <3> HIDE DEF m
    <3>4. m \in 1 .. Len(q.tabs)
      <4>1. n \in Nat /\ i \in 1 .. n
        BY <1>1
      <4>2. m \in 1 .. n - 1
        BY <3>2, <3>3, <4>1
      <4>3. Len(q.tabs) = n - 1
        BY <1>5, <1>10
      <4>4. QED
        BY <4>2, <4>3
    <3>5. QED
      BY <1>10, <1>12, <3>1, <3>4, SetActiveIs
  <2>3. QED
    BY <2>1, <2>2
<1>15. KeepsForeground(s, r)
  BY <1>13, <1>14 DEF KeepsForeground
<1>16. Names(r.tabs) = Names(s.tabs) \ {id}
  BY <1>1, <1>6, <1>14
<1>17. HidesComers(s, r)
  BY <1>16 DEF HidesComers
<1>18. KeepsPins(s, r)
  BY <1>1, <1>7, <1>14 DEF KeepsPins
<1>20. SameTabs(s, r)
  <2>1. ASSUME NEW j \in 1 .. n - 1 PROVE \E h \in 1 .. n : u[j] = t[h]
    <3>1. n \in Nat /\ j \in 1 .. n /\ j + 1 \in 1 .. n
      BY <1>1
    <3>2. CASE j < i
      BY <1>5, <3>1, <3>2
    <3>3. CASE ~(j < i)
      <4>1. j >= i
        BY <1>1, <3>1, <3>3
      <4>2. QED
        BY <1>5, <3>1, <4>1
    <3>4. QED
      BY <3>2, <3>3
  <2>2. r.tabs = u /\ Len(u) = n - 1 /\ t = s.tabs /\ n = Len(s.tabs)
    BY <1>1, <1>5, <1>14
  <2>3. QED
    BY <2>1, <2>2 DEF SameTabs
<1>19. QED
  BY <1>1, <1>2, <1>14, <1>15, <1>16, <1>17, <1>18, <1>20 DEF Keeps, OneLess

\* reopen_closed_tab: the last closed tab comes back and is the active one.
LEMMA ReopenedIs ==
  ASSUME NEW s, Good(s), s.stack # <<>>, NEW r, r = Reopened(s)
  PROVE  /\ Good(r) /\ HidesComers(s, r) /\ PinsFirst(r.tabs) /\ Len(r.stack) < Len(s.stack)
         /\ Names(s.tabs) \subseteq Names(r.tabs)
<1> DEFINE n == Len(s.tabs)
           t == s.tabs
           m == Len(s.stack)
           entry == s.stack[m]
           e == entry.tab
           at == Min({entry.at, n + 1})
           u == InsertAt(t, at, e)
           k == SubSeq(s.stack, 1, m - 1)
           shown == s.shown \cup {e.id}
           back == [s EXCEPT !.stack = k, !.tabs = u, !.shown = shown]
<1>1. /\ s \in StripSet /\ Fair(s) /\ t \in Seq(TabSet) /\ n \in Nat /\ t = s.tabs /\ n = Len(t)
      /\ s.shown \in SUBSET Nat /\ s.next \in Nat /\ s.stack \in Seq(EntrySet) /\ s.active \in Nat
      /\ Distinct(t) /\ StackCap \in Nat
  BY StackCapAssumption DEF Good, Fair, StripSet
<1>2. m \in Nat /\ m # 0 /\ m \in 1 .. m
  BY <1>1
<1>3. entry \in EntrySet
  BY <1>1, <1>2, AtPlace
<1>4. e \in TabSet /\ entry.at \in Nat \ {0} /\ e.id \in Nat
  <2>1. e \in TabSet /\ entry.at \in Nat \ {0}
    BY <1>3 DEF EntrySet
  <2>2. QED
    BY <2>1 DEF TabSet
<1>5. at \in 1 .. n + 1
  <2> DEFINE v == entry.at
  <2>1. v \in Nat \ {0} /\ n + 1 \in Nat
    BY <1>1, <1>4
  <2> HIDE DEF v, n
  <2>2. Min({v, n + 1}) \in Nat /\ Min({v, n + 1}) \in {v, n + 1} /\ Min({v, n + 1}) <= n + 1
    BY <2>1, MinOfTwo
  <2>3. QED
    BY <1>1, <2>1, <2>2 DEF v
<1>6. /\ StashDistinct(s.stack) /\ m <= StackCap
      /\ \A x \in Names(t) : x \notin StashNames(s.stack)
      /\ \A x \in Names(t) : x < s.next
      /\ \A x \in StashNames(s.stack) : x < s.next
      /\ s.shown \subseteq Names(t)
  BY <1>1 DEF Fair
<1>7. e.id \in StashNames(s.stack) /\ e.id \notin Names(t)
  BY <1>2, <1>6 DEF StashNames
<1>8. /\ k \in Seq(EntrySet) /\ Len(k) = m - 1 /\ \A j \in 1 .. m - 1 : k[j] = s.stack[j]
  BY <1>1, <1>2
<1>9. Front(s.stack) = k /\ Last(s.stack) = entry
  BY <1>1 DEF Front, Last
<1> HIDE DEF k
<1>10. StashDistinct(k) /\ StashNames(k) \subseteq StashNames(s.stack) /\ e.id \notin StashNames(k)
  <2>1. \A j \in 1 .. m - 1 : j \in 1 .. m /\ j # m
    BY <1>2
  <2>2. StashDistinct(k)
    BY <1>6, <1>8, <2>1 DEF StashDistinct
  <2>3. ASSUME NEW y \in StashNames(k) PROVE y \in StashNames(s.stack) /\ y # e.id
    <3>1. PICK j \in 1 .. m - 1 : y = k[j].tab.id
      BY <1>8 DEF StashNames
    <3>2. j \in 1 .. m /\ j # m /\ y = s.stack[j].tab.id
      BY <1>8, <2>1, <3>1
    <3>3. QED
      BY <1>2, <1>6, <3>2 DEF StashNames, StashDistinct
  <2>4. QED
    BY <2>2, <2>3
<1>11. u \in Seq(TabSet) /\ Len(u) = n + 1 /\ u[at] = e
  <2> HIDE DEF at, e, n, t
  <2>1. at \in 1 .. Len(t) + 1
    BY <1>1, <1>5
  <2>2. QED
    <3>1. t \in Seq(TabSet) /\ at \in 1 .. Len(t) + 1 /\ e \in TabSet /\ Len(t) = n
      BY <1>1, <1>4, <2>1
    <3>2. Into(u, t, at, e)
      BY <3>1, TabInserted DEF u
    <3>3. QED
      BY <3>1, <3>2 DEF Into
<1>12. Names(u) = Names(t) \cup {e.id} /\ Distinct(u)
  <2> HIDE DEF at, e, n, t
  <2>1. at \in 1 .. Len(t) + 1
    BY <1>1, <1>5
  <2>2. QED
    BY <1>1, <1>4, <1>7, <2>1, InsertNames
<1> DEFINE q == SetActive(back, at)
<1>13. r = Partitioned(q)
  <2>1. r = Partitioned(SetActive([s EXCEPT !.stack = Popped(s.stack),
                                            !.tabs = InsertAt(s.tabs, Min({entry.at, Len(s.tabs) + 1}), entry.tab),
                                            !.shown = s.shown \cup {entry.tab.id}],
                                  Min({entry.at, Len(s.tabs) + 1})))
    BY <1>9 DEF Reopened
  <2>2. QED
    BY <1>9, <2>1 DEF Popped
<1> HIDE DEF u, at, e, entry, t, n, m, q
<1>14. /\ back \in StripSet /\ back.tabs = u /\ back.stack = k /\ back.shown = shown /\ back.next = s.next
  <2>1. shown \in SUBSET Nat
    BY <1>1, <1>4
  <2> HIDE DEF shown
  <2>2. QED
    BY <1>1, <1>8, <1>11, <2>1 DEF StripSet
<1>15. Fair(back)
  <2>1. \A x \in Names(u) : x \notin StashNames(k) /\ x < s.next
    BY <1>6, <1>7, <1>10, <1>12
  <2>2. \A x \in StashNames(k) : x < s.next
    BY <1>6, <1>10
  <2>3. shown \subseteq Names(u)
    BY <1>6, <1>12
  <2>4. Len(k) <= StackCap
    BY <1>1, <1>2, <1>6, <1>8 DEF m
  <2> HIDE DEF shown, back
  <2>5. QED
    BY <1>10, <1>12, <1>14, <2>1, <2>2, <2>3, <2>4 DEF Fair
<1> HIDE DEF back, shown
<1>16. at \in 1 .. Len(back.tabs)
  BY <1>5, <1>11, <1>14
<1>17. Good(q) /\ q.tabs = u /\ q.stack = k /\ q.next = s.next /\ ActiveId(q) = {e.id}
  <2>1. /\ Good(q) /\ q.tabs = back.tabs /\ q.stack = back.stack /\ q.next = back.next
        /\ ActiveId(q) = {back.tabs[at].id}
    BY <1>15, <1>16, SetActiveIs DEF q
  <2>2. QED
    BY <1>11, <1>14, <2>1
<1>18. Fair(q) /\ ActiveId(q) \subseteq q.shown
  BY <1>17 DEF Good
<1>19. /\ Fair(r) /\ r.active \in 0 .. Len(r.tabs) /\ ActiveId(r) = ActiveId(q)
       /\ Names(r.tabs) = Names(q.tabs) /\ PinsFirst(r.tabs)
       /\ r.stack = q.stack /\ r.shown = q.shown /\ r.next = q.next
  BY <1>13, <1>18, PartitionedIs
<1>20. Good(r)
  BY <1>18, <1>19 DEF Good
<1>21. HidesComers(s, r)
  BY <1>1, <1>12, <1>17, <1>19 DEF HidesComers
<1>22. Len(r.stack) < Len(s.stack)
  BY <1>1, <1>2, <1>8, <1>17, <1>19 DEF m
<1>23. Names(s.tabs) \subseteq Names(r.tabs)
  BY <1>1, <1>12, <1>17, <1>19
<1>24. QED
  BY <1>19, <1>20, <1>21, <1>22, <1>23

-----------------------------------------------------------------------------
(* The calls that go by an id, and several calls in a row.                 *)

LEMMA IdsAreNames == ASSUME NEW s PROVE Ids(s) = Names(s.tabs)
BY DEF Ids, Names, Positions

LEMMA PositionIs ==
  ASSUME NEW s, NEW id \in Ids(s)
  PROVE  PositionOf(s, id) \in 1 .. Len(s.tabs) /\ s.tabs[PositionOf(s, id)].id = id
<1>1. \E i \in Positions(s) : s.tabs[i].id = id
  BY DEF Ids
<1>2. QED
  BY <1>1 DEF PositionOf, Positions

\* A call that only takes tabs away brings none in.
LEMMA NoComers ==
  ASSUME NEW s, NEW r, Names(r.tabs) \subseteq Names(s.tabs)
  PROVE  HidesComers(s, r)
BY DEF HidesComers

LEMMA KeepsOn ==
  ASSUME NEW s, NEW q, NEW r, Keeps(s, q), Keeps(q, r), Names(r.tabs) \subseteq Names(s.tabs)
  PROVE  Keeps(s, r)
BY NoComers DEF Keeps, KeepsForeground, KeepsPins

LEMMA KeepsSame == ASSUME NEW s PROVE Keeps(s, s)
BY NoComers DEF Keeps, KeepsForeground, KeepsPins

LEMMA Activated ==
  ASSUME NEW s, Good(s), NEW i, NEW r, r = SetActive(s, i)
  PROVE  Good(r) /\ Keeps(s, r) /\ r.tabs = s.tabs
<1>1. CASE i \in 1 .. Len(s.tabs)
  <2>1. Fair(s)
    BY DEF Good
  <2>2. Good(r) /\ KeepsForeground(s, r) /\ r.tabs = s.tabs
    BY <1>1, <2>1, SetActiveIs
  <2>3. QED
    BY <2>2, NoComers DEF Keeps, KeepsPins
<1>2. CASE i \notin 1 .. Len(s.tabs)
  <2>1. r = s
    BY <1>2 DEF SetActive, Positions
  <2>2. QED
    BY <2>1, KeepsSame
<1>3. QED
  BY <1>1, <1>2

LEMMA SelectIs ==
  ASSUME NEW s, Good(s), NEW id, NEW r, r = SelectId(s, id)
  PROVE  Good(r) /\ Keeps(s, r) /\ r.tabs = s.tabs
<1>1. r = s \/ r = SetActive(s, PositionOf(s, id))
  BY DEF SelectId
<1>2. QED
  BY <1>1, Activated, KeepsSame

\* cycle_tab.
LEMMA CycledIs ==
  ASSUME NEW s, Good(s), NEW next \in BOOLEAN, NEW r, r = Cycled(s, next)
  PROVE  Good(r) /\ Keeps(s, r) /\ r.tabs = s.tabs
<1>1. r = s \/ \E i : r = SetActive(s, i)
  BY DEF Cycled
<1>2. QED
  BY <1>1, Activated, KeepsSame

\* close_tab.
LEMMA ClosedIdIs ==
  ASSUME NEW s, Good(s), NEW id, NEW blank \in BOOLEAN, NEW r, r = ClosedId(s, id, blank)
  PROVE  Good(r) /\ Keeps(s, r) /\ Names(r.tabs) = Names(s.tabs) \ {id}
<1>1. CASE id \in Ids(s)
  <2> DEFINE i == PositionOf(s, id)
  <2>1. i \in 1 .. Len(s.tabs) /\ s.tabs[i].id = id
    BY <1>1, PositionIs
  <2>2. r = Closed(s, i, blank)
    BY <1>1 DEF ClosedId
  <2> HIDE DEF i
  <2>3. ASSUME NEW j \in 1 .. Len(s.tabs), r = Closed(s, j, blank)
        PROVE  Good(r) /\ Keeps(s, r) /\ Names(r.tabs) = Names(s.tabs) \ {s.tabs[j].id}
    BY <2>3, ClosedIs
  <2>4. QED
    BY <2>1, <2>2, <2>3
<1>2. CASE id \notin Ids(s)
  <2>1. r = s
    BY <1>2 DEF ClosedId
  <2>2. Names(s.tabs) \ {id} = Names(s.tabs)
    BY <1>2, IdsAreNames
  <2>3. QED
    BY <2>1, <2>2, KeepsSame
<1>3. QED
  BY <1>1, <1>2

\* close_overlay: at most the fresh tab goes.
LEMMA OverlayIs ==
  ASSUME NEW s, Good(s), NEW blank \in BOOLEAN, NEW r, r = AfterOverlay(s, blank)
  PROVE  /\ Good(r) /\ Keeps(s, r) /\ Names(r.tabs) \subseteq Names(s.tabs)
         /\ \A x \in Names(s.tabs) : x \notin fresh => x \in Names(r.tabs)
<1>1. CASE fresh # None /\ Len(s.tabs) > 1
  <2> DEFINE id == CHOOSE x \in fresh : TRUE
  <2>1. id \in fresh
    BY <1>1 DEF None
  <2>2. r = ClosedId(s, id, blank)
    BY <1>1 DEF AfterOverlay
  <2> HIDE DEF id
  <2>3. Good(r) /\ Keeps(s, r) /\ Names(r.tabs) = Names(s.tabs) \ {id}
    BY <2>2, ClosedIdIs
  <2>4. QED
    BY <2>1, <2>3
<1>2. CASE ~(fresh # None /\ Len(s.tabs) > 1)
  <2>1. r = s
    BY <1>2 DEF AfterOverlay
  <2>2. QED
    BY <2>1, KeepsSame
<1>3. QED
  BY <1>1, <1>2

LEMMA FromZero ==
  ASSUME NEW n \in Nat
  PROVE  0 \in 0 .. n /\ \A i \in 1 .. n : i \in 0 .. n /\ i # 0 /\ i - 1 \in 0 .. n
OBVIOUS

\* What may be left of a strip when tabs of ids have been closed.
Left(s, ids) ==
  {q \in StripSet : /\ Good(q) /\ Keeps(s, q) /\ Names(q.tabs) \subseteq Names(s.tabs)
                    /\ \A x \in Names(s.tabs) : x \notin ids => x \in Names(q.tabs)}

LEMMA LeftIs ==
  ASSUME NEW s, NEW ids, NEW q
  PROVE  q \in Left(s, ids) <=> /\ Good(q) /\ Keeps(s, q) /\ Names(q.tabs) \subseteq Names(s.tabs)
                                /\ \A x \in Names(s.tabs) : x \notin ids => x \in Names(q.tabs)
BY DEF Left, Good, Fair

\* The tabs that "close others" and "close to the right" take away.
LEMMA ClosedAllIs ==
  ASSUME NEW s, Good(s), NEW ids, NEW blank \in BOOLEAN, NEW r, r = ClosedAll(s, ids, blank)
  PROVE  /\ Good(r) /\ Keeps(s, r) /\ Names(r.tabs) \subseteq Names(s.tabs)
         /\ \A x \in Names(s.tabs) : x \notin ids => x \in Names(r.tabs)
<1> DEFINE n == Len(s.tabs)
           S == Left(s, ids)
           One(q, i) == IF s.tabs[i].id \in ids THEN ClosedId(q, s.tabs[i].id, blank) ELSE q
           step == [x \in (1 .. n) \X S |-> One(x[2], x[1])]
           Body(f) == [k \in 0 .. n |-> IF k = 0 THEN s
                                        ELSE IF s.tabs[k].id \in ids THEN ClosedId(f[k - 1], s.tabs[k].id, blank)
                                        ELSE f[k - 1]]
<1>1. n \in Nat
  BY DEF Good, Fair, StripSet
<1>2. s \in S
  <2>1. Keeps(s, s)
    BY KeepsSame
  <2>2. QED
    BY <2>1, LeftIs
<1>3. ASSUME NEW q \in S, NEW i \in 1 .. n PROVE One(q, i) \in S
  <2>1. /\ Good(q) /\ Keeps(s, q) /\ Names(q.tabs) \subseteq Names(s.tabs)
        /\ \A x \in Names(s.tabs) : x \notin ids => x \in Names(q.tabs)
    BY LeftIs
  <2>2. CASE s.tabs[i].id \in ids
    <3> DEFINE id == s.tabs[i].id
               c == ClosedId(q, id, blank)
    <3>1. id \in ids /\ One(q, i) = c
      BY <2>2
    <3> HIDE DEF id
    <3>2. Good(c) /\ Keeps(q, c) /\ Names(c.tabs) = Names(q.tabs) \ {id}
      BY <2>1, ClosedIdIs
    <3> HIDE DEF c, One
    <3>3. /\ Names(c.tabs) \subseteq Names(s.tabs)
          /\ \A x \in Names(s.tabs) : x \notin ids => x \in Names(c.tabs)
      BY <2>1, <3>1, <3>2
    <3>4. Keeps(s, c)
      BY <2>1, <3>2, <3>3, KeepsOn
    <3>5. c \in S
      BY <3>2, <3>3, <3>4, LeftIs
    <3>6. QED
      BY <3>1, <3>5
  <2>3. CASE s.tabs[i].id \notin ids
    BY <2>3
  <2>4. QED
    BY <2>2, <2>3
<1> HIDE DEF S, One
<1>4. step \in [(1 .. n) \X S -> S]
  BY <1>3
<1>5. \A i \in 1 .. n, q \in S : step[<<i, q>>] = One(q, i)
  OBVIOUS
<1> HIDE DEF step, n
<1>6. PICK f : /\ f = [i \in 0 .. n |-> f[i]] /\ f[0] = s
               /\ \A i \in 1 .. n : f[i] = step[<<i, f[i - 1]>>]
               /\ \A i \in 0 .. n : f[i] \in S
  <2>1. PICK f : Runs(f, n, S, s, step)
    BY <1>1, <1>2, <1>4, Recursion
  <2>2. QED
    BY <2>1, Zenon DEF Runs
<1>7. ASSUME NEW i \in 1 .. n PROVE f[i] = One(f[i - 1], i)
  <2>1. i - 1 \in 0 .. n
    BY <1>1
  <2>2. QED
    BY <1>5, <1>6, <2>1
<1>8. f = Body(f)
  <2>1. ASSUME NEW i \in 0 .. n
        PROVE  f[i] = IF i = 0 THEN s
                      ELSE IF s.tabs[i].id \in ids THEN ClosedId(f[i - 1], s.tabs[i].id, blank) ELSE f[i - 1]
    <3>1. CASE i = 0
      BY <1>6, <3>1
    <3>2. CASE i # 0
      <4>1. i \in 1 .. n
        BY <1>1, <3>2
      <4>2. QED
        BY <1>7, <3>2, <4>1 DEF One
    <3>3. QED
      BY <3>1, <3>2
  <2>2. QED
    BY <1>6, <2>1
<1> DEFINE After == CHOOSE g : g = Body(g)
<1>9. After = Body(After)
  BY <1>8
<1>10. r = After[n]
  BY DEF ClosedAll, n
<1> HIDE DEF After
<1>11. After[0] = s /\ \A i \in 1 .. n : After[i] = One(After[i - 1], i)
  <2>1. After[0] = s
    <3>1. 0 \in 0 .. n
      BY <1>1, FromZero
    <3>2. QED
      BY <1>9, <3>1
  <2>2. ASSUME NEW i \in 1 .. n PROVE After[i] = One(After[i - 1], i)
    <3>1. i \in 0 .. n /\ i # 0
      BY <1>1, FromZero
    <3>2. QED
      BY <1>9, <3>1 DEF One
  <2>3. QED
    BY <2>1, <2>2
<1> DEFINE T == {i \in 0 .. n : After[i] \in S}
<1>12. \A i \in 0 .. n : i \in T
  <2>1. 0 \in T
    BY <1>1, <1>2, <1>11
  <2>2. ASSUME NEW i \in 1 .. n, i - 1 \in T PROVE i \in T
    <3>1. After[i - 1] \in S
      BY <2>2
    <3>2. After[i] \in S
      BY <1>3, <1>11, <3>1
    <3>3. i \in 0 .. n
      BY <1>1, FromZero
    <3>4. QED
      BY <3>2, <3>3
  <2> HIDE DEF T
  <2>3. QED
    BY <1>1, <2>1, <2>2, UpTo
<1>13. r \in S
  <2>1. n \in 0 .. n
    BY <1>1
  <2>2. QED
    BY <1>10, <1>12, <2>1
<1>14. QED
  BY <1>13, LeftIs DEF S

-----------------------------------------------------------------------------
(* The invariant of the whole.                                             *)

AtMostOne(S) == S = {} \/ \E x \in Nat : S = {x}

StripsInv == strips \in [Engines -> StripSet] /\ \A e \in Engines : Good(strips[e])
RestInv ==
  /\ cur \in Engines /\ AtMostOne(confirm) /\ AtMostOne(fresh)
  /\ tabIds \in Seq(Nat) /\ drag \in Nat /\ exiting \in BOOLEAN
IInv == StripsInv /\ RestInv

\* What every call that changes a strip does, reopening a tab included.
EngineStep(s, r) ==
  Good(r) /\ HidesComers(s, r) /\ (KeepsForeground(s, r) \/ Len(r.stack) < Len(s.stack))

\* The steps of the two action properties.
OrderKept == \A e \in Engines : ForegroundKept(e) /\ ComersAreHidden(e) /\ PinnedFirstKept(e)
ConsentAsked ==
  \A i \in Positions(host) :
    LET t == host.tabs[i] IN
    t.pinned /\ t.id \notin Ids(strips'[cur]) =>
      \/ confirm = {t.id} /\ confirm' = None
      \/ cur' # cur
      \/ t.id \in fresh
      \/ tabIds # IdList(host)
Fine == IInv' /\ OrderKept /\ ConsentAsked

LEMMA HostIs == ASSUME IInv PROVE Good(host) /\ cur \in Engines /\ host = strips[cur] /\ host \in StripSet
BY DEF IInv, StripsInv, RestInv, host

LEMMA IdListIs == ASSUME NEW s, Good(s) PROVE IdList(s) \in Seq(Nat)
<1>1. s.tabs \in Seq(TabSet)
  BY DEF Good, Fair, StripSet
<1>2. ASSUME NEW i \in 1 .. Len(s.tabs) PROVE s.tabs[i].id \in Nat
  <2>1. s.tabs[i] \in TabSet
    BY <1>1, AtPlace
  <2>2. QED
    BY <2>1 DEF TabSet
<1>3. Len(s.tabs) \in Nat
  BY <1>1
<1>4. IdList(s) \in [1 .. Len(s.tabs) -> Nat]
  BY <1>2 DEF IdList, Positions
<1>5. QED
  BY <1>3, <1>4, SeqDef

\* One engine's strip becomes r and the others stay as they are.
LEMMA HostSteps ==
  ASSUME IInv, NEW r, HostBecomes(r), EngineStep(host, r)
  PROVE  /\ StripsInv' /\ strips'[cur] = r
         /\ \A e \in Engines : ForegroundKept(e) /\ ComersAreHidden(e)
         /\ KeepsPins(host, r) => OrderKept
<1>1. /\ strips \in [Engines -> StripSet] /\ \A e \in Engines : Good(strips[e])
      /\ cur \in Engines /\ host = strips[cur] /\ strips' = [strips EXCEPT ![cur] = r] /\ Good(r) /\ r \in StripSet
  BY DEF IInv, StripsInv, RestInv, host, HostBecomes, EngineStep, Good, Fair
<1>2. strips'[cur] = r /\ \A e \in Engines : e # cur => strips'[e] = strips[e]
  BY <1>1
<1>3. strips' \in [Engines -> StripSet] /\ \A e \in Engines : Good(strips'[e])
  BY <1>1, <1>2
<1>4. ASSUME NEW e \in Engines
      PROVE  /\ HidesComers(strips[e], strips'[e])
             /\ KeepsForeground(strips[e], strips'[e]) \/ Len(strips'[e].stack) < Len(strips[e].stack)
  <2>1. CASE e = cur
    BY <1>1, <1>2, <2>1 DEF EngineStep
  <2>2. CASE e # cur
    <3>1. Keeps(strips[e], strips'[e])
      BY <1>2, <2>2, KeepsSame
    <3>2. QED
      BY <3>1 DEF Keeps
  <2>3. QED
    BY <2>1, <2>2
<1>5. ASSUME NEW e \in Engines PROVE ForegroundKept(e) /\ ComersAreHidden(e)
  BY <1>4, IdsAreNames DEF ForegroundKept, ComersAreHidden, HidesComers, KeepsForeground
<1>6. ASSUME KeepsPins(host, r), NEW e \in Engines PROVE PinnedFirstKept(e)
  <2>1. KeepsPins(strips[e], strips'[e])
    BY <1>1, <1>2, <1>6 DEF KeepsPins
  <2>2. QED
    BY <2>1 DEF PinnedFirstKept, PinnedFirst, PinsFirst, Positions, KeepsPins
<1>7. QED
  BY <1>2, <1>3, <1>5, <1>6 DEF StripsInv, OrderKept

\* A step that changes no strip.
LEMMA StripsStay ==
  ASSUME IInv, UNCHANGED strips
  PROVE  StripsInv' /\ OrderKept /\ ConsentAsked
<1>1. StripsInv'
  BY DEF IInv, StripsInv
<1>2. ASSUME NEW e \in Engines PROVE ForegroundKept(e) /\ ComersAreHidden(e) /\ PinnedFirstKept(e)
  BY DEF ForegroundKept, ComersAreHidden, PinnedFirstKept
<1>3. ConsentAsked
  BY DEF ConsentAsked, Ids, host
<1>4. QED
  BY <1>1, <1>2, <1>3 DEF OrderKept

\* A step of the engine on screen that takes no pinned tab away.
LEMMA NoneGone ==
  ASSUME IInv, NEW r, strips'[cur] = r,
         \A i \in 1 .. Len(host.tabs) : host.tabs[i].id \notin Names(r.tabs) =>
                                          ~host.tabs[i].pinned \/ host.tabs[i].id \in fresh
  PROVE  ConsentAsked
BY IdsAreNames DEF ConsentAsked, Positions

LEMMA NamesKept ==
  ASSUME IInv, NEW r, strips'[cur] = r, Names(host.tabs) \subseteq Names(r.tabs)
  PROVE  ConsentAsked
<1>1. \A i \in 1 .. Len(host.tabs) : host.tabs[i].id \in Names(host.tabs)
  BY NamesAre
<1>2. QED
  BY <1>1, NoneGone

\* A call of the engine on screen that keeps everything, or takes tabs away.
LEMMA HostKeeps ==
  ASSUME IInv, NEW r, HostBecomes(r), Good(r), Keeps(host, r)
  PROVE  /\ StripsInv' /\ strips'[cur] = r /\ OrderKept
         /\ (\A i \in 1 .. Len(host.tabs) : host.tabs[i].id \notin Names(r.tabs) =>
                                            ~host.tabs[i].pinned \/ host.tabs[i].id \in fresh)
            => ConsentAsked
         /\ Names(host.tabs) \subseteq Names(r.tabs) => ConsentAsked
<1>1. EngineStep(host, r) /\ KeepsPins(host, r)
  BY DEF EngineStep, Keeps
<1>2. StripsInv' /\ strips'[cur] = r /\ OrderKept
  BY <1>1, HostSteps
<1>3. QED
  BY <1>2, NoneGone, NamesKept

-----------------------------------------------------------------------------
(* One lemma per action.                                                   *)

LEMMA Nothing == AtMostOne({}) /\ AtMostOne(None)
BY DEF AtMostOne, None

LEMMA RestStays ==
  ASSUME IInv, cur' \in Engines, AtMostOne(confirm'), AtMostOne(fresh'),
         tabIds' \in Seq(Nat), drag' \in Nat, exiting' \in BOOLEAN
  PROVE  RestInv'
BY DEF RestInv

\* What the painted strip is after a step of the engine on screen.
LEMMA Repainted ==
  ASSUME NEW e \in Engines, StripsInv', Repaint(e)
  PROVE  tabIds' \in Seq(Nat)
<1>1. Good(strips'[e])
  BY DEF StripsInv
<1>2. tabIds' = IdList(strips'[e])
  BY DEF Repaint
<1>3. QED
  BY <1>1, <1>2, IdListIs

LEMMA NewTabFine == ASSUME IInv, NewTab PROVE Fine
<1> DEFINE r == Opened(host, FALSE)
<1>1. Good(host) /\ FALSE \in BOOLEAN
  BY HostIs
<1>2. HostBecomes(r) /\ UNCHANGED <<cur, confirm, fresh, tabIds, drag, exiting>>
  BY DEF NewTab
<1>3. Good(r) /\ Keeps(host, r) /\ Names(host.tabs) \subseteq Names(r.tabs)
  <2>1. ASSUME NEW b, b = FALSE
        PROVE  /\ Good(Opened(host, b)) /\ Keeps(host, Opened(host, b))
               /\ Names(host.tabs) \subseteq Names(Opened(host, b).tabs)
    BY <1>1, <2>1, OpenedIs
  <2>2. QED
    BY <2>1
<1> HIDE DEF r
<1>4. StripsInv' /\ OrderKept /\ ConsentAsked
  BY <1>2, <1>3, HostKeeps
<1>5. RestInv'
  BY <1>2 DEF IInv, RestInv
<1>6. QED
  BY <1>4, <1>5 DEF Fine, IInv

\* A tab in a strip behind the pinned ones, and one at any place.
LEMMA OpenedThere ==
  ASSUME IInv, NEW i \in Nat \ {0}, NEW r, r = OpenedAt(host, i), HostBecomes(r)
  PROVE  /\ StripsInv' /\ strips'[cur] = r /\ ConsentAsked
         /\ \A e \in Engines : ForegroundKept(e) /\ ComersAreHidden(e)
         /\ i > PinnedCount(host) => OrderKept
<1>1. /\ Good(r) /\ KeepsForeground(host, r) /\ HidesComers(host, r)
      /\ Names(host.tabs) \subseteq Names(r.tabs)
      /\ i > PinnedCount(host) => KeepsPins(host, r)
  BY HostIs, OpenedAtIs
<1>2. EngineStep(host, r)
  BY <1>1 DEF EngineStep
<1>3. /\ StripsInv' /\ strips'[cur] = r
      /\ \A e \in Engines : ForegroundKept(e) /\ ComersAreHidden(e)
      /\ KeepsPins(host, r) => OrderKept
  BY <1>2, HostSteps
<1>4. ConsentAsked
  BY <1>1, <1>3, NamesKept
<1>5. QED
  BY <1>1, <1>3, <1>4

LEMMA ActiveOrFirst ==
  ASSUME IInv
  PROVE  /\ Max({host.active, 1}) \in Nat \ {0} /\ Max({host.active, 1}) + 1 \in Nat \ {0}
         /\ PinnedCount(host) \in Nat
<1>1. host.active \in Nat /\ host.tabs \in Seq(TabSet)
  BY HostIs DEF StripSet
<1>2. Max({host.active, 1}) \in Nat /\ Max({host.active, 1}) >= 1
  BY <1>1, MaxOfTwo
<1>3. PinnedCount(host) \in Nat
  BY <1>1, PinsCounted
<1>4. QED
  BY <1>2, <1>3

LEMMA NewAdjacentTabFine == ASSUME IInv, NEW right \in BOOLEAN, NewAdjacentTab(right) PROVE Fine
<1> DEFINE i == Max({host.active, 1})
           j == IF right THEN i + 1 ELSE i
           at == AfterPinned(host, j)
           r == OpenedAt(host, at)
<1>1. HostBecomes(r) /\ fresh' = {host.next} /\ UNCHANGED <<cur, confirm, tabIds, drag, exiting>>
  BY DEF NewAdjacentTab
<1>2. j \in Nat \ {0} /\ PinnedCount(host) \in Nat
  BY ActiveOrFirst
<1> HIDE DEF j
<1>3. at \in Nat \ {0} /\ at > PinnedCount(host)
  <2> DEFINE k == PinnedCount(host) + 1
  <2>1. k \in Nat /\ j \in Nat /\ at = Max({j, k}) /\ PinnedCount(host) \in Nat
    BY <1>2 DEF AfterPinned
  <2> HIDE DEF at
  <2>2. at \in Nat /\ at >= k
    <3> HIDE DEF k
    <3>1. QED
      BY <2>1, MaxOfTwo
  <2>3. QED
    BY <2>1, <2>2
<1> HIDE DEF at
<1>4. StripsInv' /\ ConsentAsked /\ OrderKept
  BY <1>1, <1>3, OpenedThere
<1>5. AtMostOne(fresh')
  <2>1. host.next \in Nat
    BY HostIs DEF StripSet
  <2>2. QED
    BY <1>1, <2>1 DEF AtMostOne
<1>6. RestInv'
  BY <1>1, <1>5 DEF IInv, RestInv
<1>7. QED
  BY <1>4, <1>6 DEF Fine, IInv

\* With a tab at a place nobody clamped the pins may mix, which PinnedFirstKept
\* excepts by name.
LEMMA Unclamped ==
  ASSUME \A e \in Engines : ForegroundKept(e) /\ ComersAreHidden(e),
         \/ \E after \in BOOLEAN : PasteUrl(after)
         \/ \E i \in Positions(host) : TabDuplicate(i)
  PROVE  OrderKept
BY DEF OrderKept, PinnedFirstKept

LEMMA PasteUrlFine == ASSUME IInv, NEW after \in BOOLEAN, PasteUrl(after) PROVE Fine
<1> DEFINE i == Max({host.active, 1})
           at == IF after THEN i + 1 ELSE i
           r == OpenedAt(host, at)
<1>1. HostBecomes(r) /\ UNCHANGED <<cur, confirm, fresh, tabIds, drag, exiting>>
  BY DEF PasteUrl
<1>2. at \in Nat \ {0}
  BY ActiveOrFirst
<1> HIDE DEF at
<1>3. StripsInv' /\ ConsentAsked /\ \A e \in Engines : ForegroundKept(e) /\ ComersAreHidden(e)
  BY <1>1, <1>2, OpenedThere
<1>4. OrderKept
  BY <1>3, Unclamped
<1>5. RestInv'
  BY <1>1 DEF IInv, RestInv
<1>6. QED
  BY <1>3, <1>4, <1>5 DEF Fine, IInv

LEMMA NextTabFine == ASSUME IInv, NEW forward \in BOOLEAN, NextTab(forward) PROVE Fine
<1> DEFINE r == Cycled(host, forward)
<1>1. HostBecomes(r) /\ UNCHANGED <<cur, confirm, fresh, tabIds, drag, exiting>>
  BY DEF NextTab
<1>2. Good(r) /\ Keeps(host, r) /\ r.tabs = host.tabs
  BY HostIs, CycledIs
<1> HIDE DEF r
<1>3. StripsInv' /\ OrderKept /\ ConsentAsked
  BY <1>1, <1>2, HostKeeps
<1>4. RestInv'
  BY <1>1 DEF IInv, RestInv
<1>5. QED
  BY <1>3, <1>4 DEF Fine, IInv

\* Pinning, from the key or the menu.
LEMMA PinFine ==
  ASSUME IInv, NEW i \in 1 .. Len(host.tabs), HostBecomes(WithPin(host, i, ~host.tabs[i].pinned)), Repaint(cur),
         UNCHANGED <<cur, confirm, fresh, drag, exiting>>
  PROVE  Fine
<1> DEFINE p == ~host.tabs[i].pinned
           r == WithPin(host, i, p)
<1>1. Good(host) /\ cur \in Engines
  BY HostIs
<1>2. p \in BOOLEAN
  OBVIOUS
<1> HIDE DEF p
<1>3. Good(r) /\ Keeps(host, r) /\ Names(r.tabs) = Names(host.tabs)
  BY <1>1, <1>2, WithPinIs
<1>4. HostBecomes(r)
  BY DEF p
<1> HIDE DEF r
<1>5. StripsInv' /\ OrderKept /\ ConsentAsked
  BY <1>3, <1>4, HostKeeps
<1>6. tabIds' \in Seq(Nat)
  BY <1>1, <1>5, Repainted
<1>7. RestInv'
  BY <1>6 DEF IInv, RestInv
<1>8. QED
  BY <1>5, <1>7 DEF Fine, IInv

LEMMA MoveTabFine == ASSUME IInv, NEW right \in BOOLEAN, MoveTab(right) PROVE Fine
<1> DEFINE to == IF right THEN host.active + 1 ELSE host.active - 1
           r == Moved(host, host.active, to)
<1>1. /\ HostBecomes(r) /\ UNCHANGED <<cur, confirm, fresh, tabIds, drag, exiting>>
      /\ host.active # 0
  BY DEF MoveTab
<1>2. host.active \in Nat /\ to \in Nat
  <2>1. host.active \in Nat
    BY HostIs DEF StripSet
  <2>2. QED
    BY <1>1, <2>1
<1> HIDE DEF to
<1>3. Good(r) /\ Keeps(host, r) /\ Names(r.tabs) = Names(host.tabs)
  <2>1. Good(host) /\ host.active \in Nat /\ to \in Nat
    BY <1>2, HostIs
  <2>2. ASSUME NEW a \in Nat, NEW q, q = Moved(host, a, to)
        PROVE  Good(q) /\ Keeps(host, q) /\ Names(q.tabs) = Names(host.tabs)
    BY <2>1, <2>2, MovedIs
  <2>3. QED
    BY <2>1, <2>2
<1> HIDE DEF r
<1>4. StripsInv' /\ OrderKept /\ ConsentAsked
  BY <1>1, <1>3, HostKeeps
<1>5. RestInv'
  BY <1>1 DEF IInv, RestInv
<1>6. QED
  BY <1>4, <1>5 DEF Fine, IInv

LEMMA ReopenClosedTabFine == ASSUME IInv, ReopenClosedTab PROVE Fine
<1> DEFINE r == Reopened(host)
<1>1. /\ HostBecomes(r) /\ UNCHANGED <<cur, confirm, fresh, tabIds, drag, exiting>>
      /\ host.stack # <<>>
  BY DEF ReopenClosedTab
<1>2. /\ Good(r) /\ HidesComers(host, r) /\ PinsFirst(r.tabs) /\ Len(r.stack) < Len(host.stack)
      /\ Names(host.tabs) \subseteq Names(r.tabs)
  BY <1>1, HostIs, ReopenedIs
<1> HIDE DEF r
<1>3. EngineStep(host, r) /\ KeepsPins(host, r)
  BY <1>2 DEF EngineStep, KeepsPins
<1>4. StripsInv' /\ OrderKept /\ strips'[cur] = r
  BY <1>1, <1>3, HostSteps
<1>5. ConsentAsked
  BY <1>2, <1>4, NamesKept
<1>6. RestInv'
  BY <1>1 DEF IInv, RestInv
<1>7. QED
  BY <1>4, <1>5, <1>6 DEF Fine, IInv

\* A tab that may go: its close was not refused.
LEMMA CloseFine ==
  ASSUME IInv, NEW i \in 1 .. Len(host.tabs), NEW blank \in BOOLEAN, ~host.tabs[i].pinned,
         HostBecomes(Closed(host, i, blank))
  PROVE  StripsInv' /\ OrderKept /\ ConsentAsked
<1> DEFINE r == Closed(host, i, blank)
<1>1. Good(host) /\ Distinct(host.tabs)
  BY HostIs DEF Good, Fair
<1>2. Good(r) /\ Keeps(host, r) /\ Names(r.tabs) = Names(host.tabs) \ {host.tabs[i].id}
  BY <1>1, ClosedIs
<1>3. HostBecomes(r)
  OBVIOUS
<1> HIDE DEF r
<1>4. ASSUME NEW j \in 1 .. Len(host.tabs), host.tabs[j].id \notin Names(r.tabs)
      PROVE  ~host.tabs[j].pinned
  <2>1. host.tabs[j].id \in Names(host.tabs)
    BY NamesAre
  <2>2. host.tabs[j].id = host.tabs[i].id
    BY <1>2, <1>4, <2>1
  <2>3. j = i
    BY <1>1, <2>2 DEF Distinct
  <2>4. QED
    BY <2>3
<1>5. QED
  BY <1>2, <1>3, <1>4, HostKeeps

LEMMA ArmFine ==
  ASSUME IInv, NEW id \in Nat, ArmPinnedClose(id)
  PROVE  AtMostOne(confirm')
BY DEF ArmPinnedClose, AtMostOne, IInv, RestInv

LEMMA NamedByTab ==
  ASSUME IInv, NEW i \in 1 .. Len(host.tabs)
  PROVE  host.tabs[i].id \in Nat /\ host.tabs[i].pinned \in BOOLEAN
<1>1. host.tabs \in Seq(TabSet)
  BY HostIs DEF StripSet
<1>2. host.tabs[i] \in TabSet
  BY <1>1, AtPlace
<1>3. QED
  BY <1>2 DEF TabSet

LEMMA CloseActiveTabFine == ASSUME IInv, NEW blank \in BOOLEAN, CloseActiveTab(blank) PROVE Fine
<1> DEFINE i == host.active
<1>1. i \in 1 .. Len(host.tabs) /\ UNCHANGED <<cur, fresh, tabIds, drag>>
  BY DEF CloseActiveTab, Positions
<1>2. CASE host.tabs[i].pinned
  <2>1. ArmPinnedClose(host.tabs[i].id) /\ UNCHANGED <<strips, exiting>>
    BY <1>2 DEF CloseActiveTab, NeedsConsent
  <2>2. AtMostOne(confirm')
    <3> DEFINE id == host.tabs[i].id
    <3>1. id \in Nat /\ ArmPinnedClose(id)
      BY <1>1, <2>1, NamedByTab
    <3> HIDE DEF id
    <3>2. QED
      BY <3>1, ArmFine
  <2>3. StripsInv' /\ OrderKept /\ ConsentAsked
    BY <2>1, StripsStay
  <2>4. RestInv'
    BY <1>1, <2>1, <2>2 DEF IInv, RestInv
  <2>5. QED
    BY <2>3, <2>4 DEF Fine, IInv
<1>3. CASE ~host.tabs[i].pinned
  <2>1. /\ HostBecomes(Closed(host, i, blank)) /\ UNCHANGED confirm
        /\ exiting' = (strips'[cur].tabs = <<>>)
    BY <1>3 DEF CloseActiveTab, NeedsConsent
  <2>2. StripsInv' /\ OrderKept /\ ConsentAsked
    BY <1>1, <1>3, <2>1, CloseFine
  <2>3. exiting' \in BOOLEAN
    BY <2>1
  <2>4. RestInv'
    BY <1>1, <2>1, <2>3 DEF IInv, RestInv
  <2>5. QED
    BY <2>2, <2>4 DEF Fine, IInv
<1>4. QED
  BY <1>2, <1>3

LEMMA ResolvePinnedCloseFine ==
  ASSUME IInv, NEW yes \in BOOLEAN, NEW blank \in BOOLEAN, ResolvePinnedClose(yes, blank) PROVE Fine
<1>1. confirm # None /\ confirm' = None /\ UNCHANGED <<cur, fresh, drag>>
  BY DEF ResolvePinnedClose
<1>2. PICK id \in Nat : confirm = {id}
  BY <1>1 DEF IInv, RestInv, AtMostOne, None
<1>3. CASE yes
  <2>1. (\E x \in confirm : HostBecomes(ClosedId(host, x, blank))) /\ exiting' = AllGone(strips') /\ Repaint(cur)
    BY <1>3 DEF ResolvePinnedClose
  <2> DEFINE r == ClosedId(host, id, blank)
  <2>2. HostBecomes(r)
    BY <1>2, <2>1
  <2>3. Good(r) /\ Keeps(host, r) /\ Names(r.tabs) = Names(host.tabs) \ {id}
    BY HostIs, ClosedIdIs
  <2> HIDE DEF r
  <2>4. StripsInv' /\ strips'[cur] = r /\ OrderKept
    BY <2>2, <2>3, HostKeeps
  <2>5. ConsentAsked
    <3>1. ASSUME NEW j \in Positions(host), host.tabs[j].id \notin Ids(strips'[cur])
          PROVE  confirm = {host.tabs[j].id}
      <4>1. host.tabs[j].id \in Names(host.tabs)
        BY NamesAre DEF Positions
      <4>2. host.tabs[j].id \notin Names(r.tabs)
        BY <2>4, <3>1, IdsAreNames
      <4>3. QED
        BY <1>2, <2>3, <4>1, <4>2
    <3>2. QED
      BY <1>1, <3>1 DEF ConsentAsked
  <2>6. tabIds' \in Seq(Nat)
    BY <2>1, <2>4, HostIs, Repainted
  <2>7. exiting' \in BOOLEAN
    BY <2>1 DEF AllGone
  <2>8. RestInv'
    BY <1>1, <2>6, <2>7, Nothing DEF IInv, RestInv
  <2>9. QED
    BY <2>4, <2>5, <2>8 DEF Fine, IInv
<1>4. CASE ~yes
  <2>1. UNCHANGED <<strips, exiting, tabIds>>
    BY <1>4 DEF ResolvePinnedClose
  <2>2. StripsInv' /\ OrderKept /\ ConsentAsked
    BY <2>1, StripsStay
  <2>3. RestInv'
    BY <1>1, <2>1, Nothing DEF IInv, RestInv
  <2>4. QED
    BY <2>2, <2>3 DEF Fine, IInv
<1>5. QED
  BY <1>3, <1>4

\* The active tab moves to another engine: two strips change.
LEMMA MoveToEngineFine ==
  ASSUME IInv, NEW target \in Engines, NEW blank \in BOOLEAN, MoveToEngine(target, blank) PROVE Fine
<1> DEFINE c == IF host.active \in Positions(host) THEN Closed(host, host.active, blank) ELSE host
           o == Opened(strips[target], FALSE)
<1>1. /\ target # cur /\ cur' = target /\ Repaint(target) /\ UNCHANGED <<confirm, fresh, drag, exiting>>
      /\ strips' = [strips EXCEPT
           ![target] = Opened(@, FALSE),
           ![cur] = IF host.active \in Positions(host) THEN Closed(@, host.active, blank) ELSE @]
  BY DEF MoveToEngine
<1>2. /\ strips \in [Engines -> StripSet] /\ \A e \in Engines : Good(strips[e])
      /\ cur \in Engines /\ host = strips[cur]
  BY DEF IInv, StripsInv, RestInv, host
<1>3. Good(c) /\ Keeps(host, c)
  <2>1. CASE host.active \in Positions(host)
    <3> DEFINE i == host.active
    <3>1. i \in 1 .. Len(host.tabs) /\ c = Closed(host, i, blank)
      BY <2>1 DEF Positions
    <3> HIDE DEF i, c
    <3>2. QED
      BY <3>1, HostIs, ClosedIs
  <2>2. CASE host.active \notin Positions(host)
    BY <2>2, HostIs, KeepsSame
  <2>3. QED
    BY <2>1, <2>2
<1>4. Good(o) /\ Keeps(strips[target], o)
  <2>1. ASSUME NEW b, b = FALSE, NEW s, s = strips[target] PROVE Good(Opened(s, b)) /\ Keeps(s, Opened(s, b))
    BY <1>2, <2>1, OpenedIs
  <2>2. QED
    BY <2>1
<1>5. strips' = [strips EXCEPT ![target] = o, ![cur] = c]
  BY <1>1, <1>2
<1> HIDE DEF c, o
<1>6. c \in StripSet /\ o \in StripSet
  BY <1>3, <1>4 DEF Good, Fair
<1>7. /\ strips' \in [Engines -> StripSet] /\ strips'[target] = o /\ strips'[cur] = c
      /\ \A e \in Engines : e # cur /\ e # target => strips'[e] = strips[e]
  BY <1>1, <1>2, <1>5, <1>6
<1>8. ASSUME NEW e \in Engines PROVE Good(strips'[e]) /\ Keeps(strips[e], strips'[e])
  <2>1. CASE e = cur \/ e = target
    BY <1>2, <1>3, <1>4, <1>7, <2>1
  <2>2. CASE e # cur /\ e # target
    BY <1>2, <1>7, <2>2, KeepsSame
  <2>3. QED
    BY <2>1, <2>2
<1>9. OrderKept
  <2>1. ASSUME NEW e \in Engines PROVE ForegroundKept(e) /\ ComersAreHidden(e) /\ PinnedFirstKept(e)
    <3>1. /\ KeepsForeground(strips[e], strips'[e]) /\ HidesComers(strips[e], strips'[e])
          /\ KeepsPins(strips[e], strips'[e])
      BY <1>8 DEF Keeps
    <3>2. ForegroundKept(e) /\ ComersAreHidden(e)
      BY <3>1, IdsAreNames DEF ForegroundKept, ComersAreHidden, HidesComers, KeepsForeground
    <3>3. PinnedFirstKept(e)
      BY <3>1 DEF PinnedFirstKept, PinnedFirst, PinsFirst, Positions, KeepsPins
    <3>4. QED
      BY <3>2, <3>3
  <2>2. QED
    BY <2>1 DEF OrderKept
<1>10. ConsentAsked
  BY <1>1 DEF ConsentAsked
<1>11. StripsInv'
  BY <1>7, <1>8 DEF StripsInv
<1>12. tabIds' \in Seq(Nat)
  BY <1>1, <1>11, Repainted
<1>13. RestInv'
  BY <1>1, <1>12 DEF IInv, RestInv
<1>14. QED
  BY <1>9, <1>10, <1>11, <1>13 DEF Fine, IInv

\* A call after which the omnibar is gone, and its fresh tab with it.
LEMMA OverlayFine ==
  ASSUME IInv, NEW s, Good(s), Keeps(host, s), s.tabs = host.tabs, NEW blank \in BOOLEAN,
         HostBecomes(AfterOverlay(s, blank))
  PROVE  StripsInv' /\ OrderKept /\ ConsentAsked
<1> DEFINE r == AfterOverlay(s, blank)
<1>1. /\ Good(r) /\ Keeps(s, r) /\ Names(r.tabs) \subseteq Names(s.tabs)
      /\ \A x \in Names(s.tabs) : x \notin fresh => x \in Names(r.tabs)
  BY OverlayIs
<1>2. HostBecomes(r)
  OBVIOUS
<1> HIDE DEF r
<1>3. Keeps(host, r)
  BY <1>1, KeepsOn
<1>4. \A i \in 1 .. Len(host.tabs) : host.tabs[i].id \notin Names(r.tabs) => host.tabs[i].id \in fresh
  BY <1>1, NamesAre
<1>5. QED
  BY <1>1, <1>2, <1>3, <1>4, HostKeeps

LEMMA CancelOmnibarFine == ASSUME IInv, NEW blank \in BOOLEAN, CancelOmnibar(blank) PROVE Fine
<1>1. /\ HostBecomes(AfterOverlay(host, blank)) /\ fresh' = None
      /\ Repaint(cur) \/ UNCHANGED tabIds
      /\ UNCHANGED <<cur, confirm, drag, exiting>>
  BY DEF CancelOmnibar
<1>2. StripsInv' /\ OrderKept /\ ConsentAsked
  BY <1>1, HostIs, KeepsSame, OverlayFine
<1>3. tabIds' \in Seq(Nat)
  <2>1. CASE Repaint(cur)
    BY <1>2, <2>1, HostIs, Repainted
  <2>2. CASE UNCHANGED tabIds
    BY <2>2 DEF IInv, RestInv
  <2>3. QED
    BY <1>1, <2>1, <2>2
<1>4. RestInv'
  BY <1>1, <1>3, Nothing DEF IInv, RestInv
<1>5. QED
  BY <1>2, <1>4 DEF Fine, IInv

LEMMA SubmitOmnibarFine == ASSUME IInv, SubmitOmnibar PROVE Fine
<1>1. fresh' = None /\ UNCHANGED <<strips, cur, confirm, tabIds, drag, exiting>>
  BY DEF SubmitOmnibar
<1>2. StripsInv' /\ OrderKept /\ ConsentAsked
  BY <1>1, StripsStay
<1>3. RestInv'
  BY <1>1, Nothing DEF IInv, RestInv
<1>4. QED
  BY <1>2, <1>3 DEF Fine, IInv

LEMMA LeftPressFine ==
  ASSUME IInv, NEW slot \in DOMAIN tabIds, NEW blank \in BOOLEAN, LeftPress(slot, blank) PROVE Fine
<1> DEFINE s == SelectId(host, tabIds[slot])
<1>1. /\ HostBecomes(AfterOverlay(s, blank)) /\ fresh' = None /\ drag' = slot
      /\ Repaint(cur) \/ UNCHANGED tabIds
      /\ UNCHANGED <<cur, confirm, exiting>>
  BY DEF LeftPress
<1>2. Good(s) /\ Keeps(host, s) /\ s.tabs = host.tabs
  BY HostIs, SelectIs
<1> HIDE DEF s
<1>3. StripsInv' /\ OrderKept /\ ConsentAsked
  BY <1>1, <1>2, OverlayFine
<1>4. tabIds' \in Seq(Nat)
  <2>1. CASE Repaint(cur)
    BY <1>3, <2>1, HostIs, Repainted
  <2>2. CASE UNCHANGED tabIds
    BY <2>2 DEF IInv, RestInv
  <2>3. QED
    BY <1>1, <2>1, <2>2
<1>5. drag' \in Nat
  <2>1. tabIds \in Seq(Nat)
    BY DEF IInv, RestInv
  <2>2. slot \in Nat
    BY <2>1
  <2>3. QED
    BY <1>1, <2>2
<1>6. RestInv'
  BY <1>1, <1>4, <1>5, Nothing DEF IInv, RestInv
<1>7. QED
  BY <1>3, <1>6 DEF Fine, IInv

LEMMA LeftReleaseFine ==
  ASSUME IInv, NEW slot \in DOMAIN tabIds, LeftRelease(slot) PROVE Fine
<1>1. drag' = 0 /\ UNCHANGED <<cur, confirm, fresh, exiting>>
  BY DEF LeftRelease
<1>2. slot \in Nat /\ drag \in Nat /\ tabIds \in Seq(Nat)
  <2>1. tabIds \in Seq(Nat) /\ drag \in Nat
    BY DEF IInv, RestInv
  <2>2. QED
    BY <2>1
<1>3. CASE slot # drag
  <2> DEFINE r == Moved(host, drag, slot)
  <2>1. HostBecomes(r) /\ Repaint(cur)
    BY <1>3 DEF LeftRelease
  <2>2. Good(r) /\ Keeps(host, r) /\ Names(r.tabs) = Names(host.tabs)
    <3>1. Good(host) /\ drag \in Nat /\ slot \in Nat
      BY <1>2, HostIs
    <3>2. ASSUME NEW q, q = Moved(host, drag, slot)
          PROVE  Good(q) /\ Keeps(host, q) /\ Names(q.tabs) = Names(host.tabs)
      BY <3>1, <3>2, MovedIs
    <3>3. QED
      BY <3>2
  <2> HIDE DEF r
  <2>3. StripsInv' /\ OrderKept /\ ConsentAsked
    BY <2>1, <2>2, HostKeeps
  <2>4. tabIds' \in Seq(Nat)
    BY <2>1, <2>3, HostIs, Repainted
  <2>5. RestInv'
    BY <1>1, <2>4 DEF IInv, RestInv
  <2>6. QED
    BY <2>3, <2>5 DEF Fine, IInv
<1>4. CASE slot = drag
  <2>1. UNCHANGED <<strips, tabIds>>
    BY <1>4 DEF LeftRelease
  <2>2. StripsInv' /\ OrderKept /\ ConsentAsked
    BY <2>1, StripsStay
  <2>3. RestInv'
    BY <1>1, <2>1 DEF IInv, RestInv
  <2>4. QED
    BY <2>2, <2>3 DEF Fine, IInv
<1>5. QED
  BY <1>3, <1>4

\* The id is that painted at the slot, the pinned bit that of the tab now there:
\* they are one tab's unless the strip was painted before it changed.
LEMMA MiddleClickFine ==
  ASSUME IInv, NEW slot \in DOMAIN tabIds, NEW blank \in BOOLEAN, MiddleClick(slot, blank) PROVE Fine
<1> DEFINE id == tabIds[slot]
<1>1. UNCHANGED <<cur, fresh, drag>>
  BY DEF MiddleClick
<1>2. id \in Nat /\ tabIds \in Seq(Nat)
  <2>1. tabIds \in Seq(Nat)
    BY DEF IInv, RestInv
  <2>2. QED
    BY <2>1
<1>3. CASE slot \in Positions(host) /\ NeedsConsent(host.tabs[slot])
  <2>1. ArmPinnedClose(id) /\ UNCHANGED <<strips, tabIds, exiting>>
    BY <1>3 DEF MiddleClick
  <2> HIDE DEF id
  <2>2. AtMostOne(confirm')
    BY <1>2, <2>1, ArmFine
  <2>3. StripsInv' /\ OrderKept /\ ConsentAsked
    BY <2>1, StripsStay
  <2>4. RestInv'
    BY <1>1, <2>1, <2>2 DEF IInv, RestInv
  <2>5. QED
    BY <2>3, <2>4 DEF Fine, IInv
<1>4. CASE ~(slot \in Positions(host) /\ NeedsConsent(host.tabs[slot]))
  <2> DEFINE r == ClosedId(host, id, blank)
  <2>1. HostBecomes(r) /\ exiting' = AllGone(strips') /\ Repaint(cur) /\ UNCHANGED confirm
    BY <1>4 DEF MiddleClick
  <2>2. ASSUME tabIds = IdList(host)
        PROVE  slot \in Positions(host) /\ host.tabs[slot].id = id /\ ~host.tabs[slot].pinned
    <3>1. slot \in Positions(host) /\ id = host.tabs[slot].id
      BY <2>2 DEF IdList
    <3>2. QED
      BY <1>4, <3>1 DEF NeedsConsent
  <2> HIDE DEF id
  <2>3. Good(r) /\ Keeps(host, r) /\ Names(r.tabs) = Names(host.tabs) \ {id}
    BY HostIs, ClosedIdIs
  <2> HIDE DEF r
  <2>4. StripsInv' /\ strips'[cur] = r /\ OrderKept
    BY <2>1, <2>3, HostKeeps
  <2>5. ConsentAsked
    <3>1. ASSUME NEW j \in Positions(host), host.tabs[j].pinned,
                 host.tabs[j].id \notin Ids(strips'[cur]), tabIds = IdList(host)
          PROVE  FALSE
      <4>1. host.tabs[j].id \in Names(host.tabs) /\ host.tabs[j].id \notin Names(r.tabs)
        BY <2>4, <3>1, IdsAreNames, NamesAre DEF Positions
      <4>2. host.tabs[j].id = host.tabs[slot].id /\ slot \in Positions(host) /\ ~host.tabs[slot].pinned
        BY <2>2, <2>3, <3>1, <4>1
      <4>3. Distinct(host.tabs)
        BY HostIs DEF Good, Fair
      <4>4. j = slot
        BY <4>2, <4>3 DEF Distinct, Positions
      <4>5. QED
        BY <3>1, <4>2, <4>4
    <3>2. QED
      BY <3>1 DEF ConsentAsked
  <2>6. tabIds' \in Seq(Nat)
    BY <2>1, <2>4, HostIs, Repainted
  <2>7. exiting' \in BOOLEAN
    BY <2>1 DEF AllGone
  <2>8. RestInv'
    BY <1>1, <2>1, <2>6, <2>7 DEF IInv, RestInv
  <2>9. QED
    BY <2>4, <2>5, <2>8 DEF Fine, IInv
<1>5. QED
  BY <1>3, <1>4

LEMMA TabReloadFine ==
  ASSUME IInv, NEW i \in Positions(host), NEW blank \in BOOLEAN, TabReload(i, blank) PROVE Fine
<1> DEFINE s == SetActive(host, i)
<1>1. /\ HostBecomes(AfterOverlay(s, blank)) /\ fresh' = None /\ Repaint(cur)
      /\ UNCHANGED <<cur, confirm, drag, exiting>>
  BY DEF TabReload
<1>2. Good(s) /\ Keeps(host, s) /\ s.tabs = host.tabs
  BY HostIs, Activated
<1> HIDE DEF s
<1>3. StripsInv' /\ OrderKept /\ ConsentAsked
  BY <1>1, <1>2, OverlayFine
<1>4. tabIds' \in Seq(Nat)
  BY <1>1, <1>3, HostIs, Repainted
<1>5. RestInv'
  BY <1>1, <1>4, Nothing DEF IInv, RestInv
<1>6. QED
  BY <1>3, <1>5 DEF Fine, IInv

LEMMA TabDuplicateFine == ASSUME IInv, NEW i \in Positions(host), TabDuplicate(i) PROVE Fine
<1> DEFINE at == i + 1
           r == OpenedAt(host, at)
<1>1. HostBecomes(r) /\ Repaint(cur) /\ UNCHANGED <<cur, confirm, fresh, drag, exiting>>
  BY DEF TabDuplicate
<1>2. at \in Nat \ {0}
  BY DEF Positions
<1> HIDE DEF at
<1>3. StripsInv' /\ ConsentAsked /\ \A e \in Engines : ForegroundKept(e) /\ ComersAreHidden(e)
  BY <1>1, <1>2, OpenedThere
<1>4. OrderKept
  BY <1>3, Unclamped
<1>5. tabIds' \in Seq(Nat)
  BY <1>1, <1>3, HostIs, Repainted
<1>6. RestInv'
  BY <1>1, <1>5 DEF IInv, RestInv
<1>7. QED
  BY <1>3, <1>4, <1>6 DEF Fine, IInv

LEMMA TabCloseFine ==
  ASSUME IInv, NEW i \in Positions(host), NEW blank \in BOOLEAN, TabClose(i, blank) PROVE Fine
<1>1. i \in 1 .. Len(host.tabs) /\ UNCHANGED <<cur, fresh, drag>>
  BY DEF TabClose, Positions
<1>2. CASE host.tabs[i].pinned
  <2>1. ArmPinnedClose(host.tabs[i].id) /\ UNCHANGED <<strips, tabIds, exiting>>
    BY <1>2 DEF TabClose, NeedsConsent
  <2>2. AtMostOne(confirm')
    <3> DEFINE id == host.tabs[i].id
    <3>1. id \in Nat /\ ArmPinnedClose(id)
      BY <1>1, <2>1, NamedByTab
    <3> HIDE DEF id
    <3>2. QED
      BY <3>1, ArmFine
  <2>3. StripsInv' /\ OrderKept /\ ConsentAsked
    BY <2>1, StripsStay
  <2>4. RestInv'
    BY <1>1, <2>1, <2>2 DEF IInv, RestInv
  <2>5. QED
    BY <2>3, <2>4 DEF Fine, IInv
<1>3. CASE ~host.tabs[i].pinned
  <2>1. /\ HostBecomes(Closed(host, i, blank)) /\ UNCHANGED confirm /\ Repaint(cur)
        /\ exiting' = AllGone(strips')
    BY <1>3 DEF TabClose, NeedsConsent
  <2>2. StripsInv' /\ OrderKept /\ ConsentAsked
    BY <1>1, <1>3, <2>1, CloseFine
  <2>3. exiting' \in BOOLEAN
    BY <2>1 DEF AllGone
  <2>4. tabIds' \in Seq(Nat)
    BY <2>1, <2>2, HostIs, Repainted
  <2>5. RestInv'
    BY <1>1, <2>1, <2>3, <2>4 DEF IInv, RestInv
  <2>6. QED
    BY <2>2, <2>5 DEF Fine, IInv
<1>4. QED
  BY <1>2, <1>3

\* The victims of the two menu entries are not pinned, and ids are distinct.
LEMMA VictimsFine ==
  ASSUME IInv, NEW K \in SUBSET Positions(host), \A k \in K : ~host.tabs[k].pinned, NEW blank \in BOOLEAN,
         NEW s, s = ClosedAll(host, {host.tabs[j].id : j \in K}, blank),
         NEW r, Good(r), Keeps(s, r), r.tabs = s.tabs, HostBecomes(r)
  PROVE  StripsInv' /\ OrderKept /\ ConsentAsked
<1> DEFINE ids == {host.tabs[j].id : j \in K}
<1>1. Good(host) /\ Distinct(host.tabs)
  BY HostIs DEF Good, Fair
<1>2. \A j \in Positions(host) : host.tabs[j].id \in ids => ~host.tabs[j].pinned
  BY <1>1 DEF Distinct, Positions
<1>3. s = ClosedAll(host, ids, blank)
  OBVIOUS
<1> HIDE DEF ids
<1>4. /\ Good(s) /\ Keeps(host, s) /\ Names(s.tabs) \subseteq Names(host.tabs)
      /\ \A x \in Names(host.tabs) : x \notin ids => x \in Names(s.tabs)
  BY <1>1, <1>3, ClosedAllIs
<1>5. Keeps(host, r)
  BY <1>4, KeepsOn
<1>6. \A j \in 1 .. Len(host.tabs) : host.tabs[j].id \notin Names(r.tabs) => ~host.tabs[j].pinned
  BY <1>2, <1>4, NamesAre DEF Positions
<1>7. QED
  BY <1>5, <1>6, HostKeeps

LEMMA TabCloseOthersFine ==
  ASSUME IInv, NEW i \in Positions(host), NEW blank \in BOOLEAN, TabCloseOthers(i, blank) PROVE Fine
<1> DEFINE K == {k \in Positions(host) : k # i /\ ~host.tabs[k].pinned}
           s == ClosedAll(host, {host.tabs[j].id : j \in K}, blank)
           r == SelectId(s, host.tabs[i].id)
<1>1. HostBecomes(r) /\ Repaint(cur) /\ UNCHANGED <<cur, confirm, fresh, drag, exiting>>
  BY DEF TabCloseOthers
<1>2. K \in SUBSET Positions(host) /\ \A k \in K : ~host.tabs[k].pinned
  OBVIOUS
<1> HIDE DEF K
<1>3. Good(s)
  <2> DEFINE ids == {host.tabs[j].id : j \in K}
  <2>1. s = ClosedAll(host, ids, blank)
    OBVIOUS
  <2> HIDE DEF ids, s
  <2>2. QED
    BY <2>1, HostIs, ClosedAllIs
<1>4. s = ClosedAll(host, {host.tabs[j].id : j \in K}, blank)
  OBVIOUS
<1> HIDE DEF s
<1>5. Good(r) /\ Keeps(s, r) /\ r.tabs = s.tabs
  BY <1>3, SelectIs
<1> HIDE DEF r
<1>6. StripsInv' /\ OrderKept /\ ConsentAsked
  BY <1>1, <1>2, <1>4, <1>5, VictimsFine
<1>7. tabIds' \in Seq(Nat)
  BY <1>1, <1>6, HostIs, Repainted
<1>8. RestInv'
  BY <1>1, <1>7 DEF IInv, RestInv
<1>9. QED
  BY <1>6, <1>8 DEF Fine, IInv

LEMMA TabCloseToRightFine ==
  ASSUME IInv, NEW i \in Positions(host), NEW blank \in BOOLEAN, TabCloseToRight(i, blank) PROVE Fine
<1> DEFINE K == {k \in Positions(host) : k > i /\ ~host.tabs[k].pinned}
           s == ClosedAll(host, {host.tabs[j].id : j \in K}, blank)
<1>1. HostBecomes(s) /\ Repaint(cur) /\ UNCHANGED <<cur, confirm, fresh, drag, exiting>>
  BY DEF TabCloseToRight
<1>2. K \in SUBSET Positions(host) /\ \A k \in K : ~host.tabs[k].pinned
  OBVIOUS
<1> HIDE DEF K
<1>3. Good(s)
  <2> DEFINE ids == {host.tabs[j].id : j \in K}
  <2>1. s = ClosedAll(host, ids, blank)
    OBVIOUS
  <2> HIDE DEF ids, s
  <2>2. QED
    BY <2>1, HostIs, ClosedAllIs
<1>4. s = ClosedAll(host, {host.tabs[j].id : j \in K}, blank)
  OBVIOUS
<1> HIDE DEF s
<1>5. StripsInv' /\ OrderKept /\ ConsentAsked
  BY <1>1, <1>2, <1>3, <1>4, KeepsSame, VictimsFine
<1>6. tabIds' \in Seq(Nat)
  BY <1>1, <1>5, HostIs, Repainted
<1>7. RestInv'
  BY <1>1, <1>6 DEF IInv, RestInv
<1>8. QED
  BY <1>5, <1>7 DEF Fine, IInv

\* Tabs that a menu, a page or another process opens.
LEMMA OpensFine ==
  ASSUME IInv, NEW background \in BOOLEAN, HostBecomes(Opened(host, background)),
         tabIds' = tabIds \/ Repaint(cur), UNCHANGED <<cur, confirm, fresh, drag, exiting>>
  PROVE  Fine
<1> DEFINE r == Opened(host, background)
<1>1. HostBecomes(r)
  OBVIOUS
<1>2. Good(r) /\ Keeps(host, r) /\ Names(host.tabs) \subseteq Names(r.tabs)
  BY HostIs, OpenedIs
<1> HIDE DEF r
<1>3. StripsInv' /\ OrderKept /\ ConsentAsked
  BY <1>1, <1>2, HostKeeps
<1>4. tabIds' \in Seq(Nat)
  <2>1. CASE Repaint(cur)
    BY <1>3, <2>1, HostIs, Repainted
  <2>2. CASE tabIds' = tabIds
    BY <2>2 DEF IInv, RestInv
  <2>3. QED
    BY <2>1, <2>2
<1>5. RestInv'
  BY <1>4 DEF IInv, RestInv
<1>6. QED
  BY <1>3, <1>5 DEF Fine, IInv

LEMMA RefreshTabStripFine == ASSUME IInv, RefreshTabStrip PROVE Fine
<1>1. tabIds' = IdList(host) /\ UNCHANGED <<strips, cur, confirm, fresh, drag, exiting>>
  BY DEF RefreshTabStrip
<1>2. StripsInv' /\ OrderKept /\ ConsentAsked
  BY <1>1, StripsStay
<1>3. tabIds' \in Seq(Nat)
  BY <1>1, HostIs, IdListIs
<1>4. RestInv'
  BY <1>1, <1>3 DEF IInv, RestInv
<1>5. QED
  BY <1>2, <1>4 DEF Fine, IInv

-----------------------------------------------------------------------------
(* All of them.                                                            *)

LEMMA KeyFine == ASSUME IInv, Key PROVE Fine
<1>1. CASE NewTab
  BY <1>1, NewTabFine
<1>2. CASE PinTab
  <2>1. /\ host.active \in 1 .. Len(host.tabs) /\ Repaint(cur)
        /\ HostBecomes(WithPin(host, host.active, ~host.tabs[host.active].pinned))
        /\ UNCHANGED <<cur, confirm, fresh, drag, exiting>>
    BY <1>2 DEF PinTab, Positions
  <2>2. QED
    BY <2>1, PinFine
<1>3. CASE ReopenClosedTab
  BY <1>3, ReopenClosedTabFine
<1>4. CASE SubmitOmnibar
  BY <1>4, SubmitOmnibarFine
<1>5. ASSUME NEW right \in BOOLEAN, NewAdjacentTab(right) \/ PasteUrl(right) \/ NextTab(right) \/ MoveTab(right)
      PROVE  Fine
  BY <1>5, NewAdjacentTabFine, PasteUrlFine, NextTabFine, MoveTabFine
<1>6. ASSUME NEW blank \in BOOLEAN, CloseActiveTab(blank) \/ CancelOmnibar(blank) PROVE Fine
  BY <1>6, CloseActiveTabFine, CancelOmnibarFine
<1>7. ASSUME NEW blank \in BOOLEAN, NEW yes \in BOOLEAN, ResolvePinnedClose(yes, blank) PROVE Fine
  BY <1>7, ResolvePinnedCloseFine
<1>8. ASSUME NEW blank \in BOOLEAN, NEW e \in Engines, EngineCommand(e, blank) PROVE Fine
  <2>1. MoveToEngine(e, blank)
    BY <1>8 DEF EngineCommand
  <2>2. QED
    BY <2>1, MoveToEngineFine
<1>9. QED
  BY <1>1, <1>2, <1>3, <1>4, <1>5, <1>6, <1>7, <1>8 DEF Key

LEMMA MouseFine == ASSUME IInv, Mouse PROVE Fine
BY LeftReleaseFine, LeftPressFine, MiddleClickFine DEF Mouse

LEMMA MenuFine == ASSUME IInv, Menu PROVE Fine
<1>1. ASSUME NEW i \in Positions(host), TabDuplicate(i) PROVE Fine
  BY <1>1, TabDuplicateFine
<1>2. ASSUME NEW i \in Positions(host), TabPin(i) PROVE Fine
  <2>1. /\ i \in 1 .. Len(host.tabs) /\ HostBecomes(WithPin(host, i, ~host.tabs[i].pinned)) /\ Repaint(cur)
        /\ UNCHANGED <<cur, confirm, fresh, drag, exiting>>
    BY <1>2 DEF TabPin, Positions
  <2>2. QED
    BY <2>1, PinFine
<1>3. ASSUME NEW i \in Positions(host), NEW blank \in BOOLEAN, TabReload(i, blank) \/ TabClose(i, blank) PROVE Fine
  BY <1>3, TabReloadFine, TabCloseFine
<1>4. ASSUME NEW i \in Positions(host), NEW blank \in BOOLEAN,
             TabCloseOthers(i, blank) \/ TabCloseToRight(i, blank)
      PROVE  Fine
  BY <1>4, TabCloseOthersFine, TabCloseToRightFine
<1>5. ASSUME NEW background \in BOOLEAN, MenuOpensTab(background) PROVE Fine
  <2>1. /\ HostBecomes(Opened(host, background)) /\ tabIds' = tabIds
        /\ UNCHANGED <<cur, confirm, fresh, drag, exiting>>
    BY <1>5 DEF MenuOpensTab
  <2>2. QED
    BY <2>1, OpensFine
<1>6. QED
  BY <1>1, <1>2, <1>3, <1>4, <1>5 DEF Menu

LEMMA BackgroundFine == ASSUME IInv, Background PROVE Fine
<1>1. CASE OpenUrls
  <2>1. HostBecomes(Opened(host, TRUE)) /\ tabIds' = tabIds /\ UNCHANGED <<cur, confirm, fresh, drag, exiting>>
    BY <1>1 DEF OpenUrls
  <2>2. ASSUME NEW b \in BOOLEAN, b = TRUE PROVE Fine
    <3>1. HostBecomes(Opened(host, b))
      BY <2>1, <2>2
    <3>2. QED
      BY <2>1, <3>1, OpensFine
  <2>3. QED
    BY <2>2
<1>2. CASE RefreshTabStrip
  BY <1>2, RefreshTabStripFine
<1>3. ASSUME NEW background \in BOOLEAN, PopupTab(background) PROVE Fine
  <2>1. HostBecomes(Opened(host, background)) /\ Repaint(cur) /\ UNCHANGED <<cur, confirm, fresh, drag, exiting>>
    BY <1>3 DEF PopupTab
  <2>2. QED
    BY <2>1, OpensFine
<1>4. ASSUME NEW blank \in BOOLEAN, NEW e \in Engines, CrossEngineNav(e, blank) PROVE Fine
  <2>1. MoveToEngine(e, blank)
    BY <1>4 DEF CrossEngineNav
  <2>2. QED
    BY <2>1, MoveToEngineFine
<1>5. QED
  BY <1>1, <1>2, <1>3, <1>4 DEF Background

LEMMA StepFine == ASSUME IInv, [Next]_vars PROVE IInv' /\ (UNCHANGED strips \/ (OrderKept /\ ConsentAsked))
<1>1. CASE Next
  BY <1>1, KeyFine, MouseFine, MenuFine, BackgroundFine DEF Next, Fine
<1>2. CASE UNCHANGED vars
  BY <1>2 DEF vars, IInv, StripsInv, RestInv
<1>3. QED
  BY <1>1, <1>2

LEMMA Starts == ASSUME Init PROVE IInv
<1> DEFINE s == EmptyStrip
<1>1. Good(s)
  <2>1. /\ s.tabs = <<>> /\ s.stack = <<>> /\ s.active = 0 /\ s.shown = {} /\ s.next = 0 /\ s \in StripSet
    BY DEF EmptyStrip, StripSet
  <2>2. Len(s.tabs) = 0 /\ Len(s.stack) = 0 /\ 1 .. 0 = {}
    BY <2>1
  <2>3. Names(s.tabs) = {} /\ StashNames(s.stack) = {} /\ ActiveId(s) = {}
    BY <2>2 DEF Names, StashNames, ActiveId, Positions
  <2>4. Distinct(s.tabs) /\ StashDistinct(s.stack)
    BY <2>2 DEF Distinct, StashDistinct
  <2>5. 0 <= StackCap /\ s.active \in 0 .. Len(s.tabs)
    BY <2>1, <2>2, StackCapAssumption
  <2>6. Fair(s)
    BY <2>1, <2>2, <2>3, <2>4, <2>5 DEF Fair
  <2>7. QED
    BY <2>3, <2>5, <2>6 DEF Good
<1> HIDE DEF s
<1>2. ASSUME NEW b \in BOOLEAN, NEW r, r = Opened(s, b) PROVE Good(r) /\ IdList(r) \in Seq(Nat) /\ r \in StripSet
  <2>1. Good(r)
    BY <1>1, <1>2, OpenedIs
  <2>2. QED
    BY <2>1, IdListIs DEF Good, Fair
<1> DEFINE r == Opened(s, FALSE)
<1>3. Good(r) /\ IdList(r) \in Seq(Nat) /\ r \in StripSet
  BY <1>2
<1>4. /\ strips = [e \in Engines |-> r] /\ cur = Initial /\ confirm = None /\ fresh = None
      /\ tabIds = IdList(r) /\ drag = 0 /\ exiting = FALSE
  BY DEF Init, s
<1> HIDE DEF r
<1>5. StripsInv
  BY <1>3, <1>4 DEF StripsInv
<1>6. RestInv
  BY <1>3, <1>4, Nothing, EnginesAssumption DEF RestInv
<1>7. QED
  BY <1>5, <1>6 DEF IInv

\* As many ids as places, where no id comes twice.
LEMMA AsManyNames ==
  ASSUME NEW n \in Nat, NEW f, NEW S, S = {f[i] : i \in 1 .. n}, \A i, j \in 1 .. n : f[i] = f[j] => i = j
  PROVE  IsFiniteSet(S) /\ Cardinality(S) = n
<1> DEFINE g == [i \in 1 .. n |-> f[i]]
<1>1. \A i \in 1 .. n : g[i] = f[i]
  OBVIOUS
<1>2. g \in [1 .. n -> S]
  OBVIOUS
<1> HIDE DEF g
<1>3. g \in Injection(1 .. n, S)
  BY <1>1, <1>2 DEF Injection, IsInjective
<1>4. g \in Surjection(1 .. n, S)
  BY <1>1, <1>2 DEF Surjection
<1>5. ExistsBijection(1 .. n, S)
  BY <1>3, <1>4 DEF ExistsBijection, Bijection
<1>6. QED
  BY <1>5, FS_CountingElements, FS_NatBijection

LEMMA OncePerPlace ==
  ASSUME NEW s, Good(s)
  PROVE  Cardinality(Ids(s) \cup StashedIds(s)) = Len(s.tabs) + Len(s.stack)
<1>1. /\ s.tabs \in Seq(TabSet) /\ s.stack \in Seq(EntrySet) /\ Distinct(s.tabs) /\ StashDistinct(s.stack)
      /\ \A x \in Names(s.tabs) : x \notin StashNames(s.stack)
  BY DEF Good, Fair, StripSet
<1>2. Len(s.tabs) \in Nat /\ Len(s.stack) \in Nat /\ DOMAIN s.stack = 1 .. Len(s.stack)
  BY <1>1
<1>3. Ids(s) = Names(s.tabs) /\ StashedIds(s) = StashNames(s.stack)
  BY <1>2 DEF Ids, Names, Positions, StashedIds, StashNames
<1>4. IsFiniteSet(Names(s.tabs)) /\ Cardinality(Names(s.tabs)) = Len(s.tabs)
  <2> DEFINE n == Len(s.tabs)
             f == [i \in 1 .. n |-> s.tabs[i].id]
  <2>1. Names(s.tabs) = {f[i] : i \in 1 .. n}
    BY DEF Names
  <2>2. \A i, j \in 1 .. n : f[i] = f[j] => i = j
    BY <1>1 DEF Distinct
  <2> HIDE DEF n, f
  <2>3. n \in Nat
    BY <1>2 DEF n
  <2>4. IsFiniteSet(Names(s.tabs)) /\ Cardinality(Names(s.tabs)) = n
    BY <2>1, <2>2, <2>3, AsManyNames
  <2>5. QED
    BY <2>4 DEF n
<1>5. IsFiniteSet(StashNames(s.stack)) /\ Cardinality(StashNames(s.stack)) = Len(s.stack)
  <2> DEFINE n == Len(s.stack)
             f == [i \in 1 .. n |-> s.stack[i].tab.id]
  <2>1. StashNames(s.stack) = {f[i] : i \in 1 .. n}
    BY DEF StashNames
  <2>2. \A i, j \in 1 .. n : f[i] = f[j] => i = j
    BY <1>1 DEF StashDistinct
  <2> HIDE DEF n, f
  <2>3. n \in Nat
    BY <1>2 DEF n
  <2>4. IsFiniteSet(StashNames(s.stack)) /\ Cardinality(StashNames(s.stack)) = n
    BY <2>1, <2>2, <2>3, AsManyNames
  <2>5. QED
    BY <2>4 DEF n
<1>6. Names(s.tabs) \cap StashNames(s.stack) = {}
  BY <1>1
<1>7. Cardinality(Names(s.tabs) \cap StashNames(s.stack)) = 0
  BY <1>6, FS_EmptySet
<1>8. Cardinality(Names(s.tabs) \cup StashNames(s.stack))
        = Cardinality(Names(s.tabs)) + Cardinality(StashNames(s.stack))
            - Cardinality(Names(s.tabs) \cap StashNames(s.stack))
  BY <1>4, <1>5, FS_Union
<1>9. QED
  BY <1>2, <1>3, <1>4, <1>5, <1>7, <1>8

LEMMA AtMostOneCounts == ASSUME NEW S, AtMostOne(S) PROVE Cardinality(S) <= 1
<1>1. CASE S = {}
  BY <1>1, FS_EmptySet
<1>2. CASE S # {}
  <2>1. PICK x : S = {x}
    BY <1>2 DEF AtMostOne
  <2>2. Cardinality(S) = 1
    BY <2>1, FS_Singleton
  <2>3. QED
    BY <2>2
<1>3. QED
  BY <1>1, <1>2

LEMMA TabsAreTabs == ASSUME NEW t \in TabSet PROVE IsTab(t)
BY DEF IsTab, TabSet

LEMMA StripsAreRight == ASSUME IInv PROVE StripsOK
<1>1. /\ strips \in [Engines -> StripSet] /\ \A e \in Engines : Good(strips[e])
      /\ cur \in Engines /\ AtMostOne(confirm) /\ AtMostOne(fresh)
      /\ tabIds \in Seq(Nat) /\ drag \in Nat /\ exiting \in BOOLEAN
  BY DEF IInv, StripsInv, RestInv
<1>2. ASSUME NEW e \in Engines
      PROVE  /\ \A i \in Positions(strips[e]) : IsTab(strips[e].tabs[i])
             /\ strips[e].active \in 0..Len(strips[e].tabs)
             /\ Len(strips[e].stack) <= StackCap
             /\ \A i \in DOMAIN strips[e].stack : IsTab(strips[e].stack[i].tab)
             /\ strips[e].next \in Nat
  <2> DEFINE s == strips[e]
  <2>1. Good(s)
    BY <1>1
  <2> HIDE DEF s
  <2>2. /\ s.tabs \in Seq(TabSet) /\ s.stack \in Seq(EntrySet) /\ s.next \in Nat
        /\ s.active \in 0..Len(s.tabs) /\ Len(s.stack) <= StackCap
    BY <2>1 DEF Good, Fair, StripSet
  <2>3. ASSUME NEW i \in Positions(s) PROVE IsTab(s.tabs[i])
    <3>1. i \in 1 .. Len(s.tabs)
      BY DEF Positions
    <3>2. s.tabs[i] \in TabSet
      BY <2>2, <3>1, AtPlace
    <3>3. QED
      BY <3>2, TabsAreTabs
  <2>4. ASSUME NEW i \in DOMAIN s.stack PROVE IsTab(s.stack[i].tab)
    <3>1. i \in 1 .. Len(s.stack)
      BY <2>2
    <3>2. s.stack[i] \in EntrySet
      BY <2>2, <3>1, AtPlace
    <3>3. s.stack[i].tab \in TabSet
      BY <3>2 DEF EntrySet
    <3>4. QED
      BY <3>3, TabsAreTabs
  <2>5. QED
    BY <2>2, <2>3, <2>4 DEF s
<1>3. DOMAIN strips = Engines
  BY <1>1
<1>4. Cardinality(confirm) <= 1 /\ Cardinality(fresh) <= 1
  BY <1>1, AtMostOneCounts
<1>5. TypeOK
  BY <1>1, <1>2, <1>3, <1>4 DEF TypeOK
<1>6. EachTabOnce
  BY <1>1, OncePerPlace DEF EachTabOnce
<1>7. ActiveIsShown
  BY <1>1, IdsAreNames DEF ActiveIsShown, Good, Fair
<1>8. QED
  BY <1>5, <1>6, <1>7 DEF StripsOK

-----------------------------------------------------------------------------
(* Theorems.                                                               *)

\* In every behaviour IInv holds: each id is in one place, the strip or the
\* stack, is below the next one to be given, and the active tab is shown.
THEOREM Inductive == Spec => []IInv
<1>1. Init => IInv
  BY Starts
<1>2. IInv /\ [Next]_vars => IInv'
  BY StepFine
<1>3. QED
  BY <1>1, <1>2, PTL DEF Spec

\* Whatever is opened, closed, reopened, moved, pinned or sent to another
\* engine, in any order, a browser is in one place, the stack within its limit,
\* the active index that of a tab, and the browser of that tab shown
\* (host.rs: set_active_index, close_index, reopen_closed_tab, move_tab).
THEOREM StripsStayRight == Spec => []StripsOK
<1>1. IInv => StripsOK
  BY StripsAreRight
<1>2. QED
  BY <1>1, Inductive, PTL

\* No step leaves a tab in the foreground that is not the active one, shows a
\* newcomer behind another tab, or puts an unpinned tab before a pinned one,
\* with the exceptions that the property names.
THEOREM OrderIsKept == Spec => StepsKeepOrder
<1>1. IInv /\ [Next]_vars
        => [\A e \in Engines : ForegroundKept(e) /\ ComersAreHidden(e) /\ PinnedFirstKept(e)]_strips
  BY StepFine DEF OrderKept
<1>2. QED
  BY <1>1, Inductive, PTL DEF Spec, StepsKeepOrder

\* A pinned tab goes only by its own confirmation, to another engine, as the
\* fresh tab of a cancelled omnibar, or by a click on a strip painted before it
\* changed (main.rs: arm_pinned_close, resolve_pinned_close).
THEOREM PinnedAsked == Spec => PinnedNeedsConsent
<1>1. IInv /\ [Next]_vars
        => [\A i \in Positions(host) :
              LET t == host.tabs[i] IN
              t.pinned /\ t.id \notin Ids(strips'[cur]) =>
                \/ confirm = {t.id} /\ confirm' = None
                \/ cur' # cur
                \/ t.id \in fresh
                \/ tabIds # IdList(host)]_strips
  BY StepFine DEF ConsentAsked
<1>2. QED
  BY <1>1, Inductive, PTL DEF Spec, PinnedNeedsConsent
=============================================================================
