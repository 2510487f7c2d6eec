---------------------------- MODULE Reorder_proofs ----------------------------
(***************************************************************************)
(* What Reorder promises of its list and of what leaves it, for every      *)
(* number space, window and stream that Reorder's assumption admits.       *)
(***************************************************************************)
EXTENDS Reorder, TLAPS, WellFoundedInduction

Half == SnMod \div 2
-----------------------------------------------------------------------------
(* Sequence numbers: two frames nearer to each other than half the number  *)
(* space are told apart, and put in order, by their numbers.               *)

LEMMA Constants ==
    /\ SnMod \in Nat /\ WSize \in Nat /\ StreamLen \in Nat /\ MaxLost \in Nat
    /\ Half \in Nat /\ 2 * Half = SnMod
    /\ 1 < WSize /\ MaxLost + 2 * WSize <= Half
  BY ReorderAssumption DEF Half

\* What division leaves is the only number of the range that can be left.
LEMMA SnOfMultiple ==
    ASSUME NEW q \in Int, NEW r \in 0..(SnMod - 1)
    PROVE  Sn(SnMod * q + r) = r
<1>1. SnMod \in Nat /\ SnMod > 0
  BY Constants
<1>2. QED
  BY <1>1 DEF Sn

LEMMA SnSplits ==
    ASSUME NEW n \in Int
    PROVE  /\ Sn(n) \in 0..(SnMod - 1)
           /\ \E q \in Int : n = SnMod * q + Sn(n)
<1>1. SnMod \in Nat /\ SnMod > 0
  BY Constants
<1>2. QED
  BY <1>1 DEF Sn

\* Counting on from a number is counting on from its frame.
LEMMA SnPlus ==
    ASSUME NEW n \in Int, NEW k \in Int
    PROVE  (Sn(n) + k) % SnMod = Sn(n + k)
<1>1. SnMod \in Nat
  BY Constants
<1>2. PICK q \in Int : n = SnMod * q + Sn(n)
  BY SnSplits
<1>3. Sn(n) \in Int
  BY SnSplits, <1>1
<1>4. PICK p \in Int : Sn(n) + k = SnMod * p + Sn(Sn(n) + k)
  BY SnSplits, <1>3
<1>5. Sn(Sn(n) + k) \in 0..(SnMod - 1)
  BY SnSplits, <1>3
<1>6. n + k = SnMod * (q + p) + Sn(Sn(n) + k)
  BY <1>1, <1>2, <1>3, <1>4, <1>5
<1>7. Sn(n + k) = Sn(Sn(n) + k)
  BY SnOfMultiple, <1>5, <1>6
<1>8. QED
  BY <1>7 DEF Sn

LEMMA SnDifference ==
    ASSUME NEW a \in Int, NEW b \in Int
    PROVE  (Sn(a) - Sn(b)) % SnMod = Sn(a - b)
<1>1. SnMod \in Nat
  BY Constants
<1>2. PICK q \in Int : b = SnMod * q + Sn(b)
  BY SnSplits
<1>3. Sn(b) \in Int
  BY SnSplits, <1>1
<1>4. (Sn(a) - Sn(b)) % SnMod = Sn(a - Sn(b))
  <2>1. Sn(a) \in Int /\ - Sn(b) \in Int
    BY SnSplits, <1>1, <1>3
  <2>2. (Sn(a) + (- Sn(b))) % SnMod = Sn(a + (- Sn(b)))
    BY SnPlus, <2>1
  <2>3. Sn(a) + (- Sn(b)) = Sn(a) - Sn(b) /\ a + (- Sn(b)) = a - Sn(b)
    BY <1>3, <2>1
  <2>4. QED
    BY <2>2, <2>3
<1>5. PICK p \in Int : a - Sn(b) = SnMod * p + Sn(a - Sn(b))
  BY SnSplits, <1>3
<1>6. Sn(a - Sn(b)) \in 0..(SnMod - 1)
  BY SnSplits, <1>3
<1>7. a - b = SnMod * (p - q) + Sn(a - Sn(b))
  BY <1>1, <1>2, <1>3, <1>5, <1>6
<1>8. Sn(a - b) = Sn(a - Sn(b))
  BY SnOfMultiple, <1>6, <1>7
<1>9. QED
  BY <1>4, <1>8

LEMMA SnSmall ==
    ASSUME NEW n \in Int, - SnMod <= n, n < SnMod
    PROVE  Sn(n) = IF n < 0 THEN n + SnMod ELSE n
<1>1. SnMod \in Nat
  BY Constants
<1>2. CASE n < 0
  <2>1. n = SnMod * (-1) + (n + SnMod) /\ n + SnMod \in 0..(SnMod - 1)
    BY <1>1, <1>2
  <2>2. QED
    BY <1>2, <2>1, SnOfMultiple
<1>3. CASE ~(n < 0)
  <2>1. n = SnMod * 0 + n /\ n \in 0..(SnMod - 1)
    BY <1>1, <1>3
  <2>2. QED
    BY <1>3, <2>1, SnOfMultiple
<1>4. QED
  BY <1>2, <1>3

LEMMA SnLessInOrder ==
    ASSUME NEW a \in Int, NEW b \in Int, a - b < Half, b - a <= Half
    PROVE  SnLess(Sn(a), Sn(b)) <=> a < b
<1>1. SnMod \in Nat /\ Half \in Nat /\ 2 * Half = SnMod /\ Half > 0
  BY Constants
<1>2. Sn(a - b) = IF a - b < 0 THEN a - b + SnMod ELSE a - b
  BY <1>1, SnSmall
<1>3. SnLess(Sn(a), Sn(b)) <=> Sn(a - b) >= Half
  BY SnDifference DEF SnLess, Half
<1>4. QED
  BY <1>1, <1>2, <1>3

LEMMA SnApart ==
    ASSUME NEW a \in Int, NEW b \in Int, a - b < SnMod, b - a < SnMod
    PROVE  Sn(a) = Sn(b) <=> a = b
<1>1. SnMod \in Nat /\ SnMod > 0
  BY Constants
<1>2. ASSUME Sn(a) = Sn(b)
      PROVE  a = b
  <2>1. PICK p \in Int : a = SnMod * p + Sn(a)
    BY SnSplits
  <2>2. PICK q \in Int : b = SnMod * q + Sn(b)
    BY SnSplits
  <2>3. Sn(a) \in Int
    BY SnSplits, <1>1
  <2>4. a - b = SnMod * (p - q)
    BY <1>1, <1>2, <2>1, <2>2, <2>3
  <2>5. p - q \in Int /\ SnMod * (p - q) < SnMod /\ SnMod * (q - p) < SnMod
    BY <1>1, <2>4
  <2>6. p - q < 1 /\ q - p < 1
    BY <1>1, <2>5
  <2>7. QED
    BY <1>1, <2>4, <2>6
<1>3. QED
  BY <1>2
-----------------------------------------------------------------------------
(* The list: where a frame goes in, and how far it is given up.            *)

Sorted(l) == \A i, j \in DOMAIN l : i < j => l[i] < l[j]
In(l, x) == \E i \in DOMAIN l : l[i] = x

LEMMA LeastNumber ==
    ASSUME NEW S \in SUBSET Nat, S # {}
    PROVE  \E m \in S : \A x \in S : m <= x
<1>1. PICK m \in S : \A x \in S : ~(<<x, m>> \in OpToRel(<, Nat))
  BY NatLessThanWellFounded, WFMin
<1>2. OpToRel(<, Nat) = {ss \in Nat \X Nat : ss[1] < ss[2]}
  BY Zenon DEF OpToRel
<1>3. ASSUME NEW x \in S, x < m
      PROVE  FALSE
  <2>1. <<x, m>> \in {ss \in Nat \X Nat : ss[1] < ss[2]}
    BY <1>3
  <2>2. QED
    BY <1>1, <1>2, <2>1
<1>4. QED
  BY <1>3

\* An enumeration from a on has a first member in S if it has one by b.
LEMMA FirstNumber ==
    ASSUME NEW a \in Nat, NEW b \in Nat, NEW S, b \in S, a <= b
    PROVE  \E i \in a..b : i \in S /\ \A j \in a..(i - 1) : j \notin S
<1> DEFINE T == {i \in a..b : i \in S}
<1>1. T \in SUBSET Nat /\ b \in T
  OBVIOUS
<1>2. PICK m \in T : \A x \in T : m <= x
  BY <1>1, LeastNumber
<1>3. ASSUME NEW j \in a..(m - 1), j \in S
      PROVE  FALSE
  <2>1. j \in T
    BY <1>2, <1>3
  <2>2. QED
    BY <1>2, <1>3, <2>1
<1>4. QED
  BY <1>2, <1>3

LEMMA PlaceIsFirst ==
    ASSUME list \in Seq(Frames), NEW sn
    PROVE  /\ Place(sn) \in 1..(Len(list) + 1)
           /\ \A j \in 1..(Place(sn) - 1) : SnLess(Sn(list[j]), sn)
           /\ Place(sn) \in DOMAIN list => ~SnLess(Sn(list[Place(sn)]), sn)
<1> DEFINE S == {i \in 1..(Len(list) + 1) :
                   i \in DOMAIN list => ~SnLess(Sn(list[i]), sn)}
<1>1. /\ Len(list) \in Nat /\ DOMAIN list = 1..Len(list)
      /\ 1 \in Nat /\ Len(list) + 1 \in Nat /\ 1 <= Len(list) + 1
  OBVIOUS
<1>2. Len(list) + 1 \in S
  BY <1>1
<1>3. PICK i \in 1..(Len(list) + 1) : i \in S /\ \A j \in 1..(i - 1) : j \notin S
  <2> HIDE DEF S
  <2>1. QED
    BY <1>1, <1>2, FirstNumber
<1>4. \A j \in 1..(i - 1) : SnLess(Sn(list[j]), sn)
  BY <1>1, <1>3
<1>5. i \in DOMAIN list => ~SnLess(Sn(list[i]), sn)
  BY <1>3
<1>6. QED
  BY Zenon, <1>3, <1>4, <1>5 DEF Place

LEMMA FirstAheadIsFirst ==
    ASSUME NEW l \in Seq(Frames), NEW ind
    PROVE  /\ FirstAhead(l, ind) \in 1..(Len(l) + 1)
           /\ \A j \in 1..(FirstAhead(l, ind) - 1) : ~SnLess(ind, Sn(l[j]))
           /\ FirstAhead(l, ind) \in DOMAIN l => SnLess(ind, Sn(l[FirstAhead(l, ind)]))
<1> DEFINE S == {i \in 1..(Len(l) + 1) : i \in DOMAIN l => SnLess(ind, Sn(l[i]))}
<1>1. /\ Len(l) \in Nat /\ DOMAIN l = 1..Len(l)
      /\ 1 \in Nat /\ Len(l) + 1 \in Nat /\ 1 <= Len(l) + 1
  OBVIOUS
<1>2. Len(l) + 1 \in S
  BY <1>1
<1>3. PICK i \in 1..(Len(l) + 1) : i \in S /\ \A j \in 1..(i - 1) : j \notin S
  <2> HIDE DEF S
  <2>1. QED
    BY <1>1, <1>2, FirstNumber
<1>4. \A j \in 1..(i - 1) : ~SnLess(ind, Sn(l[j]))
  BY <1>1, <1>3
<1>5. i \in DOMAIN l => SnLess(ind, Sn(l[i]))
  BY <1>3
<1>6. QED
  BY Zenon, <1>3, <1>4, <1>5 DEF FirstAhead

LEMMA FollowingIsFirst ==
    ASSUME NEW l, NEW ind, NEW b \in 0..WSize, ~Has(l, (ind + b) % SnMod)
    PROVE  /\ Following(l, ind) \in 0..b
           /\ \A j \in 0..(Following(l, ind) - 1) : Has(l, (ind + j) % SnMod)
           /\ ~Has(l, (ind + Following(l, ind)) % SnMod)
<1> DEFINE S == {k \in 0..WSize : ~Has(l, (ind + k) % SnMod)}
<1>1. WSize \in Nat /\ b \in S /\ 0 \in Nat /\ b \in Nat /\ 0 <= b
  BY Constants
<1>2. PICK k \in 0..b : k \in S /\ \A j \in 0..(k - 1) : j \notin S
  <2> HIDE DEF S
  <2>1. QED
    BY <1>1, FirstNumber
<1>3. \A j \in 0..(k - 1) : Has(l, (ind + j) % SnMod)
  BY <1>1, <1>2
<1>4. k \in 0..WSize /\ ~Has(l, (ind + k) % SnMod)
  BY <1>2
<1>5. /\ Following(l, ind) \in 0..WSize
      /\ \A j \in 0..(Following(l, ind) - 1) : Has(l, (ind + j) % SnMod)
      /\ ~Has(l, (ind + Following(l, ind)) % SnMod)
  BY Zenon, <1>3, <1>4 DEF Following
<1>6. Following(l, ind) <= b
  BY <1>1, <1>5
<1>7. QED
  BY <1>1, <1>5, <1>6

\* InsertAt, place by place.
LEMMA Inserted ==
    ASSUME NEW l \in Seq(Frames), NEW n \in Frames, NEW p \in 1..(Len(l) + 1)
    PROVE  LET m == InsertAt(l, p, n)
           IN  /\ m \in Seq(Frames) /\ Len(m) = Len(l) + 1
               /\ \A i \in 1..(p - 1) : m[i] = l[i]
               /\ m[p] = n
               /\ \A i \in (p + 1)..Len(m) : m[i] = l[i - 1]
<1> DEFINE a == SubSeq(l, 1, p - 1)
           b == SubSeq(l, p, Len(l))
<1>1. Len(l) \in Nat /\ \A i \in 1..Len(l) : l[i] \in Frames
  OBVIOUS
<1>2. a \in Seq(Frames) /\ Len(a) = p - 1 /\ \A i \in 1..(p - 1) : a[i] = l[i]
  BY <1>1
<1>3. /\ b \in Seq(Frames) /\ Len(b) = Len(l) - p + 1
      /\ \A i \in 1..Len(b) : b[i] = l[i + p - 1]
  BY <1>1
<1> DEFINE c == a \o <<n>>
<1> HIDE DEF a, b
<1>4. /\ c \in Seq(Frames) /\ Len(c) = p
      /\ \A i \in 1..(p - 1) : c[i] = l[i]
      /\ c[p] = n
  BY <1>2
<1> HIDE DEF c
<1>5. /\ c \o b \in Seq(Frames) /\ Len(c \o b) = Len(l) + 1
      /\ \A i \in 1..p : (c \o b)[i] = c[i]
      /\ \A i \in (p + 1)..(Len(l) + 1) : (c \o b)[i] = b[i - p]
  BY <1>1, <1>3, <1>4
<1>6. \A i \in (p + 1)..(Len(l) + 1) : b[i - p] = l[i - 1]
  BY <1>1, <1>3
<1>7. InsertAt(l, p, n) = c \o b
  BY DEF InsertAt, a, b, c
<1>8. QED
  BY <1>1, <1>4, <1>5, <1>6, <1>7

\* A frame that is not held yet goes in where the order of the stream wants it.
LEMMA EnqueuedInOrder ==
    ASSUME list \in Seq(Frames), Sorted(list), NEW n \in Frames, ~In(list, n),
           \A i \in DOMAIN list : list[i] - n < Half /\ n - list[i] < Half
    PROVE  /\ Enqueued(n) \in Seq(Frames) /\ Sorted(Enqueued(n))
           /\ \A x : In(Enqueued(n), x) <=> (x = n \/ In(list, x))
<1> DEFINE p == Place(Sn(n))
           m == Enqueued(n)
<1>1. Len(list) \in Nat /\ DOMAIN list = 1..Len(list) /\ n \in Int
  BY Constants DEF Frames
<1>2. \A i \in DOMAIN list : list[i] \in Int /\ list[i] # n
  BY <1>1, Constants DEF Frames, In
<1>3. \A i \in DOMAIN list : SnLess(Sn(list[i]), Sn(n)) <=> list[i] < n
  BY <1>1, <1>2, SnLessInOrder, Constants
<1>4. /\ p \in 1..(Len(list) + 1)
      /\ \A j \in 1..(p - 1) : SnLess(Sn(list[j]), Sn(n))
      /\ p \in DOMAIN list => ~SnLess(Sn(list[p]), Sn(n))
  BY PlaceIsFirst
<1> HIDE DEF p
<1>5. \A j \in 1..(p - 1) : list[j] < n
  BY <1>1, <1>3, <1>4
<1>6. \A j \in p..Len(list) : n < list[j]
  <2>1. p \in DOMAIN list => n < list[p]
    BY <1>1, <1>2, <1>3, <1>4
  <2>2. ASSUME NEW j \in p..Len(list)
        PROVE  n < list[j]
    <3>1. p \in DOMAIN list /\ j \in DOMAIN list
      BY <1>1, <1>4
    <3>2. j = p \/ list[p] < list[j]
      BY <1>1, <1>4, <3>1 DEF Sorted
    <3>3. QED
      BY <1>1, <1>2, <2>1, <3>1, <3>2
  <2>3. QED
    BY <2>2
<1>7. /\ m \in Seq(Frames) /\ Len(m) = Len(list) + 1
      /\ \A i \in 1..(p - 1) : m[i] = list[i]
      /\ m[p] = n
      /\ \A i \in (p + 1)..Len(m) : m[i] = list[i - 1]
  BY <1>4, Inserted DEF Enqueued, p
<1> HIDE DEF m
<1>8. Sorted(m)
  <2>1. SUFFICES ASSUME NEW i \in 1..Len(m), NEW j \in 1..Len(m), i < j
                 PROVE  m[i] < m[j]
    BY <1>7 DEF Sorted
  <2>2. CASE j < p
    BY <1>1, <1>4, <1>7, <2>1, <2>2 DEF Sorted
  <2>3. CASE j = p
    BY <1>1, <1>4, <1>5, <1>7, <2>1, <2>3
  <2>4. CASE i < p /\ p < j
    <3>1. m[i] = list[i] /\ m[j] = list[j - 1] /\ i \in DOMAIN list /\ j - 1 \in DOMAIN list
      BY <1>1, <1>4, <1>7, <2>1, <2>4
    <3>2. i < j - 1
      BY <1>1, <1>4, <2>4
    <3>3. QED
      BY <3>1, <3>2 DEF Sorted
  <2>5. CASE i = p
    BY <1>1, <1>4, <1>6, <1>7, <2>1, <2>5
  <2>6. CASE p < i
    <3>1. m[i] = list[i - 1] /\ m[j] = list[j - 1] /\ i - 1 \in DOMAIN list /\ j - 1 \in DOMAIN list
      BY <1>1, <1>4, <1>7, <2>1, <2>6
    <3>2. i - 1 < j - 1
      BY <2>1, <1>7
    <3>3. QED
      BY <3>1, <3>2 DEF Sorted
  <2>7. QED
    BY <1>1, <1>4, <1>7, <2>1, <2>2, <2>3, <2>4, <2>5, <2>6
<1>9. ASSUME NEW x
      PROVE  In(m, x) <=> (x = n \/ In(list, x))
  <2>1. ASSUME NEW i \in DOMAIN m, m[i] = x
        PROVE  x = n \/ In(list, x)
    <3>1. i \in 1..Len(m)
      BY <1>7, <2>1
    <3>2. CASE i < p
      <4>1. i \in DOMAIN list /\ list[i] = x
        BY <1>1, <1>4, <1>7, <2>1, <3>1, <3>2
      <4>2. QED
        BY <4>1 DEF In
    <3>3. CASE i = p
      BY <1>7, <2>1, <3>3
    <3>4. CASE p < i
      <4>1. i - 1 \in DOMAIN list /\ list[i - 1] = x
        BY <1>1, <1>4, <1>7, <2>1, <3>1, <3>4
      <4>2. QED
        BY <4>1 DEF In
    <3>5. QED
      BY <1>4, <3>1, <3>2, <3>3, <3>4
  <2>2. ASSUME NEW i \in DOMAIN list, list[i] = x
        PROVE  In(m, x)
    <3>1. CASE i < p
      <4>1. i \in DOMAIN m /\ m[i] = x
        BY <1>1, <1>4, <1>7, <2>2, <3>1
      <4>2. QED
        BY <4>1 DEF In
    <3>2. CASE p <= i
      <4>1. i + 1 \in DOMAIN m /\ m[i + 1] = list[(i + 1) - 1] /\ (i + 1) - 1 = i
        BY <1>1, <1>4, <1>7, <2>2, <3>2
      <4>2. QED
        BY <2>2, <4>1 DEF In
    <3>3. QED
      BY <1>1, <1>4, <2>2, <3>1, <3>2
  <2>3. In(m, n)
    <3>1. p \in DOMAIN m
      BY <1>1, <1>4, <1>7
    <3>2. QED
      BY <1>7, <3>1 DEF In
  <2>4. QED
    BY <2>1, <2>2, <2>3 DEF In
<1>10. QED
  BY <1>7, <1>8, <1>9 DEF m

\* A sequence cut after its first c members.
LEMMA Cut ==
    ASSUME NEW l \in Seq(Frames), NEW c \in 0..Len(l)
    PROVE  /\ SubSeq(l, 1, c) \in Seq(Frames) /\ Len(SubSeq(l, 1, c)) = c
           /\ \A i \in 1..c : SubSeq(l, 1, c)[i] = l[i]
           /\ SubSeq(l, c + 1, Len(l)) \in Seq(Frames)
           /\ Len(SubSeq(l, c + 1, Len(l))) = Len(l) - c
           /\ \A i \in 1..(Len(l) - c) : SubSeq(l, c + 1, Len(l))[i] = l[i + c]
<1>1. Len(l) \in Nat /\ \A i \in 1..Len(l) : l[i] \in Frames
  OBVIOUS
<1>2. /\ SubSeq(l, 1, c) \in Seq(Frames) /\ Len(SubSeq(l, 1, c)) = c
      /\ \A i \in 1..c : SubSeq(l, 1, c)[i] = l[i]
  BY <1>1
<1>3. \A p \in 1..(Len(l) + 1) :
         /\ SubSeq(l, p, Len(l)) \in Seq(Frames)
         /\ Len(SubSeq(l, p, Len(l))) = Len(l) - p + 1
         /\ \A i \in 1..(Len(l) - p + 1) : SubSeq(l, p, Len(l))[i] = l[i + p - 1]
  BY <1>1
<1>4. QED
  BY <1>1, <1>2, <1>3

\* What Release does to a list in order, told in frames: from e on, the frames
\* in a row count as come, up to f; what is older than f goes up.
Released(l, e, m, f, c) ==
    /\ indSn' = Sn(f)
    /\ \A x \in e..(f - 1) : In(l, x)
    /\ ~In(l, f)
    /\ \A i \in 1..c : l[i] < f
    /\ \A i \in (c + 1)..Len(l) : f < l[i]
    /\ list' = SubSeq(l, c + 1, Len(l))
    /\ out' = Delivered("list", SubSeq(l, 1, c))
    /\ top' = IF c = 0 THEN top ELSE l[c]

LEMMA ReleaseInFrames ==
    ASSUME NEW l \in Seq(Frames), Sorted(l), NEW e \in Nat, NEW m \in Nat,
           e <= m + 1, m + 1 - e <= WSize,
           \A i \in DOMAIN l : l[i] <= m /\ m + 1 - l[i] < Half,
           Release(l, Sn(e))
    PROVE  \E f \in e..(m + 1), c \in 0..Len(l) : Released(l, e, m, f, c)
<1>1. /\ Len(l) \in Nat /\ DOMAIN l = 1..Len(l)
      /\ \A i \in DOMAIN l : l[i] \in Nat
  BY Constants DEF Frames
<1>2. \A x \in e..(m + 1) : Has(l, Sn(x)) <=> In(l, x)
  <2>1. ASSUME NEW x \in e..(m + 1), NEW i \in DOMAIN l
        PROVE  Sn(l[i]) = Sn(x) <=> l[i] = x
    <3>1. x \in Int /\ l[i] \in Int /\ l[i] - x < SnMod /\ x - l[i] < SnMod
      BY <1>1, Constants
    <3>2. QED
      BY <3>1, SnApart
  <2>2. QED
    BY <2>1 DEF Has, In
<1>3. \A j \in Nat : (Sn(e) + j) % SnMod = Sn(e + j)
  BY SnPlus
<1> DEFINE b == m + 1 - e
           k == Following(l, Sn(e))
           f == e + k
<1>4. b \in 0..WSize /\ b \in Nat /\ e + b = m + 1
  BY Constants
<1>5. ~Has(l, (Sn(e) + b) % SnMod)
  <2>1. ~In(l, m + 1)
    BY <1>1 DEF In
  <2>2. m + 1 \in e..(m + 1)
    OBVIOUS
  <2>3. ~Has(l, Sn(m + 1))
    BY <1>2, <2>1, <2>2
  <2>4. QED
    BY <1>3, <1>4, <2>3
<1>6. /\ k \in 0..b
      /\ \A j \in 0..(k - 1) : Has(l, (Sn(e) + j) % SnMod)
      /\ ~Has(l, (Sn(e) + k) % SnMod)
  <2> HIDE DEF b
  <2>1. QED
    BY <1>4, <1>5, FollowingIsFirst
<1> HIDE DEF k
<1>7. f \in e..(m + 1) /\ f \in Nat
  BY <1>4, <1>6
<1>8. \A x \in e..(f - 1) : In(l, x)
  <2>1. ASSUME NEW x \in e..(f - 1)
        PROVE  In(l, x)
    <3>1. x - e \in 0..(k - 1) /\ x - e \in Nat /\ e + (x - e) = x /\ x \in e..(m + 1)
      BY <1>4, <1>6, <2>1
    <3>2. Has(l, Sn(x))
      BY <1>3, <1>6, <3>1
    <3>3. QED
      BY <1>2, <3>1, <3>2
  <2>2. QED
    BY <2>1
<1>9. ~In(l, f)
  <2>1. ~Has(l, Sn(f))
    BY <1>3, <1>4, <1>6
  <2>2. QED
    BY <1>2, <1>7, <2>1
<1>10. indSn' = Sn(f)
  BY <1>3, <1>4, <1>6 DEF Release, Advanced, k
<1>11. \A i \in DOMAIN l : SnLess(Sn(f), Sn(l[i])) <=> f < l[i]
  <2>1. ASSUME NEW i \in DOMAIN l
        PROVE  SnLess(Sn(f), Sn(l[i])) <=> f < l[i]
    <3>1. f \in Int /\ l[i] \in Int /\ f - l[i] < Half /\ l[i] - f <= Half
      BY <1>1, <1>7, Constants
    <3>2. QED
      BY <3>1, SnLessInOrder
  <2>2. QED
    BY <2>1
<1> DEFINE c == FirstAhead(l, Sn(f)) - 1
<1>12. /\ c \in 0..Len(l)
       /\ \A j \in 1..c : ~SnLess(Sn(f), Sn(l[j]))
       /\ c + 1 \in DOMAIN l => SnLess(Sn(f), Sn(l[c + 1]))
       /\ FirstAhead(l, Sn(f)) = c + 1
  <2>1. /\ FirstAhead(l, Sn(f)) \in 1..(Len(l) + 1)
        /\ \A j \in 1..(FirstAhead(l, Sn(f)) - 1) : ~SnLess(Sn(f), Sn(l[j]))
        /\ FirstAhead(l, Sn(f)) \in DOMAIN l =>
             SnLess(Sn(f), Sn(l[FirstAhead(l, Sn(f))]))
    BY FirstAheadIsFirst
  <2>2. QED
    BY <1>1, <2>1
<1> HIDE DEF c
<1>13. c \in 0..Len(l)
  BY <1>12
<1>14. \A i \in 1..c : l[i] < f
  <2>1. ASSUME NEW i \in 1..c
        PROVE  l[i] < f
    <3>1. i \in DOMAIN l
      BY <1>1, <1>13, <2>1
    <3>2. ~(f < l[i])
      BY <1>11, <1>12, <3>1
    <3>3. l[i] # f
      BY <1>9, <3>1 DEF In
    <3>4. QED
      BY <1>1, <1>7, <3>1, <3>2, <3>3
  <2>2. QED
    BY <2>1
<1>15. \A i \in (c + 1)..Len(l) : f < l[i]
  <2>1. ASSUME NEW i \in (c + 1)..Len(l)
        PROVE  f < l[i]
    <3>1. i \in DOMAIN l /\ c + 1 \in DOMAIN l /\ f < l[c + 1]
      BY <1>1, <1>11, <1>12, <1>13
    <3>2. i = c + 1 \/ l[c + 1] < l[i]
      BY <1>13, <3>1 DEF Sorted
    <3>3. QED
      BY <1>1, <1>7, <3>1, <3>2
  <2>2. QED
    BY <2>1
<1>16. list' = SubSeq(l, c + 1, Len(l))
  BY <1>10, <1>12 DEF Release, Waiting
<1>17. Len(l) - Len(list') = c
  <2>1. Len(SubSeq(l, c + 1, Len(l))) = Len(l) - c
    BY <1>13, Cut
  <2>2. Len(list') = Len(l) - c
    BY Zenon, <1>16, <2>1
  <2>3. QED
    BY <1>1, <1>13, <2>2
<1>18. out' = Delivered("list", SubSeq(l, 1, c))
  BY <1>17 DEF Release
<1>19. top' = IF c = 0 THEN top ELSE l[c]
  <2> DEFINE ready == SubSeq(l, 1, c)
  <2>1. top' = IF ready = <<>> THEN top ELSE ready[Len(ready)]
    BY <1>17 DEF Release
  <2>2. Len(ready) = c /\ (c = 0 <=> ready = <<>>) /\ (c > 0 => ready[c] = l[c])
    BY <1>1, <1>13
  <2>3. QED
    BY <1>13, <2>1, <2>2
<1>20. QED
  BY <1>7, <1>8, <1>9, <1>10, <1>13, <1>14, <1>15, <1>16, <1>18, <1>19 DEF Released
-----------------------------------------------------------------------------
(* The inductive invariant.  The numbers only make sense because there is  *)
(* a frame e that indSn is the number of, and everything the numbers are   *)
(* compared with is near e: what is held comes after it, within the window *)
(* of the newest frame, and what may still come is not far from it either. *)
(* Between a flush, or the start, and the first frame there is no e.       *)

Fresh ==
    /\ newest = None /\ top = None /\ list = <<>>
    /\ enable => indSn = None

Flowing(e) ==
    /\ enable
    /\ newest \in Frames /\ top \in Frames
    /\ indSn = Sn(e)
    /\ top < e /\ newest - WSize + 1 <= e /\ e <= newest + 1
    /\ e = top + 1 \/ e <= newest - WSize + 1
    /\ Sorted(list)
    /\ \A i \in DOMAIN list : e < list[i] /\ list[i] <= newest
    /\ newest - WSize < base /\ base <= newest + MaxLost + 1

IInv == TypeOK /\ (Fresh \/ \E e \in 1..StreamLen : Flowing(e))

\* What is expected once frame n has come, which is not older than e.
After(e, n) ==
    IF n = e THEN e + 1 ELSE IF e + WSize - 1 < n THEN n - WSize + 1 ELSE e

LEMMA FramesAreNumbers ==
    /\ Frames \subseteq Nat /\ Frames \subseteq Int
    /\ None \in Int /\ None \notin Frames /\ None < 0
    /\ \A n \in Frames : n + 1 \in 1..StreamLen
  BY Constants DEF Frames, None

LEMMA NumbersOfFrames ==
    ASSUME TypeOK
    PROVE  /\ \A i \in DOMAIN list : list[i] \in Frames /\ list[i] \in Nat
           /\ base \in Nat /\ newest \in Int /\ top \in Int
<1>1. list \in Seq(Frames) /\ base \in Nat
  BY Constants DEF TypeOK
<1>2. \A i \in DOMAIN list : list[i] \in Frames
  BY <1>1
<1>3. newest \in Int /\ top \in Int
  BY FramesAreNumbers DEF TypeOK
<1>4. QED
  BY <1>1, <1>2, <1>3, FramesAreNumbers

\* A frame of the sender's window is not far from the expected one.
LEMMA Near ==
    ASSUME TypeOK, NEW e \in 1..StreamLen, Flowing(e), NEW n \in Frames, InWindow(n)
    PROVE  /\ n - e < MaxLost + 2 * WSize /\ e - n <= WSize
           /\ newest - WSize < n
           /\ \A i \in DOMAIN list : list[i] - n < Half /\ n - list[i] < Half
<1>1. /\ n \in Int /\ e \in Int /\ newest \in Int /\ base \in Int
      /\ WSize \in Int /\ MaxLost \in Int
      /\ \A i \in DOMAIN list : list[i] \in Int
  BY NumbersOfFrames, FramesAreNumbers, Constants
<1>2. /\ newest - WSize < base /\ base <= newest + MaxLost + 1
      /\ newest - WSize + 1 <= e /\ e <= newest + 1
      /\ base <= n /\ n < base + WSize
  BY DEF Flowing, InWindow
<1>3. n - e < MaxLost + 2 * WSize /\ e - n <= WSize /\ newest - WSize < n
  BY <1>1, <1>2
<1>4. ASSUME NEW i \in DOMAIN list
      PROVE  list[i] - n < Half /\ n - list[i] < Half
  <2>1. e < list[i] /\ list[i] <= newest
    BY DEF Flowing
  <2>2. QED
    BY <1>1, <1>2, <1>3, <2>1, Constants
<1>5. QED
  BY <1>3, <1>4

\* What reord_need_check and reord_rxframe_enqueue find out from numbers, told
\* in frames.
LEMMA CheckedInFrames ==
    ASSUME TypeOK, NEW e \in 1..StreamLen, Flowing(e), NEW n \in Frames, InWindow(n)
    PROVE  /\ Late(Sn(n)) <=> n < e
           /\ Held(Sn(n)) <=> In(list, n)
           /\ e <= n => Checked(Sn(n)) = Sn(After(e, n))
<1>1. /\ n \in Int /\ e \in Int /\ newest \in Int
      /\ WSize \in Int /\ MaxLost \in Int /\ SnMod \in Int /\ Half \in Int
      /\ n \in Nat
      /\ \A i \in DOMAIN list : list[i] \in Int
  BY NumbersOfFrames, FramesAreNumbers, Constants
<1>2. /\ n - e < MaxLost + 2 * WSize /\ e - n <= WSize
      /\ \A i \in DOMAIN list : list[i] - n < Half /\ n - list[i] < Half
  BY Near
<1>3. MaxLost + 2 * WSize <= Half /\ WSize <= Half /\ Half < SnMod /\ 2 * Half = SnMod
  BY Constants
<1>4. indSn = Sn(e) /\ indSn \in 0..(SnMod - 1) /\ Sn(n) \in 0..(SnMod - 1)
  BY <1>1, SnSplits DEF Flowing
<1>5. Expected(Sn(n)) = Sn(e)
  BY <1>1, <1>4 DEF Expected, None
<1>6. Late(Sn(n)) <=> n < e
  BY <1>1, <1>2, <1>3, <1>5, SnLessInOrder DEF Late
<1>7. Held(Sn(n)) <=> In(list, n)
  <2>1. ASSUME NEW i \in DOMAIN list
        PROVE  Sn(list[i]) = Sn(n) <=> list[i] = n
    <3>1. list[i] - n < SnMod /\ n - list[i] < SnMod
      BY <1>1, <1>2, <1>3, <2>1
    <3>2. QED
      BY <1>1, <3>1, SnApart
  <2>2. QED
    BY <2>1 DEF Held, Has, In
<1>8. ASSUME e <= n
      PROVE  Checked(Sn(n)) = Sn(After(e, n))
  <2>1. Sn(n) = Sn(e) <=> n = e
    BY <1>1, <1>2, <1>3, SnApart
  <2>2. CASE n = e
    <3>1. Checked(Sn(n)) = (Sn(n) + 1) % SnMod
      BY <1>5, <2>1, <2>2 DEF Checked
    <3>2. (Sn(n) + 1) % SnMod = Sn(n + 1)
      BY <1>1, SnPlus
    <3>3. QED
      BY <2>2, <3>1, <3>2 DEF After
  <2>3. CASE n # e
    <3>1. WindowEnd = Sn(e + WSize - 1)
      <4>1. WSize - 1 \in Int /\ e + (WSize - 1) = e + WSize - 1
        BY <1>1
      <4>2. (Sn(e) + (WSize - 1)) % SnMod = Sn(e + (WSize - 1))
        BY <1>1, <4>1, SnPlus
      <4>3. indSn + WSize - 1 = Sn(e) + (WSize - 1)
        BY <1>1, <1>4
      <4>4. QED
        BY <4>1, <4>2, <4>3 DEF WindowEnd
    <3>2. SnLess(WindowEnd, Sn(n)) <=> e + WSize - 1 < n
      <4>1. /\ e + WSize - 1 \in Int
            /\ e + WSize - 1 - n < Half /\ n - (e + WSize - 1) <= Half
        BY <1>1, <1>2, <1>3, <1>8, Constants
      <4>2. QED
        BY <1>1, <3>1, <4>1, SnLessInOrder
    <3>3. SlideTo(Sn(n)) = Sn(n - WSize + 1)
      <4>1. n - WSize + 1 = n + (1 - WSize) /\ 1 - WSize \in Int
        BY <1>1
      <4>2. Sn(n - WSize + 1) = (Sn(n) + (1 - WSize)) % SnMod
        BY <1>1, <4>1, SnPlus
      <4>3. Sn(n) + (1 - WSize) \in Int
        BY <1>1, <1>4
      <4>4. /\ - SnMod <= Sn(n) + (1 - WSize)
            /\ Sn(n) + (1 - WSize) < SnMod
        BY <1>1, <1>3, <1>4, Constants
      <4>5. Sn(Sn(n) + (1 - WSize)) =
              IF Sn(n) + (1 - WSize) < 0 THEN Sn(n) + (1 - WSize) + SnMod
                                         ELSE Sn(n) + (1 - WSize)
        BY <4>3, <4>4, SnSmall
      <4>6. SlideTo(Sn(n)) =
              IF Sn(n) + (1 - WSize) < 0 THEN Sn(n) + (1 - WSize) + SnMod
                                         ELSE Sn(n) + (1 - WSize)
        BY <1>1, <1>4 DEF SlideTo
      <4>7. (Sn(n) + (1 - WSize)) % SnMod = Sn(Sn(n) + (1 - WSize))
        BY DEF Sn
      <4>8. QED
        BY <4>2, <4>5, <4>6, <4>7
    <3>4. CASE e + WSize - 1 < n
      <4>1. Checked(Sn(n)) = SlideTo(Sn(n))
        BY <1>5, <2>1, <2>3, <3>2, <3>4 DEF Checked
      <4>2. After(e, n) = n - WSize + 1
        BY <2>3, <3>4 DEF After
      <4>3. QED
        BY <3>3, <4>1, <4>2
    <3>5. CASE ~(e + WSize - 1 < n)
      <4>1. Checked(Sn(n)) = Sn(e)
        BY <1>5, <2>1, <2>3, <3>2, <3>5 DEF Checked
      <4>2. QED
        BY <2>3, <3>5, <4>1 DEF After
    <3>6. QED
      BY <3>4, <3>5
  <2>4. QED
    BY <2>2, <2>3
<1>9. QED
  BY <1>6, <1>7, <1>8
-----------------------------------------------------------------------------
(* What a release delivers, and what it leaves.                            *)

LEMMA ReleaseLeaves ==
    ASSUME NEW l \in Seq(Frames), Sorted(l), NEW e \in Nat, NEW m \in Frames,
           \A i \in DOMAIN l : l[i] <= m,
           NEW f \in e..(m + 1), NEW c \in 0..Len(l), Released(l, e, m, f, c)
    PROVE  /\ list' \in Seq(Frames) /\ Sorted(list')
           /\ \A i \in DOMAIN list' : f < list'[i] /\ list'[i] <= m
           /\ indSn' \in 0..(SnMod - 1)
           /\ out'.how \in {"none", "list"} /\ out'.what \in Seq(Frames)
           /\ In(l, f - 1) => top' = f - 1
           /\ c = 0 => top' = top
           /\ c # 0 => top' \in Frames /\ top' < f
<1>1. /\ Len(l) \in Nat /\ DOMAIN l = 1..Len(l) /\ m \in Nat /\ f \in Int
      /\ \A i \in DOMAIN l : l[i] \in Frames /\ l[i] \in Nat
  <2>1. Len(l) \in Nat /\ DOMAIN l = 1..Len(l) /\ \A i \in DOMAIN l : l[i] \in Frames
    OBVIOUS
  <2>2. m \in Nat /\ f \in Int
    BY FramesAreNumbers
  <2>3. \A i \in DOMAIN l : l[i] \in Nat
    BY <2>1, FramesAreNumbers
  <2>4. QED
    BY <2>1, <2>2, <2>3
<1> DEFINE rest == SubSeq(l, c + 1, Len(l))
           ready == SubSeq(l, 1, c)
<1>2. /\ ready \in Seq(Frames) /\ Len(ready) = c
      /\ rest \in Seq(Frames) /\ Len(rest) = Len(l) - c
      /\ \A i \in 1..(Len(l) - c) : rest[i] = l[i + c]
  BY Cut
<1>3. list' = rest /\ out' = Delivered("list", ready)
  BY DEF Released
<1> HIDE DEF rest, ready
<1>4. /\ DOMAIN rest = 1..(Len(l) - c)
      /\ \A i \in DOMAIN rest : i + c \in (c + 1)..Len(l) /\ i + c \in DOMAIN l /\ rest[i] = l[i + c]
  BY <1>1, <1>2
<1>5. Sorted(rest)
  <2>1. SUFFICES ASSUME NEW i \in DOMAIN rest, NEW j \in DOMAIN rest, i < j
                 PROVE  rest[i] < rest[j]
    BY DEF Sorted
  <2>2. i + c < j + c
    BY <1>1, <1>4, <2>1
  <2>3. QED
    BY <1>4, <2>1, <2>2 DEF Sorted
<1>6. \A i \in DOMAIN rest : f < rest[i] /\ rest[i] <= m
  BY <1>4 DEF Released
<1>7. indSn' \in 0..(SnMod - 1)
  BY <1>1, SnSplits DEF Released
<1>8. out'.how \in {"none", "list"} /\ out'.what \in Seq(Frames)
  BY <1>2, <1>3 DEF Delivered, Nothing
<1>9. c = 0 => top' = top
  BY DEF Released
<1>10. c # 0 => top' = l[c] /\ l[c] \in Frames /\ l[c] < f
  BY <1>1 DEF Released
<1>11. In(l, f - 1) => top' = f - 1
  <2>1. SUFFICES ASSUME NEW i \in DOMAIN l, l[i] = f - 1
                 PROVE  top' = f - 1
    BY DEF In
  <2>2. i <= c
    <3>1. ~(i \in (c + 1)..Len(l))
      BY <1>1, <2>1 DEF Released
    <3>2. QED
      BY <1>1, <2>1, <3>1
  <2>3. i = c \/ l[i] < l[c]
    BY <1>1, <2>1, <2>2 DEF Sorted
  <2>4. c \in DOMAIN l /\ c # 0
    BY <1>1, <2>1, <2>2
  <2>5. QED
    BY <1>1, <1>10, <2>1, <2>3, <2>4
<1>12. /\ list' \in Seq(Frames) /\ Sorted(list')
       /\ \A i \in DOMAIN list' : f < list'[i] /\ list'[i] <= m
  BY Zenon, <1>2, <1>3, <1>5, <1>6
<1>13. c # 0 => top' \in Frames /\ top' < f
  BY Zenon, <1>10
<1>14. QED
  BY <1>7, <1>8, <1>9, <1>11, <1>12, <1>13

\* A list in order, after a frame older than all of it.
LEMMA HeadedInOrder ==
    ASSUME NEW l \in Seq(Frames), Sorted(l), NEW t \in Int, \A i \in DOMAIN l : t < l[i]
    PROVE  /\ Increasing(<<t>> \o l)
           /\ Len(<<t>> \o l) = Len(l) + 1 /\ (<<t>> \o l)[1] = t
           /\ \A i \in 2..(Len(l) + 1) : i - 1 \in DOMAIN l /\ (<<t>> \o l)[i] = l[i - 1]
<1> DEFINE s == <<t>> \o l
<1>1. /\ Len(l) \in Nat /\ DOMAIN l = 1..Len(l)
      /\ \A i \in DOMAIN l : l[i] \in Frames
  OBVIOUS
<1>2. \A i \in DOMAIN l : l[i] \in Int
  BY <1>1, FramesAreNumbers
<1>3. l \in Seq(Int)
  BY <1>1, <1>2
<1>4. /\ Len(s) = Len(l) + 1 /\ s[1] = t
      /\ \A i \in 2..(Len(l) + 1) : i - 1 \in DOMAIN l /\ s[i] = l[i - 1]
  BY <1>1, <1>3
<1> HIDE DEF s
<1>5. ASSUME NEW i \in 1..(Len(s) - 1)
      PROVE  s[i] < s[i + 1]
  <2>1. /\ i + 1 \in 2..(Len(l) + 1) /\ (i + 1) - 1 = i /\ i \in DOMAIN l
        /\ s[i + 1] = l[i]
    BY <1>1, <1>4
  <2>2. CASE i = 1
    BY <1>4, <2>1, <2>2
  <2>3. CASE i # 1
    <3>1. i \in 2..(Len(l) + 1) /\ i - 1 < i
      BY <2>1, <2>3
    <3>2. i - 1 \in DOMAIN l /\ s[i] = l[i - 1]
      BY <1>4, <3>1
    <3>3. l[i - 1] < l[i]
      BY <2>1, <3>1, <3>2 DEF Sorted
    <3>4. QED
      BY <2>1, <3>2, <3>3
  <2>4. QED
    BY <2>2, <2>3
<1>6. Increasing(s)
  BY <1>5 DEF Increasing
<1>7. QED
  BY <1>4, <1>6 DEF s
-----------------------------------------------------------------------------
(* The actions that release.                                               *)

\* The first frame of all, or after a flush, goes up at once.
LEMMA FirstFrame ==
    ASSUME TypeOK, Fresh, NEW n \in Frames, HoldFrame(n)
    PROVE  /\ enable' /\ list' = <<>> /\ top' = n /\ newest' = n
           /\ indSn' = Sn(n + 1) /\ indSn' \in 0..(SnMod - 1)
           /\ base <= n /\ n < base + WSize
           /\ out'.how \in {"none", "list"} /\ out'.what \in Seq(Frames)
           /\ \E l \in Seq(Frames) :
                 /\ Sorted(l) /\ \A i \in DOMAIN l : l[i] = n
                 /\ \E f \in (n + 1)..(n + 1), c \in 0..Len(l) : Released(l, n + 1, n, f, c)
<1> DEFINE l == Enqueued(n)
<1>1. /\ n \in Nat /\ n + 1 \in Nat /\ n < StreamLen
      /\ None < 0 /\ None \in Int /\ list = <<>> /\ newest = None /\ top = None
  BY FramesAreNumbers, Constants DEF Fresh, Frames
<1>2. l \in Seq(Frames) /\ Sorted(l) /\ \A x : In(l, x) <=> x = n
  <2>1. Sorted(list) /\ \A x : ~In(list, x)
    BY <1>1 DEF Sorted, In
  <2>2. \A i \in DOMAIN list : list[i] - n < Half /\ n - list[i] < Half
    BY <1>1
  <2>3. list \in Seq(Frames)
    BY <1>1
  <2>4. QED
    BY <2>1, <2>2, <2>3, EnqueuedInOrder
<1>3. Ind(n) = Sn(n + 1)
  <2>1. (Sn(n) + 1) % SnMod = Sn(n + 1)
    BY <1>1, SnPlus
  <2>2. enable => Checked(Sn(n)) = (Sn(n) + 1) % SnMod
    BY DEF Fresh, Checked, Expected
  <2>3. QED
    BY <2>1, <2>2 DEF Ind
<1>4. Release(l, Sn(n + 1))
  BY <1>3 DEF HoldFrame
<1>5. Len(l) \in Nat /\ DOMAIN l = 1..Len(l) /\ \A i \in DOMAIN l : l[i] = n
  BY <1>2 DEF In
<1> HIDE DEF l
<1>6. \A i \in DOMAIN l : l[i] <= n /\ n + 1 - l[i] < Half
  BY <1>1, <1>5, Constants
<1>7. n + 1 <= n + 1 /\ n + 1 - (n + 1) <= WSize
  BY <1>1, Constants
<1>8. PICK f \in (n + 1)..(n + 1), c \in 0..Len(l) : Released(l, n + 1, n, f, c)
  BY <1>1, <1>2, <1>4, <1>6, <1>7, ReleaseInFrames
<1>9. f = n + 1
  BY <1>1
<1>10. /\ list' \in Seq(Frames)
       /\ \A i \in DOMAIN list' : f < list'[i] /\ list'[i] <= n
       /\ indSn' \in 0..(SnMod - 1)
       /\ out'.how \in {"none", "list"} /\ out'.what \in Seq(Frames)
       /\ In(l, f - 1) => top' = f - 1
  BY <1>1, <1>2, <1>6, <1>8, ReleaseLeaves
<1>11. top' = n
  BY <1>1, <1>2, <1>9, <1>10
<1>12. list' = <<>>
  <2>1. \A i \in DOMAIN list' : FALSE
    <3>1. SUFFICES ASSUME NEW i \in DOMAIN list'
                   PROVE  FALSE
      OBVIOUS
    <3>2. list'[i] \in Frames
      BY <1>10
    <3>3. f < list'[i] /\ list'[i] <= n
      BY <1>10
    <3>4. list'[i] \in Nat
      BY <3>2, FramesAreNumbers
    <3>5. QED
      BY <1>1, <1>9, <3>3, <3>4
  <2>2. QED
    BY <1>10, <2>1
<1>13. enable' /\ newest' = n
  BY <1>1 DEF HoldFrame
<1>14. base <= n /\ n < base + WSize
  BY DEF HoldFrame, InWindow
<1>15. indSn' = Sn(n + 1)
  BY <1>8, <1>9 DEF Released
<1>16. \E ll \in Seq(Frames) :
          /\ Sorted(ll) /\ \A i \in DOMAIN ll : ll[i] = n
          /\ \E ff \in (n + 1)..(n + 1), cc \in 0..Len(ll) : Released(ll, n + 1, n, ff, cc)
  BY <1>2, <1>5, <1>8
<1>17. QED
  BY <1>10, <1>11, <1>12, <1>13, <1>14, <1>15, <1>16

\* A later frame: the list with it in order, and the release from what is
\* expected after it.
LEMMA LaterFrame ==
    ASSUME TypeOK, NEW e \in 1..StreamLen, Flowing(e), NEW n \in Frames, HoldFrame(n)
    PROVE  /\ e <= n /\ enable'
           /\ newest' = IF n > newest THEN n ELSE newest
           /\ newest' \in Frames /\ newest <= newest' /\ n <= newest'
           /\ Enqueued(n) \in Seq(Frames) /\ Sorted(Enqueued(n))
           /\ \A x : In(Enqueued(n), x) <=> (x = n \/ In(list, x))
           /\ \A i \in DOMAIN Enqueued(n) : e <= Enqueued(n)[i] /\ Enqueued(n)[i] <= newest'
           /\ n # e => \A i \in DOMAIN Enqueued(n) : e < Enqueued(n)[i]
           /\ After(e, n) \in Nat /\ e <= After(e, n)
           /\ newest' - WSize + 1 <= After(e, n)
           /\ \/ n # e /\ After(e, n) = e
              \/ After(e, n) = newest' - WSize + 1
              \/ n = e /\ After(e, n) = e + 1
           /\ \E f \in After(e, n)..(newest' + 1), c \in 0..Len(Enqueued(n)) :
                 Released(Enqueued(n), After(e, n), newest', f, c)
<1> DEFINE l == Enqueued(n)
           a == After(e, n)
<1>1. /\ n \in Nat /\ e \in Nat /\ newest \in Nat /\ base \in Nat
      /\ WSize \in Nat /\ MaxLost \in Nat /\ Half \in Nat
      /\ MaxLost + 2 * WSize <= Half /\ 1 < WSize
      /\ \A i \in DOMAIN list : list[i] \in Nat
  BY NumbersOfFrames, FramesAreNumbers, Constants DEF Flowing
<1>2. InWindow(n) /\ enable /\ newest \in Frames
  BY DEF HoldFrame, Flowing
<1>3. /\ n - e < MaxLost + 2 * WSize
      /\ \A i \in DOMAIN list : list[i] - n < Half /\ n - list[i] < Half
  BY <1>2, Near
<1>4. e <= n /\ ~In(list, n) /\ Ind(n) = Sn(a)
  <2>1. ~Late(Sn(n)) /\ ~Held(Sn(n)) /\ Ind(n) = Checked(Sn(n))
    BY <1>2 DEF HoldFrame, Ind
  <2>2. ~(n < e) /\ ~In(list, n)
    BY <1>2, <2>1, CheckedInFrames
  <2>3. e <= n
    BY <1>1, <2>2
  <2>4. QED
    BY <1>2, <2>1, <2>2, <2>3, CheckedInFrames
<1>5. /\ l \in Seq(Frames) /\ Sorted(l)
      /\ \A x : In(l, x) <=> (x = n \/ In(list, x))
  <2>1. list \in Seq(Frames) /\ Sorted(list)
    BY DEF TypeOK, Flowing
  <2>2. QED
    BY <1>3, <1>4, <2>1, EnqueuedInOrder
<1>6. newest' = (IF n > newest THEN n ELSE newest) /\ enable' /\ Release(l, Sn(a))
  BY <1>4 DEF HoldFrame
<1>7. newest' \in Frames /\ newest' \in Nat /\ newest <= newest' /\ n <= newest'
  BY <1>1, <1>2, <1>6
<1> HIDE DEF l
<1>8. \A i \in DOMAIN l : /\ l[i] \in Nat /\ e <= l[i] /\ l[i] <= newest'
                          /\ n # e => e < l[i]
  <2>1. SUFFICES ASSUME NEW i \in DOMAIN l
                 PROVE  /\ l[i] \in Nat /\ e <= l[i] /\ l[i] <= newest'
                        /\ n # e => e < l[i]
    OBVIOUS
  <2>2. l[i] = n \/ In(list, l[i])
    BY <1>5 DEF In
  <2>3. CASE l[i] = n
    BY <1>1, <1>4, <1>7, <2>3
  <2>4. CASE In(list, l[i])
    <3>1. PICK j \in DOMAIN list : list[j] = l[i]
      BY <2>4 DEF In
    <3>2. e < list[j] /\ list[j] <= newest
      BY DEF Flowing
    <3>3. QED
      BY <1>1, <1>7, <3>1, <3>2
  <2>5. QED
    BY <2>2, <2>3, <2>4
<1>9. newest - WSize + 1 <= e /\ e <= newest + 1
  BY DEF Flowing
<1>10. /\ a \in Nat /\ e <= a /\ a <= newest' + 1 /\ newest' + 1 - a <= WSize
       /\ newest' - WSize + 1 <= a
       /\ (n # e /\ a = e) \/ a = newest' - WSize + 1 \/ (n = e /\ a = e + 1)
  BY <1>1, <1>4, <1>6, <1>9 DEF After
<1>11. \A i \in DOMAIN l : l[i] <= newest' /\ newest' + 1 - l[i] < Half
  <2>1. SUFFICES ASSUME NEW i \in DOMAIN l
                 PROVE  newest' + 1 - l[i] < Half
    BY <1>8
  <2>2. CASE n = e
    <3>1. newest' <= e + WSize - 1
      BY <1>1, <1>6, <1>9, <2>2
    <3>2. QED
      BY <1>1, <1>7, <1>8, <3>1
  <2>3. CASE n # e
    <3>1. newest' < e + MaxLost + 2 * WSize /\ e < l[i] /\ l[i] \in Nat
      BY <1>1, <1>3, <1>6, <1>8, <1>9, <2>3
    <3>2. QED
      BY <1>1, <1>7, <3>1
  <2>4. QED
    BY <2>2, <2>3
<1> HIDE DEF a
<1>12. \E f \in a..(newest' + 1), c \in 0..Len(l) : Released(l, a, newest', f, c)
  BY <1>5, <1>6, <1>7, <1>10, <1>11, ReleaseInFrames
<1>13. QED
  BY <1>4, <1>5, <1>6, <1>7, <1>8, <1>10, <1>12 DEF l, a

\* The worker gives up what comes before the first frame that is held.
LEMMA GivenUp ==
    ASSUME TypeOK, NEW e \in 1..StreamLen, Flowing(e), TimeoutWorker, list # <<>>
    PROVE  /\ 1 \in DOMAIN list /\ e < list[1] /\ list[1] \in Nat
           /\ \E f \in list[1]..(newest + 1), c \in 0..Len(list) :
                 Released(list, list[1], newest, f, c)
<1>1. /\ e \in Nat /\ newest \in Nat /\ WSize \in Nat /\ Half \in Nat
      /\ MaxLost \in Nat /\ MaxLost + 2 * WSize <= Half
      /\ \A i \in DOMAIN list : list[i] \in Nat
  BY NumbersOfFrames, FramesAreNumbers, Constants DEF Flowing
<1>2. list \in Seq(Frames) /\ Sorted(list)
  BY DEF TypeOK, Flowing
<1>3. 1 \in DOMAIN list
  BY <1>2
<1>4. /\ \A i \in DOMAIN list : e < list[i] /\ list[i] <= newest
      /\ newest - WSize + 1 <= e
  BY DEF Flowing
<1>5. /\ list[1] \in Nat /\ e < list[1] /\ list[1] <= newest + 1
      /\ newest + 1 - list[1] <= WSize
  BY <1>1, <1>3, <1>4
<1>6. \A i \in DOMAIN list : list[i] <= newest /\ newest + 1 - list[i] < Half
  BY <1>1, <1>4
<1>7. Release(list, Sn(list[1]))
  BY DEF TimeoutWorker
<1>8. \E f \in list[1]..(newest + 1), c \in 0..Len(list) :
         Released(list, list[1], newest, f, c)
  BY <1>1, <1>2, <1>5, <1>6, <1>7, ReleaseInFrames
<1>9. QED
  BY <1>3, <1>5, <1>8
-----------------------------------------------------------------------------
(* Every step keeps the invariant.                                         *)

LEMMA InitIInv == Init => IInv
<1>1. SUFFICES ASSUME Init
               PROVE  IInv
  OBVIOUS
<1>2. 0 \in 0..StreamLen
  BY Constants
<1>3. out.how \in {"none", "list", "late", "flush"} /\ out.what \in Seq(Frames)
  BY <1>1 DEF Init, Nothing
<1>4. TypeOK
  <2>1. list \in Seq(Frames)
    BY <1>1 DEF Init
  <2>2. flushPc \in {"idle", "timer", "work"} /\ base \in 0..StreamLen
    BY <1>1, <1>2 DEF Init
  <2>3. /\ indSn \in (0..(SnMod - 1)) \cup {None}
        /\ top \in Frames \cup {None} /\ newest \in Frames \cup {None}
    BY <1>1 DEF Init
  <2>4. /\ enable \in BOOLEAN /\ timer \in BOOLEAN /\ firing \in BOOLEAN
        /\ work \in BOOLEAN /\ up \in BOOLEAN
    BY <1>1 DEF Init
  <2>5. QED
    BY <1>3, <2>1, <2>2, <2>3, <2>4 DEF TypeOK
<1>5. Fresh
  BY <1>1 DEF Init, Fresh
<1>6. QED
  BY <1>4, <1>5 DEF IInv

LEMMA QuietSteps ==
    ASSUME IInv, UNCHANGED <<enable, indSn, list, newest, top>>, base' = base, TypeOK'
    PROVE  IInv'
<1>1. CASE Fresh
  BY <1>1 DEF IInv, Fresh
<1>2. CASE \E e \in 1..StreamLen : Flowing(e)
  <2>1. PICK e \in 1..StreamLen : Flowing(e)
    BY <1>2
  <2>2. Flowing(e)'
    BY <2>1 DEF Flowing, Sorted, Sn
  <2>3. QED
    BY <2>2 DEF IInv
<1>3. QED
  BY <1>1, <1>2 DEF IInv

LEMMA WindowMovesKeeps ==
    ASSUME IInv, WindowMoves
    PROVE  IInv'
<1>1. TypeOK'
  BY Constants DEF IInv, TypeOK, WindowMoves, Nothing
<1>2. CASE Fresh
  BY <1>1, <1>2 DEF IInv, Fresh, WindowMoves
<1>3. ASSUME NEW e \in 1..StreamLen, Flowing(e)
      PROVE  Flowing(e)'
  <2>1. newest - WSize < base' /\ base' <= newest + MaxLost + 1
    <3>1. newest \in Int /\ base \in Int /\ WSize \in Int /\ MaxLost \in Int /\ newest # None
      BY NumbersOfFrames, FramesAreNumbers, Constants, <1>3 DEF IInv, Flowing
    <3>2. QED
      BY <3>1, <1>3 DEF WindowMoves, Flowing
  <2>2. QED
    BY <1>3, <2>1 DEF WindowMoves, Flowing, Sorted, Sn
<1>4. QED
  BY <1>1, <1>2, <1>3 DEF IInv

LEMMA LateFrameKeeps ==
    ASSUME IInv, NEW n \in Frames, LateFrame(n)
    PROVE  IInv' /\ newest' = newest
<1>1. InWindow(n) /\ enable /\ Late(Sn(n))
  BY DEF LateFrame
<1>2. newest' = newest
  <2>1. CASE Fresh
    <3>1. indSn = None
      BY <1>1, <2>1 DEF Fresh
    <3>2. ~SnLess(Sn(n), Sn(n))
      <4>1. n - n < Half /\ n - n <= Half /\ n \in Int /\ ~(n < n)
        BY FramesAreNumbers, Constants
      <4>2. QED
        BY <4>1, SnLessInOrder
    <3>3. QED
      BY <1>1, <3>1, <3>2 DEF Late, Expected
  <2>2. ASSUME NEW e \in 1..StreamLen, Flowing(e)
        PROVE  newest' = newest
    <3>1. n < e
      BY <1>1, <2>2, CheckedInFrames DEF IInv
    <3>2. e <= newest + 1 /\ newest \in Int /\ n \in Int
      BY <2>2, FramesAreNumbers DEF Flowing
    <3>3. QED
      BY <3>1, <3>2 DEF LateFrame
  <2>3. QED
    BY <2>1, <2>2 DEF IInv
<1>3. out'.how \in {"none", "late"} /\ out'.what \in Seq(Frames)
  <2>1. <<n>> \in Seq(Frames) /\ <<>> \in Seq(Frames)
    OBVIOUS
  <2>2. CASE out' = [how |-> "late", what |-> <<n>>]
    BY <2>1, <2>2
  <2>3. CASE out' = Nothing
    BY <2>1, <2>3 DEF Nothing
  <2>4. QED
    BY <2>2, <2>3 DEF LateFrame
<1>4. TypeOK'
  BY <1>2, <1>3 DEF IInv, TypeOK, LateFrame
<1>5. QED
  BY <1>2, <1>4, QuietSteps DEF LateFrame

\* A frame that is held already lies within the window: nothing is expected
\* otherwise afterwards.
LEMMA DuplicateFrameKeeps ==
    ASSUME IInv, NEW n \in Frames, DuplicateFrame(n)
    PROVE  IInv'
<1>1. InWindow(n) /\ enable /\ ~Late(Sn(n)) /\ Held(Sn(n))
  BY DEF DuplicateFrame
<1>2. PICK e \in 1..StreamLen : Flowing(e)
  <2>1. ~Fresh
    BY <1>1 DEF Fresh, Held, Has
  <2>2. QED
    BY <2>1 DEF IInv
<1>3. ~(n < e) /\ In(list, n)
  BY <1>1, <1>2, CheckedInFrames DEF IInv
<1>4. e < n /\ n <= newest /\ newest - WSize + 1 <= e
  BY <1>2, <1>3 DEF Flowing, In
<1>5. n \in Int /\ newest \in Int /\ WSize \in Int
  BY <1>2, FramesAreNumbers, Constants DEF Flowing
<1>6. After(e, n) = e /\ e <= n
  BY <1>4, <1>5 DEF After
<1>7. Checked(Sn(n)) = Sn(e)
  BY <1>1, <1>2, <1>6, CheckedInFrames DEF IInv
<1>8. indSn' = indSn
  BY <1>2, <1>7 DEF DuplicateFrame, Flowing
<1>9. TypeOK'
  <2>1. <<>> \in Seq(Frames)
    OBVIOUS
  <2>2. QED
    BY <1>8, <2>1 DEF IInv, TypeOK, DuplicateFrame, Nothing
<1>10. QED
  BY <1>8, <1>9, QuietSteps DEF DuplicateFrame

LEMMA HoldFrameKeeps ==
    ASSUME IInv, NEW n \in Frames, HoldFrame(n)
    PROVE  IInv'
<1>1. TypeOK
  BY DEF IInv
<1>2. CASE Fresh
  <2>1. /\ enable' /\ list' = <<>> /\ top' = n /\ newest' = n
        /\ indSn' = Sn(n + 1) /\ indSn' \in 0..(SnMod - 1)
        /\ base <= n /\ n < base + WSize
        /\ out'.how \in {"none", "list"} /\ out'.what \in Seq(Frames)
    BY <1>1, <1>2, FirstFrame
  <2>2. n + 1 \in 1..StreamLen /\ n \in Nat /\ base \in Nat
    BY <1>1, NumbersOfFrames, FramesAreNumbers
  <2>3. <<>> \in Seq(Frames)
    OBVIOUS
  <2>4. timer' \in BOOLEAN /\ enable' \in BOOLEAN
    BY DEF HoldFrame, Gap
  <2>5. TypeOK'
    BY <1>1, <2>1, <2>3, <2>4 DEF TypeOK, HoldFrame
  <2>6. Flowing(n + 1)'
    <3>1. base' = base
      BY DEF HoldFrame
    <3>2. Sorted(list') /\ \A i \in DOMAIN list' : FALSE
      BY <2>1 DEF Sorted
    <3>3. /\ n < n + 1 /\ n - WSize + 1 <= n + 1 /\ n + 1 <= n + 1
          /\ n - WSize < base' /\ base' <= n + MaxLost + 1
      BY <2>1, <2>2, <3>1, Constants
    <3>4. QED
      BY <2>1, <3>2, <3>3 DEF Flowing, Sn, Sorted
  <2>7. QED
    BY <2>2, <2>5, <2>6 DEF IInv
<1>3. ASSUME NEW e \in 1..StreamLen, Flowing(e)
      PROVE  IInv'
  <2> DEFINE l == Enqueued(n)
             a == After(e, n)
  <2>0. PICK m \in Frames : m = newest'
    BY <1>1, <1>3, LaterFrame
  <2>1. /\ e <= n /\ enable'
        /\ newest <= m /\ n <= m /\ (m = n \/ m = newest)
        /\ l \in Seq(Frames) /\ Sorted(l)
        /\ \A x : In(l, x) <=> (x = n \/ In(list, x))
        /\ \A i \in DOMAIN l : e <= l[i] /\ l[i] <= m
        /\ n # e => \A i \in DOMAIN l : e < l[i]
        /\ a \in Nat /\ e <= a /\ m - WSize + 1 <= a
        /\ a = e \/ a = m - WSize + 1 \/ (n = e /\ a = e + 1)
        /\ \E f \in a..(m + 1), c \in 0..Len(l) : Released(l, a, m, f, c)
    BY <1>1, <1>3, <2>0, LaterFrame
  <2> HIDE DEF l, a
  <2>2. PICK f \in a..(m + 1), c \in 0..Len(l) : Released(l, a, m, f, c)
    BY <2>1
  <2>3. /\ n \in Nat /\ e \in Nat /\ newest \in Nat /\ m \in Nat /\ base \in Nat
        /\ top \in Nat /\ top \in Frames /\ f \in Nat /\ a \in Nat
        /\ WSize \in Nat /\ MaxLost \in Nat /\ m + 1 \in 1..StreamLen
    <3>1. newest \in Frames /\ top \in Frames
      BY <1>3 DEF Flowing
    <3>2. m \in Nat /\ a \in Nat /\ m + 1 \in 1..StreamLen
      BY <2>1, FramesAreNumbers
    <3>3. QED
      BY <1>1, <2>1, <3>1, <3>2, NumbersOfFrames, FramesAreNumbers, Constants
  <2>4. /\ list' \in Seq(Frames) /\ Sorted(list')
        /\ \A i \in DOMAIN list' : f < list'[i] /\ list'[i] <= m
        /\ indSn' \in 0..(SnMod - 1)
        /\ out'.how \in {"none", "list"} /\ out'.what \in Seq(Frames)
        /\ In(l, f - 1) => top' = f - 1
        /\ c = 0 => top' = top
        /\ c # 0 => top' \in Frames /\ top' < f
    BY <2>1, <2>2, ReleaseLeaves
  <2>5. top < e /\ (e = top + 1 \/ e <= newest - WSize + 1)
    BY <1>3 DEF Flowing
  <2>6. top' \in Frames /\ top' < f
    BY <2>1, <2>3, <2>4, <2>5
  <2>7. f = top' + 1 \/ f <= m - WSize + 1
    <3>1. CASE f # a
      <4>1. f - 1 \in a..(f - 1)
        BY <2>3, <3>1
      <4>2. In(l, f - 1)
        BY <2>2, <4>1 DEF Released
      <4>3. QED
        BY <2>3, <2>4, <4>2
    <3>2. CASE f = a /\ n = e /\ a = e + 1
      <4>1. f - 1 = n
        BY <2>3, <3>2
      <4>2. In(l, f - 1)
        BY <2>1, <4>1
      <4>3. QED
        BY <2>3, <2>4, <4>2
    <3>3. CASE f = a /\ a = m - WSize + 1
      BY <2>3, <3>3
    <3>4. CASE f = a /\ a = e
      <4>1. ASSUME c # 0
            PROVE  FALSE
        <5>1. 1 \in 1..c /\ 1 \in DOMAIN l
          BY <2>1, <4>1
        <5>2. l[1] < f /\ e <= l[1]
          BY <2>1, <2>2, <5>1 DEF Released
        <5>3. l[1] \in Frames
          BY <2>1, <5>1
        <5>4. l[1] \in Nat
          BY <5>3, FramesAreNumbers
        <5>5. QED
          BY <2>3, <3>4, <5>2, <5>4
      <4>2. top' = top
        BY <2>4, <4>1
      <4>3. QED
        BY <2>1, <2>3, <2>5, <3>4, <4>2
    <3>5. QED
      BY <2>1, <3>1, <3>2, <3>3, <3>4
  <2>8. f \in 1..StreamLen
    <3>1. 1 <= e /\ e <= a /\ a <= f /\ f <= m + 1 /\ m + 1 <= StreamLen
      BY <2>1, <2>3
    <3>2. QED
      BY <2>3, <3>1, Constants
  <2>9. Flowing(f)'
    <3>1. base' = base /\ base <= n /\ n < base + WSize
      BY DEF HoldFrame, InWindow
    <3>2. newest - WSize < base /\ base <= newest + MaxLost + 1
      BY <1>3 DEF Flowing
    <3>3. m - WSize < base' /\ base' <= m + MaxLost + 1
      BY <2>1, <2>3, <3>1, <3>2
    <3>4. m - WSize + 1 <= f /\ f <= m + 1
      BY <2>1, <2>3
    <3>5. indSn' = Sn(f)
      BY <2>2 DEF Released
    <3>6. QED
      BY <2>0, <2>1, <2>4, <2>6, <2>7, <3>3, <3>4, <3>5 DEF Flowing, Sn, Sorted
  <2>10. TypeOK'
    <3>1. timer' \in BOOLEAN /\ enable' \in BOOLEAN
      BY DEF HoldFrame, Gap
    <3>2. QED
      BY <1>1, <2>0, <2>1, <2>4, <2>6, <3>1 DEF TypeOK, HoldFrame
  <2>11. QED
    BY <2>8, <2>9, <2>10 DEF IInv
<1>4. QED
  BY <1>2, <1>3 DEF IInv

LEMMA TimeoutWorkerKeeps ==
    ASSUME IInv, TimeoutWorker
    PROVE  IInv'
<1>1. TypeOK
  BY DEF IInv
<1>2. CASE list = <<>>
  <2>1. UNCHANGED <<enable, indSn, list, newest, top>> /\ base' = base
    BY <1>2 DEF TimeoutWorker
  <2>2. /\ out' = Nothing /\ timer' = timer /\ work' \in BOOLEAN
        /\ firing' = firing /\ flushPc' = flushPc /\ up' = up
    BY <1>2 DEF TimeoutWorker
  <2>3. TypeOK'
    <3>1. out'.how \in {"none", "list", "late", "flush"} /\ out'.what \in Seq(Frames)
      BY <2>2 DEF Nothing
    <3>2. QED
      BY <1>1, <2>1, <2>2, <3>1 DEF TypeOK
  <2>4. QED
    BY <2>1, <2>3, QuietSteps
<1>3. CASE list # <<>>
  <2>1. PICK e \in 1..StreamLen : Flowing(e)
    BY <1>3 DEF IInv, Fresh
  <2>2. 1 \in DOMAIN list /\ e < list[1] /\ list[1] \in Nat
    BY <1>1, <1>3, <2>1, GivenUp
  <2>3. PICK f \in list[1]..(newest + 1), c \in 0..Len(list) :
           Released(list, list[1], newest, f, c)
    BY <1>1, <1>3, <2>1, GivenUp
  <2>4. /\ list \in Seq(Frames) /\ Sorted(list) /\ newest \in Frames
        /\ \A i \in DOMAIN list : e < list[i] /\ list[i] <= newest
        /\ newest - WSize + 1 <= e
        /\ newest - WSize < base /\ base <= newest + MaxLost + 1
    BY <1>1, <2>1 DEF TypeOK, Flowing
  <2>5. /\ newest \in Nat /\ newest + 1 \in 1..StreamLen /\ f \in Nat /\ e \in Nat
        /\ WSize \in Nat
    BY <2>2, <2>4, FramesAreNumbers, Constants
  <2>6. /\ list' \in Seq(Frames) /\ Sorted(list')
        /\ \A i \in DOMAIN list' : f < list'[i] /\ list'[i] <= newest
        /\ indSn' \in 0..(SnMod - 1)
        /\ out'.how \in {"none", "list"} /\ out'.what \in Seq(Frames)
        /\ In(list, f - 1) => top' = f - 1
        /\ c # 0 => top' \in Frames /\ top' < f
    BY <2>2, <2>3, <2>4, ReleaseLeaves
  <2>7. c # 0 /\ f # list[1] /\ top' = f - 1
    <3>1. In(list, list[1]) /\ ~In(list, f)
      BY <2>2, <2>3 DEF In, Released
    <3>2. f # list[1]
      BY <3>1
    <3>3. f - 1 \in list[1]..(f - 1)
      BY <2>2, <2>3, <2>5, <3>2
    <3>4. In(list, f - 1)
      BY <2>3, <3>3 DEF Released
    <3>5. ASSUME c = 0
          PROVE  FALSE
      <4>1. 1 \in (c + 1)..Len(list)
        BY <2>2, <2>4, <3>5
      <4>2. f < list[1]
        BY <2>3, <4>1 DEF Released
      <4>3. QED
        BY <2>2, <2>3, <2>5, <4>2
    <3>6. QED
      BY <2>6, <3>2, <3>4, <3>5
  <2>8. f \in 1..StreamLen /\ e < f
    <3>1. 1 <= e /\ e < list[1] /\ list[1] <= f /\ f <= newest + 1 /\ newest + 1 <= StreamLen
      BY <2>2, <2>3, <2>5
    <3>2. QED
      BY <2>2, <2>5, <3>1, Constants
  <2>9. /\ enable' = enable /\ newest' = newest /\ base' = base
        /\ firing' = firing /\ flushPc' = flushPc /\ up' = up
        /\ work' = FALSE /\ timer' \in BOOLEAN
    <3>1. timer' = (timer \/ Gap(list', indSn'))
      BY <1>3 DEF TimeoutWorker
    <3>2. timer' \in BOOLEAN
      BY <3>1 DEF Gap
    <3>3. QED
      BY <3>2 DEF TimeoutWorker
  <2>10. Flowing(f)'
    <3>1. enable /\ base \in Nat
      BY <1>1, <2>1, NumbersOfFrames DEF Flowing
    <3>2. top' < f /\ newest - WSize + 1 <= f /\ f <= newest + 1 /\ f = top' + 1
      BY <2>3, <2>4, <2>5, <2>7, <2>8
    <3>3. indSn' = Sn(f)
      BY <2>3 DEF Released
    <3>4. QED
      BY <2>4, <2>6, <2>7, <2>9, <3>1, <3>2, <3>3 DEF Flowing, Sn, Sorted
  <2>11. TypeOK'
    BY <1>1, <2>4, <2>6, <2>7, <2>9 DEF TypeOK
  <2>12. QED
    BY <2>8, <2>10, <2>11 DEF IInv
<1>4. QED
  BY <1>2, <1>3

LEMMA OtherStepsKeep ==
    ASSUME IInv,
           \/ TimerFires \/ TimeoutHandler \/ FlushList
           \/ FlushTimer \/ FlushWork \/ BusDown \/ UNCHANGED vars
    PROVE  IInv'
<1>0. TypeOK /\ <<>> \in Seq(Frames)
  BY DEF IInv
<1>1. CASE TimerFires
  <2>1. TypeOK'
    BY <1>0, <1>1 DEF TypeOK, TimerFires, Nothing
  <2>2. QED
    BY <1>1, <2>1, QuietSteps DEF TimerFires
<1>2. CASE TimeoutHandler
  <2>1. TypeOK'
    BY <1>0, <1>2 DEF TypeOK, TimeoutHandler, Nothing
  <2>2. QED
    BY <1>2, <2>1, QuietSteps DEF TimeoutHandler
<1>3. CASE FlushList
  <2>1. out'.how \in {"none", "flush"} /\ out'.what \in Seq(Frames)
    BY <1>0, <1>3 DEF TypeOK, FlushList, Delivered, Nothing
  <2>2. TypeOK'
    BY <1>0, <1>3, <2>1 DEF TypeOK, FlushList
  <2>3. Fresh'
    BY <1>3 DEF Fresh, FlushList
  <2>4. QED
    BY <2>2, <2>3 DEF IInv
<1>4. CASE FlushTimer
  <2>1. TypeOK'
    BY <1>0, <1>4 DEF TypeOK, FlushTimer, Nothing
  <2>2. QED
    BY <1>4, <2>1, QuietSteps DEF FlushTimer
<1>5. CASE FlushWork
  <2>1. TypeOK'
    BY <1>0, <1>5 DEF TypeOK, FlushWork, Nothing
  <2>2. QED
    BY <1>5, <2>1, QuietSteps DEF FlushWork
<1>6. CASE BusDown
  <2>1. TypeOK'
    BY <1>0, <1>6 DEF TypeOK, BusDown, Nothing
  <2>2. QED
    BY <1>6, <2>1, QuietSteps DEF BusDown
<1>7. CASE UNCHANGED vars
  <2>1. TypeOK'
    BY <1>0, <1>7 DEF TypeOK, vars
  <2>2. QED
    BY <1>7, <2>1, QuietSteps DEF vars
<1>8. QED
  BY <1>1, <1>2, <1>3, <1>4, <1>5, <1>6, <1>7

\* The frames held and the number expected always fit a place in the stream
\* that is within a window of the newest frame: the strengthening holds.
THEOREM Invariant == Spec => []IInv
<1>1. Init => IInv
  BY InitIInv
<1>2. IInv /\ [Next]_vars => IInv'
  <2>1. SUFFICES ASSUME IInv, [Next]_vars
                 PROVE  IInv'
    OBVIOUS
  <2>2. CASE WindowMoves
    BY <2>1, <2>2, WindowMovesKeeps
  <2>3. ASSUME NEW n \in Frames, LateFrame(n)
        PROVE  IInv'
    BY <2>1, <2>3, LateFrameKeeps
  <2>4. ASSUME NEW n \in Frames, DuplicateFrame(n)
        PROVE  IInv'
    BY <2>1, <2>4, DuplicateFrameKeeps
  <2>5. ASSUME NEW n \in Frames, HoldFrame(n)
        PROVE  IInv'
    BY <2>1, <2>5, HoldFrameKeeps
  <2>6. CASE TimeoutWorker
    BY <2>1, <2>6, TimeoutWorkerKeeps
  <2>7. CASE \/ TimerFires \/ TimeoutHandler \/ FlushList
             \/ FlushTimer \/ FlushWork \/ BusDown \/ UNCHANGED vars
    BY <2>1, <2>7, OtherStepsKeep
  <2>8. QED
    BY <2>1, <2>2, <2>3, <2>4, <2>5, <2>6, <2>7 DEF Next
<1>3. QED
  BY <1>1, <1>2, PTL DEF Spec
-----------------------------------------------------------------------------
(* What the runs check.                                                    *)

LEMMA IInvHoldsWithinWindow == IInv => HeldWithinWindow
<1>1. SUFFICES ASSUME IInv
               PROVE  HeldWithinWindow
  OBVIOUS
<1>2. CASE Fresh
  <2>1. Increasing(<<top>> \o list) /\ DOMAIN list = {}
    BY <1>2 DEF Fresh, Increasing
  <2>2. QED
    BY <2>1 DEF HeldWithinWindow
<1>3. ASSUME NEW e \in 1..StreamLen, Flowing(e)
      PROVE  HeldWithinWindow
  <2>1. /\ list \in Seq(Frames) /\ top \in Int /\ newest \in Int /\ WSize \in Int /\ e \in Int
        /\ \A i \in DOMAIN list : list[i] \in Int
    BY <1>1, NumbersOfFrames, Constants DEF IInv, TypeOK
  <2>2. /\ \A i \in DOMAIN list : e < list[i] /\ list[i] <= newest
        /\ top < e /\ newest - WSize + 1 <= e /\ Sorted(list)
    BY <1>3 DEF Flowing
  <2>3. \A i \in DOMAIN list : newest - WSize < list[i] /\ list[i] <= newest
    BY <2>1, <2>2
  <2>4. Increasing(<<top>> \o list)
    <3>1. \A i \in DOMAIN list : top < list[i]
      BY <2>1, <2>2
    <3>2. QED
      BY <2>1, <2>2, <3>1, HeadedInOrder
  <2>5. QED
    BY <2>3, <2>4 DEF HeldWithinWindow
<1>4. QED
  BY <1>1, <1>2, <1>3 DEF IInv

LEMMA IInvLateIsOld == IInv => LateIsOld
<1>1. SUFFICES ASSUME IInv, NEW n \in Frames,
                      InWindow(n), enable, newest # None, n > newest
               PROVE  ~Late(Sn(n))
  BY DEF LateIsOld
<1>2. PICK e \in 1..StreamLen : Flowing(e)
  BY <1>1 DEF IInv, Fresh
<1>3. e <= newest + 1 /\ newest \in Int /\ n \in Int
  BY <1>2, FramesAreNumbers DEF Flowing
<1>4. ~(n < e)
  BY <1>1, <1>3
<1>5. QED
  BY <1>1, <1>2, <1>4, CheckedInFrames DEF IInv

LEMMA WhatIsDelivered ==
    ASSUME NEW s, NEW how, out' = Delivered(how, s)
    PROVE  out'.what = s
<1>1. CASE s = <<>>
  BY <1>1 DEF Delivered, Nothing
<1>2. CASE s # <<>>
  BY <1>2 DEF Delivered
<1>3. QED
  BY <1>1, <1>2

\* What a release delivers is the beginning of the list.
LEMMA ReleaseInOrder ==
    ASSUME NEW l \in Seq(Frames), Sorted(l), NEW e, NEW m, NEW f,
           NEW c \in 0..Len(l), Released(l, e, m, f, c), top \in Int,
           \A i \in DOMAIN l : top < l[i]
    PROVE  Increasing(<<top>> \o out'.what)
<1> DEFINE ready == SubSeq(l, 1, c)
<1>1. /\ Len(l) \in Nat /\ DOMAIN l = 1..Len(l)
      /\ ready \in Seq(Frames) /\ Len(ready) = c /\ \A i \in 1..c : ready[i] = l[i]
  BY Cut
<1>2. out' = Delivered("list", ready)
  BY DEF Released
<1> HIDE DEF ready
<1>3. out'.what = ready
  BY <1>2, WhatIsDelivered
<1>4. \A i \in DOMAIN ready : i \in DOMAIN l /\ ready[i] = l[i]
  BY <1>1
<1>5. Sorted(ready) /\ \A i \in DOMAIN ready : top < ready[i]
  BY <1>4 DEF Sorted
<1>6. Increasing(<<top>> \o ready)
  BY <1>1, <1>5, HeadedInOrder
<1>7. QED
  BY <1>3, <1>6

LEMMA StepInOrder ==
    ASSUME IInv, Next, out'.how = "list"
    PROVE  Increasing(<<top>> \o out'.what)
<1>1. TypeOK /\ top \in Int
  BY NumbersOfFrames DEF IInv
<1>2. ASSUME NEW n \in Frames, HoldFrame(n)
      PROVE  Increasing(<<top>> \o out'.what)
  <2>1. CASE Fresh
    <3>1. PICK l \in Seq(Frames) :
             /\ Sorted(l) /\ \A i \in DOMAIN l : l[i] = n
             /\ \E f \in (n + 1)..(n + 1), c \in 0..Len(l) : Released(l, n + 1, n, f, c)
      BY <1>1, <1>2, <2>1, FirstFrame
    <3>2. \A i \in DOMAIN l : top < l[i]
      <4>1. n \in Nat /\ top = None /\ None < 0 /\ None \in Int
        BY <2>1, FramesAreNumbers DEF Fresh
      <4>2. top < n
        BY <4>1
      <4>3. QED
        BY <3>1, <4>2
    <3>3. PICK f \in (n + 1)..(n + 1), c \in 0..Len(l) : Released(l, n + 1, n, f, c)
      BY <3>1
    <3>4. QED
      BY <1>1, <3>1, <3>2, <3>3, ReleaseInOrder
  <2>2. ASSUME NEW e \in 1..StreamLen, Flowing(e)
        PROVE  Increasing(<<top>> \o out'.what)
    <3> DEFINE l == Enqueued(n)
    <3>1. /\ l \in Seq(Frames) /\ Sorted(l) /\ \A i \in DOMAIN l : e <= l[i]
          /\ \E f \in After(e, n)..(newest' + 1), c \in 0..Len(l) :
                Released(l, After(e, n), newest', f, c)
      BY <1>1, <1>2, <2>2, LaterFrame
    <3> HIDE DEF l
    <3>2. PICK f \in After(e, n)..(newest' + 1), c \in 0..Len(l) :
             Released(l, After(e, n), newest', f, c)
      BY <3>1
    <3>3. \A i \in DOMAIN l : top < l[i]
      <4>1. SUFFICES ASSUME NEW i \in DOMAIN l
                     PROVE  top < l[i]
        OBVIOUS
      <4>2. l[i] \in Frames /\ top < e /\ e <= l[i]
        BY <2>2, <3>1 DEF Flowing
      <4>3. l[i] \in Int
        BY <4>2, FramesAreNumbers
      <4>4. QED
        BY <1>1, <4>2, <4>3
    <3>4. QED
      BY <1>1, <3>1, <3>2, <3>3, ReleaseInOrder
  <2>3. QED
    BY <2>1, <2>2 DEF IInv
<1>3. ASSUME TimeoutWorker
      PROVE  Increasing(<<top>> \o out'.what)
  <2>1. list # <<>>
    BY <1>3 DEF TimeoutWorker, Nothing
  <2>2. PICK e \in 1..StreamLen : Flowing(e)
    BY <2>1 DEF IInv, Fresh
  <2>3. PICK f \in list[1]..(newest + 1), c \in 0..Len(list) :
           Released(list, list[1], newest, f, c)
    BY <1>1, <1>3, <2>1, <2>2, GivenUp
  <2>4. \A i \in DOMAIN list : top < list[i]
    <3>1. \A i \in DOMAIN list : e < list[i] /\ list[i] \in Nat
      BY <1>1, <2>2, NumbersOfFrames DEF Flowing
    <3>2. top < e
      BY <2>2 DEF Flowing
    <3>3. QED
      BY <1>1, <3>1, <3>2
  <2>5. list \in Seq(Frames) /\ Sorted(list)
    BY <1>1, <2>2 DEF TypeOK, Flowing
  <2>6. QED
    BY <1>1, <2>3, <2>4, <2>5, ReleaseInOrder
<1>4. ~WindowMoves /\ ~TimerFires /\ ~TimeoutHandler /\ ~FlushTimer /\ ~FlushWork /\ ~BusDown
  BY DEF WindowMoves, TimerFires, TimeoutHandler, FlushTimer, FlushWork, BusDown, Nothing
<1>5. ~FlushList /\ \A n \in Frames : ~LateFrame(n) /\ ~DuplicateFrame(n)
  BY DEF FlushList, LateFrame, DuplicateFrame, Delivered, Nothing
<1>6. QED
  BY <1>2, <1>3, <1>4, <1>5 DEF Next

LEMMA StepSkipsNone ==
    ASSUME IInv, Next, out'.how = "list", work' = work, top # None,
           NEW i \in 2..Len(<<top>> \o out'.what)
    PROVE  LET s == <<top>> \o out'.what
           IN  s[i] = s[i - 1] + 1 \/ s[i] <= newest' - WSize + 1
<1>1. TypeOK /\ top \in Int
  BY NumbersOfFrames DEF IInv
<1>2. PICK e \in 1..StreamLen : Flowing(e)
  BY DEF IInv, Fresh
<1>3. PICK n \in Frames : HoldFrame(n)
  <2>1. ~WindowMoves /\ ~TimerFires /\ ~TimeoutHandler /\ ~FlushTimer /\ ~FlushWork /\ ~BusDown
    BY DEF WindowMoves, TimerFires, TimeoutHandler, FlushTimer, FlushWork, BusDown, Nothing
  <2>2. ~FlushList /\ \A n \in Frames : ~LateFrame(n) /\ ~DuplicateFrame(n)
    BY DEF FlushList, LateFrame, DuplicateFrame, Delivered, Nothing
  <2>3. ~TimeoutWorker
    BY DEF TimeoutWorker
  <2>4. QED
    BY <2>1, <2>2, <2>3 DEF Next
<1> DEFINE l == Enqueued(n)
           a == After(e, n)
<1>4. PICK m \in Frames : m = newest'
  BY <1>1, <1>2, <1>3, LaterFrame
<1>5. /\ e <= n /\ newest <= m
      /\ l \in Seq(Frames) /\ Sorted(l)
      /\ \A x : In(l, x) <=> (x = n \/ In(list, x))
      /\ \A j \in DOMAIN l : e <= l[j] /\ l[j] <= m
      /\ n # e => \A j \in DOMAIN l : e < l[j]
      /\ a \in Nat
      /\ (n # e /\ a = e) \/ a = m - WSize + 1 \/ (n = e /\ a = e + 1)
      /\ \E f \in a..(m + 1), c \in 0..Len(l) : Released(l, a, m, f, c)
  BY <1>1, <1>2, <1>3, <1>4, LaterFrame
<1> HIDE DEF l, a
<1>6. PICK f \in a..(m + 1), c \in 0..Len(l) : Released(l, a, m, f, c)
  BY <1>5
<1>7. /\ n \in Nat /\ e \in Nat /\ newest \in Nat /\ m \in Nat /\ f \in Nat /\ WSize \in Nat
      /\ top < e /\ (e = top + 1 \/ e <= newest - WSize + 1)
  BY <1>2, <1>5, FramesAreNumbers, Constants DEF Flowing
<1>8. /\ Len(l) \in Nat /\ DOMAIN l = 1..Len(l)
      /\ \A j \in DOMAIN l : l[j] \in Frames
  BY <1>5
<1> DEFINE ready == SubSeq(l, 1, c)
           s == <<top>> \o ready
           j == i - 1
<1>9. /\ ready \in Seq(Frames) /\ Len(ready) = c
      /\ \A k \in 1..c : ready[k] = l[k]
  BY <1>5, Cut
<1>10. out'.what = ready
  <2>1. out' = Delivered("list", ready)
    BY <1>6 DEF Released
  <2>2. QED
    BY <2>1, WhatIsDelivered
<1> HIDE DEF ready
<1>11. Sorted(ready) /\ \A k \in DOMAIN ready : top < ready[k]
  <2>1. \A k \in DOMAIN ready : k \in DOMAIN l /\ ready[k] = l[k]
    BY <1>8, <1>9
  <2>2. \A k \in DOMAIN l : top < l[k]
    <3>1. \A k \in DOMAIN l : l[k] \in Nat /\ e <= l[k]
      BY <1>5, <1>8, FramesAreNumbers
    <3>2. QED
      BY <1>1, <1>7, <3>1
  <2>3. QED
    BY <1>5, <2>1, <2>2 DEF Sorted
<1>12. /\ Len(s) = c + 1 /\ s[1] = top
       /\ \A k \in 2..(c + 1) : s[k] = ready[k - 1]
  BY <1>1, <1>9, <1>11, HeadedInOrder
<1>13. i \in 2..(c + 1) /\ s = <<top>> \o out'.what
  BY <1>10, <1>12
<1>14. /\ j \in 1..c /\ j \in DOMAIN l /\ s[i] = l[j]
       /\ j = 1 => s[i - 1] = top
       /\ j # 1 => j - 1 \in DOMAIN l /\ s[i - 1] = l[j - 1]
  BY <1>8, <1>9, <1>12, <1>13
<1>15. l[j] \in Nat /\ l[j] < f /\ e <= l[j]
  BY <1>5, <1>6, <1>8, <1>14, FramesAreNumbers DEF Released
<1>16. ASSUME In(l, l[j] - 1)
       PROVE  s[i] = s[i - 1] + 1
  <2>1. PICK k \in DOMAIN l : l[k] = l[j] - 1
    BY <1>16 DEF In
  <2>2. k < j
    <3>1. k # j
      BY <1>15, <2>1
    <3>2. ~(j < k)
      <4>1. j < k => l[j] < l[k]
        BY <1>5, <1>14 DEF Sorted
      <4>2. QED
        BY <1>15, <2>1, <4>1
    <3>3. QED
      BY <1>8, <1>14, <3>1, <3>2
  <2>3. j # 1 /\ j - 1 \in DOMAIN l /\ j - 1 < j
    BY <1>8, <1>14, <2>2
  <2>4. l[j - 1] < l[j] /\ (k = j - 1 \/ l[k] < l[j - 1])
    <3>1. l[j - 1] < l[j]
      BY <1>5, <1>14, <2>3 DEF Sorted
    <3>2. k = j - 1 \/ k < j - 1
      BY <1>8, <1>14, <2>2
    <3>3. QED
      BY <1>5, <2>3, <3>1, <3>2 DEF Sorted
  <2>5. l[j - 1] \in Nat
    BY <1>8, <2>3, FramesAreNumbers
  <2>6. l[j] = l[j - 1] + 1
    BY <1>15, <2>1, <2>4, <2>5
  <2>7. QED
    BY <1>14, <2>3, <2>6
<1>17. s[i] = s[i - 1] + 1 \/ s[i] <= m - WSize + 1
  <2>1. CASE a < l[j]
    <3>1. l[j] - 1 \in a..(f - 1)
      BY <1>5, <1>7, <1>15, <2>1
    <3>2. In(l, l[j] - 1)
      BY <1>6, <3>1 DEF Released
    <3>3. QED
      BY <1>16, <3>2
  <2>2. CASE l[j] <= a /\ n # e /\ a = e
    BY <1>5, <1>7, <1>14, <1>15, <2>2
  <2>3. CASE l[j] <= a /\ a = m - WSize + 1
    BY <1>14, <2>3
  <2>4. CASE l[j] <= a /\ n = e /\ a = e + 1
    <3>1. CASE l[j] = e + 1
      <4>1. l[j] - 1 = n
        BY <1>7, <2>4, <3>1
      <4>2. In(l, l[j] - 1)
        BY <1>5, <4>1
      <4>3. QED
        BY <1>16, <4>2
    <3>2. CASE l[j] = e
      <4>1. j = 1
        <5>1. SUFFICES ASSUME j # 1
                       PROVE  FALSE
          OBVIOUS
        <5>2. j - 1 \in DOMAIN l /\ j - 1 < j
          BY <1>8, <1>14, <5>1
        <5>3. l[j - 1] < l[j] /\ e <= l[j - 1]
          BY <1>5, <1>14, <5>2 DEF Sorted
        <5>4. l[j - 1] \in Nat
          BY <1>8, <5>2, FramesAreNumbers
        <5>5. QED
          BY <1>7, <3>2, <5>3, <5>4
      <4>2. s[i] = e /\ s[i - 1] = top
        BY <1>14, <3>2, <4>1
      <4>3. CASE e = top + 1
        BY <4>2, <4>3
      <4>4. CASE e <= newest - WSize + 1
        <5>1. e <= m - WSize + 1
          BY <1>5, <1>7, <4>4
        <5>2. QED
          BY <4>2, <5>1
      <4>5. QED
        BY <1>7, <4>3, <4>4
    <3>3. l[j] = e \/ l[j] = e + 1
      BY <1>7, <1>15, <2>4
    <3>4. QED
      BY <3>1, <3>2, <3>3
  <2>5. a < l[j] \/ l[j] <= a
    BY <1>5, <1>15
  <2>6. QED
    BY <1>5, <2>1, <2>2, <2>3, <2>4, <2>5
<1>18. QED
  BY <1>4, <1>13, <1>17
-----------------------------------------------------------------------------
\* The list's frames come from the stream, and the number expected is one.
THEOREM TypeCorrect == Spec => []TypeOK
<1>1. IInv => TypeOK
  BY DEF IInv
<1>2. QED
  BY <1>1, Invariant, PTL

\* The list is in the order of the stream, newer than what has left it, and
\* no longer than a window.
THEOREM ListInOrder == Spec => []HeldWithinWindow
<1>1. QED
  BY IInvHoldsWithinWindow, Invariant, PTL

\* No frame is taken for an old one because its number has wrapped.
THEOREM NoneMistakenForOld == Spec => []LateIsOld
<1>1. QED
  BY IInvLateIsOld, Invariant, PTL

\* Frames leave the list in the order of the stream.
THEOREM DeliversInOrder == Spec => OutInOrder
<1>1. IInv /\ [Next]_vars =>
        [out'.how = "list" => Increasing(<<top>> \o out'.what)]_vars
  BY StepInOrder
<1>2. QED
  BY <1>1, Invariant, PTL DEF Spec, OutInOrder

\* An arriving frame never makes the list pass over one that may still come.
THEOREM SkipsNoneEarly == Spec => NoneSkippedEarly
<1>1. IInv /\ [Next]_vars =>
        [(out'.how = "list" /\ work' = work /\ top # None) =>
           LET s == <<top>> \o out'.what
           IN  \A i \in 2..Len(s) : s[i] = s[i - 1] + 1 \/ s[i] <= newest' - WSize + 1]_vars
  BY StepSkipsNone
<1>2. QED
  BY <1>1, Invariant, PTL DEF Spec, NoneSkippedEarly
-----------------------------------------------------------------------------
(* The safety half of HeldComesOut: whatever the timer, its handler, the   *)
(* worker, an arrival and a flush do to each other, somebody is still due  *)
(* to look at a list that is not empty.                                    *)

HeldIsTimed == list # <<>> => timer \/ firing \/ work \/ ~up
TimedInv == HeldIsTimed /\ (flushPc # "idle" => list = <<>>)

\* What is held is ahead of the expected number, so the timer is started.
LEMMA HeldIsAhead ==
    ASSUME IInv, list # <<>>
    PROVE  Gap(list, indSn)
<1>1. PICK e \in 1..StreamLen : Flowing(e)
  BY DEF IInv, Fresh
<1>2. /\ list \in Seq(Frames) /\ newest \in Int /\ e \in Int /\ WSize \in Int
      /\ Half \in Int /\ WSize <= Half
      /\ \A i \in DOMAIN list : list[i] \in Int
  BY NumbersOfFrames, Constants DEF IInv, TypeOK
<1>3. 1 \in DOMAIN list
  BY <1>2
<1>4. e < list[1] /\ list[1] <= newest /\ newest - WSize + 1 <= e
  BY <1>1, <1>3 DEF Flowing
<1>5. e - list[1] < Half /\ list[1] - e <= Half
  BY <1>2, <1>3, <1>4
<1>6. SnLess(Sn(e), Sn(list[1]))
  BY <1>2, <1>3, <1>4, <1>5, SnLessInOrder
<1>7. QED
  BY <1>1, <1>3, <1>6 DEF Gap, Flowing

HeldAhead == list # <<>> => Gap(list, indSn)

LEMMA InvariantHeldAhead == IInv => HeldAhead
  BY HeldIsAhead DEF HeldAhead

LEMMA StepTimes ==
    ASSUME IInv, TimedInv, [Next]_vars,
           list' # <<>> => Gap(list', indSn')
    PROVE  TimedInv'
<1>1. ASSUME NEW n \in Frames, HoldFrame(n)
      PROVE  TimedInv'
  <2>1. timer' = Gap(list', indSn') /\ flushPc' = "idle"
    BY <1>1 DEF HoldFrame
  <2>2. QED
    BY <2>1 DEF TimedInv, HeldIsTimed
<1>2. ASSUME NEW n \in Frames, LateFrame(n) \/ DuplicateFrame(n)
      PROVE  TimedInv'
  BY <1>2 DEF TimedInv, HeldIsTimed, LateFrame, DuplicateFrame
<1>3. CASE TimeoutWorker
  <2>1. CASE list = <<>>
    <3>1. list' = <<>>
      BY <1>3, <2>1 DEF TimeoutWorker
    <3>2. QED
      BY <3>1 DEF TimedInv, HeldIsTimed
  <2>2. CASE list # <<>>
    <3>1. timer' = (timer \/ Gap(list', indSn')) /\ flushPc' = flushPc
      BY <1>3, <2>2 DEF TimeoutWorker
    <3>2. flushPc = "idle"
      BY <2>2 DEF TimedInv
    <3>3. QED
      BY <3>1, <3>2 DEF TimedInv, HeldIsTimed
  <2>3. QED
    BY <2>1, <2>2
<1>4. CASE TimerFires
  BY <1>4 DEF TimedInv, HeldIsTimed, TimerFires
<1>5. CASE TimeoutHandler
  <2>1. work' = (work \/ up) /\ list' = list /\ up' = up /\ flushPc' = flushPc
    BY <1>5 DEF TimeoutHandler
  <2>2. QED
    BY <2>1 DEF TimedInv, HeldIsTimed
<1>6. CASE FlushList
  BY <1>6 DEF TimedInv, HeldIsTimed, FlushList
<1>7. CASE FlushTimer
  BY <1>7 DEF TimedInv, HeldIsTimed, FlushTimer
<1>8. CASE FlushWork
  BY <1>8 DEF TimedInv, HeldIsTimed, FlushWork
<1>9. CASE WindowMoves \/ BusDown \/ UNCHANGED vars
  BY <1>9 DEF TimedInv, HeldIsTimed, WindowMoves, BusDown, vars
<1>10. QED
  BY <1>1, <1>2, <1>3, <1>4, <1>5, <1>6, <1>7, <1>8, <1>9 DEF Next

\* No frame is held without the timer, its handler or the worker being due,
\* as long as the bus is up.
THEOREM SomebodyLooks == Spec => []HeldIsTimed
<1>1. Init => TimedInv
  BY DEF Init, TimedInv, HeldIsTimed
<1>2. IInv' => HeldAhead'
  BY InvariantHeldAhead, PTL
<1>3. IInv /\ IInv' /\ TimedInv /\ [Next]_vars => TimedInv'
  BY <1>2, StepTimes DEF HeldAhead
<1>4. TimedInv => HeldIsTimed
  BY DEF TimedInv
<1>5. QED
  BY <1>1, <1>3, <1>4, Invariant, PTL DEF Spec
=============================================================================
