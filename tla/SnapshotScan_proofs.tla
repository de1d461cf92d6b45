------------------------ MODULE SnapshotScan_proofs ------------------------
(***************************************************************************)
(* plan_partitions divides the integers for every MIN, MAX and number of   *)
(* parts: each key has exactly one part, and parts follow key order.  Read *)
(* part by part, stopped and resumed at will, no row is skipped but for    *)
(* keys no checkpoint can hold, and what is read again is bounded.         *)
(***************************************************************************)
EXTENDS SnapshotScan, FiniteSetTheorems, TLAPS

-----------------------------------------------------------------------------
(* Floor division.                                                         *)

LEMMA DivType ==
    ASSUME NEW a \in Int, NEW n \in Nat \ {0}
    PROVE  /\ a \div n \in Int
           /\ n * (a \div n) <= a
           /\ a < n * (a \div n) + n
OBVIOUS

LEMMA DivBelow ==
    ASSUME NEW a \in Int, NEW n \in Nat \ {0}, NEW c \in Int, a < n * c
    PROVE  a \div n < c
<1> DEFINE q == a \div n
<1>1. q \in Int /\ n * q <= a
  BY DivType
<1>2. n * q < n * c
  BY <1>1
<1> HIDE DEF q
<1>3. q < c
  BY <1>1, <1>2
<1> QED
  BY <1>3 DEF q

LEMMA DivAtLeast ==
    ASSUME NEW a \in Int, NEW n \in Nat \ {0}, NEW c \in Int, n * c <= a
    PROVE  c <= a \div n
<1> DEFINE q == a \div n
<1>1. q \in Int /\ a < n * q + n
  BY DivType
<1>2. n * c < n * (q + 1)
  BY <1>1
<1> HIDE DEF q
<1>3. c < q + 1
  BY <1>1, <1>2
<1> QED
  BY <1>1, <1>3 DEF q

-----------------------------------------------------------------------------
(* The bounds of a plan.                                                   *)

\* A plan for lo..hi with n parts, as plan_partitions makes them: no more
\* parts than values.
Planned(lo, hi, n) ==
    /\ lo \in Int /\ hi \in Int /\ n \in Nat \ {0}
    /\ n = 1 \/ n <= hi - lo + 1

LEMMA BoundType ==
    ASSUME NEW lo, NEW hi, NEW n, Planned(lo, hi, n), NEW i \in Int
    PROVE  Bound(lo, hi, n, i) \in Int
<1>1. (hi - lo + 1) * i \in Int
  BY DEF Planned
<1> QED
  BY <1>1, DivType DEF Planned, Bound

\* Later bounds are larger: no range is empty.
LEMMA BoundsGrow ==
    ASSUME NEW lo, NEW hi, NEW n, Planned(lo, hi, n), n > 1,
           NEW i \in Int, NEW j \in Int, i < j
    PROVE  Bound(lo, hi, n, i) < Bound(lo, hi, n, j)
<1> DEFINE s == hi - lo + 1
           q == (s * i) \div n
           r == (s * j) \div n
<1>1. lo \in Int /\ s \in Int /\ n \in Nat \ {0} /\ n <= s
  BY DEF Planned
<1>2. Bound(lo, hi, n, i) = lo + q /\ Bound(lo, hi, n, j) = lo + r
  BY DEF Bound
<1> HIDE DEF s
<1>3. s * i \in Int /\ s * j \in Int /\ s * (i + 1) <= s * j /\ s * (i + 1) = s * i + s
  BY <1>1
<1>4. q \in Int /\ n * q <= s * i /\ r \in Int
  BY <1>1, <1>3, DivType
<1> HIDE DEF q
<1>5. n * (q + 1) <= s * j
  BY <1>1, <1>3, <1>4
<1>6. q + 1 <= r
  BY <1>1, <1>3, <1>4, <1>5, DivAtLeast
<1> HIDE DEF r
<1> QED
  BY <1>1, <1>2, <1>4, <1>6

\* A key between two bounds, below the first or from the last on, is in the
\* part between them.
LEMMA PartRange ==
    ASSUME NEW lo, NEW hi, NEW n, Planned(lo, hi, n), NEW i \in 1..n, NEW x \in Int
    PROVE  InPart(x, Partitions(lo, hi, n)[i])
             <=> /\ i # 1 => Bound(lo, hi, n, i - 1) <= x
                 /\ i # n => x < Bound(lo, hi, n, i)
<1>1. Partitions(lo, hi, n)[i] =
        [from |-> IF i = 1 THEN {} ELSE {Bound(lo, hi, n, i - 1)},
         to   |-> IF i = n THEN {} ELSE {Bound(lo, hi, n, i)}]
  BY DEF Partitions
<1>2. Bound(lo, hi, n, i - 1) \in Int /\ Bound(lo, hi, n, i) \in Int
  <2>1. i - 1 \in Int /\ i \in Int
    BY DEF Planned
  <2> QED
    BY <2>1, BoundType
<1> QED
  BY <1>1, <1>2 DEF InPart

\* A part of a smaller key is no later part.
LEMMA PartsInOrder ==
    ASSUME NEW lo, NEW hi, NEW n, Planned(lo, hi, n),
           NEW i \in 1..n, NEW j \in 1..n, NEW x \in Int, NEW y \in Int, x <= y,
           InPart(x, Partitions(lo, hi, n)[i]), InPart(y, Partitions(lo, hi, n)[j])
    PROVE  i <= j
<1> SUFFICES ASSUME j < i PROVE FALSE
  BY DEF Planned
<1>1. n \in Nat /\ i \in Nat /\ j \in Nat /\ i # 1 /\ j # n /\ n > 1
  BY DEF Planned
<1>2. Bound(lo, hi, n, i - 1) <= x /\ y < Bound(lo, hi, n, j)
  BY <1>1, PartRange
<1>3. Bound(lo, hi, n, j) <= Bound(lo, hi, n, i - 1)
  <2>1. CASE j = i - 1
    BY <1>1, <2>1, BoundType
  <2>2. CASE j < i - 1
    <3>1. Bound(lo, hi, n, j) < Bound(lo, hi, n, i - 1)
      BY <1>1, <2>2, BoundsGrow
    <3> QED
      BY <1>1, <3>1, BoundType
  <2> QED
    BY <1>1, <2>1, <2>2
<1>4. Bound(lo, hi, n, j) \in Int /\ Bound(lo, hi, n, i - 1) \in Int
  BY <1>1, BoundType
<1> QED
  BY <1>2, <1>3, <1>4

\* Every key has a part.  Below lo it is the first, above hi the last, and
\* between them the one the inverse of the bounds' arithmetic gives.
LEMMA SomePart ==
    ASSUME NEW lo, NEW hi, NEW n, Planned(lo, hi, n), NEW x \in Int
    PROVE  \E i \in 1..n : InPart(x, Partitions(lo, hi, n)[i])
<1> DEFINE s == hi - lo + 1
<1>t. lo \in Int /\ hi \in Int /\ s \in Int /\ n \in Nat \ {0} /\ 1 \in 1..n /\ n \in 1..n
  BY DEF Planned
<1>b. \A i \in Int : Bound(lo, hi, n, i) = lo + (s * i) \div n /\ s * i \in Int
                     /\ (s * i) \div n \in Int
  BY <1>t, DivType DEF Bound
<1>1. CASE n = 1
  BY <1>1, <1>t, PartRange
<1>2. CASE n > 1 /\ x < lo
  <2> DEFINE a == s * 1
  <2>1. a \in Int /\ n * 0 <= a
    BY <1>2, <1>t DEF Planned
  <2>2. 0 <= a \div n
    <3> HIDE DEF a
    <3> QED
      BY <1>t, <2>1, DivAtLeast
  <2>3. x < Bound(lo, hi, n, 1)
    BY <1>2, <1>t, <1>b, <2>2
  <2> QED
    BY <1>2, <1>t, <2>3, PartRange
<1>3. CASE n > 1 /\ x > hi
  <2>1. s >= 1
    BY <1>3, <1>t DEF Planned
  <2> DEFINE a == s * (n - 1)
  <2>2. a \in Int /\ a < n * s
    <3> HIDE DEF s
    <3> QED
      BY <1>t, <2>1
  <2>3. a \div n < s
    <3> HIDE DEF a, s
    <3> QED
      BY <1>t, <2>2, DivBelow
  <2>4. Bound(lo, hi, n, n - 1) <= x
    BY <1>3, <1>t, <1>b, <2>3
  <2> QED
    BY <1>3, <1>t, <2>4, PartRange
<1>4. CASE n > 1 /\ lo <= x /\ x <= hi
  <2> DEFINE d == x - lo
             m == n * (d + 1) - 1
             q == m \div s
  <2>1. d \in Int /\ 0 <= d /\ d + 1 <= s /\ s \in Nat \ {0}
    BY <1>4, <1>t
  <2>x. x = lo + d
    BY <1>t
  <2> HIDE DEF s, d
  <2>2. m \in Int /\ 0 <= m /\ m < n * s
    BY <1>t, <2>1
  <2>m. m + 1 = n * (d + 1)
    BY <1>t, <2>1
  <2> HIDE DEF m
  <2>3. q \in Int /\ s * q <= m /\ m < s * q + s
    BY <2>1, <2>2, DivType
  <2>4. 0 <= q
    BY <2>1, <2>2, DivAtLeast
  <2>5. q < n
    BY <1>t, <2>1, <2>2, DivBelow
  <2> HIDE DEF q
  <2>6. q + 1 \in 1..n
    BY <1>t, <2>3, <2>4, <2>5
  <2>7. (s * q) \div n < d + 1
    BY <1>t, <2>1, <2>2, <2>3, <2>m, DivBelow
  <2>8. d + 1 <= (s * (q + 1)) \div n
    <3>1. n * (d + 1) <= s * (q + 1)
      BY <1>t, <2>1, <2>2, <2>3, <2>m
    <3> QED
      BY <1>t, <2>1, <2>3, <3>1, DivAtLeast
  <2>9. Bound(lo, hi, n, q) <= x /\ x < Bound(lo, hi, n, q + 1)
    BY <1>t, <1>b, <2>1, <2>3, <2>7, <2>8, <2>x
  <2>10. InPart(x, Partitions(lo, hi, n)[q + 1])
    BY <2>3, <2>6, <2>9, PartRange
  <2> QED
    BY <2>6, <2>10
<1> QED
  BY <1>t, <1>1, <1>2, <1>3, <1>4

-----------------------------------------------------------------------------
(* The theorem of the machine.                                             *)

\* Whatever parts there are, one plan made them.
PartsPlanned ==
    parts # <<>> => \E lo, hi, n \in Int :
        Planned(lo, hi, n) /\ parts = Partitions(lo, hi, n)

\* The number of parts plan_partitions settles on fits lo..hi.
LEMMA CountFits ==
    ASSUME NEW lo \in Int, NEW hi \in Int, NEW approx \in Nat, NEW max \in Nat \ {0},
           NEW min \in Nat
    PROVE  Planned(lo, hi, PartCount(lo, hi, approx, max, min))
<1> DEFINE byRows == approx \div Larger(1, min)
<1>1. byRows \in Int
  BY DivType DEF Larger
<1> HIDE DEF byRows
<1>2. PartCount(lo, hi, approx, max, min)
        = Larger(1, Smaller(max, Smaller(byRows, hi - lo + 1)))
  BY DEF PartCount, byRows
<1> QED
  BY <1>1, <1>2 DEF Larger, Smaller, Planned

LEMMA OneRange == <<[from |-> {}, to |-> {}]>> = Partitions(0, 0, 1) /\ Planned(0, 0, 1)
<1>1. Partitions(0, 0, 1) = [i \in 1..1 |-> [from |-> {}, to |-> {}]]
  BY DEF Partitions
<1> QED
  BY <1>1 DEF Planned

LEMMA SpaceType == Spec => [](\A k \in space : k[1] \in Int)
<1> DEFINE T == \A k \in space : k[1] \in Int
<1>1. Init => T
  BY ScanAssumption DEF Init
<1>2. T /\ [Next]_vars => T'
  BY DEF Next, PlanSnapshot, RowsChange, Flush, SaveProgress, Resume, PartDone, vars
<1> QED
  BY <1>1, <1>2, PTL DEF Spec

LEMMA PlannedNext ==
    ASSUME rows \subseteq space, \A k \in space : k[1] \in Int, PartsPlanned, [Next]_vars
    PROVE  PartsPlanned'
<1>1. CASE PlanSnapshot
  <2>1. CASE parts' = <<[from |-> {}, to |-> {}]>>
    BY <2>1, OneRange DEF PartsPlanned
  <2>2. CASE parts' # <<[from |-> {}, to |-> {}]>>
    <3>1. PICK lo \in rows, hi \in rows, approx \in RowCounts, max \in MaxParts, min \in MinRows :
            parts' = Partitions(lo[1], hi[1], PartCount(lo[1], hi[1], approx, max, min))
      BY <1>1, <2>2 DEF PlanSnapshot
    <3>2. Planned(lo[1], hi[1], PartCount(lo[1], hi[1], approx, max, min))
      BY CountFits, ScanAssumption
    <3> QED
      BY <3>1, <3>2 DEF PartsPlanned, Planned
  <2> QED
    BY <2>1, <2>2
<1>2. CASE UNCHANGED parts
  BY <1>2 DEF PartsPlanned
<1> QED
  BY <1>1, <1>2 DEF Next, RowsChange, Flush, SaveProgress, Resume, PartDone, vars

LEMMA RowsType == Spec => [](rows \subseteq space)
<1>1. Init => rows \subseteq space
  BY DEF Init
<1>2. rows \subseteq space /\ [Next]_vars => (rows \subseteq space)'
  BY DEF Next, PlanSnapshot, RowsChange, Flush, SaveProgress, Resume, PartDone, vars
<1> QED
  BY <1>1, <1>2, PTL DEF Spec

\* In every plan for every table each key has exactly one part, and a larger
\* key no earlier one.
THEOREM PlansAreTotal == Spec => []OnePart
<1>1. Init => PartsPlanned
  BY DEF Init, PartsPlanned
<1>2. rows \subseteq space /\ (\A k \in space : k[1] \in Int) /\ PartsPlanned /\ [Next]_vars
        => PartsPlanned'
  BY PlannedNext
<1>3. (\A k \in space : k[1] \in Int) /\ PartsPlanned => OnePart
  <2> SUFFICES ASSUME \A k \in space : k[1] \in Int, PartsPlanned, parts # <<>>,
                      NEW x \in Firsts
               PROVE  \E i \in DOMAIN parts :
                        /\ \A j \in DOMAIN parts : InPart(x, parts[j]) <=> j = i
                        /\ \A y \in Firsts, j \in DOMAIN parts :
                              y >= x /\ InPart(y, parts[j]) => j >= i
    BY DEF OnePart
  <2>1. PICK lo \in Int, hi \in Int, n \in Int :
          Planned(lo, hi, n) /\ parts = Partitions(lo, hi, n)
    BY DEF PartsPlanned
  <2>2. DOMAIN parts = 1..n /\ n \in Nat /\ Firsts \subseteq Int
    BY <2>1 DEF Partitions, Firsts, Planned
  <2>3. PICK i \in 1..n : InPart(x, parts[i])
    BY <2>1, <2>2, SomePart
  <2>4. \A y \in Firsts : \A j \in 1..n : x <= y /\ InPart(y, parts[j]) => i <= j
    BY <2>1, <2>2, <2>3, PartsInOrder
  <2>5. \A j \in 1..n : InPart(x, parts[j]) => j <= i
    BY <2>1, <2>2, <2>3, PartsInOrder
  <2>6. \A j \in 1..n : InPart(x, parts[j]) <=> j = i
    BY <2>2, <2>3, <2>4, <2>5
  <2> QED
    BY <2>2, <2>3, <2>4, <2>6
<1> QED
  BY <1>1, <1>2, <1>3, SpaceType, RowsType, PTL DEF Spec

-----------------------------------------------------------------------------
(* The order of keys.                                                      *)

Width(w) == w \in 1..2 /\ \A k \in space : k \in [1..w -> Int]

LEMMA After1 ==
    ASSUME NEW k \in [1..1 -> Int], NEW l \in [1..1 -> Int]
    PROVE  KeysetAfter(k, l) <=> k[1] > l[1]
BY DEF KeysetAfter

LEMMA After2 ==
    ASSUME NEW k \in [1..2 -> Int], NEW l \in [1..2 -> Int]
    PROVE  KeysetAfter(k, l) <=> k[1] > l[1] \/ (k[1] = l[1] /\ k[2] > l[2])
<1>1. DOMAIN l = 1..2
  OBVIOUS
<1>2. ASSUME KeysetAfter(k, l) PROVE k[1] > l[1] \/ (k[1] = l[1] /\ k[2] > l[2])
  <2>1. PICK i \in 1..2 : k[i] > l[i] /\ \A j \in 1..(i - 1) : k[j] = l[j]
    BY <1>1, <1>2 DEF KeysetAfter
  <2> QED
    BY <2>1
<1>3. ASSUME k[1] > l[1] PROVE KeysetAfter(k, l)
  BY <1>1, <1>3 DEF KeysetAfter
<1>4. ASSUME k[1] = l[1], k[2] > l[2] PROVE KeysetAfter(k, l)
  <2>1. \A j \in 1..(2 - 1) : j = 1
    OBVIOUS
  <2> QED
    BY <1>1, <1>4, <2>1 DEF KeysetAfter
<1> QED
  BY <1>2, <1>3, <1>4

\* ORDER BY and the keyset predicate are one total order.
LEMMA KeyOrder ==
    ASSUME NEW w \in 1..2, NEW k \in [1..w -> Int], NEW l \in [1..w -> Int]
    PROVE  /\ Precedes(k, l) <=> KeysetAfter(l, k)
           /\ k = l \/ KeysetAfter(k, l) \/ KeysetAfter(l, k)
           /\ ~(KeysetAfter(k, l) /\ KeysetAfter(l, k))
           /\ ~KeysetAfter(k, k)
           /\ \A m \in [1..w -> Int] :
                 KeysetAfter(k, l) /\ KeysetAfter(l, m) => KeysetAfter(k, m)
<1>1. DOMAIN k = 1..w
  OBVIOUS
<1>2. CASE w = 1
  <2>1. k[1] = l[1] => k = l
    BY <1>2
  <2> QED
    BY <1>1, <1>2, <2>1, After1 DEF Precedes
<1>3. CASE w = 2
  <2>1. k[1] = l[1] /\ k[2] = l[2] => k = l
    BY <1>3
  <2>2. k[1] \in Int /\ k[2] \in Int /\ l[1] \in Int /\ l[2] \in Int
    BY <1>3
  <2>3. \A m \in [1..w -> Int] :
                 KeysetAfter(k, l) /\ KeysetAfter(l, m) => KeysetAfter(k, m)
    <3> TAKE m \in [1..w -> Int]
    <3>1. m[1] \in Int /\ m[2] \in Int
      BY <1>3
    <3> QED
      BY <1>3, <2>2, <3>1, After2
  <2> QED
    BY <1>1, <1>3, <2>1, <2>2, <2>3, After2 DEF Precedes
<1> QED
  BY <1>2, <1>3

\* One column's value as Python holds it.
LEMMA RoundOff ==
    ASSUME NEW v \in Int, NEW g \in Nat \ {0}, NEW u \in Nat, u < g
    PROVE  LET x == ((v + u) \div g) * g IN
           /\ x \in Int /\ x <= v + u
           /\ ((x + u) \div g) * g = x
           /\ g = 1 => x = v
<1> DEFINE q == (v + u) \div g
           x == q * g
<1>1. q \in Int /\ g * q <= v + u /\ v + u < g * q + g
  BY DivType
<1> HIDE DEF q
<1>2. x \in Int /\ x = g * q
  BY <1>1
<1> DEFINE p == (x + u) \div g
<1>3. p \in Int /\ q <= p /\ p < q + 1
  <2>1. x + u \in Int /\ g * q <= x + u /\ x + u < g * (q + 1)
    BY <1>1, <1>2
  <2> HIDE DEF x
  <2> QED
    BY <1>1, <2>1, DivType, DivAtLeast, DivBelow
<1>4. p = q
  <2> HIDE DEF p
  <2> QED
    BY <1>1, <1>3
<1>5. g = 1 => x = v
  BY <1>1, <1>2
<1> QED
  BY <1>1, <1>2, <1>4, <1>5 DEF q

LEMMA CodecType ==
    ASSUME codec \in Codecs, NEW i \in 1..2
    PROVE  codec[i].grain \in Nat \ {0} /\ codec[i].up \in Nat /\ codec[i].up < codec[i].grain
<1>1. codec \in [1..2 -> [grain : Nat \ {0}, up : Nat]]
  BY ScanAssumption
<1> QED
  BY <1>1, ScanAssumption

\* A stored key is one of the keys' width, above the key by what is rounded up
\* at most, and storing it again changes nothing.
LEMMA StoredType ==
    ASSUME codec \in Codecs, NEW w \in 1..2, NEW l \in [1..w -> Int]
    PROVE  /\ Stored(l) \in [1..w -> Int]
           /\ \A i \in 1..w : Stored(l)[i] <= l[i] + codec[i].up
           /\ Stored(Stored(l)) = Stored(l)
           /\ Exact => Stored(l) = l
<1> DEFINE s == Stored(l)
<1>1. \A i \in 1..w : s[i] = ((l[i] + codec[i].up) \div codec[i].grain) * codec[i].grain
  BY DEF Stored
<1>2. \A i \in 1..w :
          /\ s[i] \in Int /\ s[i] <= l[i] + codec[i].up
          /\ ((s[i] + codec[i].up) \div codec[i].grain) * codec[i].grain = s[i]
          /\ codec[i].grain = 1 => s[i] = l[i]
  <2> TAKE i \in 1..w
  <2>1. i \in 1..2 /\ l[i] \in Int
    OBVIOUS
  <2>2. codec[i].grain \in Nat \ {0} /\ codec[i].up \in Nat /\ codec[i].up < codec[i].grain
    BY <2>1, CodecType
  <2> DEFINE g == codec[i].grain
             u == codec[i].up
             x == ((l[i] + u) \div g) * g
  <2>3. x \in Int /\ x <= l[i] + u /\ ((x + u) \div g) * g = x /\ (g = 1 => x = l[i])
    <3> HIDE DEF g, u
    <3>1. l[i] \in Int /\ g \in Nat \ {0} /\ u \in Nat /\ u < g
      BY <2>1, <2>2 DEF g, u
    <3> QED
      BY <3>1, RoundOff
  <2>4. s[i] = x
    BY <1>1
  <2> HIDE DEF s, x
  <2> QED
    BY <2>3, <2>4
<1>3. DOMAIN s = 1..w /\ s = [i \in 1..w |-> s[i]]
  BY DEF Stored
<1>4. s \in [1..w -> Int]
  BY <1>2, <1>3
<1>5. Stored(s) = [i \in 1..w |-> s[i]]
  <2>1. Stored(s) = [i \in 1..w |-> ((s[i] + codec[i].up) \div codec[i].grain) * codec[i].grain]
    BY <1>3 DEF Stored
  <2> HIDE DEF s
  <2> QED
    BY <1>2, <2>1
<1>6. Exact => s = l
  <2>1. DOMAIN codec = 1..2
    BY ScanAssumption
  <2>2. Exact => \A i \in 1..w : s[i] = l[i]
    BY <1>2, <2>1 DEF Exact
  <2> HIDE DEF s
  <2> QED
    BY <1>4, <2>2
<1> QED
  BY <1>2, <1>3, <1>4, <1>5, <1>6

\* Where keys are resumable a checkpoint is not past a key its row precedes.
LEMMA StoredIsBefore ==
    ASSUME codec \in Codecs, Spaced, Resumable, NEW w \in 1..2, space \subseteq [1..w -> Int],
           NEW k \in space, NEW l \in space, KeysetAfter(k, l)
    PROVE  KeysetAfter(k, Stored(l))
<1> DEFINE s == Stored(l)
<1>1. s \in [1..w -> Int] /\ \A i \in 1..w : s[i] <= l[i] + codec[i].up
  BY StoredType
<1>2. \A i \in 1..w : k[i] > l[i] => k[i] > l[i] + codec[i].up
  BY DEF Spaced
<1>3. codec[1].up \in Nat /\ codec[2].up \in Nat
  BY CodecType
<1> HIDE DEF s
<1>4. CASE w = 1
  <2>1. k[1] > l[1] /\ k[1] \in Int /\ l[1] \in Int /\ s[1] \in Int
    BY <1>1, <1>4, After1
  <2> QED
    BY <1>1, <1>2, <1>3, <1>4, <2>1, After1 DEF s
<1>5. CASE w = 2
  <2>1. codec[1].up = 0
    BY <1>5 DEF Resumable
  <2>2. /\ k[1] \in Int /\ k[2] \in Int /\ l[1] \in Int /\ l[2] \in Int
        /\ s[1] \in Int /\ s[2] \in Int
    BY <1>1, <1>5
  <2>3. k[1] > l[1] \/ (k[1] = l[1] /\ k[2] > l[2])
    BY <1>5, After2
  <2>4. k[1] > s[1] \/ (k[1] = s[1] /\ k[2] > s[2])
    BY <1>1, <1>2, <1>3, <1>5, <2>1, <2>2, <2>3
  <2> QED
    BY <1>1, <1>5, <2>4, After2 DEF s
<1> QED
  BY <1>4, <1>5

\* The last row of a batch, and what it leaves for later.
LEMMA BatchLast ==
    ASSUME space \in KeySpaces, NEW S \in SUBSET space, S # {}, NEW B \in FirstBatch(S)
    PROVE  /\ B \subseteq S /\ Last(B) \in B
           /\ \A c \in B : c = Last(B) \/ Precedes(c, Last(B))
           /\ \A c \in S \ B : Precedes(Last(B), c)
<1>1. B \subseteq S /\ Cardinality(B) = Smaller(BatchSize, Cardinality(S))
      /\ \A b \in B, c \in S \ B : Precedes(b, c)
  BY DEF FirstBatch
<1>2. IsFiniteSet(space)
  BY ScanAssumption
<1>3. IsFiniteSet(S) /\ IsFiniteSet(B)
  BY <1>1, <1>2, FS_Subset
<1>4. Cardinality(S) \in Nat \ {0}
  BY <1>3, FS_EmptySet, FS_CardinalityType
<1>5. Cardinality(B) # 0
  BY <1>1, <1>4, ScanAssumption DEF Smaller
<1>6. B # {}
  BY <1>5, FS_EmptySet
<1>7. B \in (SUBSET space) \ {{}}
  BY <1>1, <1>6
<1>8. \E b \in B : \A c \in B : c = b \/ Precedes(c, b)
  BY <1>7, LastAssumption
<1> QED
  BY <1>1, <1>8 DEF Last

-----------------------------------------------------------------------------
(* Nothing is skipped, and little read twice.                              *)

\* Position p of a part lies at or behind key k.
Passed(p, k) == p # <<>> /\ ~KeysetAfter(k, p)

InRange(i, k) == InPart(k[1], parts[i])

ScanTypes == TypeOK /\ DOMAIN cursor = DOMAIN parts /\ Spaced

\* Every row a position has passed, or in a part that is done, has been read,
\* if the keys can be resumed after.
AllPassedRead == Resumable =>
    \A i \in DOMAIN parts, k \in rows :
          InRange(i, k) /\ (Passed(cursor[i], k) \/ Passed(after[i], k) \/ i \in done)
             => copies[k] >= 1

\* Before the first read no position has passed anything.
StartsEmpty ==
    /\ (\A k \in space : copies[k] = 0) =>
          \A i \in DOMAIN parts : cursor[i] = <<>> /\ after[i] = <<>>
    /\ parts = <<>> => \A k \in space : copies[k] = 0

\* A row is read once each time its part passes it.
ReadPerPass == \A i \in DOMAIN parts, k \in space :
    InRange(i, k) => copies[k] <= again[i] + (IF Passed(cursor[i], k) THEN 1 ELSE 0)

\* With exact keys no position lies before its checkpoint.
NotBefore == Exact => \A i \in DOMAIN parts :
    after[i] # <<>> => Passed(cursor[i], after[i])

ScanInv == ScanTypes /\ AllPassedRead /\ StartsEmpty /\ ReadPerPass /\ NotBefore

\* The keys of a table have one width.
LEMMA SpaceWidth ==
    ASSUME space \in KeySpaces
    PROVE  \E w \in 1..2 : space \subseteq [1..w -> Int]
BY ScanAssumption

LEMMA StoredStart == Stored(<<>>) = <<>>
BY DEF Stored

\* A position is the start or has the width of the keys; one that is not a key
\* of the table is its own checkpoint.
LEMMA Positions ==
    ASSUME TypeOK, NEW w \in 1..2, space \subseteq [1..w -> Int], NEW i \in DOMAIN parts
    PROVE  /\ cursor[i] # <<>> => cursor[i] \in [1..w -> Int]
           /\ after[i] # <<>> => after[i] \in [1..w -> Int]
           /\ cursor[i] \notin space => cursor[i] = Stored(cursor[i])
<1>1. cursor[i] \in space \cup {<<>>, after[i]} /\ codec \in Codecs
  BY DEF TypeOK
<1>2. CASE after[i] = <<>>
  BY <1>1, <1>2, StoredStart
<1>3. CASE \E k \in space : after[i] = Stored(k)
  <2>1. PICK k \in space : after[i] = Stored(k)
    BY <1>3
  <2>2. k \in [1..w -> Int]
    OBVIOUS
  <2>3. after[i] \in [1..w -> Int] /\ Stored(after[i]) = after[i]
    BY <1>1, <2>1, <2>2, StoredType
  <2> QED
    BY <1>1, <2>3, StoredStart
<1> QED
  BY <1>2, <1>3 DEF TypeOK

LEMMA InitScan == Init => ScanInv
<1> SUFFICES ASSUME Init PROVE ScanInv
  OBVIOUS
<1>1. DOMAIN parts = {} /\ DOMAIN after = {} /\ DOMAIN cursor = {} /\ done = {}
  BY DEF Init
<1>2. again \in [DOMAIN parts -> 0..MaxResumes]
  BY <1>1 DEF Init
<1>3. ScanTypes
  BY <1>1, <1>2 DEF Init, ScanTypes, TypeOK
<1> QED
  BY <1>1, <1>3 DEF Init, ScanInv, AllPassedRead, StartsEmpty, ReadPerPass, NotBefore

LEMMA PlanScan ==
    ASSUME ScanInv, PlanSnapshot
    PROVE  ScanInv'
<1>1. /\ DOMAIN after' = DOMAIN parts' /\ \A i \in DOMAIN parts' : after'[i] = <<>>
      /\ again' = [i \in DOMAIN parts' |-> 0]
  BY DEF PlanSnapshot
<1>2. cursor' = after' /\ UNCHANGED <<space, codec, rows, done, copies>> /\ parts = <<>>
  BY DEF PlanSnapshot
<1>3. DOMAIN parts = {}
  BY <1>2
<1>4. done = {} /\ \A k \in space : copies[k] = 0
  BY <1>2, <1>3 DEF ScanInv, ScanTypes, TypeOK, StartsEmpty
<1>5. again' \in [DOMAIN parts' -> 0..MaxResumes] /\ \A i \in DOMAIN parts' : again'[i] = 0
  BY <1>1, ScanAssumption
<1>6. ScanTypes'
  BY <1>1, <1>2, <1>4, <1>5 DEF ScanInv, ScanTypes, TypeOK, Spaced
<1> QED
  BY <1>1, <1>2, <1>4, <1>5, <1>6
  DEF ScanInv, AllPassedRead, StartsEmpty, ReadPerPass, NotBefore, Passed, InRange

LEMMA ChangeScan ==
    ASSUME ScanInv, RowsChange
    PROVE  ScanInv'
<1>1. /\ UNCHANGED <<space, codec, parts, after, cursor, done, again, copies>>
      /\ done = {} /\ rows' \subseteq space /\ \A k \in space : copies[k] = 0
  BY DEF RowsChange
<1>2. \A i \in DOMAIN parts : cursor[i] = <<>> /\ after[i] = <<>>
  BY <1>1 DEF ScanInv, StartsEmpty
<1>3. ScanTypes'
  BY <1>1 DEF ScanInv, ScanTypes, TypeOK, Spaced, Stored
<1> QED
  BY <1>1, <1>2, <1>3
  DEF ScanInv, AllPassedRead, StartsEmpty, ReadPerPass, NotBefore, Passed, InRange, Exact

LEMMA ResumeScan ==
    ASSUME ScanInv, NEW i \in DOMAIN parts, Resume(i)
    PROVE  ScanInv'
<1>1. /\ cursor' = [cursor EXCEPT ![i] = after[i]] /\ again' = [again EXCEPT ![i] = @ + 1]
      /\ again[i] < MaxResumes
      /\ UNCHANGED <<space, codec, rows, parts, after, done, copies>>
  BY DEF Resume
<1>t. ScanTypes /\ TypeOK
  BY DEF ScanInv, ScanTypes
<1>2. /\ DOMAIN cursor' = DOMAIN parts /\ cursor'[i] = after[i]
      /\ \A j \in DOMAIN parts : j # i => cursor'[j] = cursor[j]
  BY <1>1, <1>t DEF ScanTypes
<1>3. /\ again' \in [DOMAIN parts -> 0..MaxResumes] /\ again'[i] = again[i] + 1
      /\ again[i] \in Nat /\ \A j \in DOMAIN parts : j # i => again'[j] = again[j]
  BY <1>1, <1>t, ScanAssumption DEF TypeOK
<1>4. ScanTypes'
  BY <1>1, <1>2, <1>3, <1>t DEF ScanTypes, TypeOK, Spaced, Stored
<1>5. AllPassedRead'
  BY <1>1, <1>2 DEF ScanInv, AllPassedRead, Passed, InRange, Resumable
<1>6. StartsEmpty'
  BY <1>1, <1>2 DEF ScanInv, StartsEmpty
<1>7. ReadPerPass'
  <2> SUFFICES ASSUME NEW j \in DOMAIN parts, NEW k \in space, InRange(j, k)
               PROVE  copies[k] <= again'[j] + (IF Passed(cursor'[j], k) THEN 1 ELSE 0)
    BY <1>1 DEF ReadPerPass, InRange, Passed, KeysetAfter
  <2>1. copies[k] <= again[j] + (IF Passed(cursor[j], k) THEN 1 ELSE 0) /\ copies[k] \in Nat
    BY <1>t DEF ScanInv, ReadPerPass, TypeOK
  <2>2. CASE j = i
    BY <1>3, <2>1, <2>2
  <2>3. CASE j # i
    BY <1>2, <1>3, <2>1, <2>3
  <2> QED
    BY <2>2, <2>3
<1>8. NotBefore'
  <2>1. PICK w \in 1..2 : space \subseteq [1..w -> Int]
    BY <1>t, SpaceWidth DEF TypeOK
  <2>2. after[i] # <<>> => after[i] \in [1..w -> Int]
    BY <1>t, <2>1, Positions
  <2>3. after[i] # <<>> => Passed(after[i], after[i])
    BY <2>2, KeyOrder DEF Passed
  <2> QED
    BY <1>1, <1>2, <2>3 DEF ScanInv, NotBefore, Exact, Passed, KeysetAfter
<1> QED
  BY <1>4, <1>5, <1>6, <1>7, <1>8 DEF ScanInv

\* save_progress, with or without the mark that the part is done.
LEMMA SaveScan ==
    ASSUME ScanInv, NEW i \in DOMAIN parts, SaveProgress(i) \/ PartDone(i)
    PROVE  ScanInv'
<1>1. /\ after' = [after EXCEPT ![i] = Stored(cursor[i])]
      /\ UNCHANGED <<space, codec, rows, parts, cursor, again, copies>>
      /\ done' = done \/ (done' = done \cup {i} /\ Pending(i) = {})
  BY DEF SaveProgress, PartDone, Checkpoint
<1>t. ScanTypes /\ TypeOK
  BY DEF ScanInv, ScanTypes
<1>2. PICK w \in 1..2 : space \subseteq [1..w -> Int]
  BY <1>t, SpaceWidth DEF TypeOK
<1>3. /\ cursor[i] # <<>> => cursor[i] \in [1..w -> Int]
      /\ cursor[i] \notin space => cursor[i] = Stored(cursor[i])
      /\ cursor[i] \in space \cup {<<>>, after[i]}
  BY <1>t, <1>2, Positions DEF TypeOK
<1>4. /\ DOMAIN after' = DOMAIN parts /\ after'[i] = Stored(cursor[i])
      /\ \A j \in DOMAIN parts : j # i => after'[j] = after[j]
  BY <1>1, <1>t DEF TypeOK
<1>5. after'[i] = <<>> \/ \E k \in space : after'[i] = Stored(k)
  <2>1. CASE cursor[i] \in space
    BY <1>4, <2>1
  <2>2. CASE cursor[i] \notin space
    BY <1>3, <1>4, <1>t, <2>2 DEF TypeOK
  <2> QED
    BY <2>1, <2>2
<1>6. ScanTypes'
  <2>1. \A j \in DOMAIN parts :
          /\ cursor[j] \in space \cup {<<>>, after'[j]}
          /\ after'[j] = <<>> \/ \E k \in space : after'[j] = Stored(k)
    BY <1>3, <1>4, <1>5, <1>t DEF TypeOK
  <2>2. \A k : Stored(k)' = Stored(k)
    BY <1>1 DEF Stored
  <2>3. Spaced' /\ done' \subseteq DOMAIN parts
    BY <1>1, <1>t DEF ScanTypes, TypeOK, Spaced
  <2> QED
    BY <1>1, <1>4, <1>t, <2>1, <2>2, <2>3 DEF ScanTypes, TypeOK
<1>7. AllPassedRead'
  <2> SUFFICES ASSUME Resumable, NEW j \in DOMAIN parts, NEW k \in rows, InRange(j, k),
                      Passed(cursor[j], k) \/ Passed(after'[j], k) \/ j \in done'
               PROVE  copies[k] >= 1
    BY <1>1 DEF AllPassedRead, Passed, InRange, Resumable, KeysetAfter
  <2>0. k \in space
    BY <1>t DEF TypeOK
  <2>1. CASE Passed(cursor[j], k) \/ Passed(after[j], k) \/ j \in done
    BY <2>1 DEF ScanInv, AllPassedRead
  <2>2. CASE j = i /\ Passed(after'[i], k)
    <3>1. CASE cursor[i] \in space
      <4>1. KeysetAfter(k, cursor[i]) => KeysetAfter(k, after'[i])
        BY <1>2, <1>4, <1>t, <2>0, <3>1, StoredIsBefore DEF ScanTypes, TypeOK
      <4>2. cursor[i] # <<>>
        BY <1>4, <2>2, StoredStart DEF Passed
      <4> QED
        BY <2>1, <2>2, <4>1, <4>2 DEF Passed
    <3>2. CASE cursor[i] \notin space
      BY <1>3, <1>4, <2>1, <2>2, <3>2
    <3> QED
      BY <3>1, <3>2
  <2>3. CASE j = i /\ Pending(i) = {}
    <3>1. Passed(cursor[i], k)
      BY <2>3 DEF Pending, Passed, InRange
    <3> QED
      BY <2>1, <2>3, <3>1
  <2> QED
    BY <1>1, <1>4, <2>1, <2>2, <2>3
<1>8. StartsEmpty'
  BY <1>1, <1>4, StoredStart DEF ScanInv, StartsEmpty
<1>9. ReadPerPass'
  BY <1>1 DEF ScanInv, ReadPerPass, InRange, Passed, KeysetAfter
<1>10. NotBefore'
  <2> SUFFICES ASSUME Exact, NEW j \in DOMAIN parts, after'[j] # <<>>
               PROVE  Passed(cursor[j], after'[j])
    BY <1>1 DEF NotBefore, Exact, Passed, KeysetAfter
  <2>1. CASE j = i
    <3>1. cursor[i] # <<>>
      BY <1>4, <2>1, StoredStart
    <3>2. Stored(cursor[i]) = cursor[i] /\ cursor[i] \in [1..w -> Int]
      BY <1>3, <1>t, <3>1, StoredType DEF TypeOK
    <3>3. ~KeysetAfter(cursor[i], cursor[i])
      BY <3>2, KeyOrder
    <3> QED
      BY <1>4, <2>1, <3>1, <3>2, <3>3 DEF Passed
  <2>2. CASE j # i
    BY <1>4, <2>2 DEF ScanInv, NotBefore
  <2> QED
    BY <2>1, <2>2
<1> QED
  BY <1>6, <1>7, <1>8, <1>9, <1>10 DEF ScanInv

LEMMA FlushScan ==
    ASSUME ScanInv, OnePart, NEW i \in DOMAIN parts, Flush(i)
    PROVE  ScanInv'
<1>1. PICK B \in FirstBatch(Pending(i)) :
        /\ copies' = [k \in space |-> IF k \in B THEN copies[k] + 1 ELSE copies[k]]
        /\ cursor' = [cursor EXCEPT ![i] = Last(B)]
  BY DEF Flush
<1>2. /\ UNCHANGED <<space, codec, rows, parts, after, done, again>>
      /\ Pending(i) # {} /\ i \notin done
  BY DEF Flush
<1>t. ScanTypes /\ TypeOK
  BY DEF ScanInv, ScanTypes
<1>3. PICK w \in 1..2 : space \subseteq [1..w -> Int]
  BY <1>t, SpaceWidth DEF TypeOK
<1>4. Pending(i) \subseteq rows /\ Pending(i) \subseteq space
  BY <1>t DEF Pending, TypeOK
<1> DEFINE l == Last(B)
<1>5. /\ B \subseteq Pending(i) /\ l \in B
      /\ \A c \in B : c = l \/ Precedes(c, l)
      /\ \A c \in Pending(i) \ B : Precedes(l, c)
  BY <1>2, <1>4, <1>t, BatchLast DEF TypeOK
<1> HIDE DEF l
<1>6. l \in space /\ l \in [1..w -> Int] /\ \A k \in space : k \in [1..w -> Int]
  BY <1>3, <1>4, <1>5
<1>7. l # <<>>
  <2>1. 1 \in DOMAIN l
    BY <1>6
  <2> QED
    BY <2>1
<1>8. /\ cursor'[i] = l /\ DOMAIN cursor' = DOMAIN parts
      /\ \A j \in DOMAIN parts : j # i => cursor'[j] = cursor[j]
  BY <1>1, <1>t DEF ScanTypes, l
<1>9. /\ copies' \in [space -> Nat]
      /\ \A k \in B : copies'[k] = copies[k] + 1 /\ copies[k] \in Nat
      /\ \A k \in space \ B : copies'[k] = copies[k]
      /\ \A k \in space : copies[k] >= 1 => copies'[k] >= 1
  BY <1>1, <1>4, <1>5, <1>t DEF TypeOK
<1>10. /\ cursor[i] # <<>> => cursor[i] \in [1..w -> Int] /\ KeysetAfter(l, cursor[i])
       /\ after[i] # <<>> => after[i] \in [1..w -> Int]
  <2>1. cursor[i] # <<>> => KeysetAfter(l, cursor[i])
    BY <1>5 DEF Pending
  <2> QED
    BY <1>3, <1>t, <2>1, Positions
\* What was passed stays passed.
<1>11. \A k \in [1..w -> Int] : Passed(cursor[i], k) => Passed(l, k)
  <2> SUFFICES ASSUME NEW k \in [1..w -> Int], Passed(cursor[i], k) PROVE ~KeysetAfter(k, l)
    BY <1>7 DEF Passed
  <2>1. cursor[i] \in [1..w -> Int] /\ KeysetAfter(l, cursor[i]) /\ ~KeysetAfter(k, cursor[i])
    BY <1>10 DEF Passed
  <2> QED
    BY <1>6, <2>1, KeyOrder
<1>12. \A k \in B : /\ InRange(i, k) /\ ~Passed(cursor[i], k) /\ Passed(l, k) /\ k \in space
  <2>1. \A k \in B : InRange(i, k) /\ ~Passed(cursor[i], k) /\ k \in space
    BY <1>4, <1>5 DEF Pending, Passed, InRange
  <2>2. \A k \in B : ~KeysetAfter(k, l)
    BY <1>5, <1>6, <2>1, KeyOrder
  <2> QED
    BY <1>7, <2>1, <2>2 DEF Passed
<1>13. ScanTypes'
  <2>1. \A k : Stored(k)' = Stored(k)
    BY <1>2 DEF Stored
  <2>2. Spaced'
    BY <1>2, <1>t DEF ScanTypes, Spaced
  <2>3. \A j \in DOMAIN parts : cursor'[j] \in space \cup {<<>>, after[j]}
    BY <1>6, <1>8, <1>t DEF TypeOK
  <2> QED
    BY <1>2, <1>8, <1>9, <1>t, <2>1, <2>2, <2>3 DEF ScanTypes, TypeOK
<1>14. \A k \in rows : InRange(i, k) /\ Passed(l, k) =>
           Passed(cursor[i], k) \/ copies'[k] >= 1
  <2> SUFFICES ASSUME NEW k \in rows, InRange(i, k), Passed(l, k), ~Passed(cursor[i], k)
               PROVE  copies'[k] >= 1
    OBVIOUS
  <2>1. k \in space /\ k \in [1..w -> Int] /\ ~KeysetAfter(k, l)
    BY <1>6, <1>t DEF TypeOK, Passed
  <2>2. k \in Pending(i)
    BY DEF Pending, Passed, InRange
  <2>3. k \in B
    BY <1>5, <1>6, <2>1, <2>2, KeyOrder
  <2> QED
    BY <1>9, <2>3
<1>15. AllPassedRead'
  <2> SUFFICES ASSUME Resumable, NEW j \in DOMAIN parts, NEW k \in rows, InRange(j, k),
                      Passed(cursor'[j], k) \/ Passed(after[j], k) \/ j \in done
               PROVE  copies'[k] >= 1
    BY <1>2 DEF AllPassedRead, Passed, InRange, Resumable, KeysetAfter
  <2>0. k \in space
    BY <1>t DEF TypeOK
  <2>1. CASE Passed(cursor[j], k) \/ Passed(after[j], k) \/ j \in done
    <3>1. copies[k] >= 1
      BY <2>1 DEF ScanInv, AllPassedRead
    <3> QED
      BY <1>9, <2>0, <3>1
  <2>2. CASE j = i /\ Passed(l, k)
    BY <1>14, <2>1, <2>2
  <2> QED
    BY <1>8, <2>1, <2>2
<1>16. StartsEmpty'
  <2>1. copies'[l] # 0
    BY <1>5, <1>9
  <2> QED
    BY <1>2, <1>6, <2>1 DEF StartsEmpty
<1>17. ReadPerPass'
  <2> SUFFICES ASSUME NEW j \in DOMAIN parts, NEW k \in space, InRange(j, k)
               PROVE  copies'[k] <= again[j] + (IF Passed(cursor'[j], k) THEN 1 ELSE 0)
    BY <1>2 DEF ReadPerPass, InRange, Passed, KeysetAfter
  <2>1. /\ copies[k] <= again[j] + (IF Passed(cursor[j], k) THEN 1 ELSE 0)
        /\ copies[k] \in Nat /\ again[j] \in Nat
    BY <1>t, ScanAssumption DEF ScanInv, ReadPerPass, TypeOK
  <2>2. CASE k \in B
    <3>1. j = i
      <4>1. k[1] \in Firsts
        BY DEF Firsts
      <4> QED
        BY <1>12, <2>2, <4>1 DEF OnePart, InRange
    <3>2. ~Passed(cursor[i], k) /\ Passed(cursor'[i], k)
      BY <1>8, <1>12, <2>2
    <3> QED
      BY <1>9, <2>1, <2>2, <3>1, <3>2
  <2>3. CASE k \notin B
    <3>1. Passed(cursor[j], k) => Passed(cursor'[j], k)
      BY <1>6, <1>8, <1>11
    <3> QED
      BY <1>9, <2>1, <2>3, <3>1
  <2> QED
    BY <2>2, <2>3
<1>18. NotBefore'
  <2> SUFFICES ASSUME Exact, NEW j \in DOMAIN parts, after[j] # <<>>
               PROVE  Passed(cursor'[j], after[j])
    BY <1>2 DEF NotBefore, Exact, Passed, KeysetAfter
  <2>1. Passed(cursor[j], after[j])
    BY DEF ScanInv, NotBefore
  <2> QED
    BY <1>8, <1>10, <1>11, <2>1
<1> QED
  BY <1>13, <1>15, <1>16, <1>17, <1>18 DEF ScanInv

LEMMA ScanInvariant == Spec => []ScanInv
<1>1. Init => ScanInv
  BY InitScan
<1>2. OnePart /\ ScanInv /\ [Next]_vars => ScanInv'
  <2> SUFFICES ASSUME OnePart, ScanInv, [Next]_vars PROVE ScanInv'
    OBVIOUS
  <2>1. CASE UNCHANGED vars
    <3>1. ScanTypes'
      BY <2>1 DEF vars, ScanInv, ScanTypes, TypeOK, Spaced, Stored
    <3> QED
      BY <2>1, <3>1
      DEF vars, ScanInv, AllPassedRead, StartsEmpty, ReadPerPass, NotBefore,
          Passed, InRange, Exact, Resumable
  <2>2. CASE PlanSnapshot
    BY <2>2, PlanScan
  <2>3. CASE RowsChange
    BY <2>3, ChangeScan
  <2>4. CASE \E i \in DOMAIN parts : Flush(i) \/ SaveProgress(i) \/ Resume(i) \/ PartDone(i)
    BY <2>4, FlushScan, SaveScan, ResumeScan
  <2> QED
    BY <2>1, <2>2, <2>3, <2>4 DEF Next
<1> QED
  BY <1>1, <1>2, PlansAreTotal, PTL DEF Spec

\* For every table and interleaving, and wherever parts are stopped or fail,
\* also between a flush and its checkpoint: when every part is done every row
\* has been inserted, if keys can be resumed after; a part inserts a row once
\* more at most each time it goes back; and no row that an exact checkpoint
\* covers is read again.
THEOREM NothingSkipped == Spec => []ReadInFull
<1>1. ScanInv /\ OnePart => ReadInFull
  <2> SUFFICES ASSUME ScanInv, OnePart PROVE ReadInFull
    OBVIOUS
  <2>t. ScanTypes /\ TypeOK
    BY DEF ScanInv, ScanTypes
  <2>1. ASSUME AllDone, Resumable, NEW k \in rows PROVE copies[k] >= 1
    <3>1. k \in space /\ k[1] \in Firsts
      BY <2>t DEF TypeOK, Firsts
    <3>2. PICK i \in DOMAIN parts : InPart(k[1], parts[i])
      BY <2>1, <3>1 DEF OnePart, AllDone
    <3> QED
      BY <2>1, <3>2 DEF AllDone, ScanInv, AllPassedRead, InRange
  <2>2. ASSUME NEW i \in DOMAIN parts, NEW k \in space, InPart(k[1], parts[i])
        PROVE  copies[k] <= 1 + again[i]
    <3>1. copies[k] <= again[i] + (IF Passed(cursor[i], k) THEN 1 ELSE 0)
      BY <2>2 DEF ScanInv, ReadPerPass, InRange
    <3>2. copies[k] \in Nat /\ again[i] \in Nat
      BY <2>t, ScanAssumption DEF TypeOK
    <3> QED
      BY <3>1, <3>2
  <2>3. ASSUME Exact, NEW i \in DOMAIN parts, NEW k \in Pending(i), after[i] # <<>>
        PROVE  KeysetAfter(k, after[i])
    <3>1. PICK w \in 1..2 : space \subseteq [1..w -> Int]
      BY <2>t, SpaceWidth DEF TypeOK
    <3>2. Passed(cursor[i], after[i])
      BY <2>3 DEF ScanInv, NotBefore
    <3>3. k \in [1..w -> Int] /\ KeysetAfter(k, cursor[i]) /\ ~KeysetAfter(after[i], cursor[i])
      BY <2>t, <3>1, <3>2 DEF Pending, Passed, TypeOK
    <3>4. cursor[i] \in [1..w -> Int] /\ after[i] \in [1..w -> Int]
      BY <2>3, <2>t, <3>1, <3>2, Positions DEF Passed
    <3>5. after[i] = cursor[i] \/ KeysetAfter(cursor[i], after[i])
      BY <3>3, <3>4, KeyOrder
    <3> QED
      BY <3>3, <3>4, <3>5, KeyOrder
  <2> QED
    BY <2>1, <2>2, <2>3 DEF ReadInFull
<1> QED
  BY <1>1, ScanInvariant, PlansAreTotal, PTL

\* A checkpoint always has a value for every key column, and a query starts at
\* a key of the table, at its part's checkpoint or at the part's start.
THEOREM ScanTypeCorrect == Spec => []TypeOK
<1>1. ScanInv => TypeOK
  BY DEF ScanInv, ScanTypes
<1> QED
  BY <1>1, ScanInvariant, PTL
=============================================================================
