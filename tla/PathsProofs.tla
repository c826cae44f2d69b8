----------------------------- MODULE PathsProofs -----------------------------
(***************************************************************************)
(* What the path layer lets through, for any segments, prefixes, lengths   *)
(* and names: normpath against following a path segment by segment, and    *)
(* the way of a name through the commands.                                 *)
(***************************************************************************)
EXTENDS Paths, FunctionTheorems, FiniteSetTheorems, SequenceTheorems, WellFoundedInduction, TLAPS

-----------------------------------------------------------------------------
(* Induction over the places of a path.                                    *)

\* Every number is in a set that holds 0 and the successor of each member.
LEMMA AllNumbers ==
  ASSUME NEW S, 0 \in S, \A k \in Nat : k \in S => k + 1 \in S
  PROVE  Nat \subseteq S
<1> DEFINE R == OpToRel(<, Nat)
           T == Nat \ S
<1> SUFFICES ASSUME T # {} PROVE FALSE
  OBVIOUS
<1>1. \A x, y \in Nat : <<y, x>> \in R <=> y < x
  BY DEF OpToRel
<1>2. IsWellFoundedOn(R, Nat)
  BY NatLessThanWellFounded
<1> HIDE DEF R
<1>3. PICK k \in T : \A j \in T : ~(<<j, k>> \in R)
  <2>1. T \subseteq Nat
    OBVIOUS
  <2> HIDE DEF T
  <2> QED
    BY <1>2, <2>1, WFMin
<1>4. k \in Nat /\ k # 0 /\ k \notin S
  BY <1>3
<1>5. k - 1 \in Nat /\ k - 1 < k /\ (k - 1) + 1 = k
  BY <1>4
<1>6. k - 1 \in S
  BY <1>1, <1>3, <1>5
<1> QED
  BY <1>4, <1>5, <1>6

-----------------------------------------------------------------------------
(* The segments at some places, in order.                                  *)

\* pos lists the members of S, from the least to the greatest.
Lists(pos, m, S) ==
    /\ m \in Nat /\ pos \in [1..m -> S]
    /\ \A a, b \in 1..m : a < b => pos[a] < pos[b]
    /\ \A i \in S : \E n \in 1..m : pos[n] = i

\* A list of the places has as many members as there are places, and before the
\* nth come n - 1 of them.
LEMMA ListCounts ==
  ASSUME NEW S \in SUBSET Nat, NEW m, NEW pos, Lists(pos, m, S)
  PROVE  /\ Cardinality(S) = m
         /\ \A n \in 1..m : Cardinality({j \in S : j < pos[n]}) = n - 1
<1> USE DEF Lists
<1>1. ASSUME NEW a \in 1..m, NEW b \in 1..m PROVE pos[a] < pos[b] <=> a < b
  <2>1. pos[a] \in Nat /\ pos[b] \in Nat
    OBVIOUS
  <2>2. a < b \/ a = b \/ b < a
    OBVIOUS
  <2> QED
    BY <2>1, <2>2
<1>2. ASSUME NEW n \in 0..m, NEW f, f = [a \in 1..n |-> pos[a]]
      PROVE  Cardinality({pos[a] : a \in 1..n}) = n
  <2> DEFINE T == {pos[a] : a \in 1..n}
  <2>1. f \in Bijection(1..n, T)
    <3>1. f \in [1..n -> T]
      BY <1>2
    <3>2. ASSUME NEW a \in 1..n, NEW b \in 1..n, f[a] = f[b] PROVE a = b
      <4>1. a \in 1..m /\ b \in 1..m /\ pos[a] = pos[b]
        BY <1>2, <3>2
      <4>2. pos[a] \in Nat
        BY <4>1
      <4> QED
        BY <1>1, <4>1, <4>2
    <3>3. \A t \in T : \E a \in 1..n : f[a] = t
      BY <1>2
    <3> HIDE DEF T
    <3> QED
      BY <3>1, <3>2, <3>3 DEF Bijection, Injection, Surjection, IsInjective
  <2>2. IsFiniteSet(1..n) /\ Cardinality(1..n) = n
    <3>1. 1 \in Int /\ n \in Int
      OBVIOUS
    <3>2. /\ IsFiniteSet(1..n)
          /\ Cardinality(1..n) = IF 1 > n THEN 0 ELSE n - 1 + 1
      BY <3>1, FS_Interval, Zenon
    <3> QED
      BY <3>2
  <2>3. ExistsBijection(1..n, T)
    BY <2>1 DEF ExistsBijection
  <2> QED
    BY <2>2, <2>3, FS_Bijection
<1>3. {pos[a] : a \in 1..m} = S
  <2>1. \A a \in 1..m : pos[a] \in S
    OBVIOUS
  <2>2. \A i \in S : \E a \in 1..m : pos[a] = i
    OBVIOUS
  <2> QED
    BY <2>1, <2>2
<1>4. ASSUME NEW n \in 1..m PROVE {j \in S : j < pos[n]} = {pos[a] : a \in 1..(n - 1)}
  <2>1. ASSUME NEW j \in S, j < pos[n] PROVE \E a \in 1..(n - 1) : pos[a] = j
    <3>1. PICK a \in 1..m : pos[a] = j
      OBVIOUS
    <3>2. a < n
      BY <1>1, <2>1, <3>1
    <3> QED
      BY <3>1, <3>2
  <2>2. ASSUME NEW a \in 1..(n - 1) PROVE pos[a] \in S /\ pos[a] < pos[n]
    OBVIOUS
  <2> QED
    BY <2>1, <2>2
<1>5. Cardinality(S) = m
  BY <1>2, <1>3
<1>6. ASSUME NEW n \in 1..m PROVE Cardinality({j \in S : j < pos[n]}) = n - 1
  <2>1. n - 1 \in 0..m
    OBVIOUS
  <2> QED
    BY <1>2, <1>4, <2>1
<1> QED
  BY <1>5, <1>6

\* What is picked is what is at the places listed.
LEMMA PickedIs ==
  ASSUME NEW S \in SUBSET Nat, NEW m, NEW pos, Lists(pos, m, S), NEW p
  PROVE  Picked(p, S) = [n \in 1..m |-> p[pos[n]]]
<1> DEFINE Before(i) == Cardinality({j \in S : j < i})
           nth(n) == CHOOSE i \in S : Before(i) = n - 1
<1>1. ASSUME NEW n \in 1..m PROVE nth(n) = pos[n]
  <2>1. pos[n] \in S
    BY DEF Lists
  <2>2. Before(pos[n]) = n - 1
    BY ListCounts
  <2>3. ASSUME NEW i \in S, Before(i) = n - 1 PROVE i = pos[n]
    <3>1. PICK k \in 1..m : pos[k] = i
      BY DEF Lists
    <3>2. Before(pos[k]) = k - 1
      BY ListCounts
    <3>3. m \in Nat
      BY DEF Lists
    <3> HIDE DEF Before
    <3>4. k = n
      BY <2>3, <3>1, <3>2, <3>3
    <3> QED
      BY <3>1, <3>4
  <2> HIDE DEF Before
  <2>4. nth(n) \in S /\ Before(nth(n)) = n - 1
    BY <2>1, <2>2
  <2> HIDE DEF nth
  <2> QED
    BY <2>3, <2>4
<1>2. Cardinality(S) = m
  BY ListCounts
<1>3. Picked(p, S) = [n \in 1..m |-> p[nth(n)]]
  BY <1>2, Zenon DEF Picked
<1> HIDE DEF nth
<1> QED
  BY <1>1, <1>3

\* All places picked are the path.
LEMMA PickedAll ==
  ASSUME NEW A, NEW p \in Seq(A)
  PROVE  Picked(p, 1..Len(p)) = p
<1> DEFINE m == Len(p)
           pos == [n \in 1..m |-> n]
<1>1. m \in Nat /\ p = [n \in 1..m |-> p[n]]
  OBVIOUS
<1>2. Lists(pos, m, 1..m)
  BY <1>1 DEF Lists
<1>3. 1..m \in SUBSET Nat
  BY <1>1
<1>4. \A n \in 1..m : pos[n] = n
  OBVIOUS
<1> HIDE DEF m, pos
<1>5. ASSUME NEW S, S = 1..m PROVE Picked(p, S) = [n \in 1..m |-> p[pos[n]]]
  <2>1. S \in SUBSET Nat /\ Lists(pos, m, S)
    BY <1>2, <1>3, <1>5
  <2> QED
    BY <2>1, PickedIs
<1>6. [n \in 1..m |-> p[pos[n]]] = [n \in 1..m |-> p[n]]
  BY <1>4
<1> QED
  BY <1>1, <1>5, <1>6 DEF m

-----------------------------------------------------------------------------
(* normpath takes the segments one by one.                                 *)

\* What the fold of normpath computes, for every set of places.
TakenDef(it, p, m) ==
    [s \in SUBSET (1..m) |-> IF s = {} THEN <<>> ELSE TakeSegment(it[s \ {Max(s)}], p[Max(s)])]

\* The fold is well defined.
LEMMA TakenExists ==
  ASSUME NEW p
  PROVE  \A m \in Nat : \E it : it = TakenDef(it, p, m)
<1> DEFINE S == {m \in Nat : \E it : it = TakenDef(it, p, m)}
<1>1. 0 \in S
  <2> DEFINE it == [s \in SUBSET (1..0) |-> <<>>]
  <2>1. \A s \in SUBSET (1..0) : s = {}
    OBVIOUS
  <2>2. it = TakenDef(it, p, 0)
    BY <2>1 DEF TakenDef
  <2> HIDE DEF it
  <2> QED
    BY <2>2
<1>2. ASSUME NEW m \in Nat, m \in S PROVE m + 1 \in S
  <2>1. PICK old : old = TakenDef(old, p, m)
    BY <1>2
  <2> DEFINE l == m + 1
             it == [s \in SUBSET (1..l) |->
                      IF l \in s THEN TakeSegment(old[s \ {l}], p[l]) ELSE old[s]]
  <2>2. ASSUME NEW s \in SUBSET (1..l), l \in s
        PROVE  Max(s) = l /\ s \ {l} \in SUBSET (1..m) /\ s \ {l} \in SUBSET (1..l) /\ l \notin s \ {l}
    <3>1. \A y \in s : l >= y
      BY <2>2
    <3>2. \A x \in s : (\A y \in s : x >= y) => x = l
      BY <2>2, <3>1
    <3>3. Max(s) = l
      BY <2>2, <3>1, <3>2 DEF Max
    <3> QED
      BY <2>2, <3>3
  <2>3. ASSUME NEW s \in SUBSET (1..l), l \notin s
        PROVE  s \in SUBSET (1..m)
    BY <2>3
  <2>4. ASSUME NEW s \in SUBSET (1..m)
        PROVE  /\ s \in SUBSET (1..l) /\ l \notin s
               /\ old[s] = IF s = {} THEN <<>> ELSE TakeSegment(old[s \ {Max(s)}], p[Max(s)])
               /\ s \ {Max(s)} \in SUBSET (1..m)
    <3>1. old[s] = TakenDef(old, p, m)[s]
      BY <2>1
    <3>2. old[s] = IF s = {} THEN <<>> ELSE TakeSegment(old[s \ {Max(s)}], p[Max(s)])
      BY <3>1 DEF TakenDef
    <3>3. s \in SUBSET (1..l) /\ l \notin s
      OBVIOUS
    <3> QED
      BY <3>2, <3>3
  <2> HIDE DEF l
  <2>5. \A s \in SUBSET (1..m) : it[s] = old[s]
    BY <2>4
  <2>6. ASSUME NEW s \in SUBSET (1..l)
        PROVE  it[s] = IF s = {} THEN <<>> ELSE TakeSegment(it[s \ {Max(s)}], p[Max(s)])
    <3>1. CASE l \in s
      <4>1. it[s] = TakeSegment(old[s \ {l}], p[l]) /\ s # {}
        BY <3>1
      <4> HIDE DEF it
      <4> QED
        BY <2>2, <2>5, <3>1, <4>1
    <3>2. CASE l \notin s
      <4>1. it[s] = old[s] /\ s \in SUBSET (1..m)
        BY <2>3, <3>2
      <4> HIDE DEF it
      <4> QED
        BY <2>4, <2>5, <4>1
    <3> QED
      BY <3>1, <3>2
  <2>7. it = TakenDef(it, p, l)
    <3>1. it = [s \in SUBSET (1..l) |-> it[s]]
      OBVIOUS
    <3> HIDE DEF it
    <3> QED
      BY <2>6, <3>1 DEF TakenDef
  <2> HIDE DEF it
  <2> QED
    BY <2>7 DEF l
<1> HIDE DEF S
<1>3. Nat \subseteq S
  BY <1>1, <1>2, AllNumbers
<1> QED
  BY <1>3 DEF S

SegmentBySegment(g, p, n) ==
    /\ g[0] = <<>>
    /\ \A k \in 1..n : g[k] = TakeSegment(g[k - 1], p[k])
    /\ NormPath(p) = g[n]

\* The fold over a path takes its segments one by one.
LEMMA NormPathStepByStep ==
  ASSUME NEW p, NEW n \in Nat, DOMAIN p = 1..n
  PROVE  \E g : SegmentBySegment(g, p, n)
<1> DEFINE it == CHOOSE i : i = TakenDef(i, p, n)
           g == [k \in 0..n |-> it[1..k]]
<1>1. NormPath(p) = it[1..n]
  BY DEF NormPath, FoldLeft, MapThenFoldSet, TakenDef
<1>2. it = TakenDef(it, p, n)
  BY TakenExists
<1> HIDE DEF it
<1>3. \A s \in SUBSET (1..n) : it[s] = IF s = {} THEN <<>> ELSE TakeSegment(it[s \ {Max(s)}], p[Max(s)])
  <2> TAKE s \in SUBSET (1..n)
  <2>1. it[s] = TakenDef(it, p, n)[s]
    BY <1>2
  <2> QED
    BY <2>1 DEF TakenDef
<1>4. g[0] = <<>>
  <2>1. 1..0 = {} /\ {} \in SUBSET (1..n)
    OBVIOUS
  <2>2. it[1..0] = <<>>
    BY <1>3, <2>1
  <2> QED
    BY <2>2
<1>5. ASSUME NEW k \in 1..n PROVE g[k] = TakeSegment(g[k - 1], p[k])
  <2>1. /\ 1..k \in SUBSET (1..n) /\ 1..k # {} /\ k \in 1..k
        /\ (1..k) \ {k} = 1..(k - 1) /\ k \in 0..n /\ k - 1 \in 0..n
    <3>1. \A i \in 1..k : i \in 1..n
      OBVIOUS
    <3>2. k \in 1..k /\ k \in 0..n /\ k - 1 \in 0..n
      OBVIOUS
    <3>3. ASSUME NEW i PROVE i \in (1..k) \ {k} <=> i \in 1..(k - 1)
      OBVIOUS
    <3>4. (1..k) \ {k} = 1..(k - 1)
      BY <3>3
    <3> QED
      BY <3>1, <3>2, <3>4
  <2>2. Max(1..k) = k
    <3>1. \A x \in 1..k : (\A y \in 1..k : x >= y) => x = k
      BY <2>1
    <3>2. \A y \in 1..k : k >= y
      OBVIOUS
    <3> QED
      BY <2>1, <3>1, <3>2 DEF Max
  <2>3. it[1..k] = TakeSegment(it[1..(k - 1)], p[k])
    BY <1>3, <2>1, <2>2
  <2> QED
    BY <2>1, <2>3
<1>6. NormPath(p) = g[n]
  BY <1>1
<1> HIDE DEF g
<1> QED
  BY <1>4, <1>5, <1>6 DEF SegmentBySegment

-----------------------------------------------------------------------------
(* How deep one is below a place of the path.                              *)

\* Segments entered and not left again, from the ith to the kth.
Depth(p, i, k) == Entered(p, i, k) - Left(p, i, k)

\* The three segments that name no file.
LEMMA Nameless ==
  /\ ~Empty.alias /\ Empty.dots = 0 /\ ~Dot.alias /\ Dot.dots = 1 /\ ~DotDot.alias /\ DotDot.dots = 2
  /\ Empty # Dot /\ Empty # DotDot /\ Dot # DotDot
  /\ Empty.marks = {} /\ Dot.marks = {} /\ DotDot.marks = {}
<1>1. /\ ~Empty.alias /\ Empty.dots = 0
      /\ ~Dot.alias /\ Dot.dots = 1
      /\ ~DotDot.alias /\ DotDot.dots = 2
      /\ Empty.marks = {} /\ Dot.marks = {} /\ DotDot.marks = {}
  BY DEF Empty, Dot, DotDot, Segment
<1> QED
  BY <1>1

\* One segment more is entered, left, or neither.
LEMMA CountStep ==
  ASSUME NEW p, NEW i \in Nat, NEW k \in Nat, i =< k + 1
  PROVE  /\ Entered(p, i, k) \in Nat /\ Left(p, i, k) \in Nat
         /\ Entered(p, i, k + 1) = Entered(p, i, k) + IF Enters(p, k + 1) THEN 1 ELSE 0
         /\ Left(p, i, k + 1) = Left(p, i, k) + IF p[k + 1] = DotDot THEN 1 ELSE 0
<1> DEFINE E(n) == {m \in i..n : Enters(p, m)}
           L(n) == {m \in i..n : p[m] = DotDot}
<1>1. IsFiniteSet(i..k)
  BY FS_Interval
<1>2. E(k) \in SUBSET (i..k) /\ L(k) \in SUBSET (i..k)
  OBVIOUS
<1>3. IsFiniteSet(E(k)) /\ IsFiniteSet(L(k))
  BY <1>1, <1>2, FS_Subset
<1>4. i..(k + 1) = i..k \cup {k + 1} /\ k + 1 \notin i..k
  OBVIOUS
<1>5. /\ E(k + 1) = IF Enters(p, k + 1) THEN E(k) \cup {k + 1} ELSE E(k)
      /\ L(k + 1) = IF p[k + 1] = DotDot THEN L(k) \cup {k + 1} ELSE L(k)
      /\ k + 1 \notin E(k) /\ k + 1 \notin L(k)
  <2> DEFINE j == k + 1
  <2> HIDE DEF j
  <2>1. i..j = i..k \cup {j} /\ j \notin i..k
    BY <1>4 DEF j
  <2>2. /\ E(j) = IF Enters(p, j) THEN E(k) \cup {j} ELSE E(k)
        /\ L(j) = IF p[j] = DotDot THEN L(k) \cup {j} ELSE L(k)
        /\ j \notin E(k) /\ j \notin L(k)
    BY <2>1
  <2> QED
    BY <2>2 DEF j
<1>6. \A n : Entered(p, i, n) = Cardinality(E(n)) /\ Left(p, i, n) = Cardinality(L(n))
  BY DEF Entered, Left
<1> HIDE DEF E, L
<1>7. Cardinality(E(k)) \in Nat /\ Cardinality(L(k)) \in Nat
  BY <1>3, FS_CardinalityType
<1>8. /\ Cardinality(E(k) \cup {k + 1}) = Cardinality(E(k)) + 1
      /\ Cardinality(L(k) \cup {k + 1}) = Cardinality(L(k)) + 1
  BY <1>3, <1>5, FS_AddElement
<1> QED
  BY <1>5, <1>6, <1>7, <1>8

\* The depth after one segment more, and before the first.
LEMMA DepthStep ==
  ASSUME NEW p, NEW i \in Nat, NEW k \in Nat, i =< k + 1
  PROVE  /\ Depth(p, i, k) \in Int
         /\ p[k + 1] \in {Empty, Dot} => Depth(p, i, k + 1) = Depth(p, i, k)
         /\ p[k + 1] = DotDot => Depth(p, i, k + 1) = Depth(p, i, k) - 1
         /\ Enters(p, k + 1) => Depth(p, i, k + 1) = Depth(p, i, k) + 1
         /\ i = k + 1 => Depth(p, i, k) = 0
<1>1. /\ Entered(p, i, k) \in Nat /\ Left(p, i, k) \in Nat
      /\ Entered(p, i, k + 1) = Entered(p, i, k) + IF Enters(p, k + 1) THEN 1 ELSE 0
      /\ Left(p, i, k + 1) = Left(p, i, k) + IF p[k + 1] = DotDot THEN 1 ELSE 0
  BY CountStep
<1>2. Empty # DotDot /\ Dot # DotDot
  BY Nameless
<1>3. i = k + 1 => Entered(p, i, k) = 0 /\ Left(p, i, k) = 0
  <2> SUFFICES ASSUME i = k + 1 PROVE Entered(p, i, k) = 0 /\ Left(p, i, k) = 0
    OBVIOUS
  <2>1. i..k = {}
    OBVIOUS
  <2>2. {m \in i..k : Enters(p, m)} = {} /\ {m \in i..k : p[m] = DotDot} = {}
    BY <2>1
  <2> QED
    BY <2>2, FS_EmptySet DEF Entered, Left
<1>4. /\ p[k + 1] \in {Empty, Dot} => ~Enters(p, k + 1) /\ p[k + 1] # DotDot
      /\ p[k + 1] = DotDot => ~Enters(p, k + 1)
      /\ Enters(p, k + 1) => p[k + 1] # DotDot
  BY <1>2 DEF Enters
<1> HIDE DEF Depth
<1>5. \A n : Depth(p, i, n) = Entered(p, i, n) - Left(p, i, n)
  BY DEF Depth
<1> QED
  BY <1>1, <1>3, <1>4, <1>5

-----------------------------------------------------------------------------
(* normpath follows the path.                                              *)

\* The places entered up to the kth and not left again.
Stays(p, k) == {i \in 1..k : Enters(p, i) /\ \A j \in i..k : Depth(p, i, j) > 0}
Upright(p, k) == \A j \in 1..k : Depth(p, 1, j) >= 0

\* What normpath has after k segments: u times the parent directory, then the
\* segments that stay; the nth of m can be left m - n + 1 times.
Followed(p, done, k, u, m, pos) ==
    /\ u \in Nat /\ Lists(pos, m, Stays(p, k))
    /\ done = [i \in 1..(u + m) |-> IF i =< u THEN DotDot ELSE p[pos[i - u]]]
    /\ \A n \in 1..m : Depth(p, pos[n], k) = m - n + 1
    /\ u = 0 <=> Upright(p, k)
    /\ u = 0 => Depth(p, 1, k) = m

\* A segment stays while it is not left, and the next one if it is entered.
LEMMA StaysStep ==
  ASSUME NEW p, NEW k \in Nat
  PROVE  /\ \A i : i \in Stays(p, k + 1) <=> \/ i \in Stays(p, k) /\ Depth(p, i, k + 1) > 0
                                             \/ i = k + 1 /\ Enters(p, k + 1)
         /\ Upright(p, k + 1) <=> Upright(p, k) /\ Depth(p, 1, k + 1) >= 0
         /\ Stays(p, k) \subseteq 1..k
<1> DEFINE l == k + 1
<1>1. l \in Nat /\ \A i \in 1..k : i..l = i..k \cup {l} /\ i # l
  OBVIOUS
<1>2. l..l = {l} /\ 1..l = 1..k \cup {l} /\ l \notin 1..k
  OBVIOUS
<1>3. Enters(p, l) => Depth(p, l, l) = 1
  <2>1. l \in Nat /\ l =< k + 1 /\ l = k + 1
    OBVIOUS
  <2> HIDE DEF l
  <2>2. /\ Enters(p, k + 1) => Depth(p, l, k + 1) = Depth(p, l, k) + 1
        /\ Depth(p, l, k) = 0
    BY <2>1, DepthStep
  <2> QED
    BY <2>1, <2>2
<1> HIDE DEF l
<1>4. ASSUME NEW i PROVE i \in Stays(p, l) <=> \/ i \in Stays(p, k) /\ Depth(p, i, l) > 0
                                               \/ i = l /\ Enters(p, l)
  <2>1. CASE i \in 1..k
    <3>1. i..l = i..k \cup {l} /\ i # l /\ i \in 1..l
      BY <1>1, <1>2, <2>1
    <3>2. (\A j \in i..l : Depth(p, i, j) > 0) <=> (\A j \in i..k : Depth(p, i, j) > 0) /\ Depth(p, i, l) > 0
      BY <3>1
    <3> QED
      BY <2>1, <3>1, <3>2, Zenon DEF Stays
  <2>2. CASE i = l
    <3>1. i..l = {l} /\ i \in 1..l /\ i \notin 1..k
      BY <1>2, <2>2
    <3>2. Enters(p, l) => \A j \in i..l : Depth(p, i, j) > 0
      BY <1>3, <2>2, <3>1
    <3> QED
      BY <2>2, <3>1, <3>2, Zenon DEF Stays
  <2>3. CASE i \notin 1..l
    BY <1>2, <2>3 DEF Stays
  <2> QED
    BY <1>2, <2>1, <2>2, <2>3
<1>5. Upright(p, l) <=> Upright(p, k) /\ Depth(p, 1, l) >= 0
  BY <1>2 DEF Upright
<1>6. Stays(p, k) \subseteq 1..k
  BY DEF Stays
<1> QED
  BY <1>4, <1>5, <1>6 DEF l

\* Before the first segment.
LEMMA FollowBegins ==
  ASSUME NEW p
  PROVE  Followed(p, <<>>, 0, 0, 0, <<>>)
<1>1. 1..0 = {} /\ Stays(p, 0) = {}
  BY DEF Stays
<1>2. Lists(<<>>, 0, Stays(p, 0))
  BY <1>1 DEF Lists
<1>3. Upright(p, 0)
  BY <1>1 DEF Upright
<1>4. Depth(p, 1, 0) = 0
  <2>1. 1 = 0 + 1 /\ 1 \in Nat /\ 0 \in Nat
    OBVIOUS
  <2> QED
    BY <2>1, DepthStep
<1>5. <<>> = [i \in 1..(0 + 0) |-> IF i =< 0 THEN DotDot ELSE p[<<>>[i - 0]]]
  BY <1>1
<1> QED
  BY <1>1, <1>2, <1>3, <1>4, <1>5 DEF Followed

\* A segment that is empty or a dot changes nothing.
LEMMA FollowNothing ==
  ASSUME NEW p, NEW k \in Nat, NEW done, NEW u, NEW m, NEW pos, Followed(p, done, k, u, m, pos),
         p[k + 1] \in {Empty, Dot}
  PROVE  Followed(p, TakeSegment(done, p[k + 1]), k + 1, u, m, pos)
<1>1. TakeSegment(done, p[k + 1]) = done
  BY Nameless DEF TakeSegment
<1>2. ~Enters(p, k + 1)
  BY DEF Enters
<1>3. ASSUME NEW i \in 1..(k + 1) PROVE Depth(p, i, k + 1) = Depth(p, i, k) /\ Depth(p, i, k) \in Int
  BY DepthStep
<1>4. Stays(p, k) \subseteq 1..k /\ 1..k \subseteq 1..(k + 1) /\ 1 \in 1..(k + 1)
  BY StaysStep
<1>5. \A i \in Stays(p, k) : Depth(p, i, k) > 0
  BY <1>4 DEF Stays
<1>6. Stays(p, k + 1) = Stays(p, k)
  BY <1>2, <1>3, <1>4, <1>5, StaysStep
<1>7. Depth(p, 1, k) >= 0 \/ ~Upright(p, k)
  <2>1. CASE k = 0
    <3>1. 1 = k + 1 /\ 1 \in Nat
      BY <2>1
    <3>2. Depth(p, 1, k) = 0
      BY <3>1, DepthStep
    <3> QED
      BY <3>2
  <2>2. CASE k # 0
    BY <2>2 DEF Upright
  <2> QED
    BY <2>1, <2>2
<1>8. Upright(p, k + 1) <=> Upright(p, k)
  BY <1>3, <1>4, <1>7, StaysStep
<1>9. ASSUME NEW n \in 1..m PROVE Depth(p, pos[n], k + 1) = m - n + 1
  <2>1. pos[n] \in Stays(p, k)
    BY DEF Followed, Lists
  <2> QED
    BY <1>3, <1>4, <2>1 DEF Followed
<1>10. u = 0 => Depth(p, 1, k + 1) = m
  BY <1>3, <1>4 DEF Followed
<1> QED
  BY <1>1, <1>6, <1>8, <1>9, <1>10 DEF Followed

\* What is appended to a sequence, and what is before its last member.
LEMMA Appended ==
  ASSUME NEW n \in Nat, NEW s, s = [i \in 1..n |-> s[i]], NEW e
  PROVE  /\ Append(s, e) = [i \in 1..(n + 1) |-> IF i =< n THEN s[i] ELSE e]
         /\ n # 0 => Front(s) = [i \in 1..(n - 1) |-> s[i]] /\ Last(s) = s[n] /\ s # <<>>
         /\ n = 0 => s = <<>>
<1> DEFINE T == {s[i] : i \in 1..n} \cup {e}
<1>1. s \in Seq(T) /\ Len(s) = n
  <2>1. \A i \in 1..n : s[i] \in T
    OBVIOUS
  <2> HIDE DEF T
  <2>2. s \in [1..n -> T]
    BY <2>1
  <2> QED
    BY <2>2
<1>2. e \in T
  OBVIOUS
<1> HIDE DEF T
<1>3. Append(s, e) = [i \in 1..(n + 1) |-> IF i =< n THEN s[i] ELSE e]
  <2>1. /\ Append(s, e) \in Seq(T) /\ Len(Append(s, e)) = n + 1
        /\ \A i \in 1..(n + 1) : Append(s, e)[i] = IF i =< n THEN s[i] ELSE e
    BY <1>1, <1>2
  <2> DEFINE t == Append(s, e)
  <2> HIDE DEF t
  <2>2. t \in Seq(T) /\ Len(t) = n + 1
    BY <2>1 DEF t
  <2>3. t = [i \in 1..(n + 1) |-> t[i]]
    BY <2>2
  <2> QED
    BY <2>1, <2>3 DEF t
<1>4. n # 0 => Front(s) = [i \in 1..(n - 1) |-> s[i]] /\ Last(s) = s[n] /\ s # <<>>
  BY <1>1 DEF Front, Last
<1>5. n = 0 => s = <<>>
  BY <1>1
<1> QED
  BY <1>3, <1>4, <1>5

\* A segment that is entered is appended, and stays.
LEMMA FollowInto ==
  ASSUME NEW p, NEW k \in Nat, NEW done, NEW u, NEW m, NEW pos, Followed(p, done, k, u, m, pos),
         Enters(p, k + 1)
  PROVE  \E at : Followed(p, TakeSegment(done, p[k + 1]), k + 1, u, m + 1, at)
<1> DEFINE l == k + 1
           at == [n \in 1..(m + 1) |-> IF n =< m THEN pos[n] ELSE l]
           new == TakeSegment(done, p[l])
<1>1. /\ u \in Nat /\ m \in Nat /\ l \in Nat
      /\ pos \in [1..m -> Stays(p, k)]
      /\ \A a, b \in 1..m : a < b => pos[a] < pos[b]
      /\ \A i \in Stays(p, k) : \E n \in 1..m : pos[n] = i
  BY DEF Followed, Lists
<1>2. Stays(p, k) \subseteq 1..k
  BY StaysStep
<1>3. ASSUME NEW i \in 1..k PROVE Depth(p, i, l) = Depth(p, i, k) + 1 /\ Depth(p, i, k) \in Int
  BY DepthStep
<1>4. Stays(p, l) = Stays(p, k) \cup {l}
  <2>1. \A i \in Stays(p, k) : Depth(p, i, k) > 0
    BY <1>2 DEF Stays
  <2> QED
    BY <1>2, <1>3, <2>1, StaysStep
<1>5. /\ \A n \in 1..m : at[n] = pos[n] /\ at[n] \in 1..k
      /\ at[m + 1] = l /\ 1..(m + 1) = 1..m \cup {m + 1} /\ m + 1 \notin 1..m
  BY <1>1, <1>2
<1>6. Lists(at, m + 1, Stays(p, l))
  <2>1. at \in [1..(m + 1) -> Stays(p, l)]
    BY <1>1, <1>4
  <2>2. ASSUME NEW a \in 1..(m + 1), NEW b \in 1..(m + 1), a < b PROVE at[a] < at[b]
    <3>1. a \in 1..m
      BY <1>1, <2>2
    <3>2. at[a] = pos[a] /\ at[a] \in 1..k
      BY <1>5, <3>1
    <3>3. CASE b = m + 1
      BY <1>5, <3>2, <3>3
    <3>4. CASE b \in 1..m
      BY <1>1, <1>5, <2>2, <3>1, <3>2, <3>4
    <3> QED
      BY <1>5, <3>3, <3>4
  <2>3. ASSUME NEW i \in Stays(p, l) PROVE \E n \in 1..(m + 1) : at[n] = i
    <3> HIDE DEF at, l
    <3>1. CASE i \in Stays(p, k)
      BY <1>1, <1>5, <3>1
    <3>2. CASE i = l
      BY <1>5, <3>2
    <3> QED
      BY <1>4, <3>1, <3>2
  <2> HIDE DEF at
  <2> QED
    BY <1>1, <2>1, <2>2, <2>3 DEF Lists
<1>7. new = [i \in 1..(u + (m + 1)) |-> IF i =< u THEN DotDot ELSE p[at[i - u]]]
  <2> DEFINE n == u + m
  <2>1. p[l] \notin {Empty, Dot, DotDot}
    BY DEF Enters
  <2>2. new = Append(done, p[l])
    BY <2>1 DEF TakeSegment
  <2>3. n \in Nat /\ done = [i \in 1..n |-> IF i =< u THEN DotDot ELSE p[pos[i - u]]]
    BY <1>1 DEF Followed
  <2>4. done = [i \in 1..n |-> done[i]]
    BY <2>3
  <2>5. Append(done, p[l]) = [i \in 1..(n + 1) |-> IF i =< n THEN done[i] ELSE p[l]]
    BY <2>3, <2>4, Appended
  <2>6. ASSUME NEW i \in 1..(n + 1)
        PROVE  (IF i =< n THEN done[i] ELSE p[l]) = (IF i =< u THEN DotDot ELSE p[at[i - u]])
    <3>1. CASE i =< u
      <4>1. i \in 1..n
        BY <1>1, <3>1
      <4>2. done[i] = DotDot
        BY <2>3, <3>1, <4>1
      <4> QED
        BY <3>1, <4>1, <4>2
    <3>2. CASE i > u /\ i =< n
      <4>1. i \in 1..n /\ ~(i =< u) /\ i - u \in 1..m
        BY <1>1, <3>2
      <4>2. done[i] = p[pos[i - u]] /\ at[i - u] = pos[i - u]
        BY <1>5, <2>3, <4>1
      <4> QED
        BY <3>2, <4>1, <4>2
    <3>3. CASE i = n + 1
      <4>1. ~(i =< u) /\ ~(i =< n) /\ i - u = m + 1
        BY <1>1, <3>3
      <4> QED
        BY <1>5, <4>1
    <3> QED
      BY <1>1, <3>1, <3>2, <3>3
  <2>7. u + (m + 1) = n + 1
    BY <1>1
  <2> HIDE DEF n, at, new, l
  <2> QED
    BY <2>2, <2>5, <2>6, <2>7
<1>8. ASSUME NEW n \in 1..(m + 1) PROVE Depth(p, at[n], l) = (m + 1) - n + 1
  <2>1. CASE n \in 1..m
    <3>1. at[n] = pos[n] /\ at[n] \in 1..k
      BY <1>5, <2>1
    <3>2. Depth(p, pos[n], k) = m - n + 1
      BY <2>1 DEF Followed
    <3>3. Depth(p, at[n], l) = Depth(p, at[n], k) + 1
      BY <1>3, <3>1
    <3> HIDE DEF at, l
    <3> QED
      BY <1>1, <2>1, <3>1, <3>2, <3>3
  <2>2. CASE n = m + 1
    <3>1. /\ Depth(p, l, k + 1) = Depth(p, l, k) + 1
          /\ Depth(p, l, k) = 0
      <4>1. l \in Nat /\ l =< k + 1 /\ l = k + 1
        OBVIOUS
      <4> HIDE DEF l
      <4> QED
        BY <4>1, DepthStep
    <3>2. at[n] = l
      BY <1>5, <2>2
    <3>3. l = k + 1
      OBVIOUS
    <3> HIDE DEF at, l
    <3> QED
      BY <1>1, <2>2, <3>1, <3>2, <3>3
  <2> QED
    BY <1>5, <2>1, <2>2
<1>9. /\ u = 0 <=> Upright(p, l)
      /\ u = 0 => Depth(p, 1, l) = m + 1
  <2>1. Depth(p, 1, l) = Depth(p, 1, k) + 1 /\ Depth(p, 1, k) \in Int
    <3>1. 1 \in Nat /\ 1 =< k + 1
      OBVIOUS
    <3> QED
      BY <3>1, DepthStep
  <2>2. Upright(p, l) <=> Upright(p, k) /\ Depth(p, 1, l) >= 0
    BY StaysStep
  <2>3. (u = 0 <=> Upright(p, k)) /\ (u = 0 => Depth(p, 1, k) = m)
    BY DEF Followed
  <2> HIDE DEF l
  <2> QED
    BY <1>1, <2>1, <2>2, <2>3
<1>10. m + 1 \in Nat
  BY <1>1
<1> HIDE DEF at, new
<1>11. Followed(p, new, k + 1, u, m + 1, at)
  BY <1>1, <1>6, <1>7, <1>8, <1>9, <1>10 DEF Followed
<1> QED
  BY <1>11 DEF new

\* The parent directory, below nothing that stays, is appended.
LEMMA FollowOut ==
  ASSUME NEW p, NEW k \in Nat, NEW done, NEW u, NEW pos, Followed(p, done, k, u, 0, pos),
         p[k + 1] = DotDot
  PROVE  Followed(p, TakeSegment(done, p[k + 1]), k + 1, u + 1, 0, pos)
<1> DEFINE new == TakeSegment(done, p[k + 1])
<1>1. /\ u \in Nat /\ Lists(pos, 0, Stays(p, k))
      /\ done = [i \in 1..(u + 0) |-> IF i =< u THEN DotDot ELSE p[pos[i - u]]]
      /\ u = 0 <=> Upright(p, k)
      /\ u = 0 => Depth(p, 1, k) = 0
  BY DEF Followed
<1>2. Stays(p, k) = {}
  BY <1>1 DEF Lists
<1>3. ~Enters(p, k + 1)
  BY DEF Enters
<1>4. Stays(p, k + 1) = {}
  BY <1>2, <1>3, StaysStep
<1>5. done = [i \in 1..u |-> DotDot] /\ done = [i \in 1..u |-> done[i]]
  BY <1>1
<1>6. done = <<>> \/ Last(done) = DotDot
  <2>1. CASE u = 0
    BY <1>1, <1>5, <2>1, Appended
  <2>2. CASE u # 0
    <3>1. u \in 1..u /\ done[u] = DotDot
      BY <1>1, <1>5, <2>2
    <3>2. Last(done) = done[u]
      BY <1>1, <1>5, <2>2, Appended
    <3> QED
      BY <3>1, <3>2
  <2> QED
    BY <2>1, <2>2
<1>7. new = Append(done, DotDot)
  BY <1>6, Nameless DEF TakeSegment
<1>8. new = [i \in 1..(u + 1) |-> DotDot]
  <2>1. Append(done, DotDot) = [i \in 1..(u + 1) |-> IF i =< u THEN done[i] ELSE DotDot]
    BY <1>1, <1>5, Appended
  <2>2. \A i \in 1..u : done[i] = DotDot
    BY <1>5
  <2> HIDE DEF new
  <2> QED
    BY <1>1, <1>7, <2>1, <2>2
<1>9. ~Upright(p, k + 1)
  <2>1. 1 \in Nat /\ 1 =< k + 1
    OBVIOUS
  <2>2. Depth(p, 1, k + 1) = Depth(p, 1, k) - 1
    BY <2>1, DepthStep
  <2> QED
    BY <1>1, <2>2, StaysStep
<1>10. new = [i \in 1..((u + 1) + 0) |-> IF i =< u + 1 THEN DotDot ELSE p[pos[i - (u + 1)]]]
  <2>1. (u + 1) + 0 = u + 1 /\ \A i \in 1..(u + 1) : i =< u + 1
    BY <1>1
  <2> HIDE DEF new
  <2> QED
    BY <1>8, <2>1
<1>11. Lists(pos, 0, Stays(p, k + 1))
  BY <1>1, <1>2, <1>4
<1>12. u + 1 \in Nat /\ u + 1 # 0
  BY <1>1
<1> HIDE DEF new
<1>13. Followed(p, new, k + 1, u + 1, 0, pos)
  BY <1>9, <1>10, <1>11, <1>12 DEF Followed
<1> QED
  BY <1>13 DEF new

\* The parent directory takes back the last segment that stayed.
LEMMA FollowBack ==
  ASSUME NEW p, NEW k \in Nat, NEW done, NEW u, NEW m \in Nat \ {0}, NEW pos, Followed(p, done, k, u, m, pos),
         p[k + 1] = DotDot
  PROVE  \E at : Followed(p, TakeSegment(done, p[k + 1]), k + 1, u, m - 1, at)
<1> DEFINE l == k + 1
           at == [n \in 1..(m - 1) |-> pos[n]]
           new == TakeSegment(done, p[l])
<1>1. /\ u \in Nat /\ l \in Nat
      /\ pos \in [1..m -> Stays(p, k)]
      /\ \A a, b \in 1..m : a < b => pos[a] < pos[b]
      /\ \A i \in Stays(p, k) : \E n \in 1..m : pos[n] = i
      /\ \A n \in 1..m : Depth(p, pos[n], k) = m - n + 1
  BY DEF Followed, Lists
<1>2. Stays(p, k) \subseteq 1..k
  BY StaysStep
<1>3. ASSUME NEW i \in 1..k PROVE Depth(p, i, l) = Depth(p, i, k) - 1 /\ Depth(p, i, k) \in Int
  BY DepthStep
<1>4. ASSUME NEW n \in 1..m PROVE Depth(p, pos[n], l) = m - n
  <2>1. pos[n] \in 1..k
    BY <1>1, <1>2
  <2>2. Depth(p, pos[n], l) = Depth(p, pos[n], k) - 1 /\ Depth(p, pos[n], k) = m - n + 1
    BY <1>1, <1>3, <2>1
  <2> HIDE DEF l
  <2> QED
    BY <2>2
<1>5. m - 1 \in Nat /\ m \in 1..m /\ 1..m = 1..(m - 1) \cup {m} /\ m \notin 1..(m - 1)
  OBVIOUS
<1>6. ~Enters(p, l)
  BY DEF Enters
<1>7. \A i : i \in Stays(p, l) <=> \E n \in 1..(m - 1) : pos[n] = i
  <2>1. \A i : i \in Stays(p, l) <=> i \in Stays(p, k) /\ Depth(p, i, l) > 0
    BY <1>6, StaysStep
  <2> HIDE DEF l
  <2>2. ASSUME NEW i, i \in Stays(p, l) PROVE \E n \in 1..(m - 1) : pos[n] = i
    <3>1. PICK n \in 1..m : pos[n] = i
      BY <1>1, <2>1, <2>2
    <3>2. m - n > 0
      BY <1>4, <2>1, <2>2, <3>1
    <3>3. n \in 1..(m - 1)
      BY <3>2
    <3> QED
      BY <3>1, <3>3
  <2>3. ASSUME NEW n \in 1..(m - 1) PROVE pos[n] \in Stays(p, l)
    <3>1. n \in 1..m /\ m - n > 0
      OBVIOUS
    <3>2. Depth(p, pos[n], l) = m - n
      BY <1>4, <3>1
    <3> QED
      BY <1>1, <2>1, <3>1, <3>2
  <2> QED
    BY <2>2, <2>3
<1>8. \A n \in 1..(m - 1) : at[n] = pos[n] /\ n \in 1..m
  OBVIOUS
<1>9. Lists(at, m - 1, Stays(p, l))
  <2>1. at \in [1..(m - 1) -> Stays(p, l)]
    BY <1>7
  <2> HIDE DEF at, l
  <2>2. \A a, b \in 1..(m - 1) : a < b => at[a] < at[b]
    BY <1>1, <1>8
  <2>3. \A i \in Stays(p, l) : \E n \in 1..(m - 1) : at[n] = i
    BY <1>7, <1>8
  <2> QED
    BY <1>5, <2>1, <2>2, <2>3 DEF Lists
<1>10. new = [i \in 1..(u + (m - 1)) |-> IF i =< u THEN DotDot ELSE p[at[i - u]]]
  <2> DEFINE n == u + m
  <2>1. n \in Nat /\ n # 0 /\ done = [i \in 1..n |-> IF i =< u THEN DotDot ELSE p[pos[i - u]]]
    BY <1>1 DEF Followed
  <2>2. done = [i \in 1..n |-> done[i]]
    BY <2>1
  <2>3. n \in 1..n /\ ~(n =< u) /\ n - u = m
    BY <1>1
  <2>4. done[n] = p[pos[m]]
    BY <2>1, <2>3
  <2>5. Front(done) = [i \in 1..(n - 1) |-> done[i]] /\ Last(done) = done[n] /\ done # <<>>
    <3> HIDE DEF n
    <3>1. n \in Nat /\ n # 0 /\ done = [i \in 1..n |-> done[i]]
      BY <2>1, <2>2
    <3> QED
      BY <3>1, Appended, Zenon
  <2>6. Enters(p, pos[m])
    BY <1>1, <1>5 DEF Stays
  <2>7. Last(done) # DotDot
    BY <2>4, <2>5, <2>6 DEF Enters
  <2>8. new = Front(done)
    BY <2>5, <2>7, Nameless DEF TakeSegment
  <2>9. ASSUME NEW i \in 1..(n - 1)
        PROVE  done[i] = IF i =< u THEN DotDot ELSE p[at[i - u]]
    <3>1. i \in 1..n
      BY <2>1
    <3>2. done[i] = IF i =< u THEN DotDot ELSE p[pos[i - u]]
      BY <2>1, <3>1
    <3>3. i =< u \/ i - u \in 1..(m - 1)
      BY <1>1
    <3> QED
      BY <1>8, <3>2, <3>3
  <2>10. u + (m - 1) = n - 1
    BY <1>1
  <2> HIDE DEF n, at, new, l
  <2> QED
    BY <2>5, <2>8, <2>9, <2>10
<1>11. ASSUME NEW n \in 1..(m - 1) PROVE Depth(p, at[n], l) = (m - 1) - n + 1
  <2>1. Depth(p, pos[n], l) = m - n
    BY <1>4, <1>8
  <2>2. (m - 1) - n + 1 = m - n
    OBVIOUS
  <2> HIDE DEF at, l
  <2> QED
    BY <1>8, <2>1, <2>2
<1>12. /\ u = 0 <=> Upright(p, l)
       /\ u = 0 => Depth(p, 1, l) = m - 1
  <2>1. Depth(p, 1, l) = Depth(p, 1, k) - 1 /\ Depth(p, 1, k) \in Int
    <3>1. 1 \in Nat /\ 1 =< k + 1
      OBVIOUS
    <3> QED
      BY <3>1, DepthStep
  <2>2. Upright(p, l) <=> Upright(p, k) /\ Depth(p, 1, l) >= 0
    BY StaysStep
  <2>3. (u = 0 <=> Upright(p, k)) /\ (u = 0 => Depth(p, 1, k) = m)
    BY DEF Followed
  <2> HIDE DEF l
  <2> QED
    BY <1>5, <2>1, <2>2, <2>3
<1> HIDE DEF at, new
<1>13. Followed(p, new, k + 1, u, m - 1, at)
  BY <1>1, <1>9, <1>10, <1>11, <1>12 DEF Followed
<1> QED
  BY <1>13 DEF new

\* normpath follows the path, from the first segment to the last.
LEMMA NormPathFollows ==
  ASSUME NEW p, NEW n \in Nat, DOMAIN p = 1..n
  PROVE  \E u, m, pos : Followed(p, NormPath(p), n, u, m, pos)
<1>1. PICK g : SegmentBySegment(g, p, n)
  BY NormPathStepByStep
<1> DEFINE S == {k \in Nat : k =< n => \E u, m, pos : Followed(p, g[k], k, u, m, pos)}
<1>2. 0 \in S
  <2>1. g[0] = <<>>
    BY <1>1 DEF SegmentBySegment
  <2> QED
    BY <2>1, FollowBegins
<1>3. ASSUME NEW k \in Nat, k \in S, k + 1 =< n
      PROVE  \E u, m, pos : Followed(p, g[k + 1], k + 1, u, m, pos)
  <2>1. PICK u, m, pos : Followed(p, g[k], k, u, m, pos)
    BY <1>3
  <2>2. g[k + 1] = TakeSegment(g[k], p[k + 1])
    <3> DEFINE l == k + 1
    <3>1. l \in 1..n /\ l - 1 = k
      BY <1>3
    <3> HIDE DEF l
    <3>2. g[l] = TakeSegment(g[l - 1], p[l])
      BY <1>1, <3>1 DEF SegmentBySegment
    <3>3. g[l] = TakeSegment(g[k], p[l])
      BY <3>1, <3>2
    <3> QED
      BY <3>3 DEF l
  <2>3. m \in Nat
    BY <2>1 DEF Followed, Lists
  <2>4. CASE p[k + 1] \in {Empty, Dot}
    BY <2>1, <2>2, <2>4, FollowNothing
  <2>5. CASE Enters(p, k + 1)
    BY <2>1, <2>2, <2>5, FollowInto
  <2>6. CASE p[k + 1] = DotDot /\ m = 0
    BY <2>1, <2>2, <2>6, FollowOut
  <2>7. CASE p[k + 1] = DotDot /\ m # 0
    <3>1. m \in Nat \ {0}
      BY <2>3, <2>7
    <3> QED
      BY <2>1, <2>2, <2>7, <3>1, FollowBack
  <2> QED
    BY <2>4, <2>5, <2>6, <2>7 DEF Enters
<1>4. \A k \in Nat : k \in S => k + 1 \in S
  BY <1>3
<1> HIDE DEF S
<1>5. n \in S
  BY <1>2, <1>4, AllNumbers
<1>6. NormPath(p) = g[n]
  BY <1>1 DEF SegmentBySegment
<1> QED
  BY <1>5, <1>6 DEF S

-----------------------------------------------------------------------------
(* What normpath makes of a path.                                          *)

AllEnter(p) == \A i \in DOMAIN p : Enters(p, i)

\* Place and NeverLeaves are about the places that stay.
LEMMA PlaceIs ==
  ASSUME NEW A, NEW p \in Seq(A)
  PROVE  /\ Place(p) = Picked(p, Stays(p, Len(p)))
         /\ NeverLeaves(p) <=> Upright(p, Len(p))
<1> DEFINE n == Len(p)
<1>1. n \in Nat /\ DOMAIN p = 1..n
  OBVIOUS
<1> HIDE DEF n
<1>2. ASSUME NEW i \in 1..n, NEW j \in i..n
      PROVE  /\ Depth(p, i, j) > 0 <=> Entered(p, i, j) > Left(p, i, j)
             /\ Depth(p, i, j) >= 0 <=> Left(p, i, j) <= Entered(p, i, j)
  <2>1. i \in Nat /\ j \in Nat /\ i =< j + 1
    BY <1>1
  <2>2. Entered(p, i, j) \in Nat /\ Left(p, i, j) \in Nat
    BY <2>1, CountStep
  <2> QED
    BY <2>2 DEF Depth
<1>3. Stays(p, n) = {i \in DOMAIN p : Enters(p, i) /\ \A j \in i..n : Entered(p, i, j) > Left(p, i, j)}
  BY <1>1, <1>2 DEF Stays
<1>4. Place(p) = Picked(p, Stays(p, n))
  BY <1>3, Zenon DEF Place, n
<1>5. NeverLeaves(p) <=> Upright(p, n)
  <2>1. CASE n = 0
    <3>1. 1..n = {}
      BY <2>1
    <3> QED
      BY <1>1, <3>1 DEF NeverLeaves, Upright
  <2>2. CASE n # 0
    <3>1. 1 \in 1..n
      BY <1>1, <2>2
    <3>2. \A j \in 1..n : Depth(p, 1, j) >= 0 <=> Left(p, 1, j) <= Entered(p, 1, j)
      BY <1>2, <3>1
    <3> QED
      BY <1>1, <3>2 DEF NeverLeaves, Upright
  <2> QED
    BY <2>1, <2>2
<1> QED
  BY <1>4, <1>5 DEF n

\* A path that never leaves is its place; one that does begins with the parent.
THEOREM NormPathIs ==
  ASSUME NEW A, NEW p \in Seq(A)
  PROVE  /\ NormPath(p) \in Seq(A \cup {DotDot})
         /\ NeverLeaves(p) => /\ NormPath(p) = Place(p) /\ NormPath(p) \in Seq(A) /\ AllEnter(NormPath(p))
                              /\ \A i \in DOMAIN NormPath(p) : \E j \in DOMAIN p : NormPath(p)[i] = p[j]
         /\ ~NeverLeaves(p) => NormPath(p) # <<>> /\ Head(NormPath(p)) = DotDot
<1> DEFINE n == Len(p)
           q == NormPath(p)
<1>1. n \in Nat /\ DOMAIN p = 1..n /\ \A i \in 1..n : p[i] \in A
  OBVIOUS
<1> HIDE DEF n, q
<1>2. PICK u, m, pos : Followed(p, q, n, u, m, pos)
  BY <1>1, NormPathFollows DEF q
<1>3. /\ u \in Nat /\ m \in Nat /\ Lists(pos, m, Stays(p, n))
      /\ q = [i \in 1..(u + m) |-> IF i =< u THEN DotDot ELSE p[pos[i - u]]]
      /\ u = 0 <=> NeverLeaves(p)
  BY <1>2, PlaceIs DEF Followed, Lists, n
<1>4. \A a \in 1..m : pos[a] \in 1..n /\ Enters(p, pos[a])
  BY <1>3 DEF Lists, Stays
<1>5. Stays(p, n) \in SUBSET Nat
  BY <1>1 DEF Stays
<1>6. q \in Seq(A \cup {DotDot})
  <2>1. ASSUME NEW i \in 1..(u + m) PROVE q[i] \in A \cup {DotDot}
    <3>1. i =< u \/ i - u \in 1..m
      BY <1>3
    <3> QED
      BY <1>1, <1>3, <1>4, <3>1
  <2>2. u + m \in Nat /\ q = [i \in 1..(u + m) |-> q[i]]
    BY <1>3
  <2>3. q \in [1..(u + m) -> A \cup {DotDot}]
    BY <2>1, <2>2
  <2> QED
    BY <2>2, <2>3
<1>7. ASSUME NeverLeaves(p)
      PROVE  /\ q = Place(p) /\ q \in Seq(A) /\ AllEnter(q)
             /\ \A i \in DOMAIN q : \E j \in DOMAIN p : q[i] = p[j]
  <2>1. q = [i \in 1..m |-> p[pos[i]]]
    <3>1. u = 0 /\ u + m = m
      BY <1>3, <1>7
    <3>2. \A i \in 1..m : ~(i =< u) /\ i - u = i
      BY <1>3, <3>1
    <3> QED
      BY <1>3, <3>1, <3>2
  <2>2. Picked(p, Stays(p, n)) = [i \in 1..m |-> p[pos[i]]]
    <3> DEFINE S == Stays(p, n)
    <3>1. Lists(pos, m, S) /\ S \in SUBSET Nat
      BY <1>3, <1>5
    <3> HIDE DEF S
    <3>2. Picked(p, S) = [i \in 1..m |-> p[pos[i]]]
      BY <3>1, PickedIs
    <3> QED
      BY <3>2 DEF S
  <2>3. q = Place(p)
    BY <2>1, <2>2, PlaceIs DEF n
  <2>4. q \in Seq(A)
    <3>1. q \in [1..m -> A]
      BY <1>1, <1>4, <2>1
    <3> QED
      BY <1>3, <3>1
  <2>5. AllEnter(q)
    BY <1>4, <2>1 DEF AllEnter, Enters
  <2>6. \A i \in DOMAIN q : \E j \in DOMAIN p : q[i] = p[j]
    BY <1>1, <1>4, <2>1
  <2> QED
    BY <2>3, <2>4, <2>5, <2>6
<1>8. ASSUME ~NeverLeaves(p) PROVE q # <<>> /\ Head(q) = DotDot
  <2>1. 1 \in 1..(u + m) /\ 1 =< u
    BY <1>3, <1>8
  <2>2. q[1] = DotDot
    BY <1>3, <2>1
  <2>3. DOMAIN q = 1..(u + m)
    BY <1>3
  <2>4. Len(q) = u + m
    BY <1>3, <1>6, <2>3
  <2> QED
    BY <1>6, <2>1, <2>2, <2>4
<1> QED
  BY <1>6, <1>7, <1>8 DEF q

\* A path whose segments are all entered is in its normal form.
LEMMA Normal ==
  ASSUME NEW A, NEW p \in Seq(A), AllEnter(p)
  PROVE  NeverLeaves(p) /\ Place(p) = p /\ NormPath(p) = p
<1> DEFINE n == Len(p)
<1>1. n \in Nat /\ DOMAIN p = 1..n
  OBVIOUS
<1> HIDE DEF n
<1>2. ASSUME NEW i \in 1..n, NEW j \in i..n PROVE Depth(p, i, j) > 0
  <2>1. \A k \in i..j : Enters(p, k) /\ p[k] # DotDot
    BY <1>1 DEF AllEnter, Enters
  <2>2. {k \in i..j : Enters(p, k)} = i..j /\ {k \in i..j : p[k] = DotDot} = {}
    BY <2>1
  <2>3. Cardinality(i..j) = j - i + 1
    <3>1. i \in Int /\ j \in Int /\ ~(i > j)
      BY <1>1
    <3>2. Cardinality(i..j) = IF i > j THEN 0 ELSE j - i + 1
      BY <3>1, FS_Interval
    <3> QED
      BY <3>1, <3>2
  <2>4. Entered(p, i, j) = j - i + 1 /\ Left(p, i, j) = 0
    BY <2>2, <2>3, FS_EmptySet DEF Entered, Left
  <2> QED
    BY <1>1, <2>4 DEF Depth
<1>3. Stays(p, n) = 1..n
  BY <1>1, <1>2 DEF Stays, AllEnter
<1>4. Upright(p, n)
  <2>1. ASSUME NEW j \in 1..n PROVE Depth(p, 1, j) >= 0
    <3>1. 1 \in 1..n /\ j \in 1..n
      BY <1>1
    <3>2. Depth(p, 1, j) > 0
      BY <1>2, <3>1
    <3>3. Depth(p, 1, j) \in Int
      <4>1. j \in Nat /\ 1 \in Nat /\ 1 =< j + 1
        BY <1>1
      <4> QED
        BY <4>1, DepthStep
    <3> QED
      BY <3>2, <3>3
  <2> QED
    BY <2>1 DEF Upright
<1>5. NeverLeaves(p) /\ Place(p) = p
  BY <1>3, <1>4, PlaceIs, PickedAll DEF n
<1> QED
  BY <1>5, NormPathIs

-----------------------------------------------------------------------------
(* Slashes before and after a path.                                        *)

\* A set of numbers has a least one.
LEMMA Least ==
  ASSUME NEW S \in SUBSET Nat, S # {}
  PROVE  Min(S) \in S /\ \A y \in S : Min(S) =< y
<1> DEFINE R == OpToRel(<, Nat)
<1>1. \A x, y \in Nat : <<y, x>> \in R <=> y < x
  BY DEF OpToRel
<1>2. IsWellFoundedOn(R, Nat)
  BY NatLessThanWellFounded
<1> HIDE DEF R
<1>3. PICK x \in S : \A y \in S : ~(<<y, x>> \in R)
  BY <1>2, WFMin
<1>4. \A y \in S : x =< y
  <2> SUFFICES ASSUME NEW y \in S PROVE x =< y
    OBVIOUS
  <2>1. x \in Nat /\ y \in Nat /\ ~(y < x)
    BY <1>1, <1>3
  <2> QED
    BY <2>1
<1> QED
  BY <1>3, <1>4 DEF Min

\* normpath takes no notice of slashes around a path.
LEMMA OuterEmpty ==
  ASSUME NEW A, NEW p \in Seq(A), NEW a \in 1..Len(p), NEW b \in a..Len(p),
         \A i \in 1..Len(p) : i < a \/ i > b => p[i] = Empty
  PROVE  NormPath(SubSeq(p, a, b)) = NormPath(p)
<1> DEFINE n == Len(p)
           q == SubSeq(p, a, b)
           m == b - a + 1
<1>1. /\ n \in Nat /\ DOMAIN p = 1..n /\ a \in 1..n /\ b \in 1..n /\ a =< b
      /\ m \in Nat /\ DOMAIN q = 1..m /\ \A i \in 1..m : q[i] = p[a + i - 1]
  OBVIOUS
<1>2. \A i \in 1..n : i < a \/ i > b => p[i] = Empty
  OBVIOUS
<1> HIDE DEF n, q
<1>3. PICK g : SegmentBySegment(g, p, n)
  BY <1>1, NormPathStepByStep
<1>4. PICK h : SegmentBySegment(h, q, m)
  <2> HIDE DEF m
  <2> QED
    BY <1>1, NormPathStepByStep
<1>5. ASSUME NEW done PROVE TakeSegment(done, Empty) = done
  BY Nameless DEF TakeSegment
<1>6. ASSUME NEW k \in 1..n PROVE g[k] = TakeSegment(g[k - 1], p[k])
  BY <1>3 DEF SegmentBySegment
\* Before the first.
<1>7. g[a - 1] = <<>>
  <2> DEFINE S == {k \in Nat : k < a => g[k] = <<>>}
  <2>1. 0 \in S
    BY <1>3 DEF SegmentBySegment
  <2>2. ASSUME NEW k \in Nat, k \in S, k + 1 < a PROVE g[k + 1] = <<>>
    <3> DEFINE l == k + 1
    <3>1. l \in 1..n /\ l - 1 = k /\ l < a /\ g[k] = <<>>
      BY <1>1, <2>2
    <3> HIDE DEF l
    <3>2. g[l] = TakeSegment(g[k], Empty)
      BY <1>2, <1>6, <3>1
    <3> QED
      BY <1>5, <3>1, <3>2 DEF l
  <2>3. \A k \in Nat : k \in S => k + 1 \in S
    BY <2>2
  <2> HIDE DEF S
  <2>4. a - 1 \in Nat /\ a - 1 < a
    BY <1>1
  <2>5. a - 1 \in S
    BY <2>1, <2>3, <2>4, AllNumbers
  <2> QED
    BY <2>4, <2>5 DEF S
\* Between.
<1>8. h[m] = g[b]
  <2> DEFINE S == {k \in Nat : k =< m => h[k] = g[a - 1 + k]}
  <2>1. 0 \in S
    <3>1. a - 1 + 0 = a - 1
      BY <1>1
    <3> QED
      BY <1>4, <1>7, <3>1 DEF SegmentBySegment
  <2>2. ASSUME NEW k \in Nat, k \in S, k + 1 =< m PROVE h[k + 1] = g[a - 1 + (k + 1)]
    <3> DEFINE l == k + 1
               e == a - 1 + l
    <3>1. /\ l \in 1..m /\ l - 1 = k /\ e \in 1..n /\ e - 1 = a - 1 + k /\ a + l - 1 = e
          /\ h[k] = g[a - 1 + k]
      BY <1>1, <2>2
    <3> HIDE DEF l, e, m
    <3>2. h[l] = TakeSegment(h[l - 1], q[l])
      BY <1>4, <3>1 DEF SegmentBySegment
    <3>3. q[l] = p[e]
      <4>1. q[l] = p[a + l - 1]
        BY <1>1, <3>1
      <4> QED
        BY <3>1, <4>1
    <3>4. g[e] = TakeSegment(g[e - 1], p[e])
      BY <1>6, <3>1
    <3>5. h[l] = g[e]
      BY <3>1, <3>2, <3>3, <3>4
    <3> QED
      BY <3>5 DEF l, e
  <2>3. \A k \in Nat : k \in S => k + 1 \in S
    BY <2>2
  <2> HIDE DEF S
  <2>4. m \in S
    BY <1>1, <2>1, <2>3, AllNumbers
  <2>5. a - 1 + m = b
    BY <1>1
  <2> HIDE DEF m
  <2> QED
    BY <1>1, <2>4, <2>5 DEF S
\* After the last.
<1>9. g[n] = g[b]
  <2> DEFINE S == {k \in Nat : b + k =< n => g[b + k] = g[b]}
  <2>1. 0 \in S
    <3>1. b + 0 = b
      BY <1>1
    <3> QED
      BY <3>1
  <2>2. ASSUME NEW k \in Nat, k \in S, b + (k + 1) =< n PROVE g[b + (k + 1)] = g[b]
    <3> DEFINE l == b + (k + 1)
    <3>1. l \in 1..n /\ l - 1 = b + k /\ l > b /\ g[b + k] = g[b]
      BY <1>1, <2>2
    <3> HIDE DEF l
    <3>2. g[l] = TakeSegment(g[l - 1], Empty)
      BY <1>2, <1>6, <3>1
    <3>3. g[l] = g[b]
      BY <1>5, <3>1, <3>2
    <3> QED
      BY <3>3 DEF l
  <2>3. \A k \in Nat : k \in S => k + 1 \in S
    BY <2>2
  <2> HIDE DEF S
  <2>4. n - b \in Nat /\ b + (n - b) = n
    BY <1>1
  <2>5. n - b \in S
    BY <2>1, <2>3, <2>4, AllNumbers
  <2>6. b + (n - b) =< n => g[b + (n - b)] = g[b]
    BY <2>5 DEF S
  <2> QED
    BY <1>1, <2>4, <2>6
<1>10. NormPath(p) = g[n] /\ NormPath(q) = h[m]
  BY <1>3, <1>4 DEF SegmentBySegment
<1> QED
  BY <1>8, <1>9, <1>10 DEF q

\* A path of slashes only is the directory itself.
LEMMA OnlyEmpty ==
  ASSUME NEW A, NEW p \in Seq(A), \A i \in 1..Len(p) : p[i] = Empty
  PROVE  NormPath(p) = <<>>
<1> DEFINE n == Len(p)
<1>1. n \in Nat /\ DOMAIN p = 1..n /\ \A i \in 1..n : p[i] = Empty
  OBVIOUS
<1> HIDE DEF n
<1>2. PICK g : SegmentBySegment(g, p, n)
  BY <1>1, NormPathStepByStep
<1> DEFINE S == {k \in Nat : k =< n => g[k] = <<>>}
<1>3. 0 \in S
  BY <1>2 DEF SegmentBySegment
<1>4. ASSUME NEW k \in Nat, k \in S, k + 1 =< n PROVE g[k + 1] = <<>>
  <2> DEFINE l == k + 1
  <2>1. l \in 1..n /\ l - 1 = k /\ g[k] = <<>>
    BY <1>1, <1>4
  <2> HIDE DEF l
  <2>2. g[l] = TakeSegment(g[l - 1], p[l]) /\ p[l] = Empty
    BY <1>1, <1>2, <2>1 DEF SegmentBySegment
  <2>3. TakeSegment(<<>>, Empty) = <<>>
    BY Nameless DEF TakeSegment
  <2>4. g[l] = <<>>
    BY <2>1, <2>2, <2>3
  <2> QED
    BY <2>4 DEF l
<1>5. \A k \in Nat : k \in S => k + 1 \in S
  BY <1>4
<1> HIDE DEF S
<1>6. n \in S
  BY <1>1, <1>3, <1>5, AllNumbers
<1> QED
  BY <1>1, <1>2, <1>6 DEF SegmentBySegment, S

\* What lstrip leaves: the path from its first name on.
LEMMA LStripped ==
  ASSUME NEW A, NEW p \in Seq(A)
  PROVE  \/ /\ \A i \in 1..Len(p) : p[i] = Empty
            /\ LStrip(p) = <<Empty>>
         \/ \E a \in 1..Len(p) : /\ p[a] # Empty /\ \A i \in 1..Len(p) : i < a => p[i] = Empty
                                 /\ LStrip(p) = SubSeq(p, a, Len(p))
<1> DEFINE named == {i \in DOMAIN p : p[i] # Empty}
<1>1. DOMAIN p = 1..Len(p) /\ Len(p) \in Nat
  OBVIOUS
<1>2. LStrip(p) = IF named = {} THEN <<Empty>> ELSE SubSeq(p, Min(named), Len(p))
  BY DEF LStrip
<1>3. CASE named = {}
  BY <1>1, <1>2, <1>3
<1>4. CASE named # {}
  <2>1. named \in SUBSET Nat
    BY <1>1
  <2>2. Min(named) \in named /\ \A y \in named : Min(named) =< y
    <3> HIDE DEF named
    <3> QED
      BY <1>4, <2>1, Least
  <2> DEFINE a == Min(named)
  <2>3. LStrip(p) = SubSeq(p, a, Len(p))
    BY <1>2, <1>4
  <2>4. a \in named /\ \A y \in named : a =< y
    BY <2>2
  <2> HIDE DEF a
  <2>5. a \in 1..Len(p) /\ p[a] # Empty
    BY <1>1, <2>4
  <2>6. ASSUME NEW i \in 1..Len(p), i < a PROVE p[i] = Empty
    BY <1>1, <2>4, <2>5, <2>6
  <2> QED
    BY <2>3, <2>5, <2>6
<1> QED
  BY <1>3, <1>4

\* lstrip changes neither where a path leads nor one that begins with a name.
LEMMA LStripKeeps ==
  ASSUME NEW A, NEW p \in Seq(A)
  PROVE  /\ LStrip(p) \in Seq(A \cup {Empty}) /\ LStrip(p) # <<>>
         /\ NormPath(LStrip(p)) = NormPath(p)
         /\ p # <<>> /\ p[1] # Empty => LStrip(p) = p
<1>0. Len(p) \in Nat /\ DOMAIN p = 1..Len(p)
  OBVIOUS
<1>1. CASE /\ \A i \in 1..Len(p) : p[i] = Empty
           /\ LStrip(p) = <<Empty>>
  <2>1. <<Empty>> \in Seq({Empty}) /\ \A i \in 1..Len(<<Empty>>) : <<Empty>>[i] = Empty
    OBVIOUS
  <2>2. NormPath(<<Empty>>) = <<>>
    BY <2>1, OnlyEmpty
  <2>3. NormPath(p) = <<>>
    BY <1>1, OnlyEmpty
  <2>4. p # <<>> => p[1] = Empty
    BY <1>0, <1>1
  <2>5. LStrip(p) \in Seq(A \cup {Empty}) /\ LStrip(p) # <<>>
    BY <1>1
  <2> QED
    BY <1>1, <2>2, <2>3, <2>4, <2>5
<1>2. ASSUME NEW a \in 1..Len(p), p[a] # Empty, \A i \in 1..Len(p) : i < a => p[i] = Empty,
             LStrip(p) = SubSeq(p, a, Len(p))
      PROVE  /\ LStrip(p) \in Seq(A) /\ LStrip(p) # <<>>
             /\ NormPath(LStrip(p)) = NormPath(p)
             /\ p # <<>> /\ p[1] # Empty => LStrip(p) = p
  <2>1. Len(p) \in a..Len(p) /\ \A i \in 1..Len(p) : ~(i > Len(p))
    BY <1>0
  <2>2. NormPath(SubSeq(p, a, Len(p))) = NormPath(p)
    BY <1>2, <2>1, OuterEmpty
  <2>3. p[1] # Empty => a = 1
    BY <1>0, <1>2
  <2>4. SubSeq(p, 1, Len(p)) = p
    OBVIOUS
  <2>5. SubSeq(p, a, Len(p)) \in Seq(A) /\ SubSeq(p, a, Len(p)) # <<>>
    <3> DEFINE n == Len(p)
               q == SubSeq(p, a, n)
    <3>1. n \in Nat /\ a \in 1..n /\ n - a + 1 \in Nat \ {0}
      BY <1>0
    <3>2. q = [i \in 1..(n - a + 1) |-> p[a + i - 1]]
      BY <1>0
    <3>3. \A i \in 1..(n - a + 1) : p[a + i - 1] \in A
      BY <1>0
    <3> HIDE DEF n, q
    <3>4. q \in [1..(n - a + 1) -> A]
      BY <3>2, <3>3
    <3>5. q \in Seq(A) /\ Len(q) = n - a + 1
      BY <3>1, <3>4
    <3> QED
      BY <3>1, <3>5 DEF q, n
  <2> QED
    BY <1>2, <2>2, <2>3, <2>4, <2>5
<1>3. Seq(A) \subseteq Seq(A \cup {Empty})
  OBVIOUS
<1> QED
  BY <1>1, <1>2, <1>3, LStripped

\* Nor does strip change where a path leads.
LEMMA RStripKeeps ==
  ASSUME NEW A, NEW p \in Seq(A)
  PROVE  /\ Reverse(LStrip(Reverse(p))) \in Seq(A \cup {Empty})
         /\ NormPath(Reverse(LStrip(Reverse(p)))) = NormPath(p)
<1> DEFINE n == Len(p)
           r == Reverse(p)
<1>1. n \in Nat /\ DOMAIN p = 1..n
  OBVIOUS
<1>2. r = [i \in 1..n |-> p[n - i + 1]]
  BY DEF Reverse
<1>3. r \in Seq(A) /\ Len(r) = n /\ \A i \in 1..n : r[i] = p[n - i + 1]
  <2>1. \A i \in 1..n : n - i + 1 \in 1..n /\ p[n - i + 1] \in A
    BY <1>1
  <2> HIDE DEF r, n
  <2>2. r \in [1..n -> A]
    BY <1>2, <2>1
  <2> QED
    BY <1>1, <1>2, <2>2
<1> HIDE DEF r, n
<1>4. CASE /\ \A i \in 1..Len(r) : r[i] = Empty
           /\ LStrip(r) = <<Empty>>
  <2>1. <<Empty>> \in Seq({Empty}) /\ \A i \in 1..Len(<<Empty>>) : <<Empty>>[i] = Empty
    OBVIOUS
  <2>2. Reverse(<<Empty>>) = <<Empty>>
    BY DEF Reverse
  <2>3. \A i \in 1..n : p[i] = Empty
    <3> TAKE i \in 1..n
    <3>1. n - i + 1 \in 1..n /\ n - (n - i + 1) + 1 = i
      BY <1>1
    <3>2. r[n - i + 1] = p[n - (n - i + 1) + 1]
      BY <1>3, <3>1
    <3> QED
      BY <1>3, <1>4, <3>1, <3>2
  <2>4. NormPath(<<Empty>>) = <<>>
    BY <2>1, OnlyEmpty
  <2>5. NormPath(p) = <<>>
    BY <2>3, OnlyEmpty DEF n
  <2>6. <<Empty>> \in Seq(A \cup {Empty})
    OBVIOUS
  <2> QED
    BY <1>4, <2>2, <2>4, <2>5, <2>6 DEF r
<1>5. ASSUME NEW a \in 1..n, \A i \in 1..n : i < a => r[i] = Empty, LStrip(r) = SubSeq(r, a, n)
      PROVE  /\ Reverse(LStrip(r)) \in Seq(A) /\ NormPath(Reverse(LStrip(r))) = NormPath(p)
  <2> DEFINE b == n - a + 1
             q == SubSeq(r, a, n)
  <2>1. b \in 1..n
    BY <1>1
  <2>2. Len(q) = b /\ \A i \in 1..b : q[i] = r[a + i - 1]
    BY <1>1, <1>3
  <2> HIDE DEF q
  <2>3. ASSUME NEW i \in 1..b PROVE q[b - i + 1] = p[i]
    <3> DEFINE j == b - i + 1
    <3>1. j \in 1..b /\ a + j - 1 \in 1..n /\ n - (a + j - 1) + 1 = i
      BY <1>1
    <3> HIDE DEF j, b
    <3>2. q[j] = r[a + j - 1]
      BY <2>2, <3>1
    <3>3. r[a + j - 1] = p[n - (a + j - 1) + 1]
      BY <1>3, <3>1
    <3> QED
      BY <3>1, <3>2, <3>3 DEF j
  <2>4. Reverse(q) = [i \in 1..b |-> p[i]]
    <3>1. Reverse(q) = [i \in 1..b |-> q[b - i + 1]]
      BY <2>2 DEF Reverse
    <3> HIDE DEF b
    <3> QED
      BY <2>3, <3>1
  <2>5. SubSeq(p, 1, b) = [i \in 1..b |-> p[i]] /\ SubSeq(p, 1, b) \in Seq(A)
    BY <1>1, <2>1 DEF n
  <2>6. \A i \in 1..n : i < 1 \/ i > b => p[i] = Empty
    <3> SUFFICES ASSUME NEW i \in 1..n, i > b PROVE p[i] = Empty
      BY <1>1
    <3> DEFINE j == n - i + 1
    <3>1. j \in 1..n /\ j < a /\ n - j + 1 = i
      BY <1>1
    <3> HIDE DEF j, b
    <3>2. r[j] = p[n - j + 1] /\ r[j] = Empty
      BY <1>3, <1>5, <3>1
    <3> QED
      BY <3>1, <3>2
  <2>7. NormPath(SubSeq(p, 1, b)) = NormPath(p)
    <3>1. 1 \in 1..n /\ b \in 1..n
      BY <1>1, <2>1
    <3> HIDE DEF b
    <3> QED
      BY <2>6, <3>1, OuterEmpty DEF n
  <2> HIDE DEF b
  <2> QED
    BY <1>5, <2>4, <2>5, <2>7 DEF q
<1>6. Seq(A) \subseteq Seq(A \cup {Empty})
  OBVIOUS
<1>7. \/ /\ \A i \in 1..n : r[i] = Empty
         /\ LStrip(r) = <<Empty>>
      \/ \E a \in 1..n : /\ \A i \in 1..n : i < a => r[i] = Empty
                         /\ LStrip(r) = SubSeq(r, a, n)
  BY <1>3, LStripped
<1> QED
  BY <1>3, <1>4, <1>5, <1>6, <1>7 DEF r

\* strip leads where the path leads.
LEMMA StripKeeps ==
  ASSUME NEW A, NEW p \in Seq(A)
  PROVE  Strip(p) \in Seq(A \cup {Empty}) /\ NormPath(Strip(p)) = NormPath(p)
<1> DEFINE q == LStrip(p)
           B == A \cup {Empty}
<1>1. q \in Seq(B) /\ NormPath(q) = NormPath(p)
  BY LStripKeeps
<1> HIDE DEF q, B
<1>2. Reverse(LStrip(Reverse(q))) \in Seq(B \cup {Empty}) /\ NormPath(Reverse(LStrip(Reverse(q)))) = NormPath(q)
  BY <1>1, RStripKeeps
<1>3. B \cup {Empty} = A \cup {Empty}
  BY DEF B
<1>4. Strip(p) = Reverse(LStrip(Reverse(q)))
  BY DEF Strip, q
<1> QED
  BY <1>1, <1>2, <1>3, <1>4

-----------------------------------------------------------------------------
(* Segments and their marks.                                               *)

\* What the functions make of segments: other dots, another alias, other marks.
PartNames == {s.name : s \in Segments} \cup {NoName}
Parts == {Segment(d, n, ms) : d \in Nat, n \in PartNames, ms \in SUBSET Marks}
             \cup {Alias(k, d, n, ms) : k \in Nat, d \in Nat, n \in PartNames, ms \in SUBSET Marks}

\* How a part is written.
LEMMA PartIs ==
  ASSUME NEW s \in Parts
  PROVE  /\ s.alias \in BOOLEAN /\ s.k \in Nat /\ s.dots \in Nat /\ s.name \in PartNames /\ s.marks \in SUBSET Marks
         /\ ~s.alias => s = Segment(s.dots, s.name, s.marks)
         /\ s.alias => s = Alias(s.k, s.dots, s.name, s.marks)
         /\ s = [alias |-> s.alias, k |-> s.k, dots |-> s.dots, name |-> s.name, marks |-> s.marks]
         /\ ~s.alias => s.k = 0
<1>1. CASE s \in {Segment(d, n, ms) : d \in Nat, n \in PartNames, ms \in SUBSET Marks}
  <2>1. PICK d \in Nat, n \in PartNames, ms \in SUBSET Marks : s = Segment(d, n, ms)
    BY <1>1
  <2> QED
    BY <2>1 DEF Segment
<1>2. CASE s \in {Alias(k, d, n, ms) : k \in Nat, d \in Nat, n \in PartNames, ms \in SUBSET Marks}
  <2>1. PICK k \in Nat, d \in Nat, n \in PartNames, ms \in SUBSET Marks : s = Alias(k, d, n, ms)
    BY <1>2
  <2> QED
    BY <2>1 DEF Alias
<1> QED
  BY <1>1, <1>2 DEF Parts

\* Segments are parts, and so are the names of directories.
LEMMA SegmentsAreParts == Segments \subseteq Parts /\ {Empty, Dot, DotDot} \subseteq Parts
<1>1. ASSUME NEW s \in Segments PROVE s \in Parts
  <2>1. s.marks \in SUBSET Marks /\ s.name \in PartNames
    BY SegmentAssumption DEF PartNames
  <2>2. CASE s = Segment(s.dots, s.name, s.marks) /\ s.dots \in Nat
    BY <2>1, <2>2 DEF Parts
  <2>3. CASE s = Alias(s.k, s.dots, s.name, s.marks) /\ s.k \in Nat /\ s.dots \in Nat
    BY <2>1, <2>3 DEF Parts
  <2> QED
    BY <2>2, <2>3, SegmentAssumption
<1>2. {} \in SUBSET Marks /\ NoName \in PartNames
  BY DEF PartNames
<1>3. Segment(0, NoName, {}) \in Parts /\ Segment(1, NoName, {}) \in Parts /\ Segment(2, NoName, {}) \in Parts
  BY <1>2 DEF Parts
<1> QED
  BY <1>1, <1>3 DEF Empty, Dot, DotDot

\* A record with other marks.
LEMMA OtherMarks ==
  ASSUME NEW s, NEW gone,
         s = [alias |-> s.alias, k |-> s.k, dots |-> s.dots, name |-> s.name, marks |-> s.marks]
  PROVE  Without(s, gone) =
           [alias |-> s.alias, k |-> s.k, dots |-> s.dots, name |-> s.name, marks |-> s.marks \ gone]
<1> DEFINE a == s.alias
           k == s.k
           d == s.dots
           n == s.name
           x == s.marks
           y == s.marks \ gone
<1>1. s = [alias |-> a, k |-> k, dots |-> d, name |-> n, marks |-> x]
  OBVIOUS
<1>2. Without(s, gone) = [s EXCEPT !.marks = y]
  BY DEF Without
<1> HIDE DEF a, k, d, n, x, y
<1>3. [[alias |-> a, k |-> k, dots |-> d, name |-> n, marks |-> x] EXCEPT !.marks = y]
        = [alias |-> a, k |-> k, dots |-> d, name |-> n, marks |-> y]
  OBVIOUS
<1>4. [s EXCEPT !.marks = y] = [alias |-> a, k |-> k, dots |-> d, name |-> n, marks |-> y]
  BY <1>1, <1>3, Zenon
<1> QED
  BY <1>2, <1>4 DEF a, k, d, n, y

\* What is left of a segment whose marks are taken away.
LEMMA WithoutIs ==
  ASSUME NEW s \in Parts, NEW gone
  PROVE  /\ Without(s, gone) \in Parts
         /\ Without(s, gone).marks = s.marks \ gone
         /\ Without(s, gone) = s <=> s.marks \cap gone = {}
<1> DEFINE ms == s.marks \ gone
<1>1. s.marks \in SUBSET Marks /\ s.name \in PartNames /\ s.dots \in Nat /\ s.k \in Nat /\ s.alias \in BOOLEAN
  BY PartIs
<1>2. ms \in SUBSET Marks
  BY <1>1
<1>3. s = [alias |-> s.alias, k |-> s.k, dots |-> s.dots, name |-> s.name, marks |-> s.marks]
  BY PartIs
<1>4. Without(s, gone) = [alias |-> s.alias, k |-> s.k, dots |-> s.dots, name |-> s.name, marks |-> ms]
  BY <1>3, OtherMarks
<1> HIDE DEF ms
<1>5. Without(s, gone).marks = ms
  BY <1>4
<1>6. Without(s, gone) \in Parts
  <2>1. CASE ~s.alias
    <3>1. s.alias = FALSE /\ s.k = 0
      BY <1>1, <2>1, PartIs
    <3>2. Without(s, gone) = Segment(s.dots, s.name, ms)
      BY <1>4, <3>1 DEF Segment
    <3> QED
      BY <1>1, <1>2, <3>2 DEF Parts
  <2>2. CASE s.alias
    <3>1. s.alias = TRUE
      BY <1>1, <2>2
    <3>2. Without(s, gone) = Alias(s.k, s.dots, s.name, ms)
      BY <1>4, <3>1 DEF Alias
    <3> QED
      BY <1>1, <1>2, <3>2 DEF Parts
  <2> QED
    BY <2>1, <2>2
<1>7. ms = s.marks => Without(s, gone) = s
  BY <1>3, <1>4, Zenon
<1>8. ms = s.marks <=> s.marks \cap gone = {}
  BY DEF ms
<1> QED
  BY <1>5, <1>6, <1>7, <1>8 DEF ms

\* normalize("NFC", _) and strip() change no path but in the marks of its segments,
\* and leave one as it is that has none of the marks they take away.
LEMMA PlainIs ==
  ASSUME NEW p \in Seq(Parts)
  PROVE  /\ Trim(p) \in Seq(Parts) /\ Len(Trim(p)) = Len(p)
         /\ Plain(p) \in Seq(Parts) /\ Len(Plain(p)) = Len(p)
         /\ Trim(p) = p <=> \A i \in 1..Len(p) : p[i].marks \cap AtEnd(p, i) = {}
         /\ Plain(p) = p <=> \A i \in 1..Len(p) : p[i].marks \cap ({"nfd"} \cup AtEnd(p, i)) = {}
<1> DEFINE n == Len(p)
           c == Nfc(p)
<1>1. n \in Nat /\ DOMAIN p = 1..n /\ p = [i \in 1..n |-> p[i]] /\ \A i \in 1..n : p[i] \in Parts
  OBVIOUS
<1> HIDE DEF n
<1>2. c = [i \in 1..n |-> Without(p[i], {"nfd"})]
  BY <1>1 DEF Nfc
<1>3. c \in [1..n -> Parts]
  BY <1>1, <1>2, WithoutIs
<1> HIDE DEF c
<1>4. c \in Seq(Parts) /\ Len(c) = n
  BY <1>1, <1>3
<1>5. ASSUME NEW q \in Seq(Parts), Len(q) = n PROVE Trim(q) = [i \in 1..n |-> Without(q[i], AtEnd(p, i))]
  <2>1. DOMAIN q = 1..n /\ \A i \in 1..n : AtEnd(q, i) = AtEnd(p, i)
    BY <1>5 DEF AtEnd, n
  <2> QED
    BY <2>1 DEF Trim
<1>6. ASSUME NEW q \in Seq(Parts), Len(q) = n PROVE Trim(q) \in Seq(Parts) /\ Len(Trim(q)) = n
  <2>1. \A i \in 1..n : q[i] \in Parts
    BY <1>6
  <2> DEFINE u == Trim(q)
  <2>2. u \in [1..n -> Parts]
    BY <1>5, <1>6, <2>1, WithoutIs
  <2> HIDE DEF u
  <2>3. u \in Seq(Parts) /\ Len(u) = n
    BY <1>1, <2>2
  <2> QED
    BY <2>3 DEF u
<1>7. Trim(p) = p <=> \A i \in 1..n : p[i].marks \cap AtEnd(p, i) = {}
  <2>1. Trim(p) = [i \in 1..n |-> Without(p[i], AtEnd(p, i))]
    BY <1>5 DEF n
  <2>2. Trim(p) = p <=> \A i \in 1..n : Without(p[i], AtEnd(p, i)) = p[i]
    BY <1>1, <2>1
  <2> QED
    BY <1>1, <2>2, WithoutIs
<1>8. Plain(p) = p <=> \A i \in 1..n : p[i].marks \cap ({"nfd"} \cup AtEnd(p, i)) = {}
  <2>1. Plain(p) = [i \in 1..n |-> Without(c[i], AtEnd(p, i))]
    BY <1>4, <1>5 DEF Plain, c
  <2>2. Plain(p) = p <=> \A i \in 1..n : Without(c[i], AtEnd(p, i)) = p[i]
    BY <1>1, <2>1
  <2>3. ASSUME NEW i \in 1..n
        PROVE  Without(c[i], AtEnd(p, i)) = p[i] <=> p[i].marks \cap ({"nfd"} \cup AtEnd(p, i)) = {}
    <3>1. p[i] \in Parts /\ c[i] \in Parts /\ c[i] = Without(p[i], {"nfd"})
      BY <1>1, <1>2, <1>3
    <3>2. c[i].marks = p[i].marks \ {"nfd"} /\ (c[i] = p[i] <=> p[i].marks \cap {"nfd"} = {})
      BY <3>1, WithoutIs
    <3>3. Without(c[i], AtEnd(p, i)).marks = c[i].marks \ AtEnd(p, i)
          /\ (Without(c[i], AtEnd(p, i)) = c[i] <=> c[i].marks \cap AtEnd(p, i) = {})
      BY <3>1, WithoutIs
    <3> QED
      BY <3>2, <3>3
  <2> QED
    BY <2>2, <2>3
<1> QED
  BY <1>4, <1>6, <1>7, <1>8 DEF Plain, c, n

\* A path without marks is as it was.
LEMMA Unmarked ==
  ASSUME NEW p \in Seq(Parts), \A i \in DOMAIN p : p[i].marks = {}
  PROVE  Plain(p) = p /\ Trim(p) = p
<1>1. \A i \in 1..Len(p) : p[i].marks \cap ({"nfd"} \cup AtEnd(p, i)) = {} /\ p[i].marks \cap AtEnd(p, i) = {}
  OBVIOUS
<1> QED
  BY <1>1, PlainIs

\* What is as it was under both is so under strip().
LEMMA PlainTrims ==
  ASSUME NEW p \in Seq(Parts), Plain(p) = p
  PROVE  Trim(p) = p
<1>1. \A i \in 1..Len(p) : p[i].marks \cap ({"nfd"} \cup AtEnd(p, i)) = {}
  BY PlainIs
<1>2. \A i \in 1..Len(p) : p[i].marks \cap AtEnd(p, i) = {}
  BY <1>1
<1> QED
  BY <1>2, PlainIs

-----------------------------------------------------------------------------
(* What the functions of paths.py let through.                             *)

\* normpath of parts is of parts.
LEMMA NormPathParts == ASSUME NEW p \in Seq(Parts) PROVE NormPath(p) \in Seq(Parts)
<1>1. Parts \cup {DotDot} = Parts
  BY SegmentsAreParts
<1> QED
  BY <1>1, NormPathIs

\* A prefix that is let through is a place below the root, with no hidden and no
\* shared name in it; and it is let through again.
LEMMA PrefixIs ==
  ASSUME NEW p \in Seq(Parts), ValidatePrefix(p) # Refused, \A i \in DOMAIN p : Plain(p)[i].marks = {}
  PROVE  /\ NeverLeaves(Plain(p)) /\ ValidatePrefix(p) = Place(Plain(p))
         /\ ValidatePrefix(p) \in Seq(Parts) /\ AllEnter(ValidatePrefix(p))
         /\ \A i \in DOMAIN ValidatePrefix(p) : /\ ~StartsWithDots(ValidatePrefix(p)[i], 1)
                                                /\ ~IsOneOf(ValidatePrefix(p)[i], Shared)
                                                /\ ValidatePrefix(p)[i].marks = {}
         /\ ValidatePrefix(ValidatePrefix(p)) = ValidatePrefix(p)
<1> DEFINE r == Plain(p)
           v == NormPath(r)
<1>0. r \in Seq(Parts) /\ \A i \in DOMAIN r : r[i].marks = {}
  BY PlainIs
<1> HIDE DEF r
<1>1. NormPath(Strip(r)) = v
  BY <1>0, StripKeeps
<1> HIDE DEF v
<1>2. /\ ValidatePrefix(p) = v /\ v # <<>>
      /\ \A i \in DOMAIN v : ~StartsWithDots(v[i], 1) /\ ~IsOneOf(v[i], Shared)
  BY <1>1 DEF ValidatePrefix, Refused, r
<1>3. v \in Seq(Parts)
  BY <1>0, NormPathParts DEF v
<1>4. NeverLeaves(r)
  <2>1. Head(v) = v[1] /\ 1 \in DOMAIN v
    BY <1>2, <1>3
  <2>2. StartsWithDots(DotDot, 1)
    BY Nameless DEF StartsWithDots
  <2>3. Head(v) # DotDot
    BY <1>2, <2>1, <2>2
  <2> QED
    BY <1>0, <2>3, NormPathIs DEF v
<1>5. v = Place(r) /\ AllEnter(v) /\ \A i \in DOMAIN v : \E j \in DOMAIN r : v[i] = r[j]
  BY <1>0, <1>4, NormPathIs DEF v
<1>6. \A i \in DOMAIN v : v[i].marks = {}
  BY <1>0, <1>5
<1>7. ValidatePrefix(v) = v
  <2>1. Plain(v) = v
    BY <1>3, <1>6, Unmarked
  <2>2. NormPath(Strip(v)) = v
    BY <1>3, <1>5, StripKeeps, Normal
  <2> QED
    BY <1>2, <2>1, <2>2 DEF ValidatePrefix
<1> QED
  BY <1>2, <1>3, <1>4, <1>5, <1>6, <1>7 DEF r

\* A relative path that is let through is a place below the directory.
LEMMA RelativeIs ==
  ASSUME NEW p \in Seq(Parts), NormalizeRel(p) # Refused
  PROVE  /\ NeverLeaves(Plain(p)) /\ NormalizeRel(p) = Place(Plain(p))
         /\ NormalizeRel(p) \in Seq(Parts) /\ NormalizeRel(p) # <<>> /\ AllEnter(NormalizeRel(p))
         /\ \A i \in DOMAIN NormalizeRel(p) : \E j \in DOMAIN Plain(p) : NormalizeRel(p)[i] = Plain(p)[j]
<1> DEFINE r == Plain(p)
<1>0. r \in Seq(Parts)
  BY PlainIs
<1> HIDE DEF r
<1>1. NormalizeRel(p) = NormPath(r) /\ Head(NormPath(r)) # DotDot /\ NormPath(r) # <<>>
  BY DEF NormalizeRel, Refused, r
<1>2. NeverLeaves(r)
  BY <1>0, <1>1, NormPathIs
<1> QED
  BY <1>0, <1>1, <1>2, NormPathIs DEF r

\* One that is refused is absolute, leaves the directory or is the directory.
LEMMA RelativeRefused ==
  ASSUME NEW p \in Seq(Parts), p # <<>>, NormalizeRel(p) = Refused
  PROVE  \/ IsAbsolute(Plain(p)) \/ LooksLikeWindowsAbsolute(Plain(p))
         \/ ~NeverLeaves(Plain(p)) \/ Place(Plain(p)) = <<>>
<1> DEFINE r == Plain(p)
           q == NormPath(r)
<1>0. r \in Seq(Parts) /\ r # <<>>
  BY PlainIs
<1> HIDE DEF r
<1> SUFFICES ASSUME NeverLeaves(r), Place(r) # <<>>, ~IsAbsolute(r), ~LooksLikeWindowsAbsolute(r)
             PROVE  FALSE
  BY DEF r
<1>1. q = Place(r) /\ q \in Seq(Parts) /\ AllEnter(q)
  BY <1>0, NormPathIs
<1> HIDE DEF q
<1>2. Head(q) = q[1] /\ 1 \in DOMAIN q
  BY <1>1
<1>3. Head(q) # DotDot
  BY <1>1, <1>2 DEF AllEnter, Enters
<1>4. r # <<Empty>>
  <2>1. <<Empty>> \in Seq({Empty}) /\ \A i \in 1..Len(<<Empty>>) : <<Empty>>[i] = Empty
    OBVIOUS
  <2>2. NormPath(<<Empty>>) = <<>>
    BY <2>1, OnlyEmpty
  <2> QED
    BY <1>1, <2>2 DEF q
<1>5. NormalizeRel(p) = q
  BY <1>0, <1>1, <1>3, <1>4 DEF NormalizeRel, q, r
<1> QED
  BY <1>1, <1>5 DEF Refused

\* A path of real names that has nothing to strip is refused only for a first name
\* like a drive.
LEMMA RelativeKeeps ==
  ASSUME NEW p \in Seq(Parts), p # <<>>, AllEnter(p), Plain(p) = p
  PROVE  NormalizeRel(p) = IF LooksLikeWindowsAbsolute(p) THEN Refused ELSE p
<1>1. NormPath(p) = p
  BY Normal
<1>2. Head(p) = p[1] /\ 1 \in DOMAIN p
  OBVIOUS
<1>3. Head(p) # DotDot /\ Head(p) # Empty
  BY <1>2 DEF AllEnter, Enters
<1>4. p # <<Empty>>
  <2>1. Head(<<Empty>>) = Empty
    OBVIOUS
  <2> QED
    BY <1>3, <2>1
<1> QED
  BY <1>1, <1>3, <1>4 DEF NormalizeRel, IsAbsolute

\* What is let through as inside the prefix leads, without its blanks, to a place
\* below it.
LEMMA WithinIs ==
  ASSUME NEW p \in Seq(Parts), NEW pre, AssertWithinPrefix(p, pre) # Refused
  PROVE  /\ NeverLeaves(Trim(p)) /\ AssertWithinPrefix(p, pre) = Place(Trim(p))
         /\ AssertWithinPrefix(p, pre) \in Seq(Parts)
         /\ IsStrictPrefix(ValidatePrefix(pre), Place(Trim(p)))
<1> DEFINE r == Trim(p)
           c == NormPath(r)
<1>0. r \in Seq(Parts)
  BY PlainIs
<1> HIDE DEF r
<1>1. NormPath(LStrip(r)) = c
  BY <1>0, LStripKeeps
<1> HIDE DEF c
<1>2. /\ AssertWithinPrefix(p, pre) = c /\ c # <<>>
      /\ \A i \in DOMAIN c : ~StartsWithDots(c[i], 2)
      /\ IsStrictPrefix(ValidatePrefix(pre), c)
  BY <1>1 DEF AssertWithinPrefix, Refused, r
<1>3. c \in Seq(Parts)
  BY <1>0, NormPathParts DEF c
<1>4. NeverLeaves(r)
  <2>1. Head(c) = c[1] /\ 1 \in DOMAIN c
    BY <1>2, <1>3
  <2>2. StartsWithDots(DotDot, 2)
    BY Nameless DEF StartsWithDots
  <2>3. Head(c) # DotDot
    BY <1>2, <2>1, <2>2
  <2> QED
    BY <1>0, <2>3, NormPathIs DEF c
<1>5. c = Place(r)
  BY <1>0, <1>4, NormPathIs DEF c
<1> QED
  BY <1>2, <1>3, <1>4, <1>5 DEF r

\* A name below a path, the two of them of real names.
LEMMA Joined ==
  ASSUME NEW A, NEW B, NEW p \in Seq(A), NEW q \in Seq(B), p # <<>>, q # <<>>, AllEnter(p), AllEnter(q)
  PROVE  /\ p \o q \in Seq(A \cup B) /\ p \o q # <<>> /\ AllEnter(p \o q)
         /\ IsStrictPrefix(p, p \o q)
         /\ SubSeq(p \o q, Len(p) + 1, Len(p \o q)) = q
<1> DEFINE w == p \o q
           m == Len(p)
           n == Len(q)
<1>1. /\ m \in Nat \ {0} /\ n \in Nat \ {0} /\ DOMAIN p = 1..m /\ DOMAIN q = 1..n
      /\ \A i \in 1..m : p[i] \in A
      /\ \A i \in 1..n : q[i] \in B
  OBVIOUS
<1>2. Len(w) = m + n /\ w = [i \in 1..(m + n) |-> IF i =< m THEN p[i] ELSE q[i - m]]
  <2>1. Seq(A) \subseteq Seq(A \cup B) /\ Seq(B) \subseteq Seq(A \cup B)
    OBVIOUS
  <2>2. p \in Seq(A \cup B) /\ q \in Seq(A \cup B)
    BY <2>1
  <2>3. /\ w \in Seq(A \cup B) /\ Len(w) = m + n
        /\ \A i \in 1..(m + n) : w[i] = IF i =< m THEN p[i] ELSE q[i - m]
    BY <2>2, ConcatProperties, Zenon
  <2> HIDE DEF w, m, n
  <2>4. w = [i \in 1..(m + n) |-> w[i]]
    BY <2>3
  <2> QED
    BY <2>3, <2>4
<1> HIDE DEF w, m, n
<1>3. \A i \in 1..(m + n) : /\ i =< m => i \in 1..m /\ w[i] = p[i]
                            /\ ~(i =< m) => i - m \in 1..n /\ w[i] = q[i - m]
  BY <1>1, <1>2
<1>4. w \in Seq(A \cup B)
  <2>1. w \in [1..(m + n) -> A \cup B]
    BY <1>1, <1>2, <1>3
  <2> QED
    BY <1>1, <2>1
<1>5. AllEnter(w)
  BY <1>1, <1>2, <1>3 DEF AllEnter, Enters
<1>6. IsStrictPrefix(p, w)
  <2>1. SubSeq(w, 1, m) = [i \in 1..m |-> w[i]]
    BY <1>1, <1>2, <1>4
  <2>2. SubSeq(p, 1, m) = [i \in 1..m |-> p[i]]
    BY <1>1 DEF m
  <2>3. \A i \in 1..m : w[i] = p[i]
    BY <1>1, <1>3
  <2>4. SubSeq(p, 1, m) = SubSeq(w, 1, m)
    BY <2>1, <2>2, <2>3
  <2>5. m =< Len(w) /\ m # Len(w)
    BY <1>1, <1>2
  <2> QED
    BY <2>4, <2>5 DEF IsStrictPrefix, IsPrefix, m
<1>7. SubSeq(w, m + 1, m + n) = q
  <2>1. SubSeq(w, m + 1, m + n) = [i \in 1..n |-> w[m + i]]
    <3> DEFINE a == m + 1
               b == m + n
    <3>1. SubSeq(w, a, b) = [i \in 1..(b - a + 1) |-> w[a + i - 1]]
      BY <1>1, <1>2, <1>4
    <3>2. b - a + 1 = n /\ \A i \in 1..n : a + i - 1 = m + i
      BY <1>1
    <3> HIDE DEF a, b
    <3>3. SubSeq(w, a, b) = [i \in 1..n |-> w[a + i - 1]]
      BY <3>1, <3>2
    <3>4. SubSeq(w, a, b) = [i \in 1..n |-> w[m + i]]
      BY <3>2, <3>3
    <3> QED
      BY <3>4 DEF a, b
  <2>2. \A i \in 1..n : w[m + i] = q[i]
    <3> TAKE i \in 1..n
    <3> DEFINE j == m + i
    <3>1. j \in 1..(m + n) /\ ~(j =< m) /\ j - m = i
      BY <1>1
    <3> HIDE DEF j
    <3>2. w[j] = q[i]
      BY <1>3, <3>1
    <3> QED
      BY <3>2 DEF j
  <2>3. q = [i \in 1..n |-> q[i]]
    BY <1>1
  <2> QED
    BY <2>1, <2>2, <2>3
<1>8. w # <<>>
  BY <1>1, <1>2
<1> QED
  BY <1>2, <1>4, <1>5, <1>6, <1>7, <1>8 DEF w, m, n

\* A name below a prefix without marks has nothing to strip if the name has not.
LEMMA TrimBelow ==
  ASSUME NEW p \in Seq(Parts), NEW q \in Seq(Parts), p # <<>>, q # <<>>,
         \A i \in DOMAIN p : p[i].marks = {}, Trim(q) = q
  PROVE  Trim(p \o q) = p \o q
<1> DEFINE w == p \o q
           m == Len(p)
           n == Len(q)
<1>1. m \in Nat \ {0} /\ n \in Nat \ {0} /\ DOMAIN p = 1..m
  OBVIOUS
<1>2. /\ w \in Seq(Parts) /\ Len(w) = m + n
      /\ \A i \in 1..(m + n) : w[i] = IF i =< m THEN p[i] ELSE q[i - m]
  BY ConcatProperties, Zenon
<1>3. \A j \in 1..n : q[j].marks \cap AtEnd(q, j) = {}
  BY PlainIs
<1>4. \A j \in 1..n : AtEnd(q, j) = (IF j = 1 THEN {"before", "blank"} ELSE {}) \cup (IF j = n THEN {"after", "blank"} ELSE {})
  BY DEF AtEnd
<1> HIDE DEF w, m, n
<1>5. ASSUME NEW i \in 1..(m + n) PROVE w[i].marks \cap AtEnd(w, i) = {}
  <2>1. CASE i =< m
    BY <1>1, <1>2, <2>1
  <2>2. CASE ~(i =< m)
    <3> DEFINE j == i - m
    <3>1. j \in 1..n /\ w[i] = q[j] /\ i # 1 /\ (i = m + n <=> j = n)
      BY <1>1, <1>2, <2>2
    <3>2. AtEnd(w, i) = IF i = m + n THEN {"after", "blank"} ELSE {}
      BY <1>2, <3>1 DEF AtEnd
    <3> HIDE DEF j
    <3>3. AtEnd(w, i) \subseteq AtEnd(q, j)
      BY <1>4, <3>1, <3>2
    <3> QED
      BY <1>3, <3>1, <3>3
  <2> QED
    BY <2>1, <2>2
<1>6. Trim(w) = w
  BY <1>2, <1>5, PlainIs
<1> QED
  BY <1>6 DEF w

\* A name below a validated prefix is inside it, unless it begins with two dots.
LEMMA WithinBelow ==
  ASSUME NEW pre \in Seq(Parts), NEW q \in Seq(Parts), pre # <<>>, q # <<>>,
         ValidatePrefix(pre) = pre, \A i \in DOMAIN pre : pre[i].marks = {}, AllEnter(q), Trim(q) = q
  PROVE  /\ AllEnter(pre) /\ AllEnter(pre \o q) /\ pre \o q # <<>> /\ pre \o q \in Seq(Parts)
         /\ IsStrictPrefix(pre, pre \o q)
         /\ SubSeq(pre \o q, Len(pre) + 1, Len(pre \o q)) = q
         /\ IF \E i \in DOMAIN q : StartsWithDots(q[i], 2) THEN AssertWithinPrefix(pre \o q, pre) = Refused
            ELSE AssertWithinPrefix(pre \o q, pre) = pre \o q
<1> DEFINE w == pre \o q
<1>1. AllEnter(pre) /\ \A i \in DOMAIN pre : ~StartsWithDots(pre[i], 1)
  <2>1. \A i \in DOMAIN pre : Plain(pre)[i].marks = {}
    BY Unmarked
  <2> QED
    BY <2>1, PrefixIs DEF Refused
<1>2. /\ AllEnter(w) /\ w # <<>> /\ w \in Seq(Parts)
      /\ IsStrictPrefix(pre, w)
      /\ SubSeq(w, Len(pre) + 1, Len(w)) = q
  <2>1. Parts \cup Parts = Parts
    OBVIOUS
  <2> QED
    BY <1>1, <2>1, Joined
<1>3. (\E i \in DOMAIN w : StartsWithDots(w[i], 2)) <=> \E i \in DOMAIN q : StartsWithDots(q[i], 2)
  <2> DEFINE m == Len(pre)
             n == Len(q)
  <2>1. m \in Nat /\ n \in Nat /\ DOMAIN pre = 1..m /\ DOMAIN q = 1..n
    OBVIOUS
  <2>2. DOMAIN w = 1..(m + n) /\ \A i \in 1..(m + n) : w[i] = IF i =< m THEN pre[i] ELSE q[i - m]
    <3>1. pre \in Seq(Parts) /\ q \in Seq(Parts)
      OBVIOUS
    <3>3. /\ w \in Seq(Parts) /\ Len(w) = m + n
          /\ \A i \in 1..(m + n) : w[i] = IF i =< m THEN pre[i] ELSE q[i - m]
      BY <3>1, ConcatProperties, Zenon
    <3> HIDE DEF w, m, n
    <3> QED
      BY <3>3
  <2> HIDE DEF w, m, n
  <2>3. ASSUME NEW i \in DOMAIN w, StartsWithDots(w[i], 2) PROVE \E j \in DOMAIN q : StartsWithDots(q[j], 2)
    <3>1. CASE i =< m
      <4>1. i \in DOMAIN pre /\ w[i] = pre[i]
        BY <2>1, <2>2, <3>1
      <4>2. ~StartsWithDots(pre[i], 1) /\ StartsWithDots(pre[i], 2)
        BY <1>1, <2>3, <4>1
      <4>3. pre[i].dots \in Nat
        BY <4>1, PartIs
      <4> QED
        BY <4>2, <4>3 DEF StartsWithDots
    <3>2. CASE ~(i =< m)
      <4>1. i - m \in DOMAIN q /\ w[i] = q[i - m]
        BY <2>1, <2>2, <3>2
      <4> QED
        BY <2>3, <4>1
    <3> QED
      BY <3>1, <3>2
  <2>4. ASSUME NEW i \in DOMAIN q, StartsWithDots(q[i], 2) PROVE \E j \in DOMAIN w : StartsWithDots(w[j], 2)
    <3> DEFINE j == m + i
    <3>1. j \in DOMAIN w /\ ~(j =< m) /\ j - m = i
      BY <2>1, <2>2
    <3> HIDE DEF j
    <3>2. w[j] = q[i]
      BY <2>2, <3>1
    <3> QED
      BY <2>4, <3>1, <3>2
  <2> QED
    BY <2>3, <2>4
<1>4. NormPath(LStrip(Trim(w))) = w
  <2>1. Trim(w) = w
    BY TrimBelow
  <2>2. NormPath(LStrip(w)) = w
    BY <1>2, LStripKeeps, Normal
  <2> QED
    BY <2>1, <2>2
<1> HIDE DEF w
<1>5. IF \E i \in DOMAIN q : StartsWithDots(q[i], 2) THEN AssertWithinPrefix(w, pre) = Refused
      ELSE AssertWithinPrefix(w, pre) = w
  BY <1>2, <1>3, <1>4 DEF AssertWithinPrefix
<1> QED
  BY <1>1, <1>2, <1>5 DEF w

-----------------------------------------------------------------------------
(* The aliases of dotfiles.                                                *)

\* An alias is no dotfile, and it gives back the segment it is made for.
LEMMA SegmentBack ==
  ASSUME NEW s \in Parts, s \notin {Empty, Dot, DotDot}
  PROVE  /\ EncodeSegment(s) \in Parts /\ EncodeSegment(s).marks = s.marks
         /\ ~StartsWithDots(EncodeSegment(s), 1) /\ EncodeSegment(s) \notin {Empty, Dot, DotDot}
         /\ ~s.alias => DecodeSegment(EncodeSegment(s)) = s /\ DecodeSegment(s) = s
<1>1. CASE StartsWithDots(s, 1)
  <2>1. /\ ~s.alias /\ "before" \notin s.marks /\ s = Segment(s.dots, s.name, s.marks)
        /\ s.dots \in Nat /\ s.name \in PartNames /\ s.marks \in SUBSET Marks
    BY <1>1, PartIs DEF StartsWithDots
  <2> DEFINE e == Alias(s.dots, 0, s.name, s.marks)
  <2>2. EncodeSegment(s) = e
    BY <1>1 DEF EncodeSegment
  <2>3. e.alias /\ e.k = s.dots /\ e.dots = 0 /\ e.name = s.name /\ e.marks = s.marks
    BY DEF Alias
  <2>4. e \in Parts
    BY <2>1 DEF Parts
  <2> HIDE DEF e
  <2>5. ~StartsWithDots(e, 1) /\ e \notin {Empty, Dot, DotDot}
    BY <2>3, Nameless DEF StartsWithDots
  <2>6. DecodeSegment(e) = Segment(s.dots + 0, s.name, s.marks)
    BY <2>1, <2>3 DEF DecodeSegment
  <2>7. s.dots + 0 = s.dots
    BY <2>1
  <2>8. DecodeSegment(s) = s
    BY <2>1 DEF DecodeSegment
  <2> QED
    BY <2>1, <2>2, <2>3, <2>4, <2>5, <2>6, <2>7, <2>8
<1>2. CASE ~StartsWithDots(s, 1)
  BY <1>2 DEF EncodeSegment, DecodeSegment
<1> QED
  BY <1>1, <1>2

\* What an alias stands for is a part.
LEMMA DecodedIs == ASSUME NEW s \in Parts PROVE DecodeSegment(s) \in Parts
<1>1. s.k \in Nat /\ s.dots \in Nat /\ s.name \in PartNames /\ s.marks \in SUBSET Marks
  BY PartIs
<1>2. s.k + s.dots \in Nat
  BY <1>1
<1>3. Segment(s.k + s.dots, s.name, s.marks) \in Parts
  BY <1>1, <1>2 DEF Parts
<1> QED
  BY <1>3 DEF DecodeSegment

\* A path of real names has no empty segment to leave out.
LEMMA NoneEmpty ==
  ASSUME NEW A, NEW p \in Seq(A), AllEnter(p)
  PROVE  NotEmpty(p) = p
<1>1. {i \in DOMAIN p : p[i] # Empty} = 1..Len(p)
  BY DEF AllEnter, Enters
<1>2. Picked(p, 1..Len(p)) = p
  BY PickedAll
<1> QED
  BY <1>1, <1>2 DEF NotEmpty

\* A protected path has no dotfile in it, and without an alias of its own it comes
\* back from the server as it was (encode_protected and decode_protected).
THEOREM AliasComesBack ==
  ASSUME NEW p \in Seq(Parts), AllEnter(p)
  PROVE  /\ EncodeProtected(p) \in Seq(Parts)
         /\ AllEnter(EncodeProtected(p)) /\ ~IsHidden(EncodeProtected(p))
         /\ p # <<>> => EncodeProtected(p) # <<>>
         /\ Plain(p) = p => Plain(EncodeProtected(p)) = EncodeProtected(p)
         /\ (\A i \in DOMAIN p : ~p[i].alias) => DecodeProtected(EncodeProtected(p)) = p /\ DecodeProtected(p) = p
<1> DEFINE n == Len(p)
           e == EncodeProtected(p)
<1>1. n \in Nat /\ DOMAIN p = 1..n /\ p = [i \in 1..n |-> p[i]] /\ \A i \in 1..n : p[i] \in Parts
  OBVIOUS
<1>2. e = [i \in 1..n |-> EncodeSegment(p[i])]
  BY NoneEmpty DEF EncodeProtected
<1>3. DecodeProtected(p) = [i \in 1..n |-> DecodeSegment(p[i])]
  BY NoneEmpty DEF DecodeProtected
<1>4. p # <<>> => n # 0
  OBVIOUS
<1> HIDE DEF n, e
<1>5. \A i \in 1..n : p[i] \notin {Empty, Dot, DotDot}
  BY <1>1 DEF AllEnter, Enters
<1>6. e \in Seq(Parts) /\ Len(e) = n
  <2>1. e \in [1..n -> Parts]
    BY <1>1, <1>2, <1>5, SegmentBack
  <2> QED
    BY <1>1, <2>1
<1>7. AllEnter(e) /\ ~IsHidden(e)
  BY <1>1, <1>2, <1>5, SegmentBack DEF AllEnter, Enters, IsHidden
<1>8. p # <<>> => e # <<>>
  BY <1>1, <1>4, <1>6
<1>9. ASSUME \A i \in DOMAIN p : ~p[i].alias
      PROVE  DecodeProtected(e) = p /\ DecodeProtected(p) = p
  <2>1. DecodeProtected(e) = [i \in 1..n |-> DecodeSegment(e[i])]
    <3>1. NotEmpty(e) = e
      BY <1>6, <1>7, NoneEmpty
    <3>2. DOMAIN e = 1..n
      BY <1>2
    <3> QED
      BY <3>1, <3>2 DEF DecodeProtected
  <2>2. \A i \in 1..n : DecodeSegment(e[i]) = p[i] /\ DecodeSegment(p[i]) = p[i]
    BY <1>1, <1>2, <1>5, <1>9, SegmentBack
  <2> QED
    BY <1>1, <1>3, <2>1, <2>2
<1>10. ASSUME Plain(p) = p PROVE Plain(e) = e
  <2>1. \A i \in 1..n : p[i].marks \cap ({"nfd"} \cup AtEnd(p, i)) = {}
    BY <1>10, PlainIs DEF n
  <2>2. \A i \in 1..n : e[i].marks = p[i].marks /\ AtEnd(e, i) = AtEnd(p, i)
    BY <1>1, <1>2, <1>5, <1>6, SegmentBack DEF AtEnd, n
  <2>3. \A i \in 1..Len(e) : e[i].marks \cap ({"nfd"} \cup AtEnd(e, i)) = {}
    BY <1>6, <2>1, <2>2
  <2> QED
    BY <1>6, <2>3, PlainIs
<1> QED
  BY <1>6, <1>7, <1>8, <1>9, <1>10 DEF e

-----------------------------------------------------------------------------
(* What pull writes, and the keys of the remote scan.                      *)

\* What is let through as a place in the tree begins with a name of the tree and
\* never leaves it; for a path of real names that has nothing to strip it is that path,
\* but for a symlink.
LEMMA WrittenIs ==
  ASSUME NEW p \in Seq(Parts), SafeLocalDest(p) # Refused
  PROVE  /\ Enters(SafeLocalDest(p), 1) /\ NeverLeaves(SafeLocalDest(p))
         /\ (p # <<>> /\ AllEnter(p) /\ Plain(p) = p) => SafeLocalDest(p) = p \/ IsOneOf(Head(p), Links)
<1> DEFINE name == LStrip(p)
           q == NormalizeRel(name)
           d == Resolve(q)
<1>1. name \in Seq(Parts)
  <2>1. Parts \cup {Empty} = Parts
    BY SegmentsAreParts
  <2> QED
    BY <2>1, LStripKeeps
<1>2. q # Refused /\ Head(d) # DotDot /\ SafeLocalDest(p) = d
  BY DEF SafeLocalDest
<1> HIDE DEF name
<1>3. q \in Seq(Parts) /\ AllEnter(q)
  BY <1>1, <1>2, RelativeIs
<1> HIDE DEF q
<1>4. q # <<>> /\ Head(q) = q[1] /\ 1 \in DOMAIN q
  BY <1>2, <1>3 DEF Refused
<1>5. \/ d = q
      \/ d = <<Segment(0, "in", {})>> \o Tail(q) /\ IsOneOf(Head(q), Links)
  <2>1. Head(<<DotDot>>) = DotDot
    OBVIOUS
  <2> QED
    BY <1>2, <2>1 DEF Resolve
<1>6. ASSUME d = q PROVE Enters(SafeLocalDest(p), 1) /\ NeverLeaves(SafeLocalDest(p))
  <2>1. Enters(q, 1) /\ NeverLeaves(q)
    BY <1>3, <1>4, Normal DEF AllEnter
  <2>2. SafeLocalDest(p) = q
    BY <1>2, <1>6, Zenon
  <2> QED
    BY <2>1, <2>2, Zenon
<1>7. ASSUME d = <<Segment(0, "in", {})>> \o Tail(q)
      PROVE Enters(SafeLocalDest(p), 1) /\ NeverLeaves(SafeLocalDest(p))
  <2> DEFINE x == Segment(0, "in", {})
             C == Parts \cup {x}
             t == Tail(q)
             w == <<x>> \o t
  <2>1. x \notin {Empty, Dot, DotDot}
    <3>1. "in" # NoName
      BY Zenon DEF NoName
    <3> QED
      BY <3>1 DEF Segment, Empty, Dot, DotDot
  <2>2. t \in Seq(Parts) /\ Len(t) = Len(q) - 1 /\ \A i \in 1..Len(t) : t[i] = q[i + 1] /\ i + 1 \in DOMAIN q
    BY <1>3, <1>4
  <2> HIDE DEF x, t
  <2>3. <<x>> \in Seq(C) /\ t \in Seq(C) /\ Len(<<x>>) = 1 /\ <<x>>[1] = x
    <3>1. Seq(Parts) \subseteq Seq(C)
      OBVIOUS
    <3> QED
      BY <2>2, <3>1
  <2> HIDE DEF C
  <2>4. /\ w \in Seq(C) /\ Len(w) = Len(<<x>>) + Len(t)
        /\ \A i \in 1..(Len(<<x>>) + Len(t)) : w[i] = IF i <= Len(<<x>>) THEN <<x>>[i] ELSE t[i - Len(<<x>>)]
    BY <2>3, ConcatProperties, Zenon
  <2> HIDE DEF w
  <2>5. ASSUME NEW i \in DOMAIN w PROVE Enters(w, i)
    <3>1. i \in 1..(1 + Len(t)) /\ Len(t) \in Nat
      BY <2>2, <2>3, <2>4
    <3>2. CASE i = 1
      <4>1. w[1] = x
        BY <2>3, <2>4, <3>1, <3>2
      <4> QED
        BY <2>1, <3>2, <4>1 DEF Enters
    <3>3. CASE i # 1
      <4> DEFINE j == i - 1
      <4>1. j \in 1..Len(t) /\ ~(i =< 1)
        BY <3>1, <3>3
      <4>2. w[i] = t[j]
        BY <2>3, <2>4, <3>1, <4>1
      <4>3. t[j] = q[j + 1] /\ j + 1 \in DOMAIN q
        BY <2>2, <4>1
      <4> HIDE DEF j
      <4> QED
        BY <1>3, <4>2, <4>3 DEF AllEnter, Enters
    <3> QED
      BY <3>2, <3>3
  <2>6. 1 \in DOMAIN w
    <3>1. Len(t) \in Nat
      BY <2>2
    <3> QED
      BY <2>3, <2>4, <3>1
  <2>7. Enters(w, 1) /\ NeverLeaves(w)
    <3>1. AllEnter(w)
      BY <2>5 DEF AllEnter
    <3> QED
      BY <2>4, <2>5, <2>6, <3>1, Normal
  <2>8. d = w
    BY <1>7, Zenon DEF w, x, t
  <2>9. SafeLocalDest(p) = w
    BY <1>2, <2>8, Zenon
  <2> QED
    BY <2>7, <2>9, Zenon
<1>8. ASSUME p # <<>>, AllEnter(p), Plain(p) = p PROVE d = p \/ IsOneOf(Head(p), Links)
  <2>1. p[1] # Empty
    BY <1>8 DEF AllEnter, Enters
  <2>2. name = p
    BY <1>8, <2>1, LStripKeeps DEF name
  <2>3. q = p
    BY <1>2, <1>8, <2>2, RelativeKeeps DEF q
  <2> QED
    BY <1>5, <2>3
<1> HIDE DEF d
<1> QED
  BY <1>2, <1>5, <1>6, <1>7, <1>8

\* An entry that gets a key is inside the prefix, and its key is a path of real names.
LEMMA KeyIs ==
  ASSUME NEW p \in Seq(Parts), prefix \in Seq(Parts), Key(p) # Refused
  PROVE  /\ AssertWithinPrefix(p, prefix) # Refused
         /\ Key(p) # <<>> /\ AllEnter(Key(p)) /\ Key(p) \in Seq(Parts)
<1> DEFINE c == AssertWithinPrefix(p, prefix)
           r == SubSeq(c, Len(prefix) + 1, Len(c))
           q == NormalizeRel(r)
           d == DecodeProtected(q)
<1>1. c # Refused /\ q # Refused /\ Key(p) = NormalizeRel(d)
  BY DEF Key
<1>2. c \in Seq(Parts)
  BY <1>1, WithinIs
<1> HIDE DEF c
<1>3. r \in Seq(Parts)
  <2>1. Len(prefix) + 1 \in Nat \ {0} /\ Len(c) \in Nat
    BY <1>2
  <2>2. \A i \in (Len(prefix) + 1)..Len(c) : c[i] \in Parts
    BY <1>2, <2>1
  <2> DEFINE a == Len(prefix) + 1
             b == Len(c)
  <2> HIDE DEF a, b
  <2>3. a \in Nat \ {0} /\ b \in Nat /\ \A i \in a..b : c[i] \in Parts
    BY <2>1, <2>2 DEF a, b
  <2>4. SubSeq(c, a, b) \in Seq(Parts)
    BY <1>2, <2>3, SubSeqProperties
  <2> QED
    BY <2>4 DEF a, b
<1> HIDE DEF r
<1>4. q \in Seq(Parts) /\ AllEnter(q)
  BY <1>1, <1>3, RelativeIs
<1> HIDE DEF q
<1>5. d \in Seq(Parts)
  <2>1. d = [i \in DOMAIN q |-> DecodeSegment(q[i])]
    BY <1>4, NoneEmpty DEF DecodeProtected
  <2>2. Len(q) \in Nat /\ DOMAIN q = 1..Len(q) /\ \A i \in 1..Len(q) : q[i] \in Parts
    BY <1>4
  <2>3. d \in [1..Len(q) -> Parts]
    BY <2>1, <2>2, DecodedIs
  <2> HIDE DEF d
  <2> QED
    BY <2>2, <2>3
<1> HIDE DEF d
<1>6. NormalizeRel(d) \in Seq(Parts) /\ AllEnter(NormalizeRel(d))
  BY <1>1, <1>5, RelativeIs
<1> QED
  BY <1>1, <1>6 DEF c, Refused

\* The key of what was composed below the prefix is what its aliases stand for.
LEMMA KeyBelow ==
  ASSUME NEW q \in Seq(Parts), q # <<>>, AllEnter(q), Trim(q) = q, NormalizeRel(q) = q, ~IsHidden(q),
         prefix \in Seq(Parts), prefix # <<>>, ValidatePrefix(prefix) = prefix,
         \A i \in DOMAIN prefix : prefix[i].marks = {},
         AssertWithinPrefix(prefix \o q, prefix) # Refused
  PROVE  Key(prefix \o q) = NormalizeRel(DecodeProtected(q))
<1> DEFINE w == prefix \o q
<1>1. AssertWithinPrefix(w, prefix) = w /\ SubSeq(w, Len(prefix) + 1, Len(w)) = q
  BY WithinBelow
<1>2. AssertWithinPrefix(w, prefix) # Refused
  OBVIOUS
<1> HIDE DEF w
<1>3. q # Refused
  BY DEF Refused
<1>4. Key(w) = NormalizeRel(DecodeProtected(q))
  BY <1>1, <1>2, <1>3 DEF Key
<1> QED
  BY <1>4 DEF w

-----------------------------------------------------------------------------
(* The inductive invariant: where a name is on its way, and what it is      *)
(* there.                                                                  *)

\* The name that normalize_rel gives, what of it is put below the prefix, and what
\* remote_path_for makes of that.
Typed == Plain(given.path)
Named == NormalizeRel(given.path)
Composed == IF given.protect THEN EncodeProtected(Named) ELSE Named
Rel == NormalizeRel(Composed)

\* A way begins with a prefix and a path of segments; a tree has only real names.
GivenInv ==
    /\ given.prefix \in GivenPrefixes
    /\ given.path \in Seq(Parts) /\ given.path # <<>>
    /\ given.from \in {"tree", "user", "listing"}
    /\ given.protect \in BOOLEAN /\ given.back \in BOOLEAN
    /\ given.protect => given.from = "tree"
    /\ given.from = "tree" /\ ~given.back => AllEnter(given.path)

\* The prefix is the validated one as soon as there is one.
PrefixInv ==
    IF step \in {"begin", "badPrefix"} THEN prefix = <<>> /\ wire = <<>>
    ELSE prefix # <<>> /\ prefix = ValidatePrefix(given.prefix)

\* What is composed is let through, and can be told from a dotfile.
OnItsWay ==
    /\ Named # Refused /\ Rel # Refused
    /\ given.from = "tree" => ~IsHidden(Composed)

\* Where the way can be, and what the name is there.
StepInv ==
    /\ step \in {"begin", "badPrefix", "named", "rel", "skipped", "missing", "composed", "sent", "listed",
                 "key", "written", "refused"}
    /\ step \in {"begin", "named"} => path = given.path
    /\ step \in {"named", "rel", "composed"} => given.from # "listing" /\ wire = <<>>
    /\ step \in {"listed", "key", "written"} => given.from # "user"
    /\ step = "rel" => Named # Refused /\ path = Named
    /\ step = "composed" => OnItsWay /\ path = prefix \o Rel
    /\ step = "sent" => wire # <<>> /\ path = wire
    /\ step = "listed" => IF given.from = "tree" THEN wire # <<>> /\ path = wire
                          ELSE wire = <<>> /\ path = given.path
    /\ step = "key" => AllEnter(path) /\ path # <<>> /\ path \in Seq(Parts)

\* What has been sent: the path composed, or the path listed.
WireInv ==
    wire # <<>> => /\ AssertWithinPrefix(wire, prefix) # Refused
                   /\ IF given.from = "listing" THEN wire = given.path ELSE OnItsWay /\ wire = prefix \o Rel

\* How the ways end.
RefusedForAReason ==
    \/ IsAbsolute(Typed) \/ LooksLikeWindowsAbsolute(Typed)
    \/ ~NeverLeaves(Typed) \/ Place(Typed) = <<>>
    \/ LooksLikeWindowsAbsolute(Place(Typed)) \/ Plain(Place(Typed)) # Place(Typed)
    \/ \E i \in DOMAIN Typed : StartsWithDots(Typed[i], 2)
EndInv ==
    /\ (given.from = "listing" /\ AsJudged /\ step \in {"key", "written"}) => StrictlyInside(given.path)
    /\ step = "written" => Enters(path, 1) /\ NeverLeaves(path)
    /\ (given.from = "user" /\ step = "refused") => RefusedForAReason

PathInv == GivenInv /\ PrefixInv /\ StepInv /\ WireInv /\ EndInv /\ SameNameBack

\* The prefix, as soon as there is one.
LEMMA PrefixFacts ==
  ASSUME GivenInv, PrefixInv, prefix # <<>>
  PROVE  /\ prefix \in Seq(Parts) /\ AllEnter(prefix) /\ ValidatePrefix(prefix) = prefix
         /\ \A i \in DOMAIN prefix : prefix[i].marks = {}
         /\ NeverLeaves(Plain(given.prefix)) /\ prefix = Place(Plain(given.prefix))
         /\ \A i \in DOMAIN prefix : ~IsOneOf(prefix[i], Shared)
<1>1. given.prefix \in Seq(Parts)
  <2>1. given.prefix \in Seq(Segments) /\ Segments \subseteq Parts
    BY SegmentAssumption, SegmentsAreParts DEF GivenInv
  <2> QED
    BY <2>1
<1>2. prefix = ValidatePrefix(given.prefix) /\ ValidatePrefix(given.prefix) # Refused
  BY DEF PrefixInv, Refused
<1>3. \A i \in DOMAIN given.prefix : Plain(given.prefix)[i].marks = {}
  BY PrefixAssumption DEF GivenInv
<1> QED
  BY <1>1, <1>2, <1>3, PrefixIs

\* What normalize_rel makes of the name, and what is composed from it.
LEMMA NameFacts ==
  ASSUME GivenInv, Named # Refused
  PROVE  /\ Named \in Seq(Parts) /\ Named # <<>> /\ AllEnter(Named) /\ Named = Place(Typed)
         /\ \A i \in DOMAIN Named : \E j \in DOMAIN Typed : Named[i] = Typed[j]
         /\ Composed \in Seq(Parts) /\ Composed # <<>> /\ AllEnter(Composed)
         /\ given.protect => ~IsHidden(Composed)
         /\ ~given.protect => Composed = Named
<1>1. given.path \in Seq(Parts) /\ given.path # <<>> /\ given.protect \in BOOLEAN
  BY DEF GivenInv
<1>2. /\ Named \in Seq(Parts) /\ Named # <<>> /\ AllEnter(Named) /\ Named = Place(Typed)
      /\ \A i \in DOMAIN Named : \E j \in DOMAIN Typed : Named[i] = Typed[j]
  BY <1>1, RelativeIs DEF Named, Typed
<1>3. CASE given.protect
  <2>1. /\ EncodeProtected(Named) \in Seq(Parts) /\ EncodeProtected(Named) # <<>>
        /\ AllEnter(EncodeProtected(Named)) /\ ~IsHidden(EncodeProtected(Named))
    BY <1>2, AliasComesBack
  <2>2. Composed = EncodeProtected(Named)
    BY <1>3 DEF Composed
  <2> QED
    BY <1>2, <1>3, <2>1, <2>2
<1>4. CASE ~given.protect
  <2>1. Composed = Named
    BY <1>4 DEF Composed
  <2> QED
    BY <1>2, <1>4, <2>1
<1> QED
  BY <1>3, <1>4

\* A file of the tree whose name has nothing to strip is sent under its own name.
LEMMA TreeFacts ==
  ASSUME GivenInv, Named # Refused, Rel # Refused,
         given.from = "tree", ~given.back, Plain(given.path) = given.path
  PROVE  Named = given.path /\ Plain(Composed) = Composed /\ Rel = Composed
<1>1. given.path \in Seq(Parts) /\ given.path # <<>> /\ AllEnter(given.path)
  BY DEF GivenInv
<1>2. Named = given.path
  BY <1>1, RelativeKeeps DEF Named
<1>3. Plain(Composed) = Composed
  BY <1>1, <1>2, AliasComesBack DEF Composed
<1>4. Composed \in Seq(Parts) /\ Composed # <<>> /\ AllEnter(Composed)
  BY NameFacts
<1>5. Rel = Composed
  BY <1>3, <1>4, RelativeKeeps DEF Rel
<1> QED
  BY <1>2, <1>3, <1>5

\* What remote_path_for puts below the prefix.
LEMMA RelFacts ==
  ASSUME GivenInv, OnItsWay, prefix # <<>>, prefix \in Seq(Parts), AllEnter(prefix)
  PROVE  /\ Rel \in Seq(Parts) /\ Rel # <<>> /\ AllEnter(Rel)
         /\ prefix \o Rel \in Seq(Parts) /\ prefix \o Rel # <<>> /\ AllEnter(prefix \o Rel)
         /\ IsStrictPrefix(prefix, prefix \o Rel)
<1>1. Composed \in Seq(Parts)
  BY NameFacts DEF OnItsWay
<1>2. Rel \in Seq(Parts) /\ Rel # <<>> /\ AllEnter(Rel)
  BY <1>1, RelativeIs DEF OnItsWay, Rel
<1>3. Parts \cup Parts = Parts
  OBVIOUS
<1> DEFINE r == Rel
<1>4. r \in Seq(Parts) /\ r # <<>> /\ AllEnter(r)
  BY <1>2
<1> HIDE DEF r
<1>5. prefix \o r \in Seq(Parts) /\ prefix \o r # <<>> /\ AllEnter(prefix \o r) /\ IsStrictPrefix(prefix, prefix \o r)
  BY <1>3, <1>4, Joined
<1> QED
  BY <1>2, <1>5 DEF r

\* What follows for the bounds.
LEMMA InvBounds ==
  ASSUME PathInv
  PROVE  AcceptedIffInside
<1> USE DEF PathInv
<1>1. ASSUME wire # <<>>, given.from = "listing" => AsJudged PROVE StrictlyInside(wire)
  <2>1. prefix # <<>>
    BY <1>1 DEF PrefixInv
  <2>2. prefix \in Seq(Parts) /\ AllEnter(prefix) /\ prefix = Place(Plain(given.prefix)) /\ ValidatePrefix(prefix) = prefix
    BY <2>1, PrefixFacts
  <2>3. CASE given.from = "listing"
    <3>1. wire = given.path /\ AssertWithinPrefix(wire, prefix) # Refused /\ Trim(wire) = wire
      BY <1>1, <2>3 DEF WireInv, AsJudged
    <3>2. wire \in Seq(Parts)
      BY <3>1 DEF GivenInv
    <3>3. NeverLeaves(wire) /\ IsStrictPrefix(prefix, Place(wire))
      BY <2>2, <3>1, <3>2, WithinIs
    <3> QED
      BY <2>2, <3>3 DEF StrictlyInside
  <2>4. CASE given.from # "listing"
    <3>1. OnItsWay /\ wire = prefix \o Rel
      BY <1>1, <2>4 DEF WireInv
    <3>2. wire \in Seq(Parts) /\ AllEnter(wire) /\ IsStrictPrefix(prefix, wire)
      BY <2>1, <2>2, <3>1, RelFacts
    <3>3. NeverLeaves(wire) /\ Place(wire) = wire
      BY <3>2, Normal
    <3> QED
      BY <2>2, <3>2, <3>3 DEF StrictlyInside
  <2> QED
    BY <2>3, <2>4
<1>2. step = "sent" => wire = path
  BY DEF StepInv
<1>3. prefix # <<>> => /\ NeverLeaves(Plain(given.prefix)) /\ prefix = Place(Plain(given.prefix))
                       /\ \A i \in DOMAIN prefix : ~IsOneOf(prefix[i], Shared)
  BY PrefixFacts
<1> QED
  BY <1>1, <1>2, <1>3 DEF AcceptedIffInside, EndInv, RefusedForAReason, Typed

-----------------------------------------------------------------------------
(* Each step keeps the invariant.                                          *)

\* A way begins in the invariant.
LEMMA InitInv == Init => PathInv
<1> SUFFICES ASSUME Init PROVE PathInv
  OBVIOUS
<1>1. PICK from \in {"tree", "user", "listing"}, back \in BOOLEAN, pre \in GivenPrefixes :
           given \in Begins(from, back, pre)
  BY DEF Init
<1>2. Paths \subseteq Seq(Parts) \ {<<>>}
  <2> SUFFICES ASSUME NEW n \in 1..MaxSegments, NEW p \in [1..n -> Segments] PROVE p \in Seq(Parts) \ {<<>>}
    BY DEF Paths
  <2>1. n \in Nat \ {0}
    BY SegmentAssumption
  <2>2. p \in [1..n -> Parts]
    BY SegmentsAreParts
  <2> QED
    BY <2>1, <2>2
<1>3. /\ given.prefix = pre /\ given.path \in PathsOf(from, back, pre)
      /\ given.from = from /\ given.back = back /\ given.protect \in ProtectOf(from)
  BY <1>1 DEF Begins
<1>4. given.path \in Seq(Parts) \ {<<>>} /\ (from = "tree" /\ ~back => AllEnter(given.path))
  <2>1. ASSUME NEW r \in Paths PROVE pre \o r \in Seq(Parts) \ {<<>>}
    <3>1. pre \in Seq(Parts) /\ pre # <<>> /\ r \in Seq(Parts) /\ r # <<>>
      <4>1. pre \in Seq(Segments) /\ pre # <<>> /\ Segments \subseteq Parts
        BY SegmentAssumption, SegmentsAreParts
      <4>2. pre \in Seq(Parts)
        BY <4>1
      <4> QED
        BY <1>2, <4>1, <4>2
    <3>2. pre \o r \in Seq(Parts) /\ Len(pre \o r) = Len(pre) + Len(r)
      BY <3>1, ConcatProperties
    <3>3. Len(pre) \in Nat \ {0} /\ Len(r) \in Nat
      BY <3>1
    <3> QED
      BY <3>2, <3>3
  <2>2. CASE from = "tree"
    <3>1. given.path \in IF back THEN TwoOrMore ELSE FileNames
      BY <1>3, <2>2 DEF PathsOf
    <3> QED
      BY <1>2, <3>1 DEF TwoOrMore, FileNames, AllEnter, Enters
  <2>3. CASE from = "user"
    BY <1>2, <1>3, <2>3 DEF PathsOf
  <2>4. CASE from = "listing"
    <3>1. given.path \in (IF back THEN TwoOrMore ELSE Paths) \cup {pre \o p : p \in Paths}
      BY <1>3, <2>4 DEF PathsOf
    <3>2. given.path \in Paths \/ \E p \in Paths : given.path = pre \o p
      BY <3>1 DEF TwoOrMore
    <3> QED
      BY <1>2, <2>1, <2>4, <3>2
  <2> QED
    BY <2>2, <2>3, <2>4
<1>5. given.protect \in BOOLEAN /\ (given.protect => from = "tree")
  BY <1>3 DEF ProtectOf
<1>6. GivenInv
  BY <1>3, <1>4, <1>5 DEF GivenInv
<1> QED
  BY <1>6 DEF Init, PathInv, PrefixInv, StepInv, WireInv, EndInv, SameNameBack

\* The prefix is validated.
LEMMA ValidateKeeps ==
  ASSUME PathInv, Validate PROVE PathInv'
<1>1. given' = given /\ path' = path /\ wire' = wire /\ wire = <<>> /\ prefix = <<>> /\ path = given.path
  BY DEF Validate, PathInv, PrefixInv, StepInv
<1>2. GivenInv'
  BY <1>1 DEF PathInv, GivenInv
<1>3. \/ step' = "badPrefix" /\ prefix' = prefix
      \/ /\ step' = IF given.from = "listing" THEN "listed" ELSE "named"
         /\ prefix' = ValidatePrefix(given.prefix) /\ prefix' # <<>>
  BY DEF Validate, Refused
<1>4. given.from \in {"tree", "user", "listing"}
  BY DEF PathInv, GivenInv
<1>5. PrefixInv'
  BY <1>1, <1>3 DEF PrefixInv
<1>6. WireInv' /\ SameNameBack'
  BY <1>1 DEF WireInv, SameNameBack
<1>7. CASE step' = "badPrefix"
  BY <1>1, <1>2, <1>5, <1>6, <1>7 DEF PathInv, StepInv, EndInv
<1>8. CASE step' = "listed" /\ given.from = "listing"
  BY <1>1, <1>2, <1>5, <1>6, <1>8 DEF PathInv, StepInv, EndInv
<1>9. CASE step' = "named" /\ given.from # "listing"
  BY <1>1, <1>2, <1>5, <1>6, <1>9 DEF PathInv, StepInv, EndInv
<1> QED
  BY <1>3, <1>7, <1>8, <1>9

\* What stays while the prefix and what was given are the same.
LEMMA GivenStays ==
  ASSUME PathInv, UNCHANGED <<given, prefix>>, step \notin {"begin", "badPrefix"}, step' \notin {"begin", "badPrefix"}
  PROVE  /\ GivenInv' /\ PrefixInv' /\ Named' = Named /\ Composed' = Composed /\ Rel' = Rel /\ Typed' = Typed
         /\ (OnItsWay <=> OnItsWay') /\ (RefusedForAReason <=> RefusedForAReason')
         /\ prefix # <<>>
         /\ wire' = wire => WireInv'
<1>1. GivenInv' /\ PrefixInv' /\ prefix # <<>>
  BY DEF PathInv, GivenInv, PrefixInv
<1>2. Named' = Named /\ Composed' = Composed /\ Rel' = Rel /\ Typed' = Typed
  BY DEF Named, Composed, Rel, Typed
<1>3. (OnItsWay <=> OnItsWay') /\ (RefusedForAReason <=> RefusedForAReason')
  BY <1>2 DEF OnItsWay, RefusedForAReason
<1>4. wire' = wire => WireInv'
  BY <1>2, <1>3 DEF PathInv, WireInv
<1> QED
  BY <1>1, <1>2, <1>3, <1>4

\* The name is normalised.
LEMMA NameKeeps ==
  ASSUME PathInv, Name PROVE PathInv'
<1>1. /\ step = "named" /\ UNCHANGED <<given, prefix, wire>> /\ wire = <<>> /\ path = given.path
      /\ given.from # "listing"
  BY DEF Name, PathInv, StepInv
<1>2. \/ step' = "refused" /\ path' = path /\ NormalizeRel(path) = Refused
      \/ step' = "rel" /\ path' = NormalizeRel(path) /\ NormalizeRel(path) # Refused
  BY DEF Name, Goes
<1>3. /\ GivenInv' /\ PrefixInv' /\ Named' = Named /\ WireInv'
      /\ (RefusedForAReason <=> RefusedForAReason')
  BY <1>1, <1>2, GivenStays
<1>4. NormalizeRel(path) = Named
  BY <1>1 DEF Named
<1>5. SameNameBack'
  BY <1>1 DEF SameNameBack
<1>6. CASE step' = "refused"
  <2>1. given.path \in Seq(Parts) /\ given.path # <<>>
    BY DEF PathInv, GivenInv
  <2>2. \/ IsAbsolute(Typed) \/ LooksLikeWindowsAbsolute(Typed)
        \/ ~NeverLeaves(Typed) \/ Place(Typed) = <<>>
    BY <1>1, <1>2, <1>6, <2>1, RelativeRefused DEF Typed
  <2>3. RefusedForAReason
    BY <2>2 DEF RefusedForAReason
  <2>4. StepInv'
    BY <1>6 DEF StepInv
  <2>5. EndInv'
    BY <1>1, <1>3, <1>6, <2>3 DEF EndInv
  <2> QED
    BY <1>3, <1>5, <2>4, <2>5 DEF PathInv
<1>7. CASE step' = "rel" /\ path' = Named /\ Named # Refused
  <2>1. StepInv'
    BY <1>1, <1>3, <1>7 DEF StepInv
  <2>2. EndInv'
    BY <1>7 DEF EndInv
  <2> QED
    BY <1>3, <1>5, <2>1, <2>2 DEF PathInv
<1> QED
  BY <1>2, <1>4, <1>6, <1>7

\* The name is put below the prefix.
LEMMA ComposeKeeps ==
  ASSUME PathInv, Compose PROVE PathInv'
<1>1. /\ step = "rel" /\ UNCHANGED <<given, prefix, wire>> /\ wire = <<>> /\ path = Named
      /\ given.from # "listing" /\ Named # Refused
  BY DEF Compose, PathInv, StepInv
<1>2. GivenInv /\ given.from \in {"tree", "user", "listing"} /\ given.protect \in BOOLEAN
      /\ (given.protect => given.from = "tree")
  BY DEF PathInv, GivenInv
<1>3. Composed = IF given.protect THEN EncodeProtected(path) ELSE path
  BY <1>1 DEF Composed
<1>4. \/ step' \in {"skipped", "missing"} /\ path' = path
      \/ ~SkippedHidden /\ Goes("composed", RemotePathFor(prefix, Composed))
  BY <1>3 DEF Compose
<1>5. step' \in {"skipped", "missing", "refused", "composed"}
  BY <1>4 DEF Goes
<1>6. /\ GivenInv' /\ PrefixInv' /\ Named' = Named /\ Rel' = Rel /\ (OnItsWay <=> OnItsWay')
      /\ (RefusedForAReason <=> RefusedForAReason') /\ WireInv' /\ prefix # <<>>
  BY <1>1, <1>5, GivenStays
<1>7. SameNameBack'
  BY <1>1 DEF SameNameBack
<1>8. /\ Named \in Seq(Parts) /\ Named # <<>> /\ AllEnter(Named) /\ Named = Place(Typed)
      /\ Composed \in Seq(Parts) /\ Composed # <<>> /\ AllEnter(Composed)
      /\ given.protect => ~IsHidden(Composed)
      /\ ~given.protect => Composed = Named
  BY <1>1, <1>2, NameFacts
<1>9. CASE step' \in {"skipped", "missing"} /\ path' = path
  BY <1>1, <1>6, <1>7, <1>9 DEF PathInv, StepInv, EndInv
<1>10. CASE ~SkippedHidden /\ Goes("composed", RemotePathFor(prefix, Composed))
  <2>1. prefix \in Seq(Parts) /\ AllEnter(prefix) /\ ValidatePrefix(prefix) = prefix
    BY <1>6, PrefixFacts DEF PathInv
  <2>2. RemotePathFor(prefix, Composed) = IF Rel = Refused THEN Refused ELSE prefix \o Rel
    BY <1>6, <2>1 DEF RemotePathFor, Refused, Rel
  <2>3. CASE Rel = Refused
    <3>1. step' = "refused"
      BY <1>10, <2>2, <2>3 DEF Goes
    <3>2. given.from = "user" => RefusedForAReason
      <4> SUFFICES ASSUME given.from = "user", Plain(Place(Typed)) = Place(Typed)
                   PROVE  LooksLikeWindowsAbsolute(Place(Typed))
        BY DEF RefusedForAReason
      <4>1. Composed = Place(Typed)
        BY <1>2, <1>8
      <4>2. Plain(Composed) = Composed
        BY <4>1
      <4>3. Rel = IF LooksLikeWindowsAbsolute(Composed) THEN Refused ELSE Composed
        BY <1>8, <4>2, RelativeKeeps DEF Rel
      <4> QED
        BY <1>8, <2>3, <4>1, <4>3 DEF Refused
    <3>3. StepInv'
      BY <3>1 DEF StepInv
    <3>4. EndInv'
      BY <1>1, <1>6, <3>1, <3>2 DEF EndInv
    <3> QED
      BY <1>6, <1>7, <3>3, <3>4 DEF PathInv
  <2>4. CASE Rel # Refused
    <3>1. given.from = "tree" => ~IsHidden(Composed)
      BY <1>1, <1>2, <1>8, <1>10 DEF SkippedHidden
    <3>2. OnItsWay
      BY <1>1, <2>4, <3>1 DEF OnItsWay
    <3>3. prefix \o Rel # <<>>
      BY <1>2, <1>6, <2>1, <3>2, RelFacts
    <3>4. step' = "composed" /\ path' = prefix \o Rel
      BY <1>10, <2>2, <2>4, <3>3 DEF Goes, Refused
    <3>5. StepInv'
      BY <1>1, <1>6, <3>2, <3>4 DEF StepInv
    <3>6. EndInv'
      BY <3>4 DEF EndInv
    <3> QED
      BY <1>6, <1>7, <3>5, <3>6 DEF PathInv
  <2> QED
    BY <2>3, <2>4
<1> QED
  BY <1>4, <1>9, <1>10

\* The path is sent, or refused immediately before.
LEMMA SendKeeps ==
  ASSUME PathInv, Send PROVE PathInv'
<1>1. /\ step = "composed" /\ UNCHANGED <<given, prefix, path>> /\ wire = <<>>
      /\ given.from # "listing" /\ OnItsWay /\ path = prefix \o Rel /\ Named # Refused /\ Rel # Refused
  BY DEF Send, PathInv, StepInv, OnItsWay
<1>2. \/ AssertWithinPrefix(path, prefix) = Refused /\ step' = "refused" /\ wire' = wire
      \/ AssertWithinPrefix(path, prefix) # Refused /\ step' = "sent" /\ wire' = path
  BY DEF Send
<1>3. /\ GivenInv' /\ PrefixInv' /\ Rel' = Rel /\ (OnItsWay <=> OnItsWay')
      /\ (RefusedForAReason <=> RefusedForAReason')
      /\ wire' = wire => WireInv'
      /\ prefix # <<>>
  BY <1>1, <1>2, GivenStays
<1>4. /\ GivenInv /\ prefix \in Seq(Parts) /\ AllEnter(prefix) /\ ValidatePrefix(prefix) = prefix
      /\ \A i \in DOMAIN prefix : prefix[i].marks = {}
  BY <1>3, PrefixFacts DEF PathInv
<1>5. path # <<>>
  BY <1>1, <1>3, <1>4, RelFacts
<1>6. CASE AssertWithinPrefix(path, prefix) = Refused /\ step' = "refused" /\ wire' = wire
  <2>1. given.from = "user" => RefusedForAReason
    <3> SUFFICES ASSUME given.from = "user", Plain(Place(Typed)) = Place(Typed)
                 PROVE  \E i \in DOMAIN Typed : StartsWithDots(Typed[i], 2)
      BY DEF RefusedForAReason
    <3>1. /\ Named \in Seq(Parts) /\ Named # <<>> /\ AllEnter(Named) /\ Named = Place(Typed)
          /\ \A i \in DOMAIN Named : \E j \in DOMAIN Typed : Named[i] = Typed[j]
          /\ Composed = Named
      BY <1>1, <1>4, NameFacts DEF GivenInv
    <3>2. Plain(Named) = Named /\ Rel = Named
      BY <1>1, <3>1, RelativeKeeps DEF Rel
    <3> DEFINE q == Named
    <3>3. q \in Seq(Parts) /\ q # <<>> /\ AllEnter(q) /\ Trim(q) = q /\ AssertWithinPrefix(prefix \o q, prefix) = Refused
      BY <1>1, <1>6, <3>1, <3>2, PlainTrims
    <3> HIDE DEF q
    <3>4. \E i \in DOMAIN q : StartsWithDots(q[i], 2)
      BY <1>3, <1>4, <3>3, WithinBelow DEF Refused
    <3> QED
      BY <3>1, <3>4 DEF q
  <2>2. StepInv'
    BY <1>6 DEF StepInv
  <2>3. EndInv'
    BY <1>1, <1>3, <1>6, <2>1 DEF EndInv
  <2>4. SameNameBack'
    BY <1>1, <1>6 DEF SameNameBack
  <2> QED
    BY <1>3, <1>6, <2>2, <2>3, <2>4 DEF PathInv
<1>7. CASE AssertWithinPrefix(path, prefix) # Refused /\ step' = "sent" /\ wire' = path
  <2>1. WireInv'
    BY <1>1, <1>3, <1>7 DEF WireInv
  <2>2. StepInv'
    BY <1>1, <1>5, <1>7 DEF StepInv
  <2>3. EndInv' /\ SameNameBack'
    BY <1>7 DEF EndInv, SameNameBack
  <2> QED
    BY <1>3, <2>1, <2>2, <2>3 DEF PathInv
<1> QED
  BY <1>2, <1>6, <1>7

\* The server lists what has been sent.
LEMMA ListKeeps ==
  ASSUME PathInv, List PROVE PathInv'
<1>1. /\ step = "sent" /\ given.from = "tree" /\ step' = "listed" /\ UNCHANGED <<given, prefix, path, wire>>
      /\ wire # <<>> /\ path = wire
  BY DEF List, PathInv, StepInv
<1>2. GivenInv' /\ PrefixInv' /\ WireInv'
  BY <1>1, GivenStays
<1>3. StepInv'
  BY <1>1 DEF StepInv
<1>4. EndInv' /\ SameNameBack'
  BY <1>1 DEF EndInv, SameNameBack
<1> QED
  BY <1>2, <1>3, <1>4 DEF PathInv

\* What is listed is deleted, or refused immediately before.
LEMMA DeleteListedKeeps ==
  ASSUME PathInv, DeleteListed PROVE PathInv'
<1>1. /\ step = "listed" /\ UNCHANGED <<given, prefix, path>> /\ given.from = "listing"
      /\ wire = <<>> /\ path = given.path /\ path # <<>>
  BY DEF DeleteListed, PathInv, StepInv, GivenInv
<1>2. \/ step' = "refused" /\ wire' = wire
      \/ AssertWithinPrefix(path, prefix) # Refused /\ step' = "sent" /\ wire' = path
  BY DEF DeleteListed
<1>3. GivenInv' /\ PrefixInv' /\ (wire' = wire => WireInv')
  BY <1>1, <1>2, GivenStays
<1>4. WireInv'
  BY <1>1, <1>2, <1>3 DEF WireInv
<1>5. StepInv'
  BY <1>1, <1>2 DEF StepInv
<1>6. EndInv' /\ SameNameBack'
  BY <1>1, <1>2 DEF EndInv, SameNameBack
<1> QED
  BY <1>3, <1>4, <1>5, <1>6 DEF PathInv

\* The files of which SameNameBack speaks.
OwnName ==
    /\ given.from = "tree" /\ ~given.back /\ Plain(given.path) = given.path
    /\ \A i \in DOMAIN given.path : ~given.path[i].alias

\* What has been sent for one of them has the key of the file.
LEMMA KeyBack ==
  ASSUME PathInv, step = "listed", wire # <<>>, OwnName
  PROVE  Key(path) = given.path /\ given.path # Refused
<1>1. path = wire /\ OnItsWay /\ wire = prefix \o Rel /\ AssertWithinPrefix(wire, prefix) # Refused
  BY DEF PathInv, StepInv, WireInv, OwnName
<1>2. /\ GivenInv /\ prefix # <<>> /\ prefix \in Seq(Parts) /\ ValidatePrefix(prefix) = prefix
      /\ \A i \in DOMAIN prefix : prefix[i].marks = {}
  BY PrefixFacts DEF PathInv, PrefixInv
<1>3. Named # Refused /\ Rel # Refused /\ ~IsHidden(Composed)
  BY <1>1 DEF OnItsWay, OwnName
<1>4. Named = given.path /\ Plain(Composed) = Composed /\ Rel = Composed
  BY <1>2, <1>3, TreeFacts DEF OwnName
<1>5. /\ Named \in Seq(Parts) /\ AllEnter(Named) /\ Named # <<>>
      /\ Composed \in Seq(Parts) /\ Composed # <<>> /\ AllEnter(Composed)
  BY <1>2, <1>3, NameFacts
<1>6. Trim(Composed) = Composed /\ NormalizeRel(Composed) = Composed
  BY <1>4, <1>5, PlainTrims DEF Rel
<1> DEFINE q == Composed
<1>7. /\ q \in Seq(Parts) /\ q # <<>> /\ AllEnter(q) /\ Trim(q) = q /\ NormalizeRel(q) = q /\ ~IsHidden(q)
      /\ AssertWithinPrefix(prefix \o q, prefix) # Refused
  BY <1>1, <1>3, <1>4, <1>5, <1>6
<1> HIDE DEF q
<1>8. Key(prefix \o q) = NormalizeRel(DecodeProtected(q))
  BY <1>2, <1>7, KeyBelow
<1>9. DecodeProtected(EncodeProtected(Named)) = Named /\ DecodeProtected(Named) = Named
  BY <1>4, <1>5, AliasComesBack DEF OwnName
<1>10. DecodeProtected(q) = Named
  BY <1>9 DEF Composed, q
<1>11. NormalizeRel(Named) = Named
  BY <1>4 DEF Named
<1> QED
  BY <1>1, <1>4, <1>5, <1>8, <1>10, <1>11 DEF Refused, q

\* The entry gets its key.
LEMMA ScanRemoteKeeps ==
  ASSUME PathInv, ScanRemote PROVE PathInv'
<1>1. /\ step = "listed" /\ UNCHANGED <<given, prefix, wire>> /\ given.from # "user"
      /\ IF given.from = "tree" THEN wire # <<>> /\ path = wire ELSE wire = <<>> /\ path = given.path
  BY DEF ScanRemote, PathInv, StepInv
<1>2. \/ step' = "refused" /\ path' = path /\ Key(path) = Refused
      \/ step' = "key" /\ path' = Key(path) /\ Key(path) # Refused
  BY DEF ScanRemote, Goes
<1>3. GivenInv' /\ PrefixInv' /\ WireInv' /\ prefix # <<>>
  BY <1>1, <1>2, GivenStays
<1>4. /\ GivenInv /\ prefix \in Seq(Parts) /\ AllEnter(prefix) /\ ValidatePrefix(prefix) = prefix
      /\ prefix = Place(Plain(given.prefix))
  BY <1>3, PrefixFacts DEF PathInv
<1>5. CASE step' = "refused" /\ path' = path /\ Key(path) = Refused
  <2>1. StepInv'
    BY <1>5 DEF StepInv
  <2>2. EndInv'
    BY <1>1, <1>5 DEF EndInv
  <2>3. SameNameBack'
    BY <1>1, <1>5, KeyBack DEF SameNameBack, OwnName
  <2> QED
    BY <1>3, <2>1, <2>2, <2>3 DEF PathInv
<1>6. CASE step' = "key" /\ path' = Key(path) /\ Key(path) # Refused
  <2>1. path \in Seq(Parts)
    <3>1. CASE given.from = "tree"
      <4>1. wire = prefix \o Rel /\ OnItsWay /\ path = wire
        BY <1>1, <3>1 DEF PathInv, WireInv
      <4> QED
        BY <1>3, <1>4, <4>1, RelFacts
    <3>2. CASE given.from # "tree"
      BY <1>1, <1>4, <3>2 DEF GivenInv
    <3> QED
      BY <3>1, <3>2
  <2>2. /\ AssertWithinPrefix(path, prefix) # Refused
        /\ Key(path) # <<>> /\ AllEnter(Key(path)) /\ Key(path) \in Seq(Parts)
    BY <1>4, <1>6, <2>1, KeyIs
  <2>3. StepInv'
    <3>1. AllEnter(path)' /\ path' # <<>> /\ path' \in Seq(Parts)
      BY <1>6, <2>2 DEF AllEnter, Enters
    <3> QED
      BY <1>1, <1>6, <3>1 DEF StepInv
  <2>4. given.from = "listing" /\ AsJudged => StrictlyInside(given.path)
    <3> SUFFICES ASSUME given.from = "listing", AsJudged PROVE StrictlyInside(given.path)
      OBVIOUS
    <3>1. path = given.path /\ Trim(path) = path
      BY <1>1 DEF AsJudged
    <3>2. NeverLeaves(path) /\ IsStrictPrefix(prefix, Place(path))
      BY <1>4, <2>1, <2>2, <3>1, WithinIs
    <3> QED
      BY <1>4, <3>1, <3>2 DEF StrictlyInside
  <2>5. EndInv'
    <3>1. AsJudged' <=> AsJudged
      BY <1>1 DEF AsJudged
    <3>2. given.from = "listing" /\ AsJudged => StrictlyInside(given.path)'
      BY <1>1, <2>4 DEF StrictlyInside
    <3> QED
      BY <1>1, <1>6, <3>1, <3>2 DEF EndInv
  <2>6. SameNameBack'
    BY <1>1, <1>6, KeyBack DEF SameNameBack, OwnName
  <2> QED
    BY <1>3, <2>3, <2>5, <2>6 DEF PathInv
<1> QED
  BY <1>2, <1>5, <1>6

\* pull writes the file of the key, or refuses it.
LEMMA PullKeeps ==
  ASSUME PathInv, Pull PROVE PathInv'
<1>1. /\ step = "key" /\ UNCHANGED <<given, prefix, wire>> /\ given.from # "user"
      /\ AllEnter(path) /\ path # <<>> /\ path \in Seq(Parts)
  BY DEF Pull, PathInv, StepInv
<1>2. \/ step' = "refused" /\ path' = path
      \/ step' = "written" /\ path' = SafeLocalDest(path) /\ SafeLocalDest(path) # Refused
  BY DEF Pull, Goes
<1>3. GivenInv' /\ PrefixInv' /\ WireInv'
  BY <1>1, <1>2, GivenStays
<1>4. (given.from = "listing" /\ AsJudged => StrictlyInside(given.path)) /\ SameNameBack
  BY <1>1 DEF PathInv, EndInv
<1>5. given.from = "listing" /\ AsJudged' => StrictlyInside(given.path)'
  BY <1>1, <1>4 DEF StrictlyInside, AsJudged
<1>6. StepInv'
  BY <1>1, <1>2 DEF StepInv
<1>7. CASE step' = "refused" /\ path' = path
  <2>1. EndInv'
    BY <1>1, <1>7 DEF EndInv
  <2>2. SameNameBack'
    BY <1>1, <1>4, <1>7 DEF SameNameBack
  <2> QED
    BY <1>3, <1>6, <2>1, <2>2 DEF PathInv
<1>8. CASE step' = "written" /\ path' = SafeLocalDest(path) /\ SafeLocalDest(path) # Refused
  <2>1. /\ Enters(SafeLocalDest(path), 1) /\ NeverLeaves(SafeLocalDest(path))
        /\ Plain(path) = path => SafeLocalDest(path) = path \/ IsOneOf(Head(path), Links)
    BY <1>1, <1>8, WrittenIs
  <2>2. (Enters(path, 1) /\ NeverLeaves(path))'
    BY <1>8, <2>1 DEF Enters, NeverLeaves, Left, Entered
  <2>3. EndInv'
    BY <1>1, <1>5, <1>8, <2>2 DEF EndInv
  <2>4. SameNameBack'
    BY <1>1, <1>4, <1>8, <2>1 DEF SameNameBack
  <2> QED
    BY <1>3, <1>6, <2>3, <2>4 DEF PathInv
<1> QED
  BY <1>2, <1>7, <1>8

-----------------------------------------------------------------------------
(* The theorems.                                                           *)

\* Where every way of a name is, in all its steps.
THEOREM EveryWay == Spec => []PathInv
<1>1. Init => PathInv
  BY InitInv
<1>2. ASSUME PathInv, [Next]_vars PROVE PathInv'
  <2>1. CASE Validate
    BY <1>2, <2>1, ValidateKeeps
  <2>2. CASE Name
    BY <1>2, <2>2, NameKeeps
  <2>3. CASE Compose
    BY <1>2, <2>3, ComposeKeeps
  <2>4. CASE Send
    BY <1>2, <2>4, SendKeeps
  <2>5. CASE List
    BY <1>2, <2>5, ListKeeps
  <2>6. CASE ScanRemote
    BY <1>2, <2>6, ScanRemoteKeeps
  <2>7. CASE DeleteListed
    BY <1>2, <2>7, DeleteListedKeeps
  <2>8. CASE Pull
    BY <1>2, <2>8, PullKeeps
  <2>9. CASE UNCHANGED vars
    BY <1>2, <2>9 DEF vars, PathInv, GivenInv, PrefixInv, StepInv, WireInv, EndInv, SameNameBack,
                      OnItsWay, RefusedForAReason, Named, Typed, Composed, Rel, StrictlyInside, AsJudged
  <2> QED
    BY <1>2, <2>1, <2>2, <2>3, <2>4, <2>5, <2>6, <2>7, <2>8, <2>9 DEF Next
<1> QED
  BY <1>1, <1>2, PTL DEF Spec

\* Whatever the names, the prefix and the listing: what is sent and what becomes a
\* key is strictly below the prefix for one who follows the path as it is, but for a
\* listed path of which a copy without blanks and backslashes was judged; what is
\* written is in the tree; and what a user types is refused only for a reason
\* (assert_within_prefix, validate_prefix, safe_local_dest).
THEOREM AcceptedInside == Spec => []AcceptedIffInside
<1>1. PathInv => AcceptedIffInside
  BY InvBounds
<1> QED
  BY <1>1, EveryWay, PTL

\* Whatever the name of a file of the tree, without an alias in it and with nothing
\* that normalize_rel takes away: what push has sent gets the key of the file, and
\* pull writes that file (but through a symlink).
THEOREM NameComesBack == Spec => []SameNameBack
<1>1. PathInv => SameNameBack
  BY DEF PathInv
<1> QED
  BY <1>1, EveryWay, PTL
=============================================================================
