--------------------------- MODULE VfsCacheProofs ---------------------------
(***************************************************************************)
(* Theorems about VfsCache: that its counter is right, that reads are no   *)
(* older than what was told, and exact; and, about VfsCacheLog, that       *)
(* attributes and listings miss no more than the TTL lets them.            *)
(***************************************************************************)
EXTENDS VfsCacheLog, FunctionTheorems, FiniteSetTheorems, SequenceTheorems, WellFoundedInduction, TLAPS

-----------------------------------------------------------------------------
(* Sets of numbers in order.                                               *)

\* The members of a finite set of numbers come in order, each once.
LEMMA InOrderLists ==
  ASSUME NEW S \in SUBSET Nat, IsFiniteSet(S)
  PROVE  /\ InOrder(S) \in Seq(S)
         /\ Len(InOrder(S)) = Cardinality(S) /\ Cardinality(S) \in Nat
         /\ DOMAIN InOrder(S) = 1..Cardinality(S)
         /\ \A i, j \in 1..Cardinality(S) : InOrder(S)[i] = InOrder(S)[j] => i = j
<1> DEFINE Below(n) == {m \in S : m < n}
           rank == [n \in S |-> Cardinality(Below(n))]
           c == Cardinality(S)
           T == 0 .. (c - 1)
<1>1. c \in Nat
  BY FS_CardinalityType
<1>2. ASSUME NEW n \in S PROVE IsFiniteSet(Below(n)) /\ Cardinality(Below(n)) \in T
  <2>1. Below(n) \in SUBSET (S \ {n})
    OBVIOUS
  <2>2. IsFiniteSet(S \ {n}) /\ Cardinality(S \ {n}) = c - 1
    BY FS_RemoveElement
  <2>3. IsFiniteSet(Below(n)) /\ Cardinality(Below(n)) =< c - 1
    BY <2>1, <2>2, FS_Subset
  <2>4. Cardinality(Below(n)) \in Nat
    BY <2>3, FS_CardinalityType
  <2> HIDE DEF Below
  <2>5. Cardinality(Below(n)) \in T
    <3> HIDE DEF c
    <3> QED
      BY <1>1, <2>3, <2>4
  <2> QED
    BY <2>3, <2>5
<1>3. ASSUME NEW a \in S, NEW b \in S, a < b PROVE rank[a] # rank[b]
  <2>1. Below(a) \in SUBSET Below(b) /\ a \in Below(b) /\ a \notin Below(a)
    <3>1. \A m \in S : m \in Nat
      OBVIOUS
    <3>2. \A m \in S : m < a => m < b
      BY <1>3, <3>1
    <3>3. ~(a < a)
      BY <3>1
    <3> QED
      BY <1>3, <3>2, <3>3
  <2>2. Cardinality(Below(a)) # Cardinality(Below(b))
    BY <1>2, <2>1, FS_Subset
  <2> QED
    BY <2>2
<1>4. rank \in Injection(S, T)
  <2>1. rank \in [S -> T]
    BY <1>2
  <2>2. \A a, b \in S : rank[a] = rank[b] => a = b
    BY <1>3
  <2> HIDE DEF rank, T
  <2> QED
    BY <2>1, <2>2 DEF Injection, IsInjective
<1>5. IsFiniteSet(T) /\ Cardinality(T) = c
  <2> HIDE DEF c
  <2>0. 0 \in Int /\ c - 1 \in Int
    BY <1>1
  <2>1. /\ IsFiniteSet(0 .. (c - 1))
        /\ Cardinality(0 .. (c - 1)) = IF 0 > c - 1 THEN 0 ELSE (c - 1) - 0 + 1
    BY <2>0, FS_Interval, Zenon
  <2> QED
    BY <1>1, <2>1
<1>6. rank \in Surjection(S, T)
  BY <1>4, <1>5, FS_Injection
<1>7. ASSUME NEW i \in 1..c PROVE InOrder(S)[i] \in S /\ Cardinality(Below(InOrder(S)[i])) = i - 1
  <2>1. i - 1 \in T
    BY <1>1
  <2>2. PICK k \in S : rank[k] = i - 1
    BY <1>6, <2>1 DEF Surjection
  <2>3. \E n \in S : Cardinality({m \in S : m < n}) = i - 1
    BY <2>2
  <2>4. InOrder(S)[i] = CHOOSE n \in S : Cardinality({m \in S : m < n}) = i - 1
    BY DEF InOrder
  <2> QED
    BY <2>3, <2>4
<1>8. InOrder(S) = [i \in 1..c |-> InOrder(S)[i]]
  <2> DEFINE nth(i) == CHOOSE n \in S : Cardinality({m \in S : m < n}) = i - 1
  <2>1. InOrder(S) = [i \in 1..c |-> nth(i)]
    BY Zenon DEF InOrder
  <2> HIDE DEF nth, c
  <2> QED
    BY <2>1
<1>9. DOMAIN InOrder(S) = 1..c
  BY <1>8
<1>10. InOrder(S) \in [1..c -> S]
  BY <1>7, <1>8
<1> HIDE DEF c, Below
<1>11. InOrder(S) \in Seq(S) /\ Len(InOrder(S)) = c
  BY <1>1, <1>10
<1>12. \A i, j \in 1..c : InOrder(S)[i] = InOrder(S)[j] => i = j
  <2> SUFFICES ASSUME NEW i \in 1..c, NEW j \in 1..c, InOrder(S)[i] = InOrder(S)[j] PROVE i = j
    OBVIOUS
  <2>1. i - 1 = j - 1
    BY <1>7
  <2> QED
    BY <1>1, <2>1
<1> QED
  BY <1>1, <1>9, <1>11, <1>12 DEF c

-----------------------------------------------------------------------------
(* Blocks taken out of a list, and the bytes of those that stay.           *)

\* The blocks ks are those of bs at some places, through f.
Picked(f, ks, bs, places) ==
    /\ f \in Bijection(DOMAIN ks, places)
    /\ \A i \in DOMAIN ks : ks[i] = bs[f[i]]

Twins(b, c) == b.path = c.path /\ b.no = c.no
NoTwins(bs) == \A i, j \in DOMAIN bs : i # j => ~Twins(bs[i], bs[j])

\* The blocks at some places are a list of their own, each from its place.
LEMMA KeptPicks ==
  ASSUME NEW bs \in Seq(CachedBlock), NEW places \in SUBSET DOMAIN bs
  PROVE  /\ Kept(bs, places) \in Seq(CachedBlock)
         /\ Picked(InOrder(places), Kept(bs, places), bs, places)
<1> DEFINE order == InOrder(places)
           c == Cardinality(places)
<1>1. DOMAIN bs = 1..Len(bs) /\ Len(bs) \in Nat /\ \A i \in DOMAIN bs : bs[i] \in CachedBlock
  OBVIOUS
<1>2. IsFiniteSet(places) /\ places \in SUBSET Nat
  <2>0. 1 \in Int /\ Len(bs) \in Int
    BY <1>1
  <2>1. IsFiniteSet(1..Len(bs))
    BY <2>0, FS_Interval, Zenon
  <2> QED
    BY <1>1, <2>1, FS_Subset
<1>3. /\ order \in Seq(places) /\ Len(order) = c /\ c \in Nat /\ DOMAIN order = 1..c
      /\ \A i, j \in 1..c : order[i] = order[j] => i = j
  BY <1>2, InOrderLists
<1>4. order \in Injection(1..c, places)
  <2>1. order \in [1..c -> places]
    BY <1>3
  <2> HIDE DEF order, c
  <2> QED
    BY <1>3, <2>1 DEF Injection, IsInjective
<1>5. order \in Surjection(1..c, places)
  <2>0. 1 \in Int /\ c \in Int
    BY <1>3
  <2>1. Cardinality(1..c) = IF 1 > c THEN 0 ELSE c - 1 + 1
    BY <2>0, FS_Interval, Zenon
  <2>2. Cardinality(1..c) = c
    BY <1>3, <2>1
  <2> QED
    BY <1>2, <1>4, <2>2, FS_Injection
<1>6. Kept(bs, places) = [i \in 1..c |-> bs[order[i]]]
  BY <1>3 DEF Kept
<1> HIDE DEF order
<1>7. Kept(bs, places) \in [1..c -> CachedBlock]
  <2>1. \A i \in 1..c : order[i] \in places
    BY <1>3
  <2> QED
    BY <1>1, <1>6, <2>1
<1>8. Kept(bs, places) \in Seq(CachedBlock) /\ DOMAIN Kept(bs, places) = 1..c
  <2> HIDE DEF c
  <2> QED
    BY <1>3, <1>7
<1>9. order \in Bijection(1..c, places)
  BY <1>4, <1>5 DEF Bijection
<1>10. \A i \in 1..c : Kept(bs, places)[i] = bs[order[i]]
  BY <1>6
<1> QED
  BY <1>8, <1>9, <1>10 DEF Picked, order

\* What eviction keeps: the blocks after the first k.
LEMMA TailPicks ==
  ASSUME NEW bs \in Seq(CachedBlock), NEW k \in 0..Len(bs)
  PROVE  /\ SubSeq(bs, k + 1, Len(bs)) \in Seq(CachedBlock)
         /\ Picked([i \in 1..(Len(bs) - k) |-> i + k], SubSeq(bs, k + 1, Len(bs)), bs, (k + 1)..Len(bs))
<1> DEFINE ks == SubSeq(bs, k + 1, Len(bs))
           f == [i \in 1..(Len(bs) - k) |-> i + k]
<1>1. Len(bs) \in Nat /\ \A i \in 1..Len(bs) : bs[i] \in CachedBlock
  OBVIOUS
<1>2. ks \in Seq(CachedBlock) /\ Len(ks) = Len(bs) - k /\ \A i \in 1..(Len(bs) - k) : ks[i] = bs[k + i]
  BY <1>1, SubSeqProperties
<1>3. f \in Bijection(1..(Len(bs) - k), (k + 1)..Len(bs))
  <2>1. f \in [1..(Len(bs) - k) -> (k + 1)..Len(bs)]
    BY <1>1
  <2>2. \A i, j \in 1..(Len(bs) - k) : f[i] = f[j] => i = j
    BY <1>1
  <2>3. \A j \in (k + 1)..Len(bs) : \E i \in 1..(Len(bs) - k) : f[i] = j
    <3> SUFFICES ASSUME NEW j \in (k + 1)..Len(bs) PROVE \E i \in 1..(Len(bs) - k) : f[i] = j
      OBVIOUS
    <3>1. j - k \in 1..(Len(bs) - k) /\ f[j - k] = j
      BY <1>1
    <3> QED
      BY <3>1
  <2> HIDE DEF f
  <2> QED
    BY <2>1, <2>2, <2>3 DEF Bijection, Injection, Surjection, IsInjective
<1>4. \A i \in 1..(Len(bs) - k) : ks[i] = bs[f[i]]
  BY <1>1, <1>2
<1>5. DOMAIN ks = 1..(Len(bs) - k)
  BY <1>2
<1> QED
  BY <1>2, <1>3, <1>4, <1>5 DEF Picked


\* What a list of blocks weighs is a number, and so is what a part weighs.
LEMMA SizeIs ==
  ASSUME NEW bs \in Seq(CachedBlock), NEW places \in SUBSET DOMAIN bs
  PROVE  IsFiniteSet(Units(bs, places)) /\ Size(bs, places) \in Nat
<1>1. DOMAIN bs = 1..Len(bs) /\ Len(bs) \in Nat /\ Block \in Nat
  BY CacheAssumption
<1>2. IsFiniteSet(1..Len(bs)) /\ IsFiniteSet(1..Block)
  <2>1. 1 \in Int /\ Len(bs) \in Int /\ Block \in Int
    BY <1>1
  <2> QED
    BY <2>1, FS_Interval, Zenon
<1>3. IsFiniteSet(places)
  BY <1>1, <1>2, FS_Subset
<1>4. IsFiniteSet(places \X (1..Block))
  BY <1>2, <1>3, FS_Product
<1>5. Units(bs, places) \in SUBSET (places \X (1..Block))
  BY DEF Units
<1>6. IsFiniteSet(Units(bs, places))
  BY <1>4, <1>5, FS_Subset
<1> QED
  BY <1>6, FS_CardinalityType DEF Size

\* Two parts weigh what they weigh together.
LEMMA SizeSplits ==
  ASSUME NEW bs \in Seq(CachedBlock), NEW P \in SUBSET DOMAIN bs, NEW Q \in SUBSET DOMAIN bs, P \cap Q = {}
  PROVE  Size(bs, P \cup Q) = Size(bs, P) + Size(bs, Q)
<1>1. Units(bs, P \cup Q) = Units(bs, P) \cup Units(bs, Q)
  BY DEF Units
<1>2. Units(bs, P) \cap Units(bs, Q) = {}
  BY DEF Units
<1>3. IsFiniteSet(Units(bs, P)) /\ IsFiniteSet(Units(bs, Q))
  BY SizeIs
<1>4. Cardinality(Units(bs, P) \cup Units(bs, Q)) = Cardinality(Units(bs, P)) + Cardinality(Units(bs, Q)) - 0
  <2>1. Cardinality(Units(bs, P) \cup Units(bs, Q))
          = Cardinality(Units(bs, P)) + Cardinality(Units(bs, Q)) - Cardinality(Units(bs, P) \cap Units(bs, Q))
    BY <1>3, FS_Union, Zenon
  <2> QED
    BY <1>2, <2>1, FS_EmptySet, Zenon
<1>5. Size(bs, P) \in Nat /\ Size(bs, Q) \in Nat
  BY SizeIs
<1>6. Size(bs, P \cup Q) = Size(bs, P) + Size(bs, Q) - 0
  BY <1>1, <1>4, Zenon DEF Size
<1> QED
  BY <1>5, <1>6

\* Picked blocks weigh what they weighed in their places, and are no twins if
\* none were.
LEMMA PickedBlocks ==
  ASSUME NEW f, NEW ks, NEW bs, NEW places, Picked(f, ks, bs, places),
         bs \in Seq(CachedBlock), ks \in Seq(CachedBlock), places \subseteq DOMAIN bs
  PROVE  /\ Total(ks) = Size(bs, places)
         /\ \A i \in DOMAIN ks : f[i] \in places /\ ks[i] = bs[f[i]]
         /\ \A j \in places : \E i \in DOMAIN ks : ks[i] = bs[j]
         /\ NoTwins(bs) => NoTwins(ks)
<1> DEFINE U == Units(ks, DOMAIN ks)
           V == Units(bs, places)
           g == [u \in U |-> <<f[u[1]], u[2]>>]
<1>1. /\ f \in [DOMAIN ks -> places]
      /\ \A i, j \in DOMAIN ks : f[i] = f[j] => i = j
      /\ \A j \in places : \E i \in DOMAIN ks : f[i] = j
      /\ \A i \in DOMAIN ks : ks[i] = bs[f[i]]
  BY DEF Picked, Bijection, Injection, Surjection, IsInjective
<1>2. \A u \in U : u[1] \in DOMAIN ks /\ u[2] \in 1..Block /\ u[2] =< ks[u[1]].len /\ u = <<u[1], u[2]>>
  BY DEF Units
<1>3. g \in [U -> V]
  <2> SUFFICES ASSUME NEW u \in U PROVE <<f[u[1]], u[2]>> \in V
    OBVIOUS
  <2>1. f[u[1]] \in places /\ u[2] \in 1..Block /\ u[2] =< bs[f[u[1]]].len
    BY <1>1, <1>2
  <2> QED
    BY <2>1 DEF Units
<1>4. \A u, v \in U : g[u] = g[v] => u = v
  <2> SUFFICES ASSUME NEW u \in U, NEW v \in U, g[u] = g[v] PROVE u = v
    OBVIOUS
  <2>1. f[u[1]] = f[v[1]] /\ u[2] = v[2]
    OBVIOUS
  <2>2. u[1] = v[1]
    BY <1>1, <1>2, <2>1
  <2> QED
    BY <1>2, <2>1, <2>2
<1>5. \A v \in V : \E u \in U : g[u] = v
  <2> SUFFICES ASSUME NEW v \in V PROVE \E u \in U : g[u] = v
    OBVIOUS
  <2>1. v[1] \in places /\ v[2] \in 1..Block /\ v[2] =< bs[v[1]].len /\ v = <<v[1], v[2]>>
    BY DEF Units
  <2>2. PICK i \in DOMAIN ks : f[i] = v[1]
    BY <1>1, <2>1
  <2>3. ks[i] = bs[v[1]]
    BY <1>1, <2>2
  <2>4. <<i, v[2]>> \in U
    BY <2>1, <2>3 DEF Units
  <2>5. g[<<i, v[2]>>] = <<f[i], v[2]>>
    BY <2>4
  <2> QED
    BY <2>1, <2>2, <2>4, <2>5
<1>6. g \in Bijection(U, V)
  <2> HIDE DEF g, U, V
  <2> QED
    BY <1>3, <1>4, <1>5 DEF Bijection, Injection, Surjection, IsInjective
<1>7. IsFiniteSet(U)
  BY SizeIs
<1>8. Cardinality(V) = Cardinality(U)
  <2> HIDE DEF g, U, V
  <2>1. ExistsBijection(U, V)
    BY <1>6 DEF ExistsBijection
  <2> QED
    BY <1>7, <2>1, FS_Bijection
<1>9. Total(ks) = Size(bs, places)
  BY <1>8 DEF Total, Size
<1>10. ASSUME NoTwins(bs) PROVE NoTwins(ks)
  <2> SUFFICES ASSUME NEW i \in DOMAIN ks, NEW j \in DOMAIN ks, i # j PROVE ~Twins(ks[i], ks[j])
    BY DEF NoTwins
  <2>1. f[i] \in DOMAIN bs /\ f[j] \in DOMAIN bs /\ f[i] # f[j]
    BY <1>1
  <2>2. ~Twins(bs[f[i]], bs[f[j]])
    BY <1>10, <2>1 DEF NoTwins
  <2> QED
    BY <1>1, <2>2
<1>11. \A j \in places : \E i \in DOMAIN ks : ks[i] = bs[j]
  <2> HIDE DEF g, U, V
  <2> SUFFICES ASSUME NEW j \in places PROVE \E i \in DOMAIN ks : ks[i] = bs[j]
    OBVIOUS
  <2>1. PICK i \in DOMAIN ks : f[i] = j
    BY <1>1
  <2> QED
    BY <1>1, <2>1
<1> QED
  BY <1>1, <1>9, <1>10, <1>11

\* A block weighs its length.
LEMMA SizeOfOne ==
  ASSUME NEW cs \in Seq(CachedBlock), NEW n \in DOMAIN cs
  PROVE  Size(cs, {n}) = cs[n].len
<1> DEFINE b == cs[n]
<1>0. b \in CachedBlock /\ cs[n] = b
  BY ElementOfSeq
<1> HIDE DEF b
<1> DEFINE f == [k \in 1..b.len |-> <<n, k>>]
<1>1. b.len \in 0..Block /\ Block \in Nat
  BY <1>0, CacheAssumption DEF CachedBlock
<1>2. Units(cs, {n}) = {<<n, k>> : k \in 1..b.len}
  <2>1. \A u \in {n} \X (1..Block) : u = <<n, u[2]>> /\ (u[2] =< cs[u[1]].len <=> u[2] =< b.len)
    BY <1>0
  <2>2. 1..b.len \subseteq 1..Block /\ \A k \in 1..Block : k \in 1..b.len <=> k =< b.len
    BY <1>1
  <2>3. \A u : u \in Units(cs, {n}) <=> \E k \in 1..b.len : u = <<n, k>>
    <3>1. ASSUME NEW u \in Units(cs, {n}) PROVE \E k \in 1..b.len : u = <<n, k>>
      <4>1. u \in {n} \X (1..Block) /\ u[2] =< cs[u[1]].len
        BY DEF Units
      <4>2. u[2] \in 1..Block
        BY <4>1
      <4> QED
        BY <2>1, <2>2, <4>1, <4>2
    <3>2. ASSUME NEW k \in 1..b.len PROVE <<n, k>> \in Units(cs, {n})
      <4>1. k \in 1..Block /\ k =< b.len
        BY <2>2
      <4> QED
        BY <1>0, <4>1 DEF Units
    <3> QED
      BY <3>1, <3>2
  <2> QED
    BY <2>3
<1>3. f \in Bijection(1..b.len, {<<n, k>> : k \in 1..b.len})
  <2> DEFINE R == {<<n, k>> : k \in 1..b.len}
  <2>1. f \in [1..b.len -> R]
    OBVIOUS
  <2>2. \A k, l \in 1..b.len : f[k] = f[l] => k = l
    OBVIOUS
  <2>3. \A v \in R : \E k \in 1..b.len : f[k] = v
    OBVIOUS
  <2> HIDE DEF f, R
  <2>4. f \in Bijection(1..b.len, R)
    BY <2>1, <2>2, <2>3 DEF Bijection, Injection, Surjection, IsInjective
  <2> QED
    BY <2>4 DEF R
<1>4. IsFiniteSet(1..b.len) /\ Cardinality(1..b.len) = b.len
  <2>1. 1 \in Int /\ b.len \in Int
    BY <1>1
  <2>2. IsFiniteSet(1..b.len) /\ Cardinality(1..b.len) = IF 1 > b.len THEN 0 ELSE b.len - 1 + 1
    BY <2>1, FS_Interval, Zenon
  <2> QED
    BY <1>1, <2>2
<1>5. ExistsBijection(1..b.len, Units(cs, {n}))
  BY <1>2, <1>3, Zenon DEF ExistsBijection
<1>6. Cardinality(Units(cs, {n})) = Cardinality(1..b.len)
  BY <1>4, <1>5, FS_Bijection, Zenon
<1> QED
  BY <1>0, <1>4, <1>6 DEF Size

\* One more block adds its length.
LEMMA TotalAppend ==
  ASSUME NEW bs \in Seq(CachedBlock), NEW b \in CachedBlock
  PROVE  /\ Append(bs, b) \in Seq(CachedBlock) /\ Len(Append(bs, b)) = Len(bs) + 1
         /\ DOMAIN Append(bs, b) = DOMAIN bs \cup {Len(bs) + 1} /\ Len(bs) + 1 \notin DOMAIN bs
         /\ \A i \in DOMAIN bs : Append(bs, b)[i] = bs[i]
         /\ Append(bs, b)[Len(bs) + 1] = b
         /\ Total(Append(bs, b)) = Total(bs) + b.len
<1> DEFINE cs == Append(bs, b)
           n == Len(bs) + 1
<1>1. Len(bs) \in Nat /\ DOMAIN bs = 1..Len(bs)
  OBVIOUS
<1>2. /\ cs \in Seq(CachedBlock) /\ Len(cs) = n /\ cs[n] = b
      /\ \A i \in 1..Len(bs) : cs[i] = bs[i]
  BY AppendProperties
<1> HIDE DEF cs
<1>3. DOMAIN cs = DOMAIN bs \cup {n} /\ n \notin DOMAIN bs
  BY <1>1, <1>2
<1>4. Size(cs, DOMAIN bs) = Total(bs)
  <2>1. Units(cs, DOMAIN bs) = Units(bs, DOMAIN bs)
    <3> DEFINE D == DOMAIN bs
    <3>1. \A i \in D : cs[i] = bs[i]
      BY <1>1, <1>2
    <3> HIDE DEF D, n
    <3>2. \A u \in D \X (1..Block) : cs[u[1]] = bs[u[1]]
      BY <3>1
    <3>3. Units(cs, D) = Units(bs, D)
      BY <3>2 DEF Units
    <3> QED
      BY <3>3 DEF D
  <2> QED
    BY <2>1 DEF Size, Total
<1>5. Size(cs, {n}) = b.len
  BY <1>2, <1>3, SizeOfOne
<1>6. Size(cs, DOMAIN bs \cup {n}) = Size(cs, DOMAIN bs) + Size(cs, {n})
  BY <1>2, <1>3, SizeSplits
<1>7. Total(cs) = Total(bs) + b.len
  BY <1>3, <1>4, <1>5, <1>6 DEF Total
<1> QED
  BY <1>1, <1>2, <1>3, <1>7 DEF cs

\* A set of numbers that is not empty has a least.
LEMMA Least ==
  ASSUME NEW S \in SUBSET Nat, S # {}
  PROVE  \E x \in S : \A y \in S : x =< y
<1> DEFINE R == OpToRel(<, Nat)
<1>1. IsWellFoundedOn(R, Nat)
  BY NatLessThanWellFounded
<1>2. \A x, y \in Nat : <<y, x>> \in R <=> y < x
  BY DEF OpToRel
<1> HIDE DEF R
<1>3. PICK x \in S : \A y \in S : ~(<<y, x>> \in R)
  BY <1>1, WFMin
<1>4. \A y \in S : x =< y
  <2> SUFFICES ASSUME NEW y \in S PROVE x =< y
    OBVIOUS
  <2>1. x \in Nat /\ y \in Nat
    OBVIOUS
  <2>2. ~(y < x)
    BY <1>2, <1>3, <2>1
  <2> QED
    BY <2>1, <2>2
<1> QED
  BY <1>4

\* Eviction keeps the counter true and the bound, and invents nothing.
LEMMA EvictedTakesOff ==
  ASSUME NEW bs \in Seq(CachedBlock), NEW total, total = Total(bs)
  PROVE  \E d \in 0..Len(bs) :
            /\ d = Len(bs) \/ total - Size(bs, 1..d) =< MaxBytes
            /\ Evicted(bs, total).blocks = SubSeq(bs, d + 1, Len(bs))
            /\ Evicted(bs, total).bytes = total - Size(bs, 1..d)
<1> DEFINE Fits(k) == k = Len(bs) \/ total - Size(bs, 1..k) =< MaxBytes
           S == {k \in 0..Len(bs) : Fits(k)}
           Right(k) == Fits(k) /\ \A j \in 0..(k - 1) : total - Size(bs, 1..j) > MaxBytes
<1>1. Len(bs) \in Nat /\ DOMAIN bs = 1..Len(bs) /\ MaxBytes \in Nat
  BY CacheAssumption
<1>2. \A k \in 0..Len(bs) : Size(bs, 1..k) \in Nat
  <2> SUFFICES ASSUME NEW k \in 0..Len(bs) PROVE Size(bs, 1..k) \in Nat
    OBVIOUS
  <2>1. 1..k \in SUBSET DOMAIN bs
    BY <1>1
  <2> QED
    BY <2>1, SizeIs
<1>3. total \in Nat
  BY SizeIs DEF Total
<1>4. \E k \in 0..Len(bs) : Right(k)
  <2>1. S \in SUBSET Nat /\ Len(bs) \in S
    BY <1>1
  <2>2. PICK k \in S : \A j \in S : k =< j
    <3> HIDE DEF S
    <3> QED
      BY <2>1, Least
  <2>3. Fits(k)
    OBVIOUS
  <2>0. k \in 0..Len(bs)
    OBVIOUS
  <2>4. ASSUME NEW j \in 0..(k - 1) PROVE total - Size(bs, 1..j) > MaxBytes
    <3> HIDE DEF Fits
    <3>1. j \in 0..Len(bs) /\ ~(k =< j) /\ j # Len(bs)
      <4> HIDE DEF S
      <4>1. k \in Nat
        BY <1>1, <2>0
      <4>2. k =< Len(bs)
        BY <1>1, <2>0
      <4>3. j \in Nat /\ j =< k - 1
        BY <4>1
      <4>4. Len(bs) \in Nat
        BY <1>1
      <4>5. ~(k =< j)
        BY <4>1, <4>3
      <4>6. j < Len(bs)
        BY <4>1, <4>2, <4>3, <4>4
      <4> QED
        BY <4>3, <4>4, <4>5, <4>6
    <3>2. ~Fits(j)
      <4>1. j \notin S
        BY <2>2, <3>1
      <4> QED
        BY <3>1, <4>1
    <3>3. Size(bs, 1..j) \in Nat
      BY <1>2, <3>1
    <3>4. ~(total - Size(bs, 1..j) =< MaxBytes)
      BY <3>2 DEF Fits
    <3> QED
      BY <1>1, <1>3, <3>3, <3>4
  <2> HIDE DEF S, Fits
  <2> QED
    BY <2>0, <2>3, <2>4
<1> DEFINE d == CHOOSE k \in 0..Len(bs) : Right(k)
<1>5. d \in 0..Len(bs) /\ Right(d)
  BY <1>4
<1>6. Evicted(bs, total) = [blocks |-> SubSeq(bs, d + 1, Len(bs)), bytes |-> total - Size(bs, 1..d)]
  BY DEF Evicted
<1> HIDE DEF d
<1> QED
  BY <1>5, <1>6

\* Eviction keeps the counter true and the bound, and invents nothing.
LEMMA EvictedKeeps ==
  ASSUME NEW bs \in Seq(CachedBlock), NEW total, total = Total(bs)
  PROVE  /\ Evicted(bs, total).blocks \in Seq(CachedBlock)
         /\ Evicted(bs, total).bytes \in Nat
         /\ Evicted(bs, total).bytes = Total(Evicted(bs, total).blocks)
         /\ Evicted(bs, total).bytes =< MaxBytes
         /\ \A i \in DOMAIN Evicted(bs, total).blocks :
                \E j \in DOMAIN bs : Evicted(bs, total).blocks[i] = bs[j]
         /\ NoTwins(bs) => NoTwins(Evicted(bs, total).blocks)
<1>1. Len(bs) \in Nat /\ DOMAIN bs = 1..Len(bs) /\ MaxBytes \in Nat
  BY CacheAssumption
<1>2. PICK d \in 0..Len(bs) :
            /\ d = Len(bs) \/ total - Size(bs, 1..d) =< MaxBytes
            /\ Evicted(bs, total).blocks = SubSeq(bs, d + 1, Len(bs))
            /\ Evicted(bs, total).bytes = total - Size(bs, 1..d)
  BY EvictedTakesOff
<1> DEFINE rest == (d + 1)..Len(bs)
           ks == Evicted(bs, total).blocks
           sum == Evicted(bs, total).bytes
           f == [i \in 1..(Len(bs) - d) |-> i + d]
<1>3. d \in Nat /\ d =< Len(bs)
  BY <1>1
<1>4. 1..d \in SUBSET DOMAIN bs /\ rest \in SUBSET DOMAIN bs /\ (1..d) \cap rest = {} /\ (1..d) \cup rest = DOMAIN bs
  BY <1>1, <1>3
<1>5. ks \in Seq(CachedBlock) /\ Picked(f, ks, bs, rest)
  BY <1>2, TailPicks
<1>6. d = Len(bs) => rest = {}
  BY <1>1
<1> HIDE DEF f, rest
<1>7. total = Size(bs, 1..d) + Size(bs, rest)
  BY <1>4, SizeSplits DEF Total
<1>8. Size(bs, 1..d) \in Nat /\ Size(bs, rest) \in Nat
  BY <1>4, SizeIs
<1>9. sum = Size(bs, rest) /\ sum \in Nat
  BY <1>2, <1>7, <1>8
<1>10. sum =< MaxBytes
  <2>1. CASE d = Len(bs)
    <3>1. Units(bs, rest) = {}
      BY <1>6, <2>1 DEF Units
    <3>2. Size(bs, rest) = 0
      BY <3>1, FS_EmptySet DEF Size
    <3> QED
      BY <1>1, <1>9, <3>2
  <2>2. CASE total - Size(bs, 1..d) =< MaxBytes
    BY <1>2, <2>2
  <2> QED
    BY <1>2, <2>1, <2>2
<1> HIDE DEF ks, sum
<1>14. rest \in SUBSET DOMAIN bs
  BY <1>4
<1>11. /\ Total(ks) = Size(bs, rest)
       /\ \A i \in DOMAIN ks : f[i] \in rest /\ ks[i] = bs[f[i]]
       /\ NoTwins(bs) => NoTwins(ks)
  BY <1>5, <1>14, PickedBlocks
<1>12. \A i \in DOMAIN ks : \E j \in DOMAIN bs : ks[i] = bs[j]
  BY <1>4, <1>11
<1>13. sum = Total(ks)
  BY <1>9, <1>11
<1> QED
  BY <1>5, <1>9, <1>10, <1>11, <1>12, <1>13, Zenon DEF ks, sum

\* Of all the blocks but some, the rest weighs the rest.
LEMMA WithoutKeeps ==
  ASSUME NEW bs, NEW gone, bs \in Seq(CachedBlock), gone \subseteq DOMAIN bs
  PROVE  /\ Without(bs, gone) \in Seq(CachedBlock)
         /\ Total(Without(bs, gone)) = Total(bs) - Size(bs, gone)
         /\ Size(bs, gone) \in Nat /\ Total(bs) \in Nat /\ Total(Without(bs, gone)) \in Nat
         /\ \A i \in DOMAIN Without(bs, gone) :
                \E j \in DOMAIN bs \ gone : Without(bs, gone)[i] = bs[j]
         /\ NoTwins(bs) => NoTwins(Without(bs, gone))
<1> DEFINE rest == DOMAIN bs \ gone
           ks == Kept(bs, rest)
           f == InOrder(rest)
<1>1. rest \in SUBSET DOMAIN bs /\ gone \cap rest = {} /\ gone \cup rest = DOMAIN bs
  OBVIOUS
<1>2. ks \in Seq(CachedBlock) /\ Picked(f, ks, bs, rest)
  BY KeptPicks
<1> HIDE DEF rest, ks, f
<1>3. rest \in SUBSET DOMAIN bs
  BY <1>1
<1>4. /\ Total(ks) = Size(bs, rest)
      /\ \A i \in DOMAIN ks : f[i] \in rest /\ ks[i] = bs[f[i]]
      /\ NoTwins(bs) => NoTwins(ks)
  BY <1>2, <1>3, PickedBlocks
<1>5. Total(bs) = Size(bs, gone) + Size(bs, rest)
  BY <1>1, SizeSplits DEF Total
<1>6. Size(bs, gone) \in Nat /\ Size(bs, rest) \in Nat
  BY <1>1, SizeIs
<1>7. Total(ks) = Total(bs) - Size(bs, gone) /\ Total(bs) \in Nat /\ Total(ks) \in Nat
  BY <1>4, <1>5, <1>6
<1>8. \A i \in DOMAIN ks : \E j \in rest : ks[i] = bs[j]
  BY <1>4
<1> QED
  BY <1>2, <1>4, <1>6, <1>7, <1>8, Zenon DEF rest, ks, Without

\* A block that is used goes to the end.
LEMMA MovedKeeps ==
  ASSUME NEW bs \in Seq(CachedBlock), NEW i \in DOMAIN bs, NoTwins(bs)
  PROVE  /\ Moved(bs, i) \in Seq(CachedBlock) /\ Total(Moved(bs, i)) = Total(bs) /\ NoTwins(Moved(bs, i))
         /\ \A k \in DOMAIN Moved(bs, i) : \E j \in DOMAIN bs : Moved(bs, i)[k] = bs[j]
<1> DEFINE one == {i}
           ks == Without(bs, one)
           b == bs[i]
           used == Append(ks, b)
           n == Len(ks) + 1
<1>1. b \in CachedBlock
  BY ElementOfSeq
<1>2. Size(bs, one) = b.len
  BY SizeOfOne
<1>3. one \subseteq DOMAIN bs /\ \A j \in DOMAIN bs \ one : j # i
  OBVIOUS
<1>8. Moved(bs, i) = used
  BY DEF Moved
<1> HIDE DEF one
<1>9. /\ ks \in Seq(CachedBlock) /\ Total(ks) = Total(bs) - Size(bs, one)
      /\ Size(bs, one) \in Nat /\ Total(bs) \in Nat
      /\ \A k \in DOMAIN ks : \E j \in DOMAIN bs \ one : ks[k] = bs[j]
      /\ NoTwins(ks)
  BY <1>3, WithoutKeeps
<1> HIDE DEF ks, b
<1>4. /\ used \in Seq(CachedBlock)
      /\ DOMAIN used = DOMAIN ks \cup {n} /\ n \notin DOMAIN ks
      /\ \A k \in DOMAIN ks : used[k] = ks[k]
      /\ used[n] = b
      /\ Total(used) = Total(ks) + b.len
  BY <1>1, <1>9, TotalAppend
<1>5. Total(used) = Total(bs)
  BY <1>2, <1>4, <1>9
<1>6. \A k \in DOMAIN used : \E j \in DOMAIN bs : used[k] = bs[j]
  BY <1>4, <1>9 DEF b
<1>7. NoTwins(used)
  <2>1. \A k \in DOMAIN ks : ~Twins(ks[k], b) /\ ~Twins(b, ks[k])
    BY <1>3, <1>9 DEF NoTwins, b, Twins
  <2> HIDE DEF used, n
  <2> SUFFICES ASSUME NEW k \in DOMAIN used, NEW l \in DOMAIN used, k # l PROVE ~Twins(used[k], used[l])
    BY DEF NoTwins
  <2>2. CASE k \in DOMAIN ks /\ l \in DOMAIN ks
    BY <1>9, <1>4, <2>2 DEF NoTwins
  <2>3. CASE k = n \/ l = n
    BY <1>4, <2>1, <2>3
  <2> QED
    BY <1>4, <2>2, <2>3
<1> QED
  BY <1>4, <1>5, <1>6, <1>7, <1>8

-----------------------------------------------------------------------------
(* The inductive invariant.                                                *)

ReadOps == [call: {"read"}, step: {"baseline", "block", "ahead", "done"}, path: Paths,
            off: Nat, len: Nat \ {0}, no: Nat, out: Nat, part: 0..(Block - 1), at: Nat,
            miss: BOOLEAN, oldest: Nat]
StatOps == [call: {"stat"}, step: {"asked", "answered"}, path: Paths, time: Nat, answer: File]
ListOps == [call: {"list"}, step: {"asked"}, time: Nat]
ChangeOps == [call: {"write", "unlink", "rename"}, step: {"invalidate"}, acks: SUBSET Paths, at: Nat]
Ops == {Free} \cup ReadOps \cup StatOps \cup ListOps \cup ChangeOps

Typed ==
    /\ file \in [Paths -> File]
    /\ event \in Nat /\ now \in Nat
    /\ blocks \in Seq(CachedBlock)
    /\ stamp \in [Paths -> Nat]
    /\ lastEnd \in [Paths -> Int]
    /\ attr \in [Paths -> [id: Nat, at: Nat, size: Nat, until: Nat]]
    /\ dirs \in [names: SUBSET Paths, until: Nat]
    /\ op \in Ops
    /\ seen \in [Paths -> Nat]
    /\ unguarded \in SUBSET Paths

\* The counter is right, no block is there twice, and the one to be prefetched
\* is not there yet.
Counted ==
    /\ bytes = Total(blocks) /\ bytes =< MaxBytes
    /\ NoTwins(blocks)
    /\ op.step = "ahead" => ~Cached(op.path, op.no)

\* The cache holds something of p that saw change a: a block, or the part of
\* one that a read has got so far.
HoldsIn(bs, o, p, a) ==
    \/ \E i \in DOMAIN bs : bs[i].path = p /\ bs[i].at = a
    \/ o.call = "read" /\ o.path = p /\ o.part > 0 /\ o.at = a
Holds(p, a) == HoldsIn(blocks, op, p, a)

\* Nothing is from the future.
Dated ==
    /\ \A p \in Paths :
           /\ file[p].id =< event /\ file[p].at =< event
           /\ stamp[p] =< event /\ attr[p].id =< event
           /\ attr[p].at =< file[p].at /\ seen[p] =< file[p].at
           /\ \A a \in Nat : Holds(p, a) => a =< file[p].at
    /\ op.call = "read" => op.oldest =< event
    /\ op.call = "stat" => op.answer.at =< file[op.path].at /\ op.answer.id =< event
    /\ op.step = "invalidate" => op.at =< event /\ \A p \in op.acks : op.at =< file[p].at

\* What is held of a path has a stamp to be dropped by, or is not guarded.
Stamped ==
    /\ \A p \in Paths :
           /\ There(attr[p]) => stamp[p] = attr[p].id
           /\ \A a \in Nat : Holds(p, a) => stamp[p] # 0 \/ p \in unguarded
    /\ op.step = "baseline" => stamp[op.path] = 0

Changing(p) == op.step = "invalidate" /\ p \in op.acks

\* What is held of a path is as new as all that was told of it, and as the
\* file itself while the stamp is the file's.
Fresh ==
    /\ \A p \in Paths \ unguarded :
         /\ \A a \in Nat : Holds(p, a) =>
              /\ a >= seen[p]
              /\ There(attr[p]) => a >= attr[p].at
              /\ There(file[p]) /\ stamp[p] = file[p].id /\ ~Changing(p) => a >= file[p].at
              /\ op.call = "stat" /\ op.path = p /\ There(op.answer) /\ stamp[p] = op.answer.id =>
                   a >= op.answer.at
    /\ op.call = "read" /\ op.path \notin unguarded => op.oldest >= seen[op.path]

CacheInv == Typed /\ Counted /\ Dated /\ Stamped /\ Fresh

-----------------------------------------------------------------------------
(* What a call in progress is.                                             *)

LEMMA OpKinds ==
  ASSUME NEW o \in Ops
  PROVE  /\ o.call = "read" <=> o \in ReadOps
         /\ o.call = "stat" <=> o \in StatOps
         /\ o.call = "list" <=> o \in ListOps
         /\ o.step = "invalidate" <=> o \in ChangeOps
         /\ o.step \in {"baseline", "block", "ahead", "done"} <=> o \in ReadOps
         /\ o.step \in {"asked", "answered"} <=> o \in StatOps \cup ListOps
         /\ o.step = "answered" => o \in StatOps
         /\ o.call \in Calls /\ o.step \in CallSteps
         /\ o = Free <=> o.call = "free"
<1>1. CASE o = Free
  BY <1>1 DEF Free, ReadOps, StatOps, ListOps, ChangeOps, Calls, CallSteps
<1>2. CASE o \in ReadOps
  BY <1>2 DEF Free, ReadOps, StatOps, ListOps, ChangeOps, Calls, CallSteps
<1>3. CASE o \in StatOps
  BY <1>3 DEF Free, ReadOps, StatOps, ListOps, ChangeOps, Calls, CallSteps
<1>4. CASE o \in ListOps
  BY <1>4 DEF Free, ReadOps, StatOps, ListOps, ChangeOps, Calls, CallSteps
<1>5. CASE o \in ChangeOps
  BY <1>5 DEF Free, ReadOps, StatOps, ListOps, ChangeOps, Calls, CallSteps
<1> QED
  BY <1>1, <1>2, <1>3, <1>4, <1>5 DEF Ops

\* The fields of a read.
LEMMA ReadFields ==
  ASSUME NEW o \in ReadOps
  PROVE  /\ o.call = "read" /\ o.step \in {"baseline", "block", "ahead", "done"} /\ o.path \in Paths
         /\ o.off \in Nat /\ o.len \in Nat \ {0} /\ o.no \in Nat /\ o.out \in Nat
         /\ o.part \in 0..(Block - 1) /\ o.part \in Nat /\ o.at \in Nat /\ o.miss \in BOOLEAN /\ o.oldest \in Nat
  BY CacheAssumption DEF ReadOps

LEMMA SmallerIs == \A m, n \in Int : Smaller(m, n) \in {m, n} /\ Smaller(m, n) =< m /\ Smaller(m, n) =< n
  BY DEF Smaller

LEMMA LargerIs == \A m, n \in Int : Larger(m, n) \in {m, n} /\ Larger(m, n) >= m /\ Larger(m, n) >= n
  BY DEF Larger

\* A read is about at least one block.
LEMMA BlocksOf ==
  ASSUME NEW o \in ReadOps
  PROVE  FirstBlock(o) \in Nat /\ LastBlock(o) \in Nat
<1>1. o.off \in Nat /\ o.off + o.len - 1 \in Nat /\ Block \in Nat \ {0}
  BY ReadFields, CacheAssumption
<1>2. \A n \in Nat : \A m \in Nat \ {0} : n \div m \in Nat
  OBVIOUS
<1> QED
  BY <1>1, <1>2, Zenon DEF FirstBlock, LastBlock

\* What a request takes of a block is a number of units.
LEMMA PieceIs ==
  ASSUME NEW o \in ReadOps, NEW len \in 0..Block
  PROVE  Piece(o, len) \in Nat
<1>1. o.off \in Nat /\ o.len \in Nat /\ o.no \in Nat /\ Block \in Nat
  BY ReadFields, CacheAssumption
<1> DEFINE start == o.no * Block
<1>2. start \in Nat
  BY <1>1
<1> HIDE DEF start
<1>3. Piece(o, len) = Larger(Smaller(len, Smaller(o.off + o.len - start, Block)) - Larger(o.off - start, 0), 0)
  BY DEF Piece, start
<1> QED
  BY <1>1, <1>2, <1>3 DEF Larger, Smaller

\* The blocks of a file that are not among some, past a given one.
Absent(bs, p, from, to) == {n \in from..to : \A i \in DOMAIN bs : ~IsBlock(bs[i], p, n)}

\* After a block a read goes on with the next one, or prefetches one that is not
\* there, or is done; nothing of the next block is received yet.
LEMMA OnwardIs ==
  ASSUME NEW o \in ReadOps, NEW len \in 0..Block, NEW miss \in BOOLEAN, NEW bs
  PROVE  /\ Onward(o, len, miss, bs) \in ReadOps
         /\ Onward(o, len, miss, bs).path = o.path
         /\ Onward(o, len, miss, bs).off = o.off /\ Onward(o, len, miss, bs).len = o.len
         /\ Onward(o, len, miss, bs).part = 0 /\ Onward(o, len, miss, bs).oldest = o.oldest
         /\ Onward(o, len, miss, bs).out = o.out + Piece(o, len)
         /\ \/ /\ len = Block /\ o.no < LastBlock(o)
               /\ Onward(o, len, miss, bs).step = o.step /\ Onward(o, len, miss, bs).no = o.no + 1
            \/ /\ ~(len = Block /\ o.no < LastBlock(o))
               /\ Onward(o, len, miss, bs).step \in {"ahead", "done"}
         /\ (~(len = Block /\ o.no < LastBlock(o)) /\ Onward(o, len, miss, bs).step = "ahead") =>
               \A i \in DOMAIN bs : ~IsBlock(bs[i], o.path, Onward(o, len, miss, bs).no)
<1> DEFINE out == o.out + Piece(o, len)
           m == o.miss \/ miss
           got == [o EXCEPT !.out = out, !.part = 0, !.at = 0, !.miss = m]
           absent == Absent(bs, o.path, LastBlock(o) + 1, LastBlock(o) + Readahead)
           least == CHOOSE n \in absent : \A k \in absent : n =< k
           next == Onward(o, len, miss, bs)
<1>1. out \in Nat /\ m \in BOOLEAN
  <2>1. o.out \in Nat /\ o.miss \in BOOLEAN /\ Piece(o, len) \in Nat
    BY ReadFields, PieceIs
  <2> QED
    BY <2>1
<1>2. absent \in SUBSET Nat /\ \A n \in absent : \A i \in DOMAIN bs : ~IsBlock(bs[i], o.path, n)
  <2>1. LastBlock(o) \in Nat /\ Readahead \in Nat
    BY BlocksOf, CacheAssumption
  <2>2. absent \subseteq (LastBlock(o) + 1)..(LastBlock(o) + Readahead)
    BY DEF Absent
  <2> QED
    BY <2>1, <2>2 DEF Absent
<1>3. absent # {} => least \in absent
  <2> HIDE DEF absent
  <2> QED
    BY <1>2, Least
<1>4. next = IF len = Block /\ o.no < LastBlock(o) THEN [got EXCEPT !.no = got.no + 1]
             ELSE IF len = Block /\ got.miss /\ absent # {} /\ lastEnd[o.path] = o.off
             THEN [got EXCEPT !.step = "ahead", !.no = least]
             ELSE [got EXCEPT !.step = "done"]
  BY DEF Onward, Absent
<1> HIDE DEF out, m, next, absent, least
<1>5. /\ got \in ReadOps /\ got.step = o.step /\ got.path = o.path /\ got.off = o.off /\ got.len = o.len
      /\ got.part = 0 /\ got.oldest = o.oldest /\ got.out = out /\ got.no = o.no
  <2>1. 0 \in 0..(Block - 1)
    BY CacheAssumption
  <2> QED
    BY <1>1, <2>1 DEF ReadOps
<1>6. o.no \in Nat
  BY ReadFields
<1> HIDE DEF got
<1>7. CASE len = Block /\ o.no < LastBlock(o)
  <2>1. next = [got EXCEPT !.no = got.no + 1]
    BY <1>4, <1>7
  <2>2. /\ next \in ReadOps /\ next.step = o.step /\ next.path = o.path /\ next.off = o.off /\ next.len = o.len
        /\ next.part = 0 /\ next.oldest = o.oldest /\ next.out = out /\ next.no = o.no + 1
    BY <1>5, <1>6, <2>1 DEF ReadOps
  <2> QED
    BY <1>7, <2>2 DEF next, out
<1>8. CASE ~(len = Block /\ o.no < LastBlock(o))
  <2>1. CASE len = Block /\ got.miss /\ absent # {} /\ lastEnd[o.path] = o.off
    <3>1. next = [got EXCEPT !.step = "ahead", !.no = least] /\ least \in absent /\ least \in Nat
      BY <1>2, <1>3, <1>4, <1>8, <2>1
    <3>2. /\ next \in ReadOps /\ next.step = "ahead" /\ next.path = o.path /\ next.off = o.off
          /\ next.len = o.len /\ next.part = 0 /\ next.oldest = o.oldest /\ next.out = out /\ next.no = least
      BY <1>5, <3>1 DEF ReadOps
    <3>3. \A i \in DOMAIN bs : ~IsBlock(bs[i], o.path, next.no)
      BY <1>2, <3>1, <3>2
    <3> QED
      BY <1>8, <3>2, <3>3 DEF next, out
  <2>2. CASE ~(len = Block /\ got.miss /\ absent # {} /\ lastEnd[o.path] = o.off)
    <3>1. next = [got EXCEPT !.step = "done"]
      BY <1>4, <1>8, <2>2
    <3>2. /\ next \in ReadOps /\ next.step = "done" /\ next.path = o.path /\ next.off = o.off
          /\ next.len = o.len /\ next.part = 0 /\ next.oldest = o.oldest /\ next.out = out
      BY <1>5, <3>1 DEF ReadOps
    <3> QED
      BY <1>8, <3>2 DEF next, out
  <2> QED
    BY <2>1, <2>2
<1> QED
  BY <1>7, <1>8

\* So with a prefetched block.
LEMMA AheadOnwardIs ==
  ASSUME NEW o \in ReadOps, NEW len \in 0..Block, NEW bs
  PROVE  /\ AheadOnward(o, len, bs) \in ReadOps
         /\ AheadOnward(o, len, bs).path = o.path
         /\ AheadOnward(o, len, bs).off = o.off /\ AheadOnward(o, len, bs).len = o.len
         /\ AheadOnward(o, len, bs).part = 0 /\ AheadOnward(o, len, bs).oldest = o.oldest
         /\ AheadOnward(o, len, bs).out = o.out
         /\ AheadOnward(o, len, bs).step \in {o.step, "done"}
         /\ AheadOnward(o, len, bs).step # "done" =>
               \A i \in DOMAIN bs : ~IsBlock(bs[i], o.path, AheadOnward(o, len, bs).no)
<1> DEFINE got == [o EXCEPT !.part = 0, !.at = 0]
           absent == Absent(bs, o.path, o.no + 1, LastBlock(o) + Readahead)
           least == CHOOSE n \in absent : \A k \in absent : n =< k
           next == AheadOnward(o, len, bs)
<1>1. absent \in SUBSET Nat /\ \A n \in absent : \A i \in DOMAIN bs : ~IsBlock(bs[i], o.path, n)
  <2>1. LastBlock(o) \in Nat /\ Readahead \in Nat /\ o.no \in Nat
    BY BlocksOf, ReadFields, CacheAssumption
  <2>2. absent \subseteq (o.no + 1)..(LastBlock(o) + Readahead)
    BY DEF Absent
  <2> QED
    BY <2>1, <2>2 DEF Absent
<1>2. absent # {} => least \in absent
  <2> HIDE DEF absent
  <2> QED
    BY <1>1, Least
<1>3. next = IF len = Block /\ absent # {} THEN [got EXCEPT !.no = least] ELSE [got EXCEPT !.step = "done"]
  BY DEF AheadOnward, Absent
<1> HIDE DEF next, absent, least
<1>4. /\ got \in ReadOps /\ got.step = o.step /\ got.path = o.path /\ got.off = o.off /\ got.len = o.len
      /\ got.part = 0 /\ got.oldest = o.oldest /\ got.out = o.out
  <2>1. 0 \in 0..(Block - 1)
    BY CacheAssumption
  <2> QED
    BY <2>1 DEF ReadOps
<1> HIDE DEF got
<1>5. CASE len = Block /\ absent # {}
  <2>1. next = [got EXCEPT !.no = least] /\ least \in absent /\ least \in Nat
    BY <1>1, <1>2, <1>3, <1>5
  <2>2. /\ next \in ReadOps /\ next.step = o.step /\ next.path = o.path /\ next.off = o.off /\ next.len = o.len
        /\ next.part = 0 /\ next.oldest = o.oldest /\ next.out = o.out /\ next.no = least
    BY <1>4, <2>1 DEF ReadOps
  <2>3. \A i \in DOMAIN bs : ~IsBlock(bs[i], o.path, next.no)
    BY <1>1, <2>1, <2>2
  <2> QED
    BY <2>2, <2>3 DEF next
<1>6. CASE ~(len = Block /\ absent # {})
  <2>1. next = [got EXCEPT !.step = "done"]
    BY <1>3, <1>6
  <2>2. /\ next \in ReadOps /\ next.step = "done" /\ next.path = o.path /\ next.off = o.off /\ next.len = o.len
        /\ next.part = 0 /\ next.oldest = o.oldest /\ next.out = o.out
    BY <1>4, <2>1 DEF ReadOps
  <2> QED
    BY <2>2 DEF next
<1> QED
  BY <1>5, <1>6

-----------------------------------------------------------------------------
(* Steps that change neither the files nor what the cache knows of them,   *)
(* but its blocks and the call.                                            *)

\* The call may be so, of a cache that knows what this one does.
Sound(o, loose) ==
    /\ o.call = "read" =>
         /\ o.oldest =< event
         /\ o.path \notin loose => o.oldest >= seen[o.path]
         /\ o.step = "baseline" => stamp[o.path] = 0
    /\ o.call = "stat" => o.answer \in {NoFile, file[o.path]}
    /\ o.step # "invalidate"

CountedWith(bs, total, o) ==
    /\ bs \in Seq(CachedBlock) /\ total = Total(bs) /\ total =< MaxBytes /\ NoTwins(bs)
    /\ o.step = "ahead" => \A i \in DOMAIN bs : ~IsBlock(bs[i], o.path, o.no)

\* Nothing is held that was not, but of the file as it is.
NothingOlder(bs, o, loose) ==
    \A p \in Paths : \A a \in Nat :
       HoldsIn(bs, o, p, a) => Holds(p, a) \/ (a = file[p].at /\ (stamp[p] # 0 \/ p \in loose))

\* Steps that fetch: of a path that has no stamp, nothing is guarded.
LEMMA Fetches ==
  ASSUME CacheInv, UNCHANGED <<server, stamp, attr, seen>>, unguarded' \in SUBSET Paths,
         unguarded \subseteq unguarded', now' \in Nat, lastEnd' \in [Paths -> Int], dirs' \in [names: SUBSET Paths, until: Nat],
         op' \in Ops, op.step # "invalidate", Sound(op', unguarded'), CountedWith(blocks', bytes', op'),
         NothingOlder(blocks', op', unguarded')
  PROVE  CacheInv'
<1>1. Typed /\ Dated /\ Stamped /\ Fresh
  BY DEF CacheInv
<1>2. UNCHANGED <<file, event, stamp, attr, seen>> /\ unguarded' \in SUBSET Paths /\ unguarded \subseteq unguarded'
  BY DEF server
<1>3. Typed'
  BY <1>1, <1>2 DEF Typed, CountedWith
<1>4. Counted'
  BY DEF Counted, CountedWith, Cached
<1>5. \A p \in Paths : \A a \in Nat :
        Holds(p, a)' => Holds(p, a) \/ (a = file[p].at /\ (stamp[p] # 0 \/ p \in unguarded'))
  BY DEF NothingOlder, Holds
<1>6. \A p \in Paths : file[p] \in File /\ attr[p].at \in Nat /\ seen[p] \in Nat /\ file[p].at \in Nat
  BY <1>1 DEF Typed, File
<1>7. op'.call = "stat" => op'.path \in Paths /\ op'.answer \in {NoFile, file[op'.path]}
  BY OpKinds DEF Sound, StatOps
<1>8. op'.call = "read" => op'.path \in Paths
  BY OpKinds, ReadFields
<1>9. Dated'
  <2>1. \A p \in Paths : \A a \in Nat : Holds(p, a)' => a =< file[p].at
    BY <1>1, <1>5, <1>6 DEF Dated
  <2>2. ASSUME op'.call = "stat" PROVE op'.answer.at =< file[op'.path].at /\ op'.answer.id =< event
    <3>1. file[op'.path].at \in Nat /\ file[op'.path].id =< event /\ event \in Nat
      BY <1>1, <1>6, <1>7, <2>2 DEF Dated, Typed
    <3>2. CASE op'.answer = NoFile
      BY <3>1, <3>2 DEF NoFile
    <3>3. CASE op'.answer = file[op'.path]
      BY <3>1, <3>3
    <3> QED
      BY <1>7, <2>2, <3>2, <3>3
  <2> QED
    BY <1>1, <1>2, <2>1, <2>2 DEF Dated, Sound
<1>10. Stamped'
  <2>1. \A p \in Paths : \A a \in Nat : Holds(p, a)' => stamp[p] # 0 \/ p \in unguarded'
    BY <1>1, <1>2, <1>5 DEF Stamped
  <2>2. op'.step \in {"baseline", "block", "ahead"} => op'.call = "read"
    BY OpKinds
  <2> QED
    BY <1>1, <1>2, <2>1, <2>2 DEF Stamped, Sound
<1>11. Fresh'
  <2>1. ASSUME NEW p \in Paths \ unguarded', NEW a \in Nat, Holds(p, a)'
        PROVE  /\ a >= seen[p]
               /\ There(attr[p]) => a >= attr[p].at
               /\ There(file[p]) /\ stamp[p] = file[p].id => a >= file[p].at
               /\ op'.call = "stat" /\ op'.path = p /\ There(op'.answer) /\ stamp[p] = op'.answer.id =>
                    a >= op'.answer.at
    <3>1. CASE Holds(p, a)
      <4>1. /\ a >= seen[p]
            /\ There(attr[p]) => a >= attr[p].at
            /\ There(file[p]) /\ stamp[p] = file[p].id => a >= file[p].at
        BY <1>1, <1>2, <3>1 DEF Fresh, Changing
      <4> QED
        BY <1>7, <4>1 DEF NoFile, There
    <3>2. CASE a = file[p].at
      <4>1. a >= seen[p] /\ a >= attr[p].at /\ a >= file[p].at
        BY <1>1, <1>6, <3>2 DEF Dated
      <4> QED
        BY <1>7, <4>1 DEF NoFile, There
    <3> QED
      BY <1>5, <2>1, <3>1, <3>2
  <2>2. op'.call = "read" /\ op'.path \notin unguarded' => op'.oldest >= seen[op'.path]
    BY DEF Sound
  <2> QED
    BY <1>2, <2>1, <2>2 DEF Fresh
<1> QED
  BY <1>3, <1>4, <1>9, <1>10, <1>11 DEF CacheInv

LEMMA SameBlocks ==
  ASSUME CacheInv, UNCHANGED <<blocks, bytes>>, op'.step # "ahead", op'.call = "read" => op'.part = 0
  PROVE  CountedWith(blocks', bytes', op') /\ NothingOlder(blocks', op', unguarded')
<1>1. blocks \in Seq(CachedBlock) /\ Counted
  BY DEF CacheInv, Typed
<1>2. CountedWith(blocks', bytes', op')
  BY <1>1 DEF Counted, CountedWith
<1>3. NothingOlder(blocks', op', unguarded')
  BY DEF NothingOlder, HoldsIn, Holds
<1> QED
  BY <1>2, <1>3

LEMMA Quiet ==
  ASSUME CacheInv, UNCHANGED <<server, stamp, attr, told>>,
         now' \in Nat, lastEnd' \in [Paths -> Int], dirs' \in [names: SUBSET Paths, until: Nat],
         op' \in Ops, op.step # "invalidate", Sound(op', unguarded'), CountedWith(blocks', bytes', op'),
         NothingOlder(blocks', op', unguarded')
  PROVE  CacheInv'
<1>1. UNCHANGED <<seen, unguarded>> /\ unguarded \in SUBSET Paths
  BY DEF told, CacheInv, Typed
<1>2. unguarded' \in SUBSET Paths /\ unguarded \subseteq unguarded'
  BY <1>1
<1> QED
  BY <1>1, <1>2, Fetches

\* The call in progress, and what is known while it is.
LEMMA CallFacts ==
  ASSUME CacheInv
  PROVE  /\ op \in Ops /\ now \in Nat /\ event \in Nat /\ lastEnd \in [Paths -> Int]
         /\ dirs \in [names: SUBSET Paths, until: Nat]
         /\ blocks \in Seq(CachedBlock) /\ bytes = Total(blocks) /\ NoTwins(blocks)
         /\ \A p \in Paths : /\ file[p] \in File /\ file[p].at \in Nat /\ file[p].id \in Nat /\ file[p].size \in Nat
                             /\ stamp[p] \in Nat /\ seen[p] \in Nat /\ attr[p].at \in Nat /\ attr[p].id \in Nat
                             /\ attr[p].until \in Nat /\ attr[p].size \in Nat
  BY DEF CacheInv, Typed, Counted, File

\* Nothing is going on but what needs no facts of its own.
LEMMA Ends ==
  ASSUME CacheInv, op' = Free, op.step # "invalidate", UNCHANGED <<server, now, stamp, attr, told, blocks, bytes>>,
         lastEnd' \in [Paths -> Int], dirs' \in [names: SUBSET Paths, until: Nat]
  PROVE  CacheInv'
<1>1. op' \in Ops /\ op'.step # "ahead" /\ op'.call # "read" /\ Sound(op', unguarded')
  BY DEF Ops, Free, Sound
<1>2. CountedWith(blocks', bytes', op') /\ NothingOlder(blocks', op', unguarded')
  BY <1>1, SameBlocks
<1> QED
  BY <1>1, <1>2, CallFacts, Quiet

LEMMA ReadKeeps ==
  ASSUME CacheInv, NEW p \in Paths, NEW r \in Requests, Read(p, r)
  PROVE  CacheInv'
<1>1. op = Free /\ UNCHANGED <<server, now, blocks, bytes, lastEnd, attr, dirs, told>>
  BY DEF Read
<1>2. stamp[p] = 0 => ~There(attr[p]) /\ attr[p].id = 0
  BY DEF CacheInv, Stamped, There
<1>3. stamp' = stamp
  <2>1. stamp \in [Paths -> Nat]
    BY DEF CacheInv, Typed
  <2> QED
    BY <1>2, <2>1 DEF Read
<1>4. r.off \in Nat /\ r.len \in Nat \ {0}
  BY RequestsAssumption
<1>5. FirstBlock(r) \in Nat
  <2>1. \A n \in Nat : \A m \in Nat \ {0} : n \div m \in Nat
    OBVIOUS
  <2> QED
    BY <1>4, <2>1, CacheAssumption, Zenon DEF FirstBlock
<1> DEFINE step == IF stamp[p] = 0 THEN "baseline" ELSE "block"
           o == [call |-> "read", path |-> p, off |-> r.off, len |-> r.len, step |-> step,
                 no |-> FirstBlock(r), out |-> 0, part |-> 0, at |-> 0, miss |-> FALSE, oldest |-> event]
<1>6. op' = o
  BY <1>2 DEF Read
<1>7. step \in {"baseline", "block"} /\ (step = "block" => stamp[p] # 0) /\ (step = "baseline" => stamp[p] = 0)
  OBVIOUS
<1> HIDE DEF step
<1>8. o \in ReadOps
  <2>1. 0 \in 0..(Block - 1)
    BY CacheAssumption
  <2> QED
    BY <1>4, <1>5, <1>7, <2>1, CallFacts DEF ReadOps
<1>9. o.call = "read" /\ o.step = step /\ o.path = p /\ o.part = 0 /\ o.oldest = event
  OBVIOUS
<1> HIDE DEF o
<1>10. op.step # "invalidate"
  BY <1>1 DEF Free
<1>11. seen[p] =< event
  <2>1. seen[p] =< file[p].at /\ file[p].at =< event
    BY DEF CacheInv, Dated
  <2> QED
    BY <2>1, CallFacts
<1>12. Sound(op', unguarded')
  <2>1. UNCHANGED unguarded
    BY <1>1 DEF told
  <2> QED
    BY <1>6, <1>7, <1>9, <1>11, <2>1, CallFacts DEF Sound
<1>13. CountedWith(blocks', bytes', op') /\ NothingOlder(blocks', op', unguarded')
  BY <1>1, <1>6, <1>7, <1>9, SameBlocks
<1>14. op' \in Ops
  BY <1>6, <1>8 DEF Ops
<1> QED
  BY <1>1, <1>3, <1>10, <1>12, <1>13, <1>14, CallFacts, Quiet

LEMMA StatKeeps ==
  ASSUME CacheInv, NEW p \in Paths, Stat(p)
  PROVE  CacheInv'
<1>1. op = Free /\ UNCHANGED <<server, now, cache, told>>
  BY DEF Stat
<1>2. op' = [call |-> "stat", step |-> "asked", path |-> p, time |-> now, answer |-> NoFile]
  BY DEF Stat
<1>3. op' \in StatOps /\ op'.step = "asked" /\ op'.call = "stat" /\ op'.answer = NoFile
  BY <1>2, CallFacts DEF StatOps, NoFile, File
<1>4. Sound(op', unguarded') /\ op.step # "invalidate" /\ op' \in Ops
  BY <1>1, <1>3 DEF Sound, Free, Ops
<1>5. UNCHANGED <<blocks, bytes, stamp, lastEnd, attr, dirs>>
  BY <1>1 DEF cache
<1>6. CountedWith(blocks', bytes', op') /\ NothingOlder(blocks', op', unguarded')
  BY <1>3, <1>5, SameBlocks
<1> QED
  BY <1>1, <1>4, <1>5, <1>6, CallFacts, Quiet

LEMMA StatAskedKeeps ==
  ASSUME CacheInv, StatAsked
  PROVE  CacheInv'
<1>1. op.call = "stat" /\ op.step = "asked" /\ UNCHANGED <<server, now, cache, told>>
  BY DEF StatAsked
<1>2. op \in StatOps
  BY <1>1, CallFacts, OpKinds
<1>3. op' = [op EXCEPT !.step = "answered", !.answer = file[op.path]]
  BY DEF StatAsked
<1>4. file[op.path] \in File
  BY <1>2, CallFacts DEF StatOps
<1>5. op' \in StatOps /\ op'.step = "answered" /\ op'.call = "stat" /\ op'.answer = file[op.path] /\ op'.path = op.path
  BY <1>2, <1>3, <1>4 DEF StatOps
<1>6. Sound(op', unguarded') /\ op.step # "invalidate" /\ op' \in Ops
  BY <1>1, <1>5 DEF Sound, Ops
<1>7. UNCHANGED <<blocks, bytes, stamp, lastEnd, attr, dirs>>
  BY <1>1 DEF cache
<1>8. CountedWith(blocks', bytes', op') /\ NothingOlder(blocks', op', unguarded')
  BY <1>5, <1>7, SameBlocks
<1> QED
  BY <1>1, <1>6, <1>7, <1>8, CallFacts, Quiet

LEMMA ListKeeps ==
  ASSUME CacheInv, List
  PROVE  CacheInv'
<1>1. op = Free /\ UNCHANGED <<server, now, cache, told>>
  BY DEF List
<1>2. op' \in ListOps /\ op'.step = "asked" /\ op'.call = "list"
  BY CallFacts DEF List, ListOps
<1>3. Sound(op', unguarded') /\ op.step # "invalidate" /\ op' \in Ops
  BY <1>1, <1>2 DEF Sound, Free, Ops
<1>4. UNCHANGED <<blocks, bytes, stamp, lastEnd, attr, dirs>>
  BY <1>1 DEF cache
<1>5. CountedWith(blocks', bytes', op') /\ NothingOlder(blocks', op', unguarded')
  BY <1>2, <1>4, SameBlocks
<1> QED
  BY <1>1, <1>3, <1>4, <1>5, CallFacts, Quiet

LEMMA ListAnsweredKeeps ==
  ASSUME CacheInv, ListAnswered
  PROVE  CacheInv'
<1>1. op.call = "list" /\ op' = Free /\ UNCHANGED <<server, now, blocks, bytes, stamp, lastEnd, attr, told>>
  BY DEF ListAnswered
<1>2. op \in ListOps
  BY <1>1, CallFacts, OpKinds
<1>3. op.step # "invalidate" /\ op.time \in Nat
  BY <1>2 DEF ListOps
<1>4. op.time + Ttl \in Nat
  BY <1>3, CacheAssumption
<1>5. dirs' \in [names: SUBSET Paths, until: Nat]
  BY <1>4 DEF ListAnswered
<1> QED
  BY <1>1, <1>3, <1>5, CallFacts, Ends

LEMMA ReadEndsKeep ==
  ASSUME CacheInv, FetchFindsNothing \/ ReadReturns
  PROVE  CacheInv'
<1>1. op \in ReadOps /\ op.step # "invalidate"
  <2>1. op.step \in {"block", "ahead", "done"}
    BY DEF FetchFindsNothing, ReadReturns, Fetching
  <2> QED
    BY <2>1, CallFacts, OpKinds
<1>2. CASE FetchFindsNothing
  <2>1. op' = Free /\ UNCHANGED <<server, now, blocks, bytes, stamp, lastEnd, attr, dirs, told>>
    BY <1>2 DEF FetchFindsNothing, cache
  <2> QED
    BY <1>1, <2>1, CallFacts, Ends
<1>3. CASE ReadReturns
  <2>1. op' = Free /\ UNCHANGED <<server, now, blocks, bytes, stamp, attr, dirs, told>>
    BY <1>3 DEF ReadReturns
  <2>2. op.off + op.out \in Int
    BY <1>1, ReadFields
  <2>3. lastEnd' \in [Paths -> Int]
    BY <1>3, <2>2, CallFacts DEF ReadReturns
  <2> QED
    BY <1>1, <2>1, <2>3, CallFacts, Ends
<1> QED
  BY <1>2, <1>3

\* A read that used a block it holds, or the file as it is, is as fresh as before.
LEMMA OldestIs ==
  ASSUME CacheInv, op \in ReadOps, NEW a \in Nat, Holds(op.path, a) \/ a = file[op.path].at
  PROVE  /\ Smaller(op.oldest, a) \in Nat /\ Smaller(op.oldest, a) =< event
         /\ op.path \notin unguarded => Smaller(op.oldest, a) >= seen[op.path]
<1>1. op.call = "read" /\ op.path \in Paths /\ op.oldest \in Nat
  BY ReadFields
<1>2. op.oldest =< event /\ (op.path \notin unguarded => op.oldest >= seen[op.path])
  BY <1>1 DEF CacheInv, Dated, Fresh
<1>3. op.path \notin unguarded => a >= seen[op.path]
  <2>1. CASE Holds(op.path, a)
    BY <1>1, <2>1 DEF CacheInv, Fresh
  <2>2. CASE a = file[op.path].at
    BY <1>1, <2>2, CallFacts DEF CacheInv, Dated
  <2> QED
    BY <2>1, <2>2
<1>4. Smaller(op.oldest, a) \in {op.oldest, a} /\ Smaller(op.oldest, a) =< op.oldest
  BY <1>1, SmallerIs
<1> QED
  BY <1>1, <1>2, <1>3, <1>4, CallFacts

LEMMA HitKeeps ==
  ASSUME CacheInv, Hit
  PROVE  CacheInv' /\ op'.call = "read"
<1> DEFINE i == PlaceOf(op.path, op.no)
           b == blocks[i]
           used == Moved(blocks, i)
           o == [op EXCEPT !.oldest = Smaller(op.oldest, b.at)]
           miss == FALSE
<1>1. op.step = "block" /\ op \in ReadOps
  BY CallFacts, OpKinds DEF Hit
<1>2. i \in DOMAIN blocks /\ IsBlock(b, op.path, op.no)
  BY DEF Hit, Cached, PlaceOf
<1>3. /\ blocks' = used /\ op' = Onward(o, b.len, miss, used)
      /\ UNCHANGED <<server, now, bytes, stamp, lastEnd, attr, dirs, told>>
  BY DEF Hit
<1>0. miss \in BOOLEAN
  OBVIOUS
<1> HIDE DEF miss
<1>4. b \in CachedBlock /\ b.path = op.path /\ b.at \in Nat /\ b.len \in 0..Block
  <2>1. b \in CachedBlock
    BY <1>2, CallFacts, ElementOfSeq
  <2> HIDE DEF b
  <2> QED
    BY <1>2, <2>1 DEF IsBlock, CachedBlock
<1>5. Holds(op.path, b.at)
  BY <1>2, <1>4 DEF Holds, HoldsIn
<1> HIDE DEF i
<1>6. /\ used \in Seq(CachedBlock) /\ Total(used) = Total(blocks) /\ NoTwins(used)
      /\ \A k \in DOMAIN used : \E j \in DOMAIN blocks : used[k] = blocks[j]
  BY <1>2, CallFacts, MovedKeeps
<1> HIDE DEF b, used
<1>7. /\ Smaller(op.oldest, b.at) \in Nat /\ Smaller(op.oldest, b.at) =< event
      /\ op.path \notin unguarded => Smaller(op.oldest, b.at) >= seen[op.path]
  BY <1>1, <1>4, <1>5, OldestIs
<1>8. o \in ReadOps /\ o.path = op.path /\ o.oldest = Smaller(op.oldest, b.at) /\ o.step = "block"
  BY <1>1, <1>7 DEF ReadOps
<1> HIDE DEF o
<1>9. /\ op' \in ReadOps /\ op'.path = op.path /\ op'.part = 0 /\ op'.oldest = o.oldest
      /\ op'.step \in {"block", "ahead", "done"}
      /\ op'.step = "ahead" => \A k \in DOMAIN used : ~IsBlock(used[k], op'.path, op'.no)
  BY <1>0, <1>3, <1>4, <1>8, OnwardIs
<1>10. op'.call = "read" /\ op' \in Ops
  BY <1>9, ReadFields DEF Ops
<1>11. Sound(op', unguarded')
  <2>1. UNCHANGED <<seen, unguarded>>
    BY <1>3 DEF told
  <2> QED
    BY <1>7, <1>8, <1>9, <1>10, <2>1 DEF Sound
<1>12. CountedWith(blocks', bytes', op')
  <2>1. bytes = Total(blocks) /\ bytes =< MaxBytes
    BY DEF CacheInv, Counted
  <2> QED
    BY <1>3, <1>6, <1>9, <2>1 DEF CountedWith
<1>13. NothingOlder(blocks', op', unguarded')
  BY <1>3, <1>6, <1>9 DEF NothingOlder, HoldsIn, Holds
<1> QED
  BY <1>1, <1>3, <1>10, <1>11, <1>12, <1>13, CallFacts, Quiet

\* What a round-trip adds to a block that is being received.
LEMMA Received ==
  ASSUME CacheInv, Fetching, There(file[op.path])
  PROVE  /\ op \in ReadOps /\ op.path \in Paths /\ op.step \in {"block", "ahead"}
         /\ Chunk \in Nat /\ op.part + Chunk \in 0..Block /\ op.part + Chunk =< Block
         /\ ~Cached(op.path, op.no)
         /\ FirstAt \in Nat /\ (Holds(op.path, FirstAt) \/ FirstAt = file[op.path].at)
<1>1. op.step \in {"block", "ahead"} /\ op \in ReadOps
  BY CallFacts, OpKinds DEF Fetching
<1>2. op.path \in Paths /\ op.part \in 0..(Block - 1) /\ op.no \in Nat /\ op.at \in Nat /\ op.call = "read"
  BY <1>1, ReadFields
<1>3. Block \in Nat \ {0} /\ file[op.path].size \in Nat /\ op.part \in Nat
  BY <1>2, CacheAssumption, CallFacts
<1> DEFINE start == op.no * Block
<1>4. start \in Nat
  BY <1>2, <1>3
<1> HIDE DEF start
<1>5. Chunk = Larger(0, Smaller(Block - op.part, file[op.path].size - start - op.part))
  BY DEF Chunk, start
<1>6. Chunk \in Nat /\ Chunk =< Block - op.part
  BY <1>2, <1>3, <1>4, <1>5 DEF Larger, Smaller
<1>7. op.part + Chunk \in 0..Block /\ op.part + Chunk =< Block
  BY <1>3, <1>6
<1>8. ~Cached(op.path, op.no)
  BY DEF Fetching, CacheInv, Counted
<1>10. FirstAt \in Nat
  BY <1>2, CallFacts DEF FirstAt
<1>11. Holds(op.path, FirstAt) \/ FirstAt = file[op.path].at
  BY <1>2 DEF FirstAt, Holds, HoldsIn
<1> QED
  BY <1>1, <1>2, <1>6, <1>7, <1>8, <1>10, <1>11

\* A path of which something is received has a stamp or is not guarded.
LEMMA Guarded ==
  ASSUME CacheInv, op \in ReadOps, Unguard
  PROVE  /\ unguarded' \in SUBSET Paths /\ unguarded \subseteq unguarded'
         /\ stamp[op.path] # 0 \/ op.path \in unguarded'
<1>1. op.path \in Paths /\ unguarded \in SUBSET Paths
  BY ReadFields DEF CacheInv, Typed
<1> QED
  BY <1>1 DEF Unguard

LEMMA FetchMoreKeeps ==
  ASSUME CacheInv, FetchMore
  PROVE  CacheInv' /\ op'.call = "read"
<1> DEFINE part == op.part + Chunk
           at == FirstAt
<1>1. Fetching /\ There(file[op.path]) /\ part < Block /\ UNCHANGED <<server, now, cache, seen>> /\ Unguard
  BY DEF FetchMore
<1>2. op' = [op EXCEPT !.part = part, !.at = at]
  BY DEF FetchMore
<1>3. /\ op \in ReadOps /\ op.path \in Paths /\ op.step \in {"block", "ahead"}
      /\ part \in 0..Block /\ ~Cached(op.path, op.no)
      /\ at \in Nat /\ (Holds(op.path, at) \/ at = file[op.path].at)
  BY <1>1, Received
<1> HIDE DEF part, at
<1>4. part \in 0..(Block - 1)
  BY <1>1, <1>3, CacheAssumption
<1>5. /\ op' \in ReadOps /\ op'.path = op.path /\ op'.step = op.step /\ op'.oldest = op.oldest
      /\ op'.no = op.no /\ op'.at = at
  BY <1>2, <1>3, <1>4 DEF ReadOps
<1>6. op'.call = "read" /\ op.call = "read" /\ op' \in Ops
  BY <1>3, <1>5, ReadFields DEF Ops
<1>12. /\ unguarded' \in SUBSET Paths /\ unguarded \subseteq unguarded'
       /\ stamp[op.path] # 0 \/ op.path \in unguarded'
  BY <1>1, <1>3, Guarded
<1>7. Sound(op', unguarded')
  BY <1>1, <1>3, <1>5, <1>6, <1>12 DEF Sound, CacheInv, Dated, Fresh
<1>8. UNCHANGED <<blocks, bytes, stamp, lastEnd, attr, dirs>>
  BY <1>1 DEF cache
<1>9. CountedWith(blocks', bytes', op')
  BY <1>3, <1>5, <1>8, CallFacts DEF CountedWith, CacheInv, Counted, Cached
<1>10. NothingOlder(blocks', op', unguarded')
  BY <1>1, <1>3, <1>5, <1>8, <1>12 DEF NothingOlder, HoldsIn, Holds
<1>11. op.step # "invalidate"
  BY <1>3
<1> QED
  BY <1>1, <1>6, <1>7, <1>8, <1>9, <1>10, <1>11, <1>12, CallFacts, Fetches

LEMMA FetchEndsKeeps ==
  ASSUME CacheInv, FetchEnds
  PROVE  CacheInv' /\ op'.call = "read"
<1> DEFINE len == op.part + Chunk
           b == [path |-> op.path, no |-> op.no, len |-> len, at |-> FirstAt]
           bs == Append(blocks, b)
           total == bytes + b.len
           kept == Evicted(bs, total)
           o == [op EXCEPT !.oldest = Smaller(op.oldest, b.at)]
           miss == TRUE
<1>1. /\ Fetching /\ There(file[op.path])
      /\ UNCHANGED <<server, now, stamp, lastEnd, attr, dirs, seen>> /\ Unguard
      /\ blocks' = kept.blocks /\ bytes' = kept.bytes
      /\ op' = IF op.step = "ahead" THEN AheadOnward(op, b.len, kept.blocks)
               ELSE Onward(o, b.len, miss, kept.blocks)
  BY DEF FetchEnds
<1>0. miss \in BOOLEAN
  OBVIOUS
<1> HIDE DEF miss
<1>2. /\ op \in ReadOps /\ op.path \in Paths /\ op.step \in {"block", "ahead"}
      /\ len \in 0..Block /\ ~Cached(op.path, op.no)
      /\ FirstAt \in Nat /\ (Holds(op.path, FirstAt) \/ FirstAt = file[op.path].at)
  BY <1>1, Received
<1>17. /\ unguarded' \in SUBSET Paths /\ unguarded \subseteq unguarded'
       /\ stamp[op.path] # 0 \/ op.path \in unguarded'
  BY <1>1, <1>2, Guarded
<1> HIDE DEF len
<1>3. b \in CachedBlock /\ b.path = op.path /\ b.no = op.no /\ b.len = len /\ b.at = FirstAt
  BY <1>2, ReadFields DEF CachedBlock
<1> HIDE DEF b
<1>4. blocks \in Seq(CachedBlock) /\ bytes = Total(blocks) /\ NoTwins(blocks)
  BY CallFacts
<1>5. /\ bs \in Seq(CachedBlock)
      /\ DOMAIN bs = DOMAIN blocks \cup {Len(blocks) + 1} /\ Len(blocks) + 1 \notin DOMAIN blocks
      /\ \A i \in DOMAIN blocks : bs[i] = blocks[i]
      /\ bs[Len(blocks) + 1] = b
      /\ Total(bs) = total
  BY <1>3, <1>4, TotalAppend
<1> HIDE DEF bs, total
<1>6. NoTwins(bs)
  <2>1. \A i \in DOMAIN blocks : ~Twins(blocks[i], b) /\ ~Twins(b, blocks[i])
    BY <1>2, <1>3 DEF Cached, IsBlock, Twins
  <2> SUFFICES ASSUME NEW k \in DOMAIN bs, NEW l \in DOMAIN bs, k # l PROVE ~Twins(bs[k], bs[l])
    BY DEF NoTwins
  <2>2. CASE k \in DOMAIN blocks /\ l \in DOMAIN blocks
    BY <1>4, <1>5, <2>2 DEF NoTwins
  <2>3. CASE k = Len(blocks) + 1 \/ l = Len(blocks) + 1
    BY <1>5, <2>1, <2>3
  <2> QED
    BY <1>5, <2>2, <2>3
<1>7. /\ kept.blocks \in Seq(CachedBlock) /\ kept.bytes = Total(kept.blocks) /\ kept.bytes =< MaxBytes
      /\ \A i \in DOMAIN kept.blocks : \E j \in DOMAIN bs : kept.blocks[i] = bs[j]
      /\ NoTwins(kept.blocks)
  BY <1>5, <1>6, EvictedKeeps
<1> HIDE DEF kept
<1>8. \A i \in DOMAIN kept.blocks : kept.blocks[i] = b \/ \E j \in DOMAIN blocks : kept.blocks[i] = blocks[j]
  BY <1>5, <1>7
<1>9. /\ Smaller(op.oldest, b.at) \in Nat /\ Smaller(op.oldest, b.at) =< event
      /\ op.path \notin unguarded => Smaller(op.oldest, b.at) >= seen[op.path]
  BY <1>1, <1>2, <1>3, OldestIs
<1>10. o \in ReadOps /\ o.path = op.path /\ o.oldest = Smaller(op.oldest, b.at) /\ o.step = op.step
  BY <1>2, <1>9 DEF ReadOps
<1> HIDE DEF o
<1>11. /\ op' \in ReadOps /\ op'.path = op.path /\ op'.part = 0 /\ op'.oldest \in {op.oldest, o.oldest}
       /\ op'.step \in {"block", "ahead", "done"}
       /\ op'.step = "ahead" => \A k \in DOMAIN kept.blocks : ~IsBlock(kept.blocks[k], op'.path, op'.no)
  <2>1. CASE op.step = "ahead"
    BY <1>1, <1>2, <1>3, <2>1, AheadOnwardIs
  <2>2. CASE op.step = "block"
    BY <1>0, <1>1, <1>2, <1>3, <1>10, <2>2, OnwardIs
  <2> QED
    BY <1>2, <2>1, <2>2
<1>12. op'.call = "read" /\ op.call = "read" /\ op' \in Ops
  BY <1>2, <1>11, ReadFields DEF Ops
<1>13. Sound(op', unguarded')
  <2>1. op.oldest =< event /\ (op.path \notin unguarded => op.oldest >= seen[op.path])
    BY <1>12 DEF CacheInv, Dated, Fresh
  <2> QED
    BY <1>1, <1>2, <1>9, <1>10, <1>11, <1>12, <1>17, <2>1 DEF Sound
<1>14. CountedWith(blocks', bytes', op')
  BY <1>1, <1>7, <1>11 DEF CountedWith
<1>15. NothingOlder(blocks', op', unguarded')
  <2> SUFFICES ASSUME NEW p \in Paths, NEW a \in Nat, HoldsIn(blocks', op', p, a)
               PROVE  Holds(p, a) \/ (a = file[p].at /\ (stamp[p] # 0 \/ p \in unguarded'))
    BY DEF NothingOlder
  <2>1. PICK i \in DOMAIN kept.blocks : kept.blocks[i].path = p /\ kept.blocks[i].at = a
    BY <1>1, <1>11 DEF HoldsIn
  <2>2. CASE kept.blocks[i] = b
    BY <1>1, <1>2, <1>3, <1>17, <2>1, <2>2
  <2>3. CASE \E j \in DOMAIN blocks : kept.blocks[i] = blocks[j]
    BY <2>1, <2>3 DEF Holds, HoldsIn
  <2> QED
    BY <1>8, <2>2, <2>3
<1>16. op.step # "invalidate"
  BY <1>2
<1> QED
  BY <1>1, <1>12, <1>13, <1>14, <1>15, <1>16, <1>17, CallFacts, Fetches

\* A call that fails touches nothing; a move that was made, and whose answer was
\* lost, may have brought back the mtime of a stamp.
LEMMA CallFailsKeeps ==
  ASSUME CacheInv, CallFails
  PROVE  CacheInv'
<1>1. op' = Free /\ UNCHANGED <<server, now, cache, seen>>
  BY DEF CallFails
<1>2. UNCHANGED <<file, event, now, blocks, bytes, stamp, lastEnd, attr, dirs, seen>>
  BY <1>1 DEF server, cache
<1>3. CASE op.step # "invalidate"
  <2>1. UNCHANGED told
    BY <1>2, <1>3 DEF CallFails, told
  <2> QED
    BY <1>1, <1>2, <1>3, <2>1, CallFacts, Ends
<1>4. CASE op.step = "invalidate"
  <2>1. op \in ChangeOps
    BY <1>4, CallFacts, OpKinds
  <2>2. unguarded' = unguarded \cup {p \in op.acks : /\ There(file[p]) /\ stamp[p] = file[p].id
                                                     /\ Of({p}) # {}}
    BY <1>4 DEF CallFails
  <2>3. op.acks \in SUBSET Paths /\ op.call # "read"
    BY <2>1 DEF ChangeOps
  <2>4. \A p \in Paths : \A a \in Nat : Holds(p, a)' => Holds(p, a)
    BY <1>1, <1>2 DEF Holds, HoldsIn, Free
  <2>5. op' \in Ops /\ op'.call \notin {"read", "stat"} /\ op'.step = "free"
    BY <1>1 DEF Ops, Free
  <2>6. Typed'
    BY <1>2, <2>2, <2>3, <2>5 DEF CacheInv, Typed
  <2>7. Counted'
    BY <1>2, <2>5 DEF CacheInv, Counted
  <2>8. Dated'
    BY <1>2, <2>4, <2>5 DEF CacheInv, Dated
  <2>9. Stamped'
    BY <1>2, <2>2, <2>4, <2>5 DEF CacheInv, Stamped
  <2>10. Fresh'
    <3> SUFFICES ASSUME NEW p \in Paths, p \notin unguarded', NEW a \in Nat, Holds(p, a)
                 PROVE  /\ a >= seen[p]
                        /\ There(attr[p]) => a >= attr[p].at
                        /\ There(file[p]) /\ stamp[p] = file[p].id => a >= file[p].at
      BY <1>2, <2>4, <2>5 DEF Fresh
    <3>1. p \notin unguarded
      BY <2>2
    <3>2. There(file[p]) /\ stamp[p] = file[p].id => ~Changing(p)
      <4>1. Of({p}) # {}
        BY <2>3 DEF Of, Holds, HoldsIn
      <4> QED
        BY <2>2, <4>1 DEF Changing
    <3> QED
      BY <3>1, <3>2 DEF CacheInv, Fresh
  <2> QED
    BY <2>6, <2>7, <2>8, <2>9, <2>10 DEF CacheInv
<1> QED
  BY <1>3, <1>4

LEMMA TickKeeps ==
  ASSUME CacheInv, Tick
  PROVE  CacheInv'
<1>1. UNCHANGED <<file, event, blocks, bytes, stamp, lastEnd, attr, dirs, op, seen, unguarded>>
  BY DEF Tick, server, cache, told
<1>2. now' \in Nat
  BY CallFacts DEF Tick
<1>3. \A p \in Paths : \A a \in Nat : Holds(p, a)' <=> Holds(p, a)
  BY <1>1 DEF Holds
<1>4. \A p \in Paths : Changing(p)' <=> Changing(p)
  BY <1>1 DEF Changing
<1>5. Typed'
  BY <1>1, <1>2 DEF CacheInv, Typed
<1>6. Counted'
  BY <1>1 DEF CacheInv, Counted, Cached
<1>7. Dated'
  BY <1>1, <1>3 DEF CacheInv, Dated
<1>8. Stamped'
  BY <1>1, <1>3 DEF CacheInv, Stamped
<1>9. Fresh'
  BY <1>1, <1>3, <1>4 DEF CacheInv, Fresh
<1> QED
  BY <1>5, <1>6, <1>7, <1>8, <1>9 DEF CacheInv

\* A change made by others has an mtime no stamp has seen.
LEMMA ServerKeeps ==
  ASSUME CacheInv, NEW p \in Paths, NEW f \in File, event' = event + 1,
         file' = [file EXCEPT ![p] = f], f.at = event', f.id \in {0, event'},
         UNCHANGED <<now, cache, op, told>>
  PROVE  CacheInv'
<1>1. UNCHANGED <<now, blocks, bytes, stamp, lastEnd, attr, dirs, op, seen, unguarded>>
  BY DEF cache, told
<1>2. \A q \in Paths : \A a \in Nat : Holds(q, a)' <=> Holds(q, a)
  BY <1>1 DEF Holds
<1>3. \A q \in Paths : Changing(q)' <=> Changing(q)
  BY <1>1 DEF Changing
<1>4. file \in [Paths -> File] /\ event \in Nat
  BY DEF CacheInv, Typed
<1>5. file' \in [Paths -> File] /\ event' \in Nat /\ file'[p] = f /\ \A q \in Paths \ {p} : file'[q] = file[q]
  BY <1>4
<1>6. \A q \in Paths : file[q].at =< event /\ file[q].at \in Nat /\ file'[q].at >= file[q].at /\ file'[q].at \in Nat
  BY <1>4, <1>5 DEF CacheInv, Dated, File
<1>7. Typed'
  BY <1>1, <1>5 DEF CacheInv, Typed
<1>8. Counted'
  BY <1>1 DEF CacheInv, Counted, Cached
<1>9. Dated'
  <2>1. \A q \in Paths : file'[q].id =< event' /\ file'[q].at =< event'
    BY <1>4, <1>5 DEF CacheInv, Dated, File
  <2>2. \A q \in Paths : /\ stamp[q] =< event' /\ attr[q].id =< event'
                         /\ attr[q].at =< file'[q].at /\ seen[q] =< file'[q].at
    <3>1. \A q \in Paths : stamp[q] =< event /\ attr[q].id =< event /\ attr[q].at =< file[q].at /\ seen[q] =< file[q].at
      BY DEF CacheInv, Dated
    <3> QED
      BY <1>4, <1>6, <3>1, CallFacts
  <2>3. \A q \in Paths : \A a \in Nat : Holds(q, a) => a =< file'[q].at
    <3>1. \A q \in Paths : \A a \in Nat : Holds(q, a) => a =< file[q].at
      BY DEF CacheInv, Dated
    <3> QED
      BY <1>6, <3>1
  <2>4. op.call = "read" => op.oldest =< event'
    <3>1. op.call = "read" => op.oldest =< event /\ op.oldest \in Nat
      BY CallFacts, OpKinds, ReadFields DEF CacheInv, Dated
    <3> QED
      BY <1>4, <3>1
  <2>5. op.call = "stat" => op.answer.at =< file'[op.path].at /\ op.answer.id =< event'
    <3>1. op.call = "stat" => /\ op.path \in Paths /\ op.answer.at \in Nat /\ op.answer.id \in Nat
                              /\ op.answer.at =< file[op.path].at /\ op.answer.id =< event
      BY CallFacts, OpKinds DEF CacheInv, Dated, StatOps, File
    <3> QED
      BY <1>4, <1>6, <3>1
  <2>6. op.step = "invalidate" => op.at =< event' /\ \A q \in op.acks : op.at =< file'[q].at
    <3>1. op.step = "invalidate" => /\ op.acks \in SUBSET Paths /\ op.at \in Nat
                                    /\ op.at =< event /\ \A q \in op.acks : op.at =< file[q].at
      BY CallFacts, OpKinds DEF CacheInv, Dated, ChangeOps
    <3> QED
      BY <1>4, <1>6, <3>1
  <2> QED
    BY <1>1, <1>2, <2>1, <2>2, <2>3, <2>4, <2>5, <2>6 DEF Dated
<1>10. Stamped'
  BY <1>1, <1>2 DEF CacheInv, Stamped
<1>11. Fresh'
  <2>1. \A q \in Paths : There(file'[q]) /\ stamp[q] = file'[q].id => There(file[q]) /\ stamp[q] = file[q].id /\ file'[q] = file[q]
    <3>1. stamp[p] =< event /\ stamp[p] \in Nat
      BY CallFacts DEF CacheInv, Dated
    <3> QED
      BY <1>4, <1>5, <3>1 DEF There
  <2> QED
    BY <1>1, <1>2, <1>3, <2>1 DEF CacheInv, Fresh
<1> QED
  BY <1>7, <1>8, <1>9, <1>10, <1>11 DEF CacheInv

LEMMA RemoteKeeps ==
  ASSUME CacheInv, NEW p \in Paths,
         RemoteRemove(p) \/ \E s \in Sizes : RemoteWrite(p, s)
  PROVE  CacheInv'
<1>1. event' = event + 1 /\ UNCHANGED <<now, cache, op, told>> /\ event' \in Nat
  BY CallFacts DEF RemoteRemove, RemoteWrite
<1>2. CASE RemoteRemove(p)
  <2> DEFINE f == [NoFile EXCEPT !.at = event']
  <2>1. f \in File /\ f.at = event' /\ f.id = 0
    BY <1>1 DEF NoFile, File
  <2>2. file' = [file EXCEPT ![p] = f]
    BY <1>2 DEF RemoteRemove
  <2> HIDE DEF f
  <2> QED
    BY <1>1, <2>1, <2>2, ServerKeeps
<1>3. ASSUME NEW s \in Sizes, RemoteWrite(p, s) PROVE CacheInv'
  <2> DEFINE f == [id |-> event', at |-> event', size |-> s]
  <2>1. f \in File /\ f.at = event' /\ f.id = event'
    BY <1>1, BoundsAssumption DEF File
  <2>2. file' = [file EXCEPT ![p] = f]
    BY <1>3 DEF RemoteWrite
  <2> HIDE DEF f
  <2> QED
    BY <1>1, <2>1, <2>2, ServerKeeps
<1> QED
  BY <1>2, <1>3

\* The mtime that a read asks for is that of the file, if there is one.
LEMMA BaselineKeeps ==
  ASSUME CacheInv, Baseline
  PROVE  CacheInv'
<1>1. op.step = "baseline" /\ UNCHANGED <<server, now, blocks, bytes, lastEnd, attr, dirs, told>>
  BY DEF Baseline
<1>2. UNCHANGED <<file, event, seen, unguarded>>
  BY <1>1 DEF server, told
<1>3. op \in ReadOps /\ op.call = "read" /\ op.path \in Paths
  BY <1>1, CallFacts, OpKinds, ReadFields
<1>4. op' = [op EXCEPT !.step = "block"] /\ stamp' = [stamp EXCEPT ![op.path] = file[op.path].id]
  BY DEF Baseline
<1>5. /\ op' \in ReadOps /\ op'.step = "block" /\ op'.call = "read" /\ op'.path = op.path
      /\ op'.part = op.part /\ op'.at = op.at /\ op'.oldest = op.oldest
  BY <1>3, <1>4 DEF ReadOps
<1>6. stamp[op.path] = 0 /\ stamp \in [Paths -> Nat] /\ file[op.path].id \in Nat
  BY <1>1, <1>3, CallFacts DEF CacheInv, Stamped, Typed
<1>7. /\ stamp' \in [Paths -> Nat] /\ stamp'[op.path] = file[op.path].id
      /\ \A p \in Paths \ {op.path} : stamp'[p] = stamp[p]
  BY <1>3, <1>4, <1>6
<1>8. \A p \in Paths : \A a \in Nat : Holds(p, a)' <=> Holds(p, a)
  BY <1>1, <1>3, <1>5 DEF Holds, HoldsIn
<1>9. \A a \in Nat : Holds(op.path, a) => op.path \in unguarded
  BY <1>3, <1>6 DEF CacheInv, Stamped
<1>10. \A p \in Paths : ~Changing(p)
  BY <1>1 DEF Changing
<1>11. Typed'
  BY <1>1, <1>2, <1>5, <1>7 DEF CacheInv, Typed, Ops
<1>12. Counted'
  BY <1>1, <1>5 DEF CacheInv, Counted
<1>13. Dated'
  <2>1. \A p \in Paths : stamp'[p] =< event
    BY <1>3, <1>7 DEF CacheInv, Dated
  <2> QED
    BY <1>1, <1>2, <1>3, <1>5, <1>8, <2>1 DEF CacheInv, Dated
<1>14. Stamped'
  <2>1. ~There(attr[op.path])
    BY <1>3, <1>6 DEF CacheInv, Stamped, There
  <2>2. \A p \in Paths : There(attr[p]) => stamp'[p] = attr[p].id
    BY <1>7, <2>1 DEF CacheInv, Stamped
  <2>3. \A p \in Paths : \A a \in Nat : Holds(p, a) => stamp'[p] # 0 \/ p \in unguarded
    BY <1>7, <1>9 DEF CacheInv, Stamped
  <2> QED
    BY <1>1, <1>2, <1>5, <1>8, <2>2, <2>3 DEF Stamped
<1>15. Fresh'
  BY <1>1, <1>2, <1>3, <1>5, <1>7, <1>8, <1>9, <1>10 DEF CacheInv, Fresh
<1> QED
  BY <1>11, <1>12, <1>13, <1>14, <1>15 DEF CacheInv

\* What a remembered attribute tells is no newer than what is held.
LEMMA StatHitKeeps ==
  ASSUME CacheInv, NEW p \in Paths, StatHit(p)
  PROVE  CacheInv'
<1>1. op = Free /\ UNCHANGED <<server, now, cache, op, unguarded>> /\ Tell(p, attr[p])
  BY DEF StatHit
<1>2. UNCHANGED <<file, event, now, blocks, bytes, stamp, lastEnd, attr, dirs, op, unguarded>>
  BY <1>1 DEF server, cache
<1>3. seen \in [Paths -> Nat] /\ attr[p].at \in Nat /\ seen[p] \in Nat
  BY CallFacts DEF CacheInv, Typed
<1>4. /\ seen' \in [Paths -> Nat]
      /\ \A q \in Paths : seen'[q] = seen[q] \/ (q = p /\ There(attr[p]) /\ seen'[q] = attr[p].at)
  BY <1>1, <1>3 DEF Tell, Larger
<1>5. \A q \in Paths : \A a \in Nat : Holds(q, a)' <=> Holds(q, a)
  BY <1>2 DEF Holds
<1>6. op.call = "free" /\ op.step = "free"
  BY <1>1 DEF Free
<1>7. Typed'
  BY <1>2, <1>4 DEF CacheInv, Typed
<1>8. Counted'
  BY <1>2, <1>6 DEF CacheInv, Counted
<1>9. Dated'
  <2>1. \A q \in Paths : seen'[q] =< file[q].at
    BY <1>4 DEF CacheInv, Dated
  <2> QED
    BY <1>2, <1>5, <1>6, <2>1 DEF CacheInv, Dated
<1>10. Stamped'
  BY <1>2, <1>5, <1>6 DEF CacheInv, Stamped
<1>11. Fresh'
  <2>1. \A q \in Paths \ unguarded : \A a \in Nat : Holds(q, a) => a >= seen'[q]
    BY <1>4 DEF CacheInv, Fresh
  <2> QED
    BY <1>2, <1>5, <1>6, <2>1 DEF CacheInv, Fresh, Changing
<1> QED
  BY <1>7, <1>8, <1>9, <1>10, <1>11 DEF CacheInv

\* The blocks of some paths are taken off the cache and off the counter.
LEMMA ForgetKeeps ==
  ASSUME CacheInv, NEW ps, ForgetBlocks(ps)
  PROVE  /\ blocks' \in Seq(CachedBlock) /\ bytes' = Total(blocks') /\ bytes' =< MaxBytes /\ NoTwins(blocks')
         /\ \A i \in DOMAIN blocks' : \E j \in DOMAIN blocks : blocks'[i] = blocks[j] /\ blocks[j].path \notin ps
<1> DEFINE gone == Of(ps)
<1>1. gone \subseteq DOMAIN blocks /\ \A j \in DOMAIN blocks \ gone : blocks[j].path \notin ps
  BY DEF Of
<1>2. blocks' = Without(blocks, gone) /\ bytes' = bytes - Size(blocks, gone)
  BY DEF ForgetBlocks
<1> HIDE DEF gone
<1>3. bytes = Total(blocks) /\ bytes =< MaxBytes /\ NoTwins(blocks) /\ blocks \in Seq(CachedBlock)
  BY CallFacts DEF CacheInv, Counted
<1>4. /\ blocks' \in Seq(CachedBlock) /\ Total(blocks') = Total(blocks) - Size(blocks, gone)
      /\ Size(blocks, gone) \in Nat /\ Total(blocks) \in Nat /\ NoTwins(blocks')
      /\ \A i \in DOMAIN blocks' : \E j \in DOMAIN blocks \ gone : blocks'[i] = blocks[j]
  BY <1>1, <1>2, <1>3, WithoutKeeps
<1>5. bytes' = Total(blocks')
  BY <1>2, <1>3, <1>4
<1>6. bytes' =< MaxBytes
  BY <1>2, <1>3, <1>4, CacheAssumption
<1> QED
  BY <1>1, <1>4, <1>5, <1>6

\* A stat that is answered drops what is older than its answer.
LEMMA StatAnsweredKeeps ==
  ASSUME CacheInv, StatAnswered
  PROVE  CacheInv'
<1> DEFINE p == op.path
           st == op.answer
           kept == Remembered(st, op.time + Ttl)
           drop == There(st) /\ stamp[p] \notin {0, st.id}
<1>1. /\ op.call = "stat" /\ op.step = "answered" /\ op' = Free /\ Tell(p, st)
      /\ UNCHANGED <<server, now, dirs>> /\ attr' = [attr EXCEPT ![p] = kept]
  BY DEF StatAnswered
<1>2. UNCHANGED <<file, event>>
  BY <1>1 DEF server
<1>3. op \in StatOps /\ p \in Paths /\ st \in File /\ op.time \in Nat
  BY <1>1, CallFacts, OpKinds DEF StatOps
<1>4. st.at \in Nat /\ st.id \in Nat /\ st.size \in Nat /\ op.time + Ttl \in Nat
  BY <1>3, CacheAssumption DEF File
<1>5. /\ kept \in [id: Nat, at: Nat, size: Nat, until: Nat] /\ kept.id = st.id /\ kept.at = st.at
      /\ There(kept) <=> There(st)
  BY <1>4 DEF Remembered, There
<1>6. stamp' = IF There(st) THEN [stamp EXCEPT ![p] = st.id] ELSE stamp
  BY DEF StatAnswered
<1>7. drop => /\ ForgetBlocks({p}) /\ lastEnd' = [lastEnd EXCEPT ![p] = -1] /\ unguarded' = unguarded \ {p}
  BY DEF StatAnswered
<1>8. ~drop => UNCHANGED <<blocks, bytes, lastEnd, unguarded>>
  BY DEF StatAnswered
<1> HIDE DEF kept
<1>9. /\ stamp \in [Paths -> Nat] /\ lastEnd \in [Paths -> Int] /\ seen \in [Paths -> Nat]
      /\ attr \in [Paths -> [id: Nat, at: Nat, size: Nat, until: Nat]] /\ unguarded \in SUBSET Paths
  BY DEF CacheInv, Typed
<1> HIDE DEF p, st
<1>10. /\ attr' \in [Paths -> [id: Nat, at: Nat, size: Nat, until: Nat]]
       /\ attr'[p] = kept /\ \A q \in Paths \ {p} : attr'[q] = attr[q]
  BY <1>1, <1>3, <1>5, <1>9
<1>11. /\ stamp' \in [Paths -> Nat] /\ \A q \in Paths \ {p} : stamp'[q] = stamp[q]
       /\ (There(st) => stamp'[p] = st.id) /\ (~There(st) => stamp'[p] = stamp[p])
  BY <1>3, <1>4, <1>6, <1>9
<1>12. /\ seen' \in [Paths -> Nat]
       /\ \A q \in Paths : seen'[q] = seen[q] \/ (q = p /\ There(st) /\ seen'[q] = st.at)
  BY <1>1, <1>3, <1>4, <1>9 DEF Tell, Larger
<1>13. op' \in Ops /\ op'.call = "free" /\ op'.step = "free"
  BY <1>1 DEF Ops, Free
<1>14. lastEnd' \in [Paths -> Int]
  BY <1>7, <1>8, <1>9
<1>15. /\ unguarded' \in SUBSET Paths
       /\ \A q \in Paths : q \in unguarded <=> q \in unguarded' \/ (q \in unguarded /\ drop /\ q = p)
  BY <1>7, <1>8, <1>9
<1>16. /\ blocks' \in Seq(CachedBlock) /\ bytes' = Total(blocks') /\ bytes' =< MaxBytes /\ NoTwins(blocks')
       /\ \A i \in DOMAIN blocks' : \E j \in DOMAIN blocks : blocks'[i] = blocks[j] /\ (drop => blocks[j].path # p)
  <2>1. CASE drop
    <3> DEFINE ps == {p}
    <3>1. p \in ps
      OBVIOUS
    <3>2. ForgetBlocks(ps)
      BY <1>7, <2>1
    <3> HIDE DEF ps
    <3> QED
      BY <3>1, <3>2, ForgetKeeps
  <2>2. CASE ~drop
    BY <1>8, <2>2, CallFacts DEF CacheInv, Counted
  <2> QED
    BY <2>1, <2>2
<1>17. \A q \in Paths : \A a \in Nat : Holds(q, a)' => Holds(q, a) /\ ~(drop /\ q = p)
  BY <1>13, <1>16 DEF Holds, HoldsIn
<1>18. Typed'
  BY <1>1, <1>2, <1>10, <1>11, <1>12, <1>13, <1>14, <1>15, <1>16 DEF CacheInv, Typed
<1>19. Counted'
  BY <1>13, <1>16 DEF Counted
<1>20. st.at =< file[p].at /\ st.id =< event
  BY <1>1, <1>3 DEF CacheInv, Dated, p, st
<1>21. Dated'
  <2>1. \A q \in Paths : stamp'[q] =< event /\ attr'[q].id =< event
    BY <1>5, <1>10, <1>11, <1>20 DEF CacheInv, Dated
  <2>2. \A q \in Paths : attr'[q].at =< file[q].at /\ seen'[q] =< file[q].at
    BY <1>5, <1>10, <1>12, <1>20 DEF CacheInv, Dated
  <2> QED
    BY <1>2, <1>13, <1>17, <2>1, <2>2 DEF CacheInv, Dated
<1>22. Stamped'
  <2>1. \A q \in Paths : There(attr'[q]) => stamp'[q] = attr'[q].id
    BY <1>5, <1>10, <1>11 DEF CacheInv, Stamped
  <2>2. \A q \in Paths : \A a \in Nat : Holds(q, a)' => stamp'[q] # 0 \/ q \in unguarded'
    BY <1>11, <1>15, <1>17 DEF CacheInv, Stamped, There
  <2> QED
    BY <1>2, <1>13, <2>1, <2>2 DEF Stamped
<1>23. Fresh'
  <2> SUFFICES ASSUME NEW q \in Paths, q \notin unguarded', NEW a \in Nat, Holds(q, a)'
               PROVE  /\ a >= seen'[q]
                      /\ There(attr'[q]) => a >= attr'[q].at
                      /\ There(file[q]) /\ stamp'[q] = file[q].id => a >= file[q].at
    BY <1>2, <1>13 DEF Fresh
  <2>1. Holds(q, a) /\ ~(drop /\ q = p) /\ q \notin unguarded
    BY <1>15, <1>17
  <2>2. ~Changing(q)
    BY <1>1 DEF Changing
  <2>3. /\ a >= seen[q] /\ (There(attr[q]) => a >= attr[q].at)
        /\ There(file[q]) /\ stamp[q] = file[q].id => a >= file[q].at
        /\ q = p /\ There(st) /\ stamp[p] = st.id => a >= st.at
    BY <1>1, <2>1, <2>2 DEF CacheInv, Fresh, p, st
  <2>4. stamp[q] # 0
    BY <2>1 DEF CacheInv, Stamped
  <2>5. CASE q # p
    BY <1>10, <1>11, <1>12, <2>3, <2>5
  <2>6. CASE q = p /\ ~There(st)
    BY <1>5, <1>10, <1>11, <1>12, <2>3, <2>6
  <2>7. CASE q = p /\ There(st)
    <3>1. stamp[p] = st.id /\ a >= st.at
      BY <2>1, <2>3, <2>4, <2>7
    <3> QED
      BY <1>5, <1>10, <1>11, <1>12, <2>3, <2>7, <3>1
  <2> QED
    BY <2>5, <2>6, <2>7
<1> QED
  BY <1>18, <1>19, <1>21, <1>22, <1>23 DEF CacheInv

\* A change of one's own, before the cache hears of it.
LEMMA ChangeKeeps ==
  ASSUME CacheInv, op = Free, NEW call \in {"write", "unlink", "rename"}, NEW acks \in SUBSET Paths,
         Change(call, acks), event' = event + 1, file' \in [Paths -> File],
         \A p \in Paths : file'[p].id =< event' /\ IF p \in acks THEN file'[p].at = event' ELSE file'[p] = file[p],
         UNCHANGED <<now, cache, told>>
  PROVE  CacheInv'
<1>1. UNCHANGED <<now, blocks, bytes, stamp, lastEnd, attr, dirs, seen, unguarded>>
  BY DEF cache, told
<1>2. event \in Nat /\ event' \in Nat
  BY CallFacts
<1>3. /\ op' \in ChangeOps /\ op'.call \notin {"read", "stat"} /\ op'.step = "invalidate"
      /\ op'.acks = acks /\ op'.at = event'
  BY <1>2 DEF Change, ChangeOps
<1>4. \A p \in Paths : \A a \in Nat : Holds(p, a)' => Holds(p, a)
  BY <1>1, <1>3 DEF Holds, HoldsIn
<1>5. \A p \in Paths : /\ file[p].at \in Nat /\ file'[p].at \in Nat
                       /\ file[p].at =< event /\ file'[p].at =< event' /\ file[p].at =< file'[p].at
  BY <1>2, CallFacts DEF CacheInv, Dated
<1>6. Typed'
  BY <1>1, <1>2, <1>3 DEF CacheInv, Typed, Ops
<1>7. Counted'
  BY <1>1, <1>3 DEF CacheInv, Counted
<1>8. Dated'
  <2>1. \A p \in Paths : /\ stamp[p] =< event' /\ attr[p].id =< event'
                         /\ attr[p].at =< file'[p].at /\ seen[p] =< file'[p].at
    <3>1. \A p \in Paths : stamp[p] =< event /\ attr[p].id =< event /\ attr[p].at =< file[p].at /\ seen[p] =< file[p].at
      BY DEF CacheInv, Dated
    <3> QED
      BY <1>2, <1>5, <3>1, CallFacts
  <2>2. \A p \in Paths : \A a \in Nat : Holds(p, a) => a =< file'[p].at
    <3>1. \A p \in Paths : \A a \in Nat : Holds(p, a) => a =< file[p].at
      BY DEF CacheInv, Dated
    <3> QED
      BY <1>5, <3>1
  <2>3. \A p \in acks : op'.at =< file'[p].at
    BY <1>2, <1>3
  <2> QED
    BY <1>1, <1>2, <1>3, <1>4, <1>5, <2>1, <2>2, <2>3 DEF Dated
<1>9. Stamped'
  BY <1>1, <1>3, <1>4 DEF CacheInv, Stamped
<1>10. Fresh'
  <2> SUFFICES ASSUME NEW p \in Paths, p \notin unguarded, NEW a \in Nat, Holds(p, a)
               PROVE  /\ a >= seen[p]
                      /\ There(attr[p]) => a >= attr[p].at
                      /\ There(file'[p]) /\ stamp[p] = file'[p].id /\ p \notin acks => a >= file'[p].at
    BY <1>1, <1>3, <1>4 DEF Fresh, Changing
  <2>1. ~Changing(p)
    BY DEF Changing, Free
  <2> QED
    BY <2>1 DEF CacheInv, Fresh
<1> QED
  BY <1>6, <1>7, <1>8, <1>9, <1>10 DEF CacheInv

LEMMA OwnChangesKeep ==
  ASSUME CacheInv, NEW p \in Paths,
         Unlink(p) \/ (\E s \in Sizes : Write(p, s)) \/ (\E q \in Paths : Rename(p, q))
  PROVE  CacheInv'
<1>1. op = Free /\ event' = event + 1 /\ event' \in Nat /\ event \in Nat /\ UNCHANGED <<now, cache, told>>
  <2>1. op = Free /\ event' = event + 1 /\ UNCHANGED <<now, cache, told>>
    BY Zenon DEF Unlink, Write, Rename
  <2> QED
    BY <2>1, CallFacts
<1>2. file \in [Paths -> File] /\ \A r \in Paths : file[r].id =< event /\ file[r].id \in Nat
  BY CallFacts DEF CacheInv, Typed, Dated
<1>3. CASE Unlink(p)
  <2> DEFINE f == [NoFile EXCEPT !.at = event']
             acks == {p}
             call == "unlink"
  <2>1. f \in File /\ f.at = event' /\ f.id = 0
    BY <1>1 DEF NoFile, File
  <2>2. file' = [file EXCEPT ![p] = f] /\ Change(call, acks)
    BY <1>3 DEF Unlink
  <2>3. call \in {"write", "unlink", "rename"} /\ acks \in SUBSET Paths /\ \A r \in Paths : r \in acks <=> r = p
    OBVIOUS
  <2> HIDE DEF f, acks, call
  <2>4. /\ file' \in [Paths -> File]
        /\ \A r \in Paths : file'[r].id =< event' /\ IF r \in acks THEN file'[r].at = event' ELSE file'[r] = file[r]
    BY <1>1, <1>2, <2>1, <2>2, <2>3
  <2> QED
    BY <1>1, <2>2, <2>3, <2>4, ChangeKeeps
<1>4. ASSUME NEW s \in Sizes, Write(p, s) PROVE CacheInv'
  <2> DEFINE f == [id |-> event', at |-> event', size |-> s]
             acks == {p}
             call == "write"
  <2>1. f \in File /\ f.at = event' /\ f.id = event'
    BY <1>1, BoundsAssumption DEF File
  <2>2. file' = [file EXCEPT ![p] = f] /\ Change(call, acks)
    BY <1>4 DEF Write
  <2>3. call \in {"write", "unlink", "rename"} /\ acks \in SUBSET Paths /\ \A r \in Paths : r \in acks <=> r = p
    OBVIOUS
  <2> HIDE DEF f, acks, call
  <2>4. /\ file' \in [Paths -> File]
        /\ \A r \in Paths : file'[r].id =< event' /\ IF r \in acks THEN file'[r].at = event' ELSE file'[r] = file[r]
    BY <1>1, <1>2, <2>1, <2>2, <2>3
  <2> QED
    BY <1>1, <2>2, <2>3, <2>4, ChangeKeeps
<1>5. ASSUME NEW q \in Paths, Rename(p, q) PROVE CacheInv'
  <2> DEFINE f == [NoFile EXCEPT !.at = event']
             g == [file[p] EXCEPT !.at = event']
             acks == {p, q}
             call == "rename"
  <2>1. f \in File /\ f.at = event' /\ f.id = 0 /\ g \in File /\ g.at = event' /\ g.id = file[p].id
    BY <1>1, <1>2 DEF NoFile, File
  <2>2. p # q /\ file' = [file EXCEPT ![p] = f, ![q] = g] /\ Change(call, acks)
    BY <1>5 DEF Rename
  <2>3. call \in {"write", "unlink", "rename"} /\ acks \in SUBSET Paths /\ \A r \in Paths : r \in acks <=> r \in {p, q}
    OBVIOUS
  <2> HIDE DEF f, g, acks, call
  <2>4. file'[p] = f /\ file'[q] = g /\ file' \in [Paths -> File] /\ \A r \in Paths \ {p, q} : file'[r] = file[r]
    BY <1>2, <2>1, <2>2
  <2>5. \A r \in Paths : file'[r].id =< event' /\ IF r \in acks THEN file'[r].at = event' ELSE file'[r] = file[r]
    BY <1>1, <1>2, <2>1, <2>3, <2>4
  <2> QED
    BY <1>1, <2>2, <2>3, <2>4, <2>5, ChangeKeeps
<1> QED
  BY <1>3, <1>4, <1>5

\* A change of one's own, when the cache hears of it.
LEMMA InvalidateKeeps ==
  ASSUME CacheInv, Invalidate
  PROVE  CacheInv'
<1> DEFINE acks == op.acks
<1>1. /\ op.step = "invalidate" /\ op' = Free /\ ForgetBlocks(acks) /\ UNCHANGED <<server, now, dirs>>
      /\ unguarded' = unguarded \ acks
  BY DEF Invalidate
<1>2. op \in ChangeOps /\ acks \in SUBSET Paths /\ op.at \in Nat
  BY <1>1, CallFacts, OpKinds DEF ChangeOps
<1> HIDE DEF acks
<1>3. UNCHANGED <<file, event>>
  BY <1>1 DEF server
<1>4. NoAttr \in [id: Nat, at: Nat, size: Nat, until: Nat] /\ NoAttr.id = 0 /\ NoAttr.at = 0 /\ ~There(NoAttr)
  BY DEF NoAttr, There
<1>5. /\ stamp \in [Paths -> Nat] /\ lastEnd \in [Paths -> Int] /\ seen \in [Paths -> Nat]
      /\ attr \in [Paths -> [id: Nat, at: Nat, size: Nat, until: Nat]] /\ unguarded \in SUBSET Paths
  BY DEF CacheInv, Typed
<1> HIDE DEF NoAttr
<1>6. /\ stamp' = [p \in Paths |-> IF p \in acks THEN 0 ELSE stamp[p]]
      /\ lastEnd' = [p \in Paths |-> IF p \in acks THEN -1 ELSE lastEnd[p]]
      /\ attr' = [p \in Paths |-> IF p \in acks THEN NoAttr ELSE attr[p]]
      /\ seen' = [p \in Paths |-> IF p \in acks THEN op.at ELSE seen[p]]
  BY DEF Invalidate, acks
<1>7. stamp' \in [Paths -> Nat] /\ lastEnd' \in [Paths -> Int] /\ seen' \in [Paths -> Nat]
  BY <1>2, <1>5, <1>6
<1>8. attr' \in [Paths -> [id: Nat, at: Nat, size: Nat, until: Nat]]
  BY <1>4, <1>5, <1>6
<1>9. \A p \in acks : stamp'[p] = 0 /\ attr'[p] = NoAttr /\ seen'[p] = op.at
  BY <1>2, <1>6
<1>10. \A p \in Paths \ acks : stamp'[p] = stamp[p] /\ attr'[p] = attr[p] /\ seen'[p] = seen[p]
  BY <1>6
<1>11. /\ blocks' \in Seq(CachedBlock) /\ bytes' = Total(blocks') /\ bytes' =< MaxBytes /\ NoTwins(blocks')
       /\ \A i \in DOMAIN blocks' : \E j \in DOMAIN blocks : blocks'[i] = blocks[j] /\ blocks[j].path \notin acks
  BY <1>1, ForgetKeeps
<1>12. op' \in Ops /\ op'.call = "free" /\ op'.step = "free"
  BY <1>1 DEF Ops, Free
<1>13. \A p \in Paths : \A a \in Nat : Holds(p, a)' => Holds(p, a) /\ p \notin acks
  BY <1>11, <1>12 DEF Holds, HoldsIn
<1>14. Typed'
  <2>1. unguarded' \in SUBSET Paths
    BY <1>1, <1>5
  <2> QED
    BY <1>1, <1>3, <1>7, <1>8, <1>11, <1>12, <2>1 DEF CacheInv, Typed
<1>15. Counted'
  BY <1>11, <1>12 DEF Counted
<1>16. Dated'
  <2>1. \A p \in Paths : /\ stamp'[p] =< event /\ attr'[p].id =< event
                         /\ attr'[p].at =< file[p].at /\ seen'[p] =< file[p].at
    <3> SUFFICES ASSUME NEW p \in Paths
                 PROVE  /\ stamp'[p] =< event /\ attr'[p].id =< event
                        /\ attr'[p].at =< file[p].at /\ seen'[p] =< file[p].at
      OBVIOUS
    <3>1. CASE p \in acks
      <4>1. op.at =< file[p].at
        BY <1>1, <3>1 DEF CacheInv, Dated, acks
      <4> QED
        BY <1>4, <1>9, <3>1, <4>1, CallFacts
    <3>2. CASE p \notin acks
      BY <1>10, <3>2 DEF CacheInv, Dated
    <3> QED
      BY <3>1, <3>2
  <2> QED
    BY <1>3, <1>12, <1>13, <2>1 DEF CacheInv, Dated
<1>17. Stamped'
  <2>1. \A p \in Paths : There(attr'[p]) => stamp'[p] = attr'[p].id
    BY <1>4, <1>9, <1>10 DEF CacheInv, Stamped
  <2>2. \A p \in Paths : \A a \in Nat : Holds(p, a)' => stamp'[p] # 0 \/ p \in unguarded'
    BY <1>1, <1>10, <1>13 DEF CacheInv, Stamped
  <2> QED
    BY <1>3, <1>12, <2>1, <2>2 DEF Stamped
<1>18. Fresh'
  <2> SUFFICES ASSUME NEW p \in Paths, p \notin unguarded', NEW a \in Nat, Holds(p, a)'
               PROVE  /\ a >= seen'[p]
                      /\ There(attr'[p]) => a >= attr'[p].at
                      /\ There(file[p]) /\ stamp'[p] = file[p].id => a >= file[p].at
    BY <1>3, <1>12 DEF Fresh
  <2>1. Holds(p, a) /\ p \notin acks /\ p \notin unguarded
    BY <1>1, <1>13
  <2>2. ~Changing(p)
    BY <2>1 DEF Changing, acks
  <2> QED
    BY <1>10, <2>1, <2>2 DEF CacheInv, Fresh
<1> QED
  BY <1>14, <1>15, <1>16, <1>17, <1>18 DEF CacheInv

-----------------------------------------------------------------------------
(* The theorems.                                                           *)

LEMMA CacheInit == Init => CacheInv
<1> SUFFICES ASSUME Init PROVE CacheInv
  OBVIOUS
<1>1. /\ event = Cardinality(Paths) /\ now = 0 /\ blocks = <<>> /\ bytes = 0
      /\ stamp = [p \in Paths |-> 0] /\ lastEnd = [p \in Paths |-> -1] /\ attr = [p \in Paths |-> NoAttr]
      /\ dirs = NoListing /\ op = Free /\ seen = [p \in Paths |-> 0] /\ unguarded = {}
  BY DEF Init
<1>2. event \in Nat
  BY <1>1, CacheAssumption, FS_CardinalityType
<1>3. /\ file \in [Paths -> File]
      /\ \A p \in Paths : file[p].id =< event /\ file[p].at = 0
  <2>1. file \in [Paths -> {NoFile} \cup [id: 1..event, at: {0}, size: Sizes]]
    BY DEF Init
  <2>2. NoFile \in File /\ NoFile.id = 0 /\ NoFile.at = 0
    BY DEF NoFile, File
  <2>3. \A f \in [id: 1..event, at: {0}, size: Sizes] : f \in File /\ f.id =< event /\ f.at = 0
    <3>1. \A i \in 1..event : i \in Nat /\ i =< event
      BY <1>2
    <3>2. \A n \in Sizes : n \in Nat
      BY BoundsAssumption
    <3> QED
      BY <3>1, <3>2 DEF File
  <2> HIDE DEF NoFile
  <2> QED
    BY <1>2, <2>1, <2>2, <2>3
<1>4. NoAttr \in [id: Nat, at: Nat, size: Nat, until: Nat] /\ NoAttr.id = 0 /\ NoAttr.at = 0 /\ ~There(NoAttr)
  BY DEF NoAttr, There
<1>5. op \in Ops /\ op.call = "free" /\ op.step = "free"
  BY <1>1 DEF Ops, Free
<1>6. \A p \in Paths : \A a \in Nat : ~Holds(p, a)
  BY <1>1, <1>5 DEF Holds, HoldsIn
<1>7. Typed
  <2>1. dirs \in [names: SUBSET Paths, until: Nat]
    BY <1>1 DEF NoListing
  <2>2. stamp \in [Paths -> Nat] /\ lastEnd \in [Paths -> Int] /\ seen \in [Paths -> Nat]
    BY <1>1
  <2>3. attr \in [Paths -> [id: Nat, at: Nat, size: Nat, until: Nat]]
    BY <1>1, <1>4
  <2>4. blocks \in Seq(CachedBlock)
    BY <1>1
  <2> QED
    BY <1>1, <1>2, <1>3, <1>5, <2>1, <2>2, <2>3, <2>4 DEF Typed
<1>8. Counted
  <2>1. DOMAIN blocks = {}
    BY <1>1
  <2>2. Total(blocks) = 0
    BY <2>1, FS_EmptySet DEF Total, Size, Units
  <2> QED
    BY <1>1, <1>5, <2>1, <2>2, CacheAssumption DEF Counted, NoTwins
<1>9. Dated
  BY <1>1, <1>2, <1>3, <1>4, <1>5, <1>6 DEF Dated
<1>10. Stamped
  BY <1>1, <1>4, <1>5, <1>6 DEF Stamped
<1>11. Fresh
  BY <1>5, <1>6 DEF Fresh
<1> QED
  BY <1>7, <1>8, <1>9, <1>10, <1>11 DEF CacheInv

LEMMA CacheStep ==
  ASSUME CacheInv, [Next]_vars
  PROVE  CacheInv'
<1>1. CASE World
  BY <1>1, RemoteKeeps, TickKeeps DEF World
<1>2. CASE Begin
  <2>1. ASSUME NEW p \in Paths, NEW r \in Requests, Read(p, r) PROVE CacheInv'
    BY <2>1, ReadKeeps
  <2>2. ASSUME NEW p \in Paths, StatHit(p) \/ Stat(p) PROVE CacheInv'
    BY <2>2, StatHitKeeps, StatKeeps
  <2>3. ASSUME NEW p \in Paths,
               Unlink(p) \/ (\E s \in Sizes : Write(p, s)) \/ (\E q \in Paths : Rename(p, q))
        PROVE  CacheInv'
    BY <2>3, OwnChangesKeep
  <2>4. ASSUME List PROVE CacheInv'
    BY <2>4, ListKeeps
  <2> QED
    BY <1>2, <2>1, <2>2, <2>3, <2>4 DEF Begin
<1>3. CASE Continue
  BY <1>3, BaselineKeeps, HitKeeps, FetchMoreKeeps, FetchEndsKeeps, ReadEndsKeep, StatAskedKeeps,
     StatAnsweredKeeps, ListAnsweredKeeps, InvalidateKeeps DEF Continue
<1>4. CASE CallFails
  BY <1>4, CallFailsKeeps
<1>5. CASE UNCHANGED vars
  <2>1. UNCHANGED <<file, event, now, blocks, bytes, stamp, lastEnd, attr, dirs, op, seen, unguarded>>
    BY <1>5 DEF vars, server, cache, told
  <2> QED
    BY <2>1 DEF CacheInv, Typed, Counted, Dated, Stamped, Fresh, Holds, Cached, Changing
<1> QED
  BY <1>1, <1>2, <1>3, <1>4, <1>5 DEF Next

\* The cache holds what its counter says and, of the paths it guards, nothing
\* without a stamp and nothing older than what it told.
THEOREM Invariant == Spec => []CacheInv
<1>1. CacheInv /\ [Next]_vars => CacheInv'
  BY CacheStep
<1> QED
  BY <1>1, CacheInit, PTL DEF Spec

LEMMA InvTypeOK == CacheInv => TypeOK
<1> SUFFICES ASSUME CacheInv PROVE TypeOK
  OBVIOUS
<1>1. op.call \in Calls /\ op.step \in CallSteps
  BY CallFacts, OpKinds
<1>2. bytes \in Nat
  <2>1. Size(blocks, DOMAIN blocks) \in Nat
    BY CallFacts, SizeIs
  <2> QED
    BY <2>1, CallFacts DEF Total
<1> QED
  BY <1>1, <1>2 DEF CacheInv, Typed, TypeOK

\* TypeOK: whatever the server does meanwhile and whichever call fails, the
\* cache's tables and the call in progress stay what the code takes them for.
THEOREM TypeCorrect == Spec => []TypeOK
BY Invariant, InvTypeOK, PTL

\* ReadsAreFresh: no read uses bytes older than what a stat told or an own
\* change did - for every number of files, requests, block and cache sizes.
THEOREM ReadsNothingOld == Spec => []ReadsAreFresh
<1>1. CacheInv => ReadsAreFresh
  BY DEF CacheInv, Fresh, ReadsAreFresh
<1> QED
  BY <1>1, Invariant, PTL

\* Accounting: the byte counter is what the cached blocks weigh, within the
\* bound, and no block is there twice, after any hits, evictions and drops.
THEOREM CountsRight == Spec => []Accounting
<1>1. CacheInv => Accounting
  BY DEF CacheInv, Counted, NoTwins, Twins, Accounting
<1> QED
  BY <1>1, Invariant, PTL

-----------------------------------------------------------------------------
(* What a read of an unchanged file returns.                               *)

\* The units of block no of a file of some size.
Whole(size, no) == Larger(0, Smaller(Block, size - no * Block))

\* Blocks, and the part of one that is being received, are those of the file
\* that they are as new as.
Faithful ==
    /\ \A i \in DOMAIN blocks : blocks[i].at = file[blocks[i].path].at =>
           blocks[i].len = Whole(file[blocks[i].path].size, blocks[i].no)
    /\ op.call = "read" /\ op.part > 0 /\ op.at = file[op.path].at =>
           op.part = Whole(file[op.path].size, op.no)

\* The blocks before the one a read is at were full.
ReachedBy(o) ==
    o.step \in {"baseline", "block"} =>
        /\ FirstBlock(o) =< o.no /\ o.no =< LastBlock(o)
        /\ o.out = Larger(0, o.no * Block - o.off)

\* What a file of some size gives to a read.
Given(o, size) == Larger(0, Smaller(o.len, size - o.off))

Exact ==
    op.call = "read" =>
        /\ ReachedBy(op)
        /\ op.step = "baseline" => op.no = FirstBlock(op)
        /\ op.step = "block" /\ op.oldest >= file[op.path].at =>
               op.no = FirstBlock(op) \/ op.no * Block =< file[op.path].size
        /\ op.step \in {"ahead", "done"} /\ op.oldest = file[op.path].at =>
               op.out = Given(op, file[op.path].size)

ExactInv == Faithful /\ Exact

\* Where the first and the last block of a request lie.
LEMMA BlockEdges ==
  ASSUME NEW o \in ReadOps
  PROVE  /\ FirstBlock(o) \in Nat /\ LastBlock(o) \in Nat /\ FirstBlock(o) =< LastBlock(o)
         /\ FirstBlock(o) * Block =< o.off /\ o.off < FirstBlock(o) * Block + Block
         /\ LastBlock(o) * Block =< o.off + o.len - 1 /\ o.off + o.len - 1 < LastBlock(o) * Block + Block
<1>1. o.off \in Nat /\ o.off + o.len - 1 \in Nat /\ o.off =< o.off + o.len - 1 /\ Block \in Nat \ {0}
  BY ReadFields, CacheAssumption
<1>2. \A n \in Nat : \A m \in Nat \ {0} : n \div m \in Nat /\ (n \div m) * m =< n /\ n < (n \div m) * m + m
  OBVIOUS
<1>3. \A n, k \in Nat : \A m \in Nat \ {0} : n =< k => n \div m =< k \div m
  OBVIOUS
<1> QED
  BY <1>1, <1>2, <1>3, Zenon DEF FirstBlock, LastBlock

\* Blocks do not overlap.
LEMMA BlocksApart ==
  ASSUME NEW m \in Nat, NEW n \in Nat, m < n
  PROVE  m * Block + Block =< n * Block
<1>1. \A b, k \in Nat : (m + k + 1) * b >= m * b + b
  OBVIOUS
<1>2. PICK k \in Nat : n = m + k + 1
  <2>1. n - m - 1 \in Nat /\ n = m + (n - m - 1) + 1
    OBVIOUS
  <2> QED
    BY <2>1
<1>3. (m + k + 1) * Block >= m * Block + Block
  BY <1>1, CacheAssumption
<1> QED
  BY <1>2, <1>3, CacheAssumption

\* A read at a block within its request: where the block lies, in numbers.
LEMMA AtBlock ==
  ASSUME NEW o \in ReadOps, ReachedBy(o), o.step \in {"baseline", "block"}
  PROVE  \E start \in Nat :
            /\ start = o.no * Block /\ start =< o.off + o.len - 1
            /\ o.out = Larger(0, start - o.off)
            /\ start =< o.off \/ o.no # FirstBlock(o)
            /\ o.off < start + Block
            /\ o.no = LastBlock(o) => o.off + o.len - 1 < start + Block
            /\ o.no < LastBlock(o) => start + Block =< o.off + o.len - 1
<1>1. /\ o.no \in Nat /\ o.off \in Nat /\ o.len \in Nat \ {0} /\ Block \in Nat \ {0}
      /\ FirstBlock(o) =< o.no /\ o.no =< LastBlock(o)
      /\ o.out = Larger(0, o.no * Block - o.off)
  BY ReadFields, CacheAssumption DEF ReachedBy
<1> DEFINE start == o.no * Block
           first == FirstBlock(o)
           last == LastBlock(o)
           low == first * Block
           high == last * Block
<1>2. start \in Nat
  BY <1>1
<1>3. /\ first \in Nat /\ last \in Nat
      /\ low =< o.off /\ o.off < low + Block /\ high =< o.off + o.len - 1 /\ o.off + o.len - 1 < high + Block
  BY BlockEdges
<1>4. low \in Nat /\ high \in Nat
  BY <1>1, <1>3
<1>5. first < o.no => low + Block =< start
  BY <1>1, <1>3, BlocksApart
<1>6. o.no < last => start + Block =< high
  BY <1>1, <1>3, BlocksApart
<1>7. (o.no = first => start = low) /\ (o.no = last => start = high)
  OBVIOUS
<1>8. (first = o.no \/ first < o.no) /\ (o.no = last \/ o.no < last)
  <2>1. first \in Nat /\ last \in Nat /\ o.no \in Nat /\ first =< o.no /\ o.no =< last
    BY <1>1, <1>3
  <2> HIDE DEF first, last
  <2> QED
    BY <2>1
<1>9. o.out = Larger(0, start - o.off)
  BY <1>1
<1> HIDE DEF start, low, high, first, last
<1>10. start =< o.off + o.len - 1 /\ o.off < start + Block /\ (start =< o.off \/ o.no # first)
  BY <1>1, <1>2, <1>3, <1>4, <1>5, <1>6, <1>7, <1>8
<1>11. o.no = last => o.off + o.len - 1 < start + Block
  BY <1>3, <1>7
<1>12. o.no < last => start + Block =< o.off + o.len - 1
  BY <1>1, <1>2, <1>3, <1>4, <1>6
<1> QED
  BY <1>2, <1>9, <1>10, <1>11, <1>12 DEF start, first, last

LEMMA PieceAt ==
  ASSUME NEW o \in ReadOps, NEW len
  PROVE  Piece(o, len) = Larger(Smaller(len, Smaller(o.off + o.len - o.no * Block, Block))
                                  - Larger(o.off - o.no * Block, 0), 0)
  BY DEF Piece

\* A full block that is not the last brings a read to the next one.
LEMMA FullBlock ==
  ASSUME NEW o \in ReadOps, ReachedBy(o), o.step = "block", o.no < LastBlock(o)
  PROVE  o.out + Piece(o, Block) = Larger(0, (o.no + 1) * Block - o.off)
<1>1. o.no \in Nat /\ o.off \in Nat /\ o.len \in Nat \ {0} /\ Block \in Nat \ {0}
  BY ReadFields, CacheAssumption
<1>2. PICK start \in Nat :
            /\ start = o.no * Block /\ start =< o.off + o.len - 1
            /\ o.out = Larger(0, start - o.off)
            /\ start =< o.off \/ o.no # FirstBlock(o)
            /\ o.off < start + Block
            /\ o.no = LastBlock(o) => o.off + o.len - 1 < start + Block
            /\ o.no < LastBlock(o) => start + Block =< o.off + o.len - 1
  BY AtBlock
<1>3. Piece(o, Block) = Larger(Smaller(Block, Smaller(o.off + o.len - start, Block)) - Larger(o.off - start, 0), 0)
  BY <1>2, PieceAt
<1> DEFINE next == (o.no + 1) * Block
<1>4. next = start + Block
  <2>1. \A n, b \in Nat : (n + 1) * b = n * b + b
    OBVIOUS
  <2> QED
    BY <1>1, <1>2, <2>1
<1>5. o.out = Larger(0, start - o.off) /\ o.off < start + Block /\ start + Block =< o.off + o.len - 1
  BY <1>2
<1>6. o.out + Piece(o, Block) = Larger(0, start + Block - o.off)
  <2> DEFINE off == o.off
             len == o.len
             out == o.out
             piece == Piece(o, Block)
  <2>1. /\ off \in Nat /\ len \in Nat \ {0} /\ off < start + Block /\ start =< off + len - 1
        /\ start + Block =< off + len - 1 /\ out = Larger(0, start - off)
        /\ piece = Larger(Smaller(Block, Smaller(off + len - start, Block)) - Larger(off - start, 0), 0)
    BY <1>1, <1>2, <1>3, <1>5
  <2> HIDE DEF off, len, out, piece
  <2>2. Block \in Nat \ {0}
    BY <1>1
  <2>3. out + piece = Larger(0, start + Block - off)
    <3>1. /\ out = IF start =< off THEN 0 ELSE start - off
          /\ Larger(off - start, 0) = IF start =< off THEN off - start ELSE 0
      BY <2>1, <2>2 DEF Larger
    <3>2. Smaller(Block, Smaller(off + len - start, Block)) = Block
      BY <2>1, <2>2 DEF Smaller
    <3> QED
      BY <2>1, <2>2, <3>1, <3>2 DEF Larger
  <2> QED
    BY <2>3, Zenon DEF off, out, piece
<1>7. o.out + Piece(o, Block) = Larger(0, next - o.off)
  <2> HIDE DEF next
  <2> QED
    BY <1>1, <1>4, <1>6
<1> QED
  BY <1>7

\* The last block of a request, or the last one of a file, completes a read.
LEMMA LastOne ==
  ASSUME NEW o \in ReadOps, ReachedBy(o), o.step = "block", NEW size \in Nat, NEW len,
         len = Whole(size, o.no), o.no = FirstBlock(o) \/ o.no * Block =< size, ~(len = Block /\ o.no < LastBlock(o))
  PROVE  o.out + Piece(o, len) = Given(o, size)
<1>1. o.no \in Nat /\ o.off \in Nat /\ o.len \in Nat \ {0} /\ Block \in Nat \ {0} /\ o.no =< LastBlock(o)
  BY ReadFields, CacheAssumption DEF ReachedBy
<1>2. PICK start \in Nat :
            /\ start = o.no * Block /\ start =< o.off + o.len - 1
            /\ o.out = Larger(0, start - o.off)
            /\ start =< o.off \/ o.no # FirstBlock(o)
            /\ o.off < start + Block
            /\ o.no = LastBlock(o) => o.off + o.len - 1 < start + Block
            /\ o.no < LastBlock(o) => start + Block =< o.off + o.len - 1
  BY AtBlock
<1>3. Piece(o, len) = Larger(Smaller(len, Smaller(o.off + o.len - start, Block)) - Larger(o.off - start, 0), 0)
  BY <1>2, PieceAt
<1>4. len = Larger(0, Smaller(Block, size - start))
  BY <1>2 DEF Whole
<1>5. start =< o.off + o.len - 1 /\ o.out = Larger(0, start - o.off) /\ o.off < start + Block
  BY <1>2
<1>6. LastBlock(o) \in Nat
  BY BlocksOf
<1>7. (len # Block /\ start + Block =< o.off + o.len - 1) \/ o.off + o.len - 1 < start + Block
  BY <1>1, <1>2, <1>6
<1>8. o.out + Piece(o, len) = Larger(0, Smaller(o.len, size - o.off))
  <2> DEFINE off == o.off
             all == o.len
             out == o.out
             piece == Piece(o, len)
  <2>1. /\ len = Larger(0, Smaller(Block, size - start))
        /\ off \in Nat /\ all \in Nat \ {0} /\ off < start + Block /\ start =< off + all - 1
        /\ (len # Block /\ start + Block =< off + all - 1) \/ off + all - 1 < start + Block
        /\ out = Larger(0, start - off)
        /\ piece = Larger(Smaller(len, Smaller(off + all - start, Block)) - Larger(off - start, 0), 0)
    BY <1>1, <1>2, <1>3, <1>4, <1>5, <1>7
  <2>2. Block \in Nat \ {0} /\ (start =< off \/ start =< size)
    BY <1>1, <1>2
  <2> HIDE DEF off, all, out, piece
  <2>3. out + piece = Larger(0, Smaller(all, size - off))
    <3>1. /\ out = IF start =< off THEN 0 ELSE start - off
          /\ Larger(off - start, 0) = IF start =< off THEN off - start ELSE 0
      BY <2>1, <2>2 DEF Larger
    <3>2. Smaller(off + all - start, Block) = IF start + Block =< off + all THEN Block ELSE off + all - start
      BY <2>1, <2>2 DEF Smaller
    <3>3. len = IF size =< start THEN 0 ELSE IF start + Block =< size THEN Block ELSE size - start
      BY <2>1, <2>2 DEF Larger, Smaller
    <3>4. CASE size =< start
      <4>1. Smaller(len, Smaller(off + all - start, Block)) = 0
        BY <2>1, <2>2, <3>2, <3>3, <3>4 DEF Smaller
      <4>2. piece = 0
        BY <2>1, <2>2, <3>1, <4>1 DEF Larger
      <4>3. Smaller(all, size - off) = size - off
        BY <2>1, <2>2, <3>4 DEF Smaller
      <4> QED
        BY <2>1, <2>2, <3>1, <3>4, <4>2, <4>3 DEF Larger
    <3>5. CASE start < size /\ size < start + Block
      <4>1. len = size - start
        BY <2>1, <2>2, <3>3, <3>5
      <4>2. CASE off + all =< size
        <5>1. Smaller(len, Smaller(off + all - start, Block)) = off + all - start
          BY <2>1, <2>2, <3>2, <3>5, <4>1, <4>2 DEF Smaller
        <5>2. Smaller(all, size - off) = all
          BY <2>1, <2>2, <4>2 DEF Smaller
        <5> QED
          BY <2>1, <2>2, <3>1, <5>1, <5>2 DEF Larger
      <4>3. CASE size < off + all
        <5>1. Smaller(len, Smaller(off + all - start, Block)) = size - start
          BY <2>1, <2>2, <3>2, <3>5, <4>1, <4>3 DEF Smaller
        <5>2. Smaller(all, size - off) = size - off
          BY <2>1, <2>2, <4>3 DEF Smaller
        <5> QED
          BY <2>1, <2>2, <3>1, <3>5, <5>1, <5>2 DEF Larger
      <4> QED
        BY <2>1, <2>2, <4>2, <4>3
    <3>6. CASE start + Block =< size
      BY <2>1, <2>2, <3>1, <3>2, <3>3, <3>6 DEF Larger, Smaller
    <3> QED
      BY <2>1, <2>2, <3>4, <3>5, <3>6
  <2> QED
    BY <2>3 DEF off, all, out, piece
<1> QED
  BY <1>8 DEF Given

\* A new change leaves nothing as new as the file.
LEMMA ChangedExact ==
  ASSUME CacheInv, ExactInv, event' = event + 1, blocks' = blocks, op' = op \/ op'.call # "read",
         \A p \in Paths : file'[p] = file[p] \/ file'[p].at = event'
  PROVE  ExactInv'
<1>1. event \in Nat /\ blocks \in Seq(CachedBlock) /\ op \in Ops
  BY CallFacts
<1>2. \A p \in Paths : file[p].at =< event /\ file[p].at \in Nat
  BY CallFacts DEF CacheInv, Dated
<1>3. ASSUME NEW i \in DOMAIN blocks, blocks[i].at = file'[blocks[i].path].at
      PROVE  file'[blocks[i].path] = file[blocks[i].path]
  <2> DEFINE b == blocks[i]
  <2>1. b \in CachedBlock
    BY <1>1, ElementOfSeq
  <2>2. b.path \in Paths /\ b.at \in Nat
    BY <2>1 DEF CachedBlock
  <2>3. Holds(b.path, b.at)
    BY DEF Holds, HoldsIn
  <2> HIDE DEF b
  <2>4. b.at =< event
    BY <1>1, <1>2, <2>2, <2>3 DEF CacheInv, Dated
  <2> QED
    BY <1>1, <1>3, <2>2, <2>4 DEF b
<1>4. Faithful'
  <2>1. \A i \in DOMAIN blocks : blocks[i].at = file'[blocks[i].path].at =>
           blocks[i].len = Whole(file'[blocks[i].path].size, blocks[i].no)
    BY <1>3 DEF ExactInv, Faithful
  <2>2. ASSUME op' = op, op.call = "read", op.part > 0, op.at = file'[op.path].at
        PROVE  op.part = Whole(file'[op.path].size, op.no)
    <3>1. op.path \in Paths /\ op.at \in Nat
      BY <1>1, <2>2, OpKinds, ReadFields
    <3>2. Holds(op.path, op.at)
      BY <2>2 DEF Holds, HoldsIn
    <3>3. op.at =< event
      BY <1>1, <1>2, <3>1, <3>2 DEF CacheInv, Dated
    <3>4. file'[op.path] = file[op.path]
      BY <1>1, <2>2, <3>1, <3>3
    <3> QED
      BY <2>2, <3>4 DEF ExactInv, Faithful
  <2> QED
    BY <2>1, <2>2 DEF Faithful
<1>5. Exact'
  <2> SUFFICES ASSUME op' = op, op.call = "read" PROVE Exact'
    BY DEF Exact
  <2>1. op.path \in Paths /\ op.oldest \in Nat
    BY <1>1, OpKinds, ReadFields
  <2>2. op.oldest =< event
    BY DEF CacheInv, Dated
  <2>3. op.oldest >= file'[op.path].at => file'[op.path] = file[op.path]
    BY <1>1, <2>1, <2>2
  <2>4. op.oldest = file'[op.path].at => file'[op.path] = file[op.path]
    BY <1>1, <2>1, <2>2
  <2> QED
    BY <2>3, <2>4 DEF ExactInv, Exact
<1> QED
  BY <1>4, <1>5 DEF ExactInv

\* Steps that bring nothing and are not a read's.
LEMMA StillExact ==
  ASSUME ExactInv, UNCHANGED file, op' = op \/ op'.call # "read",
         \A i \in DOMAIN blocks' : \E j \in DOMAIN blocks : blocks'[i] = blocks[j]
  PROVE  ExactInv'
<1>1. Faithful'
  BY DEF ExactInv, Faithful
<1>2. Exact'
  BY DEF ExactInv, Exact
<1> QED
  BY <1>1, <1>2 DEF ExactInv

LEMMA ReadExact ==
  ASSUME CacheInv, ExactInv, NEW p \in Paths, NEW r \in Requests, Read(p, r), CacheInv'
  PROVE  ExactInv'
<1>1. UNCHANGED file /\ UNCHANGED blocks
  BY DEF Read, server
<1>2. /\ op'.call = "read" /\ op'.step \in {"baseline", "block"} /\ op'.off = r.off /\ op'.len = r.len
      /\ op'.no = FirstBlock(r) /\ op'.out = 0 /\ op'.part = 0
  BY DEF Read
<1>3. op' \in ReadOps
  BY <1>2, CallFacts, OpKinds DEF CacheInv, Typed
<1>4. FirstBlock(op') = op'.no
  BY <1>2 DEF FirstBlock
<1>5. /\ FirstBlock(op') =< LastBlock(op') /\ FirstBlock(op') \in Nat
      /\ FirstBlock(op') * Block =< op'.off
  BY <1>3, BlockEdges
<1>6. Larger(0, op'.no * Block - op'.off) = 0
  <2> DEFINE start == op'.no * Block
             off == op'.off
  <2>1. start \in Nat /\ off \in Nat /\ start =< off
    BY <1>3, <1>4, <1>5, ReadFields, CacheAssumption
  <2> HIDE DEF start, off
  <2>2. Larger(0, start - off) = 0
    BY <2>1 DEF Larger
  <2> QED
    BY <2>2 DEF start, off
<1>7. ReachedBy(op')
  BY <1>2, <1>4, <1>5, <1>6 DEF ReachedBy
<1>8. Exact'
  BY <1>2, <1>4, <1>7 DEF Exact
<1>9. Faithful'
  BY <1>1, <1>2 DEF ExactInv, Faithful
<1> QED
  BY <1>8, <1>9 DEF ExactInv

\* A full block of a file means that the file reaches the next one.
LEMMA WholeIsFull ==
  ASSUME NEW no \in Nat, NEW size \in Nat, Whole(size, no) = Block
  PROVE  (no + 1) * Block =< size
<1> DEFINE start == no * Block
           next == (no + 1) * Block
<1>1. Block \in Nat \ {0} /\ start \in Nat
  BY CacheAssumption
<1>2. next = start + Block
  <2>1. \A n, b \in Nat : (n + 1) * b = n * b + b
    OBVIOUS
  <2> QED
    BY <1>1, <2>1
<1>3. Larger(0, Smaller(Block, size - start)) = Block
  BY DEF Whole
<1> HIDE DEF start, next
<1>4. start + Block =< size
  BY <1>1, <1>3 DEF Larger, Smaller
<1>5. next =< size
  BY <1>1, <1>2, <1>4
<1> QED
  BY <1>5 DEF next

\* After a block a read is where it should be, with what it should have.
LEMMA OnwardExact ==
  ASSUME NEW o \in ReadOps, o.step = "block", ReachedBy(o), NEW len \in 0..Block, NEW miss \in BOOLEAN, NEW bs,
         NEW size \in Nat, NEW same,
         same => len = Whole(size, o.no) /\ (o.no = FirstBlock(o) \/ o.no * Block =< size)
  PROVE  /\ ReachedBy(Onward(o, len, miss, bs))
         /\ Onward(o, len, miss, bs).step = "block" /\ same =>
               Onward(o, len, miss, bs).no * Block =< size
         /\ Onward(o, len, miss, bs).step \in {"ahead", "done"} /\ same =>
               Onward(o, len, miss, bs).out = Given(Onward(o, len, miss, bs), size)
<1> DEFINE next == Onward(o, len, miss, bs)
<1>1. /\ next \in ReadOps /\ next.off = o.off /\ next.len = o.len /\ next.out = o.out + Piece(o, len)
      /\ \/ len = Block /\ o.no < LastBlock(o) /\ next.step = o.step /\ next.no = o.no + 1
         \/ ~(len = Block /\ o.no < LastBlock(o)) /\ next.step \in {"ahead", "done"}
  BY OnwardIs
<1> HIDE DEF next
<1>2. FirstBlock(next) = FirstBlock(o) /\ LastBlock(next) = LastBlock(o) /\ Given(next, size) = Given(o, size)
  BY <1>1 DEF FirstBlock, LastBlock, Given
<1>3. o.no \in Nat /\ FirstBlock(o) \in Nat /\ LastBlock(o) \in Nat /\ FirstBlock(o) =< o.no
  BY ReadFields, BlocksOf DEF ReachedBy
<1>4. CASE len = Block /\ o.no < LastBlock(o)
  <2>1. next.step = "block" /\ next.no = o.no + 1 /\ next.out = o.out + Piece(o, Block)
    BY <1>1, <1>4
  <2>2. o.out + Piece(o, Block) = Larger(0, (o.no + 1) * Block - o.off)
    BY <1>4, FullBlock
  <2>3. next.out = Larger(0, next.no * Block - next.off)
    BY <1>1, <2>1, <2>2
  <2>4. FirstBlock(next) =< next.no /\ next.no =< LastBlock(next)
    BY <1>2, <1>3, <1>4, <2>1
  <2>5. ReachedBy(next)
    BY <2>3, <2>4 DEF ReachedBy
  <2>6. same => (o.no + 1) * Block =< size
    BY <1>3, <1>4, WholeIsFull
  <2> QED
    BY <2>1, <2>5, <2>6 DEF next
<1>5. CASE ~(len = Block /\ o.no < LastBlock(o))
  <2>1. next.step \in {"ahead", "done"}
    BY <1>1, <1>5
  <2>2. same => o.out + Piece(o, len) = Given(o, size)
    BY <1>5, LastOne
  <2>3. ReachedBy(next)
    BY <2>1 DEF ReachedBy
  <2> QED
    BY <1>1, <1>2, <2>1, <2>2, <2>3 DEF next
<1> QED
  BY <1>4, <1>5

\* A block of the file as it is, and blocks as new before it.
LEMMA SameFile ==
  ASSUME CacheInv, op \in ReadOps, NEW a \in Nat, Holds(op.path, a) \/ a = file[op.path].at
  PROVE  /\ a =< file[op.path].at /\ Smaller(op.oldest, a) =< file[op.path].at
         /\ Smaller(op.oldest, a) >= file[op.path].at => a = file[op.path].at /\ op.oldest >= file[op.path].at
<1>1. op.path \in Paths /\ op.oldest \in Nat /\ file[op.path].at \in Nat
  BY ReadFields, CallFacts
<1>2. a =< file[op.path].at
  BY <1>1 DEF CacheInv, Dated
<1>3. Smaller(op.oldest, a) \in {op.oldest, a} /\ Smaller(op.oldest, a) =< op.oldest /\ Smaller(op.oldest, a) =< a
  BY <1>1, SmallerIs
<1> QED
  BY <1>1, <1>2, <1>3

\* A read goes on after a block it found or fetched.
LEMMA GoesOn ==
  ASSUME CacheInv, ExactInv, op \in ReadOps, op.step = "block", NEW a \in Nat, NEW len \in 0..Block,
         NEW miss \in BOOLEAN, NEW bs, Holds(op.path, a) \/ a = file[op.path].at,
         a = file[op.path].at => len = Whole(file[op.path].size, op.no),
         op' = Onward([op EXCEPT !.oldest = Smaller(op.oldest, a)], len, miss, bs), UNCHANGED file
  PROVE  Exact'
<1> DEFINE o == [op EXCEPT !.oldest = Smaller(op.oldest, a)]
           f == file[op.path]
           same == o.oldest >= f.at
<1>1. op.call = "read" /\ op.path \in Paths /\ op.oldest \in Nat
  BY ReadFields
<1>2. f.size \in Nat /\ f.at \in Nat
  BY <1>1, CallFacts
<1>3. /\ a =< f.at /\ Smaller(op.oldest, a) =< f.at
      /\ Smaller(op.oldest, a) >= f.at => a = f.at /\ op.oldest >= f.at
  BY SameFile
<1>4. Smaller(op.oldest, a) \in Nat
  BY OldestIs
<1>5. /\ o \in ReadOps /\ o.step = "block" /\ o.no = op.no /\ o.off = op.off /\ o.len = op.len /\ o.out = op.out
      /\ o.path = op.path /\ o.oldest = Smaller(op.oldest, a)
  BY <1>4 DEF ReadOps
<1>6. op' = Onward(o, len, miss, bs)
  OBVIOUS
<1>11. a = f.at => len = Whole(f.size, op.no)
  OBVIOUS
<1> HIDE DEF o, f
<1>7. FirstBlock(o) = FirstBlock(op) /\ LastBlock(o) = LastBlock(op)
  BY <1>5 DEF FirstBlock, LastBlock
<1>8. ReachedBy(op) /\ (op.oldest >= f.at => op.no = FirstBlock(op) \/ op.no * Block =< f.size)
  BY <1>1 DEF ExactInv, Exact, f
<1>9. ReachedBy(o)
  BY <1>5, <1>7, <1>8 DEF ReachedBy
<1>10. same => len = Whole(f.size, o.no) /\ (o.no = FirstBlock(o) \/ o.no * Block =< f.size)
  BY <1>3, <1>5, <1>7, <1>8, <1>11
<1> HIDE DEF same
<1>12. /\ ReachedBy(op')
       /\ op'.step = "block" /\ same => op'.no * Block =< f.size
       /\ op'.step \in {"ahead", "done"} /\ same => op'.out = Given(op', f.size)
  BY <1>2, <1>5, <1>6, <1>9, <1>10, OnwardExact
<1>13. op'.path = op.path /\ op'.oldest = o.oldest /\ op'.step # "baseline"
  BY <1>5, <1>6, OnwardIs
<1>14. (op'.oldest >= f.at => same) /\ (op'.oldest = f.at => same)
  BY <1>2, <1>13 DEF same
<1>15. file'[op'.path] = f
  BY <1>13 DEF f
<1> QED
  BY <1>12, <1>13, <1>14, <1>15 DEF Exact

LEMMA HitExact ==
  ASSUME CacheInv, ExactInv, Hit
  PROVE  ExactInv'
<1> DEFINE i == PlaceOf(op.path, op.no)
           b == blocks[i]
           used == Moved(blocks, i)
           miss == FALSE
<1>1. op.step = "block" /\ op \in ReadOps
  BY CallFacts, OpKinds DEF Hit
<1>2. i \in DOMAIN blocks /\ IsBlock(b, op.path, op.no)
  BY DEF Hit, Cached, PlaceOf
<1>3. /\ blocks' = used /\ op' = Onward([op EXCEPT !.oldest = Smaller(op.oldest, b.at)], b.len, miss, used)
      /\ UNCHANGED file
  BY DEF Hit, server
<1>0. miss \in BOOLEAN
  OBVIOUS
<1> HIDE DEF miss
<1>4. b \in CachedBlock
  BY <1>2, CallFacts, ElementOfSeq
<1>5. b.path = op.path /\ b.no = op.no
  BY <1>2 DEF IsBlock
<1>6. Holds(op.path, b.at)
  BY <1>2, <1>5 DEF Holds, HoldsIn
<1>7. b.at = file[op.path].at => b.len = Whole(file[op.path].size, op.no)
  BY <1>2, <1>5 DEF ExactInv, Faithful
<1> HIDE DEF i
<1>8. \A k \in DOMAIN used : \E j \in DOMAIN blocks : used[k] = blocks[j]
  BY <1>2, CallFacts, MovedKeeps
<1> HIDE DEF b, used
<1>9. b.at \in Nat /\ b.len \in 0..Block
  BY <1>4 DEF CachedBlock
<1>10. Exact'
  BY <1>0, <1>1, <1>3, <1>6, <1>7, <1>9, GoesOn
<1>11. op'.part = 0
  <2> DEFINE o == [op EXCEPT !.oldest = Smaller(op.oldest, b.at)]
  <2>1. Smaller(op.oldest, b.at) \in Nat
    BY <1>1, <1>6, <1>9, OldestIs
  <2>2. o \in ReadOps
    BY <1>1, <2>1 DEF ReadOps
  <2>3. op' = Onward(o, b.len, miss, used)
    BY <1>3
  <2> HIDE DEF o
  <2> QED
    BY <1>0, <1>9, <2>2, <2>3, OnwardIs
<1>12. Faithful'
  BY <1>3, <1>8, <1>11 DEF ExactInv, Faithful
<1> QED
  BY <1>10, <1>12 DEF ExactInv

\* What has been received of a block after a round-trip.
LEMMA FetchedWhole ==
  ASSUME CacheInv, ExactInv, Fetching, There(file[op.path]), FirstAt = file[op.path].at
  PROVE  op.part + Chunk = Whole(file[op.path].size, op.no)
<1>1. op \in ReadOps /\ op.path \in Paths
  BY Received
<1>2. /\ op.part \in 0..(Block - 1) /\ op.no \in Nat /\ Block \in Nat \ {0} /\ file[op.path].size \in Nat
      /\ op.call = "read"
  BY <1>1, ReadFields, CallFacts, CacheAssumption
<1> DEFINE start == op.no * Block
           size == file[op.path].size
           part == op.part
<1>3. start \in Nat
  BY <1>2
<1>4. part = 0 \/ part = Larger(0, Smaller(Block, size - start))
  BY <1>2 DEF FirstAt, ExactInv, Faithful, Whole
<1>5. Chunk = Larger(0, Smaller(Block - part, size - start - part))
  BY DEF Chunk
<1>6. part \in 0..(Block - 1) /\ Block \in Nat \ {0} /\ size \in Nat
  BY <1>2
<1> HIDE DEF start, size, part
<1>7. part + Chunk = Larger(0, Smaller(Block, size - start))
  BY <1>3, <1>4, <1>5, <1>6 DEF Larger, Smaller
<1> QED
  BY <1>7 DEF start, size, part, Whole

LEMMA FetchMoreExact ==
  ASSUME CacheInv, ExactInv, FetchMore
  PROVE  ExactInv'
<1> DEFINE part == op.part + Chunk
           at == FirstAt
<1>1. /\ Fetching /\ There(file[op.path]) /\ part < Block /\ UNCHANGED <<file, blocks>>
  BY DEF FetchMore, server, cache
<1>2. op' = [op EXCEPT !.part = part, !.at = at]
  BY DEF FetchMore
<1>3. op \in ReadOps /\ op.path \in Paths /\ op.step \in {"block", "ahead"} /\ part \in 0..Block /\ at \in Nat
  BY <1>1, Received
<1>4. at = file[op.path].at => part = Whole(file[op.path].size, op.no)
  BY <1>1, FetchedWhole
<1> HIDE DEF part, at
<1>5. /\ op'.call = op.call /\ op'.path = op.path /\ op'.step = op.step /\ op'.oldest = op.oldest /\ op'.no = op.no
      /\ op'.at = at /\ op'.part = part /\ op'.off = op.off /\ op'.len = op.len /\ op'.out = op.out
  BY <1>2, <1>3 DEF ReadOps
<1>6. FirstBlock(op') = FirstBlock(op) /\ LastBlock(op') = LastBlock(op) /\ \A s : Given(op', s) = Given(op, s)
  BY <1>5 DEF FirstBlock, LastBlock, Given
<1>7. Exact'
  BY <1>1, <1>5, <1>6 DEF ExactInv, Exact, ReachedBy
<1>8. Faithful'
  BY <1>1, <1>4, <1>5 DEF ExactInv, Faithful
<1> QED
  BY <1>7, <1>8 DEF ExactInv

LEMMA FetchEndsExact ==
  ASSUME CacheInv, ExactInv, FetchEnds
  PROVE  ExactInv'
<1> DEFINE len == op.part + Chunk
           b == [path |-> op.path, no |-> op.no, len |-> len, at |-> FirstAt]
           bs == Append(blocks, b)
           total == bytes + b.len
           kept == Evicted(bs, total)
           miss == TRUE
           a == FirstAt
<1>1. /\ Fetching /\ There(file[op.path]) /\ UNCHANGED file /\ blocks' = kept.blocks
      /\ op' = IF op.step = "ahead" THEN AheadOnward(op, len, kept.blocks)
               ELSE Onward([op EXCEPT !.oldest = Smaller(op.oldest, a)], len, miss, kept.blocks)
  BY DEF FetchEnds, server
<1>0. miss \in BOOLEAN
  OBVIOUS
<1> HIDE DEF miss
<1>2. /\ op \in ReadOps /\ op.path \in Paths /\ op.step \in {"block", "ahead"} /\ len \in 0..Block
      /\ a \in Nat /\ (Holds(op.path, a) \/ a = file[op.path].at)
  BY <1>1, Received
<1>3. a = file[op.path].at => len = Whole(file[op.path].size, op.no)
  BY <1>1, FetchedWhole
<1> HIDE DEF len, a
<1>4. b \in CachedBlock /\ b.path = op.path /\ b.no = op.no /\ b.len = len /\ b.at = a
  BY <1>2, ReadFields DEF CachedBlock, a
<1> HIDE DEF b
<1>5. /\ bs \in Seq(CachedBlock) /\ Total(bs) = total
      /\ \A i \in DOMAIN bs : bs[i] = b \/ \E j \in DOMAIN blocks : bs[i] = blocks[j]
  <2>1. blocks \in Seq(CachedBlock) /\ bytes = Total(blocks)
    BY CallFacts
  <2> QED
    BY <1>4, <2>1, TotalAppend
<1> HIDE DEF bs, total
<1>6. \A i \in DOMAIN kept.blocks : \E j \in DOMAIN bs : kept.blocks[i] = bs[j]
  BY <1>5, EvictedKeeps
<1> HIDE DEF kept
<1>7. \A i \in DOMAIN kept.blocks : kept.blocks[i] = b \/ \E j \in DOMAIN blocks : kept.blocks[i] = blocks[j]
  BY <1>5, <1>6
<1>8. Exact' /\ op'.part = 0
  <2>1. CASE op.step = "block"
    <3> DEFINE o == [op EXCEPT !.oldest = Smaller(op.oldest, a)]
    <3>1. op' = Onward(o, len, miss, kept.blocks)
      BY <1>1, <2>1
    <3>2. Exact'
      BY <1>0, <1>1, <1>2, <1>3, <2>1, <3>1, GoesOn
    <3>3. Smaller(op.oldest, a) \in Nat
      BY <1>2, OldestIs
    <3>4. o \in ReadOps
      BY <1>2, <3>3 DEF ReadOps
    <3> HIDE DEF o
    <3>5. op'.part = 0
      BY <1>0, <1>2, <3>1, <3>4, OnwardIs
    <3> QED
      BY <3>2, <3>5
  <2>2. CASE op.step = "ahead"
    <3>1. op' = AheadOnward(op, len, kept.blocks)
      BY <1>1, <2>2
    <3>2. /\ op' \in ReadOps /\ op'.path = op.path /\ op'.off = op.off /\ op'.len = op.len /\ op'.part = 0
          /\ op'.oldest = op.oldest /\ op'.out = op.out /\ op'.step \in {op.step, "done"}
      BY <1>2, <3>1, AheadOnwardIs
    <3>3. \A s : Given(op', s) = Given(op, s)
      BY <3>2 DEF Given
    <3>4. op.call = "read"
      BY <1>2, ReadFields
    <3> QED
      BY <1>1, <2>2, <3>2, <3>3, <3>4 DEF ExactInv, Exact, ReachedBy
  <2> QED
    BY <1>2, <2>1, <2>2
<1>9. Faithful'
  BY <1>1, <1>3, <1>4, <1>7, <1>8 DEF ExactInv, Faithful
<1> QED
  BY <1>8, <1>9 DEF ExactInv

LEMMA BaselineExact ==
  ASSUME CacheInv, ExactInv, Baseline
  PROVE  ExactInv'
<1>1. op.step = "baseline" /\ UNCHANGED <<file, blocks>>
  BY DEF Baseline, server
<1>2. op \in ReadOps /\ op.call = "read"
  BY <1>1, CallFacts, OpKinds, ReadFields
<1>3. op' = [op EXCEPT !.step = "block"]
  BY DEF Baseline
<1>4. /\ op'.call = op.call /\ op'.path = op.path /\ op'.step = "block" /\ op'.oldest = op.oldest /\ op'.no = op.no
      /\ op'.at = op.at /\ op'.part = op.part /\ op'.off = op.off /\ op'.len = op.len /\ op'.out = op.out
  BY <1>2, <1>3 DEF ReadOps
<1>5. FirstBlock(op') = FirstBlock(op) /\ LastBlock(op') = LastBlock(op)
  BY <1>4 DEF FirstBlock, LastBlock
<1>6. op.no = FirstBlock(op)
  BY <1>1, <1>2 DEF ExactInv, Exact
<1>7. Exact'
  BY <1>1, <1>2, <1>4, <1>5, <1>6 DEF ExactInv, Exact, ReachedBy
<1>8. Faithful'
  BY <1>1, <1>4 DEF ExactInv, Faithful
<1> QED
  BY <1>7, <1>8 DEF ExactInv

LEMMA AnswersExact ==
  ASSUME CacheInv, ExactInv, StatAnswered \/ Invalidate
  PROVE  ExactInv'
<1>1. UNCHANGED file /\ op'.call # "read"
  BY DEF StatAnswered, Invalidate, server, Free
<1>2. \A i \in DOMAIN blocks' : \E j \in DOMAIN blocks : blocks'[i] = blocks[j]
  <2>1. CASE UNCHANGED blocks
    BY <2>1
  <2>2. ASSUME NEW ps, ForgetBlocks(ps)
        PROVE  \A i \in DOMAIN blocks' : \E j \in DOMAIN blocks : blocks'[i] = blocks[j]
    BY <2>2, ForgetKeeps
  <2> QED
    BY <2>1, <2>2 DEF StatAnswered, Invalidate
<1> QED
  BY <1>1, <1>2, StillExact

LEMMA ExactInit == Init => ExactInv
<1> SUFFICES ASSUME Init PROVE ExactInv
  OBVIOUS
<1>1. blocks = <<>> /\ op.call = "free"
  BY DEF Init, Free
<1>2. DOMAIN blocks = {}
  BY <1>1
<1> QED
  BY <1>1, <1>2 DEF ExactInv, Faithful, Exact

\* A file is changed, by the server's other users or by a call.
Changes ==
    \E p \in Paths :
        \/ RemoteRemove(p) \/ Unlink(p)
        \/ \E s \in Sizes : RemoteWrite(p, s) \/ Write(p, s)
        \/ \E q \in Paths : Rename(p, q)

\* What every change does.
LEMMA ChangesAre ==
  ASSUME CacheInv, Changes
  PROVE  /\ event' = event + 1 /\ UNCHANGED <<now, blocks, attr, dirs, seen>>
         /\ op' = op \/ op'.call \in {"write", "unlink", "rename"}
         /\ \A p \in Paths : file'[p] = file[p] \/ file'[p].at = event'
<1>1. file \in [Paths -> File] /\ event \in Nat
  BY DEF CacheInv, Typed
<1>2. /\ event' = event + 1 /\ UNCHANGED <<now, blocks, attr, dirs, seen>>
      /\ op' = op \/ op'.call \in {"write", "unlink", "rename"}
  <2>1. ASSUME NEW p \in Paths, RemoteRemove(p) \/ \E s \in Sizes : RemoteWrite(p, s)
        PROVE  event' = event + 1 /\ op' = op /\ UNCHANGED <<now, blocks, attr, dirs, seen>>
    BY <2>1 DEF RemoteRemove, RemoteWrite, cache, told
  <2>2. ASSUME NEW p \in Paths,
               Unlink(p) \/ (\E s \in Sizes : Write(p, s)) \/ (\E q \in Paths : Rename(p, q))
        PROVE  /\ event' = event + 1 /\ UNCHANGED <<now, blocks, attr, dirs, seen>>
               /\ op'.call \in {"write", "unlink", "rename"}
    <3>1. \A call, acks : Change(call, acks) => op'.call = call
      BY DEF Change
    <3> QED
      BY <2>2, <3>1 DEF Unlink, Write, Rename, cache, told
  <2> QED
    BY <2>1, <2>2 DEF Changes
<1>3. \A p \in Paths : file'[p] = file[p] \/ file'[p].at = event'
  <2>1. ASSUME NEW q \in Paths, NEW f, f.at = event', file' = [file EXCEPT ![q] = f]
        PROVE  \A p \in Paths : file'[p] = file[p] \/ file'[p].at = event'
    BY <1>1, <2>1
  <2>2. ASSUME NEW q \in Paths, RemoteRemove(q) \/ Unlink(q)
        PROVE  \A p \in Paths : file'[p] = file[p] \/ file'[p].at = event'
    <3> DEFINE f == [NoFile EXCEPT !.at = event']
    <3>1. file' = [file EXCEPT ![q] = f]
      BY <2>2 DEF RemoteRemove, Unlink
    <3>2. f.at = event'
      BY DEF NoFile
    <3> HIDE DEF f
    <3> QED
      BY <2>1, <3>1, <3>2
  <2>3. ASSUME NEW q \in Paths, NEW s \in Sizes, RemoteWrite(q, s) \/ Write(q, s)
        PROVE  \A p \in Paths : file'[p] = file[p] \/ file'[p].at = event'
    <3> DEFINE f == [id |-> event', at |-> event', size |-> s]
    <3>1. file' = [file EXCEPT ![q] = f]
      BY <2>3 DEF RemoteWrite, Write
    <3>2. f.at = event'
      OBVIOUS
    <3> HIDE DEF f
    <3> QED
      BY <2>1, <3>1, <3>2
  <2>4. ASSUME NEW q \in Paths, NEW r \in Paths, Rename(q, r)
        PROVE  \A p \in Paths : file'[p] = file[p] \/ file'[p].at = event'
    <3> DEFINE f == [NoFile EXCEPT !.at = event']
               g == [file[q] EXCEPT !.at = event']
    <3>1. file' = [file EXCEPT ![q] = f, ![r] = g]
      BY <2>4 DEF Rename
    <3>2. f.at = event'
      BY DEF NoFile
    <3>3. g.at = event'
      BY <1>1 DEF File
    <3> HIDE DEF f, g
    <3> QED
      BY <1>1, <3>1, <3>2, <3>3
  <2> QED
    BY <2>2, <2>3, <2>4 DEF Changes
<1> QED
  BY <1>2, <1>3

LEMMA ServerExact ==
  ASSUME CacheInv, ExactInv, Changes
  PROVE  ExactInv'
<1>1. op' = op \/ op'.call # "read"
  BY ChangesAre
<1> QED
  BY <1>1, ChangesAre, ChangedExact

\* The steps that neither change a file nor go on with a read.
LEMMA OthersExact ==
  ASSUME ExactInv,
         \/ Tick \/ List \/ StatAsked \/ ListAnswered \/ FetchFindsNothing \/ ReadReturns \/ CallFails
         \/ UNCHANGED vars \/ \E p \in Paths : StatHit(p) \/ Stat(p)
  PROVE  ExactInv'
<1>1. UNCHANGED <<file, blocks>>
  BY DEF Tick, List, StatAsked, ListAnswered, FetchFindsNothing, ReadReturns, CallFails, StatHit, Stat,
         vars, server, cache
<1>2. op' = op \/ op'.call # "read"
  <2>1. CASE StatAsked
    <3>1. op'.call = op.call
      BY <2>1 DEF StatAsked
    <3> QED
      BY <2>1, <3>1 DEF StatAsked
  <2>2. CASE Tick \/ UNCHANGED vars \/ \E p \in Paths : StatHit(p)
    BY <2>2 DEF Tick, StatHit, vars
  <2>3. CASE List \/ \E p \in Paths : Stat(p)
    BY <2>3 DEF List, Stat
  <2>4. CASE ListAnswered \/ FetchFindsNothing \/ ReadReturns \/ CallFails
    BY <2>4 DEF ListAnswered, FetchFindsNothing, ReadReturns, CallFails, Free
  <2> QED
    BY <2>1, <2>2, <2>3, <2>4
<1> QED
  BY <1>1, <1>2, StillExact

\* A call begins with a change, or with a question.
LEMMA BeginIs ==
  /\ \A p \in Paths :
        Unlink(p) \/ (\E s \in Sizes : Write(p, s)) \/ (\E q \in Paths : Rename(p, q)) => Changes
  /\ Begin => \/ Changes \/ List
              \/ \E p \in Paths : StatHit(p) \/ Stat(p)
              \/ \E p \in Paths : \E r \in Requests : Read(p, r)
<1>1. ASSUME NEW p \in Paths, Unlink(p) PROVE Changes
  BY <1>1 DEF Changes
<1>2. ASSUME NEW p \in Paths, NEW s \in Sizes, Write(p, s) PROVE Changes
  BY <1>2 DEF Changes
<1>3. ASSUME NEW p \in Paths, NEW q \in Paths, Rename(p, q) PROVE Changes
  BY <1>3 DEF Changes
<1>4. \A p \in Paths :
        Unlink(p) \/ (\E s \in Sizes : Write(p, s)) \/ (\E q \in Paths : Rename(p, q)) => Changes
  BY <1>1, <1>2, <1>3, Zenon
<1>5. Begin => \/ Changes \/ List
               \/ \E p \in Paths : StatHit(p) \/ Stat(p)
               \/ \E p \in Paths : \E r \in Requests : Read(p, r)
  BY <1>4 DEF Begin
<1> QED
  BY <1>4, <1>5

LEMMA ExactStep ==
  ASSUME CacheInv, CacheInv', ExactInv, [Next]_vars
  PROVE  ExactInv'
<1>1. CASE World
  BY <1>1, ServerExact, OthersExact DEF World, Changes
<1>2. CASE Begin
  <2>1. ASSUME NEW p \in Paths, NEW r \in Requests, Read(p, r) PROVE ExactInv'
    BY <2>1, ReadExact
  <2>2. ASSUME NEW p \in Paths, StatHit(p) \/ Stat(p) PROVE ExactInv'
    <3>1. \E q \in Paths : StatHit(q) \/ Stat(q)
      BY <2>2
    <3> QED
      BY <3>1, OthersExact
  <2>3. ASSUME NEW p \in Paths,
               Unlink(p) \/ (\E s \in Sizes : Write(p, s)) \/ (\E q \in Paths : Rename(p, q))
        PROVE  ExactInv'
    BY <2>3, BeginIs, ServerExact
  <2>4. ASSUME List PROVE ExactInv'
    BY <2>4, OthersExact
  <2> QED
    BY <1>2, <2>1, <2>2, <2>3, <2>4 DEF Begin
<1>3. CASE Continue
  BY <1>3, BaselineExact, HitExact, FetchMoreExact, FetchEndsExact, AnswersExact, OthersExact DEF Continue
<1>4. CASE CallFails \/ UNCHANGED vars
  BY <1>4, OthersExact
<1> QED
  BY <1>1, <1>2, <1>3, <1>4 DEF Next

\* ReadsAreExact: whatever was cached, evicted, prefetched or changed in
\* between, a read whose blocks are all of the file as it is now hands out
\* what that file has at the offset, up to its end - for every block size,
\* every request and every file size.
THEOREM ReadsExact == Spec => []ReadsAreExact
<1>1. Init => ExactInv
  BY ExactInit
<1>2. CacheInv /\ CacheInv' /\ ExactInv /\ [Next]_vars => ExactInv'
  BY ExactStep
<1>3. ExactInv => ReadsAreExact
  BY DEF ExactInv, Exact, Given, ReadsAreExact
<1> QED
  BY <1>1, <1>2, <1>3, Invariant, PTL DEF Spec

-----------------------------------------------------------------------------
(* How old an answer may be: a log of all changes against the attributes   *)
(* and the listing that are in force.                                      *)

Entries == [paths: SUBSET Paths, time: Nat]

\* The log has every change; the last change of a path is the one its file
\* carries.
Logged ==
    /\ log \in Seq(Entries) /\ Len(log) = event
    /\ \A e \in 1..event : log[e].time =< now /\ \A p \in log[e].paths : e =< file[p].at
    /\ \A p \in Paths : file[p].at # 0 => p \in log[file[p].at].paths

\* An attribute, an answer under way and the listing miss only what changed
\* after the question, and an attribute misses nothing that was told.
Recent ==
    /\ \A p \in Paths : attr[p].until # 0 =>
           /\ attr[p].until =< now + Ttl
           /\ attr[p].at >= seen[p]
           /\ \A e \in 1..event : e > attr[p].at /\ p \in log[e].paths => log[e].time + Ttl >= attr[p].until
    /\ op.call \in {"stat", "list"} => op.time =< now
    /\ op.call = "stat" /\ op.step = "answered" =>
           /\ op.answer.at >= seen[op.path]
           /\ \A e \in 1..event : e > op.answer.at /\ op.path \in log[e].paths => log[e].time >= op.time
    /\ dirs.until # 0 =>
           /\ dirs.until =< now + Ttl
           /\ \A p \in Paths : (p \in dirs.names) # There(file[p]) =>
                  \E e \in 1..event : p \in log[e].paths /\ log[e].time + Ttl >= dirs.until

LogInv == Logged /\ Recent

LEMMA LogFields ==
  ASSUME Logged
  PROVE  DOMAIN log = 1..event /\ \A e \in 1..event : log[e].paths \in SUBSET Paths /\ log[e].time \in Nat
<1>1. log \in Seq(Entries) /\ Len(log) = event
  BY DEF Logged
<1>2. DOMAIN log = 1..event
  BY <1>1, LenProperties
<1>3. \A e \in 1..event : log[e] \in Entries
  BY <1>1, <1>2, ElementOfSeq
<1> QED
  BY <1>2, <1>3 DEF Entries

LEMMA LogStart == LInit => LogInv
<1> SUFFICES ASSUME LInit PROVE LogInv
  OBVIOUS
<1>1. Init /\ log = [e \in 1..event |-> [paths |-> {}, time |-> 0]]
  BY DEF LInit
<1>2. CacheInv
  BY <1>1, CacheInit
<1>3. event \in Nat /\ now = 0 /\ file \in [Paths -> File] /\ \A p \in Paths : file[p].at = 0
  <2>1. event \in Nat /\ file \in [Paths -> File]
    BY <1>2, CallFacts DEF CacheInv, Typed
  <2>2. now = 0 /\ file \in [Paths -> {NoFile} \cup [id: 1..event, at: {0}, size: Sizes]]
    BY <1>1 DEF Init
  <2>3. \A f \in {NoFile} \cup [id: 1..event, at: {0}, size: Sizes] : f.at = 0
    BY DEF NoFile
  <2> HIDE DEF NoFile
  <2> QED
    BY <2>1, <2>2, <2>3
<1>4. Logged
  <2>1. [paths |-> {}, time |-> 0] \in Entries
    BY DEF Entries
  <2>2. log \in [1..event -> Entries]
    BY <1>1, <2>1
  <2>3. log \in Seq(Entries) /\ Len(log) = event
    <3>1. log \in Seq(Entries)
      BY <1>3, <2>2, SeqDef
    <3>2. DOMAIN log = 1..event
      BY <1>1
    <3> QED
      BY <1>3, <3>1, <3>2, LenProperties
  <2>4. \A e \in 1..event : log[e].time = 0 /\ log[e].paths = {}
    BY <1>1
  <2> QED
    BY <1>3, <2>3, <2>4 DEF Logged
<1>5. Recent
  <2>1. \A p \in Paths : attr[p].until = 0
    BY <1>1 DEF Init, NoAttr
  <2>2. op.call = "free" /\ dirs.until = 0
    BY <1>1 DEF Init, Free, NoListing
  <2> QED
    BY <2>1, <2>2 DEF Recent
<1> QED
  BY <1>4, <1>5 DEF LogInv

\* A change is logged when it is made.
LEMMA LogChange ==
  ASSUME CacheInv, LogInv, Changes,
         log' = Append(log, [paths |-> {p \in Paths : file'[p].at = event'}, time |-> now])
  PROVE  LogInv'
<1> DEFINE ps == {p \in Paths : file'[p].at = event'}
           entry == [paths |-> ps, time |-> now]
<1>1. /\ event' = event + 1 /\ UNCHANGED <<now, blocks, attr, dirs, seen>>
      /\ op' = op \/ op'.call \in {"write", "unlink", "rename"}
      /\ \A p \in Paths : file'[p] = file[p] \/ file'[p].at = event'
  BY ChangesAre
<1>2. /\ event \in Nat /\ now \in Nat /\ file \in [Paths -> File] /\ op \in Ops
      /\ attr \in [Paths -> [id: Nat, at: Nat, size: Nat, until: Nat]] /\ dirs \in [names: SUBSET Paths, until: Nat]
  BY DEF CacheInv, Typed
<1>3. \A p \in Paths : file[p].at \in Nat /\ file[p].at =< event
  BY <1>2 DEF CacheInv, Dated, File
<1>4. entry \in Entries /\ entry.paths = ps /\ entry.time = now
  BY <1>2 DEF Entries
<1>5. log' = Append(log, entry)
  OBVIOUS
<1>6. \A p \in ps : p \in Paths /\ file'[p].at = event'
  OBVIOUS
<1>7. \A p \in Paths : p \in ps \/ (file'[p] = file[p] /\ file'[p].at =< event)
  BY <1>1, <1>3
<1> HIDE DEF ps, entry
<1>8. /\ log \in Seq(Entries) /\ Len(log) = event
      /\ \A e \in 1..event : log[e].time =< now /\ \A p \in log[e].paths : e =< file[p].at
      /\ \A p \in Paths : file[p].at # 0 => p \in log[file[p].at].paths
  BY DEF LogInv, Logged
<1>9. /\ log' \in Seq(Entries) /\ Len(log') = event'
      /\ \A e \in 1..event : log'[e] = log[e]
      /\ log'[event'] = entry
  BY <1>1, <1>4, <1>5, <1>8, AppendProperties
<1>10. \A e \in 1..event' : e \in 1..event \/ e = event'
  BY <1>1, <1>2
<1>11. \A e \in 1..event : log[e].paths \in SUBSET Paths /\ log[e].time \in Nat
  BY LogFields DEF LogInv
<1>12. Logged'
  <2>1. ASSUME NEW e \in 1..event' PROVE log'[e].time =< now' /\ \A p \in log'[e].paths : e =< file'[p].at
    <3>1. CASE e = event'
      BY <1>1, <1>2, <1>4, <1>6, <1>9, <3>1
    <3>2. CASE e \in 1..event
      <4>1. log'[e] = log[e] /\ log[e].time =< now /\ \A p \in log[e].paths : p \in Paths /\ e =< file[p].at
        BY <1>8, <1>9, <1>11, <3>2
      <4>2. \A p \in Paths : e =< file[p].at => e =< file'[p].at
        BY <1>1, <1>2, <1>6, <1>7, <3>2
      <4> QED
        BY <1>1, <4>1, <4>2
    <3> QED
      BY <1>10, <3>1, <3>2
  <2>2. ASSUME NEW p \in Paths, file'[p].at # 0 PROVE p \in log'[file'[p].at].paths
    <3>1. CASE p \in ps
      BY <1>4, <1>6, <1>9, <3>1
    <3>2. CASE p \notin ps
      <4>1. file'[p].at = file[p].at /\ file[p].at \in 1..event
        BY <1>2, <1>3, <1>7, <2>2, <3>2
      <4> QED
        BY <1>8, <1>9, <2>2, <4>1
    <3> QED
      BY <3>1, <3>2
  <2> QED
    BY <1>9, <2>1, <2>2 DEF Logged
<1>13. ASSUME NEW p \in Paths, attr[p].until # 0
       PROVE  \A e \in 1..event' : e > attr[p].at /\ p \in log'[e].paths => log'[e].time + Ttl >= attr[p].until
  <2>1. attr[p].until =< now + Ttl
    BY <1>13 DEF LogInv, Recent
  <2>2. \A e \in 1..event : e > attr[p].at /\ p \in log[e].paths => log[e].time + Ttl >= attr[p].until
    BY <1>13 DEF LogInv, Recent
  <2> QED
    BY <1>4, <1>9, <1>10, <2>1, <2>2
<1>14. ASSUME op' = op, op.call = "stat", op.step = "answered"
       PROVE  \A e \in 1..event' : e > op.answer.at /\ op.path \in log'[e].paths => log'[e].time >= op.time
  <2>1. op.time =< now
    BY <1>14 DEF LogInv, Recent
  <2>2. \A e \in 1..event : e > op.answer.at /\ op.path \in log[e].paths => log[e].time >= op.time
    BY <1>14 DEF LogInv, Recent
  <2>3. op.time \in Nat
    BY <1>2, <1>14, OpKinds DEF StatOps
  <2> QED
    BY <1>2, <1>4, <1>9, <1>10, <2>1, <2>2, <2>3
<1>15. ASSUME NEW p \in Paths, dirs.until # 0, (p \in dirs.names) # There(file'[p])
       PROVE  \E e \in 1..event' : p \in log'[e].paths /\ log'[e].time + Ttl >= dirs.until
  <2>1. CASE p \in ps
    <3>1. dirs.until =< now + Ttl /\ event' \in 1..event'
      BY <1>1, <1>2, <1>15 DEF LogInv, Recent
    <3>2. p \in log'[event'].paths /\ log'[event'].time = now
      BY <1>4, <1>9, <2>1
    <3> QED
      BY <3>1, <3>2
  <2>2. CASE p \notin ps
    <3>1. PICK e \in 1..event : p \in log[e].paths /\ log[e].time + Ttl >= dirs.until
      BY <1>7, <1>15, <2>2 DEF LogInv, Recent
    <3>2. e \in 1..event' /\ log'[e] = log[e]
      BY <1>1, <1>2, <1>9
    <3> QED
      BY <3>1, <3>2
  <2> QED
    BY <2>1, <2>2
<1>16. Recent'
  <2>1. /\ attr' = attr /\ dirs' = dirs /\ seen' = seen /\ now' = now
        /\ op' = op \/ op'.call \notin {"stat", "list"}
    BY <1>1
  <2> QED
    BY <1>13, <1>14, <1>15, <2>1 DEF LogInv, Recent
<1> QED
  BY <1>12, <1>16 DEF LogInv

\* A step that changes no file is not logged.
LEMMA LogStays ==
  ASSUME LogInv, now \in Nat, now' \in Nat, now =< now', UNCHANGED <<file, event, log>>,
         \A p \in Paths : attr'[p].until # 0 =>
             \/ attr'[p] = attr[p] /\ (seen'[p] = seen[p] \/ attr[p].at >= seen'[p])
             \/ /\ attr'[p].until =< now' + Ttl
                /\ attr'[p].at >= seen'[p]
                /\ \A e \in 1..event : e > attr'[p].at /\ p \in log[e].paths => log[e].time + Ttl >= attr'[p].until,
         \/ op' = op /\ seen' = seen /\ op \in Ops
         \/ op'.call \notin {"stat", "list"}
         \/ /\ op'.time =< now'
            /\ op'.call = "stat" /\ op'.step = "answered" =>
                   /\ op'.answer.at >= seen'[op'.path]
                   /\ \A e \in 1..event : e > op'.answer.at /\ op'.path \in log[e].paths => log[e].time >= op'.time,
         dirs' = dirs \/ (dirs'.until =< now' + Ttl /\ \A p \in Paths : (p \in dirs'.names) = There(file[p])),
         attr \in [Paths -> [id: Nat, at: Nat, size: Nat, until: Nat]], dirs \in [names: SUBSET Paths, until: Nat]
  PROVE  LogInv'
<1>1. Ttl \in Nat
  BY CacheAssumption
<1>2. \A n \in Nat : n =< now + Ttl => n =< now' + Ttl
  BY <1>1
<1>3. Logged'
  <2>1. ASSUME NEW e \in 1..event PROVE log[e].time =< now'
    <3>1. log[e].time =< now /\ log[e].time \in Nat
      BY LogFields DEF LogInv, Logged
    <3> QED
      BY <3>1
  <2> QED
    BY <2>1 DEF LogInv, Logged
<1>4. ASSUME NEW p \in Paths, attr'[p].until # 0
      PROVE  /\ attr'[p].until =< now' + Ttl
             /\ attr'[p].at >= seen'[p]
             /\ \A e \in 1..event : e > attr'[p].at /\ p \in log[e].paths => log[e].time + Ttl >= attr'[p].until
  <2>1. CASE attr'[p] = attr[p] /\ (seen'[p] = seen[p] \/ attr[p].at >= seen'[p])
    <3>1. attr[p].until \in Nat
      OBVIOUS
    <3> QED
      BY <1>2, <1>4, <2>1, <3>1 DEF LogInv, Recent
  <2> QED
    BY <1>4, <2>1
<1>5. ASSUME dirs'.until # 0
      PROVE  /\ dirs'.until =< now' + Ttl
             /\ \A p \in Paths : (p \in dirs'.names) # There(file[p]) =>
                   \E e \in 1..event : p \in log[e].paths /\ log[e].time + Ttl >= dirs'.until
  <2>1. CASE dirs' = dirs
    <3>1. dirs.until \in Nat
      OBVIOUS
    <3> QED
      BY <1>2, <1>5, <2>1, <3>1 DEF LogInv, Recent
  <2> QED
    BY <2>1
<1>6. /\ op'.call \in {"stat", "list"} => op'.time =< now'
      /\ op'.call = "stat" /\ op'.step = "answered" =>
             /\ op'.answer.at >= seen'[op'.path]
             /\ \A e \in 1..event : e > op'.answer.at /\ op'.path \in log[e].paths => log[e].time >= op'.time
  <2>1. CASE op' = op /\ seen' = seen /\ op \in Ops
    <3>1. op.call \in {"stat", "list"} => op.time \in Nat /\ op.time =< now
      BY <2>1, OpKinds DEF StatOps, ListOps, LogInv, Recent
    <3> QED
      BY <2>1, <3>1 DEF LogInv, Recent
  <2> QED
    BY <2>1
<1>7. Recent'
  BY <1>4, <1>5, <1>6 DEF Recent
<1> QED
  BY <1>3, <1>7 DEF LogInv

LEMMA LogAnswered ==
  ASSUME CacheInv, LogInv, StatAnswered, UNCHANGED log
  PROVE  LogInv'
<1> DEFINE p == op.path
           st == op.answer
           until == op.time + Ttl
           a == Remembered(st, until)
<1>1. /\ op.call = "stat" /\ op.step = "answered" /\ attr' = [attr EXCEPT ![p] = a]
      /\ Tell(p, st) /\ op' = Free /\ UNCHANGED <<file, event, now, dirs>>
  BY DEF StatAnswered, server
<1>2. /\ op \in Ops /\ now \in Nat /\ event \in Nat /\ seen \in [Paths -> Nat]
      /\ attr \in [Paths -> [id: Nat, at: Nat, size: Nat, until: Nat]] /\ dirs \in [names: SUBSET Paths, until: Nat]
  BY DEF CacheInv, Typed
<1>3. op \in StatOps
  BY <1>1, <1>2, OpKinds
<1>4. p \in Paths /\ op.time \in Nat /\ st \in File /\ Ttl \in Nat
  BY <1>3, CacheAssumption DEF StatOps
<1>5. /\ op.time =< now /\ st.at >= seen[p]
      /\ \A e \in 1..event : e > st.at /\ p \in log[e].paths => log[e].time >= op.time
  BY <1>1 DEF LogInv, Recent
<1>6. a.at = st.at /\ a.until = until /\ st.at \in Nat
  BY <1>4 DEF Remembered, File
<1>7. \A e \in 1..event : log[e].time \in Nat
  BY LogFields DEF LogInv
<1>8. seen'[p] =< st.at /\ \A q \in Paths : q # p => seen'[q] = seen[q]
  BY <1>1, <1>2, <1>4, <1>5, <1>6, LargerIs DEF Tell
<1> HIDE DEF a, st, p
<1>9. until =< now + Ttl /\ \A e \in 1..event : log[e].time >= op.time => log[e].time + Ttl >= until
  BY <1>2, <1>4, <1>5, <1>7
<1> HIDE DEF until
<1>10. \A q \in Paths : attr'[q].until # 0 =>
             \/ attr'[q] = attr[q] /\ seen'[q] = seen[q]
             \/ /\ attr'[q].until =< now' + Ttl
                /\ attr'[q].at >= seen'[q]
                /\ \A e \in 1..event : e > attr'[q].at /\ q \in log[e].paths => log[e].time + Ttl >= attr'[q].until
  <2>1. \A q \in Paths : q # p => attr'[q] = attr[q] /\ seen'[q] = seen[q]
    BY <1>1, <1>2, <1>8
  <2>2. attr'[p] = a
    BY <1>1, <1>2, <1>4
  <2>3. seen'[p] \in Nat
    BY <1>1, <1>2, <1>4, <1>6, LargerIs DEF Tell
  <2>4. a.at >= seen'[p]
    BY <1>6, <1>8, <2>3
  <2> QED
    BY <1>1, <1>4, <1>5, <1>6, <1>9, <2>1, <2>2, <2>4
<1>11. op'.call \notin {"stat", "list"}
  BY <1>1 DEF Free
<1> QED
  BY <1>1, <1>2, <1>10, <1>11, LogStays

\* The other steps on the attributes, the listing and what was told.
LEMMA LogAsked ==
  ASSUME CacheInv, LogInv, UNCHANGED log,
         Tick \/ StatAsked \/ List \/ ListAnswered \/ Invalidate \/ \E p \in Paths : StatHit(p) \/ Stat(p)
  PROVE  LogInv'
<1>1. /\ op \in Ops /\ now \in Nat /\ event \in Nat /\ seen \in [Paths -> Nat] /\ file \in [Paths -> File]
      /\ attr \in [Paths -> [id: Nat, at: Nat, size: Nat, until: Nat]] /\ dirs \in [names: SUBSET Paths, until: Nat]
  BY DEF CacheInv, Typed
<1>2. CASE Tick
  <2>1. now' = now + 1 /\ UNCHANGED <<file, event, attr, dirs, op, seen>>
    BY <1>2 DEF Tick, server, cache, told
  <2> QED
    BY <1>1, <2>1, LogStays
<1>3. ASSUME NEW p \in Paths, StatHit(p) PROVE LogInv'
  <2>1. UNCHANGED <<file, event, now, attr, dirs, op>> /\ op.call = "free" /\ Tell(p, attr[p]) /\ attr[p].until > now
    BY <1>3 DEF StatHit, server, cache, Free
  <2>2. attr[p].at \in Nat /\ attr[p].until # 0
    BY <1>1, <2>1
  <2>3. attr[p].at >= seen[p]
    BY <2>2 DEF LogInv, Recent
  <2>4. Larger(seen[p], attr[p].at) =< attr[p].at
    BY <1>1, <2>2, <2>3, LargerIs
  <2>5. \A q \in Paths : seen'[q] = seen[q] \/ (q = p /\ seen'[q] = Larger(seen[p], attr[p].at))
    BY <1>1, <2>1 DEF Tell
  <2>6. \A q \in Paths : attr'[q] = attr[q] /\ (seen'[q] = seen[q] \/ attr[q].at >= seen'[q])
    BY <2>1, <2>2, <2>4, <2>5, <1>1
  <2>7. op'.call \notin {"stat", "list"}
    BY <2>1
  <2> QED
    BY <1>1, <2>1, <2>6, <2>7, LogStays
<1>4. ASSUME NEW p \in Paths, Stat(p) PROVE LogInv'
  <2>1. /\ UNCHANGED <<file, event, now, attr, dirs, seen>>
        /\ op'.call = "stat" /\ op'.step = "asked" /\ op'.time = now
    BY <1>4 DEF Stat, server, cache, told
  <2> QED
    BY <1>1, <2>1, LogStays
<1>5. CASE StatAsked
  <2> DEFINE f == file[op.path]
  <2>1. op \in StatOps /\ UNCHANGED <<file, event, now, attr, dirs, seen>>
    BY <1>1, <1>5, OpKinds DEF StatAsked, server, cache, told
  <2>2. op' = [op EXCEPT !.step = "answered", !.answer = f]
    BY <1>5 DEF StatAsked
  <2>3. op.path \in Paths /\ f \in File /\ op.time \in Nat /\ op.time =< now
    BY <1>1, <2>1 DEF StatOps, LogInv, Recent
  <2>4. f.at \in Nat /\ f.at >= seen[op.path]
    BY <2>3, <1>1 DEF CacheInv, Dated, File
  <2>5. \A e \in 1..event : op.path \in log[e].paths => ~(e > f.at)
    BY <1>1, <2>3, <2>4 DEF LogInv, Logged
  <2> HIDE DEF f
  <2>6. op'.path = op.path /\ op'.time = op.time /\ op'.answer = f /\ op'.call = "stat" /\ op'.step = "answered"
    BY <2>1, <2>2 DEF StatOps
  <2> QED
    BY <1>1, <2>1, <2>3, <2>4, <2>5, <2>6, LogStays
<1>6. CASE List
  <2>1. /\ UNCHANGED <<file, event, now, attr, dirs, seen>>
        /\ op'.call = "list" /\ op'.time = now
    BY <1>6 DEF List, server, cache, told
  <2> QED
    BY <1>1, <2>1, LogStays
<1>7. CASE ListAnswered
  <2> DEFINE names == {p \in Paths : There(file[p])}
             until == op.time + Ttl
  <2>1. /\ op.call = "list" /\ UNCHANGED <<file, event, now, attr, seen>> /\ op' = Free
        /\ dirs' = [names |-> names, until |-> until]
    BY <1>7 DEF ListAnswered, server, told
  <2>2. op \in ListOps
    BY <1>1, <2>1, OpKinds
  <2>3. op.time \in Nat /\ op.time =< now
    BY <2>1, <2>2 DEF ListOps, LogInv, Recent
  <2>4. until =< now + Ttl
    BY <1>1, <2>3, CacheAssumption
  <2>5. \A p \in Paths : (p \in names) = There(file[p])
    BY DEF There
  <2> HIDE DEF names, until
  <2>6. dirs'.names = names /\ dirs'.until = until /\ op'.call = "free"
    BY <2>1 DEF Free
  <2> QED
    BY <1>1, <2>1, <2>4, <2>5, <2>6, LogStays
<1>8. CASE Invalidate
  <2>1. /\ UNCHANGED <<file, event, now, dirs>> /\ op' = Free
        /\ attr' = [p \in Paths |-> IF p \in op.acks THEN NoAttr ELSE attr[p]]
        /\ seen' = [p \in Paths |-> IF p \in op.acks THEN op.at ELSE seen[p]]
    BY <1>8 DEF Invalidate, server
  <2>2. \A p \in Paths : attr'[p].until # 0 => attr'[p] = attr[p] /\ seen'[p] = seen[p]
    BY <2>1 DEF NoAttr
  <2>3. op'.call = "free"
    BY <2>1 DEF Free
  <2> QED
    BY <1>1, <2>1, <2>2, <2>3, LogStays
<1> QED
  BY <1>2, <1>3, <1>4, <1>5, <1>6, <1>7, <1>8

\* Steps of a read, the end of a call and steps that do nothing.
LEMMA LogReads ==
  ASSUME CacheInv, LogInv, UNCHANGED log,
         \/ Baseline \/ Hit \/ FetchMore \/ FetchEnds \/ FetchFindsNothing \/ ReadReturns \/ CallFails
         \/ UNCHANGED vars \/ \E p \in Paths : \E r \in Requests : Read(p, r)
  PROVE  LogInv'
<1>1. /\ op \in Ops /\ now \in Nat
      /\ attr \in [Paths -> [id: Nat, at: Nat, size: Nat, until: Nat]] /\ dirs \in [names: SUBSET Paths, until: Nat]
  BY DEF CacheInv, Typed
<1>2. UNCHANGED <<file, event, now, attr, dirs, seen>>
  BY DEF Baseline, Hit, FetchMore, FetchEnds, FetchFindsNothing, ReadReturns, CallFails, Read, vars,
         server, cache, told
<1>3. op'.call \notin {"stat", "list"} \/ op' = op
  <2>1. CASE Baseline
    <3>1. op \in ReadOps /\ op' = [op EXCEPT !.step = "block"]
      BY <1>1, <2>1, OpKinds DEF Baseline
    <3> QED
      BY <3>1 DEF ReadOps
  <2>2. CASE Hit \/ FetchMore \/ FetchEnds
    BY <2>2, HitKeeps, FetchMoreKeeps, FetchEndsKeeps
  <2>3. CASE FetchFindsNothing \/ ReadReturns \/ CallFails
    BY <2>3 DEF FetchFindsNothing, ReadReturns, CallFails, Free
  <2>4. CASE \E p \in Paths : \E r \in Requests : Read(p, r)
    BY <2>4 DEF Read
  <2>5. CASE UNCHANGED vars
    BY <2>5 DEF vars
  <2> QED
    BY <2>1, <2>2, <2>3, <2>4, <2>5
<1> QED
  BY <1>1, <1>2, <1>3, LogStays

LEMMA LogStep ==
  ASSUME CacheInv, CacheInv', LogInv, [LNext]_<<vars, log>>
  PROVE  LogInv'
<1>1. CASE UNCHANGED <<vars, log>>
  BY <1>1, LogReads
<1>2. CASE LNext
  <2>1. Next /\ log' = IF event' = event THEN log
                      ELSE Append(log, [paths |-> {p \in Paths : file'[p].at = event'}, time |-> now])
    BY <1>2 DEF LNext
  <2>2. event \in Nat
    BY DEF CacheInv, Typed
  <2>3. CASE Changes
    <3>1. event' # event
      BY <2>2, <2>3, ChangesAre
    <3> QED
      BY <2>1, <2>3, <3>1, LogChange
  <2>4. CASE UNCHANGED event
    <3>1. UNCHANGED log
      BY <2>1, <2>4
    <3>2. ~Changes
      BY <2>2, <2>4, ChangesAre
    <3>3. CASE World
      BY <3>1, <3>2, <3>3, LogAsked DEF World, Changes
    <3>4. CASE Begin
      BY <3>1, <3>2, <3>4, BeginIs, LogAsked, LogReads
    <3>5. CASE Continue
      BY <3>1, <3>5, LogAsked, LogAnswered, LogReads DEF Continue
    <3>6. CASE CallFails
      BY <3>1, <3>6, LogReads
    <3> QED
      BY <2>1, <3>3, <3>4, <3>5, <3>6 DEF Next
  <2>5. Changes \/ UNCHANGED event
    <3>1. Tick => UNCHANGED event
      BY DEF Tick, server
    <3>2. /\ List => UNCHANGED event
          /\ \A p \in Paths : StatHit(p) \/ Stat(p) => UNCHANGED event
          /\ \A p \in Paths : \A r \in Requests : Read(p, r) => UNCHANGED event
      BY DEF List, StatHit, Stat, Read, server
    <3>3. Continue \/ CallFails => UNCHANGED event
      BY DEF Continue, CallFails, Baseline, Hit, FetchMore, FetchEnds, FetchFindsNothing, ReadReturns,
             StatAsked, StatAnswered, ListAnswered, Invalidate, server
    <3>4. World => Changes \/ Tick
      BY DEF World, Changes
    <3> QED
      BY <2>1, <3>1, <3>2, <3>3, <3>4, BeginIs DEF Next
  <2> QED
    BY <2>3, <2>4, <2>5
<1> QED
  BY <1>1, <1>2

LEMMA LogTells ==
  ASSUME CacheInv, LogInv
  PROVE  AnswersAreRecent
<1>1. /\ event \in Nat /\ now \in Nat /\ Ttl \in Nat /\ file \in [Paths -> File]
      /\ attr \in [Paths -> [id: Nat, at: Nat, size: Nat, until: Nat]] /\ dirs \in [names: SUBSET Paths, until: Nat]
  BY CacheAssumption DEF CacheInv, Typed
<1>2. DOMAIN log = 1..event /\ \A e \in 1..event : log[e].time \in Nat
  BY LogFields DEF LogInv
<1>3. ASSUME NEW p \in Paths, attr[p].until > now
      PROVE  /\ attr[p].at = file[p].at \/ ChangedLately(p, attr[p].at)
             /\ \A e \in DOMAIN log : e > attr[p].at /\ p \in log[e].paths => log[e].time > now - Ttl
             /\ attr[p].at >= seen[p]
  <2>1. attr[p].until \in Nat /\ attr[p].at \in Nat /\ attr[p].until # 0
    BY <1>1, <1>3
  <2>2. \A e \in 1..event : e > attr[p].at /\ p \in log[e].paths => log[e].time + Ttl >= attr[p].until
    BY <2>1 DEF LogInv, Recent
  <2>3. \A e \in DOMAIN log : e > attr[p].at /\ p \in log[e].paths => log[e].time > now - Ttl
    BY <1>1, <1>2, <1>3, <2>1, <2>2
  <2>4. attr[p].at >= seen[p]
    BY <2>1 DEF LogInv, Recent
  <2>5. attr[p].at = file[p].at \/ ChangedLately(p, attr[p].at)
    <3>1. file[p].at \in Nat /\ file[p].at =< event /\ attr[p].at =< file[p].at
      BY <1>1 DEF CacheInv, Dated, File
    <3> SUFFICES ASSUME attr[p].at # file[p].at PROVE ChangedLately(p, attr[p].at)
      OBVIOUS
    <3>2. file[p].at > attr[p].at /\ file[p].at \in 1..event
      BY <1>1, <2>1, <3>1
    <3>3. p \in log[file[p].at].paths
      BY <3>2 DEF LogInv, Logged
    <3> QED
      BY <1>2, <2>3, <3>2, <3>3 DEF ChangedLately
  <2> QED
    BY <2>3, <2>4, <2>5
<1>4. ASSUME NEW p \in Paths, dirs.until > now, (p \in dirs.names) # There(file[p])
      PROVE  ChangedLately(p, 0)
  <2>1. dirs.until \in Nat /\ dirs.until # 0
    BY <1>1, <1>4
  <2>2. PICK e \in 1..event : p \in log[e].paths /\ log[e].time + Ttl >= dirs.until
    BY <1>4, <2>1 DEF LogInv, Recent
  <2>3. e > 0 /\ log[e].time > now - Ttl
    BY <1>1, <1>2, <1>4, <2>1, <2>2
  <2> QED
    BY <1>2, <2>2, <2>3 DEF ChangedLately
<1> QED
  BY <1>3, <1>4 DEF AnswersAreRecent

\* AnswersAreRecent: what is served as an attribute or a listing missed only
\* what changed less than the TTL ago, however long the round-trip took and
\* whatever was written, told or invalidated since.
THEOREM AnswersNotOld == LSpec => []AnswersAreRecent
<1>1. LInit => Init /\ LogInv
  BY LogStart DEF LInit
<1>2. [LNext]_<<vars, log>> => [Next]_vars
  BY DEF LNext
<1>3. CacheInv /\ LogInv => AnswersAreRecent
  BY LogTells
<1>4. CacheInv /\ [Next]_vars => CacheInv'
  BY CacheStep
<1>5. CacheInv /\ CacheInv' /\ LogInv /\ [LNext]_<<vars, log>> => LogInv'
  BY LogStep
<1> QED
  BY <1>1, <1>2, <1>3, <1>4, <1>5, CacheInit, PTL DEF LSpec
=============================================================================
