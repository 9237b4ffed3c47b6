--------------------------- MODULE UfsFile_proofs ---------------------------
(***************************************************************************)
(* Proofs about UfsFile, for any disks, any sizes of the cache, of the     *)
(* descriptor table and of an inode, and any number of boots, reads and    *)
(* failures.                                                               *)
(***************************************************************************)
EXTENDS UfsFile, FiniteSetTheorems, SequenceTheorems, TLAPS

LEMMA SlotsFinite ==
    /\ IsFiniteSet(Slots) /\ Cardinality(Slots) = CACHE_SIZE
    /\ CACHE_SIZE \in Nat \ {0} /\ 0 \in Slots /\ Slots \subseteq Nat
  <1>1. CACHE_SIZE \in Nat \ {0}
    BY SizesAssumption
  <1>2. 0 \in Slots /\ Slots \subseteq Nat
    BY <1>1 DEF Slots
  <1> QED
    BY <1>1, <1>2, FS_Interval DEF Slots

(* Sets of numbers have a least member.                                    *)
LEMMA LeastOf ==
    ASSUME NEW S \in SUBSET Nat, S # {}
    PROVE  /\ Min(S) \in S
           /\ \A m \in S : Min(S) <= m
  <1> DEFINE Below == {0 .. m : m \in S}
  <1>1. Below \subseteq FiniteSubsetsOf(Nat) /\ Below # {}
    <2>1. \A m \in S : 0 .. m \subseteq Nat /\ IsFiniteSet(0 .. m)
      BY FS_Interval
    <2> QED
      BY <2>1 DEF FiniteSubsetsOf
  <1>2. PICK T \in Below : \A U \in Below : ~(<<U, T>> \in StrictSubsetOrdering(Nat))
    <2> HIDE DEF Below
    <2> QED
      BY <1>1, FS_StrictSubsetOrderingWellFounded, WFMin
  <1>3. PICK x \in S : T = 0 .. x
    BY <1>2
  <1>4. ASSUME NEW y \in S, y < x
        PROVE  FALSE
    <2>1. 0 .. y \subseteq 0 .. x /\ x \in 0 .. x /\ x \notin 0 .. y
      BY <1>4
    <2>2. <<0 .. y, T>> \in StrictSubsetOrdering(Nat)
      BY <1>3, <2>1 DEF StrictSubsetOrdering
    <2> QED
      BY <1>2, <2>2
  <1>5. \A y \in S : x <= y
    BY <1>4
  <1> QED
    BY <1>5 DEF Min

(* What holds of 0 and is handed on holds up to N: `Good' are the numbers  *)
(* it holds of.                                                            *)
LEMMA Induction ==
    ASSUME NEW N \in Nat, NEW Good, 0 \in Good,
           \A k \in 1 .. N : k - 1 \in Good => k \in Good
    PROVE  \A k \in 0 .. N : k \in Good
  <1> DEFINE Bad == (0 .. N) \ Good
  <1>1. ASSUME Bad # {} PROVE FALSE
    <2>1. Bad \in SUBSET Nat
      OBVIOUS
    <2>2. PICK k \in Bad : \A l \in Bad : k <= l
      <3> HIDE DEF Bad
      <3> QED
        BY <1>1, <2>1, LeastOf
    <2>3. k \in 1 .. N /\ k - 1 \in 0 .. N /\ ~(k <= k - 1)
      BY <2>2
    <2>4. k - 1 \in Good
      BY <2>2, <2>3
    <2> QED
      BY <2>2, <2>3, <2>4
  <1> QED
    BY <1>1

(* The function that a recursive definition chooses exists: `next[k]' is   *)
(* what step k makes of the value before it.                               *)
Solves(g, N, a, next) == g[0] = a /\ \A k \in 1 .. N : g[k] = next[k][g[k - 1]]
LEMMA Recursion ==
    ASSUME NEW N \in Nat, NEW S, NEW a \in S, NEW next \in [1 .. N -> [S -> S]]
    PROVE  \E g \in [0 .. N -> S] : Solves(g, N, a, next)
  <1> DEFINE Upto(m, g) == /\ g \in [0 .. m -> S] /\ g[0] = a
                           /\ \A k \in 1 .. m : g[k] = next[k][g[k - 1]]
             Good == {m \in 0 .. N : \E g : Upto(m, g)}
  <1>1. 0 \in Good
    <2>1. \E g : Upto(0, g)
      <3>1. Upto(0, [k \in 0 .. 0 |-> a])
        OBVIOUS
      <3> QED
        BY <3>1
    <2> HIDE DEF Upto
    <2> QED
      BY <2>1
  <1>2. ASSUME NEW m \in 1 .. N, m - 1 \in Good
        PROVE  m \in Good
    <2>1. PICK g : Upto(m - 1, g)
      BY <1>2
    <2> DEFINE h == [k \in 0 .. m |-> IF k = m THEN next[m][g[m - 1]] ELSE g[k]]
    <2>2. h \in [0 .. m -> S] /\ h[0] = a
      BY <2>1
    <2>3. ASSUME NEW k \in 1 .. m PROVE h[k] = next[k][h[k - 1]]
      BY <2>1
    <2>4. \E f : Upto(m, f)
      <3>1. Upto(m, h)
        BY <2>2, <2>3
      <3> QED
        BY <3>1, Zenon
    <2> HIDE DEF Upto
    <2> QED
      BY <2>4
  <1>3. N \in Good
    <2> HIDE DEF Good
    <2>1. \A m \in 0 .. N : m \in Good
      BY <1>1, <1>2, Induction
    <2> QED
      BY <2>1
  <1> QED
    BY <1>3 DEF Solves
-----------------------------------------------------------------------------
(* The cache: `r' are the blocks used since it was emptied, the last one   *)
(* first.                                                                  *)
BlocksRead == UNION {{Block(d, s, k) : s \in DOMAIN Disk[d].fs, k \in Nat} : d \in Disks}
InodesRead == UNION {{Inodes(d, s, k) : s \in DOMAIN Disk[d].fs, k \in Nat} : d \in Disks}
DataRead == {Garbage} \cup BlocksRead \cup InodesRead
Slot == [block : Nat \cup {-1}, lru : Nat, data : DataRead]
Full(c) == {i \in Slots : c[i].block # -1}
Lately(r) == {k \in DOMAIN r : k <= CACHE_SIZE}

LruType(c, m, r) == c \in [Slots -> Slot] /\ m \in Nat /\ r \in Seq(Nat)
Once(c, r) ==
    /\ \A k, l \in DOMAIN r : r[k] = r[l] => k = l
    /\ \A i, j \in Full(c) : c[i].block = c[j].block => i = j
Holds(c, r) ==
    /\ \A i \in Full(c) : \E k \in Lately(r) : r[k] = c[i].block
    /\ \A k \in Lately(r) : \E i \in Full(c) : c[i].block = r[k]
Ordered(c, m, r) ==
    /\ \A i \in Slots : c[i].lru <= m
    /\ \A i, j \in Slots, k, l \in DOMAIN r :
         c[i].block = r[k] /\ c[j].block = r[l] /\ k < l => c[j].lru < c[i].lru
Lru(c, m, r) == LruType(c, m, r) /\ Once(c, r) /\ Holds(c, r) /\ Ordered(c, m, r)

LEMMA EmptyLru == Lru(Empty.cache, Empty.n, Empty.recent)
  <1>1. LruType(Empty.cache, Empty.n, Empty.recent)
    BY DEF LruType, Empty, Unused, Slot, DataRead
  <1>2. Full(Empty.cache) = {} /\ Empty.recent = <<>> /\ \A i \in Slots : Empty.cache[i].lru = 0
    BY DEF Full, Empty, Unused
  <1> QED
    BY <1>1, <1>2 DEF Lru, Once, Holds, Ordered, Lately, Empty

(* As many slots are full as blocks were used, up to all of them.          *)
LEMMA FullCount ==
    ASSUME NEW c, NEW m, NEW r, Lru(c, m, r)
    PROVE  /\ IsFiniteSet(Full(c)) /\ IsFiniteSet(Lately(r))
           /\ Cardinality(Full(c)) = Cardinality(Lately(r))
           /\ (Full(c) = Slots) <=> (Len(r) >= CACHE_SIZE)
  <1> DEFINE most == IF Len(r) < CACHE_SIZE THEN Len(r) ELSE CACHE_SIZE
             at   == [k \in Lately(r) |-> CHOOSE i \in Full(c) : c[i].block = r[k]]
  <1>1. r \in Seq(Nat) /\ Len(r) \in Nat /\ DOMAIN r = 1 .. Len(r)
    BY DEF Lru, LruType
  <1>2. most \in Nat /\ Lately(r) = 1 .. most
    BY <1>1, SlotsFinite DEF Lately
  <1>3. IsFiniteSet(Lately(r)) /\ Cardinality(Lately(r)) = most
    <2> HIDE DEF most
    <2> QED
      BY <1>2, FS_Interval
  <1>4. at \in [Lately(r) -> Full(c)] /\ \A k \in Lately(r) : c[at[k]].block = r[k]
    BY DEF Lru, Holds
  <1> HIDE DEF at
  <1>5. \A k, l \in Lately(r) : at[k] = at[l] => k = l
    BY <1>4 DEF Lru, Once, Lately
  <1>6. \A i \in Full(c) : \E k \in Lately(r) : at[k] = i
    BY <1>4 DEF Lru, Once, Holds
  <1>7. at \in Bijection(Lately(r), Full(c))
    BY <1>4, <1>5, <1>6 DEF Bijection, Injection, Surjection, IsInjective
  <1>8. ExistsBijection(Lately(r), Full(c))
    BY <1>7 DEF ExistsBijection
  <1>9. Cardinality(Full(c)) = most /\ IsFiniteSet(Full(c))
    BY <1>3, <1>8, FS_Bijection
  <1>10. Full(c) = Slots <=> most = CACHE_SIZE
    BY <1>9, SlotsFinite, FS_Subset DEF Full
  <1>11. most = CACHE_SIZE <=> Len(r) >= CACHE_SIZE
    <2>1. ASSUME NEW N \in Nat, NEW S \in Nat
          PROVE  ((IF N < S THEN N ELSE S) = S) <=> (N >= S)
      OBVIOUS
    <2>2. CACHE_SIZE \in Nat /\ Len(r) \in Nat
      BY <1>1, SlotsFinite
    <2> QED
      BY <2>1, <2>2
  <1> HIDE DEF most
  <1> QED
    BY <1>3, <1>9, <1>10, <1>11

LEMMA OneBefore ==
    ASSUME NEW S, NEW e \in S, NEW s \in Seq(S)
    PROVE  /\ <<e>> \o s \in Seq(S) /\ Len(<<e>> \o s) = Len(s) + 1
           /\ (<<e>> \o s)[1] = e
           /\ \A i \in 2 .. Len(s) + 1 : (<<e>> \o s)[i] = s[i - 1]
  <1>1. <<e>> \in Seq(S) /\ Len(<<e>>) = 1 /\ <<e>>[1] = e
    OBVIOUS
  <1>2. /\ <<e>> \o s \in Seq(S) /\ Len(<<e>> \o s) = Len(<<e>>) + Len(s)
        /\ \A i \in 1 .. Len(<<e>>) + Len(s) :
             (<<e>> \o s)[i] = IF i <= Len(<<e>>) THEN <<e>>[i] ELSE s[i - Len(<<e>>)]
    BY <1>1, ConcatProperties
  <1> DEFINE one == <<e>>
             q   == one \o s
  <1>3. /\ one[1] = e /\ Len(one) = 1 /\ q \in Seq(S) /\ Len(q) = Len(one) + Len(s)
        /\ \A i \in 1 .. Len(one) + Len(s) : q[i] = IF i <= Len(one) THEN one[i] ELSE s[i - Len(one)]
    BY <1>1, <1>2
  <1>4. Len(s) \in Nat
    OBVIOUS
  <1> HIDE DEF one, q
  <1>5. Len(q) = Len(s) + 1 /\ q[1] = e /\ \A i \in 2 .. Len(s) + 1 : q[i] = s[i - 1]
    BY <1>3, <1>4
  <1> QED
    BY <1>3, <1>5 DEF one, q

(* Without its element k a sequence is one shorter.                        *)
LEMMA RemoveAtIs ==
    ASSUME NEW S, NEW r \in Seq(S), NEW k \in 1 .. Len(r)
    PROVE  /\ RemoveAt(r, k) \in Seq(S) /\ Len(RemoveAt(r, k)) = Len(r) - 1
           /\ \A i \in 1 .. Len(r) - 1 : RemoveAt(r, k)[i] = IF i < k THEN r[i] ELSE r[i + 1]
  <1> DEFINE N    == Len(r)
             one  == SubSeq(r, 1, k - 1)
             two  == SubSeq(r, k + 1, N)
             rest == one \o two
             a    == Len(one)
             b    == Len(two)
  <1>1. N \in Nat /\ \A i \in 1 .. N : r[i] \in S
    OBVIOUS
  <1>2. k \in 1 .. N
    OBVIOUS
  <1>3. RemoveAt(r, k) = rest
    BY DEF RemoveAt
  <1> HIDE DEF N
  <1>4. /\ one \in Seq(S) /\ a = k - 1 /\ \A i \in 1 .. k - 1 : one[i] = r[i]
    <2>1. \A i \in 1 .. k - 1 : r[i] \in S
      BY <1>1, <1>2
    <2>2. /\ one \in Seq(S) /\ Len(one) = IF 1 <= k - 1 THEN (k - 1) - 1 + 1 ELSE 0
          /\ \A i \in 1 .. (k - 1) - 1 + 1 : one[i] = r[1 + i - 1]
      BY <2>1, SubSeqProperties
    <2> HIDE DEF one
    <2>3. \A i \in 1 .. k - 1 : 1 + i - 1 = i /\ i \in 1 .. (k - 1) - 1 + 1
      BY <1>2
    <2> QED
      BY <1>2, <2>2, <2>3
  <1>5. /\ two \in Seq(S) /\ b = N - k /\ \A i \in 1 .. N - k : two[i] = r[k + i]
    <2>1. \A i \in k + 1 .. N : r[i] \in S
      BY <1>1, <1>2
    <2>2. /\ two \in Seq(S) /\ Len(two) = IF k + 1 <= N THEN N - (k + 1) + 1 ELSE 0
          /\ \A i \in 1 .. N - (k + 1) + 1 : two[i] = r[(k + 1) + i - 1]
      BY <1>1, <1>2, <2>1, SubSeqProperties
    <2> HIDE DEF two
    <2>3. \A i \in 1 .. N - k : (k + 1) + i - 1 = k + i /\ i \in 1 .. N - (k + 1) + 1
      BY <1>1, <1>2
    <2> QED
      BY <1>1, <1>2, <2>2, <2>3
  <1> HIDE DEF one, two
  <1>6. /\ rest \in Seq(S) /\ Len(rest) = a + b
        /\ \A i \in 1 .. a + b : rest[i] = IF i <= a THEN one[i] ELSE two[i - a]
    BY <1>4, <1>5, ConcatProperties
  <1> HIDE DEF rest, a, b
  <1>7. a + b = N - 1
    BY <1>1, <1>2, <1>4, <1>5
  <1>8. ASSUME NEW i \in 1 .. N - 1
        PROVE  rest[i] = IF i < k THEN r[i] ELSE r[i + 1]
    <2>1. CASE i < k
      <3>1. i \in 1 .. a + b /\ i <= a /\ i \in 1 .. k - 1
        BY <1>1, <1>2, <1>4, <1>7, <2>1
      <3> QED
        BY <1>4, <1>6, <2>1, <3>1
    <2>2. CASE ~(i < k)
      <3>1. /\ i \in 1 .. a + b /\ ~(i <= a) /\ i - a \in 1 .. N - k /\ k + (i - a) = i + 1
        BY <1>1, <1>2, <1>4, <1>7, <2>2
      <3>2. rest[i] = two[i - a]
        BY <1>6, <3>1
      <3>3. two[i - a] = r[k + (i - a)]
        BY <1>5, <3>1
      <3> QED
        BY <2>2, <3>1, <3>2, <3>3
    <2> QED
      BY <2>1, <2>2
  <1> QED
    BY <1>3, <1>6, <1>7, <1>8 DEF N

(* Putting a block before the others: it was in place k, or is new.        *)
PutFrom(k, block, r, q) ==
    /\ k \in 1 .. Len(r) + 1
    /\ k <= Len(r) => r[k] = block /\ Len(q) = Len(r)
    /\ k = Len(r) + 1 => (\A i \in 1 .. Len(r) : r[i] # block) /\ Len(q) = Len(r) + 1
    /\ q[1] = block
    /\ \A i \in 2 .. Len(q) : q[i] = IF i <= k THEN r[i - 1] ELSE r[i]
LEMMA PutFirstIs ==
    ASSUME NEW r \in Seq(Nat), NEW block \in Nat
    PROVE  /\ PutFirst(block, r) \in Seq(Nat)
           /\ \E k \in 1 .. Len(r) + 1 : PutFrom(k, block, r, PutFirst(block, r))
  <1> DEFINE N == Len(r)
             q == PutFirst(block, r)
  <1>1. N \in Nat /\ DOMAIN r = 1 .. N
    OBVIOUS
  <1>2. CASE block \in ToSet(r)
    <2> DEFINE k    == CHOOSE i \in DOMAIN r : r[i] = block
               rest == RemoveAt(r, k)
    <2>1. k \in 1 .. N /\ r[k] = block
      BY <1>1, <1>2 DEF ToSet
    <2>2. q = <<block>> \o rest
      BY <1>2 DEF PutFirst
    <2> HIDE DEF k
    <2>3. /\ rest \in Seq(Nat) /\ Len(rest) = N - 1
          /\ \A i \in 1 .. N - 1 : rest[i] = IF i < k THEN r[i] ELSE r[i + 1]
      BY <2>1, RemoveAtIs
    <2> HIDE DEF rest, q
    <2>4. /\ q \in Seq(Nat) /\ Len(q) = Len(rest) + 1 /\ q[1] = block
          /\ \A i \in 2 .. Len(rest) + 1 : q[i] = rest[i - 1]
      BY <2>2, <2>3, OneBefore
    <2> HIDE DEF N
    <2>5. ASSUME NEW i \in 2 .. N
          PROVE  q[i] = IF i <= k THEN r[i - 1] ELSE r[i]
      <3>1. /\ i \in 2 .. Len(rest) + 1 /\ i - 1 \in 1 .. N - 1 /\ (i - 1 < k <=> i <= k)
            /\ (i - 1) + 1 = i
        BY <1>1, <2>1, <2>3
      <3>2. q[i] = rest[i - 1]
        BY <2>4, <3>1
      <3>3. rest[i - 1] = IF i - 1 < k THEN r[i - 1] ELSE r[(i - 1) + 1]
        BY <2>3, <3>1
      <3> QED
        BY <3>1, <3>2, <3>3
    <2>6. Len(q) = N
      BY <1>1, <2>3, <2>4
    <2>7. PutFrom(k, block, r, q)
      <3>1. k \in 1 .. N + 1 /\ k <= N /\ k # N + 1
        BY <1>1, <2>1
      <3> QED
        BY <2>1, <2>4, <2>5, <2>6, <3>1 DEF PutFrom, N
    <2> QED
      BY <1>1, <2>1, <2>4, <2>7 DEF q, N
  <1>3. CASE block \notin ToSet(r)
    <2>1. q = <<block>> \o r /\ \A i \in 1 .. N : r[i] # block
      BY <1>1, <1>3 DEF PutFirst, ToSet
    <2> HIDE DEF q
    <2>2. /\ q \in Seq(Nat) /\ Len(q) = N + 1 /\ q[1] = block
          /\ \A i \in 2 .. N + 1 : q[i] = r[i - 1]
      BY <2>1, OneBefore
    <2> HIDE DEF N
    <2>3. PutFrom(N + 1, block, r, q) /\ N + 1 \in 1 .. N + 1
      <3>1. N + 1 \in 1 .. N + 1 /\ ~(N + 1 <= N)
        BY <1>1
      <3>2. \A i \in 2 .. N + 1 : i <= N + 1
        BY <1>1
      <3> QED
        BY <2>1, <2>2, <3>1, <3>2 DEF PutFrom, N
    <2> QED
      BY <2>2, <2>3 DEF q, N
  <1> QED
    BY <1>2, <1>3

(* The others keep their order, behind it.                                 *)
From(k, j) == IF j <= k THEN j - 1 ELSE j
To(k, i) == IF i < k THEN i + 1 ELSE i
LEMMA PutFromMoves ==
    ASSUME NEW r \in Seq(Nat), NEW q \in Seq(Nat), NEW block \in Nat, NEW k, PutFrom(k, block, r, q),
           \A i, j \in DOMAIN r : r[i] = r[j] => i = j
    PROVE  /\ \A j \in 2 .. Len(q) : /\ From(k, j) \in 1 .. Len(r) /\ From(k, j) # k
                                    /\ q[j] = r[From(k, j)] /\ q[j] # block
           /\ \A i \in 1 .. Len(r) : i # k => /\ To(k, i) \in 2 .. Len(q)
                                            /\ q[To(k, i)] = r[i]
           /\ \A j, l \in 2 .. Len(q) : j < l => From(k, j) < From(k, l)
           /\ \A j, l \in DOMAIN q : q[j] = q[l] => j = l
  <1> DEFINE N == Len(r)
             M == Len(q)
  <1>1. /\ N \in Nat /\ M \in Nat /\ DOMAIN r = 1 .. N /\ DOMAIN q = 1 .. M
        /\ \A i, j \in 1 .. N : r[i] = r[j] => i = j
    OBVIOUS
  <1>2. /\ k \in 1 .. N + 1
        /\ k <= N => r[k] = block /\ M = N
        /\ k = N + 1 => (\A i \in 1 .. N : r[i] # block) /\ M = N + 1
        /\ q[1] = block
        /\ \A i \in 2 .. M : q[i] = IF i <= k THEN r[i - 1] ELSE r[i]
    BY DEF PutFrom
  <1> HIDE DEF N, M
  <1>3. ASSUME NEW j \in 2 .. M
        PROVE  /\ From(k, j) \in 1 .. N /\ From(k, j) # k
               /\ q[j] = r[From(k, j)] /\ q[j] # block
    <2>1. From(k, j) \in 1 .. N /\ From(k, j) # k
      BY <1>1, <1>2, <1>3 DEF From
    <2>2. q[j] = r[From(k, j)]
      BY <1>2, <1>3 DEF From
    <2>3. r[From(k, j)] # block
      <3>1. CASE k <= N
        <4>1. k \in 1 .. N /\ r[k] = block
          BY <1>1, <1>2, <3>1
        <4> QED
          BY <1>1, <2>1, <4>1
      <3>2. CASE k = N + 1
        BY <1>2, <2>1, <3>2
      <3> QED
        BY <1>1, <1>2, <3>1, <3>2
    <2> QED
      BY <2>1, <2>2, <2>3
  <1>4. ASSUME NEW i \in 1 .. N, i # k
        PROVE  To(k, i) \in 2 .. M /\ q[To(k, i)] = r[i]
    <2>1. To(k, i) \in 2 .. M /\ From(k, To(k, i)) = i
      BY <1>1, <1>2, <1>4 DEF To, From
    <2> QED
      BY <1>3, <2>1
  <1>5. \A j, l \in 2 .. M : j < l => From(k, j) < From(k, l)
    BY <1>1, <1>2 DEF From
  <1>6. \A j, l \in 2 .. M : q[j] = q[l] => j = l
    <2>1. \A j, l \in 2 .. M : From(k, j) = From(k, l) => j = l
      BY <1>1, <1>2 DEF From
    <2> QED
      BY <1>1, <1>3, <2>1
  <1>7. \A j, l \in 1 .. M : q[j] = q[l] => j = l
    <2>1. \A j \in 1 .. M : j = 1 \/ j \in 2 .. M
      BY <1>1
    <2> QED
      BY <1>2, <1>3, <1>6, <2>1
  <1> QED
    BY <1>1, <1>3, <1>4, <1>5, <1>7 DEF N, M

(* One slot takes the block, the others hold the next ones.                *)
LEMMA TakeSlot ==
    ASSUME NEW c, NEW m, NEW r, Lru(c, m, r), NEW block \in Nat, NEW data \in DataRead,
           NEW k, NEW q \in Seq(Nat), PutFrom(k, block, r, q), NEW h \in Slots,
           \A i \in Full(c) \ {h} : \E j \in 2 .. Len(q) : j <= CACHE_SIZE /\ q[j] = c[i].block,
           \A j \in 2 .. Len(q) : j <= CACHE_SIZE => \E i \in Full(c) \ {h} : c[i].block = q[j]
    PROVE  Lru([c EXCEPT ![h] = [block |-> block, lru |-> m + 1, data |-> data]], m + 1, q)
  <1> DEFINE e == [block |-> block, lru |-> m + 1, data |-> data]
             d == [c EXCEPT ![h] = e]
  <1>1. c \in [Slots -> Slot] /\ m \in Nat /\ r \in Seq(Nat)
    BY DEF Lru, LruType
  <1>2. e \in Slot /\ e.block = block /\ e.lru = m + 1 /\ block # -1
    BY <1>1 DEF Slot
  <1>3. d \in [Slots -> Slot] /\ d[h] = e /\ \A i \in Slots \ {h} : d[i] = c[i]
    BY <1>1, <1>2
  <1> HIDE DEF e, d
  <1>4. /\ \A j \in 2 .. Len(q) : /\ From(k, j) \in 1 .. Len(r) /\ q[j] = r[From(k, j)]
                                 /\ q[j] # block
        /\ \A j, l \in 2 .. Len(q) : j < l => From(k, j) < From(k, l)
        /\ \A j, l \in DOMAIN q : q[j] = q[l] => j = l
    BY <1>1, PutFromMoves DEF Lru, Once
  <1>5. Full(d) = Full(c) \cup {h}
    BY <1>2, <1>3 DEF Full
  <1>6. \A i \in Full(c) \ {h} : c[i].block # block
    BY <1>4
  <1>7. q[1] = block /\ 1 \in DOMAIN q /\ DOMAIN q = 1 .. Len(q)
    BY <1>1 DEF PutFrom
  <1>8. Once(d, q)
    <2>1. \A i, j \in Full(d) : d[i].block = d[j].block => i = j
      BY <1>2, <1>3, <1>5, <1>6 DEF Lru, Once, Full
    <2> QED
      BY <1>4, <2>1 DEF Once
  <1>9. Holds(d, q)
    <2>1. \A j \in DOMAIN q : j = 1 \/ j \in 2 .. Len(q)
      BY <1>7
    <2>2. 1 <= CACHE_SIZE
      BY SizesAssumption
    <2>3. ASSUME NEW i \in Full(d)
          PROVE  \E j \in Lately(q) : q[j] = d[i].block
      <3>1. CASE i = h
        BY <1>2, <1>3, <1>7, <2>2, <3>1 DEF Lately
      <3>2. CASE i # h
        <4>1. i \in Full(c) \ {h} /\ d[i] = c[i]
          BY <1>3, <1>5, <2>3, <3>2 DEF Full
        <4>2. PICK j \in 2 .. Len(q) : j <= CACHE_SIZE /\ q[j] = c[i].block
          BY <4>1
        <4>3. j \in DOMAIN q
          BY <1>7
        <4> QED
          BY <4>1, <4>2, <4>3 DEF Lately
      <3> QED
        BY <3>1, <3>2
    <2>4. ASSUME NEW j \in Lately(q)
          PROVE  \E i \in Full(d) : d[i].block = q[j]
      <3>1. CASE j = 1
        BY <1>2, <1>3, <1>5, <1>7, <3>1
      <3>2. CASE j \in 2 .. Len(q)
        <4>1. PICK i \in Full(c) \ {h} : c[i].block = q[j]
          BY <2>4, <3>2 DEF Lately
        <4> QED
          BY <1>3, <1>5, <4>1 DEF Full
      <3> QED
        BY <2>1, <2>4, <3>1, <3>2 DEF Lately
    <2> QED
      BY <2>3, <2>4 DEF Holds
  <1>10. Ordered(d, m + 1, q)
    <2>1. \A i \in Slots : c[i].lru \in Nat /\ c[i].lru <= m
      BY <1>1 DEF Lru, Ordered, Slot
    <2>2. ASSUME NEW i \in Slots
          PROVE  d[i].lru <= m + 1
      <3>1. CASE i = h
        BY <1>1, <1>2, <1>3, <3>1
      <3>2. CASE i # h
        <4>1. d[i].lru = c[i].lru /\ c[i].lru \in Nat /\ c[i].lru <= m
          BY <1>3, <2>1, <3>2
        <4> QED
          BY <1>1, <4>1
      <3> QED
        BY <3>1, <3>2
    <2>3. ASSUME NEW i \in Slots, NEW j \in Slots, NEW x \in DOMAIN q, NEW y \in DOMAIN q,
                 d[i].block = q[x], d[j].block = q[y], x < y
          PROVE  d[j].lru < d[i].lru
      <3>1. y \in 2 .. Len(q) /\ (x = 1 \/ x \in 2 .. Len(q))
        BY <1>7, <2>3
      <3>2. j # h /\ d[j] = c[j]
        BY <1>2, <1>3, <1>4, <2>3, <3>1
      <3>3. CASE i = h
        BY <1>1, <1>2, <1>3, <2>1, <3>2, <3>3
      <3>4. CASE i # h
        <4>1. d[i] = c[i] /\ i \in Full(c) \ {h}
          <5>1. q[x] \in Nat
            BY <2>3
          <5> QED
            BY <1>3, <2>3, <3>4, <5>1 DEF Full
        <4>2. x \in 2 .. Len(q)
          BY <1>6, <1>7, <2>3, <3>1, <4>1
        <4>3. /\ From(k, x) \in DOMAIN r /\ From(k, y) \in DOMAIN r
              /\ c[i].block = r[From(k, x)] /\ c[j].block = r[From(k, y)]
              /\ From(k, x) < From(k, y)
          <5>1. DOMAIN r = 1 .. Len(r)
            BY <1>1
          <5>2. /\ From(k, x) \in 1 .. Len(r) /\ From(k, y) \in 1 .. Len(r)
                /\ q[x] = r[From(k, x)] /\ q[y] = r[From(k, y)] /\ From(k, x) < From(k, y)
            BY <1>4, <2>3, <3>1, <4>2
          <5> QED
            BY <2>3, <3>2, <4>1, <5>1, <5>2
        <4>4. c[j].lru < c[i].lru
          BY <4>3 DEF Lru, Ordered
        <4> QED
          BY <3>2, <4>1, <4>4
      <3> QED
        BY <3>3, <3>4
    <2> QED
      BY <2>2, <2>3 DEF Ordered
  <1>11. LruType(d, m + 1, q)
    BY <1>1, <1>3 DEF LruType
  <1> QED
    BY <1>8, <1>9, <1>10, <1>11 DEF Lru, d, e

LEMMA VictimIs ==
    ASSUME NEW c \in [Slots -> Slot]
    PROVE  /\ Victim(c) \in Slots
           /\ Full(c) # Slots => c[Victim(c)].block = -1
           /\ Full(c) = Slots => \A j \in Slots : c[Victim(c)].lru <= c[j].lru
  <1>1. Slots \subseteq Nat /\ Slots # {}
    BY SlotsFinite
  <1> DEFINE free == {i \in Slots : c[i].block = -1}
             eldest == {i \in Slots : \A j \in Slots : c[i].lru <= c[j].lru}
  <1>2. free = {} <=> Full(c) = Slots
    BY DEF Full
  <1>3. CASE free # {}
    <2>1. Min(free) \in free /\ Victim(c) = Min(free)
      BY <1>1, <1>3, LeastOf DEF Victim
    <2> QED
      BY <1>2, <1>3, <2>1
  <1>4. CASE free = {}
    <2> DEFINE used == {c[i].lru : i \in Slots}
    <2>1. used \in SUBSET Nat /\ used # {}
      BY ZenonT(40), <1>1 DEF Slot
    <2>2. Min(used) \in used /\ \A m \in used : Min(used) <= m
      BY <2>1, LeastOf
    <2>3. eldest # {}
      <3>1. PICK i \in Slots : c[i].lru = Min(used)
        BY <2>2
      <3>2. \A j \in Slots : c[j].lru \in used
        OBVIOUS
      <3>3. i \in eldest
        BY <2>2, <3>1, <3>2
      <3> QED
        BY <3>3
    <2>4. Min(eldest) \in eldest /\ Victim(c) = Min(eldest)
      BY <1>1, <1>4, <2>3, LeastOf DEF Victim
    <2> QED
      BY <1>2, <1>4, <2>4
  <1> QED
    BY <1>3, <1>4

(* A read keeps the blocks used last in the cache: a hit moves its block   *)
(* to the front, a miss gives up the last one of a cache that is full.     *)
LEMMA HitKeepsLru ==
    ASSUME NEW c, NEW m, NEW r, Lru(c, m, r), NEW block \in Nat,
           NEW h \in Slots, c[h].block = block
    PROVE  Lru([c EXCEPT ![h].lru = m + 1], m + 1, PutFirst(block, r))
  <1> DEFINE q == PutFirst(block, r)
  <1>1. c \in [Slots -> Slot] /\ m \in Nat /\ r \in Seq(Nat) /\ DOMAIN r = 1 .. Len(r)
    BY DEF Lru, LruType
  <1>2. PICK k \in 1 .. Len(r) + 1 : PutFrom(k, block, r, q)
    BY <1>1, PutFirstIs
  <1>3. q \in Seq(Nat)
    BY <1>1, PutFirstIs
  <1> HIDE DEF q
  <1>4. /\ \A j \in 2 .. Len(q) : /\ From(k, j) \in 1 .. Len(r) /\ From(k, j) # k
                                  /\ q[j] = r[From(k, j)] /\ q[j] # block
        /\ \A i \in 1 .. Len(r) : i # k => To(k, i) \in 2 .. Len(q) /\ q[To(k, i)] = r[i]
    <2>1. \A i, j \in DOMAIN r : r[i] = r[j] => i = j
      BY DEF Lru, Once
    <2>2. r \in Seq(Nat) /\ q \in Seq(Nat) /\ block \in Nat /\ PutFrom(k, block, r, q)
      BY <1>1, <1>2, <1>3
    <2> QED
      BY SMTT(30), <2>1, <2>2, PutFromMoves
  <1>5. h \in Full(c) /\ c[h].data \in DataRead
    BY <1>1 DEF Full, Slot
  <1>6. k \in Lately(r) /\ r[k] = block
    <2>1. PICK p \in Lately(r) : r[p] = block
      BY <1>5 DEF Lru, Holds
    <2>2. p \in 1 .. Len(r) /\ p <= CACHE_SIZE
      BY <1>1, <2>1 DEF Lately
    <2>3. k # Len(r) + 1
      BY <1>2, <2>1, <2>2 DEF PutFrom
    <2>4. k \in 1 .. Len(r) /\ r[k] = block
      BY <1>1, <1>2, <2>3 DEF PutFrom
    <2>5. k = p
      BY <1>1, <2>1, <2>2, <2>4 DEF Lru, Once
    <2> QED
      BY <2>1, <2>4, <2>5
  <1>7. ASSUME NEW i \in Full(c) \ {h}
        PROVE  \E j \in 2 .. Len(q) : j <= CACHE_SIZE /\ q[j] = c[i].block
    <2>1. PICK p \in Lately(r) : r[p] = c[i].block
      BY DEF Lru, Holds
    <2>2. p # k
      BY <1>5, <1>6, <2>1 DEF Lru, Once
    <2>3. To(k, p) \in 2 .. Len(q) /\ q[To(k, p)] = c[i].block
      BY <1>1, <1>4, <2>1, <2>2 DEF Lately
    <2>4. To(k, p) <= CACHE_SIZE
      BY <1>1, <1>6, <2>1, SlotsFinite DEF To, Lately
    <2> QED
      BY <2>3, <2>4
  <1>8. ASSUME NEW j \in 2 .. Len(q), j <= CACHE_SIZE
        PROVE  \E i \in Full(c) \ {h} : c[i].block = q[j]
    <2>1. From(k, j) \in Lately(r)
      BY <1>1, <1>4, <1>8, SlotsFinite DEF Lately, From
    <2>2. PICK i \in Full(c) : c[i].block = q[j]
      BY <1>4, <2>1 DEF Lru, Holds
    <2> QED
      BY <1>4, <2>2
  <1>9. [c EXCEPT ![h].lru = m + 1]
          = [c EXCEPT ![h] = [block |-> block, lru |-> m + 1, data |-> c[h].data]]
    <2>1. c[h] \in Slot
      BY <1>1
    <2>2. [c[h] EXCEPT !.lru = m + 1] = [block |-> block, lru |-> m + 1, data |-> c[h].data]
      BY <2>1 DEF Slot
    <2>3. [c EXCEPT ![h].lru = m + 1] = [c EXCEPT ![h] = [c[h] EXCEPT !.lru = m + 1]]
      OBVIOUS
    <2> QED
      BY <2>2, <2>3
  <1>10. Lru([c EXCEPT ![h] = [block |-> block, lru |-> m + 1, data |-> c[h].data]], m + 1, q)
    <2> DEFINE data == c[h].data
    <2>1. data \in DataRead
      BY <1>5
    <2> HIDE DEF data
    <2>2. Lru([c EXCEPT ![h] = [block |-> block, lru |-> m + 1, data |-> data]], m + 1, q)
      BY <1>2, <1>3, <1>7, <1>8, <2>1, TakeSlot
    <2> QED
      BY <2>2 DEF data
  <1> QED
    BY <1>9, <1>10 DEF q

LEMMA MissKeepsLru ==
    ASSUME NEW c, NEW m, NEW r, Lru(c, m, r), NEW block \in Nat, NEW data \in DataRead,
           \A i \in Slots : c[i].block # block
    PROVE  Lru([c EXCEPT ![Victim(c)] = [block |-> block, lru |-> m + 1, data |-> data]],
               m + 1, PutFirst(block, r))
  <1> DEFINE q == PutFirst(block, r)
             h == Victim(c)
  <1>1. c \in [Slots -> Slot] /\ m \in Nat /\ r \in Seq(Nat) /\ DOMAIN r = 1 .. Len(r)
        /\ Len(r) \in Nat /\ CACHE_SIZE \in Nat \ {0}
    BY SizesAssumption DEF Lru, LruType
  <1>2. PICK k \in 1 .. Len(r) + 1 : PutFrom(k, block, r, q)
    BY <1>1, PutFirstIs
  <1>3. q \in Seq(Nat)
    BY <1>1, PutFirstIs
  <1>4. /\ h \in Slots
        /\ Full(c) # Slots => c[h].block = -1
        /\ Full(c) = Slots => \A j \in Slots : c[h].lru <= c[j].lru
    BY <1>1, VictimIs
  <1> HIDE DEF q, h
  <1>5. /\ \A j \in 2 .. Len(q) : /\ From(k, j) \in 1 .. Len(r) /\ From(k, j) # k
                                  /\ q[j] = r[From(k, j)] /\ q[j] # block
        /\ \A i \in 1 .. Len(r) : i # k => To(k, i) \in 2 .. Len(q) /\ q[To(k, i)] = r[i]
    <2>1. \A i, j \in DOMAIN r : r[i] = r[j] => i = j
      BY DEF Lru, Once
    <2>2. r \in Seq(Nat) /\ q \in Seq(Nat) /\ block \in Nat /\ PutFrom(k, block, r, q)
      BY <1>1, <1>2, <1>3
    <2> QED
      BY <2>1, <2>2, PutFromMoves
  <1>6. Full(c) = Slots <=> Len(r) >= CACHE_SIZE
    BY FullCount
  <1>7. k <= Len(r) => k > CACHE_SIZE
    <2>1. SUFFICES ASSUME k <= Len(r), k <= CACHE_SIZE
                   PROVE  FALSE
      BY <1>1
    <2>2. k \in Lately(r) /\ r[k] = block
      BY <1>1, <1>2, <2>1 DEF Lately, PutFrom
    <2> QED
      BY <2>2 DEF Lru, Holds, Full
  (* The slot given up held the last of the blocks used lately, if any.    *)
  <1>8. \A i \in Full(c) \ {h} : \E p \in Lately(r) : p < k /\ p < CACHE_SIZE /\ r[p] = c[i].block
    <2> SUFFICES ASSUME NEW i \in Full(c) \ {h}
                 PROVE  \E p \in Lately(r) : p < k /\ p < CACHE_SIZE /\ r[p] = c[i].block
      OBVIOUS
    <2>1. PICK p \in Lately(r) : r[p] = c[i].block
      BY DEF Lru, Holds
    <2>2. p \in 1 .. Len(r) /\ p <= CACHE_SIZE
      BY <1>1, <2>1 DEF Lately
    <2>3. CASE Len(r) < CACHE_SIZE
      BY <1>1, <1>7, <2>1, <2>2, <2>3
    <2>4. CASE Len(r) >= CACHE_SIZE
      <3>1. p # CACHE_SIZE
        <4> SUFFICES ASSUME p = CACHE_SIZE
                     PROVE  FALSE
          OBVIOUS
        <4>1. c[h].lru <= c[i].lru /\ h \in Full(c) /\ i \in Slots
          BY <1>4, <1>6, <2>4 DEF Full
        <4>2. PICK l \in Lately(r) : r[l] = c[h].block
          BY <4>1 DEF Lru, Holds
        <4>3. l # p
          BY <2>1, <4>1, <4>2 DEF Lru, Once
        <4>4. l \in DOMAIN r /\ p \in DOMAIN r /\ l < p
          BY <1>1, <2>2, <4>2, <4>3 DEF Lately
        <4>5. c[i].lru < c[h].lru
          BY <1>4, <2>1, <4>1, <4>2, <4>4 DEF Lru, Ordered
        <4>6. c[i].lru \in Nat /\ c[h].lru \in Nat
          BY <1>1, <1>4, <4>1 DEF Slot
        <4> QED
          BY <4>1, <4>5, <4>6
      <3>2. p < CACHE_SIZE /\ p < k
        BY <1>1, <1>7, <2>2, <2>4, <3>1
      <3> QED
        BY <2>1, <3>2
    <2> QED
      BY <1>1, <2>3, <2>4
  <1>9. ASSUME NEW i \in Full(c) \ {h}
        PROVE  \E j \in 2 .. Len(q) : j <= CACHE_SIZE /\ q[j] = c[i].block
    <2>1. PICK p \in Lately(r) : p < k /\ p < CACHE_SIZE /\ r[p] = c[i].block
      BY <1>8
    <2>2. p \in 1 .. Len(r) /\ p # k /\ To(k, p) = p + 1 /\ p + 1 <= CACHE_SIZE
      BY <1>1, <2>1 DEF Lately, To
    <2>3. To(k, p) \in 2 .. Len(q) /\ q[To(k, p)] = c[i].block
      BY <1>5, <2>1, <2>2
    <2> QED
      BY <2>2, <2>3
  <1>10. ASSUME NEW j \in 2 .. Len(q), j <= CACHE_SIZE
         PROVE  \E i \in Full(c) \ {h} : c[i].block = q[j]
    <2>1. From(k, j) = j - 1 /\ j - 1 \in DOMAIN r /\ j - 1 < CACHE_SIZE
      <3>1. j <= k
        <4>1. CASE k <= Len(r)
          BY <1>1, <1>7, <1>10, <4>1
        <4>2. CASE k = Len(r) + 1
          <5>1. Len(q) = Len(r) + 1
            BY <1>2, <4>2 DEF PutFrom
          <5> QED
            BY <1>1, <1>10, <4>2, <5>1
        <4> QED
          BY <1>1, <4>1, <4>2
      <3> QED
        BY <1>1, <1>5, <1>10, <3>1 DEF From
    <2>2. PICK i \in Full(c) : c[i].block = r[j - 1]
      <3>1. j - 1 \in Lately(r)
        BY <1>1, <2>1 DEF Lately
      <3> QED
        BY <3>1 DEF Lru, Holds
    <2>3. i # h
      <3>1. SUFFICES ASSUME i = h
                     PROVE  FALSE
        OBVIOUS
      <3>2. Full(c) = Slots
        BY <1>4, <2>2, <3>1 DEF Full
      <3>3. CACHE_SIZE \in Lately(r)
        BY <1>1, <1>6, <3>2 DEF Lately
      <3>4. PICK x \in Full(c) : c[x].block = r[CACHE_SIZE]
        BY <3>3 DEF Lru, Holds
      <3>5. c[x].lru < c[h].lru
        BY <1>1, <1>4, <2>1, <2>2, <3>1, <3>3, <3>4 DEF Lru, Ordered, Full, Lately
      <3>6. c[x].lru \in Nat /\ c[h].lru \in Nat /\ c[h].lru <= c[x].lru
        BY <1>1, <1>4, <3>2, <3>4 DEF Slot
      <3> QED
        BY <3>5, <3>6
    <2> QED
      BY <1>5, <2>1, <2>2, <2>3
  <1> QED
    BY <1>2, <1>3, <1>4, <1>9, <1>10, TakeSlot DEF q, h
-----------------------------------------------------------------------------
(* What may be read from the disks, and what is made of it.                *)
Systems == UNION {{<<d, s>> : s \in DOMAIN Disk[d].fs} : d \in Disks}
Addresses == Seq(Nat \ {0})
DirEntry == [ino : Nat, name : Names]

LEMMA SystemIs ==
    ASSUME NEW d, NEW s, <<d, s>> \in Systems
    PROVE  d \in Disks /\ s \in DOMAIN Disk[d].fs /\ IsFileSystem(Disk[d].fs[s])
  <1>1. PICK e \in Disks : <<d, s>> \in {<<e, t>> : t \in DOMAIN Disk[e].fs}
    BY DEF Systems
  <1>2. d \in Disks /\ s \in DOMAIN Disk[d].fs
    BY <1>1
  <1> QED
    BY <1>2, DisksAssumption DEF IsDisk

(* A sector or block is Garbage, or it is of a file system on a disk.      *)
LEMMA DataIs ==
    ASSUME NEW data \in DataRead
    PROVE  \/ data = Garbage
           \/ \E d \in Disks : \E s \in DOMAIN Disk[d].fs, k \in Nat :
                data = Block(d, s, k) \/ data = Inodes(d, s, k)
  <1>1. CASE data \in BlocksRead
    <2>1. PICK d \in Disks : data \in {Block(d, s, k) : s \in DOMAIN Disk[d].fs, k \in Nat}
      BY <1>1 DEF BlocksRead
    <2> QED
      BY <2>1
  <1>2. CASE data \in InodesRead
    <2>1. PICK d \in Disks : data \in {Inodes(d, s, k) : s \in DOMAIN Disk[d].fs, k \in Nat}
      BY <1>2 DEF InodesRead
    <2> QED
      BY <2>1
  <1> QED
    BY <1>1, <1>2 DEF DataRead

LEMMA WantedIsData ==
    ASSUME NEW d, NEW s, <<d, s>> \in Systems, NEW k \in Nat
    PROVE  Block(d, s, k) \in DataRead /\ Inodes(d, s, k) \in DataRead
  <1>1. d \in Disks /\ s \in DOMAIN Disk[d].fs
    BY SystemIs
  <1>2. Block(d, s, k) \in {Block(d, t, l) : t \in DOMAIN Disk[d].fs, l \in Nat}
    BY <1>1
  <1>3. Inodes(d, s, k) \in {Inodes(d, t, l) : t \in DOMAIN Disk[d].fs, l \in Nat}
    BY <1>1
  <1>4. Block(d, s, k) \in BlocksRead
    BY <1>1, <1>2 DEF BlocksRead
  <1>5. Inodes(d, s, k) \in InodesRead
    BY <1>1, <1>3 DEF InodesRead
  <1> QED
    BY <1>4, <1>5 DEF DataRead

LEMMA ContentType ==
    ASSUME NEW data \in DataRead
    PROVE  Content(data).dir \in Seq(DirEntry) /\ Content(data).addr \in Addresses
  <1>1. NoContent.dir \in Seq(DirEntry) /\ NoContent.addr \in Addresses
    BY DEF NoContent, Addresses
  <1>2. CASE data = Garbage \/ \E d, s, k : data = Inodes(d, s, k)
    <2>1. data.at # "block"
      BY <1>2 DEF Garbage, Inodes
    <2> QED
      BY <1>1, <2>1 DEF Content
  <1>3. ASSUME NEW d \in Disks, NEW s \in DOMAIN Disk[d].fs, NEW k \in Nat, data = Block(d, s, k)
        PROVE  Content(data).dir \in Seq(DirEntry) /\ Content(data).addr \in Addresses
    <2> DEFINE fs == Disk[d].fs[s]
    <2>1. Content(data) = IF k \in DOMAIN fs.block THEN fs.block[k] ELSE NoContent
      BY <1>3 DEF Content, Block
    <2>2. IsFileSystem(fs)
      BY DisksAssumption DEF IsDisk
    <2>3. \A b \in DOMAIN fs.block : /\ fs.block[b].dir \in Seq(DirEntry)
                                    /\ fs.block[b].addr \in Addresses
      BY <2>2 DEF IsFileSystem, DirEntry, Addresses
    <2> HIDE DEF fs
    <2> QED
      BY <1>1, <2>1, <2>3
  <1> QED
    BY <1>2, <1>3, DataIs

(* An inode is one on a disk, or none.                                     *)
Inode ==
    {NoFile} \cup
    UNION {UNION {{Disk[d].fs[s].inode[i] : i \in DOMAIN Disk[d].fs[s].inode}
                     : s \in DOMAIN Disk[d].fs} : d \in Disks}

LEMMA InodeIs ==
    ASSUME NEW inode \in Inode
    PROVE  inode.size \in Nat /\ inode.db \in Addresses /\ inode.ib \in Addresses
  <1>1. CASE inode = NoFile
    BY <1>1 DEF NoFile, Addresses
  <1>2. CASE inode # NoFile
    <2>1. PICK d \in Disks :
            inode \in UNION {{Disk[d].fs[s].inode[i] : i \in DOMAIN Disk[d].fs[s].inode}
                                : s \in DOMAIN Disk[d].fs}
      BY <1>2 DEF Inode
    <2>2. PICK s \in DOMAIN Disk[d].fs :
            inode \in {Disk[d].fs[s].inode[i] : i \in DOMAIN Disk[d].fs[s].inode}
      BY <2>1
    <2>3. PICK i \in DOMAIN Disk[d].fs[s].inode : inode = Disk[d].fs[s].inode[i]
      BY <2>2
    <2>4. IsFileSystem(Disk[d].fs[s])
      BY DisksAssumption DEF IsDisk
    <2> QED
      BY <2>3, <2>4 DEF IsFileSystem, IsInode, Addresses
  <1> QED
    BY <1>1, <1>2

LEMMA InodeInType ==
    ASSUME NEW data \in DataRead, NEW inum
    PROVE  InodeIn(data, inum) \in Inode
  <1>1. NoFile \in Inode
    BY SMTT(30) DEF Inode
  <1>2. CASE data = Garbage \/ \E d, s, k : data = Block(d, s, k)
    BY <1>1, <1>2 DEF InodeIn, Garbage, Block
  <1>3. ASSUME NEW d \in Disks, NEW s \in DOMAIN Disk[d].fs, NEW k \in Nat, data = Inodes(d, s, k)
        PROVE  InodeIn(data, inum) \in Inode
    <2> DEFINE fs   == Disk[d].fs[s]
               held == {i \in DOMAIN fs.inode : /\ SectorOf(fs, i) = k
                                                /\ i % InodesPerSector = inum % InodesPerSector}
    <2>1. InodeIn(data, inum)
            = IF held = {} THEN NoFile ELSE fs.inode[CHOOSE i \in held : TRUE]
      BY <1>3 DEF InodeIn, Inodes
    <2>2. held \subseteq DOMAIN fs.inode
      OBVIOUS
    <2>3. ASSUME NEW i \in DOMAIN fs.inode
          PROVE  fs.inode[i] \in Inode
      <3>1. fs.inode[i] \in {Disk[d].fs[s].inode[j] : j \in DOMAIN Disk[d].fs[s].inode}
        OBVIOUS
      <3>2. fs.inode[i] \in UNION {{Disk[d].fs[t].inode[j] : j \in DOMAIN Disk[d].fs[t].inode}
                                      : t \in DOMAIN Disk[d].fs}
        BY <3>1
      <3> HIDE DEF fs
      <3> QED
        BY <3>2 DEF Inode
    <2> HIDE DEF held, fs
    <2> QED
      BY <1>1, <2>1, <2>2, <2>3
  <1> QED
    BY <1>2, <1>3, DataIs
-----------------------------------------------------------------------------
(* What every step keeps: the types the proofs need, the cache's order, and *)
(* that a block is only asked of a partition whose superblock was read.    *)
Sectors ==
    {0} \cup UNION {get_part_sector(map, label, name, again, Junk) :
                        map \in Seq(Entry), label \in Label, name \in Names, again \in BOOLEAN}
Fd == [used : BOOLEAN, start : Sectors, dinode : Inode, ind : Seq(DataRead), pos : Int]
Fds == 0 .. NumFds - 1
Loaded == {"root", "dir", "scan", "indirect", "open", "read"}

FdShape ==
    /\ fdtable \in [Fds -> Fd] /\ fd \in Fds /\ numfd \in Nat
    /\ slots \in Seq(Fds) /\ Len(slots) <= MAX_BOOTER_FILES
WhereShape ==
    /\ pc \in Loaded \cup {"idle", "part", "super"} /\ target \in Targets /\ step \in Nat
    /\ pc = "indirect" => step <= Len(file.ind)
ListShape ==
    /\ todo \in Seq({"data", "ind"} \X Nat) /\ dir \in Seq(DirEntry)
    /\ pc = "scan" => step <= Len(dir)
ReadShape == pos \in Nat /\ len \in Nat
SeenShape ==
    /\ dinode \in DataRead /\ failures \in Nat
    /\ visited \subseteq Systems /\ IsFiniteSet(visited)
    /\ pc \in Loaded => <<dev, file.start>> \in visited
CacheShape == Lru(cache, n, recent)
Shape == FdShape /\ WhereShape /\ ListShape /\ ReadShape /\ SeenShape /\ CacheShape

LEMMA GreatestOf ==
    ASSUME NEW N \in Nat, NEW S \in SUBSET (1 .. N), S # {}
    PROVE  \E x \in S : \A y \in S : y <= x
  <1> DEFINE down == {N - x : x \in S}
  <1>1. down \in SUBSET Nat /\ down # {}
    <2>1. \A x \in S : N - x \in Nat
      OBVIOUS
    <2>2. \A m \in down : m \in Nat
      BY <2>1
    <2>3. PICK x \in S : TRUE
      OBVIOUS
    <2>4. N - x \in down
      OBVIOUS
    <2> QED
      BY <2>2, <2>4
  <1>2. Min(down) \in down /\ \A m \in down : Min(down) <= m
    BY <1>1, LeastOf
  <1>3. PICK x \in S : Min(down) = N - x
    BY <1>2
  <1>4. ASSUME NEW y \in S
        PROVE  y <= x
    <2>1. N - y \in down
      OBVIOUS
    <2>2. N - x <= N - y
      BY <1>2, <1>3, <2>1
    <2> QED
      BY <2>2
  <1> QED
    BY <1>4

(* Where ufs_read looks for a block of the file is the number of a block.  *)
LEMMA AddressType ==
    ASSUME NEW f \in Fd, NEW block \in Nat, <<dev, file.start>> \in Systems
    PROVE  Address(f, block) \in Nat
  <1>1. f.dinode.db \in Addresses /\ f.ind \in Seq(DataRead)
    BY InodeIs DEF Fd
  <1>2. NDADDR \in Nat /\ IndSpan \in Nat
    BY SizesAssumption
  <1>3. CASE block < NDADDR
    <2>1. Address(f, block) = IF block < Len(f.dinode.db) THEN f.dinode.db[block + 1] ELSE 0
      BY <1>3 DEF Address
    <2> QED
      BY <1>1, <2>1 DEF Addresses
  <1>4. CASE ~(block < NDADDR)
    <2> DEFINE i    == block - NDADDR
               over == {k \in DOMAIN f.ind : /\ (k - 1) * IndSpan <= i
                                             /\ i < (k - 1) * IndSpan + sb.nindir}
               k    == CHOOSE x \in over : \A y \in over : y <= x
               list == Content(f.ind[k]).addr
               e    == i - (k - 1) * IndSpan
    <2>1. Address(f, block) = IF over # {} /\ e < Len(list) THEN list[e + 1] ELSE 0
      BY <1>4 DEF Address
    <2>2. ASSUME over # {}, e < Len(list)
          PROVE  list[e + 1] \in Nat
      <3>1. over \in SUBSET (1 .. Len(f.ind)) /\ Len(f.ind) \in Nat
        BY <1>1
      <3>2. \E x \in over : \A y \in over : y <= x
        <4> HIDE DEF over
        <4> QED
          BY <2>2, <3>1, GreatestOf
      <3>3. k \in over
        BY <3>2
      <3>4. k \in 1 .. Len(f.ind) /\ (k - 1) * IndSpan <= i
        BY <3>1, <3>3
      <3> DEFINE before == (k - 1) * IndSpan
      <3>5. before \in Int /\ before <= i /\ i \in Nat
        BY <1>2, <1>4, <3>4
      <3>6. e = i - before
        OBVIOUS
      <3> HIDE DEF before, i, e
      <3>7. e \in Nat
        BY <3>5, <3>6
      <3>8. list \in Addresses
        <4> HIDE DEF k
        <4>1. f.ind[k] \in DataRead
          BY <1>1, <3>4
        <4> QED
          BY <4>1, ContentType
      <3> HIDE DEF list
      <3> QED
        BY <2>2, <3>7, <3>8 DEF Addresses
    <2> HIDE DEF over, e, list
    <2> QED
      BY <2>1, <2>2
  <1> QED
    BY <1>3, <1>4

(* read_bsd_block: the cache stays as it should, and what is returned was  *)
(* read from a disk now or before.                                         *)
LEMMA ReadBlock ==
    ASSUME NEW start, NEW block \in Nat, NEW data, CacheShape, failures \in Nat,
           <<dev, start>> \in Systems, read_bsd_block(start, block, data)
    PROVE  CacheShape' /\ data \in DataRead /\ failures' \in Nat /\ failures' >= failures
  <1> DEFINE kept == Kept(Disk[dev].id)
             hits == {i \in Slots : kept.cache[i].block = block}
  <1>1. Lru(kept.cache, kept.n, kept.recent)
    BY EmptyLru DEF Kept, CacheShape
  <1>2. kept.cache \in [Slots -> Slot]
    BY SMTT(30), <1>1 DEF Lru, LruType
  <1>3. n' = kept.n + 1 /\ recent' = PutFirst(block, kept.recent)
    BY DEF read_bsd_block
  <1>4. CASE hits # {}
    <2>1. /\ data = kept.cache[Min(hits)].data /\ failures' = failures
          /\ cache' = [kept.cache EXCEPT ![Min(hits)].lru = kept.n + 1]
      BY <1>4 DEF read_bsd_block
    <2>2. Min(hits) \in hits
      BY <1>4, SlotsFinite, LeastOf
    <2>3. Min(hits) \in Slots /\ kept.cache[Min(hits)].block = block
      BY SMTT(30), <2>2
    <2>4. data \in DataRead
      BY <1>2, <2>1, <2>3 DEF Slot
    <2> HIDE DEF kept, hits
    <2>5. Lru(cache', n', recent')
      BY <1>1, <1>3, <2>1, <2>3, HitKeepsLru
    <2> QED
      BY SMTT(30), <2>1, <2>4, <2>5 DEF CacheShape
  <1>5. CASE hits = {}
    <2>1. /\ read_disk(Block(dev, start, block), data)
          /\ cache' = [kept.cache EXCEPT ![Victim(kept.cache)] =
                          [block |-> block, lru |-> kept.n + 1, data |-> data]]
      BY <1>5 DEF read_bsd_block
    <2>2. \A i \in Slots : kept.cache[i].block # block
      BY <1>5
    <2>3. data \in DataRead
      BY <2>1, WantedIsData DEF read_disk, DataRead
    <2>4. failures' \in Nat /\ failures' >= failures
      BY <2>1 DEF read_disk
    <2> HIDE DEF kept, hits
    <2>5. Lru(cache', n', recent')
      BY <1>1, <1>3, <2>1, <2>2, <2>3, MissKeepsLru
    <2> QED
      BY SMTT(30), <2>3, <2>4, <2>5 DEF CacheShape
  <1> QED
    BY <1>4, <1>5

LEMMA ReadInodes ==
    ASSUME NEW start, NEW sector \in Nat, NEW data, dinode \in DataRead, failures \in Nat,
           <<dev, start>> \in Systems, get_dinode(start, sector, data)
    PROVE  data \in DataRead /\ dinode' \in DataRead /\ failures' \in Nat /\ failures' >= failures
  <1>1. CASE last = sector
    BY <1>1 DEF get_dinode
  <1>2. CASE last # sector
    <2>1. read_disk(Inodes(dev, start, sector), data) /\ dinode' = data
      BY <1>2 DEF get_dinode
    <2>2. data \in DataRead
      BY <2>1, WantedIsData DEF read_disk, DataRead
    <2> QED
      BY <2>1, <2>2 DEF read_disk
  <1> QED
    BY <1>1, <1>2
-----------------------------------------------------------------------------
LEMMA LoadedIs ==
    ASSUME Shape, pc \in Loaded
    PROVE  /\ <<dev, file.start>> \in visited /\ <<dev, file.start>> \in Systems
           /\ IsFileSystem(sb) /\ file \in Fd
  <1>1. <<dev, file.start>> \in visited /\ <<dev, file.start>> \in Systems
    BY DEF Shape, SeenShape
  <1>2. file \in Fd
    BY DEF Shape, FdShape, file
  <1> QED
    BY <1>1, <1>2, SystemIs DEF sb

LEMMA StepCases ==
    ASSUME [Next]_vars
    PROVE  \/ Open \/ FindPart \/ ReadSuper \/ RootInode \/ LoadDir \/ ScanDir \/ LoadIndirect
           \/ Seek \/ StartRead \/ ReadFileBlock \/ FinishRead \/ OpenReturns \/ StopInUfs
           \/ EndBoot \/ UNCHANGED vars
  BY DEF Next, Done

LEMMA InitShape == Init => Shape
  <1> SUFFICES ASSUME Init
               PROVE  Shape
    OBVIOUS
  <1>1. NoFd \in Fd
    BY DEF NoFd, Fd, Sectors, Inode
  <1>2. 0 \in Fds
    BY SizesAssumption DEF Fds
  <1>3. FdShape
    <2>1. fdtable \in [Fds -> Fd]
      BY <1>1 DEF Init, Fds
    <2>2. slots \in Seq(Fds) /\ Len(slots) <= MAX_BOOTER_FILES
      BY DEF Init, MAX_BOOTER_FILES
    <2> QED
      BY <1>2, <2>1, <2>2 DEF FdShape, Init
  <1>4. WhereShape
    BY DEF WhereShape, Init
  <1>5. ListShape
    BY DEF ListShape, Init
  <1>6. ReadShape
    BY DEF ReadShape, Init
  <1>7. SeenShape
    BY FS_EmptySet DEF SeenShape, Init, DataRead, Loaded
  <1>8. CacheShape
    BY EmptyLru DEF CacheShape, Init, Empty
  <1> QED
    BY <1>3, <1>4, <1>5, <1>6, <1>7, <1>8 DEF Shape

(* The three actions that read blocks.                                     *)
LEMMA LoadDirReads ==
    ASSUME Shape, LoadDir, todo # <<>>
    PROVE  /\ todo[1] \in {"data", "ind"} \X Nat /\ Tail(todo) \in Seq({"data", "ind"} \X Nat)
           /\ \E data \in DataRead :
                /\ read_bsd_block(file.start, todo[1][2], data)
                /\ IF todo[1][1] = "data"
                   THEN todo' = Tail(todo) /\ dir' = dir \o Content(data).dir
                   ELSE LET list == Content(data).addr
                        IN  /\ todo' = Tagged("data", list)
                                       \o (IF Len(list) < sb.nindir THEN <<>> ELSE Tail(todo))
                            /\ dir' = dir
           /\ CacheShape' /\ failures' \in Nat /\ failures' >= failures
  <1>1. todo[1] \in {"data", "ind"} \X Nat /\ Tail(todo) \in Seq({"data", "ind"} \X Nat)
    BY DEF Shape, ListShape
  <1>2. todo[1][2] \in Nat
    BY <1>1
  <1>3. PICK data :
          /\ read_bsd_block(file.start, todo[1][2], data)
          /\ IF todo[1][1] = "data"
             THEN todo' = Tail(todo) /\ dir' = dir \o Content(data).dir
             ELSE LET list == Content(data).addr
                  IN  /\ todo' = Tagged("data", list)
                                 \o (IF Len(list) < sb.nindir THEN <<>> ELSE Tail(todo))
                      /\ dir' = dir
    BY DEF LoadDir
  <1>4. <<dev, file.start>> \in Systems
    BY LoadedIs DEF LoadDir, Loaded
  <1>5. data \in DataRead /\ CacheShape' /\ failures' \in Nat /\ failures' >= failures
    BY <1>2, <1>3, <1>4, ReadBlock DEF Shape, SeenShape
  <1> QED
    BY <1>1, <1>3, <1>5

LEMMA LoadIndirectReads ==
    ASSUME Shape, LoadIndirect, step < Len(file.dinode.ib)
    PROVE  /\ file.dinode.ib[step + 1] \in Nat
           /\ \E data \in DataRead :
                /\ read_bsd_block(file.start, file.dinode.ib[step + 1], data)
                /\ fdtable' = [fdtable EXCEPT ![fd].ind = SubSeq(@, 1, step) \o <<data>>]
           /\ step' = step + 1 /\ UNCHANGED <<pc, slots>>
           /\ CacheShape' /\ failures' \in Nat /\ failures' >= failures
  <1>1. <<dev, file.start>> \in Systems /\ file \in Fd
    BY LoadedIs DEF LoadIndirect, Loaded
  <1>2. file.dinode.ib[step + 1] \in Nat
    <2>1. file.dinode.ib \in Addresses
      BY <1>1, InodeIs DEF Fd
    <2>2. step \in Nat
      BY DEF Shape, WhereShape
    <2> QED
      BY <2>1, <2>2 DEF Addresses
  <1>3. PICK data :
          /\ read_bsd_block(file.start, file.dinode.ib[step + 1], data)
          /\ fdtable' = [fdtable EXCEPT ![fd].ind = SubSeq(@, 1, step) \o <<data>>]
    BY DEF LoadIndirect
  <1>4. data \in DataRead /\ CacheShape' /\ failures' \in Nat /\ failures' >= failures
    BY <1>1, <1>2, <1>3, ReadBlock DEF Shape, SeenShape
  <1>5. step' = step + 1 /\ UNCHANGED <<pc, slots>>
    BY DEF LoadIndirect
  <1> QED
    BY <1>2, <1>3, <1>4, <1>5

LEMMA Divided ==
    ASSUME NEW p \in Nat, NEW b \in Nat \ {0}
    PROVE  p \div b \in Nat /\ p % b \in 0 .. b - 1
  OBVIOUS

LEMMA ReadFileReads ==
    ASSUME Shape, ReadFileBlock
    PROVE  /\ Address(file, pos \div sb.bsize) \in Nat
           /\ \E data \in DataRead :
                read_bsd_block(file.start, Address(file, pos \div sb.bsize), data)
           /\ CacheShape' /\ failures' \in Nat /\ failures' >= failures
  <1>1. <<dev, file.start>> \in Systems /\ file \in Fd /\ IsFileSystem(sb)
    BY LoadedIs DEF ReadFileBlock, Loaded
  <1>2. pos \div sb.bsize \in Nat
    BY <1>1, Divided DEF IsFileSystem, Shape, ReadShape
  <1>3. Address(file, pos \div sb.bsize) \in Nat
    BY <1>1, <1>2, AddressType
  <1>4. PICK data : read_bsd_block(file.start, Address(file, pos \div sb.bsize), data)
    BY DEF ReadFileBlock
  <1>5. data \in DataRead /\ CacheShape' /\ failures' \in Nat /\ failures' >= failures
    BY <1>1, <1>3, <1>4, ReadBlock DEF Shape, SeenShape
  <1> QED
    BY <1>3, <1>4, <1>5

LEMMA StepCache ==
    ASSUME Shape, [Next]_vars
    PROVE  CacheShape'
  <1>1. ASSUME UNCHANGED <<cache, n, recent>>
        PROVE  CacheShape'
    BY <1>1 DEF Shape, CacheShape
  <1>2. CASE LoadDir
    <2>1. CASE todo # <<>>
      BY <1>2, <2>1, LoadDirReads
    <2>2. CASE todo = <<>>
      BY <1>1, <1>2, <2>2 DEF LoadDir, cacheVars
    <2> QED
      BY <2>1, <2>2
  <1>3. CASE LoadIndirect
    <2>1. CASE step < Len(file.dinode.ib)
      BY <1>3, <2>1, LoadIndirectReads
    <2>2. CASE ~(step < Len(file.dinode.ib))
      BY <1>1, <1>3, <2>2 DEF LoadIndirect, cacheVars
    <2> QED
      BY <2>1, <2>2
  <1>4. CASE ReadFileBlock
    BY <1>4, ReadFileReads
  <1>5. CASE Open \/ FindPart \/ ReadSuper \/ RootInode \/ ScanDir
    BY <1>1, <1>5 DEF Open, FindPart, ReadSuper, RootInode, ScanDir, cacheVars
  <1>6. CASE Seek \/ StartRead \/ FinishRead \/ OpenReturns \/ StopInUfs \/ EndBoot
    BY <1>1, <1>6 DEF Seek, StartRead, FinishRead, OpenReturns, StopInUfs, EndBoot, cacheVars
  <1>7. CASE UNCHANGED vars
    BY <1>1, <1>7 DEF vars
  <1> QED
    BY <1>2, <1>3, <1>4, <1>5, <1>6, <1>7, StepCases

LEMMA SectorType ==
    ASSUME NEW fs, IsFileSystem(fs), NEW inum \in Nat
    PROVE  SectorOf(fs, inum) \in Nat
  <1>1. fs.itable \in Nat
    BY DEF IsFileSystem
  <1>2. inum \div InodesPerSector \in Nat
    BY DEF InodesPerSector
  <1> QED
    BY <1>1, <1>2 DEF SectorOf

LEMMA EntryScanned ==
    ASSUME Shape, pc = "scan", step # Len(dir)
    PROVE  step + 1 \in DOMAIN dir /\ dir[step + 1] \in DirEntry
  <1>1. dir \in Seq(DirEntry) /\ step \in Nat /\ step <= Len(dir)
    BY DEF Shape, ListShape, WhereShape
  <1> DEFINE N == Len(dir)
  <1>2. /\ N \in Nat /\ DOMAIN dir = 1 .. N /\ step <= N /\ step # N
        /\ \A i \in 1 .. N : dir[i] \in DirEntry
    BY <1>1
  <1> HIDE DEF N
  <1>3. step + 1 \in 1 .. N
    BY <1>1, <1>2
  <1> QED
    BY <1>2, <1>3

(* A descriptor stays one whichever of its fields is set.                  *)
LEMMA FdSet ==
    ASSUME NEW t \in [Fds -> Fd], NEW i \in Fds
    PROVE  /\ [t EXCEPT ![i].used = FALSE] \in [Fds -> Fd]
           /\ \A s \in Sectors : [t EXCEPT ![i].start = s] \in [Fds -> Fd]
           /\ \A x \in Inode : [t EXCEPT ![i].dinode = x] \in [Fds -> Fd]
           /\ \A d \in Seq(DataRead) : [t EXCEPT ![i].ind = d] \in [Fds -> Fd]
           /\ \A p \in Int : [t EXCEPT ![i].pos = p] \in [Fds -> Fd]
           /\ \A p \in Int : [t EXCEPT ![i].pos = p, ![i].used = TRUE] \in [Fds -> Fd]
  <1> DEFINE f == t[i]
             data == Seq(DataRead)
  <1>1. f \in [used : BOOLEAN, start : Sectors, dinode : Inode, ind : data, pos : Int]
    BY DEF Fd
  <1>2. \A g \in Fd : [t EXCEPT ![i] = g] \in [Fds -> Fd]
    OBVIOUS
  <1> HIDE DEF f, data
  <1>3. [f EXCEPT !.used = FALSE] \in Fd
    <2>1. ASSUME NEW b \in BOOLEAN
          PROVE  [f EXCEPT !.used = b] \in Fd
      <3>1. [f EXCEPT !.used = b]
              = [used |-> b, start |-> f.start, dinode |-> f.dinode, ind |-> f.ind, pos |-> f.pos]
        BY <1>1
      <3> QED
        BY <1>1, <3>1 DEF Fd, data
    <2> QED
      BY <2>1, Zenon
  <1>4. ASSUME NEW s \in Sectors
        PROVE  [f EXCEPT !.start = s] \in Fd
    BY <1>1 DEF Fd, data
  <1>5. ASSUME NEW x \in Inode
        PROVE  [f EXCEPT !.dinode = x] \in Fd
    BY <1>1 DEF Fd, data
  <1>6. ASSUME NEW d \in Seq(DataRead)
        PROVE  [f EXCEPT !.ind = d] \in Fd
    BY <1>1 DEF Fd, data
  <1>7. ASSUME NEW p \in Int
        PROVE  [f EXCEPT !.pos = p] \in Fd
    BY <1>1 DEF Fd, data
  <1>8. ASSUME NEW p \in Int
        PROVE  [t EXCEPT ![i].pos = p, ![i].used = TRUE] \in [Fds -> Fd]
    <2> DEFINE g == [f EXCEPT !.pos = p, !.used = TRUE]
    <2>1. g = [used |-> TRUE, start |-> f.start, dinode |-> f.dinode, ind |-> f.ind, pos |-> p]
      <3> DEFINE e == [f EXCEPT !.pos = p]
      <3>1. e = [used |-> f.used, start |-> f.start, dinode |-> f.dinode, ind |-> f.ind, pos |-> p]
        BY <1>1
      <3>2. g = [e EXCEPT !.used = TRUE]
        OBVIOUS
      <3> HIDE DEF e, g
      <3> QED
        BY <3>1, <3>2
    <2>2. g \in Fd
      BY <1>1, <2>1 DEF Fd, data
    <2>3. [t EXCEPT ![i].pos = p, ![i].used = TRUE] = [t EXCEPT ![i] = g]
      BY DEF f
    <2> HIDE DEF g
    <2> QED
      BY <1>2, <2>2, <2>3
  <1>9. /\ [t EXCEPT ![i].used = FALSE] = [t EXCEPT ![i] = [f EXCEPT !.used = FALSE]]
        /\ \A s : [t EXCEPT ![i].start = s] = [t EXCEPT ![i] = [f EXCEPT !.start = s]]
        /\ \A x : [t EXCEPT ![i].dinode = x] = [t EXCEPT ![i] = [f EXCEPT !.dinode = x]]
        /\ \A d : [t EXCEPT ![i].ind = d] = [t EXCEPT ![i] = [f EXCEPT !.ind = d]]
        /\ \A p : [t EXCEPT ![i].pos = p] = [t EXCEPT ![i] = [f EXCEPT !.pos = p]]
    BY DEF f
  <1>10. [t EXCEPT ![i].used = FALSE] \in [Fds -> Fd]
    BY <1>2, <1>3, <1>9
  <1>11. \A s \in Sectors : [t EXCEPT ![i].start = s] \in [Fds -> Fd]
    BY <1>2, <1>4, <1>9
  <1>12. \A x \in Inode : [t EXCEPT ![i].dinode = x] \in [Fds -> Fd]
    BY <1>2, <1>5, <1>9
  <1>13. \A d \in Seq(DataRead) : [t EXCEPT ![i].ind = d] \in [Fds -> Fd]
    BY <1>2, <1>6, <1>9
  <1>14. \A p \in Int : [t EXCEPT ![i].pos = p] \in [Fds -> Fd]
    BY <1>2, <1>7, <1>9
  <1> QED
    BY <1>8, <1>10, <1>11, <1>12, <1>13, <1>14

LEMMA SectorsFound ==
    ASSUME Shape, NEW start,
           LET d   == Disk[dev]
               map == IF d.formatted THEN d.map ELSE <<>>
               Sectors_(m, label, again) == get_part_sector(m, label, target[2], again, Junk)
           IN  start \in Sectors_(map, d.label, TRUE) \cup Sectors_(map, Unsound, FALSE) \cup
                         UNION {Sectors_(SubSeq(map, 1, i), d.label, TRUE) : i \in 0 .. Len(map)}
    PROVE  start \in Sectors
  <1> DEFINE d   == Disk[dev]
             map == IF d.formatted THEN d.map ELSE <<>>
             Found(m, label, again) == get_part_sector(m, label, target[2], again, Junk)
  <1>1. dev \in Disks /\ target[2] \in Names
    BY TargetsAssumption DEF Shape, WhereShape, dev
  <1>2. map \in Seq(Entry) /\ d.label \in Label /\ Unsound \in Label
    BY <1>1, DisksAssumption DEF IsDisk, Unsound, Label
  <1> HIDE DEF map
  <1>3. \A m \in Seq(Entry), label \in Label, again \in BOOLEAN : Found(m, label, again) \subseteq Sectors
    BY <1>1 DEF Sectors
  <1>4. \A i \in 0 .. Len(map) : SubSeq(map, 1, i) \in Seq(Entry)
    BY <1>2
  <1>5. start \in Found(map, d.label, TRUE) \cup Found(map, Unsound, FALSE) \cup
                  UNION {Found(SubSeq(map, 1, i), d.label, TRUE) : i \in 0 .. Len(map)}
    BY DEF map
  <1> HIDE DEF d, Found
  <1> QED
    BY ZenonT(40), <1>2, <1>3, <1>4, <1>5

LEMMA ClosedType ==
    ASSUME Shape, NEW k
    PROVE  Closed(k) \in [Fds -> Fd]
  <1>1. fdtable \in [Fds -> Fd] /\ slots \in Seq(Fds)
    BY DEF Shape, FdShape
  <1>2. CASE k \in ToSet(slots)
    <2>1. k \in Fds
      BY <1>1, <1>2 DEF ToSet
    <2>2. Closed(k) = [fdtable EXCEPT ![k].used = FALSE]
      BY <1>2 DEF Closed
    <2> QED
      BY <1>1, <2>1, <2>2, FdSet
  <1> QED
    BY <1>1, <1>2 DEF Closed

LEMMA StepFd ==
    ASSUME Shape, [Next]_vars
    PROVE  FdShape'
  <1>1. /\ fdtable \in [Fds -> Fd] /\ fd \in Fds /\ numfd \in Nat
        /\ slots \in Seq(Fds) /\ Len(slots) <= MAX_BOOTER_FILES
    BY DEF Shape, FdShape
  <1>2. ASSUME UNCHANGED <<fd, numfd, slots>>, fdtable' \in [Fds -> Fd]
        PROVE  FdShape'
    BY <1>1, <1>2 DEF FdShape
  <1>3. CASE Open
    <2> DEFINE free == {i \in 0 .. numfd - 1 : ~fdtable[i].used}
               i    == IF free = {} THEN numfd ELSE Min(free)
    <2>1. /\ numfd' = IF free = {} THEN numfd + 1 ELSE numfd
          /\ \/ UNCHANGED <<fdtable, fd>>
             \/ numfd' <= NumFds /\ fd' = i /\ fdtable' = [fdtable EXCEPT ![i].used = FALSE]
          /\ UNCHANGED slots
      BY <1>3 DEF Open, Marked, Proceed, Fail, openVars
    <2>2. free # {} => Min(free) \in free
      <3>1. free \in SUBSET Nat
        BY <1>1
      <3> QED
        BY <3>1, LeastOf
    <2>3. NumFds \in Nat
      BY SizesAssumption
    <2>4. numfd' \in Nat /\ (numfd' <= NumFds => i \in Fds)
      BY <1>1, <2>1, <2>2, <2>3 DEF Fds
    <2> HIDE DEF i, free
    <2>5. fdtable' \in [Fds -> Fd] /\ fd' \in Fds
      BY <1>1, <2>1, <2>4, FdSet
    <2> QED
      BY <1>1, <2>1, <2>4, <2>5 DEF FdShape
  <1>4. CASE FindPart
    <2> DEFINE d   == Disk[dev]
               map == IF d.formatted THEN d.map ELSE <<>>
               Found(m, label, again) == get_part_sector(m, label, target[2], again, Junk)
    <2>1. \E start \in Found(map, d.label, TRUE) \cup (Found(map, Unsound, FALSE) \cup
                       UNION {Found(SubSeq(map, 1, i), d.label, TRUE) : i \in 0 .. Len(map)}) :
            \/ UNCHANGED fdtable
            \/ fdtable' = [fdtable EXCEPT ![fd].start = start]
      BY <1>4 DEF FindPart
    <2>2. PICK start \in Sectors :
            \/ UNCHANGED fdtable
            \/ fdtable' = [fdtable EXCEPT ![fd].start = start]
      BY <2>1, SectorsFound
    <2>3. UNCHANGED <<fd, numfd, slots>>
      BY <1>4 DEF FindPart, Fail, Proceed, openVars
    <2>4. fdtable' \in [Fds -> Fd]
      <3>1. [fdtable EXCEPT ![fd].start = start] \in [Fds -> Fd]
        BY <1>1, FdSet
      <3> QED
        BY <1>1, <2>2, <3>1, Zenon
    <2> QED
      BY <1>2, <2>3, <2>4
  <1>5. CASE ReadSuper \/ RootInode \/ LoadDir
    <2>1. UNCHANGED <<fd, numfd, slots, fdtable>>
      BY <1>5 DEF ReadSuper, RootInode, LoadDir, Fail, Proceed, openVars
    <2> QED
      BY <1>1, <1>2, <2>1
  <1>6. CASE ScanDir
    <2>1. UNCHANGED <<fd, numfd, slots>>
      BY <1>6 DEF ScanDir, Fail, Proceed, openVars
    <2>2. \/ UNCHANGED fdtable
          \/ /\ step # Len(dir)
             /\ LET ent == dir[step + 1]
                    sector == SectorOf(sb, ent.ino)
                IN  \E data :
                      /\ get_dinode(file.start, sector, data)
                      /\ fdtable' = [fdtable EXCEPT ![fd].dinode = InodeIn(data, ent.ino)]
      BY <1>6 DEF ScanDir
    <2>3. CASE step # Len(dir)
      <3> DEFINE ent == dir[step + 1]
                 sector == SectorOf(sb, ent.ino)
      <3>1. ent.ino \in Nat
        BY <1>6, <2>3, EntryScanned DEF ScanDir, DirEntry
      <3>2. <<dev, file.start>> \in Systems /\ IsFileSystem(sb)
        BY <1>6, LoadedIs DEF ScanDir, Loaded
      <3>3. sector \in Nat
        BY <3>1, <3>2, SectorType
      <3>4. ASSUME NEW data, get_dinode(file.start, sector, data)
            PROVE  InodeIn(data, ent.ino) \in Inode
        BY <3>2, <3>3, <3>4, ReadInodes, InodeInType DEF Shape, SeenShape
      <3> HIDE DEF sector, ent
      <3>5. \/ UNCHANGED fdtable
            \/ \E x \in Inode : fdtable' = [fdtable EXCEPT ![fd].dinode = x]
        BY <2>2, <3>4 DEF sector, ent
      <3>6. fdtable' \in [Fds -> Fd]
        <4>1. \A x \in Inode : [fdtable EXCEPT ![fd].dinode = x] \in [Fds -> Fd]
          BY <1>1, FdSet
        <4> QED
          BY <1>1, <3>5, <4>1, Zenon
      <3> QED
        BY <1>2, <2>1, <3>6
    <2> QED
      BY <1>1, <1>2, <2>1, <2>2, <2>3
  <1>7. CASE LoadIndirect
    <2>1. UNCHANGED <<fd, numfd>>
      BY <1>7 DEF LoadIndirect
    <2>2. CASE step < Len(file.dinode.ib)
      <3>1. PICK data \in DataRead :
              fdtable' = [fdtable EXCEPT ![fd].ind = SubSeq(@, 1, step) \o <<data>>]
        BY <1>7, <2>2, LoadIndirectReads
      <3> DEFINE ind == SubSeq(file.ind, 1, step) \o <<data>>
      <3>2. fdtable' = [fdtable EXCEPT ![fd].ind = ind]
        BY <3>1 DEF file
      <3>3. ind \in Seq(DataRead)
        <4>1. file.ind \in Seq(DataRead) /\ step \in Nat /\ step <= Len(file.ind)
          BY <1>1, <1>7 DEF Fd, file, LoadIndirect, Shape, WhereShape
        <4> QED
          BY <4>1
      <3> HIDE DEF ind
      <3>4. UNCHANGED slots
        BY <1>7, <2>2 DEF LoadIndirect
      <3> QED
        BY <1>1, <1>2, <2>1, <3>2, <3>3, <3>4, FdSet
    <2>3. CASE ~(step < Len(file.dinode.ib))
      <3>1. /\ fdtable' = [fdtable EXCEPT ![fd].pos = 0, ![fd].used = TRUE]
            /\ slots' = IF Len(slots) < MAX_BOOTER_FILES THEN Append(slots, fd) ELSE slots
        BY <1>7, <2>3 DEF LoadIndirect
      <3>2. fdtable' \in [Fds -> Fd]
        <4>1. 0 \in Int
          OBVIOUS
        <4> QED
          BY <1>1, <3>1, <4>1, FdSet
      <3>3. slots' \in Seq(Fds) /\ Len(slots') <= MAX_BOOTER_FILES
        BY <1>1, <3>1 DEF MAX_BOOTER_FILES
      <3> QED
        BY <1>1, <2>1, <3>2, <3>3 DEF FdShape
    <2> QED
      BY <2>2, <2>3
  <1>8. CASE Seek
    <2>1. PICK where \in Positions, whence \in {0, file.pos, file.dinode.size} :
            fdtable' = [fdtable EXCEPT ![fd].pos = whence + where]
      BY <1>8 DEF Seek
    <2>2. file \in Fd
      BY <1>1 DEF file
    <2>3. whence + where \in Int
      BY <2>2, BoundsAssumption, InodeIs DEF Fd
    <2>4. UNCHANGED <<fd, numfd, slots>>
      BY <1>8 DEF Seek, openVars
    <2> QED
      BY <1>1, <1>2, <2>1, <2>3, <2>4, FdSet
  <1>9. CASE StartRead \/ ReadFileBlock \/ OpenReturns
    <2>1. UNCHANGED <<fd, numfd, slots, fdtable>>
      BY <1>9 DEF StartRead, ReadFileBlock, OpenReturns, Proceed, openVars
    <2> QED
      BY <1>1, <1>2, <2>1
  <1>10. CASE FinishRead
    <2>1. UNCHANGED <<fd, numfd, slots>> /\ fdtable' = [fdtable EXCEPT ![fd].pos = pos]
      BY <1>10 DEF FinishRead, Proceed, openVars
    <2>2. pos \in Int
      BY DEF Shape, ReadShape
    <2> QED
      BY <1>1, <1>2, <2>1, <2>2, FdSet
  <1>11. CASE StopInUfs \/ EndBoot
    <2>1. UNCHANGED <<fd, numfd, slots>> /\ (fdtable' = fdtable \/ fdtable' = Closed(kern_fd))
      BY <1>11 DEF StopInUfs, EndBoot
    <2> QED
      BY <1>1, <1>2, <2>1, ClosedType
  <1>12. CASE UNCHANGED vars
    BY <1>1, <1>2, <1>12 DEF vars
  <1> QED
    BY <1>3, <1>4, <1>5, <1>6, <1>7, <1>8, <1>9, <1>10, <1>11, <1>12, StepCases

(* What a step does to the descriptor in use, and to the way to it.        *)
LEMMA FdField ==
    ASSUME NEW t \in [Fds -> Fd], NEW i \in Fds
    PROVE  /\ \A x : [t EXCEPT ![i].dinode = x][i].start = t[i].start
           /\ \A d : [t EXCEPT ![i].ind = d][i].start = t[i].start
           /\ \A d : [t EXCEPT ![i].ind = d][i].ind = d
           /\ \A p : [t EXCEPT ![i].pos = p][i].start = t[i].start
           /\ \A p : [t EXCEPT ![i].pos = p, ![i].used = TRUE][i].start = t[i].start
  BY DEF Fd

LEMMA StepWhere ==
    ASSUME Shape, [Next]_vars
    PROVE  WhereShape'
  <1>1. /\ pc \in Loaded \cup {"idle", "part", "super"} /\ target \in Targets /\ step \in Nat
        /\ pc = "indirect" => step <= Len(file.ind)
    BY DEF Shape, WhereShape
  <1>2. ASSUME pc' \in Loaded \cup {"idle", "part", "super"}, pc' # "indirect",
               target' \in Targets, step' \in Nat
        PROVE  WhereShape'
    BY <1>2 DEF WhereShape
  <1>3. CASE Open
    BY <1>1, <1>2, <1>3 DEF Open, Fail, Proceed, Goto
  <1>4. CASE FindPart
    <2>1. UNCHANGED target /\ (Fail \/ Proceed("super"))
      BY <1>4, Zenon DEF FindPart, bootVars
    <2> QED
      BY <1>1, <1>2, <2>1 DEF Fail, Proceed, Goto
  <1>5. CASE ReadSuper
    BY <1>1, <1>2, <1>5 DEF ReadSuper, Fail, Proceed, Goto, Loaded
  <1>6. CASE RootInode
    BY <1>1, <1>2, <1>6 DEF RootInode, Proceed, Goto, Loaded, bootVars
  <1>7. CASE LoadDir
    <2>1. pc = "dir" /\ UNCHANGED target /\ (UNCHANGED <<pc, step>> \/ Proceed("scan"))
      BY <1>7, Zenon DEF LoadDir, bootVars
    <2> QED
      BY <1>1, <1>2, <2>1 DEF Proceed, Goto, Loaded
  <1>8. CASE ScanDir
    <2>1. /\ target' = target /\ step' \in Nat
          /\ pc' \in {"idle", "scan"} \/ (pc' = "indirect" /\ step' = 0)
      BY <1>1, <1>8 DEF ScanDir, Fail, Proceed, Goto, bootVars
    <2>2. Len(file'.ind) \in Nat
      <3>1. file' \in Fd
        BY StepFd DEF FdShape, file
      <3> QED
        BY <3>1 DEF Fd
    <2>3. CASE pc' = "indirect"
      BY <1>1, <2>1, <2>2, <2>3 DEF WhereShape, Loaded
    <2> QED
      BY <1>1, <1>2, <2>1, <2>3 DEF Loaded
  <1>9. CASE LoadIndirect
    <2>1. UNCHANGED <<target, fd>> /\ pc = "indirect"
      BY <1>9 DEF LoadIndirect, bootVars
    <2>2. CASE step < Len(file.dinode.ib)
      <3>1. PICK data \in DataRead :
              fdtable' = [fdtable EXCEPT ![fd].ind = SubSeq(@, 1, step) \o <<data>>]
        BY <1>9, <2>2, LoadIndirectReads
      <3> DEFINE ind == SubSeq(file.ind, 1, step) \o <<data>>
      <3>2. file'.ind = ind
        <4>1. fdtable' = [fdtable EXCEPT ![fd].ind = ind]
          BY <3>1 DEF file
        <4> HIDE DEF ind
        <4> QED
          BY <2>1, <4>1, FdField DEF file, Shape, FdShape
      <3>3. Len(ind) = step + 1
        <4>1. file.ind \in Seq(DataRead)
          BY DEF Fd, file, Shape, FdShape
        <4> QED
          BY <1>1, <2>1, <4>1
      <3>4. step' = step + 1 /\ pc' = pc
        BY <1>9, <2>2, LoadIndirectReads
      <3> HIDE DEF ind
      <3> QED
        BY <1>1, <2>1, <3>2, <3>3, <3>4 DEF WhereShape
    <2>3. CASE ~(step < Len(file.dinode.ib))
      BY <1>1, <1>2, <1>9, <2>1, <2>3 DEF LoadIndirect, Goto, Loaded
    <2> QED
      BY <2>2, <2>3
  <1>10. CASE Seek \/ StartRead \/ ReadFileBlock \/ FinishRead
    BY <1>1, <1>2, <1>10 DEF Seek, StartRead, ReadFileBlock, FinishRead, Proceed, Goto, Loaded, bootVars
  <1>11. CASE OpenReturns \/ StopInUfs \/ EndBoot
    BY <1>1, <1>2, <1>11 DEF OpenReturns, StopInUfs, EndBoot, Goto, Loaded, bootVars
  <1>12. CASE UNCHANGED vars
    BY <1>1, <1>12 DEF vars, WhereShape, file
  <1> QED
    BY <1>3, <1>4, <1>5, <1>6, <1>7, <1>8, <1>9, <1>10, <1>11, <1>12, StepCases

LEMMA TaggedType ==
    ASSUME NEW kind \in {"data", "ind"}, NEW list \in Addresses
    PROVE  Tagged(kind, list) \in Seq({"data", "ind"} \X Nat)
  <1>1. Len(list) \in Nat /\ DOMAIN list = 1 .. Len(list) /\ \A i \in 1 .. Len(list) : list[i] \in Nat
    BY DEF Addresses
  <1>2. Tagged(kind, list) \in [1 .. Len(list) -> {"data", "ind"} \X Nat]
    BY <1>1 DEF Tagged
  <1> QED
    BY <1>1, <1>2

LEMMA StepList ==
    ASSUME Shape, [Next]_vars
    PROVE  ListShape'
  <1> DEFINE Pair == {"data", "ind"} \X Nat
  <1>1. /\ todo \in Seq(Pair) /\ dir \in Seq(DirEntry)
        /\ pc = "scan" => step <= Len(dir)
        /\ step \in Nat
    BY DEF Shape, ListShape, WhereShape
  <1>2. ASSUME todo' \in Seq(Pair), dir' \in Seq(DirEntry), pc' # "scan" \/ step' <= Len(dir')
        PROVE  ListShape'
    BY <1>2 DEF ListShape
  <1>3. <<>> \in Seq(Pair) /\ <<>> \in Seq(DirEntry) /\ Len(dir) \in Nat
    BY <1>1
  <1> HIDE DEF Pair
  <1>4. ASSUME UNCHANGED <<todo, dir>> \/ (todo' = <<>> /\ dir' = <<>>), pc' # "scan"
        PROVE  ListShape'
    BY <1>1, <1>2, <1>3, <1>4
  <1>5. CASE RootInode
    <2>1. PICK data :
            /\ get_dinode(file.start, SectorOf(sb, ROOTINO), data)
            /\ LET root == InodeIn(data, ROOTINO)
               IN  todo' = Tagged("data", root.db) \o Tagged("ind", root.ib)
      BY <1>5 DEF RootInode
    <2>2. <<dev, file.start>> \in Systems /\ IsFileSystem(sb)
      BY <1>5, LoadedIs DEF RootInode, Loaded
    <2>3. SectorOf(sb, ROOTINO) \in Nat
      BY <2>2, SectorType DEF ROOTINO
    <2>4. InodeIn(data, ROOTINO) \in Inode
      BY <2>1, <2>2, <2>3, ReadInodes, InodeInType DEF Shape, SeenShape
    <2> DEFINE first == Tagged("data", InodeIn(data, ROOTINO).db)
               rest  == Tagged("ind", InodeIn(data, ROOTINO).ib)
    <2>5. first \in Seq(Pair) /\ rest \in Seq(Pair)
      BY <2>4, InodeIs, TaggedType DEF Pair
    <2>6. todo' = first \o rest
      BY <2>1
    <2> HIDE DEF first, rest
    <2>7. todo' \in Seq(Pair)
      BY <2>5, <2>6
    <2>8. dir' = <<>> /\ pc' = "dir"
      BY <1>5 DEF RootInode, Proceed, Goto
    <2> QED
      BY <1>2, <1>3, <2>7, <2>8
  <1>6. CASE LoadDir
    <2>1. CASE todo # <<>>
      <3>1. Tail(todo) \in Seq(Pair)
        BY <1>6, <2>1, LoadDirReads DEF Pair
      <3>2. PICK data \in DataRead :
              IF todo[1][1] = "data"
              THEN todo' = Tail(todo) /\ dir' = dir \o Content(data).dir
              ELSE LET list == Content(data).addr
                   IN  /\ todo' = Tagged("data", list)
                                  \o (IF Len(list) < sb.nindir THEN <<>> ELSE Tail(todo))
                       /\ dir' = dir
        BY <1>6, <2>1, LoadDirReads
      <3>3. Content(data).dir \in Seq(DirEntry) /\ Content(data).addr \in Addresses
        BY ContentType
      <3>4. Tagged("data", Content(data).addr) \in Seq(Pair)
        BY <3>3, TaggedType DEF Pair
      <3>5. pc' # "scan"
        BY <1>6, <2>1 DEF LoadDir
      <3> DEFINE tagged == Tagged("data", Content(data).addr)
                 rest   == IF Len(Content(data).addr) < sb.nindir THEN <<>> ELSE Tail(todo)
                 more   == Content(data).dir
      <3>6. rest \in Seq(Pair)
        BY <1>3, <3>1
      <3>7. (todo' = Tail(todo) /\ dir' = dir \o more) \/ (todo' = tagged \o rest /\ dir' = dir)
        BY <3>2
      <3> HIDE DEF tagged, rest, more
      <3>8. tagged \o rest \in Seq(Pair) /\ dir \o more \in Seq(DirEntry)
        BY <1>1, <3>3, <3>4, <3>6 DEF tagged, more
      <3>9. todo' \in Seq(Pair) /\ dir' \in Seq(DirEntry)
        BY <1>1, <3>1, <3>7, <3>8
      <3> QED
        BY <1>2, <3>5, <3>9
    <2>2. CASE todo = <<>>
      <3>1. UNCHANGED <<todo, dir>> /\ step' = 0
        BY <1>6, <2>2 DEF LoadDir, dirVars, Proceed, Goto
      <3> QED
        BY <1>1, <1>2, <1>3, <3>1
    <2> QED
      BY <2>1, <2>2
  <1>7. CASE ScanDir
    <2>1. UNCHANGED <<todo, dir>>
      BY <1>7 DEF ScanDir, dirVars
    <2>2. CASE step = Len(dir)
      BY <1>4, <1>7, <2>1, <2>2 DEF ScanDir, Fail, Goto
    <2>3. CASE step # Len(dir)
      <3>1. step' = step + 1 \/ pc' # "scan"
        BY <1>7, <2>3 DEF ScanDir, Proceed, Goto
      <3>2. step + 1 <= Len(dir)
        BY <1>1, <1>3, <1>7, <2>3 DEF ScanDir
      <3> QED
        BY <1>1, <1>2, <2>1, <3>1, <3>2
    <2> QED
      BY <2>2, <2>3
  <1>8. CASE Open \/ FindPart \/ ReadSuper
    <2>1. UNCHANGED <<todo, dir>> /\ pc' # "scan"
      BY <1>8 DEF Open, FindPart, ReadSuper, Fail, Proceed, Goto, dirVars
    <2> QED
      BY <1>4, <2>1
  <1>9. CASE LoadIndirect \/ Seek \/ StartRead \/ ReadFileBlock \/ FinishRead \/ OpenReturns
    <2>1. UNCHANGED <<todo, dir>> /\ pc' # "scan"
      BY <1>9 DEF LoadIndirect, Seek, StartRead, ReadFileBlock, FinishRead, OpenReturns, Proceed,
                  Goto, dirVars
    <2> QED
      BY <1>4, <2>1
  <1>10. CASE StopInUfs \/ EndBoot
    BY <1>4, <1>10 DEF StopInUfs, EndBoot, Goto, Locals
  <1>11. CASE UNCHANGED vars
    BY <1>1, <1>2, <1>11 DEF vars
  <1> QED
    BY <1>5, <1>6, <1>7, <1>8, <1>9, <1>10, <1>11, StepCases

LEMMA StepRead ==
    ASSUME Shape, [Next]_vars
    PROVE  ReadShape'
  <1>1. pos \in Nat /\ len \in Nat
    BY DEF Shape, ReadShape
  <1>2. CASE StartRead
    <2>1. file \in Fd
      BY <1>2, LoadedIs DEF StartRead, Loaded
    <2>2. file.pos \in Int /\ file.dinode.size \in Nat
      BY <2>1, InodeIs DEF Fd
    <2>3. pos' = Clamped(file.pos, file.dinode.size)
      BY <1>2 DEF StartRead
    <2>4. pos' \in Nat
      BY <2>2, <2>3 DEF Clamped
    <2>5. PICK want \in Lengths :
            len' = IF pos' + want > file.dinode.size
                   THEN IF file.dinode.size < pos' THEN 0 ELSE file.dinode.size - pos'
                   ELSE want
      BY <1>2 DEF StartRead
    <2>6. want \in Nat
      BY BoundsAssumption
    <2>7. len' \in Nat
      BY <2>2, <2>4, <2>5, <2>6
    <2> QED
      BY <2>4, <2>7 DEF ReadShape
  <1>3. CASE ReadFileBlock
    <2> DEFINE b     == sb.bsize
               from  == OffsetInBlock(pos)
               count == IF b - from < len THEN b - from ELSE len
    <2>1. b \in Nat \ {0}
      BY <1>3, LoadedIs DEF ReadFileBlock, Loaded, IsFileSystem
    <2>2. from \in 0 .. b - 1
      BY <1>1, <2>1, Divided DEF OffsetInBlock
    <2>3. pos' = pos + count /\ len' = len - count
      BY <1>3 DEF ReadFileBlock
    <2> HIDE DEF b, from
    <2> QED
      BY <1>1, <2>1, <2>2, <2>3 DEF ReadShape
  <1>4. CASE StopInUfs \/ EndBoot
    BY <1>4 DEF StopInUfs, EndBoot, Locals, ReadShape
  <1>5. CASE Open \/ FindPart \/ ReadSuper \/ RootInode \/ LoadDir \/ ScanDir
    <2>1. UNCHANGED <<pos, len>>
      BY <1>5 DEF Open, FindPart, ReadSuper, RootInode, LoadDir, ScanDir, readVars
    <2> QED
      BY <1>1, <2>1 DEF ReadShape
  <1>6. CASE LoadIndirect \/ Seek \/ FinishRead \/ OpenReturns \/ UNCHANGED vars
    <2>1. UNCHANGED <<pos, len>>
      BY <1>6 DEF LoadIndirect, Seek, FinishRead, OpenReturns, readVars, vars
    <2> QED
      BY <1>1, <2>1 DEF ReadShape
  <1> QED
    BY <1>2, <1>3, <1>4, <1>5, <1>6, StepCases

(* The reads of the disks that a step may make, as far as failures go.     *)
LEMMA StepFailures ==
    ASSUME Shape, [Next]_vars
    PROVE  failures' \in Nat /\ failures' >= failures /\ dinode' \in DataRead
  <1>1. failures \in Nat /\ dinode \in DataRead
    BY DEF Shape, SeenShape
  <1>2. ASSUME failures' = failures \/ failures' = failures + 1, UNCHANGED dinode
        PROVE  failures' \in Nat /\ failures' >= failures /\ dinode' \in DataRead
    BY <1>1, <1>2
  <1>3. CASE RootInode
    <2>1. PICK data : get_dinode(file.start, SectorOf(sb, ROOTINO), data)
      BY <1>3 DEF RootInode
    <2>2. <<dev, file.start>> \in Systems /\ IsFileSystem(sb)
      BY <1>3, LoadedIs DEF RootInode, Loaded
    <2>3. SectorOf(sb, ROOTINO) \in Nat
      BY <2>2, SectorType DEF ROOTINO
    <2> QED
      BY <1>1, <2>1, <2>2, <2>3, ReadInodes
  <1>4. CASE ScanDir
    <2>1. CASE step = Len(dir) \/ ~InUse(dir[step + 1])
      <3>1. UNCHANGED <<failures, dinode>>
        BY <1>4, <2>1 DEF ScanDir, inodeVars
      <3> QED
        BY <1>2, <3>1
    <2>2. CASE step # Len(dir) /\ InUse(dir[step + 1])
      <3> DEFINE sector == SectorOf(sb, dir[step + 1].ino)
      <3>1. PICK data : get_dinode(file.start, sector, data)
        BY <1>4, <2>2 DEF ScanDir
      <3>2. <<dev, file.start>> \in Systems /\ IsFileSystem(sb)
        BY <1>4, LoadedIs DEF ScanDir, Loaded
      <3>3. sector \in Nat
        BY <1>4, <2>2, <3>2, EntryScanned, SectorType DEF ScanDir, DirEntry
      <3> HIDE DEF sector
      <3> QED
        BY <1>1, <3>1, <3>2, <3>3, ReadInodes
    <2> QED
      BY <2>1, <2>2
  <1>5. CASE LoadDir
    <2>1. UNCHANGED dinode
      BY <1>5 DEF LoadDir, inodeVars
    <2>2. CASE todo # <<>>
      BY <1>1, <1>5, <2>1, <2>2, LoadDirReads
    <2>3. CASE todo = <<>>
      <3>1. UNCHANGED failures
        BY <1>5, <2>3 DEF LoadDir
      <3> QED
        BY <1>2, <2>1, <3>1
    <2> QED
      BY <2>2, <2>3
  <1>6. CASE LoadIndirect
    <2>1. UNCHANGED dinode
      BY <1>6 DEF LoadIndirect, inodeVars
    <2>2. CASE step < Len(file.dinode.ib)
      BY <1>1, <1>6, <2>1, <2>2, LoadIndirectReads
    <2>3. CASE ~(step < Len(file.dinode.ib))
      <3>1. UNCHANGED failures
        BY <1>6, <2>3 DEF LoadIndirect
      <3> QED
        BY <1>2, <2>1, <3>1
    <2> QED
      BY <2>2, <2>3
  <1>7. CASE ReadFileBlock
    <2>1. UNCHANGED dinode
      BY <1>7 DEF ReadFileBlock, inodeVars
    <2> QED
      BY <1>1, <1>7, <2>1, ReadFileReads
  <1>8. CASE Open \/ FindPart \/ ReadSuper
    <2>1. (failures' = failures \/ failures' = failures + 1) /\ UNCHANGED dinode
      BY <1>8 DEF Open, FindPart, ReadSuper, inodeVars
    <2> QED
      BY <1>2, <2>1
  <1>9. CASE Seek \/ StartRead \/ FinishRead \/ OpenReturns
    <2>1. (failures' = failures \/ failures' = failures + 1) /\ UNCHANGED dinode
      BY <1>9 DEF Seek, StartRead, FinishRead, OpenReturns, inodeVars
    <2> QED
      BY <1>2, <2>1
  <1>10. CASE StopInUfs \/ EndBoot \/ UNCHANGED vars
    <2>1. failures' = failures /\ UNCHANGED dinode
      BY <1>10 DEF StopInUfs, EndBoot, inodeVars, vars
    <2> QED
      BY <1>2, <2>1
  <1> QED
    BY <1>3, <1>4, <1>5, <1>6, <1>7, <1>8, <1>9, <1>10, StepCases

(* Only ReadSuper starts to read from a partition; until then no block is  *)
(* asked of it, and from then on it is the one of the descriptor.          *)
LEMMA StepVisited ==
    ASSUME Shape, [Next]_vars
    PROVE  /\ visited \subseteq visited' /\ visited' \subseteq Systems /\ IsFiniteSet(visited')
           /\ ~ReadSuper => visited' = visited
           /\ pc' \in Loaded => <<dev, file.start>>' \in visited'
           /\ pc \in Loaded /\ pc' \in Loaded => <<dev, file.start>>' = <<dev, file.start>>
  <1>1. visited \subseteq Systems /\ IsFiniteSet(visited) /\ fdtable \in [Fds -> Fd] /\ fd \in Fds
    BY DEF Shape, SeenShape, FdShape
  <1>2. pc \in Loaded => <<dev, file.start>> \in visited
    BY DEF Shape, SeenShape
  <1>3. CASE pc' \notin Loaded /\ UNCHANGED visited
    BY <1>1, <1>3
  <1>4. ASSUME UNCHANGED <<visited, target, fd>>, pc \in Loaded, file'.start = file.start
        PROVE  /\ visited \subseteq visited' /\ visited' \subseteq Systems /\ IsFiniteSet(visited')
               /\ ~ReadSuper => visited' = visited
               /\ pc' \in Loaded => <<dev, file.start>>' \in visited'
               /\ pc \in Loaded /\ pc' \in Loaded => <<dev, file.start>>' = <<dev, file.start>>
    <2>1. <<dev, file.start>>' = <<dev, file.start>>
      BY <1>4 DEF dev
    <2> QED
      BY <1>1, <1>2, <1>4, <2>1
  <1>5. CASE Open \/ StopInUfs \/ EndBoot
    <2>1. pc' \notin Loaded /\ UNCHANGED visited
      BY <1>5 DEF Open, StopInUfs, EndBoot, Fail, Proceed, Goto, bootVars, Loaded
    <2> QED
      BY <1>3, <2>1
  <1>6. CASE FindPart
    <2>1. (Fail \/ Proceed("super")) /\ UNCHANGED visited
      BY <1>6, Zenon DEF FindPart, bootVars
    <2>2. pc' \notin Loaded
      BY <2>1 DEF Fail, Proceed, Goto, Loaded
    <2> QED
      BY <1>3, <2>1, <2>2
  <1>7. CASE ReadSuper
    <2>1. UNCHANGED <<target, fd, fdtable>> /\ pc \notin Loaded
      BY <1>7 DEF ReadSuper, Loaded
    <2>2. <<dev, file.start>>' = <<dev, file.start>>
      BY <2>1 DEF dev, file
    <2>3. CASE UNCHANGED visited
      <3>1. pc' \notin Loaded \/ <<dev, file.start>> \in visited
        BY <1>7, <2>3 DEF ReadSuper, Fail, Goto, Loaded
      <3> QED
        BY <1>1, <2>1, <2>2, <2>3, <3>1
    <2>4. CASE visited' = visited \cup {<<dev, file.start>>} /\ file.start \in DOMAIN Disk[dev].fs
      <3>1. dev \in Disks
        BY TargetsAssumption DEF Shape, WhereShape, dev
      <3>2. <<dev, file.start>> \in {<<dev, s>> : s \in DOMAIN Disk[dev].fs}
        BY <2>4
      <3>3. <<dev, file.start>> \in Systems
        BY <3>1, <3>2 DEF Systems
      <3>4. IsFiniteSet(visited')
        BY <1>1, <2>4, FS_AddElement
      <3> QED
        BY <1>1, <1>7, <2>1, <2>2, <2>4, <3>3, <3>4
    <2> QED
      BY <1>7, <2>3, <2>4 DEF ReadSuper
  <1>8. CASE RootInode \/ StartRead \/ ReadFileBlock
    <2>1. UNCHANGED <<visited, target, fd, fdtable>> /\ pc \in Loaded
      BY <1>8 DEF RootInode, StartRead, ReadFileBlock, bootVars, Loaded
    <2> QED
      BY <1>4, <2>1 DEF file
  <1>9. CASE LoadDir \/ OpenReturns
    <2>1. UNCHANGED <<visited, target, fd, fdtable>> /\ pc \in Loaded
      BY <1>9 DEF LoadDir, OpenReturns, bootVars, Loaded
    <2> QED
      BY <1>4, <2>1 DEF file
  <1>10. CASE ScanDir
    <2>1. UNCHANGED <<visited, target, fd>> /\ pc \in Loaded
      BY <1>10 DEF ScanDir, bootVars, Loaded
    <2>2. fdtable' = fdtable \/ \E x : fdtable' = [fdtable EXCEPT ![fd].dinode = x]
      BY <1>10, Zenon DEF ScanDir
    <2>3. \A x : [fdtable EXCEPT ![fd].dinode = x][fd].start = fdtable[fd].start
      BY <1>1, FdField
    <2>4. fdtable'[fd].start = fdtable[fd].start
      BY <2>2, <2>3, Zenon
    <2> QED
      BY <1>4, <2>1, <2>4 DEF file
  <1>11. CASE LoadIndirect
    <2>1. UNCHANGED <<visited, target, fd>> /\ pc \in Loaded
      BY <1>11 DEF LoadIndirect, bootVars, Loaded
    <2>2. CASE step < Len(file.dinode.ib)
      <3>1. PICK data :
              fdtable' = [fdtable EXCEPT ![fd].ind = SubSeq(fdtable[fd].ind, 1, step) \o <<data>>]
        BY <1>11, <2>2, LoadIndirectReads
      <3> DEFINE ind == SubSeq(fdtable[fd].ind, 1, step) \o <<data>>
      <3>2. fdtable' = [fdtable EXCEPT ![fd].ind = ind]
        BY <3>1
      <3> HIDE DEF ind
      <3>3. fdtable'[fd].start = fdtable[fd].start
        BY <1>1, <3>2, FdField
      <3> QED
        BY <1>4, <2>1, <3>3 DEF file
    <2>3. CASE ~(step < Len(file.dinode.ib))
      <3>1. fdtable' = [fdtable EXCEPT ![fd].pos = 0, ![fd].used = TRUE]
        BY <1>11, <2>3 DEF LoadIndirect
      <3>2. fdtable'[fd].start = fdtable[fd].start
        BY <1>1, <3>1, FdField
      <3> QED
        BY <1>4, <2>1, <3>2 DEF file
    <2> QED
      BY <2>2, <2>3
  <1>12. CASE Seek \/ FinishRead
    <2>1. UNCHANGED <<visited, target, fd>> /\ pc \in Loaded
      BY <1>12 DEF Seek, FinishRead, bootVars, Loaded
    <2>2. \E p : fdtable' = [fdtable EXCEPT ![fd].pos = p]
      BY <1>12, Zenon DEF Seek, FinishRead
    <2>3. fdtable'[fd].start = fdtable[fd].start
      BY <1>1, <2>2, FdField
    <2> QED
      BY <1>4, <2>1, <2>3 DEF file
  <1>13. CASE UNCHANGED vars
    <2>1. UNCHANGED <<visited, target, fd, fdtable, pc>>
      BY <1>13 DEF vars
    <2> QED
      BY <1>1, <1>2, <2>1 DEF file, dev
  <1> QED
    BY <1>5, <1>6, <1>7, <1>8, <1>9, <1>10, <1>11, <1>12, <1>13, StepCases

LEMMA StepShape ==
    ASSUME Shape, [Next]_vars
    PROVE  Shape'
  <1>1. SeenShape'
    BY StepFailures, StepVisited DEF SeenShape
  <1> QED
    BY <1>1, StepFd, StepWhere, StepList, StepRead, StepCache DEF Shape

LEMMA AlwaysShape == Spec => []Shape
  BY InitShape, StepShape, PTL DEF Spec
-----------------------------------------------------------------------------
(* The cache holds the blocks used last: as the order `Ordered' says.      *)
(* Whatever mix of opens, reads, stops and changes of disk used it.        *)
THEOREM CacheIsLRUCorrect == Spec => []CacheIsLRU
  <1>1. Shape => CacheIsLRU
    <2> SUFFICES ASSUME Shape
                 PROVE  CacheIsLRU
      OBVIOUS
    <2>1. Lru(cache, n, recent)
      BY DEF Shape, CacheShape
    <2>2. Cardinality(Full(cache)) = Cardinality(Lately(recent))
      BY <2>1, FullCount
    <2>3. {cache[i].block : i \in Full(cache)} = {recent[i] : i \in Lately(recent)}
      BY <2>1 DEF Lru, Holds
    <2> QED
      BY <2>2, <2>3 DEF CacheIsLRU, Full, Lately
  <1> QED
    BY <1>1, AlwaysShape, PTL

(* Data is what was asked for, of a partition that was read from a disk    *)
(* with the id, or a read that failed.                                     *)
SoundBlock(data, block, id, seen, lost) ==
    \/ data = Garbage /\ lost > 0
    \/ \E v \in seen : Disk[v[1]].id = id /\ data = Block(v[1], v[2], block)

LEMMA ReadSound ==
    ASSUME Shape, CacheCoherent, NEW start, NEW block \in Nat, NEW data,
           <<dev, start>> \in visited, visited' = visited, read_bsd_block(start, block, data)
    PROVE  CacheCoherent' /\ SoundBlock(data, block, Disk[dev].id, visited, failures')
  <1> DEFINE kept == Kept(Disk[dev].id)
             hits == {i \in Slots : kept.cache[i].block = block}
             id   == Disk[dev].id
  <1>1. Lru(kept.cache, kept.n, kept.recent) /\ kept.cache \in [Slots -> Slot]
    BY SMTT(30), EmptyLru DEF Kept, Shape, CacheShape, Lru, LruType
  <1>2. cache_id' = id
    BY DEF read_bsd_block
  <1>3. \A i \in Slots : kept.cache[i].block # -1 =>
            SoundBlock(kept.cache[i].data, kept.cache[i].block, id, visited, failures)
    <2>1. CASE cache_id = id
      <3>1. kept.cache = cache
        BY <2>1 DEF Kept
      <3> QED
        BY <2>1, <3>1 DEF CacheCoherent, SoundBlock
    <2>2. CASE cache_id # id
      <3>1. kept.cache = [i \in Slots |-> Unused]
        BY <2>2 DEF Kept, Empty
      <3> QED
        BY <3>1 DEF Unused
    <2> QED
      BY <2>1, <2>2
  <1>4. failures \in Nat
    BY DEF Shape, SeenShape
  <1> HIDE DEF kept
  <1>5. ASSUME NEW i \in Slots, kept.cache[i].block # -1, failures' >= failures, failures' \in Nat
        PROVE  SoundBlock(kept.cache[i].data, kept.cache[i].block, id, visited, failures')
    BY <1>3, <1>4, <1>5 DEF SoundBlock
  <1>6. ASSUME \A i \in Slots : cache'[i].block # -1 =>
                   SoundBlock(cache'[i].data, cache'[i].block, id, visited, failures')
        PROVE  CacheCoherent'
    BY <1>2, <1>6 DEF CacheCoherent, SoundBlock
  <1>7. CASE hits # {}
    <2> DEFINE h == Min(hits)
    <2>1. /\ data = kept.cache[h].data /\ failures' = failures
          /\ cache' = [kept.cache EXCEPT ![h].lru = kept.n + 1]
      BY <1>7 DEF read_bsd_block, kept
    <2>2. h \in hits
      BY <1>7, SlotsFinite, LeastOf
    <2>3. h \in Slots /\ kept.cache[h].block = block
      BY <2>2
    <2> HIDE DEF h, hits
    <2>4. SoundBlock(data, block, id, visited, failures')
      BY <1>3, <2>1, <2>3
    <2>5. \A i \in Slots : cache'[i].block = kept.cache[i].block /\ cache'[i].data = kept.cache[i].data
      BY <1>1, <2>1 DEF Slot
    <2>6. CacheCoherent'
      BY <1>3, <1>6, <2>1, <2>5
    <2> QED
      BY SMTT(30), <2>4, <2>6
  <1>8. CASE hits = {}
    <2> DEFINE h == Victim(kept.cache)
    <2>1. /\ read_disk(Block(dev, start, block), data)
          /\ cache' = [kept.cache EXCEPT ![h] =
                          [block |-> block, lru |-> kept.n + 1, data |-> data]]
      BY <1>8 DEF read_bsd_block, kept
    <2>2. failures' \in Nat /\ failures' >= failures
      BY <1>4, <2>1 DEF read_disk
    <2>3. SoundBlock(data, block, id, visited, failures')
      <3>1. CASE data = Block(dev, start, block)
        <4> DEFINE v == <<dev, start>>
        <4>1. v \in visited /\ v[1] = dev /\ v[2] = start
          OBVIOUS
        <4> HIDE DEF v
        <4> QED
          BY <3>1, <4>1 DEF SoundBlock
      <3>2. CASE data = Garbage /\ failures' = failures + 1
        BY <1>4, <3>2 DEF SoundBlock
      <3> QED
        BY <2>1, <3>1, <3>2 DEF read_disk
    <2> HIDE DEF h, hits
    <2>4. ASSUME NEW i \in Slots, cache'[i].block # -1
          PROVE  SoundBlock(cache'[i].data, cache'[i].block, id, visited, failures')
      <3>1. CASE i = h
        <4>1. cache'[i] = [block |-> block, lru |-> kept.n + 1, data |-> data]
          BY <1>1, <2>1, <3>1
        <4> QED
          BY <2>3, <4>1
      <3>2. CASE i # h
        <4>1. cache'[i] = kept.cache[i]
          BY <1>1, <2>1, <3>2
        <4> QED
          BY <1>5, <2>2, <2>4, <4>1
      <3> QED
        BY <3>1, <3>2
    <2> QED
      BY SMTT(30), <1>6, <2>3, <2>4
  <1> QED
    BY <1>7, <1>8

(* Every cached block is what its number says, of a partition read from    *)
(* the disk with the cache's id, or was left by a read that failed.        *)
LEMMA StepCoherent ==
    ASSUME Shape, CacheCoherent, [Next]_vars
    PROVE  CacheCoherent'
  <1>1. ASSUME UNCHANGED <<cache, cache_id>>
        PROVE  CacheCoherent'
    <2>1. failures' >= failures /\ failures' \in Nat /\ failures \in Nat
      BY StepFailures DEF Shape, SeenShape
    <2>2. visited \subseteq visited'
      BY StepVisited
    <2> QED
      BY <1>1, <2>1, <2>2 DEF CacheCoherent
  <1>2. CASE LoadDir
    <2>1. CASE todo # <<>>
      <3>1. PICK data : read_bsd_block(file.start, todo[1][2], data)
        BY <1>2, <2>1, LoadDirReads
      <3>2. <<dev, file.start>> \in visited /\ visited' = visited /\ todo[1][2] \in Nat
        BY <1>2, <2>1, LoadedIs, LoadDirReads DEF LoadDir, Loaded, bootVars
      <3> QED
        BY <3>1, <3>2, ReadSound
    <2>2. CASE todo = <<>>
      BY <1>1, <1>2, <2>2 DEF LoadDir, cacheVars
    <2> QED
      BY <2>1, <2>2
  <1>3. CASE LoadIndirect
    <2>1. CASE step < Len(file.dinode.ib)
      <3>1. PICK data : read_bsd_block(file.start, file.dinode.ib[step + 1], data)
        BY <1>3, <2>1, LoadIndirectReads
      <3>2. /\ <<dev, file.start>> \in visited /\ visited' = visited
            /\ file.dinode.ib[step + 1] \in Nat
        BY <1>3, <2>1, LoadedIs, LoadIndirectReads DEF LoadIndirect, Loaded, bootVars
      <3> QED
        BY <3>1, <3>2, ReadSound
    <2>2. CASE ~(step < Len(file.dinode.ib))
      BY <1>1, <1>3, <2>2 DEF LoadIndirect, cacheVars
    <2> QED
      BY <2>1, <2>2
  <1>4. CASE ReadFileBlock
    <2> DEFINE address == Address(file, pos \div sb.bsize)
    <2>1. PICK data : read_bsd_block(file.start, address, data)
      BY <1>4, ReadFileReads
    <2>2. <<dev, file.start>> \in visited /\ visited' = visited /\ address \in Nat
      BY <1>4, LoadedIs, ReadFileReads DEF ReadFileBlock, Loaded, bootVars
    <2> HIDE DEF address
    <2> QED
      BY <2>1, <2>2, ReadSound
  <1>5. CASE Open \/ FindPart \/ ReadSuper \/ RootInode \/ ScanDir
    <2>1. UNCHANGED <<cache, cache_id>>
      BY <1>5 DEF Open, FindPart, ReadSuper, RootInode, ScanDir, cacheVars
    <2> QED
      BY <1>1, <2>1
  <1>6. CASE Seek \/ StartRead \/ FinishRead \/ OpenReturns \/ StopInUfs \/ EndBoot
    <2>1. UNCHANGED <<cache, cache_id>>
      BY <1>6 DEF Seek, StartRead, FinishRead, OpenReturns, StopInUfs, EndBoot, cacheVars
    <2> QED
      BY <1>1, <2>1
  <1>7. CASE UNCHANGED vars
    BY <1>1, <1>7 DEF vars
  <1> QED
    BY <1>2, <1>3, <1>4, <1>5, <1>6, <1>7, StepCases

(* No stop, no failure and no change of disk leaves in the cache a block   *)
(* that read_bsd_block would return for another disk's.                    *)
THEOREM CacheCoherentCorrect == Spec => []CacheCoherent
  <1>1. Init => CacheCoherent
    BY DEF Init, CacheCoherent, Empty, Unused
  <1> QED
    BY <1>1, AlwaysShape, StepCoherent, PTL DEF Spec
-----------------------------------------------------------------------------
(* A descriptor in use is the one of the boot that runs, or 0, or has no   *)
(* slot of booter_files; and the boot that runs can close its own.         *)
Released ==
    /\ ~interrupted =>
         \A i \in Fds : fdtable[i].used =>
            \/ i = 0
            \/ Len(slots) = MAX_BOOTER_FILES /\ i \notin ToSet(slots)
            \/ i = fd /\ pc \in {"open", "read"}
    /\ pc \in {"open", "read"} => fd \in ToSet(slots) \/ Len(slots) = MAX_BOOTER_FILES
    /\ ready => kern_fd = fd /\ pc \in {"open", "read"}

LEMMA UsedField ==
    ASSUME NEW t \in [Fds -> Fd], NEW i \in Fds
    PROVE  /\ \A j \in Fds : \A x : [t EXCEPT ![i].start = x][j].used = t[j].used
           /\ \A j \in Fds : \A x : [t EXCEPT ![i].dinode = x][j].used = t[j].used
           /\ \A j \in Fds : \A x : [t EXCEPT ![i].ind = x][j].used = t[j].used
           /\ \A j \in Fds : \A x : [t EXCEPT ![i].pos = x][j].used = t[j].used
           /\ \A j \in Fds \ {i} : \A x :
                 [t EXCEPT ![i].pos = x, ![i].used = TRUE][j].used = t[j].used
           /\ \A j \in Fds \ {i} : [t EXCEPT ![i].used = FALSE][j].used = t[j].used
           /\ ~[t EXCEPT ![i].used = FALSE][i].used
  BY DEF Fd

LEMMA StepReleased ==
    ASSUME Shape, Released, [Next]_vars
    PROVE  Released'
  <1>1. /\ fdtable \in [Fds -> Fd] /\ fd \in Fds /\ slots \in Seq(Fds)
        /\ Len(slots) <= MAX_BOOTER_FILES /\ Len(slots) \in Nat
    BY DEF Shape, FdShape
  <1>2. /\ ~interrupted =>
             \A i \in Fds : fdtable[i].used =>
                \/ i = 0
                \/ Len(slots) = MAX_BOOTER_FILES /\ i \notin ToSet(slots)
                \/ i = fd /\ pc \in {"open", "read"}
        /\ pc \in {"open", "read"} => fd \in ToSet(slots) \/ Len(slots) = MAX_BOOTER_FILES
        /\ ready => kern_fd = fd /\ pc \in {"open", "read"}
    BY DEF Released
  <1> DEFINE NoneNew == \A j \in Fds : fdtable'[j].used => fdtable[j].used
  (* Before the descriptor is ready, or while it stays the one in use.     *)
  <1>3. ASSUME NoneNew, UNCHANGED <<slots, ready>>, interrupted' = interrupted,
               pc \notin {"open", "read"}, pc' \notin {"open", "read"}
        PROVE  Released'
    BY <1>2, <1>3 DEF Released
  <1>4. ASSUME NoneNew, UNCHANGED <<fd, slots, kern_fd, ready, interrupted>>,
               pc \in {"open", "read"}, pc' \in {"open", "read"}
        PROVE  Released'
    BY <1>2, <1>4 DEF Released
  <1>5. ASSUME fdtable' = fdtable
        PROVE  NoneNew
    BY <1>5
  <1>6. CASE Open
    <2>1. PICK i : fdtable' = fdtable \/ fdtable' = [fdtable EXCEPT ![i].used = FALSE]
      BY <1>6 DEF Open, Marked
    <2>2. NoneNew
      <3>1. CASE i \in Fds
        <4>1. /\ ~[fdtable EXCEPT ![i].used = FALSE][i].used
              /\ \A j \in Fds \ {i} : [fdtable EXCEPT ![i].used = FALSE][j].used = fdtable[j].used
          BY <1>1, <3>1, UsedField
        <4>2. CASE fdtable' = [fdtable EXCEPT ![i].used = FALSE]
          <5>1. ~fdtable'[i].used /\ \A j \in Fds \ {i} : fdtable'[j].used = fdtable[j].used
            BY <4>1, <4>2, Zenon
          <5> QED
            BY <5>1
        <4> QED
          BY <2>1, <4>2
      <3>2. CASE i \notin Fds
        BY <1>1, <2>1, <3>2
      <3> QED
        BY <3>1, <3>2
    <2>3. UNCHANGED <<slots, ready, interrupted>> /\ pc = "idle" /\ pc' \in {"idle", "part"}
      BY <1>6 DEF Open, Fail, Proceed, Goto, openVars
    <2> QED
      BY <1>3, <2>2, <2>3
  <1>7. CASE FindPart
    <2>1. \/ Fail /\ fdtable' = fdtable
          \/ Proceed("super") /\ \E x : fdtable' = [fdtable EXCEPT ![fd].start = x]
      BY <1>7, Zenon DEF FindPart
    <2>2. NoneNew
      <3>1. \A j \in Fds : \A x : [fdtable EXCEPT ![fd].start = x][j].used = fdtable[j].used
        BY <1>1, UsedField
      <3> QED
        BY <2>1, <3>1, ZenonT(40)
    <2>3. UNCHANGED <<slots, ready, interrupted>> /\ pc = "part" /\ pc' \in {"idle", "super"}
      BY <1>7, <2>1 DEF FindPart, Fail, Proceed, Goto, openVars
    <2> QED
      BY <1>3, <2>2, <2>3
  <1>8. CASE ReadSuper \/ RootInode
    <2>1. /\ UNCHANGED <<fdtable, slots, ready, interrupted>>
          /\ pc \in {"super", "root"} /\ pc' \in {"idle", "root", "dir"}
      BY <1>8 DEF ReadSuper, RootInode, Fail, Proceed, Goto, openVars
    <2> QED
      BY <1>3, <1>5, <2>1
  <1>9. CASE LoadDir
    <2>1. pc = "dir" /\ UNCHANGED fdtable /\ (UNCHANGED <<pc, openVars>> \/ Proceed("scan"))
      BY <1>9, Zenon DEF LoadDir
    <2>2. UNCHANGED <<slots, ready, interrupted>> /\ pc' \in {"dir", "scan"}
      BY <2>1 DEF Proceed, Goto, openVars
    <2> QED
      BY <1>3, <1>5, <2>1, <2>2
  <1>10. CASE ScanDir
    <2>1. fdtable' = fdtable \/ \E x : fdtable' = [fdtable EXCEPT ![fd].dinode = x]
      BY <1>10, Zenon DEF ScanDir
    <2>2. NoneNew
      <3>1. \A j \in Fds : \A x : [fdtable EXCEPT ![fd].dinode = x][j].used = fdtable[j].used
        BY <1>1, UsedField
      <3> QED
        BY <2>1, <3>1, ZenonT(40)
    <2>3. /\ UNCHANGED <<slots, ready, interrupted>>
          /\ pc = "scan" /\ pc' \in {"idle", "scan", "indirect"}
      BY <1>10 DEF ScanDir, Fail, Proceed, Goto, openVars
    <2> QED
      BY <1>3, <2>2, <2>3
  <1>11. CASE LoadIndirect
    <2>1. pc = "indirect" /\ UNCHANGED <<fd, kern_fd, ready, interrupted>>
      BY <1>11 DEF LoadIndirect
    <2>2. CASE step < Len(file.dinode.ib)
      <3>1. PICK data :
              fdtable' = [fdtable EXCEPT ![fd].ind = SubSeq(fdtable[fd].ind, 1, step) \o <<data>>]
        BY <1>11, <2>2, LoadIndirectReads
      <3> DEFINE ind == SubSeq(fdtable[fd].ind, 1, step) \o <<data>>
      <3>2. fdtable' = [fdtable EXCEPT ![fd].ind = ind]
        BY <3>1
      <3> HIDE DEF ind
      <3>3. NoneNew
        BY <1>1, <3>2, UsedField
      <3>4. UNCHANGED <<pc, slots>>
        BY <1>11, <2>2 DEF LoadIndirect
      <3> QED
        BY <1>3, <2>1, <3>3, <3>4
    <2>3. CASE ~(step < Len(file.dinode.ib))
      <3>1. /\ fdtable' = [fdtable EXCEPT ![fd].pos = 0, ![fd].used = TRUE]
            /\ slots' = IF Len(slots) < MAX_BOOTER_FILES THEN Append(slots, fd) ELSE slots
            /\ pc' = "open"
        BY <1>11, <2>3 DEF LoadIndirect, Goto
      <3>2. \A j \in Fds \ {fd} : fdtable'[j].used = fdtable[j].used
        BY <1>1, <3>1, UsedField
      <3>3. fd \in ToSet(slots') \/ Len(slots') = MAX_BOOTER_FILES
        <4>1. CASE Len(slots) < MAX_BOOTER_FILES
          <5>1. slots' = Append(slots, fd) /\ Len(slots') = Len(slots) + 1
                /\ slots'[Len(slots) + 1] = fd /\ Len(slots) + 1 \in DOMAIN slots'
            BY <1>1, <3>1, <4>1
          <5>2. \E i \in DOMAIN slots' : slots'[i] = fd
            BY <5>1
          <5> QED
            BY <5>2, Zenon DEF ToSet
        <4>2. CASE ~(Len(slots) < MAX_BOOTER_FILES)
          <5>1. slots' = slots
            BY <3>1, <4>2
          <5>2. \A k \in Nat : k <= MAX_BOOTER_FILES /\ ~(k < MAX_BOOTER_FILES) => k = MAX_BOOTER_FILES
            BY DEF MAX_BOOTER_FILES
          <5> QED
            BY <1>1, <4>2, <5>1, <5>2
        <4> QED
          BY <4>1, <4>2
      <3>4. ASSUME ~interrupted, NEW i \in Fds, fdtable'[i].used, i # 0, i # fd
            PROVE  Len(slots') = MAX_BOOTER_FILES /\ i \notin ToSet(slots')
        <4>1. fdtable[i].used
          BY <3>2, <3>4
        <4>2. Len(slots) = MAX_BOOTER_FILES /\ i \notin ToSet(slots)
          BY <1>2, <2>1, <3>4, <4>1
        <4> QED
          BY <1>1, <3>1, <4>2 DEF MAX_BOOTER_FILES
      <3>5. ~ready'
        BY <1>2, <2>1
      <3> QED
        BY <2>1, <3>1, <3>3, <3>4, <3>5 DEF Released
    <2> QED
      BY <2>2, <2>3
  <1>12. CASE OpenReturns
    <2>1. UNCHANGED <<fdtable, fd, slots>> /\ pc = "open" /\ ~ready
      BY <1>12 DEF OpenReturns
    <2>2. CASE kern_fd' = fd /\ ready' = TRUE /\ UNCHANGED <<pc, interrupted>>
      BY <1>2, <2>1, <2>2 DEF Released
    <2>3. CASE pc' = "idle" /\ interrupted' = TRUE /\ UNCHANGED ready
      BY <1>2, <2>1, <2>3 DEF Released
    <2> QED
      BY <1>12, <2>2, <2>3 DEF OpenReturns, Goto
  <1>13. CASE Seek \/ FinishRead
    <2>1. \E x : fdtable' = [fdtable EXCEPT ![fd].pos = x]
      BY <1>13, Zenon DEF Seek, FinishRead
    <2>2. NoneNew
      BY <1>1, <2>1, UsedField
    <2>3. /\ UNCHANGED <<fd, slots, kern_fd, ready, interrupted>>
          /\ pc \in {"open", "read"} /\ pc' \in {"open", "read"}
      BY <1>13 DEF Seek, FinishRead, Proceed, Goto, openVars
    <2> QED
      BY <1>4, <2>2, <2>3
  <1>14. CASE StartRead \/ ReadFileBlock
    <2>1. /\ UNCHANGED <<fdtable, fd, slots, kern_fd, ready, interrupted>>
          /\ pc \in {"open", "read"} /\ pc' \in {"open", "read"}
      BY <1>14 DEF StartRead, ReadFileBlock, Proceed, Goto, openVars
    <2> QED
      BY <1>4, <1>5, <2>1
  <1>15. ASSUME NEW k, fdtable' = Closed(k)
         PROVE  NoneNew /\ (k \in ToSet(slots) => ~fdtable'[k].used)
    <2>1. CASE k \in ToSet(slots)
      <3>1. k \in Fds
        BY <1>1, <2>1 DEF ToSet
      <3>2. fdtable' = [fdtable EXCEPT ![k].used = FALSE]
        BY <1>15, <2>1 DEF Closed
      <3>3. ~fdtable'[k].used /\ \A j \in Fds \ {k} : fdtable'[j].used = fdtable[j].used
        BY <1>1, <3>1, <3>2, UsedField
      <3> QED
        BY <3>3
    <2>2. CASE k \notin ToSet(slots)
      BY <1>15, <2>2 DEF Closed
    <2> QED
      BY <2>1, <2>2
  <1>16. CASE StopInUfs
    <2>1. /\ fdtable' = Closed(kern_fd) /\ UNCHANGED <<fd, slots>> /\ pc' = "idle" /\ ready' = FALSE
          /\ interrupted' = (interrupted \/ (pc \in {"open", "read"} /\ ~ready))
      BY <1>16 DEF StopInUfs, Goto
    <2>2. NoneNew /\ (kern_fd \in ToSet(slots) => ~fdtable'[kern_fd].used)
      BY <1>15, <2>1
    <2>3. ASSUME ~interrupted', NEW i \in Fds, fdtable'[i].used, i # 0
          PROVE  Len(slots) = MAX_BOOTER_FILES /\ i \notin ToSet(slots)
      <3>1. ~interrupted /\ fdtable[i].used
        BY <2>1, <2>2, <2>3
      <3>2. CASE i = fd /\ pc \in {"open", "read"}
        <4>1. kern_fd = fd
          BY <1>2, <2>1, <2>3, <3>2
        <4> QED
          BY <1>2, <2>2, <2>3, <3>2, <4>1
      <3> QED
        BY <1>2, <2>3, <3>1, <3>2
    <2> QED
      BY <2>1, <2>3 DEF Released
  <1>17. CASE EndBoot
    <2>1. /\ pc = "open" /\ ready /\ UNCHANGED <<fd, slots, interrupted>>
          /\ pc' = "idle" /\ ready' = FALSE
          /\ fdtable' = IF kern_fd > 0 THEN Closed(kern_fd) ELSE fdtable
      BY <1>17 DEF EndBoot, Goto
    <2>2. kern_fd = fd /\ fd \in Nat
      BY <1>1, <1>2, <2>1 DEF Fds
    <2>3. NoneNew /\ (fd # 0 /\ fd \in ToSet(slots) => ~fdtable'[fd].used)
      <3>1. CASE kern_fd > 0
        BY <1>15, <2>1, <2>2, <3>1
      <3>2. CASE ~(kern_fd > 0)
        BY <2>1, <2>2, <3>2
      <3> QED
        BY <3>1, <3>2
    <2>4. ASSUME ~interrupted, NEW i \in Fds, fdtable'[i].used, i # 0
          PROVE  Len(slots) = MAX_BOOTER_FILES /\ i \notin ToSet(slots)
      <3>1. fdtable[i].used
        BY <2>3, <2>4
      <3>2. CASE i = fd
        BY <1>2, <2>1, <2>3, <2>4, <3>2
      <3> QED
        BY <1>2, <2>1, <2>4, <3>1, <3>2
    <2> QED
      BY <2>1, <2>4 DEF Released
  <1>18. CASE UNCHANGED vars
    BY <1>2, <1>18 DEF vars, Released
  <1> QED
    BY <1>6, <1>7, <1>8, <1>9, <1>10, <1>11, <1>12, <1>13, <1>14, <1>16, <1>17, <1>18, StepCases

(* Between boots no descriptor is in use but 0, which StopRun takes for    *)
(* none, and those that got no slot of booter_files, unless gzboot_open    *)
(* failed or was stopped.                                                  *)
THEOREM DescriptorReleasedCorrect == Spec => []DescriptorReleased
  <1>1. Init => Released
    BY DEF Init, Released, NoFd, Fds
  <1>2. Shape /\ Released => DescriptorReleased
    <2> SUFFICES ASSUME Shape, Released
                 PROVE  DescriptorReleased
      OBVIOUS
    <2>1. DOMAIN fdtable = Fds
      BY DEF Shape, FdShape
    <2> QED
      BY <2>1 DEF Released, DescriptorReleased
  <1> QED
    BY <1>1, <1>2, AlwaysShape, StepReleased, PTL DEF Spec
-----------------------------------------------------------------------------
(* The way to the file, while no read has failed and no other partition    *)
(* was read: what get_dinode keeps is what was read last, the directory's  *)
(* blocks are the root's, its entries are in them, and the inode is named. *)
BlocksOfRoot(fs) ==
    LET root == fs.inode[ROOTINO]
    IN  ToSet(root.db) \cup UNION {ToSet(fs.block[b].addr) : b \in ToSet(root.ib)}
NamedIn(fs, inode) ==
    \E b \in BlocksOfRoot(fs) : \E ent \in ToSet(fs.block[b].dir) :
        ent.name = FileName /\ ent.ino # 0 /\ inode = fs.inode[ent.ino]
OfRoot(fs, item) ==
    \/ item[1] = "data" /\ item[2] \in BlocksOfRoot(fs)
    \/ item[1] = "ind" /\ item[2] \in ToSet(fs.inode[ROOTINO].ib)
InRoot(fs, ent) ==
    \E b \in BlocksOfRoot(fs) \cap DOMAIN fs.block : ent \in ToSet(fs.block[b].dir)

LastRead == last # -1 => \E v \in visited : dinode = Inodes(v[1], v[2], last)
OnTheWay ==
    /\ pc = "dir" => \A i \in DOMAIN todo : OfRoot(sb, todo[i])
    /\ pc \in {"dir", "scan"} => \A i \in DOMAIN dir : InRoot(sb, dir[i])
    /\ pc \in {"indirect", "open", "read"} => NamedIn(sb, file.dinode)
Traced ==
    failures = 0 =>
        /\ LastRead
        /\ pc \in Loaded /\ visited = {<<dev, file.start>>} => OnTheWay

(* Alone, a block and a sector of inodes are what was asked for.           *)
LEMMA BlockTrue ==
    ASSUME Shape, CacheCoherent, NEW start, NEW block \in Nat, NEW data,
           visited = {<<dev, start>>}, visited' = visited, failures' = 0,
           read_bsd_block(start, block, data)
    PROVE  data = Block(dev, start, block)
  <1>1. <<dev, start>> \in visited
    OBVIOUS
  <1>2. SoundBlock(data, block, Disk[dev].id, visited, failures')
    BY <1>1, ReadSound
  <1>3. PICK v \in visited : data = Block(v[1], v[2], block)
    BY <1>2 DEF SoundBlock
  <1>4. v = <<dev, start>>
    BY <1>3
  <1> QED
    BY <1>3, <1>4

LEMMA InodesTrue ==
    ASSUME failures \in Nat, NEW start, NEW sector \in Nat, NEW data, LastRead, failures' = 0,
           <<dev, start>> \in visited, visited' = visited, get_dinode(start, sector, data)
    PROVE  /\ LastRead'
           /\ visited = {<<dev, start>>} => data = Inodes(dev, start, sector)
  <1>1. CASE last = sector
    <2>1. data = dinode /\ dinode' = dinode /\ last' = last /\ last # -1
      BY <1>1 DEF get_dinode
    <2>2. PICK v \in visited : dinode = Inodes(v[1], v[2], last)
      BY <2>1 DEF LastRead
    <2>3. LastRead'
      BY <2>1, <2>2 DEF LastRead
    <2>4. ASSUME visited = {<<dev, start>>}
          PROVE  data = Inodes(dev, start, sector)
      <3>1. v = <<dev, start>>
        BY <2>2, <2>4
      <3> QED
        BY <1>1, <2>1, <2>2, <3>1
    <2> QED
      BY <2>3, <2>4
  <1>2. CASE last # sector
    <2>1. read_disk(Inodes(dev, start, sector), data) /\ last' = sector /\ dinode' = data
      BY <1>2 DEF get_dinode
    <2>2. data = Inodes(dev, start, sector)
      BY <2>1 DEF read_disk
    <2> DEFINE v == <<dev, start>>
    <2>3. v \in visited' /\ v[1] = dev /\ v[2] = start
      OBVIOUS
    <2> HIDE DEF v
    <2>4. LastRead'
      BY <2>1, <2>2, <2>3 DEF LastRead
    <2> QED
      BY <2>2, <2>4
  <1> QED
    BY <1>1, <1>2

(* The sector that was asked for has the inode in its place.               *)
LEMMA InodeInRight ==
    ASSUME NEW d, NEW s, <<d, s>> \in Systems, NEW inum \in DOMAIN Disk[d].fs[s].inode
    PROVE  InodeIn(Inodes(d, s, SectorOf(Disk[d].fs[s], inum)), inum) = Disk[d].fs[s].inode[inum]
  <1> DEFINE fs   == Disk[d].fs[s]
             k    == SectorOf(fs, inum)
             held == {i \in DOMAIN fs.inode : /\ SectorOf(fs, i) = k
                                              /\ i % InodesPerSector = inum % InodesPerSector}
  <1>1. DOMAIN fs.inode \subseteq Nat /\ fs.itable \in Nat
    BY SystemIs DEF IsFileSystem
  <1>2. ASSUME NEW i \in held
        PROVE  i = inum
    <2>1. i \in Nat /\ inum \in Nat /\ SectorOf(fs, i) = k /\ i % 4 = inum % 4
      BY <1>1 DEF InodesPerSector
    <2>2. fs.itable + i \div 4 = fs.itable + inum \div 4
      BY <2>1 DEF SectorOf, InodesPerSector
    <2> HIDE DEF fs, k, held
    <2>3. i \div 4 = inum \div 4
      BY <1>1, <2>1, <2>2
    <2> QED
      BY <2>1, <2>3
  <1>3. inum \in held
    OBVIOUS
  <1>4. (CHOOSE i \in held : TRUE) = inum
    <2> HIDE DEF held
    <2> QED
      BY <1>2, <1>3
  <1>5. InodeIn(Inodes(d, s, k), inum)
          = IF held = {} THEN NoFile ELSE fs.inode[CHOOSE i \in held : TRUE]
    BY DEF InodeIn, Inodes
  <1> HIDE DEF held, k, fs
  <1>6. InodeIn(Inodes(d, s, k), inum) = fs.inode[inum]
    BY <1>3, <1>4, <1>5
  <1> QED
    BY <1>6 DEF fs, k

LEMMA ContentOf ==
    ASSUME NEW d, NEW s, <<d, s>> \in Systems, NEW k
    PROVE  Content(Block(d, s, k)) = IF k \in DOMAIN Disk[d].fs[s].block
                                     THEN Disk[d].fs[s].block[k] ELSE NoContent
  BY SystemIs DEF Content, Block

(* An element of two sequences one after the other is of one of them.      *)
LEMMA OfEither ==
    ASSUME NEW S, NEW s \in Seq(S), NEW t \in Seq(S), NEW i \in DOMAIN (s \o t)
    PROVE  \/ \E j \in DOMAIN s : (s \o t)[i] = s[j]
           \/ \E j \in DOMAIN t : (s \o t)[i] = t[j]
  <1> DEFINE q == s \o t
             M == Len(s)
             N == Len(t)
  <1>1. /\ M \in Nat /\ N \in Nat /\ DOMAIN s = 1 .. M /\ DOMAIN t = 1 .. N
        /\ DOMAIN q = 1 .. M + N
        /\ \A k \in 1 .. M + N : q[k] = IF k <= M THEN s[k] ELSE t[k - M]
    BY ConcatProperties
  <1>2. i \in DOMAIN q
    OBVIOUS
  <1> HIDE DEF q, M, N
  <1>3. (i <= M /\ i \in DOMAIN s) \/ (~(i <= M) /\ i - M \in DOMAIN t)
    BY <1>1, <1>2
  <1>4. q[i] = IF i <= M THEN s[i] ELSE t[i - M]
    BY <1>1, <1>2
  <1>5. (\E j \in DOMAIN s : q[i] = s[j]) \/ (\E j \in DOMAIN t : q[i] = t[j])
    BY <1>3, <1>4
  <1> QED
    BY <1>5 DEF q

LEMMA RootInodeOnTheWay ==
    ASSUME Shape, LastRead, RootInode, visited = {<<dev, file.start>>}, failures' = 0, sb' = sb
    PROVE  OnTheWay'
  <1> DEFINE sector == SectorOf(sb, ROOTINO)
             root   == sb.inode[ROOTINO]
             first  == Tagged("data", root.db)
             rest   == Tagged("ind", root.ib)
  <1>1. <<dev, file.start>> \in Systems /\ <<dev, file.start>> \in visited /\ IsFileSystem(sb)
    BY LoadedIs DEF RootInode, Loaded
  <1>2. sector \in Nat /\ ROOTINO \in DOMAIN sb.inode
    BY <1>1, SectorType DEF IsFileSystem, ROOTINO
  <1>3. PICK data :
          /\ get_dinode(file.start, sector, data)
          /\ todo' = Tagged("data", InodeIn(data, ROOTINO).db)
                     \o Tagged("ind", InodeIn(data, ROOTINO).ib)
    BY DEF RootInode
  <1>4. visited' = visited /\ pc' = "dir" /\ dir' = <<>>
    BY DEF RootInode, bootVars, Proceed, Goto
  <1>5. data = Inodes(dev, file.start, sector)
    BY <1>1, <1>2, <1>3, <1>4, InodesTrue DEF Shape, SeenShape
  <1>6. InodeIn(data, ROOTINO) = root
    BY <1>1, <1>2, <1>5, InodeInRight DEF sb
  <1>7. root.db \in Addresses /\ root.ib \in Addresses
    BY <1>1, <1>2 DEF IsFileSystem, IsInode, Addresses
  <1>8. todo' = first \o rest
    BY <1>3, <1>6
  <1>9. /\ first \in Seq({"data", "ind"} \X Nat) /\ rest \in Seq({"data", "ind"} \X Nat)
        /\ DOMAIN first = DOMAIN root.db /\ DOMAIN rest = DOMAIN root.ib
        /\ \A i \in DOMAIN root.db : first[i] = <<"data", root.db[i]>>
        /\ \A i \in DOMAIN root.ib : rest[i] = <<"ind", root.ib[i]>>
    BY <1>7, TaggedType DEF Tagged
  <1>10. \A i \in DOMAIN first : OfRoot(sb, first[i])
    BY <1>9 DEF OfRoot, BlocksOfRoot, ToSet
  <1>11. \A i \in DOMAIN rest : OfRoot(sb, rest[i])
    BY <1>9 DEF OfRoot, ToSet
  <1> HIDE DEF first, rest
  <1>12. \A i \in DOMAIN todo' : OfRoot(sb, todo'[i])
    BY SMTT(30), <1>8, <1>9, <1>10, <1>11, OfEither
  <1> QED
    BY <1>4, <1>12 DEF OnTheWay

LEMMA LoadDirOnTheWay ==
    ASSUME Shape, CacheCoherent, OnTheWay, LoadDir, visited = {<<dev, file.start>>},
           failures' = 0, sb' = sb
    PROVE  OnTheWay'
  <1>1. /\ pc = "dir" /\ (\A i \in DOMAIN todo : OfRoot(sb, todo[i]))
        /\ \A i \in DOMAIN dir : InRoot(sb, dir[i])
    BY DEF LoadDir, OnTheWay
  <1>2. CASE todo = <<>>
    <2>1. pc' = "scan" /\ dir' = dir
      BY <1>2 DEF LoadDir, Proceed, Goto, dirVars
    <2> QED
      BY <1>1, <2>1 DEF OnTheWay
  <1>3. CASE todo # <<>>
    <2> DEFINE Pair  == {"data", "ind"} \X Nat
               block == todo[1][2]
               root  == sb.inode[ROOTINO]
    <2>1. todo[1] \in Pair /\ block \in Nat /\ Tail(todo) \in Seq(Pair)
      BY <1>3, LoadDirReads
    <2>2. PICK data \in DataRead :
            /\ read_bsd_block(file.start, block, data)
            /\ IF todo[1][1] = "data"
               THEN todo' = Tail(todo) /\ dir' = dir \o Content(data).dir
               ELSE LET list == Content(data).addr
                    IN  /\ todo' = Tagged("data", list)
                                   \o (IF Len(list) < sb.nindir THEN <<>> ELSE Tail(todo))
                        /\ dir' = dir
      BY <1>3, LoadDirReads
    <2>3. pc' = "dir" /\ visited' = visited
      BY <1>1, <1>3 DEF LoadDir, bootVars
    <2>4. data = Block(dev, file.start, block)
      BY <2>1, <2>2, <2>3, BlockTrue
    <2>5. <<dev, file.start>> \in Systems
      BY <1>1, LoadedIs DEF Loaded
    <2>6. Content(data) = IF block \in DOMAIN sb.block THEN sb.block[block] ELSE NoContent
      BY <2>4, <2>5, ContentOf DEF sb
    <2>7. Content(data).dir \in Seq(DirEntry) /\ Content(data).addr \in Addresses
      BY ContentType
    <2>8. dir \in Seq(DirEntry) /\ todo \in Seq(Pair)
      BY DEF Shape, ListShape
    <2>9. \A i \in DOMAIN Tail(todo) : OfRoot(sb, Tail(todo)[i])
      <3>1. \A i \in DOMAIN Tail(todo) : i + 1 \in DOMAIN todo /\ Tail(todo)[i] = todo[i + 1]
        <4> HIDE DEF Pair
        <4> QED
          BY <1>3, <2>8
      <3> QED
        BY <1>1, <3>1
    <2>10. OfRoot(sb, todo[1])
      <3>1. 1 \in DOMAIN todo
        <4> HIDE DEF Pair
        <4> QED
          BY <1>3, <2>8
      <3> QED
        BY <1>1, <3>1
    <2>11. CASE todo[1][1] = "data"
      <3> DEFINE more == Content(data).dir
      <3>1. todo' = Tail(todo) /\ dir' = dir \o more
        BY <2>2, <2>11
      <3>2. block \in BlocksOfRoot(sb)
        BY <2>10, <2>11 DEF OfRoot
      <3>3. \A i \in DOMAIN more : InRoot(sb, more[i])
        <4>1. CASE block \in DOMAIN sb.block
          <5>1. more = sb.block[block].dir
            BY <2>6, <4>1
          <5>2. \A i \in DOMAIN more : more[i] \in ToSet(sb.block[block].dir)
            BY <5>1 DEF ToSet
          <5> QED
            BY <3>2, <4>1, <5>2 DEF InRoot
        <4>2. CASE block \notin DOMAIN sb.block
          <5>1. more = <<>>
            BY <2>6, <4>2 DEF NoContent
          <5> QED
            BY <5>1
        <4> QED
          BY <4>1, <4>2
      <3> HIDE DEF more
      <3>4. \A i \in DOMAIN dir' : InRoot(sb, dir'[i])
        BY <1>1, <2>7, <2>8, <3>1, <3>3, OfEither DEF more
      <3>5. \A i \in DOMAIN todo' : OfRoot(sb, todo'[i])
        BY <2>9, <3>1
      <3> QED
        BY <2>3, <3>4, <3>5 DEF OnTheWay
    <2>12. CASE todo[1][1] = "ind"
      <3> DEFINE list  == Content(data).addr
                 first == Tagged("data", list)
                 rest  == IF Len(list) < sb.nindir THEN <<>> ELSE Tail(todo)
      <3>1. todo' = first \o rest /\ dir' = dir
        BY <2>2, <2>12
      <3>2. block \in ToSet(root.ib)
        BY <2>10, <2>12 DEF OfRoot
      <3>3. \A i \in DOMAIN list : list[i] \in BlocksOfRoot(sb)
        <4>1. CASE block \in DOMAIN sb.block
          <5>1. list = sb.block[block].addr
            BY <2>6, <4>1
          <5>2. \A i \in DOMAIN list : list[i] \in ToSet(sb.block[block].addr)
            BY <5>1 DEF ToSet
          <5>3. ToSet(sb.block[block].addr) \in {ToSet(sb.block[b].addr) : b \in ToSet(root.ib)}
            BY <3>2
          <5> QED
            BY <5>2, <5>3 DEF BlocksOfRoot
        <4>2. CASE block \notin DOMAIN sb.block
          <5>1. list = <<>>
            BY <2>6, <4>2 DEF NoContent
          <5> QED
            BY <5>1
        <4> QED
          BY <4>1, <4>2
      <3>4. list \in Addresses
        BY <2>7
      <3> HIDE DEF list
      <3>5. first \in Seq(Pair) /\ \A i \in DOMAIN first : OfRoot(sb, first[i])
        <4>1. DOMAIN first = DOMAIN list /\ \A i \in DOMAIN list : first[i] = <<"data", list[i]>>
          BY DEF Tagged
        <4> QED
          BY <3>3, <3>4, <4>1, TaggedType DEF OfRoot
      <3>6. rest \in Seq(Pair) /\ \A i \in DOMAIN rest : OfRoot(sb, rest[i])
        BY <2>1, <2>9
      <3> HIDE DEF first, rest, Pair
      <3>7. \A i \in DOMAIN todo' : OfRoot(sb, todo'[i])
        BY <3>1, <3>5, <3>6, OfEither
      <3> QED
        BY <1>1, <2>3, <3>1, <3>7 DEF OnTheWay
    <2> QED
      BY <2>1, <2>11, <2>12
  <1> QED
    BY <1>2, <1>3

LEMMA ScanDirOnTheWay ==
    ASSUME Shape, LastRead, OnTheWay, ScanDir, visited = {<<dev, file.start>>},
           failures' = 0, sb' = sb
    PROVE  OnTheWay'
  <1>1. pc = "scan" /\ (\A i \in DOMAIN dir : InRoot(sb, dir[i])) /\ dir' = dir /\ fd' = fd
        /\ visited' = visited
    BY DEF ScanDir, OnTheWay, dirVars, bootVars
  <1>2. CASE pc' \in {"scan", "idle"}
    BY <1>1, <1>2 DEF OnTheWay
  <1>3. CASE pc' \notin {"scan", "idle"}
    <2> DEFINE ent    == dir[step + 1]
               sector == SectorOf(sb, ent.ino)
    <2>1. step # Len(dir) /\ InUse(ent)
      BY <1>1, <1>3 DEF ScanDir, Fail, Goto
    <2>2. PICK data :
            /\ get_dinode(file.start, sector, data)
            /\ fdtable' = [fdtable EXCEPT ![fd].dinode = InodeIn(data, ent.ino)]
            /\ ent.name = FileName /\ pc' = "indirect"
      BY <1>1, <1>3, <2>1 DEF ScanDir, Proceed, Goto
    <2>3. step + 1 \in DOMAIN dir /\ ent \in DirEntry
      BY <1>1, <2>1, EntryScanned
    <2>4. PICK b \in BlocksOfRoot(sb) \cap DOMAIN sb.block : ent \in ToSet(sb.block[b].dir)
      BY <1>1, <2>3 DEF InRoot
    <2>5. <<dev, file.start>> \in Systems /\ <<dev, file.start>> \in visited /\ IsFileSystem(sb)
      BY <1>1, LoadedIs DEF Loaded
    <2>6. ent.ino # 0 /\ ent.ino \in DOMAIN sb.inode /\ ent.ino \in Nat
      BY <2>1, <2>3, <2>4, <2>5 DEF IsFileSystem, InUse, DirEntry
    <2>7. sector \in Nat
      BY <2>5, <2>6, SectorType
    <2> HIDE DEF ent
    <2>8. data = Inodes(dev, file.start, sector)
      BY <1>1, <2>2, <2>5, <2>7, InodesTrue DEF Shape, SeenShape
    <2>9. InodeIn(data, ent.ino) = sb.inode[ent.ino]
      BY <2>5, <2>6, <2>8, InodeInRight DEF sb
    <2>10. file'.dinode = sb.inode[ent.ino]
      <3> DEFINE x == InodeIn(data, ent.ino)
      <3>1. fdtable' = [fdtable EXCEPT ![fd].dinode = x] /\ x = sb.inode[ent.ino]
        BY <2>2, <2>9
      <3> HIDE DEF x
      <3>2. fdtable'[fd].dinode = x
        BY <3>1 DEF Shape, FdShape, Fd
      <3> QED
        BY <1>1, <3>1, <3>2 DEF file
    <2>11. NamedIn(sb, file'.dinode)
      BY <2>2, <2>4, <2>6, <2>10 DEF NamedIn
    <2> QED
      BY <2>2, <2>11 DEF OnTheWay
  <1> QED
    BY <1>2, <1>3

LEMMA DinodeField ==
    ASSUME NEW t \in [Fds -> Fd], NEW i \in Fds
    PROVE  /\ \A x : [t EXCEPT ![i].ind = x][i].dinode = t[i].dinode
           /\ \A x : [t EXCEPT ![i].pos = x][i].dinode = t[i].dinode
           /\ \A x : [t EXCEPT ![i].pos = x, ![i].used = TRUE][i].dinode = t[i].dinode
  BY DEF Fd

(* Once the file is found nothing changes its inode.                       *)
LEMMA FoundOnTheWay ==
    ASSUME Shape, OnTheWay, LoadIndirect \/ Seek \/ StartRead \/ ReadFileBlock \/ FinishRead
                            \/ OpenReturns,
           sb' = sb
    PROVE  OnTheWay'
  <1>1. /\ pc \in {"indirect", "open", "read"} /\ pc' \in {"indirect", "open", "read", "idle"}
        /\ fd' = fd
    BY DEF LoadIndirect, Seek, StartRead, ReadFileBlock, FinishRead, OpenReturns, Proceed, Goto
  <1>2. NamedIn(sb, file.dinode) /\ fdtable \in [Fds -> Fd] /\ fd \in Fds
    BY <1>1 DEF OnTheWay, Shape, FdShape
  <1>3. \/ fdtable' = fdtable
        \/ \E x : fdtable' = [fdtable EXCEPT ![fd].ind = x]
        \/ \E x : fdtable' = [fdtable EXCEPT ![fd].pos = x]
        \/ \E x : fdtable' = [fdtable EXCEPT ![fd].pos = x, ![fd].used = TRUE]
    BY Zenon DEF LoadIndirect, Seek, StartRead, ReadFileBlock, FinishRead, OpenReturns
  <1>4. /\ \A x : [fdtable EXCEPT ![fd].ind = x][fd].dinode = fdtable[fd].dinode
        /\ \A x : [fdtable EXCEPT ![fd].pos = x][fd].dinode = fdtable[fd].dinode
        /\ \A x : [fdtable EXCEPT ![fd].pos = x, ![fd].used = TRUE][fd].dinode = fdtable[fd].dinode
    BY <1>2, DinodeField
  <1>5. fdtable'[fd].dinode = fdtable[fd].dinode
    <2>1. ASSUME NEW x, fdtable' = [fdtable EXCEPT ![fd].ind = x]
          PROVE  fdtable'[fd].dinode = fdtable[fd].dinode
      BY <1>4, <2>1
    <2>2. ASSUME NEW x, fdtable' = [fdtable EXCEPT ![fd].pos = x]
          PROVE  fdtable'[fd].dinode = fdtable[fd].dinode
      BY <1>4, <2>2
    <2>3. ASSUME NEW x, fdtable' = [fdtable EXCEPT ![fd].pos = x, ![fd].used = TRUE]
          PROVE  fdtable'[fd].dinode = fdtable[fd].dinode
      BY <1>4, <2>3
    <2> QED
      BY <1>3, <2>1, <2>2, <2>3, Zenon
  <1> QED
    BY <1>1, <1>2, <1>5 DEF OnTheWay, file

LEMMA StepTraced ==
    ASSUME Shape, CacheCoherent, Traced, [Next]_vars
    PROVE  Traced'
  <1> SUFFICES ASSUME failures' = 0
               PROVE  LastRead' /\ (pc' \in Loaded /\ visited' = {<<dev, file.start>>'} => OnTheWay')
    BY DEF Traced
  <1>1. failures \in Nat /\ failures = 0
    BY StepFailures DEF Shape, SeenShape
  <1>2. /\ LastRead
        /\ pc \in Loaded /\ visited = {<<dev, file.start>>} => OnTheWay
    BY <1>1 DEF Traced
  <1>3. LastRead'
    <2>1. CASE UNCHANGED <<last, dinode>>
      BY <1>2, <2>1, StepVisited DEF LastRead
    <2>2. ASSUME pc \in Loaded, visited' = visited,
                 \E sector \in Nat : \E data : get_dinode(file.start, sector, data)
          PROVE  LastRead'
      BY <1>1, <1>2, <2>2, LoadedIs, InodesTrue
    <2>3. CASE RootInode
      <3>1. \E data : get_dinode(file.start, SectorOf(sb, ROOTINO), data)
        BY <2>3 DEF RootInode
      <3>2. pc \in Loaded /\ visited' = visited
        BY <2>3 DEF RootInode, Loaded, bootVars
      <3>3. SectorOf(sb, ROOTINO) \in Nat
        BY <3>2, LoadedIs, SectorType DEF ROOTINO
      <3> QED
        BY <2>2, <3>1, <3>2, <3>3
    <2>4. CASE ScanDir
      <3>1. CASE step = Len(dir) \/ ~InUse(dir[step + 1])
        <4>1. UNCHANGED <<last, dinode>>
          BY <2>4, <3>1 DEF ScanDir, inodeVars
        <4> QED
          BY <2>1, <4>1
      <3>2. CASE step # Len(dir) /\ InUse(dir[step + 1])
        <4> DEFINE sector == SectorOf(sb, dir[step + 1].ino)
        <4>1. \E data : get_dinode(file.start, sector, data)
          BY <2>4, <3>2 DEF ScanDir
        <4>2. pc = "scan" /\ pc \in Loaded /\ visited' = visited
          BY <2>4 DEF ScanDir, Loaded, bootVars
        <4>3. sector \in Nat
          BY SMTT(30), <3>2, <4>2, LoadedIs, EntryScanned, SectorType DEF DirEntry
        <4> HIDE DEF sector
        <4> QED
          BY <2>2, <4>1, <4>2, <4>3
      <3> QED
        BY <3>1, <3>2
    <2>5. CASE Open \/ FindPart \/ ReadSuper \/ LoadDir \/ LoadIndirect \/ Seek \/ StartRead
      <3>1. UNCHANGED <<last, dinode>>
        BY <2>5 DEF Open, FindPart, ReadSuper, LoadDir, LoadIndirect, Seek, StartRead, inodeVars
      <3> QED
        BY <2>1, <3>1
    <2>6. CASE ReadFileBlock \/ FinishRead \/ OpenReturns \/ StopInUfs \/ EndBoot \/ UNCHANGED vars
      <3>1. UNCHANGED <<last, dinode>>
        BY <2>6 DEF ReadFileBlock, FinishRead, OpenReturns, StopInUfs, EndBoot, vars, inodeVars
      <3> QED
        BY <2>1, <3>1
    <2> QED
      BY <2>3, <2>4, <2>5, <2>6, StepCases
  <1>4. ASSUME pc' \in Loaded, visited' = {<<dev, file.start>>'}
        PROVE  OnTheWay'
    <2>1. CASE ReadSuper
      <3>1. pc' \in {"root", "idle"}
        BY <2>1 DEF ReadSuper, Fail, Proceed, Goto
      <3> QED
        BY <3>1 DEF OnTheWay
    <2>2. CASE Open \/ StopInUfs \/ EndBoot
      <3>1. pc' \in {"idle", "part"}
        BY <2>2 DEF Open, StopInUfs, EndBoot, Fail, Proceed, Goto
      <3> QED
        BY <3>1 DEF OnTheWay
    <2>3. CASE FindPart
      <3>1. Fail \/ Proceed("super")
        BY <2>3, Zenon DEF FindPart
      <3> QED
        BY <3>1 DEF Fail, Proceed, Goto, OnTheWay
    <2>4. ASSUME pc \in Loaded, ~ReadSuper
          PROVE  visited = {<<dev, file.start>>} /\ sb' = sb /\ OnTheWay
      <3>1. <<dev, file.start>>' = <<dev, file.start>> /\ visited' = visited
        BY <1>4, <2>4, StepVisited
      <3>2. dev' = dev /\ file'.start = file.start
        BY <3>1
      <3>3. sb' = sb
        BY <3>2 DEF sb
      <3> QED
        BY <1>2, <1>4, <2>4, <3>1, <3>3
    <2>5. CASE RootInode
      <3>1. pc \in Loaded /\ ~ReadSuper
        BY <2>5 DEF RootInode, ReadSuper, Loaded
      <3> QED
        BY <1>2, <2>4, <2>5, <3>1, RootInodeOnTheWay
    <2>6. CASE LoadDir
      <3>1. pc \in Loaded /\ ~ReadSuper
        BY <2>6 DEF LoadDir, ReadSuper, Loaded
      <3> QED
        BY <2>4, <2>6, <3>1, LoadDirOnTheWay
    <2>7. CASE ScanDir
      <3>1. pc \in Loaded /\ ~ReadSuper
        BY <2>7 DEF ScanDir, ReadSuper, Loaded
      <3> QED
        BY <1>2, <2>4, <2>7, <3>1, ScanDirOnTheWay
    <2>8. CASE LoadIndirect \/ Seek \/ StartRead \/ ReadFileBlock \/ FinishRead \/ OpenReturns
      <3>1. pc \in Loaded /\ ~ReadSuper
        BY <2>8 DEF LoadIndirect, Seek, StartRead, ReadFileBlock, FinishRead, OpenReturns,
                    ReadSuper, Loaded
      <3> QED
        BY <2>4, <2>8, <3>1, FoundOnTheWay
    <2>9. CASE UNCHANGED vars
      <3>1. UNCHANGED <<pc, visited, todo, dir, target, fd, fdtable>>
        BY <2>9 DEF vars
      <3>2. UNCHANGED <<file, sb, dev>>
        BY <3>1 DEF file, sb, dev
      <3>3. OnTheWay
        BY <1>2, <1>4, <3>1, <3>2
      <3> QED
        BY <3>1, <3>2, <3>3 DEF OnTheWay
    <2> QED
      BY <2>1, <2>2, <2>3, <2>5, <2>6, <2>7, <2>8, <2>9, StepCases
  <1> QED
    BY <1>3, <1>4

(* As long as no read fails and one partition is read, the file that is    *)
(* open is the one the root directory names: neither the entries of removed *)
(* files nor the inodes and blocks read on the way, nor what an earlier    *)
(* boot left in the cache or in get_dinode's sector, change it.            *)
THEOREM OpenRightCorrect == Spec => []OpenRight
  <1>1. Init => Traced /\ CacheCoherent
    BY DEF Init, Traced, LastRead, Loaded, CacheCoherent, Empty, Unused
  <1>2. Shape /\ Traced => OpenRight
    <2> SUFFICES ASSUME Shape, Traced, pc = "open", failures = 0, Cardinality(visited) = 1
                 PROVE  Named(file.dinode)
      BY DEF OpenRight
    <2>1. <<dev, file.start>> \in visited /\ IsFiniteSet(visited)
      BY DEF Shape, SeenShape, Loaded
    <2>2. visited = {<<dev, file.start>>}
      <3>1. PICK x : visited = {x}
        BY <2>1, FS_Singleton
      <3> QED
        BY <2>1, <3>1
    <2>3. NamedIn(sb, file.dinode)
      BY <2>2 DEF Traced, OnTheWay, Loaded
    <2> QED
      BY <2>3 DEF NamedIn, BlocksOfRoot, Named, RootBlocks
  <1> QED
    BY <1>1, <1>2, AlwaysShape, StepCoherent, StepTraced, PTL DEF Spec
-----------------------------------------------------------------------------
(* What ufs_read has copied, of an inode without holes, while nothing else *)
(* uses the cache: the bytes that end before `pos', each from its block.   *)
WholeIn(fs, inode) ==
    /\ Len(inode.ib) <= 1
    /\ \A p \in 0 .. inode.size - 1 :
         LET block == p \div fs.bsize
         IN  IF block < NDADDR THEN block < Len(inode.db)
             ELSE /\ inode.ib # <<>> /\ inode.ib[1] \in DOMAIN fs.block
                  /\ block - NDADDR < Len(fs.block[inode.ib[1]].addr)
TrueIn(fs, inode, block) ==
    IF block < NDADDR THEN inode.db[block + 1]
    ELSE fs.block[inode.ib[1]].addr[block - NDADDR + 1]
IndRight(d, f) == f.dinode.ib # <<>> => f.ind = <<Block(d, f.start, f.dinode.ib[1])>>
GotIn(fs, d, start, inode, end, bytes) ==
    \A i \in DOMAIN bytes :
        LET p == end - Len(bytes) + i - 1
        IN  /\ p \in 0 .. inode.size - 1
            /\ bytes[i] = <<Block(d, start, TrueIn(fs, inode, p \div fs.bsize)), p % fs.bsize>>
Undisturbed == failures = 0 /\ IdsDiffer /\ WholeIn(sb, file.dinode)
Reading ==
    /\ got \in Seq(DataRead \X Nat)
    /\ pc \in {"part", "super", "root", "dir", "scan", "indirect"} => got = <<>>
    /\ pc = "read" => pos + len <= file.dinode.size
    /\ pc \in {"indirect", "open", "read"} /\ Undisturbed =>
         /\ (pc = "indirect" => step > 0) => IndRight(dev, file)
         /\ GotIn(sb, dev, file.start, file.dinode, pos, got)

LEMMA SameBlock ==
    ASSUME NEW b \in Nat \ {0}, NEW p \in Nat, NEW j \in Nat, (p % b) + j < b
    PROVE  (p + j) \div b = p \div b /\ (p + j) % b = (p % b) + j
  <1> DEFINE q == p \div b
             r == p % b
             s == (p + j) \div b
             t == (p + j) % b
  <1>1. q \in Nat /\ r \in 0 .. b - 1 /\ s \in Nat /\ t \in 0 .. b - 1
    <2>1. p + j \in Nat
      OBVIOUS
    <2>2. q \in Nat /\ r \in 0 .. b - 1
      BY Divided
    <2>3. s \in Nat /\ t \in 0 .. b - 1
      BY <2>1, Divided
    <2> QED
      BY <2>2, <2>3
  <1>2. p = b * q + r /\ p + j = b * s + t
    OBVIOUS
  <1> HIDE DEF q, r, s, t
  <1>3. r + j < b
    BY DEF r
  <1>4. b * q \in Nat /\ b * s \in Nat
    BY <1>1
  <1>5. b * s - b * q = r + j - t
    BY <1>1, <1>2, <1>4
  <1>6. ~(s >= q + 1)
    <2> SUFFICES ASSUME s >= q + 1
                 PROVE  FALSE
      OBVIOUS
    <2>1. b * s >= b * (q + 1) /\ b * (q + 1) = b * q + b
      BY <1>1
    <2> QED
      BY <1>1, <1>3, <1>4, <1>5, <2>1
  <1>7. ~(q >= s + 1)
    <2> SUFFICES ASSUME q >= s + 1
                 PROVE  FALSE
      OBVIOUS
    <2>1. b * q >= b * (s + 1) /\ b * (s + 1) = b * s + b
      BY <1>1
    <2> QED
      BY <1>1, <1>3, <1>4, <1>5, <2>1
  <1>8. s = q
    BY <1>1, <1>6, <1>7
  <1>9. t = r + j
    BY <1>1, <1>4, <1>5, <1>8
  <1> QED
    BY <1>8, <1>9 DEF q, r, s, t

LEMMA AddressRight ==
    ASSUME Shape, pc \in Loaded, WholeIn(sb, file.dinode), IndRight(dev, file),
           NEW p \in 0 .. file.dinode.size - 1
    PROVE  Address(file, p \div sb.bsize) = TrueIn(sb, file.dinode, p \div sb.bsize)
  <1> DEFINE block == p \div sb.bsize
             inode == file.dinode
  <1>1. /\ <<dev, file.start>> \in Systems /\ IsFileSystem(sb) /\ file \in Fd
    BY LoadedIs
  <1>2. /\ inode.size \in Nat /\ inode.db \in Addresses /\ inode.ib \in Addresses
        /\ NDADDR \in Nat /\ IndSpan \in Nat
    BY <1>1, InodeIs, SizesAssumption DEF Fd
  <1>3. block \in Nat
    <2>1. p \in Nat /\ sb.bsize \in Nat \ {0}
      BY <1>1, <1>2 DEF IsFileSystem
    <2> QED
      BY <2>1, Divided
  <1>4. IF block < NDADDR THEN block < Len(inode.db)
        ELSE /\ inode.ib # <<>> /\ inode.ib[1] \in DOMAIN sb.block
             /\ block - NDADDR < Len(sb.block[inode.ib[1]].addr)
    BY DEF WholeIn
  <1>5. CASE block < NDADDR
    <2> HIDE DEF block
    <2>1. Address(file, block) = inode.db[block + 1]
      BY <1>4, <1>5 DEF Address
    <2>2. TrueIn(sb, inode, block) = inode.db[block + 1]
      BY <1>5 DEF TrueIn
    <2> QED
      BY <2>1, <2>2 DEF block
  <1>6. CASE ~(block < NDADDR)
    <2> DEFINE b    == inode.ib[1]
               i    == block - NDADDR
               over == {k \in DOMAIN file.ind : /\ (k - 1) * IndSpan <= i
                                                /\ i < (k - 1) * IndSpan + sb.nindir}
               k    == CHOOSE x \in over : \A y \in over : y <= x
               list == Content(file.ind[k]).addr
               e    == i - (k - 1) * IndSpan
    <2>1. inode.ib # <<>> /\ b \in DOMAIN sb.block /\ i < Len(sb.block[b].addr)
      BY <1>4, <1>6
    <2>2. file.ind = <<Block(dev, file.start, b)>>
      BY SMTT(30), <2>1 DEF IndRight
    <2>3. Content(Block(dev, file.start, b)) = sb.block[b]
      BY <1>1, <2>1, ContentOf DEF sb
    <2>4. sb.nindir \in Nat /\ Len(sb.block[b].addr) <= sb.nindir /\ Len(sb.block[b].addr) \in Nat
      BY SMTT(30), <1>1, <2>1 DEF IsFileSystem
    <2>5. Address(file, block) = IF over # {} /\ e < Len(list) THEN list[e + 1] ELSE 0
      BY <1>6 DEF Address
    <2>6. TrueIn(sb, inode, block) = sb.block[b].addr[i + 1]
      BY <1>6 DEF TrueIn
    <2>7. i \in Nat /\ i < sb.nindir
      <3>1. i \in Nat
        BY <1>2, <1>3, <1>6
      <3> HIDE DEF i
      <3> QED
        BY <2>1, <2>4, <3>1
    <2> HIDE DEF i, b, block
    <2>8. over = {1}
      <3>1. DOMAIN file.ind = {1}
        BY <2>2
      <3>2. (1 - 1) * IndSpan = 0 /\ 0 + sb.nindir = sb.nindir
        BY <1>2, <2>4
      <3>3. 1 \in over
        BY <2>7, <3>1, <3>2
      <3> QED
        BY <3>1, <3>3
    <2> HIDE DEF over
    <2>9. k = 1
      BY <2>8
    <2> HIDE DEF k
    <2>10. e = i
      BY <1>2, <2>7, <2>9
    <2>11. list = sb.block[b].addr
      <3>1. file.ind[k] = Block(dev, file.start, b)
        BY <2>2, <2>9
      <3> QED
        BY <2>3, <3>1
    <2> HIDE DEF list, e
    <2>12. Address(file, block) = TrueIn(sb, inode, block)
      BY <2>1, <2>5, <2>6, <2>8, <2>10, <2>11
    <2> QED
      BY <2>12 DEF block
  <1> QED
    BY <1>5, <1>6

(* A block that read_bsd_block returns, when only this partition has its   *)
(* disk's id.                                                              *)
LEMMA BlockSure ==
    ASSUME Shape, CacheCoherent, pc \in Loaded, NEW block \in Nat, NEW data, IdsDiffer,
           visited' = visited, failures' = 0, read_bsd_block(file.start, block, data)
    PROVE  data = Block(dev, file.start, block)
  <1>1. <<dev, file.start>> \in visited
    BY LoadedIs
  <1>2. SoundBlock(data, block, Disk[dev].id, visited, failures')
    BY <1>1, ReadSound
  <1>3. PICK v \in visited : Disk[v[1]].id = Disk[dev].id /\ data = Block(v[1], v[2], block)
    BY <1>2 DEF SoundBlock
  <1>4. v = <<dev, file.start>>
    BY <1>3 DEF IdsDiffer
  <1> QED
    BY <1>3, <1>4

(* A descriptor that keeps its disk, its partition and its inode.          *)
LEMMA SameFile ==
    ASSUME Shape, [Next]_vars, ~ReadSuper, pc \in Loaded, pc' \in Loaded,
           file'.dinode = file.dinode
    PROVE  /\ dev' = dev /\ file'.start = file.start /\ sb' = sb /\ visited' = visited
           /\ IdsDiffer' = IdsDiffer
           /\ Undisturbed' => Undisturbed
  <1>1. <<dev, file.start>>' = <<dev, file.start>> /\ visited' = visited
    BY StepVisited
  <1>2. dev' = dev /\ file'.start = file.start
    BY <1>1
  <1>3. sb' = sb
    BY <1>2 DEF sb
  <1>4. IdsDiffer' = IdsDiffer
    BY <1>1, <1>2 DEF IdsDiffer
  <1>5. failures' = 0 => failures = 0
    BY StepFailures DEF Shape, SeenShape
  <1> QED
    BY <1>1, <1>2, <1>3, <1>4, <1>5 DEF Undisturbed

LEMMA StartReadReading ==
    ASSUME Shape, CacheCoherent, Reading, [Next]_vars, StartRead
    PROVE  Reading'
  <1>1. /\ pc = "open" /\ pc' = "read" /\ got' = <<>> /\ UNCHANGED <<fdtable, fd>>
        /\ pos' = Clamped(file.pos, file.dinode.size)
        /\ \E want \in Lengths :
             len' = IF pos' + want > file.dinode.size
                    THEN IF file.dinode.size < pos' THEN 0 ELSE file.dinode.size - pos'
                    ELSE want
    BY DEF StartRead, Proceed, Goto
  <1>2. file \in Fd /\ file' = file
    BY <1>1, LoadedIs DEF Loaded, file
  <1>3. file.pos \in Int /\ file.dinode.size \in Nat
    BY <1>2, InodeIs DEF Fd
  <1>4. pos' \in Nat /\ pos' <= file.dinode.size
    BY <1>1, <1>3 DEF Clamped
  <1>5. PICK want \in Nat :
          len' = IF pos' + want > file.dinode.size
                 THEN IF file.dinode.size < pos' THEN 0 ELSE file.dinode.size - pos'
                 ELSE want
    BY <1>1, BoundsAssumption
  <1>6. pos' + len' <= file.dinode.size
    BY <1>3, <1>4, <1>5
  <1>7. Undisturbed' => IndRight(dev, file)'
    <2>1. ~ReadSuper /\ pc \in Loaded /\ pc' \in Loaded
      BY <1>1 DEF ReadSuper, Loaded
    <2>2. dev' = dev /\ (Undisturbed' => Undisturbed)
      BY <1>2, <2>1, SameFile
    <2> QED
      BY <1>1, <1>2, <2>2 DEF Reading, IndRight
  <1>8. GotIn(sb, dev, file.start, file.dinode, pos, got)'
    BY <1>1 DEF GotIn
  <1> QED
    BY <1>1, <1>2, <1>6, <1>7, <1>8 DEF Reading

LEMMA ReadFileReading ==
    ASSUME Shape, CacheCoherent, Reading, [Next]_vars, ReadFileBlock
    PROVE  Reading'
  <1> DEFINE b     == sb.bsize
             size  == file.dinode.size
             addr  == Address(file, pos \div b)
             from  == pos % b
             count == IF b - from < len THEN b - from ELSE len
             M     == Len(got)
  <1>1. pc = "read" /\ pc' = "read" /\ len > 0 /\ UNCHANGED <<fdtable, fd, visited>>
    BY DEF ReadFileBlock, bootVars
  <1>2. PICK data :
          /\ read_bsd_block(file.start, addr, data)
          /\ got' = got \o [i \in 1 .. count |-> <<data, from + i - 1>>]
    BY DEF ReadFileBlock, OffsetInBlock
  <1>3. pos' = pos + count /\ len' = len - count
    BY DEF ReadFileBlock, OffsetInBlock
  <1>4. /\ file \in Fd /\ IsFileSystem(sb) /\ file' = file /\ <<dev, file.start>> \in Systems
        /\ pc \in Loaded /\ pc' \in Loaded /\ ~ReadSuper
    BY <1>1, LoadedIs DEF Loaded, file, ReadSuper
  <1>5. pos \in Nat /\ len \in Nat /\ b \in Nat \ {0} /\ size \in Nat /\ pos + len <= size
    BY <1>1, <1>4, InodeIs DEF IsFileSystem, Fd, Shape, ReadShape, Reading
  <1>6. from \in 0 .. b - 1 /\ pos \div b \in Nat
    BY <1>5, Divided
  <1>7. count \in Nat /\ count <= len /\ from + count <= b
    <2> HIDE DEF from, b
    <2> QED
      BY <1>1, <1>5, <1>6
  <1>8. addr \in Nat
    BY <1>4, <1>6, AddressType
  <1>9. data \in DataRead
    BY <1>2, <1>4, <1>8, ReadBlock DEF Shape, SeenShape
  <1>10. got \in Seq(DataRead \X Nat) /\ M \in Nat
    BY DEF Reading
  <1> HIDE DEF b, size, addr, from, count
  <1> DEFINE piece == [i \in 1 .. count |-> <<data, from + i - 1>>]
  <1>11. piece \in Seq(DataRead \X Nat) /\ Len(piece) = count
         /\ \A j \in 1 .. count : piece[j] = <<data, from + j - 1>>
    <2>1. \A i \in 1 .. count : from + i - 1 \in Nat
      BY <1>6, <1>7
    <2>2. piece \in [1 .. count -> DataRead \X Nat]
      BY <1>9, <2>1
    <2> QED
      BY <1>7, <2>2
  <1>12. got' = got \o piece
    BY <1>2
  <1> HIDE DEF piece
  <1>13. /\ got' \in Seq(DataRead \X Nat) /\ Len(got') = M + count
         /\ \A i \in 1 .. M + count : got'[i] = IF i <= M THEN got[i] ELSE piece[i - M]
    BY <1>10, <1>11, <1>12, ConcatProperties
  <1> HIDE DEF M
  <1>14. pos' + len' <= size
    BY <1>3, <1>5, <1>7
  <1>15. ASSUME Undisturbed'
         PROVE  IndRight(dev, file)' /\ GotIn(sb, dev, file.start, file.dinode, pos, got)'
    <2>1. /\ dev' = dev /\ file'.start = file.start /\ sb' = sb
          /\ Undisturbed /\ failures' = 0
      BY <1>4, <1>15, SameFile DEF Undisturbed
    <2>2. IndRight(dev, file) /\ GotIn(sb, dev, file.start, file.dinode, pos, got)
      BY <1>1, <2>1 DEF Reading
    <2>3. IndRight(dev, file)'
      BY <1>4, <2>1, <2>2
    <2>4. data = Block(dev, file.start, addr)
      BY <1>1, <1>2, <1>4, <1>8, <2>1, BlockSure DEF Undisturbed
    <2>5. ASSUME NEW i \in 1 .. M + count
          PROVE  LET p == pos' - (M + count) + i - 1
                 IN  /\ p \in 0 .. size - 1
                     /\ got'[i] = <<Block(dev, file.start, TrueIn(sb, file.dinode, p \div b)), p % b>>
      <3> DEFINE p == pos' - (M + count) + i - 1
      <3>1. CASE i <= M
        <4>1. p = pos - M + i - 1
          BY <1>3, <1>5, <1>7, <1>10
        <4>2. got'[i] = got[i] /\ i \in DOMAIN got
          BY <1>10, <1>13, <3>1 DEF M
        <4> HIDE DEF p
        <4>3. /\ p \in 0 .. size - 1
              /\ got[i] = <<Block(dev, file.start, TrueIn(sb, file.dinode, p \div b)), p % b>>
          BY <2>2, <4>1, <4>2 DEF GotIn, M, size, b
        <4> QED
          BY <4>2, <4>3 DEF p
      <3>2. CASE ~(i <= M)
        <4> DEFINE j == i - M
        <4>1. j \in 1 .. count /\ got'[i] = piece[j]
          BY <1>7, <1>10, <1>13, <3>2
        <4>2. p = pos + (j - 1) /\ j - 1 \in Nat /\ p \in 0 .. size - 1
          BY SMTT(30), <1>3, <1>5, <1>7, <1>10, <4>1
        <4> HIDE DEF p, j
        <4>3. got'[i] = <<data, from + (j - 1)>>
          <5>1. from + j - 1 = from + (j - 1)
            BY <1>6, <4>1
          <5> QED
            BY <1>11, <4>1, <5>1
        <4>4. from + (j - 1) < b
          BY <1>5, <1>6, <1>7, <4>1
        <4>5. p \div b = pos \div b /\ p % b = from + (j - 1)
          BY <1>5, <4>2, <4>4, SameBlock DEF from
        <4>6. addr = TrueIn(sb, file.dinode, p \div b)
          <5>1. pos \in 0 .. size - 1
            BY <1>1, <1>5
          <5> QED
            BY <1>4, <2>1, <2>2, <4>5, <5>1, AddressRight DEF Undisturbed, addr, b, size
        <4>7. /\ p \in 0 .. size - 1
              /\ got'[i] = <<Block(dev, file.start, TrueIn(sb, file.dinode, p \div b)), p % b>>
          BY <2>4, <4>2, <4>3, <4>5, <4>6
        <4> QED
          BY <4>7 DEF p
      <3> QED
        BY <3>1, <3>2
    <2>6. GotIn(sb, dev, file.start, file.dinode, pos', got')
      <3>1. DOMAIN got' = 1 .. M + count /\ Len(got') = M + count
        BY <1>13
      <3> QED
        BY <2>5, <3>1 DEF GotIn, size, b
    <2>7. GotIn(sb, dev, file.start, file.dinode, pos, got)'
      BY <1>4, <2>1, <2>6
    <2> QED
      BY <2>3, <2>7
  <1> QED
    BY <1>1, <1>4, <1>13, <1>14, <1>15 DEF Reading, size

LEMMA IndField ==
    ASSUME NEW t \in [Fds -> Fd], NEW i \in Fds
    PROVE  /\ \A x : [t EXCEPT ![i].pos = x][i].ind = t[i].ind
           /\ \A x : [t EXCEPT ![i].pos = x, ![i].used = TRUE][i].ind = t[i].ind
  BY DEF Fd

LEMMA OneAddress ==
    ASSUME NEW a \in Addresses, a # <<>>, Len(a) <= 1
    PROVE  Len(a) = 1 /\ a[1] \in Nat
  <1>1. a \in Seq(Nat \ {0})
    BY DEF Addresses
  <1>2. Len(a) \in Nat /\ Len(a) # 0 /\ \A i \in 1 .. Len(a) : a[i] \in Nat \ {0}
    BY <1>1, EmptySeq, LenProperties, ElementOfSeq
  <1> DEFINE N == Len(a)
  <1> HIDE DEF N
  <1>3. N = 1
    BY <1>2 DEF N
  <1> QED
    BY <1>2, <1>3 DEF N

LEMMA FirstBlock ==
    ASSUME NEW s \in Seq(DataRead), NEW data \in DataRead
    PROVE  SubSeq(s, 1, 0) \o <<data>> = <<data>>
  <1>1. SubSeq(s, 1, 0) = <<>>
    <2>1. SubSeq(s, 1, 0) \in Seq(DataRead) /\ Len(SubSeq(s, 1, 0)) = 0
      BY SubSeqProperties
    <2> QED
      BY <2>1, EmptySeq
  <1>2. <<data>> \in Seq(DataRead)
    OBVIOUS
  <1> QED
    BY <1>1, <1>2, ConcatEmptySeq

(* A step that copies nothing, and leaves no file or the one there was.    *)
LEMMA NothingReading ==
    ASSUME got' = <<>>, pc' # "read", pc' # "open", pc' = "indirect" => step' = 0
    PROVE  Reading'
  <1>1. got' \in Seq(DataRead \X Nat)
    OBVIOUS
  <1>2. GotIn(sb, dev, file.start, file.dinode, pos, got)'
    BY DEF GotIn
  <1> QED
    BY <1>1, <1>2 DEF Reading

LEMMA LoadIndirectReading ==
    ASSUME Shape, CacheCoherent, Reading, [Next]_vars, LoadIndirect
    PROVE  Reading'
  <1> DEFINE ib == file.dinode.ib
  <1>1. /\ pc = "indirect" /\ pc' \in {"indirect", "open"} /\ fd' = fd /\ got = <<>> /\ got' = <<>>
        /\ pc \in Loaded /\ pc' \in Loaded /\ ~ReadSuper
    BY DEF LoadIndirect, Goto, readVars, Reading, Loaded, ReadSuper
  <1>2. /\ fdtable \in [Fds -> Fd] /\ fd \in Fds /\ file \in Fd /\ step \in Nat
        /\ ib \in Addresses
    BY <1>1, LoadedIs, InodeIs DEF Shape, FdShape, WhereShape, Fd
  <1>3. file'.dinode = file.dinode
    <2>1. \/ \E x : fdtable' = [fdtable EXCEPT ![fd].ind = x]
          \/ \E x : fdtable' = [fdtable EXCEPT ![fd].pos = x, ![fd].used = TRUE]
      BY Zenon DEF LoadIndirect
    <2>2. /\ \A x : [fdtable EXCEPT ![fd].ind = x][fd].dinode = fdtable[fd].dinode
          /\ \A x : [fdtable EXCEPT ![fd].pos = x, ![fd].used = TRUE][fd].dinode = fdtable[fd].dinode
      BY <1>2, DinodeField
    <2>3. fdtable'[fd].dinode = fdtable[fd].dinode
      BY <2>1, <2>2, Zenon
    <2> QED
      BY <1>1, <2>3 DEF file
  <1>4. /\ dev' = dev /\ file'.start = file.start /\ visited' = visited
        /\ Undisturbed' => Undisturbed
    BY <1>1, <1>3, SameFile
  <1>5. ASSUME Undisturbed', pc' = "indirect" => step' > 0
        PROVE  IndRight(dev, file)'
    <2> SUFFICES ASSUME ib # <<>>
                 PROVE  fdtable'[fd].ind = <<Block(dev, file.start, ib[1])>>
      BY <1>1, <1>3, <1>4 DEF IndRight, file
    <2>1. Undisturbed /\ failures' = 0
      BY <1>4, <1>5 DEF Undisturbed
    <2>2. Len(ib) = 1 /\ ib[1] \in Nat
      <3>1. Len(ib) <= 1
        BY <2>1 DEF Undisturbed, WholeIn
      <3> QED
        BY <1>2, <3>1, OneAddress
    <2>3. CASE step < Len(ib)
      <3>1. step = 0
        BY <1>2, <2>2, <2>3
      <3>2. PICK data :
              /\ read_bsd_block(file.start, ib[step + 1], data)
              /\ fdtable' = [fdtable EXCEPT ![fd].ind = SubSeq(@, 1, step) \o <<data>>]
        BY <2>3 DEF LoadIndirect
      <3>3. read_bsd_block(file.start, ib[1], data)
        BY <3>1, <3>2
      <3>4. data = Block(dev, file.start, ib[1])
        BY <1>1, <1>4, <2>1, <2>2, <3>3, BlockSure DEF Undisturbed
      <3>5. SubSeq(fdtable[fd].ind, 1, 0) \o <<data>> = <<data>>
        <4>1. data \in DataRead
          BY <1>1, <2>2, <3>4, LoadedIs, WantedIsData
        <4>2. fdtable[fd].ind \in Seq(DataRead)
          BY <1>2 DEF Fd
        <4> QED
          BY <4>1, <4>2, FirstBlock
      <3>6. \A x : [fdtable EXCEPT ![fd].ind = x][fd].ind = x
        BY <1>2, FdField
      <3>7. fdtable'[fd].ind = <<data>>
        <4>1. fdtable' = [fdtable EXCEPT ![fd].ind = SubSeq(fdtable[fd].ind, 1, step) \o <<data>>]
          BY <3>2
        <4>2. fdtable'[fd].ind = SubSeq(fdtable[fd].ind, 1, step) \o <<data>>
          BY <3>6, <4>1, Zenon
        <4> QED
          BY <3>1, <3>5, <4>2
      <3> QED
        BY <3>4, <3>7
    <2>4. CASE ~(step < Len(ib))
      <3>1. step > 0
        BY <1>2, <2>2, <2>4
      <3>2. fdtable' = [fdtable EXCEPT ![fd].pos = 0, ![fd].used = TRUE]
        BY <2>4 DEF LoadIndirect
      <3>3. fdtable'[fd].ind = fdtable[fd].ind
        BY <1>2, <3>2, IndField
      <3> QED
        BY <1>1, <2>1, <3>1, <3>3 DEF Reading, IndRight, file
    <2> QED
      BY <2>3, <2>4
  <1>6. GotIn(sb, dev, file.start, file.dinode, pos, got)'
    BY <1>1 DEF GotIn
  <1>7. got' \in Seq(DataRead \X Nat)
    BY <1>1
  <1> QED
    BY <1>1, <1>5, <1>6, <1>7 DEF Reading

(* Seek, FinishRead and OpenReturns change no more of the descriptor than  *)
(* its position.                                                           *)
LEMMA PositionReading ==
    ASSUME Shape, Reading, [Next]_vars, Seek \/ FinishRead \/ OpenReturns
    PROVE  Reading'
  <1>1. /\ pc \in {"open", "read"} /\ pc' \in {"open", "idle"} /\ fd' = fd
        /\ got' = <<>> \/ (got' = got /\ pos' = pos)
        /\ pc \in Loaded /\ ~ReadSuper
    BY DEF Seek, FinishRead, OpenReturns, Proceed, Goto, readVars, Loaded, ReadSuper
  <1>2. fdtable \in [Fds -> Fd] /\ fd \in Fds
    BY DEF Shape, FdShape
  <1>3. file'.dinode = file.dinode /\ file'.ind = file.ind
    <2>1. \/ fdtable' = fdtable
          \/ \E x : fdtable' = [fdtable EXCEPT ![fd].pos = x]
      BY Zenon DEF Seek, FinishRead, OpenReturns
    <2>2. /\ \A x : [fdtable EXCEPT ![fd].pos = x][fd].dinode = fdtable[fd].dinode
          /\ \A x : [fdtable EXCEPT ![fd].pos = x][fd].ind = fdtable[fd].ind
      BY <1>2, DinodeField, IndField
    <2>3. fdtable'[fd].dinode = fdtable[fd].dinode /\ fdtable'[fd].ind = fdtable[fd].ind
      BY <2>1, <2>2, Zenon
    <2> QED
      BY <1>1, <2>3 DEF file
  <1>4. got' \in Seq(DataRead \X Nat)
    <2>1. <<>> \in Seq(DataRead \X Nat) /\ got \in Seq(DataRead \X Nat)
      BY DEF Reading
    <2> QED
      BY <1>1, <2>1
  <1>5. ASSUME pc' = "open", Undisturbed'
        PROVE  IndRight(dev, file)' /\ GotIn(sb, dev, file.start, file.dinode, pos, got)'
    <2>1. /\ dev' = dev /\ file'.start = file.start /\ sb' = sb
          /\ Undisturbed
      BY <1>1, <1>3, <1>5, SameFile DEF Loaded
    <2>2. IndRight(dev, file) /\ GotIn(sb, dev, file.start, file.dinode, pos, got)
      BY <1>1, <2>1 DEF Reading
    <2>3. GotIn(sb, dev, file.start, file.dinode, pos, got)'
      BY <1>1, <1>3, <2>1, <2>2 DEF GotIn
    <2> QED
      BY <1>3, <2>1, <2>2, <2>3 DEF IndRight
  <1> QED
    BY <1>1, <1>4, <1>5 DEF Reading

LEMMA StepReading ==
    ASSUME Shape, CacheCoherent, Reading, [Next]_vars
    PROVE  Reading'
  <1>1. CASE Open
    <2>1. got' = <<>> /\ pc' \in {"part", "idle"}
      BY <1>1, Zenon DEF Open, Fail, Proceed, Goto
    <2> QED
      BY <2>1, NothingReading
  <1>2. CASE StopInUfs \/ EndBoot
    <2>1. got' = <<>> /\ pc' = "idle"
      BY <1>2 DEF StopInUfs, EndBoot, Goto, Locals
    <2> QED
      BY <2>1, NothingReading
  <1>3. CASE FindPart \/ ReadSuper \/ RootInode
    <2>1. /\ pc \in {"part", "super", "root"} /\ pc' \in {"super", "root", "dir", "idle"}
          /\ got' = got
      <3>1. CASE FindPart
        <4>1. Fail \/ Proceed("super")
          BY <3>1, Zenon DEF FindPart
        <4> QED
          BY <3>1, <4>1 DEF FindPart, Fail, Proceed, Goto, readVars
      <3>2. CASE ReadSuper
        BY <3>2 DEF ReadSuper, Fail, Proceed, Goto, readVars
      <3>3. CASE RootInode
        BY <3>3 DEF RootInode, Proceed, Goto, readVars
      <3> QED
        BY <1>3, <3>1, <3>2, <3>3
    <2>2. got' = <<>>
      BY <2>1 DEF Reading
    <2> QED
      BY <2>1, <2>2, NothingReading
  <1>4. CASE LoadDir
    <2>1. pc = "dir" /\ pc' \in {"dir", "scan"} /\ got' = got
      <3>1. pc' = pc \/ Proceed("scan")
        BY <1>4, Zenon DEF LoadDir
      <3> QED
        BY <1>4, <3>1 DEF LoadDir, Proceed, Goto, readVars
    <2>2. got' = <<>>
      BY <2>1 DEF Reading
    <2> QED
      BY <2>1, <2>2, NothingReading
  <1>5. CASE ScanDir
    <2>1. pc = "scan" /\ got' = got
      BY <1>5 DEF ScanDir, readVars
    <2>2. pc' = pc \/ Fail \/ Proceed("indirect")
      BY <1>5, Zenon DEF ScanDir
    <2>3. pc' \in {"scan", "idle", "indirect"} /\ (pc' = "indirect" => step' = 0)
      BY <2>1, <2>2 DEF Fail, Proceed, Goto
    <2>4. got' = <<>>
      BY <2>1 DEF Reading
    <2> QED
      BY <2>3, <2>4, NothingReading
  <1>6. CASE UNCHANGED vars
    <2>1. UNCHANGED <<pc, visited, step, target, fd, fdtable, pos, len, got, failures>>
      BY <1>6 DEF vars
    <2>2. UNCHANGED <<file, sb, dev>>
      BY <2>1 DEF file, sb, dev
    <2> QED
      BY <2>1, <2>2 DEF Reading, Undisturbed, IdsDiffer
  <1> QED
    BY <1>1, <1>2, <1>3, <1>4, <1>5, <1>6, StepCases, LoadIndirectReading, PositionReading,
       StartReadReading, ReadFileReading

(* As long as no read fails and no other partition that was read is on a   *)
(* disk with the same id, each byte that ufs_read copies is the one of the *)
(* file at the position that lseek and the reads before left: whatever the *)
(* lengths read, through the cache and over the change from the inode's    *)
(* own addresses to those of the indirect block.                           *)
THEOREM ReadRightCorrect == Spec => []ReadRight
  <1>1. Init => Reading /\ CacheCoherent
    BY SMTT(30) DEF Init, Reading, CacheCoherent, Empty, Unused
  <1>2. Reading => ReadRight
    <2> SUFFICES ASSUME Reading, pc \in {"open", "read"}, failures = 0, IdsDiffer,
                        Whole(file.dinode)
                 PROVE  \A i \in DOMAIN got :
                          LET p == pos - Len(got) + i - 1
                          IN  /\ p \in 0 .. file.dinode.size - 1
                              /\ got[i] = <<Block(dev, file.start,
                                                  TrueAddress(file.dinode, p \div sb.bsize)),
                                            p % sb.bsize>>
      BY DEF ReadRight
    <2>1. Undisturbed
      BY DEF Undisturbed, Whole, WholeIn
    <2>2. GotIn(sb, dev, file.start, file.dinode, pos, got)
      BY <2>1 DEF Reading
    <2> QED
      BY <2>2 DEF GotIn, TrueIn, TrueAddress
  <1> QED
    BY <1>1, <1>2, AlwaysShape, StepCoherent, StepReading, PTL DEF Spec
-----------------------------------------------------------------------------
Scan == [part : Int, rootnamed : Int, nonswap : Int, over : BOOLEAN]
Count(map) == IF Len(map) < LastPart THEN Len(map) ELSE LastPart

LEMMA LookType ==
    ASSUME NEW scan \in Scan, NEW ent, NEW name, NEW partnum \in Int
    PROVE  Look(ent, name, scan, partnum) \in Scan
  BY DEF Scan, Look, First

LEMMA ScanIs ==
    ASSUME NEW map \in Seq(Entry), NEW name
    PROVE  \E scan :
             /\ scan[0] = Scanning
             /\ \A k \in 1 .. Count(map) : scan[k] = Look(map[k], name, scan[k - 1], k - 1)
             /\ LET result == scan[Count(map)]
                IN  locate_partition(map, name) =
                      IF result.part # NotFound THEN result.part
                      ELSE IF result.rootnamed # NotFound THEN result.rootnamed ELSE result.nonswap
  <1> DEFINE count == IF Len(map) < LastPart THEN Len(map) ELSE LastPart
             next == [k \in 1 .. count |-> [s \in Scan |-> Look(map[k], name, s, k - 1)]]
  <1>1. count \in Nat /\ Scanning \in Scan
    BY DEF LastPart, Scanning, Scan, NotFound
  <1>2. \E g \in [0 .. count -> Scan] : Solves(g, count, Scanning, next)
    <2> HIDE DEF count
    <2>1. next \in [1 .. count -> [Scan -> Scan]]
      BY LookType
    <2> HIDE DEF next
    <2> QED
      BY <1>1, <2>1, Recursion
  <1>3. PICK g \in [0 .. count -> Scan] :
           g[0] = Scanning /\ \A k \in 1 .. count : g[k] = next[k][g[k - 1]]
    BY <1>2 DEF Solves
  <1>4. g = [k \in 0 .. count |-> IF k = 0 THEN Scanning ELSE Look(map[k], name, g[k - 1], k - 1)]
    <2> HIDE DEF count
    <2>1. \A k \in 1 .. count : g[k] = Look(map[k], name, g[k - 1], k - 1)
      BY <1>1, <1>3
    <2> QED
      BY <1>1, <1>3, <2>1
  <1> DEFINE scan[k \in 0 .. count] ==
                 IF k = 0 THEN Scanning ELSE Look(map[k], name, scan[k - 1], k - 1)
  <1>5. scan = [k \in 0 .. count |->
                   IF k = 0 THEN Scanning ELSE Look(map[k], name, scan[k - 1], k - 1)]
    BY <1>4, Zenon
  <1>6. LET result == scan[count]
        IN  locate_partition(map, name) =
              IF result.part # NotFound THEN result.part
              ELSE IF result.rootnamed # NotFound THEN result.rootnamed ELSE result.nonswap
    BY DEF locate_partition
  <1>7. count = Count(map)
    BY DEF Count
  <1> HIDE DEF scan, count
  <1>8. scan[0] = Scanning /\ \A k \in 1 .. count : scan[k] = Look(map[k], name, scan[k - 1], k - 1)
    BY <1>1, <1>5
  <1> QED
    BY <1>6, <1>7, <1>8
-----------------------------------------------------------------------------
(* The entries among the first k that the scan reaches, and those that     *)
(* each rule is about.                                                     *)
Reached(map, k) == {i \in 1 .. k : \A j \in 1 .. i : map[j].valid}
Wanted(map, name, k) == {i \in Reached(map, k) : map[i].rootfs \/ map[i].name = name}
RootNamed(map, k) == {i \in Reached(map, k) : map[i].unix /\ map[i].name \in RootNames}
NonSwap(map, k) == {i \in Reached(map, k) : map[i].unix /\ map[i].name \notin SwapNames}
Least(part, S) ==
    IF part = NotFound THEN S = {} ELSE part + 1 \in S /\ \A i \in S : part + 1 <= i

Scanned(map, name, k, scan) ==
    /\ scan \in Scan
    /\ Least(scan.part, Wanted(map, name, k))
    /\ scan.part = NotFound => Least(scan.rootnamed, RootNamed(map, k))
    /\ scan.part = NotFound => Least(scan.nonswap, NonSwap(map, k))
    /\ scan.over => scan.part # NotFound \/ \E j \in 1 .. k : ~map[j].valid
    /\ scan.part # NotFound => scan.over
    /\ (\E j \in 1 .. k : ~map[j].valid) => scan.over

LEMMA FirstLeast ==
    ASSUME NEW k \in Nat \ {0}, NEW S \in SUBSET (1 .. k - 1), NEW part \in Int, Least(part, S),
           NEW condition \in BOOLEAN
    PROVE  Least(First(k - 1, condition, part), S \cup (IF condition THEN {k} ELSE {}))
  <1>1. CASE condition
    <2>1. CASE part = NotFound
      BY <1>1, <2>1 DEF Least, First, NotFound
    <2>2. CASE part # NotFound
      BY <1>1, <2>2 DEF Least, First, NotFound
    <2> QED
      BY <2>1, <2>2
  <1>2. CASE ~condition
    BY <1>2 DEF Least, First
  <1> QED
    BY <1>1, <1>2

LEMMA LookScanned ==
    ASSUME NEW map \in Seq(Entry), NEW name, NEW k \in 1 .. Len(map), NEW scan,
           Scanned(map, name, k - 1, scan)
    PROVE  Scanned(map, name, k, Look(map[k], name, scan, k - 1))
  <1> DEFINE ent == map[k]
             t == Look(map[k], name, scan, k - 1)
  <1> SUFFICES Scanned(map, name, k, t)
    OBVIOUS
  <1>1. k \in Nat \ {0} /\ k - 1 \in Nat /\ scan \in Scan /\ t \in Scan
    BY LookType DEF Scanned
  <1>2. Reached(map, k - 1) \in SUBSET (1 .. k - 1)
    BY DEF Reached
  <1>3. Reached(map, k) =
          IF \A j \in 1 .. k : map[j].valid THEN Reached(map, k - 1) \cup {k} ELSE Reached(map, k - 1)
    BY <1>1 DEF Reached
  <1>4. CASE scan.over
    <2>1. t = scan
      BY <1>4 DEF Look
    <2>2. CASE scan.part # NotFound
      <3>1. Least(scan.part, Wanted(map, name, k - 1))
        BY DEF Scanned
      <3>2. scan.part + 1 <= k
        BY <1>2, <2>2, <3>1 DEF Least, Wanted
      <3>3. Wanted(map, name, k) \subseteq Wanted(map, name, k - 1) \cup {k}
        BY <1>3 DEF Wanted
      <3>4. Wanted(map, name, k - 1) \subseteq Wanted(map, name, k)
        BY <1>3 DEF Wanted
      <3>5. Least(scan.part, Wanted(map, name, k))
        BY <2>2, <3>1, <3>2, <3>3, <3>4 DEF Least
      <3> QED
        BY <1>1, <1>4, <2>1, <2>2, <3>5 DEF Scanned
    <2>3. CASE scan.part = NotFound
      <3>1. PICK j \in 1 .. k - 1 : ~map[j].valid
        BY <1>4, <2>3 DEF Scanned
      <3>2. j \in 1 .. k /\ Reached(map, k) = Reached(map, k - 1)
        BY <1>1, <1>3, <3>1
      <3>3. /\ Wanted(map, name, k) = Wanted(map, name, k - 1)
            /\ RootNamed(map, k) = RootNamed(map, k - 1) /\ NonSwap(map, k) = NonSwap(map, k - 1)
        BY <3>2 DEF Wanted, RootNamed, NonSwap
      <3>4. \E i \in 1 .. k : ~map[i].valid
        BY <3>1, <3>2
      <3> QED
        BY <1>1, <1>4, <2>1, <2>3, <3>3, <3>4 DEF Scanned
    <2> QED
      BY <2>2, <2>3
  <1>5. CASE ~scan.over
    <2>1. /\ scan.part = NotFound /\ \A j \in 1 .. k - 1 : map[j].valid
          /\ Wanted(map, name, k - 1) = {}
      BY <1>5 DEF Scanned, Least
    <2>2. Least(scan.rootnamed, RootNamed(map, k - 1)) /\ Least(scan.nonswap, NonSwap(map, k - 1))
      BY <2>1 DEF Scanned
    <2>3. CASE ~ent.valid
      <3>1. Reached(map, k) = Reached(map, k - 1)
        BY <1>1, <1>3, <2>3
      <3>2. /\ Wanted(map, name, k) = {}
            /\ RootNamed(map, k) = RootNamed(map, k - 1) /\ NonSwap(map, k) = NonSwap(map, k - 1)
        BY <2>1, <3>1 DEF Wanted, RootNamed, NonSwap
      <3>3. t = [scan EXCEPT !.over = TRUE]
        BY <1>5, <2>3 DEF Look
      <3>4. /\ t.over /\ t.part = NotFound
            /\ t.rootnamed = scan.rootnamed /\ t.nonswap = scan.nonswap
        BY <1>1, <2>1, <3>3 DEF Scan
      <3>5. \E j \in 1 .. k : ~map[j].valid
        BY <1>1, <2>3
      <3>6. Least(t.part, Wanted(map, name, k))
        BY <3>2, <3>4 DEF Least
      <3>7. Least(t.rootnamed, RootNamed(map, k)) /\ Least(t.nonswap, NonSwap(map, k))
        BY <2>2, <3>2, <3>4
      <3> HIDE DEF t
      <3> QED
        BY <1>1, <3>4, <3>5, <3>6, <3>7 DEF Scanned
    <2>4. CASE ent.valid
      <3>1. \A j \in 1 .. k : map[j].valid
        BY <1>1, <2>1, <2>4
      <3>2. Reached(map, k) = Reached(map, k - 1) \cup {k}
        BY <1>3, <3>1
      <3>3. CASE ent.rootfs \/ ent.name = name
        <4>1. t = [scan EXCEPT !.over = TRUE, !.part = k - 1]
          BY <1>5, <2>4, <3>3 DEF Look
        <4>2. t.over /\ t.part = k - 1
          BY <1>1, <4>1 DEF Scan
        <4>5. t.part # NotFound
          BY <1>1, <4>2 DEF NotFound
        <4>3. Wanted(map, name, k) = {k}
          BY <2>1, <3>2, <3>3 DEF Wanted
        <4> HIDE DEF t
        <4>4. Least(t.part, Wanted(map, name, k))
          BY <1>1, <4>2, <4>3, <4>5 DEF Least
        <4> QED
          BY <1>1, <4>2, <4>4, <4>5 DEF Scanned
      <3>4. CASE ~(ent.rootfs \/ ent.name = name)
        <4> DEFINE root == ent.unix /\ ent.name \in RootNames
                   nonswap == ent.unix /\ ent.name \notin SwapNames
        <4>1. t = [scan EXCEPT !.rootnamed = First(k - 1, root, @),
                               !.nonswap   = First(k - 1, nonswap, @)]
          BY <1>5, <2>4, <3>4 DEF Look
        <4>2. /\ t.over = scan.over /\ t.part = NotFound
              /\ t.rootnamed = First(k - 1, root, scan.rootnamed)
              /\ t.nonswap = First(k - 1, nonswap, scan.nonswap)
          BY <1>1, <2>1, <4>1 DEF Scan
        <4>3. Wanted(map, name, k) = {}
          BY <2>1, <3>2, <3>4 DEF Wanted
        <4>4. /\ RootNamed(map, k) = RootNamed(map, k - 1) \cup (IF root THEN {k} ELSE {})
              /\ NonSwap(map, k) = NonSwap(map, k - 1) \cup (IF nonswap THEN {k} ELSE {})
          BY <3>2 DEF RootNamed, NonSwap
        <4>5. /\ RootNamed(map, k - 1) \in SUBSET (1 .. k - 1)
              /\ NonSwap(map, k - 1) \in SUBSET (1 .. k - 1)
          BY <1>2 DEF RootNamed, NonSwap
        <4>6. scan.rootnamed \in Int /\ scan.nonswap \in Int
          BY <1>1 DEF Scan
        <4>7. root \in BOOLEAN /\ nonswap \in BOOLEAN
          <5>1. ent \in Entry
            OBVIOUS
          <5> QED
            BY <5>1 DEF Entry
        <4>8. Least(t.rootnamed, RootNamed(map, k)) /\ Least(t.nonswap, NonSwap(map, k))
          <5> HIDE DEF root, nonswap, t
          <5> QED
            BY <1>1, <2>2, <4>2, <4>4, <4>5, <4>6, <4>7, FirstLeast
        <4>9. Least(t.part, Wanted(map, name, k)) /\ ~t.over
          BY <1>5, <4>2, <4>3 DEF Least
        <4> HIDE DEF t
        <4> QED
          BY <1>1, <3>1, <4>2, <4>8, <4>9 DEF Scanned
      <3> QED
        BY <3>3, <3>4
    <2> QED
      BY <2>3, <2>4
  <1> QED
    BY <1>4, <1>5, <1>1 DEF Scan

(* The rules, in order: `k' is the number of entries looked at.            *)
LEMMA LocateIs ==
    ASSUME NEW map \in Seq(Entry), NEW name, NEW k, k = Count(map)
    PROVE  LET part == locate_partition(map, name)
           IN  /\ part \in Int
               /\ \/ Least(part, Wanted(map, name, k)) /\ part # NotFound
                  \/ /\ Wanted(map, name, k) = {}
                     /\ \/ Least(part, RootNamed(map, k)) /\ part # NotFound
                        \/ RootNamed(map, k) = {} /\ Least(part, NonSwap(map, k))
  <1>1. PICK scan :
             /\ scan[0] = Scanning
             /\ \A i \in 1 .. k : scan[i] = Look(map[i], name, scan[i - 1], i - 1)
             /\ LET result == scan[k]
                IN  locate_partition(map, name) =
                      IF result.part # NotFound THEN result.part
                      ELSE IF result.rootnamed # NotFound THEN result.rootnamed ELSE result.nonswap
    BY ScanIs
  <1> DEFINE Good == {i \in 0 .. k : Scanned(map, name, i, scan[i])}
  <1>2. k \in Nat
    BY DEF Count, LastPart
  <1>7. k <= Len(map)
    BY DEF Count, LastPart
  <1>3. 0 \in Good
    <2>1. Reached(map, 0) = {}
      BY DEF Reached
    <2>2. Scanned(map, name, 0, Scanning)
      BY <2>1 DEF Scanned, Scanning, Scan, Least, Wanted, RootNamed, NonSwap, NotFound
    <2> QED
      BY <1>1, <1>2, <2>2
  <1>4. ASSUME NEW i \in 1 .. k, i - 1 \in Good
        PROVE  i \in Good
    BY <1>1, <1>2, <1>4, <1>7, LookScanned
  <1>5. k \in Good
    <2> HIDE DEF Good
    <2>1. \A i \in 0 .. k : i \in Good
      BY <1>2, <1>3, <1>4, Induction
    <2> QED
      BY <1>2, <2>1
  <1>6. Scanned(map, name, k, scan[k])
    BY <1>5
  <1> QED
    BY <1>1, <1>6 DEF Scanned, Scan, Least

-----------------------------------------------------------------------------
(* What the scan comes to: the first entry that is marked root or has the  *)
(* name, whichever comes first; then the guesses.                          *)
RightStart(map, label, name, start) ==
    LET Entries == {i \in DOMAIN map : i <= LastPart /\ \A j \in 1 .. i : map[j].valid}
        Unix == {i \in Entries : map[i].unix}
        Rule == << {i \in Entries : map[i].rootfs \/ map[i].name = name},
                   {i \in Unix : map[i].name \in RootNames},
                   {i \in Unix : map[i].name \notin SwapNames} >>
        used == {r \in 1 .. 3 : Rule[r] # {}}
        slice == SliceOf[name] + 1
    IN  IF used # {} THEN start = map[Min(Rule[Min(used)])].start
        ELSE IF label.found /\ slice \in DOMAIN label.offset
        THEN start = label.offset[slice]
        ELSE start \in Junk

LEMMA OffsetType ==
    ASSUME NEW label \in Label
    PROVE  label.offset \in Seq(Nat)
  BY DEF Label

LEMMA SliceAt ==
    ASSUME NEW offset \in Seq(Nat), NEW slice \in -1 .. 25, ~(slice < 0)
    PROVE  slice + 1 \in DOMAIN offset <=> ~(slice >= Len(offset))
  OBVIOUS

(* What get_part_sector returns when nothing fails.                        *)
LEMMA SectorRight ==
    ASSUME NEW map \in Seq(Entry), NEW label \in Label, Len(label.offset) <= MAXPARTITIONS,
           NEW name \in Names, NEW start, ~(start < 0),
           start \in get_part_sector(map, label, name, TRUE, Junk)
    PROVE  RightStart(map, label, name, start)
  <1> DEFINE k == Count(map)
             Entries == {i \in DOMAIN map : i <= LastPart /\ \A j \in 1 .. i : map[j].valid}
             Unix == {i \in Entries : map[i].unix}
             Rule == << {i \in Entries : map[i].rootfs \/ map[i].name = name},
                        {i \in Unix : map[i].name \in RootNames},
                        {i \in Unix : map[i].name \notin SwapNames} >>
             used == {r \in 1 .. 3 : Rule[r] # {}}
             slice == SliceOf[name] + 1
             part == locate_partition(map, name)
             least == Min(Rule[Min(used)])
  <1>1. Entries = Reached(map, k) /\ Entries \in SUBSET Nat
    BY DEF Reached, Count, LastPart
  <1>2. /\ Rule[1] = Wanted(map, name, k) /\ Rule[2] = RootNamed(map, k)
        /\ Rule[3] = NonSwap(map, k)
    BY <1>1 DEF Wanted, RootNamed, NonSwap
  <1>3. \A r \in 1 .. 3 : Rule[r] \in SUBSET Nat
    BY <1>1, <1>2 DEF Wanted, RootNamed, NonSwap
  <1>4. /\ part \in Int
        /\ \/ Least(part, Rule[1]) /\ part # NotFound
           \/ /\ Rule[1] = {}
              /\ \/ Least(part, Rule[2]) /\ part # NotFound
                 \/ Rule[2] = {} /\ Least(part, Rule[3])
    <2> HIDE DEF Rule, k
    <2>1. k = Count(map)
      BY DEF k
    <2> QED
      BY <1>2, <2>1, LocateIs
  <1>5. /\ start \in (IF part = NotFound THEN get_disklabel_sector(label, name, Junk)
                      ELSE {map[part + 1].start})
    BY DEF get_part_sector
  <1> HIDE DEF Rule, part
  <1>6. used # {} => /\ Min(used) \in used
                     /\ \A r \in used : Min(used) <= r
    <2>1. used \in SUBSET Nat
      OBVIOUS
    <2> HIDE DEF used
    <2> QED
      BY <2>1, LeastOf
  <1>7. CASE used # {}
    <2>1. PICK r \in 1 .. 3 : /\ r = Min(used) /\ Rule[r] # {}
                              /\ \A q \in 1 .. 3 : Rule[q] # {} => r <= q
      BY <1>6, <1>7
    <2>2. least \in Rule[r] /\ \A i \in Rule[r] : least <= i
      <3> DEFINE S == Rule[r]
      <3>1. S \in SUBSET Nat /\ S # {} /\ least = Min(S)
        BY <1>3, <2>1
      <3> HIDE DEF S, least
      <3>2. least \in S /\ \A i \in S : least <= i
        BY <3>1, LeastOf
      <3> QED
        BY <3>2 DEF S
    <2>3. part # NotFound /\ Least(part, Rule[r])
      <3>1. CASE r = 1
        BY <1>4, <2>1, <3>1 DEF Least
      <3>2. CASE r = 2
        <4>1. Rule[1] = {}
          BY <2>1, <3>2
        <4> QED
          BY <1>4, <2>1, <3>2, <4>1 DEF Least
      <3>3. CASE r = 3
        <4>1. Rule[1] = {} /\ Rule[2] = {}
          BY <2>1, <3>3
        <4> QED
          BY <1>4, <2>1, <3>3, <4>1 DEF Least
      <3> QED
        BY <2>1, <3>1, <3>2, <3>3
    <2>4. part + 1 \in Rule[r] /\ \A i \in Rule[r] : part + 1 <= i
      BY <2>3 DEF Least
    <2>5. least = part + 1
      <3>1. least <= part + 1 /\ part + 1 <= least
        BY <2>2, <2>4
      <3>2. least \in Nat
        BY <1>3, <2>1, <2>2
      <3> HIDE DEF least
      <3> QED
        BY <1>4, <3>1, <3>2
    <2>6. start = map[least].start
      BY <1>5, <2>3, <2>5
    <2> QED
      BY <1>7, <2>6 DEF RightStart, Rule
  <1>8. CASE used = {}
    <2>1. Rule[1] = {} /\ Rule[2] = {} /\ Rule[3] = {}
      BY <1>8
    <2>2. part = NotFound
      BY <1>4, <2>1 DEF Least
    <2>3. start \in get_disklabel_sector(label, name, Junk)
      BY <1>5, <2>2
    <2>4. SliceOf[name] \in -1 .. 25
      BY NamesAssumption
    <2>5. ~(NotFound < 0) = FALSE
      BY DEF NotFound
    <2>6. /\ ~(SliceOf[name] < 0)
          /\ start \in IF ~label.found \/ SliceOf[name] >= Len(label.offset) THEN Junk
                       ELSE {label.offset[SliceOf[name] + 1]}
      BY <2>3, <2>5 DEF get_disklabel_sector
    <2>7. IF label.found /\ slice \in DOMAIN label.offset
          THEN start = label.offset[slice] ELSE start \in Junk
      <3>1. label.offset \in Seq(Nat)
        BY OffsetType
      <3>2. slice \in DOMAIN label.offset <=> ~(SliceOf[name] >= Len(label.offset))
        BY <2>4, <2>6, <3>1, SliceAt
      <3> QED
        BY <2>6, <3>2
    <2> QED
      BY <1>8, <2>7 DEF RightStart, Rule
  <1> QED
    BY <1>7, <1>8

MapOf(d) == IF d.formatted THEN d.map ELSE <<>>
StartRight ==
    pc = "super" /\ failures = 0
    => RightStart(MapOf(Disk[dev]), Disk[dev].label, target[2], file.start)

LEMMA FindPartRight ==
    ASSUME Shape, FindPart, pc' = "super", failures' = 0
    PROVE  StartRight'
  <1> DEFINE d   == Disk[dev]
             map == IF d.formatted THEN d.map ELSE <<>>
             Found(m, label, again) == get_part_sector(m, label, target[2], again, Junk)
             good == Found(map, d.label, TRUE)
             bad  == Found(map, Unsound, FALSE) \cup
                     UNION {Found(SubSeq(map, 1, i), d.label, TRUE) : i \in 0 .. Len(map)}
  <1>1. dev \in Disks /\ target[2] \in Names
    BY TargetsAssumption DEF Shape, WhereShape, dev
  <1>2. /\ map \in Seq(Entry) /\ d.label \in Label /\ Len(d.label.offset) <= MAXPARTITIONS
    BY <1>1, DisksAssumption DEF IsDisk
  <1>3. /\ fdtable \in [Fds -> Fd] /\ fd \in Fds /\ failures \in Nat
        /\ UNCHANGED <<fd, target>>
    BY DEF Shape, FdShape, SeenShape, FindPart, bootVars
  <1>4. PICK start \in good \cup bad :
             /\ \/ start \in good /\ UNCHANGED failures
                \/ start \in bad /\ failures < MaxFailures /\ failures' = failures + 1
             /\ IF start < 0
                THEN Fail /\ UNCHANGED fdtable
                ELSE Proceed("super") /\ fdtable' = [fdtable EXCEPT ![fd].start = start]
    BY Zenon DEF FindPart
  <1>5. start \in good
    <2> HIDE DEF good, bad
    <2> QED
      BY <1>3, <1>4
  <1>6. ~(start < 0) /\ fdtable' = [fdtable EXCEPT ![fd].start = start]
    <2>1. ~Fail
      BY DEF Fail, Goto
    <2> QED
      BY <1>4, <2>1
  <1>7. file'.start = start
    BY <1>3, <1>6 DEF file, Fd
  <1>8. dev' = dev
    BY <1>3 DEF dev
  <1>9. RightStart(map, d.label, target[2], start)
    BY <1>1, <1>2, <1>5, <1>6, SectorRight
  <1>10. RightStart(MapOf(Disk[dev']), Disk[dev'].label, target'[2], file'.start)
    BY <1>3, <1>7, <1>8, <1>9 DEF MapOf
  <1> QED
    BY <1>10 DEF StartRight

LEMMA StepPartition ==
    ASSUME Shape, [Next]_vars, StartRight
    PROVE  StartRight'
  <1>1. CASE pc' # "super"
    BY <1>1 DEF StartRight
  <1>2. CASE UNCHANGED vars
    <2>1. UNCHANGED <<pc, failures, dev, target, file>>
      BY <1>2 DEF vars, dev, file
    <2> QED
      BY <2>1 DEF StartRight
  <1>3. CASE FindPart
    BY <1>1, <1>3, FindPartRight DEF StartRight
  <1>4. ASSUME Open \/ ReadSuper \/ RootInode \/ LoadDir \/ ScanDir \/ LoadIndirect
               \/ Seek \/ StartRead \/ ReadFileBlock \/ FinishRead \/ OpenReturns \/ StopInUfs
               \/ EndBoot
        PROVE  pc' # "super"
    <2>1. CASE Open \/ ReadSuper \/ RootInode \/ StopInUfs \/ EndBoot
      BY <2>1 DEF Open, ReadSuper, RootInode, StopInUfs, EndBoot, Proceed, Fail, Goto
    <2>2. CASE LoadDir
      BY <2>2 DEF LoadDir, Proceed, Fail, Goto
    <2>3. CASE ScanDir
      BY <2>3 DEF ScanDir, Proceed, Fail, Goto
    <2>4. CASE LoadIndirect
      BY <2>4 DEF LoadIndirect, Goto
    <2>5. CASE Seek \/ StartRead \/ ReadFileBlock \/ FinishRead \/ OpenReturns
      BY <2>5 DEF Seek, StartRead, ReadFileBlock, FinishRead, OpenReturns, Proceed, Goto
    <2> QED
      BY <1>4, <2>1, <2>2, <2>3, <2>4, <2>5
  <1> QED
    BY <1>1, <1>2, <1>3, <1>4, StepCases

(* One of the two first entries that the comments allow is the first of     *)
(* all that are marked root or have the name.                              *)
LEMMA FirstAllowed ==
    ASSUME NEW S \in SUBSET Nat, NEW T \in SUBSET Nat, S \cup T # {}
    PROVE  \/ S # {} /\ Min(S \cup T) = Min(S)
           \/ T # {} /\ Min(S \cup T) = Min(T)
  <1> DEFINE m == Min(S \cup T)
  <1>1. m \in S \cup T /\ \A i \in S \cup T : m <= i
    <2> DEFINE U == S \cup T
    <2>1. U \in SUBSET Nat /\ U # {}
      OBVIOUS
    <2> HIDE DEF U
    <2>2. Min(U) \in U /\ \A i \in U : Min(U) <= i
      BY <2>1, LeastOf
    <2> QED
      BY <2>2 DEF U
  <1> HIDE DEF m
  <1>2. ASSUME NEW U \in {S, T}, m \in U
        PROVE  m = Min(U)
    <2>1. U \in SUBSET Nat /\ U # {} /\ \A i \in U : m <= i
      BY <1>1, <1>2
    <2>2. Min(U) \in U /\ \A i \in U : Min(U) <= i
      BY <2>1, LeastOf
    <2>3. Min(U) <= m /\ m <= Min(U) /\ m \in Nat /\ Min(U) \in Nat
      BY <1>2, <2>1, <2>2
    <2> HIDE DEF m
    <2> QED
      BY <2>3
  <1> QED
    BY <1>1, <1>2 DEF m

(* Where the scan comes to is a partition the comments allow.              *)
LEMMA RightAllowed ==
    ASSUME Shape, StartRight
    PROVE  PartitionRight
  <1> SUFFICES ASSUME pc = "super" /\ failures = 0
               PROVE  PartitionRight
    BY DEF PartitionRight
  <1> DEFINE Unix  == {i \in Seen : Map[i].unix}
             B     == {i \in Unix : Map[i].name \in RootNames}
             C     == {i \in Unix : Map[i].name \notin SwapNames}
             Firsts(sets) == {Min(S) : S \in sets \ {{}}}
             Rule  == << Firsts({Flagged, Exact}), Firsts({B}), Firsts({C}) >>
             Old   == << Flagged \cup Exact, B, C >>
             used  == {r \in 1 .. 3 : Rule[r] # {}}
             old   == {r \in 1 .. 3 : Old[r] # {}}
             label == Disk[dev].label
             slice == SliceOf[target[2]] + 1
             start == file.start
             Labelled == IF label.found /\ slice \in DOMAIN label.offset
                         THEN start = label.offset[slice] ELSE start \in Junk
  <1>1. dev \in Disks /\ Map \in Seq(Entry)
    <2>1. dev \in Disks
      BY TargetsAssumption DEF Shape, WhereShape, dev
    <2> QED
      BY <2>1, DisksAssumption DEF IsDisk, Map
  <1>2. Seen \in SUBSET Nat /\ Flagged \in SUBSET Nat /\ Exact \in SUBSET Nat
    BY <1>1 DEF Seen, Flagged, Exact
  <1>3. IF old # {} THEN start = Map[Min(Old[Min(old)])].start ELSE Labelled
    <2>1. RightStart(Map, label, target[2], start)
      BY DEF StartRight, MapOf, Map
    <2>2. Flagged \cup Exact = {i \in Seen : Map[i].rootfs \/ Map[i].name = target[2]}
      BY DEF Flagged, Exact
    <2> QED
      BY <2>1, <2>2 DEF RightStart, Seen
  <1>4. /\ Rule[1] = {Min(S) : S \in {Flagged, Exact} \ {{}}}
        /\ Rule[2] = IF B = {} THEN {} ELSE {Min(B)}
        /\ Rule[3] = IF C = {} THEN {} ELSE {Min(C)}
    <2> HIDE DEF B, C
    <2> QED
      OBVIOUS
  <1>5. used = old
    <2>1. ASSUME NEW r \in 1 .. 3
          PROVE  Rule[r] = {} <=> Old[r] = {}
      <3> HIDE DEF Rule, B, C
      <3>1. Rule[1] = {} <=> Flagged \cup Exact = {}
        BY <1>4
      <3>2. Rule[2] = {} <=> B = {}
        BY <1>4
      <3>3. Rule[3] = {} <=> C = {}
        BY <1>4
      <3> QED
        BY <2>1, <3>1, <3>2, <3>3
    <2> HIDE DEF Rule, Old
    <2> QED
      BY <2>1
  <1>6. ASSUME old # {}
        PROVE  \E i \in Rule[Min(old)] : start = Map[i].start
    <2> DEFINE r == Min(old)
    <2>1. r \in 1 .. 3 /\ Old[r] # {}
      <3>1. old \in SUBSET Nat
        OBVIOUS
      <3> HIDE DEF old
      <3>2. Min(old) \in old
        BY <1>6, <3>1, LeastOf
      <3> QED
        BY <3>2 DEF old
    <2>2. start = Map[Min(Old[r])].start
      BY <1>3, <1>6
    <2> HIDE DEF r, old, Rule, B, C, start
    <2>3. CASE r = 1
      <3>1. Flagged \cup Exact # {} /\ start = Map[Min(Flagged \cup Exact)].start
        BY <2>1, <2>2, <2>3
      <3>2. \E S \in {Flagged, Exact} : S # {} /\ Min(Flagged \cup Exact) = Min(S)
        BY <1>2, <3>1, FirstAllowed
      <3>3. Min(Flagged \cup Exact) \in Rule[1]
        BY <1>4, <3>2
      <3> QED
        BY <2>3, <3>1, <3>3 DEF r
    <2>4. CASE r = 2
      BY <1>4, <2>1, <2>2, <2>4 DEF r
    <2>5. CASE r = 3
      BY <1>4, <2>1, <2>2, <2>5 DEF r
    <2>6. r = 1 \/ r = 2 \/ r = 3
      BY <2>1
    <2> QED
      BY <2>3, <2>4, <2>5, <2>6
  <1>7. IF used # {} THEN \E i \in Rule[Min(used)] : start = Map[i].start ELSE Labelled
    <2> HIDE DEF used, old, Labelled, Rule, start
    <2> QED
      BY <1>3, <1>5, <1>6
  <1> QED
    BY <1>7 DEF PartitionRight

(* As long as no read fails, the partition whose superblock is read is one *)
(* the comments of locate_partition allow, for a map of any length with    *)
(* any entries: the first that is marked root or the first that has the    *)
(* name typed (they do not agree on which of the two), or else the first   *)
(* Unix one with Root in its name, or else the first without Swap, or else *)
(* the slice of the disk label.                                            *)
THEOREM PartitionRightCorrect == Spec => []PartitionRight
  <1>1. Init => StartRight
    BY DEF Init, StartRight
  <1>2. Shape /\ StartRight => PartitionRight
    BY RightAllowed
  <1> QED
    BY <1>1, <1>2, AlwaysShape, StepPartition, PTL DEF Spec
=============================================================================
