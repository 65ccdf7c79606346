-------------------------- MODULE MerkleTreeProofs --------------------------
(* The guarantees of the Merkle log, for every set of receipts and for     *)
(* logs of every length a usize can hold, however reads fill the memo.     *)
EXTENDS MerkleTree, LogLemmas

-----------------------------------------------------------------------------
(* Powers of two, and where a length is split.                             *)

(* The powers of two, as they are computed.                                *)
LEMMA Pow2Def == \A n \in Nat : Pow2[n] = IF n = 0 THEN 1 ELSE 2 * Pow2[n - 1]
<1> DEFINE E(g, n) == IF n = 0 THEN 1 ELSE 2 * g[n - 1]
           S == {n \in Nat : \E g : g = [i \in 0 .. n |-> E(g, i)]}
           G(n) == CHOOSE g : g = [i \in 0 .. n |-> E(g, i)]
           F == [n \in Nat |-> G(n)[n]]
<1>1. 0 \in S
  <2>1. [i \in 0 .. 0 |-> 1] = [i \in 0 .. 0 |-> E([j \in 0 .. 0 |-> 1], i)]
    OBVIOUS
  <2>2. QED
    BY <2>1
<1>2. ASSUME NEW n \in Nat, n \in S PROVE n + 1 \in S
  <2>1. PICK g : g = [i \in 0 .. n |-> E(g, i)]
    BY <1>2
  <2> DEFINE h == [i \in 0 .. n + 1 |-> IF i <= n THEN g[i] ELSE E(g, n + 1)]
  <2>2. ASSUME NEW i \in 0 .. n + 1 PROVE h[i] = E(h, i)
    <3>1. i - 1 \in 0 .. n + 1 => h[i - 1] = g[i - 1]
      OBVIOUS
    <3>2. QED
      BY <2>1, <3>1
  <2>3. h = [i \in 0 .. n + 1 |-> E(h, i)]
    BY <2>2
  <2> HIDE DEF h, E
  <2>4. QED
    BY <2>3
<1>3. \A n \in Nat : n \in S
  <2> HIDE DEF S
  <2> QED BY <1>1, <1>2, Induct
<1>4. ASSUME NEW n \in Nat, NEW i \in 0 .. n
      PROVE  G(n)[i] = E(G(n), i)
  <2>1. G(n) = [j \in 0 .. n |-> E(G(n), j)]
    BY <1>3
  <2> HIDE DEF G, E
  <2>2. QED
    BY <2>1
<1> DEFINE U == {i \in Nat : \A n \in Nat : i <= n => G(n)[i] = G(i)[i]}
<1> HIDE DEF G
<1>5. 0 \in U
  BY <1>4
<1>6. ASSUME NEW i \in Nat, i \in U PROVE i + 1 \in U
  <2>1. ASSUME NEW n \in Nat, i + 1 <= n PROVE G(n)[i + 1] = 2 * G(i)[i]
    <3>1. i + 1 \in 0 .. n /\ i + 1 # 0 /\ i + 1 - 1 = i /\ i <= n
      BY <2>1
    <3>2. G(n)[i + 1] = 2 * G(n)[i]
      BY <3>1, <1>4
    <3>3. QED
      BY <3>1, <3>2, <1>6
  <2>2. QED
    BY <2>1
<1>7. \A i \in Nat : i \in U
  <2> HIDE DEF U
  <2> QED BY <1>5, <1>6, Induct
<1>8. ASSUME NEW n \in Nat PROVE F[n] = E(F, n)
  <2>1. n # 0 => G(n)[n - 1] = G(n - 1)[n - 1]
    BY <1>7
  <2>2. F[n] = G(n)[n] /\ (n # 0 => F[n - 1] = G(n - 1)[n - 1])
    OBVIOUS
  <2>3. G(n)[n] = E(G(n), n)
    BY <1>4
  <2>4. QED
    BY <2>1, <2>2, <2>3
<1>9. F = [n \in Nat |-> E(F, n)]
  BY <1>8
<1> HIDE DEF F
<1>10. Pow2 = [n \in Nat |-> E(Pow2, n)]
  BY <1>9 DEF Pow2
<1>11. QED
  BY <1>10

(* Powers of two are numbers, above their exponents.                       *)
LEMMA Pow2Nat == \A n \in Nat : Pow2[n] \in Nat /\ n < Pow2[n]
<1> DEFINE S == {n \in Nat : Pow2[n] \in Nat /\ n < Pow2[n]}
<1>1. 0 \in S
  BY Pow2Def
<1>2. ASSUME NEW n \in Nat, n \in S PROVE n + 1 \in S
  <2>1. Pow2[n + 1] = 2 * Pow2[n]
    BY Pow2Def
  <2>2. QED
    BY <1>2, <2>1
<1>3. QED
  <2> HIDE DEF S
  <2>1. \A n \in Nat : n \in S
    BY <1>1, <1>2, Induct
  <2>2. QED
    BY <2>1 DEF S

(* The next power is twice as large.                                       *)
LEMMA Pow2Next == \A n \in Nat : Pow2[n + 1] = 2 * Pow2[n] /\ Pow2[n] \in Nat \ {0}
  BY Pow2Def, Pow2Nat

(* A power of two is at least twice every smaller one.                     *)
LEMMA Pow2Grows == \A i, j \in Nat : i < j => 2 * Pow2[i] <= Pow2[j]
<1> TAKE i \in Nat
<1> DEFINE S == {d \in Nat : 2 * Pow2[i] <= Pow2[i + 1 + d]}
<1>1. 0 \in S
  BY Pow2Next
<1>2. ASSUME NEW d \in Nat, d \in S PROVE d + 1 \in S
  <2>1. Pow2[i + 1 + (d + 1)] = 2 * Pow2[i + 1 + d] /\ Pow2[i + 1 + d] \in Nat /\ Pow2[i] \in Nat
    BY Pow2Next
  <2>2. QED
    BY <1>2, <2>1
<1>3. \A d \in Nat : d \in S
  <2> HIDE DEF S
  <2> QED BY <1>1, <1>2, Induct
<1>4. ASSUME NEW j \in Nat, i < j PROVE 2 * Pow2[i] <= Pow2[j]
  <2>1. j - i - 1 \in Nat /\ i + 1 + (j - i - 1) = j
    BY <1>4
  <2>2. QED
    BY <1>3, <2>1
<1>5. QED
  BY <1>4

(* k is the largest power of two that is less than n.                      *)
Splits(k, n) == \E i \in 0 .. n : k = Pow2[i] /\ k < n /\ n <= 2 * k

(* A length has one place where it can be split.                           *)
LEMMA OneSplit ==
  ASSUME NEW n \in Nat, NEW k, NEW j, Splits(k, n), Splits(j, n)
  PROVE  k = j
  BY Pow2Grows, Pow2Nat DEF Splits

(* Where a length is split (split_point).                                  *)
LEMMA SplitIs ==
  ASSUME NEW n \in Nat, n > 1
  PROVE  Splits(split_point(n), n)
<1> DEFINE T == {i \in Nat : ~(2 * Pow2[i] < n)}
<1>1. n \in T
  BY Pow2Nat
<1>2. PICK i \in T : \A m \in T : i <= m
  <2> HIDE DEF T
  <2>1. T \in SUBSET Nat
    BY DEF T
  <2> QED BY <1>1, <2>1, Smallest
<1>3. i \in 0 .. n /\ ~(2 * Pow2[i] < n) /\ \A j \in 0 .. i - 1 : 2 * Pow2[j] < n
  BY <1>1, <1>2
<1>4. /\ Doublings(n) \in 0 .. n
      /\ ~(2 * Pow2[Doublings(n)] < n)
      /\ \A j \in 0 .. Doublings(n) - 1 : 2 * Pow2[j] < n
  BY <1>3 DEF Doublings
<1> DEFINE d == Doublings(n)
<1>5. Pow2[d] < n
  <2>1. d # 0 => Pow2[d] = 2 * Pow2[d - 1] /\ d - 1 \in 0 .. d - 1
    BY <1>4, Pow2Def
  <2>2. d = 0 => Pow2[d] = 1
    BY Pow2Def
  <2>3. QED
    BY <1>4, <2>1, <2>2
<1>6. Pow2[d] \in Nat
  BY <1>4, Pow2Nat
<1>7. QED
  BY <1>4, <1>5, <1>6 DEF Splits, split_point

(* Both parts of a range are shorter than it and not empty, and the first  *)
(* is at least half of it (split_point).                                   *)
LEMMA SplitSize ==
  ASSUME NEW n \in Nat, n > 1
  PROVE  /\ split_point(n) \in 1 .. n - 1
         /\ n - split_point(n) \in 1 .. n - 1
         /\ n <= 2 * split_point(n)
<1>1. Splits(split_point(n), n)
  BY SplitIs
<1>2. PICK i \in 0 .. n : split_point(n) = Pow2[i] /\ split_point(n) < n /\ n <= 2 * split_point(n)
  BY <1>1 DEF Splits
<1>3. Pow2[i] \in Nat /\ i < Pow2[i]
  BY Pow2Nat
<1>4. QED
  BY <1>2, <1>3

(* The split of the reference is the split of the code.                    *)
LEMMA RfcSplit ==
  ASSUME NEW n \in Nat, n > 1
  PROVE  (CHOOSE p \in {Pow2[i] : i \in 0 .. n} : p < n /\ n <= 2 * p) = split_point(n)
<1> DEFINE k == CHOOSE p \in {Pow2[i] : i \in 0 .. n} : p < n /\ n <= 2 * p
<1>1. Splits(split_point(n), n)
  BY SplitIs
<1>2. Splits(k, n)
  BY <1>1 DEF Splits
<1>3. QED
  BY <1>1, <1>2, OneSplit

-----------------------------------------------------------------------------
(* The recursive functions, one level at a time.                           *)

(* The reference, range by range.                                          *)
LEMMA RangeHashDef ==
  ASSUME NEW hashes
  PROVE
  \A n \in 0 .. MaxLeaves : \A from \in Size :
    RangeHash(hashes)[n][from] =
      LET k == CHOOSE p \in {Pow2[j] : j \in 0 .. n} : p < n /\ n <= 2 * p
      IN  IF n = 0 THEN empty_root
          ELSE IF n = 1 THEN hashes[from + 1]
          ELSE hash_node(RangeHash(hashes)[k][from], RangeHash(hashes)[n - k][from + k])
<1> DEFINE K(n) == CHOOSE p \in {Pow2[j] : j \in 0 .. n} : p < n /\ n <= 2 * p
           B(g, n, from) ==
             LET k == K(n)
             IN  IF n = 0 THEN empty_root
                 ELSE IF n = 1 THEN hashes[from + 1]
                 ELSE hash_node(g[k][from], g[n - k][from + k])
           E(g, n) == [from \in Size |-> B(g, n, from)]
           S == {n \in Nat : \E g : g = [i \in 0 .. n |-> E(g, i)]}
<1>1. 0 \in S
  <2> DEFINE g == [i \in 0 .. 0 |-> E(<< >>, i)]
  <2>1. E(g, 0) = E(<< >>, 0)
    OBVIOUS
  <2> HIDE DEF E
  <2>2. g = [i \in 0 .. 0 |-> E(g, i)]
    BY <2>1
  <2> HIDE DEF g
  <2>3. QED
    BY <2>2
<1>2. ASSUME NEW n \in Nat, n \in S PROVE n + 1 \in S
  <2>1. PICK g : g = [i \in 0 .. n |-> E(g, i)]
    BY <1>2
  <2> DEFINE h == [i \in 0 .. n + 1 |-> IF i <= n THEN g[i] ELSE E(g, n + 1)]
  <2>2. ASSUME NEW i \in 0 .. n + 1 PROVE h[i] = E(h, i)
    <3>1. i > 1 => /\ h[split_point(i)] = g[split_point(i)]
                   /\ h[i - split_point(i)] = g[i - split_point(i)]
      <4>1. i > 1 => split_point(i) \in 0 .. n /\ i - split_point(i) \in 0 .. n
        BY SplitSize
      <4>2. QED
        BY <4>1
    <3>2. h[i] = E(g, i)
      <4> HIDE DEF E
      <4>1. i # n + 1 => (i \in 0 .. n /\ g[i] = E(g, i))
        BY <2>1
      <4>2. QED
        BY <4>1
    <3> HIDE DEF h
    <3>3. ASSUME NEW from \in Size
          PROVE  B(g, i, from) = B(h, i, from)
      <4>1. CASE i <= 1
        BY <4>1
      <4>2. CASE i > 1
        <5>1. K(i) = split_point(i)
          BY <4>2, RfcSplit
        <5> HIDE DEF K
        <5>2. QED
          BY <3>1, <4>2, <5>1
      <4> HIDE DEF B
      <4>3. QED
        BY <4>1, <4>2
    <3>4. E(g, i) = E(h, i)
      <4> HIDE DEF B
      <4> QED BY <3>3
    <3>5. QED
      BY <3>2, <3>4
  <2> HIDE DEF E
  <2>3. h = [i \in 0 .. n + 1 |-> E(h, i)]
    BY <2>2
  <2> HIDE DEF h
  <2>4. QED
    BY <2>3
<1>3. MaxLeaves \in S
  <2> HIDE DEF S
  <2> QED BY <1>1, <1>2, Induct, MaxLeavesAssumption
<1>4. RangeHash(hashes) = [n \in 0 .. MaxLeaves |-> E(RangeHash(hashes), n)]
  BY <1>3 DEF RangeHash, Size
<1>5. ASSUME NEW n \in 0 .. MaxLeaves PROVE RangeHash(hashes)[n] = E(RangeHash(hashes), n)
  <2> HIDE DEF E
  <2> QED BY <1>4
<1>6. ASSUME NEW n \in 0 .. MaxLeaves, NEW from \in Size
      PROVE  RangeHash(hashes)[n][from] = B(RangeHash(hashes), n, from)
  <2> HIDE DEF B, E
  <2>1. RangeHash(hashes)[n] = E(RangeHash(hashes), n)
    BY <1>5
  <2>2. QED
    BY <2>1 DEF E
<1> HIDE DEF E
<1>7. QED
  BY <1>6

(* The memoised tree (Witness::subtree).                                   *)
LEMMA SubtreeDef ==
  \A n \in 0 .. MaxLeaves : \A start \in Size :
    Subtree[n][start] =
      LET k     == split_point(n)
          key   == CacheKey(start, n)
          left  == Subtree[k][start]
          right == Subtree[n - k][start + k]
          h     == hash_node(left.result, right.result)
          below == Over(right.memo, left.memo)
      IN  IF n = 0 THEN [result |-> empty_root, memo |-> << >>]
          ELSE IF n = 1 THEN [result |-> leaf_hashes[start + 1], memo |-> << >>]
          ELSE IF Perfect(start, n) /\ key \in DOMAIN subtree_cache
          THEN [result |-> subtree_cache[key], memo |-> << >>]
          ELSE [result |-> h,
                memo   |-> IF Perfect(start, n) THEN Over([added \in {key} |-> h], below) ELSE below]
<1> DEFINE B(g, n, start) ==
             LET k     == split_point(n)
                 key   == CacheKey(start, n)
                 left  == g[k][start]
                 right == g[n - k][start + k]
                 h     == hash_node(left.result, right.result)
                 below == Over(right.memo, left.memo)
             IN  IF n = 0 THEN [result |-> empty_root, memo |-> << >>]
                 ELSE IF n = 1 THEN [result |-> leaf_hashes[start + 1], memo |-> << >>]
                 ELSE IF Perfect(start, n) /\ key \in DOMAIN subtree_cache
                 THEN [result |-> subtree_cache[key], memo |-> << >>]
                 ELSE [result |-> h,
                       memo   |-> IF Perfect(start, n) THEN Over([added \in {key} |-> h], below) ELSE below]
           E(g, n) == [start \in Size |-> B(g, n, start)]
           S == {n \in Nat : \E g : g = [i \in 0 .. n |-> E(g, i)]}
<1>1. 0 \in S
  <2> DEFINE g == [i \in 0 .. 0 |-> E(<< >>, i)]
  <2>1. E(g, 0) = E(<< >>, 0)
    OBVIOUS
  <2> HIDE DEF E
  <2>2. g = [i \in 0 .. 0 |-> E(g, i)]
    BY <2>1
  <2> HIDE DEF g
  <2>3. QED
    BY <2>2
<1>2. ASSUME NEW n \in Nat, n \in S PROVE n + 1 \in S
  <2>1. PICK g : g = [i \in 0 .. n |-> E(g, i)]
    BY <1>2
  <2> DEFINE h == [i \in 0 .. n + 1 |-> IF i <= n THEN g[i] ELSE E(g, n + 1)]
  <2>2. ASSUME NEW i \in 0 .. n + 1 PROVE h[i] = E(h, i)
    <3>1. i > 1 => /\ h[split_point(i)] = g[split_point(i)]
                   /\ h[i - split_point(i)] = g[i - split_point(i)]
      <4>1. i > 1 => split_point(i) \in 0 .. n /\ i - split_point(i) \in 0 .. n
        BY SplitSize
      <4>2. QED
        BY <4>1
    <3>2. h[i] = E(g, i)
      <4> HIDE DEF E
      <4>1. i # n + 1 => (i \in 0 .. n /\ g[i] = E(g, i))
        BY <2>1
      <4>2. QED
        BY <4>1
    <3> HIDE DEF h
    <3>3. ASSUME NEW start \in Size
          PROVE  B(g, i, start) = B(h, i, start)
      <4>1. CASE i <= 1
        BY <4>1
      <4>2. CASE i > 1
        BY <3>1, <4>2
      <4> HIDE DEF B
      <4>3. QED
        BY <4>1, <4>2
    <3>4. E(g, i) = E(h, i)
      <4> HIDE DEF B
      <4> QED BY <3>3
    <3>5. QED
      BY <3>2, <3>4
  <2> HIDE DEF E
  <2>3. h = [i \in 0 .. n + 1 |-> E(h, i)]
    BY <2>2
  <2> HIDE DEF h
  <2>4. QED
    BY <2>3
<1>3. MaxLeaves \in S
  <2> HIDE DEF S
  <2> QED BY <1>1, <1>2, Induct, MaxLeavesAssumption
<1>4. Subtree = [n \in 0 .. MaxLeaves |-> E(Subtree, n)]
  BY <1>3 DEF Subtree, Size
<1>5. ASSUME NEW n \in 0 .. MaxLeaves PROVE Subtree[n] = E(Subtree, n)
  <2> HIDE DEF E
  <2> QED BY <1>4
<1>6. ASSUME NEW n \in 0 .. MaxLeaves, NEW start \in Size
      PROVE  Subtree[n][start] = B(Subtree, n, start)
  <2> HIDE DEF B, E
  <2>1. Subtree[n] = E(Subtree, n)
    BY <1>5
  <2>2. QED
    BY <2>1 DEF E
<1> HIDE DEF E
<1>7. QED
  BY <1>6

(* An audit path (Witness::subtree_path).                                  *)
LEMMA PathDef ==
  \A n \in 0 .. MaxLeaves : \A start \in Size : \A index \in Size :
    SubtreePath[n][start][index] =
      LET k == split_point(n)
      IN  IF n <= 1 THEN [result |-> << >>, memo |-> << >>]
          ELSE IF GoesLeft(index, k)
          THEN Step(SubtreePath[k][start][index], Subtree[n - k][start + k], FALSE)
          ELSE Step(SubtreePath[n - k][start + k][index - k], Subtree[k][start], TRUE)
<1> DEFINE B(g, n, start, index) ==
             LET k == split_point(n)
             IN  IF n <= 1 THEN [result |-> << >>, memo |-> << >>]
                 ELSE IF GoesLeft(index, k)
                 THEN Step(g[k][start][index], Subtree[n - k][start + k], FALSE)
                 ELSE Step(g[n - k][start + k][index - k], Subtree[k][start], TRUE)
           E(g, n) == [start \in Size |-> [index \in Size |-> B(g, n, start, index)]]
           S == {n \in Nat : \E g : g = [i \in 0 .. n |-> E(g, i)]}
<1>1. 0 \in S
  <2> DEFINE g == [i \in 0 .. 0 |-> E(<< >>, i)]
  <2>1. E(g, 0) = E(<< >>, 0)
    OBVIOUS
  <2> HIDE DEF E
  <2>2. g = [i \in 0 .. 0 |-> E(g, i)]
    BY <2>1
  <2> HIDE DEF g
  <2>3. QED
    BY <2>2
<1>2. ASSUME NEW n \in Nat, n \in S PROVE n + 1 \in S
  <2>1. PICK g : g = [i \in 0 .. n |-> E(g, i)]
    BY <1>2
  <2> DEFINE h == [i \in 0 .. n + 1 |-> IF i <= n THEN g[i] ELSE E(g, n + 1)]
  <2>2. ASSUME NEW i \in 0 .. n + 1 PROVE h[i] = E(h, i)
    <3>1. i > 1 => /\ h[split_point(i)] = g[split_point(i)]
                   /\ h[i - split_point(i)] = g[i - split_point(i)]
      <4>1. i > 1 => split_point(i) \in 0 .. n /\ i - split_point(i) \in 0 .. n
        BY SplitSize
      <4>2. QED
        BY <4>1
    <3>2. h[i] = E(g, i)
      <4> HIDE DEF E
      <4>1. i # n + 1 => (i \in 0 .. n /\ g[i] = E(g, i))
        BY <2>1
      <4>2. QED
        BY <4>1
    <3> HIDE DEF h
    <3>3. ASSUME NEW start \in Size, NEW index \in Size
          PROVE  B(g, i, start, index) = B(h, i, start, index)
      <4>1. CASE i <= 1
        BY <4>1
      <4>2. CASE i > 1
        BY <3>1, <4>2
      <4> HIDE DEF B
      <4>3. QED
        BY <4>1, <4>2
    <3>4. E(g, i) = E(h, i)
      <4> HIDE DEF B
      <4> QED BY <3>3
    <3>5. QED
      BY <3>2, <3>4
  <2> HIDE DEF E
  <2>3. h = [i \in 0 .. n + 1 |-> E(h, i)]
    BY <2>2
  <2> HIDE DEF h
  <2>4. QED
    BY <2>3
<1>3. MaxLeaves \in S
  <2> HIDE DEF S
  <2> QED BY <1>1, <1>2, Induct, MaxLeavesAssumption
<1>4. SubtreePath = [n \in 0 .. MaxLeaves |-> E(SubtreePath, n)]
  BY <1>3 DEF SubtreePath, Size
<1>5. ASSUME NEW n \in 0 .. MaxLeaves PROVE SubtreePath[n] = E(SubtreePath, n)
  <2> HIDE DEF E
  <2> QED BY <1>4
<1>6. ASSUME NEW n \in 0 .. MaxLeaves, NEW start \in Size, NEW index \in Size
      PROVE  SubtreePath[n][start][index] = B(SubtreePath, n, start, index)
  <2> HIDE DEF B, E
  <2>1. SubtreePath[n] = E(SubtreePath, n)
    BY <1>5
  <2>2. QED
    BY <2>1 DEF E
<1> HIDE DEF E
<1>7. QED
  BY <1>6

(* The nodes of a consistency proof (Witness::subproof).                   *)
LEMMA SubproofDef ==
  \A n \in 0 .. MaxLeaves : \A start \in Size : \A m \in 1 .. n : \A known \in BOOLEAN :
    Subproof[n][start][m][known] =
      LET k == split_point(n)
      IN  IF m = n THEN IF known THEN NoNodes ELSE Node(NoNodes, Subtree[n][start])
          ELSE IF m <= k
          THEN Node(Subproof[k][start][m][known], Subtree[n - k][start + k])
          ELSE Node(Subproof[n - k][start + k][m - k][FALSE], Subtree[k][start])
<1> DEFINE B(g, n, start, m, known) ==
             LET k == split_point(n)
             IN  IF m = n THEN IF known THEN NoNodes ELSE Node(NoNodes, Subtree[n][start])
                 ELSE IF m <= k
                 THEN Node(g[k][start][m][known], Subtree[n - k][start + k])
                 ELSE Node(g[n - k][start + k][m - k][FALSE], Subtree[k][start])
           E(g, n) == [start \in Size |-> [m \in 1 .. n |-> [known \in BOOLEAN |-> B(g, n, start, m, known)]]]
           S == {n \in Nat : \E g : g = [i \in 0 .. n |-> E(g, i)]}
<1>1. 0 \in S
  <2> DEFINE g == [i \in 0 .. 0 |-> E(<< >>, i)]
  <2>1. E(g, 0) = E(<< >>, 0)
    OBVIOUS
  <2> HIDE DEF E
  <2>2. g = [i \in 0 .. 0 |-> E(g, i)]
    BY <2>1
  <2> HIDE DEF g
  <2>3. QED
    BY <2>2
<1>2. ASSUME NEW n \in Nat, n \in S PROVE n + 1 \in S
  <2>1. PICK g : g = [i \in 0 .. n |-> E(g, i)]
    BY <1>2
  <2> DEFINE h == [i \in 0 .. n + 1 |-> IF i <= n THEN g[i] ELSE E(g, n + 1)]
  <2>2. ASSUME NEW i \in 0 .. n + 1 PROVE h[i] = E(h, i)
    <3>1. i > 1 => /\ h[split_point(i)] = g[split_point(i)]
                   /\ h[i - split_point(i)] = g[i - split_point(i)]
      <4>1. i > 1 => split_point(i) \in 0 .. n /\ i - split_point(i) \in 0 .. n
        BY SplitSize
      <4>2. QED
        BY <4>1
    <3>2. h[i] = E(g, i)
      <4> HIDE DEF E
      <4>1. i # n + 1 => (i \in 0 .. n /\ g[i] = E(g, i))
        BY <2>1
      <4>2. QED
        BY <4>1
    <3> HIDE DEF h
    <3>3. ASSUME NEW start \in Size, NEW m \in 1 .. i, NEW known \in BOOLEAN
          PROVE  B(g, i, start, m, known) = B(h, i, start, m, known)
      <4>1. CASE i <= 1
        <5>1. m = i
          BY <4>1
        <5>2. QED
          BY <5>1
      <4>2. CASE i > 1
        BY <3>1, <4>2
      <4> HIDE DEF B
      <4>3. QED
        BY <4>1, <4>2
    <3>4. E(g, i) = E(h, i)
      <4> HIDE DEF B
      <4> QED BY <3>3
    <3>5. QED
      BY <3>2, <3>4
  <2> HIDE DEF E
  <2>3. h = [i \in 0 .. n + 1 |-> E(h, i)]
    BY <2>2
  <2> HIDE DEF h
  <2>4. QED
    BY <2>3
<1>3. MaxLeaves \in S
  <2> HIDE DEF S
  <2> QED BY <1>1, <1>2, Induct, MaxLeavesAssumption
<1>4. Subproof = [n \in 0 .. MaxLeaves |-> E(Subproof, n)]
  BY <1>3 DEF Subproof, Size
<1>5. ASSUME NEW n \in 0 .. MaxLeaves PROVE Subproof[n] = E(Subproof, n)
  <2> HIDE DEF E
  <2> QED BY <1>4
<1>6. ASSUME NEW n \in 0 .. MaxLeaves, NEW start \in Size, NEW m \in 1 .. n, NEW known \in BOOLEAN
      PROVE  Subproof[n][start][m][known] = B(Subproof, n, start, m, known)
  <2> HIDE DEF B, E
  <2>1. Subproof[n] = E(Subproof, n)
    BY <1>5
  <2>2. QED
    BY <2>1 DEF E
<1> HIDE DEF E
<1>7. QED
  BY <1>6

(* The fold along a path (verify_inclusion).                               *)
LEMMA FoldedDef ==
  ASSUME NEW leaf, NEW path, Len(path) \in Nat
  PROVE
  \A n \in 0 .. Len(path) : 
    Folded(leaf, path)[n] =
      IF n = 0 THEN leaf
      ELSE IF path[n].sibling_is_left THEN hash_node(path[n].sibling, Folded(leaf, path)[n - 1])
      ELSE hash_node(Folded(leaf, path)[n - 1], path[n].sibling)
<1> DEFINE B(g, n) ==
             IF n = 0 THEN leaf
             ELSE IF path[n].sibling_is_left THEN hash_node(path[n].sibling, g[n - 1])
             ELSE hash_node(g[n - 1], path[n].sibling)
           E(g, n) == B(g, n)
           S == {n \in Nat : \E g : g = [i \in 0 .. n |-> E(g, i)]}
<1>1. 0 \in S
  <2> DEFINE g == [i \in 0 .. 0 |-> E(<< >>, i)]
  <2>1. E(g, 0) = E(<< >>, 0)
    OBVIOUS
  <2> HIDE DEF E
  <2>2. g = [i \in 0 .. 0 |-> E(g, i)]
    BY <2>1
  <2> HIDE DEF g
  <2>3. QED
    BY <2>2
<1>2. ASSUME NEW n \in Nat, n \in S PROVE n + 1 \in S
  <2>1. PICK g : g = [i \in 0 .. n |-> E(g, i)]
    BY <1>2
  <2> DEFINE h == [i \in 0 .. n + 1 |-> IF i <= n THEN g[i] ELSE E(g, n + 1)]
  <2>2. ASSUME NEW i \in 0 .. n + 1 PROVE h[i] = E(h, i)
    <3>1. i - 1 \in 0 .. n + 1 => h[i - 1] = g[i - 1]
      OBVIOUS
    <3>2. h[i] = E(g, i)
      <4> HIDE DEF E
      <4>1. i # n + 1 => (i \in 0 .. n /\ g[i] = E(g, i))
        BY <2>1
      <4>2. QED
        BY <4>1
    <3> HIDE DEF h
    <3>3. E(g, i) = E(h, i)
      <4>1. CASE i = 0
        BY <4>1
      <4>2. CASE i # 0
        <5>1. h[i - 1] = g[i - 1]
          BY <3>1, <4>2
        <5>2. QED
          BY <5>1, <4>2
      <4> HIDE DEF E
      <4>3. QED
        BY <4>1, <4>2
    <3>4. QED
      BY <3>2, <3>3
  <2> HIDE DEF E
  <2>3. h = [i \in 0 .. n + 1 |-> E(h, i)]
    BY <2>2
  <2> HIDE DEF h
  <2>4. QED
    BY <2>3
<1>3. Len(path) \in S
  <2> HIDE DEF S
  <2> QED BY <1>1, <1>2, Induct
<1>4. Folded(leaf, path) = [n \in 0 .. Len(path) |-> E(Folded(leaf, path), n)]
  BY <1>3 DEF Folded, Size
<1>5. ASSUME NEW n \in 0 .. Len(path) PROVE Folded(leaf, path)[n] = E(Folded(leaf, path), n)
  <2> HIDE DEF E
  <2> QED BY <1>4
<1>6. ASSUME NEW n \in 0 .. Len(path)
      PROVE  Folded(leaf, path)[n] = B(Folded(leaf, path), n)
  <2> HIDE DEF B, E
  <2>1. Folded(leaf, path)[n] = E(Folded(leaf, path), n)
    BY <1>5
  <2>2. QED
    BY <2>1 DEF E
<1> HIDE DEF E
<1>7. QED
  BY <1>6

(* The loops of verify_consistency, level by level.                        *)
LEMMA WalkDef ==
  ASSUME NEW old_size, NEW new_size, NEW nodes, NEW seed, NEW used,
         Climbed(old_size) \in Nat
  PROVE
  \A n \in 0 .. MaxLeaves : 
    Walk(old_size, new_size, nodes, seed, used)[n] =
      LET below   == Walk(old_size, new_size, nodes, seed, used)[n - 1]
          node    == PlaceAt(old_size, n - 1)
          last    == PlaceAt(new_size, n - 1)
          sibling == nodes[below.used + 1]
          takes   == last > 0 /\ (node % 2 = 1 \/ HasRightSibling(node, last))
      IN  IF n <= Climbed(old_size)
          THEN [ok |-> TRUE, used |-> used, old |-> seed, new |-> seed]
          ELSE IF ~(below.ok /\ takes) THEN below
          ELSE IF below.used = Len(nodes) THEN [below EXCEPT !.ok = FALSE]
          ELSE IF node % 2 = 1
          THEN [ok |-> TRUE, used |-> below.used + 1,
                old |-> hash_node(sibling, below.old), new |-> hash_node(sibling, below.new)]
          ELSE [ok |-> TRUE, used |-> below.used + 1,
                old |-> below.old, new |-> hash_node(below.new, sibling)]
<1> DEFINE B(g, n) ==
             LET below   == g[n - 1]
                 node    == PlaceAt(old_size, n - 1)
                 last    == PlaceAt(new_size, n - 1)
                 sibling == nodes[below.used + 1]
                 takes   == last > 0 /\ (node % 2 = 1 \/ HasRightSibling(node, last))
             IN  IF n <= Climbed(old_size)
                 THEN [ok |-> TRUE, used |-> used, old |-> seed, new |-> seed]
                 ELSE IF ~(below.ok /\ takes) THEN below
                 ELSE IF below.used = Len(nodes) THEN [below EXCEPT !.ok = FALSE]
                 ELSE IF node % 2 = 1
                 THEN [ok |-> TRUE, used |-> below.used + 1,
                       old |-> hash_node(sibling, below.old), new |-> hash_node(sibling, below.new)]
                 ELSE [ok |-> TRUE, used |-> below.used + 1,
                       old |-> below.old, new |-> hash_node(below.new, sibling)]
           E(g, n) == B(g, n)
           S == {n \in Nat : \E g : g = [i \in 0 .. n |-> E(g, i)]}
<1>1. 0 \in S
  <2> DEFINE g == [i \in 0 .. 0 |-> E(<< >>, i)]
  <2>1. E(g, 0) = E(<< >>, 0)
    <3>1. ASSUME NEW f
          PROVE  E(f, 0) = [ok |-> TRUE, used |-> used, old |-> seed, new |-> seed]
      <4>1. 0 <= Climbed(old_size)
        OBVIOUS
      <4>2. QED
        BY <4>1
    <3> HIDE DEF E, g
    <3>2. QED
      BY <3>1
  <2> HIDE DEF E
  <2>2. g = [i \in 0 .. 0 |-> E(g, i)]
    BY <2>1
  <2> HIDE DEF g
  <2>3. QED
    BY <2>2
<1>2. ASSUME NEW n \in Nat, n \in S PROVE n + 1 \in S
  <2>1. PICK g : g = [i \in 0 .. n |-> E(g, i)]
    BY <1>2
  <2> DEFINE h == [i \in 0 .. n + 1 |-> IF i <= n THEN g[i] ELSE E(g, n + 1)]
  <2>2. ASSUME NEW i \in 0 .. n + 1 PROVE h[i] = E(h, i)
    <3>1. i - 1 \in 0 .. n + 1 => h[i - 1] = g[i - 1]
      OBVIOUS
    <3>2. h[i] = E(g, i)
      <4> HIDE DEF E
      <4>1. i # n + 1 => (i \in 0 .. n /\ g[i] = E(g, i))
        BY <2>1
      <4>2. QED
        BY <4>1
    <3> HIDE DEF h
    <3>3. E(g, i) = E(h, i)
      <4>1. CASE i = 0
        BY <4>1
      <4>2. CASE i # 0
        <5>1. h[i - 1] = g[i - 1]
          BY <3>1, <4>2
        <5>2. QED
          BY <5>1, <4>2
      <4> HIDE DEF E
      <4>3. QED
        BY <4>1, <4>2
    <3>4. QED
      BY <3>2, <3>3
  <2> HIDE DEF E
  <2>3. h = [i \in 0 .. n + 1 |-> E(h, i)]
    BY <2>2
  <2> HIDE DEF h
  <2>4. QED
    BY <2>3
<1>3. MaxLeaves \in S
  <2> HIDE DEF S
  <2> QED BY <1>1, <1>2, Induct, MaxLeavesAssumption
<1>4. Walk(old_size, new_size, nodes, seed, used) = [n \in 0 .. MaxLeaves |-> E(Walk(old_size, new_size, nodes, seed, used), n)]
  BY <1>3 DEF Walk, Size
<1>5. ASSUME NEW n \in 0 .. MaxLeaves PROVE Walk(old_size, new_size, nodes, seed, used)[n] = E(Walk(old_size, new_size, nodes, seed, used), n)
  <2> HIDE DEF E
  <2> QED BY <1>4
<1>6. ASSUME NEW n \in 0 .. MaxLeaves
      PROVE  Walk(old_size, new_size, nodes, seed, used)[n] = B(Walk(old_size, new_size, nodes, seed, used), n)
  <2> HIDE DEF B, E
  <2>1. Walk(old_size, new_size, nodes, seed, used)[n] = E(Walk(old_size, new_size, nodes, seed, used), n)
    BY <1>5
  <2>2. QED
    BY <2>1 DEF E
<1> HIDE DEF E
<1>7. QED
  BY <1>6


-----------------------------------------------------------------------------
(* The reference.                                                          *)

(* The reference hash of no leaf and of one.                               *)
LEMMA HashFew ==
  ASSUME NEW hashes, NEW n \in Size, NEW from \in Size, n <= 1
  PROVE  RangeHash(hashes)[n][from] = IF n = 0 THEN empty_root ELSE hashes[from + 1]
<1> DEFINE k == CHOOSE p \in {Pow2[j] : j \in 0 .. n} : p < n /\ n <= 2 * p
<1>1. n \in Nat
  BY MaxLeavesAssumption DEF Size
<1>2. RangeHash(hashes)[n][from] =
        IF n = 0 THEN empty_root
        ELSE IF n = 1 THEN hashes[from + 1]
        ELSE hash_node(RangeHash(hashes)[k][from], RangeHash(hashes)[n - k][from + k])
  BY RangeHashDef DEF Size
<1> HIDE DEF k
<1>3. QED
  BY <1>1, <1>2

(* A range is hashed from its two parts.                                   *)
LEMMA HashParts ==
  ASSUME NEW hashes, NEW n \in Size, NEW from \in Size, n > 1
  PROVE  RangeHash(hashes)[n][from] =
           hash_node(RangeHash(hashes)[split_point(n)][from],
                     RangeHash(hashes)[n - split_point(n)][from + split_point(n)])
<1> DEFINE k == CHOOSE p \in {Pow2[j] : j \in 0 .. n} : p < n /\ n <= 2 * p
<1>1. n \in Nat
  BY MaxLeavesAssumption DEF Size
<1>2. k = split_point(n)
  BY <1>1, RfcSplit
<1>3. RangeHash(hashes)[n][from] =
        IF n = 0 THEN empty_root
        ELSE IF n = 1 THEN hashes[from + 1]
        ELSE hash_node(RangeHash(hashes)[k][from], RangeHash(hashes)[n - k][from + k])
  BY RangeHashDef DEF Size
<1> HIDE DEF k
<1>4. QED
  BY <1>1, <1>2, <1>3

(* Two nodes are equal exactly when their children are (hash_node).        *)
LEMMA NodesEqual ==
  ASSUME NEW a, NEW b, NEW c, NEW d
  PROVE  hash_node(a, b) = hash_node(c, d) <=> a = c /\ b = d
  BY DEF hash_node

SameLeaves(n, a, s, b, t) == \A i \in 1 .. n : a[s + i] = b[t + i]

(* Two ranges of equal length have the same hash exactly when they hold    *)
(* the same leaves.                                                        *)
LEMMA HashesAgree ==
  ASSUME NEW a, NEW b
  PROVE  \A n, s, t \in Size :
           s + n <= MaxLeaves /\ t + n <= MaxLeaves =>
             (RangeHash(a)[n][s] = RangeHash(b)[n][t] <=> SameLeaves(n, a, s, b, t))
<1> DEFINE P(n) == \A s, t \in Size :
                     s + n <= MaxLeaves /\ t + n <= MaxLeaves =>
                       (RangeHash(a)[n][s] = RangeHash(b)[n][t]
                          <=> \A i \in 1 .. n : a[s + i] = b[t + i])
           S == {m \in Nat : \A n \in 0 .. m : n <= MaxLeaves => P(n)}
<1>0. MaxLeaves \in Nat
  BY MaxLeavesAssumption
<1>1. P(0)
  BY HashFew, <1>0 DEF Size
<1>2. ASSUME 1 <= MaxLeaves PROVE P(1)
  <2> SUFFICES ASSUME NEW s \in Size, NEW t \in Size
               PROVE  RangeHash(a)[1][s] = RangeHash(b)[1][t]
                        <=> \A i \in 1 .. 1 : a[s + i] = b[t + i]
    OBVIOUS
  <2>1. RangeHash(a)[1][s] = a[s + 1] /\ RangeHash(b)[1][t] = b[t + 1]
    BY <1>0, <1>2, HashFew DEF Size
  <2>2. QED
    BY <2>1
<1>3. ASSUME NEW m \in Nat, m \in S, m + 1 <= MaxLeaves, m + 1 > 1 PROVE P(m + 1)
  <2> SUFFICES ASSUME NEW s \in Size, NEW t \in Size, s + m + 1 <= MaxLeaves, t + m + 1 <= MaxLeaves
               PROVE  RangeHash(a)[m + 1][s] = RangeHash(b)[m + 1][t]
                        <=> \A i \in 1 .. m + 1 : a[s + i] = b[t + i]
    BY DEF Size
  <2> DEFINE n == m + 1
             k == split_point(n)
  <2>1. k \in 1 .. n - 1 /\ n - k \in 1 .. n - 1
    BY <1>3, SplitSize
  <2> HIDE DEF k
  <2>2. s + k \in Size /\ t + k \in Size /\ s \in Nat /\ t \in Nat /\ k \in Size /\ n - k \in Size
    BY <1>0, <2>1 DEF Size
  <2>3. P(k) /\ P(n - k)
    <3> HIDE DEF P
    <3>1. \A j \in 0 .. m : j <= MaxLeaves => P(j)
      BY <1>3
    <3>2. k \in 0 .. m /\ n - k \in 0 .. m
      BY <2>1
    <3>3. QED
      BY <3>1, <3>2, <2>2, <1>0 DEF Size
  <2>4. RangeHash(a)[k][s] = RangeHash(b)[k][t] <=> \A i \in 1 .. k : a[s + i] = b[t + i]
    <3>1. s + k <= MaxLeaves /\ t + k <= MaxLeaves
      BY <1>0, <2>1, <2>2
    <3>2. QED
      BY <2>3, <3>1
  <2>5. RangeHash(a)[n - k][s + k] = RangeHash(b)[n - k][t + k]
          <=> \A i \in 1 .. n - k : a[(s + k) + i] = b[(t + k) + i]
    <3>1. (s + k) + (n - k) <= MaxLeaves /\ (t + k) + (n - k) <= MaxLeaves
      BY <1>0, <2>1, <2>2
    <3>2. QED
      BY <2>3, <2>2, <3>1
  <2>6. /\ RangeHash(a)[n][s] = hash_node(RangeHash(a)[k][s], RangeHash(a)[n - k][s + k])
        /\ RangeHash(b)[n][t] = hash_node(RangeHash(b)[k][t], RangeHash(b)[n - k][t + k])
    <3>1. n \in Size /\ n > 1 /\ s + n <= MaxLeaves /\ t + n <= MaxLeaves
      BY <1>0, <1>3 DEF Size
    <3> HIDE DEF n
    <3>2. QED
      BY <3>1, HashParts DEF k
  <2>7. ASSUME \A i \in 1 .. k : a[s + i] = b[t + i],
               \A i \in 1 .. n - k : a[(s + k) + i] = b[(t + k) + i],
               NEW i \in 1 .. n
        PROVE  a[s + i] = b[t + i]
    <3>1. CASE i <= k
      BY <2>1, <2>7, <3>1
    <3>2. CASE i > k
      <4>1. i - k \in 1 .. n - k /\ (s + k) + (i - k) = s + i /\ (t + k) + (i - k) = t + i
        BY <2>1, <2>2, <3>2
      <4>2. QED
        BY <2>7, <4>1
    <3>3. QED
      BY <2>1, <3>1, <3>2
  <2>8. ASSUME \A i \in 1 .. n : a[s + i] = b[t + i]
        PROVE  /\ \A i \in 1 .. k : a[s + i] = b[t + i]
               /\ \A i \in 1 .. n - k : a[(s + k) + i] = b[(t + k) + i]
    <3>1. ASSUME NEW i \in 1 .. n - k PROVE a[(s + k) + i] = b[(t + k) + i]
      <4>1. k + i \in 1 .. n /\ s + (k + i) = (s + k) + i /\ t + (k + i) = (t + k) + i
        BY <2>1, <2>2
      <4>2. QED
        BY <2>8, <4>1
    <3>2. QED
      BY <2>1, <2>8, <3>1
  <2>9. RangeHash(a)[n][s] = RangeHash(b)[n][t]
          <=> RangeHash(a)[k][s] = RangeHash(b)[k][t]
              /\ RangeHash(a)[n - k][s + k] = RangeHash(b)[n - k][t + k]
    BY <2>6, NodesEqual
  <2>10. QED
    BY <2>4, <2>5, <2>7, <2>8, <2>9
<1>4. ASSUME NEW m \in Nat, m \in S PROVE m + 1 \in S
  <2> HIDE DEF P
  <2>1. m + 1 <= MaxLeaves => P(m + 1)
    BY <1>2, <1>3, <1>4
  <2>2. QED
    BY <1>4, <2>1
<1>5. MaxLeaves \in S
  <2>1. 0 \in S
    <3> HIDE DEF P
    <3> QED BY <1>1
  <2> HIDE DEF S
  <2>2. QED
    BY <1>0, <1>4, <2>1, Induct
<1> HIDE DEF P
<1>6. \A n \in Size : P(n)
  BY <1>0, <1>5 DEF Size
<1>7. QED
  BY <1>6 DEF P, SameLeaves

-----------------------------------------------------------------------------
(* The memo.                                                               *)

LeafHash == {hash_leaf(r) : r \in Leaf}

(* What a memo may hold.                                                   *)
Fresh(memo) ==
  /\ DOMAIN memo \subseteq Size \X Size
  /\ \A key \in DOMAIN memo :
       /\ key[1] + key[2] <= Len(leaf_hashes)
       /\ memo[key] = RangeHash(leaf_hashes)[key[2]][key[1]]

(* The inductive invariant.                                                *)
TreeInv ==
  /\ leaf_hashes \in Seq(LeafHash)
  /\ Len(leaf_hashes) <= MaxLeaves
  /\ Fresh(subtree_cache)

(* The memo starts fresh, and stays so when fresh entries are inserted     *)
(* (subtree_cache).                                                        *)
LEMMA NothingIsFresh == Fresh(<< >>)
<1>1. DOMAIN << >> = {}
  OBVIOUS
<1>2. QED
  BY <1>1 DEF Fresh

(* Fresh entries over fresh entries are fresh (the inserts of the memo).   *)
LEMMA BothFresh ==
  ASSUME NEW late, NEW early, Fresh(late), Fresh(early)
  PROVE  Fresh(Over(late, early))
  BY DEF Fresh, Over

(* What a reader computes is the reference, whatever earlier readers left  *)
(* in the memo, and what it adds to the memo is as fresh.                  *)
LEMMA SubtreeIs ==
  ASSUME TreeInv
  PROVE  \A n, start \in Size :
           start + n <= Len(leaf_hashes) =>
             /\ Subtree[n][start].result = RangeHash(leaf_hashes)[n][start]
             /\ Fresh(Subtree[n][start].memo)
<1> DEFINE P(n) == \A start \in Size :
                     start + n <= Len(leaf_hashes) =>
                       /\ Subtree[n][start].result = RangeHash(leaf_hashes)[n][start]
                       /\ Fresh(Subtree[n][start].memo)
           S == {m \in Nat : \A n \in 0 .. m : n <= MaxLeaves => P(n)}
<1>0. MaxLeaves \in Nat /\ Len(leaf_hashes) \in Nat /\ Len(leaf_hashes) <= MaxLeaves
  BY MaxLeavesAssumption, LenProperties DEF TreeInv
<1>1. ASSUME NEW n \in Size, n <= 1 PROVE P(n)
  <2> SUFFICES ASSUME NEW start \in Size, start + n <= Len(leaf_hashes)
               PROVE  /\ Subtree[n][start].result = RangeHash(leaf_hashes)[n][start]
                      /\ Fresh(Subtree[n][start].memo)
    OBVIOUS
  <2> DEFINE value == IF n = 0 THEN empty_root ELSE leaf_hashes[start + 1]
  <2>1. Subtree[n][start] = [result |-> value, memo |-> << >>]
    <3> DEFINE k == split_point(n)
               key == CacheKey(start, n)
               left == Subtree[k][start]
               right == Subtree[n - k][start + k]
               h == hash_node(left.result, right.result)
               below == Over(right.memo, left.memo)
               more == IF Perfect(start, n) /\ key \in DOMAIN subtree_cache
                       THEN [result |-> subtree_cache[key], memo |-> << >>]
                       ELSE [result |-> h,
                             memo   |-> IF Perfect(start, n) THEN Over([added \in {key} |-> h], below)
                                        ELSE below]
    <3>1. n \in 0 .. MaxLeaves
      BY DEF Size
    <3>2. Subtree[n][start] = IF n = 0 THEN [result |-> empty_root, memo |-> << >>]
                              ELSE IF n = 1 THEN [result |-> leaf_hashes[start + 1], memo |-> << >>]
                              ELSE more
      BY <3>1, SubtreeDef
    <3> HIDE DEF more
    <3>3. QED
      BY <1>1, <3>1, <3>2
  <2>2. RangeHash(leaf_hashes)[n][start] = value
    BY <1>1, HashFew
  <2> HIDE DEF value
  <2>3. QED
    BY <2>1, <2>2, NothingIsFresh
<1>2. ASSUME NEW n \in Size, n > 1, \A j \in 0 .. n - 1 : P(j) PROVE P(n)
  <2> SUFFICES ASSUME NEW start \in Size, start + n <= Len(leaf_hashes)
               PROVE  /\ Subtree[n][start].result = RangeHash(leaf_hashes)[n][start]
                      /\ Fresh(Subtree[n][start].memo)
    OBVIOUS
  <2> DEFINE k == split_point(n)
             key == CacheKey(start, n)
             left == Subtree[k][start]
             right == Subtree[n - k][start + k]
             h == hash_node(left.result, right.result)
             below == Over(right.memo, left.memo)
             added == [one \in {key} |-> h]
  <2>0. n \in Nat /\ start \in Nat
    BY <1>0 DEF Size
  <2>1. Subtree[n][start] =
          IF Perfect(start, n) /\ key \in DOMAIN subtree_cache
          THEN [result |-> subtree_cache[key], memo |-> << >>]
          ELSE [result |-> h, memo |-> IF Perfect(start, n) THEN Over(added, below) ELSE below]
    <3>1. Subtree[n][start] =
            IF n = 0 THEN [result |-> empty_root, memo |-> << >>]
            ELSE IF n = 1 THEN [result |-> leaf_hashes[start + 1], memo |-> << >>]
            ELSE IF Perfect(start, n) /\ key \in DOMAIN subtree_cache
            THEN [result |-> subtree_cache[key], memo |-> << >>]
            ELSE [result |-> h, memo |-> IF Perfect(start, n) THEN Over(added, below) ELSE below]
      <4> n \in 0 .. MaxLeaves
        BY DEF Size
      <4> QED BY SubtreeDef
    <3> HIDE DEF k, key, left, right, h, below, added
    <3>2. QED
      BY <1>2, <2>0, <3>1
  <2>2. k \in 1 .. n - 1 /\ n - k \in 1 .. n - 1
    BY <1>2, <2>0, SplitSize
  <2>3. RangeHash(leaf_hashes)[n][start] =
          hash_node(RangeHash(leaf_hashes)[k][start], RangeHash(leaf_hashes)[n - k][start + k])
    BY <1>2, HashParts
  <2>4. key = <<start, n>>
    BY DEF CacheKey
  <2> HIDE DEF k, key
  <2>5. P(k) /\ P(n - k)
    <3> HIDE DEF P
    <3>1. QED
      BY <1>2, <2>0, <2>2
  <2>6. left.result = RangeHash(leaf_hashes)[k][start] /\ Fresh(left.memo)
    <3>1. start + k <= Len(leaf_hashes)
      BY <1>0, <2>0, <2>2
    <3>2. QED
      BY <2>5, <3>1
  <2>7. right.result = RangeHash(leaf_hashes)[n - k][start + k] /\ Fresh(right.memo)
    <3>1. start + k \in Size /\ (start + k) + (n - k) <= Len(leaf_hashes)
      BY <1>0, <2>0, <2>2 DEF Size
    <3>2. QED
      BY <2>5, <3>1
  <2> HIDE DEF left, right
  <2>8. h = RangeHash(leaf_hashes)[n][start] /\ Fresh(below)
    BY <2>3, <2>6, <2>7, BothFresh
  <2> HIDE DEF h, below
  <2>9. Fresh(added)
    <3>1. /\ key \in Size \X Size /\ key[1] = start /\ key[2] = n
          /\ start + n <= Len(leaf_hashes)
      BY <2>4
    <3>2. DOMAIN added = {key} /\ added[key] = h
      OBVIOUS
    <3> HIDE DEF added
    <3>3. QED
      BY <2>8, <3>1, <3>2 DEF Fresh
  <2> HIDE DEF added
  <2>10. Fresh(Over(added, below))
    BY <2>8, <2>9, BothFresh
  <2>11. key \in DOMAIN subtree_cache => subtree_cache[key] = RangeHash(leaf_hashes)[n][start]
    BY <2>4 DEF TreeInv, Fresh
  <2>12. QED
    BY <2>1, <2>8, <2>10, <2>11, NothingIsFresh
<1>3. ASSUME NEW m \in Nat, m \in S PROVE m + 1 \in S
  <2> HIDE DEF P
  <2>1. m + 1 <= MaxLeaves => P(m + 1)
    BY <1>0, <1>1, <1>2, <1>3 DEF Size
  <2>2. QED
    BY <1>3, <2>1
<1>4. MaxLeaves \in S
  <2>1. 0 \in S
    <3> HIDE DEF P
    <3> QED BY <1>0, <1>1 DEF Size
  <2> HIDE DEF S
  <2>2. QED
    BY <1>0, <1>3, <2>1, Induct
<1> HIDE DEF P
<1>5. \A n \in Size : P(n)
  BY <1>0, <1>4 DEF Size
<1>6. QED
  BY <1>5 DEF P

-----------------------------------------------------------------------------
(* Audit paths.                                                            *)

(* Both parts of a range are half as deep.                                 *)
LEMMA SplitHalves ==
  ASSUME NEW n \in Nat, n > 1, NEW i \in Nat, n <= Pow2[i]
  PROVE  i > 0 /\ split_point(n) <= Pow2[i - 1] /\ n - split_point(n) <= Pow2[i - 1]
<1>1. PICK d \in 0 .. n : split_point(n) = Pow2[d] /\ split_point(n) < n /\ n <= 2 * split_point(n)
  BY SplitIs DEF Splits
<1>2. d \in Nat /\ Pow2[d] \in Nat /\ Pow2[i] \in Nat
  BY Pow2Nat
<1>3. d < i
  <2>1. CASE i < d
    <3>1. 2 * Pow2[i] <= Pow2[d]
      BY <1>2, <2>1, Pow2Grows
    <3>2. QED
      BY <1>1, <1>2, <3>1
  <2>2. CASE i = d
    BY <1>1, <1>2, <2>2
  <2>3. QED
    BY <1>2, <2>1, <2>2
<1>4. 2 * Pow2[d] <= Pow2[i]
  BY <1>2, <1>3, Pow2Grows
<1>5. Pow2[i] = 2 * Pow2[i - 1] /\ Pow2[i - 1] \in Nat
  <2>1. i - 1 \in Nat /\ i # 0
    BY <1>2, <1>3
  <2>2. QED
    BY <2>1, Pow2Def, Pow2Nat
<1>6. QED
  BY <1>1, <1>2, <1>3, <1>4, <1>5

(* The fold along a path that is one step longer (verify_inclusion).       *)
LEMMA FoldAppend ==
  ASSUME NEW S, NEW path \in Seq(S), NEW step \in S, NEW leaf
  PROVE  LET below == Folded(leaf, path)[Len(path)]
         IN  Folded(leaf, Append(path, step))[Len(path) + 1] =
               IF step.sibling_is_left THEN hash_node(step.sibling, below)
               ELSE hash_node(below, step.sibling)
<1> DEFINE longer == Append(path, step)
           T == {i \in Nat : i <= Len(path) => Folded(leaf, longer)[i] = Folded(leaf, path)[i]}
<1>1. /\ Len(path) \in Nat
      /\ Len(longer) = Len(path) + 1
      /\ longer[Len(path) + 1] = step
      /\ \A i \in 1 .. Len(path) : longer[i] = path[i]
  BY AppendProperties, LenProperties
<1> HIDE DEF longer
<1>2. \A n \in 0 .. Len(path) + 1 :
        Folded(leaf, longer)[n] =
          IF n = 0 THEN leaf
          ELSE IF longer[n].sibling_is_left
          THEN hash_node(longer[n].sibling, Folded(leaf, longer)[n - 1])
          ELSE hash_node(Folded(leaf, longer)[n - 1], longer[n].sibling)
  <2>1. Len(longer) \in Nat
    BY <1>1
  <2>2. QED
    BY <1>1, <2>1, FoldedDef
<1>3. \A n \in 0 .. Len(path) :
        Folded(leaf, path)[n] =
          IF n = 0 THEN leaf
          ELSE IF path[n].sibling_is_left
          THEN hash_node(path[n].sibling, Folded(leaf, path)[n - 1])
          ELSE hash_node(Folded(leaf, path)[n - 1], path[n].sibling)
  BY <1>1, FoldedDef
<1>4. 0 \in T
  BY <1>1, <1>2, <1>3
<1>5. ASSUME NEW i \in Nat, i \in T PROVE i + 1 \in T
  <2> SUFFICES ASSUME i + 1 <= Len(path)
               PROVE  Folded(leaf, longer)[i + 1] = Folded(leaf, path)[i + 1]
    OBVIOUS
  <2>1. /\ i + 1 \in 0 .. Len(path) + 1 /\ i + 1 \in 0 .. Len(path) /\ i + 1 # 0 /\ (i + 1) - 1 = i
        /\ longer[i + 1] = path[i + 1]
        /\ Folded(leaf, longer)[i] = Folded(leaf, path)[i]
    BY <1>1, <1>5
  <2>2. QED
    BY <1>2, <1>3, <2>1
<1>6. Folded(leaf, longer)[Len(path)] = Folded(leaf, path)[Len(path)]
  <2>1. \A i \in Nat : i \in T
    <3> HIDE DEF T
    <3> QED BY <1>4, <1>5, Induct
  <2>2. QED
    BY <1>1, <2>1
<1>7. Folded(leaf, longer)[Len(path) + 1] =
        IF longer[Len(path) + 1].sibling_is_left
        THEN hash_node(longer[Len(path) + 1].sibling, Folded(leaf, longer)[Len(path)])
        ELSE hash_node(Folded(leaf, longer)[Len(path)], longer[Len(path) + 1].sibling)
  <2>1. /\ Len(path) + 1 \in 0 .. Len(path) + 1 /\ Len(path) + 1 # 0
        /\ (Len(path) + 1) - 1 = Len(path)
    BY <1>1
  <2>2. QED
    BY <1>2, <2>1
<1>8. QED
  BY <1>1, <1>6, <1>7 DEF longer

Digest == {RangeHash(leaf_hashes)[n][from] : n, from \in Size}

PathStep == [sibling : Digest, sibling_is_left : BOOLEAN]

(* The path of a leaf in a range: it rebuilds the hash of the range from   *)
(* that leaf and from no other, and it is as long as the range is deep.    *)
IsPathOf(path, n, start, index) ==
  /\ path \in Seq(PathStep)
  /\ \A x : Folded(x, path)[Len(path)] = RangeHash(leaf_hashes)[n][start]
              <=> x = leaf_hashes[start + index + 1]
  /\ \A i \in Nat : n <= Pow2[i] => Len(path) <= i

(* One step more, on either side.                                          *)
LEMMA PathOnTop ==
  ASSUME NEW n \in Nat, n > 1, NEW start, NEW index \in Nat, NEW left \in BOOLEAN,
         NEW path, NEW sibling \in Digest, NEW part, NEW from, NEW at,
         part = IF left THEN n - split_point(n) ELSE split_point(n),
         IsPathOf(path, part, from, at),
         from + at + 1 = start + index + 1,
         RangeHash(leaf_hashes)[n][start] =
           IF left THEN hash_node(sibling, RangeHash(leaf_hashes)[part][from])
           ELSE hash_node(RangeHash(leaf_hashes)[part][from], sibling)
  PROVE  IsPathOf(Append(path, [sibling |-> sibling, sibling_is_left |-> left]), n, start, index)
<1> DEFINE step == [sibling |-> sibling, sibling_is_left |-> left]
           longer == Append(path, step)
<1>1. step \in PathStep /\ step.sibling = sibling /\ step.sibling_is_left = left
  BY DEF PathStep
<1> HIDE DEF step
<1>2. path \in Seq(PathStep)
  BY DEF IsPathOf
<1>3. longer \in Seq(PathStep) /\ Len(longer) = Len(path) + 1 /\ Len(path) \in Nat
  BY <1>1, <1>2, AppendProperties, LenProperties
<1>4. ASSUME NEW x
      PROVE  Folded(x, longer)[Len(longer)] = RangeHash(leaf_hashes)[n][start]
               <=> x = leaf_hashes[start + index + 1]
  <2> DEFINE below == Folded(x, path)[Len(path)]
  <2>1. Folded(x, longer)[Len(path) + 1] =
          IF left THEN hash_node(sibling, below) ELSE hash_node(below, sibling)
    BY <1>1, <1>2, FoldAppend
  <2>2. below = RangeHash(leaf_hashes)[part][from] <=> x = leaf_hashes[from + at + 1]
    BY DEF IsPathOf
  <2> HIDE DEF below, longer
  <2>3. QED
    BY <1>3, <2>1, <2>2, NodesEqual
<1>5. ASSUME NEW i \in Nat, n <= Pow2[i] PROVE Len(longer) <= i
  <2>1. i > 0 /\ part <= Pow2[i - 1]
    BY <1>5, SplitHalves
  <2>2. i - 1 \in Nat
    BY <2>1
  <2>3. Len(path) <= i - 1
    BY <2>1, <2>2 DEF IsPathOf
  <2>4. QED
    BY <1>3, <2>1, <2>3
<1> HIDE DEF longer
<1>6. IsPathOf(longer, n, start, index)
  BY <1>3, <1>4, <1>5 DEF IsPathOf
<1>7. QED
  BY <1>6 DEF longer, step

(* The path that a log makes for a leaf of a range (subtree_path), and     *)
(* what making it adds to the memo.                                        *)
LEMMA PathIs ==
  ASSUME TreeInv
  PROVE  \A n, start, index \in Size :
           start + n <= Len(leaf_hashes) /\ index < n =>
             /\ IsPathOf(SubtreePath[n][start][index].result, n, start, index)
             /\ Fresh(SubtreePath[n][start][index].memo)
<1> DEFINE P(n) == \A start, index \in Size :
                     start + n <= Len(leaf_hashes) /\ index < n =>
                       /\ IsPathOf(SubtreePath[n][start][index].result, n, start, index)
                       /\ Fresh(SubtreePath[n][start][index].memo)
           S == {m \in Nat : \A n \in 0 .. m : n <= MaxLeaves => P(n)}
<1>0. MaxLeaves \in Nat /\ Len(leaf_hashes) \in Nat /\ Len(leaf_hashes) <= MaxLeaves
  BY MaxLeavesAssumption, LenProperties DEF TreeInv
<1>1. ASSUME NEW n \in Size, n <= 1 PROVE P(n)
  <2> SUFFICES ASSUME NEW start \in Size, NEW index \in Size, start + n <= Len(leaf_hashes), index < n
               PROVE  /\ IsPathOf(SubtreePath[n][start][index].result, n, start, index)
                      /\ Fresh(SubtreePath[n][start][index].memo)
    OBVIOUS
  <2>1. n = 1 /\ index = 0 /\ start \in Nat
    BY <1>0, <1>1 DEF Size
  <2>2. SubtreePath[n][start][index] = NoNodes
    <3> DEFINE k == split_point(n)
               more == IF GoesLeft(index, k)
                       THEN Step(SubtreePath[k][start][index], Subtree[n - k][start + k], FALSE)
                       ELSE Step(SubtreePath[n - k][start + k][index - k], Subtree[k][start], TRUE)
    <3>1. n \in 0 .. MaxLeaves
      BY DEF Size
    <3>2. SubtreePath[n][start][index] = IF n <= 1 THEN [result |-> << >>, memo |-> << >>] ELSE more
      BY <3>1, PathDef
    <3> HIDE DEF more
    <3>3. QED
      BY <2>1, <3>2 DEF NoNodes
  <2>3. RangeHash(leaf_hashes)[n][start] = leaf_hashes[start + 1]
    BY <2>1, HashFew
  <2>4. << >> \in Seq(PathStep) /\ Len(<< >>) = 0
    OBVIOUS
  <2>5. ASSUME NEW x PROVE Folded(x, << >>)[0] = x
    BY <2>4, FoldedDef
  <2>6. IsPathOf(<< >>, n, start, index)
    BY <2>1, <2>3, <2>4, <2>5 DEF IsPathOf
  <2>7. QED
    BY <2>2, <2>6, NothingIsFresh DEF NoNodes
<1>2. ASSUME NEW n \in Size, n > 1, \A j \in 0 .. n - 1 : P(j) PROVE P(n)
  <2> SUFFICES ASSUME NEW start \in Size, NEW index \in Size, start + n <= Len(leaf_hashes), index < n
               PROVE  /\ IsPathOf(SubtreePath[n][start][index].result, n, start, index)
                      /\ Fresh(SubtreePath[n][start][index].memo)
    OBVIOUS
  <2> DEFINE k == split_point(n)
             rest == n - k
             L == SubtreePath[k][start][index]
             R == SubtreePath[rest][start + k][index - k]
  <2>0. n \in Nat /\ start \in Nat /\ index \in Nat /\ ~(n <= 1)
    BY <1>0, <1>2 DEF Size
  <2>1. SubtreePath[n][start][index] =
          IF GoesLeft(index, k) THEN Step(L, Subtree[rest][start + k], FALSE)
          ELSE Step(R, Subtree[k][start], TRUE)
    <3>1. SubtreePath[n][start][index] =
            IF n <= 1 THEN [result |-> << >>, memo |-> << >>]
            ELSE IF GoesLeft(index, k) THEN Step(L, Subtree[rest][start + k], FALSE)
            ELSE Step(R, Subtree[k][start], TRUE)
      <4> n \in 0 .. MaxLeaves
        BY DEF Size
      <4> QED BY PathDef
    <3> HIDE DEF k, rest, L, R
    <3>2. QED
      BY <2>0, <3>1
  <2>2. k \in 1 .. n - 1 /\ rest \in 1 .. n - 1 /\ rest = n - k
    BY <1>2, <2>0, SplitSize
  <2>3. RangeHash(leaf_hashes)[n][start] =
          hash_node(RangeHash(leaf_hashes)[k][start], RangeHash(leaf_hashes)[rest][start + k])
    BY <1>2, HashParts
  <2>4. /\ k \in Size /\ rest \in Size /\ start + k \in Size
        /\ start + k <= Len(leaf_hashes) /\ (start + k) + rest <= Len(leaf_hashes)
    BY <1>0, <2>0, <2>2 DEF Size
  <2>5. /\ Subtree[k][start].result = RangeHash(leaf_hashes)[k][start]
        /\ Fresh(Subtree[k][start].memo)
        /\ Subtree[rest][start + k].result = RangeHash(leaf_hashes)[rest][start + k]
        /\ Fresh(Subtree[rest][start + k].memo)
    <3> HIDE DEF k, rest
    <3> QED BY <2>4, SubtreeIs
  <2>6. P(k) /\ P(rest)
    <3> HIDE DEF P, k, rest
    <3> QED BY <1>2, <2>0, <2>2
  <2>7. /\ RangeHash(leaf_hashes)[k][start] \in Digest
        /\ RangeHash(leaf_hashes)[rest][start + k] \in Digest
    <3> HIDE DEF k, rest
    <3> QED BY <2>4 DEF Digest
  <2>8. CASE GoesLeft(index, k)
    <3>1. index < k
      BY <2>8 DEF GoesLeft
    <3>2. IsPathOf(L.result, k, start, index) /\ Fresh(L.memo)
      <4> HIDE DEF k
      <4> QED BY <2>4, <2>6, <3>1
    <3>3. IsPathOf(Append(L.result, [sibling |-> RangeHash(leaf_hashes)[rest][start + k],
                                     sibling_is_left |-> FALSE]), n, start, index)
      <4>1. k = IF FALSE THEN n - split_point(n) ELSE split_point(n)
        OBVIOUS
      <4> HIDE DEF k, rest, L
      <4>2. QED
        BY <1>2, <2>0, <2>3, <2>7, <3>2, <4>1, PathOnTop
    <3> HIDE DEF k, rest, L, R
    <3>4. SubtreePath[n][start][index] = Step(L, Subtree[rest][start + k], FALSE)
      BY <2>1, <2>8
    <3>5. QED
      BY <2>5, <3>2, <3>3, <3>4, BothFresh DEF Step
  <2>9. CASE ~GoesLeft(index, k)
    <3>1. index - k \in Size /\ index - k < rest
      <4>1. ~(index < k)
        BY <2>9 DEF GoesLeft
      <4> HIDE DEF k, rest
      <4>2. QED
        BY <1>0, <2>0, <2>2, <4>1 DEF Size
    <3>2. IsPathOf(R.result, rest, start + k, index - k) /\ Fresh(R.memo)
      <4> HIDE DEF k, rest
      <4> QED BY <2>4, <2>6, <3>1
    <3>3. IsPathOf(Append(R.result, [sibling |-> RangeHash(leaf_hashes)[k][start],
                                     sibling_is_left |-> TRUE]), n, start, index)
      <4>1. rest = IF TRUE THEN n - split_point(n) ELSE split_point(n)
        OBVIOUS
      <4>2. (start + k) + (index - k) + 1 = start + index + 1
        <5> HIDE DEF k
        <5> QED BY <2>0, <2>2
      <4> HIDE DEF k, rest, R
      <4>3. QED
        BY <1>2, <2>0, <2>3, <2>7, <3>2, <4>1, <4>2, PathOnTop
    <3> HIDE DEF k, rest, L, R
    <3>4. SubtreePath[n][start][index] = Step(R, Subtree[k][start], TRUE)
      BY <2>1, <2>9
    <3>5. QED
      BY <2>5, <3>2, <3>3, <3>4, BothFresh DEF Step
  <2>10. QED
    BY <2>8, <2>9
<1>3. ASSUME NEW m \in Nat, m \in S PROVE m + 1 \in S
  <2> HIDE DEF P
  <2>1. m + 1 <= MaxLeaves => P(m + 1)
    BY <1>0, <1>1, <1>2, <1>3 DEF Size
  <2>2. QED
    BY <1>3, <2>1
<1>4. MaxLeaves \in S
  <2>1. 0 \in S
    <3> HIDE DEF P
    <3> QED BY <1>0, <1>1 DEF Size
  <2> HIDE DEF S
  <2>2. QED
    BY <1>0, <1>3, <2>1, Induct
<1> HIDE DEF P
<1>5. \A n \in Size : P(n)
  BY <1>0, <1>4 DEF Size
<1>6. QED
  BY <1>5 DEF P

(* What making a consistency proof adds to the memo (subproof).            *)
LEMMA SubproofMemo ==
  ASSUME TreeInv
  PROVE  \A n, start \in Size : \A m \in 1 .. n : \A known \in BOOLEAN :
           start + n <= Len(leaf_hashes) => Fresh(Subproof[n][start][m][known].memo)
<1> DEFINE P(n) == \A start \in Size : \A m \in 1 .. n : \A known \in BOOLEAN :
                     start + n <= Len(leaf_hashes) => Fresh(Subproof[n][start][m][known].memo)
           S == {m \in Nat : \A n \in 0 .. m : n <= MaxLeaves => P(n)}
<1>0. MaxLeaves \in Nat /\ Len(leaf_hashes) \in Nat /\ Len(leaf_hashes) <= MaxLeaves
  BY MaxLeavesAssumption, LenProperties DEF TreeInv
<1>1. ASSUME NEW n \in Size, \A j \in 0 .. n - 1 : P(j) PROVE P(n)
  <2> SUFFICES ASSUME NEW start \in Size, NEW m \in 1 .. n, NEW known \in BOOLEAN,
                      start + n <= Len(leaf_hashes)
               PROVE  Fresh(Subproof[n][start][m][known].memo)
    OBVIOUS
  <2> DEFINE k == split_point(n)
             rest == n - k
             L == Subproof[k][start][m][known]
             R == Subproof[rest][start + k][m - k][FALSE]
  <2>0. n \in Nat /\ start \in Nat /\ m \in Nat /\ n >= 1
    BY <1>0 DEF Size
  <2>1. Subproof[n][start][m][known] =
          IF m = n THEN IF known THEN NoNodes ELSE Node(NoNodes, Subtree[n][start])
          ELSE IF m <= k THEN Node(L, Subtree[rest][start + k]) ELSE Node(R, Subtree[k][start])
    <3> n \in 0 .. MaxLeaves
      BY DEF Size
    <3> QED BY SubproofDef
  <2>2. ASSUME NEW below, NEW part \in Size, NEW from \in Size, part + from <= Len(leaf_hashes),
               Fresh(below.memo)
        PROVE  Fresh(Node(below, Subtree[part][from]).memo)
    <3>1. Fresh(Subtree[part][from].memo)
      BY <1>0, <2>2, SubtreeIs DEF Size
    <3>2. QED
      BY <2>2, <3>1, BothFresh DEF Node
  <2>3. Fresh(NoNodes.memo)
    BY NothingIsFresh DEF NoNodes
  <2>4. CASE m = n
    <3>1. Fresh(Node(NoNodes, Subtree[n][start]).memo)
      BY <2>0, <2>2, <2>3
    <3> HIDE DEF k, rest, L, R
    <3>2. QED
      BY <2>1, <2>3, <2>4, <3>1
  <2>5. CASE m # n
    <3>1. k \in 1 .. n - 1 /\ rest \in 1 .. n - 1 /\ rest = n - k
      BY <2>0, <2>5, SplitSize
    <3>2. P(k) /\ P(rest)
      <4> HIDE DEF P, k, rest
      <4> QED BY <1>1, <2>0, <3>1
    <3>3. CASE m <= k
      <4>1. Fresh(L.memo)
        <5> HIDE DEF k
        <5>1. m \in 1 .. k /\ start + k <= Len(leaf_hashes)
          BY <1>0, <2>0, <3>1, <3>3
        <5>2. QED
          BY <3>2, <5>1
      <4> HIDE DEF k, rest, L, R
      <4>2. rest \in Size /\ start + k \in Size /\ rest + (start + k) <= Len(leaf_hashes)
        BY <1>0, <2>0, <3>1 DEF Size
      <4>3. Fresh(Node(L, Subtree[rest][start + k]).memo)
        BY <2>2, <4>1, <4>2
      <4>4. QED
        BY <2>1, <2>5, <3>3, <4>3
    <3>4. CASE ~(m <= k)
      <4>1. Fresh(R.memo)
        <5> HIDE DEF k, rest
        <5>1. m - k \in 1 .. rest /\ start + k \in Size /\ (start + k) + rest <= Len(leaf_hashes)
          BY <1>0, <2>0, <3>1, <3>4 DEF Size
        <5>2. QED
          BY <3>2, <5>1
      <4> HIDE DEF k, rest, L, R
      <4>2. k \in Size /\ k + start <= Len(leaf_hashes)
        BY <1>0, <2>0, <3>1 DEF Size
      <4>3. Fresh(Node(R, Subtree[k][start]).memo)
        BY <2>2, <4>1, <4>2
      <4>4. QED
        BY <2>1, <2>5, <3>4, <4>3
    <3>5. QED
      BY <3>3, <3>4
  <2>6. QED
    BY <2>4, <2>5
<1>2. ASSUME NEW m \in Nat, m \in S PROVE m + 1 \in S
  <2> HIDE DEF P
  <2>1. m + 1 <= MaxLeaves => P(m + 1)
    BY <1>0, <1>1, <1>2 DEF Size
  <2>2. QED
    BY <1>2, <2>1
<1>3. MaxLeaves \in S
  <2>1. 0 \in S
    <3> HIDE DEF P
    <3> QED BY <1>0, <1>1 DEF Size
  <2> HIDE DEF S
  <2>2. QED
    BY <1>0, <1>2, <2>1, Induct
<1> HIDE DEF P
<1>4. \A n \in Size : P(n)
  BY <1>0, <1>3 DEF Size
<1>5. QED
  BY <1>4 DEF P

-----------------------------------------------------------------------------
(* The invariant, step by step.                                            *)

(* The number of leaves is a size.                                         *)
LEMMA LengthIs == TreeInv => Len(leaf_hashes) \in Nat /\ Len(leaf_hashes) \in Size
  BY MaxLeavesAssumption, LenProperties DEF TreeInv, Size

(* What the readers add to the memo is fresh (root, inclusion_proof,       *)
(* consistency_proof).                                                     *)
LEMMA RootMemo == TreeInv => Fresh(Root.memo)
<1> SUFFICES ASSUME TreeInv PROVE Fresh(Root.memo)
  OBVIOUS
<1>1. Len(leaf_hashes) \in Size /\ 0 \in Size /\ 0 + Len(leaf_hashes) <= Len(leaf_hashes)
  BY LengthIs, MaxLeavesAssumption DEF Size
<1>2. QED
  BY <1>1, SubtreeIs DEF Root

(* inclusion_proof returns the path of its index.                          *)
LEMMA InclusionMemo ==
  ASSUME TreeInv, NEW index \in 0 .. Len(leaf_hashes) - 1
  PROVE  /\ IsPathOf(InclusionProof(index).result, Len(leaf_hashes), 0, index)
         /\ Fresh(InclusionProof(index).memo)
<1>1. /\ Len(leaf_hashes) \in Size /\ 0 \in Size /\ 0 + Len(leaf_hashes) <= Len(leaf_hashes)
      /\ index \in Size /\ index < Len(leaf_hashes)
  BY LengthIs, MaxLeavesAssumption DEF Size
<1>2. QED
  BY <1>1, PathIs DEF InclusionProof

(* consistency_proof, of any old size, adds what is fresh.                 *)
LEMMA ConsistencyMemo ==
  ASSUME TreeInv, NEW old_size \in 0 .. Len(leaf_hashes)
  PROVE  Fresh(ConsistencyProof(old_size).memo)
<1>1. CASE old_size \in {0, Len(leaf_hashes)}
  BY <1>1, NothingIsFresh DEF ConsistencyProof, NoNodes
<1>2. CASE old_size \notin {0, Len(leaf_hashes)}
  <2>1. /\ Len(leaf_hashes) \in Size /\ 0 \in Size /\ 0 + Len(leaf_hashes) <= Len(leaf_hashes)
        /\ old_size \in 1 .. Len(leaf_hashes) /\ TRUE \in BOOLEAN
    BY <1>2, LengthIs, MaxLeavesAssumption DEF Size
  <2>2. QED
    BY <1>2, <2>1, SubproofMemo DEF ConsistencyProof
<1>3. QED
  BY <1>1, <1>2

(* The empty tree, as Witness::new makes it, satisfies the invariant.      *)
LEMMA TreeInit == Init => TreeInv
<1> SUFFICES ASSUME Init PROVE TreeInv
  OBVIOUS
<1>1. leaf_hashes = << >> /\ subtree_cache = << >>
  BY DEF Init
<1>2. leaf_hashes \in Seq(LeafHash) /\ Len(leaf_hashes) <= MaxLeaves
  BY <1>1, MaxLeavesAssumption
<1>3. QED
  BY <1>1, <1>2, NothingIsFresh DEF TreeInv

(* A reader fills the memo with what is fresh.                             *)
LEMMA FillKeeps ==
  ASSUME TreeInv, NEW memo, Fresh(memo), Fill(memo)
  PROVE  TreeInv'
<1>1. leaf_hashes' = leaf_hashes /\ subtree_cache' = Over(memo, subtree_cache)
  BY DEF Fill
<1>2. Fresh(Over(memo, subtree_cache))
  BY BothFresh DEF TreeInv
<1>3. Fresh(subtree_cache)'
  <2> DEFINE whole == Over(memo, subtree_cache)
  <2>1. Fresh(whole) /\ subtree_cache' = whole
    BY <1>1, <1>2
  <2> HIDE DEF whole
  <2>2. QED
    BY <1>1, <2>1 DEF Fresh
<1>4. QED
  BY <1>1, <1>3 DEF TreeInv

(* An append changes no range that was full before it.                     *)
LEMMA AppendKeeps ==
  ASSUME TreeInv, NEW r \in Leaf, AppendLeaf(r)
  PROVE  TreeInv'
<1>1. /\ leaf_hashes' = Append(leaf_hashes, hash_leaf(r))
      /\ subtree_cache' = subtree_cache
      /\ Len(leaf_hashes) < MaxLeaves
  BY DEF AppendLeaf
<1>2. hash_leaf(r) \in LeafHash
  BY DEF LeafHash
<1>3. /\ leaf_hashes' \in Seq(LeafHash)
      /\ Len(leaf_hashes') = Len(leaf_hashes) + 1
      /\ \A i \in 1 .. Len(leaf_hashes) : leaf_hashes'[i] = leaf_hashes[i]
  BY <1>1, <1>2, AppendProperties DEF TreeInv
<1>4. MaxLeaves \in Nat /\ Len(leaf_hashes) \in Nat
  BY MaxLeavesAssumption, LengthIs
<1>5. ASSUME NEW key \in DOMAIN subtree_cache
      PROVE  /\ key[1] + key[2] <= Len(leaf_hashes')
             /\ subtree_cache[key] = RangeHash(leaf_hashes')[key[2]][key[1]]
  <2>1. /\ key[1] \in Size /\ key[2] \in Size /\ key[1] + key[2] <= Len(leaf_hashes)
        /\ subtree_cache[key] = RangeHash(leaf_hashes)[key[2]][key[1]]
    BY DEF TreeInv, Fresh
  <2>2. key[1] \in Nat /\ key[2] \in Nat /\ key[1] + key[2] <= MaxLeaves
    BY <1>1, <1>4, <2>1 DEF Size
  <2>3. \A i \in 1 .. key[2] : leaf_hashes[key[1] + i] = leaf_hashes'[key[1] + i]
    <3> SUFFICES ASSUME NEW i \in 1 .. key[2]
                 PROVE  leaf_hashes[key[1] + i] = leaf_hashes'[key[1] + i]
      OBVIOUS
    <3>1. key[1] + i \in 1 .. Len(leaf_hashes)
      BY <1>4, <2>1, <2>2
    <3>2. QED
      BY <1>3, <3>1
  <2>4. RangeHash(leaf_hashes)[key[2]][key[1]] = RangeHash(leaf_hashes')[key[2]][key[1]]
    <3> DEFINE later == leaf_hashes'
               start == key[1]
               n == key[2]
    <3>1. /\ start \in Size /\ n \in Size /\ start + n <= MaxLeaves
          /\ SameLeaves(n, leaf_hashes, start, later, start)
      BY <2>1, <2>2, <2>3 DEF SameLeaves
    <3> HIDE DEF later, start, n
    <3>2. RangeHash(leaf_hashes)[n][start] = RangeHash(later)[n][start]
      BY <3>1, HashesAgree
    <3>3. QED
      BY <3>2 DEF later, start, n
  <2>5. QED
    BY <1>3, <1>4, <2>1, <2>2, <2>4
<1>6. Fresh(subtree_cache)'
  <2>1. DOMAIN subtree_cache \subseteq Size \X Size
    BY DEF TreeInv, Fresh
  <2>2. QED
    BY <1>1, <1>5, <2>1 DEF Fresh
<1>7. QED
  BY <1>1, <1>3, <1>4, <1>6 DEF TreeInv

(* An append and each reader keep the invariant.                           *)
LEMMA TreeStep == TreeInv /\ [Next]_vars => TreeInv'
<1> SUFFICES ASSUME TreeInv, [Next]_vars PROVE TreeInv'
  OBVIOUS
<1>1. ASSUME NEW r \in Leaf, AppendLeaf(r) PROVE TreeInv'
  BY <1>1, AppendKeeps
<1>2. CASE ReadRoot
  BY <1>2, RootMemo, FillKeeps DEF ReadRoot
<1>3. CASE ReadInclusionProof
  BY <1>3, InclusionMemo, FillKeeps DEF ReadInclusionProof
<1>4. CASE ReadConsistencyProof
  BY <1>4, ConsistencyMemo, FillKeeps DEF ReadConsistencyProof
<1>5. CASE UNCHANGED vars
  BY <1>5 DEF vars, TreeInv, Fresh
<1>6. QED
  BY <1>1, <1>2, <1>3, <1>4, <1>5 DEF Next

(* In every state the leaves are leaf hashes, no more than fit, and every  *)
(* entry of the memo is the hash of the leaves it stands for (append and   *)
(* the readers of Witness).                                                *)
THEOREM TreeInvariant == Spec => []TreeInv
<1>1. Init => TreeInv
  BY TreeInit
<1>2. TreeInv /\ [Next]_vars => TreeInv'
  BY TreeStep
<1>3. QED
  BY <1>1, <1>2, PTL DEF Spec

(* No entry of the memo ever goes stale, however appends and reads are     *)
(* interleaved and however long the log (subtree_cache).                   *)
THEOREM MemoIsNeverStale == Spec => []CacheNeverStale
<1>1. TreeInv => CacheNeverStale
  BY DEF TreeInv, Fresh, CacheNeverStale
<1>2. QED
  BY <1>1, TreeInvariant, PTL

(* The root that Witness::root returns is RFC 6962's hash of the leaves,   *)
(* whatever the memo holds.                                                *)
THEOREM RootIsTheReference == Spec => []RootIsReference
<1>1. TreeInv => RootIsReference
  <2> SUFFICES ASSUME TreeInv PROVE RootIsReference
    OBVIOUS
  <2>1. Len(leaf_hashes) \in Size /\ 0 \in Size /\ 0 + Len(leaf_hashes) <= Len(leaf_hashes)
    BY LengthIs, MaxLeavesAssumption DEF Size
  <2>2. QED
    BY <2>1, SubtreeIs DEF Root, RootIsReference, MTH
<1>2. QED
  BY <1>1, TreeInvariant, PTL

(* verify_inclusion accepts the path of an index for the receipt logged    *)
(* there, and for no other.                                                *)
LEMMA PathsProve ==
  ASSUME TreeInv, NEW index \in 0 .. Len(leaf_hashes) - 1, NEW r
  PROVE  VerifyInclusion(r, index, Len(leaf_hashes), InclusionProof(index).result, MTH(leaf_hashes))
           <=> leaf_hashes[index + 1] = hash_leaf(r)
<1> DEFINE path == InclusionProof(index).result
<1>1. Len(leaf_hashes) \in Nat /\ index \in Nat /\ index < Len(leaf_hashes)
  BY LengthIs
<1>2. IsPathOf(path, Len(leaf_hashes), 0, index)
  BY InclusionMemo
<1> HIDE DEF path
<1>3. Len(path) <= MAX_PROOF_PATH
  <2>1. PICK bits \in 0 .. 64 : MaxLeaves < Pow2[bits]
    BY MaxLeavesAssumption
  <2>2. bits \in Nat /\ Pow2[bits] \in Nat /\ MaxLeaves \in Nat
    BY Pow2Nat, MaxLeavesAssumption
  <2>3. Len(leaf_hashes) <= Pow2[bits]
    BY <1>1, <2>1, <2>2 DEF TreeInv
  <2>4. Len(path) <= bits
    BY <1>2, <2>2, <2>3 DEF IsPathOf
  <2>5. Len(path) \in Nat
    BY <1>2, LenProperties DEF IsPathOf
  <2>6. QED
    BY <2>1, <2>4, <2>5 DEF MAX_PROOF_PATH
<1>4. Folded(hash_leaf(r), path)[Len(path)] = MTH(leaf_hashes)
        <=> hash_leaf(r) = leaf_hashes[0 + index + 1]
  BY <1>2 DEF IsPathOf, MTH
<1>5. 0 + index + 1 = index + 1
  BY <1>1
<1>6. VerifyInclusion(r, index, Len(leaf_hashes), path, MTH(leaf_hashes))
        <=> Folded(hash_leaf(r), path)[Len(path)] = MTH(leaf_hashes)
  BY <1>1, <1>3 DEF VerifyInclusion
<1>7. QED
  BY <1>4, <1>5, <1>6 DEF path

(* A served inclusion proof verifies for the receipt at its index, and for *)
(* no other receipt (inclusion_proof, verify_inclusion).                   *)
THEOREM InclusionMeansMembership == Spec => []InclusionProvesMembership
<1>1. TreeInv => InclusionProvesMembership
  BY PathsProve DEF InclusionProvesMembership
<1>2. QED
  BY <1>1, TreeInvariant, PTL

-----------------------------------------------------------------------------
(* Places in the levels of a tree.                                         *)

(* A product grows with its first factor.                                  *)
LEMMA TimesGrows ==
  ASSUME NEW a \in Nat, NEW b \in Nat, NEW p \in Nat, a < b
  PROVE  a * p + p <= b * p
<1>1. PICK e \in Nat : b = a + 1 + e
  <2>1. b - a - 1 \in Nat /\ b = a + 1 + (b - a - 1)
    OBVIOUS
  <2>2. QED
    BY <2>1
<1>2. b * p = a * p + p + e * p
  BY <1>1
<1>3. e * p \in Nat /\ a * p \in Nat
  OBVIOUS
<1>4. QED
  BY <1>2, <1>3

(* A quotient is the one number whose multiple leaves a small remainder.   *)
LEMMA Quotient ==
  ASSUME NEW x \in Nat, NEW p \in Nat \ {0}
  PROVE  /\ x \div p \in Nat
         /\ (x \div p) * p \in Nat
         /\ (x \div p) * p <= x /\ x < (x \div p) * p + p
  OBVIOUS

(* A number with a small remainder is the quotient.                        *)
LEMMA QuotientIs ==
  ASSUME NEW x \in Nat, NEW p \in Nat \ {0}, NEW q \in Nat, q * p <= x, x < q * p + p
  PROVE  x \div p = q
<1> DEFINE d == x \div p
<1>1. d \in Nat /\ d * p \in Nat /\ d * p <= x /\ x < d * p + p
  BY Quotient
<1> HIDE DEF d
<1>2. q * p \in Nat
  OBVIOUS
<1>3. CASE d < q
  <2>1. d * p + p <= q * p
    BY <1>1, <1>3, TimesGrows
  <2>2. QED
    BY <1>1, <1>2, <2>1
<1>4. CASE q < d
  <2>1. q * p + p <= d * p
    BY <1>1, <1>4, TimesGrows
  <2>2. QED
    BY <1>1, <1>2, <2>1
<1>5. d = q
  BY <1>1, <1>3, <1>4
<1>6. QED
  BY <1>5 DEF d

(* Where the node that holds the last leaf of a size starts, at a level.   *)
Start(size, level) == PlaceAt(size, level) * Pow2[level]

(* The node at that place holds the last leaf.                             *)
LEMMA StartIs ==
  ASSUME NEW size \in Nat \ {0}, NEW level \in Nat
  PROVE  /\ PlaceAt(size, level) \in Nat
         /\ Start(size, level) \in Nat
         /\ Start(size, level) <= size - 1 /\ size - 1 < Start(size, level) + Pow2[level]
<1>1. size - 1 \in Nat /\ Pow2[level] \in Nat \ {0}
  BY Pow2Next
<1>2. QED
  BY <1>1, Quotient DEF Start, PlaceAt

(* One level up: a right child starts where its sibling does, a left child *)
(* where its parent does.                                                  *)
LEMMA StartUp ==
  ASSUME NEW size \in Nat \ {0}, NEW level \in Nat
  PROVE  /\ PlaceAt(size, level) % 2 \in {0, 1}
         /\ PlaceAt(size, level) % 2 = 1 =>
              /\ Start(size, level + 1) = Start(size, level) - Pow2[level]
              /\ PlaceAt(size, level) > 0
         /\ PlaceAt(size, level) % 2 = 0 => Start(size, level + 1) = Start(size, level)
<1> DEFINE p == Pow2[level]
           x == size - 1
           q == PlaceAt(size, level)
           half == q \div 2
<1>1. x \in Nat /\ p \in Nat \ {0} /\ Pow2[level + 1] = 2 * p
  BY Pow2Next
<1>2. q \in Nat /\ q * p \in Nat /\ q * p <= x /\ x < q * p + p /\ q = x \div p
  BY StartIs DEF Start, PlaceAt
<1>3. PlaceAt(size, level + 1) = x \div (2 * p)
  BY <1>1 DEF PlaceAt
<1>4. Start(size, level) = q * p /\ Start(size, level + 1) = (x \div (2 * p)) * (2 * p)
  BY <1>1, <1>3 DEF Start
<1> HIDE DEF p, x, q
<1>5. half \in Nat /\ (q = 2 * half \/ q = 2 * half + 1) /\ q % 2 \in {0, 1}
      /\ (q % 2 = 1 <=> q = 2 * half + 1)
  BY <1>2
<1> HIDE DEF half
<1>6. half * (2 * p) = (2 * half) * p /\ (2 * half) * p \in Nat
  BY <1>1, <1>5
<1>7. q = 2 * half => q * p = (2 * half) * p
  OBVIOUS
<1>8. q = 2 * half + 1 => q * p = (2 * half) * p + p
  BY <1>1, <1>5
<1>9. half * (2 * p) <= x /\ x < half * (2 * p) + 2 * p
  BY <1>1, <1>2, <1>5, <1>6, <1>7, <1>8
<1>10. x \div (2 * p) = half
  <2>1. 2 * p \in Nat \ {0}
    BY <1>1
  <2>2. QED
    BY <1>1, <1>5, <1>9, <2>1, QuotientIs
<1>11. Start(size, level) = q * p /\ Start(size, level + 1) = (2 * half) * p
  BY <1>4, <1>6, <1>10
<1> DEFINE u == (2 * half) * p
           v == q * p
<1>12. /\ u \in Nat /\ p \in Nat
       /\ q = 2 * half => v = u
       /\ q = 2 * half + 1 => v = u + p
       /\ Start(size, level) = v /\ Start(size, level + 1) = u
  BY <1>1, <1>6, <1>7, <1>8, <1>11
<1> HIDE DEF u, v
<1>13. /\ q % 2 = 1 => Start(size, level + 1) = Start(size, level) - p /\ q > 0
       /\ q % 2 = 0 => Start(size, level + 1) = Start(size, level)
  <2>1. q % 2 = 0 => q = 2 * half
    BY <1>5
  <2>2. QED
    BY <1>5, <1>12, <2>1
<1>14. QED
  BY <1>5, <1>13 DEF p, q

(* Whether the node of the smaller size has a right sibling in the tree of *)
(* the larger.                                                             *)
LEMMA LastPlace ==
  ASSUME NEW m \in Nat \ {0}, NEW n \in Nat, m < n, NEW level \in Nat
  PROVE  /\ PlaceAt(m, level) <= PlaceAt(n, level)
         /\ PlaceAt(m, level) < PlaceAt(n, level) <=> Start(m, level) + Pow2[level] < n
<1> DEFINE p == Pow2[level]
           q == PlaceAt(m, level)
           r == PlaceAt(n, level)
<1>1. p \in Nat \ {0}
  BY Pow2Next
<1>2. q \in Nat /\ q * p \in Nat /\ q * p <= m - 1 /\ m - 1 < q * p + p /\ Start(m, level) = q * p
  BY StartIs DEF Start
<1>3. r \in Nat /\ r * p \in Nat /\ r * p <= n - 1 /\ n - 1 < r * p + p
  BY StartIs DEF Start
<1> HIDE DEF p, q, r
<1>4. r < q => FALSE
  <2>1. r < q => r * p + p <= q * p
    BY <1>1, <1>2, <1>3, TimesGrows
  <2>2. QED
    BY <1>1, <1>2, <1>3, <2>1
<1>5. q < r => q * p + p < n
  <2>1. q < r => q * p + p <= r * p
    BY <1>1, <1>2, <1>3, TimesGrows
  <2>2. QED
    BY <1>1, <1>2, <1>3, <2>1
<1>6. q = r => ~(q * p + p < n)
  BY <1>1, <1>2, <1>3
<1>7. QED
  BY <1>2, <1>3, <1>4, <1>5, <1>6 DEF p, q, r

(* At the top there is one node.                                           *)
LEMMA TopPlace ==
  ASSUME NEW size \in Nat \ {0}, NEW level \in Nat, size <= Pow2[level]
  PROVE  PlaceAt(size, level) = 0 /\ Start(size, level) = 0
<1>1. size - 1 \in Nat /\ Pow2[level] \in Nat \ {0}
  BY Pow2Next
<1>2. (size - 1) \div Pow2[level] = 0
  <2>1. 0 * Pow2[level] = 0
    BY <1>1
  <2>2. QED
    BY <1>1, <2>1, QuotientIs
<1>3. QED
  BY <1>1, <1>2 DEF PlaceAt, Start

(* The first loop ends, at the largest node of the old tree that ends with *)
(* the old tree (verify_consistency).                                      *)
LEMMA ClimbedIs ==
  ASSUME NEW m \in Nat \ {0}
  PROVE  /\ Climbed(m) \in 0 .. m
         /\ PlaceAt(m, Climbed(m)) % 2 = 0
         /\ Start(m, Climbed(m)) + Pow2[Climbed(m)] = m
<1> DEFINE T == {level \in Nat : PlaceAt(m, level) % 2 = 0}
           c == Climbed(m)
<1>1. m \in T
  <2>1. Pow2[m] \in Nat /\ m < Pow2[m]
    BY Pow2Nat
  <2>2. PlaceAt(m, m) = 0
    BY <2>1, TopPlace
  <2>3. QED
    BY <2>2
<1>2. PICK least \in T : \A level \in T : least <= level
  BY <1>1, Smallest
<1>3. /\ least \in 0 .. m /\ PlaceAt(m, least) % 2 = 0
      /\ \A lower \in 0 .. least - 1 : PlaceAt(m, lower) % 2 = 1
  <2>1. least \in Nat /\ least <= m
    BY <1>1, <1>2
  <2>2. ASSUME NEW lower \in 0 .. least - 1 PROVE PlaceAt(m, lower) % 2 = 1
    <3>1. lower \in Nat /\ lower \notin T
      BY <1>2, <2>1
    <3>2. QED
      BY <3>1, StartUp
  <2>3. QED
    BY <1>2, <2>1, <2>2
<1>4. /\ c \in 0 .. m /\ PlaceAt(m, c) % 2 = 0
      /\ \A lower \in 0 .. c - 1 : PlaceAt(m, lower) % 2 = 1
  BY <1>3 DEF Climbed
<1> HIDE DEF c
<1> DEFINE S == {level \in Nat : level <= c => Start(m, level) + Pow2[level] = m}
<1>5. 0 \in S
  <2>1. Pow2[0] = 1
    BY Pow2Def
  <2>2. Start(m, 0) <= m - 1 /\ m - 1 < Start(m, 0) + 1 /\ Start(m, 0) \in Nat
    BY <2>1, StartIs
  <2>3. QED
    BY <2>1, <2>2
<1>6. ASSUME NEW level \in Nat, level \in S PROVE level + 1 \in S
  <2> SUFFICES ASSUME level + 1 <= c PROVE Start(m, level + 1) + Pow2[level + 1] = m
    OBVIOUS
  <2>1. Start(m, level) + Pow2[level] = m /\ PlaceAt(m, level) % 2 = 1
    BY <1>4, <1>6
  <2>2. Start(m, level + 1) = Start(m, level) - Pow2[level] /\ Pow2[level + 1] = 2 * Pow2[level]
    BY <2>1, StartUp, Pow2Next
  <2>3. Start(m, level) \in Nat /\ Pow2[level] \in Nat
    BY StartIs, Pow2Next
  <2>4. QED
    BY <2>1, <2>2, <2>3
<1>7. \A level \in Nat : level \in S
  <2> HIDE DEF S
  <2> QED BY <1>5, <1>6, Induct
<1>8. QED
  BY <1>4, <1>7 DEF c

-----------------------------------------------------------------------------
(* The nodes that verify_consistency climbs through, for 0 < m < n.        *)

(* How many leaves the node over leaf m has in the tree of size n.         *)
Width(m, n, level) ==
  IF Start(m, level) + Pow2[level] < n THEN Pow2[level] ELSE n - Start(m, level)

(* Below twice a power of two, and above it, is where that power splits.   *)
LEMMA SplitAt ==
  ASSUME NEW n \in Nat, NEW level \in Nat, Pow2[level] < n, n <= 2 * Pow2[level]
  PROVE  split_point(n) = Pow2[level]
<1>1. Pow2[level] \in Nat \ {0} /\ level < Pow2[level]
  BY Pow2Nat, Pow2Next
<1>2. n > 1 /\ level \in 0 .. n
  BY <1>1
<1>3. Splits(Pow2[level], n)
  BY <1>2 DEF Splits
<1>4. Splits(split_point(n), n)
  BY <1>2, SplitIs
<1>5. QED
  BY <1>3, <1>4, OneSplit

(* The node holds the last leaf of the old tree, and no more leaves than   *)
(* its level allows.                                                       *)
LEMMA Widths ==
  ASSUME NEW m \in Nat \ {0}, NEW n \in Nat, m < n, NEW level \in Nat
  PROVE  /\ Start(m, level) \in Nat /\ Pow2[level] \in Nat \ {0}
         /\ Width(m, n, level) \in 1 .. Pow2[level]
         /\ Start(m, level) + Width(m, n, level) <= n
         /\ m - Start(m, level) \in 1 .. Pow2[level]
         /\ Start(m, level) < m
         /\ m - Start(m, level) <= Width(m, n, level)
<1> DEFINE s == Start(m, level)
           p == Pow2[level]
           w == Width(m, n, level)
<1>1. s \in Nat /\ p \in Nat \ {0} /\ s <= m - 1 /\ m - 1 < s + p
  BY StartIs, Pow2Next
<1>2. w = IF s + p < n THEN p ELSE n - s
  BY DEF Width
<1> HIDE DEF s, p, w
<1>3. w \in 1 .. p /\ s + w <= n /\ m - s \in 1 .. p /\ s < m /\ m - s <= w
  BY <1>1, <1>2
<1>4. QED
  BY <1>1, <1>3 DEF s, p, w

(* One level up: a right child is joined with its left sibling, in both    *)
(* trees; a left child with its right sibling, if the new tree has one.    *)
LEMMA WidthUp ==
  ASSUME NEW m \in Nat \ {0}, NEW n \in Nat, m < n, NEW level \in Nat
  PROVE  /\ PlaceAt(m, level) % 2 = 1 =>
              /\ Start(m, level + 1) = Start(m, level) - Pow2[level]
              /\ Width(m, n, level + 1) = Pow2[level] + Width(m, n, level)
         /\ PlaceAt(m, level) % 2 = 0 /\ PlaceAt(m, level) < PlaceAt(n, level) =>
              /\ Start(m, level + 1) = Start(m, level)
              /\ Width(m, n, level) = Pow2[level]
              /\ Pow2[level] < Width(m, n, level + 1)
         /\ PlaceAt(m, level) % 2 = 0 /\ ~(PlaceAt(m, level) < PlaceAt(n, level)) =>
              /\ Start(m, level + 1) = Start(m, level)
              /\ Width(m, n, level + 1) = Width(m, n, level)
<1> DEFINE s == Start(m, level)
           p == Pow2[level]
           w == Width(m, n, level)
           t == Start(m, level + 1)
           v == Width(m, n, level + 1)
           b == PlaceAt(m, level) % 2
<1>1. s \in Nat /\ t \in Nat /\ p \in Nat \ {0} /\ s <= m - 1 /\ m - 1 < s + p /\ Pow2[level + 1] = 2 * p
  BY StartIs, Pow2Next
<1>2. w = IF s + p < n THEN p ELSE n - s
  BY DEF Width
<1>3. v = IF t + 2 * p < n THEN 2 * p ELSE n - t
  BY <1>1 DEF Width
<1>4. (b = 1 => t = s - p) /\ (b = 0 => t = s)
  BY StartUp
<1>5. PlaceAt(m, level) < PlaceAt(n, level) <=> s + p < n
  BY LastPlace
<1> HIDE DEF s, p, w, t, v, b
<1>6. b = 1 => t = s - p /\ v = p + w
  BY <1>1, <1>2, <1>3, <1>4
<1>7. b = 0 /\ s + p < n => t = s /\ w = p /\ p < v
  BY <1>1, <1>2, <1>3, <1>4
<1>8. b = 0 /\ ~(s + p < n) => t = s /\ v = w
  BY <1>1, <1>2, <1>3, <1>4
<1>9. QED
  BY <1>5, <1>6, <1>7, <1>8 DEF s, p, w, t, v, b

(* Where the climb starts, the node is all old; above, it is not.          *)
LEMMA WidthAtClimbed ==
  ASSUME NEW m \in Nat \ {0}, NEW n \in Nat, m < n
  PROVE  /\ Climbed(m) \in Nat
         /\ Width(m, n, Climbed(m)) = m - Start(m, Climbed(m))
         /\ m - Start(m, Climbed(m)) = Pow2[Climbed(m)]
         /\ PlaceAt(m, Climbed(m)) < PlaceAt(n, Climbed(m))
<1> DEFINE c == Climbed(m)
           s == Start(m, c)
           p == Pow2[c]
           w == Width(m, n, c)
<1>1. c \in Nat /\ s + p = m
  BY ClimbedIs
<1>2. s \in Nat /\ p \in Nat \ {0}
  BY <1>1, Widths
<1>3. w = IF s + p < n THEN p ELSE n - s
  BY DEF Width
<1>4. PlaceAt(m, c) < PlaceAt(n, c) <=> s + p < n
  BY <1>1, LastPlace
<1> HIDE DEF s, p, w, c
<1>5. w = m - s /\ m - s = p /\ PlaceAt(m, c) < PlaceAt(n, c)
  BY <1>1, <1>2, <1>3, <1>4
<1>6. QED
  BY <1>1, <1>5 DEF s, p, w, c

(* Above the start of the climb the node has leaves that are not old.      *)
LEMMA WiderAbove ==
  ASSUME NEW m \in Nat \ {0}, NEW n \in Nat, m < n
  PROVE  \A level \in Nat :
           level > Climbed(m) => m - Start(m, level) < Width(m, n, level)
<1> DEFINE S == {level \in Nat : level > Climbed(m) => m - Start(m, level) < Width(m, n, level)}
<1>1. 0 \in S
  BY WidthAtClimbed
<1>2. ASSUME NEW level \in Nat, level \in S PROVE level + 1 \in S
  <2> SUFFICES ASSUME level + 1 > Climbed(m)
               PROVE  m - Start(m, level + 1) < Width(m, n, level + 1)
    OBVIOUS
  <2>1. /\ Start(m, level) \in Nat /\ Pow2[level] \in Nat \ {0}
        /\ Width(m, n, level) \in 1 .. Pow2[level]
        /\ m - Start(m, level) \in 1 .. Pow2[level]
    BY Widths
  <2> Width(m, n, level + 1) \in Nat
    <3>1. Width(m, n, level + 1) \in 1 .. Pow2[level + 1] /\ Pow2[level + 1] \in Nat \ {0}
      <4> level + 1 \in Nat
        OBVIOUS
      <4> QED BY Widths
    <3>2. QED
      BY <3>1
  <2>2. CASE level = Climbed(m)
    <3>1. PlaceAt(m, level) % 2 = 0 /\ PlaceAt(m, level) < PlaceAt(n, level)
      BY <2>2, ClimbedIs, WidthAtClimbed
    <3>2. Start(m, level + 1) = Start(m, level) /\ Pow2[level] < Width(m, n, level + 1)
      BY <3>1, WidthUp
    <3>3. QED
      BY <2>1, <3>2
  <2>3. CASE level > Climbed(m)
    <3>0. m - Start(m, level) < Width(m, n, level)
      BY <1>2, <2>3
    <3>1. CASE PlaceAt(m, level) % 2 = 1
      <4>1. /\ Start(m, level + 1) = Start(m, level) - Pow2[level]
            /\ Width(m, n, level + 1) = Pow2[level] + Width(m, n, level)
        BY <3>1, WidthUp
      <4>2. QED
        BY <2>1, <3>0, <4>1
    <3>2. CASE PlaceAt(m, level) % 2 = 0 /\ PlaceAt(m, level) < PlaceAt(n, level)
      <4>1. Start(m, level + 1) = Start(m, level) /\ Pow2[level] < Width(m, n, level + 1)
        BY <3>2, WidthUp
      <4>2. QED
        BY <2>1, <4>1
    <3>3. CASE PlaceAt(m, level) % 2 = 0 /\ ~(PlaceAt(m, level) < PlaceAt(n, level))
      <4>1. Start(m, level + 1) = Start(m, level) /\ Width(m, n, level + 1) = Width(m, n, level)
        BY <3>3, WidthUp
      <4>2. QED
        BY <3>0, <4>1
    <3>4. QED
      BY <3>1, <3>2, <3>3, StartUp
  <2>4. QED
    BY <2>2, <2>3, WidthAtClimbed
<1>3. QED
  <2> HIDE DEF S
  <2>1. \A level \in Nat : level \in S
    BY <1>1, <1>2, Induct
  <2>2. QED
    BY <2>1 DEF S

(* The node at the top is the whole tree.                                  *)
LEMMA TopWidth ==
  ASSUME NEW m \in Nat \ {0}, NEW n \in Nat, m < n, NEW level \in Nat, n <= Pow2[level]
  PROVE  Start(m, level) = 0 /\ Width(m, n, level) = n
<1>1. Pow2[level] \in Nat
  BY Pow2Nat
<1>2. Start(m, level) = 0
  BY <1>1, TopPlace
<1>3. QED
  BY <1>1, <1>2 DEF Width

(* The node over leaf m at a level, in the old tree and in the new one,    *)
(* and the sibling that it is joined with.                                 *)
OldHash(hashes, m, level) == RangeHash(hashes)[m - Start(m, level)][Start(m, level)]

NewHash(hashes, m, n, level) == RangeHash(hashes)[Width(m, n, level)][Start(m, level)]

LeftHash(hashes, m, level) == RangeHash(hashes)[Pow2[level]][Start(m, level) - Pow2[level]]

RightHash(hashes, m, n, level) ==
  RangeHash(hashes)[Width(m, n, level + 1) - Pow2[level]][Start(m, level) + Pow2[level]]

(* Where the climb starts, the two nodes are one.                          *)
LEMMA SeedHash ==
  ASSUME NEW hashes, NEW m \in Nat \ {0}, NEW n \in Nat, m < n
  PROVE  NewHash(hashes, m, n, Climbed(m)) = OldHash(hashes, m, Climbed(m))
  BY WidthAtClimbed DEF NewHash, OldHash

(* A right child: its left sibling is joined to both (verify_consistency,  *)
(* node & 1 == 1).                                                         *)
LEMMA HashOfRightChild ==
  ASSUME NEW hashes, NEW m \in Nat \ {0}, NEW n \in Size, m < n, NEW level \in Nat,
         PlaceAt(m, level) % 2 = 1
  PROVE  /\ OldHash(hashes, m, level + 1) = hash_node(LeftHash(hashes, m, level), OldHash(hashes, m, level))
         /\ NewHash(hashes, m, n, level + 1) = hash_node(LeftHash(hashes, m, level), NewHash(hashes, m, n, level))
<1> DEFINE s == Start(m, level)
           p == Pow2[level]
           w == Width(m, n, level)
           t == Start(m, level + 1)
           v == Width(m, n, level + 1)
           old == m - s
<1>0. n \in Nat /\ MaxLeaves \in Nat /\ n <= MaxLeaves
  BY MaxLeavesAssumption DEF Size
<1>1. s \in Nat /\ p \in Nat \ {0} /\ w \in 1 .. p /\ s + w <= n /\ old \in 1 .. p
  BY <1>0, Widths
<1>2. t = s - p /\ v = p + w
  BY <1>0, WidthUp
<1>3. t \in Nat
  <2> level + 1 \in Nat
    OBVIOUS
  <2> QED BY <1>0, StartIs
<1>4. m - t = p + old
  BY <1>0, <1>1, <1>2
<1>5. /\ OldHash(hashes, m, level + 1) = RangeHash(hashes)[m - t][t]
      /\ NewHash(hashes, m, n, level + 1) = RangeHash(hashes)[v][t]
      /\ OldHash(hashes, m, level) = RangeHash(hashes)[old][s]
      /\ NewHash(hashes, m, n, level) = RangeHash(hashes)[w][s]
      /\ LeftHash(hashes, m, level) = RangeHash(hashes)[p][s - p]
  BY DEF OldHash, NewHash, LeftHash
<1>6. ASSUME NEW x \in 1 .. p, p + x <= n, t + p = s PROVE split_point(p + x) = p
  <2>1. Pow2[level] < p + x /\ p + x <= 2 * Pow2[level] /\ p + x \in Nat
    BY <1>1, <1>6
  <2> HIDE DEF p
  <2>2. split_point(p + x) = Pow2[level]
    BY <2>1, SplitAt
  <2>3. QED
    BY <2>2 DEF p
<1> HIDE DEF s, p, w, t, v, old
<1>7. ASSUME NEW x \in 1 .. p, p + x <= n
      PROVE  RangeHash(hashes)[p + x][t] = hash_node(RangeHash(hashes)[p][t], RangeHash(hashes)[x][s])
  <2>1. t + p = s /\ p + x \in Size /\ p + x > 1 /\ t \in Size
    BY <1>0, <1>1, <1>2, <1>3, <1>7 DEF Size
  <2>2. split_point(p + x) = p
    BY <1>6, <1>7, <2>1
  <2>3. (p + x) - p = x
    BY <1>1, <1>7
  <2>4. RangeHash(hashes)[p + x][t] =
          hash_node(RangeHash(hashes)[split_point(p + x)][t],
                    RangeHash(hashes)[(p + x) - split_point(p + x)][t + split_point(p + x)])
    BY <2>1, HashParts
  <2>5. QED
    BY <2>1, <2>2, <2>3, <2>4
<1>8. p + old <= n /\ p + w <= n
  BY <1>0, <1>1, <1>2, <1>3, <1>4
<1>9. QED
  BY <1>1, <1>2, <1>4, <1>5, <1>7, <1>8

(* A left child: its right sibling is in the new tree only (node < last).  *)
LEMMA HashOfLeftChild ==
  ASSUME NEW hashes, NEW m \in Nat \ {0}, NEW n \in Size, m < n, NEW level \in Nat,
         PlaceAt(m, level) % 2 = 0, PlaceAt(m, level) < PlaceAt(n, level)
  PROVE  /\ OldHash(hashes, m, level + 1) = OldHash(hashes, m, level)
         /\ NewHash(hashes, m, n, level + 1) = hash_node(NewHash(hashes, m, n, level), RightHash(hashes, m, n, level))
<1> DEFINE s == Start(m, level)
           p == Pow2[level]
           v == Width(m, n, level + 1)
<1>0. n \in Nat /\ MaxLeaves \in Nat /\ n <= MaxLeaves /\ level + 1 \in Nat
  BY MaxLeavesAssumption DEF Size
<1>1. s \in Nat /\ p \in Nat \ {0} /\ Pow2[level + 1] = 2 * p
  BY <1>0, Widths, Pow2Next
<1>2. Start(m, level + 1) = s /\ Width(m, n, level) = p /\ p < v
  BY <1>0, WidthUp
<1>3. v \in 1 .. 2 * p /\ s + v <= n
  <2>1. /\ Width(m, n, level + 1) \in 1 .. Pow2[level + 1]
        /\ Start(m, level + 1) + Width(m, n, level + 1) <= n
    BY <1>0, Widths
  <2>2. QED
    BY <1>1, <1>2, <2>1
<1>4. /\ OldHash(hashes, m, level + 1) = OldHash(hashes, m, level)
      /\ NewHash(hashes, m, n, level + 1) = RangeHash(hashes)[v][s]
      /\ NewHash(hashes, m, n, level) = RangeHash(hashes)[p][s]
      /\ RightHash(hashes, m, n, level) = RangeHash(hashes)[v - p][s + p]
  BY <1>2 DEF OldHash, NewHash, RightHash
<1>5. split_point(v) = p
  <2>1. Pow2[level] < v /\ v <= 2 * Pow2[level] /\ v \in Nat
    BY <1>1, <1>2, <1>3
  <2> HIDE DEF v
  <2>2. QED
    BY <2>1, SplitAt
<1> HIDE DEF s, p, v
<1>6. RangeHash(hashes)[v][s] = hash_node(RangeHash(hashes)[p][s], RangeHash(hashes)[v - p][s + p])
  <2>1. v \in Size /\ v > 1 /\ s \in Size
    BY <1>0, <1>1, <1>2, <1>3 DEF Size
  <2>2. QED
    BY <1>5, <2>1, HashParts
<1>7. QED
  BY <1>4, <1>6

(* A left child without a sibling is its own parent.                       *)
LEMMA HashOfLoneChild ==
  ASSUME NEW hashes, NEW m \in Nat \ {0}, NEW n \in Nat, m < n, NEW level \in Nat,
         PlaceAt(m, level) % 2 = 0, ~(PlaceAt(m, level) < PlaceAt(n, level))
  PROVE  /\ OldHash(hashes, m, level + 1) = OldHash(hashes, m, level)
         /\ NewHash(hashes, m, n, level + 1) = NewHash(hashes, m, n, level)
  BY WidthUp DEF OldHash, NewHash

-----------------------------------------------------------------------------
(* The loops of verify_consistency, for any nodes that it is given.        *)

IsWalk(w) == w.ok \in BOOLEAN /\ DOMAIN w = {"ok", "used", "old", "new"}

(* What the loops carry, as a record.                                      *)
LEMMA RecordIsWalk ==
  ASSUME NEW ok \in BOOLEAN, NEW used, NEW old, NEW new
  PROVE  IsWalk([ok |-> ok, used |-> used, old |-> old, new |-> new])
  BY DEF IsWalk

(* Whether a level takes a node from the proof.                            *)
Takes(m, n, level) == PlaceAt(m, level) % 2 = 1 \/ PlaceAt(m, level) < PlaceAt(n, level)

(* Before the second loop there is the seed.                               *)
LEMMA WalkStarts ==
  ASSUME NEW m \in Nat \ {0}, NEW n \in Size, m < n, NEW nodes, NEW seed, NEW used
  PROVE  Walk(m, n, nodes, seed, used)[Climbed(m)] = [ok |-> TRUE, used |-> used, old |-> seed, new |-> seed]
<1> DEFINE c == Climbed(m)
           below == Walk(m, n, nodes, seed, used)[c - 1]
           node == PlaceAt(m, c - 1)
           last == PlaceAt(n, c - 1)
           sibling == nodes[below.used + 1]
           takes == last > 0 /\ (node % 2 = 1 \/ HasRightSibling(node, last))
           more == IF ~(below.ok /\ takes) THEN below
                   ELSE IF below.used = Len(nodes) THEN [below EXCEPT !.ok = FALSE]
                   ELSE IF node % 2 = 1
                   THEN [ok |-> TRUE, used |-> below.used + 1,
                         old |-> hash_node(sibling, below.old), new |-> hash_node(sibling, below.new)]
                   ELSE [ok |-> TRUE, used |-> below.used + 1,
                         old |-> below.old, new |-> hash_node(below.new, sibling)]
<1>1. c \in Nat /\ c \in 0 .. MaxLeaves
  <2>1. c \in 0 .. m
    BY ClimbedIs
  <2>2. QED
    BY <2>1, MaxLeavesAssumption DEF Size
<1>2. Walk(m, n, nodes, seed, used)[c] =
        IF c <= Climbed(m) THEN [ok |-> TRUE, used |-> used, old |-> seed, new |-> seed] ELSE more
  BY <1>1, WalkDef
<1> HIDE DEF more
<1>3. QED
  BY <1>1, <1>2

(* One level of the second and the third loop.                             *)
LEMMA WalkUp ==
  ASSUME NEW m \in Nat \ {0}, NEW n \in Size, m < n, NEW nodes, NEW seed, NEW used,
         NEW level \in Nat, Climbed(m) <= level, level < MaxLeaves,
         NEW below, NEW above,
         below = Walk(m, n, nodes, seed, used)[level],
         above = Walk(m, n, nodes, seed, used)[level + 1],
         IsWalk(below)
  PROVE  /\ IsWalk(above)
         /\ ~Takes(m, n, level) => above = below
         /\ Takes(m, n, level) => (above.ok <=> below.ok /\ below.used # Len(nodes))
         /\ above.ok /\ Takes(m, n, level) => above.used = below.used + 1
         /\ above.ok /\ PlaceAt(m, level) % 2 = 1 =>
              /\ above.old = hash_node(nodes[below.used + 1], below.old)
              /\ above.new = hash_node(nodes[below.used + 1], below.new)
         /\ above.ok /\ PlaceAt(m, level) % 2 # 1 /\ Takes(m, n, level) =>
              /\ above.old = below.old
              /\ above.new = hash_node(below.new, nodes[below.used + 1])
<1> DEFINE node == PlaceAt(m, level)
           last == PlaceAt(n, level)
           sibling == nodes[below.used + 1]
           takes == last > 0 /\ (node % 2 = 1 \/ HasRightSibling(node, last))
           left == [ok |-> TRUE, used |-> below.used + 1,
                    old |-> hash_node(sibling, below.old), new |-> hash_node(sibling, below.new)]
           right == [ok |-> TRUE, used |-> below.used + 1,
                     old |-> below.old, new |-> hash_node(below.new, sibling)]
           failed == [below EXCEPT !.ok = FALSE]
<1>0. Climbed(m) \in Nat /\ level + 1 \in 0 .. MaxLeaves /\ (level + 1) - 1 = level /\ n \in Nat
      /\ ~(level + 1 <= Climbed(m))
  BY ClimbedIs, MaxLeavesAssumption DEF Size
<1>1. above =
        IF level + 1 <= Climbed(m)
        THEN [ok |-> TRUE, used |-> used, old |-> seed, new |-> seed]
        ELSE IF ~(below.ok /\ takes) THEN below
        ELSE IF below.used = Len(nodes) THEN failed
        ELSE IF node % 2 = 1 THEN left
        ELSE right
  <2> DEFINE next == level + 1
             low == Walk(m, n, nodes, seed, used)[next - 1]
             node2 == PlaceAt(m, next - 1)
             last2 == PlaceAt(n, next - 1)
             sibling2 == nodes[low.used + 1]
             takes2 == last2 > 0 /\ (node2 % 2 = 1 \/ HasRightSibling(node2, last2))
  <2>1. Walk(m, n, nodes, seed, used)[next] =
          IF next <= Climbed(m)
          THEN [ok |-> TRUE, used |-> used, old |-> seed, new |-> seed]
          ELSE IF ~(low.ok /\ takes2) THEN low
          ELSE IF low.used = Len(nodes) THEN [low EXCEPT !.ok = FALSE]
          ELSE IF node2 % 2 = 1
          THEN [ok |-> TRUE, used |-> low.used + 1,
                old |-> hash_node(sibling2, low.old), new |-> hash_node(sibling2, low.new)]
          ELSE [ok |-> TRUE, used |-> low.used + 1,
                old |-> low.old, new |-> hash_node(low.new, sibling2)]
    <3>1. next \in 0 .. MaxLeaves /\ Climbed(m) \in Nat
      BY <1>0
    <3> HIDE DEF next
    <3>2. QED
      BY <3>1, WalkDef
  <2>2. low = below /\ node2 = node /\ last2 = last
    BY <1>0
  <2> HIDE DEF low, node2, last2
  <2>3. takes2 = takes /\ sibling2 = sibling /\ [low EXCEPT !.ok = FALSE] = failed
    BY <2>2
  <2> HIDE DEF takes2, takes, sibling2, sibling, failed
  <2>4. QED
    BY <2>1, <2>2, <2>3
<1>2. takes <=> Takes(m, n, level)
  <2>1. node \in Nat /\ last \in Nat /\ node <= last
    BY <1>0, StartIs, LastPlace
  <2>2. node % 2 = 1 => node > 0
    BY StartUp
  <2>3. QED
    BY <2>1, <2>2 DEF Takes, HasRightSibling
<1>3. failed.ok = FALSE /\ DOMAIN failed = DOMAIN below
  BY DEF IsWalk
<1>4. /\ left.ok = TRUE /\ left.used = below.used + 1
      /\ left.old = hash_node(sibling, below.old) /\ left.new = hash_node(sibling, below.new)
      /\ IsWalk(left)
  BY DEF IsWalk
<1>5. /\ right.ok = TRUE /\ right.used = below.used + 1
      /\ right.old = below.old /\ right.new = hash_node(below.new, sibling)
      /\ IsWalk(right)
  BY DEF IsWalk
<1>6. failed.ok = FALSE /\ IsWalk(failed)
  BY <1>3 DEF IsWalk
<1>7. below.ok \in BOOLEAN
  BY DEF IsWalk
<1>8. node % 2 = 1 => Takes(m, n, level)
  BY DEF Takes
<1> HIDE DEF takes, left, right, failed, sibling
<1>9. above = IF ~(below.ok /\ Takes(m, n, level)) THEN below
              ELSE IF below.used = Len(nodes) THEN failed
              ELSE IF node % 2 = 1 THEN left
              ELSE right
  BY <1>0, <1>1, <1>2
<1> HIDE DEF node
<1>10. CASE ~Takes(m, n, level)
  BY <1>8, <1>9, <1>10 DEF node
<1>11. CASE Takes(m, n, level) /\ ~below.ok
  BY <1>7, <1>9, <1>11 DEF node
<1>12. CASE Takes(m, n, level) /\ below.ok /\ below.used = Len(nodes)
  BY <1>6, <1>9, <1>12 DEF node
<1>13. CASE Takes(m, n, level) /\ below.ok /\ below.used # Len(nodes) /\ node % 2 = 1
  BY <1>4, <1>9, <1>13 DEF node, sibling
<1>14. CASE Takes(m, n, level) /\ below.ok /\ below.used # Len(nodes) /\ node % 2 # 1
  BY <1>5, <1>9, <1>14 DEF node, sibling
<1>15. QED
  BY <1>7, <1>10, <1>11, <1>12, <1>13, <1>14

(* What the loops carry is a record at every level.                        *)
LEMMA WalksAre ==
  ASSUME NEW m \in Nat \ {0}, NEW n \in Size, m < n, NEW nodes, NEW seed, NEW used
  PROVE  \A level \in Nat :
           Climbed(m) <= level /\ level <= MaxLeaves => IsWalk(Walk(m, n, nodes, seed, used)[level])
<1> DEFINE W(level) == Walk(m, n, nodes, seed, used)[level]
           S == {level \in Nat : Climbed(m) <= level /\ level <= MaxLeaves => IsWalk(W(level))}
<1>0. Climbed(m) \in Nat /\ MaxLeaves \in Nat
  BY ClimbedIs, MaxLeavesAssumption
<1>1. IsWalk(W(Climbed(m)))
  <2>1. W(Climbed(m)) = [ok |-> TRUE, used |-> used, old |-> seed, new |-> seed]
    BY WalkStarts
  <2> HIDE DEF W
  <2>2. QED
    BY <2>1, RecordIsWalk
<1>2. ASSUME NEW level \in Nat, level \in S PROVE level + 1 \in S
  <2> SUFFICES ASSUME Climbed(m) <= level + 1, level + 1 <= MaxLeaves PROVE IsWalk(W(level + 1))
    OBVIOUS
  <2>1. CASE level + 1 = Climbed(m)
    BY <1>1, <2>1
  <2>2. CASE level + 1 # Climbed(m)
    <3>1. Climbed(m) <= level /\ level < MaxLeaves
      BY <1>0, <2>2
    <3>2. IsWalk(W(level))
      BY <1>0, <1>2, <3>1
    <3> DEFINE below == W(level)
               above == W(level + 1)
    <3>3. /\ below = Walk(m, n, nodes, seed, used)[level]
          /\ above = Walk(m, n, nodes, seed, used)[level + 1]
          /\ IsWalk(below)
      BY <3>2
    <3> HIDE DEF below, above
    <3>4. IsWalk(above)
      BY <3>1, <3>3, WalkUp
    <3>5. QED
      BY <3>4 DEF above
  <2>3. QED
    BY <2>1, <2>2
<1>3. 0 \in S
  <2> HIDE DEF W
  <2>1. CASE Climbed(m) = 0
    BY <1>1, <2>1
  <2>2. CASE Climbed(m) # 0
    BY <1>0, <2>2
  <2>3. QED
    BY <2>1, <2>2
<1>4. QED
  <2> HIDE DEF S
  <2>1. \A level \in Nat : level \in S
    BY <1>2, <1>3, Induct
  <2>2. QED
    BY <2>1 DEF S

(* Nodes that rebuild the new tree's hash rebuild the old tree's.          *)
LEMMA WalksAreSound ==
  ASSUME NEW m \in Nat \ {0}, NEW n \in Size, m < n, NEW nodes, NEW seed, NEW used, NEW hashes
  PROVE  \A level \in Nat :
           Climbed(m) <= level /\ level <= MaxLeaves =>
             LET at == Walk(m, n, nodes, seed, used)[level]
             IN  at.ok /\ at.new = NewHash(hashes, m, n, level) => at.old = OldHash(hashes, m, level)
<1> DEFINE W(level) == Walk(m, n, nodes, seed, used)[level]
           P(level) == W(level).ok /\ W(level).new = NewHash(hashes, m, n, level)
                         => W(level).old = OldHash(hashes, m, level)
           S == {level \in Nat : Climbed(m) <= level /\ level <= MaxLeaves => P(level)}
<1>0. Climbed(m) \in Nat /\ MaxLeaves \in Nat /\ n \in Nat
  BY ClimbedIs, MaxLeavesAssumption DEF Size
<1>1. P(Climbed(m))
  <2>1. W(Climbed(m)) = [ok |-> TRUE, used |-> used, old |-> seed, new |-> seed]
    BY WalkStarts
  <2>2. W(Climbed(m)).old = W(Climbed(m)).new
    BY <2>1
  <2> HIDE DEF W
  <2>3. QED
    BY <1>0, <2>2, SeedHash
<1>2. ASSUME NEW level \in Nat, Climbed(m) <= level, level < MaxLeaves, P(level) PROVE P(level + 1)
  <2> DEFINE below == W(level)
             above == W(level + 1)
             sibling == nodes[below.used + 1]
             N == NewHash(hashes, m, n, level)
             O == OldHash(hashes, m, level)
             N2 == NewHash(hashes, m, n, level + 1)
             O2 == OldHash(hashes, m, level + 1)
  <2>1. IsWalk(below)
    BY <1>0, <1>2, WalksAre
  <2>2. below.ok /\ below.new = N => below.old = O
    BY <1>2
  <2>3. /\ below = Walk(m, n, nodes, seed, used)[level]
        /\ above = Walk(m, n, nodes, seed, used)[level + 1]
    OBVIOUS
  <2> SUFFICES ASSUME above.ok, above.new = N2 PROVE above.old = O2
    OBVIOUS
  <2> HIDE DEF P, below, above
  <2>4. /\ ~Takes(m, n, level) => above = below
        /\ Takes(m, n, level) => below.ok
        /\ PlaceAt(m, level) % 2 = 1 =>
              /\ above.old = hash_node(sibling, below.old)
              /\ above.new = hash_node(sibling, below.new)
        /\ PlaceAt(m, level) % 2 # 1 /\ Takes(m, n, level) =>
              /\ above.old = below.old
              /\ above.new = hash_node(below.new, sibling)
    BY <1>0, <1>2, <2>1, <2>3, WalkUp
  <2> HIDE DEF sibling, N, O, N2, O2
  <2>5. CASE PlaceAt(m, level) % 2 = 1
    <3> DEFINE L == LeftHash(hashes, m, level)
    <3>1. O2 = hash_node(L, O) /\ N2 = hash_node(L, N)
      BY <1>0, <2>5, HashOfRightChild DEF O2, N2, O, N
    <3>2. Takes(m, n, level)
      BY <2>5 DEF Takes
    <3> HIDE DEF L
    <3>3. sibling = L /\ below.new = N
      BY <2>4, <2>5, <3>1, NodesEqual
    <3>4. QED
      BY <2>2, <2>4, <2>5, <3>1, <3>2, <3>3
  <2>6. CASE PlaceAt(m, level) % 2 = 0 /\ PlaceAt(m, level) < PlaceAt(n, level)
    <3> DEFINE R == RightHash(hashes, m, n, level)
    <3>1. O2 = O /\ N2 = hash_node(N, R)
      BY <1>0, <2>6, HashOfLeftChild DEF O2, N2, O, N
    <3>2. Takes(m, n, level) /\ PlaceAt(m, level) % 2 # 1
      BY <2>6 DEF Takes
    <3> HIDE DEF R
    <3>3. below.new = N
      BY <2>4, <3>1, <3>2, NodesEqual
    <3>4. QED
      BY <2>2, <2>4, <3>1, <3>2, <3>3
  <2>7. CASE PlaceAt(m, level) % 2 = 0 /\ ~(PlaceAt(m, level) < PlaceAt(n, level))
    <3>1. O2 = O /\ N2 = N
      BY <1>0, <2>7, HashOfLoneChild DEF O2, N2, O, N
    <3>2. ~Takes(m, n, level)
      BY <2>7 DEF Takes
    <3>3. QED
      BY <2>2, <2>4, <3>1, <3>2
  <2>8. QED
    BY <2>5, <2>6, <2>7, StartUp
<1>3. ASSUME NEW level \in Nat, level \in S PROVE level + 1 \in S
  <2> HIDE DEF P
  <2>1. CASE level + 1 = Climbed(m)
    BY <1>1, <2>1
  <2>2. CASE level + 1 # Climbed(m)
    BY <1>0, <1>2, <1>3, <2>2
  <2>3. QED
    BY <2>1, <2>2
<1>4. 0 \in S
  <2> HIDE DEF P
  <2>1. CASE Climbed(m) = 0
    BY <1>1, <2>1
  <2>2. CASE Climbed(m) # 0
    BY <1>0, <2>2
  <2>3. QED
    BY <2>1, <2>2
<1>5. \A level \in Nat : level \in S
  <2> HIDE DEF S
  <2> QED BY <1>3, <1>4, Induct
<1>6. QED
  BY <1>5

(* Whatever nodes and whatever old root somebody sends, verify_consistency *)
(* accepts against the hash of a log only the hash of that log's first     *)
(* old_size leaves.                                                        *)
THEOREM ConsistencyIsSound ==
  ASSUME NEW hashes, NEW n \in Size, NEW m \in 1 .. n, NEW old_root, NEW nodes,
         VerifyConsistency(old_root, RangeHash(hashes)[n][0], nodes, m, n)
  PROVE  old_root = RangeHash(hashes)[m][0]
<1>0. n \in Nat /\ MaxLeaves \in Nat /\ n <= MaxLeaves /\ m \in Nat \ {0} /\ m <= n
  BY MaxLeavesAssumption DEF Size
<1>1. CASE m = n
  BY <1>0, <1>1 DEF VerifyConsistency
<1>2. CASE m # n
  <2> DEFINE root == RangeHash(hashes)[n][0]
             end == IF IsSubtree(m) THEN Walk(m, n, nodes, old_root, 0)[MaxLeaves]
                    ELSE Walk(m, n, nodes, nodes[1], 1)[MaxLeaves]
  <2>1. Done(nodes, end) /\ end.new = root /\ end.old = old_root
    BY <1>0, <1>2 DEF VerifyConsistency
  <2>2. m < n /\ n <= Pow2[MaxLeaves] /\ Climbed(m) <= MaxLeaves
    <3>1. Climbed(m) \in 0 .. m
      BY <1>0, ClimbedIs
    <3>2. MaxLeaves < Pow2[MaxLeaves] /\ Pow2[MaxLeaves] \in Nat
      BY <1>0, Pow2Nat
    <3>3. QED
      BY <1>0, <1>2, <3>1, <3>2
  <2>3. /\ NewHash(hashes, m, n, MaxLeaves) = root
        /\ OldHash(hashes, m, MaxLeaves) = RangeHash(hashes)[m][0]
    <3>1. Start(m, MaxLeaves) = 0 /\ Width(m, n, MaxLeaves) = n /\ m - 0 = m
      BY <1>0, <2>2, TopWidth
    <3>2. QED
      BY <3>1 DEF NewHash, OldHash
  <2> HIDE DEF root
  <2>4. PICK seed, used : end = Walk(m, n, nodes, seed, used)[MaxLeaves]
    OBVIOUS
  <2> HIDE DEF end
  <2>5. end.ok /\ end.new = NewHash(hashes, m, n, MaxLeaves)
    BY <2>1, <2>3 DEF Done
  <2>6. end.old = OldHash(hashes, m, MaxLeaves)
    <3>1. \A level \in Nat :
            Climbed(m) <= level /\ level <= MaxLeaves =>
              LET at == Walk(m, n, nodes, seed, used)[level]
              IN  at.ok /\ at.new = NewHash(hashes, m, n, level) => at.old = OldHash(hashes, m, level)
      BY <1>0, <2>2, WalksAreSound
    <3>2. QED
      BY <1>0, <2>2, <2>4, <2>5, <3>1
  <2>7. QED
    BY <2>1, <2>3, <2>6
<1>3. QED
  BY <1>1, <1>2

-----------------------------------------------------------------------------
(* The nodes that consistency_proof sends.                                 *)

(* What subproof pushes below a level of the climb from leaf m.            *)
NodesAt(m, n, level) ==
  Subproof[Width(m, n, level)][Start(m, level)][m - Start(m, level)][Start(m, level) = 0].result

Sibling(m, n, level) ==
  IF PlaceAt(m, level) % 2 = 1 THEN LeftHash(leaf_hashes, m, level) ELSE RightHash(leaf_hashes, m, n, level)

(* Where the climb starts: the seed, unless it is the old root.            *)
LEMMA NodesStart ==
  ASSUME TreeInv, NEW n, n = Len(leaf_hashes), NEW m \in 1 .. n, m < n
  PROVE  NodesAt(m, n, Climbed(m)) =
           IF Start(m, Climbed(m)) = 0 THEN << >>
           ELSE Append(<< >>, NewHash(leaf_hashes, m, n, Climbed(m)))
<1> DEFINE c == Climbed(m)
           s == Start(m, c)
           w == Width(m, n, c)
           k == split_point(w)
           known == s = 0
           one == Node(Subproof[k][s][m - s][known], Subtree[w - k][s + k])
           two == Node(Subproof[w - k][s + k][(m - s) - k][FALSE], Subtree[k][s])
<1>0. /\ n \in Nat /\ n \in Size /\ MaxLeaves \in Nat /\ n <= MaxLeaves /\ m \in Nat \ {0}
  BY LengthIs, MaxLeavesAssumption DEF Size
<1>1. c \in Nat /\ w = m - s /\ m - s = Pow2[c]
  BY <1>0, WidthAtClimbed
<1>2. s \in Nat /\ w \in 1 .. Pow2[c] /\ Pow2[c] \in Nat /\ s + w <= n
  BY <1>0, <1>1, Widths
<1>3. Subproof[w][s][m - s][known] =
        IF m - s = w THEN IF known THEN NoNodes ELSE Node(NoNodes, Subtree[w][s])
        ELSE IF m - s <= k THEN one ELSE two
  <2>1. w \in 0 .. MaxLeaves /\ s \in Size /\ m - s \in 1 .. w /\ known \in BOOLEAN
    BY <1>0, <1>1, <1>2 DEF Size
  <2> HIDE DEF w, s, known
  <2>2. QED
    BY <2>1, SubproofDef
<1> HIDE DEF one, two, k
<1>4. Subproof[w][s][m - s][known] = IF known THEN NoNodes ELSE Node(NoNodes, Subtree[w][s])
  BY <1>1, <1>3
<1>5. Subtree[w][s].result = RangeHash(leaf_hashes)[w][s]
  <2>1. w \in Size /\ s \in Size
    BY <1>0, <1>2 DEF Size
  <2>2. s + w <= Len(leaf_hashes)
    BY <1>2
  <2> HIDE DEF w, s
  <2>3. QED
    BY <2>1, <2>2, SubtreeIs
<1>6. NodesAt(m, n, c) = Subproof[w][s][m - s][known].result
  BY DEF NodesAt
<1>7. NewHash(leaf_hashes, m, n, c) = RangeHash(leaf_hashes)[w][s]
  BY DEF NewHash
<1>8. NodesAt(m, n, c) = IF s = 0 THEN << >> ELSE Append(<< >>, NewHash(leaf_hashes, m, n, c))
  <2> HIDE DEF s, w, c
  <2>1. QED
    BY <1>4, <1>5, <1>6, <1>7 DEF NoNodes, Node
<1>9. QED
  BY <1>8

(* One level up there is the sibling, if the loops take one.               *)
LEMMA NodesUp ==
  ASSUME TreeInv, NEW n, n = Len(leaf_hashes), NEW m \in 1 .. n, m < n,
         NEW level \in Nat, Climbed(m) <= level
  PROVE  NodesAt(m, n, level + 1) =
           IF Takes(m, n, level) THEN Append(NodesAt(m, n, level), Sibling(m, n, level))
           ELSE NodesAt(m, n, level)
<1> DEFINE s == Start(m, level)
           p == Pow2[level]
           w == Width(m, n, level)
           t == Start(m, level + 1)
           v == Width(m, n, level + 1)
           k == split_point(v)
           known == t = 0
           one == Node(Subproof[k][t][m - t][known], Subtree[v - k][t + k])
           two == Node(Subproof[v - k][t + k][(m - t) - k][FALSE], Subtree[k][t])
<1>0. /\ n \in Nat /\ n \in Size /\ MaxLeaves \in Nat /\ n <= MaxLeaves /\ m \in Nat \ {0}
      /\ level + 1 \in Nat /\ Climbed(m) \in Nat
  BY LengthIs, MaxLeavesAssumption, ClimbedIs DEF Size
<1>1. /\ s \in Nat /\ p \in Nat \ {0} /\ w \in 1 .. p /\ s + w <= n /\ m - s \in 1 .. p
  BY <1>0, Widths
<1>2. /\ t \in Nat /\ v \in 1 .. 2 * p /\ t + v <= n /\ m - t \in 1 .. 2 * p /\ t < m
  <2>1. /\ Start(m, level + 1) \in Nat /\ Width(m, n, level + 1) \in 1 .. Pow2[level + 1]
        /\ Start(m, level + 1) + Width(m, n, level + 1) <= n
        /\ m - Start(m, level + 1) \in 1 .. Pow2[level + 1]
        /\ Start(m, level + 1) < m
    BY <1>0, Widths
  <2>2. Pow2[level + 1] = 2 * p
    BY Pow2Next
  <2>3. QED
    BY <2>1, <2>2
<1>3. m - t < v
  <2>1. level + 1 > Climbed(m)
    BY <1>0
  <2>2. QED
    BY <1>0, <2>1, WiderAbove
<1>4. Subproof[v][t][m - t][known] =
        IF m - t = v THEN IF known THEN NoNodes ELSE Node(NoNodes, Subtree[v][t])
        ELSE IF m - t <= k THEN one ELSE two
  <2>1. v \in 0 .. MaxLeaves /\ t \in Size /\ m - t \in 1 .. v /\ known \in BOOLEAN
    BY <1>0, <1>2, <1>3 DEF Size
  <2> HIDE DEF v, t, known
  <2>2. QED
    BY <2>1, SubproofDef
<1>5. Subproof[v][t][m - t][known] = IF m - t <= k THEN one ELSE two
  <2> HIDE DEF one, two, known, k, t, v
  <2> QED BY <1>2, <1>3, <1>4
<1>6. /\ NodesAt(m, n, level + 1) = Subproof[v][t][m - t][known].result
      /\ NodesAt(m, n, level) = Subproof[w][s][m - s][s = 0].result
      /\ LeftHash(leaf_hashes, m, level) = RangeHash(leaf_hashes)[p][s - p]
      /\ RightHash(leaf_hashes, m, n, level) = RangeHash(leaf_hashes)[v - p][s + p]
  BY DEF NodesAt, LeftHash, RightHash
<1>7. /\ PlaceAt(m, level) % 2 = 1 => t = s - p /\ v = p + w
      /\ PlaceAt(m, level) % 2 = 0 /\ PlaceAt(m, level) < PlaceAt(n, level) => t = s /\ w = p /\ p < v
      /\ PlaceAt(m, level) % 2 = 0 /\ ~(PlaceAt(m, level) < PlaceAt(n, level)) => t = s /\ v = w
  BY <1>0, WidthUp
<1>8. p < v /\ v <= 2 * p => k = p
  <2> HIDE DEF v
  <2>1. ASSUME p < v, v <= 2 * p PROVE split_point(v) = p
    <3>1. v \in Nat
      BY <1>2
    <3>2. QED
      BY <2>1, <3>1, SplitAt
  <2>2. QED
    BY <2>1
<1>9. ASSUME NEW x \in Nat, NEW y \in Nat, y + x <= n
      PROVE  Subtree[x][y].result = RangeHash(leaf_hashes)[x][y]
  <2>1. x \in Size /\ y \in Size /\ y + x <= Len(leaf_hashes)
    BY <1>0, <1>9 DEF Size
  <2>2. QED
    BY <2>1, SubtreeIs
<1> HIDE DEF s, p, w, t, v, k
<1>10. CASE PlaceAt(m, level) % 2 = 1
  <2>1. t = s - p /\ v = p + w /\ k = p
    BY <1>1, <1>2, <1>7, <1>8, <1>10
  <2>2. /\ ~(m - t <= k) /\ v - k = w /\ t + k = s /\ (m - t) - k = m - s /\ (s = 0) = FALSE
        /\ t = s - p
    BY <1>0, <1>1, <1>2, <2>1
  <2>3. two = Node(Subproof[w][s][m - s][s = 0], Subtree[p][s - p])
    BY <2>1, <2>2
  <2>4. Subtree[p][s - p].result = RangeHash(leaf_hashes)[p][s - p]
    <3>1. p \in Nat /\ s - p \in Nat /\ (s - p) + p <= n
      BY <1>0, <1>1, <1>2, <2>2
    <3>2. QED
      BY <3>1, <1>9
  <2> HIDE DEF one, two
  <2>5. NodesAt(m, n, level + 1) = two.result
    BY <1>5, <1>6, <2>2
  <2>6. NodesAt(m, n, level + 1) = Append(NodesAt(m, n, level), LeftHash(leaf_hashes, m, level))
    BY <1>6, <2>3, <2>4, <2>5 DEF Node
  <2>7. QED
    BY <1>10, <2>6 DEF Takes, Sibling
<1>11. CASE PlaceAt(m, level) % 2 = 0 /\ PlaceAt(m, level) < PlaceAt(n, level)
  <2>1. t = s /\ w = p /\ k = p /\ p < v
    BY <1>1, <1>2, <1>7, <1>8, <1>11
  <2>2. m - t <= k
    BY <1>1, <2>1
  <2>3. one = Node(Subproof[w][s][m - s][s = 0], Subtree[v - p][s + p])
    BY <2>1
  <2>4. Subtree[v - p][s + p].result = RangeHash(leaf_hashes)[v - p][s + p]
    <3>1. v - p \in Nat /\ s + p \in Nat /\ (s + p) + (v - p) <= n
      BY <1>0, <1>1, <1>2, <2>1
    <3>2. QED
      BY <3>1, <1>9
  <2> HIDE DEF one, two
  <2>5. NodesAt(m, n, level + 1) = one.result
    BY <1>5, <1>6, <2>2
  <2>6. NodesAt(m, n, level + 1) = Append(NodesAt(m, n, level), RightHash(leaf_hashes, m, n, level))
    BY <1>6, <2>3, <2>4, <2>5 DEF Node
  <2>7. QED
    BY <1>11, <2>6 DEF Takes, Sibling
<1>12. CASE PlaceAt(m, level) % 2 = 0 /\ ~(PlaceAt(m, level) < PlaceAt(n, level))
  <2>1. NodesAt(m, n, level + 1) = NodesAt(m, n, level)
    BY <1>6, <1>7, <1>12
  <2>2. QED
    BY <1>12, <2>1 DEF Takes
<1>13. QED
  BY <1>0, <1>10, <1>11, <1>12, StartUp

NodeSet(m, n) ==
  {Sibling(m, n, level) : level \in Nat} \cup {NewHash(leaf_hashes, m, n, Climbed(m))}

(* The nodes are a sequence.                                               *)
LEMMA NodesAre ==
  ASSUME TreeInv, NEW n, n = Len(leaf_hashes), NEW m \in 1 .. n, m < n
  PROVE  \A level \in Nat : Climbed(m) <= level => NodesAt(m, n, level) \in Seq(NodeSet(m, n))
<1> DEFINE D == NodeSet(m, n)
           S == {level \in Nat : Climbed(m) <= level => NodesAt(m, n, level) \in Seq(D)}
<1>0. n \in Nat /\ m \in Nat \ {0} /\ Climbed(m) \in Nat
  <2>1. n \in Nat /\ m \in Nat \ {0}
    BY LengthIs
  <2>2. QED
    BY <2>1, ClimbedIs
<1>1. NodesAt(m, n, Climbed(m)) \in Seq(D)
  <2> DEFINE x == NewHash(leaf_hashes, m, n, Climbed(m))
  <2>1. x \in D
    BY DEF NodeSet
  <2>2. NodesAt(m, n, Climbed(m)) \in {<< >>, Append(<< >>, x)}
    BY NodesStart
  <2> HIDE DEF x, D
  <2>3. << >> \in Seq(D) /\ Append(<< >>, x) \in Seq(D)
    BY <2>1
  <2>4. QED
    BY <2>2, <2>3
<1>2. ASSUME NEW level \in Nat, level \in S PROVE level + 1 \in S
  <2> SUFFICES ASSUME Climbed(m) <= level + 1 PROVE NodesAt(m, n, level + 1) \in Seq(D)
    OBVIOUS
  <2>1. CASE level + 1 = Climbed(m)
    BY <1>1, <2>1
  <2>2. CASE level + 1 # Climbed(m)
    <3>1. Climbed(m) <= level
      BY <1>0, <2>2
    <3>2. NodesAt(m, n, level) \in Seq(D)
      BY <1>2, <3>1
    <3>3. Sibling(m, n, level) \in D
      BY DEF NodeSet
    <3>4. NodesAt(m, n, level + 1) \in {NodesAt(m, n, level), Append(NodesAt(m, n, level), Sibling(m, n, level))}
      BY <3>1, NodesUp
    <3> HIDE DEF D
    <3>5. Append(NodesAt(m, n, level), Sibling(m, n, level)) \in Seq(D)
      BY <3>2, <3>3, AppendProperties
    <3>6. QED
      BY <3>2, <3>4, <3>5
  <2>3. QED
    BY <2>1, <2>2
<1>3. 0 \in S
  <2> HIDE DEF D
  <2>1. CASE Climbed(m) = 0
    BY <1>1, <2>1
  <2>2. CASE Climbed(m) # 0
    BY <1>0, <2>2
  <2>3. QED
    BY <2>1, <2>2
<1>4. \A level \in Nat : level \in S
  <2> HIDE DEF S
  <2> QED BY <1>2, <1>3, Induct
<1>5. QED
  BY <1>4

(* A level that takes a node makes the proof one node longer.              *)
LEMMA NodesGrow ==
  ASSUME TreeInv, NEW n, n = Len(leaf_hashes), NEW m \in 1 .. n, m < n,
         NEW level \in Nat, Climbed(m) <= level,
         NEW below, NEW above, below = NodesAt(m, n, level), above = NodesAt(m, n, level + 1)
  PROVE  /\ Len(below) \in Nat /\ Len(above) \in Nat
         /\ ~Takes(m, n, level) => above = below
         /\ Takes(m, n, level) => Len(above) = Len(below) + 1 /\ above[Len(below) + 1] = Sibling(m, n, level)
         /\ Len(below) <= Len(above)
         /\ \A i \in 1 .. Len(below) : above[i] = below[i]
<1> DEFINE D == NodeSet(m, n)
           x == Sibling(m, n, level)
<1>1. below \in Seq(D) /\ x \in D
  BY NodesAre DEF NodeSet
<1>2. above = IF Takes(m, n, level) THEN Append(below, x) ELSE below
  BY NodesUp
<1> HIDE DEF D
<1>3. /\ Len(below) \in Nat
      /\ Append(below, x) \in Seq(D)
      /\ Len(Append(below, x)) = Len(below) + 1
      /\ Append(below, x)[Len(below) + 1] = x
      /\ \A i \in 1 .. Len(below) : Append(below, x)[i] = below[i]
  BY <1>1, AppendProperties, LenProperties
<1>4. QED
  BY <1>2, <1>3

(* What is pushed first stays first.                                       *)
LEMMA NodesStay ==
  ASSUME TreeInv, NEW n, n = Len(leaf_hashes), NEW m \in 1 .. n, m < n,
         NEW low \in Nat, Climbed(m) <= low
  PROVE  \A high \in Nat :
           low <= high =>
             /\ Len(NodesAt(m, n, low)) <= Len(NodesAt(m, n, high))
             /\ \A i \in 1 .. Len(NodesAt(m, n, low)) : NodesAt(m, n, high)[i] = NodesAt(m, n, low)[i]
<1> DEFINE F(level) == NodesAt(m, n, level)
           P(high) == /\ Len(F(low)) <= Len(F(high))
                      /\ \A i \in 1 .. Len(F(low)) : F(high)[i] = F(low)[i]
           S == {high \in Nat : low <= high => P(high)}
<1>0. Climbed(m) \in Nat
  <2>1. m \in Nat \ {0}
    BY LengthIs
  <2>2. QED
    BY <2>1, ClimbedIs
<1>1. ASSUME NEW level \in Nat, Climbed(m) <= level
      PROVE  /\ Len(F(level)) \in Nat /\ Len(F(level)) <= Len(F(level + 1)) /\ Len(F(level + 1)) \in Nat
             /\ \A i \in 1 .. Len(F(level)) : F(level + 1)[i] = F(level)[i]
  BY <1>1, NodesGrow
<1> HIDE DEF F
<1>2. ASSUME NEW high \in Nat, high \in S PROVE high + 1 \in S
  <2> SUFFICES ASSUME low <= high + 1 PROVE P(high + 1)
    OBVIOUS
  <2>1. CASE low = high + 1
    BY <1>1, <2>1
  <2>2. CASE low # high + 1
    <3>1. P(high) /\ Climbed(m) <= high
      BY <1>0, <1>2, <2>2
    <3>2. QED
      BY <1>1, <3>1
  <2>3. QED
    BY <2>1, <2>2
<1>3. 0 \in S
  BY <1>1
<1>4. \A high \in Nat : high \in S
  <2> HIDE DEF S
  <2> QED BY <1>2, <1>3, Induct
<1>5. QED
  BY <1>4 DEF F

(* However the loops go, they have used as many nodes as subproof pushes.  *)
LEMMA WalksUse ==
  ASSUME TreeInv, NEW n, n = Len(leaf_hashes), NEW m \in 1 .. n, m < n, NEW nodes, NEW seed
  PROVE  \A level \in Nat :
           Climbed(m) <= level /\ level <= MaxLeaves =>
             LET at == Walk(m, n, nodes, seed, Len(NodesAt(m, n, Climbed(m))))[level]
             IN  at.ok => at.used = Len(NodesAt(m, n, level))
<1> DEFINE used == Len(NodesAt(m, n, Climbed(m)))
           W(level) == Walk(m, n, nodes, seed, used)[level]
           F(level) == Len(NodesAt(m, n, level))
           P(level) == W(level).ok => W(level).used = F(level)
           S == {level \in Nat : Climbed(m) <= level /\ level <= MaxLeaves => P(level)}
<1>0. n \in Nat /\ n \in Size /\ MaxLeaves \in Nat /\ m \in Nat \ {0} /\ Climbed(m) \in Nat
  <2>1. n \in Nat /\ n \in Size /\ MaxLeaves \in Nat /\ m \in Nat \ {0}
    BY LengthIs, MaxLeavesAssumption
  <2>2. QED
    BY <2>1, ClimbedIs
<1>1. P(Climbed(m))
  <2>1. W(Climbed(m)) = [ok |-> TRUE, used |-> used, old |-> seed, new |-> seed]
    <3> HIDE DEF used
    <3> QED BY <1>0, WalkStarts
  <2> HIDE DEF W
  <2>2. QED
    BY <2>1
<1>2. ASSUME NEW level \in Nat, Climbed(m) <= level, level < MaxLeaves, P(level) PROVE P(level + 1)
  <2> DEFINE below == W(level)
             above == W(level + 1)
  <2> HIDE DEF used
  <2>1. IsWalk(below)
    BY <1>0, <1>2, WalksAre
  <2>2. below.ok => below.used = F(level)
    BY <1>2
  <2>3. /\ below = Walk(m, n, nodes, seed, used)[level]
        /\ above = Walk(m, n, nodes, seed, used)[level + 1]
    OBVIOUS
  <2>4. /\ ~Takes(m, n, level) => F(level + 1) = F(level)
        /\ Takes(m, n, level) => F(level + 1) = F(level) + 1
    BY <1>2, NodesGrow
  <2> SUFFICES ASSUME above.ok PROVE above.used = F(level + 1)
    OBVIOUS
  <2> HIDE DEF P, below, above, F
  <2>5. /\ IsWalk(above)
        /\ ~Takes(m, n, level) => above = below
        /\ Takes(m, n, level) => (above.ok <=> below.ok /\ below.used # Len(nodes))
        /\ above.ok /\ Takes(m, n, level) => above.used = below.used + 1
        /\ above.ok /\ PlaceAt(m, level) % 2 = 1 =>
              /\ above.old = hash_node(nodes[below.used + 1], below.old)
              /\ above.new = hash_node(nodes[below.used + 1], below.new)
        /\ above.ok /\ PlaceAt(m, level) % 2 # 1 /\ Takes(m, n, level) =>
              /\ above.old = below.old
              /\ above.new = hash_node(below.new, nodes[below.used + 1])
    BY <1>0, <1>2, <2>1, <2>3, WalkUp
  <2>6. QED
    BY <2>2, <2>4, <2>5
<1>3. ASSUME NEW level \in Nat, level \in S PROVE level + 1 \in S
  <2> HIDE DEF P
  <2>1. CASE level + 1 = Climbed(m)
    BY <1>1, <2>1
  <2>2. CASE level + 1 # Climbed(m)
    BY <1>0, <1>2, <1>3, <2>2
  <2>3. QED
    BY <2>1, <2>2
<1>4. 0 \in S
  <2> HIDE DEF P
  <2>1. CASE Climbed(m) = 0
    BY <1>1, <2>1
  <2>2. CASE Climbed(m) # 0
    BY <1>0, <2>2
  <2>3. QED
    BY <2>1, <2>2
<1>5. \A level \in Nat : level \in S
  <2> HIDE DEF S
  <2> QED BY <1>3, <1>4, Induct
<1>6. QED
  BY <1>5

(* On the nodes of the proof, the loops rebuild both hashes, level by      *)
(* level.                                                                  *)
LEMMA WalksAreComplete ==
  ASSUME TreeInv, NEW n, n = Len(leaf_hashes), NEW m \in 1 .. n, m < n,
         NEW nodes, nodes = NodesAt(m, n, MaxLeaves),
         NEW seed, seed = NewHash(leaf_hashes, m, n, Climbed(m))
  PROVE  \A level \in Nat :
           Climbed(m) <= level /\ level <= MaxLeaves =>
             LET at == Walk(m, n, nodes, seed, Len(NodesAt(m, n, Climbed(m))))[level]
             IN  /\ at.ok
                 /\ at.used = Len(NodesAt(m, n, level))
                 /\ at.old = OldHash(leaf_hashes, m, level)
                 /\ at.new = NewHash(leaf_hashes, m, n, level)
<1> DEFINE used == Len(NodesAt(m, n, Climbed(m)))
           W(level) == Walk(m, n, nodes, seed, used)[level]
           F(level) == Len(NodesAt(m, n, level))
           P(level) == /\ W(level).ok
                       /\ W(level).used = F(level)
                       /\ W(level).old = OldHash(leaf_hashes, m, level)
                       /\ W(level).new = NewHash(leaf_hashes, m, n, level)
           S == {level \in Nat : Climbed(m) <= level /\ level <= MaxLeaves => P(level)}
<1>0. n \in Nat /\ n \in Size /\ MaxLeaves \in Nat /\ m \in Nat \ {0} /\ Climbed(m) \in Nat
  <2>1. n \in Nat /\ n \in Size /\ MaxLeaves \in Nat /\ m \in Nat \ {0}
    BY LengthIs, MaxLeavesAssumption
  <2>2. QED
    BY <2>1, ClimbedIs
<1>1. P(Climbed(m))
  <2>1. W(Climbed(m)) = [ok |-> TRUE, used |-> used, old |-> seed, new |-> seed]
    <3> HIDE DEF used
    <3> QED BY <1>0, WalkStarts
  <2>2. seed = OldHash(leaf_hashes, m, Climbed(m))
    BY <1>0, SeedHash
  <2> HIDE DEF W
  <2>3. QED
    BY <2>1, <2>2
<1>2. ASSUME NEW level \in Nat, Climbed(m) <= level, level < MaxLeaves, P(level) PROVE P(level + 1)
  <2> DEFINE below == W(level)
             above == W(level + 1)
             x == nodes[below.used + 1]
             N == NewHash(leaf_hashes, m, n, level)
             O == OldHash(leaf_hashes, m, level)
             N2 == NewHash(leaf_hashes, m, n, level + 1)
             O2 == OldHash(leaf_hashes, m, level + 1)
  <2> HIDE DEF used
  <2>1. IsWalk(below)
    BY <1>0, <1>2, WalksAre
  <2>2. below.ok /\ below.used = F(level) /\ below.old = O /\ below.new = N
    BY <1>2
  <2>3. /\ below = Walk(m, n, nodes, seed, used)[level]
        /\ above = Walk(m, n, nodes, seed, used)[level + 1]
    OBVIOUS
  <2>4. /\ F(level) \in Nat /\ F(level + 1) \in Nat
        /\ ~Takes(m, n, level) => F(level + 1) = F(level)
        /\ Takes(m, n, level) =>
             /\ F(level + 1) = F(level) + 1
             /\ NodesAt(m, n, level + 1)[F(level) + 1] = Sibling(m, n, level)
    BY <1>2, NodesGrow
  <2>5. /\ F(level + 1) <= Len(nodes)
        /\ \A i \in 1 .. F(level + 1) : nodes[i] = NodesAt(m, n, level + 1)[i]
    <3>1. level + 1 \in Nat /\ Climbed(m) <= level + 1 /\ level + 1 <= MaxLeaves
      BY <1>0, <1>2
    <3>2. QED
      BY <1>0, <3>1, NodesStay
  <2> SUFFICES above.ok /\ above.used = F(level + 1) /\ above.old = O2 /\ above.new = N2
    OBVIOUS
  <2> HIDE DEF P, below, above, F
  <2>6. Takes(m, n, level) => below.used # Len(nodes) /\ x = Sibling(m, n, level)
    <3>1. ASSUME Takes(m, n, level) PROVE below.used # Len(nodes) /\ x = Sibling(m, n, level)
      <4>1. F(level) + 1 \in 1 .. F(level + 1) /\ F(level) + 1 <= Len(nodes)
        BY <2>4, <2>5, <3>1
      <4>2. F(level) # Len(nodes) /\ nodes[F(level) + 1] = Sibling(m, n, level)
        BY <2>4, <2>5, <3>1, <4>1
      <4>3. QED
        BY <2>2, <4>2
    <3>2. QED
      BY <3>1
  <2>7. /\ ~Takes(m, n, level) => above = below
        /\ Takes(m, n, level) => (above.ok <=> below.ok /\ below.used # Len(nodes))
        /\ above.ok /\ Takes(m, n, level) => above.used = below.used + 1
        /\ above.ok /\ PlaceAt(m, level) % 2 = 1 =>
              /\ above.old = hash_node(x, below.old)
              /\ above.new = hash_node(x, below.new)
        /\ above.ok /\ PlaceAt(m, level) % 2 # 1 /\ Takes(m, n, level) =>
              /\ above.old = below.old
              /\ above.new = hash_node(below.new, x)
    BY <1>0, <1>2, <2>1, <2>3, WalkUp
  <2> HIDE DEF x, N, O, N2, O2
  <2>8. CASE PlaceAt(m, level) % 2 = 1
    <3>1. Takes(m, n, level) /\ Sibling(m, n, level) = LeftHash(leaf_hashes, m, level)
      BY <2>8 DEF Takes, Sibling
    <3>2. /\ O2 = hash_node(LeftHash(leaf_hashes, m, level), O)
          /\ N2 = hash_node(LeftHash(leaf_hashes, m, level), N)
      BY <1>0, <2>8, HashOfRightChild DEF O2, N2, O, N
    <3>3. above.ok
      BY <2>2, <2>6, <2>7, <3>1
    <3>4. QED
      BY <2>2, <2>4, <2>6, <2>7, <2>8, <3>1, <3>2, <3>3
  <2>9. CASE PlaceAt(m, level) % 2 = 0 /\ PlaceAt(m, level) < PlaceAt(n, level)
    <3>1. /\ Takes(m, n, level) /\ PlaceAt(m, level) % 2 # 1
          /\ Sibling(m, n, level) = RightHash(leaf_hashes, m, n, level)
      BY <2>9 DEF Takes, Sibling
    <3>2. O2 = O /\ N2 = hash_node(N, RightHash(leaf_hashes, m, n, level))
      BY <1>0, <2>9, HashOfLeftChild DEF O2, N2, O, N
    <3>3. above.ok
      BY <2>2, <2>6, <2>7, <3>1
    <3>4. QED
      BY <2>2, <2>4, <2>6, <2>7, <3>1, <3>2, <3>3
  <2>10. CASE PlaceAt(m, level) % 2 = 0 /\ ~(PlaceAt(m, level) < PlaceAt(n, level))
    <3>1. O2 = O /\ N2 = N
      BY <1>0, <2>10, HashOfLoneChild DEF O2, N2, O, N
    <3>2. ~Takes(m, n, level)
      BY <2>10 DEF Takes
    <3>3. QED
      BY <2>2, <2>4, <2>7, <3>1, <3>2
  <2>11. QED
    BY <2>8, <2>9, <2>10, <1>0, StartUp
<1>3. ASSUME NEW level \in Nat, level \in S PROVE level + 1 \in S
  <2> HIDE DEF P
  <2>1. CASE level + 1 = Climbed(m)
    BY <1>1, <2>1
  <2>2. CASE level + 1 # Climbed(m)
    BY <1>0, <1>2, <1>3, <2>2
  <2>3. QED
    BY <2>1, <2>2
<1>4. 0 \in S
  <2> HIDE DEF P
  <2>1. CASE Climbed(m) = 0
    BY <1>1, <2>1
  <2>2. CASE Climbed(m) # 0
    BY <1>0, <2>2
  <2>3. QED
    BY <2>1, <2>2
<1>5. \A level \in Nat : level \in S
  <2> HIDE DEF S
  <2> QED BY <1>3, <1>4, Induct
<1>6. QED
  BY <1>5

-----------------------------------------------------------------------------
(* Consistency proofs.                                                     *)

(* consistency_proof sends what subproof pushes from the top.              *)
LEMMA ServedNodes ==
  ASSUME TreeInv, NEW n, n = Len(leaf_hashes), NEW m \in 1 .. n, m < n
  PROVE  /\ ConsistencyProof(m).result = NodesAt(m, n, MaxLeaves)
         /\ n <= Pow2[MaxLeaves] /\ MaxLeaves \in Nat
         /\ Climbed(m) \in Nat /\ Climbed(m) <= MaxLeaves
         /\ Start(m, MaxLeaves) = 0 /\ Width(m, n, MaxLeaves) = n
         /\ OldHash(leaf_hashes, m, MaxLeaves) = RangeHash(leaf_hashes)[m][0]
         /\ NewHash(leaf_hashes, m, n, MaxLeaves) = RangeHash(leaf_hashes)[n][0]
<1>1. n \in Nat /\ MaxLeaves \in Nat /\ n <= MaxLeaves /\ m \in Nat \ {0}
  BY LengthIs, MaxLeavesAssumption DEF Size
<1>2. MaxLeaves < Pow2[MaxLeaves] /\ Pow2[MaxLeaves] \in Nat
  BY <1>1, Pow2Nat
<1>3. Climbed(m) \in 0 .. m
  BY <1>1, ClimbedIs
<1>4. n <= Pow2[MaxLeaves] /\ Climbed(m) \in Nat /\ Climbed(m) <= MaxLeaves
  BY <1>1, <1>2, <1>3
<1>5. Start(m, MaxLeaves) = 0 /\ Width(m, n, MaxLeaves) = n
  BY <1>1, <1>4, TopWidth
<1>6. m - 0 = m /\ (0 = 0) = TRUE /\ m \notin {0, n}
  BY <1>1
<1>7. NodesAt(m, n, MaxLeaves) = Subproof[n][0][m][TRUE].result
  BY <1>5, <1>6 DEF NodesAt
<1>8. ConsistencyProof(m) = Subproof[n][0][m][TRUE]
  BY <1>6 DEF ConsistencyProof
<1>9. /\ OldHash(leaf_hashes, m, MaxLeaves) = RangeHash(leaf_hashes)[m][0]
      /\ NewHash(leaf_hashes, m, n, MaxLeaves) = RangeHash(leaf_hashes)[n][0]
  BY <1>5, <1>6 DEF OldHash, NewHash
<1>10. QED
  BY <1>1, <1>4, <1>5, <1>7, <1>8, <1>9

(* The seed is the old root when the node at the start of the climb is the *)
(* whole old tree, and the first node otherwise.                           *)
LEMMA SeedIs ==
  ASSUME TreeInv, NEW n, n = Len(leaf_hashes), NEW m \in 1 .. n, m < n
  PROVE  /\ IsSubtree(m) => /\ Len(NodesAt(m, n, Climbed(m))) = 0
                            /\ NewHash(leaf_hashes, m, n, Climbed(m)) = RangeHash(leaf_hashes)[m][0]
         /\ ~IsSubtree(m) => /\ Len(NodesAt(m, n, Climbed(m))) = 1
                             /\ NodesAt(m, n, Climbed(m))[1] = NewHash(leaf_hashes, m, n, Climbed(m))
<1> DEFINE c == Climbed(m)
           N == NewHash(leaf_hashes, m, n, c)
<1>1. n \in Nat /\ m \in Nat \ {0}
  BY LengthIs
<1>2. c \in Nat
  BY <1>1, ClimbedIs
<1>3. Pow2[c] \in Nat \ {0} /\ PlaceAt(m, c) \in Nat /\ Start(m, c) = PlaceAt(m, c) * Pow2[c]
  BY <1>1, <1>2, StartIs, Pow2Next DEF Start
<1>4. IsSubtree(m) <=> PlaceAt(m, c) = 0
  BY DEF IsSubtree
<1>5. IsSubtree(m) => Start(m, c) = 0
  BY <1>3, <1>4
<1>6. ~IsSubtree(m) => Start(m, c) # 0
  <2>1. CASE PlaceAt(m, c) > 0
    <3>1. 0 * Pow2[c] + Pow2[c] <= PlaceAt(m, c) * Pow2[c]
      BY <1>3, <2>1, TimesGrows
    <3>2. 0 * Pow2[c] = 0
      BY <1>3
    <3>3. Start(m, c) \in Nat
      BY <1>1, <1>2, StartIs
    <3>4. QED
      BY <1>3, <3>1, <3>2, <3>3
  <2>2. QED
    BY <1>3, <1>4, <2>1
<1>7. NodesAt(m, n, c) = IF Start(m, c) = 0 THEN << >> ELSE Append(<< >>, N)
  BY NodesStart
<1>8. Start(m, c) = 0 => N = RangeHash(leaf_hashes)[m][0]
  <2>1. Start(m, c) = 0 => m - Start(m, c) = m
    BY <1>1
  <2>2. N = OldHash(leaf_hashes, m, c)
    BY <1>1, SeedHash
  <2>3. QED
    BY <2>1, <2>2 DEF OldHash
<1> HIDE DEF N, c
<1>9. Len(<< >>) = 0 /\ Len(Append(<< >>, N)) = 1 /\ Append(<< >>, N)[1] = N
  <2>1. << >> \in Seq({N}) /\ N \in {N}
    OBVIOUS
  <2>2. Len(<< >>) = 0
    OBVIOUS
  <2>3. QED
    BY <2>1, <2>2, AppendProperties
<1>10. QED
  BY <1>5, <1>6, <1>7, <1>8, <1>9 DEF N, c

(* The served nodes convince verify_consistency of the log's own prefix.   *)
THEOREM ConsistencyIsComplete ==
  ASSUME TreeInv, NEW n, n = Len(leaf_hashes), NEW m \in 1 .. n
  PROVE  VerifyConsistency(RangeHash(leaf_hashes)[m][0], RangeHash(leaf_hashes)[n][0],
                           ConsistencyProof(m).result, m, n)
<1> DEFINE nodes == ConsistencyProof(m).result
           old_root == RangeHash(leaf_hashes)[m][0]
           root == RangeHash(leaf_hashes)[n][0]
           c == Climbed(m)
           seed == NewHash(leaf_hashes, m, n, c)
           used == Len(NodesAt(m, n, c))
<1>0. n \in Nat /\ m \in Nat \ {0}
  BY LengthIs
<1>1. CASE m = n
  <2>1. nodes = << >>
    BY <1>1 DEF ConsistencyProof, NoNodes
  <2>2. QED
    BY <1>1, <2>1 DEF VerifyConsistency
<1>2. CASE m # n
  <2>0. m < n
    BY <1>0, <1>2
  <2>1. /\ nodes = NodesAt(m, n, MaxLeaves)
        /\ MaxLeaves \in Nat /\ c \in Nat /\ c <= MaxLeaves
        /\ OldHash(leaf_hashes, m, MaxLeaves) = old_root
        /\ NewHash(leaf_hashes, m, n, MaxLeaves) = root
    BY <2>0, ServedNodes
  <2> DEFINE at == Walk(m, n, nodes, seed, used)[MaxLeaves]
  <2>2. /\ at.ok
        /\ at.used = Len(nodes)
        /\ at.old = old_root
        /\ at.new = root
    <3> HIDE DEF nodes, old_root, root
    <3>1. nodes = NodesAt(m, n, MaxLeaves) /\ seed = NewHash(leaf_hashes, m, n, Climbed(m))
      BY <2>1
    <3> HIDE DEF seed
    <3>2. \A level \in Nat :
           Climbed(m) <= level /\ level <= MaxLeaves =>
             LET w == Walk(m, n, nodes, seed, Len(NodesAt(m, n, Climbed(m))))[level]
             IN  /\ w.ok
                 /\ w.used = Len(NodesAt(m, n, level))
                 /\ w.old = OldHash(leaf_hashes, m, level)
                 /\ w.new = NewHash(leaf_hashes, m, n, level)
      BY <2>0, <3>1, WalksAreComplete
    <3>3. QED
      BY <2>1, <3>2
  <2>3. Done(nodes, at)
    BY <2>2 DEF Done
  <2>4. /\ IsSubtree(m) => used = 0 /\ seed = old_root
        /\ ~IsSubtree(m) => used = 1 /\ nodes[1] = seed /\ nodes # << >>
    <3>1. /\ IsSubtree(m) => used = 0 /\ seed = old_root
          /\ ~IsSubtree(m) => used = 1 /\ NodesAt(m, n, c)[1] = seed
      BY <2>0, SeedIs
    <3>2. /\ used <= Len(nodes)
          /\ \A i \in 1 .. used : nodes[i] = NodesAt(m, n, c)[i]
      BY <2>0, <2>1, NodesStay
    <3>3. Len(<< >>) = 0
      OBVIOUS
    <3> HIDE DEF nodes, used, seed, old_root
    <3>4. QED
      BY <3>1, <3>2, <3>3
  <2> HIDE DEF nodes, old_root, root, seed, used, c
  <2>5. CASE IsSubtree(m)
    <3>1. at = Walk(m, n, nodes, old_root, 0)[MaxLeaves]
      BY <2>4, <2>5
    <3> HIDE DEF at
    <3>2. VerifyConsistency(old_root, root, nodes, m, n)
      BY <1>0, <2>0, <2>2, <2>3, <2>5, <3>1 DEF VerifyConsistency
    <3>3. QED
      BY <3>2 DEF old_root, root, nodes
  <2>6. CASE ~IsSubtree(m)
    <3>1. at = Walk(m, n, nodes, nodes[1], 1)[MaxLeaves]
      BY <2>4, <2>6
    <3> HIDE DEF at
    <3>2. VerifyConsistency(old_root, root, nodes, m, n)
      BY <1>0, <2>0, <2>2, <2>3, <2>4, <2>6, <3>1 DEF VerifyConsistency
    <3>3. QED
      BY <3>2 DEF old_root, root, nodes
  <2>7. QED
    BY <2>5, <2>6
<1>3. QED
  BY <1>1, <1>2

(* Accepted nodes are as many as the served ones, whatever the roots.      *)
LEMMA AcceptedLength ==
  ASSUME TreeInv, NEW n, n = Len(leaf_hashes), NEW m \in 1 .. n, NEW old_root, NEW new_root, NEW nodes,
         VerifyConsistency(old_root, new_root, nodes, m, n)
  PROVE  Len(nodes) = Len(ConsistencyProof(m).result)
<1>0. n \in Nat /\ m \in Nat \ {0}
  BY LengthIs
<1>1. CASE m = n
  <2>1. ConsistencyProof(m).result = << >>
    BY <1>1 DEF ConsistencyProof, NoNodes
  <2>2. nodes = << >>
    BY <1>0, <1>1 DEF VerifyConsistency
  <2>3. QED
    BY <2>1, <2>2
<1>2. CASE m # n
  <2> DEFINE used == Len(NodesAt(m, n, Climbed(m)))
             end == IF IsSubtree(m) THEN Walk(m, n, nodes, old_root, 0)[MaxLeaves]
                    ELSE Walk(m, n, nodes, nodes[1], 1)[MaxLeaves]
  <2>0. m < n
    BY <1>0, <1>2
  <2>1. end.ok /\ end.used = Len(nodes)
    BY <1>0, <1>2 DEF VerifyConsistency, Done
  <2>2. PICK seed : end = Walk(m, n, nodes, seed, used)[MaxLeaves]
    <3>1. (IsSubtree(m) => used = 0) /\ (~IsSubtree(m) => used = 1)
      BY <2>0, SeedIs
    <3> HIDE DEF used
    <3>2. QED
      BY <3>1
  <2>3. /\ ConsistencyProof(m).result = NodesAt(m, n, MaxLeaves)
        /\ MaxLeaves \in Nat /\ Climbed(m) <= MaxLeaves
    BY <2>0, ServedNodes
  <2> HIDE DEF end
  <2>4. \A level \in Nat :
           Climbed(m) <= level /\ level <= MaxLeaves =>
             LET at == Walk(m, n, nodes, seed, Len(NodesAt(m, n, Climbed(m))))[level]
             IN  at.ok => at.used = Len(NodesAt(m, n, level))
    BY <2>0, WalksUse
  <2>5. QED
    BY <2>1, <2>2, <2>3, <2>4
<1>3. QED
  BY <1>1, <1>2

(* A leaf hash is no node's (the domain tags of hash_leaf and hash_node).  *)
LEMMA LeafIsNoNode ==
  ASSUME NEW r, NEW a, NEW b
  PROVE  <<"leaf", r>> # hash_node(a, b)
  BY DEF hash_node

(* A hash over leaf hashes tells how many there are.                       *)
LEMMA HashTellsSize ==
  ASSUME TreeInv
  PROVE  \A n \in Size : \A k, s, t \in Size :
           /\ n > 0 /\ s + n <= Len(leaf_hashes)
           /\ k > 0 /\ t + k <= Len(leaf_hashes)
           /\ RangeHash(leaf_hashes)[n][s] = RangeHash(leaf_hashes)[k][t]
           => n = k
<1> DEFINE H(n, s) == RangeHash(leaf_hashes)[n][s]
           P(n) == \A k, s, t \in Size :
                     /\ n > 0 /\ s + n <= Len(leaf_hashes)
                     /\ k > 0 /\ t + k <= Len(leaf_hashes)
                     /\ H(n, s) = H(k, t)
                     => n = k
           S == {m \in Nat : \A n \in 0 .. m : n <= MaxLeaves => P(n)}
<1>0. MaxLeaves \in Nat /\ Len(leaf_hashes) \in Nat /\ Len(leaf_hashes) <= MaxLeaves
  BY LengthIs, MaxLeavesAssumption DEF TreeInv
<1>1. ASSUME NEW s \in Size, s + 1 <= Len(leaf_hashes)
      PROVE  \E r : H(1, s) = <<"leaf", r>>
  <2>1. 1 \in Size /\ s + 1 \in 1 .. Len(leaf_hashes)
    BY <1>0, <1>1 DEF Size
  <2>2. H(1, s) = leaf_hashes[s + 1]
    BY <2>1, HashFew
  <2>3. leaf_hashes[s + 1] \in LeafHash
    BY <2>1, ElementOfSeq DEF TreeInv
  <2>4. QED
    BY <2>2, <2>3 DEF LeafHash, hash_leaf
<1>2. ASSUME NEW n \in Size, n > 1, NEW s \in Size, s + n <= Len(leaf_hashes)
      PROVE  /\ split_point(n) \in 1 .. n - 1 /\ n - split_point(n) \in 1 .. n - 1
             /\ s + split_point(n) \in Size
             /\ H(n, s) = hash_node(H(split_point(n), s), H(n - split_point(n), s + split_point(n)))
  <2>1. n \in Nat /\ s \in Nat
    BY DEF Size
  <2>2. split_point(n) \in 1 .. n - 1 /\ n - split_point(n) \in 1 .. n - 1
    BY <1>2, <2>1, SplitSize
  <2>3. s + split_point(n) \in Size
    BY <1>0, <1>2, <2>1, <2>2 DEF Size
  <2>4. QED
    BY <1>2, <2>2, <2>3, HashParts
<1>3. ASSUME NEW n \in Size, \A j \in 0 .. n - 1 : P(j) PROVE P(n)
  <2> SUFFICES ASSUME NEW k \in Size, NEW s \in Size, NEW t \in Size,
                      n > 0, s + n <= Len(leaf_hashes), k > 0, t + k <= Len(leaf_hashes),
                      H(n, s) = H(k, t)
               PROVE  n = k
    OBVIOUS
  <2>0. n \in Nat /\ k \in Nat /\ s \in Nat /\ t \in Nat
    BY DEF Size
  <2> HIDE DEF H
  <2>1. CASE n = 1 /\ k = 1
    BY <2>1
  <2>2. CASE n = 1 /\ k > 1
    <3>1. PICK r : H(n, s) = <<"leaf", r>>
      BY <1>1, <2>2
    <3>2. PICK a, b : H(k, t) = hash_node(a, b)
      BY <1>2, <2>2
    <3>3. QED
      BY <3>1, <3>2, LeafIsNoNode
  <2>3. CASE n > 1 /\ k = 1
    <3>1. PICK r : H(k, t) = <<"leaf", r>>
      BY <1>1, <2>3
    <3>2. PICK a, b : H(n, s) = hash_node(a, b)
      BY <1>2, <2>3
    <3>3. QED
      BY <3>1, <3>2, LeafIsNoNode
  <2>4. CASE n > 1 /\ k > 1
    <3> DEFINE p == split_point(n)
               q == split_point(k)
    <3>1. p \in 1 .. n - 1 /\ n - p \in 1 .. n - 1 /\ s + p \in Size
          /\ H(n, s) = hash_node(H(p, s), H(n - p, s + p))
      BY <1>2, <2>4
    <3>2. q \in 1 .. k - 1 /\ k - q \in 1 .. k - 1 /\ t + q \in Size
          /\ H(k, t) = hash_node(H(q, t), H(k - q, t + q))
      BY <1>2, <2>4
    <3> HIDE DEF p, q
    <3>3. H(p, s) = H(q, t) /\ H(n - p, s + p) = H(k - q, t + q)
      <4>1. hash_node(H(p, s), H(n - p, s + p)) = hash_node(H(q, t), H(k - q, t + q))
        BY <3>1, <3>2
      <4>2. QED
        BY <4>1, NodesEqual
    <3>4. P(p) /\ P(n - p)
      <4> HIDE DEF P
      <4> QED BY <1>3, <2>0, <3>1
    <3>5. q \in Size /\ k - q \in Size
      BY <1>0, <2>0, <3>2 DEF Size
    <3>6. /\ p > 0 /\ s + p <= Len(leaf_hashes) /\ q > 0 /\ t + q <= Len(leaf_hashes)
          /\ n - p > 0 /\ (s + p) + (n - p) <= Len(leaf_hashes)
          /\ k - q > 0 /\ (t + q) + (k - q) <= Len(leaf_hashes)
      BY <1>0, <2>0, <3>1, <3>2
    <3>7. p = q
      BY <3>3, <3>4, <3>5, <3>6
    <3>8. n - p = k - q
      BY <3>1, <3>2, <3>3, <3>4, <3>5, <3>6
    <3>9. QED
      BY <2>0, <3>1, <3>2, <3>7, <3>8
  <2>5. QED
    BY <2>0, <2>1, <2>2, <2>3, <2>4
<1>4. ASSUME NEW m \in Nat, m \in S PROVE m + 1 \in S
  <2> HIDE DEF P
  <2>1. m + 1 <= MaxLeaves => P(m + 1)
    BY <1>0, <1>3, <1>4 DEF Size
  <2>2. QED
    BY <1>4, <2>1
<1>5. MaxLeaves \in S
  <2>1. 0 \in S
    <3>1. P(0)
      OBVIOUS
    <3> HIDE DEF P
    <3>2. QED
      BY <3>1
  <2> HIDE DEF S
  <2>2. QED
    BY <1>0, <1>4, <2>1, Induct
<1> HIDE DEF P
<1>6. \A n \in Size : P(n)
  BY <1>0, <1>5 DEF Size
<1>7. QED
  BY <1>6 DEF P

(* The hash of a log is that of another's first leaves exactly when it is  *)
(* a prefix of it.                                                         *)
LEMMA PrefixByHash ==
  ASSUME NEW T, NEW old \in Seq(T), NEW log \in Seq(T), Len(old) <= Len(log), Len(log) <= MaxLeaves
  PROVE  MTH(old) = RangeHash(log)[Len(old)][0] <=> IsPrefix(old, log)
<1> DEFINE m == Len(old)
<1>1. /\ m \in Nat /\ m \in Size /\ 0 \in Size /\ 0 + m <= MaxLeaves
      /\ Len(log) \in Nat /\ m \in 0 .. Len(log)
  BY LenProperties, MaxLeavesAssumption DEF Size
<1>2. MTH(old) = RangeHash(old)[m][0]
  BY DEF MTH
<1> HIDE DEF m
<1>3. RangeHash(old)[m][0] = RangeHash(log)[m][0] <=> SameLeaves(m, old, 0, log, 0)
  BY <1>1, HashesAgree
<1>4. SameLeaves(m, old, 0, log, 0) <=> \A i \in 1 .. m : old[i] = log[i]
  <2>1. \A i \in 1 .. m : 0 + i = i
    BY <1>1
  <2>2. QED
    BY <2>1 DEF SameLeaves
<1>5. /\ SubSeq(log, 1, m) \in Seq(T)
      /\ Len(SubSeq(log, 1, m)) = m
      /\ \A i \in 1 .. m : SubSeq(log, 1, m)[i] = log[i]
  BY <1>1, CutProperties
<1>6. (\A i \in 1 .. m : old[i] = log[i]) <=> old = SubSeq(log, 1, m)
  BY <1>5, SeqEqual DEF m
<1>7. IsPrefix(old, log) <=> old = SubSeq(log, 1, m)
  BY PrefixIsCut DEF m
<1>8. QED
  BY <1>2, <1>3, <1>4, <1>6, <1>7 DEF m

(* A served consistency proof verifies from every log of the old size that *)
(* the tree extends, and from no other: a log that rewrites or forks any   *)
(* leaf fails (consistency_proof, verify_consistency).                     *)
THEOREM ConsistencyMeansPrefix == Spec => []ConsistencyProvesPrefix
<1>1. TreeInv => ConsistencyProvesPrefix
  <2> SUFFICES ASSUME TreeInv, NEW m \in 1 .. Len(leaf_hashes), NEW old \in Logs(m)
               PROVE  VerifyConsistency(MTH(old), MTH(leaf_hashes), ConsistencyProof(m).result, m, Len(leaf_hashes))
                        <=> IsPrefix(old, leaf_hashes)
    BY DEF ConsistencyProvesPrefix
  <2> DEFINE n == Len(leaf_hashes)
             nodes == ConsistencyProof(m).result
             root == RangeHash(leaf_hashes)[n][0]
             part == RangeHash(leaf_hashes)[m][0]
  <2>1. n \in Size /\ m \in 1 .. n /\ m \in Nat /\ m <= n /\ n <= MaxLeaves
    BY LengthIs DEF TreeInv
  <2>2. old \in Seq(LeafHash) /\ Len(old) = m
    BY <2>1, SeqDef DEF Logs, LeafHash
  <2>3. MTH(leaf_hashes) = root
    BY DEF MTH
  <2>4. MTH(old) = part <=> IsPrefix(old, leaf_hashes)
    BY <2>1, <2>2, PrefixByHash DEF TreeInv
  <2>5. VerifyConsistency(part, root, nodes, m, n)
    BY <2>1, ConsistencyIsComplete
  <2>6. VerifyConsistency(MTH(old), root, nodes, m, n) => MTH(old) = part
    <3> DEFINE old_root == MTH(old)
    <3> HIDE DEF old_root, nodes, n
    <3>1. VerifyConsistency(old_root, root, nodes, m, n) => old_root = part
      BY <2>1, ConsistencyIsSound
    <3>2. QED
      BY <3>1 DEF old_root
  <2> HIDE DEF part, root, nodes, n
  <2>7. VerifyConsistency(MTH(old), root, nodes, m, n) <=> IsPrefix(old, leaf_hashes)
    BY <2>4, <2>5, <2>6
  <2>8. QED
    BY <2>3, <2>7 DEF n, nodes
<1>2. QED
  BY <1>1, TreeInvariant, PTL

(* A proof with its first or last node missing, with one node too many, or *)
(* shown with another old size, is refused, for logs of every length       *)
(* (verify_consistency).                                                   *)
THEOREM MangledProofsAreRefused == Spec => []MangledProofsFail
<1>1. TreeInv => MangledProofsFail
  <2> SUFFICES ASSUME TreeInv, NEW m \in 1 .. Len(leaf_hashes)
               PROVE  LET nodes == ConsistencyProof(m).result
                          old   == SubSeq(leaf_hashes, 1, m)
                          refused(mangled, size) ==
                            ~VerifyConsistency(MTH(old), MTH(leaf_hashes), mangled, size, Len(leaf_hashes))
                      IN  /\ nodes # << >> => refused(Tail(nodes), m) /\ refused(Front(nodes), m)
                          /\ \A extra \in {hash_leaf(r) : r \in Leaf} : refused(Append(nodes, extra), m)
                          /\ \A size \in (1 .. Len(leaf_hashes)) \ {m} : refused(nodes, size)
    BY DEF MangledProofsFail
  <2> DEFINE n == Len(leaf_hashes)
             nodes == ConsistencyProof(m).result
             old == SubSeq(leaf_hashes, 1, m)
             root == RangeHash(leaf_hashes)[n][0]
             old_root == MTH(old)
  <2>1. /\ n \in Nat /\ n \in Size /\ m \in 1 .. n /\ m \in Nat /\ m <= n
        /\ n <= MaxLeaves /\ 0 \in Size /\ MaxLeaves \in Nat
    BY LengthIs, MaxLeavesAssumption DEF TreeInv, Size
  <2>2. MTH(leaf_hashes) = root
    BY DEF MTH
  <2>3. PICK T : nodes \in Seq(T)
    <3>1. CASE m = n
      <4>1. nodes = << >>
        BY <3>1 DEF ConsistencyProof, NoNodes
      <4>2. nodes \in Seq({})
        BY <4>1
      <4>3. QED
        BY <4>2
    <3>2. CASE m # n
      <4>1. m < n
        BY <2>1, <3>2
      <4>2. nodes = NodesAt(m, n, MaxLeaves) /\ MaxLeaves \in Nat /\ Climbed(m) <= MaxLeaves
        BY <4>1, ServedNodes
      <4>3. nodes \in Seq(NodeSet(m, n))
        BY <4>1, <4>2, NodesAre
      <4>4. QED
        BY <4>3
    <3>3. QED
      BY <3>1, <3>2
  <2>4. ASSUME NEW mangled, VerifyConsistency(old_root, root, mangled, m, n) PROVE Len(mangled) = Len(nodes)
    <3> HIDE DEF old_root, root
    <3> QED BY <2>1, <2>4, AcceptedLength
  <2>5. Len(nodes) \in Nat
    BY <2>3, LenProperties
  <2>6. nodes # << >> => Len(Tail(nodes)) # Len(nodes) /\ Len(Front(nodes)) # Len(nodes)
    <3> HIDE DEF nodes
    <3>1. ASSUME nodes # << >> PROVE Len(Tail(nodes)) # Len(nodes) /\ Len(Front(nodes)) # Len(nodes)
      <4>1. Len(nodes) > 0
        BY <2>3, <2>5, <3>1, EmptySeq
      <4>2. Len(Tail(nodes)) = Len(nodes) - 1
        BY <2>3, <3>1, HeadTailProperties
      <4>3. Len(SubSeq(nodes, 1, Len(nodes) - 1)) = Len(nodes) - 1
        <5>1. Len(nodes) - 1 \in 0 .. Len(nodes)
          BY <2>5, <4>1
        <5>2. QED
          BY <2>3, <5>1, CutProperties
      <4>4. QED
        BY <2>5, <4>2, <4>3 DEF Front
    <3>2. QED
      BY <3>1
  <2>7. ASSUME NEW extra PROVE Len(Append(nodes, extra)) # Len(nodes)
    <3> HIDE DEF nodes
    <3>1. nodes \in Seq(T \cup {extra}) /\ extra \in T \cup {extra}
      BY <2>3, SeqMonotonic
    <3>2. Len(Append(nodes, extra)) = Len(nodes) + 1
      BY <3>1, AppendProperties
    <3>3. QED
      BY <2>5, <3>2
  <2>8. old_root = RangeHash(leaf_hashes)[m][0]
    <3>1. old \in Seq(LeafHash) /\ Len(old) = m
      BY <2>1, CutProperties DEF TreeInv
    <3>2. IsPrefix(old, leaf_hashes)
      <4>1. m = Len(old) /\ Len(old) <= Len(leaf_hashes)
        BY <2>1, <3>1
      <4>2. old = SubSeq(leaf_hashes, 1, Len(old))
        BY <3>1
      <4> HIDE DEF old
      <4>3. QED
        BY <3>1, <4>1, <4>2, PrefixIsCut DEF TreeInv
    <3> HIDE DEF old
    <3>3. MTH(old) = RangeHash(leaf_hashes)[m][0]
      BY <2>1, <3>1, <3>2, PrefixByHash DEF TreeInv
    <3>4. QED
      BY <3>3
  <2>9. ASSUME NEW size \in (1 .. n) \ {m}, VerifyConsistency(old_root, root, nodes, size, n) PROVE FALSE
    <3>1. old_root = RangeHash(leaf_hashes)[size][0]
      <4> HIDE DEF old_root, nodes, n
      <4> QED BY <2>1, <2>9, ConsistencyIsSound
    <3>2. size \in Nat /\ size \in Size /\ m \in Size /\ size > 0 /\ m > 0 /\ 0 + size <= n /\ 0 + m <= n
      BY <2>1, <2>9 DEF Size
    <3>3. RangeHash(leaf_hashes)[m][0] = RangeHash(leaf_hashes)[size][0]
      BY <2>8, <3>1
    <3>4. m = size
      BY <2>1, <3>2, <3>3, HashTellsSize
    <3>5. QED
      BY <3>4
  <2> HIDE DEF nodes, root, old_root, n
  <2>10. nodes # << >> => /\ ~VerifyConsistency(old_root, root, Tail(nodes), m, n)
                          /\ ~VerifyConsistency(old_root, root, Front(nodes), m, n)
    BY <2>4, <2>6
  <2>11. \A extra : ~VerifyConsistency(old_root, root, Append(nodes, extra), m, n)
    <3> SUFFICES ASSUME NEW extra, VerifyConsistency(old_root, root, Append(nodes, extra), m, n) PROVE FALSE
      OBVIOUS
    <3> DEFINE longer == Append(nodes, extra)
    <3>1. Len(longer) # Len(nodes)
      BY <2>7
    <3> HIDE DEF longer
    <3>2. Len(longer) = Len(nodes)
      BY <2>4 DEF longer
    <3>3. QED
      BY <3>1, <3>2
  <2>12. \A size \in (1 .. n) \ {m} : ~VerifyConsistency(old_root, root, nodes, size, n)
    BY <2>9
  <2>13. QED
    BY <2>2, <2>10, <2>11, <2>12 DEF nodes, n, old_root
<1>2. QED
  BY <1>1, TreeInvariant, PTL

-----------------------------------------------------------------------------
(* Audit paths that anybody makes up.                                      *)

(* Whatever path somebody sends, verify_inclusion accepts against the root *)
(* of a log only a receipt that the log holds: at some index, for the      *)
(* index that is claimed is only compared with the size.                   *)
THEOREM InclusionIsSound ==
  ASSUME TreeInv, NEW path, Len(path) \in Nat, NEW r, NEW index \in Nat,
         VerifyInclusion(r, index, Len(leaf_hashes), path, MTH(leaf_hashes))
  PROVE  \E i \in 1 .. Len(leaf_hashes) : leaf_hashes[i] = hash_leaf(r)
<1> DEFINE n == Len(leaf_hashes)
           top == Len(path)
           acc(i) == Folded(hash_leaf(r), path)[i]
           InTree(x) == \E k, s \in Size : k > 0 /\ s + k <= n /\ x = RangeHash(leaf_hashes)[k][s]
           S == {d \in Nat : d <= top => InTree(acc(top - d))}
<1>0. n \in Nat /\ n \in Size /\ MaxLeaves \in Nat /\ n <= MaxLeaves /\ 0 \in Size /\ n > 0
  <2>1. index < n
    BY DEF VerifyInclusion
  <2>2. QED
    BY <2>1, LengthIs, MaxLeavesAssumption DEF TreeInv, Size
<1>1. InTree(acc(top))
  <2>1. acc(top) = RangeHash(leaf_hashes)[n][0]
    BY DEF VerifyInclusion, MTH
  <2> HIDE DEF acc
  <2>2. QED
    BY <1>0, <2>1
<1>2. ASSUME NEW a, NEW b, InTree(hash_node(a, b)) PROVE InTree(a) /\ InTree(b)
  <2>1. PICK k \in Size, s \in Size :
          k > 0 /\ s + k <= n /\ hash_node(a, b) = RangeHash(leaf_hashes)[k][s]
    BY <1>2
  <2>2. k \in Nat /\ s \in Nat
    BY DEF Size
  <2>3. CASE k = 1
    <3>1. s + 1 \in 1 .. n /\ 1 \in Size
      BY <1>0, <2>1, <2>2, <2>3 DEF Size
    <3>2. RangeHash(leaf_hashes)[k][s] = leaf_hashes[s + 1]
      <4>1. k <= 1 /\ k # 0
        BY <2>3
      <4>2. QED
        BY <4>1, HashFew
    <3>3. leaf_hashes[s + 1] \in LeafHash
      BY <3>1, ElementOfSeq DEF TreeInv
    <3>4. PICK q \in Leaf : leaf_hashes[s + 1] = <<"leaf", q>>
      BY <3>3 DEF LeafHash, hash_leaf
    <3>5. QED
      BY <2>1, <3>2, <3>4, LeafIsNoNode
  <2>4. CASE k > 1
    <3> DEFINE p == split_point(k)
               left == RangeHash(leaf_hashes)[p][s]
               right == RangeHash(leaf_hashes)[k - p][s + p]
    <3>1. p \in 1 .. k - 1 /\ k - p \in 1 .. k - 1
      BY <2>2, <2>4, SplitSize
    <3>2. RangeHash(leaf_hashes)[k][s] = hash_node(left, right)
      BY <2>4, HashParts
    <3>3. p \in Size /\ k - p \in Size /\ s + p \in Size
      <4> HIDE DEF p
      <4> QED BY <1>0, <2>1, <2>2, <3>1 DEF Size
    <3>4. p > 0 /\ s + p <= n /\ k - p > 0 /\ (s + p) + (k - p) <= n
      <4> HIDE DEF p
      <4> QED BY <1>0, <2>1, <2>2, <3>1
    <3>5. a = left /\ b = right
      <4>1. hash_node(a, b) = hash_node(left, right)
        BY <2>1, <3>2
      <4> HIDE DEF left, right
      <4>2. QED
        BY <4>1, NodesEqual
    <3> HIDE DEF p
    <3>6. QED
      BY <3>3, <3>4, <3>5
  <2>5. QED
    BY <2>1, <2>2, <2>3, <2>4
<1>3. ASSUME NEW i \in 1 .. top, InTree(acc(i)) PROVE InTree(acc(i - 1))
  <2>1. acc(i) = IF path[i].sibling_is_left THEN hash_node(path[i].sibling, acc(i - 1))
                 ELSE hash_node(acc(i - 1), path[i].sibling)
    <3>1. i \in 0 .. Len(path) /\ i # 0
      OBVIOUS
    <3>2. QED
      BY <3>1, FoldedDef
  <2> HIDE DEF acc, InTree
  <2>2. QED
    BY <1>2, <1>3, <2>1
<1>4. 0 \in S
  <2> HIDE DEF acc, InTree
  <2>1. top - 0 = top
    OBVIOUS
  <2>2. QED
    BY <1>1, <2>1
<1>5. ASSUME NEW d \in Nat, d \in S PROVE d + 1 \in S
  <2> HIDE DEF acc, InTree
  <2> SUFFICES ASSUME d + 1 <= top PROVE InTree(acc(top - (d + 1)))
    OBVIOUS
  <2>1. InTree(acc(top - d)) /\ top - d \in 1 .. top /\ top - (d + 1) = (top - d) - 1
    BY <1>5
  <2>2. InTree(acc((top - d) - 1))
    BY <1>3, <2>1
  <2>3. QED
    BY <2>1, <2>2
<1>6. InTree(acc(0))
  <2>1. top \in S
    <3> HIDE DEF S
    <3> QED BY <1>4, <1>5, Induct
  <2> HIDE DEF acc, InTree
  <2>2. top - top = 0
    OBVIOUS
  <2>3. QED
    BY <2>1, <2>2
<1>7. acc(0) = hash_leaf(r)
  BY FoldedDef
<1>8. PICK k \in Size, s \in Size :
        k > 0 /\ s + k <= n /\ hash_leaf(r) = RangeHash(leaf_hashes)[k][s]
  <2> HIDE DEF acc
  <2> QED BY <1>6, <1>7
<1>9. k \in Nat /\ s \in Nat
  BY DEF Size
<1>10. CASE k = 1
  <2>1. s + 1 \in 1 .. n /\ 1 \in Size
    BY <1>0, <1>8, <1>9, <1>10 DEF Size
  <2>2. RangeHash(leaf_hashes)[k][s] = leaf_hashes[s + 1]
    <3>1. k <= 1 /\ k # 0
      BY <1>10
    <3>2. QED
      BY <3>1, HashFew
  <2>3. QED
    BY <1>8, <2>1, <2>2
<1>11. CASE k > 1
  <2>1. PICK a, b : RangeHash(leaf_hashes)[k][s] = hash_node(a, b)
    <3>1. RangeHash(leaf_hashes)[k][s] =
            hash_node(RangeHash(leaf_hashes)[split_point(k)][s],
                      RangeHash(leaf_hashes)[k - split_point(k)][s + split_point(k)])
      BY <1>11, HashParts
    <3>2. QED
      BY <3>1
  <2>2. hash_leaf(r) # hash_node(a, b)
    BY LeafIsNoNode DEF hash_leaf
  <2>3. QED
    BY <1>8, <2>1, <2>2
<1>12. QED
  BY <1>8, <1>9, <1>10, <1>11
=============================================================================
