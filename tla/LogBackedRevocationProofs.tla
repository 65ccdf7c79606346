---------------------- MODULE LogBackedRevocationProofs ----------------------
(***************************************************************************)
(* The sparse Merkle map, for every depth and every set of keys, and the   *)
(* guarantees of the log of its roots, for logs of every length, any       *)
(* number of restarts and clients that use proofs in any order.            *)
(*                                                                         *)
(* The map is compared with the tree over all keys.  Every fact about a    *)
(* tree is an induction over the height, as Induct states it; what a       *)
(* recursive function is comes first, one lemma for each.                  *)
(***************************************************************************)
EXTENDS LogBackedRevocation, LogLemmas, FiniteSetTheorems

-----------------------------------------------------------------------------
(* The recursive functions, one level at a time.                           *)

(* The powers of two, as they are computed.                                *)
LEMMA Pow2Def == \A n \in 0 .. DEPTH : Pow2[n] = IF n = 0 THEN 1 ELSE 2 * Pow2[n - 1]
<1> DEFINE E(g, n) == IF n = 0 THEN 1 ELSE 2 * g[n - 1]
           S == {n \in Nat : \E g : g = [i \in 0 .. n |-> E(g, i)]}
<1>1. 0 \in S
  <2>1. [i \in 0 .. 0 |-> 1] = [i \in 0 .. 0 |-> E([j \in 0 .. 0 |-> 1], i)]
    OBVIOUS
  <2>2. QED
    BY <2>1
<1>2. ASSUME NEW n \in Nat, n \in S PROVE n + 1 \in S
  <2>1. PICK g : g = [i \in 0 .. n |-> E(g, i)]
    BY <1>2
  <2> DEFINE h == [i \in 0 .. n + 1 |-> IF i <= n THEN g[i] ELSE E(g, n + 1)]
  <2>2. ASSUME NEW i \in 0 .. n + 1 PROVE h[i] = E(h, i)
    <3>1. i - 1 \in 0 .. n + 1 => h[i - 1] = g[i - 1]
      OBVIOUS
    <3>2. QED
      BY <2>1, <3>1
  <2>3. h = [i \in 0 .. n + 1 |-> E(h, i)]
    BY <2>2
  <2> HIDE DEF h, E
  <2>4. QED
    BY <2>3
<1>3. DEPTH \in S
  <2> HIDE DEF S
  <2> QED BY <1>1, <1>2, Induct, DepthAssumption
<1>4. Pow2 = [n \in 0 .. DEPTH |-> E(Pow2, n)]
  BY <1>3 DEF Pow2
<1>5. QED
  BY <1>4

(* The roots of empty subtrees, height by height (Defaults::new).          *)
LEMMA DefaultDef ==
  \A h \in 0 .. DEPTH :
    Default[h] = IF h = 0 THEN empty_leaf ELSE node_hash(Default[h - 1], Default[h - 1])
<1> DEFINE E(g, n) == IF n = 0 THEN empty_leaf ELSE node_hash(g[n - 1], g[n - 1])
           S == {n \in Nat : \E g : g = [i \in 0 .. n |-> E(g, i)]}
<1>1. 0 \in S
  <2> DEFINE g == [i \in 0 .. 0 |-> empty_leaf]
  <2>1. g = [i \in 0 .. 0 |-> E(g, i)]
    OBVIOUS
  <2>2. QED
    BY <2>1
<1>2. ASSUME NEW n \in Nat, n \in S PROVE n + 1 \in S
  <2>1. PICK g : g = [i \in 0 .. n |-> E(g, i)]
    BY <1>2
  <2> DEFINE h == [i \in 0 .. n + 1 |-> IF i <= n THEN g[i] ELSE E(g, n + 1)]
  <2>2. ASSUME NEW i \in 0 .. n + 1 PROVE h[i] = E(h, i)
    <3>1. i - 1 \in 0 .. n + 1 => h[i - 1] = g[i - 1]
      OBVIOUS
    <3>2. QED
      BY <2>1, <3>1
  <2>3. h = [i \in 0 .. n + 1 |-> E(h, i)]
    BY <2>2
  <2> HIDE DEF h, E
  <2>4. QED
    BY <2>3
<1>3. DEPTH \in S
  <2> HIDE DEF S
  <2> QED BY <1>1, <1>2, Induct, DepthAssumption
<1>4. Default = [n \in 0 .. DEPTH |-> E(Default, n)]
  BY <1>3 DEF Default
<1>5. QED
  BY <1>4

(* A root is made of the roots of the two halves                           *)
(* (RevocationMap::subtree_root).                                          *)
LEMMA RootsDef ==
  \A h \in 0 .. DEPTH :
    Roots[h] = [all \in Seq(Key) |->
                  IF all = << >> THEN Default[h]
                  ELSE IF h = 0 THEN leaf_hash(all[1])
                  ELSE node_hash(Roots[h - 1][Left(all, DEPTH - h)],
                                 Roots[h - 1][Right(all, DEPTH - h)])]
<1> DEFINE E(g, h) == [all \in Seq(Key) |->
                        IF all = << >> THEN Default[h]
                        ELSE IF h = 0 THEN leaf_hash(all[1])
                        ELSE node_hash(g[h - 1][Left(all, DEPTH - h)],
                                       g[h - 1][Right(all, DEPTH - h)])]
           S == {n \in Nat : \E g : g = [i \in 0 .. n |-> E(g, i)]}
<1>1. 0 \in S
  <2> DEFINE g == [i \in 0 .. 0 |-> E(<< >>, i)]
  <2>1. E(g, 0) = E(<< >>, 0)
    OBVIOUS
  <2>2. g = [i \in 0 .. 0 |-> E(g, i)]
    BY <2>1
  <2>3. QED
    BY <2>2
<1>2. ASSUME NEW n \in Nat, n \in S PROVE n + 1 \in S
  <2>1. PICK g : g = [i \in 0 .. n |-> E(g, i)]
    BY <1>2
  <2> DEFINE h == [i \in 0 .. n + 1 |-> IF i <= n THEN g[i] ELSE E(g, n + 1)]
  <2>2. ASSUME NEW i \in 0 .. n + 1 PROVE h[i] = E(h, i)
    <3>1. i - 1 \in 0 .. n + 1 => h[i - 1] = g[i - 1]
      OBVIOUS
    <3>2. h[i] = E(g, i)
      <4> HIDE DEF E
      <4>1. i # n + 1 => (i \in 0 .. n /\ g[i] = E(g, i))
        BY <2>1
      <4>2. QED
        BY <4>1
    <3> HIDE DEF h
    <3>3. E(g, i) = E(h, i)
      BY <3>1
    <3>4. QED
      BY <3>2, <3>3
  <2> HIDE DEF E
  <2>3. h = [i \in 0 .. n + 1 |-> E(h, i)]
    BY <2>2
  <2> HIDE DEF h, E
  <2>4. QED
    BY <2>3
<1>3. DEPTH \in S
  <2> HIDE DEF S
  <2> QED BY <1>1, <1>2, Induct, DepthAssumption
<1>4. Roots = [n \in 0 .. DEPTH |-> E(Roots, n)]
  BY <1>3 DEF Roots
<1>5. QED
  BY <1>4

(* The keys on a path, level by level (collect_siblings).                  *)
LEMMA OnPathDef ==
  ASSUME NEW all, NEW key
  PROVE  \A h \in 0 .. DEPTH :
    OnPath(all, key)[h] =
      IF h = 0 THEN all
      ELSE IF bit(key, h - 1) = 0 THEN Left(OnPath(all, key)[h - 1], h - 1)
      ELSE Right(OnPath(all, key)[h - 1], h - 1)
<1> DEFINE E(g, h) == 
             IF h = 0 THEN all
             ELSE IF bit(key, h - 1) = 0 THEN Left(g[h - 1], h - 1)
             ELSE Right(g[h - 1], h - 1)
           S == {n \in Nat : \E g : g = [i \in 0 .. n |-> E(g, i)]}
<1>1. 0 \in S
  <2> DEFINE g == [i \in 0 .. 0 |-> E(<< >>, i)]
  <2>1. E(g, 0) = E(<< >>, 0)
    OBVIOUS
  <2>2. g = [i \in 0 .. 0 |-> E(g, i)]
    BY <2>1
  <2> HIDE DEF E, g
  <2>3. QED
    BY <2>2
<1>2. ASSUME NEW n \in Nat, n \in S PROVE n + 1 \in S
  <2>1. PICK g : g = [i \in 0 .. n |-> E(g, i)]
    BY <1>2
  <2> DEFINE h == [i \in 0 .. n + 1 |-> IF i <= n THEN g[i] ELSE E(g, n + 1)]
  <2>2. ASSUME NEW i \in 0 .. n + 1 PROVE h[i] = E(h, i)
    <3>1. i - 1 \in 0 .. n + 1 => h[i - 1] = g[i - 1]
      OBVIOUS
    <3>2. h[i] = E(g, i)
      <4> HIDE DEF E
      <4>1. i # n + 1 => (i \in 0 .. n /\ g[i] = E(g, i))
        BY <2>1
      <4>2. QED
        BY <4>1
    <3> HIDE DEF h
    <3>3. E(g, i) = E(h, i)
      BY <3>1
    <3>4. QED
      BY <3>2, <3>3
  <2> HIDE DEF E
  <2>3. h = [i \in 0 .. n + 1 |-> E(h, i)]
    BY <2>2
  <2> HIDE DEF h
  <2>4. QED
    BY <2>3
<1>3. DEPTH \in S
  <2> HIDE DEF S
  <2> QED BY <1>1, <1>2, Induct, DepthAssumption
<1>4. OnPath(all, key) = [n \in 0 .. DEPTH |-> E(OnPath(all, key), n)]
  BY <1>3 DEF OnPath
<1>5. QED
  BY <1>4

(* The fold of a proof, height by height (recompute_root).                 *)
LEMMA FoldedDef ==
  ASSUME NEW key, NEW leaf, NEW full
  PROVE  \A h \in 0 .. DEPTH :
    Folded(key, leaf, full)[h] =
      IF h = 0 THEN leaf
      ELSE IF bit(key, DEPTH - h) = 0
      THEN node_hash(Folded(key, leaf, full)[h - 1], full[DEPTH - h])
      ELSE node_hash(full[DEPTH - h], Folded(key, leaf, full)[h - 1])
<1> DEFINE E(g, h) == 
             IF h = 0 THEN leaf
             ELSE IF bit(key, DEPTH - h) = 0 THEN node_hash(g[h - 1], full[DEPTH - h])
             ELSE node_hash(full[DEPTH - h], g[h - 1])
           S == {n \in Nat : \E g : g = [i \in 0 .. n |-> E(g, i)]}
<1>1. 0 \in S
  <2> DEFINE g == [i \in 0 .. 0 |-> E(<< >>, i)]
  <2>1. E(g, 0) = E(<< >>, 0)
    OBVIOUS
  <2>2. g = [i \in 0 .. 0 |-> E(g, i)]
    BY <2>1
  <2> HIDE DEF E, g
  <2>3. QED
    BY <2>2
<1>2. ASSUME NEW n \in Nat, n \in S PROVE n + 1 \in S
  <2>1. PICK g : g = [i \in 0 .. n |-> E(g, i)]
    BY <1>2
  <2> DEFINE h == [i \in 0 .. n + 1 |-> IF i <= n THEN g[i] ELSE E(g, n + 1)]
  <2>2. ASSUME NEW i \in 0 .. n + 1 PROVE h[i] = E(h, i)
    <3>1. i - 1 \in 0 .. n + 1 => h[i - 1] = g[i - 1]
      OBVIOUS
    <3>2. h[i] = E(g, i)
      <4> HIDE DEF E
      <4>1. i # n + 1 => (i \in 0 .. n /\ g[i] = E(g, i))
        BY <2>1
      <4>2. QED
        BY <4>1
    <3> HIDE DEF h
    <3>3. E(g, i) = E(h, i)
      BY <3>1
    <3>4. QED
      BY <3>2, <3>3
  <2> HIDE DEF E
  <2>3. h = [i \in 0 .. n + 1 |-> E(h, i)]
    BY <2>2
  <2> HIDE DEF h
  <2>4. QED
    BY <2>3
<1>3. DEPTH \in S
  <2> HIDE DEF S
  <2> QED BY <1>1, <1>2, Induct, DepthAssumption
<1>4. Folded(key, leaf, full) = [n \in 0 .. DEPTH |-> E(Folded(key, leaf, full), n)]
  BY <1>3 DEF Folded
<1>5. QED
  BY <1>4

(* The tree over all keys, height by height.                               *)
LEMMA TreeDef ==
  ASSUME NEW set
  PROVE  \A h \in 0 .. DEPTH, n \in Nat :
    Tree(set)[h][n] =
      IF h > 0 THEN node_hash(Tree(set)[h - 1][2 * n], Tree(set)[h - 1][2 * n + 1])
      ELSE IF n \in set THEN leaf_hash(n) ELSE empty_leaf
<1> DEFINE E(g, h) == 
             [m \in Nat |->
               IF h > 0 THEN node_hash(g[h - 1][2 * m], g[h - 1][2 * m + 1])
               ELSE IF m \in set THEN leaf_hash(m) ELSE empty_leaf]
           S == {m \in Nat : \E g : g = [i \in 0 .. m |-> E(g, i)]}
<1>1. 0 \in S
  <2> DEFINE g == [i \in 0 .. 0 |-> E(<< >>, i)]
  <2>1. E(g, 0) = E(<< >>, 0)
    OBVIOUS
  <2>2. g = [i \in 0 .. 0 |-> E(g, i)]
    BY <2>1
  <2> HIDE DEF E, g
  <2>3. QED
    BY <2>2
<1>2. ASSUME NEW m \in Nat, m \in S PROVE m + 1 \in S
  <2>1. PICK g : g = [i \in 0 .. m |-> E(g, i)]
    BY <1>2
  <2> DEFINE h == [i \in 0 .. m + 1 |-> IF i <= m THEN g[i] ELSE E(g, m + 1)]
  <2>2. ASSUME NEW i \in 0 .. m + 1 PROVE h[i] = E(h, i)
    <3>1. i - 1 \in 0 .. m + 1 => h[i - 1] = g[i - 1]
      OBVIOUS
    <3>2. h[i] = E(g, i)
      <4> HIDE DEF E
      <4>1. i # m + 1 => (i \in 0 .. m /\ g[i] = E(g, i))
        BY <2>1
      <4>2. QED
        BY <4>1
    <3> HIDE DEF h
    <3>3. E(g, i) = E(h, i)
      BY <3>1
    <3>4. QED
      BY <3>2, <3>3
  <2> HIDE DEF E
  <2>3. h = [i \in 0 .. m + 1 |-> E(h, i)]
    BY <2>2
  <2> HIDE DEF h
  <2>4. QED
    BY <2>3
<1>3. DEPTH \in S
  <2> HIDE DEF S
  <2> QED BY <1>1, <1>2, Induct, DepthAssumption
<1>4. Tree(set) = [m \in 0 .. DEPTH |-> E(Tree(set), m)]
  BY <1>3 DEF Tree
<1> HIDE DEF S
<1> HIDE DEF E
<1>5. \A h \in 0 .. DEPTH : Tree(set)[h] = E(Tree(set), h)
  BY <1>4
<1>6. \A h \in 0 .. DEPTH, n \in Nat :
        E(Tree(set), h)[n] =
          IF h > 0 THEN node_hash(Tree(set)[h - 1][2 * n], Tree(set)[h - 1][2 * n + 1])
          ELSE IF n \in set THEN leaf_hash(n) ELSE empty_leaf
  BY DEF E
<1>7. QED
  BY <1>5, <1>6

LEMMA TreeLeaf ==
  ASSUME NEW set, NEW n \in Nat
  PROVE  Tree(set)[0][n] = IF n \in set THEN leaf_hash(n) ELSE empty_leaf
<1>1. 0 \in 0 .. DEPTH
  BY DepthAssumption
<1>2. QED
  BY <1>1, TreeDef

LEMMA NodeAbove ==
  ASSUME NEW set, NEW n \in Nat, NEW h \in 1 .. DEPTH
  PROVE  Tree(set)[h][n] = node_hash(Tree(set)[h - 1][2 * n], Tree(set)[h - 1][2 * n + 1])
<1>1. h \in 0 .. DEPTH /\ h > 0
  BY DepthAssumption
<1>2. QED
  BY <1>1, TreeDef

-----------------------------------------------------------------------------
(* Keys and their places in the tree.                                      *)

(* No power of two is zero.                                                *)
LEMMA Pow2Nat == \A n \in 0 .. DEPTH : Pow2[n] \in Nat \ {0}
<1> DEFINE S == {n \in Nat : n <= DEPTH => Pow2[n] \in Nat \ {0}}
<1>1. 0 \in S
  BY Pow2Def, DepthAssumption
<1>2. ASSUME NEW n \in Nat, n \in S PROVE n + 1 \in S
  <2>1. n + 1 <= DEPTH => Pow2[n + 1] = 2 * Pow2[n]
    BY Pow2Def, DepthAssumption
  <2>2. n + 1 <= DEPTH => n <= DEPTH
    BY DepthAssumption
  <2>3. QED
    BY <1>2, <2>1, <2>2
<1>3. \A n \in Nat : n \in S
  <2> HIDE DEF S
  <2> QED BY <1>1, <1>2, Induct
<1>4. QED
  BY <1>3, DepthAssumption

(* The quotient is where the number falls.                                 *)
LEMMA QuotientIs ==
  ASSUME NEW q \in Nat \ {0}, NEW k \in Nat, NEW m \in Nat
  PROVE  (k \div q = m) <=> (m * q <= k /\ k < m * q + q)
<1>1. ASSUME k \div q = m PROVE m * q <= k /\ k < m * q + q
  BY <1>1
<1>2. ASSUME m * q <= k, k < m * q + q PROVE k \div q = m
  BY <1>2
<1>3. QED
  BY <1>1, <1>2

(* Half a quotient is the quotient by twice the number, and quotients keep *)
(* the order.                                                              *)
LEMMA QuotientHalves ==
  ASSUME NEW q \in Nat \ {0}, NEW k \in Nat
  PROVE  /\ k \div q \in Nat
         /\ k \div (2 * q) = (k \div q) \div 2
         /\ \A l \in Nat : k <= l => k \div q <= l \div q
<1>1. PICK m \in Nat : m = k \div q
  OBVIOUS
<1>2. m * q <= k /\ k < m * q + q
  BY <1>1, QuotientIs
<1>3. PICK a \in Nat, b \in {0, 1} : m = 2 * a + b
  <2>1. m \div 2 \in Nat /\ m % 2 \in {0, 1} /\ m = 2 * (m \div 2) + (m % 2)
    OBVIOUS
  <2>2. QED
    BY <2>1
<1>4. a * (2 * q) <= k /\ k < a * (2 * q) + 2 * q
  <2>1. m * q = a * (2 * q) + b * q
    BY <1>3
  <2>2. b * q = 0 \/ b * q = q
    BY <1>3
  <2>3. a * (2 * q) \in Nat /\ m * q \in Nat
    BY <1>3
  <2>4. QED
    BY <1>2, <2>1, <2>2, <2>3
<1>5. k \div (2 * q) = a
  <2>1. 2 * q \in Nat \ {0}
    OBVIOUS
  <2>2. QED
    BY <1>3, <1>4, <2>1, QuotientIs
<1>6. m \div 2 = a
  BY <1>3
<1>7. ASSUME NEW l \in Nat, k <= l PROVE m <= l \div q
  <2>1. PICK p \in Nat : p = l \div q
    OBVIOUS
  <2>2. p * q <= l /\ l < p * q + q
    BY <2>1, QuotientIs
  <2>3. ASSUME p < m PROVE FALSE
    <3>1. PICK c \in Nat : m = p + 1 + c
      <4>1. m - p - 1 \in Nat /\ m = p + 1 + (m - p - 1)
        BY <2>3
      <4>2. QED
        BY <4>1
    <3>2. m * q = p * q + q + c * q
      BY <3>1
    <3>3. c * q \in Nat /\ p * q \in Nat /\ m * q \in Nat
      BY <3>1
    <3>4. QED
      BY <1>2, <1>7, <2>2, <3>2, <3>3
  <2>4. QED
    BY <2>1, <2>3
<1>8. QED
  BY <1>1, <1>5, <1>6, <1>7

-----------------------------------------------------------------------------
(* The node that a key is below, by its height.                            *)
Place(key, height) == key \div Pow2[height]

(* Each bit says to which half of a node a key belongs, and the order of   *)
(* the nodes is the order of the keys (bit).                               *)
LEMMA PlaceIs ==
  ASSUME NEW key \in Nat
  PROVE  /\ Place(key, 0) = key
         /\ \A h \in 0 .. DEPTH : Place(key, h) \in Nat
         /\ \A h \in 1 .. DEPTH :
              /\ bit(key, DEPTH - h) \in {0, 1}
              /\ Place(key, h - 1) = 2 * Place(key, h) + bit(key, DEPTH - h)
         /\ \A h \in 0 .. DEPTH, other \in Nat : key <= other => Place(key, h) <= Place(other, h)
<1>1. Place(key, 0) = key
  BY Pow2Def, DepthAssumption DEF Place
<1>2. ASSUME NEW h \in 0 .. DEPTH
      PROVE  /\ Place(key, h) \in Nat
             /\ \A other \in Nat : key <= other => Place(key, h) <= Place(other, h)
  BY Pow2Nat, QuotientHalves DEF Place
<1>3. ASSUME NEW h \in 1 .. DEPTH
      PROVE  /\ bit(key, DEPTH - h) \in {0, 1}
             /\ Place(key, h - 1) = 2 * Place(key, h) + bit(key, DEPTH - h)
  <2>1. h - 1 \in 0 .. DEPTH /\ h \in 0 .. DEPTH /\ DEPTH - 1 - (DEPTH - h) = h - 1
    BY DepthAssumption
  <2>2. Pow2[h - 1] \in Nat \ {0} /\ Pow2[h] = 2 * Pow2[h - 1]
    BY <2>1, Pow2Nat, Pow2Def
  <2>3. bit(key, DEPTH - h) = Place(key, h - 1) % 2
    BY <2>1 DEF bit, Place
  <2>4. Place(key, h) = Place(key, h - 1) \div 2
    BY <2>2, QuotientHalves DEF Place
  <2>5. Place(key, h - 1) \in Nat
    BY <1>2, <2>1
  <2>6. QED
    BY <2>3, <2>4, <2>5
<1>4. QED
  BY <1>1, <1>2, <1>3

(* All keys are below the root.                                            *)
LEMMA PlaceTop ==
  ASSUME NEW key \in Key
  PROVE  key \in Nat /\ Place(key, DEPTH) = 0
<1>1. Pow2[DEPTH] \in Nat \ {0} /\ DEPTH \in 0 .. DEPTH
  BY Pow2Nat, DepthAssumption
<1>2. key \in Nat /\ key < Pow2[DEPTH]
  BY <1>1 DEF Key
<1>3. 0 * Pow2[DEPTH] = 0
  BY <1>1
<1>4. QED
  BY <1>1, <1>2, <1>3, QuotientIs DEF Place

-----------------------------------------------------------------------------
(* Hashes do not collide (leaf_hash, node_hash).                           *)
LEMMA HashesDiffer ==
  /\ \A a, b, c, d : node_hash(a, b) = node_hash(c, d) <=> a = c /\ b = d
  /\ \A a, b : leaf_hash(a) = leaf_hash(b) <=> a = b
  /\ \A a, b, k : node_hash(a, b) # leaf_hash(k) /\ node_hash(a, b) # empty_leaf
  /\ \A k : leaf_hash(k) # empty_leaf
  BY DEF node_hash, leaf_hash, empty_leaf

(* Two trees are the same below a node iff the same keys are there.        *)
LEMMA TreesAgree ==
  ASSUME NEW h \in 0 .. DEPTH, NEW n \in Nat, NEW K \in SUBSET Key, NEW L \in SUBSET Key
  PROVE  Tree(K)[h][n] = Tree(L)[h][n]
           <=> \A k \in Key : Place(k, h) = n => (k \in K <=> k \in L)
<1> DEFINE Same(g, m) == \A k \in Key : Place(k, g) = m => (k \in K <=> k \in L)
           S == {g \in Nat : g <= DEPTH => \A m \in Nat : Tree(K)[g][m] = Tree(L)[g][m] <=> Same(g, m)}
<1>1. 0 \in S
  <2> SUFFICES ASSUME NEW m \in Nat PROVE Tree(K)[0][m] = Tree(L)[0][m] <=> Same(0, m)
    OBVIOUS
  <2>1. /\ Tree(K)[0][m] = IF m \in K THEN leaf_hash(m) ELSE empty_leaf
        /\ Tree(L)[0][m] = IF m \in L THEN leaf_hash(m) ELSE empty_leaf
    BY TreeLeaf, DepthAssumption
  <2>2. \A k \in Key : k \in Nat /\ Place(k, 0) = k
    BY PlaceIs, PlaceTop
  <2>3. QED
    BY <2>1, <2>2, HashesDiffer
<1>2. ASSUME NEW g \in Nat, g \in S PROVE g + 1 \in S
  <2> SUFFICES ASSUME g + 1 <= DEPTH, NEW m \in Nat
               PROVE  Tree(K)[g + 1][m] = Tree(L)[g + 1][m] <=> Same(g + 1, m)
    OBVIOUS
  <2>1. g \in 0 .. DEPTH /\ g + 1 \in 1 .. DEPTH /\ g + 1 \in 0 .. DEPTH /\ g + 1 > 0 /\ g + 1 - 1 = g
    BY DepthAssumption
  <2>2. /\ Tree(K)[g + 1][m] = node_hash(Tree(K)[g][2 * m], Tree(K)[g][2 * m + 1])
        /\ Tree(L)[g + 1][m] = node_hash(Tree(L)[g][2 * m], Tree(L)[g][2 * m + 1])
    <3> HIDE DEF S, Same
    <3>1. \A set \in {K, L}, x \in 1 .. DEPTH :
            Tree(set)[x][m] = node_hash(Tree(set)[x - 1][2 * m], Tree(set)[x - 1][2 * m + 1])
      BY NodeAbove
    <3>2. QED
      BY <2>1, <3>1
  <2>3. Tree(K)[g + 1][m] = Tree(L)[g + 1][m] <=> Same(g, 2 * m) /\ Same(g, 2 * m + 1)
    <3> HIDE DEF Same
    <3>1. 2 * m \in Nat /\ 2 * m + 1 \in Nat
      OBVIOUS
    <3>2. \A x \in Nat : Tree(K)[g][x] = Tree(L)[g][x] <=> Same(g, x)
      BY <1>2, <2>1
    <3> HIDE DEF S
    <3>3. Tree(K)[g + 1][m] = Tree(L)[g + 1][m]
            <=> /\ Tree(K)[g][2 * m] = Tree(L)[g][2 * m]
                /\ Tree(K)[g][2 * m + 1] = Tree(L)[g][2 * m + 1]
      <4> DEFINE a == Tree(K)[g][2 * m]
                 b == Tree(K)[g][2 * m + 1]
                 c == Tree(L)[g][2 * m]
                 d == Tree(L)[g][2 * m + 1]
      <4>1. Tree(K)[g + 1][m] = node_hash(a, b) /\ Tree(L)[g + 1][m] = node_hash(c, d)
        BY <2>2
      <4> HIDE DEF a, b, c, d
      <4>2. node_hash(a, b) = node_hash(c, d) <=> a = c /\ b = d
        BY HashesDiffer
      <4>3. Tree(K)[g + 1][m] = Tree(L)[g + 1][m] <=> a = c /\ b = d
        BY <4>1, <4>2
      <4>4. QED
        BY <4>3 DEF a, b, c, d
    <3>4. QED
      BY <3>1, <3>2, <3>3
  <2>4. ASSUME NEW k \in Key
        PROVE  Place(k, g + 1) = m <=> (Place(k, g) = 2 * m \/ Place(k, g) = 2 * m + 1)
    <3>1. /\ bit(k, DEPTH - (g + 1)) \in {0, 1}
          /\ Place(k, g) = 2 * Place(k, g + 1) + bit(k, DEPTH - (g + 1))
          /\ Place(k, g + 1) \in Nat
      BY <2>1, PlaceIs, PlaceTop
    <3>2. \A b \in {0, 1}, q \in Nat : q = m <=> (2 * q + b = 2 * m \/ 2 * q + b = 2 * m + 1)
      OBVIOUS
    <3> HIDE DEF S, Same
    <3>3. QED
      BY <3>1, <3>2
  <2>5. QED
    BY <2>3, <2>4
<1>3. \A g \in Nat : g \in S
  <2> HIDE DEF S
  <2> QED BY <1>1, <1>2, Induct
<1>4. QED
  BY <1>3, DepthAssumption

(* The default of a height is the tree without keys, and no node is the    *)
(* default of another height.                                              *)
LEMMA EmptyTree ==
  ASSUME NEW h \in 0 .. DEPTH, NEW n \in Nat
  PROVE  Tree({})[h][n] = Default[h]
<1> DEFINE S == {g \in Nat : g <= DEPTH => \A m \in Nat : Tree({})[g][m] = Default[g]}
<1>1. 0 \in S
  BY TreeLeaf, DefaultDef, DepthAssumption
<1>2. ASSUME NEW g \in Nat, g \in S PROVE g + 1 \in S
  <2> SUFFICES ASSUME g + 1 <= DEPTH, NEW m \in Nat
               PROVE  Tree({})[g + 1][m] = Default[g + 1]
    OBVIOUS
  <2>1. g \in 0 .. DEPTH /\ g + 1 \in 1 .. DEPTH /\ g + 1 \in 0 .. DEPTH /\ g + 1 # 0 /\ g + 1 - 1 = g
    BY DepthAssumption
  <2>2. Tree({})[g + 1][m] = node_hash(Tree({})[g][2 * m], Tree({})[g][2 * m + 1])
    <3> HIDE DEF S
    <3>1. \A x \in 1 .. DEPTH :
            Tree({})[x][m] = node_hash(Tree({})[x - 1][2 * m], Tree({})[x - 1][2 * m + 1])
      BY NodeAbove
    <3>2. QED
      BY <2>1, <3>1
  <2>3. Default[g + 1] = node_hash(Default[g], Default[g])
    BY <2>1, DefaultDef
  <2>4. 2 * m \in Nat /\ 2 * m + 1 \in Nat
    OBVIOUS
  <2>5. QED
    BY <1>2, <2>1, <2>2, <2>3, <2>4
<1>3. \A g \in Nat : g \in S
  <2> HIDE DEF S
  <2> QED BY <1>1, <1>2, Induct
<1>4. QED
  BY <1>3, DepthAssumption

(* The default of a height is never met one level below.                   *)
LEMMA NeverDefault ==
  ASSUME NEW h \in 1 .. DEPTH, NEW n \in Nat, NEW K \in SUBSET Key
  PROVE  Tree(K)[h - 1][n] # Default[h]
<1> DEFINE S == {g \in Nat : g + 1 <= DEPTH => \A m \in Nat : Tree(K)[g][m] # Default[g + 1]}
<1>1. 0 \in S
  <2> SUFFICES ASSUME 1 <= DEPTH, NEW m \in Nat PROVE Tree(K)[0][m] # Default[1]
    OBVIOUS
  <2>1. Default[1] = node_hash(Default[0], Default[0])
    BY DefaultDef, DepthAssumption
  <2>2. Tree(K)[0][m] = IF m \in K THEN leaf_hash(m) ELSE empty_leaf
    BY TreeLeaf, DepthAssumption
  <2>3. QED
    BY <2>1, <2>2, HashesDiffer
<1>2. ASSUME NEW g \in Nat, g \in S PROVE g + 1 \in S
  <2> SUFFICES ASSUME g + 1 + 1 <= DEPTH, NEW m \in Nat
               PROVE  Tree(K)[g + 1][m] # Default[g + 1 + 1]
    OBVIOUS
  <2>1. g \in 0 .. DEPTH /\ g + 1 \in 0 .. DEPTH /\ g + 1 + 1 \in 0 .. DEPTH /\ g + 1 - 1 = g
        /\ g + 1 + 1 # 0 /\ g + 1 + 1 - 1 = g + 1 /\ g + 1 <= DEPTH /\ g + 1 \in 1 .. DEPTH
    BY DepthAssumption
  <2>2. Tree(K)[g + 1][m] = node_hash(Tree(K)[g][2 * m], Tree(K)[g][2 * m + 1])
    <3> HIDE DEF S
    <3>1. \A x \in 1 .. DEPTH :
            Tree(K)[x][m] = node_hash(Tree(K)[x - 1][2 * m], Tree(K)[x - 1][2 * m + 1])
      BY NodeAbove
    <3>2. QED
      BY <2>1, <3>1
  <2>3. Default[g + 1 + 1] = node_hash(Default[g + 1], Default[g + 1])
    BY <2>1, DefaultDef
  <2>4. 2 * m \in Nat
    OBVIOUS
  <2>5. QED
    BY <1>2, <2>1, <2>2, <2>3, <2>4, HashesDiffer
<1>3. \A g \in Nat : g \in S
  <2> HIDE DEF S
  <2> QED BY <1>1, <1>2, Induct
<1>4. h - 1 \in Nat /\ h - 1 + 1 = h /\ h <= DEPTH
  BY DepthAssumption
<1>5. QED
  BY <1>3, <1>4

-----------------------------------------------------------------------------
(* Sorted keys part into halves.                                           *)

(* A set of positions that has all positions before its own ones is a      *)
(* beginning of the sequence.                                              *)
LEMMA DownClosed ==
  ASSUME NEW L \in Nat, NEW T \in SUBSET (1 .. L), \A i \in T : \A j \in 1 .. i : j \in T
  PROVE  Cardinality(T) \in 0 .. L /\ T = 1 .. Cardinality(T)
<1> DEFINE U == {n \in Nat : n + 1 \notin T}
<1>1. PICK c \in U : \A n \in U : c <= n
  <2>1. U \in SUBSET Nat /\ L \in U
    OBVIOUS
  <2>2. QED
    BY <2>1, Smallest
<1>2. c \in 0 .. L
  <2>1. L \in U /\ c \in Nat
    OBVIOUS
  <2>2. c <= L
    BY <1>1, <2>1
  <2>3. QED
    BY <2>1, <2>2
<1>3. T = 1 .. c
  <2>1. ASSUME NEW i \in 1 .. c PROVE i \in T
    <3>1. i - 1 \in Nat /\ ~ (c <= i - 1) /\ i - 1 + 1 = i
      BY <1>2
    <3>2. QED
      BY <1>1, <3>1
  <2>2. ASSUME NEW i \in T PROVE i \in 1 .. c
    <3>1. ASSUME c < i PROVE FALSE
      <4>1. c + 1 \in 1 .. i
        BY <1>2, <3>1
      <4>2. QED
        BY <1>1, <4>1
    <3>2. i \in 1 .. L
      OBVIOUS
    <3>3. QED
      BY <1>2, <3>1, <3>2
  <2>3. QED
    BY <2>1, <2>2
<1>4. Cardinality(1 .. c) = c
  <2>1. \A a, b \in Int : Cardinality(a .. b) = IF a > b THEN 0 ELSE b - a + 1
    BY FS_Interval
  <2>2. QED
    BY <1>2, <2>1
<1>5. QED
  BY <1>2, <1>3, <1>4

(* All keys of a sequence are below one node.                              *)
Below(all, height, n) == \A i \in 1 .. Len(all) : Place(all[i], height) = n

(* The search for the point where sorted keys part into halves is right:   *)
(* all before it are in the left half, all others in the right one.        *)
LEMMA Parting ==
  ASSUME NEW all \in Seq(Key), Sorted(all), NEW h \in 1 .. DEPTH, NEW n \in Nat, Below(all, h, n)
  PROVE  /\ partition_point(all, DEPTH - h) \in 0 .. Len(all)
         /\ \A i \in 1 .. Len(all) :
              Place(all[i], h - 1) =
                IF i <= partition_point(all, DEPTH - h) THEN 2 * n ELSE 2 * n + 1
<1> DEFINE T == {i \in 1 .. Len(all) : bit(all[i], DEPTH - h) = 0}
<1>1. Len(all) \in Nat
  BY LenProperties
<1>2. h \in 0 .. DEPTH /\ h - 1 \in 0 .. DEPTH
  BY DepthAssumption
<1>3. \A i \in 1 .. Len(all) : all[i] \in Key /\ all[i] \in Nat
  BY ElementOfSeq, PlaceTop
<1>4. \A i \in 1 .. Len(all) :
        /\ bit(all[i], DEPTH - h) \in {0, 1}
        /\ Place(all[i], h - 1) = 2 * n + bit(all[i], DEPTH - h)
  BY <1>3, PlaceIs DEF Below
<1>5. ASSUME NEW i \in T, NEW j \in 1 .. i PROVE j \in T
  <2>1. i \in 1 .. Len(all) /\ j \in 1 .. Len(all)
    BY <1>1
  <2>2. all[j] <= all[i]
    BY <1>3, <2>1 DEF Sorted
  <2>3. Place(all[j], h - 1) <= Place(all[i], h - 1)
    BY <1>2, <1>3, <2>1, <2>2, PlaceIs
  <2>4. QED
    BY <1>4, <2>1, <2>3
<1>6. Cardinality(T) \in 0 .. Len(all) /\ T = 1 .. Cardinality(T)
  <2>1. T \in SUBSET (1 .. Len(all))
    OBVIOUS
  <2> HIDE DEF T
  <2>2. QED
    BY <1>1, <1>5, <2>1, DownClosed
<1>7. partition_point(all, DEPTH - h) = Cardinality(T)
  BY DEF partition_point
<1>8. ASSUME NEW i \in 1 .. Len(all)
      PROVE  Place(all[i], h - 1) = IF i <= Cardinality(T) THEN 2 * n ELSE 2 * n + 1
  <2>1. i <= Cardinality(T) <=> i \in T
    BY <1>1, <1>6
  <2>2. i \in T <=> bit(all[i], DEPTH - h) = 0
    OBVIOUS
  <2> HIDE DEF T
  <2>3. QED
    BY <1>4, <2>1, <2>2
<1>9. QED
  BY <1>6, <1>7, <1>8

(* The two halves are sorted, and have exactly their keys.                 *)
LEMMA Halves ==
  ASSUME NEW all \in Seq(Key), Sorted(all), NEW h \in 1 .. DEPTH, NEW n \in Nat, Below(all, h, n)
  PROVE  /\ Left(all, DEPTH - h) \in Seq(Key) /\ Right(all, DEPTH - h) \in Seq(Key)
         /\ Sorted(Left(all, DEPTH - h)) /\ Sorted(Right(all, DEPTH - h))
         /\ Below(Left(all, DEPTH - h), h - 1, 2 * n)
         /\ Below(Right(all, DEPTH - h), h - 1, 2 * n + 1)
         /\ ToSet(Left(all, DEPTH - h)) = {k \in ToSet(all) : Place(k, h - 1) = 2 * n}
         /\ ToSet(Right(all, DEPTH - h)) = {k \in ToSet(all) : Place(k, h - 1) = 2 * n + 1}
<1> DEFINE c == partition_point(all, DEPTH - h)
           left == SubSeq(all, 1, c)
           right == SubSeq(all, c + 1, Len(all))
<1>1. /\ c \in 0 .. Len(all)
      /\ \A i \in 1 .. Len(all) : Place(all[i], h - 1) = IF i <= c THEN 2 * n ELSE 2 * n + 1
  BY Parting
<1>2. left = Left(all, DEPTH - h) /\ right = Right(all, DEPTH - h)
  BY DEF Left, Right
<1> HIDE DEF c
<1>3. Len(all) \in Nat
  BY LenProperties
<1>4. left \in Seq(Key) /\ Len(left) = c /\ \A i \in 1 .. c : left[i] = all[i]
  BY <1>1, CutProperties
<1>5. /\ right \in Seq(Key) /\ Len(right) = Len(all) - c
      /\ \A i \in 1 .. Len(all) - c : right[i] = all[c + i]
  <2>1. c + 1 \in 1 .. Len(all) + 1 /\ Len(all) \in 0 .. Len(all) /\ c + 1 <= Len(all) + 1
    BY <1>1, <1>3
  <2>2. /\ right \in Seq(Key) /\ Len(right) = Len(all) - (c + 1) + 1
        /\ \A i \in 1 .. Len(all) - (c + 1) + 1 : right[i] = all[(c + 1) + i - 1]
    BY <2>1, PartIs
  <2>3. Len(all) - (c + 1) + 1 = Len(all) - c
    BY <1>1, <1>3
  <2>4. ASSUME NEW i \in 1 .. Len(all) - c PROVE right[i] = all[c + i]
    <3>1. right[i] = all[(c + 1) + i - 1]
      BY <2>2, <2>3
    <3>2. (c + 1) + i - 1 = c + i
      BY <1>1, <1>3
    <3>3. QED
      BY <3>1, <3>2
  <2>5. QED
    BY <2>2, <2>3, <2>4
<1> HIDE DEF left, right
<1>6. Sorted(left) /\ Sorted(right)
  <2>1. Sorted(left)
    <3> SUFFICES ASSUME NEW i \in 1 .. Len(left), NEW j \in 1 .. Len(left), i < j
                 PROVE  left[i] < left[j]
      BY DEF Sorted
    <3>1. /\ i \in 1 .. Len(all) /\ j \in 1 .. Len(all)
          /\ left[i] = all[i] /\ left[j] = all[j]
      BY <1>1, <1>3, <1>4
    <3>2. QED
      BY <3>1 DEF Sorted
  <2>2. Sorted(right)
    <3> SUFFICES ASSUME NEW i \in 1 .. Len(right), NEW j \in 1 .. Len(right), i < j
                 PROVE  right[i] < right[j]
      BY DEF Sorted
    <3>1. /\ c + i \in 1 .. Len(all) /\ c + j \in 1 .. Len(all) /\ c + i < c + j
          /\ i \in 1 .. Len(all) - c /\ j \in 1 .. Len(all) - c
      BY <1>1, <1>3, <1>5
    <3>2. QED
      BY <1>5, <3>1 DEF Sorted
  <2>3. QED
    BY <2>1, <2>2
<1>7. \A i \in 1 .. Len(left) : Place(left[i], h - 1) = 2 * n /\ left[i] \in ToSet(all)
  <2> SUFFICES ASSUME NEW i \in 1 .. Len(left)
               PROVE  Place(left[i], h - 1) = 2 * n /\ left[i] \in ToSet(all)
    OBVIOUS
  <2>1. i \in 1 .. Len(all) /\ i <= c /\ left[i] = all[i]
    BY <1>1, <1>3, <1>4
  <2>2. QED
    BY <1>1, <2>1, ToSetIs
<1>8. \A i \in 1 .. Len(right) : Place(right[i], h - 1) = 2 * n + 1 /\ right[i] \in ToSet(all)
  <2> SUFFICES ASSUME NEW i \in 1 .. Len(right)
               PROVE  Place(right[i], h - 1) = 2 * n + 1 /\ right[i] \in ToSet(all)
    OBVIOUS
  <2>1. c + i \in 1 .. Len(all) /\ ~ (c + i <= c) /\ right[i] = all[c + i]
    BY <1>1, <1>3, <1>5
  <2>2. QED
    BY <1>1, <2>1, ToSetIs
<1>9. ASSUME NEW k \in ToSet(all)
      PROVE  /\ Place(k, h - 1) = 2 * n => k \in ToSet(left)
             /\ Place(k, h - 1) = 2 * n + 1 => k \in ToSet(right)
  <2>1. PICK i \in 1 .. Len(all) : all[i] = k
    BY ToSetIs
  <2>2. CASE i <= c
    <3>1. i \in 1 .. Len(left) /\ left[i] = k
      BY <1>1, <1>4, <2>1, <2>2
    <3>2. k \in ToSet(left)
      BY <1>4, <3>1, ToSetIs
    <3>3. Place(k, h - 1) = 2 * n
      BY <1>1, <2>1, <2>2
    <3>4. QED
      BY <3>2, <3>3
  <2>3. CASE ~ (i <= c)
    <3>1. i - c \in 1 .. Len(right) /\ i - c \in 1 .. Len(all) - c /\ c + (i - c) = i
      BY <1>1, <1>3, <1>5, <2>1, <2>3
    <3>2. right[i - c] = k
      BY <1>5, <2>1, <3>1
    <3>3. k \in ToSet(right)
      BY <1>5, <3>1, <3>2, ToSetIs
    <3>4. Place(k, h - 1) = 2 * n + 1
      BY <1>1, <2>1, <2>3
    <3>5. QED
      BY <3>3, <3>4
  <2>4. QED
    BY <2>2, <2>3
<1>10. /\ ToSet(left) = {k \in ToSet(all) : Place(k, h - 1) = 2 * n}
       /\ ToSet(right) = {k \in ToSet(all) : Place(k, h - 1) = 2 * n + 1}
  <2>1. \A k \in ToSet(left) : k \in ToSet(all) /\ Place(k, h - 1) = 2 * n
    BY <1>4, <1>7, ToSetIs
  <2>2. \A k \in ToSet(right) : k \in ToSet(all) /\ Place(k, h - 1) = 2 * n + 1
    BY <1>5, <1>8, ToSetIs
  <2>3. QED
    BY <1>9, <2>1, <2>2
<1>11. Below(left, h - 1, 2 * n) /\ Below(right, h - 1, 2 * n + 1)
  BY <1>7, <1>8 DEF Below
<1>12. QED
  BY <1>2, <1>4, <1>5, <1>6, <1>10, <1>11

-----------------------------------------------------------------------------
(* Roots.                                                                  *)

(* The three cases of subtree_root.                                        *)
LEMMA RootsOf ==
  ASSUME NEW all \in Seq(Key), NEW h \in 0 .. DEPTH
  PROVE  /\ all = << >> => Roots[h][all] = Default[h]
         /\ all # << >> /\ h = 0 => Roots[h][all] = leaf_hash(all[1])
         /\ all # << >> /\ h # 0 =>
              Roots[h][all] = node_hash(Roots[h - 1][Left(all, DEPTH - h)],
                                         Roots[h - 1][Right(all, DEPTH - h)])
  BY RootsDef

(* The root that skips empty subtrees, and parts the sorted keys, is that  *)
(* of the whole tree at that node.                                         *)
LEMMA RootsAreTrees ==
  ASSUME NEW h \in 0 .. DEPTH, NEW n \in Nat, NEW all \in Seq(Key), Sorted(all), Below(all, h, n)
  PROVE  Roots[h][all] = Tree(ToSet(all))[h][n]
<1> DEFINE S == {g \in Nat : g <= DEPTH =>
                   \A ks \in Seq(Key), m \in Nat :
                     Sorted(ks) /\ Below(ks, g, m) => Roots[g][ks] = Tree(ToSet(ks))[g][m]}
<1>1. ASSUME NEW g \in 0 .. DEPTH, NEW m \in Nat
      PROVE  Roots[g][<< >>] = Tree(ToSet(<< >>))[g][m]
  <2>1. << >> \in Seq(Key) /\ ToSet(<< >>) = {}
    BY EmptySeq DEF ToSet
  <2>2. Roots[g][<< >>] = Default[g]
    BY <2>1, RootsOf
  <2>3. Tree({})[g][m] = Default[g]
    BY EmptyTree
  <2>4. QED
    BY <2>1, <2>2, <2>3
<1>2. 0 \in S
  <2> SUFFICES ASSUME NEW ks \in Seq(Key), NEW m \in Nat, Sorted(ks), Below(ks, 0, m)
               PROVE  Roots[0][ks] = Tree(ToSet(ks))[0][m]
    OBVIOUS
  <2>1. CASE ks = << >>
    BY <1>1, <2>1, DepthAssumption
  <2>2. CASE ks # << >>
    <3>1. 1 \in 1 .. Len(ks)
      BY <2>2, EmptySeq, LenProperties
    <3>2. Roots[0][ks] = leaf_hash(ks[1])
      BY <2>2, RootsOf, DepthAssumption
    <3>3. ks[1] \in Nat /\ Place(ks[1], 0) = ks[1] /\ Place(ks[1], 0) = m
      BY <3>1, ElementOfSeq, PlaceTop, PlaceIs DEF Below
    <3>4. m \in ToSet(ks)
      BY <3>1, <3>3, ToSetIs
    <3>5. QED
      BY <3>2, <3>3, <3>4, TreeLeaf
  <2>3. QED
    BY <2>1, <2>2
<1>3. ASSUME NEW g \in Nat, g \in S PROVE g + 1 \in S
  <2> SUFFICES ASSUME g + 1 <= DEPTH,
                      NEW ks \in Seq(Key), NEW m \in Nat, Sorted(ks), Below(ks, g + 1, m)
               PROVE  Roots[g + 1][ks] = Tree(ToSet(ks))[g + 1][m]
    OBVIOUS
  <2> DEFINE left == Left(ks, DEPTH - (g + 1))
             right == Right(ks, DEPTH - (g + 1))
  <2>1. /\ g \in 0 .. DEPTH /\ g + 1 \in 0 .. DEPTH /\ g + 1 \in 1 .. DEPTH
        /\ g + 1 # 0 /\ g + 1 - 1 = g /\ g <= DEPTH
    BY DepthAssumption
  <2>2. CASE ks = << >>
    BY <1>1, <2>1, <2>2
  <2>3. CASE ks # << >>
    <3>1. /\ left \in Seq(Key) /\ right \in Seq(Key) /\ Sorted(left) /\ Sorted(right)
          /\ Below(left, g, 2 * m) /\ Below(right, g, 2 * m + 1)
          /\ ToSet(left) = {k \in ToSet(ks) : Place(k, g) = 2 * m}
          /\ ToSet(right) = {k \in ToSet(ks) : Place(k, g) = 2 * m + 1}
      BY <2>1, Halves
    <3>2. Roots[g + 1][ks] = node_hash(Roots[g][left], Roots[g][right])
      <4>1. g + 1 \in 0 .. DEPTH /\ g + 1 # 0
        BY <2>1
      <4>2. Roots[g + 1][ks] = node_hash(Roots[(g + 1) - 1][left], Roots[(g + 1) - 1][right])
        BY <2>3, <4>1, RootsOf
      <4>3. QED
        BY <2>1, <4>2
    <3> HIDE DEF left, right
    <3>3. 2 * m \in Nat /\ 2 * m + 1 \in Nat
      OBVIOUS
    <3>4. Roots[g][left] = Tree(ToSet(left))[g][2 * m] /\ Roots[g][right] = Tree(ToSet(right))[g][2 * m + 1]
      BY <1>3, <2>1, <3>1, <3>3
    <3>5. /\ ToSet(left) \in SUBSET Key /\ ToSet(right) \in SUBSET Key /\ ToSet(ks) \in SUBSET Key
      BY <3>1, ToSetIs
    <3>6. Tree(ToSet(left))[g][2 * m] = Tree(ToSet(ks))[g][2 * m]
      <4>1. \A k \in Key : Place(k, g) = 2 * m => (k \in ToSet(left) <=> k \in ToSet(ks))
        BY <3>1
      <4>2. QED
        BY <2>1, <3>3, <3>5, <4>1, TreesAgree
    <3>7. Tree(ToSet(right))[g][2 * m + 1] = Tree(ToSet(ks))[g][2 * m + 1]
      <4>1. \A k \in Key : Place(k, g) = 2 * m + 1 => (k \in ToSet(right) <=> k \in ToSet(ks))
        BY <3>1
      <4>2. QED
        BY <2>1, <3>3, <3>5, <4>1, TreesAgree
    <3>8. Tree(ToSet(ks))[g + 1][m] = node_hash(Tree(ToSet(ks))[g][2 * m], Tree(ToSet(ks))[g][2 * m + 1])
      <4> HIDE DEF S
      <4>1. \A x \in 1 .. DEPTH :
              Tree(ToSet(ks))[x][m] = node_hash(Tree(ToSet(ks))[x - 1][2 * m], Tree(ToSet(ks))[x - 1][2 * m + 1])
        BY NodeAbove
      <4>2. QED
        BY <2>1, <4>1
    <3>9. QED
      BY <3>2, <3>4, <3>6, <3>7, <3>8
  <2>4. QED
    BY <2>2, <2>3
<1>4. \A g \in Nat : g \in S
  <2> HIDE DEF S
  <2> QED BY <1>2, <1>3, Induct
<1>5. QED
  BY <1>4, DepthAssumption

(* So the map's root is that of the whole tree over its keys               *)
(* (RevocationMap::root).                                                  *)
LEMMA MapRootIs ==
  ASSUME NEW all \in Seq(Key), Sorted(all)
  PROVE  /\ Below(all, DEPTH, 0)
         /\ MapRoot(all) = Tree(ToSet(all))[DEPTH][0]
<1>1. Below(all, DEPTH, 0)
  BY ElementOfSeq, PlaceTop DEF Below
<1>2. DEPTH \in 0 .. DEPTH /\ 0 \in Nat /\ DEPTH - 0 = DEPTH
  BY DepthAssumption
<1>3. QED
  BY <1>1, <1>2, RootsAreTrees DEF MapRoot, subtree_root

(* Different sets of keys have different roots (RevocationMap::root).      *)
THEOREM RootsDiffer ==
  ASSUME NEW K \in SUBSET Key, NEW L \in SUBSET Key, Tree(K)[DEPTH][0] = Tree(L)[DEPTH][0]
  PROVE  K = L
<1>1. DEPTH \in 0 .. DEPTH /\ 0 \in Nat
  BY DepthAssumption
<1>2. \A k \in Key : Place(k, DEPTH) = 0 => (k \in K <=> k \in L)
  BY <1>1, TreesAgree
<1>3. QED
  BY <1>2, PlaceTop

-----------------------------------------------------------------------------
(* Proofs, whoever made them.                                              *)

(* A fold that reaches the root of a tree met the tree's own nodes on the  *)
(* way, whatever the siblings are.                                         *)
LEMMA FoldedIsTree ==
  ASSUME NEW key \in Key, NEW leaf, NEW full, NEW K \in SUBSET Key,
         Folded(key, leaf, full)[DEPTH] = Tree(K)[DEPTH][0]
  PROVE  leaf = IF key \in K THEN leaf_hash(key) ELSE empty_leaf
<1> DEFINE F == Folded(key, leaf, full)
           S == {d \in Nat : d <= DEPTH => F[DEPTH - d] = Tree(K)[DEPTH - d][Place(key, DEPTH - d)]}
<1>0. key \in Nat /\ Place(key, DEPTH) = 0
  BY PlaceTop
<1>1. 0 \in S
  BY <1>0, DepthAssumption
<1>2. ASSUME NEW d \in Nat, d \in S PROVE d + 1 \in S
  <2> SUFFICES ASSUME d + 1 <= DEPTH
               PROVE  F[DEPTH - (d + 1)] = Tree(K)[DEPTH - (d + 1)][Place(key, DEPTH - (d + 1))]
    OBVIOUS
  <2> DEFINE h == DEPTH - d
             g == DEPTH - (d + 1)
  <2>1. /\ h \in 0 .. DEPTH /\ h \in 1 .. DEPTH /\ h # 0 /\ h - 1 = g /\ g + 1 = h
        /\ g \in 0 .. DEPTH /\ g + 1 <= DEPTH /\ d <= DEPTH
    BY DepthAssumption
  <2>2. F[h] = Tree(K)[h][Place(key, h)]
    BY <1>2, <2>1
  <2> HIDE DEF S, h, g
  <2>3. F[h] = IF bit(key, DEPTH - h) = 0 THEN node_hash(F[g], full[DEPTH - h])
               ELSE node_hash(full[DEPTH - h], F[g])
    <3>1. \A x \in 0 .. DEPTH :
            F[x] = IF x = 0 THEN leaf
                   ELSE IF bit(key, DEPTH - x) = 0 THEN node_hash(F[x - 1], full[DEPTH - x])
                   ELSE node_hash(full[DEPTH - x], F[x - 1])
      BY FoldedDef
    <3> HIDE DEF F
    <3>2. QED
      BY <2>1, <3>1
  <2>4. Place(key, h) \in Nat
    BY <1>0, <2>1, PlaceIs
  <2>5. Tree(K)[h][Place(key, h)] = node_hash(Tree(K)[g][2 * Place(key, h)], Tree(K)[g][2 * Place(key, h) + 1])
    <3> HIDE DEF F
    <3>1. \A x \in 1 .. DEPTH :
            Tree(K)[x][Place(key, h)] = node_hash(Tree(K)[x - 1][2 * Place(key, h)], Tree(K)[x - 1][2 * Place(key, h) + 1])
      BY <2>4, NodeAbove
    <3>2. QED
      BY <2>1, <3>1
  <2>6. bit(key, DEPTH - h) \in {0, 1} /\ Place(key, g) = 2 * Place(key, h) + bit(key, DEPTH - h)
    BY <1>0, <2>1, PlaceIs
  <2> HIDE DEF F
  <2>7. F[g] = Tree(K)[g][Place(key, g)]
    <3>1. CASE bit(key, DEPTH - h) = 0
      <4>1. Place(key, g) = 2 * Place(key, h)
        BY <2>4, <2>6, <3>1
      <4>2. node_hash(F[g], full[DEPTH - h])
              = node_hash(Tree(K)[g][2 * Place(key, h)], Tree(K)[g][2 * Place(key, h) + 1])
        BY <2>2, <2>3, <2>5, <3>1
      <4>3. F[g] = Tree(K)[g][2 * Place(key, h)]
        BY <4>2, HashesDiffer
      <4>4. QED
        BY <4>1, <4>3
    <3>2. CASE bit(key, DEPTH - h) # 0
      <4>1. Place(key, g) = 2 * Place(key, h) + 1
        BY <2>4, <2>6, <3>2
      <4>2. node_hash(full[DEPTH - h], F[g])
              = node_hash(Tree(K)[g][2 * Place(key, h)], Tree(K)[g][2 * Place(key, h) + 1])
        BY <2>2, <2>3, <2>5, <3>2
      <4>3. F[g] = Tree(K)[g][2 * Place(key, h) + 1]
        BY <4>2, HashesDiffer
      <4>4. QED
        BY <4>1, <4>3
    <3>3. QED
      BY <2>6, <3>1, <3>2
  <2>8. QED
    BY <2>7 DEF g
<1>3. F[0] = Tree(K)[0][Place(key, 0)]
  <2>1. DEPTH \in S
    <3> HIDE DEF S
    <3> QED BY <1>1, <1>2, Induct, DepthAssumption
  <2>2. DEPTH - DEPTH = 0
    BY DepthAssumption
  <2>3. QED
    BY <2>1, <2>2, DepthAssumption
<1>4. F[0] = leaf
  BY FoldedDef, DepthAssumption
<1>5. Tree(K)[0][key] = IF key \in K THEN leaf_hash(key) ELSE empty_leaf
  BY <1>0, TreeLeaf
<1>6. QED
  BY <1>0, <1>3, <1>4, <1>5, PlaceIs

(* No proof, whoever made it, shows against the root of a set of keys that *)
(* a key outside is in it, or one inside is not (verify_inclusion,         *)
(* verify_non_inclusion).                                                  *)
THEOREM ProofsAreSound ==
  ASSUME NEW K \in SUBSET Key, NEW key \in Key, NEW proof
  PROVE  /\ verify_inclusion(Tree(K)[DEPTH][0], key, proof) => key \in K
         /\ verify_non_inclusion(Tree(K)[DEPTH][0], key, proof) => key \notin K
<1>1. ASSUME verify_inclusion(Tree(K)[DEPTH][0], key, proof) PROVE key \in K
  <2>1. Folded(key, leaf_hash(key), expand(proof))[DEPTH] = Tree(K)[DEPTH][0]
    BY <1>1 DEF verify_inclusion, recompute_root
  <2>2. leaf_hash(key) = IF key \in K THEN leaf_hash(key) ELSE empty_leaf
    BY <2>1, FoldedIsTree
  <2>3. QED
    BY <2>2, HashesDiffer
<1>2. ASSUME verify_non_inclusion(Tree(K)[DEPTH][0], key, proof) PROVE key \notin K
  <2>1. Folded(key, empty_leaf, expand(proof))[DEPTH] = Tree(K)[DEPTH][0]
    BY <1>2 DEF verify_non_inclusion, recompute_root
  <2>2. empty_leaf = IF key \in K THEN leaf_hash(key) ELSE empty_leaf
    BY <2>1, FoldedIsTree
  <2>3. QED
    BY <2>2, HashesDiffer
<1>3. QED
  BY <1>1, <1>2

-----------------------------------------------------------------------------
(* The proofs that the map itself makes.                                   *)

(* What is on the path of a key is what is below its nodes                 *)
(* (collect_siblings).                                                     *)
LEMMA PathIs ==
  ASSUME NEW all \in Seq(Key), Sorted(all), NEW key \in Key, NEW d \in 0 .. DEPTH
  PROVE  /\ OnPath(all, key)[d] \in Seq(Key)
         /\ Sorted(OnPath(all, key)[d])
         /\ Below(OnPath(all, key)[d], DEPTH - d, Place(key, DEPTH - d))
         /\ ToSet(OnPath(all, key)[d]) =
              {k \in ToSet(all) : Place(k, DEPTH - d) = Place(key, DEPTH - d)}
<1> DEFINE P == OnPath(all, key)
           Good(e) == /\ P[e] \in Seq(Key)
                      /\ Sorted(P[e])
                      /\ Below(P[e], DEPTH - e, Place(key, DEPTH - e))
                      /\ ToSet(P[e]) = {k \in ToSet(all) : Place(k, DEPTH - e) = Place(key, DEPTH - e)}
           S == {e \in Nat : e <= DEPTH => Good(e)}
<1>0. key \in Nat /\ Place(key, DEPTH) = 0 /\ DEPTH - 0 = DEPTH
  BY PlaceTop, DepthAssumption
<1>1. 0 \in S
  <2>1. P[0] = all
    BY OnPathDef, DepthAssumption
  <2> HIDE DEF P
  <2>2. \A k \in ToSet(all) : Place(k, DEPTH) = 0
    BY ToSetIs, PlaceTop
  <2>3. Below(all, DEPTH, 0)
    BY MapRootIs
  <2>4. QED
    BY <1>0, <2>1, <2>2, <2>3
<1>2. ASSUME NEW e \in Nat, e \in S PROVE e + 1 \in S
  <2> SUFFICES ASSUME e + 1 <= DEPTH PROVE Good(e + 1)
    OBVIOUS
  <2> DEFINE h == DEPTH - e
             n == Place(key, h)
  <2>1. /\ h \in 1 .. DEPTH /\ h \in 0 .. DEPTH /\ DEPTH - (e + 1) = h - 1 /\ e = DEPTH - h
        /\ e <= DEPTH /\ e + 1 \in 0 .. DEPTH /\ e + 1 # 0 /\ e + 1 - 1 = e
    BY DepthAssumption
  <2>2. Good(e)
    BY <1>2, <2>1
  <2>3. P[e + 1] = IF bit(key, e) = 0 THEN Left(P[e], e) ELSE Right(P[e], e)
    <3>1. \A x \in 0 .. DEPTH :
            P[x] = IF x = 0 THEN all
                   ELSE IF bit(key, x - 1) = 0 THEN Left(P[x - 1], x - 1)
                   ELSE Right(P[x - 1], x - 1)
      BY OnPathDef
    <3> HIDE DEF P
    <3>2. QED
      BY <2>1, <3>1
  <2> HIDE DEF P, S
  <2>4. n \in Nat /\ bit(key, e) \in {0, 1} /\ Place(key, h - 1) = 2 * n + bit(key, e)
    <3>1. bit(key, DEPTH - h) \in {0, 1} /\ Place(key, h - 1) = 2 * n + bit(key, DEPTH - h) /\ n \in Nat
      BY <1>0, <2>1, PlaceIs
    <3> HIDE DEF h, n
    <3>2. QED
      BY <2>1, <3>1
  <2> DEFINE left == Left(P[e], e)
             right == Right(P[e], e)
  <2>5. /\ left \in Seq(Key) /\ right \in Seq(Key) /\ Sorted(left) /\ Sorted(right)
        /\ Below(left, h - 1, 2 * n) /\ Below(right, h - 1, 2 * n + 1)
        /\ ToSet(left) = {k \in ToSet(P[e]) : Place(k, h - 1) = 2 * n}
        /\ ToSet(right) = {k \in ToSet(P[e]) : Place(k, h - 1) = 2 * n + 1}
    <3>1. P[e] \in Seq(Key) /\ Sorted(P[e]) /\ Below(P[e], h, n)
      BY <2>2
    <3> HIDE DEF h, n
    <3>2. DEPTH - h = e
      BY <2>1
    <3>3. QED
      BY <2>1, <2>4, <3>1, <3>2, Halves
  <2>6. ASSUME NEW k \in ToSet(all)
        PROVE  /\ Place(k, h) \in Nat
               /\ Place(k, h - 1) = 2 * Place(k, h) \/ Place(k, h - 1) = 2 * Place(k, h) + 1
    <3>1. k \in Nat
      BY ToSetIs, PlaceTop
    <3> HIDE DEF h
    <3>2. /\ bit(k, DEPTH - h) \in {0, 1} /\ Place(k, h) \in Nat
          /\ Place(k, h - 1) = 2 * Place(k, h) + bit(k, DEPTH - h)
      BY <2>1, <3>1, PlaceIs
    <3>3. QED
      BY <3>2
  <2>7. ASSUME NEW k \in ToSet(all)
        PROVE  /\ Place(k, h - 1) = 2 * n => Place(k, h) = n
               /\ Place(k, h - 1) = 2 * n + 1 => Place(k, h) = n
    <3> HIDE DEF h, n
    <3> QED BY <2>4, <2>6
  <2>8. ToSet(P[e]) = {k \in ToSet(all) : Place(k, h) = n}
    BY <2>2
  <2> HIDE DEF h, n, left, right, Good
  <2>9. CASE bit(key, e) = 0
    <3>1. P[e + 1] = left /\ Place(key, h - 1) = 2 * n
      BY <2>3, <2>4, <2>9 DEF left
    <3>2. ToSet(left) = {k \in ToSet(all) : Place(k, h - 1) = 2 * n}
      BY <2>5, <2>7, <2>8
    <3>3. QED
      BY <2>1, <2>5, <3>1, <3>2 DEF Good
  <2>10. CASE bit(key, e) = 1
    <3>1. P[e + 1] = right /\ Place(key, h - 1) = 2 * n + 1
      BY <2>3, <2>4, <2>10 DEF right
    <3>2. ToSet(right) = {k \in ToSet(all) : Place(k, h - 1) = 2 * n + 1}
      BY <2>5, <2>7, <2>8
    <3>3. QED
      BY <2>1, <2>5, <3>1, <3>2 DEF Good
  <2>11. QED
    BY <2>4, <2>9, <2>10
<1>3. d \in S
  <2> HIDE DEF S
  <2> QED BY <1>1, <1>2, Induct, DepthAssumption
<1>4. QED
  BY <1>3, DepthAssumption

(* The node beside the path of a key.                                      *)
Beside(key, d) == 2 * Place(key, DEPTH - d) + 1 - bit(key, d)

(* A sibling in a proof is the tree's own node beside the path.            *)
LEMMA SiblingIs ==
  ASSUME NEW all \in Seq(Key), Sorted(all), NEW key \in Key, NEW d \in 0 .. DEPTH - 1
  PROVE  /\ Beside(key, d) \in Nat
         /\ Sibling(all, key, d) = Tree(ToSet(all))[DEPTH - d - 1][Beside(key, d)]
<1> DEFINE h == DEPTH - d
           n == Place(key, h)
           same == OnPath(all, key)[d]
           other == IF bit(key, d) = 0 THEN Right(same, d) ELSE Left(same, d)
<1>1. /\ h \in 1 .. DEPTH /\ h \in 0 .. DEPTH /\ h - 1 \in 0 .. DEPTH /\ DEPTH - h = d
      /\ d \in 0 .. DEPTH /\ DEPTH - (d + 1) = h - 1 /\ DEPTH - d - 1 = h - 1
  BY DepthAssumption
<1>2. /\ same \in Seq(Key) /\ Sorted(same) /\ Below(same, h, n)
      /\ ToSet(same) = {k \in ToSet(all) : Place(k, h) = n}
  BY <1>1, PathIs
<1>3. n \in Nat /\ bit(key, d) \in {0, 1}
  <2>1. key \in Nat
    BY PlaceTop
  <2> HIDE DEF h
  <2>2. Place(key, h) \in Nat /\ bit(key, DEPTH - h) \in {0, 1}
    BY <1>1, <2>1, PlaceIs
  <2>3. QED
    BY <1>1, <2>2
<1> HIDE DEF same, n, h
<1>4. /\ Left(same, d) \in Seq(Key) /\ Right(same, d) \in Seq(Key)
      /\ Sorted(Left(same, d)) /\ Sorted(Right(same, d))
      /\ Below(Left(same, d), h - 1, 2 * n) /\ Below(Right(same, d), h - 1, 2 * n + 1)
      /\ ToSet(Left(same, d)) = {k \in ToSet(same) : Place(k, h - 1) = 2 * n}
      /\ ToSet(Right(same, d)) = {k \in ToSet(same) : Place(k, h - 1) = 2 * n + 1}
  <2>1. /\ Left(same, DEPTH - h) \in Seq(Key) /\ Right(same, DEPTH - h) \in Seq(Key)
        /\ Sorted(Left(same, DEPTH - h)) /\ Sorted(Right(same, DEPTH - h))
        /\ Below(Left(same, DEPTH - h), h - 1, 2 * n) /\ Below(Right(same, DEPTH - h), h - 1, 2 * n + 1)
        /\ ToSet(Left(same, DEPTH - h)) = {k \in ToSet(same) : Place(k, h - 1) = 2 * n}
        /\ ToSet(Right(same, DEPTH - h)) = {k \in ToSet(same) : Place(k, h - 1) = 2 * n + 1}
    BY <1>1, <1>2, <1>3, Halves
  <2>2. QED
    BY <1>1, <2>1
<1>5. Beside(key, d) = IF bit(key, d) = 0 THEN 2 * n + 1 ELSE 2 * n
  BY <1>3 DEF Beside, n, h
<1> DEFINE m == Beside(key, d)
<1>6. m \in Nat
  BY <1>3, <1>5
<1>7. /\ other \in Seq(Key) /\ Sorted(other) /\ Below(other, h - 1, m)
      /\ ToSet(other) = {k \in ToSet(same) : Place(k, h - 1) = m}
  <2>1. CASE bit(key, d) = 0
    BY <1>4, <1>5, <2>1
  <2>2. CASE bit(key, d) # 0
    BY <1>4, <1>5, <2>2
  <2>3. QED
    BY <2>1, <2>2
<1>8. Sibling(all, key, d) = Roots[h - 1][other]
  BY <1>1 DEF Sibling, subtree_root, same
<1> HIDE DEF m, other
<1>9. Roots[h - 1][other] = Tree(ToSet(other))[h - 1][m]
  BY <1>1, <1>6, <1>7, RootsAreTrees
<1>10. Tree(ToSet(other))[h - 1][m] = Tree(ToSet(all))[h - 1][m]
  <2>1. ToSet(other) \in SUBSET Key /\ ToSet(all) \in SUBSET Key
    BY <1>7, ToSetIs
  <2>2. ASSUME NEW k \in Key, Place(k, h - 1) = m
        PROVE  k \in ToSet(other) <=> k \in ToSet(all)
    <3>1. Place(k, h) = n
      <4>1. k \in Nat
        BY PlaceTop
      <4>2. /\ bit(k, DEPTH - h) \in {0, 1} /\ Place(k, h) \in Nat
            /\ Place(k, h - 1) = 2 * Place(k, h) + bit(k, DEPTH - h)
        BY <1>1, <4>1, PlaceIs
      <4>3. m = 2 * n \/ m = 2 * n + 1
        BY <1>5 DEF m
      <4>4. QED
        BY <1>3, <2>2, <4>2, <4>3
    <3>2. QED
      BY <1>2, <1>7, <2>2, <3>1
  <2>3. QED
    BY <1>1, <1>6, <2>1, <2>2, TreesAgree
<1>11. QED
  BY <1>1, <1>6, <1>8, <1>9, <1>10 DEF m

(* No sibling is ever left out of a proof, so that all levels are in it.   *)
LEMMA NothingLeftOut ==
  ASSUME NEW all \in Seq(Key), Sorted(all), NEW key \in Key
  PROVE  /\ ProveKey(all, key).present = 0 .. DEPTH - 1
         /\ WellFormed(ProveKey(all, key))
         /\ \A d \in 0 .. DEPTH - 1 : expand(ProveKey(all, key))[d] = Sibling(all, key, d)
<1> DEFINE present == {d \in 0 .. DEPTH - 1 : Sibling(all, key, d) # at_depth(d)}
           level(i) == CHOOSE d \in present : Rank(present, d) = i
           siblings == [i \in 1 .. Cardinality(present) |-> Sibling(all, key, level(i))]
           proof == ProveKey(all, key)
<1>1. proof = [present |-> present, siblings |-> siblings]
  BY DEF ProveKey
<1>2. ASSUME NEW d \in 0 .. DEPTH - 1 PROVE Sibling(all, key, d) # at_depth(d)
  <2>1. DEPTH - d \in 1 .. DEPTH /\ DEPTH - d - 1 = (DEPTH - d) - 1
    BY DepthAssumption
  <2>2. ToSet(all) \in SUBSET Key
    BY ToSetIs
  <2>3. Beside(key, d) \in Nat /\ Sibling(all, key, d) = Tree(ToSet(all))[(DEPTH - d) - 1][Beside(key, d)]
    BY SiblingIs
  <2>4. QED
    BY <2>1, <2>2, <2>3, NeverDefault DEF at_depth
<1>3. present = 0 .. DEPTH - 1
  BY <1>2
<1>4. ASSUME NEW c \in Int, c + 1 >= 0 PROVE Cardinality(0 .. c) = c + 1
  <2>1. \A a, b \in Int : Cardinality(a .. b) = IF a > b THEN 0 ELSE b - a + 1
    BY FS_Interval
  <2>2. Cardinality(0 .. c) = IF 0 > c THEN 0 ELSE c - 0 + 1
    BY <2>1
  <2>3. QED
    BY <1>4, <2>2
<1>5. Cardinality(present) = DEPTH
  <2>1. DEPTH - 1 \in Int /\ DEPTH - 1 + 1 >= 0 /\ DEPTH - 1 + 1 = DEPTH
    BY DepthAssumption
  <2>2. Cardinality(0 .. DEPTH - 1) = DEPTH - 1 + 1
    BY <1>4, <2>1
  <2> HIDE DEF present
  <2>3. QED
    BY <1>3, <2>1, <2>2
<1> HIDE DEF present
<1>6. ASSUME NEW d \in 0 .. DEPTH - 1 PROVE Rank(present, d) = d + 1
  <2>1. {e \in present : e <= d} = 0 .. d
    BY <1>3, DepthAssumption
  <2>2. d \in Int /\ d + 1 >= 0
    BY DepthAssumption
  <2>3. Cardinality(0 .. d) = d + 1
    BY <1>4, <2>2
  <2>4. QED
    BY <2>1, <2>3 DEF Rank
<1>7. ASSUME NEW d \in 0 .. DEPTH - 1 PROVE level(d + 1) = d
  <2>1. d \in present /\ Rank(present, d) = d + 1
    BY <1>3, <1>6
  <2>2. \A e \in present : Rank(present, e) = d + 1 => e = d
    BY <1>3, <1>6
  <2>3. QED
    BY <2>1, <2>2
<1>8. ASSUME NEW d \in 0 .. DEPTH - 1 PROVE expand(proof)[d] = Sibling(all, key, d)
  <2>1. expand(proof)[d] = siblings[Rank(present, d)]
    <3> HIDE DEF siblings, proof
    <3> QED BY <1>1, <1>3 DEF expand
  <2>2. d + 1 \in 1 .. Cardinality(present)
    BY <1>5, DepthAssumption
  <2> HIDE DEF level
  <2>3. siblings[d + 1] = Sibling(all, key, level(d + 1))
    BY <2>2
  <2>4. QED
    BY <1>6, <1>7, <2>1, <2>3
<1>9. WellFormed(proof)
  <2>1. Len(siblings) = Cardinality(present)
    <3> HIDE DEF level
    <3> QED BY <1>5, DepthAssumption
  <2> HIDE DEF siblings, proof
  <2>2. QED
    BY <1>1, <1>3, <2>1 DEF WellFormed
<1>10. proof.present = present
  <2> HIDE DEF siblings, proof
  <2> QED BY <1>1
<1>11. QED
  BY <1>3, <1>8, <1>9, <1>10

(* The proof that the map makes for a key shows what the map says of it    *)
(* (RevocationMap::prove).                                                 *)
THEOREM ProofsAreComplete ==
  ASSUME NEW all \in Seq(Key), Sorted(all), NEW key \in Key
  PROVE  /\ key \in ToSet(all) => verify_inclusion(MapRoot(all), key, ProveKey(all, key))
         /\ key \notin ToSet(all) => verify_non_inclusion(MapRoot(all), key, ProveKey(all, key))
<1> DEFINE K == ToSet(all)
           leaf == IF key \in K THEN leaf_hash(key) ELSE empty_leaf
           full == expand(ProveKey(all, key))
           F == Folded(key, leaf, full)
           S == {h \in Nat : h <= DEPTH => F[h] = Tree(K)[h][Place(key, h)]}
<1>0. key \in Nat /\ Place(key, DEPTH) = 0 /\ Place(key, 0) = key
  BY PlaceTop, PlaceIs
<1>1. \A x \in 0 .. DEPTH :
        F[x] = IF x = 0 THEN leaf
               ELSE IF bit(key, DEPTH - x) = 0 THEN node_hash(F[x - 1], full[DEPTH - x])
               ELSE node_hash(full[DEPTH - x], F[x - 1])
  <2> HIDE DEF leaf, full
  <2> QED BY FoldedDef
<1> HIDE DEF F, full, leaf, K
<1>2. 0 \in S
  <2>1. F[0] = leaf
    <3> HIDE DEF S
    <3>1. 0 \in 0 .. DEPTH
      BY DepthAssumption
    <3>2. QED
      BY <1>1, <3>1
  <2>2. Tree(K)[0][key] = IF key \in K THEN leaf_hash(key) ELSE empty_leaf
    BY <1>0, TreeLeaf
  <2>3. QED
    BY <1>0, <2>1, <2>2 DEF leaf
<1>3. ASSUME NEW g \in Nat, g \in S PROVE g + 1 \in S
  <2> SUFFICES ASSUME g + 1 <= DEPTH PROVE F[g + 1] = Tree(K)[g + 1][Place(key, g + 1)]
    OBVIOUS
  <2> DEFINE h == g + 1
             d == DEPTH - h
             n == Place(key, h)
  <2>1. /\ h \in 0 .. DEPTH /\ h \in 1 .. DEPTH /\ h # 0 /\ h - 1 = g /\ g \in 0 .. DEPTH
        /\ d \in 0 .. DEPTH - 1 /\ DEPTH - d - 1 = g /\ DEPTH - d = h /\ g <= DEPTH
    BY DepthAssumption
  <2>2. F[g] = Tree(K)[g][Place(key, g)]
    BY <1>3, <2>1
  <2> HIDE DEF S, d, n
  <2>3. full[d] = Tree(K)[g][Beside(key, d)]
    <3>1. full[d] = Sibling(all, key, d)
      BY <2>1, NothingLeftOut DEF full
    <3>2. Sibling(all, key, d) = Tree(K)[DEPTH - d - 1][Beside(key, d)]
      BY <2>1, SiblingIs DEF K
    <3>3. QED
      BY <2>1, <3>1, <3>2
  <2>4. /\ n \in Nat /\ bit(key, d) \in {0, 1} /\ Place(key, g) = 2 * n + bit(key, d)
        /\ Beside(key, d) = 2 * n + 1 - bit(key, d)
    <3> HIDE DEF h
    <3>1. n \in Nat /\ bit(key, d) \in {0, 1} /\ Place(key, h - 1) = 2 * n + bit(key, d)
      BY <1>0, <2>1, PlaceIs DEF n, d
    <3>2. Beside(key, d) = 2 * n + 1 - bit(key, d)
      BY <2>1 DEF Beside, n
    <3>3. QED
      BY <2>1, <3>1, <3>2
  <2>5. Tree(K)[h][n] = node_hash(Tree(K)[g][2 * n], Tree(K)[g][2 * n + 1])
    <3>1. n \in Nat /\ h \in 1 .. DEPTH /\ h - 1 = g
      BY <2>1, <2>4
    <3>2. \A x \in 1 .. DEPTH :
            Tree(K)[x][n] = node_hash(Tree(K)[x - 1][2 * n], Tree(K)[x - 1][2 * n + 1])
      BY <3>1, NodeAbove
    <3>3. QED
      BY <3>1, <3>2
  <2>6. F[h] = IF bit(key, d) = 0 THEN node_hash(F[g], full[d]) ELSE node_hash(full[d], F[g])
    <3>1. F[h] = IF bit(key, DEPTH - h) = 0 THEN node_hash(F[h - 1], full[DEPTH - h])
                 ELSE node_hash(full[DEPTH - h], F[h - 1])
      BY <1>1, <2>1
    <3>2. QED
      BY <2>1, <3>1 DEF d
  <2>7. CASE bit(key, d) = 0
    <3>1. Place(key, g) = 2 * n /\ Beside(key, d) = 2 * n + 1
      BY <2>4, <2>7
    <3>2. QED
      BY <2>2, <2>3, <2>5, <2>6, <2>7, <3>1 DEF n
  <2>8. CASE bit(key, d) = 1
    <3>1. Place(key, g) = 2 * n + 1 /\ Beside(key, d) = 2 * n
      BY <2>4, <2>8
    <3>2. QED
      BY <2>2, <2>3, <2>5, <2>6, <2>8, <3>1 DEF n
  <2>9. QED
    BY <2>4, <2>7, <2>8
<1>4. F[DEPTH] = Tree(K)[DEPTH][0]
  <2>1. DEPTH \in S
    <3> HIDE DEF S
    <3> QED BY <1>2, <1>3, Induct, DepthAssumption
  <2>2. QED
    BY <1>0, <2>1, DepthAssumption
<1>5. MapRoot(all) = Tree(K)[DEPTH][0]
  BY MapRootIs DEF K
<1>6. WellFormed(ProveKey(all, key)) /\ recompute_root(key, leaf, ProveKey(all, key)) = MapRoot(all)
  BY <1>4, <1>5, NothingLeftOut DEF recompute_root, F, full
<1>7. QED
  BY <1>6 DEF leaf, K, verify_inclusion, verify_non_inclusion

-----------------------------------------------------------------------------
(* Revoking.                                                               *)

(* revoke keeps the keys sorted.                                           *)
LEMMA InsertedIs ==
  ASSUME NEW S \in SUBSET Nat, NEW ks \in Seq(S), Sorted(ks), NEW key \in S
  PROVE  /\ Inserted(ks, key) \in Seq(S)
         /\ Sorted(Inserted(ks, key))
         /\ ToSet(Inserted(ks, key)) = ToSet(ks) \cup {key}
<1>1. CASE key \in ToSet(ks)
  <2>1. Inserted(ks, key) = ks
    BY <1>1 DEF Inserted
  <2>2. QED
    BY <1>1, <2>1
<1>2. CASE key \notin ToSet(ks)
  <2> DEFINE T == {i \in 1 .. Len(ks) : ks[i] < key}
             c == Cardinality(T)
             s == InsertAt(ks, c + 1, key)
  <2>1. Inserted(ks, key) = s
    BY <1>2 DEF Inserted
  <2>2. Len(ks) \in Nat /\ \A i \in 1 .. Len(ks) : ks[i] \in Nat /\ ks[i] # key
    <3>1. Len(ks) \in Nat
      BY LenProperties
    <3>2. ASSUME NEW i \in 1 .. Len(ks) PROVE ks[i] \in S /\ ks[i] \in ToSet(ks)
      BY ElementOfSeq, ToSetIs
    <3>3. QED
      BY <1>2, <3>1, <3>2
  <2>3. ASSUME NEW i \in T, NEW j \in 1 .. i PROVE j \in T
    <3>1. i \in 1 .. Len(ks) /\ j \in 1 .. Len(ks) /\ (i = j \/ j < i) /\ ks[i] < key
      BY <2>2
    <3>2. ks[j] < key
      BY <2>2, <3>1 DEF Sorted
    <3>3. QED
      BY <3>1, <3>2
  <2>4. c \in 0 .. Len(ks) /\ T = 1 .. c
    <3>1. T \in SUBSET (1 .. Len(ks))
      OBVIOUS
    <3> HIDE DEF T
    <3>2. QED
      BY <2>2, <2>3, <3>1, DownClosed
  <2>5. \A i \in 1 .. Len(ks) : IF i <= c THEN ks[i] < key ELSE key < ks[i]
    <3>1. \A i \in 1 .. Len(ks) : i <= c <=> i \in T
      BY <2>2, <2>4
    <3>2. \A i \in 1 .. Len(ks) : i \in T <=> ks[i] < key
      OBVIOUS
    <3> HIDE DEF T, c
    <3>3. QED
      BY <2>2, <3>1, <3>2
  <2> HIDE DEF c
  <2>6. /\ s \in Seq(S) /\ Len(s) = Len(ks) + 1
        /\ \A i \in 1 .. Len(ks) + 1 :
             s[i] = IF i <= c THEN ks[i] ELSE IF i = c + 1 THEN key ELSE ks[i - 1]
    <3> DEFINE a == SubSeq(ks, 1, c)
               b == SubSeq(ks, c + 1, Len(ks))
    <3>1. s = a \o <<key>> \o b
      <4>1. s = SubSeq(ks, 1, (c + 1) - 1) \o <<key>> \o SubSeq(ks, c + 1, Len(ks))
        BY DEF InsertAt
      <4>2. (c + 1) - 1 = c
        BY <2>4
      <4>3. QED
        BY <4>1, <4>2
    <3>2. a \in Seq(S) /\ Len(a) = c /\ \A i \in 1 .. c : a[i] = ks[i]
      BY <2>4, CutProperties
    <3>3. /\ b \in Seq(S) /\ Len(b) = Len(ks) - c
          /\ \A i \in 1 .. Len(ks) - c : b[i] = ks[c + i]
      <4>1. c + 1 \in 1 .. Len(ks) + 1 /\ Len(ks) \in 0 .. Len(ks) /\ c + 1 <= Len(ks) + 1
        BY <2>2, <2>4
      <4>2. /\ b \in Seq(S) /\ Len(b) = Len(ks) - (c + 1) + 1
            /\ \A i \in 1 .. Len(ks) - (c + 1) + 1 : b[i] = ks[(c + 1) + i - 1]
        BY <4>1, PartIs
      <4>3. Len(ks) - (c + 1) + 1 = Len(ks) - c
        BY <2>2, <2>4
      <4>4. ASSUME NEW i \in 1 .. Len(ks) - c PROVE b[i] = ks[c + i]
        <5>1. b[i] = ks[(c + 1) + i - 1]
          BY <4>2, <4>3
        <5>2. (c + 1) + i - 1 = c + i
          BY <2>2, <2>4
        <5>3. QED
          BY <5>1, <5>2
      <4>5. QED
        BY <4>2, <4>3, <4>4
    <3> HIDE DEF a, b, s
    <3>4. <<key>> \in Seq(S) /\ Len(<<key>>) = 1 /\ <<key>>[1] = key
      OBVIOUS
    <3>5. /\ a \o <<key>> \in Seq(S) /\ Len(a \o <<key>>) = c + 1
          /\ \A i \in 1 .. c + 1 : (a \o <<key>>)[i] = IF i <= c THEN a[i] ELSE <<key>>[i - c]
      BY <3>2, <3>4, ConcatProperties
    <3> DEFINE d == a \o <<key>>
    <3>6. d \in Seq(S) /\ Len(d) = c + 1
          /\ \A i \in 1 .. c + 1 : d[i] = IF i <= c THEN ks[i] ELSE key
      <4>1. \A i \in 1 .. c + 1 : i <= c \/ i - c = 1
        BY <2>4
      <4>2. \A i \in 1 .. c + 1 : i <= c => i \in 1 .. c
        BY <2>4
      <4>3. QED
        BY <3>2, <3>4, <3>5, <4>1, <4>2
    <3> HIDE DEF d
    <3>7. /\ d \o b \in Seq(S) /\ Len(d \o b) = (c + 1) + (Len(ks) - c)
          /\ \A i \in 1 .. (c + 1) + (Len(ks) - c) :
               (d \o b)[i] = IF i <= c + 1 THEN d[i] ELSE b[i - (c + 1)]
      <4>1. d \in Seq(S) /\ b \in Seq(S)
        BY <3>3, <3>6
      <4>2. /\ d \o b \in Seq(S) /\ Len(d \o b) = Len(d) + Len(b)
            /\ \A i \in 1 .. Len(d) + Len(b) :
                 (d \o b)[i] = IF i <= Len(d) THEN d[i] ELSE b[i - Len(d)]
        BY <4>1, ConcatProperties
      <4>3. Len(d) = c + 1 /\ Len(b) = Len(ks) - c
        BY <3>3, <3>6
      <4> HIDE DEF c
      <4>4. QED
        BY <4>2, <4>3
    <3>8. s = d \o b
      BY <3>1 DEF d
    <3>9. (c + 1) + (Len(ks) - c) = Len(ks) + 1
      BY <2>2, <2>4
    <3>10. ASSUME NEW i \in 1 .. Len(ks) + 1
           PROVE  s[i] = IF i <= c THEN ks[i] ELSE IF i = c + 1 THEN key ELSE ks[i - 1]
      <4>1. CASE i <= c + 1
        <5>1. i \in 1 .. c + 1 /\ (~ (i <= c) => i = c + 1)
          BY <2>4, <4>1
        <5>2. s[i] = d[i]
          BY <3>7, <3>8, <3>9, <4>1
        <5>3. QED
          BY <3>6, <5>1, <5>2
      <4>2. CASE ~ (i <= c + 1)
        <5>1. i - (c + 1) \in 1 .. Len(ks) - c /\ c + (i - (c + 1)) = i - 1 /\ ~ (i <= c) /\ i # c + 1
          BY <2>2, <2>4, <4>2
        <5>2. s[i] = b[i - (c + 1)]
          BY <3>7, <3>8, <3>9, <4>2
        <5>3. b[i - (c + 1)] = ks[c + (i - (c + 1))]
          BY <3>3, <5>1
        <5>4. QED
          BY <5>1, <5>2, <5>3
      <4>3. QED
        BY <4>1, <4>2
    <3>11. QED
      BY <3>7, <3>8, <3>9, <3>10
  <2> HIDE DEF s, T
  <2>7. Sorted(s)
    <3> SUFFICES ASSUME NEW i \in 1 .. Len(s), NEW j \in 1 .. Len(s), i < j PROVE s[i] < s[j]
      BY DEF Sorted
    <3>1. i \in 1 .. Len(ks) + 1 /\ j \in 1 .. Len(ks) + 1
      BY <2>6
    <3>2. CASE j <= c
      <4>1. i \in 1 .. Len(ks) /\ j \in 1 .. Len(ks) /\ i <= c
        BY <2>2, <2>4, <3>1, <3>2
      <4>2. QED
        BY <2>6, <3>1, <3>2, <4>1 DEF Sorted
    <3>3. CASE j = c + 1
      <4>1. i \in 1 .. Len(ks) /\ i <= c /\ ~ (j <= c)
        BY <2>2, <2>4, <3>1, <3>3
      <4>2. QED
        BY <2>5, <2>6, <3>1, <3>3, <4>1
    <3>4. CASE j > c + 1
      <4>1. j - 1 \in 1 .. Len(ks) /\ ~ (j - 1 <= c) /\ ~ (j <= c) /\ j # c + 1
        BY <2>2, <2>4, <3>1, <3>4
      <4>2. s[j] = ks[j - 1] /\ key < s[j]
        BY <2>5, <2>6, <3>1, <4>1
      <4>3. CASE i <= c
        <5>1. i \in 1 .. Len(ks) /\ i < j - 1
          BY <2>2, <2>4, <3>1, <3>4, <4>3
        <5>2. QED
          BY <2>6, <3>1, <4>1, <4>2, <4>3, <5>1 DEF Sorted
      <4>4. CASE i = c + 1
        <5>1. ~ (i <= c)
          BY <2>4, <4>4
        <5>2. s[i] = key
          BY <2>6, <3>1, <4>4, <5>1
        <5>3. QED
          BY <4>2, <5>2
      <4>5. CASE i > c + 1
        <5>1. i - 1 \in 1 .. Len(ks) /\ i - 1 < j - 1 /\ ~ (i <= c) /\ i # c + 1
          BY <2>2, <2>4, <3>1, <4>5
        <5>2. s[i] = ks[i - 1]
          BY <2>6, <3>1, <5>1
        <5>3. QED
          BY <4>1, <4>2, <5>1, <5>2 DEF Sorted
      <4>6. QED
        BY <2>4, <3>1, <4>3, <4>4, <4>5
    <3>5. QED
      BY <2>4, <3>1, <3>2, <3>3, <3>4
  <2>8. ToSet(s) = ToSet(ks) \cup {key}
    <3>1. ASSUME NEW e \in ToSet(s) PROVE e \in ToSet(ks) \cup {key}
      <4>1. PICK i \in 1 .. Len(ks) + 1 : s[i] = e
        BY <2>6, ToSetIs
      <4>2. CASE i <= c
        <5>1. i \in 1 .. Len(ks) /\ s[i] = ks[i]
          BY <2>2, <2>4, <2>6, <4>2
        <5>2. QED
          BY <4>1, <5>1, ToSetIs
      <4>3. CASE i = c + 1
        <5>1. s[i] = key
          BY <2>4, <2>6, <4>3
        <5>2. QED
          BY <4>1, <5>1
      <4>4. CASE i > c + 1
        <5>1. i - 1 \in 1 .. Len(ks) /\ s[i] = ks[i - 1]
          BY <2>2, <2>4, <2>6, <4>4
        <5>2. QED
          BY <4>1, <5>1, ToSetIs
      <4>5. QED
        BY <2>4, <4>2, <4>3, <4>4
    <3>2. ASSUME NEW e \in ToSet(ks) PROVE e \in ToSet(s)
      <4>1. PICK i \in 1 .. Len(ks) : ks[i] = e
        BY ToSetIs
      <4>2. CASE i <= c
        <5>1. i \in 1 .. Len(s) /\ s[i] = e
          BY <2>2, <2>6, <4>1, <4>2
        <5>2. QED
          BY <2>6, <5>1, ToSetIs
      <4>3. CASE ~ (i <= c)
        <5>1. /\ i + 1 \in 1 .. Len(ks) + 1 /\ ~ (i + 1 <= c) /\ i + 1 # c + 1 /\ i + 1 - 1 = i
          BY <2>2, <2>4, <4>3
        <5>2. s[i + 1] = e
          BY <2>6, <4>1, <5>1
        <5>3. QED
          BY <2>6, <5>1, <5>2, ToSetIs
      <4>4. QED
        BY <4>2, <4>3
    <3>3. key \in ToSet(s)
      <4>1. c + 1 \in 1 .. Len(ks) + 1 /\ ~ (c + 1 <= c)
        BY <2>2, <2>4
      <4>2. s[c + 1] = key
        BY <2>6, <4>1
      <4>3. QED
        BY <2>6, <4>1, <4>2, ToSetIs
    <3>4. QED
      BY <3>1, <3>2, <3>3
  <2>9. QED
    BY <2>1, <2>6, <2>7, <2>8
<1>3. QED
  BY <1>1, <1>2

-----------------------------------------------------------------------------
(* Logs of checkpoints.                                                    *)

(* A root stands for the one set of keys that it is the root of.           *)
LEMMA KeysOfTree ==
  ASSUME NEW K \in SUBSET Key
  PROVE  KeysOf(Tree(K)[DEPTH][0]) = K
<1>1. Tree(KeysOf(Tree(K)[DEPTH][0]))[DEPTH][0] = Tree(K)[DEPTH][0]
      /\ KeysOf(Tree(K)[DEPTH][0]) \in SUBSET Key
  BY DEF KeysOf
<1>2. QED
  BY <1>1, RootsDiffer

(* The log of a service that just started.                                 *)
LEMMA EmptyGrowing == Growing(<< >>) /\ LastKeys(<< >>) = {}
<1>1. << >> \in Seq(ToSet(<< >>)) /\ Len(<< >>) = 0
  BY EmptySeq
<1>2. QED
  BY <1>1 DEF Growing, LastKeys

(* A log and one more entry.                                               *)
LEMMA Appended ==
  ASSUME NEW s, s \in Seq(ToSet(s)), NEW e
  PROVE  /\ Append(s, e) \in Seq(ToSet(Append(s, e)))
         /\ Append(s, e) # << >>
         /\ Len(Append(s, e)) = Len(s) + 1
         /\ \A i \in 1 .. Len(s) : Append(s, e)[i] = s[i]
         /\ Append(s, e)[Len(s) + 1] = e
         /\ \A n \in 0 .. Len(s) : SubSeq(Append(s, e), 1, n) = SubSeq(s, 1, n)
<1> DEFINE S == ToSet(s) \cup {e}
           t == Append(s, e)
<1>1. s \in Seq(S) /\ e \in S
  <2>1. ToSet(s) \subseteq S
    OBVIOUS
  <2> HIDE DEF S
  <2>2. s \in Seq(S)
    BY <2>1, SeqMonotonic
  <2>3. QED
    BY <2>2 DEF S
<1> HIDE DEF S
<1>2. /\ t \in Seq(S) /\ Len(t) = Len(s) + 1
      /\ \A i \in 1 .. Len(s) : t[i] = s[i]
      /\ t[Len(s) + 1] = e
  BY <1>1, AppendProperties
<1>3. \A n \in 0 .. Len(s) : SubSeq(t, 1, n) = SubSeq(s, 1, n)
  BY <1>1, CutOfAppend
<1> HIDE DEF t
<1>4. Len(s) \in Nat
  BY LenProperties
<1>5. t # << >>
  BY <1>2, <1>4, EmptySeq
<1>6. S \subseteq ToSet(t)
  <2>1. \A i \in 1 .. Len(s) : s[i] \in ToSet(t)
    <3>1. ASSUME NEW i \in 1 .. Len(s) PROVE s[i] \in ToSet(t)
      <4>1. i \in 1 .. Len(t) /\ t[i] = s[i]
        BY <1>2, <1>4
      <4>2. QED
        BY <1>2, <4>1, ToSetIs
    <3>2. QED
      BY <3>1
  <2>2. e \in ToSet(t)
    <3>1. Len(s) + 1 \in 1 .. Len(t)
      BY <1>2, <1>4
    <3>2. QED
      BY <1>2, <3>1, ToSetIs
  <2>3. \A x \in ToSet(s) : \E i \in 1 .. Len(s) : s[i] = x
    BY ToSetIs
  <2>4. QED
    BY <2>1, <2>2, <2>3 DEF S
<1>7. t \in Seq(ToSet(t))
  BY <1>2, <1>6, ToSetIs, SeqMonotonic
<1>8. QED
  BY <1>2, <1>3, <1>5, <1>7 DEF t

(* PublishCheckpoint keeps a growing log growing.                          *)
LEMMA GrowingAppend ==
  ASSUME NEW l, Growing(l), NEW K \in SUBSET Revocable, LastKeys(l) \subseteq K,
         NEW c, c.map_root = Tree(K)[DEPTH][0], c.epoch = Len(l)
  PROVE  /\ Growing(Append(l, c))
         /\ LastKeys(Append(l, c)) = K
<1> DEFINE t == Append(l, c)
<1>1. l \in Seq(ToSet(l)) /\ Len(l) \in Nat
  BY LenProperties DEF Growing
<1>2. /\ t \in Seq(ToSet(t)) /\ t # << >> /\ Len(t) = Len(l) + 1
      /\ \A i \in 1 .. Len(l) : t[i] = l[i]
      /\ t[Len(l) + 1] = c
  BY <1>1, Appended
<1> HIDE DEF t
<1>3. K \in SUBSET Key /\ KeysOf(c.map_root) = K
  BY RevocableAssumption, KeysOfTree
<1>4. \A i \in 1 .. Len(t) : \E set \in SUBSET Revocable : t[i].map_root = Tree(set)[DEPTH][0]
  <2>1. ASSUME NEW i \in 1 .. Len(t)
        PROVE  \E set \in SUBSET Revocable : t[i].map_root = Tree(set)[DEPTH][0]
    <3>1. CASE i \in 1 .. Len(l)
      BY <1>2, <3>1 DEF Growing
    <3>2. CASE i \notin 1 .. Len(l)
      <4>1. i = Len(l) + 1
        BY <1>1, <1>2, <3>2
      <4>2. QED
        BY <1>2, <4>1
    <3>3. QED
      BY <3>1, <3>2
  <2>2. QED
    BY <2>1
<1>5. \A i \in 1 .. Len(l) : KeysOf(l[i].map_root) \subseteq K
  <2>1. ASSUME NEW i \in 1 .. Len(l) PROVE KeysOf(l[i].map_root) \subseteq K
    <3>1. Len(l) \in 1 .. Len(l) /\ l # << >>
      BY <1>1, EmptySeq
    <3>2. KeysOf(l[Len(l)].map_root) \subseteq K
      BY <3>1 DEF LastKeys
    <3>3. i = Len(l) \/ i < Len(l)
      BY <1>1
    <3>4. QED
      BY <3>1, <3>2, <3>3 DEF Growing
  <2>2. QED
    BY <2>1
<1>6. ASSUME NEW i \in 1 .. Len(t), NEW j \in 1 .. Len(t), i < j
      PROVE  KeysOf(t[i].map_root) \subseteq KeysOf(t[j].map_root)
  <2>1. i \in 1 .. Len(l) /\ t[i] = l[i]
    BY <1>1, <1>2, <1>6
  <2>2. CASE j \in 1 .. Len(l)
    <3>1. t[j] = l[j]
      BY <1>2, <2>2
    <3>2. KeysOf(l[i].map_root) \subseteq KeysOf(l[j].map_root)
      BY <1>6, <2>1, <2>2 DEF Growing
    <3>3. QED
      BY <2>1, <3>1, <3>2
  <2>3. CASE j \notin 1 .. Len(l)
    <3>1. j = Len(l) + 1
      BY <1>1, <1>2, <2>3
    <3>2. t[j] = c
      BY <1>2, <3>1
    <3>3. QED
      BY <1>3, <1>5, <2>1, <3>2
  <2>4. QED
    BY <2>2, <2>3
<1>7. Growing(t)
  <2>1. ASSUME NEW i \in 1 .. Len(t) PROVE t[i].epoch = i - 1
    <3>1. CASE i \in 1 .. Len(l)
      BY <1>2, <3>1 DEF Growing
    <3>2. CASE i \notin 1 .. Len(l)
      <4>1. i = Len(l) + 1 /\ i - 1 = Len(l)
        BY <1>1, <1>2, <3>2
      <4>2. QED
        BY <1>2, <4>1
    <3>3. QED
      BY <3>1, <3>2
  <2>2. QED
    BY <1>2, <1>4, <1>6, <2>1 DEF Growing
<1>8. LastKeys(t) = K
  BY <1>2, <1>3 DEF LastKeys
<1>9. QED
  BY <1>7, <1>8 DEF t

(* A head that is consistent with the last one has all its checkpoints     *)
(* (v2_consistency, verify_consistency).                                   *)
LEMMA ConsistentExtends ==
  ASSUME NEW proof, Consistent(proof), Growing(anchor), Growing(proof.sth),
         \A head \in signed : Growing(head)
  PROVE  /\ Len(anchor) <= Len(proof.sth)
         /\ \A i \in 1 .. Len(anchor) : anchor[i] = proof.sth[i]
<1> DEFINE head == proof.sth
           m == Len(anchor)
           n == Len(head)
<1>1. PICK q \in LogProof(m) : VerifyConsistency(q, anchor, head, m, n)
  BY DEF Consistent
<1>2. PICK h \in signed : m <= Len(h) /\ q.old = SubSeq(h, 1, m) /\ q.new = h
  BY <1>1 DEF LogProof
<1>3. m <= n /\ m \in Nat /\ n \in Nat
  <2>1. m <= n
    BY <1>1 DEF VerifyConsistency
  <2>2. QED
    BY <2>1, LenProperties DEF Growing
<1> HIDE DEF head, m, n
<1>4. CASE m = 0
  BY <1>3, <1>4 DEF head, m, n
<1>5. CASE m = n
  <2>1. anchor = head
    BY <1>1, <1>5 DEF VerifyConsistency
  <2>2. QED
    BY <1>3, <2>1 DEF head, m, n
<1>6. CASE 0 < m /\ m < n
  <2>1. anchor = SubSeq(h, 1, m) /\ head = h
    BY <1>1, <1>2, <1>6 DEF VerifyConsistency
  <2>2. h \in Seq(ToSet(h)) /\ m \in 0 .. Len(h)
    BY <1>2, <1>3, LenProperties DEF Growing
  <2>3. \A i \in 1 .. m : SubSeq(h, 1, m)[i] = h[i]
    BY <2>2, CutProperties
  <2>4. QED
    BY <1>3, <2>1, <2>3 DEF head, m, n
<1>7. QED
  BY <1>3, <1>4, <1>5, <1>6

-----------------------------------------------------------------------------
(* The invariant.                                                          *)

(* What the keys are, and the root and the proofs that the service makes   *)
(* of them.                                                                *)
LEMMA KeysAre ==
  ASSUME TypeOK
  PROVE  /\ keys \in Seq(Revocable) /\ keys \in Seq(Key) /\ Sorted(keys)
         /\ ToSet(keys) \in SUBSET Revocable /\ ToSet(keys) \in SUBSET Key
         /\ MapRoot(keys) = Tree(ToSet(keys))[DEPTH][0]
<1>1. keys \in Seq(Revocable) /\ Sorted(keys)
  BY DEF TypeOK
<1>2. keys \in Seq(Key)
  BY <1>1, RevocableAssumption, SeqMonotonic
<1>3. QED
  BY <1>1, <1>2, ToSetIs, MapRootIs

(* The invariant holds of a service and a client that just started.        *)
LEMMA LogInvInit == Init => LogInv
<1> SUFFICES ASSUME Init PROVE LogInv
  OBVIOUS
<1>1. keys = << >> /\ log = << >> /\ epoch = 0 /\ latest = {}
      /\ signed = {} /\ proofs = {} /\ anchor = << >> /\ known = {} /\ answer = {}
  BY DEF Init
<1>2. << >> \in Seq(Revocable) /\ Len(<< >>) = 0
  BY EmptySeq
<1>3. TypeOK
  BY <1>1, <1>2 DEF TypeOK, Sorted
<1>4. LogGrows /\ KnownLogged
  BY <1>1, EmptyGrowing DEF LogGrows, KnownLogged
<1>5. ProofsMade /\ LiveOnlyBeforeRevoked
  BY <1>1 DEF ProofsMade, LiveOnlyBeforeRevoked
<1>6. QED
  BY <1>3, <1>4, <1>5 DEF LogInv

(* A revocation is for ever, until a restart: the keys stay above those of *)
(* the last checkpoint (v2_revoke).                                        *)
LEMMA RevokeKeeps ==
  ASSUME LogInv, NEW key \in Revocable, Revoke(key)
  PROVE  LogInv'
<1>1. TypeOK /\ LogGrows /\ ProofsMade /\ KnownLogged /\ LiveOnlyBeforeRevoked
  BY DEF LogInv
<1>2. keys' = Inserted(keys, key) /\ UNCHANGED <<log, epoch, latest, signed, proofs, anchor, known, answer>>
  BY DEF Revoke, client
<1>3. Revocable \in SUBSET Nat
  BY RevocableAssumption, PlaceTop
<1>4. keys' \in Seq(Revocable) /\ Sorted(keys') /\ ToSet(keys') = ToSet(keys) \cup {key}
  BY <1>1, <1>2, <1>3, KeysAre, InsertedIs
<1>5. TypeOK'
  BY <1>1, <1>2, <1>4 DEF TypeOK
<1>6. LogGrows'
  BY <1>1, <1>2, <1>4 DEF LogGrows
<1>7. ProofsMade' /\ KnownLogged' /\ LiveOnlyBeforeRevoked'
  BY <1>1, <1>2 DEF ProofsMade, KnownLogged, LiveOnlyBeforeRevoked
<1>8. QED
  BY <1>5, <1>6, <1>7 DEF LogInv

(* A checkpoint has the root of the map, and the next epoch                *)
(* (publish_checkpoint).                                                   *)
LEMMA PublishKeeps ==
  ASSUME LogInv, PublishCheckpoint
  PROVE  LogInv'
<1> DEFINE c == Checkpoint(MapRoot(keys))
           K == ToSet(keys)
<1>1. TypeOK /\ LogGrows /\ ProofsMade /\ KnownLogged /\ LiveOnlyBeforeRevoked
  BY DEF LogInv
<1>2. log' = Append(log, c) /\ epoch' = epoch + 1
      /\ latest' = {[checkpoint |-> c, leaf_index |-> Len(log) + 1]}
      /\ signed' = signed \cup {log'} /\ UNCHANGED <<keys, proofs, anchor, known, answer>>
  BY DEF PublishCheckpoint, client
<1>3. c.epoch = epoch /\ epoch = Len(log) /\ c.map_root = MapRoot(keys) /\ c.prev_log_root = log
  BY <1>1 DEF Checkpoint, TypeOK
<1>4. K \in SUBSET Revocable /\ c.map_root = Tree(K)[DEPTH][0]
  BY <1>1, <1>3, KeysAre
<1> HIDE DEF c
<1>5. Growing(log) /\ LastKeys(log) \subseteq K /\ \A head \in signed : Growing(head)
  BY <1>1 DEF LogGrows
<1> HIDE DEF K
<1>6. Growing(log') /\ LastKeys(log') = K
  BY <1>2, <1>3, <1>4, <1>5, GrowingAppend
<1>7. log \in Seq(ToSet(log)) /\ Len(log) \in Nat
  BY <1>5, LenProperties DEF Growing
<1>8. /\ log' # << >> /\ Len(log') = Len(log) + 1
      /\ \A i \in 1 .. Len(log) : log'[i] = log[i]
      /\ log'[Len(log) + 1] = c
      /\ \A n \in 0 .. Len(log) : SubSeq(log', 1, n) = SubSeq(log, 1, n)
  BY <1>2, <1>7, Appended
<1>9. TypeOK'
  <2>1. keys' \in Seq(Revocable) /\ Sorted(keys') /\ known' \subseteq [key : Revocable, epoch : Nat]
    BY <1>1, <1>2 DEF TypeOK
  <2>2. epoch' = Len(log')
    BY <1>1, <1>2, <1>8 DEF TypeOK
  <2>3. ASSUME NEW i \in 1 .. Len(log')
        PROVE  log'[i].epoch = i - 1 /\ log'[i].prev_log_root = SubSeq(log', 1, i - 1)
    <3>1. CASE i \in 1 .. Len(log)
      <4>1. log[i].epoch = i - 1 /\ log[i].prev_log_root = SubSeq(log, 1, i - 1)
        BY <1>1, <3>1 DEF TypeOK
      <4>2. i - 1 \in 0 .. Len(log)
        BY <1>7, <3>1
      <4>3. SubSeq(log', 1, i - 1) = SubSeq(log, 1, i - 1) /\ log'[i] = log[i]
        BY <1>8, <3>1, <4>2
      <4>4. QED
        BY <4>1, <4>3
    <3>2. CASE i \notin 1 .. Len(log)
      <4>1. i = Len(log) + 1 /\ i - 1 = Len(log) /\ Len(log) \in 0 .. Len(log)
        BY <1>7, <1>8, <3>2
      <4>2. SubSeq(log', 1, Len(log)) = log
        BY <1>7, <1>8, <4>1, SubSeqFull
      <4>3. log'[i] = c
        BY <1>8, <4>1
      <4>4. epoch = i - 1
        BY <1>1, <4>1 DEF TypeOK
      <4>5. QED
        BY <1>3, <4>1, <4>2, <4>3, <4>4
    <3>3. QED
      BY <3>1, <3>2
  <2>4. \A committed \in latest' :
          committed.leaf_index = Len(log') /\ log'[Len(log')] = committed.checkpoint
    BY <1>2, <1>8
  <2>5. latest' # {} /\ log' # << >>
    BY <1>2, <1>8
  <2>6. QED
    BY <2>1, <2>2, <2>3, <2>4, <2>5 DEF TypeOK
<1>10. LogGrows'
  <2>1. ASSUME NEW head \in signed' PROVE Growing(head)
    BY <1>2, <1>5, <1>6, <2>1
  <2>2. QED
    BY <1>2, <1>6, <2>1 DEF LogGrows, K
<1>11. ProofsMade' /\ KnownLogged' /\ LiveOnlyBeforeRevoked'
  BY <1>1, <1>2 DEF ProofsMade, KnownLogged, LiveOnlyBeforeRevoked
<1>12. QED
  BY <1>9, <1>10, <1>11 DEF LogInv

(* A proof is served only if the last checkpoint has the root of the map,  *)
(* and is then right (v2_status, prove).                                   *)
LEMMA StatusKeeps ==
  ASSUME LogInv, NEW key \in Queried, Status(key)
  PROVE  LogInv'
<1> DEFINE K == ToSet(keys)
<1>1. TypeOK /\ LogGrows /\ ProofsMade /\ KnownLogged /\ LiveOnlyBeforeRevoked
  BY DEF LogInv
<1>2. UNCHANGED <<keys, log, epoch, latest, signed, anchor, known, answer>>
  BY DEF Status, service, client
<1>3. PICK proof \in Prove(key) : proofs' = proofs \cup {[key |-> key, proof |-> proof, keys |-> K]}
  BY DEF Status
<1>4. PICK committed \in latest :
        /\ committed.checkpoint.map_root = MapRoot(keys)
        /\ proof = [checkpoint |-> committed.checkpoint, map_proof |-> ProveKey(keys, key),
                    inclusion |-> [leaf_index |-> committed.leaf_index, tree |-> log], sth |-> log]
  BY <1>3 DEF Prove
<1>5. /\ log # << >> /\ committed.leaf_index = Len(log) /\ committed.checkpoint = log[Len(log)]
      /\ Growing(log) /\ log \in Seq(ToSet(log)) /\ log \in signed
  BY <1>1 DEF TypeOK, LogGrows, Growing
<1>6. key \in Key /\ K \in SUBSET Revocable /\ MapRoot(keys) = Tree(K)[DEPTH][0]
  BY <1>1, KeysAre, RevocableAssumption
<1>7. map_root_is_logged(proof)
  <2>1. Len(log) \in 1 .. Len(log)
    BY <1>5, EmptySeq, LenProperties
  <2>2. QED
    BY <1>4, <1>5, <2>1 DEF map_root_is_logged, VerifyLogInclusion
<1>8. /\ key \in K => verify_inclusion(MapRoot(keys), key, ProveKey(keys, key))
      /\ key \notin K => verify_non_inclusion(MapRoot(keys), key, ProveKey(keys, key))
  BY <1>1, <1>6, KeysAre, ProofsAreComplete
<1> HIDE DEF K
<1>9. /\ key \in K => verify_revoked(proof, key)
      /\ key \notin K => verify_not_revoked(proof, key)
  BY <1>4, <1>7, <1>8 DEF verify_revoked, verify_not_revoked
<1>10. ProofsMade'
  <2>1. proof.sth = log /\ proof.checkpoint = committed.checkpoint
    BY <1>4
  <2>2. ASSUME NEW p \in proofs'
        PROVE  /\ p.key \in Key /\ p.keys \subseteq Revocable
               /\ p.proof.checkpoint.map_root = Tree(p.keys)[DEPTH][0]
               /\ map_root_is_logged(p.proof)
               /\ p.proof.sth \in signed'
               /\ p.key \in p.keys => verify_revoked(p.proof, p.key)
               /\ p.key \notin p.keys => verify_not_revoked(p.proof, p.key)
    <3>1. CASE p \in proofs
      BY <1>1, <1>2, <3>1 DEF ProofsMade
    <3>2. CASE p \notin proofs
      <4>1. p.key = key /\ p.proof = proof /\ p.keys = K
        BY <1>3, <3>2
      <4>2. QED
        BY <1>2, <1>4, <1>5, <1>6, <1>7, <1>9, <2>1, <4>1
    <3>3. QED
      BY <3>1, <3>2
  <2>3. QED
    BY <2>2 DEF ProofsMade
<1>11. TypeOK' /\ LogGrows' /\ KnownLogged' /\ LiveOnlyBeforeRevoked'
  BY <1>1, <1>2 DEF TypeOK, LogGrows, KnownLogged, LiveOnlyBeforeRevoked
<1>12. QED
  BY <1>10, <1>11 DEF LogInv

(* A restart forgets the log, but nothing that was served (AppState::new). *)
LEMMA RestartKeeps ==
  ASSUME LogInv, Restart
  PROVE  LogInv'
<1>1. TypeOK /\ LogGrows /\ ProofsMade /\ KnownLogged /\ LiveOnlyBeforeRevoked
  BY DEF LogInv
<1>2. keys' = << >> /\ log' = << >> /\ epoch' = 0 /\ latest' = {}
      /\ UNCHANGED <<signed, proofs, anchor, known, answer>>
  BY DEF Restart, client
<1>3. << >> \in Seq(Revocable) /\ Len(<< >>) = 0
  BY EmptySeq
<1>4. TypeOK'
  BY <1>1, <1>2, <1>3 DEF TypeOK, Sorted
<1>5. LogGrows'
  BY <1>1, <1>2, EmptyGrowing DEF LogGrows
<1>6. ProofsMade' /\ KnownLogged' /\ LiveOnlyBeforeRevoked'
  BY <1>1, <1>2 DEF ProofsMade, KnownLogged, LiveOnlyBeforeRevoked
<1>7. QED
  BY <1>4, <1>5, <1>6 DEF LogInv

(* A client that takes a proof has a head with all checkpoints of the one  *)
(* before; a checkpoint of the epoch in which a key was seen revoked, or of *)
(* a later one, has it (map_root_is_logged).                               *)
LEMMA TakeKeeps ==
  ASSUME LogInv, NEW key \in Queried, NEW p \in proofs, NEW head \in signed, NEW leaf \in DOMAIN head,
         Take(key, Presented(p.proof, head, leaf))
  PROVE  LogInv'
<1> DEFINE proof == Presented(p.proof, head, leaf)
           c == p.proof.checkpoint
<1>1. TypeOK /\ LogGrows /\ ProofsMade /\ KnownLogged /\ LiveOnlyBeforeRevoked
  BY DEF LogInv
<1>2. UNCHANGED <<keys, log, epoch, latest, signed, proofs>> /\ anchor' = proof.sth /\ Consistent(proof)
  BY DEF Take, service
<1>3. /\ proof.sth = head /\ proof.checkpoint = c /\ proof.map_proof = p.proof.map_proof
      /\ proof.inclusion.leaf_index = leaf /\ proof.inclusion.tree = head
  BY DEF Presented
<1> HIDE DEF proof
<1>4. Take(key, proof)
  BY DEF proof
<1>5. Growing(head) /\ Growing(anchor) /\ \A h \in signed : Growing(h)
  BY <1>1 DEF LogGrows, KnownLogged
<1>6. /\ Len(anchor) <= Len(head) /\ Len(anchor) \in Nat /\ Len(head) \in Nat
      /\ \A i \in 1 .. Len(anchor) : anchor[i] = head[i]
  <2>1. Growing(proof.sth)
    BY <1>3, <1>5
  <2>2. Len(anchor) <= Len(proof.sth) /\ \A i \in 1 .. Len(anchor) : anchor[i] = proof.sth[i]
    BY <1>2, <1>5, <2>1, ConsistentExtends
  <2>3. QED
    BY <1>3, <1>5, <2>2, LenProperties DEF Growing
<1>7. \A k \in known :
        /\ k.epoch \in Nat /\ k.epoch + 1 \in 1 .. Len(head)
        /\ k.key \in KeysOf(head[k.epoch + 1].map_root)
  <2>1. ASSUME NEW k \in known
        PROVE  /\ k.epoch \in Nat /\ k.epoch + 1 \in 1 .. Len(head)
               /\ k.key \in KeysOf(head[k.epoch + 1].map_root)
    <3>1. k.epoch \in Nat
      BY <1>1 DEF TypeOK
    <3>2. k.epoch + 1 \in 1 .. Len(anchor) /\ k.key \in KeysOf(anchor[k.epoch + 1].map_root)
      BY <1>1 DEF KnownLogged
    <3>3. k.epoch + 1 \in 1 .. Len(head)
      BY <1>6, <3>1, <3>2
    <3>4. QED
      BY <1>6, <3>1, <3>2, <3>3
  <2>2. QED
    BY <2>1
<1>8. ASSUME map_root_is_logged(proof)
      PROVE  leaf \in 1 .. Len(head) /\ head[leaf] = c /\ c.epoch = leaf - 1
  BY <1>3, <1>5, <1>8 DEF map_root_is_logged, VerifyLogInclusion, Growing
<1>9. key \in Key /\ p.keys \in SUBSET Key /\ p.keys \in SUBSET Revocable
      /\ c.map_root = Tree(p.keys)[DEPTH][0] /\ KeysOf(c.map_root) = p.keys
  BY <1>1, RevocableAssumption, KeysOfTree DEF ProofsMade
<1> HIDE DEF c
<1>10. ProofsMade' /\ LogGrows'
  BY <1>1, <1>2 DEF ProofsMade, LogGrows
<1>11. Growing(anchor')
  BY <1>2, <1>3, <1>5
<1>12. CASE /\ verify_not_revoked(proof, key)
            /\ answer' = {[key |-> key, live |-> TRUE, epoch |-> proof.checkpoint.epoch]}
            /\ UNCHANGED known
  <2>1. leaf \in 1 .. Len(head) /\ head[leaf] = c /\ c.epoch = leaf - 1
    BY <1>8, <1>12 DEF verify_not_revoked
  <2>2. key \notin p.keys
    BY <1>3, <1>9, <1>12, ProofsAreSound DEF verify_not_revoked
  <2>3. ASSUME NEW k \in known, k.key = key PROVE c.epoch < k.epoch
    <3>1. SUFFICES ASSUME ~ (c.epoch < k.epoch) PROVE FALSE
      OBVIOUS
    <3>2. k.epoch + 1 = leaf \/ k.epoch + 1 < leaf
      BY <1>6, <1>7, <2>1, <3>1
    <3>3. KeysOf(head[k.epoch + 1].map_root) \subseteq KeysOf(head[leaf].map_root)
      BY <1>5, <1>7, <2>1, <3>2 DEF Growing
    <3>4. QED
      BY <1>7, <1>9, <2>1, <2>2, <2>3, <3>3
  <2>4. LiveOnlyBeforeRevoked'
    BY <1>3, <1>12, <2>3 DEF LiveOnlyBeforeRevoked
  <2>5. KnownLogged'
    BY <1>2, <1>3, <1>7, <1>11, <1>12 DEF KnownLogged
  <2>6. TypeOK'
    BY <1>1, <1>2, <1>12 DEF TypeOK
  <2>7. QED
    BY <1>10, <2>4, <2>5, <2>6 DEF LogInv
<1>13. CASE /\ verify_revoked(proof, key)
            /\ answer' = {[key |-> key, live |-> FALSE, epoch |-> proof.checkpoint.epoch]}
            /\ known' = known \cup {[key |-> key, epoch |-> proof.checkpoint.epoch]}
  <2>1. leaf \in 1 .. Len(head) /\ head[leaf] = c /\ c.epoch = leaf - 1
    BY <1>8, <1>13 DEF verify_revoked
  <2>2. key \in p.keys
    BY <1>3, <1>9, <1>13, ProofsAreSound DEF verify_revoked
  <2>3. c.epoch \in Nat /\ c.epoch + 1 = leaf
    BY <1>6, <2>1
  <2>4. LiveOnlyBeforeRevoked'
    BY <1>13 DEF LiveOnlyBeforeRevoked
  <2>5. ASSUME NEW k \in known'
        PROVE  /\ k \in [key : Revocable, epoch : Nat]
               /\ k.epoch + 1 \in 1 .. Len(head)
               /\ k.key \in KeysOf(head[k.epoch + 1].map_root)
    <3>1. CASE k \in known
      BY <1>1, <1>7, <3>1 DEF TypeOK
    <3>2. CASE k \notin known
      <4>1. k = [key |-> key, epoch |-> c.epoch]
        BY <1>3, <1>13, <3>2
      <4>2. key \in Revocable
        BY <1>9, <2>2
      <4>3. QED
        BY <1>9, <2>1, <2>2, <2>3, <4>1, <4>2
    <3>3. QED
      BY <3>1, <3>2
  <2>6. KnownLogged'
    BY <1>2, <1>3, <1>11, <2>5 DEF KnownLogged
  <2>7. TypeOK'
    BY <1>1, <1>2, <2>5 DEF TypeOK
  <2>8. QED
    BY <1>10, <2>4, <2>6, <2>7 DEF LogInv
<1>14. QED
  BY <1>4, <1>12, <1>13 DEF Take

(* Every step keeps the invariant.                                         *)
LEMMA LogInvNext == LogInv /\ [Next]_vars => LogInv'
<1> SUFFICES ASSUME LogInv, Next \/ UNCHANGED vars PROVE LogInv'
  OBVIOUS
<1>1. ASSUME NEW key \in Revocable, Revoke(key) PROVE LogInv'
  BY <1>1, RevokeKeeps
<1>2. CASE PublishCheckpoint
  BY <1>2, PublishKeeps
<1>3. ASSUME NEW key \in Queried, Status(key) PROVE LogInv'
  BY <1>3, StatusKeeps
<1>4. CASE Restart
  BY <1>4, RestartKeeps
<1>5. ASSUME NEW key \in Queried, NEW p \in proofs, NEW head \in signed, NEW leaf \in DOMAIN head,
             Take(key, Presented(p.proof, head, leaf))
      PROVE  LogInv'
  BY <1>5, TakeKeeps
<1>6. CASE UNCHANGED vars
  <2>1. UNCHANGED <<keys, log, epoch, latest, signed, proofs, anchor, known, answer>>
    BY <1>6 DEF vars, service, client
  <2>2. QED
    BY <2>1 DEF LogInv, TypeOK, LogGrows, ProofsMade, KnownLogged, LiveOnlyBeforeRevoked
<1>7. QED
  BY <1>1, <1>2, <1>3, <1>4, <1>5, <1>6 DEF Next

(* The keys stay sorted, and the epoch, the log and the latest checkpoint  *)
(* agree (LogBackedRevocation).                                            *)
THEOREM LogTypeCorrect == Spec => []TypeOK
<1>1. LogInv => TypeOK
  BY DEF LogInv
<1>2. QED
  BY LogInvInit, LogInvNext, <1>1, PTL DEF Spec

(* The map's root is the one of the tree over all keys, for every depth    *)
(* (RevocationMap::root).                                                  *)
THEOREM MapIsWholeTree == Spec => []RootIsWholeTree
<1>1. LogInv => RootIsWholeTree
  BY KeysAre DEF LogInv, RootIsWholeTree
<1>2. QED
  BY LogInvInit, LogInvNext, <1>1, PTL DEF Spec

(* No proof shows against the map's root that a revoked key is absent or a *)
(* live one present (verify_inclusion, verify_non_inclusion).              *)
THEOREM MadeUpProofsFail == Spec => []MapProofsSound
<1>1. LogInv => MapProofsSound
  <2> SUFFICES ASSUME LogInv, NEW proof, NEW key \in Key
               PROVE  /\ verify_inclusion(MapRoot(keys), key, proof) => key \in ToSet(keys)
                      /\ verify_non_inclusion(MapRoot(keys), key, proof) => key \notin ToSet(keys)
    BY DEF MapProofsSound
  <2>1. ToSet(keys) \in SUBSET Key /\ MapRoot(keys) = Tree(ToSet(keys))[DEPTH][0]
    BY KeysAre DEF LogInv
  <2>2. QED
    BY <2>1, ProofsAreSound
<1>2. QED
  BY LogInvInit, LogInvNext, <1>1, PTL DEF Spec

(* A proof that was served says exactly what the map said then, also when  *)
(* it is used late or for another key (v2_status, LogBackedProof).         *)
THEOREM ServedProofsSayWhatWas == Spec => []ServedProofsAreExact
<1>1. LogInv => ServedProofsAreExact
  <2> SUFFICES ASSUME LogInv, NEW p \in proofs
               PROVE  /\ verify_revoked(p.proof, p.key) <=> p.key \in p.keys
                      /\ verify_not_revoked(p.proof, p.key) <=> p.key \notin p.keys
                      /\ \A other \in Key, head \in signed : \A leaf \in DOMAIN head :
                           LET proof == Presented(p.proof, head, leaf)
                           IN  /\ verify_revoked(proof, other) => other \in p.keys
                               /\ verify_not_revoked(proof, other) => other \notin p.keys
    BY DEF ServedProofsAreExact
  <2>1. /\ p.key \in Key /\ p.keys \in SUBSET Key
        /\ p.proof.checkpoint.map_root = Tree(p.keys)[DEPTH][0]
        /\ p.key \in p.keys => verify_revoked(p.proof, p.key)
        /\ p.key \notin p.keys => verify_not_revoked(p.proof, p.key)
    BY RevocableAssumption DEF LogInv, ProofsMade
  <2>2. ASSUME NEW other \in Key, NEW proof, proof.checkpoint = p.proof.checkpoint
        PROVE  /\ verify_revoked(proof, other) => other \in p.keys
               /\ verify_not_revoked(proof, other) => other \notin p.keys
    BY <2>1, <2>2, ProofsAreSound DEF verify_revoked, verify_not_revoked
  <2>3. p.key \in p.keys => ~ verify_not_revoked(p.proof, p.key)
    BY <2>1, <2>2
  <2>4. p.key \notin p.keys => ~ verify_revoked(p.proof, p.key)
    BY <2>1, <2>2
  <2>5. ASSUME NEW other \in Key, NEW head \in signed, NEW leaf \in DOMAIN head
        PROVE  LET proof == Presented(p.proof, head, leaf)
               IN  /\ verify_revoked(proof, other) => other \in p.keys
                   /\ verify_not_revoked(proof, other) => other \notin p.keys
    <3>1. Presented(p.proof, head, leaf).checkpoint = p.proof.checkpoint
      BY DEF Presented
    <3>2. QED
      BY <2>2, <3>1
  <2>6. QED
    BY <2>1, <2>3, <2>4, <2>5
<1>2. QED
  BY LogInvInit, LogInvNext, <1>1, PTL DEF Spec

(* Whatever anybody makes up beside a served head, it shows a key live     *)
(* only if the head's log has a map without the key.                       *)
ShownLiveByTheLog ==
  \A q \in proofs, key \in Key : \A checkpoint, map_proof, inclusion :
    verify_not_revoked([checkpoint |-> checkpoint, map_proof |-> map_proof,
                        inclusion |-> inclusion, sth |-> q.proof.sth], key) =>
      \E i \in 1 .. Len(q.proof.sth) : key \notin KeysOf(q.proof.sth[i].map_root)

(* A key is shown live only by a map that the log recorded                 *)
(* (MapCheckpoint, map_root_is_logged).                                    *)
THEOREM LiveOnlyByALoggedRoot == Spec => [](OnlyLoggedRoots /\ ShownLiveByTheLog)
<1>1. OnlyLoggedRoots
  <2> SUFFICES ASSUME NEW p \in proofs, NEW q \in proofs, NEW checkpoint \in MadeUpCheckpoints,
                      NEW key \in Key,
                      verify_not_revoked([checkpoint |-> checkpoint, map_proof |-> ProveKey(<< >>, key),
                                          inclusion |-> p.proof.inclusion, sth |-> q.proof.sth], key)
               PROVE  \E i \in 1 .. Len(q.proof.sth) : q.proof.sth[i].map_root = MapRoot(<< >>)
    BY DEF OnlyLoggedRoots
  <2> DEFINE inclusion == p.proof.inclusion
             head == q.proof.sth
  <2>1. /\ inclusion.leaf_index \in 1 .. Len(inclusion.tree)
        /\ inclusion.tree = head
        /\ inclusion.tree[inclusion.leaf_index] = checkpoint
    BY DEF verify_not_revoked, map_root_is_logged, VerifyLogInclusion
  <2>2. checkpoint.map_root = MapRoot(<< >>)
    BY DEF MadeUpCheckpoints
  <2>3. QED
    BY <2>1, <2>2
<1>2. LogInv => ShownLiveByTheLog
  <2> SUFFICES ASSUME LogInv, NEW q \in proofs, NEW key \in Key,
                      NEW checkpoint, NEW map_proof, NEW inclusion,
                      verify_not_revoked([checkpoint |-> checkpoint, map_proof |-> map_proof,
                                          inclusion |-> inclusion, sth |-> q.proof.sth], key)
               PROVE  \E i \in 1 .. Len(q.proof.sth) : key \notin KeysOf(q.proof.sth[i].map_root)
    BY DEF ShownLiveByTheLog
  <2> DEFINE head == q.proof.sth
             i == inclusion.leaf_index
  <2>1. /\ i \in 1 .. Len(head) /\ head[i] = checkpoint
        /\ verify_non_inclusion(checkpoint.map_root, key, map_proof)
    BY DEF verify_not_revoked, map_root_is_logged, VerifyLogInclusion
  <2>2. Growing(head)
    BY DEF LogInv, ProofsMade, LogGrows
  <2> HIDE DEF head, i
  <2>3. PICK set \in SUBSET Revocable : head[i].map_root = Tree(set)[DEPTH][0]
    BY <2>1, <2>2 DEF Growing
  <2>4. set \in SUBSET Key
    BY RevocableAssumption
  <2>5. key \notin set
    BY <2>1, <2>3, <2>4, ProofsAreSound
  <2>6. KeysOf(head[i].map_root) = set
    BY <2>3, <2>4, KeysOfTree
  <2>7. QED
    BY <2>1, <2>5, <2>6 DEF head
<1>3. QED
  BY LogInvInit, LogInvNext, <1>1, <1>2, PTL DEF Spec

(* A client that takes heads in consistent order is never shown a key live *)
(* in an epoch in which, or before which, it was shown revoked, for any    *)
(* number of restarts, and under whatever head a checkpoint is presented   *)
(* (verify_not_revoked, verify_consistency).                               *)
THEOREM LaterEpochsKeepRevocations == Spec => []LiveOnlyBeforeRevoked
<1>1. LogInv => LiveOnlyBeforeRevoked
  BY DEF LogInv
<1>2. QED
  BY LogInvInit, LogInvNext, <1>1, PTL DEF Spec
=============================================================================
