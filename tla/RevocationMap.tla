--------------------------- MODULE RevocationMap ---------------------------
(***************************************************************************)
(* core/revmap: a sparse Merkle map over keys of DEPTH bits, of which the  *)
(* revoked ones are present, with proofs of presence and of absence.  A    *)
(* key is a number, its bits are read from the most significant one.  A    *)
(* hash is the term that was hashed.                                       *)
(*                                                                         *)
(* A recursion of the code over the depth is a recursive function of the   *)
(* height above the leaves.                                                *)
(***************************************************************************)
EXTENDS Naturals, Sequences, FiniteSets, SequencesExt

CONSTANT DEPTH

ASSUME DepthAssumption == DEPTH \in Nat

Pow2[n \in 0 .. DEPTH] == IF n = 0 THEN 1 ELSE 2 * Pow2[n - 1]

Key == 0 .. Pow2[DEPTH] - 1

Sorted(s) == \A i, j \in 1 .. Len(s) : i < j => s[i] < s[j]

-----------------------------------------------------------------------------
(* Hashes.                                                                 *)

\* Variant: the children of a node are hashed in any order.
UnorderedNode(left, right) == <<"node", {left, right}, {}>>

leaf_hash(key) == <<"leaf", key>>
node_hash(left, right) == <<"node", left, right>>
empty_leaf == <<"empty">>

\* Variant: bit 0 is the least significant one.
LowBit(key, i) == (key \div Pow2[i]) % 2

bit(key, i) == (key \div Pow2[DEPTH - 1 - i]) % 2

\* The root of an empty subtree, by height.
Default[height \in 0 .. DEPTH] ==
  IF height = 0 THEN empty_leaf ELSE node_hash(Default[height - 1], Default[height - 1])

at_depth(depth) == Default[DEPTH - depth]

-----------------------------------------------------------------------------
(* The map is the sorted sequence of the revoked keys.                     *)

\* Variant: a new key goes to the end.
Pushed(keys, key) == IF key \in ToSet(keys) THEN keys ELSE Append(keys, key)

\* revoke: a binary search, and an insertion where the key belongs.
Inserted(keys, key) ==
  LET pos == Cardinality({i \in 1 .. Len(keys) : keys[i] < key})
  IN  IF key \in ToSet(keys) THEN keys ELSE InsertAt(keys, pos + 1, key)

(* Where the keys of a subtree part into its halves.  The code searches    *)
(* for the point, which is right when the keys are sorted by that bit.     *)
partition_point(keys, depth) == Cardinality({i \in 1 .. Len(keys) : bit(keys[i], depth) = 0})

Left(keys, depth) == SubSeq(keys, 1, partition_point(keys, depth))
Right(keys, depth) == SubSeq(keys, partition_point(keys, depth) + 1, Len(keys))

Roots[height \in 0 .. DEPTH] ==
  [keys \in Seq(Key) |->
    IF keys = << >> THEN Default[height]
    ELSE IF height = 0 THEN leaf_hash(keys[1])
    ELSE node_hash(Roots[height - 1][Left(keys, DEPTH - height)],
                   Roots[height - 1][Right(keys, DEPTH - height)])]

subtree_root(keys, depth) == Roots[DEPTH - depth][keys]

MapRoot(keys) == subtree_root(keys, 0)

(* collect_siblings walks down the path of the key.  Per level: the keys   *)
(* on the path, and the root of the subtree next to it.                    *)
OnPath(all, key) ==
  LET Same[depth \in 0 .. DEPTH] ==
        IF depth = 0 THEN all
        ELSE IF bit(key, depth - 1) = 0 THEN Left(Same[depth - 1], depth - 1)
        ELSE Right(Same[depth - 1], depth - 1)
  IN  Same

Sibling(all, key, depth) ==
  LET same == OnPath(all, key)[depth]
  IN  subtree_root(IF bit(key, depth) = 0 THEN Right(same, depth) ELSE Left(same, depth), depth + 1)

(* A proof has the bitmap, as the set of its bits, and the siblings that   *)
(* it marks, from the top.  A sibling at depth + 1 is left out when it is  *)
(* the default of depth.                                                   *)
Rank(present, depth) == Cardinality({e \in present : e <= depth})

ProveKey(keys, key) ==
  LET present == {d \in 0 .. DEPTH - 1 : Sibling(keys, key, d) # at_depth(d)}
      level(i) == CHOOSE d \in present : Rank(present, d) = i
  IN  [present |-> present,
       siblings |-> [i \in 1 .. Cardinality(present) |-> Sibling(keys, key, level(i))]]

\* The bitmap and the number of siblings agree.
WellFormed(proof) ==
  proof.present \subseteq 0 .. DEPTH - 1 /\ Len(proof.siblings) = Cardinality(proof.present)

\* The siblings of every level; what is left out is the default of that level.
expand(proof) ==
  [d \in 0 .. DEPTH - 1 |->
    IF d \in proof.present THEN proof.siblings[Rank(proof.present, d)] ELSE Default[DEPTH - d - 1]]

(* The fold from the leaf up.                                              *)
Folded(key, leaf, full) ==
  LET Cur[height \in 0 .. DEPTH] ==
        LET depth == DEPTH - height IN
        IF height = 0 THEN leaf
        ELSE IF bit(key, depth) = 0 THEN node_hash(Cur[height - 1], full[depth])
        ELSE node_hash(full[depth], Cur[height - 1])
  IN  Cur

recompute_root(key, leaf, proof) == Folded(key, leaf, expand(proof))[DEPTH]

verify_inclusion(root, key, proof) ==
  WellFormed(proof) /\ recompute_root(key, leaf_hash(key), proof) = root

verify_non_inclusion(root, key, proof) ==
  WellFormed(proof) /\ recompute_root(key, empty_leaf, proof) = root

-----------------------------------------------------------------------------
(* The whole tree over a set of keys, with an explicit leaf for every key: *)
(* node n of a height has the keys from n * Pow2[height] on.               *)
Tree(set) ==
  LET Node[height \in 0 .. DEPTH] ==
        [n \in Nat |->
          IF height > 0 THEN node_hash(Node[height - 1][2 * n], Node[height - 1][2 * n + 1])
          ELSE IF n \in set THEN leaf_hash(n) ELSE empty_leaf]
  IN  Node
=============================================================================
