----------------------------- MODULE MerkleTree -----------------------------
(***************************************************************************)
(* core/witness: the RFC 6962 tree over the receipts of a log, with its    *)
(* memo of perfect subtrees, and the two verifiers.  A digest is the term  *)
(* that was hashed.  Positions in the memo count from 0, as in the code.   *)
(*                                                                         *)
(* A recursion of the code is a recursive function of the length of the    *)
(* range, and a loop is one of the number of its steps.                    *)
(***************************************************************************)
EXTENDS Naturals, Sequences, SequencesExt

CONSTANTS
  Leaf,         \* the receipts
  MaxLeaves     \* bound: receipts in the tree

VARIABLES
  leaf_hashes,    \* the leaf hashes, in order
  subtree_cache   \* memo: <<start, len>> -> digest; every reader may fill it

vars == <<leaf_hashes, subtree_cache>>

hash_leaf(data) == <<"leaf", data>>
hash_node(left, right) == <<"node", left, right>>
empty_root == hash_leaf("")

Pow2[n \in Nat] == IF n = 0 THEN 1 ELSE 2 * Pow2[n - 1]

\* A length is a usize.
ASSUME MaxLeavesAssumption ==
  MaxLeaves \in Nat /\ \E bits \in 0 .. 64 : MaxLeaves < Pow2[bits]

\* Starts and lengths.
Size == 0 .. MaxLeaves

\* Variant: an even split.
EvenSplit(n) == n \div 2

\* The loop doubles k, from 1, as long as 2 * k < n.
Doublings(n) == CHOOSE i \in 0 .. n : ~(2 * Pow2[i] < n) /\ \A j \in 0 .. i - 1 : 2 * Pow2[j] < n

split_point(n) == Pow2[Doublings(n)]

Perfect(start, len) == len \in {Pow2[i] : i \in 0 .. len} /\ start % len = 0

\* Variant: the memo forgets where a subtree starts.
KeyWithoutStart(start, len) == <<0, len>>

CacheKey(start, len) == <<start, len>>

-----------------------------------------------------------------------------
(* The memoised tree.  Each call returns its result, and what it adds to   *)
(* the memo.  It visits a range of leaves once, so that what it adds does  *)
(* not meet what it reads.                                                 *)

\* The memo `late` inserted into the memo `early`.
Over(late, early) ==
  [key \in DOMAIN late \cup DOMAIN early |-> IF key \in DOMAIN late THEN late[key] ELSE early[key]]

Subtree[len \in Size] ==
  [start \in Size |->
    LET k     == split_point(len)
        key   == CacheKey(start, len)
        left  == Subtree[k][start]
        right == Subtree[len - k][start + k]
        h     == hash_node(left.result, right.result)
        below == Over(right.memo, left.memo)
    IN  IF len = 0 THEN [result |-> empty_root, memo |-> << >>]
        ELSE IF len = 1 THEN [result |-> leaf_hashes[start + 1], memo |-> << >>]
        ELSE IF Perfect(start, len) /\ key \in DOMAIN subtree_cache
        THEN [result |-> subtree_cache[key], memo |-> << >>]
        ELSE [result |-> h,
              memo   |-> IF Perfect(start, len) THEN Over([added \in {key} |-> h], below) ELSE below]]

\* The path so far, and one more step on top.
Step(below, sibling, left) ==
  [result |-> Append(below.result, [sibling |-> sibling.result, sibling_is_left |-> left]),
   memo |-> Over(sibling.memo, below.memo)]

\* Variant: the leaf at the split goes to the left subtree.
GoesLeftAtSplit(index, k) == index <= k

GoesLeft(index, k) == index < k

SubtreePath[len \in Size] ==
  [start \in Size |-> [index \in Size |->
    LET k == split_point(len)
    IN  IF len <= 1 THEN [result |-> << >>, memo |-> << >>]
        ELSE IF GoesLeft(index, k)
        THEN Step(SubtreePath[k][start][index], Subtree[len - k][start + k], FALSE)
        ELSE Step(SubtreePath[len - k][start + k][index - k], Subtree[k][start], TRUE)]]

Node(below, subtree) ==
  [result |-> Append(below.result, subtree.result), memo |-> Over(subtree.memo, below.memo)]

NoNodes == [result |-> << >>, memo |-> << >>]

Subproof[len \in Size] ==
  [start \in Size |-> [m \in 1 .. len |-> [known \in BOOLEAN |->
    LET k == split_point(len)
    IN  IF m = len THEN IF known THEN NoNodes ELSE Node(NoNodes, Subtree[len][start])
        ELSE IF m <= k
        THEN Node(Subproof[k][start][m][known], Subtree[len - k][start + k])
        ELSE Node(Subproof[len - k][start + k][m - k][FALSE], Subtree[k][start])]]]

Root == Subtree[Len(leaf_hashes)][0]

InclusionProof(index) == SubtreePath[Len(leaf_hashes)][0][index]

ConsistencyProof(old_size) ==
  IF old_size \in {0, Len(leaf_hashes)} THEN NoNodes
  ELSE Subproof[Len(leaf_hashes)][0][old_size][TRUE]

-----------------------------------------------------------------------------
Init ==
  /\ leaf_hashes = << >>
  /\ subtree_cache = << >>

AppendLeaf(r) ==
  /\ Len(leaf_hashes) < MaxLeaves
  /\ leaf_hashes' = Append(leaf_hashes, hash_leaf(r))
  /\ UNCHANGED subtree_cache

\* The readers take `&self`, and leave what they computed in the memo.
Fill(memo) == subtree_cache' = Over(memo, subtree_cache) /\ UNCHANGED leaf_hashes

ReadRoot == Fill(Root.memo)

ReadInclusionProof == \E index \in 0 .. Len(leaf_hashes) - 1 : Fill(InclusionProof(index).memo)

ReadConsistencyProof == \E old_size \in 0 .. Len(leaf_hashes) : Fill(ConsistencyProof(old_size).memo)

Next ==
  \/ \E r \in Leaf : AppendLeaf(r)
  \/ ReadRoot
  \/ ReadInclusionProof
  \/ ReadConsistencyProof

Spec == Init /\ [][Next]_vars

-----------------------------------------------------------------------------
(* The verifiers.                                                          *)

MAX_PROOF_PATH == 64

(* The fold along a path, step by step.                                    *)
Folded(leaf, path) ==
  LET acc[i \in 0 .. Len(path)] ==
        IF i = 0 THEN leaf
        ELSE IF path[i].sibling_is_left THEN hash_node(path[i].sibling, acc[i - 1])
        ELSE hash_node(acc[i - 1], path[i].sibling)
  IN  acc

VerifyInclusion(r, leaf_index, tree_size, path, root) ==
  /\ leaf_index < tree_size
  /\ Len(path) <= MAX_PROOF_PATH
  /\ Folded(hash_leaf(r), path)[Len(path)] = root

(* The place, at a level of the tree, of the last leaf of a size: what     *)
(* `node` and `last` are when they have been halved once per level.        *)
PlaceAt(size, level) == (size - 1) \div Pow2[level]

(* The first loop climbs while the node is a right child.                  *)
Climbed(old_size) ==
  CHOOSE level \in 0 .. old_size :
    /\ PlaceAt(old_size, level) % 2 = 0
    /\ \A lower \in 0 .. level - 1 : PlaceAt(old_size, lower) % 2 = 1

\* Variant: a left child without a sibling takes a node all the same.
HasRightSiblingOrIsLast(node, last) == node <= last

HasRightSibling(node, last) == node < last

(* The second and the third loop: the two roots that the nodes of a proof  *)
(* rebuild in lockstep, level by level, from a seed.                       *)
Walk(old_size, new_size, nodes, seed, used) ==
  LET at[level \in Size] ==
        LET below   == at[level - 1]
            node    == PlaceAt(old_size, level - 1)
            last    == PlaceAt(new_size, level - 1)
            sibling == nodes[below.used + 1]
            takes   == last > 0 /\ (node % 2 = 1 \/ HasRightSibling(node, last))
        IN  IF level <= Climbed(old_size)
            THEN [ok |-> TRUE, used |-> used, old |-> seed, new |-> seed]
            ELSE IF ~(below.ok /\ takes) THEN below
            ELSE IF below.used = Len(nodes) THEN [below EXCEPT !.ok = FALSE]
            ELSE IF node % 2 = 1
            THEN [ok |-> TRUE, used |-> below.used + 1,
                  old |-> hash_node(sibling, below.old), new |-> hash_node(sibling, below.new)]
            ELSE [ok |-> TRUE, used |-> below.used + 1,
                  old |-> below.old, new |-> hash_node(below.new, sibling)]
  IN  at

\* Variant: nodes may be left over.
DoneWithRest(nodes, end) == end.ok

Done(nodes, end) == end.ok /\ end.used = Len(nodes)

(* The old root is the seed when its tree is a subtree of the new one, as  *)
(* it is when old_size is a power of two.                                  *)
IsSubtree(old_size) == PlaceAt(old_size, Climbed(old_size)) = 0

VerifyConsistency(old_root, new_root, nodes, old_size, new_size) ==
  LET end == IF IsSubtree(old_size)
             THEN Walk(old_size, new_size, nodes, old_root, 0)[MaxLeaves]
             ELSE Walk(old_size, new_size, nodes, nodes[1], 1)[MaxLeaves]
  IN  \/ old_size = new_size /\ nodes = << >> /\ old_root = new_root
      \/ 0 = old_size /\ old_size < new_size /\ nodes = << >>
      \/ /\ 0 < old_size /\ old_size < new_size
         /\ ~IsSubtree(old_size) => nodes # << >>
         /\ Done(nodes, end) /\ end.new = new_root /\ end.old = old_root

-----------------------------------------------------------------------------
(* Properties.                                                             *)

(* RFC 6962's Merkle tree hash, with no memo, of n leaves after `from`.    *)
RangeHash(hashes) ==
  LET hash[n \in Size] ==
        [from \in Size |->
          LET k == CHOOSE p \in {Pow2[i] : i \in 0 .. n} : p < n /\ n <= 2 * p
          IN  IF n = 0 THEN empty_root
              ELSE IF n = 1 THEN hashes[from + 1]
              ELSE hash_node(hash[k][from], hash[n - k][from + k])]
  IN  hash

MTH(hashes) == RangeHash(hashes)[Len(hashes)][0]

(* Whatever readers filled the memo between the appends, an entry is the   *)
(* hash of the leaves it stands for: it never goes stale.                  *)
CacheNeverStale ==
  \A key \in DOMAIN subtree_cache :
    /\ key[1] + key[2] <= Len(leaf_hashes)
    /\ subtree_cache[key] = RangeHash(leaf_hashes)[key[2]][key[1]]

(* The root that receipts, heads and attestations commit to is RFC 6962's. *)
RootIsReference == Root.result = MTH(leaf_hashes)

(* An inclusion proof verifies for the receipt at its index, at any tree   *)
(* size and after any reads, and for no other receipt.                     *)
InclusionProvesMembership ==
  \A index \in 0 .. Len(leaf_hashes) - 1, r \in Leaf :
    VerifyInclusion(r, index, Len(leaf_hashes), InclusionProof(index).result, MTH(leaf_hashes))
      <=> leaf_hashes[index + 1] = hash_leaf(r)

(* A consistency proof verifies from every log of the old size that the    *)
(* tree extends, and from no log that it rewrites or forks.                *)
Logs(n) == [1 .. n -> {hash_leaf(r) : r \in Leaf}]

ConsistencyProvesPrefix ==
  \A old_size \in 1 .. Len(leaf_hashes) :
    LET nodes == ConsistencyProof(old_size).result
        root  == MTH(leaf_hashes)
    IN  \A old \in Logs(old_size) :
          VerifyConsistency(MTH(old), root, nodes, old_size, Len(leaf_hashes))
            <=> IsPrefix(old, leaf_hashes)

(* verify_consistency "fails closed on every malformed / short / extra     *)
(* input": a proof with its first or last node missing, one node too many, *)
(* or another old size, is refused.                                        *)
MangledProofsFail ==
  \A old_size \in 1 .. Len(leaf_hashes) :
    LET nodes == ConsistencyProof(old_size).result
        old   == SubSeq(leaf_hashes, 1, old_size)
        refused(mangled, size) ==
          ~VerifyConsistency(MTH(old), MTH(leaf_hashes), mangled, size, Len(leaf_hashes))
    IN  /\ nodes # << >> => refused(Tail(nodes), old_size) /\ refused(Front(nodes), old_size)
        /\ \A extra \in {hash_leaf(r) : r \in Leaf} : refused(Append(nodes, extra), old_size)
        /\ \A size \in (1 .. Len(leaf_hashes)) \ {old_size} : refused(nodes, size)
=============================================================================
