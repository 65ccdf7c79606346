---------------------------- MODULE Consistency ----------------------------
(***************************************************************************)
(* RFC 6962 consistency proofs as the parts of the system above the Merkle *)
(* tree see them.  A log stands for its root; the proof that a tree with   *)
(* leaves p.new extends the one with leaves p.old is the pair p.  Receipts *)
(* name the root they were appended to, so the nodes of a proof pin both   *)
(* logs, except that the nodes of a proof from the empty tree, or between  *)
(* equal trees, are an empty list.  MerkleTree has the algorithm itself.   *)
(***************************************************************************)
EXTENDS Naturals, Sequences

EmptyProof(p) == p.old = << >> \/ p.old = p.new

\* Variant: the roots that the proof links are not compared with the heads'.
LinksSizes(p, oldRoot, newRoot, oldSize, newSize) ==
  oldSize <= newSize /\ Len(p.old) = oldSize /\ Len(p.new) = newSize

(* verify_consistency.  The root of an empty old tree is never looked at.  *)
VerifyConsistency(p, oldRoot, newRoot, oldSize, newSize) ==
  /\ oldSize <= newSize
  /\ oldSize = newSize => EmptyProof(p) /\ oldRoot = newRoot
  /\ oldSize = 0 => EmptyProof(p)
  /\ 0 < oldSize /\ oldSize < newSize => p.old = oldRoot /\ p.new = newRoot
=============================================================================
