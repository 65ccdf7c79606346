-------------------------- MODULE CosigningProofs --------------------------
(***************************************************************************)
(* Quorums of cosigning witnesses agree, for any number of witnesses, any  *)
(* checkpoints an operator may sign and any threshold whose quorums share  *)
(* a witness that does not restart.                                        *)
(***************************************************************************)
EXTENDS Cosigning, LogLemmas, FiniteSetTheorems

(* A witness that looks at a checkpoint after another of positive size     *)
(* cosigns it only as an extension.                                        *)
LEMMA ExtendsIsPrefix ==
  ASSUME TypeOK, NEW w \in Witnesses, NEW cp \in Signed, NEW p \in Proofs,
         Extends(w, cp, p), cp.size >= seen[w].size, seen[w].size > 0
  PROVE  IsPrefix(seen[w].root, cp.root)
<1>1. seen[w] \in Checkpoint /\ cp \in Checkpoint
  BY SignedAssumption DEF TypeOK
<1>2. VerifyConsistency(p, seen[w].root, cp.root, seen[w].size, cp.size)
  BY <1>1 DEF Extends, Checkpoint
<1>3. CASE seen[w].size = cp.size
  <2>1. seen[w].root = cp.root /\ cp.root \in Seq(Leaf)
    BY <1>1, <1>2, <1>3 DEF VerifyConsistency, Checkpoint
  <2>2. QED
    BY <2>1, PrefixIsCut, SubSeqFull
<1>4. CASE seen[w].size # cp.size
  <2>1. p.old = seen[w].root /\ p.new = cp.root
    BY <1>1, <1>2, <1>4 DEF VerifyConsistency, Checkpoint
  <2>2. IsPrefix(p.old, p.new)
    <3>1. CASE p \in {q \in [old : {c.root : c \in Signed}, new : {c.root : c \in Signed}] : IsPrefix(q.old, q.new)}
      BY <3>1
    <3>2. CASE p = [old |-> << >>, new |-> << >>]
      <4>1. << >> \in Seq(Leaf)
        BY EmptySeq
      <4>2. \A s \in Seq(Leaf) : IsPrefix(s, s)
        BY PrefixIsCut, SubSeqFull
      <4>3. p.old \in Seq(Leaf) /\ p.new = p.old
        BY <3>2, <4>1
      <4>4. QED
        BY <4>2, <4>3
    <3>3. QED
      BY <3>1, <3>2 DEF Proofs
  <2>3. QED
    BY <2>1, <2>2
<1>5. QED
  BY <1>3, <1>4

LEMMA InvInit == Init => Inv
<1> SUFFICES ASSUME Init PROVE Inv
  OBVIOUS
<1>1. Unseen \in Checkpoint
  BY EmptySeq DEF Unseen, Checkpoint
<1>2. QED
  BY <1>1 DEF Init, Inv, TypeOK, CosignedUpToSeen, CosignedIsOneHistory

LEMMA AddCheckpointInv ==
  ASSUME Inv, NEW w \in Witnesses, NEW cp \in Signed, NEW old_size, NEW p \in Proofs,
         AddCheckpoint(w, cp, old_size, p)
  PROVE  Inv'
<1>1. cp \in Checkpoint
  BY SignedAssumption
<1>2. seen' = [seen EXCEPT ![w] = cp] /\ cosigned' = [cosigned EXCEPT ![w] = @ \cup {cp}]
  BY DEF AddCheckpoint
<1>3. TypeOK'
  BY <1>1, <1>2 DEF Inv, TypeOK
<1>4. \A v \in Witnesses : v # w => seen'[v] = seen[v] /\ cosigned'[v] = cosigned[v]
  BY <1>2 DEF Inv, TypeOK
<1>5. seen'[w] = cp /\ cosigned'[w] = cosigned[w] \cup {cp}
  BY <1>2 DEF Inv, TypeOK
<1>6. IsPrefix(cp.root, cp.root)
  BY <1>1, PrefixIsCut, SubSeqFull DEF Checkpoint
<1>7. ASSUME w \notin Volatile, NEW c \in cosigned[w], c.size > 0
      PROVE  cp.size > 0 /\ IsPrefix(c.root, cp.root)
  <2>1. seen[w].size > 0 /\ IsPrefix(c.root, seen[w].root)
    BY <1>7 DEF Inv, CosignedUpToSeen
  <2>2. cp.size >= seen[w].size /\ Extends(w, cp, p)
    BY DEF AddCheckpoint
  <2>3. IsPrefix(seen[w].root, cp.root)
    BY <2>1, <2>2, ExtendsIsPrefix DEF Inv
  <2>4. seen[w] \in Checkpoint /\ c \in Checkpoint
    BY SignedAssumption DEF Inv, TypeOK
  <2>5. QED
    BY <1>1, <2>1, <2>2, <2>3, <2>4, PrefixTransitive DEF Checkpoint
<1>8. CosignedUpToSeen'
  BY <1>4, <1>5, <1>6, <1>7 DEF Inv, CosignedUpToSeen
<1>9. CosignedIsOneHistory'
  BY <1>4, <1>5, <1>6, <1>7 DEF Inv, CosignedIsOneHistory, OnOneHistory
<1>10. QED
  BY <1>3, <1>8, <1>9 DEF Inv

LEMMA InvNext == Inv /\ [Next]_vars => Inv'
<1> SUFFICES ASSUME Inv, [Next]_vars PROVE Inv'
  OBVIOUS
<1>1. ASSUME NEW w \in Witnesses, NEW cp \in Signed, NEW old_size, NEW p \in Proofs,
             AddCheckpoint(w, cp, old_size, p)
      PROVE  Inv'
  BY <1>1, AddCheckpointInv
<1>2. ASSUME NEW w \in Volatile, Restart(w) PROVE Inv'
  <2>1. Unseen \in Checkpoint /\ w \in Witnesses
    BY EmptySeq, WitnessesAssumption DEF Unseen, Checkpoint
  <2>2. seen' = [seen EXCEPT ![w] = Unseen] /\ cosigned' = cosigned
    BY <1>2 DEF Restart
  <2>3. \A v \in Witnesses \ Volatile : seen'[v] = seen[v]
    BY <2>2 DEF Inv, TypeOK
  <2>4. QED
    BY <2>1, <2>2, <2>3 DEF Inv, TypeOK, CosignedUpToSeen, CosignedIsOneHistory
<1>3. CASE UNCHANGED vars
  BY <1>3 DEF vars, Inv, TypeOK, CosignedUpToSeen, CosignedIsOneHistory
<1>4. QED
  BY <1>1, <1>2, <1>3 DEF Next

(* Two quorums share a witness that does not restart.                      *)
LEMMA QuorumsShareSteadyWitness ==
  ASSUME QuorumsOverlap, NEW P \in SUBSET Witnesses, NEW Q \in SUBSET Witnesses,
         Cardinality(P) >= Threshold, Cardinality(Q) >= Threshold
  PROVE  \E w \in Witnesses \ Volatile : w \in P /\ w \in Q
<1>1. /\ IsFiniteSet(P) /\ IsFiniteSet(Q) /\ IsFiniteSet(Volatile) /\ IsFiniteSet(P \cup Q)
      /\ IsFiniteSet(P \cap Q)
  BY WitnessesAssumption, FS_Subset
<1>2. /\ Cardinality(P \cup Q) = Cardinality(P) + Cardinality(Q) - Cardinality(P \cap Q)
      /\ Cardinality(P \cup Q) <= Cardinality(Witnesses)
  BY <1>1, WitnessesAssumption, FS_Union, FS_Subset
<1>3. /\ Cardinality(P) \in Nat /\ Cardinality(Q) \in Nat /\ Cardinality(P \cap Q) \in Nat
      /\ Cardinality(Volatile) \in Nat /\ Cardinality(Witnesses) \in Nat
  BY <1>1, WitnessesAssumption, FS_CardinalityType
<1>4. Cardinality(P \cap Q) > Cardinality(Volatile)
  BY <1>2, <1>3, ThresholdAssumption DEF QuorumsOverlap
<1>5. ~(P \cap Q \subseteq Volatile)
  BY <1>1, <1>3, <1>4, FS_Subset
<1>6. QED
  BY <1>5

LEMMA InvImpliesQuorumsAgree ==
  ASSUME QuorumsOverlap, Inv
  PROVE  QuorumsAgree
<1> SUFFICES ASSUME NEW c \in Signed, NEW d \in Signed, c.size > 0, d.size > 0,
                    VerifyQuorum(c), VerifyQuorum(d)
             PROVE  OnOneHistory(c, d)
  BY DEF QuorumsAgree
<1>1. PICK w \in Witnesses \ Volatile : w \in Cosigners(c) /\ w \in Cosigners(d)
  BY QuorumsShareSteadyWitness DEF VerifyQuorum, Cosigners
<1>2. QED
  BY <1>1 DEF Cosigners, Inv, CosignedIsOneHistory

(* A witness that stays up cosigns one growing log.                        *)
THEOREM WitnessesCosignOneHistory == Spec => [](TypeOK /\ CosignedIsOneHistory)
<1>1. Inv => TypeOK /\ CosignedIsOneHistory
  BY DEF Inv
<1>2. QED
  BY <1>1, InvInit, InvNext, PTL DEF Spec

(* A relying party cannot be shown a forked root: any two checkpoints with *)
(* a quorum, whenever they were collected, are of one growing log.         *)
THEOREM QuorumsNeverFork ==
  ASSUME QuorumsOverlap
  PROVE  Spec => []QuorumsAgree
<1>1. Inv => QuorumsAgree
  BY InvImpliesQuorumsAgree
<1>2. QED
  BY <1>1, InvInit, InvNext, PTL DEF Spec
=============================================================================
