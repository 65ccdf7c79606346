----------------------------- MODULE Cosigning -----------------------------
(***************************************************************************)
(* clients/checkpoint: independent witnesses cosign the checkpoints of one *)
(* log, and a relying party wants Threshold of them on a checkpoint before *)
(* it believes it.  The log's operator may sign any checkpoints, forks     *)
(* included, and clients may present them to the witnesses in any order,   *)
(* repeatedly, and with any proofs.  A witness remembers the checkpoint it *)
(* cosigned last in memory only: one that restarts starts over.            *)
(*                                                                         *)
(* Cosignatures are collected over one body, so what verify_quorum counts  *)
(* is the set of witnesses that ever cosigned that checkpoint.             *)
(***************************************************************************)
EXTENDS Naturals, Sequences, FiniteSets, SequencesExt, Consistency

CONSTANTS
  Leaf,         \* what the log registers
  Signed,       \* the checkpoints the log's key ever signs
  Witnesses,    \* the witnesses a relying party knows by name and key
  Volatile,     \* those whose process may restart
  Threshold     \* how many cosignatures a relying party requires

\* The root commits to as many leaves as the checkpoint says.  An empty tree's
\* root is compared with nothing, so an operator may sign any.
Checkpoint == {c \in [size : Nat, root : Seq(Leaf)] : c.size # 0 => c.size = Len(c.root)}

ASSUME SignedAssumption == Signed \subseteq Checkpoint
ASSUME WitnessesAssumption == IsFiniteSet(Witnesses) /\ Volatile \subseteq Witnesses
ASSUME ThresholdAssumption == Threshold \in Nat

VARIABLES
  seen,       \* per witness, the (size, root) it cosigned last
  cosigned    \* per witness, every checkpoint it ever put its signature to

vars == <<seen, cosigned>>

\* `self.seen.unwrap_or((0, [0u8; 32]))`
Unseen == [size |-> 0, root |-> << >>]

TypeOK ==
  /\ seen \in [Witnesses -> Checkpoint]
  /\ cosigned \in [Witnesses -> SUBSET Signed]

Init ==
  /\ seen = [w \in Witnesses |-> Unseen]
  /\ cosigned = [w \in Witnesses |-> {}]

Proofs ==
  {p \in [old : {c.root : c \in Signed}, new : {c.root : c \in Signed}] : IsPrefix(p.old, p.new)}
    \cup {[old |-> << >>, new |-> << >>]}

(* add_checkpoint, under the log's signature.  The other answers (a stale  *)
(* old_size, a rollback, a proof that does not link) change nothing.       *)
Extends(w, cp, p) ==
  IF seen[w].size = 0 THEN EmptyProof(p)
  ELSE VerifyConsistency(p, seen[w].root, cp.root, seen[w].size, cp.size)

\* Variants: the new checkpoint is cosigned but not remembered; of the new
\* checkpoint only the size is remembered.
CosignAndForget(w, cp, old_size, p) ==
  /\ old_size = seen[w].size
  /\ cp.size >= seen[w].size
  /\ Extends(w, cp, p)
  /\ cosigned' = [cosigned EXCEPT ![w] = @ \cup {cp}]
  /\ UNCHANGED seen

RememberSize(w, cp, old_size, p) ==
  /\ old_size = seen[w].size
  /\ cp.size >= seen[w].size
  /\ Extends(w, cp, p)
  /\ seen' = [seen EXCEPT ![w].size = cp.size]
  /\ cosigned' = [cosigned EXCEPT ![w] = @ \cup {cp}]

AddCheckpoint(w, cp, old_size, p) ==
  /\ old_size = seen[w].size
  /\ cp.size >= seen[w].size
  /\ Extends(w, cp, p)
  /\ seen' = [seen EXCEPT ![w] = cp]
  /\ cosigned' = [cosigned EXCEPT ![w] = @ \cup {cp}]

(* CosigningWitness::new for the same key: nothing restores `seen`.        *)
Restart(w) ==
  /\ seen' = [seen EXCEPT ![w] = Unseen]
  /\ UNCHANGED cosigned

Next ==
  \/ \E w \in Witnesses, cp \in Signed, old_size \in {0} \cup {c.size : c \in Signed}, p \in Proofs :
       AddCheckpoint(w, cp, old_size, p)
  \/ \E w \in Volatile : Restart(w)

Spec == Init /\ [][Next]_vars

Cosigners(cp) == {w \in Witnesses : cp \in cosigned[w]}

\* Variant: one cosignature short.
AlmostQuorum(cp) == Cosigners(cp) # {} /\ Cardinality(Cosigners(cp)) + 1 >= Threshold

(* verify_quorum of a note that carries every cosignature there is.        *)
VerifyQuorum(cp) == Cosigners(cp) # {} /\ Cardinality(Cosigners(cp)) >= Threshold
-----------------------------------------------------------------------------
(* Properties.  The empty tree is set aside: its root is never compared.   *)

OnOneHistory(c, d) == IsPrefix(c.root, d.root) \/ IsPrefix(d.root, c.root)

(* A witness that does not restart "can enforce append-only extension and  *)
(* refuse rollbacks" (CosigningWitness): whatever the operator signs and   *)
(* in whatever order clients present it, all it ever cosigned is one       *)
(* growing log.                                                            *)
CosignedIsOneHistory ==
  \A w \in Witnesses \ Volatile : \A c, d \in cosigned[w] :
    c.size > 0 /\ d.size > 0 => OnOneHistory(c, d)

(* A relying party "can't be shown a forked root" (the crate's comment):   *)
(* any two checkpoints with a quorum, whoever collected them and whenever, *)
(* are of one growing log, although some witnesses restart.  It needs      *)
(* quorums that share a witness that does not.                             *)
QuorumsOverlap == 2 * Threshold > Cardinality(Witnesses) + Cardinality(Volatile)

QuorumsAgree ==
  \A c, d \in Signed :
    c.size > 0 /\ d.size > 0 /\ VerifyQuorum(c) /\ VerifyQuorum(d) => OnOneHistory(c, d)

(* The inductive invariant: a witness's memory ends its history.           *)
CosignedUpToSeen ==
  \A w \in Witnesses \ Volatile : \A c \in cosigned[w] :
    c.size > 0 => seen[w].size > 0 /\ IsPrefix(c.root, seen[w].root)

Inv == TypeOK /\ CosignedUpToSeen /\ CosignedIsOneHistory
=============================================================================
