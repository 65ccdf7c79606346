------------------------ MODULE LogBackedRevocation ------------------------
(***************************************************************************)
(* core/revlog and the v2 handlers of services/revocation-log: a           *)
(* revocation map whose roots are committed, as checkpoints, to an         *)
(* append-only log.  A handler holds the mutex for all it does, so that it *)
(* is one step.  The service keeps nothing on disk: a restart begins anew  *)
(* under the same key.                                                     *)
(*                                                                         *)
(* Somebody collects status proofs and heads, puts a checkpoint and its    *)
(* map proof under any head whose log has it, and presents that late and   *)
(* in any order.  A client takes it only with a proof that its head is     *)
(* consistent with the last one the client took.                           *)
(***************************************************************************)
EXTENDS RevocationMap, Consistency

CONSTANTS
  Revocable,          \* the keys that are ever revoked
  Queried,            \* the keys whose status is asked
  MaxCheckpoints,     \* bound: checkpoints in the log
  MaxProofs,          \* bound: proofs a client has
  MaxRestarts         \* bound: restarts of the service

ASSUME RevocableAssumption == Revocable \subseteq Key /\ Queried \subseteq Key

VARIABLES
  keys,        \* RevocationMap::keys
  log,         \* the leaves of the witness: receipts of checkpoints
  epoch,
  latest,      \* the checkpoint last published, with its index, or empty
  restarts,
  signed,      \* the roots of all heads that the service signed
  proofs,      \* what it served: [key, proof, keys], with its keys at that time
  anchor,      \* the root of the head that the client took last
  known,       \* the keys that the client saw revoked, and in which epoch: [key, epoch]
  answer       \* what it concluded last: [key, live, epoch], or empty

service == <<keys, log, epoch, latest, restarts>>
client == <<anchor, known, answer>>
vars == <<service, signed, proofs, client>>

(* A log stands for its root.  The receipt of a checkpoint is determined   *)
(* by the checkpoint: its digest binds every field.                        *)
Checkpoint(map_root) == [epoch |-> epoch, map_root |-> map_root, prev_log_root |-> log]

Init ==
  /\ keys = << >> /\ log = << >> /\ epoch = 0 /\ latest = {} /\ restarts = 0
  /\ signed = {} /\ proofs = {} /\ anchor = << >> /\ known = {} /\ answer = {}

-----------------------------------------------------------------------------
(* The service.                                                            *)

Revoke(key) ==
  /\ keys' = Inserted(keys, key)
  /\ UNCHANGED <<log, epoch, latest, restarts, signed, proofs, client>>

PublishCheckpoint ==
  /\ Len(log) < MaxCheckpoints
  /\ log' = Append(log, Checkpoint(MapRoot(keys)))
  /\ latest' = {[checkpoint |-> Checkpoint(MapRoot(keys)), leaf_index |-> Len(log) + 1]}
  /\ epoch' = epoch + 1
  /\ signed' = signed \cup {log'}
  /\ UNCHANGED <<keys, restarts, proofs, client>>

\* Variant: the map may have changed since the checkpoint.
ProveAtLatest(key) ==
  {[checkpoint |-> committed.checkpoint, map_proof |-> ProveKey(keys, key),
    inclusion |-> [leaf_index |-> committed.leaf_index, tree |-> log], sth |-> log] :
     committed \in latest}

(* A proof that an earlier leaf is in a log is not served, but for the     *)
(* latest checkpoint only, and only while the map is as it was then.       *)
Prove(key) ==
  {[checkpoint |-> committed.checkpoint, map_proof |-> ProveKey(keys, key),
    inclusion |-> [leaf_index |-> committed.leaf_index, tree |-> log], sth |-> log] :
     committed \in {c \in latest : c.checkpoint.map_root = MapRoot(keys)}}

Status(key) ==
  /\ Cardinality(proofs) < MaxProofs
  /\ \E proof \in Prove(key) :
       proofs' = proofs \cup {[key |-> key, proof |-> proof, keys |-> ToSet(keys)]}
  /\ UNCHANGED <<service, signed, client>>

Restart ==
  /\ restarts < MaxRestarts
  /\ restarts' = restarts + 1
  /\ keys' = << >> /\ log' = << >> /\ epoch' = 0 /\ latest' = {}
  /\ UNCHANGED <<signed, proofs, client>>

-----------------------------------------------------------------------------
(* The verifiers.                                                          *)

VerifyLogInclusion(receipt, inclusion, root) ==
  /\ inclusion.leaf_index \in 1 .. Len(inclusion.tree)
  /\ inclusion.tree = root
  /\ inclusion.tree[inclusion.leaf_index] = receipt

\* Variant: only the head is looked at.
SomeHeadSigned(proof) == proof.sth # << >>

\* Every head the client is given was signed by the service.
map_root_is_logged(proof) == VerifyLogInclusion(proof.checkpoint, proof.inclusion, proof.sth)

verify_not_revoked(proof, key) ==
  /\ map_root_is_logged(proof)
  /\ verify_non_inclusion(proof.checkpoint.map_root, key, proof.map_proof)

verify_revoked(proof, key) ==
  /\ map_root_is_logged(proof)
  /\ verify_inclusion(proof.checkpoint.map_root, key, proof.map_proof)

(* GET consistency: of a log as it is then with what it was before.  Such  *)
(* a proof can be kept.                                                    *)
LogProof(first) ==
  {[old |-> SubSeq(head, 1, first), new |-> head] : head \in {h \in signed : first <= Len(h)}}

Consistent(proof) ==
  \E p \in LogProof(Len(anchor)) :
    VerifyConsistency(p, anchor, proof.sth, Len(anchor), Len(proof.sth))

(* What the service served is a checkpoint with a map proof in the last    *)
(* place of its log.  The same checkpoint is included in every later log   *)
(* of that service too, and whoever has that log's checkpoints, the        *)
(* operator or a presenter, computes the path.                             *)
Presented(proof, head, leaf) ==
  [checkpoint |-> proof.checkpoint, map_proof |-> proof.map_proof,
   inclusion |-> [leaf_index |-> leaf, tree |-> head], sth |-> head]

\* The proof may be presented for another key than it was served for.
Take(key, proof) ==
  /\ Consistent(proof)
  /\ \/ /\ verify_not_revoked(proof, key)
        /\ answer' = {[key |-> key, live |-> TRUE, epoch |-> proof.checkpoint.epoch]}
        /\ UNCHANGED known
     \/ /\ verify_revoked(proof, key)
        /\ answer' = {[key |-> key, live |-> FALSE, epoch |-> proof.checkpoint.epoch]}
        /\ known' = known \cup {[key |-> key, epoch |-> proof.checkpoint.epoch]}
  /\ anchor' = proof.sth
  /\ UNCHANGED <<service, signed, proofs>>

Next ==
  \/ \E key \in Revocable : Revoke(key)
  \/ PublishCheckpoint
  \/ \E key \in Queried : Status(key)
  \/ Restart
  \/ \E key \in Queried, p \in proofs, head \in signed : \E leaf \in DOMAIN head :
       Take(key, Presented(p.proof, head, leaf))

Spec == Init /\ [][Next]_vars

-----------------------------------------------------------------------------
(* Properties.                                                             *)

(* The keys are sorted, and the epoch, the log and the latest checkpoint   *)
(* agree.                                                                  *)
TypeOK ==
  /\ keys \in Seq(Revocable) /\ Sorted(keys)
  /\ epoch = Len(log)
  /\ \A i \in 1 .. Len(log) : log[i].epoch = i - 1 /\ log[i].prev_log_root = SubSeq(log, 1, i - 1)
  /\ \A committed \in latest : committed.leaf_index = Len(log) /\ log[Len(log)] = committed.checkpoint
  /\ latest = {} <=> log = << >>
  /\ known \subseteq [key : Revocable, epoch : Nat]

\* Every content of the map is reached before anything is published.
Fresh == log = << >> /\ proofs = {}

(* The default subtrees and the parting of sorted keys give the root of    *)
(* the tree over all keys.                                                 *)
RootIsWholeTree == Fresh => MapRoot(keys) = Tree(ToSet(keys))[DEPTH][0]

(* "Never a false 'not revoked'" (v2_status): a proof that was served for  *)
(* a key says exactly what the map said then, also when it is used for     *)
(* another key or under another head, or when revocations and checkpoints  *)
(* came in between.                                                        *)
ServedProofsAreExact ==
  \A p \in proofs :
    /\ verify_revoked(p.proof, p.key) <=> p.key \in p.keys
    /\ verify_not_revoked(p.proof, p.key) <=> p.key \notin p.keys
    /\ \A other \in Key, head \in signed : \A leaf \in DOMAIN head :
         /\ verify_revoked(Presented(p.proof, head, leaf), other) => other \in p.keys
         /\ verify_not_revoked(Presented(p.proof, head, leaf), other) => other \notin p.keys

(* Whatever the bitmap and the siblings, no proof shows against the map's  *)
(* root that a revoked key is absent or a live one present.                *)
Hashes == {Default[h] : h \in 0 .. DEPTH} \cup {leaf_hash(k) : k \in ToSet(keys)}
            \cup {Sibling(keys, k, d) : k \in Key, d \in 0 .. DEPTH - 1}

MadeUpProofs ==
  UNION {[present : {present}, siblings : [1 .. Cardinality(present) -> Hashes]] :
           present \in SUBSET (0 .. DEPTH - 1)}

MapProofsSound ==
  Fresh => \A proof \in MadeUpProofs, key \in Key :
    /\ verify_inclusion(MapRoot(keys), key, proof) => key \in ToSet(keys)
    /\ verify_non_inclusion(MapRoot(keys), key, proof) => key \notin ToSet(keys)

(* "Exactly the one the log recorded" (MapCheckpoint): with a checkpoint   *)
(* and a map proof that anybody made up, and parts of different proofs     *)
(* that were served, a key is not shown live by a head whose log has no    *)
(* map without it.                                                         *)
MadeUpCheckpoints ==
  [epoch : 0 .. MaxCheckpoints, map_root : {MapRoot(<< >>)},
   prev_log_root : {SubSeq(p.proof.sth, 1, Len(p.proof.sth) - 1) : p \in proofs}]

OnlyLoggedRoots ==
  \A key \in Key :
    LET map_proof == ProveKey(<< >>, key)
    IN  \A p, q \in proofs, checkpoint \in MadeUpCheckpoints :
          LET mixed == [checkpoint |-> checkpoint, map_proof |-> map_proof,
                        inclusion |-> p.proof.inclusion, sth |-> q.proof.sth]
          IN  verify_not_revoked(mixed, key) =>
                \E i \in 1 .. Len(q.proof.sth) : q.proof.sth[i].map_root = MapRoot(<< >>)

(* A client that takes heads in consistent order is never shown a key live *)
(* in an epoch in which, or before which, it was shown revoked: whatever   *)
(* it was served, under whatever head and however late it is presented,    *)
(* and although a restarted service has forgotten all.                     *)
LiveOnlyBeforeRevoked ==
  \A a \in answer, k \in known : a.live /\ a.key = k.key => a.epoch < k.epoch

(* "Kills silent rollback (the epoch sequence can only grow ...)"          *)
(* (docs/REVOCATION_TRANSPARENCY.md): a client that takes heads in         *)
(* consistent order never concludes that a key is live after it saw it     *)
(* revoked.                                                                *)
NoRollback == \A a \in answer, k \in known : a.live => a.key # k.key

(* The inductive invariant behind these properties.  A root stands for one *)
(* set of keys.                                                            *)
KeysOf(root) == CHOOSE set \in SUBSET Key : Tree(set)[DEPTH][0] = root

\* A log whose checkpoints are, epoch by epoch, roots of sets that only grow.
Growing(l) ==
  /\ l \in Seq(ToSet(l))
  /\ \A i \in 1 .. Len(l) : l[i].epoch = i - 1
  /\ \A i \in 1 .. Len(l) : \E set \in SUBSET Revocable : l[i].map_root = Tree(set)[DEPTH][0]
  /\ \A i, j \in 1 .. Len(l) : i < j => KeysOf(l[i].map_root) \subseteq KeysOf(l[j].map_root)

LastKeys(l) == IF l = << >> THEN {} ELSE KeysOf(l[Len(l)].map_root)

LogGrows ==
  /\ Growing(log) /\ LastKeys(log) \subseteq ToSet(keys)
  /\ log # << >> => log \in signed
  /\ \A head \in signed : Growing(head)

\* A served proof ends in the checkpoint it is about, and shows its own key.
ProofsMade ==
  \A p \in proofs :
    /\ p.key \in Key /\ p.keys \subseteq Revocable
    /\ p.proof.checkpoint.map_root = Tree(p.keys)[DEPTH][0]
    /\ map_root_is_logged(p.proof)
    /\ p.proof.sth \in signed
    /\ p.key \in p.keys => verify_revoked(p.proof, p.key)
    /\ p.key \notin p.keys => verify_not_revoked(p.proof, p.key)

\* What the client knows is in the log whose head it took last.
KnownLogged ==
  /\ Growing(anchor)
  /\ \A k \in known :
       k.epoch + 1 \in 1 .. Len(anchor) /\ k.key \in KeysOf(anchor[k.epoch + 1].map_root)

LogInv == TypeOK /\ LogGrows /\ ProofsMade /\ KnownLogged /\ LiveOnlyBeforeRevoked

(* "`siblings` lists the non-default hashes" (MapProof): no root of an     *)
(* empty subtree is sent along.                                            *)
DefaultsElided ==
  \A p \in proofs : \A i \in 1 .. Len(p.proof.map_proof.siblings) :
    p.proof.map_proof.siblings[i] \notin {Default[h] : h \in 0 .. DEPTH}
=============================================================================
