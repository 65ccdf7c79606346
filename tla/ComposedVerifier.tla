-------------------------- MODULE ComposedVerifier --------------------------
(***************************************************************************)
(* core/verifier over core/chain, core/witness, core/attestation and       *)
(* core/crypto.  An agent acts under a chain; somebody appends a receipt   *)
(* of that to the witness; an attester signs what was asked for, what came *)
(* of it, and where the receipt is; and a relying party runs verify, or    *)
(* one of its wrappers, on what it is given.                               *)
(*                                                                         *)
(* The verifiers keep nothing, so they are predicates here, TRUE for Ok,   *)
(* and the properties say what they mean for all that could be presented   *)
(* in a state.  A digest is the set of what was hashed.  Which gate        *)
(* refuses (VerifyError) is left out, and so are names of attesters.       *)
(***************************************************************************)
EXTENDS DelegationChain, Signatures, SequencesExt

CONSTANTS
  Notary,                       \* keys of attesters that may be in no chain
  Params,                       \* parameters of actions
  Digests,                      \* the action digests that receipts and attesters use
  Nonce,
  KeyForm,                      \* the public key of each key
  HonestSecret,                 \* secrets that only their holders sign with
  Broken,                       \* algorithms of which signatures can be forged
  HonestAttester,               \* keys that attest to what was done only
  Claims,                       \* what the others attest to, and sign with
  Policies,                     \* VerifyPolicy
  Required,                     \* thresholds that relying parties require
  Cases,                        \* bound: the chains that evidence is about
  MaxDone, MaxLog, MaxAttested, MaxCheckpoints, MaxBundle   \* bounds

AttesterKey == Key \cup Notary

Role == {"CounterSigned", "ThirdParty"}

Policy == [trusted_attesters : SUBSET AttesterKey, allow_counter_signed : BOOLEAN]

(* Purpose and parameters, hashed together with the length of the purpose. *)
bind_action(purpose, params) == [purpose |-> purpose, params |-> params]

IsSound(key) == Sound(KeyForm[key], HonestSecret, Broken)

ASSUME DigestsAssumption ==
  Digests \subseteq {bind_action(purpose, params) : purpose \in Purpose, params \in Params}
ASSUME KeyFormAssumption ==
  IsFiniteSet(AttesterKey) /\ \A key \in AttesterKey : WellFormed(KeyForm[key])
ASSUME HonestAttesterAssumption == HonestAttester \subseteq AttesterKey
ASSUME PoliciesAssumption == Policies \subseteq Policy /\ Required \subseteq Nat

(* A claim is signed with no secret of somebody honest, unless its         *)
(* algorithm is broken.                                                    *)
ASSUME ClaimsAssumption ==
  \A claim \in Claims : \A part \in Components(claim.signing_key) :
    part.bytes \in HonestSecret => part.algorithm \in Broken
ASSUME BoundsAssumption == MaxBundle \in Nat

VARIABLES
  done,         \* what agents did: [chain, requested, outcome, nonce]
  log,          \* the receipts of the witness that gossip agrees on
  attested,     \* what honest attesters signed
  checkpoints,  \* the ids revoked in each checkpoint of the revocation log
  heads         \* the logs, so described, of which it ever signed a head

evidence == <<done, log, attested, checkpoints, heads>>

allVars == <<vars, evidence>>

(* A receipt's prev_root is left out: no verifier here reads it.           *)
Receipt == [chain_digest : SUBSET Seq(blocks), action_digest : Digests, nonce : Nonce]

Deed == [chain : Seq(blocks), requested : Digests, outcome : Digests, nonce : Nonce]

EvidenceOK ==
  /\ done \subseteq Deed
  /\ log \in Seq(Receipt)
  /\ checkpoints \in Seq(SUBSET blocks)
  /\ heads \subseteq Seq(SUBSET blocks)

(* The type invariant of the whole.                                        *)
ComposedTypeOK == TypeOK /\ EvidenceOK

ComposedInit ==
  /\ Init
  /\ done = {}
  /\ log = << >>
  /\ attested = {}
  /\ checkpoints = << >>
  /\ heads = {}

-----------------------------------------------------------------------------
(* Chains.                                                                 *)

\* The chains that Chain::verify accepts, by what it has passed.
Chains == {SubSeq(verified, 1, n) : n \in 1 .. Len(verified)} \cap Cases

digest(chain) == {chain}

executor_key(chain) == chain[Len(chain)].to_key

\* Variant: only those that a hop went to.
ReceivesHop(chain, key) == \E i \in 2 .. Len(chain) : chain[i].to_key = key

\* The key of the root principal is the from_key of the root block.
chain_has_key(chain, key) ==
  \/ chain[1].from_key = key
  \/ \E i \in 2 .. Len(chain) : chain[i].from_key = key \/ chain[i].to_key = key

-----------------------------------------------------------------------------
(* The witness: of a tree, only what an inclusion proof shows is used.     *)

merkle_root(receipts) == {receipts}

Inclusion(receipts, leaf) == [of |-> receipts, leaf |-> leaf]

\* Variant: the path is not bound to the place of the leaf.
SomewhereIncluded(receipt, proof, root) ==
  /\ merkle_root(proof.of) = root
  /\ \E i \in DOMAIN proof.of : proof.of[i] = receipt

verify_inclusion(receipt, proof, root) ==
  /\ merkle_root(proof.of) = root
  /\ proof.leaf \in DOMAIN proof.of
  /\ proof.of[proof.leaf] = receipt

-----------------------------------------------------------------------------
(* Completion attestations.                                                *)

signing_payload(c) ==
  <<c.chain_digest, c.requested, c.outcome, c.witnessed_root, c.inclusion, c.attester_key, c.role>>

Completion(chain, requested, outcome, inclusion, attester_key, role, signature) ==
  [chain_digest |-> digest(chain), requested |-> requested, outcome |-> outcome,
   witnessed_root |-> merkle_root(inclusion.of), inclusion |-> inclusion,
   attester_key |-> attester_key, role |-> role, signature |-> signature]

attest_as(role, attester_key, chain, requested, outcome, inclusion) ==
  LET content == Completion(chain, requested, outcome, inclusion, attester_key, role, {})
  IN  Completion(chain, requested, outcome, inclusion, attester_key, role,
                 sign(KeyForm[attester_key], signing_payload(content)))

\* CompletionAttestation::verify.
independently_signed(c, executor) ==
  /\ c.attester_key # executor
  /\ verify_signature(signing_payload(c), c.signature, KeyForm[c.attester_key])

\* What every attestation of a bundle must agree on.
binding(c) == <<c.chain_digest, c.requested, c.outcome, c.witnessed_root>>

\* Variant: copies of one attester's word are counted.
CopiesCount(bundle, executor) ==
  /\ \A i, j \in DOMAIN bundle.attestations :
       binding(bundle.attestations[i]) = binding(bundle.attestations[j])
  /\ bundle.threshold <=
       Cardinality({i \in DOMAIN bundle.attestations :
                      independently_signed(bundle.attestations[i], executor)})

(* ThresholdAttestation::verify.  What does not verify is not counted, and *)
(* refuses nothing by itself.                                              *)
enough_independent(bundle, executor) ==
  /\ \A i, j \in DOMAIN bundle.attestations :
       /\ binding(bundle.attestations[i]) = binding(bundle.attestations[j])
       /\ i # j => bundle.attestations[i].attester_key # bundle.attestations[j].attester_key
  /\ bundle.threshold <=
       Cardinality({i \in DOMAIN bundle.attestations :
                      independently_signed(bundle.attestations[i], executor)})

-----------------------------------------------------------------------------
(* The composed verifier.                                                  *)

attester_is_anchored(chain, c, policy) ==
  \/ c.role = "ThirdParty" /\ c.attester_key \in policy.trusted_attesters
  \/ c.role = "CounterSigned" /\ policy.allow_counter_signed /\ chain_has_key(chain, c.attester_key)

\* The gates that verify applies to one attestation, and verify_threshold to each.
Witnessed(chain, receipt, c, trusted_root) ==
  /\ receipt.chain_digest = digest(chain)
  /\ c.chain_digest = digest(chain)
  /\ c.witnessed_root = trusted_root
  /\ verify_inclusion(receipt, c.inclusion, trusted_root)

AsRecorded(receipt, c) ==
  c.outcome = receipt.action_digest /\ c.requested = receipt.action_digest

verify(chain, receipt, completion, trusted_root, policy) ==
  /\ chain \in Chains
  /\ Witnessed(chain, receipt, completion, trusted_root)
  /\ independently_signed(completion, executor_key(chain))
  /\ attester_is_anchored(chain, completion, policy)
  /\ AsRecorded(receipt, completion)

(* The bundle may be empty: then nothing but the chain, the thresholds and *)
(* the chain of the receipt is looked at.                                  *)
verify_threshold(chain, receipt, bundle, trusted_root, required, policy) ==
  /\ chain \in Chains
  /\ required <= bundle.threshold
  /\ receipt.chain_digest = digest(chain)
  /\ \A i \in DOMAIN bundle.attestations :
       Witnessed(chain, receipt, bundle.attestations[i], trusted_root)
  /\ enough_independent(bundle, executor_key(chain))
  /\ \A i \in DOMAIN bundle.attestations :
       /\ attester_is_anchored(chain, bundle.attestations[i], policy)
       /\ AsRecorded(receipt, bundle.attestations[i])

-----------------------------------------------------------------------------
(* Revocation.  The id of a block is the digest of its signature, which is *)
(* of one block only.  A proof is a signed head and a leaf of its log: it  *)
(* shows of an id what is so in that checkpoint (LogBackedRevocation).     *)
(* All heads have one signer; of which log one is, is not looked at.       *)

\* Variant: the ids of the delegations only.
DelegationIds(chain) == {chain[i] : i \in 2 .. Len(chain)}

revocation_ids_for_chain(chain) == {chain[i] : i \in DOMAIN chain}

verify_not_revoked(proof, id) ==
  proof.head \in heads /\ id \notin proof.head[proof.leaf]

verify_chain_not_revoked(chain, proofs) ==
  \A id \in revocation_ids_for_chain(chain) :
    id \in DOMAIN proofs /\ verify_not_revoked(proofs[id], id)

verify_with_revocation(chain, receipt, completion, trusted_root, policy, proofs) ==
  /\ verify_chain_not_revoked(chain, proofs)
  /\ verify(chain, receipt, completion, trusted_root, policy)

verify_threshold_with_revocation(chain, receipt, bundle, trusted_root, required, policy, proofs) ==
  /\ verify_chain_not_revoked(chain, proofs)
  /\ verify_threshold(chain, receipt, bundle, trusted_root, required, policy)

-----------------------------------------------------------------------------
(* Purpose.                                                                *)

\* Variant: the digest is opaque.
OpaqueDigest(chain, receipt, params) == Len(chain) > 1 /\ receipt.action_digest \in Digests

\* A chain of the root alone was delegated no purpose.
verify_action_purpose_binding(chain, receipt, params) ==
  /\ Len(chain) > 1
  /\ bind_action(chain[Len(chain)].purpose, params) = receipt.action_digest

verify_with_purpose(chain, receipt, completion, trusted_root, policy, params) ==
  /\ verify_action_purpose_binding(chain, receipt, params)
  /\ verify(chain, receipt, completion, trusted_root, policy)

-----------------------------------------------------------------------------
(* What happens before a verifier is asked.                                *)

\* An agent does something, asked for or not, under a chain that it holds.
Act(chain, requested, outcome, nonce) ==
  /\ Cardinality(done) < MaxDone
  /\ done' = done \cup {[chain |-> chain, requested |-> requested, outcome |-> outcome,
                         nonce |-> nonce]}
  /\ UNCHANGED <<vars, log, attested, checkpoints, heads>>

\* The witness takes every receipt, of what was done and of what was not.
WitnessAppend(chain, action, nonce) ==
  /\ Len(log) < MaxLog
  /\ log' = Append(log, [chain_digest |-> digest(chain), action_digest |-> action,
                         nonce |-> nonce])
  /\ UNCHANGED <<vars, done, attested, checkpoints, heads>>

ReceiptsOf(deed) ==
  [chain_digest : {digest(deed.chain)}, action_digest : Digests, nonce : {deed.nonce}]

\* The trees in which an honest attester may find a receipt: the agreed one as it is
\* now, or one that was made up for it.
TreesFor(deed) == {log} \cup {<<receipt>> : receipt \in ReceiptsOf(deed)}

(* An honest attester vouches for what it saw, and for the place of its    *)
(* receipt, whatever action that receipt records.                          *)
Attest(key, role, deed, tree, leaf) ==
  /\ Cardinality(attested) < MaxAttested
  /\ tree[leaf] \in ReceiptsOf(deed)
  /\ attested' = attested \cup
       {attest_as(role, key, deed.chain, deed.requested, deed.outcome, Inclusion(tree, leaf))}
  /\ UNCHANGED <<vars, done, log, checkpoints, heads>>

RevocableIds == {b \in blocks : \E chain \in Chains : \E i \in DOMAIN chain : chain[i] = b}

Revoked == IF checkpoints = << >> THEN {} ELSE checkpoints[Len(checkpoints)]

\* The revocation log's next checkpoint: its map only grows.
PublishCheckpoint(ids) ==
  /\ Cardinality(heads) < MaxCheckpoints
  /\ checkpoints' = Append(checkpoints, Revoked \cup ids)
  /\ heads' = heads \cup {checkpoints'}
  /\ UNCHANGED <<vars, done, log, attested>>

\* The map and its log are in memory only, and the key is not: the service starts
\* another log under the key of the first.
RevocationLogRestart ==
  /\ checkpoints # << >>
  /\ checkpoints' = << >>
  /\ UNCHANGED <<vars, done, log, attested, heads>>

ComposedNext ==
  \/ Next /\ UNCHANGED evidence
  \/ \E chain \in Chains, requested, outcome \in Digests, nonce \in Nonce :
       Act(chain, requested, outcome, nonce)
  \/ \E chain \in Chains, action \in Digests, nonce \in Nonce : WitnessAppend(chain, action, nonce)
  \/ \E key \in HonestAttester, role \in Role, deed \in done : \E tree \in TreesFor(deed) :
       \E leaf \in DOMAIN tree : Attest(key, role, deed, tree, leaf)
  \/ \E ids \in SUBSET RevocableIds : PublishCheckpoint(ids)
  \/ RevocationLogRestart

ComposedSpec == ComposedInit /\ [][ComposedNext]_allVars

-----------------------------------------------------------------------------
(* What can be presented.  Dishonest parties point at any leaf of the      *)
(* agreed tree, and sign with what they have, or put a signature of an     *)
(* honest attester on another content.                                     *)

Claimed(claim, chain, inclusion, signature) ==
  Completion(chain, claim.requested, claim.outcome, inclusion, claim.attester_key, claim.role,
             signature)

OwnSignature(claim, chain, inclusion) ==
  sign(claim.signing_key, signing_payload(Claimed(claim, chain, inclusion, {})))

SignedWith(key) == {c \in attested : c.attester_key = key}

FalseCompletions(chain) ==
  UNION {{Claimed(claim, chain, Inclusion(log, leaf), signature) :
            signature \in {OwnSignature(claim, chain, Inclusion(log, leaf))}
                            \cup {c.signature : c \in SignedWith(claim.attester_key)}} :
           claim \in Claims, leaf \in DOMAIN log}

Completions(chain) == attested \cup FalseCompletions(chain)

\* The bundles of n attestations.
Bundles(chain, n) ==
  [attestations : [1 .. n -> Completions(chain)], threshold : 0 .. MaxBundle]

Receipts == {log[i] : i \in DOMAIN log} \cup UNION {ReceiptsOf(deed) : deed \in done}

\* The roots that gossip can have brought: of the agreed log, as it was or is.
TrustedRoots == {merkle_root(SubSeq(log, 1, n)) : n \in 0 .. Len(log)}

\* Any checkpoint under any head that has it, of any of the logs.
RevocationProofs == UNION {{[head |-> head, leaf |-> leaf] : leaf \in DOMAIN head} : head \in heads}

ProofMaps == UNION {[ids -> RevocationProofs] : ids \in SUBSET RevocableIds \ {{}}}

-----------------------------------------------------------------------------
(* Properties.                                                             *)

\* The keys whose word counts for a chain under a policy.
Anchors(chain, policy) ==
  {key \in AttesterKey \ {executor_key(chain)} :
     \/ key \in policy.trusted_attesters
     \/ policy.allow_counter_signed /\ chain_has_key(chain, key)}

Unsound(chain, policy) == {key \in Anchors(chain, policy) : ~ IsSound(key)}

\* The receipt is in the agreed log, and what it records was asked for and done.
WasDone(chain, receipt) ==
  /\ \E i \in DOMAIN log : log[i] = receipt
  /\ [chain |-> chain, requested |-> receipt.action_digest,
      outcome |-> receipt.action_digest, nonce |-> receipt.nonce] \in done

(* "Completeness ..., non-equivocation ..., and independent completion     *)
(* attestation (not self-reported)" (verify): if those that the policy     *)
(* trusts for this chain, other than the executor, are sound, an action    *)
(* that verify accepts was done as the receipt says, under that very chain *)
(* and for that invocation, and its receipt is in the log that gossip      *)
(* agrees on, whatever the others sign, replay or relabel.                 *)
AcceptedWasDone ==
  \A chain \in Chains : \A c \in Completions(chain), policy \in Policies :
    Unsound(chain, policy) = {} =>
      \A receipt \in Receipts, root \in TrustedRoots :
        verify(chain, receipt, c, root, policy) => WasDone(chain, receipt)

(* "No lone attester's word decides completion, and one compromised        *)
(* attester can't fabricate it" (ThresholdAttestation): the same of an     *)
(* accepted bundle, while the unsound keys that the policy trusts are      *)
(* fewer than the threshold that the verifier requires.                    *)
BundleWasDone ==
  \A chain \in Chains, receipt \in Receipts, policy \in Policies, required \in Required :
    Cardinality(Unsound(chain, policy)) < required =>
      \A n \in 0 .. MaxBundle : \A bundle \in Bundles(chain, n) :
        verify_threshold(chain, receipt, bundle, merkle_root(log), required, policy)
          => WasDone(chain, receipt)

\* All proofs are of the last checkpoint of a head or of later ones of its log.
NotBefore(proofs, head) ==
  \A id \in DOMAIN proofs : IsPrefix(head, proofs[id].head) /\ Len(head) <= proofs[id].leaf

(* "A revoked hop fails" (verify_with_revocation): if the proofs of an     *)
(* accepted action, alone or in a bundle, are not from before a head, no   *)
(* hop of its chain was revoked in that head's checkpoint, although each   *)
(* hop's proof may be of another checkpoint and under another head, the    *)
(* service may have restarted, and what it served is presented as anybody  *)
(* likes.  Of proofs from before, or of another log, nothing is said: the  *)
(* verifier compares no heads.                                             *)
AcceptedWasLive ==
  \A chain \in Chains, proofs \in ProofMaps :
    \/ \A head \in heads :
         NotBefore(proofs, head) => \A n \in DOMAIN chain : chain[n] \notin head[Len(head)]
    \/ \A receipt \in Receipts, root \in TrustedRoots, policy \in Policies :
         /\ \A c \in Completions(chain) :
              ~ verify_with_revocation(chain, receipt, c, root, policy, proofs)
         /\ \A required \in Required : \A bundle \in Bundles(chain, 1) :
              ~ verify_threshold_with_revocation(chain, receipt, bundle, root, required, policy,
                                                 proofs)

(* "An in-scope action for a different declared purpose no longer slips    *)
(* through" (PurposeMismatch): with the same trust, what is accepted with  *)
(* verify_with_purpose was asked for, and done, for the purpose of the     *)
(* last hop; and an honest delegator did delegate that hop for it.         *)
AcceptedServesPurpose ==
  \A chain \in Chains : \A c \in Completions(chain), policy \in Policies, params \in Params :
    Unsound(chain, policy) = {} =>
      \A receipt \in Receipts, root \in TrustedRoots :
        verify_with_purpose(chain, receipt, c, root, policy, params) =>
          LET hop == chain[Len(chain)]
        IN  /\ \E deed \in done :
                 /\ deed.chain = chain /\ deed.requested = deed.outcome
                 /\ deed.outcome.purpose = hop.purpose
            /\ hop.from_key \in Honest => \E m \in made : m.block = hop

(* Nothing that is right is refused: what an honest attester, anchored in  *)
(* its role, attests of an action done as asked and recorded is accepted   *)
(* by who trusts the root that it saw.                                     *)
HonestActionVerifies ==
  \A c \in attested, chain \in Chains, policy \in Policies :
    LET receipt == c.inclusion.of[c.inclusion.leaf]
    IN  /\ c.chain_digest = digest(chain)
        /\ c.attester_key # executor_key(chain)
        /\ \/ c.role = "ThirdParty" /\ c.attester_key \in policy.trusted_attesters
           \/ /\ c.role = "CounterSigned" /\ policy.allow_counter_signed
              /\ \E i \in DOMAIN chain : c.attester_key \in {chain[i].from_key, chain[i].to_key}
        /\ c.requested = receipt.action_digest /\ c.outcome = receipt.action_digest
        => verify(chain, receipt, c, c.witnessed_root, policy)

(* The inductive invariant: what carries an honest attester's signature    *)
(* says what was done, at a leaf that is a receipt of it; and what is      *)
(* revoked in a checkpoint is so in all later ones of the same log.        *)
HonestlyAttested ==
  \A c \in attested : \E deed \in done :
    /\ c.attester_key \in HonestAttester
    /\ c.inclusion.leaf \in DOMAIN c.inclusion.of
    /\ c.inclusion.of[c.inclusion.leaf] \in ReceiptsOf(deed)
    /\ c = attest_as(c.role, c.attester_key, deed.chain, deed.requested, deed.outcome, c.inclusion)

Grows(l) == \A i, j \in DOMAIN l : i <= j => l[i] \subseteq l[j]

CheckpointsGrow ==
  /\ Grows(checkpoints)
  /\ \A head \in heads : head # << >> /\ Grows(head)
=============================================================================
