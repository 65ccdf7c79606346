# index-one in TLA+

Specifications, model checks and proofs for the core of index-one: delegation chains,
the witness log and its service, the checkpoint witnesses, revocation in its three
forms, attestations and the verifier that puts them together. Paths below are relative
to the repository.

## 1. The system

index-one lets an organisation verify an action that an agent of another
organisation took: a *delegation chain* says who authorised it, a *receipt* in an
append-only log says that it was recorded, an *attestation* by somebody else says
that it was carried out, and *revocation* says that none of the chain's hops was
pulled meanwhile.

| Component | State | Operations | Talks to |
|---|---|---|---|
| `core/witness` | leaf hashes, memo of perfect subtrees | append, root, inclusion and consistency proofs, signed heads, `reconcile_heads`, the two verifiers | used by every log |
| `services/witness` | a `Witness` under a mutex, a file of frames | `POST entries`, `GET sth`, `proof`, `consistency`, `checkpoint`, `POST gossip`, replay at start | submitters, relying parties, the disk |
| `clients/checkpoint` | per witness, the last (size, root) it cosigned | `add_checkpoint`, `verify_quorum` | log operators, relying parties |
| `core/revocation` | per `SnapshotChecker`, the newest epoch it has trusted; per `ShortTtlChecker`, issue times | `is_revoked` of each checker and of `CompositeChecker`, `check_chain_revocation` | a `SnapshotSource`, a log transport |
| `services/revocation-log` | revoked set and epoch; a log-backed map | `revoke`, `snapshot`, `entries`; the v2 handlers | revokers, checkers (`clients/revocation-http`) |
| `core/revlog`, `core/revmap` | sparse Merkle map, checkpoint log, latest checkpoint | `revoke`, `publish_checkpoint`, `prove`, the verifiers | the v2 handlers, `core/verifier` |
| `core/chain` | the blocks of a chain | `issue`, `attenuate`, `verify` | everything above it |
| `core/attestation`, `core/verifier` | none: pure | `attest_as`, the k-of-n rule, the gates of `verify`, `verify_threshold` and their revocation and purpose wrappers | chain, witness, revlog |
| `core/crypto` | keys | sign, verify, hybrid signatures | everything |
| `core/cli` | none | the operations above, one request per call | the above |
| the rest | none of their own | SDKs, wasm, integrations, conformance, fuzzing, benchmarks, demonstrations | the above |

What is hard here, component by component, and what makes it correct:

* **Witness service.** Durability. A handler writes a length, a body, syncs, and
  only then changes memory and answers; a kill, a power loss or an I/O error can
  come between any two of these, and the next run believes the file. Correct means:
  no acknowledged receipt and no published head is ever contradicted by a later run,
  and the log is a chain of receipts each naming the root before it.
* **Merkle tree.** Index arithmetic at powers of two, and a memo that is never
  invalidated. Correct means: RFC 6962's root, and proofs that show exactly
  membership and extension.
* **Gossip.** Heads of several runs, proofs that go stale, operators that cheat.
  Correct means: what is declared consistent is of one history, and an honest
  operator is not convicted.
* **Cosigning.** Checkpoints in any order, witnesses that forget when they restart.
  Correct means: no two quorums contradict each other.
* **Revocation checkers.** Mirrors with old data, clocks that differ, mechanisms that
  cannot answer, threads that share a checker, a verifier and a service that forget when
  they restart. Correct means: no rollback below what was seen, bounded staleness, no
  silent un-revocation, no denial that an outage or another mechanism masks, and a
  revocation that takes effect in the end.
* **Log-backed revocation.** Proofs that are kept, parts of proofs put together, old
  checkpoints under new heads, two logs under one key. Correct means: only what was logged is
  shown, and of a revoked key only what was so before its revocation.
* **Chain.** Two statements of the same rules, absent limits, blocks moved between
  chains. Correct means: authority only narrows, and honest hops are where they were made.
* **Attestation, verifier, signatures.** Pure functions with many gates, whose inputs come
  from different parties. Correct means: pieces that are each genuine never add up to an
  action that was not done, one bad attester out of k decides nothing, one broken scheme
  out of two forges nothing, and nothing right is refused.

`PROJECT.json` lists the hazards at their lines, with the properties aimed at each.

## 2. Modules

| Module | Models | Extends or instantiates |
|---|---|---|
| `AppendOnlyLog` | what the witness service promises | |
| `WitnessService` | `services/witness/src/lib.rs`: `submit`, `Store`, the heads it signs | `AppendOnlyLog` by `INSTANCE` |
| `Consistency` | consistency proofs as the layers above the tree see them | |
| `WitnessGossip` | `get_consistency`, `gossip`, `reconcile_heads`, a cheating operator | `WitnessService`, `Consistency` |
| `Cosigning` | `clients/checkpoint/src/lib.rs` | `Consistency` |
| `MerkleTree` | `core/witness/src/lib.rs`: the tree and the verifiers | |
| `SnapshotRevocation` | `core/revocation/src/lib.rs`: the three checkers, `CompositeChecker`, `check_chain_revocation`; the v1 handlers of `services/revocation-log`, `clients/revocation-http` | |
| `DelegationChain` | `core/chain/src/lib.rs` | |
| `Signatures` | `core/crypto`: tags, framing, hybrid keys and signatures | |
| `ComposedVerifier` | `core/verifier/src/lib.rs`, `core/attestation/src/lib.rs`, receipts | `DelegationChain`, `Signatures` |
| `RevocationMap` | `core/revmap/src/lib.rs` | |
| `LogBackedRevocation` | `core/revlog/src/lib.rs`, the v2 handlers of `services/revocation-log` | `RevocationMap`, `Consistency` |
| `MC...` | constants for TLC | the module they are named after |
| `LogLemmas` | lemmas about prefixes, `SubSeq` and `Append`, and induction | |
| `WitnessServiceProofs`, `WitnessGossipProofs`, `CosigningProofs`, `SnapshotRevocationProofs`, `ComposedVerifierProofs` (with `DelegationChain` and `Signatures`), `LogBackedRevocationProofs` (with `RevocationMap`), `MerkleTreeProofs` | theorems | the component and TLAPS |

Operators commented as *variants* are the component with one plausible bug each.
They are not part of any specification; each property is known to fail when its
variant replaces the definition it varies (`PROJECT.json`, "mutants").

### Abstractions that all modules share

* Hashes are collision free, and a signature is made with its secret only (under
  `Signatures`, unless its scheme is `Broken`). The root of a log is the log itself (in
  `MerkleTree`, the term that was hashed).
* A receipt is what identifies the action plus the `prev_root` it is chained to.
* Requests come at any time, in any order and any number of times.

### WitnessService

State: `tree` (memory), `file` (the frames a read of the file would find, each
whole, cut short or garbled), `synced` (how many of them are on the device), `pc`
(where the handler that holds the mutex is), `up`, and two records of what the
world was told: `acked` (201 replies) and `heads` (signed heads that somebody keeps).

`submit` is four steps, because a crash can separate them: `BeginSubmit`
(the comparison of `prev_root`, and `write_all` of the length), `WriteBody`,
`SyncAll`, `Reply`. `AppendFails` is the `?` of a failed write or fsync; it leaves the
bytes. `Open` is `Store::open`: replay of the whole frames, truncation of a torn
last one, and an fsync only if something was truncated. `ProcessCrash` keeps the
page cache, `PowerLoss` keeps what was synced, any longer prefix, and possibly one
torn frame. `Faults` says which of the three faults a behaviour may contain.

A cut frame that is not the last makes the replay read lengths and bodies that
straddle frames: `Open` may then truncate there, or refuse to start (no step).
Not modelled: a power loss that leaves zeros where a length was written, and the
service without a database, which the code documents as ephemeral.

The run `WitnessService` has all three faults. Its one limit is `QuietAfterFailure` (in `MCQuietFailures`): after a failed
append, a restart comes before the next one. Without it an acknowledged receipt is lost (the
finding of `WitnessIoRestart`), so that the two runs together say what the bytes of a
failed append can harm: what is appended behind them, and nothing before. (A frame that is whole, though
refused with 500, may be registered by the restart.)

### WitnessGossip

Adds the proof a relying party fetched last and the answer to the last
reconciliation. Proofs may be used late, and for other heads than they were
fetched for. The answer to heads without a matching proof is `inconsistent`, which `POST
gossip` sends as an equivocation: that answer alone shows no fork, while `consistent` and
`forked_root` do mean what they say. (`services/witness/README.md:54-57` calls every 409
non-repudiable evidence; an honest pair without its proof gets one too, so that no property
says so.) `Equivocate` is an operator that signs a head of a log it does not serve.

The run lets the service be killed, lose power or go on after failed writes, one kind of fault
per behaviour (`kind` in `MCWitnessGossip`): what two kinds together can do is shown by the findings of
`WitnessHeads` and `WitnessIoRestart`.

### Cosigning

One log, several witnesses with their `seen`, and the set of checkpoints each ever
signed. `Volatile` witnesses may restart, which empties `seen` and not what was
signed. Checkpoints commit to as many leaves as they say, except that the root under
size 0 is arbitrary, because `add_checkpoint` never compares it. Each log has its
own witness struct in the code, so the origin is left out.

### MerkleTree

State: `leaf_hashes`, and `subtree_cache`, the memo of perfect subtrees. The machine is:
append a receipt, or call any reader, which takes `&self` and still fills the memo.

`subtree`, `subtree_path` and `subproof` are recursive functions of the length of the range
(`Subtree`, `SubtreePath`, `Subproof`). Each returns its result and what it adds to the memo; a
call visits a range of leaves once, so that it never reads what it added itself. The loops of
`verify_consistency` are a function of the level (`Walk`): `node` and `last` after so many
halvings are `PlaceAt`, and the first loop ends at `Climbed`. The loop of `split_point` is
`Doublings`. `MaxLeaves` bounds the log; all that is assumed of it is that a length is a
`usize`, which is why no path reaches `MAX_PROOF_PATH`.

### SnapshotRevocation

A thread checks a chain hop by hop (`hop`), and asks about each hop the mechanisms of its
`CompositeChecker` in order (`at`). `AskTtl` and `AskLog` are one step each: one
reads a fixed registry, the other fetches all entries once, and neither writes. `SnapshotChecker::is_revoked`
is three, because `&self` is shared by threads: `Fetch` (any snapshot that was ever
signed), `Load` (the comparison with `last_seen_epoch`) and `Store` (the age, the store,
the lookup). What a mechanism said goes through `Said`: a denial is the composite's
answer at once, an error is its answer only if nobody denies. `FetchFails` and the second
half of `AskLog` are a transport that gives no answer, or none that parses and verifies.

`Revoke` and `SignSnapshot` are two steps because the handler releases the mutex between
them. `ServiceRestart` is the end of the set in memory: the next process counts epochs from
0 again under the same key, and the old snapshots remain with the mirrors.
`CheckerRestart` empties a checker and drops its calls in flight. `Ahead` is how far the service's clock
is ahead. The ttl registry is fixed at the beginning, as it is once a checker is boxed into a
composite. History variables record what a checker had seen, and what was published, when a
call, or a chain, began.

### DelegationChain

State: `made`, the blocks that honest parties made, each with the tail it was made
on; `forged`, the blocks of everybody else; and `verified`, the blocks that the loop
of `verify` has passed, which is a chain that `verify` accepts. `Issue` and `Attenuate`
are the two constructors: every failed call changes nothing. `Forge` signs any
content, linked to any block, under any dishonest key. `VerifyRoot` and `VerifyHop` are
the part of `verify` before its loop and one turn of it; the blocks are picked by
whoever assembles the chain. `Chain::attenuate` does not verify the chain it
extends, so an honest holder may build on a forged tail.

A block is its own digest, and a signature is the key that made it. Constraints are
two sets per permission, one of amounts and one of resource sets; an option is a set of
at most one element. What a scope *means* is stated apart from the code's comparisons,
as the set of single payments it lets its holder make (`Authority`). A currency is
always given (a `None` is compared like any other value), and `display_name`, which is
part of a principal's identity for `verify`, is part of the principal. `Chain::verify`
compares expiries with each other and with no clock, and so does the model.

### Signatures

A plain signature is the term of its payload and secret, a key is its secret, and both
carry their algorithm. A hybrid frames two of them; `frame_two` and `decodes_two` are what
the framing accepts. `HybridSigner::new` takes two signers of one algorithm as well, and so
does the model. `Sound` says when a key still means something: one component whose scheme
is not broken and whose secret is with somebody honest.

### ComposedVerifier

The verifiers are pure, so they are predicates over everything that can be presented in a
state, and the state is what really happened: `done` (deeds of agents), `log` (the tree
that gossip agrees on), `attested` (what honest attesters signed), `checkpoints` (of the revocation log
as it runs) and `heads` (the logs, each a sequence of checkpoints, of which a head was ever
signed), beside the state of `DelegationChain`. `Act` may do something else than
was asked for, `WitnessAppend` takes receipts of things that were never done (the service
asks nobody), and `Attest` is an honest attester that reports what it saw, at any leaf
where a receipt with the chain and nonce of the deed is, whatever action that receipt
records. What can be presented (`Completions`, `Bundles`, `ProofMaps`) contains
all that, what others sign with their own or with broken keys (`Claims`), and honest signatures put
on other contents. A bundle may repeat an attester, and declares its own threshold.

A counter-signer is whoever `chain_has_key` finds in the chain. The role's documentation says
"the immediate delegator" (`core/attestation/src/lib.rs:31-33`), which is narrower than the
code; `AcceptedWasDone` therefore asks that all of the chain's keys but the executor's be sound.

`RevocationLogRestart` is the restart of the revocation service: another log under the same key.
`verify_chain_not_revoked` pins that key and compares no heads, so that a proof is any
checkpoint under any head of any of these logs. `AcceptedWasLive` says what follows:
proofs that are not from before a head (`NotBefore`) accept no hop revoked in it.
Of an older proof, or one of the log that a restart began, nothing follows; a chain
revoked in every checkpoint of one log passes with a proof of the other.

A digest is the set of what was hashed. Of a Merkle tree only membership at a leaf is
used, as `MerkleTree` shows it of inclusion proofs; of a revocation proof, what is so in its
checkpoint, as `LogBackedRevocation` shows it. Names of attesters and the particular
error are left out.

### RevocationMap and LogBackedRevocation

`RevocationMap` is the algorithm: keys are numbers of `DEPTH` bits in a sorted sequence,
which the code splits at a point that is right only if the order of the bits is the
order of the keys. A recursion of the code over the depth is a recursive function of the
height, one function of a level at a time, so that it can be reasoned about (`Roots`, `OnPath`,
`Folded`). A proof is the bitmap, as a set of levels, with its siblings. `Tree` is the reference:
the tree with an explicit leaf for every key.

`LogBackedRevocation` is the machine: `keys`, `log` (the leaves, which are checkpoints),
`epoch` and `latest`, each handler one step under the mutex, and `Restart`, since the
service keeps nothing on disk; `signed` are the heads it signed. `proofs` are the proofs that
were served, each with the map of that moment (history). `Presented` is what a presenter, or
an operator, makes of one: the checkpoint and map proof at any leaf of any signed head, which
is all that `map_root_is_logged` looks at; nothing compares the leaf with the size of the head. The
client takes it (`Take`) if the head is consistent with its last one (`anchor`), and remembers
which keys it saw revoked, in which epoch (`known`). So an old checkpoint under the newest head
shows a revoked key live again, although the document says that consistent heads rule this out:
the finding of `OldCheckpoint`. What consistent heads do give is `LiveOnlyBeforeRevoked`: the
epoch that such a proof names is before that of the revocation.

There is no such client in `src/`: the code offers `v2_consistency` and
re-exports `verify_consistency` for it, and `docs/REVOCATION_TRANSPARENCY.md` describes
it, so that it is marked external. `verify_chain_not_revoked` of `core/verifier` is the
client without an anchor (`ComposedVerifier`), and `ServedProofsAreExact` and `OnlyLoggedRoots` are for it too.

What depends only on the map (`RootIsWholeTree`, `MapProofsSound`) is checked in the states
before the first checkpoint (`Fresh`), where every content of the map is reached; the theorems
need no such restriction.

## 3. Model checking

| Run | Question | Answer |
|---|---|---|
| `WitnessService` | Kills and power losses anywhere, and I/O errors with a restart before the next append: is an acknowledged receipt lost, does a restart fail, does the log fork, does the service implement `AppendOnlyLog`, is a synced receipt served in the end? | holds |
| `WitnessHeads` | ... and is a published head ever lost? | yes: kill before the fsync, restart, power loss (finding) |
| `WitnessIoRestart` | ... and with appends behind a failed one, before the restart? | acknowledged receipts are lost (finding) |
| `WitnessGossip` | Do consistent heads share a history, and is an honest operator ever convicted of a forked root, does it serve every head it published, and are acknowledged receipts on the device: across kills, power losses, or I/O errors after which the process runs on? | holds |
| `Cosigning` | Can a forking log get two contradicting quorums, when one of four witnesses forgets? | no |
| `MerkleTree` | Are the roots and proofs RFC 6962's, and does each verifier accept exactly what it should? | yes, up to 8 leaves |
| `SnapshotRevocation` | All three mechanisms in a composite, a transport that fails, mirrors with any old snapshot, restarts of both sides: rollback, staleness, un-revocation, masked denials, and does a revocation take effect in the end? | holds |
| `SnapshotRace` | ... and with two threads that share a checker? | the epoch can go back (finding) |
| `DelegationChain` | Does a chain that is accepted only narrow, keep to its depth, and contain only genuine hops of honest keys? Is what any composed verifier accepts done, recorded, live and for its purpose, and is what is right accepted? | holds |
| `LogBackedRevocation` | Is the sparse map the whole tree, are served proofs exact and made-up ones refused, and is a revoked key shown live, under consistent heads, by an epoch before its revocation only, also after a restart? | holds |
| `OldCheckpoint` | ... and can a consistent client be shown at all that a key it saw revoked is live? | yes: by an old checkpoint under the newest head (finding) |
| `CompactProofs` | ... and are the map's proofs compact? | no: every empty sibling is sent (finding) |

**Bounds.** `MaxFrames` is 3 frames in the file: a durable frame, a frame that
is being written, and one behind it are the cases the code tells apart.
`MaxHeads` is 1 or 2 heads kept: a contradiction needs two. Receipts are two
actions with every possible `prev_root` of chained logs up to `Depth`. `MaxLeaves`
is 8: all shapes of left and right subtrees up to depth 3, both sides of every power of
two. Four witnesses, one of which forgets, with threshold 3, is the smallest
case where quorums overlap in a steady witness and yet not all must sign.
In `SnapshotRevocation` the chain has two hops, `MaxStaleness` is 0 and `Ahead` 1, so that
both saturation and staleness occur, and `MaxTime` is longer than their sum, so that
snapshots do go stale. Revocations stop after time 0 (`LastRevocation`), which still leaves all
orders of two revocations, reads, checks and restarts, and both the root's and the
delegation's revocation unread; blocks are registered at 0 or for longer than the run, with a `Ttl` of 1. In
`MCSpec` some mirror reads every snapshot that the service can sign before anything else
happens (`MirrorsRead`): a check may still be handed any of them, or none. The mirrors'
reading is fair in that run; `SnapshotRace` needs neither.
`MaxBlocks` is four blocks: a chain of a root and two hops, and a block of another chain
to splice in. The scopes are chosen so that a limit, a set or a budget is absent in one
and present in another; each forgery is right in all but one part.
Evidence (`ComposedVerifier`) is gathered under the chains of two blocks only (`Cases`,
`Phases`): a deed, a receipt of it before or after one that differs from it in the chain,
the action or the nonce, an attestation of either, three heads of the revocation log before and
after restarts, and bundles of up to
two out of that attestation, a lying attester, a lying party of the chain, and an honest
attester's key of which the Ed25519 half is forged. `Phases` fixes an order of these steps,
revocation last,
which verifiers cannot tell, since they look at what exists and not at when it came, and keeps to
receipts that are right in all but one part; the theorems are without these limits.
`DEPTH` is 2: an empty subtree of more than one leaf, a leaf next to an empty one and two
leaves below one node all occur with the keys 0, 1 and 3. Two checkpoints before and two after
the restart let a forgotten log grow past the client's head.
`DelegationChain`, `LogBackedRevocation` and the two runs of the same module that are findings do
not check deadlock: four blocks may all be refused, and a client may be left without a proof it
can use.

**Fairness.** `RevocationTakesEffect` assumes that the clock runs (`WF(Tick)`) and that each
thread goes on checking (`WF(Works)`): a fetch ends with an answer or with its timeout, and
the chain is presented again. Nothing is assumed of what a fetch returns, and the mirrors may
hand out the oldest snapshot for ever; the age stops that. It says that a revocation which
stays, in the set or in the log, is refused from some time on; a service that restarts and
forgets the set keeps no such promise, and `RevokedSticks` excludes it.

`SyncedIsServed` assumes weak fairness of the steps of a handler that
holds the mutex (it awaits nothing, so it runs to its end) and of `Open` (a supervisor
restarts the service). No request, crash or fault is assumed to happen, and crashes may
go on for ever: the receipt is served between two of them.

## 4. Proofs

All theorems are for every value of the constants, under the constants' assumptions.

| Theorem | Says | Assumes |
|---|---|---|
| `AckedReceiptsAreDurable` | `TypeOK`, `AckedSurvive`, `OnlyTailTorn`, `ServedLogChained` | no I/O errors |
| `SignedHeadsAreDurable` | `HeadsSurvive` | only one of the two kinds of crash, no I/O errors |
| `RestartsServeHeads` | `HeadsServed` (heads are prefixes of what is served), `AckedOnDevice`, across restarts | only one of the two kinds of crash, no I/O errors |
| `FailedAppendsHarmNothing` | `TypeOK`, `HeadsServed`, `AckedOnDevice`, after any I/O errors | no crashes |
| `ServiceImplementsLog` | the service implements `AppendOnlyLog` | no I/O errors |
| `ConsistentHeadsAgree` | `ConsistentMeansOneHistory`, whatever the operator signs | no I/O errors |
| `HonestOperatorKeepsFaith` | `HonestLogNeverForked`, `HonestHeadsServed`, `AckedOnDevice`, and `HeadsSurvive` while the operator is honest | only one of the two kinds of crash, no I/O errors |
| `FailedAppendsKeepFaith` | `ConsistentMeansOneHistory`, `HonestLogNeverForked`, `HonestHeadsServed`, `AckedOnDevice`, after any I/O errors | no crashes |
| `WitnessesCosignOneHistory` | `TypeOK`, `CosignedIsOneHistory`, for any signed checkpoints | |
| `QuorumsNeverFork` | `QuorumsAgree` | `QuorumsOverlap` |
| `SnapshotTypeCorrect`, `DenialsAreHeard`, `AcceptedIsFresh` | `TypeOK`, `NothingMasks`, `AcceptedWasRecentlyLive`, with shared checkers and all restarts | |
| `UnsharedRejectsRolledBack`, `UnsharedRevokedSticks` | `RejectsRolledBack`, `RevokedSticks` | no checker is shared |
| `Narrowing` | `AuthorityNarrows` and `HopsWithinDepth`, for chains of every length | |
| `NoSplicing` | `HonestHopsAreGenuine`, whatever dishonest keys sign | |
| `AttenuateAgrees` | `AttenuatedVerifies` | |
| `SignVerifies`, `ValidMeansEverySecret`, `SoundNeedsItsHolder` | what is signed verifies; a valid hybrid signature took both secrets | |
| `RootsDiffer`, `ProofsAreSound`, `ProofsAreComplete` | of the sparse map, for every depth: a root stands for one set of keys, no made-up proof contradicts it, and the map's own proofs verify | |
| `LogTypeCorrect`, `MapIsWholeTree`, `MadeUpProofsFail`, `ServedProofsSayWhatWas`, `LiveOnlyByALoggedRoot`, `LaterEpochsKeepRevocations` | `TypeOK`, `RootIsWholeTree`, `MapProofsSound`, `ServedProofsAreExact`, `OnlyLoggedRoots` (and `ShownLiveByTheLog`), `LiveOnlyBeforeRevoked` | |
| `MemoIsNeverStale`, `RootIsTheReference`, `InclusionMeansMembership` | `CacheNeverStale`, `RootIsReference`, `InclusionProvesMembership`, for logs of every length | |
| `ConsistencyMeansPrefix`, `MangledProofsAreRefused` | `ConsistencyProvesPrefix`, `MangledProofsFail`, for every pair of sizes | |
| `InclusionIsSound`, `ConsistencyIsSound`, `ConsistencyIsComplete` | of the verifiers: any path that is accepted is of a receipt in the log, any nodes that are accepted are about the old log's own root, and the served proof is accepted | |
| `KeepsChains` | the composed system implements `DelegationChain` | |
| `ComposedTypeCorrect`, `VerifiedActions`, `VerifiedBundles`, `VerifiedLive`, `VerifiedPurpose`, `HonestActionsPass` | `ComposedTypeOK`, `AcceptedWasDone`, `BundleWasDone`, `AcceptedWasLive`, `AcceptedServesPurpose`, `HonestActionVerifies` | |

None of `WitnessService`'s properties is inductive by itself: that a restart keeps
the acknowledged receipts depends on what is in the file and on the device while
a submission is half-way. `Inv` adds that memory is the file without the frame in
progress (`TreeMirrorsFile`), that only that frame is torn and what was synced is whole
(`FramesWhole`), that the file is chained, and that every acknowledged head is a
synced prefix of it (`AckedSynced`). Each action preserves `Inv` by a lemma of its
own; the properties follow. For heads, `ServedSynced` adds that without process
crashes nothing is served before it is synced, and `HeadsWritten` that a published
head is a prefix of whole frames. I/O errors break `TreeMirrorsFile` (a frame that was refused
stays in the file), so that the service that runs on has an invariant of its own: `IoInv` says of the
frame in progress only that it is the last one, whole before it is synced
(`FrameInProgress`), and a frame once whole on the device stays so. That is all the service
promises after an error; a restart then is the finding of `WitnessIoRestart`.

For gossip, `GossipInv` adds to that (and `GossipStateOK` to `IoInv`) that the proof a relying party holds is one of a
growing log; a verified proof then relates the two heads (`ReconciledIsOneHistory`). While the
operator is honest, all heads are cuts of the log in the file (`HonestInv`), and two cuts of
one length are equal, so that no pair is a fork. After I/O errors they are prefixes of what the
service serves (`HonestIoInv`), with the same consequence.

For cosigning, `CosignedUpToSeen` says that a steady witness's memory extends all it
ever signed. Two prefixes of one log are comparable, and two quorums larger
together than all witnesses plus the volatile ones share a steady witness
(`QuorumsShareSteadyWitness`, by counting).

For revocation, `Progress` states what a check of a chain has established when it is half-way:
every mechanism let all earlier hops pass, and those asked so far this one, unless one
could not answer. What "let pass" means is put in terms of the moment at which the
check began (`Passes`), so that it stays true while others publish, revoke and restart. `SignedWasLive`
says that an id that a snapshot leaves out was live until the snapshot was signed,
`InFlight` that a call holds a snapshot that was signed. For checkers that are not shared,
`SeenIsNewest` says that `last_seen_epoch` is the newest epoch trusted and that a call between
load and store holds nothing older; while the service runs on, `EpochsCount` that a higher epoch
is a larger set, and `ToldIsTrue` that whatever a checker called revoked is in every snapshot
that it may still trust. `SnapshotInv` is their conjunction with the types.

For chains, `ScopeNarrows` shows that the code's order on scopes is sound for what scopes
mean, and a chain then narrows hop by hop: the last hop is compared with its
predecessor, the rest is the property before the step. `VerifiedIsChain` and
`MadeIsGenuine` add that verified blocks follow one another and that only `issue` and
`attenuate` sign with honest keys; a block in the chain is then the very one that was
made, and its `prev_block_hash` names what it was made on.

For the composed verifiers, the invariants are `HonestlyAttested` (what honest attesters
signed is about a deed, at a leaf that is a receipt of it) and `CheckpointsGrow` (in each log
that a head was signed of, what is revoked stays so; a restart begins a log of its own). A valid
signature under a sound key was made by its holder (`SoundNeedsItsHolder`), so that an accepted
attestation is one of `attested`, and the gates tie its deed to the receipt that is
presented. In a bundle, the signers that count have distinct keys, and more of
them than the policy has unsound ones, so that one is sound (by counting). `KeepsChains` is the
refinement that lends the theorems about chains to the composed system.

For the sparse map, everything is compared with `Tree` by induction over the height. A
subtree of sorted keys parts where the next bit turns from 0 to 1 (`Parting`), because the node
that a key is below is its quotient by a power of two and quotients keep the order; so the
root that skips what is empty is the root of the tree (`RootsAreTrees`). Hashes are injective,
so two trees with one root have the same leaves (`TreesAgree`), and a fold that reaches the
root meets the tree's nodes all the way down, whatever siblings it was given (`FoldedIsTree`). A
sibling is never the default it is compared with (`NeverDefault`), which is the finding of
`CompactProofs` and the reason why the proofs verify all the same (`NothingLeftOut`).

`LogInv` puts this to use. A root names its set of keys (`KeysOf`); the checkpoints of a log are
roots of sets that grow (`Growing`), the epoch of each is its place, in the running log and in all that a head was signed of; a
served proof ends in the checkpoint it is about (`ProofsMade`); and what a client knows, with
its epoch, is in the log whose head it took last (`KnownLogged`). A consistent head extends
that log (`ConsistentExtends`), so that a checkpoint of it that shows a known key live, at
whatever leaf, has an earlier place, and so an earlier epoch, than the one that revoked the key. A restart
forgets the service's log, but not what it signed, and `LogInv` says nothing that ties the two
together.

The induction itself is `Induct`, for sets of numbers, from the well-foundedness of `<`. The
values of a recursive function are obtained from it first (`RootsDef`, `TreeDef` and the like).

For the Merkle tree, `TreeInv` says that the log is a sequence of leaf hashes and that each
entry of the memo is the reference hash of the leaves it stands for (`Fresh`). By induction over the length of a range,
a call that finds such a memo returns the reference hash and adds only such entries
(`SubtreeIs`); the code's split is RFC 6962's (`RfcSplit`); an append changes no range that an
entry is about (`AppendKeeps`). A path is no longer than the logarithm of its range and folds to its root (`PathIs`). As
hashes are injective, ranges of one length and one hash have the same leaves (`HashesAgree`).

The two halves of a consistency proof have different shapes: `subproof` descends over ranges, the verifier climbs over
levels. They meet in the levels of the new tree. At each level stand the subtree with the old
log's last leaf, as the old tree has it (`OldHash`) and as the new one has it
(`NewHash`), and the sibling that the level takes, if any (`Takes`, `Sibling`); `NodesAt` collects
the siblings up to a level, and is what `subproof` pushes. The loops rebuild both hashes
from these nodes (`WalksAreComplete`). Downwards, from a new root that is right, injectivity makes each
node that was taken the sibling and both rebuilt hashes those of the level, whatever nodes were
shown (`WalksAreSound`); so the old root is right too. A proof that is accepted has exactly as many
nodes as there are levels that take one (`AcceptedLength`), which refuses a node missing or too many; a root tells how many leaves
it is over (`HashTellsSize`), which refuses another old size.

Every safety property of a passing run is a theorem. Model-checked only: those of `WitnessService`
in the presence of I/O errors and crashes together (under `QuietAfterFailure`), and the liveness
properties `SyncedIsServed` and `RevocationTakesEffect`, which need fairness.

## 5. Not modelled

* **What a caller does with the result.** `Chain::verify` compares expiries with each other and
  with no clock, and returns the scope; that the caller looks at it is up to the caller.
  A relying party that requires a threshold of 0 gets what it asked for: `BundleWasDone` speaks of
  thresholds above the number of unsound anchors, so it says nothing of 0.
  An attestation made before the log grew is refused under the newer root; which root to ask for
  is up to the relying party, and `HonestActionVerifies` is about the one the attestation names.
* **Checkers that share an epoch across restarts of the service.** A service that restarted
  counts the same epochs again, so that `RevokedSticks` excludes it; nothing in the code
  promises otherwise. The race of threads that share a checker is the finding of `SnapshotRace`.
* **The service without a database**, which the code documents as ephemeral; a power
  loss that leaves zeros where a frame's length was written.
* **Encodings**: JSON, hex, the text of signed notes, canonical bytes. They are abstracted
  by what they distinguish. The command line is these and the operations above.
* **The primitives** behind `core/crypto` (dalek, ml-dsa, blake3, the random numbers).
* **SDKs, wasm and language bindings; payment-rail and MCP integrations**: serialisation and calls
  around the core, with no state of their own. Conformance vectors, fuzzing, benchmarks
  and demonstrations exercise the core and add nothing to it.
