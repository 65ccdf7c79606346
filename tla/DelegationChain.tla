-------------------------- MODULE DelegationChain --------------------------
(***************************************************************************)
(* core/chain: capability tokens.  A root block grants a scope, and each   *)
(* further block hands a narrower one to the next key.  Honest parties     *)
(* make blocks with Chain::issue and Chain::attenuate only; the others     *)
(* sign what they like with their own keys.  Anybody may put blocks that   *)
(* exist into a chain, and a relying party runs Chain::verify on it.       *)
(*                                                                         *)
(* `verified` is what the loop of verify has passed so far.  The loop looks *)
(* at one block after the other, so this is also a chain that verify       *)
(* accepts, and the scope of its last block is the result.                 *)
(***************************************************************************)
EXTENDS Naturals, Sequences, FiniteSets

CONSTANTS
  Key, Principal, Purpose,
  Blank,                        \* a purpose that is empty when trimmed
  Action, Resource, Currency,
  MaxAmount,                    \* u64::MAX
  RootKey,                      \* the key the relying party trusts
  Honest,                       \* the keys that sign in `issue` and `attenuate` only
  Scopes,                       \* the scopes that honest parties ask for
  Forgeries,                    \* what the holders of the other keys sign
  MaxBlocks                     \* bound: blocks in existence

Amount == 0 .. MaxAmount

(* The constraints of a permission, by kind: every amount_max, and every   *)
(* resource_in.                                                            *)
Permission == [action : Action, amounts : SUBSET Amount, resources : SUBSET SUBSET Resource]

(* The budget is a set of one number, or empty for None.                   *)
Scope ==
  [permissions : SUBSET Permission, budget : {{}} \cup {{n} : n \in Amount},
   currency : Currency, max_depth : Nat, expires_at : Nat]

(* A block hands `scope` from one principal and key to another.  A root    *)
(* block has no `prev`, and hands its principal's scope to that principal. *)
(* `signer` is the key whose signature the block carries.                  *)
Block(prevs) ==
  [from : Principal, from_key : Key, to : Principal, to_key : Key, scope : Scope,
   purpose : Purpose, signer : Key, prev : prevs]

ASSUME KeyAssumption == RootKey \in Honest /\ Honest \subseteq Key /\ Blank \in Purpose
ASSUME AmountAssumption == MaxAmount \in Nat /\ MaxBlocks \in Nat
ASSUME ScopesAssumption == Scopes \subseteq Scope
ASSUME ForgeriesAssumption == Forgeries \subseteq {b \in Block({{}}) : b.signer \notin Honest}

VARIABLES
  made,       \* what honest parties did: [on, block], a block made on a tail, or on none
  forged,     \* the blocks that other parties signed
  verified    \* the blocks that Chain::verify has passed

vars == <<made, forged, verified>>

blocks == forged \cup {m.block : m \in made}

(* blake3 of the whole block, which holds the digest of the block before   *)
(* it: the digest of a block is the block.                                 *)
Digest(b) == {b}

TypeOK ==
  /\ blocks \subseteq Block(SUBSET blocks)
  /\ made \subseteq [on : SUBSET blocks, block : blocks]
  /\ verified \in Seq(blocks)

Init ==
  /\ made = {}
  /\ forged = {}
  /\ verified = << >>

-----------------------------------------------------------------------------
(* Scopes.                                                                 *)

\* Variant: a child without limits of its own is not compared.
OwnLimitsAreLower(perm, parent) ==
  \A own \in perm.amounts : \A limit \in parent.amounts : own <= limit

\* The tightest limit of a permission is no higher than its parent's.
AmountNoHigher(perm, parent) ==
  \A limit \in parent.amounts : \E own \in perm.amounts \cup {MaxAmount} : own <= limit

\* Several resource sets intersect.
ResourceSet(perm) == {r \in Resource : \A set \in perm.resources : r \in set}

authorizes_subset_of(perm, parent) ==
  /\ perm.action = parent.action
  /\ AmountNoHigher(perm, parent)
  /\ parent.resources # {} => perm.resources # {} /\ ResourceSet(perm) \subseteq ResourceSet(parent)

is_narrowing_of(scope, parent) ==
  /\ \A perm \in scope.permissions : \E p \in parent.permissions : authorizes_subset_of(perm, p)
  /\ parent.budget # {} => scope.budget # {}
  /\ \A child \in scope.budget, limit \in parent.budget : child <= limit
  /\ scope.budget # {} /\ parent.budget # {} => scope.currency = parent.currency
  /\ scope.expires_at <= parent.expires_at

\* Variant: the depth need not shrink.
NoDeeper(scope, parent) == scope.max_depth <= parent.max_depth

Shallower(scope, parent) == 0 < parent.max_depth /\ scope.max_depth < parent.max_depth

Narrower(scope, parent) == Shallower(scope, parent) /\ is_narrowing_of(scope, parent)

-----------------------------------------------------------------------------
(* Who makes blocks.                                                       *)

Room == Cardinality(blocks) < MaxBlocks

Root(principal, key, scope) ==
  [on |-> {},
   block |-> [from |-> principal, from_key |-> key, to |-> principal, to_key |-> key,
              scope |-> scope, purpose |-> Blank, signer |-> key, prev |-> {}]]

Issue(principal, key, scope) ==
  /\ Room
  /\ made' = made \cup {Root(principal, key, scope)}
  /\ UNCHANGED <<forged, verified>>

\* The block that `attenuate` pushes on the tail of a chain, with that tail.
Hop(tail, to, to_key, scope, purpose) ==
  [on |-> Digest(tail),
   block |-> [from |-> tail.to, from_key |-> tail.to_key, to |-> to, to_key |-> to_key,
              scope |-> scope, purpose |-> purpose, signer |-> tail.to_key,
              prev |-> Digest(tail)]]

\* Variants: the guards on the scope are left to verify; a chain is kept as its
\* last block.
AttenuateFreely(tail, to, to_key, scope, purpose) ==
  /\ Room
  /\ purpose # Blank
  /\ made' = made \cup {Hop(tail, to, to_key, scope, purpose)}
  /\ UNCHANGED <<forged, verified>>

AttenuateAndDrop(tail, to, to_key, scope, purpose) ==
  /\ purpose # Blank
  /\ Narrower(scope, tail.scope)
  /\ made' = {m \in made : m.block # tail} \cup {Hop(tail, to, to_key, scope, purpose)}
  /\ UNCHANGED <<forged, verified>>

(* Only the tail of the chain matters, and only its key may go on: every   *)
(* other call returns an error and changes nothing.  The chain itself is   *)
(* not verified.                                                           *)
Attenuate(tail, to, to_key, scope, purpose) ==
  /\ Room
  /\ purpose # Blank
  /\ Narrower(scope, tail.scope)
  /\ made' = made \cup {Hop(tail, to, to_key, scope, purpose)}
  /\ UNCHANGED <<forged, verified>>

\* Any content, linked to any block or to none, under the signer's own key.
Forge(content) ==
  /\ Room
  /\ \E prev \in {{}} \cup {Digest(b) : b \in blocks} :
       forged' = forged \cup {[content EXCEPT !.prev = prev]}
  /\ UNCHANGED <<made, verified>>

-----------------------------------------------------------------------------
(* Chain::verify.                                                          *)

\* Variant: the signature is not looked at.
AnySignature(b) == b.signer \in Key

SignatureValid(b) == b.signer = b.from_key

\* Variant: no look at the digest of the block before.
LinkedByKey(tail, b) == b.from_key = tail.to_key /\ b.from = tail.to

Linked(tail, b) ==
  /\ b.from_key = tail.to_key
  /\ b.from = tail.to
  /\ b.prev = Digest(tail)

Continues(tail, b) ==
  /\ Linked(tail, b)
  /\ b.purpose # Blank
  /\ Narrower(b.scope, tail.scope)
  /\ SignatureValid(b)

VerifyRoot(b) ==
  /\ b.prev = {} /\ b.to = b.from /\ b.to_key = b.from_key
  /\ b.from_key = RootKey
  /\ SignatureValid(b)
  /\ verified' = <<b>>
  /\ UNCHANGED <<made, forged>>

VerifyHop(b) ==
  /\ verified # << >>
  /\ Continues(verified[Len(verified)], b)
  /\ verified' = Append(verified, b)
  /\ UNCHANGED <<made, forged>>

Next ==
  \/ \E principal \in Principal, key \in Honest, scope \in Scopes : Issue(principal, key, scope)
  \/ \E tail \in blocks, to \in Principal, to_key \in Key, scope \in Scopes, purpose \in Purpose :
       tail.to_key \in Honest /\ Attenuate(tail, to, to_key, scope, purpose)
  \/ \E content \in Forgeries : Forge(content)
  \/ \E b \in blocks : VerifyRoot(b) \/ VerifyHop(b)

Spec == Init /\ [][Next]_vars

-----------------------------------------------------------------------------
(* Properties.                                                             *)

(* What a scope lets its holder do, by the meaning of its parts: single    *)
(* payments within every limit of one of its permissions and within the    *)
(* budget, which is in the scope's currency.                               *)
Payment == [action : Action, resource : Resource, amount : Amount, currency : Currency]

Permits(perm, use) ==
  /\ perm.action = use.action
  /\ \A limit \in perm.amounts : use.amount <= limit
  /\ \A set \in perm.resources : use.resource \in set

Authority(scope) ==
  {use \in Payment :
    /\ \E perm \in scope.permissions : Permits(perm, use)
    /\ \A limit \in scope.budget : use.amount <= limit /\ use.currency = scope.currency}

(* "Monotonically narrowing permission envelope" (Scope): in a chain that  *)
(* verify accepts, no block authorises a payment, or lasts for a time,     *)
(* that some block before it did not, however the parties mixed limits,    *)
(* sets, budgets and their absence.                                        *)
AuthorityNarrows ==
  \A i, j \in 1 .. Len(verified) : i < j =>
    /\ Authority(verified[j].scope) \subseteq Authority(verified[i].scope)
    /\ verified[j].scope.expires_at <= verified[i].scope.expires_at

(* "Maximum remaining delegation depth (hops)": with the hops still        *)
(* allowed at its end, an accepted chain has no more hops than any of its  *)
(* blocks allowed.                                                         *)
HopsWithinDepth ==
  \A i, j \in 1 .. Len(verified) : i <= j =>
    (j - i) + verified[j].scope.max_depth <= verified[i].scope.max_depth

(* No splicing: in an accepted chain, each block that speaks for an honest *)
(* key was made by its holder, in `issue` or `attenuate`, on top of the    *)
(* very block it now follows.                                              *)
HonestHopsAreGenuine ==
  \A i \in 1 .. Len(verified) : verified[i].from_key \in Honest =>
    [on |-> IF i = 1 THEN {} ELSE {verified[i - 1]}, block |-> verified[i]] \in made

(* What attenuate appends, verify accepts: an honest holder of the tail of *)
(* an accepted chain never makes a block that is then refused.             *)
AttenuatedVerifies ==
  \A m \in made :
    verified # << >> /\ m.on = {verified[Len(verified)]} => Continues(verified[Len(verified)], m.block)

(* The inductive invariant: each verified block continues the one before   *)
(* it, and honest signatures are on honest blocks only.                    *)
VerifiedIsChain ==
  \A i \in 1 .. Len(verified) :
    /\ SignatureValid(verified[i])
    /\ i = 1 => verified[i].prev = {} /\ verified[i].to_key = verified[i].from_key
    /\ i > 1 => Continues(verified[i - 1], verified[i])

MadeIsGenuine ==
  /\ \A b \in forged : b.signer \notin Honest
  /\ \A m \in made :
       /\ m.block.prev = m.on
       /\ \A tail \in m.on : Continues(tail, m.block)
=============================================================================
