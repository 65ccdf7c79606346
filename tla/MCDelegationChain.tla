------------------------- MODULE MCDelegationChain -------------------------
(* An honest principal, whose key the relying party trusts, and another.   *)
(* Scopes with and without limits, sets and budgets; forgeries that are    *)
(* right in all but at most one part.                                      *)
EXTENDS ComposedVerifier

CONSTANTS alice, mallory, notary, shill, travel, food

Limited(amounts, resources) == {[action |-> "charge", amounts |-> amounts, resources |-> resources]}

MCScope(permissions, budget, max_depth) ==
  [permissions |-> permissions, budget |-> budget, currency |-> "USD",
   max_depth |-> max_depth, expires_at |-> 1]

WideScopes == {MCScope(Limited({2}, {}), {3}, 2), MCScope(Limited({1}, {}), {1}, 1)}

MCScopes ==
  WideScopes \cup
  {MCScope(Limited({}, {{travel}}), {}, 1),
   MCScope(Limited({}, {}), {3}, 1),
   MCScope(Limited({1, 2}, {{travel, food}, {travel}}), {0}, 0)}

Forgery(from, from_key, to_key, scope) ==
  [from |-> from, from_key |-> from_key, to |-> to_key, to_key |-> to_key, scope |-> scope,
   purpose |-> "trip", signer |-> mallory, prev |-> {}]

Narrowest == Forgery(mallory, mallory, mallory, MCScope(Limited({}, {{}}), {1}, 0))

MCForgeries ==
  {Forgery(mallory, mallory, mallory, scope) : scope \in MCScopes}
    \cup {Forgery(mallory, mallory, alice, scope) : scope \in WideScopes}
    \cup {Forgery(alice, key, mallory, MCScope(Limited({1}, {}), {1}, 1)) : key \in Key}
    \cup {[Narrowest EXCEPT !.purpose = Blank],
          [Narrowest EXCEPT !.scope.currency = "EUR"],
          [Narrowest EXCEPT !.scope.expires_at = 2]}

-----------------------------------------------------------------------------
(* Two attesters that are in no chain, the second one dishonest.  Ed25519  *)
(* is broken, and the honest keys are hybrid.                              *)

MCKeyForm ==
  [key \in {alice, mallory, notary, shill} |->
     CASE key = alice -> HybridKey(Tagged("Ed25519", "a1"), Tagged("MlDsa87", "a2"))
       [] key = notary -> HybridKey(Tagged("Ed25519", "n1"), Tagged("MlDsa87", "n2"))
       [] key = mallory -> Tagged("Ed25519", "m")
       [] key = shill -> Tagged("Ed25519", "s")]

Booked == bind_action("trip", "booking")

MCDigests == {Booked, bind_action("", "booking")}

Claim(role, attester_key, signing_key) ==
  [requested |-> Booked, outcome |-> Booked, role |-> role, attester_key |-> attester_key,
   signing_key |-> signing_key]

MCClaims ==
  {Claim("ThirdParty", notary, HybridKey(Tagged("Ed25519", "n1"), Tagged("MlDsa87", "m"))),
   Claim("ThirdParty", shill, Tagged("Ed25519", "s")),
   Claim("CounterSigned", mallory, Tagged("Ed25519", "m"))}

Trusting(keys, counter_signed) ==
  [trusted_attesters |-> keys, allow_counter_signed |-> counter_signed]

MCPolicies ==
  {Trusting({notary}, FALSE), Trusting({notary}, TRUE), Trusting({notary, shill}, FALSE)}

MCRoot == Root(alice, alice, MCScope(Limited({2}, {}), {3}, 2)).block

MCHop == Hop(MCRoot, mallory, mallory, MCScope(Limited({1}, {}), {1}, 1), "trip").block

MCCases == {<<MCRoot>>, <<MCRoot, MCHop>>}

MCReceipt(deed) ==
  [chain_digest |-> digest(deed.chain), action_digest |-> deed.outcome, nonce |-> deed.nonce]

DiffersOnce(r, s) ==
  Cardinality({part \in {"chain_digest", "action_digest", "nonce"} : r[part] # s[part]}) = 1

(* alice issues for herself.  Then a deed comes before its receipt, that   *)
(* before one that is right in all but one part, and revocation is last.   *)
Phases ==
  /\ \A m \in made' : m.on = {} => m.block.from = alice
  /\ evidence # <<{}, << >>, {}, << >>, {}>> => UNCHANGED vars
  /\ evidence' # evidence => Cardinality(blocks) = 2 /\ Len(verified) = 2
  /\ \A deed \in done' :
       deed.nonce = 1 /\ (Len(deed.chain) = 1 => deed.requested = Booked /\ deed.outcome = Booked)
  /\ log' # log =>
       \E deed \in done :
         \/ log = << >> /\ log'[1] = MCReceipt(deed)
         \/ DiffersOnce(log'[Len(log')], MCReceipt(deed)) /\ log \in {<< >>, <<MCReceipt(deed)>>}
  /\ log # << >> => UNCHANGED done
  /\ checkpoints' # checkpoints =>
       \E deed \in done, c \in attested :
         /\ deed.chain = verified /\ log = <<MCReceipt(deed)>>
         /\ c.inclusion.of = log /\ AsRecorded(log[1], c)
  /\ heads # {} => UNCHANGED <<log, attested>>

MCSpec == ComposedInit /\ [][ComposedNext /\ Phases]_allVars
=============================================================================
