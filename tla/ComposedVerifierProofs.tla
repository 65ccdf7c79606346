----------------------- MODULE ComposedVerifierProofs -----------------------
(* The guarantees of Chain::verify and of the composed verifier, for every *)
(* set of keys, of scopes, of policies, of thresholds and of claims,       *)
(* whatever dishonest keys sign, whichever algorithms are broken, and for  *)
(* logs, chains and bundles of every length.                               *)
EXTENDS ComposedVerifier, TLAPS, SequenceTheorems, FiniteSetTheorems

-----------------------------------------------------------------------------
(* Scopes.                                                                 *)

(* A payment that a permission permits is permitted by each permission     *)
(* that it authorizes a subset of (Permission::authorizes_subset_of).      *)
LEMMA PermissionNarrows ==
  ASSUME NEW perm \in Permission, NEW parent \in Permission, NEW use \in Payment,
         authorizes_subset_of(perm, parent), Permits(perm, use)
  PROVE  Permits(parent, use)
<1>1. parent.action = use.action
  BY DEF authorizes_subset_of, Permits
<1>2. ASSUME NEW limit \in parent.amounts PROVE use.amount <= limit
  <2>1. PICK own \in perm.amounts \cup {MaxAmount} : own <= limit
    BY DEF authorizes_subset_of, AmountNoHigher
  <2>2. own \in Amount /\ limit \in Amount /\ use.amount \in Amount
    BY AmountAssumption DEF Permission, Payment, Amount
  <2>3. use.amount <= own
    BY <2>2 DEF Permits, Amount
  <2> QED BY <2>1, <2>2, <2>3, AmountAssumption DEF Amount
<1>3. ASSUME NEW set \in parent.resources PROVE use.resource \in set
  <2>1. ResourceSet(perm) \subseteq ResourceSet(parent)
    BY DEF authorizes_subset_of
  <2>2. use.resource \in ResourceSet(perm)
    BY DEF ResourceSet, Permits, Payment
  <2> QED BY <2>1, <2>2 DEF ResourceSet
<1> QED BY <1>1, <1>2, <1>3 DEF Permits

(* A scope that is_narrowing_of another authorises no payment that the     *)
(* other does not.                                                         *)
LEMMA ScopeNarrows ==
  ASSUME NEW scope \in Scope, NEW parent \in Scope, is_narrowing_of(scope, parent)
  PROVE  /\ Authority(scope) \subseteq Authority(parent)
         /\ scope.expires_at <= parent.expires_at
<1>1. ASSUME NEW use \in Authority(scope) PROVE use \in Authority(parent)
  <2>1. use \in Payment
    BY DEF Authority
  <2>2. PICK perm \in scope.permissions : Permits(perm, use)
    BY DEF Authority
  <2>3. PICK p \in parent.permissions : authorizes_subset_of(perm, p)
    BY DEF is_narrowing_of
  <2>4. perm \in Permission /\ p \in Permission
    BY DEF Scope
  <2>5. Permits(p, use)
    BY <2>1, <2>2, <2>3, <2>4, PermissionNarrows
  <2>6. ASSUME NEW limit \in parent.budget
        PROVE  use.amount <= limit /\ use.currency = parent.currency
    <3>1. PICK child \in scope.budget : TRUE
      BY DEF is_narrowing_of
    <3>2. child <= limit /\ scope.currency = parent.currency
      BY DEF is_narrowing_of
    <3>3. use.amount <= child /\ use.currency = scope.currency
      BY DEF Authority
    <3>4. child \in Nat /\ limit \in Nat /\ use.amount \in Nat
      BY <2>1, AmountAssumption DEF Scope, Payment, Amount
    <3> QED BY <3>2, <3>3, <3>4
  <2> QED BY <2>1, <2>5, <2>6 DEF Authority
<1>2. scope.expires_at <= parent.expires_at
  BY DEF is_narrowing_of
<1> QED BY <1>1, <1>2

-----------------------------------------------------------------------------
(* The inductive invariant.                                                *)

\* A new block, honest or not, leaves what exists well typed.
LEMMA AddedBlock ==
  ASSUME TypeOK, NEW block \in Block(SUBSET blocks),
         blocks' = blocks \cup {block}, verified' = verified,
         made' \subseteq made \cup [on : SUBSET blocks, block : {block}]
  PROVE  TypeOK'
<1>1. blocks' \subseteq Block(SUBSET blocks')
  BY DEF TypeOK, Block
<1>2. made' \subseteq [on : SUBSET blocks', block : blocks']
  BY DEF TypeOK
<1>3. verified' \in Seq(blocks')
  BY DEF TypeOK
<1> QED BY <1>1, <1>2, <1>3 DEF TypeOK

LEMMA MadeBlock ==
  ASSUME TypeOK, NEW m \in [on : SUBSET blocks, block : Block(SUBSET blocks)],
         made' = made \cup {m}, UNCHANGED <<forged, verified>>
  PROVE  TypeOK'
<1>1. blocks' = blocks \cup {m.block}
  BY DEF blocks
<1>2. m \in [on : SUBSET blocks, block : {m.block}]
  OBVIOUS
<1> QED BY <1>1, <1>2, AddedBlock

\* The block that `attenuate` makes continues the tail.
LEMMA HopContinues ==
  ASSUME NEW tail, NEW to, NEW to_key, NEW scope, NEW purpose,
         purpose # Blank, Narrower(scope, tail.scope)
  PROVE  Continues(tail, Hop(tail, to, to_key, scope, purpose).block)
BY DEF Continues, Linked, SignatureValid, Hop, Digest

(* Blocks are only made from keys, principals and scopes of their kinds,   *)
(* chains only from blocks that exist.                                     *)
THEOREM TypeCorrect == Spec => []TypeOK
<1>1. Init => TypeOK
  BY DEF Init, TypeOK, blocks
<1>2. TypeOK /\ [Next]_vars => TypeOK'
  <2> SUFFICES ASSUME TypeOK, [Next]_vars PROVE TypeOK'
    OBVIOUS
  <2>1. ASSUME NEW principal \in Principal, NEW key \in Honest, NEW scope \in Scopes,
               Issue(principal, key, scope)
        PROVE  TypeOK'
    <3>1. Root(principal, key, scope) \in [on : SUBSET blocks, block : Block(SUBSET blocks)]
      BY KeyAssumption, ScopesAssumption DEF Root, Block
    <3> QED BY <2>1, <3>1, MadeBlock DEF Issue
  <2>2. ASSUME NEW tail \in blocks, NEW to \in Principal, NEW to_key \in Key,
               NEW scope \in Scopes, NEW purpose \in Purpose, tail.to_key \in Honest,
               Attenuate(tail, to, to_key, scope, purpose)
        PROVE  TypeOK'
    <3>1. tail \in Block(SUBSET blocks)
      BY DEF TypeOK
    <3>2. Hop(tail, to, to_key, scope, purpose) \in
            [on : SUBSET blocks, block : Block(SUBSET blocks)]
      BY <3>1, ScopesAssumption DEF Hop, Block, Digest
    <3> QED BY <2>2, <3>2, MadeBlock DEF Attenuate
  <2>3. ASSUME NEW content \in Forgeries, Forge(content) PROVE TypeOK'
    <3>1. PICK prev \in {{}} \cup {Digest(b) : b \in blocks} :
            forged' = forged \cup {[content EXCEPT !.prev = prev]}
      BY <2>3 DEF Forge
    <3> DEFINE block == [content EXCEPT !.prev = prev]
    <3>2. block \in Block(SUBSET blocks)
      BY ForgeriesAssumption DEF Block, Digest
    <3>3. made' = made /\ verified' = verified
      BY <2>3 DEF Forge
    <3>4. blocks' = blocks \cup {block}
      BY <3>1, <3>3 DEF blocks
    <3> HIDE DEF block
    <3> QED BY <3>2, <3>3, <3>4, AddedBlock
  <2>4. ASSUME NEW b \in blocks, VerifyRoot(b) \/ VerifyHop(b) PROVE TypeOK'
    <3>1. blocks' = blocks /\ made' = made
      BY <2>4 DEF VerifyRoot, VerifyHop, blocks
    <3>2. verified \in Seq(blocks)
      BY DEF TypeOK
    <3>3. verified' \in Seq(blocks)
      <4>1. CASE verified' = <<b>>
        BY <4>1
      <4>2. CASE verified' = Append(verified, b)
        BY <3>2, <4>2
      <4> QED BY <2>4, <4>1, <4>2 DEF VerifyRoot, VerifyHop
    <3> QED BY <3>1, <3>3 DEF TypeOK
  <2>5. CASE UNCHANGED vars
    BY <2>5 DEF TypeOK, blocks, vars
  <2> QED BY <2>1, <2>2, <2>3, <2>4, <2>5 DEF Next
<1> QED BY <1>1, <1>2, PTL DEF Spec

(* The inductive invariant, for the signatures: everything that honest     *)
(* keys signed is in `made`, on the block that it follows, and the blocks  *)
(* that verify passed follow one another.                                  *)
THEOREM Genuine == Spec => [](VerifiedIsChain /\ MadeIsGenuine)
<1>1. Init => VerifiedIsChain /\ MadeIsGenuine
  BY DEF Init, VerifiedIsChain, MadeIsGenuine
<1>2. TypeOK /\ VerifiedIsChain /\ MadeIsGenuine /\ [Next]_vars
        => (VerifiedIsChain /\ MadeIsGenuine)'
  <2> SUFFICES ASSUME TypeOK, VerifiedIsChain, MadeIsGenuine, [Next]_vars
               PROVE  VerifiedIsChain' /\ MadeIsGenuine'
    OBVIOUS
  <2>1. ASSUME NEW principal \in Principal, NEW key \in Honest, NEW scope \in Scopes,
               Issue(principal, key, scope)
        PROVE  VerifiedIsChain' /\ MadeIsGenuine'
    <3> DEFINE root == Root(principal, key, scope)
    <3>1. made' = made \cup {root} /\ UNCHANGED <<forged, verified>>
      BY <2>1 DEF Issue
    <3>2. root.on = {} /\ root.block.prev = {}
      BY DEF Root
    <3> HIDE DEF root
    <3> QED BY <3>1, <3>2 DEF VerifiedIsChain, MadeIsGenuine
  <2>2. ASSUME NEW tail \in blocks, NEW to \in Principal, NEW to_key \in Key,
               NEW scope \in Scopes, NEW purpose \in Purpose, tail.to_key \in Honest,
               Attenuate(tail, to, to_key, scope, purpose)
        PROVE  VerifiedIsChain' /\ MadeIsGenuine'
    <3> DEFINE hop == Hop(tail, to, to_key, scope, purpose)
    <3>1. made' = made \cup {hop} /\ UNCHANGED <<forged, verified>>
      BY <2>2 DEF Attenuate
    <3>2. hop.on = {tail} /\ hop.block.prev = hop.on
      BY DEF Hop, Digest
    <3>3. Continues(tail, hop.block)
      BY <2>2, HopContinues DEF Attenuate
    <3> HIDE DEF hop
    <3> QED BY <3>1, <3>2, <3>3 DEF VerifiedIsChain, MadeIsGenuine
  <2>3. ASSUME NEW content \in Forgeries, Forge(content)
        PROVE  VerifiedIsChain' /\ MadeIsGenuine'
    <3>1. PICK prev \in {{}} \cup {Digest(b) : b \in blocks} :
            forged' = forged \cup {[content EXCEPT !.prev = prev]}
      BY <2>3 DEF Forge
    <3>2. [content EXCEPT !.prev = prev].signer \notin Honest
      BY ForgeriesAssumption DEF Block
    <3> QED BY <2>3, <3>1, <3>2 DEF Forge, VerifiedIsChain, MadeIsGenuine
  <2>4. ASSUME NEW b \in blocks, VerifyRoot(b) PROVE VerifiedIsChain' /\ MadeIsGenuine'
    BY <2>4 DEF VerifyRoot, VerifiedIsChain, MadeIsGenuine
  <2>5. ASSUME NEW b \in blocks, VerifyHop(b) PROVE VerifiedIsChain' /\ MadeIsGenuine'
    <3>1. MadeIsGenuine'
      BY <2>5 DEF VerifyHop, MadeIsGenuine
    <3>2. /\ Len(verified') = Len(verified) + 1 /\ Len(verified) \in Nat \ {0}
          /\ verified'[Len(verified) + 1] = b
          /\ \A i \in 1 .. Len(verified) : verified'[i] = verified[i]
      BY <2>5 DEF VerifyHop, TypeOK
    <3>3. Continues(verified[Len(verified)], b) /\ SignatureValid(b)
      BY <2>5 DEF VerifyHop, Continues
    <3>4. ASSUME NEW i \in 1 .. Len(verified')
          PROVE  /\ SignatureValid(verified'[i])
                 /\ i = 1 => verified'[i].prev = {} /\ verified'[i].to_key = verified'[i].from_key
                 /\ i > 1 => Continues(verified'[i - 1], verified'[i])
      <4>1. CASE i \in 1 .. Len(verified)
        BY <3>2, <4>1 DEF VerifiedIsChain
      <4>2. CASE i = Len(verified) + 1
        BY <3>2, <3>3, <4>2
      <4> QED BY <3>2, <4>1, <4>2
    <3> QED BY <3>1, <3>4 DEF VerifiedIsChain
  <2>6. CASE UNCHANGED vars
    BY <2>6 DEF VerifiedIsChain, MadeIsGenuine, vars
  <2> QED BY <2>1, <2>2, <2>3, <2>4, <2>5, <2>6 DEF Next
<1> QED BY <1>1, <1>2, TypeCorrect, PTL DEF Spec

(* No splicing: a block of an accepted chain that speaks for an honest key *)
(* was made by issue or attenuate, on top of the very block it follows.    *)
THEOREM NoSplicing == Spec => []HonestHopsAreGenuine
<1>1. TypeOK /\ VerifiedIsChain /\ MadeIsGenuine => HonestHopsAreGenuine
  <2> SUFFICES ASSUME TypeOK, VerifiedIsChain, MadeIsGenuine,
                      NEW i \in 1 .. Len(verified), verified[i].from_key \in Honest
               PROVE  [on |-> IF i = 1 THEN {} ELSE {verified[i - 1]},
                       block |-> verified[i]] \in made
    BY DEF HonestHopsAreGenuine
  <2>1. verified[i] \in blocks /\ verified[i].signer \in Honest
    BY DEF TypeOK, VerifiedIsChain, SignatureValid
  <2>2. PICK m \in made : m.block = verified[i]
    BY <2>1 DEF blocks, MadeIsGenuine
  <2>3. m = [on |-> m.on, block |-> verified[i]] /\ m.on = verified[i].prev
    BY <2>2 DEF TypeOK, MadeIsGenuine
  <2>4. verified[i].prev = IF i = 1 THEN {} ELSE {verified[i - 1]}
    <3>1. CASE i = 1
      BY <3>1 DEF VerifiedIsChain
    <3>2. CASE i > 1
      BY <3>2 DEF VerifiedIsChain, Continues, Linked, Digest
    <3>3. i = 1 \/ i > 1
      BY DEF TypeOK
    <3> QED BY <3>1, <3>2, <3>3
  <2> QED BY <2>3, <2>4
<1> QED BY <1>1, TypeCorrect, Genuine, PTL

(* What attenuate appends to an accepted chain, verify accepts.            *)
THEOREM AttenuateAgrees == Spec => []AttenuatedVerifies
<1>1. TypeOK /\ MadeIsGenuine => AttenuatedVerifies
  BY DEF MadeIsGenuine, AttenuatedVerifies
<1> QED BY <1>1, TypeCorrect, Genuine, PTL

-----------------------------------------------------------------------------
(* Narrowing.                                                              *)

LEMMA OneHopFurther ==
  ASSUME NEW hops \in Nat, NEW last \in Nat, NEW before \in Nat, NEW first \in Nat,
         last + 1 <= before, hops + before <= first
  PROVE  (hops + 1) + last <= first
OBVIOUS

(* In a chain of any length that verify accepts, authority and lifetime    *)
(* only shrink, and no block has more hops after it than it allowed.       *)
THEOREM Narrowing == Spec => [](AuthorityNarrows /\ HopsWithinDepth)
<1>1. Init => AuthorityNarrows /\ HopsWithinDepth
  BY DEF Init, AuthorityNarrows, HopsWithinDepth
<1>2. TypeOK /\ AuthorityNarrows /\ HopsWithinDepth /\ [Next]_vars
        => (AuthorityNarrows /\ HopsWithinDepth)'
  <2> SUFFICES ASSUME TypeOK, AuthorityNarrows, HopsWithinDepth, [Next]_vars
               PROVE  AuthorityNarrows' /\ HopsWithinDepth'
    OBVIOUS
  <2>1. CASE verified' = verified
    BY <2>1 DEF AuthorityNarrows, HopsWithinDepth
  <2>2. ASSUME NEW b \in blocks, VerifyRoot(b) PROVE AuthorityNarrows' /\ HopsWithinDepth'
    <3>1. verified' = <<b>> /\ b.scope.max_depth \in Nat
      BY <2>2 DEF VerifyRoot, TypeOK, Block, Scope
    <3> QED BY <3>1 DEF AuthorityNarrows, HopsWithinDepth
  <2>3. ASSUME NEW b \in blocks, VerifyHop(b) PROVE AuthorityNarrows' /\ HopsWithinDepth'
    <3> DEFINE n == Len(verified)
               tail == verified[n]
    <3>1. /\ Len(verified') = n + 1 /\ n \in Nat \ {0}
          /\ verified'[n + 1] = b
          /\ \A i \in 1 .. n : verified'[i] = verified[i]
      BY <2>3 DEF VerifyHop, TypeOK
    <3>2. b.scope \in Scope /\ \A i \in 1 .. n : verified[i].scope \in Scope
      BY DEF TypeOK, Block
    <3>3. is_narrowing_of(b.scope, tail.scope) /\ Shallower(b.scope, tail.scope)
      BY <2>3 DEF VerifyHop, Continues, Narrower
    <3>4. /\ Authority(b.scope) \subseteq Authority(tail.scope)
          /\ b.scope.expires_at <= tail.scope.expires_at
      BY <3>1, <3>2, <3>3, ScopeNarrows
    <3>5. b.scope.max_depth + 1 <= tail.scope.max_depth
      BY <3>1, <3>2, <3>3 DEF Shallower, Scope
    <3>6. \A s \in Scope : s.max_depth \in Nat /\ s.expires_at \in Nat
      BY DEF Scope
    <3>7. ASSUME NEW i \in 1 .. n
          PROVE  /\ Authority(b.scope) \subseteq Authority(verified[i].scope)
                 /\ b.scope.expires_at <= verified[i].scope.expires_at
                 /\ (n + 1 - i) + b.scope.max_depth <= verified[i].scope.max_depth
      <4>1. CASE i = n
        <5>1. (n + 1 - i) = 1
          BY <3>1, <4>1
        <5> QED BY <3>2, <3>4, <3>5, <3>6, <4>1, <5>1
      <4>2. CASE i < n
        <5>1. i \in 1 .. n /\ n \in 1 .. n
          BY <3>1
        <5>2. /\ Authority(tail.scope) \subseteq Authority(verified[i].scope)
              /\ tail.scope.expires_at <= verified[i].scope.expires_at
          BY <4>2, <5>1 DEF AuthorityNarrows
        <5>3. (n - i) + tail.scope.max_depth <= verified[i].scope.max_depth
          BY <3>1, <4>2, <5>1 DEF HopsWithinDepth
        <5>4. /\ b.scope.max_depth \in Nat /\ b.scope.expires_at \in Nat
              /\ tail.scope.max_depth \in Nat /\ tail.scope.expires_at \in Nat
              /\ verified[i].scope.max_depth \in Nat /\ verified[i].scope.expires_at \in Nat
          BY <3>2, <3>6, <5>1
        <5>5. Authority(b.scope) \subseteq Authority(verified[i].scope)
          BY <3>4, <5>2
        <5>6. b.scope.expires_at <= verified[i].scope.expires_at
          BY <3>4, <5>2, <5>4
        <5>7. n - i \in Nat /\ n + 1 - i = (n - i) + 1
          BY <3>1, <4>2
        <5>8. ((n - i) + 1) + b.scope.max_depth <= verified[i].scope.max_depth
          <6> HIDE DEF n, tail
          <6> QED BY <3>5, <5>3, <5>4, <5>7, OneHopFurther
        <5>9. (n + 1 - i) + b.scope.max_depth <= verified[i].scope.max_depth
          BY <5>7, <5>8
        <5> QED BY <5>5, <5>6, <5>9
      <4> QED BY <3>1, <4>1, <4>2
    <3>8. ASSUME NEW i \in 1 .. Len(verified'), NEW j \in 1 .. Len(verified'), i < j
          PROVE  /\ Authority(verified'[j].scope) \subseteq Authority(verified'[i].scope)
                 /\ verified'[j].scope.expires_at <= verified'[i].scope.expires_at
      <4>1. i \in 1 .. n /\ verified'[i] = verified[i]
        BY <3>1, <3>8
      <4>2. CASE j = n + 1
        BY <3>1, <3>7, <4>1, <4>2
      <4>3. CASE j \in 1 .. n
        BY <3>1, <3>8, <4>1, <4>3 DEF AuthorityNarrows
      <4> QED BY <3>1, <4>2, <4>3
    <3>9. ASSUME NEW i \in 1 .. Len(verified'), NEW j \in 1 .. Len(verified'), i <= j
          PROVE  (j - i) + verified'[j].scope.max_depth <= verified'[i].scope.max_depth
      <4>1. CASE i = n + 1
        <5>1. j - i = 0 /\ verified'[j] = b /\ verified'[i] = b
          BY <3>1, <3>9, <4>1
        <5> QED BY <3>2, <3>6, <5>1
      <4>2. CASE i \in 1 .. n /\ j = n + 1
        BY <3>1, <3>7, <4>2
      <4>3. CASE i \in 1 .. n /\ j \in 1 .. n
        BY <3>1, <3>9, <4>3 DEF HopsWithinDepth
      <4> QED BY <3>1, <3>9, <4>1, <4>2, <4>3
    <3> QED BY <3>8, <3>9 DEF AuthorityNarrows, HopsWithinDepth
  <2>4. verified' = verified \/ \E b \in blocks : VerifyRoot(b) \/ VerifyHop(b)
    BY DEF Next, Issue, Attenuate, Forge, vars
  <2> QED BY <2>1, <2>2, <2>3, <2>4
<1> QED BY <1>1, <1>2, TypeCorrect, PTL DEF Spec

-----------------------------------------------------------------------------
(* What a valid signature says about who made it, for every key.           *)

(* What `sign` makes with a key, verify_signature accepts for that key     *)
(* (verify_signature, Signer::sign).                                       *)
THEOREM SignVerifies ==
  ASSUME NEW key, NEW payload, WellFormed(key)
  PROVE  verify_signature(payload, sign(key, payload), key)
<1>1. CASE key.algorithm \in Plain
  BY <1>1 DEF Plain, sign, sign_plain, Tagged, verify_signature, plain_verify
<1>2. CASE key.algorithm = "Hybrid" /\ decodes_two(key.bytes)
  <2> DEFINE first == sign_plain(key.bytes[1], payload)
             second == sign_plain(key.bytes[2], payload)
  <2>1. first.algorithm \in Plain /\ second.algorithm \in Plain
    BY <1>2 DEF decodes_two, sign_plain, Tagged
  <2>2. sign(key, payload) = Tagged("Hybrid", <<first, second>>)
    BY <1>2, <2>1 DEF sign, frame_two
  <2>3. decodes_two(<<first, second>>)
    BY <2>1 DEF decodes_two
  <2>4. plain_verify(payload, first, key.bytes[1]) /\ plain_verify(payload, second, key.bytes[2])
    BY DEF plain_verify, sign_plain, Tagged
  <2>5. hybrid_verify(payload, <<first, second>>, key.bytes)
    BY <1>2, <2>3, <2>4 DEF hybrid_verify
  <2> QED BY <1>2, <2>2, <2>5 DEF verify_signature, Tagged
<1> QED BY <1>1, <1>2 DEF WellFormed

(* A signature made with some key is valid for another key only if the     *)
(* first one holds the secret of each component of the second one, and     *)
(* only for the payload that was signed.                                   *)
THEOREM ValidMeansEverySecret ==
  ASSUME NEW key, NEW signer, NEW payload, NEW signed,
         verify_signature(payload, sign(signer, signed), key)
  PROVE  /\ payload = signed
         /\ \A part \in Components(key) : \E own \in Components(signer) :
              own.algorithm = part.algorithm /\ own.bytes = part.bytes
<1> DEFINE signature == sign(signer, signed)
<1>1. signer.algorithm = key.algorithm
  BY DEF verify_signature, sign, sign_plain, Tagged
<1>2. CASE key.algorithm \in Plain
  <2>1. signature = sign_plain(signer, signed)
    BY <1>1, <1>2 DEF sign, Plain
  <2>2. signature.bytes = <<[secret |-> key.bytes, payload |-> payload]>>
    BY <1>2 DEF verify_signature, Plain, plain_verify
  <2>3. signer.bytes = key.bytes /\ signed = payload
    BY <2>1, <2>2 DEF sign_plain, Tagged
  <2> QED BY <1>1, <1>2, <2>3 DEF Components, Plain
<1>3. CASE key.algorithm = "Hybrid"
  <2> DEFINE parts == frame_two(sign_plain(signer.bytes[1], signed),
                                sign_plain(signer.bytes[2], signed))
  <2>1. signature = Tagged("Hybrid", parts)
    BY <1>1, <1>3 DEF sign
  <2>2. hybrid_verify(payload, parts, key.bytes)
    BY <1>3, <2>1 DEF verify_signature, Plain, Tagged
  <2>3. parts = <<sign_plain(signer.bytes[1], signed), sign_plain(signer.bytes[2], signed)>>
    BY <2>2 DEF hybrid_verify, decodes_two, frame_two
  <2>4. ASSUME NEW i \in 1 .. 2
        PROVE  /\ signer.bytes[i].algorithm = key.bytes[i].algorithm
               /\ signer.bytes[i].bytes = key.bytes[i].bytes
               /\ signed = payload
    <3>1. plain_verify(payload, sign_plain(signer.bytes[i], signed), key.bytes[i])
      BY <2>2, <2>3 DEF hybrid_verify
    <3> QED BY <3>1 DEF plain_verify, sign_plain, Tagged
  <2>5. Components(key) = {key.bytes[i] : i \in 1 .. 2}
    BY <1>3 DEF Components
  <2>6. Components(signer) = {signer.bytes[i] : i \in 1 .. 2}
    BY <1>1, <1>3 DEF Components
  <2> QED BY <2>4, <2>5, <2>6
<1> QED BY <1>2, <1>3 DEF verify_signature

(* "Both must verify" (HybridSigner): who lacks every secret of somebody   *)
(* honest whose scheme is not broken makes no valid signature for a sound  *)
(* key, however many schemes of it are broken.                             *)
THEOREM SoundNeedsItsHolder ==
  ASSUME NEW key, NEW signer, NEW payload, NEW honestSecrets, NEW broken,
         Sound(key, honestSecrets, broken),
         \A part \in Components(signer) :
           part.bytes \in honestSecrets => part.algorithm \in broken
  PROVE  ~ verify_signature(payload, sign(signer, payload), key)
<1> SUFFICES ASSUME verify_signature(payload, sign(signer, payload), key) PROVE FALSE
  OBVIOUS
<1>1. PICK part \in Components(key) : part.bytes \in honestSecrets /\ part.algorithm \notin broken
  BY DEF Sound
<1>2. PICK own \in Components(signer) :
        own.algorithm = part.algorithm /\ own.bytes = part.bytes
  BY ValidMeansEverySecret
<1> QED BY <1>1, <1>2

-----------------------------------------------------------------------------
(* The composition keeps what holds of chains.                             *)

(* Evidence changes nothing about chains: the composed system is one of    *)
(* delegation chains (Chain::verify is called by verify, unchanged).       *)
THEOREM KeepsChains == ComposedSpec => Spec
<1>1. ComposedInit => Init
  BY DEF ComposedInit
<1>2. [ComposedNext]_allVars => [Next]_vars
  <2> SUFFICES ASSUME ComposedNext \/ UNCHANGED allVars PROVE Next \/ UNCHANGED vars
    OBVIOUS
  <2>1. CASE UNCHANGED allVars
    BY <2>1 DEF allVars
  <2>2. CASE Next
    BY <2>2
  <2>3. ASSUME NEW chain \in Chains, NEW requested \in Digests, NEW outcome \in Digests,
               NEW nonce \in Nonce, Act(chain, requested, outcome, nonce)
        PROVE  UNCHANGED vars
    BY <2>3 DEF Act
  <2>4. ASSUME NEW chain \in Chains, NEW action \in Digests, NEW nonce \in Nonce,
               WitnessAppend(chain, action, nonce)
        PROVE  UNCHANGED vars
    BY <2>4 DEF WitnessAppend
  <2>5. ASSUME NEW key \in HonestAttester, NEW role \in Role, NEW deed \in done,
               NEW tree \in TreesFor(deed), NEW leaf \in DOMAIN tree,
               Attest(key, role, deed, tree, leaf)
        PROVE  UNCHANGED vars
    BY <2>5 DEF Attest
  <2>6. ASSUME NEW ids \in SUBSET RevocableIds, PublishCheckpoint(ids)
        PROVE  UNCHANGED vars
    BY <2>6 DEF PublishCheckpoint
  <2>7. ASSUME RevocationLogRestart PROVE UNCHANGED vars
    BY <2>7 DEF RevocationLogRestart
  <2> QED BY <2>1, <2>2, <2>3, <2>4, <2>5, <2>6, <2>7 DEF ComposedNext
<1> QED BY <1>1, <1>2, PTL DEF ComposedSpec, Spec

-----------------------------------------------------------------------------
(* The inductive invariant.                                                *)

\* Blocks are never taken back.
LEMMA BlocksGrow ==
  ASSUME [Next]_vars
  PROVE  blocks \subseteq blocks'
<1>1. CASE UNCHANGED vars
  BY <1>1 DEF vars, blocks
<1>2. ASSUME NEW principal \in Principal, NEW key \in Honest, NEW scope \in Scopes,
             Issue(principal, key, scope)
      PROVE  blocks \subseteq blocks'
  BY <1>2 DEF Issue, blocks
<1>3. ASSUME NEW tail \in blocks, NEW to \in Principal, NEW to_key \in Key, NEW scope \in Scopes,
             NEW purpose \in Purpose, Attenuate(tail, to, to_key, scope, purpose)
      PROVE  blocks \subseteq blocks'
  BY <1>3 DEF Attenuate, blocks
<1>4. ASSUME NEW content \in Forgeries, Forge(content)
      PROVE  blocks \subseteq blocks'
  BY <1>4 DEF Forge, blocks
<1>5. ASSUME NEW b \in blocks, VerifyRoot(b) \/ VerifyHop(b)
      PROVE  blocks \subseteq blocks'
  BY <1>5 DEF VerifyRoot, VerifyHop, blocks
<1> QED BY <1>1, <1>2, <1>3, <1>4, <1>5 DEF Next

\* An accepted chain is a sequence of blocks.
LEMMA ChainsAreChains ==
  ASSUME TypeOK, NEW chain \in Chains
  PROVE  /\ chain \in Seq(blocks)
         /\ Len(chain) \in 1 .. Len(verified)
         /\ \A i \in 1 .. Len(chain) : chain[i] = verified[i]
<1>1. PICK n \in 1 .. Len(verified) : chain = SubSeq(verified, 1, n)
  BY DEF Chains
<1>2. verified \in Seq(blocks)
  BY DEF TypeOK
<1>3. n \in Nat /\ 1 <= n /\ n <= Len(verified)
  BY <1>1, <1>2
<1> QED BY <1>1, <1>2, <1>3

\* More blocks leave what refers to fewer well typed.
LEMMA EvidenceStays ==
  ASSUME EvidenceOK, blocks \subseteq blocks', UNCHANGED evidence
  PROVE  EvidenceOK'
<1>1. Seq(blocks) \subseteq Seq(blocks')
  OBVIOUS
<1>2. done' \subseteq Deed'
  BY <1>1 DEF EvidenceOK, evidence, Deed
<1>3. log' \in Seq(Receipt')
  <2>1. Receipt \subseteq Receipt'
    BY <1>1 DEF Receipt
  <2> QED BY <2>1 DEF EvidenceOK, evidence
<1>4. checkpoints' \in Seq(SUBSET blocks') /\ heads' \subseteq Seq(SUBSET blocks')
  <2>1. Seq(SUBSET blocks) \subseteq Seq(SUBSET blocks')
    OBVIOUS
  <2> QED BY <2>1 DEF EvidenceOK, evidence
<1> QED BY <1>2, <1>3, <1>4 DEF EvidenceOK

(* Deeds, receipts and checkpoints are what they should be, and are about  *)
(* blocks that exist (ActionReceipt, CompletionAttestation).               *)
THEOREM ComposedTypeCorrect == ComposedSpec => []ComposedTypeOK
<1>1. ComposedInit => EvidenceOK
  BY EmptySeq DEF ComposedInit, EvidenceOK
<1>2. TypeOK /\ EvidenceOK /\ [ComposedNext]_allVars => EvidenceOK'
  <2> SUFFICES ASSUME TypeOK, EvidenceOK, [ComposedNext]_allVars PROVE EvidenceOK'
    OBVIOUS
  <2>1. CASE UNCHANGED allVars
    <3>1. blocks = blocks' /\ UNCHANGED evidence
      BY <2>1 DEF allVars, vars, blocks
    <3> QED BY <3>1, EvidenceStays
  <2>2. CASE Next /\ UNCHANGED evidence
    BY <2>2, BlocksGrow, EvidenceStays
  <2>3. ASSUME NEW chain \in Chains, NEW requested \in Digests, NEW outcome \in Digests,
               NEW nonce \in Nonce, Act(chain, requested, outcome, nonce)
        PROVE  EvidenceOK'
    <3>1. blocks' = blocks
      BY <2>3 DEF Act, vars, blocks
    <3>2. [chain |-> chain, requested |-> requested, outcome |-> outcome, nonce |-> nonce] \in Deed
      BY ChainsAreChains DEF Deed
    <3> QED BY <2>3, <3>1, <3>2 DEF Act, EvidenceOK, Deed, Receipt
  <2>4. ASSUME NEW chain \in Chains, NEW action \in Digests, NEW nonce \in Nonce,
               WitnessAppend(chain, action, nonce)
        PROVE  EvidenceOK'
    <3> DEFINE receipt == [chain_digest |-> digest(chain), action_digest |-> action,
                           nonce |-> nonce]
    <3>1. blocks' = blocks
      BY <2>4 DEF WitnessAppend, vars, blocks
    <3>2. receipt \in Receipt
      BY ChainsAreChains DEF Receipt, digest
    <3>3. log' \in Seq(Receipt)
      BY <2>4, <3>2 DEF WitnessAppend, EvidenceOK
    <3> QED BY <2>4, <3>1, <3>3 DEF WitnessAppend, EvidenceOK, Deed, Receipt
  <2>5. ASSUME NEW key \in HonestAttester, NEW role \in Role, NEW deed \in done,
               NEW tree \in TreesFor(deed), NEW leaf \in DOMAIN tree,
               Attest(key, role, deed, tree, leaf)
        PROVE  EvidenceOK'
    <3>1. blocks' = blocks
      BY <2>5 DEF Attest, vars, blocks
    <3> QED BY <2>5, <3>1 DEF Attest, EvidenceOK, Deed, Receipt
  <2>6. ASSUME NEW ids \in SUBSET RevocableIds, PublishCheckpoint(ids)
        PROVE  EvidenceOK'
    <3>1. blocks' = blocks
      BY <2>6 DEF PublishCheckpoint, vars, blocks
    <3>2. Revoked \cup ids \in SUBSET blocks
      BY DEF Revoked, RevocableIds, EvidenceOK
    <3>3. checkpoints' = Append(checkpoints, Revoked \cup ids)
      BY <2>6 DEF PublishCheckpoint
    <3>4. checkpoints' \in Seq(SUBSET blocks)
      BY <3>2, <3>3 DEF EvidenceOK
    <3>5. heads' \subseteq Seq(SUBSET blocks)
      BY <2>6, <3>4 DEF PublishCheckpoint, EvidenceOK
    <3> QED BY <2>6, <3>1, <3>4, <3>5 DEF PublishCheckpoint, EvidenceOK, Deed, Receipt
  <2>7. CASE RevocationLogRestart
    <3>1. blocks' = blocks
      BY <2>7 DEF RevocationLogRestart, vars, blocks
    <3>2. checkpoints' \in Seq(SUBSET blocks)
      BY <2>7, EmptySeq DEF RevocationLogRestart
    <3> QED BY <2>7, <3>1, <3>2 DEF RevocationLogRestart, EvidenceOK, Deed, Receipt
  <2> QED BY <2>1, <2>2, <2>3, <2>4, <2>5, <2>6, <2>7 DEF ComposedNext
<1> QED BY <1>1, <1>2, KeepsChains, TypeCorrect, PTL DEF ComposedSpec, ComposedTypeOK

(* Honest attestations stay about something that was done: deeds are never *)
(* taken back (attest_as signs everything but the signature itself).       *)
LEMMA AttestedStays ==
  ASSUME HonestlyAttested, attested' = attested, done \subseteq done'
  PROVE  HonestlyAttested'
BY DEF HonestlyAttested, ReceiptsOf

THEOREM HonestWord == ComposedSpec => []HonestlyAttested
<1>1. ComposedInit => HonestlyAttested
  BY DEF ComposedInit, HonestlyAttested
<1>2. HonestlyAttested /\ [ComposedNext]_allVars => HonestlyAttested'
  <2> SUFFICES ASSUME HonestlyAttested, [ComposedNext]_allVars PROVE HonestlyAttested'
    OBVIOUS
  <2>1. CASE UNCHANGED allVars
    BY <2>1, AttestedStays DEF allVars, evidence
  <2>2. CASE Next /\ UNCHANGED evidence
    BY <2>2, AttestedStays DEF evidence
  <2>3. ASSUME NEW chain \in Chains, NEW requested \in Digests, NEW outcome \in Digests,
               NEW nonce \in Nonce, Act(chain, requested, outcome, nonce)
        PROVE  HonestlyAttested'
    BY <2>3, AttestedStays DEF Act
  <2>4. ASSUME NEW chain \in Chains, NEW action \in Digests, NEW nonce \in Nonce,
               WitnessAppend(chain, action, nonce)
        PROVE  HonestlyAttested'
    BY <2>4, AttestedStays DEF WitnessAppend
  <2>5. ASSUME NEW key \in HonestAttester, NEW role \in Role, NEW deed \in done,
               NEW tree \in TreesFor(deed), NEW leaf \in DOMAIN tree,
               Attest(key, role, deed, tree, leaf)
        PROVE  HonestlyAttested'
    <3> DEFINE word == attest_as(role, key, deed.chain, deed.requested, deed.outcome,
                                 Inclusion(tree, leaf))
    <3>1. /\ word.attester_key = key /\ word.role = role
          /\ word.inclusion = Inclusion(tree, leaf)
          /\ word.inclusion.of = tree /\ word.inclusion.leaf = leaf
      BY DEF attest_as, Completion, Inclusion
    <3>2. word = attest_as(word.role, word.attester_key, deed.chain, deed.requested,
                           deed.outcome, word.inclusion)
      BY <3>1
    <3>3. attested' = attested \cup {word} /\ done' = done
      BY <2>5 DEF Attest
    <3>4. tree[leaf] \in ReceiptsOf(deed)
      BY <2>5 DEF Attest
    <3> HIDE DEF word
    <3>5. ASSUME NEW c \in attested'
          PROVE  \E d \in done' :
                   /\ c.attester_key \in HonestAttester
                   /\ c.inclusion.leaf \in DOMAIN c.inclusion.of
                   /\ c.inclusion.of[c.inclusion.leaf] \in ReceiptsOf(d)
                   /\ c = attest_as(c.role, c.attester_key, d.chain, d.requested, d.outcome,
                                    c.inclusion)
      <4>1. CASE c = word
        BY <3>1, <3>2, <3>3, <3>4, <4>1
      <4>2. CASE c \in attested
        BY <3>3, <4>2 DEF HonestlyAttested
      <4> QED BY <3>3, <3>5, <4>1, <4>2
    <3> QED BY <3>5 DEF HonestlyAttested, ReceiptsOf
  <2>6. ASSUME NEW ids \in SUBSET RevocableIds, PublishCheckpoint(ids)
        PROVE  HonestlyAttested'
    BY <2>6, AttestedStays DEF PublishCheckpoint
  <2>7. CASE RevocationLogRestart
    BY <2>7, AttestedStays DEF RevocationLogRestart
  <2> QED BY <2>1, <2>2, <2>3, <2>4, <2>5, <2>6, <2>7 DEF ComposedNext
<1> QED BY <1>1, <1>2, PTL DEF ComposedSpec

(* A log of growing sets, and one more of them.                            *)
LEMMA GrowsBy ==
  ASSUME NEW S, NEW l \in Seq(SUBSET S), Grows(l), NEW set \in SUBSET S,
         l # << >> => l[Len(l)] \subseteq set
  PROVE  Append(l, set) # << >> /\ Grows(Append(l, set))
<1> DEFINE n == Len(l)
           t == Append(l, set)
<1>1. /\ n \in Nat /\ DOMAIN l = 1 .. n /\ (n > 0 => l # << >>)
      /\ Len(t) = n + 1 /\ DOMAIN t = 1 .. n + 1
      /\ t[n + 1] = set
      /\ \A i \in 1 .. n : t[i] = l[i]
  OBVIOUS
<1> HIDE DEF t, n
<1>2. ASSUME NEW i \in 1 .. n PROVE l[i] \subseteq set
  <2>1. n \in 1 .. n /\ i <= n /\ l # << >>
    BY <1>1
  <2>2. l[i] \subseteq l[n] /\ l[n] \subseteq set
    BY <1>1, <2>1 DEF Grows, n
  <2> QED BY <2>2
<1>3. ASSUME NEW i \in DOMAIN t, NEW j \in DOMAIN t, i <= j
      PROVE  t[i] \subseteq t[j]
  <2>1. i \in 1 .. n + 1 /\ j \in 1 .. n + 1
    BY <1>1
  <2>2. CASE j = n + 1 /\ i = n + 1
    BY <2>2
  <2>3. CASE j = n + 1 /\ i # n + 1
    <3>1. i \in 1 .. n
      BY <1>1, <2>1, <2>3
    <3> QED BY <1>1, <1>2, <2>3, <3>1
  <2>4. CASE j # n + 1
    <3>1. i \in 1 .. n /\ j \in 1 .. n
      BY <1>1, <1>3, <2>1, <2>4
    <3>2. i \in DOMAIN l /\ j \in DOMAIN l
      BY <1>1, <3>1
    <3> QED BY <1>1, <1>3, <3>1, <3>2 DEF Grows
  <2> QED BY <2>2, <2>3, <2>4
<1>4. t # << >>
  BY <1>1, EmptySeq
<1> QED BY <1>3, <1>4 DEF t, Grows

(* No checkpoint takes back a revocation that its log has                  *)
(* (RevocationMap::insert has no inverse); a restart begins another log.   *)
THEOREM RevocationsStay == ComposedSpec => []CheckpointsGrow
<1>1. ComposedInit => CheckpointsGrow
  BY DEF ComposedInit, CheckpointsGrow, Grows
<1>2. ComposedTypeOK /\ CheckpointsGrow /\ [ComposedNext]_allVars => CheckpointsGrow'
  <2> SUFFICES ASSUME ComposedTypeOK, CheckpointsGrow, [ComposedNext]_allVars
               PROVE  CheckpointsGrow'
    OBVIOUS
  <2>1. CASE UNCHANGED <<checkpoints, heads>>
    BY <2>1 DEF CheckpointsGrow, Grows
  <2>2. ASSUME NEW ids \in SUBSET RevocableIds, PublishCheckpoint(ids)
        PROVE  CheckpointsGrow'
    <3> DEFINE t == Append(checkpoints, Revoked \cup ids)
    <3>1. /\ checkpoints \in Seq(SUBSET blocks) /\ Grows(checkpoints)
          /\ \A head \in heads : head # << >> /\ Grows(head)
      BY DEF ComposedTypeOK, EvidenceOK, CheckpointsGrow
    <3>2. Revoked \cup ids \in SUBSET blocks
      BY <3>1 DEF Revoked, RevocableIds
    <3>3. checkpoints # << >> => checkpoints[Len(checkpoints)] \subseteq Revoked \cup ids
      BY DEF Revoked
    <3>4. t # << >> /\ Grows(t)
      BY <3>1, <3>2, <3>3, GrowsBy
    <3>5. checkpoints' = t /\ heads' = heads \cup {t}
      BY <2>2 DEF PublishCheckpoint
    <3> HIDE DEF t
    <3>6. Grows(checkpoints')
      BY <3>4, <3>5
    <3>7. ASSUME NEW head \in heads' PROVE head # << >> /\ Grows(head)
      BY <3>1, <3>4, <3>5
    <3> QED BY <3>4, <3>5, <3>7 DEF CheckpointsGrow, Grows
  <2>3. CASE RevocationLogRestart
    <3>1. checkpoints' = << >> /\ heads' = heads /\ DOMAIN << >> = {}
      BY <2>3 DEF RevocationLogRestart
    <3> QED BY <3>1 DEF CheckpointsGrow, Grows
  <2> QED BY <2>1, <2>2, <2>3 DEF ComposedNext, evidence, allVars, Act, WitnessAppend, Attest
<1> QED BY <1>1, <1>2, ComposedTypeCorrect, PTL DEF ComposedSpec

-----------------------------------------------------------------------------
(* What a valid attestation under a sound key means.                       *)

\* The signature of a completion covers all of it but the signature.
LEMMA SamePayload ==
  ASSUME NEW c, NEW d, signing_payload(c) = signing_payload(d)
  PROVE  /\ c.chain_digest = d.chain_digest /\ c.requested = d.requested
         /\ c.outcome = d.outcome /\ c.witnessed_root = d.witnessed_root
         /\ c.inclusion = d.inclusion /\ c.attester_key = d.attester_key /\ c.role = d.role
BY DEF signing_payload

\* What attest_as makes is signed with the key it names, and says what it was given.
LEMMA AttestedParts ==
  ASSUME NEW role, NEW key, NEW chain, NEW requested, NEW outcome, NEW inclusion,
         NEW c, c = attest_as(role, key, chain, requested, outcome, inclusion)
  PROVE  /\ c.chain_digest = digest(chain) /\ c.requested = requested /\ c.outcome = outcome
         /\ c.witnessed_root = merkle_root(inclusion.of) /\ c.inclusion = inclusion
         /\ c.attester_key = key
         /\ c.signature = sign(KeyForm[key], signing_payload(c))
BY DEF attest_as, Completion, signing_payload

\* A false completion is signed with a dishonest key, or carries somebody's signature.
LEMMA FalseSignature ==
  ASSUME NEW chain, NEW c \in FalseCompletions(chain)
  PROVE  \/ \E a \in attested : c.signature = a.signature
         \/ \E claim \in Claims : c.signature = sign(claim.signing_key, signing_payload(c))
<1>0. PICK claim \in Claims, leaf \in DOMAIN log :
        \E signature \in {OwnSignature(claim, chain, Inclusion(log, leaf))}
                           \cup {a.signature : a \in SignedWith(claim.attester_key)} :
          c = Claimed(claim, chain, Inclusion(log, leaf), signature)
  BY DEF FalseCompletions
<1>1. PICK signature \in {OwnSignature(claim, chain, Inclusion(log, leaf))}
                           \cup {a.signature : a \in SignedWith(claim.attester_key)} :
        c = Claimed(claim, chain, Inclusion(log, leaf), signature)
  BY <1>0
<1>2. c.signature = signature
  BY <1>1 DEF Claimed, Completion
<1>3. CASE signature = OwnSignature(claim, chain, Inclusion(log, leaf))
  <2>1. signing_payload(Claimed(claim, chain, Inclusion(log, leaf), {})) = signing_payload(c)
    BY <1>1 DEF Claimed, Completion, signing_payload
  <2> QED BY <1>2, <1>3, <2>1 DEF OwnSignature
<1>4. CASE signature \in {a.signature : a \in SignedWith(claim.attester_key)}
  BY <1>2, <1>4 DEF SignedWith
<1> QED BY <1>1, <1>3, <1>4

\* A valid attestation under a sound key has the content of one that its holder made.
LEMMA SoundMeansAttested ==
  ASSUME HonestlyAttested, NEW chain, NEW c \in Completions(chain), IsSound(c.attester_key),
         verify_signature(signing_payload(c), c.signature, KeyForm[c.attester_key])
  PROVE  \E a \in attested : signing_payload(a) = signing_payload(c)
<1>1. CASE c \in attested
  BY <1>1
<1>2. CASE c \in FalseCompletions(chain)
  <2>1. CASE \E a \in attested : c.signature = a.signature
    <3>1. PICK a \in attested : c.signature = a.signature
      BY <2>1
    <3>2. a.signature = sign(KeyForm[a.attester_key], signing_payload(a))
      <4>1. PICK deed \in done :
              a = attest_as(a.role, a.attester_key, deed.chain, deed.requested, deed.outcome,
                            a.inclusion)
        BY DEF HonestlyAttested
      <4> QED BY <4>1, AttestedParts
    <3>3. signing_payload(c) = signing_payload(a)
      BY <3>1, <3>2, ValidMeansEverySecret
    <3> QED BY <3>3
  <2>2. ASSUME NEW claim \in Claims, c.signature = sign(claim.signing_key, signing_payload(c))
        PROVE  FALSE
    <3>1. \A part \in Components(claim.signing_key) :
            part.bytes \in HonestSecret => part.algorithm \in Broken
      BY ClaimsAssumption
    <3>2. Sound(KeyForm[c.attester_key], HonestSecret, Broken)
      BY DEF IsSound
    <3> QED BY <2>2, <3>1, <3>2, SoundNeedsItsHolder
  <2> QED BY <1>2, <2>1, <2>2, FalseSignature
<1> QED BY <1>1, <1>2 DEF Completions

\* So what passes the gates under such a key was done.
LEMMA SoundWord ==
  ASSUME EvidenceOK, HonestlyAttested, NEW chain \in Chains, NEW c \in Completions(chain),
         NEW receipt, NEW root \in TrustedRoots,
         Witnessed(chain, receipt, c, root), AsRecorded(receipt, c),
         independently_signed(c, executor_key(chain)), IsSound(c.attester_key)
  PROVE  WasDone(chain, receipt)
<1>1. PICK a \in attested : signing_payload(a) = signing_payload(c)
  BY SoundMeansAttested DEF independently_signed
<1>2. PICK deed \in done :
        /\ a.inclusion.of[a.inclusion.leaf] \in ReceiptsOf(deed)
        /\ a = attest_as(a.role, a.attester_key, deed.chain, deed.requested, deed.outcome,
                         a.inclusion)
  BY DEF HonestlyAttested
<1>3. /\ c.chain_digest = digest(deed.chain) /\ c.requested = deed.requested
      /\ c.outcome = deed.outcome /\ c.inclusion = a.inclusion
  BY <1>1, <1>2, SamePayload, AttestedParts
<1>4. /\ verify_inclusion(receipt, c.inclusion, root) /\ digest(deed.chain) = digest(chain)
  BY <1>3 DEF Witnessed
<1>5. receipt.nonce = deed.nonce
  BY <1>2, <1>3, <1>4 DEF verify_inclusion, ReceiptsOf
<1>6. deed = [chain |-> chain, requested |-> receipt.action_digest,
              outcome |-> receipt.action_digest, nonce |-> receipt.nonce]
  <2>1. deed \in Deed
    BY DEF EvidenceOK
  <2>2. deed.chain = chain
    BY <1>4 DEF digest
  <2> QED BY <1>3, <1>5, <2>1, <2>2 DEF AsRecorded, Deed
<1>7. \E i \in DOMAIN log : log[i] = receipt
  <2>1. PICK n \in 0 .. Len(log) : root = merkle_root(SubSeq(log, 1, n))
    BY DEF TrustedRoots
  <2>2. c.inclusion.of = SubSeq(log, 1, n)
    BY <1>4, <2>1 DEF verify_inclusion, merkle_root
  <2>3. c.inclusion.leaf \in DOMAIN SubSeq(log, 1, n)
        /\ SubSeq(log, 1, n)[c.inclusion.leaf] = receipt
    BY <1>4, <2>2 DEF verify_inclusion
  <2>4. log \in Seq(Receipt) /\ n \in Nat /\ n <= Len(log)
    BY <2>1 DEF EvidenceOK
  <2> QED BY <2>3, <2>4
<1> QED BY <1>6, <1>7 DEF WasDone

\* Whoever is anchored, and is not the executor, is an anchor.
LEMMA AnchoredIsAnchor ==
  ASSUME TypeOK, NEW chain \in Chains, NEW policy \in Policies, NEW c,
         attester_is_anchored(chain, c, policy), c.attester_key # executor_key(chain)
  PROVE  c.attester_key \in Anchors(chain, policy)
<1>1. \A i \in 1 .. Len(chain) : chain[i].from_key \in Key /\ chain[i].to_key \in Key
  BY ChainsAreChains DEF TypeOK, Block
<1>2. 1 \in 1 .. Len(chain) /\ 2 .. Len(chain) \subseteq 1 .. Len(chain)
  BY ChainsAreChains
<1>3. CASE c.attester_key \in policy.trusted_attesters
  BY <1>3, PoliciesAssumption DEF Anchors, Policy
<1>4. CASE policy.allow_counter_signed /\ chain_has_key(chain, c.attester_key)
  <2>1. c.attester_key \in Key
    BY <1>1, <1>2, <1>4 DEF chain_has_key
  <2> QED BY <1>4, <2>1 DEF Anchors, AttesterKey
<1> QED BY <1>3, <1>4 DEF attester_is_anchored

LEMMA AcceptedAction ==
  ASSUME TypeOK, EvidenceOK, HonestlyAttested, NEW chain \in Chains,
         NEW c \in Completions(chain), NEW policy \in Policies, Unsound(chain, policy) = {},
         NEW receipt, NEW root \in TrustedRoots, verify(chain, receipt, c, root, policy)
  PROVE  WasDone(chain, receipt)
<1>1. c.attester_key \in Anchors(chain, policy)
  BY AnchoredIsAnchor DEF verify, independently_signed
<1>2. IsSound(c.attester_key)
  BY <1>1 DEF Unsound
<1> QED BY <1>2, SoundWord DEF verify

-----------------------------------------------------------------------------
(* The theorems.                                                           *)

(* "Completeness ..., non-equivocation ..., and independent completion     *)
(* attestation": what verify accepts was done, and its receipt is in the   *)
(* agreed log, if those whom the policy trusts for the chain are sound.    *)
THEOREM VerifiedActions == ComposedSpec => []AcceptedWasDone
<1>1. ComposedTypeOK /\ HonestlyAttested => AcceptedWasDone
  BY AcceptedAction DEF ComposedTypeOK, AcceptedWasDone
<1> QED BY <1>1, ComposedTypeCorrect, HonestWord, PTL

(* "An in-scope action for a different declared purpose no longer slips    *)
(* through": what verify_with_purpose accepts was done for the purpose of  *)
(* the last hop, and an honest delegator did delegate that hop.            *)
THEOREM VerifiedPurpose == ComposedSpec => []AcceptedServesPurpose
<1>1. ComposedTypeOK /\ HonestlyAttested /\ HonestHopsAreGenuine => AcceptedServesPurpose
  <2> SUFFICES ASSUME TypeOK, EvidenceOK, HonestlyAttested, HonestHopsAreGenuine,
                      NEW chain \in Chains, NEW c \in Completions(chain), NEW policy \in Policies,
                      NEW params \in Params, Unsound(chain, policy) = {},
                      NEW receipt \in Receipts, NEW root \in TrustedRoots,
                      verify_with_purpose(chain, receipt, c, root, policy, params)
               PROVE  /\ \E deed \in done :
                           /\ deed.chain = chain /\ deed.requested = deed.outcome
                           /\ deed.outcome.purpose = chain[Len(chain)].purpose
                      /\ chain[Len(chain)].from_key \in Honest =>
                           \E m \in made : m.block = chain[Len(chain)]
    BY DEF ComposedTypeOK, AcceptedServesPurpose
  <2>1. WasDone(chain, receipt)
    BY AcceptedAction DEF verify_with_purpose
  <2>2. receipt.action_digest.purpose = chain[Len(chain)].purpose
    BY DEF verify_with_purpose, verify_action_purpose_binding, bind_action
  <2>3. ASSUME chain[Len(chain)].from_key \in Honest
        PROVE  \E m \in made : m.block = chain[Len(chain)]
    <3>1. Len(chain) \in 1 .. Len(verified) /\ chain[Len(chain)] = verified[Len(chain)]
      BY ChainsAreChains
    <3> QED BY <2>3, <3>1 DEF HonestHopsAreGenuine
  <2> QED BY <2>1, <2>2, <2>3 DEF WasDone
<1>2. Spec => []HonestHopsAreGenuine
  BY NoSplicing
<1> QED BY <1>1, <1>2, ComposedTypeCorrect, HonestWord, KeepsChains, PTL

\* The valid attestations of a bundle have as many keys as they are: when the unsound
\* anchors are fewer, one of them is under a sound key.
LEMMA SomeoneSound ==
  ASSUME TypeOK, NEW chain \in Chains, NEW policy \in Policies, NEW n \in Nat,
         NEW bundle, DOMAIN bundle.attestations = 1 .. n, bundle.threshold \in Nat,
         NEW required \in Nat, required <= bundle.threshold,
         Cardinality(Unsound(chain, policy)) < required,
         enough_independent(bundle, executor_key(chain)),
         \A i \in 1 .. n : attester_is_anchored(chain, bundle.attestations[i], policy)
  PROVE  \E i \in 1 .. n :
           /\ independently_signed(bundle.attestations[i], executor_key(chain))
           /\ IsSound(bundle.attestations[i].attester_key)
<1> DEFINE Valid == {i \in 1 .. n : independently_signed(bundle.attestations[i],
                                                        executor_key(chain))}
           key == [i \in Valid |-> bundle.attestations[i].attester_key]
<1>1. bundle.threshold <= Cardinality(Valid)
  BY DEF enough_independent
<1>2. IsFiniteSet(Valid) /\ Cardinality(Valid) \in Nat
  <2>1. \A a, b \in Int : IsFiniteSet(a .. b)
    BY FS_Interval
  <2>2. 1 \in Int /\ n \in Int
    OBVIOUS
  <2>3. IsFiniteSet(1 .. n)
    BY <2>1, <2>2
  <2>4. Valid \subseteq 1 .. n
    OBVIOUS
  <2>5. IsFiniteSet(Valid)
    BY <2>3, <2>4, FS_Subset
  <2> QED BY <2>5, FS_CardinalityType
<1>3. IsFiniteSet(Unsound(chain, policy)) /\ Cardinality(Unsound(chain, policy)) \in Nat
  <2>1. Unsound(chain, policy) \subseteq AttesterKey
    BY DEF Unsound, Anchors
  <2> QED BY <2>1, KeyFormAssumption, FS_Subset, FS_CardinalityType
<1>4. ASSUME NEW i \in Valid
      PROVE  bundle.attestations[i].attester_key \in Anchors(chain, policy)
  BY AnchoredIsAnchor DEF independently_signed
<1>5. CASE \E i \in Valid : IsSound(bundle.attestations[i].attester_key)
  BY <1>5
<1>6. CASE \A i \in Valid : ~ IsSound(bundle.attestations[i].attester_key)
  <2>1. key \in [Valid -> Unsound(chain, policy)]
    BY <1>4, <1>6 DEF Unsound
  <2>2. \A i, j \in Valid : key[i] = key[j] => i = j
    BY DEF enough_independent
  <2>3. key \in Injection(Valid, Unsound(chain, policy))
    BY <2>1, <2>2 DEF Injection, IsInjective
  <2>4. Cardinality(Valid) <= Cardinality(Unsound(chain, policy))
    BY <1>2, <1>3, <2>3, FS_Injection
  <2> QED BY <1>1, <1>2, <1>3, <2>4
<1> QED BY <1>5, <1>6

(* "No lone attester's word decides completion, and one compromised        *)
(* attester can't fabricate it" (ThresholdAttestation): the same of a      *)
(* bundle, while the unsound anchors are fewer than what is required.      *)
THEOREM VerifiedBundles == ComposedSpec => []BundleWasDone
<1>1. ComposedTypeOK /\ HonestlyAttested => BundleWasDone
  <2> SUFFICES ASSUME TypeOK, EvidenceOK, HonestlyAttested, NEW chain \in Chains,
                      NEW receipt \in Receipts, NEW policy \in Policies, NEW required \in Required,
                      Cardinality(Unsound(chain, policy)) < required,
                      NEW n \in 0 .. MaxBundle, NEW bundle \in Bundles(chain, n),
                      verify_threshold(chain, receipt, bundle, merkle_root(log), required, policy)
               PROVE  WasDone(chain, receipt)
    BY DEF ComposedTypeOK, BundleWasDone
  <2>1. /\ n \in Nat /\ DOMAIN bundle.attestations = 1 .. n /\ bundle.threshold \in Nat
        /\ \A i \in 1 .. n : bundle.attestations[i] \in Completions(chain)
    BY BoundsAssumption DEF Bundles
  <2>2. required \in Nat /\ required <= bundle.threshold
    BY PoliciesAssumption DEF verify_threshold
  <2>3. /\ enough_independent(bundle, executor_key(chain))
        /\ \A i \in 1 .. n : /\ attester_is_anchored(chain, bundle.attestations[i], policy)
                             /\ AsRecorded(receipt, bundle.attestations[i])
                             /\ Witnessed(chain, receipt, bundle.attestations[i],
                                          merkle_root(log))
    BY <2>1 DEF verify_threshold
  <2>4. PICK i \in 1 .. n :
          /\ independently_signed(bundle.attestations[i], executor_key(chain))
          /\ IsSound(bundle.attestations[i].attester_key)
    BY <2>1, <2>2, <2>3, SomeoneSound
  <2>5. merkle_root(log) \in TrustedRoots
    <3>1. log \in Seq(Receipt) /\ Len(log) \in 0 .. Len(log)
      BY DEF EvidenceOK
    <3>2. SubSeq(log, 1, Len(log)) = log
      BY <3>1
    <3> QED BY <3>1, <3>2 DEF TrustedRoots
  <2> QED BY <2>1, <2>3, <2>4, <2>5, SoundWord
<1> QED BY <1>1, ComposedTypeCorrect, HonestWord, PTL

(* "A revoked hop fails": proofs of the last checkpoint of a head, or of   *)
(* later ones of its log, show that no hop was revoked in it, whichever of *)
(* them each hop's proof is of, under whatever head it is presented, and   *)
(* for any number of restarts.                                             *)
THEOREM VerifiedLive == ComposedSpec => []AcceptedWasLive
<1>1. ComposedTypeOK /\ CheckpointsGrow => AcceptedWasLive
  <2> SUFFICES ASSUME ComposedTypeOK, CheckpointsGrow, NEW chain \in Chains, NEW proofs \in ProofMaps,
                      verify_chain_not_revoked(chain, proofs),
                      NEW head \in heads, NotBefore(proofs, head),
                      NEW n \in DOMAIN chain
               PROVE  chain[n] \notin head[Len(head)]
    BY DEF AcceptedWasLive, verify_with_revocation, verify_threshold_with_revocation
  <2> DEFINE later == proofs[chain[n]].head
             leaf == proofs[chain[n]].leaf
             m == Len(head)
  <2>1. chain[n] \in DOMAIN proofs /\ later \in heads /\ chain[n] \notin later[leaf]
    BY DEF verify_chain_not_revoked, revocation_ids_for_chain, verify_not_revoked
  <2>2. leaf \in DOMAIN later
    <3>1. proofs[chain[n]] \in RevocationProofs
      BY <2>1 DEF ProofMaps
    <3> QED BY <3>1 DEF RevocationProofs
  <2>3. IsPrefix(head, later) /\ m <= leaf
    BY <2>1 DEF NotBefore
  <2>4. /\ head \in Seq(SUBSET blocks) /\ head # << >>
        /\ later \in Seq(SUBSET blocks) /\ Grows(later)
    BY <2>1 DEF ComposedTypeOK, EvidenceOK, CheckpointsGrow
  <2> HIDE DEF later, leaf, m
  <2>5. /\ m \in 1 .. m /\ m <= Len(later) /\ m \in DOMAIN later /\ later \in Seq(SUBSET blocks)
        /\ head = SubSeq(later, 1, m)
    BY <2>3, <2>4 DEF IsPrefix, m
  <2>6. head[m] = later[m]
    BY <2>5
  <2>7. later[m] \subseteq later[leaf]
    BY <2>2, <2>3, <2>4, <2>5 DEF Grows
  <2> QED BY <2>1, <2>6, <2>7 DEF m
<1> QED BY <1>1, ComposedTypeCorrect, RevocationsStay, PTL

(* The verifier refuses nothing that is right: an honest attestation of an *)
(* action done as asked and recorded is accepted under the root it names.  *)
THEOREM HonestActionsPass == ComposedSpec => []HonestActionVerifies
<1>1. TypeOK /\ VerifiedIsChain /\ HonestlyAttested => HonestActionVerifies
  <2> SUFFICES ASSUME TypeOK, VerifiedIsChain, HonestlyAttested, NEW c \in attested, NEW chain \in Chains,
                      NEW policy \in Policies,
                      c.chain_digest = digest(chain), c.attester_key # executor_key(chain),
                      \/ c.role = "ThirdParty" /\ c.attester_key \in policy.trusted_attesters
                      \/ /\ c.role = "CounterSigned" /\ policy.allow_counter_signed
                         /\ \E i \in DOMAIN chain :
                              c.attester_key \in {chain[i].from_key, chain[i].to_key},
                      c.requested = c.inclusion.of[c.inclusion.leaf].action_digest,
                      c.outcome = c.inclusion.of[c.inclusion.leaf].action_digest
               PROVE  verify(chain, c.inclusion.of[c.inclusion.leaf], c, c.witnessed_root, policy)
    BY DEF HonestActionVerifies
  <2>1. PICK deed \in done :
          /\ c.attester_key \in HonestAttester
          /\ c.inclusion.leaf \in DOMAIN c.inclusion.of
          /\ c.inclusion.of[c.inclusion.leaf] \in ReceiptsOf(deed)
          /\ c = attest_as(c.role, c.attester_key, deed.chain, deed.requested, deed.outcome,
                           c.inclusion)
    BY DEF HonestlyAttested
  <2>2. /\ c.chain_digest = digest(deed.chain) /\ c.witnessed_root = merkle_root(c.inclusion.of)
        /\ c.signature = sign(KeyForm[c.attester_key], signing_payload(c))
    BY <2>1, AttestedParts
  <2>3. independently_signed(c, executor_key(chain))
    <3>1. WellFormed(KeyForm[c.attester_key])
      BY <2>1, KeyFormAssumption, HonestAttesterAssumption
    <3> QED BY <2>2, <3>1, SignVerifies DEF independently_signed
  <2>4. attester_is_anchored(chain, c, policy)
    <3>1. ASSUME NEW i \in DOMAIN chain, c.attester_key \in {chain[i].from_key, chain[i].to_key}
          PROVE  chain_has_key(chain, c.attester_key)
      <4>1. i \in 1 .. Len(chain) /\ i \in Nat
        BY ChainsAreChains
      <4>2. CASE i = 1
        <5>1. chain[1] = verified[1] /\ 1 \in 1 .. Len(verified)
          BY ChainsAreChains
        <5>2. chain[1].to_key = chain[1].from_key
          BY <5>1 DEF VerifiedIsChain
        <5> QED BY <3>1, <4>2, <5>2 DEF chain_has_key
      <4>3. CASE i # 1
        <5>1. i \in 2 .. Len(chain)
          BY <4>1, <4>3
        <5> QED BY <3>1, <5>1 DEF chain_has_key
      <4> QED BY <4>2, <4>3
    <3> QED BY <3>1 DEF attester_is_anchored
  <2>5. Witnessed(chain, c.inclusion.of[c.inclusion.leaf], c, c.witnessed_root)
    BY <2>1, <2>2 DEF Witnessed, ReceiptsOf, verify_inclusion
  <2> QED BY <2>3, <2>4, <2>5 DEF verify, AsRecorded
<1> QED BY <1>1, ComposedTypeCorrect, HonestWord, Genuine, KeepsChains, PTL DEF ComposedTypeOK
=============================================================================
