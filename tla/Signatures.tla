----------------------------- MODULE Signatures -----------------------------
(***************************************************************************)
(* core/crypto: signatures that carry their algorithm.  A signature is the *)
(* term of what was signed and with which secret; a key is its secret.  A  *)
(* hybrid key or signature frames two of other algorithms, and both must   *)
(* verify.                                                                 *)
(***************************************************************************)
EXTENDS Naturals, Sequences

\* The algorithms that have a component tag.  Hybrid has none: hybrids do not nest.
Plain == {"Ed25519", "MlDsa87"}

Tagged(algorithm, bytes) == [algorithm |-> algorithm, bytes |-> bytes]

-----------------------------------------------------------------------------
(* Framing: tag, length and payload of two components.  Bytes of another   *)
(* shape are any other sequence: too few components for what is truncated, *)
(* too many for trailing bytes, an algorithm that is not in Plain for an   *)
(* unknown tag.                                                            *)

\* Frames nothing when a component has no tag (UnsupportedAlgorithm).
frame_two(first, second) ==
  IF first.algorithm \in Plain /\ second.algorithm \in Plain THEN <<first, second>> ELSE << >>

decodes_two(bytes) == Len(bytes) = 2 /\ \A i \in 1 .. 2 : bytes[i].algorithm \in Plain

-----------------------------------------------------------------------------
(* Keys and signing.  HybridSigner::new takes any two signers that are not *)
(* hybrid, two of one algorithm included.                                  *)

HybridKey(classical, post_quantum) == Tagged("Hybrid", frame_two(classical, post_quantum))

sign_plain(key, payload) ==
  Tagged(key.algorithm, <<[secret |-> key.bytes, payload |-> payload]>>)

sign(key, payload) ==
  IF key.algorithm = "Hybrid"
  THEN Tagged("Hybrid",
              frame_two(sign_plain(key.bytes[1], payload), sign_plain(key.bytes[2], payload)))
  ELSE sign_plain(key, payload)

-----------------------------------------------------------------------------
(* Verification: TRUE is Ok(true).  Ok(false) and Err are both refusals.   *)

plain_verify(payload, signature, key) ==
  /\ signature.algorithm = key.algorithm
  /\ signature.bytes = <<[secret |-> key.bytes, payload |-> payload]>>

\* Variant: one valid component is enough.
either_verifies(payload, sig_bytes, key_bytes) ==
  /\ decodes_two(sig_bytes)
  /\ decodes_two(key_bytes)
  /\ \E i \in 1 .. 2 : plain_verify(payload, sig_bytes[i], key_bytes[i])

hybrid_verify(payload, sig_bytes, key_bytes) ==
  /\ decodes_two(sig_bytes)
  /\ decodes_two(key_bytes)
  /\ \A i \in 1 .. 2 : plain_verify(payload, sig_bytes[i], key_bytes[i])

verify_signature(payload, signature, key) ==
  /\ signature.algorithm = key.algorithm
  /\ \/ /\ key.algorithm = "Hybrid"
        /\ hybrid_verify(payload, signature.bytes, key.bytes)
     \/ /\ key.algorithm \in Plain
        /\ plain_verify(payload, signature, key)

-----------------------------------------------------------------------------
(* Who can sign for a key.                                                 *)

\* The plain keys behind a key.
Components(key) ==
  IF key.algorithm = "Hybrid" THEN {key.bytes[i] : i \in 1 .. 2} ELSE {key}

\* What HybridSigner::new and the plain signers make.
WellFormed(key) ==
  \/ key.algorithm \in Plain
  \/ key.algorithm = "Hybrid" /\ decodes_two(key.bytes)

(* Some component of the key is of a scheme that is not broken, and its    *)
(* secret is with somebody honest.                                         *)
Sound(key, honestSecrets, broken) ==
  \E part \in Components(key) : part.bytes \in honestSecrets /\ part.algorithm \notin broken
=============================================================================
