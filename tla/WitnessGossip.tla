---------------------------- MODULE WitnessGossip ----------------------------
(***************************************************************************)
(* Relying parties of the witness service: they keep signed tree heads,    *)
(* fetch consistency proofs and reconcile heads, with the service (POST    *)
(* gossip) or between themselves (reconcile_heads in core/witness).  An    *)
(* operator may also cheat and sign a head of another log.                 *)
(*                                                                         *)
(* Between the fetch of a consistency proof and its use the log moves on   *)
(* and the service may crash.                                              *)
(***************************************************************************)
EXTENDS WitnessService, Consistency

VARIABLES
  honest,     \* the operator has only signed heads of the log it serves
  proof,      \* the consistency proof last fetched
  verdict     \* the answer to the last reconciliation

gossipVars == <<up, pc, tree, file, synced, heads, acked, honest, proof, verdict>>

Proof == [old : Seq(Receipt), new : Seq(Receipt)]

GossipTypeOK ==
  /\ TypeOK
  /\ honest \in BOOLEAN
  /\ proof \in Proof
  /\ verdict \in [reason : {"none", "consistent", "forked_root", "inconsistent"},
                  ours : Seq(Receipt), peer : Seq(Receipt)]

GossipInit ==
  /\ Init
  /\ honest = TRUE
  /\ proof = [old |-> << >>, new |-> << >>]
  /\ verdict = [reason |-> "none", ours |-> << >>, peer |-> << >>]

(* GET consistency: `second` must be the current size and first <= second, *)
(* otherwise 400.                                                          *)
GetConsistency ==
  /\ up
  /\ pc = "idle"
  /\ \E first \in 0 .. Len(tree) :
       proof' = [old |-> SubSeq(tree, 1, first), new |-> tree]
  /\ UNCHANGED <<vars, honest, verdict>>

\* Variant: heads of one size are taken to agree.
EqualSizesAgree(a, b, p) ==
  LET small == IF Len(a) < Len(b) THEN a ELSE b
      large == IF Len(a) < Len(b) THEN b ELSE a
  IN  IF Len(a) = Len(b) \/ \E q \in p : VerifyConsistency(q, Root(small), Root(large), Len(small), Len(large))
      THEN "consistent" ELSE "inconsistent"

(* reconcile_heads of two heads under the log's key; p holds a proof or    *)
(* none.                                                                   *)
ReconcileHeads(a, b, p) ==
  LET small == IF Len(a) < Len(b) THEN a ELSE b
      large == IF Len(a) < Len(b) THEN b ELSE a
      linked == \E q \in p : VerifyConsistency(q, Root(small), Root(large), Len(small), Len(large))
  IN  CASE Len(a) = Len(b) -> IF Root(a) = Root(b) THEN "consistent" ELSE "forked_root"
        [] Len(a) # Len(b) -> IF linked THEN "consistent" ELSE "inconsistent"

Reconcile(ours, peer, p) ==
  verdict' = [reason |-> ReconcileHeads(ours, peer, p), ours |-> ours, peer |-> peer]

(* POST gossip: the service signs its own head and reconciles it with the  *)
(* peer's, with the proof the peer sends along.                            *)
Gossip ==
  /\ up
  /\ pc = "idle"
  /\ \E peer \in heads, p \in {{proof}, {}} : Reconcile(tree, peer, p)
  /\ UNCHANGED <<vars, honest, proof>>

(* Two relying parties compare what they were served.                      *)
CompareKept ==
  /\ \E a, b \in heads, p \in {{proof}, {}} : Reconcile(a, b, p)
  /\ UNCHANGED <<vars, honest, proof>>

(* A dishonest operator signs a head of a log it does not serve, and can   *)
(* prove it consistent with any of that log's prefixes.                    *)
Equivocate ==
  /\ Cardinality(heads) < MaxHeads
  /\ \E r \in Receipt :
       LET other == Append(r.prev_root, r) IN
       /\ Chained(other)
       /\ heads' = heads \cup {Root(other)}
       /\ \E n \in 0 .. Len(other) : proof' = [old |-> SubSeq(other, 1, n), new |-> other]
  /\ honest' = FALSE
  /\ UNCHANGED <<up, pc, tree, file, synced, acked, verdict>>

GossipNext ==
  \/ Next /\ UNCHANGED <<honest, proof, verdict>>
  \/ GetConsistency
  \/ Gossip
  \/ CompareKept
  \/ Equivocate

GossipSpec == GossipInit /\ [][GossipNext]_gossipVars

-----------------------------------------------------------------------------
(* Properties.                                                             *)

OnOneHistory(a, b) == IsPrefix(a, b) \/ IsPrefix(b, a)

(* Heads that are declared consistent are heads of one growing log: no     *)
(* stale, swapped or foreign proof hides an equivocation.                  *)
ConsistentMeansOneHistory ==
  verdict.reason = "consistent" => OnOneHistory(verdict.ours, verdict.peer)

(* An operator that never cheats is never convicted of a forked root,      *)
(* whatever crashes the service went through since it signed the peer's    *)
(* head.                                                                   *)
HonestLogNeverForked == honest => verdict.reason # "forked_root"

(* "A restart does not lose or fork the log" (services/witness/README.md): *)
(* the log of an honest service extends every head that it acknowledged or *)
(* published, after whatever restarts and failed appends of one kind.      *)
HonestHeadsServed == honest => HeadsServed
=============================================================================
