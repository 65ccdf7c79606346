------------------------ MODULE WitnessGossipProofs ------------------------
(***************************************************************************)
(* Proofs about WitnessGossip, for every set of receipts and any number of *)
(* heads that relying parties keep: a verdict is right in both directions. *)
(***************************************************************************)
EXTENDS WitnessGossip, WitnessServiceProofs

(* What VerifyConsistency accepts of a proof of some log's growth, heads   *)
(* being the logs they are the roots of.                                   *)
LEMMA VerifiedIsPrefix ==
  ASSUME NEW a \in Seq(Receipt), NEW b \in Seq(Receipt), Len(a) < Len(b),
         NEW p \in Proof, IsPrefix(p.old, p.new),
         VerifyConsistency(p, Root(a), Root(b), Len(a), Len(b))
  PROVE  IsPrefix(a, b)
<1>1. Len(a) \in Nat /\ Len(b) \in Nat
  BY LenProperties
<1>2. CASE Len(a) = 0
  <2>1. a = << >>
    BY <1>2, EmptySeq
  <2>2. SubSeq(b, 1, Len(a)) = << >>
    <3>1. 0 \in 0 .. Len(b)
      BY <1>1
    <3>2. SubSeq(b, 1, 0) \in Seq(Receipt) /\ Len(SubSeq(b, 1, 0)) = 0
      BY <3>1, CutProperties
    <3>3. QED
      BY <1>2, <3>2, EmptySeq
  <2>3. a = SubSeq(b, 1, Len(a)) /\ Len(a) <= Len(b)
    BY <1>1, <2>1, <2>2
  <2>4. QED
    BY <2>3, PrefixIsCut
<1>3. CASE Len(a) # 0
  <2>1. p.old = a /\ p.new = b
    BY <1>1, <1>3 DEF VerifyConsistency, Root
  <2>2. QED
    BY <2>1
<1>4. QED
  BY <1>2, <1>3

(* reconcile_heads finds heads consistent only if one log extends the      *)
(* other's.                                                                *)
LEMMA ReconciledIsOneHistory ==
  ASSUME NEW a \in Seq(Receipt), NEW b \in Seq(Receipt), NEW p,
         \A q \in p : q \in Proof /\ IsPrefix(q.old, q.new),
         ReconcileHeads(a, b, p) = "consistent"
  PROVE  OnOneHistory(a, b)
<1>1. Len(a) \in Nat /\ Len(b) \in Nat
  BY LenProperties
<1>2. CASE Len(a) = Len(b)
  <2>1. a = b
    BY <1>2 DEF ReconcileHeads, Root
  <2>2. IsPrefix(a, b)
    BY <2>1, PrefixIsCut, SubSeqFull
  <2>3. QED
    BY <2>2 DEF OnOneHistory
<1>3. CASE Len(a) < Len(b)
  <2>1. PICK q \in p : VerifyConsistency(q, Root(a), Root(b), Len(a), Len(b))
    BY <1>1, <1>3 DEF ReconcileHeads
  <2>2. QED
    BY <1>3, <2>1, VerifiedIsPrefix DEF OnOneHistory
<1>4. CASE Len(b) < Len(a)
  <2>1. PICK q \in p : VerifyConsistency(q, Root(b), Root(a), Len(b), Len(a))
    BY <1>1, <1>4 DEF ReconcileHeads
  <2>2. QED
    BY <1>4, <2>1, VerifiedIsPrefix DEF OnOneHistory
<1>5. QED
  BY <1>1, <1>2, <1>3, <1>4

(* Heads that are cuts of one log, and as long, are equal.                 *)
LEMMA NotForked ==
  ASSUME NEW a, NEW b, NEW p, NEW log,
         a = SubSeq(log, 1, Len(a)), b = SubSeq(log, 1, Len(b))
  PROVE  ReconcileHeads(a, b, p) # "forked_root"
  BY DEF ReconcileHeads, Root

-----------------------------------------------------------------------------
(* Steps of the service under gossip.                                      *)

(* The parties' own state.                                                 *)
GossipStateOK ==
  /\ honest \in BOOLEAN
  /\ proof \in Proof
  /\ IsPrefix(proof.old, proof.new)
  /\ verdict \in [reason : {"none", "consistent", "forked_root", "inconsistent"},
                  ours : Seq(Receipt), peer : Seq(Receipt)]
  /\ ConsistentMeansOneHistory

GossipInv == Inv /\ GossipStateOK

\* Of an operator that never cheated: if its service crashes in one way only, and
\* if it is never stopped.
HonestInv == honest => HeadsInv /\ HeadsServed /\ verdict.reason # "forked_root"

HonestIoInv == honest => HeadsServed /\ verdict.reason # "forked_root"

LEMMA EmptyIsPrefix == << >> \in Seq(Receipt) /\ IsPrefix(<< >>, << >>)
<1>1. << >> \in Seq(Receipt)
  BY EmptySeq
<1>2. \A s \in Seq(Receipt) : IsPrefix(s, s)
  BY LenProperties DEF IsPrefix
<1>3. QED
  BY <1>1, <1>2

LEMMA GossipInvInit == GossipInit => GossipInv /\ HonestInv /\ HonestIoInv
<1> SUFFICES ASSUME GossipInit PROVE GossipInv /\ HonestInv /\ HonestIoInv
  OBVIOUS
<1>1. Init /\ honest = TRUE /\ proof = [old |-> << >>, new |-> << >>]
      /\ verdict = [reason |-> "none", ours |-> << >>, peer |-> << >>]
  BY DEF GossipInit
<1>2. GossipStateOK
  BY <1>1, EmptyIsPrefix DEF GossipStateOK, Proof, ConsistentMeansOneHistory
<1>3. QED
  BY <1>1, <1>2, InvInit, HeadsInvInit, IoInvInit DEF GossipInv, HonestInv, HonestIoInv

(* A verdict about two logs, with a proof that is one.                     *)
LEMMA ReconcileOK ==
  ASSUME GossipStateOK, NEW a \in Seq(Receipt), NEW b \in Seq(Receipt),
         NEW p \in {{proof}, {}}, Reconcile(a, b, p),
         honest' = honest, proof' = proof
  PROVE  GossipStateOK'
<1>1. verdict' = [reason |-> ReconcileHeads(a, b, p), ours |-> a, peer |-> b]
  BY DEF Reconcile
<1>2. ReconcileHeads(a, b, p) \in {"consistent", "forked_root", "inconsistent"}
  BY LenProperties DEF ReconcileHeads
<1>3. \A q \in p : q \in Proof /\ IsPrefix(q.old, q.new)
  BY DEF GossipStateOK
<1>4. verdict'.reason = "consistent" => OnOneHistory(verdict'.ours, verdict'.peer)
  BY <1>1, <1>3, ReconciledIsOneHistory
<1>5. verdict' \in [reason : {"none", "consistent", "forked_root", "inconsistent"},
                    ours : Seq(Receipt), peer : Seq(Receipt)]
  BY <1>1, <1>2
<1>6. QED
  BY <1>4, <1>5 DEF GossipStateOK, ConsistentMeansOneHistory

(* The parties' state stays what it is, whatever the service does and      *)
(* whatever a dishonest operator signs.                                    *)
LEMMA GossipStateNext ==
  ASSUME TypeOK, GossipStateOK, [GossipNext]_gossipVars
  PROVE  GossipStateOK'
<1>1. GossipStateOK /\ tree \in Seq(Receipt) /\ heads \subseteq Seq(Receipt)
  BY DEF TypeOK
<1>2. CASE UNCHANGED gossipVars
  <2>1. UNCHANGED vars /\ UNCHANGED <<honest, proof, verdict>>
    BY <1>2 DEF gossipVars, vars
  <2>2. QED
    BY <1>1, <2>1 DEF GossipStateOK, ConsistentMeansOneHistory
<1>3. CASE Next /\ UNCHANGED <<honest, proof, verdict>>
  BY <1>1, <1>3 DEF GossipStateOK, ConsistentMeansOneHistory
<1>4. CASE GetConsistency
  <2>1. PICK first \in 0 .. Len(tree) :
          proof' = [old |-> SubSeq(tree, 1, first), new |-> tree]
    BY <1>4 DEF GetConsistency
  <2>2. UNCHANGED vars /\ UNCHANGED <<honest, verdict>>
    BY <1>4 DEF GetConsistency
  <2>3. SubSeq(tree, 1, first) \in Seq(Receipt) /\ IsPrefix(SubSeq(tree, 1, first), tree)
    <3>1. Len(tree) \in 0 .. Len(tree) /\ tree = SubSeq(tree, 1, Len(tree))
      BY <1>1, LenProperties, SubSeqFull
    <3>2. IsPrefix(SubSeq(tree, 1, first), SubSeq(tree, 1, Len(tree)))
      BY <1>1, <2>1, <3>1, CutIsPrefix
    <3>3. QED
      BY <1>1, <2>1, <3>1, <3>2, CutProperties
  <2>4. QED
    BY <1>1, <2>1, <2>2, <2>3 DEF GossipStateOK, ConsistentMeansOneHistory, Proof
<1>5. CASE Gossip
  <2>1. PICK peer \in heads, p \in {{proof}, {}} : Reconcile(tree, peer, p)
    BY <1>5 DEF Gossip
  <2>2. UNCHANGED vars /\ UNCHANGED <<honest, proof>>
    BY <1>5 DEF Gossip
  <2>3. QED
    BY <1>1, <2>1, <2>2, ReconcileOK
<1>6. CASE CompareKept
  <2>1. PICK a \in heads, b \in heads, p \in {{proof}, {}} : Reconcile(a, b, p)
    BY <1>6 DEF CompareKept
  <2>2. UNCHANGED vars /\ UNCHANGED <<honest, proof>>
    BY <1>6 DEF CompareKept
  <2>3. QED
    BY <1>1, <2>1, <2>2, ReconcileOK
<1>7. CASE Equivocate
  <2>1. PICK r \in Receipt :
          /\ heads' = heads \cup {Root(Append(r.prev_root, r))}
          /\ \E n \in 0 .. Len(Append(r.prev_root, r)) :
               proof' = [old |-> SubSeq(Append(r.prev_root, r), 1, n),
                         new |-> Append(r.prev_root, r)]
    BY <1>7 DEF Equivocate
  <2>2. UNCHANGED <<up, pc, tree, file, synced, acked, verdict>> /\ honest' = FALSE
    BY <1>7 DEF Equivocate
  <2> DEFINE other == Append(r.prev_root, r)
  <2>3. other \in Seq(Receipt)
    BY ReceiptAssumption, AppendProperties
  <2>4. PICK n \in 0 .. Len(other) : proof' = [old |-> SubSeq(other, 1, n), new |-> other]
    BY <2>1
  <2> HIDE DEF other
  <2>6. SubSeq(other, 1, n) \in Seq(Receipt) /\ IsPrefix(SubSeq(other, 1, n), other)
    <3>1. Len(other) \in 0 .. Len(other) /\ other = SubSeq(other, 1, Len(other))
      BY <2>3, LenProperties, SubSeqFull
    <3>2. IsPrefix(SubSeq(other, 1, n), SubSeq(other, 1, Len(other)))
      BY <2>3, <3>1, CutIsPrefix
    <3>3. QED
      BY <2>3, <3>1, <3>2, CutProperties
  <2>7. QED
    BY <1>1, <2>2, <2>3, <2>4, <2>6 DEF GossipStateOK, ConsistentMeansOneHistory, Proof
<1>8. QED
  BY <1>2, <1>3, <1>4, <1>5, <1>6, <1>7 DEF GossipNext

(* Whatever a dishonest operator signs, the service itself does a step or  *)
(* none.                                                                   *)
LEMMA ServiceSteps ==
  ASSUME TypeOK, [GossipNext]_gossipVars
  PROVE  \/ [Next]_vars /\ (UNCHANGED <<honest, verdict>> \/ Gossip \/ CompareKept)
         \/ /\ UNCHANGED <<up, pc, tree, file, synced, acked>>
            /\ heads' \subseteq Seq(Receipt) /\ honest' = FALSE
<1>1. CASE Equivocate
  <2>1. PICK r \in Receipt : heads' = heads \cup {Root(Append(r.prev_root, r))}
    BY <1>1 DEF Equivocate
  <2>2. Append(r.prev_root, r) \in Seq(Receipt)
    BY ReceiptAssumption, AppendProperties
  <2>3. QED
    BY <1>1, <2>1, <2>2 DEF Equivocate, Root, TypeOK
<1>2. CASE ~ Equivocate
  <2>1. UNCHANGED vars \/ Next
    BY <1>2 DEF GossipNext, GetConsistency, Gossip, CompareKept, gossipVars, vars
  <2>2. UNCHANGED <<honest, verdict>> \/ Gossip \/ CompareKept
    BY <1>2 DEF GossipNext, GetConsistency, gossipVars
  <2>3. QED
    BY <2>1, <2>2
<1>3. QED
  BY <1>1, <1>2

LEMMA GossipInvNext ==
  ASSUME "io_error" \notin Faults, GossipInv, [GossipNext]_gossipVars
  PROVE  GossipInv'
<1>1. Inv /\ GossipStateOK /\ TypeOK
  BY DEF GossipInv, Inv
<1>2. GossipStateOK'
  BY <1>1, GossipStateNext
<1>3. CASE [Next]_vars
  BY <1>1, <1>2, <1>3, InvNext DEF GossipInv
<1>4. CASE UNCHANGED <<up, pc, tree, file, synced, acked>> /\ heads' \subseteq Seq(Receipt)
  <2>1. Inv'
    BY <1>1, <1>4
       DEF Inv, TypeOK, FramesWhole, OnlyTailTorn, Written, TreeMirrorsFile, Pending, AckedSynced
  <2>2. QED
    BY <1>2, <2>1 DEF GossipInv
<1>5. QED
  BY <1>1, <1>3, <1>4, ServiceSteps

LEMMA GossipIoInvNext ==
  ASSUME Faults \subseteq {"io_error"}, IoInv, GossipStateOK, [GossipNext]_gossipVars
  PROVE  IoInv' /\ GossipStateOK'
<1>1. TypeOK /\ GossipStateOK'
  BY GossipStateNext DEF IoInv
<1>2. CASE [Next]_vars
  BY <1>1, <1>2, IoInvNext
<1>3. CASE UNCHANGED <<up, pc, tree, file, synced, acked>> /\ heads' \subseteq Seq(Receipt)
  BY <1>1, <1>3 DEF IoInv, TypeOK, FrameInProgress, AckedOnDevice
<1>4. QED
  BY <1>1, <1>2, <1>3, ServiceSteps

(* What an honest operator signed are cuts of one log, the file's, and so  *)
(* is what it serves.                                                      *)
LEMMA HeadIsCut ==
  ASSUME HeadsInv, NEW h \in heads
  PROVE  h = SubSeq(Written, 1, Len(h))
  BY DEF HeadsInv, HeadsWritten

LEMMA ServedIsCut ==
  ASSUME HeadsInv, up, pc = "idle"
  PROVE  tree = SubSeq(Written, 1, Len(tree))
<1>1. Inv /\ file \in Seq(Frame) /\ Len(file) \in Nat
  BY LenProperties DEF HeadsInv, Inv, TypeOK
<1>2. tree = SubSeq(Written, 1, Len(file))
  BY <1>1 DEF Inv, TreeMirrorsFile, Pending
<1>3. Len(file) \in 0 .. Len(Written)
  BY <1>1, WrittenType
<1>4. Len(tree) = Len(file)
  BY <1>1, <1>2, <1>3, WrittenType, CutProperties
<1>5. QED
  BY <1>2, <1>4

LEMMA HonestVerdict ==
  ASSUME NEW a, NEW b, NEW p, Reconcile(a, b, p),
         a = SubSeq(Written, 1, Len(a)), b = SubSeq(Written, 1, Len(b))
  PROVE  verdict'.reason # "forked_root"
<1>1. ReconcileHeads(a, b, p) # "forked_root"
  BY NotForked
<1>2. QED
  BY <1>1 DEF Reconcile

LEMMA HonestInvNext ==
  ASSUME OneKindOfCrash, GossipInv, HonestInv, [GossipNext]_gossipVars
  PROVE  HonestInv'
<1> SUFFICES ASSUME honest' PROVE HeadsInv' /\ HeadsServed' /\ verdict'.reason # "forked_root"
  BY DEF HonestInv
<1>0. ASSUME HeadsInv, HeadsServed, [Next]_vars PROVE HeadsInv' /\ HeadsServed'
  BY <1>0, HeadsInvNext, HeadsServedNext, ServesAgain DEF OneKindOfCrash, HeadsInv, Inv
<1>1. ASSUME [Next]_vars, UNCHANGED <<honest, verdict>>
      PROVE  HeadsInv' /\ HeadsServed' /\ verdict'.reason # "forked_root"
  <2>1. HeadsInv /\ HeadsServed /\ verdict.reason # "forked_root"
    BY <1>1 DEF HonestInv
  <2>2. QED
    BY <1>0, <1>1, <2>1
<1>2. CASE GetConsistency
  <2>1. UNCHANGED vars /\ UNCHANGED <<honest, verdict>>
    BY <1>2 DEF GetConsistency
  <2>2. QED
    BY <1>1, <2>1
<1>3. CASE Gossip
  <2>1. PICK peer \in heads, p \in {{proof}, {}} : Reconcile(tree, peer, p)
    BY <1>3 DEF Gossip
  <2>2. up /\ pc = "idle" /\ UNCHANGED vars /\ UNCHANGED honest
    BY <1>3 DEF Gossip
  <2>3. HeadsInv /\ HeadsServed
    BY <2>2 DEF HonestInv
  <2>4. tree = SubSeq(Written, 1, Len(tree)) /\ peer = SubSeq(Written, 1, Len(peer))
    BY <2>2, <2>3, HeadIsCut, ServedIsCut
  <2>5. verdict'.reason # "forked_root"
    BY <2>1, <2>4, HonestVerdict
  <2>6. HeadsInv' /\ HeadsServed'
    BY <1>0, <2>2, <2>3
  <2>7. QED
    BY <2>5, <2>6
<1>4. CASE CompareKept
  <2>1. PICK a \in heads, b \in heads, p \in {{proof}, {}} : Reconcile(a, b, p)
    BY <1>4 DEF CompareKept
  <2>2. UNCHANGED vars /\ UNCHANGED honest
    BY <1>4 DEF CompareKept
  <2>3. HeadsInv /\ HeadsServed
    BY <2>2 DEF HonestInv
  <2>4. a = SubSeq(Written, 1, Len(a)) /\ b = SubSeq(Written, 1, Len(b))
    BY <2>3, HeadIsCut
  <2>5. verdict'.reason # "forked_root"
    BY <2>1, <2>4, HonestVerdict
  <2>6. HeadsInv' /\ HeadsServed'
    BY <1>0, <2>2, <2>3
  <2>7. QED
    BY <2>5, <2>6
<1>5. CASE Equivocate
  <2>1. honest' = FALSE
    BY <1>5 DEF Equivocate
  <2>2. QED
    BY <2>1, Zenon
<1>6. CASE UNCHANGED gossipVars
  <2>1. UNCHANGED vars /\ UNCHANGED <<honest, verdict>>
    BY <1>6 DEF gossipVars, vars
  <2>2. QED
    BY <1>1, <2>1
<1>7. CASE Next /\ UNCHANGED <<honest, proof, verdict>>
  BY <1>1, <1>7
<1>8. QED
  BY <1>2, <1>3, <1>4, <1>5, <1>6, <1>7 DEF GossipNext

(* What a service that runs on signed is in what it serves.                *)
LEMMA HonestIoInvNext ==
  ASSUME IoInv, HonestIoInv, [GossipNext]_gossipVars
  PROVE  HonestIoInv'
<1> SUFFICES ASSUME honest' PROVE HeadsServed' /\ verdict'.reason # "forked_root"
  BY DEF HonestIoInv
<1>1. /\ up /\ TypeOK /\ tree \in Seq(Receipt) /\ heads \subseteq Seq(Receipt)
      /\ pc = "synced" => up /\ Len(file) > 0
  BY DEF IoInv, TypeOK, FrameInProgress
<1>2. [Next]_vars /\ (UNCHANGED <<honest, verdict>> \/ Gossip \/ CompareKept)
  BY <1>1, ServiceSteps
<1>3. honest /\ HeadsServed /\ verdict.reason # "forked_root"
  BY <1>2 DEF HonestIoInv, Gossip, CompareKept
<1>4. HeadsServed'
  BY <1>1, <1>2, <1>3, HeadsServedNext
<1>5. ASSUME NEW a, a = tree \/ a \in heads
      PROVE  a = SubSeq(tree, 1, Len(a))
  <2>1. CASE a = tree
    BY <1>1, <2>1, SubSeqFull
  <2>2. CASE a \in heads
    BY <1>1, <1>3, <2>2, PrefixIsCut DEF HeadsServed
  <2>3. QED
    BY <1>5, <2>1, <2>2
<1>6. ASSUME NEW a, NEW b, NEW p, Reconcile(a, b, p), a = tree \/ a \in heads, b \in heads
      PROVE  verdict'.reason # "forked_root"
  <2>1. ReconcileHeads(a, b, p) # "forked_root"
    BY <1>5, <1>6, NotForked
  <2>2. QED
    BY <1>6, <2>1 DEF Reconcile
<1>7. verdict'.reason # "forked_root"
  <2>1. CASE UNCHANGED <<honest, verdict>>
    BY <1>3, <2>1
  <2>2. CASE Gossip \/ CompareKept
    BY <1>6, <2>2 DEF Gossip, CompareKept
  <2>3. QED
    BY <1>2, <2>1, <2>2
<1>8. QED
  BY <1>4, <1>7

-----------------------------------------------------------------------------
(* The theorems.                                                           *)

(* No stale, swapped or foreign consistency proof hides an equivocation:   *)
(* heads that reconcile_heads declares consistent are of one growing log,  *)
(* whatever a dishonest operator signs.                                    *)
THEOREM ConsistentHeadsAgree ==
  ASSUME "io_error" \notin Faults
  PROVE  GossipSpec => []ConsistentMeansOneHistory
<1>1. GossipInit => GossipInv
  BY GossipInvInit
<1>2. GossipInv /\ [GossipNext]_gossipVars => GossipInv'
  BY GossipInvNext
<1>3. GossipInv => ConsistentMeansOneHistory
  BY DEF GossipInv, GossipStateOK
<1>4. QED
  BY <1>1, <1>2, <1>3, PTL DEF GossipSpec

(* An operator that never cheats is never convicted, keeps and goes on to  *)
(* serve every head it signed, and has what it acknowledged on its device, *)
(* whatever crashes of one kind the service goes through.                  *)
THEOREM HonestOperatorKeepsFaith ==
  ASSUME OneKindOfCrash
  PROVE  GossipSpec => [](/\ HonestLogNeverForked /\ HonestHeadsServed /\ AckedOnDevice
                          /\ honest => HeadsSurvive)
<1>1. GossipInit => GossipInv /\ HonestInv
  BY GossipInvInit
<1>2. GossipInv /\ HonestInv /\ [GossipNext]_gossipVars => (GossipInv /\ HonestInv)'
  BY GossipInvNext, HonestInvNext DEF OneKindOfCrash
<1>3. GossipInv /\ HonestInv =>
        /\ HonestLogNeverForked /\ HonestHeadsServed /\ AckedOnDevice
        /\ honest => HeadsSurvive
  BY HeadsInvSuffices, InvImpliesAckedOnDevice
     DEF GossipInv, HonestInv, HonestLogNeverForked, HonestHeadsServed
<1>4. QED
  BY <1>1, <1>2, <1>3, PTL DEF GossipSpec

(* The same of a service that is never stopped, however many of its writes *)
(* and fsyncs fail half-way.                                               *)
THEOREM FailedAppendsKeepFaith ==
  ASSUME Faults \subseteq {"io_error"}
  PROVE  GossipSpec => [](/\ ConsistentMeansOneHistory /\ HonestLogNeverForked
                          /\ HonestHeadsServed /\ AckedOnDevice)
<1>1. GossipInit => IoInv /\ GossipStateOK /\ HonestIoInv
  BY GossipInvInit, IoInvInit DEF GossipInit, GossipInv
<1>2. IoInv /\ GossipStateOK /\ HonestIoInv /\ [GossipNext]_gossipVars
        => (IoInv /\ GossipStateOK /\ HonestIoInv)'
  BY GossipIoInvNext, HonestIoInvNext
<1>3. IoInv /\ GossipStateOK /\ HonestIoInv =>
        /\ ConsistentMeansOneHistory /\ HonestLogNeverForked
        /\ HonestHeadsServed /\ AckedOnDevice
  BY DEF IoInv, GossipStateOK, HonestIoInv, HonestLogNeverForked, HonestHeadsServed
<1>4. QED
  BY <1>1, <1>2, <1>3, PTL DEF GossipSpec
=============================================================================
