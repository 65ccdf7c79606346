------------------------ MODULE WitnessServiceProofs ------------------------
(***************************************************************************)
(* Proofs about WitnessService for every set of receipts and every bound.  *)
(***************************************************************************)
EXTENDS WitnessService, LogLemmas

(* The receipts of a file.                                                 *)
LEMMA ReceiptsOf ==
  ASSUME NEW frames \in Seq(Frame)
  PROVE  /\ Receipts(frames) \in Seq(Receipt)
         /\ Len(Receipts(frames)) = Len(frames)
         /\ \A i \in 1 .. Len(frames) : Receipts(frames)[i] = frames[i].receipt
<1>1. Len(frames) \in Nat /\ \A i \in 1 .. Len(frames) : frames[i].receipt \in Receipt
  <2>1. Len(frames) \in Nat /\ \A i \in 1 .. Len(frames) : frames[i] \in Frame
    BY ElementOfSeq, LenProperties
  <2>2. \A f \in Frame : f.receipt \in Receipt
    BY DEF Frame
  <2>3. QED
    BY <2>1, <2>2
<1>2. [i \in 1 .. Len(frames) |-> frames[i].receipt] \in Seq(Receipt)
  BY <1>1, IsASeq
<1>3. QED
  BY <1>1, <1>2, LenProperties DEF Receipts

(* Cutting the file cuts the log it holds.                                 *)
LEMMA ReceiptsOfCut ==
  ASSUME NEW frames \in Seq(Frame), NEW n \in 0 .. Len(frames)
  PROVE  /\ SubSeq(frames, 1, n) \in Seq(Frame)
         /\ Receipts(SubSeq(frames, 1, n)) = SubSeq(Receipts(frames), 1, n)
<1>1. /\ SubSeq(frames, 1, n) \in Seq(Frame)
      /\ Len(SubSeq(frames, 1, n)) = n
      /\ \A i \in 1 .. n : SubSeq(frames, 1, n)[i] = frames[i]
  BY CutProperties
<1>2. /\ Receipts(frames) \in Seq(Receipt)
      /\ Len(Receipts(frames)) = Len(frames)
      /\ \A i \in 1 .. Len(frames) : Receipts(frames)[i] = frames[i].receipt
  BY ReceiptsOf
<1>3. /\ Receipts(SubSeq(frames, 1, n)) \in Seq(Receipt)
      /\ Len(Receipts(SubSeq(frames, 1, n))) = n
      /\ \A i \in 1 .. n : Receipts(SubSeq(frames, 1, n))[i] = frames[i].receipt
  BY <1>1, ReceiptsOf
<1>4. /\ SubSeq(Receipts(frames), 1, n) \in Seq(Receipt)
      /\ Len(SubSeq(Receipts(frames), 1, n)) = n
      /\ \A i \in 1 .. n : SubSeq(Receipts(frames), 1, n)[i] = frames[i].receipt
  BY <1>2, CutProperties
<1>5. QED
  BY <1>1, <1>3, <1>4, SeqEqual

(* Appending a frame appends its receipt.                                  *)
LEMMA ReceiptsOfAppend ==
  ASSUME NEW frames \in Seq(Frame), NEW f \in Frame
  PROVE  /\ Append(frames, f) \in Seq(Frame)
         /\ Receipts(Append(frames, f)) = Append(Receipts(frames), f.receipt)
<1>1. f.receipt \in Receipt
  BY DEF Frame
<1>2. /\ Append(frames, f) \in Seq(Frame)
      /\ Len(Append(frames, f)) = Len(frames) + 1
      /\ \A i \in 1 .. Len(frames) : Append(frames, f)[i] = frames[i]
      /\ Append(frames, f)[Len(frames) + 1] = f
  BY AppendProperties
<1>3. /\ Receipts(frames) \in Seq(Receipt)
      /\ Len(Receipts(frames)) = Len(frames)
      /\ \A i \in 1 .. Len(frames) : Receipts(frames)[i] = frames[i].receipt
  BY ReceiptsOf
<1>4. /\ Receipts(Append(frames, f)) \in Seq(Receipt)
      /\ Len(Receipts(Append(frames, f))) = Len(frames) + 1
      /\ \A i \in 1 .. Len(frames) + 1 : Receipts(Append(frames, f))[i] = Append(frames, f)[i].receipt
  BY <1>2, ReceiptsOf
<1>5. /\ Append(Receipts(frames), f.receipt) \in Seq(Receipt)
      /\ Len(Append(Receipts(frames), f.receipt)) = Len(frames) + 1
      /\ \A i \in 1 .. Len(frames) : Append(Receipts(frames), f.receipt)[i] = frames[i].receipt
      /\ Append(Receipts(frames), f.receipt)[Len(frames) + 1] = f.receipt
  BY <1>1, <1>3, AppendProperties
<1>6. \A i \in 1 .. Len(frames) + 1 :
        Receipts(Append(frames, f))[i] = Append(Receipts(frames), f.receipt)[i]
  BY <1>2, <1>4, <1>5, LenProperties
<1>7. QED
  BY <1>2, <1>4, <1>5, <1>6, SeqEqual

(* Finishing the last frame leaves the log it holds alone.                 *)
LEMMA ReceiptsOfWithBody ==
  ASSUME NEW frames \in Seq(Frame), Len(frames) > 0
  PROVE  /\ WithBody(frames) \in Seq(Frame)
         /\ Len(WithBody(frames)) = Len(frames)
         /\ Receipts(WithBody(frames)) = Receipts(frames)
         /\ WithBody(frames)[Len(frames)].written = "whole"
         /\ \A i \in 1 .. Len(frames) - 1 : WithBody(frames)[i] = frames[i]
<1> DEFINE e == [frames[Len(frames)] EXCEPT !.written = "whole"]
<1>1. Len(frames) \in 1 .. Len(frames) /\ frames[Len(frames)] \in Frame
  BY LenProperties, ElementOfSeq
<1>2. e \in Frame /\ e.receipt = frames[Len(frames)].receipt /\ e.written = "whole"
  BY <1>1 DEF Frame
<1>3. WithBody(frames) = [frames EXCEPT ![Len(frames)] = e]
  BY DEF WithBody
<1> HIDE DEF e
<1>4. /\ WithBody(frames) \in Seq(Frame)
      /\ Len(WithBody(frames)) = Len(frames)
      /\ \A j \in 1 .. Len(frames) : WithBody(frames)[j] = IF j = Len(frames) THEN e ELSE frames[j]
  BY <1>1, <1>2, <1>3, ExceptSeq
<1>5. /\ Receipts(WithBody(frames)) \in Seq(Receipt)
      /\ Len(Receipts(WithBody(frames))) = Len(frames)
      /\ \A i \in 1 .. Len(frames) : Receipts(WithBody(frames))[i] = WithBody(frames)[i].receipt
  BY <1>4, ReceiptsOf
<1>6. /\ Receipts(frames) \in Seq(Receipt)
      /\ Len(Receipts(frames)) = Len(frames)
      /\ \A i \in 1 .. Len(frames) : Receipts(frames)[i] = frames[i].receipt
  BY ReceiptsOf
<1>7. Receipts(WithBody(frames)) = Receipts(frames)
  <2>1. \A i \in 1 .. Len(frames) : WithBody(frames)[i].receipt = frames[i].receipt
    BY <1>2, <1>4
  <2>2. \A i \in 1 .. Len(frames) : Receipts(WithBody(frames))[i] = Receipts(frames)[i]
    BY <1>5, <1>6, <2>1
  <2>3. QED
    BY <1>5, <1>6, <2>2, SeqEqual
<1>8. QED
  BY <1>1, <1>2, <1>4, <1>7, LenProperties

(* Any prefix of a chain is a chain.                                       *)
LEMMA ChainedCut ==
  ASSUME NEW log \in Seq(Receipt), Chained(log), NEW n \in 0 .. Len(log)
  PROVE  Chained(SubSeq(log, 1, n))
<1>1. /\ Len(SubSeq(log, 1, n)) = n
      /\ \A i \in 1 .. n : SubSeq(log, 1, n)[i] = log[i]
  BY CutProperties
<1>2. ASSUME NEW i \in 1 .. n
      PROVE  SubSeq(log, 1, n)[i].prev_root = Root(SubSeq(SubSeq(log, 1, n), 1, i - 1))
  <2>1. i \in 1 .. Len(log) /\ i - 1 \in 0 .. n
    BY LenProperties
  <2>2. SubSeq(SubSeq(log, 1, n), 1, i - 1) = SubSeq(log, 1, i - 1)
    BY <2>1, CutOfCut
  <2>3. QED
    BY <1>1, <2>1, <2>2 DEF Chained
<1>3. QED
  BY <1>1, <1>2 DEF Chained

(* The compare-and-swap on prev_root extends a chain.                      *)
LEMMA ChainedAppend ==
  ASSUME NEW log \in Seq(Receipt), Chained(log), NEW r \in Receipt, r.prev_root = Root(log)
  PROVE  Chained(Append(log, r))
<1>1. /\ Len(Append(log, r)) = Len(log) + 1
      /\ \A i \in 1 .. Len(log) : Append(log, r)[i] = log[i]
      /\ Append(log, r)[Len(log) + 1] = r
  BY AppendProperties
<1>2. ASSUME NEW i \in 1 .. Len(log) + 1
      PROVE  Append(log, r)[i].prev_root = Root(SubSeq(Append(log, r), 1, i - 1))
  <2>1. i - 1 \in 0 .. Len(log)
    BY LenProperties
  <2>2. SubSeq(Append(log, r), 1, i - 1) = SubSeq(log, 1, i - 1)
    BY <2>1, CutOfAppend
  <2>3. CASE i = Len(log) + 1
    <3>1. SubSeq(log, 1, i - 1) = log
      BY <2>3, SubSeqFull, LenProperties
    <3>2. QED
      BY <1>1, <2>2, <2>3, <3>1
  <2>4. CASE i \in 1 .. Len(log)
    BY <1>1, <2>2, <2>4 DEF Chained
  <2>5. QED
    BY <2>3, <2>4, LenProperties
<1>3. QED
  BY <1>1, <1>2 DEF Chained

-----------------------------------------------------------------------------
(* The inductive invariant.  The device's calls do not fail in this part.  *)

LEMMA InvInit == Init => Inv
<1> SUFFICES ASSUME Init PROVE Inv
  OBVIOUS
<1>1. /\ file = << >> /\ tree = << >> /\ synced = 0 /\ acked = {} /\ heads = {}
      /\ up = TRUE /\ pc = "idle"
  BY DEF Init
<1>2. << >> \in Seq(Frame) /\ << >> \in Seq(Receipt) /\ Len(<< >>) = 0
  OBVIOUS
<1>3. TypeOK
  BY <1>1, <1>2 DEF TypeOK
<1>4. Written \in Seq(Receipt) /\ Len(Written) = 0
  BY <1>1, <1>2, ReceiptsOf DEF Written
<1>5. FramesWhole /\ Chained(Written) /\ AckedSynced
  BY <1>1, <1>2, <1>4 DEF FramesWhole, OnlyTailTorn, Chained, AckedSynced
<1>6. TreeMirrorsFile
  BY <1>1, <1>2, <1>4, SubSeqEmpty DEF TreeMirrorsFile, Pending
<1>7. QED
  BY <1>3, <1>5, <1>6 DEF Inv

(* What the invariant says of the log in the file.                         *)
LEMMA WrittenType ==
  ASSUME Inv
  PROVE  /\ Written \in Seq(Receipt)
         /\ Len(Written) = Len(file)
         /\ Len(file) \in Nat
         /\ \A i \in 1 .. Len(file) : Written[i] = file[i].receipt
<1>1. file \in Seq(Frame)
  BY DEF Inv, TypeOK
<1>2. QED
  BY <1>1, ReceiptsOf, LenProperties DEF Written

(* Replies stay covered while the synced part of the file does not change. *)
LEMMA AckedStable ==
  ASSUME Inv, acked' = acked, synced <= synced', synced' \in Nat,
         \A k \in 0 .. synced : SubSeq(Written', 1, k) = SubSeq(Written, 1, k)
  PROVE  AckedSynced'
<1> SUFFICES ASSUME NEW a \in acked
             PROVE  /\ Len(a.head) \in 1 .. synced'
                    /\ a.head = SubSeq(Written', 1, Len(a.head))
                    /\ a.receipt = a.head[Len(a.head)]
  BY DEF AckedSynced
<1>1. /\ Len(a.head) \in 1 .. synced
      /\ a.head = SubSeq(Written, 1, Len(a.head))
      /\ a.receipt = a.head[Len(a.head)]
  BY DEF Inv, AckedSynced
<1>2. synced \in Nat
  BY DEF Inv, TypeOK
<1>3. Len(a.head) \in 0 .. synced
  BY <1>1, <1>2
<1>4. Len(a.head) \in 1 .. synced'
  BY <1>1, <1>2
<1>5. QED
  BY <1>1, <1>3, <1>4

LEMMA BeginSubmitInv ==
  ASSUME Inv, NEW r \in Receipt, BeginSubmit(r)
  PROVE  Inv'
<1> DEFINE f == [receipt |-> r, written |-> "cut"]
<1>1. /\ up /\ pc = "idle" /\ r.prev_root = Root(tree)
      /\ file' = Append(file, f) /\ pc' = "body"
      /\ up' = up /\ tree' = tree /\ synced' = synced /\ heads' = heads /\ acked' = acked
  BY DEF BeginSubmit, AcceptsPrevRoot
<1>2. f \in Frame /\ f.receipt = r /\ f.written = "cut"
  BY DEF Frame
<1> HIDE DEF f
<1>3. /\ file \in Seq(Frame) /\ Len(file) \in Nat /\ synced \in 0 .. Len(file)
  BY LenProperties DEF Inv, TypeOK
<1>4. /\ file' \in Seq(Frame)
      /\ Len(file') = Len(file) + 1
      /\ \A i \in 1 .. Len(file) : file'[i] = file[i]
      /\ file'[Len(file) + 1] = f
  BY <1>1, <1>2, <1>3, AppendProperties
<1>5. Written' = Append(Written, r)
  BY <1>1, <1>2, <1>3, ReceiptsOfAppend DEF Written
<1>6. TypeOK'
  BY <1>1, <1>3, <1>4 DEF Inv, TypeOK
<1>7. file[Len(file)].written = "whole" \/ Len(file) = 0
  BY <1>1, <1>3 DEF Inv, FramesWhole
<1>8. FramesWhole'
  BY <1>1, <1>2, <1>3, <1>4, <1>7 DEF Inv, FramesWhole, OnlyTailTorn
<1>9. tree = Written
  <2>1. tree = SubSeq(Written, 1, Len(file))
    BY <1>1, <1>3 DEF Inv, TreeMirrorsFile, Pending
  <2>2. QED
    BY <2>1, WrittenType, SubSeqFull
<1>10. Chained(Written')
  BY <1>1, <1>5, <1>9, WrittenType, ChainedAppend DEF Inv
<1>11. \A k \in 0 .. Len(file) : SubSeq(Written', 1, k) = SubSeq(Written, 1, k)
  BY <1>5, WrittenType, CutOfAppend
<1>12. TreeMirrorsFile'
  <2>1. tree = SubSeq(Written', 1, Len(file))
    BY <1>3, <1>9, <1>11, WrittenType, SubSeqFull
  <2>2. QED
    BY <1>1, <1>3, <1>4, <2>1 DEF TreeMirrorsFile, Pending
<1>13. AckedSynced'
  BY <1>1, <1>3, <1>11, AckedStable
<1>14. QED
  BY <1>6, <1>8, <1>10, <1>12, <1>13 DEF Inv

LEMMA WriteBodyInv ==
  ASSUME Inv, WriteBody
  PROVE  Inv'
<1>1. /\ pc = "body" /\ pc' = "sync"
      /\ file' = WithBody(file)
      /\ up' = up /\ tree' = tree /\ synced' = synced /\ heads' = heads /\ acked' = acked
  BY DEF WriteBody
<1>2. /\ file \in Seq(Frame) /\ Len(file) \in Nat /\ synced \in 0 .. Len(file)
      /\ up /\ Len(file) > 0
  BY <1>1, LenProperties DEF Inv, TypeOK, TreeMirrorsFile
<1>3. /\ file' \in Seq(Frame) /\ Len(file') = Len(file)
      /\ Receipts(file') = Receipts(file)
      /\ file'[Len(file)].written = "whole"
      /\ \A i \in 1 .. Len(file) - 1 : file'[i] = file[i]
  BY <1>1, <1>2, ReceiptsOfWithBody
<1>4. Written' = Written
  BY <1>3 DEF Written
<1>5. TypeOK'
  BY <1>1, <1>2, <1>3 DEF Inv, TypeOK
<1>6. FramesWhole'
  BY <1>1, <1>2, <1>3 DEF Inv, FramesWhole, OnlyTailTorn
<1>7. TreeMirrorsFile'
  BY <1>1, <1>3, <1>4 DEF Inv, TreeMirrorsFile, Pending
<1>8. AckedSynced'
  BY <1>1, <1>2, <1>4, AckedStable
<1>9. QED
  BY <1>4, <1>5, <1>6, <1>7, <1>8 DEF Inv

LEMMA SyncAllInv ==
  ASSUME Inv, SyncAll
  PROVE  Inv'
<1>1. /\ pc = "sync" /\ pc' = "synced" /\ synced' = Len(file)
      /\ up' = up /\ tree' = tree /\ file' = file /\ heads' = heads /\ acked' = acked
  BY DEF SyncAll
<1>2. /\ file \in Seq(Frame) /\ Len(file) \in Nat /\ synced \in 0 .. Len(file)
      /\ up /\ Len(file) > 0
  BY <1>1, LenProperties DEF Inv, TypeOK, TreeMirrorsFile
<1>3. Written' = Written
  BY <1>1 DEF Written
<1>4. TypeOK'
  BY <1>1, <1>2 DEF Inv, TypeOK
<1>5. FramesWhole'
  BY <1>1, <1>2 DEF Inv, FramesWhole, OnlyTailTorn
<1>6. TreeMirrorsFile'
  BY <1>1, <1>3 DEF Inv, TreeMirrorsFile, Pending
<1>7. AckedSynced'
  BY <1>1, <1>2, <1>3, AckedStable
<1>8. QED
  BY <1>3, <1>4, <1>5, <1>6, <1>7 DEF Inv

LEMMA ReplyInv ==
  ASSUME Inv, Reply
  PROVE  Inv'
<1> DEFINE r == file[Len(file)].receipt
<1>1. /\ pc = "synced" /\ pc' = "idle" /\ tree' = Append(tree, r)
      /\ acked' = acked \cup {[receipt |-> r, head |-> tree']}
      /\ up' = up /\ file' = file /\ synced' = synced /\ heads' = heads
  BY DEF Reply, Root
<1>2. /\ file \in Seq(Frame) /\ Len(file) \in Nat /\ synced = Len(file)
      /\ up /\ Len(file) > 0 /\ tree = SubSeq(Written, 1, Len(file) - 1)
  BY <1>1, LenProperties DEF Inv, TypeOK, TreeMirrorsFile, Pending, FramesWhole
<1>3. Written' = Written
  BY <1>1 DEF Written
<1>4. r = Written[Len(file)] /\ r \in Receipt
  <2>1. Len(file) \in 1 .. Len(file)
    BY <1>2
  <2>2. QED
    BY <2>1, WrittenType, ElementOfSeq
<1>5. tree' = Written
  <2>1. SubSeq(Written, 1, Len(file)) = SubSeq(Written, 1, Len(file) - 1) \o << Written[Len(file)] >>
    <3>1. 1 \in 1 .. Len(Written) /\ Len(file) \in 1 .. Len(Written)
      BY <1>2, WrittenType
    <3>2. QED
      BY <3>1, WrittenType, SubSeqRecursiveSecond
  <2>2. tree \in Seq(Receipt)
    BY DEF Inv, TypeOK
  <2>3. Append(tree, r) = tree \o << r >>
    BY <1>4, <2>2, AppendIsConcat
  <2>4. QED
    BY <1>1, <1>2, <1>4, <2>1, <2>3, WrittenType, SubSeqFull
<1> HIDE DEF r
<1>6. TypeOK'
  <2>1. [receipt |-> r, head |-> tree'] \in [receipt : Receipt, head : Seq(Receipt)]
    BY <1>4, <1>5, WrittenType
  <2>2. acked' \subseteq [receipt : Receipt, head : Seq(Receipt)]
    BY <1>1, <2>1 DEF Inv, TypeOK
  <2>3. tree' \in Seq(Receipt)
    BY <1>5, WrittenType
  <2>4. QED
    BY <1>1, <2>2, <2>3 DEF Inv, TypeOK
<1>7. FramesWhole'
  BY <1>1, <1>2 DEF Inv, FramesWhole, OnlyTailTorn
<1>8. TreeMirrorsFile'
  <2>1. tree' = SubSeq(Written', 1, Len(file))
    BY <1>3, <1>5, WrittenType, SubSeqFull
  <2>2. Pending' = 0 /\ pc' = "idle"
    BY <1>1 DEF Pending
  <2>3. up' /\ Len(file') - Pending' = Len(file)
    BY <1>1, <1>2, <2>2
  <2>4. QED
    BY <2>1, <2>2, <2>3 DEF TreeMirrorsFile
<1>9. AckedSynced'
  <2> SUFFICES ASSUME NEW a \in acked'
               PROVE  /\ Len(a.head) \in 1 .. synced
                      /\ a.head = SubSeq(Written, 1, Len(a.head))
                      /\ a.receipt = a.head[Len(a.head)]
    BY <1>1, <1>3 DEF AckedSynced
  <2>1. CASE a \in acked
    BY <2>1 DEF Inv, AckedSynced
  <2>2. CASE a = [receipt |-> r, head |-> tree']
    BY <1>2, <1>4, <1>5, <2>2, WrittenType, SubSeqFull
  <2>3. QED
    BY <1>1, <2>1, <2>2
<1>10. QED
  BY <1>3, <1>6, <1>7, <1>8, <1>9 DEF Inv

LEMMA SignHeadInv ==
  ASSUME Inv, SignHead
  PROVE  Inv'
<1>1. /\ up' = up /\ pc' = pc /\ tree' = tree /\ file' = file /\ synced' = synced
      /\ acked' = acked /\ heads' = heads \cup {tree}
  BY DEF SignHead, Root
<1>2. Written' = Written
  BY <1>1 DEF Written
<1>3. TypeOK'
  BY <1>1 DEF Inv, TypeOK
<1>4. FramesWhole' /\ TreeMirrorsFile' /\ AckedSynced'
  BY <1>1, <1>2 DEF Inv, FramesWhole, OnlyTailTorn, TreeMirrorsFile, Pending, AckedSynced
<1>5. QED
  BY <1>2, <1>3, <1>4 DEF Inv

LEMMA ProcessCrashInv ==
  ASSUME Inv, ProcessCrash
  PROVE  Inv'
<1>1. /\ up' = FALSE /\ pc' = "idle" /\ tree' = << >>
      /\ file' = file /\ synced' = synced /\ heads' = heads /\ acked' = acked
  BY DEF ProcessCrash
<1>2. Written' = Written
  BY <1>1 DEF Written
<1>3. TypeOK'
  BY <1>1, EmptySeq DEF Inv, TypeOK
<1>4. FramesWhole' /\ TreeMirrorsFile' /\ AckedSynced'
  BY <1>1, <1>2 DEF Inv, FramesWhole, OnlyTailTorn, TreeMirrorsFile, Pending, AckedSynced
<1>5. QED
  BY <1>2, <1>3, <1>4 DEF Inv

(* What a power loss leaves: n whole frames, and perhaps a torn one whose  *)
(* receipt was the next to be written.                                     *)
LEMMA PowerLossLeaves ==
  ASSUME Inv, PowerLoss
  PROVE  \E n \in synced .. Len(file) :
           /\ synced' = n
           /\ \A i \in 1 .. n : file[i].written = "whole"
           /\ file' \in Seq(Frame)
           /\ \A i \in 1 .. n : file'[i] = file[i]
           /\ \A k \in 0 .. n : SubSeq(Written', 1, k) = SubSeq(Written, 1, k)
           /\ Chained(Written')
           /\ \/ Len(file') = n
              \/ Len(file') = n + 1 /\ file'[n + 1].written # "whole"
<1>1. /\ file \in Seq(Frame) /\ Len(file) \in Nat /\ synced \in 0 .. Len(file)
  BY LenProperties DEF Inv, TypeOK
<1>2. PICK n \in synced .. Len(file) :
        /\ n > 0 => file[n].written = "whole"
        /\ synced' = n
        /\ \/ file' = SubSeq(file, 1, n)
           \/ /\ n < Len(file)
              /\ \E torn \in Tear(file[n + 1]) : file' = Append(SubSeq(file, 1, n), torn)
  BY DEF PowerLoss
<1>3. n \in 0 .. Len(file)
  BY <1>1
<1>4. \A i \in 1 .. n : file[i].written = "whole"
  BY <1>1, <1>2 DEF Inv, FramesWhole, OnlyTailTorn
<1>5. /\ SubSeq(file, 1, n) \in Seq(Frame)
      /\ Len(SubSeq(file, 1, n)) = n
      /\ \A i \in 1 .. n : SubSeq(file, 1, n)[i] = file[i]
      /\ Receipts(SubSeq(file, 1, n)) = SubSeq(Written, 1, n)
  BY <1>1, <1>3, CutProperties, ReceiptsOfCut DEF Written
<1>6. Chained(SubSeq(Written, 1, n))
  BY <1>3, WrittenType, ChainedCut DEF Inv
<1>7. CASE file' = SubSeq(file, 1, n)
  <2>1. Written' = SubSeq(Written, 1, n)
    BY <1>5, <1>7 DEF Written
  <2>2. \A k \in 0 .. n : SubSeq(Written', 1, k) = SubSeq(Written, 1, k)
    BY <1>3, <2>1, WrittenType, CutOfCut
  <2>3. QED
    BY <1>2, <1>4, <1>5, <1>6, <1>7, <2>1, <2>2
<1>8. CASE /\ n < Len(file)
           /\ \E torn \in Tear(file[n + 1]) : file' = Append(SubSeq(file, 1, n), torn)
  <2>1. PICK torn \in Tear(file[n + 1]) : file' = Append(SubSeq(file, 1, n), torn)
    BY <1>8
  <2>2. n + 1 \in 1 .. Len(file) /\ file[n + 1] \in Frame
    BY <1>1, <1>3, <1>8, ElementOfSeq
  <2>3. torn \in Frame /\ torn.receipt = file[n + 1].receipt /\ torn.written # "whole"
    BY <2>1, <2>2 DEF Tear, Frame
  <2>4. /\ file' \in Seq(Frame)
        /\ Len(file') = n + 1
        /\ \A i \in 1 .. n : file'[i] = file[i]
        /\ file'[n + 1] = torn
    BY <1>5, <2>1, <2>3, AppendProperties
  <2>5. Written' = Append(SubSeq(Written, 1, n), Written[n + 1])
    BY <1>5, <2>1, <2>2, <2>3, WrittenType, ReceiptsOfAppend DEF Written
  <2>6. Written' = SubSeq(Written, 1, n + 1)
    <3>1. 1 \in 1 .. Len(Written) /\ n + 1 \in 1 .. Len(Written)
      BY <1>1, <2>2, WrittenType
    <3>2. SubSeq(Written, 1, n + 1) = SubSeq(Written, 1, (n + 1) - 1) \o << Written[n + 1] >>
      BY <3>1, WrittenType, SubSeqRecursiveSecond
    <3>3. SubSeq(Written, 1, n) \in Seq(Receipt) /\ Written[n + 1] \in Receipt
      BY <1>3, <3>1, WrittenType, CutProperties, ElementOfSeq
    <3>4. (n + 1) - 1 = n
      BY <1>3
    <3>5. QED
      BY <2>5, <3>2, <3>3, <3>4, AppendIsConcat
  <2>7. n + 1 \in 0 .. Len(Written)
    BY <2>2, WrittenType
  <2>8. Chained(Written')
    BY <2>6, <2>7, WrittenType, ChainedCut DEF Inv
  <2>9. \A k \in 0 .. n : SubSeq(Written', 1, k) = SubSeq(Written, 1, k)
    <3>1. \A k \in 0 .. n : k \in 0 .. n + 1
      BY <1>3
    <3>2. QED
      BY <2>6, <2>7, <3>1, WrittenType, CutOfCut
  <2>10. QED
    BY <1>2, <1>4, <2>3, <2>4, <2>8, <2>9
<1>9. QED
  BY <1>2, <1>7, <1>8

LEMMA PowerLossInv ==
  ASSUME Inv, PowerLoss
  PROVE  Inv'
<1>1. /\ up' = FALSE /\ pc' = "idle" /\ tree' = << >> /\ heads' = heads /\ acked' = acked
  BY DEF PowerLoss
<1>2. /\ file \in Seq(Frame) /\ Len(file) \in Nat /\ synced \in 0 .. Len(file)
  BY LenProperties DEF Inv, TypeOK
<1>3. PICK n \in synced .. Len(file) :
        /\ synced' = n
        /\ \A i \in 1 .. n : file[i].written = "whole"
        /\ file' \in Seq(Frame)
        /\ \A i \in 1 .. n : file'[i] = file[i]
        /\ \A k \in 0 .. n : SubSeq(Written', 1, k) = SubSeq(Written, 1, k)
        /\ Chained(Written')
        /\ \/ Len(file') = n
           \/ Len(file') = n + 1 /\ file'[n + 1].written # "whole"
  BY PowerLossLeaves
<1>4. n \in Nat /\ Len(file') \in Nat
  BY <1>2, <1>3, LenProperties
<1>5. TypeOK'
  <2>1. synced' \in 0 .. Len(file')
    BY <1>3, <1>4
  <2>2. << >> \in Seq(Receipt)
    BY EmptySeq
  <2>3. QED
    BY <1>1, <1>3, <2>1, <2>2 DEF Inv, TypeOK
<1>6. FramesWhole'
  BY <1>1, <1>3, <1>4 DEF FramesWhole, OnlyTailTorn
<1>7. TreeMirrorsFile'
  BY <1>1 DEF TreeMirrorsFile
<1>8. AckedSynced'
  BY <1>1, <1>2, <1>3, <1>4, AckedStable
<1>9. QED
  BY <1>3, <1>5, <1>6, <1>7, <1>8 DEF Inv

LEMMA OpenInv ==
  ASSUME Inv, Open
  PROVE  Inv'
<1>1. ~up /\ pc' = pc /\ heads' = heads /\ acked' = acked
  BY DEF Open
<1>2. PICK n \in 0 .. Len(file) :
        /\ Replayed(file, n)
        /\ up' = TRUE
        /\ tree' = Receipts(SubSeq(file, 1, n))
        /\ file' = SubSeq(file, 1, n)
        /\ synced' = IF n < Len(file) THEN n ELSE synced
  BY DEF Open
<1>3. /\ file \in Seq(Frame) /\ Len(file) \in Nat /\ synced \in 0 .. Len(file)
      /\ pc = "idle"
  BY <1>1, LenProperties DEF Inv, TypeOK, TreeMirrorsFile
<1>4. /\ file' \in Seq(Frame) /\ Len(file') = n
      /\ \A i \in 1 .. n : file'[i] = file[i]
      /\ Written' = SubSeq(Written, 1, n)
      /\ tree' = Written'
  BY <1>2, <1>3, CutProperties, ReceiptsOfCut DEF Written
<1>5. synced <= n
  <2>1. CASE n < Len(file)
    <3>1. file[n + 1].written # "whole" /\ n + 1 \in 1 .. Len(file)
      BY <1>2, <1>3, <2>1 DEF Replayed
    <3>2. n + 1 = Len(file)
      BY <1>3, <2>1, <3>1 DEF Inv, FramesWhole, OnlyTailTorn
    <3>3. QED
      BY <1>3, <3>1, <3>2 DEF Inv, FramesWhole
  <2>2. QED
    BY <1>2, <1>3, <2>1
<1>6. synced <= synced' /\ synced' \in 0 .. n
  BY <1>2, <1>3, <1>5
<1>7. Written' \in Seq(Receipt) /\ Len(Written') = n
  BY <1>2, <1>4, WrittenType, CutProperties
<1>8. TypeOK'
  BY <1>1, <1>2, <1>3, <1>4, <1>6, <1>7 DEF Inv, TypeOK
<1>9. \A i \in 1 .. n : file'[i].written = "whole"
  BY <1>2, <1>4 DEF Replayed
<1>10. FramesWhole'
  BY <1>1, <1>2, <1>3, <1>4, <1>6, <1>9 DEF FramesWhole, OnlyTailTorn
<1>11. Chained(Written')
  BY <1>2, <1>4, WrittenType, ChainedCut DEF Inv
<1>12. TreeMirrorsFile'
  <2>1. tree' = SubSeq(Written', 1, n)
    BY <1>4, <1>7, SubSeqFull
  <2>2. QED
    BY <1>1, <1>2, <1>3, <1>4, <2>1 DEF TreeMirrorsFile, Pending
<1>13. \A k \in 0 .. synced : SubSeq(Written', 1, k) = SubSeq(Written, 1, k)
  <2>1. \A k \in 0 .. synced : k \in 0 .. n
    BY <1>2, <1>3, <1>5
  <2>2. QED
    BY <1>2, <1>4, <2>1, WrittenType, CutOfCut
<1>14. AckedSynced'
  BY <1>1, <1>6, <1>13, AckedStable
<1>15. QED
  BY <1>8, <1>10, <1>11, <1>12, <1>14 DEF Inv

(* Every step of the service keeps the invariant.                          *)
LEMMA InvNext ==
  ASSUME "io_error" \notin Faults, Inv, [Next]_vars
  PROVE  Inv'
<1>1. CASE UNCHANGED vars
  <2>1. /\ up' = up /\ pc' = pc /\ tree' = tree /\ file' = file /\ synced' = synced
        /\ heads' = heads /\ acked' = acked
    BY <1>1 DEF vars
  <2>2. QED
    BY <2>1 DEF Inv, TypeOK, FramesWhole, OnlyTailTorn, TreeMirrorsFile, Pending, AckedSynced, Written
<1>2. ASSUME NEW r \in Receipt, BeginSubmit(r) PROVE Inv'
  BY <1>2, BeginSubmitInv
<1>3. CASE WriteBody
  BY <1>3, WriteBodyInv
<1>4. CASE SyncAll
  BY <1>4, SyncAllInv
<1>5. CASE Reply
  BY <1>5, ReplyInv
<1>6. CASE SignHead
  BY <1>6, SignHeadInv
<1>7. CASE ProcessCrash
  BY <1>7, ProcessCrashInv
<1>8. CASE PowerLoss
  BY <1>8, PowerLossInv
<1>9. CASE Open
  BY <1>9, OpenInv
<1>10. QED
  BY <1>1, <1>2, <1>3, <1>4, <1>5, <1>6, <1>7, <1>8, <1>9 DEF Next, AppendFails

-----------------------------------------------------------------------------
(* What follows from the invariant.                                        *)

(* A log that ends in a whole frame of the file survives any restart.      *)
LEMMA WholePrefixSurvives ==
  ASSUME Inv, NEW k \in 0 .. Len(file), k > 0 => file[k].written = "whole"
  PROVE  SurvivesRestart(SubSeq(Written, 1, k))
<1>1. file \in Seq(Frame) /\ Len(file) \in Nat
  BY LenProperties DEF Inv, TypeOK
<1>2. SUFFICES ASSUME NEW n \in 0 .. Len(file), Replayed(file, n)
               PROVE  IsPrefix(SubSeq(Written, 1, k), Receipts(SubSeq(file, 1, n)))
  BY DEF SurvivesRestart
<1>3. k <= n
  <2>1. SUFFICES ASSUME n < k PROVE FALSE
    BY <1>1
  <2>2. file[n + 1].written # "whole" /\ n + 1 \in 1 .. Len(file)
    BY <1>1, <1>2, <2>1 DEF Replayed
  <2>3. n + 1 = Len(file)
    BY <1>1, <2>2 DEF Inv, FramesWhole, OnlyTailTorn
  <2>4. k = n + 1
    BY <1>1, <2>1, <2>3
  <2>5. QED
    BY <1>1, <2>2, <2>4
<1>4. Receipts(SubSeq(file, 1, n)) = SubSeq(Written, 1, n)
  BY <1>1, ReceiptsOfCut DEF Written
<1>5. n \in 0 .. Len(Written) /\ k \in 0 .. n
  BY <1>1, <1>3, WrittenType
<1>6. QED
  BY <1>4, <1>5, WrittenType, CutIsPrefix

LEMMA InvImpliesAckedSurvive == Inv => AckedSurvive
<1> SUFFICES ASSUME Inv, NEW a \in acked PROVE SurvivesRestart(a.head)
  BY DEF AckedSurvive
<1>1. /\ Len(a.head) \in 1 .. synced
      /\ a.head = SubSeq(Written, 1, Len(a.head))
  BY DEF Inv, AckedSynced
<1>2. /\ file \in Seq(Frame) /\ Len(file) \in Nat /\ synced \in 0 .. Len(file)
  BY LenProperties DEF Inv, TypeOK
<1>3. Len(a.head) \in 0 .. Len(file) /\ file[Len(a.head)].written = "whole"
  BY <1>1, <1>2 DEF Inv, FramesWhole, OnlyTailTorn
<1>4. SurvivesRestart(SubSeq(Written, 1, Len(a.head)))
  BY <1>3, WholePrefixSurvives
<1>5. QED
  BY <1>1, <1>4

LEMMA InvImpliesServedLogChained == Inv => ServedLogChained
<1> SUFFICES ASSUME Inv PROVE Chained(tree)
  BY DEF ServedLogChained
<1>1. CASE up
  <2>1. tree = SubSeq(Written, 1, Len(file) - Pending)
    BY <1>1 DEF Inv, TreeMirrorsFile
  <2>2. Len(file) - Pending \in 0 .. Len(Written)
    BY WrittenType DEF Inv, TreeMirrorsFile, Pending
  <2>3. QED
    BY <2>1, <2>2, WrittenType, ChainedCut DEF Inv
<1>2. CASE ~up
  <2>1. tree = << >>
    BY <1>2 DEF Inv, TreeMirrorsFile
  <2>2. QED
    BY <2>1 DEF Chained
<1>3. QED
  BY <1>1, <1>2

(* Whatever crashes happen, in whatever order: an acknowledged receipt is  *)
(* in the log after every restart, the file is never damaged anywhere but  *)
(* at its end, and the log served is a chain.                              *)
THEOREM AckedReceiptsAreDurable ==
  ASSUME "io_error" \notin Faults
  PROVE  Spec => [](TypeOK /\ AckedSurvive /\ OnlyTailTorn /\ ServedLogChained)
<1>1. Init => Inv
  BY InvInit
<1>2. Inv /\ [Next]_vars => Inv'
  BY InvNext
<1>3. Inv => TypeOK /\ AckedSurvive /\ OnlyTailTorn /\ ServedLogChained
  BY InvImpliesAckedSurvive, InvImpliesServedLogChained DEF Inv, FramesWhole
<1>4. QED
  BY <1>1, <1>2, <1>3, PTL DEF Spec

-----------------------------------------------------------------------------
(* Heads that relying parties keep, when only one of the two kinds of      *)
(* crash can happen.                                                       *)

OneKindOfCrash ==
  /\ "io_error" \notin Faults
  /\ "process_crash" \notin Faults \/ "power_loss" \notin Faults

(* Kept heads stay in the file while its first K frames stay what they are.*)
LEMMA HeadsStable ==
  ASSUME Inv, HeadsWritten, heads' = heads, NEW K \in 0 .. Len(file), K <= Len(file'),
         Len(file') \in Nat,
         \A h \in heads : Len(h) <= K,
         \A i \in 1 .. K : file[i].written = "whole" => file'[i].written = "whole",
         \A k \in 0 .. K : SubSeq(Written', 1, k) = SubSeq(Written, 1, k)
  PROVE  HeadsWritten'
<1> SUFFICES ASSUME NEW h \in heads
             PROVE  /\ Len(h) <= Len(file')
                    /\ h = SubSeq(Written', 1, Len(h))
                    /\ Len(h) > 0 => file'[Len(h)].written = "whole"
  BY DEF HeadsWritten
<1>1. h \in Seq(Receipt) /\ Len(h) \in Nat /\ Len(file) \in Nat
  BY LenProperties DEF Inv, TypeOK
<1>2. /\ h = SubSeq(Written, 1, Len(h))
      /\ Len(h) > 0 => file[Len(h)].written = "whole"
  BY DEF HeadsWritten
<1>3. Len(h) <= K /\ Len(h) <= Len(file') /\ Len(h) \in 0 .. K
  BY <1>1
<1>4. h = SubSeq(Written', 1, Len(h))
  BY <1>2, <1>3
<1>5. ASSUME Len(h) > 0 PROVE file'[Len(h)].written = "whole"
  <2>1. Len(h) \in 1 .. K
    BY <1>1, <1>3, <1>5
  <2>2. QED
    BY <1>2, <1>5, <2>1
<1>6. QED
  BY <1>3, <1>4, <1>5

LEMMA HeadsInvInit == Init => HeadsInv
<1> SUFFICES ASSUME Init PROVE HeadsInv
  OBVIOUS
<1>1. up = TRUE /\ tree = << >> /\ synced = 0 /\ heads = {}
  BY DEF Init
<1>2. Len(tree) = 0
  BY <1>1
<1>3. ServedSynced /\ HeadsWritten
  BY <1>1, <1>2 DEF ServedSynced, HeadsWritten
<1>4. QED
  BY <1>3, InvInit DEF HeadsInv

LEMMA HeadsInvNext ==
  ASSUME OneKindOfCrash, HeadsInv, [Next]_vars
  PROVE  HeadsInv'
<1>1. Inv /\ Inv' /\ ServedSynced /\ HeadsWritten
  BY InvNext DEF HeadsInv, OneKindOfCrash
<1>2. /\ file \in Seq(Frame) /\ Len(file) \in Nat /\ synced \in 0 .. Len(file)
      /\ heads \subseteq Seq(Receipt) /\ tree \in Seq(Receipt) /\ Len(tree) \in Nat
      /\ \A h \in heads : Len(h) \in Nat /\ Len(h) <= Len(file)
      /\ Len(file') \in Nat
  BY <1>1, LenProperties DEF Inv, TypeOK, HeadsWritten
<1>3. CASE UNCHANGED vars
  <2>1. /\ up' = up /\ tree' = tree /\ file' = file /\ synced' = synced /\ heads' = heads
    BY <1>3 DEF vars
  <2>2. QED
    BY <1>1, <2>1 DEF HeadsInv, ServedSynced, HeadsWritten, Written
<1>4. ASSUME NEW r \in Receipt, BeginSubmit(r) PROVE HeadsInv'
  <2> DEFINE f == [receipt |-> r, written |-> "cut"]
  <2>1. /\ up' = up /\ up /\ tree' = tree /\ file' = Append(file, f) /\ synced' = synced /\ heads' = heads
    BY <1>4 DEF BeginSubmit
  <2>2. f \in Frame /\ f.receipt = r
    BY DEF Frame
  <2> HIDE DEF f
  <2>3. Len(file') = Len(file) + 1 /\ \A i \in 1 .. Len(file) : file'[i] = file[i]
    BY <1>2, <2>1, <2>2, AppendProperties
  <2>4. Written' = Append(Written, r)
    BY <1>2, <2>1, <2>2, ReceiptsOfAppend DEF Written
  <2>5. \A k \in 0 .. Len(file) : SubSeq(Written', 1, k) = SubSeq(Written, 1, k)
    BY <1>1, <2>4, WrittenType, CutOfAppend
  <2>6. Len(file) \in 0 .. Len(file) /\ Len(file) <= Len(file')
    BY <1>2, <2>3
  <2>7. HeadsWritten'
    BY <1>1, <1>2, <2>1, <2>3, <2>5, <2>6, HeadsStable
  <2>8. ServedSynced'
    BY <1>1, <2>1 DEF ServedSynced
  <2>9. QED
    BY <1>1, <2>7, <2>8 DEF HeadsInv
<1>5. CASE WriteBody
  <2>1. /\ pc = "body" /\ up' = up /\ tree' = tree /\ file' = WithBody(file)
        /\ synced' = synced /\ heads' = heads
    BY <1>5 DEF WriteBody
  <2>2. up /\ Len(file) > 0
    BY <1>1, <2>1 DEF Inv, TreeMirrorsFile
  <2>3. /\ Len(file') = Len(file) /\ Written' = Written
        /\ file'[Len(file)].written = "whole"
        /\ \A i \in 1 .. Len(file) - 1 : file'[i] = file[i]
    BY <1>2, <2>1, <2>2, ReceiptsOfWithBody DEF Written
  <2>4. \A i \in 1 .. Len(file) : file[i].written = "whole" => file'[i].written = "whole"
    BY <1>2, <2>3
  <2>5. HeadsWritten'
    BY <1>1, <1>2, <2>1, <2>3, <2>4, HeadsStable
  <2>6. ServedSynced'
    BY <1>1, <2>1, <2>2 DEF ServedSynced
  <2>7. QED
    BY <1>1, <2>5, <2>6 DEF HeadsInv
<1>6. CASE SyncAll
  <2>1. /\ pc = "sync" /\ up' = up /\ tree' = tree /\ file' = file
        /\ synced' = Len(file) /\ heads' = heads
    BY <1>6 DEF SyncAll
  <2>2. up
    BY <1>1, <2>1 DEF Inv, TreeMirrorsFile
  <2>3. HeadsWritten'
    BY <1>1, <2>1 DEF HeadsWritten, Written
  <2>4. ServedSynced'
    BY <1>1, <1>2, <2>1, <2>2 DEF ServedSynced
  <2>5. QED
    BY <1>1, <2>3, <2>4 DEF HeadsInv
<1>7. CASE Reply
  <2>1. /\ pc = "synced" /\ pc' = "idle" /\ up' = up /\ file' = file
        /\ synced' = synced /\ heads' = heads
    BY <1>7 DEF Reply
  <2>2. up /\ synced = Len(file)
    BY <1>1, <2>1 DEF Inv, TreeMirrorsFile, FramesWhole
  <2>3. Len(tree') <= synced
    <3>1. tree' = SubSeq(Written', 1, Len(file))
      BY <1>1, <1>2, <2>1, <2>2 DEF Inv, TreeMirrorsFile, Pending
    <3>2. Written' = Written
      BY <2>1 DEF Written
    <3>3. Len(file) \in 0 .. Len(Written)
      BY <1>1, WrittenType
    <3>4. Len(tree') = Len(file)
      BY <1>1, <3>1, <3>2, <3>3, WrittenType, CutProperties
    <3>5. QED
      BY <1>2, <2>2, <3>4
  <2>4. HeadsWritten'
    BY <1>1, <2>1 DEF HeadsWritten, Written
  <2>5. ServedSynced'
    BY <1>1, <2>1, <2>2, <2>3 DEF ServedSynced
  <2>6. QED
    BY <1>1, <2>4, <2>5 DEF HeadsInv
<1>8. CASE SignHead
  <2>1. /\ up /\ pc = "idle" /\ up' = up /\ tree' = tree /\ file' = file
        /\ synced' = synced /\ heads' = heads \cup {tree}
    BY <1>8 DEF SignHead, Root
  <2>2. tree = SubSeq(Written, 1, Len(file))
    BY <1>1, <1>2, <2>1 DEF Inv, TreeMirrorsFile, Pending
  <2>3. Len(file) \in 0 .. Len(Written)
    BY <1>1, WrittenType
  <2>4. Len(tree) = Len(file)
    BY <1>1, <2>2, <2>3, WrittenType, CutProperties
  <2>5. Len(tree) > 0 => file[Len(tree)].written = "whole"
    BY <1>1, <2>1, <2>4 DEF Inv, FramesWhole
  <2>6. HeadsWritten'
    BY <1>1, <1>2, <2>1, <2>2, <2>4, <2>5 DEF HeadsWritten, Written
  <2>7. ServedSynced'
    BY <1>1, <2>1 DEF ServedSynced
  <2>8. QED
    BY <1>1, <2>6, <2>7 DEF HeadsInv
<1>9. CASE ProcessCrash
  <2>1. /\ "process_crash" \in Faults /\ file' = file /\ synced' = synced /\ heads' = heads
    BY <1>9 DEF ProcessCrash
  <2>2. HeadsWritten' /\ ServedSynced'
    BY <1>1, <2>1 DEF HeadsWritten, Written, ServedSynced
  <2>3. QED
    BY <1>1, <2>2 DEF HeadsInv
<1>10. CASE PowerLoss
  <2>1. /\ "process_crash" \notin Faults /\ up' = FALSE /\ heads' = heads
    BY <1>10 DEF PowerLoss, OneKindOfCrash
  <2>2. PICK n \in synced .. Len(file) :
          /\ synced' = n
          /\ \A i \in 1 .. n : file[i].written = "whole"
          /\ file' \in Seq(Frame)
          /\ \A i \in 1 .. n : file'[i] = file[i]
          /\ \A k \in 0 .. n : SubSeq(Written', 1, k) = SubSeq(Written, 1, k)
          /\ Chained(Written')
          /\ \/ Len(file') = n
             \/ Len(file') = n + 1 /\ file'[n + 1].written # "whole"
    BY <1>1, <1>10, PowerLossLeaves
  <2>3. n \in 0 .. Len(file) /\ n <= Len(file')
    BY <1>2, <2>2
  <2>4. \A h \in heads : Len(h) <= n
    BY <1>1, <1>2, <2>1, <2>2 DEF ServedSynced
  <2>5. HeadsWritten'
    BY <1>1, <1>2, <2>1, <2>2, <2>3, <2>4, HeadsStable
  <2>6. ServedSynced'
    BY <2>1, <2>2, <2>4 DEF ServedSynced
  <2>7. QED
    BY <1>1, <2>5, <2>6 DEF HeadsInv
<1>11. CASE Open
  <2>1. ~up /\ heads' = heads
    BY <1>11 DEF Open
  <2>2. PICK n \in 0 .. Len(file) :
          /\ Replayed(file, n)
          /\ up' = TRUE
          /\ tree' = Receipts(SubSeq(file, 1, n))
          /\ file' = SubSeq(file, 1, n)
          /\ synced' = IF n < Len(file) THEN n ELSE synced
    BY <1>11 DEF Open
  <2>3. /\ Len(file') = n
        /\ \A i \in 1 .. n : file'[i] = file[i]
        /\ Written' = SubSeq(Written, 1, n)
        /\ Len(tree') = n
    BY <1>2, <2>2, CutProperties, ReceiptsOfCut, ReceiptsOf DEF Written
  <2>4. n < Len(file) => n + 1 = Len(file) /\ file[Len(file)].written # "whole"
    BY <1>1, <1>2, <2>2 DEF Replayed, Inv, FramesWhole, OnlyTailTorn
  <2>5. \A h \in heads : Len(h) <= n
    BY <1>1, <1>2, <2>2, <2>4 DEF HeadsWritten
  <2>6. \A k \in 0 .. n : SubSeq(Written', 1, k) = SubSeq(Written, 1, k)
    BY <1>1, <2>2, <2>3, WrittenType, CutOfCut
  <2>7. n <= Len(file')
    BY <1>2, <2>3
  <2>8. HeadsWritten'
    BY <1>1, <1>2, <2>1, <2>2, <2>3, <2>5, <2>6, <2>7, HeadsStable
  <2>9. ServedSynced'
    <3> SUFFICES ASSUME "process_crash" \notin Faults
                 PROVE  n <= synced'
      BY <1>2, <2>1, <2>2, <2>3, <2>5 DEF ServedSynced
    <3>1. \/ Len(file) = synced
          \/ Len(file) = synced + 1 /\ file[Len(file)].written # "whole"
      BY <1>1, <2>1 DEF ServedSynced
    <3>2. n = Len(file) => n = 0 \/ file[n].written = "whole"
      BY <1>2, <2>2 DEF Replayed
    <3>3. QED
      BY <1>2, <2>2, <3>1, <3>2
  <2>10. QED
    BY <1>1, <2>8, <2>9 DEF HeadsInv
<1>12. QED
  BY <1>3, <1>4, <1>5, <1>6, <1>7, <1>8, <1>9, <1>10, <1>11
     DEF Next, AppendFails, OneKindOfCrash

(* Heads that are in the file survive every replay of it.                  *)
LEMMA HeadsInvSuffices == HeadsInv => HeadsSurvive
<1> SUFFICES ASSUME HeadsInv, NEW h \in heads PROVE SurvivesRestart(h)
  BY DEF HeadsSurvive
<1>1. /\ Inv /\ h \in Seq(Receipt) /\ Len(h) \in Nat /\ Len(h) <= Len(file)
      /\ h = SubSeq(Written, 1, Len(h))
      /\ Len(h) > 0 => file[Len(h)].written = "whole"
  BY LenProperties DEF HeadsInv, Inv, TypeOK, HeadsWritten
<1>2. Len(h) \in 0 .. Len(file)
  BY <1>1, WrittenType
<1>3. QED
  BY <1>1, <1>2, WholePrefixSurvives

(* If the process may be killed but power never fails, or power may fail   *)
(* but the process is never just killed, no head ever signed is lost.      *)
THEOREM SignedHeadsAreDurable ==
  ASSUME OneKindOfCrash
  PROVE  Spec => []HeadsSurvive
<1>1. Init => HeadsInv
  BY HeadsInvInit
<1>2. HeadsInv /\ [Next]_vars => HeadsInv'
  BY HeadsInvNext
<1>3. HeadsInv => HeadsSurvive
  BY HeadsInvSuffices
<1>4. QED
  BY <1>1, <1>2, <1>3, PTL DEF Spec

-----------------------------------------------------------------------------
(* The service implements the append-only log.                             *)

LEMMA CommittedIsCut ==
  ASSUME Inv
  PROVE  /\ Committed = SubSeq(Written, 1, synced)
         /\ Committed \in Seq(Receipt)
         /\ Len(Committed) = synced
<1>1. file \in Seq(Frame) /\ synced \in 0 .. Len(file)
  BY DEF Inv, TypeOK
<1>2. Committed = SubSeq(Written, 1, synced)
  BY <1>1, ReceiptsOfCut DEF Committed, Written
<1>3. QED
  BY <1>1, <1>2, WrittenType, CutProperties

(* The device's part of the log grows by a chained extension, or stays.    *)
LEMMA CommittedGrows ==
  ASSUME Inv, Inv', acked' = acked, synced <= synced',
         \A k \in 0 .. synced : SubSeq(Written', 1, k) = SubSeq(Written, 1, k)
  PROVE  Abstract!Register \/ UNCHANGED <<Committed, acked>>
<1>1. /\ synced \in 0 .. Len(file) /\ Len(file) \in Nat
      /\ synced' \in 0 .. Len(file') /\ Len(file') \in Nat
  BY LenProperties DEF Inv, TypeOK
<1>2. /\ Committed = SubSeq(Written, 1, synced)
      /\ Committed \in Seq(Receipt)
  BY CommittedIsCut
<1>3. /\ Written' \in Seq(Receipt) /\ Len(Written') = Len(file') /\ Chained(Written')
      /\ file' \in Seq(Frame)
  BY ReceiptsOf DEF Inv, TypeOK, Written
<1>4. /\ Committed' = SubSeq(Written', 1, synced')
      /\ Committed' \in Seq(Receipt)
  <2>1. Receipts(SubSeq(file', 1, synced')) = SubSeq(Receipts(file'), 1, synced')
    BY <1>1, <1>3, ReceiptsOfCut
  <2>2. Committed' = SubSeq(Written', 1, synced')
    BY <2>1 DEF Committed, Written
  <2>3. synced' \in 0 .. Len(Written')
    BY <1>1, <1>3
  <2>4. SubSeq(Written', 1, synced') \in Seq(Receipt)
    BY <1>3, <2>3, CutProperties
  <2>5. QED
    BY <2>2, <2>4
<1>5. Committed = SubSeq(Written', 1, synced)
  BY <1>1, <1>2
<1>6. IsPrefix(Committed, Committed')
  <2>1. synced' \in 0 .. Len(Written') /\ synced \in 0 .. synced'
    BY <1>1, <1>3
  <2>2. QED
    BY <1>3, <1>4, <1>5, <2>1, CutIsPrefix
<1>7. Chained(Committed')
  BY <1>1, <1>3, <1>4, ChainedCut
<1>8. Abstract!Chained(Committed')
  BY <1>7 DEF Chained, Root, Abstract!Chained, Abstract!Root
<1>9. CASE Committed' = Committed
  BY <1>9
<1>10. CASE Committed' # Committed
  <2>1. Abstract!IsStrictPrefix(Committed, Committed')
    BY <1>6, <1>10 DEF Abstract!IsStrictPrefix, Abstract!IsPrefix, IsPrefix
  <2>2. QED
    BY <1>4, <1>8, <2>1 DEF Abstract!Register
<1>11. QED
  BY <1>9, <1>10

LEMMA RefineNext ==
  ASSUME "io_error" \notin Faults, Inv, Inv', [Next]_vars
  PROVE  [Abstract!Next]_<<Committed, acked>>
<1>1. /\ file \in Seq(Frame) /\ Len(file) \in Nat /\ synced \in 0 .. Len(file)
  BY LenProperties DEF Inv, TypeOK
<1>2. \A k \in 0 .. synced : k \in 0 .. Len(file)
  BY <1>1
<1>3. CASE file' = file /\ acked' = acked /\ synced <= synced'
  <2>1. Written' = Written
    BY <1>3 DEF Written
  <2>2. QED
    BY <1>3, <2>1, CommittedGrows DEF Abstract!Next
<1>4. ASSUME NEW r \in Receipt, BeginSubmit(r) PROVE [Abstract!Next]_<<Committed, acked>>
  <2> DEFINE f == [receipt |-> r, written |-> "cut"]
  <2>1. file' = Append(file, f) /\ synced' = synced /\ acked' = acked
    BY <1>4 DEF BeginSubmit
  <2>2. f \in Frame /\ f.receipt = r
    BY DEF Frame
  <2> HIDE DEF f
  <2>3. Written' = Append(Written, r)
    BY <1>1, <2>1, <2>2, ReceiptsOfAppend DEF Written
  <2>4. \A k \in 0 .. synced : SubSeq(Written', 1, k) = SubSeq(Written, 1, k)
    BY <1>2, <2>3, WrittenType, CutOfAppend
  <2>5. synced <= synced'
    BY <1>1, <2>1
  <2>6. QED
    BY <2>1, <2>4, <2>5, CommittedGrows DEF Abstract!Next
<1>5. CASE WriteBody
  <2>1. pc = "body" /\ file' = WithBody(file) /\ synced' = synced /\ acked' = acked
    BY <1>5 DEF WriteBody
  <2>2. Len(file) > 0
    BY <2>1 DEF Inv, TreeMirrorsFile
  <2>3. Written' = Written
    BY <1>1, <2>1, <2>2, ReceiptsOfWithBody DEF Written
  <2>4. synced <= synced'
    BY <1>1, <2>1
  <2>5. QED
    BY <2>1, <2>3, <2>4, CommittedGrows DEF Abstract!Next
<1>6. CASE Reply
  <2> DEFINE r == file[Len(file)].receipt
  <2>1. /\ pc = "synced" /\ pc' = "idle" /\ up' = up /\ file' = file /\ synced' = synced
        /\ acked' = acked \cup {[receipt |-> r, head |-> tree']}
    BY <1>6 DEF Reply, Root
  <2>2. up /\ Len(file) > 0 /\ synced = Len(file)
    BY <2>1 DEF Inv, TreeMirrorsFile, FramesWhole
  <2>3. Committed = Written /\ Committed' = Committed
    BY <2>1, <2>2, CommittedIsCut, WrittenType, SubSeqFull DEF Committed
  <2>4. tree' = SubSeq(Written', 1, Len(file)) /\ Written' = Written
    BY <1>1, <2>1, <2>2 DEF Inv, TreeMirrorsFile, Pending, Written
  <2>5. r = Committed[Len(file)] /\ tree' = SubSeq(Committed, 1, Len(file))
    BY <1>1, <2>2, <2>3, <2>4, WrittenType
  <2>6. Len(file) \in 1 .. Len(Committed)
    BY <1>1, <2>2, <2>3, WrittenType
  <2>7. Abstract!Acknowledge
    BY <2>1, <2>3, <2>5, <2>6 DEF Abstract!Acknowledge
  <2>8. QED
    BY <2>7 DEF Abstract!Next
<1>7. CASE PowerLoss
  <2>1. acked' = acked
    BY <1>7 DEF PowerLoss
  <2>2. PICK n \in synced .. Len(file) :
          /\ synced' = n
          /\ \A i \in 1 .. n : file[i].written = "whole"
          /\ file' \in Seq(Frame)
          /\ \A i \in 1 .. n : file'[i] = file[i]
          /\ \A k \in 0 .. n : SubSeq(Written', 1, k) = SubSeq(Written, 1, k)
          /\ Chained(Written')
          /\ \/ Len(file') = n
             \/ Len(file') = n + 1 /\ file'[n + 1].written # "whole"
    BY <1>7, PowerLossLeaves
  <2>3. synced <= synced' /\ \A k \in 0 .. synced : k \in 0 .. n
    BY <1>1, <2>2
  <2>4. QED
    BY <2>1, <2>2, <2>3, CommittedGrows DEF Abstract!Next
<1>8. CASE Open
  <2>1. ~up /\ acked' = acked
    BY <1>8 DEF Open
  <2>2. PICK n \in 0 .. Len(file) :
          /\ Replayed(file, n)
          /\ file' = SubSeq(file, 1, n)
          /\ synced' = IF n < Len(file) THEN n ELSE synced
    BY <1>8 DEF Open
  <2>3. Written' = SubSeq(Written, 1, n)
    BY <1>1, <2>2, ReceiptsOfCut DEF Written
  <2>4. synced <= n
    BY <1>1, <2>2 DEF Replayed, Inv, FramesWhole, OnlyTailTorn
  <2>5. synced <= synced' /\ \A k \in 0 .. synced : k \in 0 .. n
    BY <1>1, <2>2, <2>4
  <2>6. \A k \in 0 .. synced : SubSeq(Written', 1, k) = SubSeq(Written, 1, k)
    BY <2>2, <2>3, <2>5, WrittenType, CutOfCut
  <2>7. QED
    BY <2>1, <2>5, <2>6, CommittedGrows DEF Abstract!Next
<1>9. CASE SyncAll \/ SignHead \/ ProcessCrash \/ UNCHANGED vars
  <2>1. file' = file /\ acked' = acked /\ synced <= synced'
    BY <1>1, <1>9 DEF SyncAll, SignHead, ProcessCrash, vars
  <2>2. QED
    BY <1>3, <2>1
<1>10. QED
  BY <1>4, <1>5, <1>6, <1>7, <1>8, <1>9 DEF Next, AppendFails

(* On the device there is one append-only log, and every 201 reply is      *)
(* about a receipt in it: crashes and restarts included.                   *)
THEOREM ServiceImplementsLog ==
  ASSUME "io_error" \notin Faults
  PROVE  Spec => ImplementsAppendOnlyLog
<1>1. Init => Abstract!Init
  <2> SUFFICES ASSUME Init PROVE Abstract!Init
    OBVIOUS
  <2>1. Inv /\ synced = 0 /\ acked = {}
    BY InvInit DEF Init
  <2>2. Committed \in Seq(Receipt) /\ Len(Committed) = 0
    BY <2>1, CommittedIsCut
  <2>3. Committed = << >>
    BY <2>2, SMT
  <2>4. QED
    BY <2>1, <2>3 DEF Abstract!Init
<1>2. Init => Inv
  BY InvInit
<1>3. Inv /\ [Next]_vars => Inv'
  BY InvNext
<1>4. Inv /\ Inv' /\ [Next]_vars => [Abstract!Next]_<<Committed, acked>>
  BY RefineNext
<1>5. QED
  BY <1>1, <1>2, <1>3, <1>4, PTL DEF Spec, ImplementsAppendOnlyLog, Abstract!Spec, Abstract!vars
-----------------------------------------------------------------------------
(* What is served while the service runs, and what the device holds.       *)

LEMMA AppendExtends ==
  ASSUME NEW S, NEW s \in Seq(S), NEW e \in S
  PROVE  IsPrefix(s, s) /\ IsPrefix(s, Append(s, e))
<1>1. /\ Append(s, e) \in Seq(S)
      /\ Len(Append(s, e)) = Len(s) + 1
      /\ Len(s) \in Nat
  BY AppendProperties, LenProperties
<1>2. SubSeq(Append(s, e), 1, Len(s)) = SubSeq(s, 1, Len(s))
  BY <1>1, CutOfAppend
<1>3. SubSeq(s, 1, Len(s)) = s
  BY SubSeqFull
<1>4. IsPrefix(s, s)
  BY <1>1, <1>3, PrefixIsCut
<1>5. IsPrefix(s, Append(s, e))
  <2> DEFINE t == Append(s, e)
  <2>1. t \in Seq(S) /\ Len(s) <= Len(t) /\ s = SubSeq(t, 1, Len(s))
    BY <1>1, <1>2, <1>3
  <2> HIDE DEF t
  <2>2. IsPrefix(s, t)
    BY <2>1, PrefixIsCut
  <2>3. QED
    BY <2>2 DEF t
<1>6. QED
  BY <1>4, <1>5

LEMMA IoInvInit == Init => IoInv /\ HeadsServed
<1> SUFFICES ASSUME Init PROVE IoInv /\ HeadsServed
  OBVIOUS
<1>1. up /\ pc = "idle" /\ heads = {} /\ acked = {}
  BY DEF Init
<1>2. TypeOK
  BY InvInit DEF Inv
<1>3. QED
  BY <1>1, <1>2 DEF IoInv, FrameInProgress, HeadsServed, AckedOnDevice

(* A reply keeps its frame while the file below synced stays what it is.   *)
LEMMA OnDeviceStable ==
  ASSUME IoInv, acked' = acked, synced' \in Nat, synced <= synced',
         \A i \in 1 .. synced :
           /\ file'[i].receipt = file[i].receipt
           /\ file[i].written = "whole" => file'[i].written = "whole"
  PROVE  AckedOnDevice'
<1> SUFFICES ASSUME NEW a \in acked
             PROVE  \E i \in 1 .. synced' : file'[i].receipt = a.receipt /\ file'[i].written = "whole"
  BY DEF AckedOnDevice
<1>1. PICK i \in 1 .. synced : file[i].receipt = a.receipt /\ file[i].written = "whole"
  BY DEF IoInv, AckedOnDevice
<1>2. i \in 1 .. synced'
  BY DEF IoInv, TypeOK
<1>3. QED
  BY <1>1, <1>2

LEMMA IoInvNext ==
  ASSUME Faults \subseteq {"io_error"}, IoInv, [Next]_vars
  PROVE  IoInv'
<1>1. /\ up /\ TypeOK /\ FrameInProgress /\ AckedOnDevice
      /\ file \in Seq(Frame) /\ Len(file) \in Nat /\ synced \in 0 .. Len(file)
      /\ tree \in Seq(Receipt)
  BY LenProperties DEF IoInv, TypeOK
<1>2. ASSUME file' = file, synced' = synced, acked' = acked
      PROVE  AckedOnDevice'
  BY <1>1, <1>2 DEF AckedOnDevice
<1>3. CASE UNCHANGED vars
  BY <1>1, <1>3 DEF vars, IoInv, TypeOK, FrameInProgress, AckedOnDevice
<1>4. ASSUME NEW r \in Receipt, BeginSubmit(r) PROVE IoInv'
  <2> DEFINE f == [receipt |-> r, written |-> "cut"]
  <2>1. /\ up' = up /\ pc' = "body" /\ file' = Append(file, f)
        /\ tree' = tree /\ synced' = synced /\ heads' = heads /\ acked' = acked
    BY <1>4 DEF BeginSubmit
  <2>2. f \in Frame
    BY DEF Frame
  <2> HIDE DEF f
  <2>3. /\ file' \in Seq(Frame) /\ Len(file') = Len(file) + 1
        /\ \A i \in 1 .. Len(file) : file'[i] = file[i]
    BY <1>1, <2>1, <2>2, AppendProperties
  <2>4. TypeOK'
    BY <1>1, <2>1, <2>3 DEF TypeOK
  <2>5. FrameInProgress'
    BY <1>1, <2>1, <2>3 DEF FrameInProgress
  <2>6. AckedOnDevice'
    BY <1>1, <2>1, <2>3, OnDeviceStable
  <2>7. QED
    BY <1>1, <2>1, <2>4, <2>5, <2>6 DEF IoInv
<1>5. CASE WriteBody
  <2>1. /\ pc = "body" /\ up' = up /\ pc' = "sync" /\ file' = WithBody(file)
        /\ tree' = tree /\ synced' = synced /\ heads' = heads /\ acked' = acked
    BY <1>5 DEF WriteBody
  <2>2. Len(file) > 0 /\ synced < Len(file)
    BY <1>1, <2>1 DEF FrameInProgress
  <2>3. /\ file' \in Seq(Frame) /\ Len(file') = Len(file)
        /\ file'[Len(file)].written = "whole"
        /\ \A i \in 1 .. Len(file) - 1 : file'[i] = file[i]
    BY <1>1, <2>1, <2>2, ReceiptsOfWithBody
  <2>4. TypeOK'
    BY <1>1, <2>1, <2>3 DEF TypeOK
  <2>5. FrameInProgress'
    BY <1>1, <2>1, <2>2, <2>3 DEF FrameInProgress
  <2>6. AckedOnDevice'
    BY <1>1, <2>1, <2>2, <2>3, OnDeviceStable
  <2>7. QED
    BY <1>1, <2>1, <2>4, <2>5, <2>6 DEF IoInv
<1>6. CASE SyncAll
  <2>1. /\ pc = "sync" /\ up' = up /\ pc' = "synced" /\ synced' = Len(file)
        /\ tree' = tree /\ file' = file /\ heads' = heads /\ acked' = acked
    BY <1>6 DEF SyncAll
  <2>2. TypeOK'
    BY <1>1, <2>1 DEF TypeOK
  <2>3. FrameInProgress'
    BY <1>1, <2>1 DEF FrameInProgress
  <2>4. AckedOnDevice'
    BY <1>1, <2>1, OnDeviceStable
  <2>5. QED
    BY <1>1, <2>1, <2>2, <2>3, <2>4 DEF IoInv
<1>7. CASE Reply
  <2> DEFINE r == file[Len(file)].receipt
  <2>1. /\ pc = "synced" /\ up' = up /\ pc' = "idle" /\ tree' = Append(tree, r)
        /\ acked' = acked \cup {[receipt |-> r, head |-> tree']}
        /\ synced' = synced /\ file' = file /\ heads' = heads
    BY <1>7 DEF Reply, Root
  <2>2. Len(file) > 0 /\ synced = Len(file) /\ file[Len(file)].written = "whole"
    BY <1>1, <2>1 DEF FrameInProgress
  <2>3. r \in Receipt
    <3>1. file[Len(file)] \in Frame
      BY <1>1, <2>2, ElementOfSeq
    <3>2. QED
      BY <3>1 DEF Frame
  <2> HIDE DEF r
  <2>4. tree' \in Seq(Receipt) /\ IsPrefix(tree, tree') /\ IsPrefix(tree', tree')
    BY <1>1, <2>1, <2>3, AppendProperties, AppendExtends
  <2>5. TypeOK'
    <3>1. acked' \subseteq [receipt : Receipt, head : Seq(Receipt)]
      <4> DEFINE new == [receipt |-> r, head |-> tree']
      <4>1. new \in [receipt : Receipt, head : Seq(Receipt)]
        BY <2>3, <2>4
      <4>2. acked \subseteq [receipt : Receipt, head : Seq(Receipt)] /\ acked' = acked \cup {new}
        BY <1>1, <2>1 DEF TypeOK
      <4> HIDE DEF new
      <4>3. QED
        BY <4>1, <4>2
    <3>2. /\ up' \in BOOLEAN /\ pc' \in {"idle", "body", "sync", "synced"}
          /\ file' \in Seq(Frame) /\ synced' \in 0 .. Len(file')
          /\ heads' \subseteq Seq(Receipt)
      BY <1>1, <2>1 DEF TypeOK
    <3>3. QED
      BY <2>4, <3>1, <3>2 DEF TypeOK
  <2>7. AckedOnDevice'
    <3>1. \A a \in acked' : a \in acked \/ a.receipt = r
      BY <2>1
    <3>2. synced \in 1 .. synced /\ file[synced].receipt = r /\ file[synced].written = "whole"
      BY <1>1, <2>2 DEF r
    <3>3. QED
      BY <1>1, <2>1, <3>1, <3>2 DEF AckedOnDevice
  <2>8. FrameInProgress'
    BY <2>1 DEF FrameInProgress
  <2>9. QED
    BY <1>1, <2>1, <2>5, <2>7, <2>8 DEF IoInv
<1>8. CASE AppendFails
  <2>1. /\ up' = up /\ pc' = "idle" /\ tree' = tree /\ file' = file
        /\ synced' = synced /\ heads' = heads /\ acked' = acked
    BY <1>8 DEF AppendFails
  <2>2. QED
    BY <1>1, <1>2, <2>1 DEF IoInv, TypeOK, FrameInProgress
<1>9. CASE SignHead
  <2>1. /\ pc' = pc /\ up' = up /\ heads' = heads \cup {tree} /\ tree' = tree /\ file' = file
        /\ synced' = synced /\ acked' = acked
    BY <1>9 DEF SignHead, Root
  <2>2. QED
    BY <1>1, <1>2, <2>1 DEF IoInv, TypeOK, FrameInProgress
<1>10. ~ProcessCrash /\ ~PowerLoss /\ ~Open
  BY <1>1 DEF ProcessCrash, PowerLoss, Open
<1>11. QED
  BY <1>3, <1>4, <1>5, <1>6, <1>7, <1>8, <1>9, <1>10 DEF Next

(* What is served goes on to extend every head, if a restart brings them   *)
(* all back (submit, Store::open).                                         *)
LEMMA HeadsServedNext ==
  ASSUME TypeOK, HeadsServed, [Next]_vars,
         pc = "synced" => up /\ Len(file) > 0,
         ~ up => HeadsSurvive /\ AckedSurvive
  PROVE  HeadsServed'
<1>1. /\ tree \in Seq(Receipt) /\ file \in Seq(Frame)
      /\ heads \subseteq Seq(Receipt) /\ \A a \in acked : a.head \in Seq(Receipt)
  BY DEF TypeOK
<1>2. ASSUME up' = up, tree' = tree, heads' = heads, acked' = acked
      PROVE  HeadsServed'
  BY <1>2 DEF HeadsServed
<1>3. CASE Reply
  <2> DEFINE r == file[Len(file)].receipt
  <2>1. /\ up' = up /\ tree' = Append(tree, r) /\ heads' = heads /\ pc = "synced"
        /\ acked' = acked \cup {[receipt |-> r, head |-> tree']}
    BY <1>3 DEF Reply, Root
  <2>2. up /\ Len(file) \in Nat /\ Len(file) > 0
    BY <1>1, <2>1, LenProperties
  <2>3. r \in Receipt
    <3>1. file[Len(file)] \in Frame
      BY <1>1, <2>2, ElementOfSeq
    <3>2. QED
      BY <3>1 DEF Frame
  <2> HIDE DEF r
  <2>4. tree' \in Seq(Receipt) /\ IsPrefix(tree, tree') /\ IsPrefix(tree', tree')
    BY <1>1, <2>1, <2>3, AppendProperties, AppendExtends
  <2>5. ASSUME NEW h \in heads \cup {a.head : a \in acked} PROVE IsPrefix(h, tree')
    <3>1. IsPrefix(h, tree) /\ h \in Seq(Receipt)
      BY <1>1, <2>2 DEF HeadsServed
    <3>2. QED
      BY <1>1, <2>4, <3>1, PrefixTransitive
  <2>6. \A a \in acked' : a \in acked \/ a.head = tree'
    BY <2>1
  <2>7. QED
    BY <2>1, <2>4, <2>5, <2>6 DEF HeadsServed
<1>4. CASE SignHead
  <2>1. up' = up /\ heads' = heads \cup {tree} /\ tree' = tree /\ acked' = acked
    BY <1>4 DEF SignHead, Root
  <2>2. IsPrefix(tree, tree)
    BY <1>1, PrefixIsCut, SubSeqFull, LenProperties
  <2>3. QED
    BY <2>1, <2>2 DEF HeadsServed
<1>5. CASE ProcessCrash \/ PowerLoss
  <2>1. ~up'
    BY <1>5 DEF ProcessCrash, PowerLoss
  <2>2. QED
    BY <2>1 DEF HeadsServed
<1>6. CASE Open
  <2>1. PICK n \in 0 .. Len(file) : Replayed(file, n) /\ tree' = Receipts(SubSeq(file, 1, n))
    BY <1>6 DEF Open
  <2>2. heads' = heads /\ acked' = acked
    BY <1>6 DEF Open
  <2>3. HeadsSurvive /\ AckedSurvive
    BY <1>6 DEF Open
  <2>4. \A h \in heads \cup {a.head : a \in acked} : IsPrefix(h, tree')
    BY <2>1, <2>3 DEF HeadsSurvive, AckedSurvive, SurvivesRestart
  <2>5. QED
    BY <2>2, <2>4 DEF HeadsServed
<1>7. CASE WriteBody \/ SyncAll \/ AppendFails \/ (\E r \in Receipt : BeginSubmit(r)) \/ UNCHANGED vars
  <2>1. up' = up /\ tree' = tree /\ heads' = heads /\ acked' = acked
    BY <1>7 DEF WriteBody, SyncAll, AppendFails, BeginSubmit, vars
  <2>2. QED
    BY <1>2, <2>1
<1>8. QED
  BY <1>3, <1>4, <1>5, <1>6, <1>7 DEF Next

(* The 500 of submit: however many writes and fsyncs fail half-way, a      *)
(* service that is not stopped serves a log that extends every head it     *)
(* acknowledged or published, and every acknowledged receipt is whole on   *)
(* the device.                                                             *)
THEOREM FailedAppendsHarmNothing ==
  ASSUME Faults \subseteq {"io_error"}
  PROVE  Spec => [](TypeOK /\ HeadsServed /\ AckedOnDevice)
<1>1. Init => IoInv /\ HeadsServed
  BY IoInvInit
<1>2. IoInv /\ HeadsServed /\ [Next]_vars => IoInv' /\ HeadsServed'
  BY IoInvNext, HeadsServedNext DEF IoInv, FrameInProgress
<1>3. IoInv => TypeOK /\ AckedOnDevice
  BY DEF IoInv
<1>4. QED
  BY <1>1, <1>2, <1>3, PTL DEF Spec

(* The same across crashes and restarts, as long as no I/O call fails.     *)
LEMMA InvImpliesAckedOnDevice == Inv => AckedOnDevice
<1> SUFFICES ASSUME Inv, NEW a \in acked
             PROVE  \E i \in 1 .. synced : file[i].receipt = a.receipt /\ file[i].written = "whole"
  BY DEF AckedOnDevice
<1> DEFINE n == Len(a.head)
<1>1. /\ n \in 1 .. synced
      /\ a.head = SubSeq(Written, 1, n)
      /\ a.receipt = a.head[n]
  BY DEF Inv, AckedSynced
<1>2. synced \in 0 .. Len(file) /\ Len(file) \in Nat
  BY LenProperties DEF Inv, TypeOK
<1> HIDE DEF n
<1>3. n \in 1 .. Len(file) /\ n \in 0 .. Len(Written) /\ n \in 1 .. n
  BY <1>1, <1>2, WrittenType
<1>4. SubSeq(Written, 1, n)[n] = Written[n]
  BY <1>3, WrittenType, CutProperties
<1>5. a.receipt = file[n].receipt
  BY <1>1, <1>3, <1>4, WrittenType
<1>6. file[n].written = "whole"
  <2>1. CASE n = Len(file)
    <3>1. synced > 0 /\ synced = n
      BY <1>1, <1>2, <2>1
    <3>2. QED
      BY <3>1 DEF Inv, FramesWhole
  <2>2. CASE n # Len(file)
    <3>1. n \in 1 .. Len(file) - 1
      BY <1>2, <1>3, <2>2
    <3>2. QED
      BY <3>1 DEF Inv, FramesWhole, OnlyTailTorn
  <2>3. QED
    BY <2>1, <2>2
<1>7. QED
  BY <1>1, <1>5, <1>6

(* A frame that is synced is there, and a replay brings all heads back.    *)
LEMMA ServesAgain ==
  ASSUME HeadsInv
  PROVE  /\ pc = "synced" => up /\ Len(file) > 0
         /\ ~ up => HeadsSurvive /\ AckedSurvive
<1>1. pc = "synced" => up /\ Len(file) > 0
  BY DEF HeadsInv, Inv, TreeMirrorsFile
<1>2. HeadsSurvive /\ AckedSurvive
  BY HeadsInvSuffices, InvImpliesAckedSurvive DEF HeadsInv
<1>3. QED
  BY <1>1, <1>2

(* "A restart does not lose or fork the log": what a service says after it *)
(* came back extends what it said before, and no acknowledged receipt      *)
(* leaves the device.                                                      *)
THEOREM RestartsServeHeads ==
  ASSUME OneKindOfCrash
  PROVE  Spec => [](HeadsServed /\ AckedOnDevice)
<1>1. Init => HeadsInv /\ HeadsServed
  BY HeadsInvInit DEF Init, HeadsServed
<1>2. HeadsInv /\ HeadsServed /\ [Next]_vars => HeadsInv' /\ HeadsServed'
  BY HeadsInvNext, HeadsServedNext, ServesAgain DEF OneKindOfCrash, HeadsInv, Inv
<1>3. HeadsInv => AckedOnDevice
  BY InvImpliesAckedOnDevice DEF HeadsInv
<1>4. QED
  BY <1>1, <1>2, <1>3, PTL DEF Spec
=============================================================================
