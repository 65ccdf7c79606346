----------------------------- MODULE LogLemmas -----------------------------
(***************************************************************************)
(* Facts that the proofs of the other modules cite: prefixes, cuts and     *)
(* appends of logs as sequences, and induction.                            *)
(***************************************************************************)
EXTENDS Naturals, Sequences, SequencesExt, SequenceTheorems,
        WellFoundedInduction, TLAPS

(* The first n elements of a log.                                          *)
LEMMA CutProperties ==
  ASSUME NEW S, NEW s \in Seq(S), NEW n \in 0 .. Len(s)
  PROVE  /\ SubSeq(s, 1, n) \in Seq(S)
         /\ Len(SubSeq(s, 1, n)) = n
         /\ \A i \in 1 .. n : SubSeq(s, 1, n)[i] = s[i]
  BY SubSeqProperties, LenProperties, SMT

(* Cutting twice is cutting once, at the lower place.                      *)
LEMMA CutOfCut ==
  ASSUME NEW S, NEW s \in Seq(S), NEW n \in 0 .. Len(s), NEW m \in 0 .. n
  PROVE  SubSeq(SubSeq(s, 1, n), 1, m) = SubSeq(s, 1, m)
<1>1. /\ SubSeq(s, 1, n) \in Seq(S)
      /\ Len(SubSeq(s, 1, n)) = n
      /\ \A i \in 1 .. n : SubSeq(s, 1, n)[i] = s[i]
  BY CutProperties
<1>2. /\ SubSeq(s, 1, m) \in Seq(S)
      /\ Len(SubSeq(s, 1, m)) = m
      /\ \A i \in 1 .. m : SubSeq(s, 1, m)[i] = s[i]
  <2>1. m \in 0 .. Len(s)
    BY LenProperties
  <2>2. QED BY <2>1, CutProperties
<1>3. /\ SubSeq(SubSeq(s, 1, n), 1, m) \in Seq(S)
      /\ Len(SubSeq(SubSeq(s, 1, n), 1, m)) = m
      /\ \A i \in 1 .. m : SubSeq(SubSeq(s, 1, n), 1, m)[i] = SubSeq(s, 1, n)[i]
  BY <1>1, CutProperties
<1>4. QED
  BY <1>1, <1>2, <1>3, SeqEqual, SMT

(* An append is below any cut of the old log.                              *)
LEMMA CutOfAppend ==
  ASSUME NEW S, NEW s \in Seq(S), NEW e \in S, NEW n \in 0 .. Len(s)
  PROVE  SubSeq(Append(s, e), 1, n) = SubSeq(s, 1, n)
<1>1. /\ Append(s, e) \in Seq(S)
      /\ Len(Append(s, e)) = Len(s) + 1
      /\ \A i \in 1 .. Len(s) : Append(s, e)[i] = s[i]
  BY AppendProperties
<1>2. n \in 0 .. Len(Append(s, e))
  BY <1>1, LenProperties
<1>3. /\ SubSeq(Append(s, e), 1, n) \in Seq(S)
      /\ Len(SubSeq(Append(s, e), 1, n)) = n
      /\ \A i \in 1 .. n : SubSeq(Append(s, e), 1, n)[i] = Append(s, e)[i]
  BY <1>1, <1>2, CutProperties
<1>4. /\ SubSeq(s, 1, n) \in Seq(S)
      /\ Len(SubSeq(s, 1, n)) = n
      /\ \A i \in 1 .. n : SubSeq(s, 1, n)[i] = s[i]
  BY CutProperties
<1>5. QED
  BY <1>1, <1>3, <1>4, SeqEqual, SMT

(* A cut is a prefix of every cut at the same place or higher.             *)
LEMMA CutIsPrefix ==
  ASSUME NEW S, NEW s \in Seq(S), NEW n \in 0 .. Len(s), NEW m \in 0 .. n
  PROVE  IsPrefix(SubSeq(s, 1, m), SubSeq(s, 1, n))
<1>1. m \in 0 .. Len(s)
  BY LenProperties
<1>2. Len(SubSeq(s, 1, m)) = m /\ Len(SubSeq(s, 1, n)) = n
  BY <1>1, CutProperties
<1>3. /\ SubSeq(SubSeq(s, 1, m), 1, m) = SubSeq(s, 1, m)
      /\ SubSeq(SubSeq(s, 1, n), 1, m) = SubSeq(s, 1, m)
  BY <1>1, CutOfCut
<1>4. QED
  BY <1>2, <1>3 DEF IsPrefix

(* A prefix is the cut of the longer log at its own length.                *)
LEMMA PrefixIsCut ==
  ASSUME NEW S, NEW s \in Seq(S), NEW t \in Seq(S)
  PROVE  IsPrefix(s, t) <=> Len(s) <= Len(t) /\ s = SubSeq(t, 1, Len(s))
  BY SubSeqFull DEF IsPrefix

LEMMA PrefixTransitive ==
  ASSUME NEW S, NEW s \in Seq(S), NEW t \in Seq(S), NEW u \in Seq(S),
         IsPrefix(s, t), IsPrefix(t, u)
  PROVE  IsPrefix(s, u)
<1>1. Len(s) \in 0 .. Len(t) /\ Len(t) \in 0 .. Len(u)
  BY LenProperties DEF IsPrefix
<1>2. s = SubSeq(t, 1, Len(s)) /\ t = SubSeq(u, 1, Len(t))
  BY PrefixIsCut
<1>3. SubSeq(SubSeq(u, 1, Len(t)), 1, Len(s)) = SubSeq(u, 1, Len(s))
  BY <1>1, CutOfCut
<1>4. s = SubSeq(u, 1, Len(s)) /\ Len(s) <= Len(u)
  BY <1>1, <1>2, <1>3, LenProperties
<1>5. QED
  BY <1>4, PrefixIsCut

(* A part of a sequence.                                                   *)
LEMMA PartIs ==
  ASSUME NEW S, NEW s \in Seq(S), NEW m \in 1 .. Len(s) + 1, NEW n \in 0 .. Len(s), m <= n + 1
  PROVE  /\ SubSeq(s, m, n) \in Seq(S)
         /\ Len(SubSeq(s, m, n)) = n - m + 1
         /\ \A i \in 1 .. n - m + 1 : SubSeq(s, m, n)[i] = s[m + i - 1]
  BY SubSeqProperties, LenProperties

(* The elements of a sequence.                                             *)
LEMMA ToSetIs ==
  ASSUME NEW S, NEW s \in Seq(S)
  PROVE  /\ \A i \in 1 .. Len(s) : s[i] \in ToSet(s)
         /\ \A e \in ToSet(s) : \E i \in 1 .. Len(s) : s[i] = e
         /\ ToSet(s) \subseteq S
  BY ElementOfSeq, LenProperties DEF ToSet

-----------------------------------------------------------------------------
(* Induction over the natural numbers, for a set: a property is the set of *)
(* numbers that have it, up to the bound of what it is about.              *)

(* A set of natural numbers has a smallest element.                        *)
LEMMA Smallest ==
  ASSUME NEW T \in SUBSET Nat, T # {}
  PROVE  \E n \in T : \A m \in T : n <= m
<1>1. PICK n \in T : \A m \in T : ~ (<<m, n>> \in OpToRel(<, Nat))
  BY NatLessThanWellFounded, WFMin
<1>2. ASSUME NEW m \in T PROVE n <= m
  <2>1. m \in Nat /\ n \in Nat
    OBVIOUS
  <2>2. ASSUME m < n PROVE <<m, n>> \in OpToRel(<, Nat)
    BY <2>1, <2>2 DEF OpToRel
  <2>3. ~ (m < n)
    BY <1>1, <2>2
  <2>4. QED
    BY <2>1, <2>3
<1>3. QED
  BY <1>2

(* A set with 0, and with the successor of each element, has them all.     *)
LEMMA Induct ==
  ASSUME NEW S, 0 \in S, \A n \in Nat : n \in S => n + 1 \in S
  PROVE  \A n \in Nat : n \in S
<1> SUFFICES ASSUME NEW m \in Nat, m \notin S PROVE FALSE
  OBVIOUS
<1> DEFINE T == Nat \ S
<1>1. PICK n \in T : \A k \in T : n <= k
  <2>1. T \in SUBSET Nat /\ T # {}
    OBVIOUS
  <2>2. QED
    BY <2>1, Smallest
<1>2. n \in Nat /\ n # 0 /\ n - 1 \in Nat /\ ~ (n <= n - 1)
  OBVIOUS
<1>3. n - 1 \in S
  BY <1>1, <1>2
<1>4. n - 1 + 1 \in S
  BY <1>2, <1>3
<1>5. QED
  BY <1>2, <1>4
=============================================================================
