--------------------------- MODULE AppendOnlyLog ---------------------------
(***************************************************************************)
(* What the hosted witness promises its submitters: one log that is only   *)
(* ever extended, and for each acknowledged receipt a signed tree head     *)
(* that some state of that log justified.  WitnessService implements it.   *)
(*                                                                         *)
(* A Merkle root is collision free, so the root of a log stands for        *)
(* exactly one log: Root is a free constructor, and a receipt's prev_root  *)
(* is the log the submitter believed to be current.                        *)
(***************************************************************************)
EXTENDS Naturals, Sequences, SequencesExt

CONSTANT Receipt    \* records with a field prev_root (and what identifies the action)

VARIABLES
  log,      \* the receipts registered so far, in order
  acked     \* the replies handed out: [receipt, head]

vars == <<log, acked>>

Root(l) == l

(* Every receipt names the root of the log just before it.                 *)
Chained(l) == \A i \in 1 .. Len(l) : l[i].prev_root = Root(SubSeq(l, 1, i - 1))

Init ==
  /\ log = << >>
  /\ acked = {}

(* One or more receipts become part of the log, each chained to the one    *)
(* before it.  A recovery may register several at once.                    *)
Register ==
  /\ log' \in Seq(Receipt)
  /\ IsStrictPrefix(log, log')
  /\ Chained(log')
  /\ UNCHANGED acked

(* A reply names a registered receipt and the head that ends with it.      *)
Acknowledge ==
  \E n \in 1 .. Len(log) :
    /\ acked' = acked \cup {[receipt |-> log[n], head |-> SubSeq(log, 1, n)]}
    /\ UNCHANGED log

Next == Register \/ Acknowledge

Spec == Init /\ [][Next]_vars
=============================================================================
