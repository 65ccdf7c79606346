------------------------ MODULE MCSnapshotRevocation ------------------------
(* A chain of a root and one delegation, and one checker for all threads.  *)
EXTENDS SnapshotRevocation

CONSTANTS root, leaf, shared

MCChain == <<root, leaf>>
OneChecker == [t \in Thread |-> shared]

SnapshotsOnly == <<"snapshot">>
AllMechanisms == <<"ttl", "log", "snapshot">>

\* Blocks that outlive the run, and a delegation of which the ttl ends.
MCRegistries == {[i \in Id |-> MaxTime], [i \in Id |-> IF i = root THEN MaxTime ELSE 0]}
NoRegistry == {[i \in Id |-> Never]}

(* Some mirror reads whatever the service can sign, before anything else   *)
(* happens: a check may still be given less, never more.                   *)
MirrorsRead == CurrentSnapshot \notin signed => signed' # signed

MCSpec ==
  /\ Init /\ [][Next /\ MirrorsRead]_vars
  /\ WF_vars(SignSnapshot) /\ WF_vars(Tick) /\ \A t \in Thread : WF_vars(Works(t))
=============================================================================
