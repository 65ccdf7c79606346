--------------------------- MODULE WitnessService ---------------------------
(***************************************************************************)
(* services/witness: the hosted transparency log.  `submit` runs under the *)
(* witness mutex: it compares prev_root with the root in memory, writes a  *)
(* length-prefixed frame in two calls, fsyncs, and only then appends to    *)
(* the tree in memory and signs a head.  The file is what a restart        *)
(* replays.  The process may be killed (the page cache survives), the      *)
(* machine may lose power (unsynced bytes may vanish or tear), and each    *)
(* I/O call may fail: Faults says which of these a behaviour may contain.  *)
(*                                                                         *)
(* A log is a sequence of receipts and stands for its own Merkle root.     *)
(***************************************************************************)
EXTENDS Naturals, Sequences, FiniteSets, SequencesExt

CONSTANTS
  Receipt,      \* [.., prev_root]: chain digest, action digest and nonce, and the root chained to
  Faults,       \* which faults may happen
  MaxFrames,    \* bound: frames in the file
  MaxHeads      \* bound: heads that relying parties keep

ASSUME ReceiptAssumption == \A r \in Receipt : r.prev_root \in Seq(Receipt)
ASSUME FaultsAssumption == Faults \subseteq {"process_crash", "power_loss", "io_error"}
ASSUME BoundsAssumption == MaxFrames \in Nat /\ MaxHeads \in Nat

VARIABLES
  up,         \* the process runs and serves requests
  pc,         \* where `submit` is; "idle" when the witness mutex is free
  tree,       \* Witness: the receipts in memory
  file,       \* the frames as a read of the file would find them
  synced,     \* how many leading frames are known to be on the device
  heads,      \* signed tree heads that some relying party fetched and keeps
  acked       \* every 201 reply: [receipt, head]

vars == <<up, pc, tree, file, synced, heads, acked>>

Root(log) == log

(* "cut": fewer bytes than the frame needs.  "garbled": the file has the   *)
(* frame's full length but its body does not parse.                        *)
Frame == [receipt : Receipt, written : {"whole", "cut", "garbled"}]

TypeOK ==
  /\ up \in BOOLEAN
  /\ pc \in {"idle", "body", "sync", "synced"}
  /\ tree \in Seq(Receipt)
  /\ file \in Seq(Frame)
  /\ synced \in 0 .. Len(file)
  /\ heads \subseteq Seq(Receipt)
  /\ acked \subseteq [receipt : Receipt, head : Seq(Receipt)]

(* Every receipt of a log names the root of the log before it.             *)
Chained(log) == \A i \in 1 .. Len(log) : log[i].prev_root = Root(SubSeq(log, 1, i - 1))

Receipts(frames) == [i \in 1 .. Len(frames) |-> frames[i].receipt]

Init ==
  /\ up = TRUE
  /\ pc = "idle"
  /\ tree = << >>
  /\ file = << >>
  /\ synced = 0
  /\ heads = {}
  /\ acked = {}

-----------------------------------------------------------------------------
(* POST /witness/v1/entries.  A receipt whose prev_root is not the current *)
(* root gets 409 and changes nothing; clients may send any receipt, late   *)
(* or twice, so the request itself needs no state.                         *)

\* Variant: no compare-and-swap on prev_root.
AcceptAnyPrevRoot(r) == r \in Receipt

AcceptsPrevRoot(r) == r.prev_root = Root(tree)

\* write_all(len): from here until the body is written the frame is cut.
BeginSubmit(r) ==
  /\ up
  /\ pc = "idle"
  /\ AcceptsPrevRoot(r)
  /\ Len(file) < MaxFrames
  /\ file' = Append(file, [receipt |-> r, written |-> "cut"])
  /\ pc' = "body"
  /\ UNCHANGED <<up, tree, synced, heads, acked>>

WithBody(frames) == [frames EXCEPT ![Len(frames)].written = "whole"]

\* write_all(body): the whole frame is in the page cache.
WriteBody ==
  /\ pc = "body"
  /\ file' = WithBody(file)
  /\ pc' = "sync"
  /\ UNCHANGED <<up, tree, synced, heads, acked>>

\* Variants: flush() instead of sync_all(), so nothing reaches the device; one
\* frame too many taken for synced.
FlushOnly ==
  /\ pc = "sync"
  /\ pc' = "synced"
  /\ UNCHANGED <<up, tree, file, synced, heads, acked>>

SyncPastEnd ==
  /\ pc = "sync"
  /\ synced' = Len(file) + 1
  /\ pc' = "synced"
  /\ UNCHANGED <<up, tree, file, heads, acked>>

\* sync_all(): the bytes and the file's size reach the device.
SyncAll ==
  /\ pc = "sync"
  /\ synced' = Len(file)
  /\ pc' = "synced"
  /\ UNCHANGED <<up, tree, file, heads, acked>>

\* Append in memory, prove inclusion, sign the head, unlock, reply 201.
Reply ==
  LET r == file[Len(file)].receipt IN
  /\ pc = "synced"
  /\ tree' = Append(tree, r)
  /\ acked' = acked \cup {[receipt |-> r, head |-> Root(tree')]}
  /\ pc' = "idle"
  /\ UNCHANGED <<up, file, synced, heads>>

\* Variant: the failed append is "undone" in a tree it never reached.
AppendFailsAndPops ==
  /\ "io_error" \in Faults
  /\ pc \in {"body", "sync"}
  /\ pc' = "idle"
  /\ tree' = SubSeq(tree, 1, Len(tree) - 1)
  /\ UNCHANGED <<up, file, synced, heads, acked>>

\* A write or the fsync fails: `?` leaves Store::append, submit answers 500 and
\* releases the mutex.  Nothing undoes the bytes already written.
AppendFails ==
  /\ "io_error" \in Faults
  /\ pc \in {"body", "sync"}
  /\ pc' = "idle"
  /\ UNCHANGED <<up, tree, file, synced, heads, acked>>

(* GET sth and GET checkpoint sign the current head; someone keeps it.     *)
SignHead ==
  /\ up
  /\ pc = "idle"
  /\ Cardinality(heads) < MaxHeads
  /\ heads' = heads \cup {Root(tree)}
  /\ UNCHANGED <<up, pc, tree, file, synced, acked>>

-----------------------------------------------------------------------------
(* Stop and restart.                                                       *)

\* The process dies; the operating system keeps what was written.
ProcessCrash ==
  /\ "process_crash" \in Faults
  /\ up
  /\ up' = FALSE
  /\ pc' = "idle"
  /\ tree' = << >>
  /\ UNCHANGED <<file, synced, heads, acked>>

Tear(frame) ==
  {[frame EXCEPT !.written = w] : w \in IF frame.written = "whole" THEN {"cut", "garbled"} ELSE {"cut"}}

\* The machine dies: a prefix of the file at least as long as what was synced
\* is left, possibly followed by one torn frame.  What is left is on the device.
PowerLoss ==
  /\ "power_loss" \in Faults
  /\ \E n \in synced .. Len(file) :
       /\ n > 0 => file[n].written = "whole"
       /\ synced' = n
       /\ \/ file' = SubSeq(file, 1, n)
          \/ /\ n < Len(file)
             /\ \E torn \in Tear(file[n + 1]) : file' = Append(SubSeq(file, 1, n), torn)
  /\ up' = FALSE
  /\ pc' = "idle"
  /\ tree' = << >>
  /\ UNCHANGED <<heads, acked>>

\* Variant: the loop over the frames ends one early.
ReplayedButLast(frames, n) == n = IF frames = << >> THEN 0 ELSE Len(frames) - 1

\* The number of frames a replay takes: it stops at the first that is not whole.
Replayed(frames, n) ==
  /\ \A i \in 1 .. n : frames[i].written = "whole"
  /\ n < Len(frames) => frames[n + 1].written # "whole"

\* Variant: the torn tail is skipped, not truncated.
OpenWithoutTruncation ==
  /\ ~up
  /\ \E n \in 0 .. Len(file) :
       /\ Replayed(file, n)
       /\ up' = TRUE
       /\ tree' = Receipts(SubSeq(file, 1, n))
  /\ UNCHANGED <<pc, file, synced, heads, acked>>

\* Store::open.  A torn last frame is truncated, and only the truncation is
\* followed by an fsync.  Behind a cut frame that is not the last, the replay
\* reads a length and a body that straddle frames: it truncates if they run past
\* the end of the file and refuses to start otherwise, so the step may happen or
\* not.  A crash in here leaves the file as it was, or truncated.
Open ==
  /\ ~up
  /\ \E n \in 0 .. Len(file) :
       /\ Replayed(file, n)
       /\ n + 1 < Len(file) => file[n + 1].written = "cut"
       /\ up' = TRUE
       /\ tree' = Receipts(SubSeq(file, 1, n))
       /\ file' = SubSeq(file, 1, n)
       /\ synced' = IF n < Len(file) THEN n ELSE synced
  /\ UNCHANGED <<pc, heads, acked>>

Next ==
  \/ \E r \in Receipt : BeginSubmit(r)
  \/ WriteBody
  \/ SyncAll
  \/ Reply
  \/ AppendFails
  \/ SignHead
  \/ ProcessCrash
  \/ PowerLoss
  \/ Open

(* A handler that holds the mutex awaits nothing, so it runs on to its     *)
(* end; a supervisor restarts the process.  Requests need not arrive.      *)
Fairness == WF_vars(WriteBody) /\ WF_vars(SyncAll) /\ WF_vars(Reply) /\ WF_vars(Open)

Spec == Init /\ [][Next]_vars /\ Fairness
-----------------------------------------------------------------------------
(* Properties.                                                             *)

(* The log every replay of the file as it stands would rebuild contains L. *)
SurvivesRestart(L) ==
  \A n \in 0 .. Len(file) :
    Replayed(file, n) => IsPrefix(L, Receipts(SubSeq(file, 1, n)))

(* "An acked entry is never lost" (submit): at any moment, before, during  *)
(* or after a crash, the log a restart rebuilds extends the head of every  *)
(* 201 reply.                                                              *)
AckedSurvive == \A a \in acked : SurvivesRestart(a.head)

(* "A restart does not lose or fork the log" (services/witness/README.md): *)
(* the same of every head the service ever signed, so no two of them       *)
(* contradict each other.                                                  *)
HeadsSurvive == \A h \in heads : SurvivesRestart(h)

(* While the process runs, the log it serves extends every head that it    *)
(* acknowledged or published, also after appends that failed half-way.     *)
HeadsServed == up => \A h \in heads \cup {a.head : a \in acked} : IsPrefix(h, tree)

(* A failed append damages the order of the file but loses nothing: until  *)
(* a restart truncates it, every acknowledged receipt is whole on the      *)
(* device.                                                                 *)
AckedOnDevice ==
  \A a \in acked : \E i \in 1 .. synced :
    file[i].receipt = a.receipt /\ file[i].written = "whole"

(* Only the last frame can be torn, so Store::open always recovers and     *)
(* never refuses to start with InvalidData.                                *)
OnlyTailTorn == \A i \in 1 .. Len(file) - 1 : file[i].written = "whole"

(* The log served after any number of restarts is a chain: no receipt is   *)
(* in it twice, and none was registered on a root the log never had.       *)
ServedLogChained == Chained(tree)

(* What is on the device, as an append-only log with acknowledgements.     *)
Committed == Receipts(SubSeq(file, 1, synced))

Abstract == INSTANCE AppendOnlyLog WITH log <- Committed

(* Every step of the service extends the log on the device, acknowledges a *)
(* receipt already in it, or does neither.                                 *)
ImplementsAppendOnlyLog == Abstract!Spec

(* The inductive invariant behind these properties, for a device whose I/O *)
(* calls do not fail.                                                      *)
Written == Receipts(file)

Pending == IF pc = "idle" THEN 0 ELSE 1

\* Memory is the file without the frame being written.
TreeMirrorsFile ==
  /\ up => tree = SubSeq(Written, 1, Len(file) - Pending)
  /\ ~up => tree = << >> /\ pc = "idle"
  /\ pc # "idle" => Len(file) > 0

\* While the process runs, only a frame whose body is not written yet is torn;
\* what was synced is whole.
FramesWhole ==
  /\ OnlyTailTorn
  /\ up /\ Len(file) > 0 => (file[Len(file)].written = "whole" <=> pc # "body")
  /\ synced > 0 => file[synced].written = "whole"
  /\ pc = "synced" => synced = Len(file)

AckedSynced ==
  \A a \in acked :
    /\ Len(a.head) \in 1 .. synced
    /\ a.head = SubSeq(Written, 1, Len(a.head))
    /\ a.receipt = a.head[Len(a.head)]

Inv == TypeOK /\ FramesWhole /\ Chained(Written) /\ TreeMirrorsFile /\ AckedSynced

(* For the heads relying parties keep: without process crashes a frame is  *)
(* synced before it is served.                                             *)
ServedSynced ==
  "process_crash" \notin Faults =>
    /\ up => Len(tree) <= synced
    /\ ~up => \/ Len(file) = synced
              \/ Len(file) = synced + 1 /\ file[Len(file)].written # "whole"
    /\ \A h \in heads : Len(h) <= synced

HeadsWritten ==
  \A h \in heads :
    /\ Len(h) <= Len(file)
    /\ h = SubSeq(Written, 1, Len(h))
    /\ Len(h) > 0 => file[Len(h)].written = "whole"

HeadsInv == Inv /\ ServedSynced /\ HeadsWritten

(* The inductive invariant for a service that is never stopped, whatever   *)
(* its I/O calls answer: what a failed append left in the file stays in    *)
(* front of the frames that come after it.                                 *)
FrameInProgress ==
  /\ pc # "idle" => Len(file) > 0
  /\ pc \in {"body", "sync"} => synced < Len(file)
  /\ pc \in {"sync", "synced"} => file[Len(file)].written = "whole"
  /\ pc = "synced" => synced = Len(file)

IoInv == up /\ TypeOK /\ FrameInProgress /\ AckedOnDevice

(* A receipt whose fsync returned is served in the end, also when the      *)
(* process dies before it could reply.                                     *)
SyncedIsServed ==
  \A r \in Receipt :
    (pc = "synced" /\ file[Len(file)].receipt = r)
      ~> (up /\ \E i \in 1 .. Len(tree) : tree[i] = r)
=============================================================================
