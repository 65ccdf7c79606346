------------------------- MODULE SnapshotRevocation -------------------------
(***************************************************************************)
(* core/revocation: the three mechanisms that tell whether a hop of a      *)
(* chain was pulled, and CompositeChecker, which consults them in order.   *)
(*                                                                         *)
(* "snapshot": services/revocation-log publishes the whole revoked set     *)
(* under an epoch, and SnapshotChecker answers from whatever snapshot its  *)
(* source hands it: the service's answer, however delayed, or a mirror's   *)
(* old copy.  "log": TransparencyLogChecker asks a log of revocations      *)
(* through its transport.  "ttl": ShortTtlChecker knows when blocks were   *)
(* issued.                                                                 *)
(*                                                                         *)
(* Several threads verify chains.  A checker's last_seen_epoch is an       *)
(* atomic that is_revoked loads and, some steps later, stores.             *)
(***************************************************************************)
EXTENDS Naturals, Sequences, FiniteSets, FiniteSetsExt

CONSTANTS
  Id,             \* revocation ids of blocks
  Chain,          \* the ids of a chain, root first
  Thread,         \* threads that verify that chain, again and again
  Checker, CheckerOf,    \* the CompositeChecker each thread uses
  Mechanisms,     \* what a CompositeChecker consults, in order
  Registries,     \* what may have been registered with the ShortTtlChecker
  Ttl,            \* ttl_seconds
  MaxStaleness,   \* max_staleness_secs
  Ahead,          \* how far the service's clock is ahead of the checkers'
  Faults,         \* which of the two processes restart
  LastRevocation, \* bound: when revocations stop
  MaxTime         \* bound: when the clock stops

Never == MaxTime + 1
Time == 0 .. MaxTime

ASSUME IdAssumption == IsFiniteSet(Id)
ASSUME ChainAssumption == Chain \in Seq(Id) /\ Chain # << >>
ASSUME CheckerAssumption == CheckerOf \in [Thread -> Checker]
ASSUME MechanismsAssumption ==
  Mechanisms \in Seq({"ttl", "log", "snapshot"}) /\ Mechanisms # << >>
ASSUME RegistriesAssumption == Registries \subseteq [Id -> Time \cup {Never}]
ASSUME FaultsAssumption == Faults \subseteq {"checker_restart", "service_restart"}
ASSUME TimeAssumption == {Ttl, MaxStaleness, Ahead, LastRevocation, MaxTime} \subseteq Nat

VARIABLES
  now,          \* the checkers' clock
  revoked,      \* the service's revoked set
  epoch,        \* and its version
  signed,       \* every snapshot the service ever signed: mirrors may hold any
  published,    \* the entries of the transparency log
  issued_at,    \* per id, when its block was issued, Never if it is not registered
  last_seen,    \* per checker, last_seen_epoch
  pc, hop, at,  \* per thread, where it is in is_revoked, in the chain, in Mechanisms
  undeterminable,  \* per thread, whether some mechanism could not answer for this hop
  snapshot,     \* per thread, what the fetch of its call returned
  answer,       \* per thread, what became of the last hop that it looked up
  revokedAt,    \* history: when the service took an id into the set it has
  restarted,    \* history: whether the service did
  newest, told,   \* history, per checker: the newest epoch, and the ids it called revoked
  before          \* history, per thread: what held when its call, or its chain, began

service == <<revoked, epoch, revokedAt, restarted>>
public == <<signed, published, issued_at>>
thread == <<pc, hop, at, undeterminable, snapshot, answer, before>>
checker == <<last_seen, newest, told>>
vars == <<now, public, service, thread, checker>>

Epoch == 0 .. Cardinality(Id)
Snapshot == [epoch : Epoch, published_at : Ahead .. MaxTime + Ahead, revoked : SUBSET Id]

NoSnapshot == [epoch |-> 0, published_at |-> 0, revoked |-> {}]

TypeOK ==
  /\ now \in Time
  /\ revoked \subseteq Id /\ published \subseteq Id
  /\ epoch \in Epoch
  /\ signed \subseteq Snapshot
  /\ issued_at \in Registries
  /\ last_seen \in [Checker -> Epoch]
  /\ pc \in [Thread -> {"ask", "load", "store"}]
  /\ hop \in [Thread -> 1 .. Len(Chain)]
  /\ at \in [Thread -> 1 .. Len(Mechanisms)]
  /\ undeterminable \in [Thread -> BOOLEAN]
  /\ snapshot \in [Thread -> Snapshot \cup {NoSnapshot}]
  /\ answer \in [Thread -> {"live", "accepted", "refused"}]
  /\ revokedAt \in [Id -> Time \cup {Never}] /\ restarted \in BOOLEAN
  /\ newest \in [Checker -> Epoch]
  /\ told \in [Checker -> SUBSET Id]
  /\ before \in [Thread -> [newest : Epoch, told : SUBSET Id, published : SUBSET Id,
                            started : Time]]

CurrentSnapshot == [epoch |-> epoch, published_at |-> now + Ahead, revoked |-> revoked]

AtFirst == [newest |-> 0, told |-> {}, published |-> {}, started |-> 0]

Init ==
  /\ now = 0
  /\ revoked = {} /\ published = {}
  /\ epoch = 0
  /\ signed = {CurrentSnapshot}
  /\ issued_at \in Registries
  /\ last_seen = [c \in Checker |-> 0]
  /\ pc = [t \in Thread |-> "ask"]
  /\ hop = [t \in Thread |-> 1]
  /\ at = [t \in Thread |-> 1]
  /\ undeterminable = [t \in Thread |-> FALSE]
  /\ snapshot = [t \in Thread |-> NoSnapshot]
  /\ answer = [t \in Thread |-> "refused"]
  /\ revokedAt = [i \in Id |-> Never] /\ restarted = FALSE
  /\ newest = [c \in Checker |-> 0]
  /\ told = [c \in Checker |-> {}]
  /\ before = [t \in Thread |-> AtFirst]

Tick ==
  /\ now < MaxTime
  /\ now' = now + 1
  /\ UNCHANGED <<public, service, thread, checker>>

-----------------------------------------------------------------------------
(* services/revocation-log, and the transparency log.                      *)

\* Variant: the set changes and the epoch does not.
RevokeSameEpoch(i) ==
  /\ now <= LastRevocation
  /\ revoked' = revoked \cup {i}
  /\ revokedAt' = [revokedAt EXCEPT ![i] = IF i \in revoked THEN @ ELSE now]
  /\ UNCHANGED <<now, epoch, restarted, public, thread, checker>>

\* POST revoke: only an id that is new to the set raises the epoch.
Revoke(i) ==
  /\ now <= LastRevocation
  /\ revoked' = revoked \cup {i}
  /\ epoch' = IF i \in revoked THEN epoch ELSE epoch + 1
  /\ revokedAt' = [revokedAt EXCEPT ![i] = IF i \in revoked THEN @ ELSE now]
  /\ UNCHANGED <<now, restarted, public, thread, checker>>

\* GET snapshot, and the reply to POST revoke: signed on every read.
SignSnapshot ==
  /\ signed' = signed \cup {CurrentSnapshot}
  /\ UNCHANGED <<now, published, issued_at, service, thread, checker>>

(* The set is in memory: the next process starts with none, at epoch 0,    *)
(* under the same key.                                                     *)
ServiceRestart ==
  /\ "service_restart" \in Faults /\ ~restarted
  /\ revoked' = {}
  /\ epoch' = 0
  /\ revokedAt' = [i \in Id |-> Never]
  /\ restarted' = TRUE
  /\ UNCHANGED <<now, public, thread, checker>>

\* TransparencyLogChecker::append, or its remote counterpart.  There is no removal.
Publish(i) ==
  /\ now <= LastRevocation
  /\ published' = published \cup {i}
  /\ UNCHANGED <<now, signed, issued_at, service, thread, checker>>

-----------------------------------------------------------------------------
(* CompositeChecker::is_revoked and check_chain_revocation.                *)

Denials == {"revoked", "stale"}

\* Variant: one hop too far.
HopAfter(t, status) ==
  IF status = "live" /\ hop[t] <= Len(Chain) THEN hop[t] + 1 ELSE 1

\* An answer other than "live" ends the check of the chain, and so does the last
\* hop; the thread then turns to the next request.
NextHop(t, status) ==
  IF status = "live" /\ hop[t] < Len(Chain) THEN hop[t] + 1 ELSE 1

Answered(t, status) ==
  /\ answer' = [answer EXCEPT ![t] =
                  IF status # "live" THEN "refused"
                  ELSE IF hop[t] = Len(Chain) THEN "accepted" ELSE "live"]
  /\ hop' = [hop EXCEPT ![t] = NextHop(t, status)]
  /\ at' = [at EXCEPT ![t] = 1]
  /\ undeterminable' = [undeterminable EXCEPT ![t] = FALSE]

\* Variant: the last mechanism has the last word.
LastWord(t, status) == at[t] = Len(Mechanisms)

\* A denial needs no second opinion.
Decides(t, status) == status \in Denials \/ at[t] = Len(Mechanisms)

(* What one mechanism said about the hop: a denial is the answer at once;  *)
(* "unreachable" is the answer only if the other mechanisms deny nothing.  *)
Said(t, status) ==
  LET doubt == undeterminable[t] \/ status = "unreachable"
  IN
  /\ pc' = [pc EXCEPT ![t] = "ask"]
  /\ snapshot' = [snapshot EXCEPT ![t] = NoSnapshot]
  /\ \/ /\ Decides(t, status)
        /\ Answered(t, IF status \notin Denials /\ doubt THEN "unreachable" ELSE status)
     \/ /\ ~Decides(t, status)
        /\ at' = [at EXCEPT ![t] = @ + 1]
        /\ undeterminable' = [undeterminable EXCEPT ![t] = doubt]
        /\ UNCHANGED <<hop, answer>>

\* The thread asks the mechanism that is next.
Asks(t, mechanism) ==
  LET first == hop[t] = 1 /\ at[t] = 1
      c == CheckerOf[t]
  IN
  /\ pc[t] = "ask" /\ Mechanisms[at[t]] = mechanism
  /\ before' = [before EXCEPT ![t] =
       IF first
       THEN [newest |-> newest[c], told |-> told[c], published |-> published, started |-> now]
       ELSE [@ EXCEPT !.newest = newest[c]]]

-----------------------------------------------------------------------------
(* ShortTtlChecker and TransparencyLogChecker.                             *)

\* saturating_sub: what is from the future has age 0.
Age(since) == IF now >= since THEN now - since ELSE 0

\* Nobody vouches for a block that is not registered.
Outlived(i) == issued_at[i] = Never \/ Age(issued_at[i]) > Ttl

AskTtl(t) ==
  /\ Asks(t, "ttl")
  /\ Said(t, IF Outlived(Chain[hop[t]]) THEN "stale" ELSE "live")
  /\ UNCHANGED <<now, public, service, checker>>

\* Every lookup fetches all entries.
AskLog(t) ==
  LET i == Chain[hop[t]] IN
  /\ Asks(t, "log")
  /\ \/ /\ Said(t, IF i \in published THEN "revoked" ELSE "live")
        /\ told' = [told EXCEPT ![CheckerOf[t]] = IF i \in published THEN @ \cup {i} ELSE @]
     \/ Said(t, "unreachable") /\ UNCHANGED told
  /\ UNCHANGED <<now, public, service, last_seen, newest>>

-----------------------------------------------------------------------------
(* SnapshotChecker.                                                        *)

Fetch(t) ==
  /\ Asks(t, "snapshot")
  /\ \E s \in signed : snapshot' = [snapshot EXCEPT ![t] = s]
  /\ pc' = [pc EXCEPT ![t] = "load"]
  /\ UNCHANGED <<now, public, service, hop, at, undeterminable, answer, checker>>

\* No answer in time, or one that is not a snapshot under the operator's key.
FetchFails(t) ==
  /\ Asks(t, "snapshot")
  /\ Said(t, "unreachable")
  /\ UNCHANGED <<now, public, service, checker>>

\* Variant: no look at the epoch.
AnyEpoch(t) == t \in Thread

NotRolledBack(t) == snapshot[t].epoch >= last_seen[CheckerOf[t]]

Load(t) ==
  /\ pc[t] = "load"
  /\ \/ /\ NotRolledBack(t)
        /\ pc' = [pc EXCEPT ![t] = "store"]
        /\ UNCHANGED <<hop, at, undeterminable, snapshot, answer>>
     \/ /\ ~NotRolledBack(t)
        /\ Said(t, "unreachable")
  /\ UNCHANGED <<now, public, service, before, checker>>

\* Variant: one second too old.
FreshEnough(s) == Age(s.published_at) <= MaxStaleness + 1

\* Variant: no look at the age.
AnyAge(s) == s \in Snapshot

Fresh(s) == Age(s.published_at) <= MaxStaleness

\* The age, the store and the lookup.
Store(t) ==
  LET s == snapshot[t]
      c == CheckerOf[t]
      i == Chain[hop[t]]
  IN
  /\ pc[t] = "store"
  /\ \/ /\ ~Fresh(s)
        /\ Said(t, "unreachable")
        /\ UNCHANGED checker
     \/ /\ Fresh(s)
        /\ last_seen' = [last_seen EXCEPT ![c] = s.epoch]
        /\ newest' = [newest EXCEPT ![c] = Max({@, s.epoch})]
        /\ told' = [told EXCEPT ![c] = IF i \in s.revoked THEN @ \cup {i} ELSE @]
        /\ Said(t, IF i \in s.revoked THEN "revoked" ELSE "live")
  /\ UNCHANGED <<now, public, service, before>>

\* The verifier's process starts anew: nothing of a checker, and no call, survives.
CheckerRestart(c) ==
  LET Restarted(f, initial) == [t \in Thread |-> IF CheckerOf[t] = c THEN initial ELSE f[t]]
  IN
  /\ "checker_restart" \in Faults
  /\ last_seen' = [last_seen EXCEPT ![c] = 0]
  /\ newest' = [newest EXCEPT ![c] = 0]
  /\ told' = [told EXCEPT ![c] = {}]
  /\ pc' = Restarted(pc, "ask")
  /\ hop' = Restarted(hop, 1)
  /\ at' = Restarted(at, 1)
  /\ undeterminable' = Restarted(undeterminable, FALSE)
  /\ snapshot' = Restarted(snapshot, NoSnapshot)
  /\ answer' = Restarted(answer, "refused")
  /\ before' = Restarted(before, AtFirst)
  /\ UNCHANGED <<now, public, service>>

Works(t) == AskTtl(t) \/ AskLog(t) \/ Fetch(t) \/ FetchFails(t) \/ Load(t) \/ Store(t)

Next ==
  \/ Tick
  \/ \E i \in Id : Revoke(i) \/ Publish(i)
  \/ SignSnapshot
  \/ ServiceRestart
  \/ \E t \in Thread : Works(t)
  \/ \E c \in Checker : CheckerRestart(c)

(* Time passes, and the chain is presented again and again: each check     *)
(* ends, because a fetch ends with an answer or after its timeout.         *)
Spec == Init /\ [][Next]_vars /\ WF_vars(Tick) /\ \A t \in Thread : WF_vars(Works(t))

-----------------------------------------------------------------------------
(* Properties.                                                             *)

Consults(mechanism) == \E m \in DOMAIN Mechanisms : Mechanisms[m] = mechanism

Accepted(t) == answer[t] = "accepted" /\ pc[t] = "ask" /\ at[t] = 1

(* "A client rejects any snapshot older than the newest it has seen"       *)
(* (SignedRevocationSnapshot): no call goes on to answer from a snapshot   *)
(* older than one that the same checker trusted before the call began.     *)
RejectsRolledBack ==
  \A t \in Thread : pc[t] = "store" /\ Fresh(snapshot[t]) =>
    snapshot[t].epoch >= before[t].newest

(* A chain is not accepted from stale data: none of its hops was revoked   *)
(* longer than max_staleness, and the clocks' skew, before its check       *)
(* began, although the hops are looked up at different times, in different *)
(* snapshots, and a verifier that restarts forgets what it has seen.       *)
AcceptedWasRecentlyLive ==
  \A t \in Thread : Accepted(t) /\ Consults("snapshot") =>
    \A h \in DOMAIN Chain : before[t].started <= revokedAt[Chain[h]] + MaxStaleness + Ahead

(* Once a checker has called an id revoked, it accepts no chain with it    *)
(* whose check begins later: old snapshots do not un-revoke, unless the    *)
(* service restarted, so that it counts the same epochs again.             *)
RevokedSticks ==
  \A t \in Thread : Accepted(t) /\ ~restarted =>
    \A h \in DOMAIN Chain : Chain[h] \notin before[t].told

(* "One checker being unable to answer ... cannot mask another checker's   *)
(* definite revocation" (CompositeChecker): a chain is not accepted if,    *)
(* when its check began, a hop of it was in the transparency log, or had   *)
(* outlived its ttl, whatever the other mechanisms say.                    *)
NothingMasks ==
  \A t \in Thread : Accepted(t) =>
    \A h \in DOMAIN Chain :
      /\ Consults("log") => Chain[h] \notin before[t].published
      /\ Consults("ttl") => /\ issued_at[Chain[h]] # Never
                            /\ before[t].started <= issued_at[Chain[h]] + Ttl

(* What is revoked for good is refused for good, in the end, although any  *)
(* old snapshot may be served forever and the processes restart.           *)
Revocations ==
  (IF Consults("snapshot") THEN revoked ELSE {}) \cup (IF Consults("log") THEN published ELSE {})

RevocationTakesEffect ==
  (\E h \in DOMAIN Chain : <>[](Chain[h] \in Revocations))
    => <>[](\A t \in Thread : ~ Accepted(t))
=============================================================================
