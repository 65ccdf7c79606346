---------------------- MODULE SnapshotRevocationProofs ----------------------
(***************************************************************************)
(* Proofs about SnapshotRevocation, for any chain, any number of threads   *)
(* and checkers, and any mechanisms in any order.                          *)
(***************************************************************************)
EXTENDS SnapshotRevocation, FiniteSetTheorems, TLAPS

LEMMA MaxOfTwo ==
  ASSUME NEW a \in Nat, NEW b \in Nat
  PROVE  Max({a, b}) = IF a >= b THEN a ELSE b
<1> DEFINE m == IF a >= b THEN a ELSE b
<1>1. m \in {a, b} /\ \A y \in {a, b} : m >= y
  OBVIOUS
<1>2. \A x \in {a, b} : (\A y \in {a, b} : x >= y) => x = m
  OBVIOUS
<1>3. Max({a, b}) = CHOOSE x \in {a, b} : \A y \in {a, b} : x >= y
  BY DEF Max
<1>4. QED
  BY <1>1, <1>2, <1>3

Status == {"live", "revoked", "stale", "unreachable"}

LEMMA Numbers ==
  /\ Ttl \in Nat /\ MaxStaleness \in Nat /\ Ahead \in Nat
  /\ LastRevocation \in Nat /\ MaxTime \in Nat
  /\ Len(Chain) \in Nat \ {0} /\ Len(Mechanisms) \in Nat \ {0}
  /\ \A h \in 1 .. Len(Chain) : Chain[h] \in Id
  /\ Cardinality(Id) \in Nat
<1>1. Len(Chain) \in Nat \ {0} /\ \A h \in 1 .. Len(Chain) : Chain[h] \in Id
  BY ChainAssumption
<1>2. Len(Mechanisms) \in Nat \ {0}
  BY MechanismsAssumption
<1>3. Cardinality(Id) \in Nat
  BY IdAssumption, FS_CardinalityType
<1>4. QED
  BY <1>1, <1>2, <1>3, TimeAssumption

-----------------------------------------------------------------------------
(* Types.                                                                  *)

(* What `Said` leaves of a thread.                                         *)
ThreadOK ==
  /\ pc \in [Thread -> {"ask", "load", "store"}]
  /\ hop \in [Thread -> 1 .. Len(Chain)]
  /\ at \in [Thread -> 1 .. Len(Mechanisms)]
  /\ undeterminable \in [Thread -> BOOLEAN]
  /\ snapshot \in [Thread -> Snapshot \cup {NoSnapshot}]
  /\ answer \in [Thread -> {"live", "accepted", "refused"}]

BeforeOK ==
  before \in [Thread -> [newest : Epoch, told : SUBSET Id, published : SUBSET Id, started : Time]]

CheckersOK ==
  /\ last_seen \in [Checker -> Epoch]
  /\ newest \in [Checker -> Epoch]
  /\ told \in [Checker -> SUBSET Id]

ServiceOK ==
  /\ revoked \subseteq Id
  /\ epoch \in Epoch
  /\ epoch = Cardinality(revoked)
  /\ revokedAt \in [Id -> Time \cup {Never}] /\ restarted \in BOOLEAN

PublicOK ==
  /\ published \subseteq Id
  /\ signed \subseteq Snapshot
  /\ issued_at \in Registries

Types == now \in Time /\ ThreadOK /\ BeforeOK /\ CheckersOK /\ ServiceOK /\ PublicOK

LEMMA TypesSuffice == Types => TypeOK
  BY DEF Types, ThreadOK, BeforeOK, CheckersOK, ServiceOK, PublicOK, TypeOK

LEMMA SaidOK ==
  ASSUME ThreadOK, NEW t \in Thread, NEW status \in Status, Said(t, status)
  PROVE  ThreadOK'
<1>1. /\ pc' \in [Thread -> {"ask", "load", "store"}]
      /\ snapshot' \in [Thread -> Snapshot \cup {NoSnapshot}]
  BY DEF ThreadOK, Said
<1>2. /\ hop[t] \in 1 .. Len(Chain) /\ at[t] \in 1 .. Len(Mechanisms)
      /\ Len(Chain) \in Nat \ {0} /\ Len(Mechanisms) \in Nat \ {0}
  BY Numbers DEF ThreadOK
<1>3. ASSUME NEW s \in Status, Answered(t, s) PROVE ThreadOK'
  <2>1. NextHop(t, s) \in 1 .. Len(Chain) /\ 1 \in 1 .. Len(Mechanisms)
    BY <1>2 DEF NextHop
  <2>2. hop' \in [Thread -> 1 .. Len(Chain)] /\ at' \in [Thread -> 1 .. Len(Mechanisms)]
    BY <1>3, <2>1 DEF Answered, ThreadOK
  <2>3. /\ undeterminable' \in [Thread -> BOOLEAN]
        /\ answer' \in [Thread -> {"live", "accepted", "refused"}]
    BY <1>3 DEF Answered, ThreadOK
  <2>4. QED
    BY <1>1, <2>2, <2>3 DEF ThreadOK
<1>4. CASE Decides(t, status)
  <2>1. PICK s \in Status : Answered(t, s)
    BY <1>4 DEF Said, Status
  <2>2. QED
    BY <1>3, <2>1
<1>5. CASE ~Decides(t, status)
  <2>1. /\ at' = [at EXCEPT ![t] = @ + 1]
        /\ undeterminable' = [undeterminable EXCEPT ![t] = undeterminable[t] \/ status = "unreachable"]
        /\ UNCHANGED <<hop, answer>>
    BY <1>5 DEF Said
  <2>2. at[t] + 1 \in 1 .. Len(Mechanisms)
    BY <1>2, <1>5 DEF Decides
  <2>3. at' \in [Thread -> 1 .. Len(Mechanisms)]
    BY <2>1, <2>2 DEF ThreadOK
  <2>4. undeterminable' \in [Thread -> BOOLEAN]
    BY <2>1 DEF ThreadOK
  <2>5. QED
    BY <1>1, <2>1, <2>3, <2>4 DEF ThreadOK
<1>6. QED
  BY <1>4, <1>5

LEMMA AsksOK ==
  ASSUME now \in Time, BeforeOK, CheckersOK, PublicOK, NEW t \in Thread, NEW m, Asks(t, m)
  PROVE  BeforeOK'
<1>1. CheckerOf[t] \in Checker
  BY CheckerAssumption
<1> DEFINE fresh == [newest |-> newest[CheckerOf[t]], told |-> told[CheckerOf[t]],
                     published |-> published, started |-> now]
           later == [before[t] EXCEPT !.newest = newest[CheckerOf[t]]]
           B == [newest : Epoch, told : SUBSET Id, published : SUBSET Id, started : Time]
<1>2. fresh \in B
  BY <1>1 DEF CheckersOK, PublicOK
<1>3. later \in B
  BY <1>1 DEF CheckersOK, BeforeOK
<1>4. \/ before' = [before EXCEPT ![t] = fresh]
      \/ before' = [before EXCEPT ![t] = later]
  BY DEF Asks, BeforeOK
<1> HIDE DEF fresh, later
<1>5. QED
  BY <1>2, <1>3, <1>4 DEF BeforeOK

LEMMA TypesInit == Init => Types
<1> SUFFICES ASSUME Init PROVE Types
  OBVIOUS
<1>1. Cardinality({}) = 0
  BY FS_EmptySet
<1>2. /\ 1 \in 1 .. Len(Chain) /\ 1 \in 1 .. Len(Mechanisms)
      /\ 0 \in Time /\ 0 \in Epoch /\ Never \in Time \cup {Never}
  BY Numbers DEF Time, Epoch
<1>3. CurrentSnapshot \in Snapshot
  BY Numbers, <1>2 DEF Init, CurrentSnapshot, Snapshot, Epoch
<1>4. ThreadOK
  BY <1>2 DEF Init, ThreadOK
<1>5. BeforeOK
  BY <1>2 DEF Init, BeforeOK, AtFirst
<1>6. CheckersOK /\ PublicOK
  BY <1>2, <1>3 DEF Init, CheckersOK, PublicOK
<1>7. ServiceOK
  BY <1>1, <1>2 DEF Init, ServiceOK
<1>8. now \in Time
  BY <1>2 DEF Init
<1>9. QED
  BY <1>4, <1>5, <1>6, <1>7, <1>8 DEF Types

(* What stays the same keeps its type.                                     *)
LEMMA SameTypes ==
  /\ ThreadOK /\ UNCHANGED <<pc, hop, at, undeterminable, snapshot, answer>> => ThreadOK'
  /\ BeforeOK /\ UNCHANGED before => BeforeOK'
  /\ CheckersOK /\ UNCHANGED checker => CheckersOK'
  /\ ServiceOK /\ UNCHANGED service => ServiceOK'
  /\ PublicOK /\ UNCHANGED public => PublicOK'
<1>1. ThreadOK /\ UNCHANGED <<pc, hop, at, undeterminable, snapshot, answer>> => ThreadOK'
  BY DEF ThreadOK
<1>2. BeforeOK /\ UNCHANGED before => BeforeOK'
  BY DEF BeforeOK
<1>3. CheckersOK /\ UNCHANGED checker => CheckersOK'
  BY DEF CheckersOK, checker
<1>4. ServiceOK /\ UNCHANGED service => ServiceOK'
  BY DEF ServiceOK, service
<1>5. PublicOK /\ UNCHANGED public => PublicOK'
  BY DEF PublicOK, public
<1>6. QED
  BY <1>1, <1>2, <1>3, <1>4, <1>5

(* An id that is new to the set is counted, once.                          *)
LEMMA RevokeTypes ==
  ASSUME Types, NEW i \in Id, Revoke(i)
  PROVE  Types'
<1>0. UNCHANGED <<now, public, thread, checker>> /\ restarted' = restarted
  BY DEF Revoke
<1>1. /\ revoked' = revoked \cup {i}
      /\ epoch' = IF i \in revoked THEN epoch ELSE epoch + 1
  BY DEF Revoke
<1>2. IsFiniteSet(revoked) /\ IsFiniteSet(revoked')
  BY <1>1, IdAssumption, FS_Subset DEF Types, ServiceOK
<1>3. epoch' = Cardinality(revoked')
  <2>1. CASE i \in revoked
    <3>1. revoked' = revoked
      BY <1>1, <2>1
    <3>2. QED
      BY <1>1, <2>1, <3>1 DEF Types, ServiceOK
  <2>2. CASE i \notin revoked
    <3>1. Cardinality(revoked') = Cardinality(revoked) + 1
      BY <1>1, <1>2, <2>2, FS_AddElement
    <3>2. epoch' = epoch + 1 /\ epoch = Cardinality(revoked)
      BY <1>1, <2>2 DEF Types, ServiceOK
    <3>3. QED
      BY <3>1, <3>2
  <2>3. QED
    BY <2>1, <2>2
<1>4. epoch' \in Epoch
  <2>1. revoked' \subseteq Id
    BY <1>1 DEF Types, ServiceOK
  <2>2. Cardinality(revoked') \in Nat
    BY <1>2, FS_CardinalityType
  <2>3. Cardinality(revoked') <= Cardinality(Id)
    BY <2>1, IdAssumption, FS_Subset
  <2>4. QED
    BY <1>3, <2>2, <2>3, Numbers DEF Epoch
<1>5. revokedAt' \in [Id -> Time \cup {Never}]
  <2>1. \E time \in Time \cup {Never} : revokedAt' = [revokedAt EXCEPT ![i] = time]
    BY DEF Revoke, Types, ServiceOK
  <2>2. QED
    BY <2>1 DEF Types, ServiceOK
<1>6. ServiceOK'
  BY <1>0, <1>1, <1>3, <1>4, <1>5 DEF Types, ServiceOK
<1>7. QED
  BY <1>0, <1>6, SameTypes DEF Types, thread

LEMMA TypesNext == Types /\ [Next]_vars => Types'
<1> SUFFICES ASSUME Types, [Next]_vars PROVE Types'
  OBVIOUS
<1>1. CASE UNCHANGED vars
  BY <1>1, SameTypes DEF vars, thread, Types
<1>2. CASE Tick
  <2>1. now' \in Time
    BY <1>2, Numbers DEF Tick, Types, Time
  <2>2. QED
    BY <1>2, <2>1, SameTypes DEF Tick, thread, Types
<1>3. ASSUME NEW i \in Id, Publish(i) PROVE Types'
  <2>1. published' = published \cup {i} /\ UNCHANGED <<now, signed, issued_at, service, thread, checker>>
    BY <1>3 DEF Publish
  <2>2. PublicOK'
    BY <2>1 DEF Types, PublicOK
  <2>3. QED
    BY <2>1, <2>2, SameTypes DEF Types, thread
<1>4. CASE SignSnapshot
  <2>1. CurrentSnapshot \in Snapshot
    BY Numbers DEF CurrentSnapshot, Snapshot, Types, ServiceOK, Time
  <2>2. PublicOK'
    BY <1>4, <2>1 DEF SignSnapshot, Types, PublicOK
  <2>3. QED
    BY <1>4, <2>2, SameTypes DEF SignSnapshot, Types, thread
<1>5. CASE ServiceRestart
  <2>1. Cardinality({}) = 0 /\ 0 \in Epoch
    BY FS_EmptySet, Numbers DEF Epoch
  <2>2. ServiceOK'
    BY <1>5, <2>1 DEF ServiceRestart, ServiceOK
  <2>3. QED
    BY <1>5, <2>2, SameTypes DEF ServiceRestart, Types, thread
<1>6. ASSUME NEW t \in Thread, Works(t) PROVE Types'
  <2> USE DEF Types
  <2>0. CheckerOf[t] \in Checker /\ hop[t] \in DOMAIN Chain /\ Chain[hop[t]] \in Id
    BY CheckerAssumption, Numbers DEF ThreadOK
  <2>1. CASE AskTtl(t)
    <3>1. PICK s \in Status : Said(t, s)
      BY <2>1 DEF AskTtl, Status
    <3>2. Asks(t, "ttl") /\ UNCHANGED <<now, public, service, checker>>
      BY <2>1 DEF AskTtl
    <3>3. QED
      BY <3>1, <3>2, SaidOK, AsksOK, SameTypes
  <2>2. CASE AskLog(t)
    <3>1. PICK s \in Status : Said(t, s)
      BY <2>2 DEF AskLog, Status
    <3>2. Asks(t, "log") /\ UNCHANGED <<now, public, service, last_seen, newest>>
      BY <2>2 DEF AskLog
    <3>3. \/ UNCHANGED told
          \/ \E seen \in {told[CheckerOf[t]], told[CheckerOf[t]] \cup {Chain[hop[t]]}} :
               told' = [told EXCEPT ![CheckerOf[t]] = seen]
      BY <2>2 DEF AskLog
    <3>4. CheckersOK'
      BY <2>0, <3>2, <3>3 DEF CheckersOK
    <3>5. QED
      BY <3>1, <3>2, <3>4, SaidOK, AsksOK, SameTypes
  <2>3. CASE Fetch(t)
    <3>1. Asks(t, "snapshot") /\ UNCHANGED <<now, public, service, hop, at, undeterminable, answer, checker>>
      BY <2>3 DEF Fetch
    <3>2. PICK s \in signed : snapshot' = [snapshot EXCEPT ![t] = s]
      BY <2>3 DEF Fetch
    <3>3. pc' = [pc EXCEPT ![t] = "load"]
      BY <2>3 DEF Fetch
    <3>4. ThreadOK'
      BY <3>1, <3>2, <3>3 DEF ThreadOK, PublicOK
    <3>5. QED
      BY <3>1, <3>4, AsksOK, SameTypes
  <2>4. CASE FetchFails(t)
    <3>1. "unreachable" \in Status /\ Said(t, "unreachable")
      BY <2>4 DEF FetchFails, Status
    <3>2. Asks(t, "snapshot") /\ UNCHANGED <<now, public, service, checker>>
      BY <2>4 DEF FetchFails
    <3>3. QED
      BY <3>1, <3>2, SaidOK, AsksOK, SameTypes
  <2>5. CASE Load(t)
    <3>1. UNCHANGED <<now, public, service, before, checker>>
      BY <2>5 DEF Load
    <3>2. CASE NotRolledBack(t)
      <4>1. pc' = [pc EXCEPT ![t] = "store"] /\ UNCHANGED <<hop, at, undeterminable, snapshot, answer>>
        BY <2>5, <3>2 DEF Load
      <4>2. ThreadOK'
        BY <4>1 DEF ThreadOK
      <4>3. QED
        BY <3>1, <4>2, SameTypes
    <3>3. CASE ~NotRolledBack(t)
      <4>1. "unreachable" \in Status /\ Said(t, "unreachable")
        BY <2>5, <3>3 DEF Load, Status
      <4>2. QED
        BY <3>1, <4>1, SaidOK, SameTypes
    <3>4. QED
      BY <3>2, <3>3
  <2>6. CASE Store(t)
    <3>1. UNCHANGED <<now, public, service, before>>
      BY <2>6 DEF Store
    <3>2. PICK s \in Status : Said(t, s)
      BY <2>6 DEF Store, Status
    <3>3. CheckersOK'
      <4> DEFINE s0 == snapshot[t]
                 c == CheckerOf[t]
      <4>1. s0.epoch \in Epoch
        BY Numbers DEF ThreadOK, Snapshot, NoSnapshot, Epoch
      <4>2. \/ UNCHANGED checker
            \/ /\ last_seen' = [last_seen EXCEPT ![c] = s0.epoch]
               /\ newest' = [newest EXCEPT ![c] = Max({newest[c], s0.epoch})]
               /\ \E seen \in {told[c], told[c] \cup {Chain[hop[t]]}} : told' = [told EXCEPT ![c] = seen]
        BY <2>0, <2>6 DEF Store, CheckersOK
      <4>3. newest[c] \in Epoch /\ newest[c] \in Nat /\ s0.epoch \in Nat
        BY <2>0, <4>1, Numbers DEF CheckersOK, Epoch
      <4>4. Max({newest[c], s0.epoch}) \in Epoch
        BY <4>1, <4>3, MaxOfTwo
      <4> HIDE DEF s0, c
      <4>5. c \in Checker
        BY <2>0 DEF c
      <4>6. CASE UNCHANGED checker
        BY <4>6, SameTypes
      <4>7. CASE ~UNCHANGED checker
        <5>1. last_seen' \in [Checker -> Epoch] /\ newest' \in [Checker -> Epoch]
          BY <4>1, <4>2, <4>4, <4>5, <4>7 DEF CheckersOK
        <5>2. told' \in [Checker -> SUBSET Id]
          BY <2>0, <4>2, <4>5, <4>7 DEF CheckersOK
        <5>3. QED
          BY <5>1, <5>2 DEF CheckersOK
      <4>8. QED
        BY <4>6, <4>7
    <3>4. QED
      BY <3>1, <3>2, <3>3, SaidOK, SameTypes
  <2>7. QED
    BY <1>6, <2>1, <2>2, <2>3, <2>4, <2>5, <2>6 DEF Works
<1>7. ASSUME NEW c \in Checker, CheckerRestart(c) PROVE Types'
  <2>1. 1 \in 1 .. Len(Chain) /\ 1 \in 1 .. Len(Mechanisms) /\ 0 \in Epoch /\ 0 \in Time
    BY Numbers DEF Epoch, Time
  <2>2. ThreadOK'
    BY <1>7, <2>1 DEF CheckerRestart, Types, ThreadOK
  <2>3. BeforeOK'
    BY <1>7, <2>1 DEF CheckerRestart, Types, BeforeOK, AtFirst
  <2>4. CheckersOK'
    BY <1>7, <2>1 DEF CheckerRestart, Types, CheckersOK
  <2>5. QED
    BY <1>7, <2>2, <2>3, <2>4, SameTypes DEF CheckerRestart, Types
<1>8. QED
  BY <1>1, <1>2, <1>3, <1>4, <1>5, <1>6, <1>7, RevokeTypes DEF Next

(* Epochs are the sizes of revoked sets, which are sets of ids.            *)
THEOREM SnapshotTypeCorrect == Spec => []TypeOK
<1>1. QED
  BY TypesInit, TypesNext, TypesSuffice, PTL DEF Spec

-----------------------------------------------------------------------------
(* What a check of a chain has established so far.                         *)

\* No two threads share a checker.  (The run SnapshotRace shows what happens to
\* one that is shared.)
Unshared == \A t, u \in Thread : CheckerOf[t] = CheckerOf[u] => t = u

\* What a checker said of an id sticks while the service runs on.
Sticks == Unshared /\ restarted = FALSE

\* A mechanism does not deny an id, issued and revoked when it was, to a check
\* that began as b says.
Passes(b, i, mechanism, issued, since, sticks) ==
  /\ mechanism = "log" => i \notin b.published
  /\ mechanism = "ttl" => issued # Never /\ b.started <= issued + Ttl
  /\ mechanism = "snapshot" =>
       /\ b.started <= since + MaxStaleness + Ahead
       /\ sticks /\ i \in b.told => Consults("log") /\ i \in b.published

\* The first n mechanisms do not deny i.
Cleared(b, i, n) ==
  \A m \in 1 .. n : Passes(b, i, Mechanisms[m], issued_at[i], revokedAt[i], Sticks)

\* Every mechanism let every hop before this one pass, and those that were asked
\* about this one let it pass, unless one of them could not answer.
Progress(t) ==
  /\ \A h \in 1 .. Len(Chain) :
       h < hop[t] \/ Accepted(t) => Cleared(before[t], Chain[h], Len(Mechanisms))
  /\ undeterminable[t] = FALSE => Cleared(before[t], Chain[hop[t]], at[t] - 1)

\* What a snapshot leaves out was live until it was signed.
SignedWasLive ==
  /\ \A i \in Id : i \notin revoked => revokedAt[i] = Never
  /\ \A s \in signed :
       /\ s.published_at <= now + Ahead
       /\ \A i \in Id : i \notin s.revoked => s.published_at <= revokedAt[i] + Ahead

\* A call in flight holds a signed snapshot, and a check began in the past.
InFlight ==
  \A t \in Thread :
    /\ pc[t] # "ask" => snapshot[t] \in signed /\ Mechanisms[at[t]] = "snapshot"
    /\ before[t].started <= now
    /\ before[t].published \subseteq published

\* b and c are about the same check.
SameCheck(b, c) == b.started = c.started /\ b.published = c.published /\ b.told = c.told

(* What a check established does not depend on the rest of `before`.       *)
LEMMA SameCleared ==
  ASSUME NEW b, NEW c, SameCheck(b, c), NEW i, NEW n, Cleared(b, i, n)
  PROVE  Cleared(c, i, n)
  BY DEF Cleared, Passes, SameCheck

LEMMA SaidProgress ==
  ASSUME Types, NEW t \in Thread, NEW status \in Status, Said(t, status), Progress(t),
         UNCHANGED <<issued_at, revokedAt, restarted>>,
         SameCheck(before[t], before'[t]) \/ (hop[t] = 1 /\ at[t] = 1),
         status = "live" => Passes(before'[t], Chain[hop[t]], Mechanisms[at[t]],
                                   issued_at[Chain[hop[t]]], revokedAt[Chain[hop[t]]], Sticks)
  PROVE  Progress(t)'
<1> DEFINE b == before'[t]
<1>0. /\ hop[t] \in 1 .. Len(Chain) /\ at[t] \in 1 .. Len(Mechanisms)
      /\ Len(Chain) \in Nat \ {0} /\ Len(Mechanisms) \in Nat \ {0}
      /\ undeterminable[t] \in BOOLEAN
  BY Numbers DEF Types, ThreadOK
<1>1. \A i, n : Cleared(before[t], i, n)' <=> Cleared(b, i, n)
  BY DEF Cleared, Sticks
<1>2. \A h \in 1 .. Len(Chain) : h < hop[t] => Cleared(b, Chain[h], Len(Mechanisms))
  BY <1>0, SameCleared DEF Progress
<1>3. undeterminable[t] = FALSE => Cleared(b, Chain[hop[t]], at[t] - 1)
  <2>1. Cleared(b, Chain[hop[t]], 0)
    BY DEF Cleared
  <2>2. CASE SameCheck(before[t], before'[t])
    BY <2>2, SameCleared DEF Progress
  <2>3. CASE at[t] = 1
    BY <2>1, <2>3
  <2>4. QED
    BY <2>2, <2>3
<1>4. undeterminable[t] = FALSE /\ status = "live" => Cleared(b, Chain[hop[t]], at[t])
  <2> SUFFICES ASSUME undeterminable[t] = FALSE, status = "live", NEW m \in 1 .. at[t]
               PROVE  Passes(b, Chain[hop[t]], Mechanisms[m],
                             issued_at[Chain[hop[t]]], revokedAt[Chain[hop[t]]], Sticks)
    BY DEF Cleared
  <2>1. CASE m = at[t]
    BY <2>1
  <2>2. CASE m # at[t]
    <3>1. m \in 1 .. (at[t] - 1)
      BY <1>0, <2>2
    <3>2. QED
      BY <1>3, <3>1 DEF Cleared
  <2>3. QED
    BY <2>1, <2>2
<1> DEFINE doubt == undeterminable[t] \/ status = "unreachable"
<1> HIDE DEF b
<1>5. ASSUME NEW s \in Status, Answered(t, s),
             s = "live" => Cleared(b, Chain[hop[t]], Len(Mechanisms))
      PROVE  Progress(t)'
  <2>1. /\ hop'[t] = NextHop(t, s) /\ at'[t] = 1
        /\ answer'[t] = IF s # "live" THEN "refused"
                        ELSE IF hop[t] = Len(Chain) THEN "accepted" ELSE "live"
    BY <1>5 DEF Answered, Types, ThreadOK
  <2>2. ASSUME NEW h \in 1 .. Len(Chain), h < hop'[t] \/ Accepted(t)'
        PROVE  Cleared(b, Chain[h], Len(Mechanisms))
    <3>1. s = "live" /\ h <= hop[t]
      BY <1>0, <2>1, <2>2 DEF NextHop, Accepted
    <3>2. CASE h = hop[t]
      BY <1>5, <3>1, <3>2
    <3>3. CASE h < hop[t]
      BY <1>2, <3>3
    <3>4. QED
      BY <1>0, <3>1, <3>2, <3>3
  <2>3. Cleared(b, Chain[hop'[t]], at'[t] - 1)
    BY <2>1 DEF Cleared
  <2>4. QED
    BY <1>1, <2>2, <2>3 DEF Progress, b
<1>6. CASE Decides(t, status)
  <2>1. Answered(t, IF status \notin Denials /\ doubt THEN "unreachable" ELSE status)
    BY <1>6 DEF Said
  <2>2. CASE status \notin Denials /\ doubt
    <3>1. Answered(t, "unreachable") /\ "unreachable" \in Status
      BY <2>1, <2>2 DEF Status
    <3>2. QED
      BY <1>5, <3>1
  <2>3. CASE ~(status \notin Denials /\ doubt)
    <3>1. Answered(t, status)
      BY <2>1, <2>3
    <3>2. status = "live" => undeterminable[t] = FALSE /\ at[t] = Len(Mechanisms)
      BY <1>0, <1>6, <2>3 DEF Decides, Denials
    <3>3. QED
      BY <1>4, <1>5, <3>1, <3>2
  <2>4. QED
    BY <2>2, <2>3
<1>7. CASE ~Decides(t, status)
  <2>1. /\ at' = [at EXCEPT ![t] = @ + 1]
        /\ undeterminable' = [undeterminable EXCEPT ![t] = doubt]
        /\ UNCHANGED <<hop, answer>>
    BY <1>7 DEF Said
  <2>2. at'[t] = at[t] + 1 /\ undeterminable'[t] = doubt /\ hop'[t] = hop[t]
    BY <2>1 DEF Types, ThreadOK
  <2>3. undeterminable'[t] = FALSE => undeterminable[t] = FALSE /\ status = "live"
    BY <1>0, <1>7, <2>2 DEF Decides, Denials, Status
  <2>4. ~ Accepted(t)'
    BY <1>0, <2>2 DEF Accepted
  <2>5. at'[t] - 1 = at[t]
    BY <1>0, <2>2
  <2>6. \A h \in 1 .. Len(Chain) : h < hop'[t] => Cleared(b, Chain[h], Len(Mechanisms))
    BY <1>2, <2>2
  <2>7. undeterminable'[t] = FALSE => Cleared(b, Chain[hop'[t]], at'[t] - 1)
    BY <1>4, <2>2, <2>3, <2>5
  <2>8. QED
    BY <1>1, <2>4, <2>6, <2>7 DEF Progress, b
<1>8. QED
  BY <1>6, <1>7

(* Nothing that other processes do takes back what a check established.    *)
LEMMA ProgressStays ==
  ASSUME Types, Types', NEW t \in Thread, Progress(t), UNCHANGED issued_at,
         hop'[t] = hop[t], at'[t] = at[t], undeterminable'[t] = undeterminable[t],
         before'[t] = before[t], Accepted(t)' => Accepted(t),
         restarted' = restarted \/ restarted' = TRUE,
         \A i \in Id : revokedAt'[i] = revokedAt[i] \/ before[t].started <= revokedAt'[i]
  PROVE  Progress(t)'
<1>1. ASSUME NEW i \in Id, NEW n, Cleared(before[t], i, n)
      PROVE  Cleared(before[t], i, n)'
  <2>1. /\ before[t].started \in Nat /\ revokedAt'[i] \in Nat
        /\ MaxStaleness \in Nat /\ Ahead \in Nat
    BY Numbers DEF Types, BeforeOK, ServiceOK, Time, Never
  <2>2. SUFFICES ASSUME NEW m \in 1 .. n,
                        Passes(before[t], i, Mechanisms[m], issued_at[i], revokedAt[i], Sticks)
                 PROVE  Passes(before[t], i, Mechanisms[m], issued_at[i], revokedAt'[i], Sticks')
    BY <1>1 DEF Cleared
  <2>3. Sticks' => Sticks
    BY DEF Sticks
  <2>4. QED
    BY <2>1, <2>2, <2>3 DEF Passes
<1>2. /\ \A h \in 1 .. Len(Chain) : Chain[h] \in Id
      /\ hop[t] \in 1 .. Len(Chain)
  BY Numbers DEF Types, ThreadOK
<1>3. \A h \in 1 .. Len(Chain) :
        h < hop'[t] \/ Accepted(t)' => Cleared(before[t], Chain[h], Len(Mechanisms))'
  BY <1>1, <1>2 DEF Progress
<1>4. undeterminable'[t] = FALSE => Cleared(before[t], Chain[hop[t]], at[t] - 1)'
  BY <1>1, <1>2 DEF Progress
<1>5. QED
  BY <1>3, <1>4 DEF Progress

(* A step of one thread leaves the other threads where they are.           *)
LEMMA SaidOthers ==
  ASSUME Types, NEW t \in Thread, NEW u \in Thread, u # t, NEW status, Said(t, status)
  PROVE  /\ pc'[u] = pc[u] /\ hop'[u] = hop[u] /\ at'[u] = at[u]
         /\ undeterminable'[u] = undeterminable[u]
         /\ snapshot'[u] = snapshot[u] /\ answer'[u] = answer[u]
  BY DEF Types, ThreadOK, Said, Answered

LEMMA AsksSays ==
  ASSUME Types, InFlight, NEW t \in Thread, NEW m, Asks(t, m)
  PROVE  /\ pc[t] = "ask" /\ Mechanisms[at[t]] = m
         /\ SameCheck(before[t], before'[t]) \/ (hop[t] = 1 /\ at[t] = 1)
         /\ before'[t].started <= now /\ before'[t].started \in Nat
         /\ before'[t].published \subseteq published
         /\ before'[t].newest = newest[CheckerOf[t]]
         /\ \A u \in Thread : u # t => before'[u] = before[u]
<1>1. now \in Nat
  BY Numbers DEF Types, Time
<1>2. /\ before[t] \in [newest : Epoch, told : SUBSET Id, published : SUBSET Id, started : Time]
      /\ before[t].started <= now /\ before[t].started \in Nat
      /\ before[t].published \subseteq published
  BY Numbers DEF Types, BeforeOK, InFlight, Time
<1>3. CASE hop[t] = 1 /\ at[t] = 1
  <2>1. before' = [before EXCEPT ![t] =
          [newest |-> newest[CheckerOf[t]], told |-> told[CheckerOf[t]],
           published |-> published, started |-> now]]
    BY <1>3 DEF Asks
  <2>2. QED
    BY <1>1, <1>3, <2>1 DEF Asks, Types, BeforeOK
<1>4. CASE ~(hop[t] = 1 /\ at[t] = 1)
  <2>1. before' = [before EXCEPT ![t] = [@ EXCEPT !.newest = newest[CheckerOf[t]]]]
    BY <1>4 DEF Asks
  <2>2. QED
    BY <1>2, <2>1 DEF Asks, Types, BeforeOK, SameCheck
<1>5. QED
  BY <1>3, <1>4

(* Any answer of a mechanism to one thread.                                *)
LEMMA SaidStep ==
  ASSUME Types, Types', InFlight, \A u \in Thread : Progress(u),
         NEW t \in Thread, NEW status \in Status, Said(t, status),
         UNCHANGED <<now, public, service>>,
         SameCheck(before[t], before'[t]) \/ (hop[t] = 1 /\ at[t] = 1),
         before'[t].started <= now, before'[t].published \subseteq published,
         \A u \in Thread : u # t => before'[u] = before[u],
         status = "live" => Passes(before'[t], Chain[hop[t]], Mechanisms[at[t]],
                                   issued_at[Chain[hop[t]]], revokedAt[Chain[hop[t]]], Sticks)
  PROVE  InFlight' /\ \A u \in Thread : Progress(u)'
<1>1. UNCHANGED <<now, signed, published, issued_at, revokedAt, restarted>>
  BY DEF public, service
<1>2. pc'[t] = "ask"
  BY DEF Said, Types, ThreadOK
<1>3. InFlight'
  <2> SUFFICES ASSUME NEW u \in Thread
               PROVE  /\ pc'[u] # "ask" => snapshot'[u] \in signed /\ Mechanisms[at'[u]] = "snapshot"
                      /\ before'[u].started <= now
                      /\ before'[u].published \subseteq published
    BY <1>1 DEF InFlight
  <2>1. CASE u = t
    BY <1>2, <2>1
  <2>2. CASE u # t
    BY <2>2, SaidOthers DEF InFlight
  <2>3. QED
    BY <2>1, <2>2
<1>4. Progress(t)'
  BY <1>1, SaidProgress
<1>5. ASSUME NEW u \in Thread, u # t PROVE Progress(u)'
  <2>1. /\ pc'[u] = pc[u] /\ hop'[u] = hop[u] /\ at'[u] = at[u]
        /\ undeterminable'[u] = undeterminable[u] /\ answer'[u] = answer[u]
        /\ before'[u] = before[u]
    BY <1>5, SaidOthers
  <2>2. Accepted(u)' => Accepted(u)
    BY <2>1 DEF Accepted
  <2>3. QED
    BY <1>1, <2>1, <2>2, ProgressStays
<1>6. QED
  BY <1>3, <1>4, <1>5

LEMMA AskTtlStep ==
  ASSUME Types, Types', InFlight, \A u \in Thread : Progress(u), NEW t \in Thread, AskTtl(t)
  PROVE  InFlight' /\ \A u \in Thread : Progress(u)'
<1> DEFINE i == Chain[hop[t]]
           status == IF Outlived(i) THEN "stale" ELSE "live"
<1>1. Asks(t, "ttl") /\ Said(t, status) /\ UNCHANGED <<now, public, service>>
  BY DEF AskTtl
<1>2. /\ Mechanisms[at[t]] = "ttl"
      /\ SameCheck(before[t], before'[t]) \/ (hop[t] = 1 /\ at[t] = 1)
      /\ before'[t].started <= now /\ before'[t].started \in Nat
      /\ before'[t].published \subseteq published
      /\ \A u \in Thread : u # t => before'[u] = before[u]
  BY <1>1, AsksSays
<1>3. status \in Status
  BY DEF Status
<1>4. /\ i \in Id /\ now \in Nat /\ Ttl \in Nat
      /\ issued_at[i] \in Nat
  BY Numbers, RegistriesAssumption DEF Types, ThreadOK, PublicOK, Time, Never
<1>5. status = "live" => issued_at[i] # Never /\ before'[t].started <= issued_at[i] + Ttl
  BY <1>2, <1>4 DEF Outlived, Age
<1>6. status = "live" => Passes(before'[t], i, Mechanisms[at[t]], issued_at[i], revokedAt[i], Sticks)
  BY <1>2, <1>5 DEF Passes
<1> HIDE DEF status
<1>7. QED
  BY <1>1, <1>2, <1>3, <1>6, SaidStep

LEMMA AskLogStep ==
  ASSUME Types, Types', InFlight, \A u \in Thread : Progress(u), NEW t \in Thread, AskLog(t)
  PROVE  InFlight' /\ \A u \in Thread : Progress(u)'
<1> DEFINE i == Chain[hop[t]]
<1>1. PICK status \in Status : Said(t, status) /\ (status = "live" => i \notin published)
  BY DEF AskLog, Status
<1>2. Asks(t, "log") /\ UNCHANGED <<now, public, service>>
  BY DEF AskLog
<1>3. /\ Mechanisms[at[t]] = "log"
      /\ SameCheck(before[t], before'[t]) \/ (hop[t] = 1 /\ at[t] = 1)
      /\ before'[t].started <= now
      /\ before'[t].published \subseteq published
      /\ \A u \in Thread : u # t => before'[u] = before[u]
  BY <1>2, AsksSays
<1>4. status = "live" => Passes(before'[t], i, Mechanisms[at[t]], issued_at[i], revokedAt[i], Sticks)
  BY <1>1, <1>3 DEF Passes
<1>5. QED
  BY <1>1, <1>2, <1>3, <1>4, SaidStep

LEMMA FetchFailsStep ==
  ASSUME Types, Types', InFlight, \A u \in Thread : Progress(u), NEW t \in Thread, FetchFails(t)
  PROVE  InFlight' /\ \A u \in Thread : Progress(u)'
<1>1. Said(t, "unreachable") /\ "unreachable" \in Status
  BY DEF FetchFails, Status
<1>2. Asks(t, "snapshot") /\ UNCHANGED <<now, public, service>>
  BY DEF FetchFails
<1>3. /\ SameCheck(before[t], before'[t]) \/ (hop[t] = 1 /\ at[t] = 1)
      /\ before'[t].started <= now
      /\ before'[t].published \subseteq published
      /\ \A u \in Thread : u # t => before'[u] = before[u]
  BY <1>2, AsksSays
<1>4. QED
  BY <1>1, <1>2, <1>3, SaidStep

LEMMA FetchStep ==
  ASSUME Types, Types', InFlight, \A u \in Thread : Progress(u), NEW t \in Thread, Fetch(t)
  PROVE  InFlight' /\ \A u \in Thread : Progress(u)'
<1>1. /\ Asks(t, "snapshot")
      /\ UNCHANGED <<now, signed, published, issued_at, revokedAt, restarted, hop, at, undeterminable, answer>>
      /\ pc' = [pc EXCEPT ![t] = "load"]
  BY DEF Fetch, public, service
<1>2. PICK s \in signed : snapshot' = [snapshot EXCEPT ![t] = s]
  BY DEF Fetch
<1>3. /\ Mechanisms[at[t]] = "snapshot"
      /\ SameCheck(before[t], before'[t]) \/ (hop[t] = 1 /\ at[t] = 1)
      /\ before'[t].started <= now
      /\ before'[t].published \subseteq published
      /\ \A u \in Thread : u # t => before'[u] = before[u]
  BY <1>1, AsksSays
<1>4. InFlight'
  <2> SUFFICES ASSUME NEW u \in Thread
               PROVE  /\ pc'[u] # "ask" => snapshot'[u] \in signed /\ Mechanisms[at[u]] = "snapshot"
                      /\ before'[u].started <= now
                      /\ before'[u].published \subseteq published
    BY <1>1 DEF InFlight
  <2>1. CASE u = t
    BY <1>2, <1>3, <2>1 DEF Types, ThreadOK
  <2>2. CASE u # t
    BY <1>1, <1>2, <1>3, <2>2 DEF InFlight, Types, ThreadOK
  <2>3. QED
    BY <2>1, <2>2
<1>5. Progress(t)'
  <2> DEFINE b == before'[t]
  <2>1. \A i, n : Cleared(before[t], i, n)' <=> Cleared(b, i, n)
    BY <1>1 DEF Cleared, Sticks
  <2>2. pc'[t] = "load"
    BY <1>1 DEF Types, ThreadOK
  <2>3. ~ Accepted(t)'
    BY <2>2 DEF Accepted
  <2> HIDE DEF b
  <2>4. /\ \A h \in 1 .. Len(Chain) : h < hop[t] => Cleared(b, Chain[h], Len(Mechanisms))
        /\ undeterminable[t] = FALSE => Cleared(b, Chain[hop[t]], at[t] - 1)
    <3>1. CASE SameCheck(before[t], before'[t])
      BY <3>1, SameCleared DEF Progress, b
    <3>2. CASE hop[t] = 1 /\ at[t] = 1
      BY <3>2, Numbers DEF Cleared
    <3>3. QED
      BY <1>3, <3>1, <3>2
  <2>5. QED
    BY <1>1, <2>1, <2>3, <2>4 DEF Progress
<1>6. ASSUME NEW u \in Thread, u # t PROVE Progress(u)'
  <2>1. pc'[u] = pc[u] /\ before'[u] = before[u]
    BY <1>1, <1>3, <1>6 DEF Types, ThreadOK
  <2>2. Accepted(u)' => Accepted(u)
    BY <1>1, <2>1 DEF Accepted
  <2>3. QED
    BY <1>1, <2>1, <2>2, ProgressStays
<1>7. QED
  BY <1>4, <1>5, <1>6

LEMMA LoadStep ==
  ASSUME Types, Types', InFlight, \A u \in Thread : Progress(u), NEW t \in Thread, Load(t)
  PROVE  InFlight' /\ \A u \in Thread : Progress(u)'
<1>1. UNCHANGED <<now, public, service, before>> /\ pc[t] = "load"
  BY DEF Load
<1>2. CASE NotRolledBack(t)
  <2>1. pc' = [pc EXCEPT ![t] = "store"] /\ UNCHANGED <<hop, at, undeterminable, snapshot, answer>>
    BY <1>2 DEF Load
  <2>2. UNCHANGED <<signed, published, issued_at, revokedAt, restarted>>
    BY <1>1 DEF public, service
  <2>3. \A u \in Thread : pc'[u] # "ask" => pc[u] # "ask"
    BY <1>1, <2>1 DEF Types, ThreadOK
  <2>4. InFlight'
    BY <1>1, <2>1, <2>2, <2>3 DEF InFlight
  <2>5. ASSUME NEW u \in Thread PROVE Accepted(u)' => Accepted(u)
    BY <2>1, <1>1 DEF Accepted, Types, ThreadOK
  <2>6. ASSUME NEW u \in Thread PROVE Progress(u)'
    BY <1>1, <2>1, <2>2, <2>5, ProgressStays
  <2>7. QED
    BY <2>4, <2>6
<1>3. CASE ~NotRolledBack(t)
  <2>1. Said(t, "unreachable") /\ "unreachable" \in Status
    BY <1>3 DEF Load, Status
  <2>2. /\ SameCheck(before[t], before'[t])
        /\ before'[t].started <= now /\ before'[t].published \subseteq published
        /\ \A u \in Thread : u # t => before'[u] = before[u]
    BY <1>1 DEF InFlight, SameCheck
  <2>3. QED
    BY <1>1, <2>1, <2>2, SaidStep
<1>4. QED
  BY <1>2, <1>3

-----------------------------------------------------------------------------
(* What a checker has seen.                                                *)

\* last_seen_epoch is the newest epoch ever trusted, and what passed the
\* comparison with it is not older.
SeenIsNewest ==
  /\ \A c \in Checker : last_seen[c] = newest[c]
  /\ \A t \in Thread : before[t].newest <= newest[CheckerOf[t]]
  /\ \A t \in Thread : pc[t] = "store" => snapshot[t].epoch >= newest[CheckerOf[t]]

LEMMA SeenIsNewestInit == Init => SeenIsNewest
  BY CheckerAssumption DEF Init, SeenIsNewest, AtFirst

LEMMA SeenIsNewestNext ==
  ASSUME Unshared, Types, Types', InFlight, SeenIsNewest, [Next]_vars
  PROVE  SeenIsNewest'
<1>1. Types /\ Types' /\ InFlight
  OBVIOUS
<1>2. /\ \A c \in Checker : newest[c] \in Nat
      /\ \A t \in Thread : CheckerOf[t] \in Checker
      /\ \A t \in Thread : before[t].newest \in Nat /\ snapshot[t].epoch \in Nat
  <2>1. \A t \in Thread : snapshot[t] \in Snapshot \cup {NoSnapshot}
    BY <1>1 DEF Types, ThreadOK
  <2>2. \A s \in Snapshot \cup {NoSnapshot} : s.epoch \in Nat
    BY Numbers DEF Snapshot, NoSnapshot, Epoch
  <2>3. \A t \in Thread : snapshot[t].epoch \in Nat
    BY <2>1, <2>2
  <2>4. (\A c \in Checker : newest[c] \in Nat) /\ \A t \in Thread : before[t].newest \in Nat
    BY <1>1, Numbers DEF Types, CheckersOK, BeforeOK, Epoch
  <2>5. QED
    BY <2>3, <2>4, CheckerAssumption
<1>3. ASSUME UNCHANGED <<pc, snapshot, before, last_seen, newest>> PROVE SeenIsNewest'
  BY <1>3 DEF SeenIsNewest
<1>4. CASE UNCHANGED vars \/ Tick \/ SignSnapshot \/ ServiceRestart
           \/ \E i \in Id : Revoke(i) \/ Publish(i)
  BY <1>3, <1>4 DEF vars, thread, checker, Tick, SignSnapshot, ServiceRestart, Revoke, Publish
<1>5. ASSUME NEW t \in Thread, NEW status, Said(t, status), UNCHANGED <<last_seen, newest>>,
             before'[t] = before[t] \/ before'[t].newest = newest[CheckerOf[t]],
             \A u \in Thread : u # t => before'[u] = before[u]
      PROVE  SeenIsNewest'
  <2>1. pc'[t] = "ask"
    BY <1>1, <1>5 DEF Said, Types, ThreadOK
  <2>2. \A u \in Thread : u # t => pc'[u] = pc[u] /\ snapshot'[u] = snapshot[u]
    BY <1>1, <1>5, SaidOthers
  <2>3. \A u \in Thread : before'[u].newest <= newest[CheckerOf[u]]
    BY <1>2, <1>5 DEF SeenIsNewest
  <2>4. QED
    BY <1>5, <2>1, <2>2, <2>3 DEF SeenIsNewest
<1>6. ASSUME NEW t \in Thread, NEW m, Asks(t, m)
      PROVE  /\ before'[t].newest = newest[CheckerOf[t]]
             /\ \A u \in Thread : u # t => before'[u] = before[u]
  BY <1>1, <1>6, AsksSays
<1>7. ASSUME NEW t \in Thread, AskTtl(t) \/ AskLog(t) \/ FetchFails(t) PROVE SeenIsNewest'
  <2>1. (\E m : Asks(t, m)) /\ (\E status : Said(t, status)) /\ UNCHANGED <<last_seen, newest>>
    BY <1>7 DEF AskTtl, AskLog, FetchFails, checker
  <2>2. QED
    BY <1>5, <1>6, <2>1
<1>8. ASSUME NEW t \in Thread, Fetch(t) PROVE SeenIsNewest'
  <2>1. /\ Asks(t, "snapshot") /\ UNCHANGED <<last_seen, newest>>
        /\ pc' = [pc EXCEPT ![t] = "load"]
        /\ \E s \in signed : snapshot' = [snapshot EXCEPT ![t] = s]
    BY <1>8 DEF Fetch, checker
  <2>2. \A u \in Thread : pc'[u] = "store" => pc[u] = "store" /\ snapshot'[u] = snapshot[u]
    BY <1>1, <2>1 DEF Types, ThreadOK
  <2>3. \A u \in Thread : before'[u].newest <= newest[CheckerOf[u]]
    BY <1>2, <1>6, <2>1 DEF SeenIsNewest
  <2>4. QED
    BY <2>1, <2>2, <2>3 DEF SeenIsNewest
<1>9. ASSUME NEW t \in Thread, Load(t) PROVE SeenIsNewest'
  <2>1. UNCHANGED <<before, last_seen, newest>>
    BY <1>9 DEF Load, checker
  <2>2. CASE NotRolledBack(t)
    <3>1. pc' = [pc EXCEPT ![t] = "store"] /\ UNCHANGED snapshot
      BY <1>9, <2>2 DEF Load
    <3>2. snapshot[t].epoch >= newest[CheckerOf[t]]
      BY <1>2, <2>2 DEF NotRolledBack, SeenIsNewest
    <3>3. \A u \in Thread : pc'[u] = "store" => u = t \/ pc[u] = "store"
      BY <1>1, <3>1 DEF Types, ThreadOK
    <3>4. QED
      BY <2>1, <3>1, <3>2, <3>3 DEF SeenIsNewest
  <2>3. CASE ~NotRolledBack(t)
    BY <1>5, <1>9, <2>1, <2>3 DEF Load
  <2>4. QED
    BY <2>2, <2>3
<1>10. ASSUME NEW t \in Thread, Store(t) PROVE SeenIsNewest'
  <2> DEFINE c == CheckerOf[t]
  <2>1. UNCHANGED before /\ (\E status : Said(t, status)) /\ pc[t] = "store"
    BY <1>10 DEF Store
  <2>2. CASE UNCHANGED checker
    BY <1>5, <2>1, <2>2 DEF checker
  <2>3. CASE ~UNCHANGED checker
    <3>1. /\ last_seen' = [last_seen EXCEPT ![c] = snapshot[t].epoch]
          /\ newest' = [newest EXCEPT ![c] = Max({newest[c], snapshot[t].epoch})]
      BY <1>1, <1>10, <2>3 DEF Store, Types, CheckersOK
    <3>2. snapshot[t].epoch >= newest[c]
      BY <2>1 DEF SeenIsNewest
    <3>3. Max({newest[c], snapshot[t].epoch}) = snapshot[t].epoch
      <4>1. newest[c] \in Nat /\ snapshot[t].epoch \in Nat
        BY <1>2
      <4>2. Max({newest[c], snapshot[t].epoch})
              = IF newest[c] >= snapshot[t].epoch THEN newest[c] ELSE snapshot[t].epoch
        BY <4>1, MaxOfTwo
      <4>3. QED
        BY <3>2, <4>1, <4>2
    <3>4. /\ last_seen'[c] = snapshot[t].epoch /\ newest'[c] = snapshot[t].epoch
          /\ \A d \in Checker : d # c => last_seen'[d] = last_seen[d] /\ newest'[d] = newest[d]
      BY <1>1, <1>2, <3>1, <3>3 DEF Types, CheckersOK
    <3>5. \A d \in Checker : last_seen'[d] = newest'[d] /\ newest'[d] >= newest[d]
      BY <1>2, <3>2, <3>4 DEF SeenIsNewest
    <3>6. PICK status : Said(t, status)
      BY <2>1
    <3>7. \A u \in Thread : u # t => pc'[u] = pc[u] /\ snapshot'[u] = snapshot[u]
      BY <1>1, <3>6, SaidOthers
    <3>8. pc'[t] = "ask"
      BY <1>1, <3>6 DEF Said, Types, ThreadOK
    <3>9. \A u \in Thread : u # t => CheckerOf[u] # c
      BY DEF Unshared
    <3>10. ASSUME NEW u \in Thread, pc'[u] = "store"
           PROVE  snapshot'[u].epoch >= newest'[CheckerOf[u]]
      <4>1. u # t
        BY <3>8, <3>10
      <4>2. pc[u] = "store" /\ snapshot'[u] = snapshot[u] /\ newest'[CheckerOf[u]] = newest[CheckerOf[u]]
        BY <1>2, <3>4, <3>7, <3>9, <3>10, <4>1
      <4>3. QED
        BY <4>2 DEF SeenIsNewest
    <3>11. ASSUME NEW u \in Thread PROVE before'[u].newest <= newest'[CheckerOf[u]]
      <4>1. /\ before[u].newest <= newest[CheckerOf[u]] /\ newest[CheckerOf[u]] <= newest'[CheckerOf[u]]
            /\ newest'[CheckerOf[u]] \in Nat
        BY <1>2, <3>4, <3>5 DEF SeenIsNewest
      <4>2. QED
        BY <1>2, <2>1, <4>1
    <3>12. QED
      BY <3>5, <3>10, <3>11 DEF SeenIsNewest
  <2>4. QED
    BY <2>2, <2>3
<1>11. ASSUME NEW c \in Checker, CheckerRestart(c) PROVE SeenIsNewest'
  <2>1. /\ \A d \in Checker : d # c => last_seen'[d] = last_seen[d] /\ newest'[d] = newest[d]
        /\ last_seen'[c] = 0 /\ newest'[c] = 0
    BY <1>1, <1>11 DEF CheckerRestart, Types, CheckersOK
  <2>2. ASSUME NEW t \in Thread, CheckerOf[t] = c
        PROVE  pc'[t] = "ask" /\ before'[t].newest = 0
    BY <1>11, <2>2 DEF CheckerRestart, AtFirst
  <2>3. ASSUME NEW t \in Thread, CheckerOf[t] # c
        PROVE  pc'[t] = pc[t] /\ snapshot'[t] = snapshot[t] /\ before'[t] = before[t]
    BY <1>11, <2>3 DEF CheckerRestart
  <2>4. \A d \in Checker : last_seen'[d] = newest'[d]
    BY <2>1 DEF SeenIsNewest
  <2>5. ASSUME NEW t \in Thread
        PROVE  /\ before'[t].newest <= newest'[CheckerOf[t]]
               /\ pc'[t] = "store" => snapshot'[t].epoch >= newest'[CheckerOf[t]]
    <3>1. CASE CheckerOf[t] = c
      BY <2>1, <2>2, <3>1
    <3>2. CASE CheckerOf[t] # c
      BY <1>2, <2>1, <2>3, <3>2 DEF SeenIsNewest
    <3>3. QED
      BY <3>1, <3>2
  <2>6. QED
    BY <2>4, <2>5 DEF SeenIsNewest
<1>12. QED
  BY <1>4, <1>7, <1>8, <1>9, <1>10, <1>11 DEF Next, Works


\* What a checker was told of i holds of the log, or of every snapshot that it can
\* still accept and of the service's set.
Told(i, epochs, log, S, R) ==
  \/ Consults("log") /\ i \in log
  \/ Consults("snapshot") /\ i \in R /\ \A s \in S : s.epoch >= epochs => i \in s.revoked

\* While the service runs on, revoked sets only grow, and epochs with them.
EpochsCount ==
  /\ \A s \in signed : s.epoch <= epoch /\ s.revoked \subseteq revoked
  /\ \A s \in signed : s.epoch = epoch => s.revoked = revoked
  /\ \A s, r \in signed : s.epoch <= r.epoch => s.revoked \subseteq r.revoked

ToldIsTrue ==
  /\ \A c \in Checker : \A i \in told[c] : Told(i, newest[c], published, signed, revoked)
  /\ \A t \in Thread : \A i \in before[t].told :
       Told(i, newest[CheckerOf[t]], before[t].published, signed, revoked)

LEMMA ToldInit == Init => EpochsCount /\ ToldIsTrue
  BY CheckerAssumption DEF Init, EpochsCount, ToldIsTrue, CurrentSnapshot, AtFirst

(* Later epochs and larger logs and sets take back nothing.                *)
LEMMA ToldStays ==
  ASSUME NEW i, NEW m \in Nat, NEW n \in Nat, m <= n, NEW log, NEW L, log \subseteq L,
         NEW S, NEW T, NEW R, NEW Q, R \subseteq Q, \A s \in T : s.epoch \in Nat,
         \A s \in T : s \in S \/ R \subseteq s.revoked, Told(i, m, log, S, R)
  PROVE  Told(i, n, L, T, Q)
<1>1. CASE Consults("log") /\ i \in log
  BY <1>1 DEF Told
<1>2. CASE Consults("snapshot") /\ i \in R /\ \A s \in S : s.epoch >= m => i \in s.revoked
  <2>1. \A s \in T : s.epoch >= n => s.epoch >= m
    OBVIOUS
  <2>2. \A s \in T : s.epoch >= n => i \in s.revoked
    BY <1>2, <2>1
  <2>3. QED
    BY <1>2, <2>2 DEF Told
<1>3. QED
  BY <1>1, <1>2 DEF Told

LEMMA ToldNext ==
  ASSUME Types, Types', InFlight, EpochsCount, ToldIsTrue, restarted' = FALSE, [Next]_vars
  PROVE  EpochsCount' /\ ToldIsTrue'
<1>1. /\ epoch \in Nat
      /\ \A c \in Checker : newest[c] \in Nat /\ newest'[c] \in Nat
      /\ \A s \in signed : s.epoch \in Nat /\ s.revoked \subseteq Id
      /\ \A t \in Thread : CheckerOf[t] \in Checker
      /\ Consults("log") \in BOOLEAN
  <2>1. \A s \in Snapshot : s.epoch \in Nat /\ s.revoked \subseteq Id
    BY Numbers DEF Snapshot, Epoch
  <2>2. signed \subseteq Snapshot
    BY DEF Types, PublicOK
  <2>3. /\ epoch \in Nat
        /\ \A c \in Checker : newest[c] \in Nat /\ newest'[c] \in Nat
    BY Numbers DEF Types, ServiceOK, CheckersOK, Epoch
  <2>4. QED
    BY <2>1, <2>2, <2>3, CheckerAssumption DEF Consults
<1>2. ASSUME UNCHANGED <<revoked, epoch, signed>> PROVE EpochsCount'
  BY <1>2 DEF EpochsCount
<1>3. ASSUME UNCHANGED <<revoked, signed, newest, told, before>>, published \subseteq published'
      PROVE  ToldIsTrue'
  <2>1. \A c \in Checker : \A i \in told[c] : Told(i, newest[c], published', signed, revoked)
    BY <1>1, <1>3, ToldStays DEF ToldIsTrue
  <2>2. QED
    BY <1>3, <2>1 DEF ToldIsTrue
<1>4. CASE UNCHANGED vars
  <2>1. UNCHANGED <<revoked, epoch, signed, newest, told, before, published>>
    BY <1>4 DEF vars, service, public, checker, thread
  <2>2. QED
    BY <1>2, <1>3, <2>1
<1>5. CASE Tick
  <2>1. UNCHANGED <<revoked, epoch, signed, newest, told, before, published>>
    BY <1>5 DEF Tick, service, public, checker, thread
  <2>2. QED
    BY <1>2, <1>3, <2>1
<1>6. ASSUME NEW i \in Id, Publish(i) PROVE EpochsCount' /\ ToldIsTrue'
  <2>1. UNCHANGED <<revoked, epoch, signed, newest, told, before>> /\ published \subseteq published'
    BY <1>6 DEF Publish, service, checker, thread
  <2>2. QED
    BY <1>2, <1>3, <2>1
<1>7. ASSUME NEW i \in Id, Revoke(i) PROVE EpochsCount' /\ ToldIsTrue'
  <2>1. /\ UNCHANGED <<signed, newest, told, before, published>>
        /\ revoked' = revoked \cup {i}
        /\ epoch' = IF i \in revoked THEN epoch ELSE epoch + 1
    BY <1>7 DEF Revoke, public, checker, thread
  <2>2. EpochsCount'
    <3>1. CASE i \in revoked
      <4>1. UNCHANGED <<revoked, epoch, signed>>
        BY <2>1, <3>1
      <4>2. QED
        BY <1>2, <4>1
    <3>2. CASE i \notin revoked
      <4>1. \A s \in signed : s.epoch <= epoch + 1 /\ s.epoch # epoch + 1
        BY <1>1 DEF EpochsCount
      <4>2. QED
        BY <2>1, <3>2, <4>1 DEF EpochsCount
    <3>3. QED
      BY <3>1, <3>2
  <2>3. revoked \subseteq revoked'
    BY <2>1
  <2>4. /\ \A c \in Checker : \A j \in told[c] : Told(j, newest[c], published, signed, revoked')
        /\ \A t \in Thread : \A j \in before[t].told :
             Told(j, newest[CheckerOf[t]], before[t].published, signed, revoked')
    BY <1>1, <2>3, ToldStays DEF ToldIsTrue
  <2>5. QED
    BY <2>1, <2>2, <2>4 DEF ToldIsTrue
<1>8. CASE SignSnapshot
  <2>1. /\ UNCHANGED <<revoked, epoch, newest, told, before, published>>
        /\ signed' = signed \cup {CurrentSnapshot}
        /\ CurrentSnapshot.epoch = epoch /\ CurrentSnapshot.revoked = revoked
    BY <1>8 DEF SignSnapshot, CurrentSnapshot, service, checker, thread
  <2>2. EpochsCount'
    <3>1. \A s \in signed' : s.epoch <= epoch /\ s.revoked \subseteq revoked
      BY <1>1, <2>1 DEF EpochsCount
    <3>2. \A s \in signed' : s.epoch = epoch => s.revoked = revoked
      BY <2>1 DEF EpochsCount
    <3>3. ASSUME NEW s \in signed', NEW r \in signed', s.epoch <= r.epoch
          PROVE  s.revoked \subseteq r.revoked
      <4>1. CASE r = CurrentSnapshot
        BY <2>1, <3>1, <4>1
      <4>2. CASE s = CurrentSnapshot /\ r \in signed
        <5>1. r.epoch = epoch
          BY <1>1, <2>1, <3>1, <3>3, <4>2
        <5>2. QED
          BY <2>1, <3>2, <4>2, <5>1
      <4>3. CASE s \in signed /\ r \in signed
        BY <3>3, <4>3 DEF EpochsCount
      <4>4. QED
        BY <2>1, <4>1, <4>2, <4>3
    <3>4. QED
      BY <2>1, <3>1, <3>2, <3>3 DEF EpochsCount
  <2>3. /\ \A s \in signed' : s.epoch \in Nat
        /\ \A s \in signed' : s \in signed \/ revoked \subseteq s.revoked
    BY <1>1, <2>1
  <2>4. /\ \A c \in Checker : \A j \in told[c] : Told(j, newest[c], published, signed', revoked)
        /\ \A t \in Thread : \A j \in before[t].told :
             Told(j, newest[CheckerOf[t]], before[t].published, signed', revoked)
    BY <1>1, <2>3, ToldStays DEF ToldIsTrue
  <2>5. QED
    BY <2>1, <2>2, <2>4 DEF ToldIsTrue
<1>9. CASE ServiceRestart
  BY <1>9 DEF ServiceRestart
<1>10. ASSUME NEW t \in Thread, NEW m, Asks(t, m)
       PROVE  /\ \A u \in Thread : u # t => before'[u] = before[u]
              /\ \/ before'[t].told = before[t].told /\ before'[t].published = before[t].published
                 \/ before'[t].told = told[CheckerOf[t]] /\ before'[t].published = published
  <2>1. CASE hop[t] = 1 /\ at[t] = 1
    BY <1>10, <2>1 DEF Asks, Types, BeforeOK
  <2>2. CASE ~(hop[t] = 1 /\ at[t] = 1)
    BY <1>10, <2>2 DEF Asks, Types, BeforeOK
  <2>3. QED
    BY <2>1, <2>2
<1>11. ASSUME NEW t \in Thread, NEW m, Asks(t, m), UNCHANGED <<revoked, signed, newest, published>>,
              \A c \in Checker : \A i \in told'[c] : i \in told[c] \/ (Consults("log") /\ i \in published)
       PROVE  ToldIsTrue'
  <2>1. \A u \in Thread : \A i \in before'[u].told :
          Told(i, newest[CheckerOf[u]], before'[u].published, signed, revoked)
    BY <1>1, <1>10, <1>11 DEF ToldIsTrue
  <2>2. \A c \in Checker : \A i \in told'[c] : Told(i, newest[c], published, signed, revoked)
    BY <1>11 DEF ToldIsTrue, Told
  <2>3. QED
    BY <1>11, <2>1, <2>2 DEF ToldIsTrue
<1>12. ASSUME NEW t \in Thread, AskTtl(t) \/ FetchFails(t) \/ Fetch(t) PROVE EpochsCount' /\ ToldIsTrue'
  <2>1. (\E m : Asks(t, m)) /\ UNCHANGED <<revoked, epoch, signed, newest, told, published>>
    BY <1>12 DEF AskTtl, FetchFails, Fetch, service, public, checker
  <2>2. QED
    BY <1>2, <1>11, <2>1
<1>13. ASSUME NEW t \in Thread, AskLog(t) PROVE EpochsCount' /\ ToldIsTrue'
  <2>1. Asks(t, "log") /\ UNCHANGED <<revoked, epoch, signed, newest, published>>
    BY <1>13 DEF AskLog, service, public
  <2>2. Consults("log")
    <3>1. at[t] \in DOMAIN Mechanisms /\ Mechanisms[at[t]] = "log"
      BY <2>1, MechanismsAssumption DEF Asks, Types, ThreadOK
    <3>2. QED
      BY <3>1 DEF Consults
  <2>3. \A c \in Checker : \A i \in told'[c] : i \in told[c] \/ i \in published
    BY <1>13 DEF AskLog, Types, CheckersOK
  <2>4. QED
    BY <1>2, <1>11, <2>1, <2>2, <2>3
<1>14. ASSUME NEW t \in Thread, Load(t) PROVE EpochsCount' /\ ToldIsTrue'
  <2>1. UNCHANGED <<revoked, epoch, signed, newest, told, before, published>>
    BY <1>14 DEF Load, service, public, checker
  <2>2. QED
    BY <1>2, <1>3, <2>1
<1>15. ASSUME NEW t \in Thread, Store(t) PROVE EpochsCount' /\ ToldIsTrue'
  <2> DEFINE s == snapshot[t]
             c == CheckerOf[t]
  <2>1. UNCHANGED <<revoked, epoch, signed, before, published>> /\ pc[t] = "store"
    BY <1>15 DEF Store, service, public
  <2>2. s \in signed
    BY <2>1 DEF InFlight
  <2>3. CASE UNCHANGED checker
    BY <1>2, <1>3, <2>1, <2>3 DEF checker
  <2>4. CASE ~UNCHANGED checker
    <3>1. newest' = [newest EXCEPT ![c] = Max({newest[c], s.epoch})]
      BY <1>15, <2>4 DEF Store, Types, CheckersOK
    <3>2. \A d \in Checker : \A i \in told'[d] : i \in told[d] \/ (d = c /\ i \in s.revoked)
      BY <1>15, <2>4 DEF Store, Types, CheckersOK
    <3>3. c \in Checker /\ newest[c] \in Nat /\ s.epoch \in Nat
      BY <1>1, <2>2
    <3>4. newest'[c] >= newest[c] /\ newest'[c] >= s.epoch
      <4>1. Max({newest[c], s.epoch}) = IF newest[c] >= s.epoch THEN newest[c] ELSE s.epoch
        BY <3>3, MaxOfTwo
      <4> HIDE DEF s, c
      <4>2. newest'[c] = Max({newest[c], s.epoch})
        BY <3>1, <3>3 DEF Types, CheckersOK
      <4>3. QED
        BY <3>3, <4>1, <4>2
    <3>5. \A d \in Checker : newest'[d] >= newest[d]
      <4> HIDE DEF s, c
      <4>1. \A d \in Checker : d # c => newest'[d] = newest[d]
        BY <3>1 DEF Types, CheckersOK
      <4>2. QED
        BY <1>1, <3>3, <3>4, <4>1
    <3>6. ASSUME NEW i \in s.revoked PROVE Told(i, newest'[c], published, signed, revoked)
      <4>0. Consults("snapshot")
        <5>1. Mechanisms[at[t]] = "snapshot"
          BY <2>1 DEF InFlight
        <5>2. at[t] \in DOMAIN Mechanisms
          BY MechanismsAssumption DEF Types, ThreadOK
        <5>3. QED
          BY <5>1, <5>2 DEF Consults
      <4>1. i \in revoked
        BY <2>2 DEF EpochsCount
      <4>2. ASSUME NEW r \in signed, r.epoch >= newest'[c] PROVE i \in r.revoked
        <5>1. s.epoch <= r.epoch
          BY <1>1, <3>3, <3>4, <4>2
        <5>2. QED
          BY <2>2, <5>1 DEF EpochsCount
      <4>3. QED
        BY <4>0, <4>1, <4>2 DEF Told
    <3>7. \A d \in Checker : \A i \in told[d] : Told(i, newest'[d], published, signed, revoked)
      BY <1>1, <3>5, ToldStays DEF ToldIsTrue
    <3>8. \A d \in Checker : \A i \in told'[d] : Told(i, newest'[d], published, signed, revoked)
      BY <3>2, <3>6, <3>7
    <3>9. \A u \in Thread : \A i \in before[u].told :
            Told(i, newest'[CheckerOf[u]], before[u].published, signed, revoked)
      BY <1>1, <3>5, ToldStays DEF ToldIsTrue
    <3>10. ToldIsTrue'
      BY <2>1, <3>8, <3>9 DEF ToldIsTrue
    <3>11. QED
      BY <1>2, <2>1, <3>10
  <2>5. QED
    BY <2>3, <2>4
<1>16. ASSUME NEW c \in Checker, CheckerRestart(c) PROVE EpochsCount' /\ ToldIsTrue'
  <2>1. UNCHANGED <<revoked, epoch, signed, published>>
    BY <1>16 DEF CheckerRestart, service, public
  <2>2. /\ told'[c] = {} /\ \A d \in Checker : d # c => newest'[d] = newest[d] /\ told'[d] = told[d]
    BY <1>16 DEF CheckerRestart, Types, CheckersOK
  <2>3. \A t \in Thread : IF CheckerOf[t] = c THEN before'[t].told = {} ELSE before'[t] = before[t]
    BY <1>16 DEF CheckerRestart, AtFirst
  <2>4. ToldIsTrue'
    BY <1>1, <2>1, <2>2, <2>3 DEF ToldIsTrue
  <2>5. QED
    BY <1>2, <2>1, <2>4
<1>17. QED
  BY <1>4, <1>5, <1>6, <1>7, <1>8, <1>9, <1>12, <1>13, <1>14, <1>15, <1>16 DEF Next, Works

LEMMA StoreStep ==
  ASSUME Types, Types', SignedWasLive, InFlight, \A u \in Thread : Progress(u),
         Sticks => SeenIsNewest /\ ToldIsTrue,
         NEW t \in Thread, Store(t)
  PROVE  InFlight' /\ \A u \in Thread : Progress(u)'
<1> DEFINE s == snapshot[t]
           i == Chain[hop[t]]
<1>1. UNCHANGED <<now, public, service, before>> /\ pc[t] = "store"
  BY DEF Store
<1>2. PICK status \in Status :
        Said(t, status) /\ (status = "live" => Fresh(s) /\ i \notin s.revoked)
  BY DEF Store, Status
<1>3. /\ SameCheck(before[t], before'[t])
      /\ before'[t].started <= now /\ before'[t].published \subseteq published
      /\ \A u \in Thread : u # t => before'[u] = before[u]
  BY <1>1 DEF InFlight, SameCheck
<1>4. s \in signed /\ Mechanisms[at[t]] = "snapshot"
  BY <1>1 DEF InFlight
<1>5. /\ i \in Id /\ now \in Nat /\ Ahead \in Nat /\ MaxStaleness \in Nat
      /\ before'[t].started \in Nat /\ revokedAt[i] \in Nat
  BY <1>1, Numbers DEF Types, ThreadOK, BeforeOK, ServiceOK, Time, Never
<1>6. s.published_at \in Nat
  <2>1. s \in Snapshot
    BY <1>4 DEF Types, PublicOK
  <2>2. QED
    BY <2>1, Numbers DEF Snapshot
<1> HIDE DEF s, i
<1>7. i \notin s.revoked => s.published_at <= revokedAt[i] + Ahead
  BY <1>4, <1>5 DEF SignedWasLive
<1>8. Fresh(s) => now <= s.published_at + MaxStaleness
  BY <1>5, <1>6 DEF Fresh, Age
<1>9. status = "live" => before'[t].started <= revokedAt[i] + MaxStaleness + Ahead
  BY <1>2, <1>3, <1>5, <1>6, <1>7, <1>8
<1>10. ASSUME status = "live", Sticks, i \in before'[t].told
       PROVE  Consults("log") /\ i \in before'[t].published
  <2>1. Told(i, newest[CheckerOf[t]], before[t].published, signed, revoked)
    BY <1>1, <1>10 DEF ToldIsTrue
  <2>2. s.epoch >= newest[CheckerOf[t]] /\ i \notin s.revoked
    BY <1>1, <1>2, <1>10 DEF SeenIsNewest, s
  <2>3. QED
    BY <1>1, <1>4, <2>1, <2>2 DEF Told
<1>11. status = "live" => Passes(before'[t], i, Mechanisms[at[t]], issued_at[i], revokedAt[i], Sticks)
  BY <1>4, <1>9, <1>10 DEF Passes
<1>12. QED
  BY <1>1, <1>2, <1>3, <1>11, SaidStep DEF i

-----------------------------------------------------------------------------
(* The invariant.                                                          *)

SnapshotInv ==
  /\ Types /\ SignedWasLive /\ InFlight
  /\ \A t \in Thread : Progress(t)
  /\ restarted = FALSE => EpochsCount /\ ToldIsTrue
  /\ Unshared => SeenIsNewest

LEMMA SnapshotInvInit == Init => SnapshotInv
<1> SUFFICES ASSUME Init PROVE SnapshotInv
  OBVIOUS
<1>1. Types
  BY TypesInit
<1>2. SignedWasLive
  BY Numbers DEF Init, SignedWasLive, CurrentSnapshot, Never
<1>3. InFlight
  BY DEF Init, InFlight, AtFirst
<1>4. ASSUME NEW t \in Thread PROVE Progress(t)
  <2>1. hop[t] = 1 /\ at[t] = 1 /\ answer[t] = "refused"
    BY DEF Init
  <2>2. QED
    BY <2>1, Numbers DEF Progress, Accepted, Cleared
<1>5. QED
  BY <1>1, <1>2, <1>3, <1>4, ToldInit, SeenIsNewestInit DEF SnapshotInv

\* A service that restarted stays one that did.
RunsOn == restarted' = restarted \/ restarted' = TRUE

(* A step of the service, or of time, that moves no thread.                *)
LEMMA ThreadsRest ==
  ASSUME SnapshotInv, Types', UNCHANGED <<issued_at, thread>>,
         RunsOn, now <= now', signed \subseteq signed', published \subseteq published',
         \A i \in Id : revokedAt'[i] = revokedAt[i] \/ now <= revokedAt'[i]
  PROVE  InFlight' /\ \A t \in Thread : Progress(t)'
<1>1. UNCHANGED <<pc, hop, at, undeterminable, snapshot, answer, before>>
  BY DEF thread
<1>2. /\ now \in Nat /\ now' \in Nat
      /\ \A t \in Thread : before[t].started \in Nat /\ before[t].started <= now
      /\ \A i \in Id : revokedAt'[i] \in Nat
  BY Numbers DEF SnapshotInv, Types, BeforeOK, ServiceOK, InFlight, Time, Never
<1>3. InFlight'
  <2>1. \A t \in Thread : before[t].started <= now'
    BY <1>2
  <2>2. QED
    BY <1>1, <2>1 DEF SnapshotInv, InFlight
<1>4. ASSUME NEW t \in Thread PROVE Progress(t)'
  <2>1. \A i \in Id : revokedAt'[i] = revokedAt[i] \/ before[t].started <= revokedAt'[i]
    BY <1>2
  <2>2. Accepted(t)' => Accepted(t)
    BY <1>1 DEF Accepted
  <2>3. QED
    BY <1>1, <2>1, <2>2, ProgressStays DEF SnapshotInv, RunsOn
<1>5. QED
  BY <1>3, <1>4

LEMMA SnapshotInvNext == SnapshotInv /\ [Next]_vars => SnapshotInv'
<1> SUFFICES ASSUME SnapshotInv, [Next]_vars PROVE SnapshotInv'
  OBVIOUS
<1>1. Types /\ Types' /\ SignedWasLive /\ InFlight /\ \A t \in Thread : Progress(t)
  BY TypesNext DEF SnapshotInv
<1>2. Unshared => SeenIsNewest'
  BY <1>1, SeenIsNewestNext DEF SnapshotInv
<1>3. RunsOn
  BY DEF RunsOn, Next, vars, service, Tick, Revoke, Publish, SignSnapshot, ServiceRestart, CheckerRestart,
         Works, AskTtl, AskLog, Fetch, FetchFails, Load, Store
<1>4. restarted' = FALSE => EpochsCount' /\ ToldIsTrue'
  BY <1>1, <1>3, ToldNext DEF SnapshotInv, RunsOn
<1>5. /\ now \in Nat /\ now <= MaxTime /\ Ahead \in Nat /\ MaxTime \in Nat
      /\ \A i \in Id : revokedAt[i] \in Nat /\ revokedAt[i] <= Never
      /\ \A s \in signed : s.published_at \in Nat
  <2>1. \A s \in signed : s \in Snapshot
    BY <1>1 DEF Types, PublicOK
  <2>2. \A s \in signed : s.published_at \in Nat
    BY <2>1, Numbers DEF Snapshot
  <2>3. QED
    BY <1>1, <2>2, Numbers DEF Types, ServiceOK, Time, Never
<1>6. Sticks => SeenIsNewest /\ ToldIsTrue
  BY DEF Sticks, SnapshotInv
<1>7. CASE UNCHANGED vars
  <2>1. UNCHANGED <<now, public, service, thread>>
    BY <1>7 DEF vars
  <2>2. UNCHANGED <<now, signed, issued_at, published, revoked, revokedAt, thread>>
    BY <2>1 DEF public, service
  <2>3. SignedWasLive'
    BY <1>1, <2>2 DEF SignedWasLive
  <2>4. InFlight' /\ \A t \in Thread : Progress(t)'
    BY <1>1, <1>5, <2>2, <1>3, ThreadsRest
  <2>5. QED
    BY <1>1, <1>2, <1>4, <2>3, <2>4 DEF SnapshotInv
<1>8. CASE Tick
  <2>1. now' = now + 1 /\ UNCHANGED <<signed, issued_at, published, revoked, revokedAt, thread>>
    BY <1>8 DEF Tick, public, service
  <2>2. SignedWasLive'
    <3>1. \A s \in signed : s.published_at <= now + 1 + Ahead
      BY <1>1, <1>5 DEF SignedWasLive
    <3>2. QED
      BY <1>1, <2>1, <3>1 DEF SignedWasLive
  <2>3. InFlight' /\ \A t \in Thread : Progress(t)'
    BY <1>1, <1>5, <2>1, <1>3, ThreadsRest
  <2>4. QED
    BY <1>1, <1>2, <1>4, <2>2, <2>3 DEF SnapshotInv
<1>9. ASSUME NEW i \in Id, Revoke(i) PROVE SnapshotInv'
  <2>1. /\ revoked' = revoked \cup {i}
        /\ UNCHANGED <<now, signed, issued_at, published, thread>>
    BY <1>9 DEF Revoke, public
  <2>2. /\ \A j \in Id \ {i} : revokedAt'[j] = revokedAt[j]
        /\ revokedAt'[i] = revokedAt[i] \/ revokedAt'[i] = now
    BY <1>1, <1>9 DEF Revoke, Types, ServiceOK
  <2>3. SignedWasLive'
    <3>1. \A j \in Id : j \notin revoked' => revokedAt'[j] = Never
      BY <1>1, <2>1, <2>2 DEF SignedWasLive
    <3>2. ASSUME NEW s \in signed, NEW j \in Id, j \notin s.revoked
          PROVE  s.published_at <= revokedAt'[j] + Ahead
      <4>1. s.published_at <= revokedAt[j] + Ahead /\ s.published_at <= now + Ahead
        BY <1>1, <3>2 DEF SignedWasLive
      <4>2. QED
        BY <2>2, <4>1
    <3>3. QED
      BY <1>1, <2>1, <3>1, <3>2 DEF SignedWasLive
  <2>4. \A j \in Id : revokedAt'[j] = revokedAt[j] \/ now <= revokedAt'[j]
    BY <1>5, <2>2
  <2>5. InFlight' /\ \A t \in Thread : Progress(t)'
    BY <1>1, <1>5, <2>1, <2>4, <1>3, ThreadsRest
  <2>6. QED
    BY <1>1, <1>2, <1>4, <2>3, <2>5 DEF SnapshotInv
<1>10. ASSUME NEW i \in Id, Publish(i) PROVE SnapshotInv'
  <2>1. published \subseteq published' /\ UNCHANGED <<now, signed, issued_at, revoked, revokedAt, thread>>
    BY <1>10 DEF Publish, service
  <2>2. SignedWasLive'
    BY <1>1, <2>1 DEF SignedWasLive
  <2>3. InFlight' /\ \A t \in Thread : Progress(t)'
    BY <1>1, <1>5, <2>1, <1>3, ThreadsRest
  <2>4. QED
    BY <1>1, <1>2, <1>4, <2>2, <2>3 DEF SnapshotInv
<1>11. CASE SignSnapshot
  <2>1. /\ signed' = signed \cup {CurrentSnapshot}
        /\ UNCHANGED <<now, issued_at, published, revoked, revokedAt, thread>>
    BY <1>11 DEF SignSnapshot, service
  <2>2. /\ CurrentSnapshot.published_at = now + Ahead
        /\ CurrentSnapshot.revoked = revoked
    BY DEF CurrentSnapshot
  <2>3. \A i \in Id : i \notin revoked => now + Ahead <= revokedAt[i] + Ahead
    BY <1>1, <1>5 DEF SignedWasLive, Never
  <2>4. SignedWasLive'
    BY <1>1, <1>5, <2>1, <2>2, <2>3 DEF SignedWasLive
  <2>5. InFlight' /\ \A t \in Thread : Progress(t)'
    BY <1>1, <1>5, <2>1, <1>3, ThreadsRest
  <2>6. QED
    BY <1>1, <1>2, <1>4, <2>4, <2>5 DEF SnapshotInv
<1>12. CASE ServiceRestart
  <2>1. /\ revokedAt' = [i \in Id |-> Never]
        /\ UNCHANGED <<now, signed, issued_at, published, thread>>
    BY <1>12 DEF ServiceRestart, public
  <2>2. \A i \in Id : revokedAt'[i] = Never /\ now <= revokedAt'[i]
    BY <1>5, <2>1 DEF Never
  <2>3. \A s \in signed, i \in Id : s.published_at <= now + Ahead /\ now + Ahead <= Never + Ahead
    BY <1>1, <1>5 DEF SignedWasLive, Never
  <2>4. \A s \in signed, i \in Id : s.published_at <= revokedAt'[i] + Ahead
    BY <1>5, <2>2, <2>3 DEF Never
  <2>5. SignedWasLive'
    BY <1>1, <2>1, <2>2, <2>4 DEF SignedWasLive
  <2>6. InFlight' /\ \A t \in Thread : Progress(t)'
    BY <1>1, <1>5, <2>1, <2>2, <1>3, ThreadsRest
  <2>7. QED
    BY <1>1, <1>2, <1>4, <2>5, <2>6 DEF SnapshotInv
<1>13. ASSUME NEW t \in Thread, Works(t) PROVE SnapshotInv'
  <2>1. InFlight' /\ \A u \in Thread : Progress(u)'
    BY <1>1, <1>13, <1>6, AskTtlStep, AskLogStep, FetchStep, FetchFailsStep, LoadStep, StoreStep
       DEF Works
  <2>2. UNCHANGED <<now, public, service>>
    BY <1>13 DEF Works, AskTtl, AskLog, Fetch, FetchFails, Load, Store
  <2>3. SignedWasLive'
    BY <1>1, <2>2 DEF SignedWasLive, public, service
  <2>4. QED
    BY <1>1, <1>2, <1>4, <2>1, <2>3 DEF SnapshotInv
<1>14. ASSUME NEW c \in Checker, CheckerRestart(c) PROVE SnapshotInv'
  <2>1. UNCHANGED <<now, signed, issued_at, published, revoked, revokedAt>>
    BY <1>14 DEF CheckerRestart, public, service
  <2>2. SignedWasLive'
    BY <1>1, <2>1 DEF SignedWasLive
  <2>3. ASSUME NEW t \in Thread, CheckerOf[t] = c
        PROVE  /\ pc'[t] = "ask" /\ hop'[t] = 1 /\ at'[t] = 1 /\ answer'[t] = "refused"
               /\ before'[t] = AtFirst
    BY <1>14, <2>3 DEF CheckerRestart
  <2>4. ASSUME NEW t \in Thread, CheckerOf[t] # c
        PROVE  /\ pc'[t] = pc[t] /\ hop'[t] = hop[t] /\ at'[t] = at[t]
               /\ undeterminable'[t] = undeterminable[t] /\ snapshot'[t] = snapshot[t]
               /\ answer'[t] = answer[t] /\ before'[t] = before[t]
    BY <1>14, <2>4 DEF CheckerRestart
  <2>5. InFlight'
    <3> SUFFICES ASSUME NEW t \in Thread
                 PROVE  /\ pc'[t] # "ask" => snapshot'[t] \in signed /\ Mechanisms[at'[t]] = "snapshot"
                        /\ before'[t].started <= now
                        /\ before'[t].published \subseteq published
      BY <2>1 DEF InFlight
    <3>1. CASE CheckerOf[t] = c
      BY <1>5, <2>3, <3>1 DEF AtFirst
    <3>2. CASE CheckerOf[t] # c
      BY <1>1, <2>4, <3>2 DEF InFlight
    <3>3. QED
      BY <3>1, <3>2
  <2>6. ASSUME NEW t \in Thread PROVE Progress(t)'
    <3>1. CASE CheckerOf[t] = c
      BY <2>3, <3>1, Numbers DEF Progress, Accepted, Cleared
    <3>2. CASE CheckerOf[t] # c
      <4>1. Accepted(t)' => Accepted(t)
        BY <2>4, <3>2 DEF Accepted
      <4>2. QED
        BY <1>1, <1>3, <2>1, <2>4, <3>2, <4>1, ProgressStays DEF RunsOn
    <3>3. QED
      BY <3>1, <3>2
  <2>7. QED
    BY <1>1, <1>2, <1>4, <2>2, <2>5, <2>6 DEF SnapshotInv
<1>15. QED
  BY <1>7, <1>8, <1>9, <1>10, <1>11, <1>12, <1>13, <1>14 DEF Next

-----------------------------------------------------------------------------
(* The theorems.                                                           *)

LEMMA AcceptedIsCleared ==
  ASSUME SnapshotInv, NEW t \in Thread, Accepted(t), NEW h \in DOMAIN Chain,
         NEW mechanism, Consults(mechanism)
  PROVE  Passes(before[t], Chain[h], mechanism, issued_at[Chain[h]], revokedAt[Chain[h]], Sticks)
<1>1. DOMAIN Chain = 1 .. Len(Chain) /\ DOMAIN Mechanisms = 1 .. Len(Mechanisms)
  BY ChainAssumption, MechanismsAssumption
<1>2. PICK m \in 1 .. Len(Mechanisms) : Mechanisms[m] = mechanism
  BY <1>1 DEF Consults
<1>3. Cleared(before[t], Chain[h], Len(Mechanisms))
  BY <1>1 DEF SnapshotInv, Progress
<1>4. QED
  BY <1>2, <1>3 DEF Cleared

(* Whatever the order of the mechanisms, and however often each fails, a   *)
(* chain with a hop that one of them denies is not accepted.               *)
THEOREM DenialsAreHeard == Spec => []NothingMasks
<1>1. SnapshotInv => NothingMasks
  <2> SUFFICES ASSUME SnapshotInv, NEW t \in Thread, Accepted(t), NEW h \in DOMAIN Chain
               PROVE  /\ Consults("log") => Chain[h] \notin before[t].published
                      /\ Consults("ttl") => /\ issued_at[Chain[h]] # Never
                                            /\ before[t].started <= issued_at[Chain[h]] + Ttl
    BY DEF NothingMasks
  <2>1. ASSUME Consults("log") PROVE Chain[h] \notin before[t].published
    BY <2>1, AcceptedIsCleared DEF Passes
  <2>2. ASSUME Consults("ttl")
        PROVE  issued_at[Chain[h]] # Never /\ before[t].started <= issued_at[Chain[h]] + Ttl
    BY <2>2, AcceptedIsCleared DEF Passes
  <2>3. QED
    BY <2>1, <2>2
<1>2. QED
  BY <1>1, SnapshotInvInit, SnapshotInvNext, PTL DEF Spec

(* Hops that are looked up in different snapshots, by any number of        *)
(* threads, with restarts of both sides in between, were all live not      *)
(* longer than the staleness and the skew before the check began.          *)
THEOREM AcceptedIsFresh == Spec => []AcceptedWasRecentlyLive
<1>1. SnapshotInv => AcceptedWasRecentlyLive
  <2> SUFFICES ASSUME SnapshotInv, NEW t \in Thread, Accepted(t), Consults("snapshot"),
                      NEW h \in DOMAIN Chain
               PROVE  before[t].started <= revokedAt[Chain[h]] + MaxStaleness + Ahead
    BY DEF AcceptedWasRecentlyLive
  <2>1. Passes(before[t], Chain[h], "snapshot", issued_at[Chain[h]], revokedAt[Chain[h]], Sticks)
    BY AcceptedIsCleared
  <2>2. QED
    BY <2>1 DEF Passes
<1>2. QED
  BY <1>1, SnapshotInvInit, SnapshotInvNext, PTL DEF Spec

(* A checker that is not shared between threads rejects every snapshot     *)
(* older than the newest it has trusted.                                   *)
THEOREM UnsharedRejectsRolledBack ==
  ASSUME Unshared
  PROVE  Spec => []RejectsRolledBack
<1>1. SnapshotInv => RejectsRolledBack
  <2> SUFFICES ASSUME SnapshotInv, NEW t \in Thread, pc[t] = "store"
               PROVE  snapshot[t].epoch >= before[t].newest
    BY DEF RejectsRolledBack
  <2>1. /\ before[t].newest <= newest[CheckerOf[t]]
        /\ snapshot[t].epoch >= newest[CheckerOf[t]]
    BY DEF SnapshotInv, SeenIsNewest
  <2>2. snapshot[t] \in Snapshot \cup {NoSnapshot}
    BY DEF SnapshotInv, Types, ThreadOK
  <2>3. before[t].newest \in Nat /\ newest[CheckerOf[t]] \in Nat /\ snapshot[t].epoch \in Nat
    BY <2>2, Numbers, CheckerAssumption
       DEF SnapshotInv, Types, BeforeOK, CheckersOK, Epoch, Snapshot, NoSnapshot
  <2>4. QED
    BY <2>1, <2>3
<1>2. QED
  BY <1>1, SnapshotInvInit, SnapshotInvNext, PTL DEF Spec

(* A checker that is not shared, of a service that does not restart, never *)
(* accepts what it has called revoked.                                     *)
THEOREM UnsharedRevokedSticks ==
  ASSUME Unshared
  PROVE  Spec => []RevokedSticks
<1>1. SnapshotInv => RevokedSticks
  <2> SUFFICES ASSUME SnapshotInv, NEW t \in Thread, Accepted(t), ~restarted, NEW h \in DOMAIN Chain,
                      Chain[h] \in before[t].told
               PROVE  FALSE
    BY DEF RevokedSticks
  <2>1. restarted = FALSE
    BY DEF SnapshotInv, Types, ServiceOK
  <2>2. Sticks
    BY <2>1 DEF Sticks
  <2>3. Told(Chain[h], newest[CheckerOf[t]], before[t].published, signed, revoked)
    BY <2>1 DEF SnapshotInv, ToldIsTrue
  <2>4. CASE Consults("log") /\ Chain[h] \in before[t].published
    BY <2>4, AcceptedIsCleared DEF Passes
  <2>5. CASE Consults("snapshot")
    <3>1. Passes(before[t], Chain[h], "snapshot", issued_at[Chain[h]], revokedAt[Chain[h]], Sticks)
      BY <2>5, AcceptedIsCleared
    <3>2. QED
      BY <2>2, <2>4, <3>1 DEF Passes
  <2>6. QED
    BY <2>3, <2>4, <2>5 DEF Told
<1>2. QED
  BY <1>1, SnapshotInvInit, SnapshotInvNext, PTL DEF Spec
=============================================================================
