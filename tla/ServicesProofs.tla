--------------------------- MODULE ServicesProofs ---------------------------
(***************************************************************************)
(* Proofs about the parts without threads of their own: a handler's        *)
(* cleanups, the reading of the traffic, the connection to Proxyman, a     *)
(* run_test with its profiler, the Loupe driver and a feature test.  Each  *)
(* part has its own specification, invariant and theorems, for all values  *)
(* of the constants.                                                       *)
(***************************************************************************)
EXTENDS FeatureTest, Cleanup, HarCache, ProxymanClient, TestRun, LoupeDriver,
        FiniteSetTheorems, SequenceTheorems, WellFoundedInduction, TLAPS

-----------------------------------------------------------------------------
(***************************************************************************)
(* A handler's cleanups: those on the stack when the runner ends run once  *)
(* each, the last registered first, whatever a runner that is late does.   *)
(***************************************************************************)

CleanupAction == [id : Nat, name : Name]

CleanupType ==
  /\ actions \in Seq(CleanupAction) /\ added \in Nat /\ at \in Nat
  /\ ran \in Seq(Nat) /\ pending \in Seq(Nat)
  /\ phase \in {"body", "aborted", "cleaning", "over"}
  /\ late \in BOOLEAN

(* Only a late body still registers or forgets when the cleanups run. *)
Stacked ==
  /\ late => Len(actions) <= added /\ added <= 1
  /\ phase = "cleaning" /\ ~ late => Ids(actions) = pending
  /\ phase = "cleaning" /\ late => at = 0

(* What has run is the end of what was registered, the last one first. *)
RanBackwards ==
  /\ phase \in {"body", "aborted"} => ran = <<>>
  /\ phase = "body" => outcome = "none"
  /\ phase \in {"aborted", "cleaning"} => outcome = "throws"
  /\ phase = "cleaning" =>
       /\ at <= Len(pending) /\ Len(ran) = Len(pending) - at
       /\ \A k \in 1 .. Len(ran) : ran[k] = pending[Len(pending) + 1 - k]

CleanupInv == CleanupType /\ Stacked /\ RanBackwards /\ CleanedUpOnce

-----------------------------------------------------------------------------
(* The cleanups of a handler. *)

(* The last index at which something is found is one of the sequence. *)
LEMMA LastIndex ==
  ASSUME NEW n \in Nat, NEW I \in SUBSET (1 .. n), I # {}
  PROVE  Max(I) \in I
<1> DEFINE above(j) == j + 1 .. n
<1> DEFINE W == {above(j) : j \in I}
<1>1. W \subseteq FiniteSubsetsOf(1 .. n) /\ W # {}
  <2>1. \A j \in I : above(j) \in SUBSET (1 .. n)
    OBVIOUS
  <2>2. \A j \in I : IsFiniteSet(above(j))
    BY <2>1, FS_Interval, FS_Subset
  <2> QED
    BY <2>1, <2>2 DEF FiniteSubsetsOf
<1>2. PICK w \in W : \A v \in W : <<v, w>> \notin StrictSubsetOrdering(1 .. n)
  BY <1>1, FS_StrictSubsetOrderingWellFounded, WFMin
<1>3. PICK m \in I : w = above(m)
  BY <1>2
<1>4. \A j \in I : m >= j
  <2> SUFFICES ASSUME NEW j \in I, j > m PROVE FALSE
    OBVIOUS
  <2>1. above(j) \in W /\ above(j) \subseteq above(m) /\ j \in above(m) /\ j \notin above(j)
    OBVIOUS
  <2>2. above(j) \in SUBSET (1 .. n) /\ above(m) \in SUBSET (1 .. n)
    OBVIOUS
  <2> QED
    BY <1>2, <1>3, <2>1, <2>2 DEF StrictSubsetOrdering
<1> QED
  BY <1>4 DEF Max

(* What is left when one element goes. *)
LEMMA OneLess ==
  ASSUME NEW A, NEW s \in Seq(A), NEW k \in 1 .. Len(s)
  PROVE  RemoveAt(s, k) \in Seq(A) /\ Len(RemoveAt(s, k)) = Len(s) - 1
<1> DEFINE p == SubSeq(s, 1, k - 1)
<1> DEFINE q == SubSeq(s, k + 1, Len(s))
<1>1. p \in Seq(A) /\ Len(p) = k - 1
  OBVIOUS
<1>2. q \in Seq(A) /\ Len(q) = Len(s) - k
  OBVIOUS
<1>3. RemoveAt(s, k) = p \o q
  BY DEF RemoveAt
<1> HIDE DEF p, q
<1>4. p \o q \in Seq(A) /\ Len(p \o q) = Len(p) + Len(q)
  BY <1>1, <1>2, ConcatProperties
<1> QED
  BY <1>1, <1>2, <1>3, <1>4

LEMMA IdsOf ==
  ASSUME NEW s \in Seq(CleanupAction)
  PROVE  /\ Ids(s) \in Seq(Nat) /\ Len(Ids(s)) = Len(s)
         /\ \A k \in 1 .. Len(s) : Ids(s)[k] = s[k].id
<1>1. Ids(s) = [k \in 1 .. Len(s) |-> s[k].id]
  BY DEF Ids
<1>2. \A k \in 1 .. Len(s) : s[k].id \in Nat
  <2>1. \A k \in 1 .. Len(s) : s[k] \in CleanupAction
    OBVIOUS
  <2> QED
    BY <2>1 DEF CleanupAction
<1> QED
  BY <1>1, <1>2

(* The body registers, or forgets one that is there. *)
LEMMA BodySteps ==
  ASSUME CleanupInv, add \/ forget
  PROVE  CleanupInv'
<1>1. /\ UNCHANGED <<phase, outcome, at, ran, pending, late>>
      /\ phase = "body" \/ late
  BY DEF add, forget, BodyRuns
<1>2. /\ CleanupType /\ Stacked /\ RanBackwards /\ CleanedUpOnce
      /\ actions \in Seq(CleanupAction) /\ added \in Nat /\ Len(actions) \in Nat
  BY DEF CleanupInv, CleanupType
<1>3. /\ actions' \in Seq(CleanupAction) /\ added' \in Nat
      /\ late => Len(actions') <= added' /\ added' <= 1
  <2>1. CASE add
    <3>1. PICK n \in Name : actions' = Append(actions, [id |-> added + 1, name |-> n])
      BY <2>1 DEF add
    <3>2. [id |-> added + 1, name |-> n] \in CleanupAction
      BY <1>2 DEF CleanupAction
    <3>3. actions' \in Seq(CleanupAction) /\ Len(actions') = Len(actions) + 1
      BY <1>2, <3>1, <3>2
    <3>4. added' = added + 1 /\ added < Limit
      BY <2>1 DEF add
    <3> QED
      BY <1>2, <3>3, <3>4 DEF Stacked, Limit
  <2>2. CASE forget
    <3>1. PICK n \in Name :
            LET k == SelectLastInSeq(actions, LAMBDA a : a.name = n)
            IN  k # 0 /\ actions' = RemoveAt(actions, k)
      BY <2>2 DEF forget
    <3> DEFINE I == {j \in 1 .. Len(actions) : actions[j].name = n}
    <3>2. I # {} /\ actions' = RemoveAt(actions, Max(I))
      BY <3>1 DEF SelectLastInSeq
    <3>3. I \in SUBSET (1 .. Len(actions))
      OBVIOUS
    <3>4. Max(I) \in 1 .. Len(actions)
      BY <1>2, <3>2, <3>3, LastIndex
    <3>5. actions' \in Seq(CleanupAction) /\ Len(actions') = Len(actions) - 1
      BY <1>2, <3>2, <3>4, OneLess
    <3>6. added' = added
      BY <2>2 DEF forget
    <3> QED
      BY <1>2, <3>5, <3>6 DEF Stacked
  <2> QED
    BY <2>1, <2>2
<1>4. CleanupType'
  BY <1>1, <1>2, <1>3 DEF CleanupType
<1>5. Stacked'
  BY <1>1, <1>2, <1>3 DEF Stacked
<1>6. RanBackwards' /\ CleanedUpOnce'
  BY <1>1, <1>2 DEF RanBackwards, CleanedUpOnce
<1> QED
  BY <1>4, <1>5, <1>6 DEF CleanupInv

(* The body ends, or its watchdog fires. *)
LEMMA BodyEnds ==
  ASSUME CleanupInv, Returns \/ Throws \/ Watchdog
  PROVE  CleanupInv'
<1>1. /\ UNCHANGED <<actions, added, at, ran, pending, late>>
      /\ \/ phase = "body" /\ phase' = "over" /\ outcome' = "ok"
         \/ phase = "body" /\ phase' = "aborted" /\ outcome' = "throws"
         \/ late /\ UNCHANGED <<phase, outcome>>
  BY DEF Returns, Throws, Watchdog, Abort, BodyRuns
<1> QED
  BY <1>1 DEF CleanupInv, CleanupType, Stacked, RanBackwards, CleanedUpOnce

(* runAll begins, or goes on: the one at k is called, or all were. *)
LEMMA RunSteps ==
  ASSUME CleanupInv, runAll \/ RunNext
  PROVE  CleanupInv'
<1>1. /\ CleanupType /\ Stacked /\ RanBackwards
      /\ actions \in Seq(CleanupAction) /\ Len(actions) \in Nat
      /\ ran \in Seq(Nat) /\ pending \in Seq(Nat) /\ at \in Nat
  BY DEF CleanupInv, CleanupType
<1>2. /\ Ids(actions) \in Seq(Nat) /\ Len(Ids(actions)) = Len(actions)
      /\ \A j \in 1 .. Len(actions) : Ids(actions)[j] = actions[j].id
  BY <1>1, IdsOf
<1>3. UNCHANGED <<added, outcome, late>> /\ outcome = "throws"
  BY <1>1 DEF runAll, RunNext, RanBackwards
<1>4. PICK k \in Nat :
        /\ RunFrom(k)
        /\ pending' \in Seq(Nat) /\ k <= Len(pending') /\ Len(ran) = Len(pending') - k
        /\ \A j \in 1 .. Len(ran) : ran[j] = pending'[Len(pending') + 1 - j]
        /\ k > 0 => Ids(actions) = pending'
        /\ late => k <= 1
  <2>1. CASE runAll
    <3>1. RunFrom(Len(actions)) /\ pending' = Ids(actions) /\ ran = <<>>
      BY <1>1, <2>1 DEF runAll, RanBackwards
    <3>2. late => Len(actions) <= 1
      BY <1>1 DEF Stacked, CleanupType
    <3> USE <1>1
    <3> WITNESS Len(actions) \in Nat
    <3> QED
      BY <1>2, <3>1, <3>2
  <2>2. CASE RunNext
    <3>1. RunFrom(at) /\ pending' = pending /\ phase = "cleaning"
      BY <2>2 DEF RunNext
    <3>2. late => at = 0
      BY <1>1, <3>1 DEF Stacked
    <3>3. at > 0 => Ids(actions) = pending
      BY <1>1, <3>1 DEF Stacked
    <3>4. /\ at <= Len(pending) /\ Len(ran) = Len(pending) - at
          /\ \A j \in 1 .. Len(ran) : ran[j] = pending[Len(pending) + 1 - j]
      BY <1>1, <3>1 DEF RanBackwards
    <3> USE <1>1
    <3> WITNESS at \in Nat
    <3> QED
      BY <3>1, <3>2, <3>3, <3>4
  <2> QED
    BY <2>1, <2>2
<1>5. CASE k = 0
  <2>1. phase' = "over" /\ actions' = <<>> /\ UNCHANGED <<at, ran>>
    BY <1>4, <1>5 DEF RunFrom
  <2>2. CleanupType'
    BY <1>1, <1>3, <1>4, <2>1 DEF CleanupType
  <2>3. Stacked'
    BY <1>1, <1>3, <2>1 DEF Stacked, CleanupType
  <2>4. RanBackwards'
    BY <2>1 DEF RanBackwards
  <2>5. ran = Reverse(pending')
    <3>1. Len(ran) = Len(pending')
      BY <1>1, <1>4, <1>5
    <3>2. ran = [j \in 1 .. Len(pending') |-> pending'[(Len(pending') - j) + 1]]
      <4>1. \A j \in 1 .. Len(pending') : ran[j] = pending'[(Len(pending') - j) + 1]
        <5> SUFFICES ASSUME NEW j \in 1 .. Len(pending')
                     PROVE  ran[j] = pending'[(Len(pending') - j) + 1]
          OBVIOUS
        <5>1. ran[j] = pending'[Len(pending') + 1 - j]
          BY <1>4, <3>1
        <5>2. Len(pending') + 1 - j = (Len(pending') - j) + 1
          BY <1>4
        <5> QED
          BY <5>1, <5>2
      <4>2. ran = [j \in 1 .. Len(pending') |-> ran[j]]
        BY <1>1, <3>1
      <4> QED
        BY <4>1, <4>2
    <3> QED
      BY <3>2 DEF Reverse
  <2>6. CleanedUpOnce'
    BY <1>3, <2>1, <2>5 DEF CleanedUpOnce
  <2> QED
    BY <2>2, <2>3, <2>4, <2>6 DEF CleanupInv
<1>6. CASE k # 0
  <2>1. /\ ran' = Append(ran, actions[k].id) /\ at' = k - 1 /\ phase' = "cleaning"
        /\ actions' = actions
    BY <1>4, <1>6 DEF RunFrom
  <2>2. k \in 1 .. Len(actions) /\ Ids(actions) = pending' /\ at' \in Nat
    BY <1>2, <1>4, <1>6, <2>1
  <2>3. actions[k].id = pending'[k] /\ pending'[k] \in Nat
    BY <1>2, <1>4, <2>2
  <2>4. /\ ran' \in Seq(Nat) /\ Len(ran') = Len(ran) + 1
        /\ \A j \in 1 .. Len(ran) : ran'[j] = ran[j]
        /\ ran'[Len(ran) + 1] = pending'[k]
    BY <1>1, <2>1, <2>3
  <2>5. CleanupType'
    BY <1>1, <1>3, <1>4, <2>1, <2>2, <2>4 DEF CleanupType
  <2>6. Stacked'
    BY <1>1, <1>3, <1>4, <1>6, <2>1, <2>2 DEF Stacked
  <2>7. RanBackwards'
    <3>0. /\ k <= Len(pending') /\ Len(ran) = Len(pending') - k
          /\ Len(pending') \in Nat /\ Len(ran) \in Nat
      BY <1>1, <1>4
    <3>1. Len(pending') + 1 - (Len(ran) + 1) = k /\ Len(ran) \in Nat
      BY <3>0
    <3>2. at' <= Len(pending') /\ Len(ran') = Len(pending') - at'
      <4>1. at' = k - 1 /\ Len(ran') = Len(ran) + 1
        BY <2>1, <2>4
      <4> QED
        BY <3>0, <4>1
    <3>3. \A j \in 1 .. Len(ran') : ran'[j] = pending'[Len(pending') + 1 - j]
      <4> SUFFICES ASSUME NEW j \in 1 .. Len(ran')
                   PROVE  ran'[j] = pending'[Len(pending') + 1 - j]
        OBVIOUS
      <4>1. CASE j = Len(ran) + 1
        BY <2>4, <3>1, <4>1
      <4>2. CASE j # Len(ran) + 1
        <5>1. j \in 1 .. Len(ran)
          BY <2>4, <3>1, <4>2
        <5> QED
          BY <1>4, <2>4, <5>1
      <4> QED
        BY <4>1, <4>2
    <3> QED
      BY <1>3, <2>1, <3>2, <3>3 DEF RanBackwards
  <2>8. CleanedUpOnce'
    BY <2>1 DEF CleanedUpOnce
  <2> QED
    BY <2>5, <2>6, <2>7, <2>8 DEF CleanupInv
<1> QED
  BY <1>5, <1>6

(* The inductive invariant of the cleanups. *)
THEOREM CleanupInvariance == CleanupSpec => []CleanupInv
<1>1. CleanupInit => CleanupInv
  BY DEF CleanupInit, CleanupInv, CleanupType, Stacked, RanBackwards, CleanedUpOnce
<1>2. CleanupInv /\ [CleanupNext]_cleanupVars => CleanupInv'
  <2> SUFFICES ASSUME CleanupInv, [CleanupNext]_cleanupVars PROVE CleanupInv'
    OBVIOUS
  <2>1. CASE UNCHANGED cleanupVars
    BY <2>1 DEF cleanupVars, CleanupInv, CleanupType, Stacked, RanBackwards, CleanedUpOnce, Ids
  <2> QED
    BY <2>1, BodySteps, BodyEnds, RunSteps DEF CleanupNext
<1> QED
  BY <1>1, <1>2, PTL DEF CleanupSpec

(* After a failure the cleanups that are registered run once each, the     *)
(* last one first, however long the body was and whatever it did.          *)
THEOREM CleanupsRunOnce == CleanupSpec => []CleanedUpOnce
<1>1. CleanupInv => CleanedUpOnce
  BY DEF CleanupInv
<1> QED
  BY <1>1, CleanupInvariance, PTL

-----------------------------------------------------------------------------
(***************************************************************************)
(* The reading of the traffic, for any domains, readers and times: data    *)
(* kept or exported has all the requests of its domains up to its time.    *)
(***************************************************************************)

Traffic == [domain : Domain, time : Nat]
ReaderState == [pc : {"idle", "exporting", "exported", "answered"}, asks : Asks \cup {{}},
                start : Nat, began : Nat, data : SUBSET Traffic, of : Asks \cup {{}}]

HarType ==
  /\ now \in Nat /\ traffic \in SUBSET Traffic
  /\ cachedHar \in [data : SUBSET Traffic, timestamp : Nat, of : Asks \cup {{}}]
  /\ reader \in [Reader -> ReaderState]

(* data has every request of the domains that was made before the time. *)
Covers(data, domains, time) ==
  \A e \in traffic : e.domain \in domains /\ e.time < time => e \in data

Covered ==
  /\ \A e \in traffic : e.time <= now
  /\ cachedHar.timestamp <= now /\ Covers(cachedHar.data, cachedHar.of, cachedHar.timestamp)
  /\ \A c \in Reader :
       /\ reader[c].began <= now
       /\ reader[c].pc \in {"exporting", "exported"} => reader[c].of = reader[c].asks
       /\ reader[c].pc = "exported" =>
            Covers(reader[c].data, reader[c].asks, reader[c].began)

HarInv == HarType /\ Covered /\ AnswerIsFresh

-----------------------------------------------------------------------------
(* The reading of the traffic. *)

(* A reader has moved: what is left to show is that its answer is fresh,   *)
(* and its export complete.                                                *)
LEMMA ReaderMoves ==
  ASSUME HarInv, NEW c \in Reader, NEW r \in ReaderState, Ask(c, r),
         UNCHANGED <<now, traffic>>,
         r.began <= now,
         r.pc \in {"exporting", "exported"} => r.of = r.asks,
         r.pc = "exported" => Covers(r.data, r.asks, r.began),
         r.pc = "answered" =>
           \A e \in traffic :
             /\ e.domain \in r.asks \cap r.of
             /\ e.time >= r.start /\ e.time + cacheValidity <= r.began
             => e \in r.data,
         \/ cachedHar' = cachedHar
         \/ /\ cachedHar' \in [data : SUBSET Traffic, timestamp : Nat, of : Asks \cup {{}}]
            /\ cachedHar'.timestamp <= now
            /\ Covers(cachedHar'.data, cachedHar'.of, cachedHar'.timestamp)
  PROVE  HarInv'
<1>1. HarType /\ Covered /\ AnswerIsFresh
  BY DEF HarInv
<1>2. /\ reader' \in [Reader -> ReaderState] /\ reader'[c] = r
      /\ \A d \in Reader : d # c => reader'[d] = reader[d]
  BY <1>1 DEF HarType, Ask
<1>3. HarType'
  BY <1>1, <1>2 DEF HarType
<1>4. Covered'
  BY <1>1, <1>2 DEF Covered, Covers
<1>5. AnswerIsFresh'
  BY <1>1, <1>2 DEF AnswerIsFresh
<1> QED
  BY <1>3, <1>4, <1>5 DEF HarInv

(* The cache is at most a second old: it has all that is older than two. *)
LEMMA CachedAnswers ==
  ASSUME HarInv, NEW c \in Reader, Cached(c)
  PROVE  HarInv'
<1>1. HarType /\ Covered
  BY DEF HarInv
<1>2. PICK ask \in Asks, start \in {1, now} :
        Ask(c, [pc |-> "answered", asks |-> ask, start |-> start, began |-> now,
                data |-> Scoped(cachedHar.data, start), of |-> cachedHar.of])
  BY DEF Cached
<1> DEFINE r == [pc |-> "answered", asks |-> ask, start |-> start, began |-> now,
                 data |-> Scoped(cachedHar.data, start), of |-> cachedHar.of]
<1>3. /\ now \in Nat /\ cachedHar.data \in SUBSET Traffic /\ cachedHar.of \in Asks \cup {{}}
      /\ cachedHar.timestamp \in Nat /\ now - cachedHar.timestamp < 2
      /\ \A e \in traffic : e.time \in Nat
  BY <1>1 DEF HarType, Traffic, Cached, CacheIsFresh, cacheValidity
<1>4. r \in ReaderState
  BY <1>3 DEF ReaderState, Scoped
<1>5. \A e \in traffic :
        /\ e.domain \in r.asks \cap r.of
        /\ e.time >= r.start /\ e.time + cacheValidity <= r.began
        => e \in r.data
  <2> SUFFICES ASSUME NEW e \in traffic, e.domain \in cachedHar.of, e.time >= start,
                      e.time + 2 <= now
               PROVE  e \in Scoped(cachedHar.data, start)
    BY DEF cacheValidity
  <2>1. e.time < cachedHar.timestamp
    BY <1>3
  <2>2. e \in cachedHar.data
    BY <1>1, <2>1 DEF Covered, Covers
  <2> QED
    BY <2>2 DEF Scoped
<1>6. Ask(c, r) /\ r.pc = "answered" /\ r.began <= now
  BY <1>2, <1>3
<1>7. UNCHANGED <<now, traffic, cachedHar>>
  BY DEF Cached
<1> HIDE DEF r
<1> QED
  BY <1>4, <1>5, <1>6, <1>7, ReaderMoves

(* An export begins, reads, or fails. *)
LEMMA Exports ==
  ASSUME HarInv, NEW c \in Reader, Export(c) \/ exportHar(c) \/ ExportFails(c)
  PROVE  HarInv'
<1>1. HarType /\ Covered /\ reader[c] \in ReaderState /\ now \in Nat
  BY DEF HarInv, HarType
<1>2. UNCHANGED <<now, traffic, cachedHar>>
  BY DEF Export, exportHar, ExportFails
<1>3. PICK r \in ReaderState :
        /\ Ask(c, r) /\ r.pc # "answered" /\ r.began <= now
        /\ r.pc \in {"exporting", "exported"} => r.of = r.asks
        /\ r.pc = "exported" => Covers(r.data, r.asks, r.began)
  <2>1. CASE Export(c)
    <3>1. PICK ask \in Asks, start \in {1, now} :
            Ask(c, [pc |-> "exporting", asks |-> ask, start |-> start, began |-> now,
                    data |-> {}, of |-> ask])
      BY <2>1 DEF Export
    <3>2. [pc |-> "exporting", asks |-> ask, start |-> start, began |-> now,
           data |-> {}, of |-> ask] \in ReaderState
      BY <1>1 DEF ReaderState
    <3> QED
      BY <1>1, <3>1, <3>2
  <2>2. CASE exportHar(c)
    <3> DEFINE seen == {e \in traffic : e.domain \in reader[c].asks}
    <3>1. PICK r : r = [reader[c] EXCEPT !.pc = "exported", !.data = seen]
      OBVIOUS
    <3>2. r = [pc |-> "exported", asks |-> reader[c].asks, start |-> reader[c].start,
               began |-> reader[c].began, data |-> seen, of |-> reader[c].of]
      BY <1>1, <3>1 DEF ReaderState
    <3>3. seen \in SUBSET Traffic
      BY <1>1 DEF HarType
    <3>4. r \in ReaderState
      BY <1>1, <3>2, <3>3 DEF ReaderState
    <3>5. Ask(c, r)
      BY <2>2, <3>1 DEF exportHar
    <3>6. reader[c].of = reader[c].asks /\ reader[c].began <= now
      BY <1>1, <2>2 DEF exportHar, Covered
    <3>7. Covers(r.data, r.asks, r.began)
      BY <3>2 DEF Covers
    <3> QED
      BY <3>2, <3>4, <3>5, <3>6, <3>7
  <2>3. CASE ExportFails(c)
    <3>1. PICK r : r = [reader[c] EXCEPT !.pc = "idle", !.data = {}]
      OBVIOUS
    <3>2. r = [pc |-> "idle", asks |-> reader[c].asks, start |-> reader[c].start,
               began |-> reader[c].began, data |-> {}, of |-> reader[c].of]
      BY <1>1, <3>1 DEF ReaderState
    <3>3. r \in ReaderState
      BY <1>1, <3>2 DEF ReaderState
    <3>4. Ask(c, r) /\ reader[c].began <= now
      BY <1>1, <2>3, <3>1 DEF ExportFails, Covered
    <3> QED
      BY <3>2, <3>3, <3>4
  <2> QED
    BY <2>1, <2>2, <2>3
<1> QED
  BY <1>2, <1>3, ReaderMoves

(* The export is answered from, and cached as of the time it was asked for. *)
LEMMA ExportAnswers ==
  ASSUME HarInv, NEW c \in Reader, Exported(c)
  PROVE  HarInv'
<1>1. HarType /\ Covered /\ reader[c] \in ReaderState /\ now \in Nat
  BY DEF HarInv, HarType
<1>2. /\ UNCHANGED <<now, traffic>> /\ reader[c].pc = "exported"
      /\ cachedHar' = [data |-> reader[c].data, timestamp |-> reader[c].began,
                       of |-> reader[c].asks]
  BY DEF Exported
<1>3. /\ reader[c].began <= now /\ reader[c].of = reader[c].asks
      /\ Covers(reader[c].data, reader[c].asks, reader[c].began)
  BY <1>1, <1>2 DEF Covered
<1>4. PICK r : r = [reader[c] EXCEPT !.pc = "answered", !.data = Scoped(@, reader[c].start)]
  OBVIOUS
<1>5. r = [pc |-> "answered", asks |-> reader[c].asks, start |-> reader[c].start,
           began |-> reader[c].began, data |-> Scoped(reader[c].data, reader[c].start),
           of |-> reader[c].of]
  BY <1>1, <1>4 DEF ReaderState
<1>6. r \in ReaderState
  BY <1>1, <1>5 DEF ReaderState, Scoped
<1>7. Ask(c, r)
  BY <1>4 DEF Exported, Answers
<1>8. \A e \in traffic :
        /\ e.domain \in r.asks \cap r.of
        /\ e.time >= r.start /\ e.time + cacheValidity <= r.began
        => e \in r.data
  <2> SUFFICES ASSUME NEW e \in traffic, e.domain \in reader[c].asks,
                      e.time >= reader[c].start, e.time + 2 <= reader[c].began
               PROVE  e \in Scoped(reader[c].data, reader[c].start)
    BY <1>5 DEF cacheValidity
  <2>1. e.time < reader[c].began
    BY <1>1 DEF HarType, Traffic, ReaderState
  <2>2. e \in reader[c].data
    BY <1>3, <2>1 DEF Covers
  <2> QED
    BY <2>2 DEF Scoped
<1>9. /\ cachedHar' \in [data : SUBSET Traffic, timestamp : Nat, of : Asks \cup {{}}]
      /\ cachedHar'.timestamp <= now
      /\ Covers(cachedHar'.data, cachedHar'.of, cachedHar'.timestamp)
  BY <1>1, <1>2, <1>3 DEF ReaderState
<1>10. r.pc = "answered" /\ r.began <= now
  BY <1>3, <1>5
<1> QED
  BY <1>2, <1>6, <1>7, <1>8, <1>9, <1>10, ReaderMoves

(* Time passes, and the app makes requests; none of the past. *)
LEMMA TrafficGoesOn ==
  ASSUME HarInv, Passes \/ Request
  PROVE  HarInv'
<1>1. /\ HarType /\ Covered /\ AnswerIsFresh /\ now \in Nat /\ cachedHar.timestamp \in Nat
      /\ \A c \in Reader : reader[c].began \in Nat
      /\ \A e \in traffic : e.time \in Nat
  BY DEF HarInv, HarType, ReaderState, Traffic
<1>2. CASE Passes
  <2>1. now' = now + 1 /\ UNCHANGED <<traffic, cachedHar, reader>>
    BY <1>2 DEF Passes
  <2>2. HarType'
    BY <1>1, <2>1 DEF HarType
  <2>3. Covered'
    BY <1>1, <2>1 DEF Covered, Covers
  <2>4. AnswerIsFresh'
    BY <1>1, <2>1 DEF AnswerIsFresh
  <2> QED
    BY <2>2, <2>3, <2>4 DEF HarInv
<1>3. CASE Request
  <2>1. PICK d \in Domain : traffic' = traffic \cup {[domain |-> d, time |-> now]}
    BY <1>3 DEF Request
  <2>2. UNCHANGED <<now, cachedHar, reader>>
    BY <1>3 DEF Request
  <2>3. \A e \in traffic' : e \in traffic \/ e.time = now
    BY <2>1
  <2>4. HarType'
    <3>1. [domain |-> d, time |-> now] \in Traffic
      BY <1>1 DEF Traffic
    <3> QED
      BY <1>1, <2>1, <2>2, <3>1 DEF HarType
  <2>5. Covered'
    BY <1>1, <2>2, <2>3 DEF Covered, Covers
  <2>6. AnswerIsFresh'
    <3> SUFFICES ASSUME NEW c \in Reader, reader[c].pc = "answered", NEW e \in traffic',
                        e.domain \in reader[c].asks \cap reader[c].of,
                        e.time >= reader[c].start,
                        e.time + cacheValidity <= reader[c].began
                 PROVE  e \in reader[c].data
      BY <2>2 DEF AnswerIsFresh
    <3>1. e.time # now
      BY <1>1 DEF Covered, cacheValidity
    <3> QED
      BY <1>1, <2>3, <3>1 DEF AnswerIsFresh
  <2> QED
    BY <2>4, <2>5, <2>6 DEF HarInv
<1> QED
  BY <1>2, <1>3

(* The inductive invariant of the reading. *)
THEOREM HarInvariance == HarSpec => []HarInv
<1>1. HarInit => HarInv
  <2> SUFFICES ASSUME HarInit PROVE HarInv
    OBVIOUS
  <2>1. HarType
    BY DEF HarInit, HarType, ReaderState
  <2>2. Covered /\ AnswerIsFresh
    BY DEF HarInit, Covered, Covers, AnswerIsFresh
  <2> QED
    BY <2>1, <2>2 DEF HarInv
<1>2. HarInv /\ [HarNext]_harVars => HarInv'
  <2> SUFFICES ASSUME HarInv, [HarNext]_harVars PROVE HarInv'
    OBVIOUS
  <2>1. CASE UNCHANGED harVars
    BY <2>1 DEF harVars, HarInv, HarType, Covered, Covers, AnswerIsFresh
  <2> QED
    BY <2>1, CachedAnswers, Exports, ExportAnswers, TrafficGoesOn DEF HarNext
<1> QED
  BY <1>1, <1>2, PTL DEF HarSpec

(* A verification sees every request older than the cache may be, of the   *)
(* domains it asks for and the data was exported for, whoever exported it  *)
(* and whatever happened meanwhile.                                        *)
THEOREM AnswersAreFresh == HarSpec => []AnswerIsFresh
<1>1. HarInv => AnswerIsFresh
  BY DEF HarInv
<1> QED
  BY <1>1, HarInvariance, PTL

-----------------------------------------------------------------------------
(***************************************************************************)
(* The connection to Proxyman: while the calls come one at a time, a call  *)
(* under way uses the current connection, and only that is alive.          *)
(***************************************************************************)

Conns == Cardinality(DOMAIN conn)
ConnState == {"connecting", "up", "dead", "closed", "failed"}
CallerState == [pc : {"idle", "connect", "connecting", "send", "sent", "performed", "answered",
                      "failed", "close", "closing"},
                using : Nat, again : BOOLEAN, done : Nat]

ClientType ==
  /\ Conns \in Nat /\ conn \in [1 .. Conns -> ConnState]
  /\ client \in 0 .. Conns /\ promise \in 0 .. Conns
  /\ caller \in [Caller -> CallerState]
  /\ faults \in Nat /\ refused \in BOOLEAN /\ overlapped \in BOOLEAN

(* One call at a time: the others are over, and have been told so. *)
OneCall == \A c \in Caller : ~ Over(c) => \A d \in Caller \ {c} : caller[d] = Idle

(* The current connection, and no other, may be alive. *)
OneConnection ==
  /\ promise # 0 => promise = client /\ \E c \in Caller : At(c, "connecting")
  /\ client # 0 /\ promise = 0 =>
       \/ conn[client] \in {"up", "dead"}
       \/ conn[client] = "closed" /\ \E c \in Caller : At(c, "closing")
  /\ promise # 0 => conn[promise] = "connecting"
  /\ \A k \in DOMAIN conn : conn[k] \in {"up", "connecting"} => k = client

(* Each attempt that failed, and a connection that is lost, is a fault. *)
Faulty(c) ==
  /\ At(c, "connecting") => promise # 0
  /\ caller[c].pc \in {"send", "sent", "performed", "close", "closing"} =>
       client # 0 /\ promise = 0
  /\ caller[c].pc \in {"sent", "performed"} => caller[c].using = client
  /\ caller[c].pc \in {"close", "closing"} => ~ caller[c].again /\ faults >= 1
  /\ At(c, "closing") <=> client # 0 /\ promise = 0 /\ conn[client] = "closed"
  /\ Broken \/ caller[c].again => faults >= 1
  /\ Broken /\ caller[c].again => faults >= 2
  /\ At(c, "connect") /\ caller[c].again => client = 0

Serial ==
  /\ OneCall /\ OneConnection
  /\ \A c \in Caller : ~ Over(c) => Faulty(c)
  /\ \A c \in Caller : At(c, "failed") => refused \/ faults >= 2

ClientInv == ClientType /\ (~ overlapped => Serial)

-----------------------------------------------------------------------------
(* The connection to Proxyman. *)

(* What a call that is under way means for the one connection there is. *)
FaultyRecord(r) ==
  /\ r.pc = "connecting" => promise # 0
  /\ r.pc \in {"send", "sent", "performed", "close", "closing"} => client # 0 /\ promise = 0
  /\ r.pc \in {"sent", "performed"} => r.using = client
  /\ r.pc \in {"close", "closing"} => ~ r.again /\ faults >= 1
  /\ r.pc = "closing" <=> client # 0 /\ promise = 0 /\ conn[client] = "closed"
  /\ Broken \/ r.again => faults >= 1
  /\ Broken /\ r.again => faults >= 2
  /\ r.pc = "connect" /\ r.again => client = 0

Finished == {"idle", "answered", "failed"}

(* A step of the one call that is under way: what is left to show is about *)
(* this call and the connection.                                           *)
LEMMA OneCallMoves ==
  ASSUME ClientInv, NEW c \in Caller, NEW r \in CallerState,
         ~ Over(c), caller' = [caller EXCEPT ![c] = r], ClientType',
         overlapped' = overlapped,
         ~ overlapped =>
           /\ r.pc \notin Finished => FaultyRecord(r)'
           /\ r.pc = "failed" => refused' \/ faults' >= 2
           /\ promise' # 0 => /\ promise' = client' /\ conn'[promise'] = "connecting"
                              /\ r.pc = "connecting"
           /\ client' # 0 /\ promise' = 0 =>
                \/ conn'[client'] \in {"up", "dead"}
                \/ conn'[client'] = "closed" /\ r.pc = "closing"
           /\ \A k \in DOMAIN conn' : conn'[k] \in {"up", "connecting"} => k = client'
  PROVE  ClientInv'
<1> SUFFICES ASSUME ~ overlapped PROVE Serial'
  BY DEF ClientInv
<1>1. Serial /\ ClientType
  BY DEF ClientInv
<1>2. /\ caller'[c] = r /\ \A d \in Caller : d # c => caller'[d] = caller[d]
  BY <1>1 DEF ClientType
<1>3. \A d \in Caller : d # c => caller[d] = Idle
  BY <1>1 DEF Serial, OneCall
<1>4. Idle.pc = "idle"
  BY DEF Idle
<1>5. OneCall'
  BY <1>2, <1>3, <1>4 DEF OneCall, Over
<1>6. OneConnection'
  BY <1>2 DEF OneConnection, At
<1>7. (\A d \in Caller : ~ Over(d) => Faulty(d))'
  <2> SUFFICES ASSUME NEW d \in Caller, ~ Over(d)'
               PROVE  Faulty(d)'
    OBVIOUS
  <2>1. d = c
    BY <1>2, <1>3, <1>4 DEF Over
  <2>2. r.pc \notin Finished
    BY <1>2, <2>1 DEF Over, Finished
  <2> QED
    BY <1>2, <2>1, <2>2 DEF FaultyRecord, Faulty, At, Broken
<1>8. (\A d \in Caller : At(d, "failed") => refused \/ faults >= 2)'
  BY <1>2, <1>3, <1>4 DEF At
<1> QED
  BY <1>5, <1>6, <1>7, <1>8 DEF Serial

(* ... the same, in terms of the state before. *)
LEMMA UnderWay ==
  ASSUME ClientInv, NEW c \in Caller, ~ Over(c)
  PROVE  /\ caller[c] \in CallerState
         /\ ~ overlapped =>
              /\ FaultyRecord(caller[c])
              /\ \A d \in Caller : d # c => caller[d] = Idle /\ caller[d].pc = "idle"
              /\ promise # 0 => /\ promise = client /\ conn[promise] = "connecting"
                                /\ caller[c].pc = "connecting"
              /\ client # 0 /\ promise = 0 =>
                   \/ conn[client] \in {"up", "dead"}
                   \/ conn[client] = "closed" /\ caller[c].pc = "closing"
              /\ \A k \in DOMAIN conn : conn[k] \in {"up", "connecting"} => k = client
<1>1. ClientType
  BY DEF ClientInv
<1>2. caller[c] \in CallerState
  BY <1>1 DEF ClientType
<1>3. ASSUME ~ overlapped
      PROVE  /\ FaultyRecord(caller[c])
             /\ \A d \in Caller : d # c => caller[d] = Idle /\ caller[d].pc = "idle"
             /\ promise # 0 => /\ promise = client /\ conn[promise] = "connecting"
                               /\ caller[c].pc = "connecting"
             /\ client # 0 /\ promise = 0 =>
                  \/ conn[client] \in {"up", "dead"}
                  \/ conn[client] = "closed" /\ caller[c].pc = "closing"
             /\ \A k \in DOMAIN conn : conn[k] \in {"up", "connecting"} => k = client
  <2>1. OneCall /\ OneConnection /\ Faulty(c)
    BY <1>3 DEF ClientInv, Serial
  <2>2. \A d \in Caller : d # c => caller[d] = Idle /\ caller[d].pc = "idle"
    BY <2>1 DEF OneCall, Idle
  <2>3. FaultyRecord(caller[c])
    BY <2>1 DEF Faulty, FaultyRecord, At, Broken
  <2>4. \A d \in Caller : At(d, "connecting") \/ At(d, "closing") => d = c
    BY <2>2 DEF At
  <2> QED
    BY <2>1, <2>2, <2>3, <2>4 DEF OneConnection, At
<1> QED
  BY <1>2, <1>3

(* A call that stays where it is but for its own record. *)
LEMMA CallMoves ==
  ASSUME ClientInv, NEW c \in Caller, NEW r \in CallerState, ~ Over(c),
         caller' = [caller EXCEPT ![c] = r],
         UNCHANGED <<client, promise, conn, refused, overlapped>>, faults' \in Nat,
         ~ overlapped => /\ r.pc \notin Finished => FaultyRecord(r)'
                         /\ r.pc = "failed" => refused \/ faults' >= 2
                         /\ caller[c].pc # "connecting" /\ caller[c].pc # "closing"
  PROVE  ClientInv'
<1>1. ClientType
  BY DEF ClientInv
<1>2. ClientType'
  <2>1. Conns' = Conns
    BY DEF Conns
  <2> QED
    BY <1>1, <2>1 DEF ClientType
<1> QED
  BY <1>2, UnderWay, OneCallMoves

CallPcs == {"idle", "connect", "connecting", "send", "sent", "performed", "answered", "failed",
        "close", "closing"}

LEMMA AtPc ==
  ASSUME NEW q \in CallerState, NEW p \in CallPcs, NEW r, r = [q EXCEPT !.pc = p]
  PROVE  /\ r \in CallerState
         /\ r = [pc |-> p, using |-> q.using, again |-> q.again, done |-> q.done]
<1>1. r = [pc |-> p, using |-> q.using, again |-> q.again, done |-> q.done]
  BY DEF CallerState
<1> QED
  BY <1>1 DEF CallerState, CallPcs

(* The call is sent, performed, answered, or throws. *)
LEMMA CallGoesOn ==
  ASSUME ClientInv, NEW c \in Caller,
         Send(c) \/ Perform(c) \/ Answer(c) \/ CallThrows(c) \/ TimesOut(c)
  PROVE  ClientInv'
<1>1. /\ ClientType /\ ~ Over(c) /\ caller[c] \in CallerState
      /\ caller \in [Caller -> CallerState]
      /\ caller[c].pc \in {"send", "sent", "performed"}
      /\ UNCHANGED <<client, promise, conn, refused, overlapped>>
      /\ client \in Nat /\ faults \in Nat
  BY DEF ClientInv, ClientType, Over, At, Send, Perform, Answer, CallThrows, TimesOut
<1>2. ~ overlapped =>
        /\ FaultyRecord(caller[c])
        /\ client # 0 /\ promise = 0
        /\ conn[client] \in {"up", "dead"}
  <2>1. FaultyRecord(caller[c]) => client # 0 /\ promise = 0
    BY <1>1 DEF FaultyRecord
  <2> QED
    BY <1>1, <2>1, UnderWay
<1> DEFINE q == caller[c]
<1>3. CASE Send(c)
  <2>1. PICK r : r = [q EXCEPT !.pc = "sent", !.using = client]
    OBVIOUS
  <2>2. r = [pc |-> "sent", using |-> client, again |-> q.again, done |-> q.done]
    BY <1>1, <2>1 DEF CallerState
  <2>3. r \in CallerState
    BY <1>1, <2>2 DEF CallerState
  <2>4. caller' = [caller EXCEPT ![c] = r] /\ faults' = faults
    BY <1>1, <1>3, <2>1 DEF Send
  <2>5. ~ overlapped => FaultyRecord(r)'
    BY <1>1, <1>2, <2>2, <2>4 DEF FaultyRecord, Broken
  <2> QED
    BY <1>1, <2>2, <2>3, <2>4, <2>5, CallMoves
<1>4. CASE Perform(c)
  <2>1. PICK r : r = [q EXCEPT !.pc = "performed", !.done = @ + 1]
    OBVIOUS
  <2>2. r = [pc |-> "performed", using |-> q.using, again |-> q.again, done |-> q.done + 1]
    BY <1>1, <2>1 DEF CallerState
  <2>3. r \in CallerState
    BY <1>1, <2>2 DEF CallerState
  <2>4. caller' = [caller EXCEPT ![c] = r] /\ faults' = faults /\ q.pc = "sent"
    BY <1>1, <1>4, <2>1 DEF Perform, At
  <2>5. ~ overlapped => FaultyRecord(r)'
    BY <1>1, <1>2, <2>2, <2>4 DEF FaultyRecord, Broken
  <2> QED
    BY <1>1, <2>2, <2>3, <2>4, <2>5, CallMoves
<1>5. CASE Answer(c)
  <2>1. PICK r : r = [q EXCEPT !.pc = "answered"]
    OBVIOUS
  <2>2. r \in CallerState /\ r.pc = "answered"
    BY <1>1, <2>1, AtPc DEF CallPcs
  <2>3. caller' = [caller EXCEPT ![c] = r] /\ faults' = faults
    BY <1>5, <2>1 DEF Answer, Goes
  <2> QED
    BY <1>1, <2>2, <2>3, CallMoves DEF Finished
<1>6. CASE CallThrows(c) \/ TimesOut(c)
  <2>1. PICK r : r = [q EXCEPT !.pc = IF q.again THEN "failed" ELSE "close"]
    OBVIOUS
  <2>2. /\ r \in CallerState
        /\ r = [pc |-> IF q.again THEN "failed" ELSE "close", using |-> q.using,
                again |-> q.again, done |-> q.done]
    <3>1. (IF q.again THEN "failed" ELSE "close") \in CallPcs
      BY DEF CallPcs
    <3> QED
      BY <1>1, <2>1, <3>1, AtPc
  <2>3. caller' = [caller EXCEPT ![c] = r] /\ q.pc \in {"sent", "performed"}
    BY <1>6, <2>1 DEF CallThrows, TimesOut, Failing, Goes
  <2>4. \/ faults' = faults /\ ~ Serves(q.using)
        \/ faults' = faults + 1
    BY <1>6 DEF CallThrows, TimesOut
  <2>5. ~ overlapped => faults' >= 1 /\ (q.again => faults' >= 2)
    <3>1. ~ overlapped => q.using = client
      BY <1>2, <2>3 DEF FaultyRecord
    <3>2. ~ overlapped /\ ~ Serves(q.using) => Broken
      BY <1>2, <3>1 DEF Serves, Broken
    <3> QED
      BY <1>1, <1>2, <2>4, <3>2 DEF FaultyRecord
  <2>6. faults' >= faults /\ faults' \in Nat
    BY <1>1, <2>4
  <2>7. ~ overlapped /\ r.pc \notin Finished => FaultyRecord(r)'
    BY <1>1, <1>2, <2>2, <2>5, <2>6 DEF FaultyRecord, Broken, Finished, CallerState
  <2>8. ~ overlapped /\ r.pc = "failed" => faults' >= 2
    BY <2>2, <2>5
  <2> QED
    BY <1>1, <2>2, <2>3, <2>6, <2>7, <2>8, CallMoves
<1> QED
  BY <1>3, <1>4, <1>5, <1>6

(* The children are numbered, and their number is a natural one. *)
LEMMA Numbered ==
  ASSUME ClientType, NEW n \in Nat, DOMAIN conn' = 1 .. n
  PROVE  Conns' = n
<1>1. IsFiniteSet(1 .. n) /\ Cardinality(1 .. n) = IF 1 > n THEN 0 ELSE n - 1 + 1
  BY FS_Interval
<1>2. Conns' = Cardinality(DOMAIN conn')
  BY DEF Conns
<1> QED
  BY <1>1, <1>2

(* close() of the current connection, and what follows when it is gone. *)
LEMMA CallCloses ==
  ASSUME ClientInv, NEW c \in Caller, close(c) \/ Closed(c)
  PROVE  ClientInv'
<1>1. /\ ClientType /\ ~ Over(c) /\ caller[c] \in CallerState
      /\ caller \in [Caller -> CallerState] /\ Conns \in Nat /\ conn \in [1 .. Conns -> ConnState]
      /\ client \in 0 .. Conns /\ promise \in 0 .. Conns
      /\ UNCHANGED <<promise, faults, refused, overlapped>>
  BY DEF ClientInv, ClientType, Over, At, close, Closed
<1> DEFINE q == caller[c]
<1>2. ASSUME NEW r, r = [q EXCEPT !.pc = "connect", !.again = TRUE]
      PROVE  r \in CallerState /\ r.pc = "connect" /\ r.again
  <2>1. r = [pc |-> "connect", using |-> q.using, again |-> TRUE, done |-> q.done]
    BY <1>1, <1>2 DEF CallerState
  <2> QED
    BY <1>1, <2>1 DEF CallerState
<1>3. CASE close(c) /\ client = 0
  <2>1. PICK r : r = [q EXCEPT !.pc = "connect", !.again = TRUE]
    OBVIOUS
  <2>2. r \in CallerState /\ r.pc = "connect" /\ r.again
    BY <1>2, <2>1
  <2>3. /\ caller' = [caller EXCEPT ![c] = r] /\ UNCHANGED <<client, conn>> /\ q.pc = "close"
    BY <1>1, <1>3, <2>1 DEF close, At
  <2>4. ~ overlapped => FALSE
    BY <1>3, <2>3, UnderWay, <1>1 DEF FaultyRecord
  <2> QED
    BY <1>1, <2>2, <2>3, <2>4, CallMoves DEF ClientType
<1>4. CASE close(c) /\ client # 0
  <2>1. PICK r : r = [q EXCEPT !.pc = "closing"]
    OBVIOUS
  <2>2. /\ r \in CallerState
        /\ r = [pc |-> "closing", using |-> q.using, again |-> q.again, done |-> q.done]
    BY <1>1, <2>1, AtPc DEF CallPcs
  <2>3. /\ caller' = [caller EXCEPT ![c] = r] /\ client' = client /\ q.pc = "close"
        /\ conn' = [conn EXCEPT ![client] = "closed"]
    BY <1>4, <2>1 DEF close, At, Goes
  <2>4. /\ conn' \in [1 .. Conns -> ConnState] /\ conn'[client] = "closed"
        /\ \A k \in 1 .. Conns : k # client => conn'[k] = conn[k]
    BY <1>1, <1>4, <2>3 DEF ConnState
  <2>5. Conns' = Conns
    BY <1>1, <2>4, Numbered
  <2>6. ClientType'
    BY <1>1, <2>2, <2>3, <2>4, <2>5 DEF ClientType
  <2>7. ~ overlapped => /\ FaultyRecord(q)
                        /\ promise = 0
                        /\ \A k \in DOMAIN conn : conn[k] \in {"up", "connecting"} => k = client
    BY <1>1, <2>3, UnderWay DEF FaultyRecord
  <2>8. ~ overlapped => FaultyRecord(r)'
    BY <1>1, <1>4, <2>2, <2>3, <2>4, <2>7 DEF FaultyRecord, Broken
  <2>9. ~ overlapped => \A k \in DOMAIN conn' : conn'[k] \in {"up", "connecting"} => k = client'
    BY <1>1, <2>3, <2>4, <2>7
  <2> QED
    BY <1>1, <2>2, <2>3, <2>4, <2>6, <2>7, <2>8, <2>9, OneCallMoves DEF Finished
<1>5. CASE Closed(c)
  <2>1. PICK r : r = [q EXCEPT !.pc = "connect", !.again = TRUE]
    OBVIOUS
  <2>2. r \in CallerState /\ r.pc = "connect" /\ r.again
    BY <1>2, <2>1
  <2>3. /\ caller' = [caller EXCEPT ![c] = r] /\ client' = 0 /\ conn' = conn
        /\ q.pc = "closing"
    BY <1>1, <1>5, <2>1 DEF Closed, At
  <2>4. Conns' = Conns
    BY <2>3 DEF Conns
  <2>5. ClientType'
    BY <1>1, <2>2, <2>3, <2>4 DEF ClientType
  <2>6. ~ overlapped => /\ faults >= 1 /\ promise = 0 /\ conn[client] = "closed"
                        /\ \A k \in DOMAIN conn : conn[k] \in {"up", "connecting"} => k = client
    BY <1>1, <2>3, UnderWay DEF FaultyRecord
  <2>7. ~ overlapped => FaultyRecord(r)'
    BY <1>1, <2>2, <2>3, <2>6 DEF FaultyRecord, Broken
  <2>8. ~ overlapped => \A k \in DOMAIN conn' : conn'[k] \in {"up", "connecting"} => k = client'
    BY <2>3, <2>6
  <2> QED
    BY <1>1, <2>2, <2>3, <2>5, <2>6, <2>7, <2>8, OneCallMoves DEF Finished
<1> QED
  BY <1>3, <1>4, <1>5 DEF close

(* connect(): there is a client, one is coming up, or a child is spawned. *)
LEMMA CallConnects ==
  ASSUME ClientInv, NEW c \in Caller, connect(c)
  PROVE  ClientInv'
<1>1. /\ ClientType /\ ~ Over(c) /\ caller[c] \in CallerState
      /\ caller \in [Caller -> CallerState] /\ Conns \in Nat /\ conn \in [1 .. Conns -> ConnState]
      /\ client \in 0 .. Conns /\ promise \in 0 .. Conns
      /\ caller[c].pc = "connect"
      /\ UNCHANGED <<faults, refused, overlapped>>
  BY DEF ClientInv, ClientType, Over, At, connect
<1> DEFINE q == caller[c]
<1>2. ~ overlapped => FaultyRecord(q) /\ promise = 0
  BY <1>1, UnderWay
<1>3. CASE client # 0
  <2>1. PICK r : r = [q EXCEPT !.pc = "send"]
    OBVIOUS
  <2>2. /\ r \in CallerState
        /\ r = [pc |-> "send", using |-> q.using, again |-> q.again, done |-> q.done]
    BY <1>1, <2>1, AtPc DEF CallPcs
  <2>3. caller' = [caller EXCEPT ![c] = r] /\ UNCHANGED <<client, promise, conn>>
    BY <1>3, <2>1 DEF connect, Goes
  <2>4. ~ overlapped => FaultyRecord(r)'
    BY <1>1, <1>2, <1>3, <2>2, <2>3 DEF FaultyRecord, Broken
  <2> QED
    BY <1>1, <2>2, <2>3, <2>4, CallMoves DEF Finished, ClientType
<1>4. CASE client = 0 /\ promise # 0
  <2>1. PICK r : r = [q EXCEPT !.pc = "connecting"]
    OBVIOUS
  <2>2. r \in CallerState
    BY <1>1, <2>1, AtPc DEF CallPcs
  <2>3. caller' = [caller EXCEPT ![c] = r] /\ UNCHANGED <<client, promise, conn>>
    BY <1>4, <2>1 DEF connect, Goes
  <2> QED
    BY <1>1, <1>2, <1>4, <2>2, <2>3, CallMoves DEF ClientType
<1>5. CASE client = 0 /\ promise = 0
  <2> DEFINE n == Conns + 1
  <2>1. PICK r : r = [q EXCEPT !.pc = "connecting"]
    OBVIOUS
  <2>2. /\ r \in CallerState
        /\ r = [pc |-> "connecting", using |-> q.using, again |-> q.again, done |-> q.done]
    BY <1>1, <2>1, AtPc DEF CallPcs
  <2>3. /\ caller' = [caller EXCEPT ![c] = r] /\ client' = n /\ promise' = n
        /\ conn' = [k \in 1 .. n |-> IF k = n THEN "connecting" ELSE conn[k]]
    BY <1>5, <2>1 DEF connect, Goes, Conns
  <2>4. n \in Nat /\ n # 0 /\ n \in 1 .. n /\ 1 .. n = (1 .. Conns) \cup {n}
    BY <1>1
  <2>5. /\ conn' \in [1 .. n -> ConnState] /\ conn'[n] = "connecting"
        /\ \A k \in 1 .. n : k # n => conn'[k] = conn[k] /\ k \in 1 .. Conns
    BY <1>1, <2>3, <2>4 DEF ConnState
  <2>6. Conns' = n
    BY <1>1, <2>4, <2>5, Numbered
  <2> HIDE DEF n
  <2>7. ClientType'
    BY <1>1, <2>2, <2>3, <2>4, <2>5, <2>6 DEF ClientType
  <2>8. ~ overlapped => FaultyRecord(r)'
    BY <1>1, <1>2, <2>2, <2>3, <2>4, <2>5 DEF FaultyRecord, Broken
  <2>9. ~ overlapped => \A k \in DOMAIN conn : conn[k] \in {"up", "connecting"} => k = client
    BY <1>1, UnderWay
  <2>10. ~ overlapped => \A k \in DOMAIN conn' : conn'[k] \in {"up", "connecting"} => k = client'
    <3> SUFFICES ASSUME ~ overlapped, NEW k \in 1 .. n, k # n, conn'[k] \in {"up", "connecting"}
                 PROVE  FALSE
      BY <2>3, <2>5
    <3>1. conn[k] \in {"up", "connecting"} /\ k \in 1 .. Conns
      BY <2>5
    <3> QED
      BY <1>1, <1>5, <2>9, <3>1
  <2> QED
    BY <1>1, <2>2, <2>3, <2>4, <2>5, <2>7, <2>8, <2>10, OneCallMoves DEF Finished
<1> QED
  BY <1>3, <1>4, <1>5

(* The child is up, or could not be brought up: who waits goes on. *)
LEMMA ConnectEnds ==
  ASSUME ClientInv, Connected \/ ConnectFails
  PROVE  ClientInv'
<1>1. /\ ClientType /\ caller \in [Caller -> CallerState] /\ Conns \in Nat
      /\ conn \in [1 .. Conns -> ConnState] /\ client \in 0 .. Conns /\ promise \in 1 .. Conns
      /\ promise' = 0 /\ UNCHANGED <<faults, overlapped>>
  BY DEF ClientInv, ClientType, Connected, ConnectFails
<1>2. PICK p \in {"send", "failed"}, s \in ConnState :
        /\ Waiting(p) /\ conn' = [conn EXCEPT ![promise] = s]
        /\ \/ p = "send" /\ s = "up" /\ client' = client /\ refused' = refused
           \/ p = "failed" /\ s = "failed" /\ client' = 0 /\ refused' = TRUE
  BY DEF Connected, ConnectFails, ConnState
<1>3. /\ conn' \in [1 .. Conns -> ConnState] /\ conn'[promise] = s
      /\ \A k \in 1 .. Conns : k # promise => conn'[k] = conn[k]
  BY <1>1, <1>2
<1>4. Conns' = Conns
  BY <1>1, <1>3, Numbered
<1>5. \A d \in Caller : [caller[d] EXCEPT !.pc = p] \in CallerState
  <2> SUFFICES ASSUME NEW d \in Caller PROVE [caller[d] EXCEPT !.pc = p] \in CallerState
    OBVIOUS
  <2>1. PICK r : r = [caller[d] EXCEPT !.pc = p]
    OBVIOUS
  <2> QED
    BY <1>1, <2>1, AtPc DEF CallPcs
<1>6. caller' \in [Caller -> CallerState]
  BY <1>1, <1>2, <1>5 DEF Waiting
<1>7. ClientType'
  <2>1. client' \in 0 .. Conns /\ promise' \in 0 .. Conns
    BY <1>1, <1>2
  <2>2. refused' \in BOOLEAN /\ faults' \in Nat /\ overlapped' \in BOOLEAN
    BY <1>1, <1>2 DEF ClientType
  <2> QED
    BY <1>1, <1>3, <1>4, <1>6, <2>1, <2>2 DEF ClientType
<1>8. CASE overlapped
  BY <1>1, <1>7, <1>8 DEF ClientInv
<1>9. CASE ~ overlapped
  <2>1. PICK c \in Caller : At(c, "connecting")
    BY <1>1, <1>9 DEF ClientInv, Serial, OneConnection
  <2>2. ~ Over(c) /\ caller[c].pc = "connecting"
    BY <2>1 DEF At, Over
  <2>3. /\ FaultyRecord(caller[c])
        /\ \A d \in Caller : d # c => caller[d].pc = "idle"
        /\ promise = client
        /\ \A k \in DOMAIN conn : conn[k] \in {"up", "connecting"} => k = client
    BY <1>1, <1>9, <2>2, UnderWay
  <2>4. PICK r : r = [caller[c] EXCEPT !.pc = p]
    OBVIOUS
  <2>5. /\ r \in CallerState
        /\ r = [pc |-> p, using |-> caller[c].using, again |-> caller[c].again,
                done |-> caller[c].done]
    BY <1>1, <2>4, AtPc DEF CallPcs
  <2>6. caller' = [caller EXCEPT ![c] = r]
    <3>1. \A d \in Caller : At(d, "connecting") <=> d = c
      BY <2>2, <2>3 DEF At
    <3> QED
      BY <1>1, <1>2, <2>4, <3>1 DEF Waiting
  <2>7. r.pc \notin Finished => FaultyRecord(r)'
    BY <1>1, <1>2, <1>3, <2>2, <2>3, <2>5 DEF FaultyRecord, Broken, Finished
  <2>8. \A k \in DOMAIN conn' : conn'[k] \in {"up", "connecting"} => k = client'
    BY <1>1, <1>2, <1>3, <2>3
  <2>9. client' # 0 => conn'[client'] = "up"
    BY <1>1, <1>2, <1>3, <2>3
  <2> QED
    BY <1>1, <1>2, <1>7, <2>2, <2>5, <2>6, <2>7, <2>8, <2>9, OneCallMoves DEF Finished
<1> QED
  BY <1>8, <1>9

(* A child that was up dies. *)
LEMMA ChildDies ==
  ASSUME ClientInv, Dies
  PROVE  ClientInv'
<1>1. /\ ClientType /\ caller \in [Caller -> CallerState] /\ Conns \in Nat /\ faults \in Nat
      /\ conn \in [1 .. Conns -> ConnState] /\ client \in 0 .. Conns /\ promise \in 0 .. Conns
      /\ faults' = faults + 1 /\ UNCHANGED <<client, promise, caller, refused, overlapped>>
  BY DEF ClientInv, ClientType, Dies
<1>2. PICK k \in 1 .. Conns : conn[k] = "up" /\ conn' = [conn EXCEPT ![k] = "dead"]
  BY <1>1 DEF Dies
<1>3. /\ conn' \in [1 .. Conns -> ConnState] /\ conn'[k] = "dead"
      /\ \A j \in 1 .. Conns : j # k => conn'[j] = conn[j]
  BY <1>1, <1>2 DEF ConnState
<1>4. Conns' = Conns
  BY <1>1, <1>3, Numbered
<1>5. ClientType'
  BY <1>1, <1>3, <1>4 DEF ClientType
<1>6. ASSUME ~ overlapped PROVE Serial'
  <2>1. Serial
    BY <1>6 DEF ClientInv
  <2>2. k = client
    BY <1>1, <1>2, <2>1 DEF Serial, OneConnection
  <2>3. OneCall'
    BY <1>1, <2>1 DEF Serial, OneCall, Over
  <2>4. promise = 0
    BY <1>1, <1>2, <2>1, <2>2 DEF Serial, OneConnection
  <2>5. OneConnection'
    <3>1. \A j \in DOMAIN conn' : conn'[j] \in {"up", "connecting"} => j = client'
      BY <1>1, <1>3, <2>1 DEF Serial, OneConnection
    <3> QED
      BY <1>1, <1>3, <2>2, <2>4, <3>1 DEF OneConnection
  <2>6. (\A c \in Caller : ~ Over(c) => Faulty(c))'
    <3> SUFFICES ASSUME NEW c \in Caller, ~ Over(c) PROVE Faulty(c)'
      BY <1>1 DEF Over
    <3>1. Faulty(c)
      BY <2>1 DEF Serial
    <3>2. caller[c].again => faults >= 1
      BY <3>1 DEF Faulty
    <3>3. faults' >= 1 /\ (caller[c].again => faults' >= 2)
      BY <1>1, <3>2
    <3>4. conn[client] # "closed" /\ conn'[client] # "closed"
      BY <1>2, <1>3, <2>2
    <3> QED
      BY <1>1, <2>4, <3>1, <3>3, <3>4 DEF Faulty, At, Broken
  <2>7. (\A c \in Caller : At(c, "failed") => refused \/ faults >= 2)'
    BY <1>1, <2>1 DEF Serial, At
  <2> QED
    BY <2>3, <2>5, <2>6, <2>7 DEF Serial
<1> QED
  BY <1>1, <1>5, <1>6 DEF ClientInv

(* A call begins; the others that are over have been told so. *)
LEMMA CallBegins ==
  ASSUME ClientInv, NEW c \in Caller, callTool(c)
  PROVE  ClientInv'
<1>1. /\ ClientType /\ caller \in [Caller -> CallerState] /\ Conns \in Nat
      /\ client \in 0 .. Conns /\ promise \in 0 .. Conns
      /\ Over(c) /\ UNCHANGED <<client, promise, conn>>
      /\ refused' = FALSE /\ faults' = IF Broken THEN 1 ELSE 0
      /\ overlapped' = (overlapped \/ \E d \in Caller \ {c} : ~Over(d))
      /\ caller' = [d \in Caller |-> IF d = c THEN [Idle EXCEPT !.pc = "connect"]
                                     ELSE IF Over(d) THEN Idle ELSE caller[d]]
  BY DEF ClientInv, ClientType, callTool
<1>2. /\ Idle \in CallerState /\ Idle.pc = "idle"
      /\ [Idle EXCEPT !.pc = "connect"] \in CallerState
      /\ [Idle EXCEPT !.pc = "connect"].pc = "connect"
      /\ [Idle EXCEPT !.pc = "connect"].again = FALSE
  BY DEF Idle, CallerState
<1>3. ClientType'
  <2>1. Conns' = Conns
    BY <1>1 DEF Conns
  <2>2. caller' \in [Caller -> CallerState]
    BY <1>1, <1>2
  <2>3. faults' \in Nat /\ refused' \in BOOLEAN /\ overlapped' \in BOOLEAN
    BY <1>1 DEF ClientType
  <2> QED
    BY <1>1, <2>1, <2>2, <2>3 DEF ClientType
<1>4. ASSUME ~ overlapped' PROVE Serial'
  <2>1. ~ overlapped /\ \A d \in Caller : Over(d)
    BY <1>1, <1>4
  <2>2. OneConnection
    BY <2>1 DEF ClientInv, Serial
  <2>3. promise = 0 /\ (client # 0 => conn[client] \in {"up", "dead"})
    BY <1>1, <2>1, <2>2 DEF OneConnection, At, Over
  <2>4. /\ caller'[c].pc = "connect" /\ caller'[c].again = FALSE
        /\ \A d \in Caller : d # c => caller'[d] = Idle
    BY <1>1, <1>2, <2>1
  <2>5. OneCall'
    BY <1>2, <2>4 DEF OneCall, Over
  <2>6. OneConnection'
    BY <1>1, <2>2, <2>3 DEF OneConnection
  <2>7. (\A d \in Caller : ~ Over(d) => Faulty(d))'
    <3> SUFFICES ASSUME NEW d \in Caller, ~ Over(d)' PROVE Faulty(d)'
      OBVIOUS
    <3>1. d = c
      BY <1>2, <2>4 DEF Over
    <3>2. Broken' => faults' >= 1
      BY <1>1 DEF Broken
    <3> QED
      BY <1>1, <2>3, <2>4, <3>1, <3>2 DEF Faulty, At
  <2>8. (\A d \in Caller : At(d, "failed") => refused \/ faults >= 2)'
    BY <1>2, <2>4 DEF At
  <2> QED
    BY <2>5, <2>6, <2>7, <2>8 DEF Serial
<1> QED
  BY <1>3, <1>4 DEF ClientInv

(* The inductive invariant of the connection. *)
THEOREM ClientInvariance == ClientSpec => []ClientInv
<1>1. ClientInit => ClientInv
  <2> SUFFICES ASSUME ClientInit PROVE ClientInv
    OBVIOUS
  <2>1. Conns = 0
    <3>1. DOMAIN conn = {}
      BY DEF ClientInit
    <3> QED
      BY <3>1, FS_EmptySet DEF Conns
  <2>2. Idle \in CallerState /\ Idle.pc = "idle"
    BY DEF Idle, CallerState
  <2>3. conn \in [1 .. 0 -> ConnState]
    BY DEF ClientInit
  <2>4. ClientType
    <3>1. conn \in [1 .. Conns -> ConnState] /\ Conns \in Nat
      BY <2>1, <2>3
    <3>2. client \in 0 .. Conns /\ promise \in 0 .. Conns
      BY <2>1 DEF ClientInit
    <3> QED
      BY <2>2, <3>1, <3>2 DEF ClientInit, ClientType
  <2>5. Serial
    BY <2>2, <2>3 DEF ClientInit, Serial, OneCall, OneConnection, Over, At
  <2> QED
    BY <2>4, <2>5 DEF ClientInv
<1>2. ClientInv /\ [ClientNext]_clientVars => ClientInv'
  <2> SUFFICES ASSUME ClientInv, [ClientNext]_clientVars PROVE ClientInv'
    OBVIOUS
  <2>1. CASE UNCHANGED clientVars
    BY <2>1 DEF clientVars, ClientInv, ClientType, Conns, Serial, OneCall, OneConnection, Faulty,
       Over, At, Broken
  <2> QED
    BY <2>1, CallBegins, CallConnects, CallGoesOn, CallCloses, ConnectEnds, ChildDies
    DEF ClientNext, CallStep
<1> QED
  BY <1>1, <1>2, PTL DEF ClientSpec

(* Calls that do not overlap leave no child behind, and survive one fault. *)
THEOREM ReconnectsCleanly == ClientSpec => []ReconnectIsClean
<1>1. ClientInv => ReconnectIsClean
  BY DEF ClientInv, Serial, OneConnection, ReconnectIsClean
<1> QED
  BY <1>1, ClientInvariance, PTL

-----------------------------------------------------------------------------
(***************************************************************************)
(* run_test and its profiler, for any number of collections side by side,  *)
(* of relaunches and of samples.                                           *)
(***************************************************************************)

Steps == {"preflight", "stubs", "profile", "first sample", "spawn", "running", "measure",
          "last sample", "finally", "over"}
Profile == [isActive : BOOLEAN, timer : BOOLEAN, pid : Nat, snapshot : Nat]
Collection == [pc : {"idle", "resolve", "read", "sampled", "unread"}, pid : Nat,
               again : BOOLEAN, awaited : BOOLEAN]

TestType ==
  /\ step \in Steps
  /\ profiler \in Profile
  /\ collect \in [Collector -> Collection]
  /\ samples \in Seq([pid : Nat, since : Nat])
  /\ appPid \in Nat

(* Each resource exists only between two steps of the run. *)
Held ==
  /\ child = "up" => step = "running"
  /\ step = "preflight" => stubServer = "none" /\ answer = "none"
  /\ step = "over" => stubServer # "up"
  /\ profiler.timer => step \in {"first sample", "spawn", "running", "measure"}
  /\ profiler.isActive =>
       step \in {"first sample", "spawn", "running", "measure", "last sample"}
  /\ step \in {"preflight", "stubs", "profile"} =>
       \A c \in Collector : collect[c] = IdleCollector
  /\ answer = "passed" => ~told /\ step \in {"measure", "last sample", "finally", "over"}

(* The last reading of the CPU is of the process that is read next. *)
OneProcess ==
  ~beside =>
    /\ \A c, d \in Collector : collect[c] # IdleCollector /\ collect[d] # IdleCollector => c = d
    /\ profiler.snapshot \in {0, profiler.pid}
    /\ \A c \in Collector :
         /\ collect[c].pc = "resolve" => profiler.snapshot = 0
         /\ collect[c].pc \in {"read", "sampled", "unread"} => collect[c].pid = profiler.pid
    /\ \A k \in DOMAIN samples : samples[k].since \in {0, samples[k].pid}

TestInv == TestType /\ Held /\ OneProcess

-----------------------------------------------------------------------------

LEMMA TestInitHolds == TestInit => TestInv
BY DEF TestInit, TestInv, TestType, Held, OneProcess, Steps, Profile, Collection, IdleCollector,
   Off

(* The steps of the run alone: the sampler's state stays. *)
LEMMA RunStep ==
  ASSUME TestInv, UNCHANGED profileVars,
         Preflight \/ StartStubs \/ NoProfiler \/ FirstSampled \/ Spawn \/ AbortSignal \/ TimeOut
           \/ ChildReturns \/ Relaunch \/ StopStubs
  PROVE  TestInv'
<1> USE DEF profileVars
<1>0. OneProcess'
  BY DEF TestInv, OneProcess
<1>1. CASE Preflight
  BY <1>0, <1>1 DEF Preflight, TestInv, TestType, Held, Steps
<1>2. CASE StartStubs
  BY <1>0, <1>2 DEF StartStubs, Finally, TestInv, TestType, Held, Steps
<1>3. CASE NoProfiler
  BY <1>0, <1>3 DEF NoProfiler, TestInv, TestType, Held, Steps
<1>4. CASE FirstSampled
  BY <1>0, <1>4 DEF FirstSampled, Awaited, TestInv, TestType, Held, Steps
<1>5. CASE Spawn
  BY <1>0, <1>5 DEF Spawn, TestInv, TestType, Held, Steps
<1>6. CASE AbortSignal
  BY <1>0, <1>6 DEF AbortSignal, TestInv, TestType, Held, Steps
<1>7. CASE TimeOut
  BY <1>0, <1>7 DEF TimeOut, TestInv, TestType, Held, Steps
<1>8. CASE ChildReturns
  BY <1>0, <1>8 DEF ChildReturns, TestInv, TestType, Held, Steps
<1>9. CASE Relaunch
  BY <1>0, <1>9 DEF Relaunch, runVars, TestInv, TestType, Held, Steps
<1>10. CASE StopStubs
  BY <1>0, <1>10 DEF StopStubs, TestInv, TestType, Held, Steps
<1> QED
  BY <1>1, <1>2, <1>3, <1>4, <1>5, <1>6, <1>7, <1>8, <1>9, <1>10

(* A collection begins, with the process the profiler knows. *)
LEMMA BeginStep ==
  ASSUME TestInv, NEW c \in Collector, NEW awaited \in BOOLEAN, Begin(c, profiler'.pid, awaited),
         profiler' \in Profile, samples' = samples,
         \/ profiler'.snapshot = 0
         \/ profiler'.snapshot = profiler.snapshot /\ profiler'.pid = profiler.pid
  PROVE  collect' \in [Collector -> Collection] /\ OneProcess'
<1>1. /\ collect' \in [Collector -> Collection]
      /\ \A d \in Collector \ {c} : collect'[d] = collect[d]
      /\ collect'[c].pid = profiler'.pid
      /\ collect'[c].pc = IF profiler'.pid = 0 THEN "resolve" ELSE "read"
  BY DEF Begin, TestInv, TestType, Collection, Profile
<1>2. CASE ~beside'
  <2>1. ~beside /\ \A d \in Collector : collect[d] = IdleCollector
    BY <1>2 DEF Begin
  <2> QED
    BY <1>1, <2>1 DEF TestInv, OneProcess, IdleCollector
<1> QED
  BY <1>1, <1>2 DEF OneProcess

LEMMA ProfilerStep ==
  ASSUME TestInv, MeasureLaunch \/ StartProfiler \/ Timer \/ StopProfiler \/ Stopped \/ Unmeasured
  PROVE  TestInv'
<1>1. CASE MeasureLaunch
  <2>1. profiler' \in Profile /\ ~profiler'.timer /\ profiler'.snapshot = 0
    BY <1>1 DEF MeasureLaunch, Profile, Off
  <2>2. \A c \in Collector : collect[c] = IdleCollector
    BY <1>1 DEF MeasureLaunch, TestInv, Held
  <2>3. OneProcess'
    BY <1>1, <2>1, <2>2 DEF MeasureLaunch, TestInv, OneProcess, IdleCollector
  <2> QED
    BY <1>1, <2>1, <2>3 DEF MeasureLaunch, TestInv, TestType, Held, Steps
<1>2. ASSUME Stopped \/ Unmeasured
      PROVE  /\ profiler' \in Profile /\ ~profiler'.timer /\ ~profiler'.isActive
             /\ profiler'.pid = profiler.pid /\ profiler'.snapshot = profiler.snapshot
  BY <1>2 DEF Stopped, Unmeasured, Awaited, TestInv, TestType, Held, Profile
<1>3. CASE Stopped
  BY <1>2, <1>3 DEF Stopped, Awaited, TestInv, TestType, Held, OneProcess, Steps
<1>4. CASE Unmeasured
  BY <1>2, <1>4 DEF Unmeasured, TestInv, TestType, Held, OneProcess, Steps
<1>5. CASE StartProfiler
  <2>1. PICK pid \in {0, appPid}, c \in Collector :
          /\ profiler' = [Off EXCEPT !.isActive = TRUE, !.timer = TRUE, !.pid = pid]
          /\ Begin(c, pid, TRUE)
    BY <1>5 DEF StartProfiler
  <2>2. profiler' \in Profile /\ profiler'.snapshot = 0 /\ profiler'.pid = pid
    <3>1. pid \in Nat /\ Off \in Profile /\ Off.snapshot = 0
      BY DEF TestInv, TestType, Profile, Off
    <3> QED
      BY <2>1, <3>1 DEF Profile
  <2>3. collect' \in [Collector -> Collection] /\ OneProcess'
    BY <1>5, <2>1, <2>2, BeginStep DEF StartProfiler
  <2> QED
    BY <1>5, <2>2, <2>3 DEF StartProfiler, TestInv, TestType, Held, Steps
<1>6. CASE Timer
  <2>1. PICK c \in Collector : Begin(c, profiler.pid, FALSE)
    BY <1>6 DEF Timer
  <2>2. collect' \in [Collector -> Collection] /\ OneProcess'
    BY <1>6, <2>1, BeginStep DEF Timer, TestInv, TestType
  <2> QED
    BY <1>6, <2>2 DEF Timer, runVars, TestInv, TestType, Held
<1>7. CASE StopProfiler
  <2>1. PICK c \in Collector : Begin(c, profiler.pid, TRUE)
    BY <1>7 DEF StopProfiler
  <2>2. /\ profiler' \in Profile /\ ~profiler'.timer /\ profiler'.isActive = profiler.isActive
        /\ profiler'.pid = profiler.pid /\ profiler'.snapshot = profiler.snapshot
    BY <1>7 DEF StopProfiler, TestInv, TestType, Profile
  <2>3. collect' \in [Collector -> Collection] /\ OneProcess'
    BY <1>7, <2>1, <2>2, BeginStep DEF StopProfiler
  <2> QED
    BY <1>7, <2>2, <2>3 DEF StopProfiler, TestInv, TestType, Held, Steps
<1> QED
  BY <1>1, <1>3, <1>4, <1>5, <1>6, <1>7

(* A step of a collection: it goes on as n, or is idle again. *)
LEMMA CollectStep ==
  ASSUME TestInv, NEW c \in Collector, collect[c] # IdleCollector,
         UNCHANGED <<step, stubServer, child, told, answer, beside, appPid>>,
         NEW n \in Collection, collect' = [collect EXCEPT ![c] = n],
         profiler' \in Profile, samples' \in Seq([pid : Nat, since : Nat]),
         profiler'.timer = profiler.timer, profiler'.isActive = profiler.isActive,
         ~beside =>
           /\ profiler'.snapshot \in {0, profiler'.pid}
           /\ n.pc = "resolve" => profiler'.snapshot = 0
           /\ n.pc \in {"read", "sampled", "unread"} => n.pid = profiler'.pid
           /\ \A k \in DOMAIN samples' : samples'[k].since \in {0, samples'[k].pid}
  PROVE  TestInv'
<1>1. /\ collect' \in [Collector -> Collection] /\ collect'[c] = n
      /\ \A d \in Collector \ {c} : collect'[d] = collect[d]
  BY DEF TestInv, TestType
<1>2. TestType' /\ Held'
  BY <1>1 DEF TestInv, TestType, Held
<1>3. ASSUME ~beside PROVE OneProcess'
  <2>1. \A d \in Collector \ {c} : collect'[d] = IdleCollector
    BY <1>1, <1>3 DEF TestInv, OneProcess
  <2>2. \A d \in Collector \ {c} : collect'[d].pc = "idle"
    BY <2>1 DEF IdleCollector
  <2>3. \A d, e \in Collector :
          collect'[d] # IdleCollector /\ collect'[e] # IdleCollector => d = e
    BY <2>1
  <2> QED
    BY <1>1, <1>3, <2>2, <2>3 DEF OneProcess
<1> QED
  BY <1>2, <1>3 DEF TestInv, OneProcess

LEMMA SamplerStep ==
  ASSUME TestInv, NEW c \in Collector, Read(c) \/ Sampled(c) \/ Unread(c) \/ Resolve(c)
  PROVE  TestInv'
<1> USE DEF runVars
<1> DEFINE old == collect[c]
<1>1. /\ old \in Collection /\ profiler \in Profile /\ collect \in [Collector -> Collection]
      /\ samples \in Seq([pid : Nat, since : Nat]) /\ appPid \in Nat
      /\ IdleCollector \in Collection
  BY DEF TestInv, TestType, Collection, IdleCollector
<1>2. ~beside =>
        /\ profiler.snapshot \in {0, profiler.pid}
        /\ old.pc = "resolve" => profiler.snapshot = 0
        /\ old.pc \in {"read", "sampled", "unread"} => old.pid = profiler.pid
        /\ \A k \in DOMAIN samples : samples[k].since \in {0, samples[k].pid}
  BY DEF TestInv, OneProcess
<1>3. old # IdleCollector
  BY DEF Read, Sampled, Unread, Resolve, IdleCollector
<1>4. CASE Read(c)
  <2>1. PICK x \in {"sampled", "unread"} : collect' = [collect EXCEPT ![c].pc = x]
    BY <1>4 DEF Read
  <2> DEFINE n == [old EXCEPT !.pc = x]
  <2>2. n \in Collection /\ n.pc = x /\ n.pid = old.pid /\ collect' = [collect EXCEPT ![c] = n]
    BY <1>1, <2>1 DEF Collection
  <2>3. old.pc = "read"
    BY <1>4 DEF Read
  <2> HIDE DEF n
  <2> QED
    BY <1>1, <1>2, <1>3, <1>4, <2>2, <2>3, CollectStep DEF Read
<1>5. CASE Sampled(c)
  <2> DEFINE s == [pid |-> old.pid, since |-> profiler.snapshot]
  <2>1. /\ samples' = Append(samples, s) /\ s \in [pid : Nat, since : Nat]
        /\ old.pc = "sampled" /\ collect' = [collect EXCEPT ![c] = IdleCollector]
    BY <1>1, <1>5 DEF Sampled, Collection, Profile
  <2>2. /\ profiler' \in Profile /\ profiler'.snapshot = old.pid /\ profiler'.pid = profiler.pid
        /\ profiler'.timer = profiler.timer /\ profiler'.isActive = profiler.isActive
    BY <1>1, <1>5 DEF Sampled, Collection, Profile
  <2>3. ~beside => s.since \in {0, s.pid}
    BY <1>2, <2>1
  <2> HIDE DEF s
  <2>4. samples' \in Seq([pid : Nat, since : Nat])
        /\ \A k \in DOMAIN samples' : samples'[k] = s \/ (k \in DOMAIN samples /\ samples'[k] = samples[k])
    BY <1>1, <2>1
  <2>5. ~beside => \A k \in DOMAIN samples' : samples'[k].since \in {0, samples'[k].pid}
    BY <1>2, <2>3, <2>4
  <2>6. IdleCollector.pc = "idle" /\ UNCHANGED <<step, stubServer, child, told, answer, beside, appPid>>
    BY <1>5 DEF Sampled, IdleCollector
  <2> QED
    BY <1>1, <1>2, <1>3, <2>1, <2>2, <2>4, <2>5, <2>6, CollectStep
<1>6. CASE Unread(c)
  <2>1. CASE old.again
    BY <1>1, <1>2, <1>3, <1>6, <2>1, CollectStep DEF Unread, IdleCollector
  <2>2. CASE ~old.again
    <3> DEFINE n == [old EXCEPT !.pc = "resolve", !.again = TRUE]
    <3>1. n \in Collection /\ n.pc = "resolve" /\ collect' = [collect EXCEPT ![c] = n]
      BY <1>1, <1>6, <2>2 DEF Unread, Collection
    <3>2. /\ profiler' \in Profile /\ profiler'.snapshot = 0
          /\ profiler'.timer = profiler.timer /\ profiler'.isActive = profiler.isActive
      BY <1>1, <1>6, <2>2 DEF Unread, Baseline, Profile
    <3> HIDE DEF n
    <3> QED
      BY <1>1, <1>2, <1>3, <1>6, <3>1, <3>2, CollectStep DEF Unread
  <2> QED
    BY <2>1, <2>2
<1>7. CASE Resolve(c)
  <2>1. PICK pid \in {0, appPid} :
          /\ profiler' = [profiler EXCEPT !.pid = pid]
          /\ collect' = [collect EXCEPT ![c] = IF pid = 0 THEN IdleCollector
                                               ELSE [@ EXCEPT !.pc = "read", !.pid = pid]]
    BY <1>7 DEF Resolve
  <2>2. /\ profiler' \in Profile /\ profiler'.snapshot = profiler.snapshot /\ profiler'.pid = pid
        /\ profiler'.timer = profiler.timer /\ profiler'.isActive = profiler.isActive
        /\ old.pc = "resolve"
    <3>1. pid \in Nat
      BY <1>1
    <3>2. old.pc = "resolve"
      BY <1>7 DEF Resolve
    <3> QED
      BY <1>1, <2>1, <3>1, <3>2 DEF Profile
  <2> DEFINE n == IF pid = 0 THEN IdleCollector ELSE [old EXCEPT !.pc = "read", !.pid = pid]
  <2>3. n \in Collection /\ n.pc \in {"idle", "read"} /\ (n.pc = "read" => n.pid = pid)
        /\ collect' = [collect EXCEPT ![c] = n]
    BY <1>1, <2>1 DEF Collection, IdleCollector
  <2> HIDE DEF n
  <2> QED
    BY <1>1, <1>2, <1>3, <1>7, <2>2, <2>3, CollectStep DEF Resolve
<1> QED
  BY <1>4, <1>5, <1>6, <1>7

LEMMA TestNextHolds ==
  ASSUME TestInv, [TestNext]_testVars
  PROVE  TestInv'
<1>1. CASE UNCHANGED testVars
  BY <1>1 DEF testVars, runVars, profileVars, TestInv, TestType, Held, OneProcess
<1>2. CASE Preflight \/ StartStubs \/ NoProfiler \/ FirstSampled \/ Spawn \/ AbortSignal
             \/ TimeOut \/ ChildReturns \/ Relaunch \/ StopStubs
  <2>1. UNCHANGED profileVars
    BY <1>2 DEF Preflight, StartStubs, NoProfiler, FirstSampled, Spawn, AbortSignal, TimeOut,
       ChildReturns, Relaunch, StopStubs
  <2> QED
    BY <1>2, <2>1, RunStep
<1> QED
  BY <1>1, <1>2, ProfilerStep, SamplerStep DEF TestNext

-----------------------------------------------------------------------------
(* Theorems. *)

(* The inductive invariant holds of every run_test.                        *)
THEOREM TestInvariance == TestSpec => []TestInv
<1>1. TestInv /\ [TestNext]_testVars => TestInv'
  BY TestNextHolds
<1> QED
  BY <1>1, TestInitHolds, PTL DEF TestSpec

(* However it ends and whenever it is aborted, run_test leaves no server,  *)
(* timer or subprocess, and passed only if nobody told it to end           *)
(* (runTestCore).                                                          *)
THEOREM Releases == TestSpec => []RunReleases
<1>1. TestInv => RunReleases
  BY DEF TestInv, Held, RunReleases
<1> QED
  BY <1>1, TestInvariance, PTL

(* A CPU share is computed from two readings of one process, over any      *)
(* number of relaunches (collectSample, unless two overlap).               *)
THEOREM OneProcessSampled == TestSpec => []SamplesAreOfOneProcess
<1>1. TestInv => SamplesAreOfOneProcess
  BY DEF TestInv, OneProcess, SamplesAreOfOneProcess
<1> QED
  BY <1>1, TestInvariance, PTL

-----------------------------------------------------------------------------
(***************************************************************************)
(* The Loupe driver, for any screens and any number of actions.  An        *)
(* observation that nothing unforeseen has happened to is of the screen    *)
(* that is shown: the one that is kept, the one a settle has just fetched, *)
(* and the one a tap on its way was resolved in (Current).                 *)
(***************************************************************************)

Unforeseen == {"redrawn", "typed", "lost", "beside", "unseen"}
Untouched(of) == stale[of] \cap Unforeseen = {}

Reasons == Unforeseen \cup {"acted"}
Pcs == {"idle", "maestro", "find", "look", "command"}
Ref == UNION {DOMAIN Layout[s] : s \in DOMAIN Layout}
Action == [pc : Pcs, kind : Kinds \cup {"none"}, want : Label \cup {"none"},
           ref : Ref \cup {0}, at : Point \cup {0}, scrolls : Nat]
Shown == {0} \cup DOMAIN Layout
Settle == [pc : {"idle", "fetch", "take"}, fetched : Shown, last : Shown, hits : Nat]

LoupeType ==
  /\ screen \in DOMAIN Layout /\ lastObservation \in Shown
  /\ action \in Action /\ settle \in Settle
  /\ stale \in [{"kept", "fetched", "used"} -> SUBSET Reasons]

(* Nothing is observed before the runtime is injected. *)
InjectedFirst ==
  /\ runtime # "injected" => lastObservation = 0 /\ settle = NoSettle
  /\ runtime # "injected" => action.pc \in {"idle", "maestro"}
  /\ action.pc = "maestro" => runtime # "injected"
  /\ action.pc = "idle" => action = NoAction
  /\ settle.pc = "idle" => settle = NoSettle
  /\ action.pc = "find" => action.kind = "tapLabel"
  /\ action.pc = "look" => action.kind = "scrollUntilVisible"

Current ==
  /\ lastObservation # 0 /\ Untouched("kept") => lastObservation = screen
  /\ settle.pc = "take" /\ Untouched("fetched") => settle.fetched = screen
  /\ action.pc = "command" /\ action.kind = "tapLabel" /\ Untouched("used") =>
       IF action.ref # 0
       THEN action.ref \in DOMAIN Layout[screen] /\ Layout[screen][action.ref] = action.want
       ELSE action.want \notin Range(Layout[screen])

LoupeInv == LoupeType /\ InjectedFirst /\ Current /\ TapHitsNamed

-----------------------------------------------------------------------------

LEMMA LoupeInitHolds == LoupeInit => LoupeInv
BY LoupeAssumption
DEF LoupeInit, LoupeInv, LoupeType, InjectedFirst, Current, TapHitsNamed, NoAction, NoSettle,
   NoTap, Action,
    Settle, Shown, Reasons, Unforeseen, Pcs, Kinds

(* What happens on the screen is noted of every observation. *)
LEMMA Noted ==
  ASSUME LoupeType, NEW reason \in Reasons, Happens(reason)
  PROVE  /\ stale' \in [{"kept", "fetched", "used"} -> SUBSET Reasons]
         /\ \A of \in {"kept", "fetched", "used"} : stale'[of] = stale[of] \cup {reason}
<1>1. /\ DOMAIN stale = {"kept", "fetched", "used"}
      /\ \A of \in {"kept", "fetched", "used"} : stale[of] \subseteq Reasons
  BY DEF LoupeType
<1> QED
  BY <1>1 DEF Happens

(* A command that the device performed. *)
LEMMA PerformedStep ==
  ASSUME LoupeInv, Performed
  PROVE  LoupeInv'
<1> USE LoupeAssumption
<1>1. PICK ok \in BOOLEAN :
        /\ Happens(Reason(ok))
        /\ lastObservation' = IF ok THEN Invalidated ELSE lastObservation
        /\ IF ok /\ action.kind = "scrollUntilVisible"
           THEN action' = [action EXCEPT !.pc = "look", !.scrolls = @ + 1] /\ UNCHANGED settle
           ELSE /\ action' = NoAction
                /\ settle' = IF ok /\ settle = NoSettle THEN [NoSettle EXCEPT !.pc = "fetch"]
                             ELSE settle
  BY DEF Performed
<1>2. /\ action.pc = "command" /\ screen' \in DOMAIN Layout /\ runtime' = runtime
      /\ runtime = "injected"
  BY DEF Performed, LoupeInv, LoupeType, InjectedFirst, Action, Pcs
<1>3. /\ stale' \in [{"kept", "fetched", "used"} -> SUBSET Reasons]
      /\ \A of \in {"kept", "fetched", "used"} : stale'[of] = stale[of] \cup {Reason(ok)}
  <2>1. Reason(ok) \in Reasons
    BY DEF Reason, Reasons, Unforeseen
  <2> QED
    BY <1>1, <2>1, Noted DEF LoupeInv
<1>4. Reason(ok) \in Unforeseen \/ (lastObservation' = 0 /\ settle = NoSettle)
  BY <1>1 DEF Reason, Unforeseen, Invalidated
<1>5. /\ action' \in Action /\ action'.pc \in {"idle", "look"}
      /\ action'.pc = "idle" => action' = NoAction
      /\ action'.pc = "look" => action'.kind = "scrollUntilVisible"
  <2>1. NoAction \in Action /\ NoAction.pc = "idle"
    BY DEF NoAction, Action, Pcs
  <2>2. action \in Action
    BY DEF LoupeInv, LoupeType
  <2>3. CASE ok /\ action.kind = "scrollUntilVisible"
    <3>1. action' = [action EXCEPT !.pc = "look", !.scrolls = @ + 1]
      BY <1>1, <2>3
    <3>2. action.scrolls + 1 \in Nat
      BY <2>2 DEF Action
    <3>3. action' = [pc |-> "look", kind |-> action.kind, want |-> action.want,
                     ref |-> action.ref, at |-> action.at, scrolls |-> action.scrolls + 1]
      BY <2>2, <3>1 DEF Action
    <3>4. action' \in Action
      BY <2>2, <3>2, <3>3 DEF Action, Pcs
    <3>5. action'.pc = "look" /\ action'.kind = "scrollUntilVisible"
      BY <2>3, <3>3
    <3> QED
      BY <3>4, <3>5
  <2>4. CASE ~(ok /\ action.kind = "scrollUntilVisible")
    <3>1. action' = NoAction
      BY <1>1, <2>4
    <3> QED
      BY <2>1, <3>1
  <2> QED
    BY <2>3, <2>4
<1>6. /\ settle' \in Settle /\ (settle'.pc = "idle" => settle' = NoSettle)
      /\ settle = NoSettle => settle'.pc # "take"
  <2>1. /\ [NoSettle EXCEPT !.pc = "fetch"] \in Settle /\ NoSettle.pc = "idle"
        /\ [NoSettle EXCEPT !.pc = "fetch"].pc = "fetch"
    BY DEF NoSettle, Settle, Shown
  <2> QED
    BY <1>1, <2>1 DEF LoupeInv, LoupeType, InjectedFirst
<1>7. LoupeType'
  BY <1>1, <1>2, <1>3, <1>5, <1>6 DEF LoupeInv, LoupeType, Shown, Invalidated
<1>8. InjectedFirst'
  BY <1>2, <1>5, <1>6 DEF InjectedFirst
<1>9. Current'
  <2>1. CASE Reason(ok) \in Unforeseen
    BY <1>3, <1>5, <2>1 DEF Current, Untouched
  <2>2. CASE lastObservation' = 0 /\ settle = NoSettle
    BY <1>5, <1>6, <2>2 DEF Current
  <2> QED
    BY <1>4, <2>1, <2>2
<1>10. TapHitsNamed'
  <2>1. CASE action.kind # "tapLabel"
    BY <2>1 DEF Performed, LoupeInv, TapHitsNamed
  <2>2. CASE action.kind = "tapLabel"
    <3>1. tap' = [want |-> action.want, hit |-> Hit,
                  by |-> IF ByPoint THEN "point" ELSE "ref",
                  there |-> action.want \in Range(Layout[screen]),
                  stale |-> stale["used"]]
      BY <2>2 DEF Performed
    <3>2. CASE action.ref # 0
      <4>1. Untouched("used") => Hit = action.want
        BY <1>2, <2>2, <3>2 DEF LoupeInv, Current, Hit
      <4> QED
        BY <3>1, <4>1 DEF TapHitsNamed, Untouched, Unforeseen
    <3>3. CASE action.ref = 0
      <4>1. ByPoint /\ (Untouched("used") => action.want \notin Range(Layout[screen]))
        BY <1>2, <2>2, <3>3 DEF LoupeInv, Current, ByPoint
      <4> QED
        BY <3>1, <4>1 DEF TapHitsNamed, Untouched, Unforeseen
    <3> QED
      BY <3>2, <3>3
  <2> QED
    BY <2>1, <2>2
<1> QED
  BY <1>7, <1>8, <1>9, <1>10 DEF LoupeInv

LEMMA LoupeNextHolds ==
  ASSUME LoupeInv, LoupeNext
  PROVE  LoupeInv'
<1> USE LoupeAssumption
<1>1. CASE injectOrDegrade
  <2>1. LoupeType'
    BY <1>1 DEF injectOrDegrade, LoupeInv, LoupeType, Action, Settle, NoAction, NoSettle, Pcs,
       Shown
  <2>2. InjectedFirst'
    BY <1>1 DEF injectOrDegrade, LoupeInv, LoupeType, InjectedFirst, Action, Settle, NoAction,
       NoSettle, canUseLoupe
  <2>3. Current'
    BY <1>1 DEF injectOrDegrade, LoupeInv, LoupeType, InjectedFirst, Current, Untouched, Action,
       Settle, NoAction, NoSettle,
       canUseLoupe
  <2>4. TapHitsNamed'
    BY <1>1 DEF injectOrDegrade, LoupeInv, TapHitsNamed
  <2> QED
    BY <2>1, <2>2, <2>3, <2>4 DEF LoupeInv
<1>2. CASE executeAction
  <2>1. LoupeType'
    <3> DEFINE Pc(k) == IF ~canUseLoupe THEN "maestro"
                        ELSE CASE k = "tapLabel" -> "find" [] k = "scrollUntilVisible" -> "look"
                               [] OTHER -> "command"
    <3>1. PICK k \in Kinds, l \in Label : \E p \in PointFor(k) :
            action' = [NoAction EXCEPT !.kind = k, !.want = l, !.at = p, !.pc = Pc(k)]
      BY <1>2, Zenon DEF executeAction
    <3>2. PICK p \in PointFor(k) :
            action' = [NoAction EXCEPT !.kind = k, !.want = l, !.at = p, !.pc = Pc(k)]
      BY <3>1
    <3>3. Pc(k) \in Pcs /\ p \in Point \cup {0}
      BY <3>2 DEF Pcs, PointFor
    <3> HIDE DEF Pc
    <3>4. action' = [pc |-> Pc(k), kind |-> k, want |-> l, ref |-> 0, at |-> p, scrolls |-> 0]
      BY <3>2 DEF NoAction
    <3>5. action' \in Action
      BY <3>3, <3>4 DEF Action
    <3> QED
      BY <1>2, <3>5 DEF executeAction, LoupeInv, LoupeType
  <2>2. InjectedFirst'
    BY <1>2 DEF executeAction, LoupeInv, LoupeType, InjectedFirst, Action, Settle, NoAction,
       NoSettle, canUseLoupe
  <2>3. Current'
    BY <1>2 DEF executeAction, LoupeInv, LoupeType, InjectedFirst, Current, Untouched, Action,
       Settle, NoAction, NoSettle,
       canUseLoupe
  <2>4. TapHitsNamed'
    BY <1>2 DEF executeAction, NoTap, TapHitsNamed
  <2> QED
    BY <2>1, <2>2, <2>3, <2>4 DEF LoupeInv
<1>3. CASE ByMaestro
  <2>1. LoupeType'
    BY <1>3 DEF ByMaestro, LoupeInv, LoupeType, Action, Settle, NoAction, NoSettle, Pcs, Shown
  <2>2. InjectedFirst'
    BY <1>3 DEF ByMaestro, LoupeInv, LoupeType, InjectedFirst, Action, Settle, NoAction, NoSettle,
       canUseLoupe
  <2>3. Current'
    BY <1>3 DEF ByMaestro, LoupeInv, LoupeType, InjectedFirst, Current, Untouched, Action, Settle,
       NoAction, NoSettle,
       canUseLoupe
  <2>4. TapHitsNamed'
    BY <1>3 DEF ByMaestro, LoupeInv, TapHitsNamed
  <2> QED
    BY <2>1, <2>2, <2>3, <2>4 DEF LoupeInv
<1>4. CASE findRef
  <2> DEFINE refs == {r \in DOMAIN Layout[lastObservation'] :
                        Layout[lastObservation'][r] = action.want}
  <2>1. /\ lastObservation' = IF lastObservation # 0 THEN lastObservation ELSE screen
        /\ lastObservation' \in DOMAIN Layout /\ runtime = "injected" /\ action \in Action
    BY <1>4 DEF findRef, LoupeInv, LoupeType, InjectedFirst, Shown
  <2>2. PICK r \in refs \cup {0} : TapAt(r) /\ (r = 0 => refs = {})
    <3>1. CASE refs = {}
      BY <1>4, <3>1 DEF findRef
    <3>2. CASE refs # {}
      <4>1. (CHOOSE r \in refs : TRUE) \in refs
        BY <3>2
      <4>2. TapAt(CHOOSE r \in refs : TRUE)
        BY <1>4, <3>2 DEF findRef
      <4> QED
        BY <2>1, <3>2, <4>1, <4>2
    <3> QED
      BY <3>1, <3>2
  <2>3. \/ action' = NoAction
        \/ /\ action' = [pc |-> "command", kind |-> action.kind, want |-> action.want,
                         ref |-> r, at |-> action.at, scrolls |-> action.scrolls]
    BY <2>1, <2>2 DEF TapAt, Action
  <2>4. r \in Ref \cup {0}
    BY <2>1, <2>2 DEF Ref
  <2>5. LoupeType'
    <3>1. stale' \in [{"kept", "fetched", "used"} -> SUBSET Reasons]
      BY <1>4 DEF findRef, LoupeInv, LoupeType
    <3>2. action' \in Action
      BY <2>1, <2>3, <2>4 DEF NoAction, Action, Pcs
    <3> QED
      BY <1>4, <2>1, <3>1, <3>2 DEF findRef, LoupeInv, LoupeType, Shown
  <2>6. InjectedFirst'
    BY <1>4, <2>1, <2>3 DEF findRef, LoupeInv, InjectedFirst, NoAction
  <2>7. Current'
    <3>1. /\ stale'["kept"] = stale'["used"] /\ stale'["fetched"] = stale["fetched"]
          /\ lastObservation # 0 => stale'["kept"] = stale["kept"]
      BY <1>4 DEF findRef, LoupeInv, LoupeType
    <3>2. Untouched("kept")' => lastObservation' = screen'
      BY <1>4, <2>1, <3>1 DEF findRef, LoupeInv, Current, Untouched
    <3>3. settle' = settle /\ screen' = screen
      BY <1>4 DEF findRef
    <3>4. action'.pc = "command" /\ Untouched("used")' =>
            IF action'.ref # 0
            THEN action'.ref \in DOMAIN Layout[screen] /\ Layout[screen][action'.ref] = action'.want
            ELSE action'.want \notin Range(Layout[screen])
      <4> SUFFICES ASSUME action'.pc = "command", Untouched("used")'
                   PROVE  IF r # 0 THEN r \in DOMAIN Layout[screen] /\ Layout[screen][r] = action.want
                          ELSE action.want \notin Range(Layout[screen])
        BY <2>3 DEF NoAction
      <4>1. lastObservation' = screen
        BY <3>1, <3>2, <3>3 DEF Untouched
      <4>2. CASE r # 0
        BY <2>2, <4>1, <4>2
      <4>3. CASE r = 0
        BY <2>2, <4>1, <4>3 DEF Range
      <4> QED
        BY <4>2, <4>3
    <3> QED
      BY <3>1, <3>2, <3>3, <3>4 DEF LoupeInv, Current, Untouched
  <2>8. TapHitsNamed'
    BY <1>4 DEF findRef, LoupeInv, TapHitsNamed
  <2> QED
    BY <2>5, <2>6, <2>7, <2>8 DEF LoupeInv
<1>5. CASE RefreshFails
  <2>1. /\ runtime = "injected" /\ action \in Action
        /\ stale' \in [{"kept", "fetched", "used"} -> SUBSET Reasons]
        /\ stale'["used"] = {"unseen"} /\ stale'["fetched"] = stale["fetched"]
    BY <1>5 DEF RefreshFails, LoupeInv, LoupeType, InjectedFirst, Reasons, Unforeseen
  <2>2. \/ action' = NoAction
        \/ /\ action' = [pc |-> "command", kind |-> action.kind, want |-> action.want,
                         ref |-> 0, at |-> action.at, scrolls |-> action.scrolls]
    BY <1>5, <2>1 DEF RefreshFails, TapAt, Action
  <2>3. LoupeType'
    <3>1. action' \in Action
      BY <2>1, <2>2 DEF NoAction, Action, Pcs
    <3> QED
      BY <1>5, <2>1, <3>1 DEF RefreshFails, LoupeInv, LoupeType
  <2>4. InjectedFirst'
    BY <1>5, <2>1, <2>2 DEF RefreshFails, LoupeInv, InjectedFirst, NoAction
  <2>5. Current'
    BY <1>5, <2>1, <2>2 DEF RefreshFails, LoupeInv, Current, Untouched, Unforeseen, NoAction
  <2>6. TapHitsNamed'
    BY <1>5 DEF RefreshFails, LoupeInv, TapHitsNamed
  <2> QED
    BY <2>3, <2>4, <2>5, <2>6 DEF LoupeInv
<1>6. CASE Performed
  BY <1>6, PerformedStep
<1>7. CASE CommandFails
  <2>1. LoupeType'
    BY <1>7 DEF CommandFails, LoupeInv, LoupeType, Action, Settle, NoAction, NoSettle, Pcs, Shown
  <2>2. InjectedFirst'
    BY <1>7 DEF CommandFails, LoupeInv, LoupeType, InjectedFirst, Action, Settle, NoAction,
       NoSettle,
       canUseLoupe
  <2>3. Current'
    BY <1>7 DEF CommandFails, LoupeInv, LoupeType, InjectedFirst, Current, Untouched, Action,
       Settle,
       NoAction, NoSettle,
       canUseLoupe
  <2>4. TapHitsNamed'
    BY <1>7 DEF CommandFails, LoupeInv, TapHitsNamed
  <2> QED
    BY <2>1, <2>2, <2>3, <2>4 DEF LoupeInv
<1>8. CASE Look
  <2>1. LoupeType'
    BY <1>8 DEF Look, LoupeInv, LoupeType, Action, Settle, NoAction, NoSettle, Pcs, Shown
  <2>2. InjectedFirst'
    BY <1>8 DEF Look, LoupeInv, LoupeType, InjectedFirst, Action, Settle, NoAction, NoSettle,
       canUseLoupe
  <2>3. Current'
    BY <1>8 DEF Look, LoupeInv, LoupeType, InjectedFirst, Current, Untouched, Action, Settle,
       NoAction, NoSettle,
       canUseLoupe
  <2>4. TapHitsNamed'
    BY <1>8 DEF Look, LoupeInv, TapHitsNamed
  <2> QED
    BY <2>1, <2>2, <2>3, <2>4 DEF LoupeInv
<1>9. CASE Fetch
  <2>1. LoupeType'
    BY <1>9 DEF Fetch, LoupeInv, LoupeType, Action, Settle, NoAction, NoSettle, Pcs, Shown
  <2>2. InjectedFirst'
    BY <1>9 DEF Fetch, LoupeInv, LoupeType, InjectedFirst, Action, Settle, NoAction, NoSettle,
       canUseLoupe
  <2>3. Current'
    BY <1>9 DEF Fetch, LoupeInv, LoupeType, InjectedFirst, Current, Untouched, Action, Settle,
       NoAction, NoSettle,
       canUseLoupe
  <2>4. TapHitsNamed'
    BY <1>9 DEF Fetch, LoupeInv, TapHitsNamed
  <2> QED
    BY <2>1, <2>2, <2>3, <2>4 DEF LoupeInv
<1>10. CASE Take
  <2>1. LoupeType'
    <3>1. settle' \in Settle
      <4>1. NoSettle \in Settle /\ settle \in Settle
        BY DEF LoupeInv, LoupeType, NoSettle, Settle, Shown
      <4>2. CASE settle' = NoSettle
        BY <4>1, <4>2
      <4>3. CASE settle' # NoSettle
        <5> DEFINE hits == IF settle.fetched = settle.last THEN settle.hits + 1 ELSE 0
        <5>1. settle' = [settle EXCEPT !.pc = "fetch", !.last = settle.fetched, !.hits = hits]
          <6>1. settle' = IF settle.fetched = settle.last /\ settle.hits = 1 THEN NoSettle
                          ELSE [settle EXCEPT !.pc = "fetch", !.last = settle.fetched,
                                  !.hits = IF settle.fetched = settle.last THEN @ + 1 ELSE 0]
            BY <1>10 DEF Take
          <6> QED
            BY <4>3, <6>1
        <5>2. hits \in Nat
          BY <4>1 DEF Settle
        <5> HIDE DEF hits
        <5>3. settle' = [pc |-> "fetch", fetched |-> settle.fetched, last |-> settle.fetched,
                         hits |-> hits]
          BY <4>1, <5>1 DEF Settle
        <5> QED
          BY <4>1, <5>2, <5>3 DEF Settle
      <4> QED
        BY <4>2, <4>3
    <3>2. lastObservation' \in Shown
      BY <1>10 DEF Take, LoupeInv, LoupeType, Settle
    <3>3. stale' \in [{"kept", "fetched", "used"} -> SUBSET Reasons]
      BY <1>10 DEF Take, LoupeInv, LoupeType
    <3> QED
      BY <1>10, <3>1, <3>2, <3>3 DEF Take, LoupeInv, LoupeType
  <2>2. InjectedFirst'
    BY <1>10 DEF Take, LoupeInv, LoupeType, InjectedFirst, Action, Settle, NoAction, NoSettle,
       canUseLoupe
  <2>3. Current'
    BY <1>10 DEF Take, LoupeInv, LoupeType, InjectedFirst, Current, Untouched, Action, Settle,
       NoAction, NoSettle,
       canUseLoupe
  <2>4. TapHitsNamed'
    BY <1>10 DEF Take, LoupeInv, TapHitsNamed
  <2> QED
    BY <2>1, <2>2, <2>3, <2>4 DEF LoupeInv
<1>11. CASE SettleEnds
  <2>1. LoupeType'
    BY <1>11 DEF SettleEnds, LoupeInv, LoupeType, Action, Settle, NoAction, NoSettle, Pcs, Shown
  <2>2. InjectedFirst'
    BY <1>11 DEF SettleEnds, LoupeInv, LoupeType, InjectedFirst, Action, Settle, NoAction,
       NoSettle,
       canUseLoupe
  <2>3. Current'
    BY <1>11 DEF SettleEnds, LoupeInv, LoupeType, InjectedFirst, Current, Untouched, Action,
       Settle,
       NoAction, NoSettle,
       canUseLoupe
  <2>4. TapHitsNamed'
    BY <1>11 DEF SettleEnds, LoupeInv, TapHitsNamed
  <2> QED
    BY <2>1, <2>2, <2>3, <2>4 DEF LoupeInv
<1>12. CASE Redraw
  <2>5. /\ stale' \in [{"kept", "fetched", "used"} -> SUBSET Reasons]
        /\ \A of \in {"kept", "fetched", "used"} : "redrawn" \in stale'[of]
    <3>1. "redrawn" \in Reasons
      BY DEF Reasons, Unforeseen
    <3> QED
      BY <1>12, <3>1, Noted DEF Redraw, LoupeInv
  <2>1. LoupeType'
    BY <1>12, <2>5 DEF Redraw, LoupeInv, LoupeType
  <2>2. InjectedFirst'
    BY <1>12 DEF Redraw, LoupeInv, LoupeType, InjectedFirst, Action, Settle, NoAction, NoSettle,
       canUseLoupe
  <2>3. Current'
    BY <1>12, <2>5 DEF Redraw, Current, Untouched, Unforeseen
  <2>4. TapHitsNamed'
    BY <1>12 DEF Redraw, LoupeInv, TapHitsNamed
  <2> QED
    BY <2>1, <2>2, <2>3, <2>4 DEF LoupeInv
<1> QED
  BY <1>1, <1>2, <1>3, <1>4, <1>5, <1>6, <1>7, <1>8, <1>9, <1>10, <1>11, <1>12 DEF LoupeNext

LEMMA LoupeStutters ==
  ASSUME LoupeInv, UNCHANGED loupeVars
  PROVE  LoupeInv'
BY DEF loupeVars, LoupeInv, LoupeType, InjectedFirst, Current, Untouched, TapHitsNamed

-----------------------------------------------------------------------------
(* Theorems. *)

(* The inductive invariant holds of every use of the driver.               *)
THEOREM LoupeInvariance == LoupeSpec => []LoupeInv
<1>1. LoupeInv /\ [LoupeNext]_loupeVars => LoupeInv'
  BY LoupeNextHolds, LoupeStutters
<1> QED
  BY <1>1, LoupeInitHolds, PTL DEF LoupeSpec

(* A tap by label hits the element of that label, unless the app redrew    *)
(* itself, text was typed, an answer was lost or an action ran beside a    *)
(* settle since the observation it goes by, or it goes by the point of an  *)
(* element that is not there, or without any observation (dispatchTap,     *)
(* findRef).                                                               *)
THEOREM HitsNamed == LoupeSpec => []TapHitsNamed
<1>1. LoupeInv => TapHitsNamed
  BY DEF LoupeInv
<1> QED
  BY <1>1, LoupeInvariance, PTL

-----------------------------------------------------------------------------
(***************************************************************************)
(* A feature test, for lists of any length: its properties speak of the    *)
(* end of a run; the invariant says what each phase has established by     *)
(* then: of the mocks (MocksKnown), the recording (RecordingEnds), the     *)
(* device (DeviceActs) and the result (Progress).                           *)
(***************************************************************************)

Opening == {"load", "install", "setup", "start"}
Closing == {"compile", "teardown", "verdict"}
Ending  == {"cleanup", "over"}

(* Mocks are installed one after the other, and looked at in that order.   *)
MocksKnown ==
  /\ \A a \in installed : 1 .. a \subseteq installed
  /\ pc = "load" => installed = {}
  /\ pc = "install" => \A a \in installed : a < i
  /\ pc = "install" => \A a \in 1 .. Mocks : a < i => a \in installed
  /\ rules \subseteq installed \cup unanswered
  /\ pc = "cleanup" => \A r \in rules : r < i => r \in unanswered \cup undeleted
  /\ pc = "over" => rules \subseteq unanswered \cup undeleted

RecordingEnds ==
  /\ pc \in Opening => session = "none"
  /\ pc \in {"act", "assert"} => session = "recording"
  /\ pc \in Closing => session # "none"
  /\ pc \in {"teardown", "verdict"} \cup Ending /\ session = "recording" => compileFailed

PerformedBefore(n) == \A a \in (1 .. Actions) \ Waits : a < n => performed[a] >= 1
AllPerformed == \A a \in (1 .. Actions) \ Waits : performed[a] >= 1

DeviceActs ==
  /\ pc \in Opening => \A a \in 1 .. Actions : performed[a] = 0
  /\ pc = "act" => \A a \in 1 .. Actions : a >= i => performed[a] = 0
  /\ pc = "act" => PerformedBefore(i)
  /\ pc = "assert" => AllPerformed
  /\ pc \in Closing /\ actionsPassed => AllPerformed
  /\ passed => AllPerformed

(* What a passed result stands for. *)
Met ==
  /\ AllTrue(setupFlows, Setup) /\ session # "none"
  /\ interactions = Actions /\ AllTrue(verdicts, Assertions)

Progress ==
  /\ pc \in Opening => setupPassed /\ actionsPassed /\ interactions = 0 /\ verdicts = <<>>
  /\ pc \in {"load", "install"} => setupFlows = <<>>
  /\ pc = "setup" => i <= Setup + 1 /\ AllTrue(setupFlows, i - 1)
  /\ pc \in {"start", "act", "assert"} \cup Closing => setupPassed /\ AllTrue(setupFlows, Setup)
  /\ pc = "act" => /\ i <= Actions + 1 /\ interactions = i - 1
                   /\ actionsPassed /\ verdicts = <<>>
  /\ pc = "assert" => actionsPassed /\ interactions = Actions
  /\ pc \in Closing => (actionsPassed <=> interactions = Actions)
  /\ pc \notin Ending => ~passed
  /\ pc \in Ending => (passed <=> Met)
  /\ pc # "over" => exit = 3
  /\ pc = "over" => exit = IF exit = 2 THEN 2 ELSE IF passed THEN 0 ELSE 1

FeatureInv == TypeOK /\ i # 0 /\ MocksKnown /\ RecordingEnds /\ DeviceActs /\ Progress

-----------------------------------------------------------------------------

LEMMA FeatureInitHolds == Init => FeatureInv
<1> SUFFICES ASSUME Init PROVE FeatureInv
  OBVIOUS
<1>1. cliFallback \in BOOLEAN
  BY Zenon DEF Init
<1>2. TypeOK
  <2>1. setupFlows \in Seq(BOOLEAN) /\ verdicts \in Seq(BOOLEAN)
    BY DEF Init
  <2>2. {setupPassed, actionsPassed, compileFailed, passed, cliFallback} \subseteq BOOLEAN
    BY <1>1, Zenon DEF Init
  <2>3. performed \in [1 .. Actions -> 0 .. 2] /\ interactions \in 0 .. Actions
    BY SpecAssumption DEF Init
  <2> QED
    BY <2>1, <2>2, <2>3, SpecAssumption DEF Init, TypeOK
<1>3. MocksKnown /\ RecordingEnds
  BY DEF Init, MocksKnown, RecordingEnds, Opening, Closing, Ending
<1>4. DeviceActs
  BY DEF Init, DeviceActs, Opening, Closing
<1>5. Progress
  BY DEF Init, Progress, Opening, Closing, Ending
<1> QED
  BY <1>2, <1>3, <1>4, <1>5 DEF Init, FeatureInv

(* A count of what the device did stays one. *)
LEMMA DoType ==
  ASSUME performed \in [1 .. Actions -> 0 .. 2], NEW n \in 0 .. 2, Do(n),
         performed[i] = 0, i \in 1 .. Actions
  PROVE  /\ performed' \in [1 .. Actions -> 0 .. 2] /\ performed'[i] = n
         /\ \A a \in 1 .. Actions : a # i => performed'[a] = performed[a]
BY DEF Do

LEMMA FeatureNextHolds ==
  ASSUME FeatureInv, Next
  PROVE  FeatureInv'
<1> USE SpecAssumption DEF mockVars, recordVars, setupVars, actionVars, outcomeVars,
    In, Stay, Go, Past, Opening, Closing, Ending
<1>1. CASE Load
  <2>1. TypeOK'
    BY <1>1 DEF Load, FeatureInv, TypeOK, Progress
  <2>2. MocksKnown'
    BY <1>1 DEF Load, FeatureInv, TypeOK, MocksKnown
  <2>3. RecordingEnds'
    BY <1>1 DEF Load, FeatureInv, TypeOK, RecordingEnds
  <2>4. DeviceActs'
    BY <1>1 DEF Load, FeatureInv, TypeOK, DeviceActs, Progress, PerformedBefore, AllPerformed,
       RecordingEnds
  <2>5. Progress'
    BY <1>1 DEF Load, FeatureInv, TypeOK, Progress, RecordingEnds, Met, AllTrue
  <2> QED
    BY <1>1, <2>1, <2>2, <2>3, <2>4, <2>5 DEF Load, FeatureInv, TypeOK
<1>2. CASE InstallFails
  <2>1. TypeOK'
    <3>1. i \in 1 .. Mocks
      BY <1>2 DEF InstallFails, FeatureInv, TypeOK
    <3>2. /\ rules' \subseteq rules \cup {i} /\ unanswered' \subseteq unanswered \cup {i}
          /\ installed' = installed /\ undeleted' = undeleted
      BY <1>2 DEF InstallFails
    <3>3. {rules', installed', unanswered', undeleted'} \subseteq SUBSET (1 .. Mocks)
      BY <3>1, <3>2 DEF FeatureInv, TypeOK
    <3> QED
      BY <1>2, <3>3 DEF InstallFails, FeatureInv, TypeOK
  <2>2. MocksKnown'
    BY <1>2 DEF InstallFails, FeatureInv, TypeOK, MocksKnown
  <2>3. RecordingEnds'
    BY <1>2 DEF InstallFails, FeatureInv, TypeOK, RecordingEnds
  <2>4. DeviceActs'
    BY <1>2 DEF InstallFails, FeatureInv, TypeOK, DeviceActs, Progress, PerformedBefore, AllPerformed,
       RecordingEnds
  <2>5. Progress'
    BY <1>2 DEF InstallFails, FeatureInv, TypeOK, Progress, RecordingEnds, Met, AllTrue
  <2> QED
    BY <1>2, <2>1, <2>2, <2>3, <2>4, <2>5 DEF InstallFails, FeatureInv, TypeOK
<1>3. CASE Install
  <2>1. TypeOK'
    BY <1>3 DEF Install, FeatureInv, TypeOK, Progress
  <2>2. MocksKnown'
    BY <1>3 DEF Install, FeatureInv, TypeOK, MocksKnown
  <2>3. RecordingEnds'
    BY <1>3 DEF Install, FeatureInv, TypeOK, RecordingEnds
  <2>4. DeviceActs'
    BY <1>3 DEF Install, FeatureInv, TypeOK, DeviceActs, Progress, PerformedBefore, AllPerformed,
       RecordingEnds
  <2>5. Progress'
    BY <1>3 DEF Install, FeatureInv, TypeOK, Progress, RecordingEnds, Met, AllTrue
  <2> QED
    BY <1>3, <2>1, <2>2, <2>3, <2>4, <2>5 DEF Install, FeatureInv, TypeOK
<1>4. CASE Installed
  <2>1. TypeOK'
    BY <1>4 DEF Installed, FeatureInv, TypeOK, Progress
  <2>2. MocksKnown'
    BY <1>4 DEF Installed, FeatureInv, TypeOK, MocksKnown
  <2>3. RecordingEnds'
    BY <1>4 DEF Installed, FeatureInv, TypeOK, RecordingEnds
  <2>4. DeviceActs'
    BY <1>4 DEF Installed, FeatureInv, TypeOK, DeviceActs, Progress, PerformedBefore, AllPerformed,
       RecordingEnds
  <2>5. Progress'
    BY <1>4 DEF Installed, FeatureInv, TypeOK, Progress, RecordingEnds, Met, AllTrue
  <2> QED
    BY <1>4, <2>1, <2>2, <2>3, <2>4, <2>5 DEF Installed, FeatureInv, TypeOK
<1>5. CASE SetupPasses
  <2>1. TypeOK'
    BY <1>5 DEF SetupPasses, FeatureInv, TypeOK, Progress
  <2>2. MocksKnown'
    BY <1>5 DEF SetupPasses, FeatureInv, TypeOK, MocksKnown
  <2>3. RecordingEnds'
    BY <1>5 DEF SetupPasses, FeatureInv, TypeOK, RecordingEnds
  <2>4. DeviceActs'
    BY <1>5 DEF SetupPasses, FeatureInv, TypeOK, DeviceActs, Progress, PerformedBefore, AllPerformed,
       RecordingEnds
  <2>5. Progress'
    BY <1>5 DEF SetupPasses, FeatureInv, TypeOK, Progress, RecordingEnds, Met, AllTrue
  <2> QED
    BY <1>5, <2>1, <2>2, <2>3, <2>4, <2>5 DEF SetupPasses, FeatureInv, TypeOK
<1>6. CASE SetupFails
  <2>1. TypeOK'
    <3>1. setupPassed' \in BOOLEAN /\ FALSE \in BOOLEAN
      BY <1>6, Zenon DEF SetupFails
    <3>2. setupFlows' \in Seq(BOOLEAN)
      BY <1>6, <3>1 DEF SetupFails, FeatureInv, TypeOK
    <3> QED
      BY <1>6, <3>1, <3>2 DEF SetupFails, FeatureInv, TypeOK
  <2>2. MocksKnown'
    BY <1>6 DEF SetupFails, FeatureInv, TypeOK, MocksKnown
  <2>3. RecordingEnds'
    BY <1>6 DEF SetupFails, FeatureInv, TypeOK, RecordingEnds
  <2>4. DeviceActs'
    BY <1>6 DEF SetupFails, FeatureInv, TypeOK, DeviceActs, Progress, PerformedBefore, AllPerformed,
       RecordingEnds
  <2>5. Progress'
    BY <1>6 DEF SetupFails, FeatureInv, TypeOK, Progress, RecordingEnds, Met, AllTrue
  <2> QED
    BY <1>6, <2>1, <2>2, <2>3, <2>4, <2>5 DEF SetupFails, FeatureInv, TypeOK
<1>7. CASE SetupOver
  <2>1. TypeOK'
    BY <1>7 DEF SetupOver, FeatureInv, TypeOK, Progress
  <2>2. MocksKnown'
    BY <1>7 DEF SetupOver, FeatureInv, TypeOK, MocksKnown
  <2>3. RecordingEnds'
    BY <1>7 DEF SetupOver, FeatureInv, TypeOK, RecordingEnds
  <2>4. DeviceActs'
    BY <1>7 DEF SetupOver, FeatureInv, TypeOK, DeviceActs, Progress, PerformedBefore, AllPerformed,
       RecordingEnds
  <2>5. Progress'
    BY <1>7 DEF SetupOver, FeatureInv, TypeOK, Progress, RecordingEnds, Met, AllTrue
  <2> QED
    BY <1>7, <2>1, <2>2, <2>3, <2>4, <2>5 DEF SetupOver, FeatureInv, TypeOK
<1>8. CASE StartRecording
  <2>1. TypeOK'
    BY <1>8 DEF StartRecording, FeatureInv, TypeOK, Progress
  <2>2. MocksKnown'
    BY <1>8 DEF StartRecording, FeatureInv, TypeOK, MocksKnown
  <2>3. RecordingEnds'
    BY <1>8 DEF StartRecording, FeatureInv, TypeOK, RecordingEnds
  <2>4. DeviceActs'
    BY <1>8 DEF StartRecording, FeatureInv, TypeOK, DeviceActs, Progress, PerformedBefore, AllPerformed,
       RecordingEnds
  <2>5. Progress'
    BY <1>8 DEF StartRecording, FeatureInv, TypeOK, Progress, RecordingEnds, Met, AllTrue
  <2> QED
    BY <1>8, <2>1, <2>2, <2>3, <2>4, <2>5 DEF StartRecording, FeatureInv, TypeOK
<1>9. CASE Wait
  <2>1. TypeOK'
    BY <1>9 DEF Wait, FeatureInv, TypeOK, Progress
  <2>2. MocksKnown'
    BY <1>9 DEF Wait, FeatureInv, TypeOK, MocksKnown
  <2>3. RecordingEnds'
    BY <1>9 DEF Wait, FeatureInv, TypeOK, RecordingEnds
  <2>4. DeviceActs'
    BY <1>9 DEF Wait, FeatureInv, TypeOK, DeviceActs, Progress, PerformedBefore, AllPerformed,
       RecordingEnds
  <2>5. Progress'
    BY <1>9 DEF Wait, FeatureInv, TypeOK, Progress, RecordingEnds, Met, AllTrue
  <2> QED
    BY <1>9, <2>1, <2>2, <2>3, <2>4, <2>5 DEF Wait, FeatureInv, TypeOK
<1>10. CASE Act
  <2>6. PICK n \in 0 .. 2 : Do(n) /\ n >= 1
    BY <1>10 DEF Act
  <2>7. i \in 1 .. Actions /\ performed[i] = 0
    BY <1>10 DEF Act, FeatureInv, TypeOK, DeviceActs
  <2>8. /\ performed' \in [1 .. Actions -> 0 .. 2] /\ performed'[i] = n
        /\ \A a \in 1 .. Actions : a # i => performed'[a] = performed[a]
    BY <2>6, <2>7, DoType DEF FeatureInv, TypeOK
  <2>1. TypeOK'
    BY <1>10, <2>6, <2>7, <2>8 DEF Act, FeatureInv, TypeOK, Progress
  <2>2. MocksKnown'
    BY <1>10 DEF Act, FeatureInv, TypeOK, MocksKnown
  <2>3. RecordingEnds'
    BY <1>10 DEF Act, FeatureInv, TypeOK, RecordingEnds
  <2>4. DeviceActs'
    BY <1>10, <2>6, <2>7, <2>8 DEF Act, FeatureInv, TypeOK, DeviceActs, Progress, PerformedBefore,
       AllPerformed, RecordingEnds
  <2>5. Progress'
    BY <1>10 DEF Act, FeatureInv, TypeOK, Progress, RecordingEnds, Met, AllTrue
  <2> QED
    BY <1>10, <2>1, <2>2, <2>3, <2>4, <2>5 DEF Act, FeatureInv, TypeOK
<1>11. CASE ActFails
  <2>6. PICK n \in 0 .. 2 : Do(n) /\ n >= 0
    BY <1>11 DEF ActFails
  <2>7. i \in 1 .. Actions /\ performed[i] = 0
    BY <1>11 DEF ActFails, FeatureInv, TypeOK, DeviceActs
  <2>8. /\ performed' \in [1 .. Actions -> 0 .. 2] /\ performed'[i] = n
        /\ \A a \in 1 .. Actions : a # i => performed'[a] = performed[a]
    BY <2>6, <2>7, DoType DEF FeatureInv, TypeOK
  <2>1. TypeOK'
    BY <1>11, <2>6, <2>7, <2>8 DEF ActFails, FeatureInv, TypeOK, Progress
  <2>2. MocksKnown'
    BY <1>11 DEF ActFails, FeatureInv, TypeOK, MocksKnown
  <2>3. RecordingEnds'
    BY <1>11 DEF ActFails, FeatureInv, TypeOK, RecordingEnds
  <2>4. DeviceActs'
    BY <1>11, <2>6, <2>7, <2>8 DEF ActFails, FeatureInv, TypeOK, DeviceActs, Progress, PerformedBefore,
       AllPerformed, RecordingEnds
  <2>5. Progress'
    BY <1>11 DEF ActFails, FeatureInv, TypeOK, Progress, RecordingEnds, Met, AllTrue
  <2> QED
    BY <1>11, <2>1, <2>2, <2>3, <2>4, <2>5 DEF ActFails, FeatureInv, TypeOK
<1>12. CASE ActTimesOut
  <2>1. TypeOK'
    BY <1>12 DEF ActTimesOut, FeatureInv, TypeOK, Progress
  <2>2. MocksKnown'
    BY <1>12 DEF ActTimesOut, FeatureInv, TypeOK, MocksKnown
  <2>3. RecordingEnds'
    BY <1>12 DEF ActTimesOut, FeatureInv, TypeOK, RecordingEnds
  <2>4. DeviceActs'
    BY <1>12 DEF ActTimesOut, FeatureInv, TypeOK, DeviceActs, Progress, PerformedBefore, AllPerformed,
       RecordingEnds
  <2>5. Progress'
    BY <1>12 DEF ActTimesOut, FeatureInv, TypeOK, Progress, RecordingEnds, Met, AllTrue
  <2> QED
    BY <1>12, <2>1, <2>2, <2>3, <2>4, <2>5 DEF ActTimesOut, FeatureInv, TypeOK
<1>13. CASE ActsOver
  <2>1. TypeOK'
    BY <1>13 DEF ActsOver, FeatureInv, TypeOK, Progress
  <2>2. MocksKnown'
    BY <1>13 DEF ActsOver, FeatureInv, TypeOK, MocksKnown
  <2>3. RecordingEnds'
    BY <1>13 DEF ActsOver, FeatureInv, TypeOK, RecordingEnds
  <2>4. DeviceActs'
    BY <1>13 DEF ActsOver, FeatureInv, TypeOK, DeviceActs, Progress, PerformedBefore, AllPerformed,
       RecordingEnds
  <2>5. Progress'
    BY <1>13 DEF ActsOver, FeatureInv, TypeOK, Progress, RecordingEnds, Met, AllTrue
  <2> QED
    BY <1>13, <2>1, <2>2, <2>3, <2>4, <2>5 DEF ActsOver, FeatureInv, TypeOK
<1>14. CASE RunAssertion
  <2>1. TypeOK'
    BY <1>14 DEF RunAssertion, FeatureInv, TypeOK, Progress
  <2>2. MocksKnown'
    BY <1>14 DEF RunAssertion, FeatureInv, TypeOK, MocksKnown
  <2>3. RecordingEnds'
    BY <1>14 DEF RunAssertion, FeatureInv, TypeOK, RecordingEnds
  <2>4. DeviceActs'
    BY <1>14 DEF RunAssertion, FeatureInv, TypeOK, DeviceActs, Progress, PerformedBefore, AllPerformed,
       RecordingEnds
  <2>5. Progress'
    BY <1>14 DEF RunAssertion, FeatureInv, TypeOK, Progress, RecordingEnds, Met, AllTrue
  <2> QED
    BY <1>14, <2>1, <2>2, <2>3, <2>4, <2>5 DEF RunAssertion, FeatureInv, TypeOK
<1>15. CASE AssertsOver
  <2>1. TypeOK'
    BY <1>15 DEF AssertsOver, FeatureInv, TypeOK, Progress
  <2>2. MocksKnown'
    BY <1>15 DEF AssertsOver, FeatureInv, TypeOK, MocksKnown
  <2>3. RecordingEnds'
    BY <1>15 DEF AssertsOver, FeatureInv, TypeOK, RecordingEnds
  <2>4. DeviceActs'
    BY <1>15 DEF AssertsOver, FeatureInv, TypeOK, DeviceActs, Progress, PerformedBefore, AllPerformed,
       RecordingEnds
  <2>5. Progress'
    BY <1>15 DEF AssertsOver, FeatureInv, TypeOK, Progress, RecordingEnds, Met, AllTrue
  <2> QED
    BY <1>15, <2>1, <2>2, <2>3, <2>4, <2>5 DEF AssertsOver, FeatureInv, TypeOK
<1>16. CASE StopAndCompile
  <2>1. TypeOK'
    BY <1>16 DEF StopAndCompile, FeatureInv, TypeOK, Progress
  <2>2. MocksKnown'
    BY <1>16 DEF StopAndCompile, FeatureInv, TypeOK, MocksKnown
  <2>3. RecordingEnds'
    BY <1>16 DEF StopAndCompile, FeatureInv, TypeOK, RecordingEnds
  <2>4. DeviceActs'
    BY <1>16 DEF StopAndCompile, FeatureInv, TypeOK, DeviceActs, Progress, PerformedBefore,
       AllPerformed, RecordingEnds
  <2>5. Progress'
    BY <1>16 DEF StopAndCompile, FeatureInv, TypeOK, Progress, RecordingEnds, Met, AllTrue
  <2> QED
    BY <1>16, <2>1, <2>2, <2>3, <2>4, <2>5 DEF StopAndCompile, FeatureInv, TypeOK
<1>17. CASE TeardownFlow
  <2>1. TypeOK'
    BY <1>17 DEF TeardownFlow, FeatureInv, TypeOK, Progress
  <2>2. MocksKnown'
    BY <1>17 DEF TeardownFlow, FeatureInv, TypeOK, MocksKnown
  <2>3. RecordingEnds'
    BY <1>17 DEF TeardownFlow, FeatureInv, TypeOK, RecordingEnds
  <2>4. DeviceActs'
    BY <1>17 DEF TeardownFlow, FeatureInv, TypeOK, DeviceActs, Progress, PerformedBefore, AllPerformed,
       RecordingEnds
  <2>5. Progress'
    BY <1>17 DEF TeardownFlow, FeatureInv, TypeOK, Progress, RecordingEnds, Met, AllTrue
  <2> QED
    BY <1>17, <2>1, <2>2, <2>3, <2>4, <2>5 DEF TeardownFlow, FeatureInv, TypeOK
<1>18. CASE TeardownOver
  <2>1. TypeOK'
    BY <1>18 DEF TeardownOver, FeatureInv, TypeOK, Progress
  <2>2. MocksKnown'
    BY <1>18 DEF TeardownOver, FeatureInv, TypeOK, MocksKnown
  <2>3. RecordingEnds'
    BY <1>18 DEF TeardownOver, FeatureInv, TypeOK, RecordingEnds
  <2>4. DeviceActs'
    BY <1>18 DEF TeardownOver, FeatureInv, TypeOK, DeviceActs, Progress, PerformedBefore, AllPerformed,
       RecordingEnds
  <2>5. Progress'
    BY <1>18 DEF TeardownOver, FeatureInv, TypeOK, Progress, RecordingEnds, Met, AllTrue
  <2> QED
    BY <1>18, <2>1, <2>2, <2>3, <2>4, <2>5 DEF TeardownOver, FeatureInv, TypeOK
<1>19. CASE Verdict
  <2>1. TypeOK'
    BY <1>19 DEF Verdict, FeatureInv, TypeOK, Progress
  <2>2. MocksKnown'
    BY <1>19 DEF Verdict, FeatureInv, TypeOK, MocksKnown
  <2>3. RecordingEnds'
    BY <1>19 DEF Verdict, FeatureInv, TypeOK, RecordingEnds
  <2>4. DeviceActs'
    BY <1>19 DEF Verdict, FeatureInv, TypeOK, DeviceActs, Progress, PerformedBefore, AllPerformed,
       RecordingEnds
  <2>5. Progress'
    BY <1>19 DEF Verdict, FeatureInv, TypeOK, Progress, RecordingEnds, Met, AllTrue
  <2> QED
    BY <1>19, <2>1, <2>2, <2>3, <2>4, <2>5 DEF Verdict, FeatureInv, TypeOK
<1>20. CASE DeleteMock
  <2>1. TypeOK'
    BY <1>20 DEF DeleteMock, FeatureInv, TypeOK, Progress
  <2>2. MocksKnown'
    <3>1. rules' \subseteq rules /\ undeleted \subseteq undeleted'
          /\ (i \in rules' => i \in undeleted')
      BY <1>20 DEF DeleteMock
    <3>2. \A r \in rules' : r < i' => r < i \/ r = i
      BY <1>20, <3>1 DEF DeleteMock, FeatureInv, TypeOK
    <3> QED
      BY <1>20, <3>1, <3>2 DEF DeleteMock, FeatureInv, TypeOK, MocksKnown
  <2>3. RecordingEnds'
    BY <1>20 DEF DeleteMock, FeatureInv, TypeOK, RecordingEnds
  <2>4. DeviceActs'
    BY <1>20 DEF DeleteMock, FeatureInv, TypeOK, DeviceActs, Progress, PerformedBefore, AllPerformed,
       RecordingEnds
  <2>5. Progress'
    BY <1>20 DEF DeleteMock, FeatureInv, TypeOK, Progress, RecordingEnds, Met, AllTrue
  <2> QED
    BY <1>20, <2>1, <2>2, <2>3, <2>4, <2>5 DEF DeleteMock, FeatureInv, TypeOK
<1>21. CASE ExitCode
  <2>1. TypeOK'
    BY <1>21 DEF ExitCode, FeatureInv, TypeOK, Progress
  <2>2. MocksKnown'
    <3>1. rules \subseteq unanswered \cup undeleted
      <4> SUFFICES ASSUME NEW r \in rules, r \notin unanswered \cup undeleted
                   PROVE  FALSE
        OBVIOUS
      <4>1. r \in installed /\ 1 .. r \subseteq installed
        BY DEF FeatureInv, MocksKnown
      <4>2. r \in Nat /\ i \in Nat /\ i # 0
        BY DEF FeatureInv, TypeOK
      <4>3. ~(r < i)
        BY <1>21 DEF ExitCode, FeatureInv, MocksKnown
      <4>4. i \in 1 .. r
        BY <4>2, <4>3
      <4> QED
        BY <1>21, <4>1, <4>4 DEF ExitCode
    <3>2. /\ rules' = rules /\ installed' = installed /\ pc' = "over"
          /\ unanswered' = unanswered /\ undeleted' = undeleted
      BY <1>21 DEF ExitCode
    <3> QED
      BY <3>1, <3>2 DEF FeatureInv, MocksKnown
  <2>3. RecordingEnds'
    BY <1>21 DEF ExitCode, FeatureInv, TypeOK, RecordingEnds
  <2>4. DeviceActs'
    BY <1>21 DEF ExitCode, FeatureInv, TypeOK, DeviceActs, Progress, PerformedBefore, AllPerformed,
       RecordingEnds
  <2>5. Progress'
    BY <1>21 DEF ExitCode, FeatureInv, TypeOK, Progress, RecordingEnds, Met, AllTrue
  <2> QED
    BY <1>21, <2>1, <2>2, <2>3, <2>4, <2>5 DEF ExitCode, FeatureInv, TypeOK
<1> QED
  BY <1>1, <1>2, <1>3, <1>4, <1>5, <1>6, <1>7, <1>8, <1>9, <1>10, <1>11,
     <1>12, <1>13, <1>14, <1>15, <1>16, <1>17, <1>18, <1>19, <1>20, <1>21 DEF Next

LEMMA FeatureStutters ==
  ASSUME FeatureInv, UNCHANGED vars
  PROVE  FeatureInv'
BY DEF vars, mockVars, recordVars, setupVars, actionVars, outcomeVars, FeatureInv, TypeOK, MocksKnown,
   RecordingEnds, DeviceActs, PerformedBefore, AllPerformed, Progress, Met, AllTrue

-----------------------------------------------------------------------------
(* Theorems. *)

(* The inductive invariant holds of every run of a feature test, for every *)
(* spec (featureTest/runner.ts).                                           *)
THEOREM FeatureInvariance == Spec => []FeatureInv
<1>1. FeatureInv /\ [Next]_vars => FeatureInv'
  BY FeatureNextHolds, FeatureStutters
<1> QED
  BY <1>1, FeatureInitHolds, PTL DEF Spec

(* Every variable keeps its type. *)
THEOREM FeatureTypeCorrect == Spec => []TypeOK
<1>1. FeatureInv => TypeOK
  BY DEF FeatureInv
<1> QED
  BY <1>1, FeatureInvariance, PTL

(* The exit code of the command line is true: 0 exactly if every flow,     *)
(* action and assertion of the spec was run and passed.                    *)
THEOREM ExitTrue == Spec => []ExitCodeIsTrue
<1>1. ASSUME FeatureInv PROVE ExitCodeIsTrue
  <2>1. exit \in {0, 1} => pc = "over" /\ (exit = 0 <=> passed) /\ (passed <=> Met)
    BY <1>1 DEF FeatureInv, Progress, Ending
  <2>2. exit = 0 => AllPerformed
    BY <1>1, <2>1 DEF FeatureInv, DeviceActs
  <2>3. Met => interactions = Actions /\ session # "none"
    BY DEF Met
  <2> QED
    BY <2>1, <2>2, <2>3 DEF ExitCodeIsTrue, AllPerformed, Met
<1> QED
  BY <1>1, FeatureInvariance, PTL

(* However the run ends, what is left in Proxyman is what it could not     *)
(* know of or could not delete, and the recording is over unless its       *)
(* compile failed (the finally block).                                     *)
THEOREM LeavesNothing == Spec => []RunLeavesNothing
<1>1. FeatureInv => RunLeavesNothing
  BY DEF FeatureInv, MocksKnown, RecordingEnds, Ending, RunLeavesNothing
<1> QED
  BY <1>1, FeatureInvariance, PTL
=============================================================================
