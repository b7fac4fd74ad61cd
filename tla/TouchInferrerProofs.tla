------------------------ MODULE TouchInferrerProofs ------------------------
(***************************************************************************)
(* Proofs about TouchInferrer, for every app, every number of screens and  *)
(* every number of actions.                                                *)
(*                                                                         *)
(* OneInferencePerChange counts: each inference moves the baseline forward *)
(* along the snapshots (Counted).  ActionsNotInferred is a balance: what   *)
(* has been inferred, and what may still be inferred from the differences  *)
(* that the poller has not seen, is paid for by changes of the screen that *)
(* are not the effect of an action; the flag pays for one difference, and  *)
(* between the dispatch of an action and its effect one of them is owed to *)
(* the effect (Inferable, Accounted).                                      *)
(***************************************************************************)
EXTENDS TouchInferrer, FiniteSetTheorems, SequenceTheorems, TLAPS

Ordered ==
  /\ previous <= tree
  /\ reading = "read" => tree # 0
  /\ timer = "unset" => previous = 0 /\ reading = "no" /\ act = "idle"

(* A poll that outlives stop() has no baseline to infer from. *)
Disarmed == timer = "cleared" /\ previous # 0 => reading = "no"

Counted ==
  LET n == Cardinality(Inferences) IN
    /\ n = 0 \/ n < tree
    /\ previous # 0 => n < previous

(* The differences that the poll in flight and the next one may find. *)
Gap(i, j) == IF Same(i, j) THEN 0 ELSE 1
Ahead(i)  == IF previous = 0 THEN 0 ELSE Gap(previous, i)
Unseen    == IF reading = "read" THEN Ahead(tree) + Gap(tree, Now) ELSE Ahead(Now)

Inferable ==
  CASE act = "snapshot" -> Unseen
    [] act = "dispatch" -> IF suppressed THEN Unseen ELSE Unseen + 1
    [] OTHER -> IF suppressed /\ Unseen > 0 THEN Unseen - 1 ELSE Unseen

Accounted ==
  paced =>
    Cardinality(Inferences) + (IF timer = "set" THEN Inferable ELSE 0) <= Now - 1 - effects

IInv == TypeOK /\ Ordered /\ Disarmed /\ Counted /\ Accounted

-----------------------------------------------------------------------------
(* The comparison of screens. *)

LEMMA VerdictOf ==
  ASSUME NEW a \in Screen, NEW b \in Screen
  PROVE  /\ Verdict(a, b).same = areEqualTrees(a, b)
         /\ Verdict(a, b).infer = inferInteraction(diff(a, b))
<1> DEFINE v == [from |-> a, to |-> b, same |-> areEqualTrees(a, b),
                 infer |-> inferInteraction(diff(a, b))]
<1>1. v \in Verdicts /\ v.from = a /\ v.to = b
  BY DEF Verdicts
<1>2. Verdict(a, b) \in Verdicts /\ Verdict(a, b).from = a /\ Verdict(a, b).to = b
  BY <1>1 DEF Verdict
<1>3. PICK c \in Screen, d \in Screen :
        Verdict(a, b) = [from |-> c, to |-> d, same |-> areEqualTrees(c, d),
                         infer |-> inferInteraction(diff(c, d))]
  BY <1>2 DEF Verdicts
<1>4. c = a /\ d = b
  BY <1>2, <1>3
<1> QED
  BY <1>3, <1>4

(* Two trees are equal if they have the same named elements as often, an   *)
(* element that neither has being there as often in both.                  *)
LEMMA EqualMeansCounted ==
  ASSUME NEW a, NEW b
  PROVE  areEqualTrees(a, b) <=>
           \A e : IsNamed(e) => Cardinality({k \in DOMAIN a : a[k] = e})
                                  = Cardinality({k \in DOMAIN b : b[k] = e})
<1>1. ASSUME NEW e, e \notin ToSet(a) \cup ToSet(b)
      PROVE  {k \in DOMAIN a : a[k] = e} = {k \in DOMAIN b : b[k] = e}
  BY <1>1 DEF ToSet
<1> QED
  BY <1>1, Zenon DEF areEqualTrees

LEMMA EqualTreesAlike ==
  ASSUME NEW a, NEW b, NEW c
  PROVE  /\ areEqualTrees(a, a)
         /\ areEqualTrees(a, b) => areEqualTrees(b, a)
         /\ areEqualTrees(a, b) /\ areEqualTrees(b, c) => areEqualTrees(a, c)
<1> DEFINE Often(t, e) == Cardinality({k \in DOMAIN t : t[k] = e})
<1>1. /\ areEqualTrees(a, a) <=> \A e : IsNamed(e) => Often(a, e) = Often(a, e)
      /\ areEqualTrees(a, b) <=> \A e : IsNamed(e) => Often(a, e) = Often(b, e)
      /\ areEqualTrees(b, a) <=> \A e : IsNamed(e) => Often(b, e) = Often(a, e)
      /\ areEqualTrees(b, c) <=> \A e : IsNamed(e) => Often(b, e) = Often(c, e)
      /\ areEqualTrees(a, c) <=> \A e : IsNamed(e) => Often(a, e) = Often(c, e)
  BY EqualMeansCounted
<1> HIDE DEF Often
<1> QED
  BY <1>1, Zenon

(* What is shown is a screen, and looking the same is an equivalence.      *)
LEMMA ShownType ==
  ASSUME TypeOK
  PROVE  /\ Now \in Nat \ {0}
         /\ \A i \in 1 .. Now : shown[i] \in Screen
BY TouchAssumption DEF TypeOK, Now

LEMMA LooksAlike ==
  ASSUME TypeOK, NEW i \in 1 .. Now, NEW j \in 1 .. Now, NEW k \in 1 .. Now
  PROVE  /\ Same(i, i)
         /\ Same(i, j) => Same(j, i)
         /\ Same(i, j) /\ Same(j, k) => Same(i, k)
<1>1. shown[i] \in Screen /\ shown[j] \in Screen /\ shown[k] \in Screen
  BY ShownType
<1>2. /\ Same(i, i) = areEqualTrees(shown[i], shown[i])
      /\ Same(i, j) = areEqualTrees(shown[i], shown[j])
      /\ Same(j, i) = areEqualTrees(shown[j], shown[i])
      /\ Same(j, k) = areEqualTrees(shown[j], shown[k])
      /\ Same(i, k) = areEqualTrees(shown[i], shown[k])
  BY <1>1, VerdictOf DEF Same
<1> QED
  BY <1>2, EqualTreesAlike

LEMMA Sources ==
  ASSUME NEW a \in Screen, NEW b \in Screen
  PROVE  \/ Verdict(a, b).infer = Nothing
         \/ Verdict(a, b).infer.source \in {"inferred", "inferred-transition"}
<1> DEFINE d == diff(a, b)
<1>1. \A what, e, source :
        \/ buildInteraction(what, e, source) = Nothing
        \/ buildInteraction(what, e, source).source = source
  BY DEF buildInteraction
<1> HIDE DEF d
<1>2. inferInteraction(d) = Nothing
      \/ inferInteraction(d).source \in {"inferred", "inferred-transition"}
  BY <1>1, Zenon DEF inferInteraction
<1> QED
  BY <1>2, VerdictOf DEF d

(* What was shown stays. *)
LEMMA ShownGrows ==
  ASSUME TypeOK, NEW s \in Screen, shown' = Append(shown, s)
  PROVE  /\ shown' \in Seq(Screen) /\ Now' = Now + 1
         /\ \A i \in 1 .. Now : shown'[i] = shown[i]
BY DEF TypeOK, Now

-----------------------------------------------------------------------------
(* The log. *)

LEMMA InferencesFinite ==
  ASSUME TypeOK
  PROVE  IsFiniteSet(Inferences) /\ Cardinality(Inferences) \in Nat
<1>1. Len(log) \in Nat /\ Inferences \subseteq 1 .. Len(log)
  BY DEF TypeOK, Inferences
<1>2. IsFiniteSet(1 .. Len(log))
  BY <1>1, FS_Interval
<1> QED
  BY <1>1, <1>2, FS_Subset, FS_CardinalityType

LEMMA Logged ==
  ASSUME TypeOK, NEW e \in {"inferred", "inferred-transition", "dispatched"},
         log' = Append(log, e)
  PROVE  /\ log' \in Seq({"inferred", "inferred-transition", "dispatched"})
         /\ e = "dispatched" => Inferences' = Inferences
         /\ e # "dispatched" => Cardinality(Inferences') = Cardinality(Inferences) + 1
<1>1. /\ log' \in Seq({"inferred", "inferred-transition", "dispatched"})
      /\ DOMAIN log' = DOMAIN log \cup {Len(log) + 1}
      /\ \A k \in DOMAIN log : log'[k] = log[k]
      /\ log'[Len(log) + 1] = e
      /\ Len(log) + 1 \notin DOMAIN log
  BY DEF TypeOK
<1>2. e = "dispatched" => Inferences' = Inferences
  BY <1>1 DEF Inferences
<1>3. ASSUME e # "dispatched"
      PROVE  Cardinality(Inferences') = Cardinality(Inferences) + 1
  <2>1. Inferences' = Inferences \cup {Len(log) + 1} /\ Len(log) + 1 \notin Inferences
    BY <1>1, <1>3 DEF Inferences
  <2> QED
    BY <2>1, InferencesFinite, FS_AddElement
<1> QED
  BY <1>1, <1>2, <1>3

-----------------------------------------------------------------------------
(* What may still be inferred. *)

LEMMA InferableType ==
  ASSUME TypeOK
  PROVE  Unseen \in Nat /\ Inferable \in Nat
<1>1. Unseen \in Nat
  BY DEF Unseen, Ahead, Gap
<1>2. Inferable \in {Unseen, Unseen + 1} \/ (Unseen > 0 /\ Inferable = Unseen - 1)
  BY DEF Inferable
<1> QED
  BY <1>1, <1>2

(* A poll that has read pays for the difference it found, and leaves what  *)
(* has changed since it read.                                              *)
LEMMA HandledUnseen ==
  ASSUME TypeOK, Ordered, Handle
  PROVE  /\ Baseline \/ EqualTrees => Unseen' = Unseen
         /\ Differs => Unseen > 0 /\ Unseen' = Unseen - 1
<1> USE DEF world, poll, ai
<1>1. /\ shown' = shown /\ Now' = Now /\ reading = "read" /\ reading' = "no"
      /\ tree \in 1 .. Now /\ (previous # 0 => previous \in 1 .. Now) /\ Now \in 1 .. Now
  BY ShownType DEF Handle, Baseline, EqualTrees, Suppressed, Debounced, NotInferred, Inferred,
     Differs, TypeOK, Ordered, Now
<1>2. Unseen = Ahead(tree) + Gap(tree, Now)
  BY <1>1 DEF Unseen
<1>3. Unseen' = IF previous' = 0 THEN 0 ELSE IF Same(previous', Now) THEN 0 ELSE 1
  BY <1>1 DEF Unseen, Ahead, Gap, Same
<1>4. CASE Baseline
  BY <1>1, <1>2, <1>3, <1>4 DEF Baseline, Differs, Ahead, Gap
<1>5. CASE EqualTrees
  <2>1. Same(previous, Now) <=> Same(tree, Now)
    BY <1>1, <1>5, LooksAlike DEF EqualTrees
  <2> QED
    BY <1>1, <1>2, <1>3, <1>5, <2>1 DEF EqualTrees, Differs, Ahead, Gap
<1>6. CASE Differs
  BY <1>1, <1>2, <1>3, <1>6 DEF Baseline, EqualTrees, Differs, Ahead, Gap
<1> QED
  BY <1>4, <1>5, <1>6 DEF Handle, Suppressed, Debounced, NotInferred, Inferred

(* A new screen makes at most one difference more. *)
LEMMA ShownUnseen ==
  ASSUME TypeOK, Ordered, UNCHANGED poll, NEW s \in Screen, shown' = Append(shown, s)
  PROVE  Unseen' \in Nat /\ Unseen' <= Unseen + 1
<1> USE DEF poll
<1>1. /\ \A i \in 1 .. Now : shown'[i] = shown[i]
      /\ tree \in 0 .. Now /\ previous \in 0 .. Now /\ Now \in Nat
      /\ reading = "read" => tree # 0
      /\ tree' = tree /\ previous' = previous /\ reading' = reading
  BY ShownGrows, ShownType DEF TypeOK, Ordered, Now
<1>2. \A i, j \in 1 .. Now : Verdict(shown'[i], shown'[j]).same = Same(i, j)
  BY <1>1 DEF Same
<1>3. CASE reading = "read"
  <2>1. tree \in 1 .. Now /\ (previous # 0 => previous \in 1 .. Now)
    BY <1>1, <1>3
  <2>2. Ahead(tree)' = Ahead(tree)
    BY <1>1, <1>2, <2>1 DEF Ahead, Gap, Same
  <2>3. Unseen' = Ahead(tree)' + Gap(tree, Now)' /\ Unseen = Ahead(tree) + Gap(tree, Now)
    BY <1>1, <1>3 DEF Unseen
  <2>4. Ahead(tree) \in Nat /\ Gap(tree, Now)' \in {0, 1} /\ Gap(tree, Now) \in {0, 1}
    BY DEF Ahead, Gap
  <2> QED
    BY <2>2, <2>3, <2>4
<1>4. CASE reading # "read"
  BY <1>1, <1>4 DEF Unseen, Ahead, Gap
<1> QED
  BY <1>3, <1>4

-----------------------------------------------------------------------------
(* Every step keeps the invariant. *)

LEMMA InitHolds == Init => IInv
<1> SUFFICES ASSUME Init PROVE IInv
  OBVIOUS
<1>1. Inferences = {} /\ Cardinality(Inferences) = 0
  BY FS_EmptySet DEF Init, Inferences
<1>2. PICK s \in Screen : shown = <<s>>
  BY TouchAssumption DEF Init
<1>3. shown \in Seq(Screen) /\ Len(shown) = 1
  BY <1>2
<1>4. TypeOK /\ Now = 1
  <2>1. paced \in BOOLEAN /\ suppressed \in BOOLEAN /\ recent \in BOOLEAN
    BY Zenon DEF Init
  <2>2. log \in Seq({"inferred", "inferred-transition", "dispatched"})
    BY DEF Init
  <2> QED
    BY <1>3, <2>1, <2>2, TouchAssumption DEF Init, TypeOK, Now
<1> QED
  BY <1>1, <1>4 DEF Init, IInv, Ordered, Disarmed, Counted, Accounted

(* The steps that neither log nor change the screen. *)
LEMMA QuietStep ==
  ASSUME IInv, UNCHANGED <<world, log>>, acts' \in 0 .. MaxActs,
         Start \/ Stop \/ Tick \/ ReadOk \/ ReadFails \/ DebounceOver
           \/ Act \/ Dispatch \/ ActFails \/ Settle
  PROVE  IInv'
<1> USE DEF world, poll, ai
<1>1. Inferences' = Inferences /\ Now' = Now /\ Now \in Nat \ {0}
  BY ShownType DEF IInv, Inferences, Now
<1>2. TypeOK'
  <2>1. suppressed' \in BOOLEAN
    BY Zenon DEF IInv, TypeOK, Start, Stop, Tick, ReadOk, ReadFails, DebounceOver, Act,
       Dispatch, ActFails, Settle
  <2>2. recent' \in BOOLEAN
    BY Zenon DEF IInv, TypeOK, Start, Stop, Tick, ReadOk, ReadFails, DebounceOver, Act,
       Dispatch, ActFails, Settle
  <2> QED
    BY <1>1, <2>1, <2>2 DEF IInv, TypeOK, Start, Stop, Tick, ReadOk, ReadFails, DebounceOver,
       Act, Dispatch, ActFails, Settle, Now
<1>3. Ordered'
  BY <1>1 DEF IInv, TypeOK, Ordered, Start, Stop, Tick, ReadOk, ReadFails, DebounceOver, Act,
     Dispatch, ActFails, Settle, Now
<1>4. Disarmed'
  BY DEF IInv, TypeOK, Disarmed, Ordered, Start, Stop, Tick, ReadOk, ReadFails, DebounceOver,
     Act, Dispatch, ActFails, Settle
<1>5. Counted'
  BY <1>1, InferencesFinite DEF IInv, TypeOK, Counted, Ordered, Start, Stop, Tick, ReadOk,
     ReadFails, DebounceOver, Act, Dispatch, ActFails, Settle, Now
<1>6. Accounted'
  <2> SUFFICES ASSUME paced
               PROVE  Cardinality(Inferences) + (IF timer' = "set" THEN Inferable' ELSE 0)
                        <= Now - 1 - effects
    BY <1>1 DEF Accounted
  <2>1. /\ Cardinality(Inferences) \in Nat /\ effects \in Nat /\ Inferable \in Nat
        /\ Cardinality(Inferences) + (IF timer = "set" THEN Inferable ELSE 0)
             <= Now - 1 - effects
    BY InferencesFinite, InferableType, <1>1 DEF IInv, TypeOK, Accounted
  <2>2. CASE Start
    <3>1. Inferable' = 0
      BY <2>2 DEF Start, IInv, Ordered, Inferable, Unseen, Ahead
    <3> QED
      BY <1>1, <2>1, <3>1
  <2>3. CASE Act
    <3>1. Unseen = 0
      <4>1. /\ previous \in 1 .. Now /\ Now \in 1 .. Now
            /\ reading = "read" => tree \in 1 .. Now
        BY <1>1, <2>3 DEF Act, Paced, IInv, TypeOK, Ordered, Now
      <4>2. Same(previous, Now) /\ (reading = "read" => Same(tree, Now) /\ Same(previous, tree))
        BY <2>3, <4>1, LooksAlike DEF Act, Paced, IInv
      <4> QED
        BY <4>1, <4>2 DEF Unseen, Ahead, Gap
    <3>2. Inferable' = 0
      BY <1>1, <2>3, <3>1 DEF Act, Inferable, Unseen, Ahead, Gap, Same
    <3> QED
      BY <1>1, <2>1, <3>2
  <2>4. CASE Stop
    BY <1>1, <2>1, <2>4 DEF Stop
  <2>5. CASE ReadOk
    <3>1. Unseen' = Unseen
      <4>1. Same(Now, Now)
        BY <1>1, LooksAlike DEF IInv
      <4> QED
        BY <1>1, <2>5, <4>1 DEF ReadOk, Unseen, Ahead, Gap, Same
    <3> QED
      BY <2>1, <2>5, <3>1 DEF ReadOk, Inferable
  <2>6. CASE Tick \/ ReadFails \/ DebounceOver \/ Dispatch \/ ActFails \/ Settle
    <3>1. Unseen' = Unseen /\ Unseen \in Nat /\ timer' = timer
      BY <1>1, <2>6, InferableType
      DEF IInv, Tick, ReadFails, DebounceOver, Dispatch, ActFails, Settle, Unseen, Ahead,
          Gap, Same
    <3>2. timer = "set" => Inferable' \in Nat /\ Inferable' <= Inferable
      <4>1. CASE Tick \/ ReadFails \/ DebounceOver
        BY <2>1, <3>1, <4>1 DEF Tick, ReadFails, DebounceOver, Inferable
      <4>2. CASE Dispatch
        <5>1. /\ act = "snapshot" /\ act' = "dispatch"
              /\ timer = "set" => suppressed'
          BY <4>2 DEF Dispatch
        <5> QED
          BY <3>1, <5>1 DEF Inferable
      <4>3. CASE ActFails \/ Settle
        BY <3>1, <4>3 DEF ActFails, Settle, Inferable
      <4> QED
        BY <2>6, <4>1, <4>2, <4>3
    <3> QED
      BY <1>1, <2>1, <3>1, <3>2
  <2> QED
    BY <2>2, <2>3, <2>4, <2>5, <2>6
<1> QED
  BY <1>2, <1>3, <1>4, <1>5, <1>6 DEF IInv

(* What a poll makes of its snapshot. *)
LEMMA HandleStep ==
  ASSUME IInv, Handle
  PROVE  IInv'
<1> USE DEF world, poll, ai
<1> DEFINE n == Cardinality(Inferences)
<1>1. /\ shown' = shown /\ paced' = paced /\ effects' = effects /\ timer' = timer /\ act' = act /\ acts' = acts
      /\ tree' = tree /\ reading = "read" /\ reading' = "no"
  BY DEF Handle, Baseline, EqualTrees, Suppressed, Debounced, NotInferred, Inferred, Differs
<1>2. /\ Now' = Now /\ Now \in Nat \ {0} /\ n \in Nat
      /\ effects \in Nat /\ Unseen \in Nat
  BY <1>1, ShownType, InferencesFinite, InferableType DEF IInv, TypeOK, Now
<1>3. previous' \in {previous, tree} /\ previous' <= tree'
  BY <1>1 DEF Handle, Baseline, EqualTrees, Suppressed, Debounced, NotInferred, Inferred,
     Differs, IInv, TypeOK, Ordered
<1>4. suppressed' \in BOOLEAN /\ recent' \in BOOLEAN
  BY Zenon DEF Handle, Baseline, EqualTrees, Suppressed, Debounced, NotInferred, Inferred,
     IInv, TypeOK
<1>5. /\ Baseline \/ EqualTrees => Unseen' = Unseen
      /\ Differs => Unseen > 0 /\ Unseen' = Unseen - 1
  BY HandledUnseen DEF IInv
<1>6. CASE Inferred
  <2>1. Interaction.source \in {"inferred", "inferred-transition"}
    <3>1. previous \in 1 .. Now /\ tree \in 1 .. Now
      BY <1>1, <1>6 DEF Inferred, Differs, IInv, TypeOK, Ordered, Now
    <3>2. shown[previous] \in Screen /\ shown[tree] \in Screen
      BY <3>1, ShownType DEF IInv
    <3>3. Interaction # Nothing
      BY <1>6 DEF Inferred
    <3> QED
      BY <3>2, <3>3, Sources DEF Interaction
  <2>2. /\ log' \in Seq({"inferred", "inferred-transition", "dispatched"})
        /\ Cardinality(Inferences') = n + 1
    BY <1>6, <2>1, Logged DEF Inferred, IInv
  <2>3. previous # 0 /\ previous < tree /\ previous' = tree
    <3>1. previous # 0 /\ previous' = tree /\ previous <= tree /\ ~Same(previous, tree)
      BY <1>6 DEF Inferred, Differs, IInv, Ordered
    <3>2. previous \in 1 .. Now /\ tree \in 1 .. Now
      BY <1>1, <3>1 DEF IInv, TypeOK, Ordered, Now
    <3> QED
      BY <3>1, <3>2, LooksAlike DEF IInv
  <2>4. TypeOK'
    BY <1>1, <1>2, <1>3, <1>4, <2>2 DEF IInv, TypeOK, Now
  <2>5. Ordered' /\ Disarmed'
    BY <1>1, <1>3 DEF IInv, Ordered, Disarmed
  <2>6. Counted'
    BY <1>1, <1>2, <2>2, <2>3 DEF IInv, TypeOK, Counted
  <2>7. Accounted'
    <3>1. timer = "set"
      BY <1>1, <1>6, <2>3 DEF IInv, TypeOK, Ordered, Disarmed
    <3>2. Unseen > 0 /\ Unseen' = Unseen - 1 /\ suppressed = FALSE /\ suppressed' = FALSE
      BY <1>5, <1>6 DEF Inferred, IInv, TypeOK
    <3>3. Inferable \in Nat /\ Inferable' = Inferable - 1
      BY <1>1, <1>2, <3>2 DEF Inferable
    <3> QED
      BY <1>1, <1>2, <2>2, <3>1, <3>3 DEF IInv, Accounted
  <2> QED
    BY <2>4, <2>5, <2>6, <2>7 DEF IInv
<1>7. CASE ~Inferred
  <2>1. log' = log /\ Inferences' = Inferences
    BY <1>7 DEF Handle, Baseline, EqualTrees, Suppressed, Debounced, NotInferred, Inferences
  <2>2. TypeOK'
    BY <1>1, <1>2, <1>3, <1>4, <2>1 DEF IInv, TypeOK, Now
  <2>3. Ordered' /\ Disarmed'
    BY <1>1, <1>3 DEF IInv, Ordered, Disarmed
  <2>4. Counted'
    BY <1>1, <1>2, <1>3, <2>1 DEF IInv, TypeOK, Ordered, Counted
  <2>5. Inferable \in Nat /\ Inferable' \in Nat /\ Inferable' <= Inferable
    <3>1. CASE Baseline \/ EqualTrees
      <4>1. Unseen' = Unseen /\ suppressed' = suppressed
        BY <1>5, <3>1 DEF Baseline, EqualTrees
      <4>2. Inferable' = Inferable
        BY <1>1, <4>1 DEF Inferable
      <4> QED
        BY <4>2, InferableType DEF IInv
    <3>2. CASE Suppressed
      <4>1. Unseen > 0 /\ Unseen' = Unseen - 1 /\ suppressed /\ ~suppressed'
        BY <1>5, <3>2 DEF Suppressed
      <4> QED
        BY <1>1, <1>2, <4>1 DEF Inferable
    <3>3. CASE Debounced \/ NotInferred
      <4>1. Unseen > 0 /\ Unseen' = Unseen - 1 /\ ~suppressed /\ ~suppressed'
        BY <1>5, <3>3 DEF Debounced, NotInferred
      <4> QED
        BY <1>1, <1>2, <4>1 DEF Inferable
    <3> QED
      BY <1>7, <3>1, <3>2, <3>3 DEF Handle
  <2>6. Accounted'
    BY <1>1, <1>2, <2>1, <2>5 DEF IInv, Accounted
  <2> QED
    BY <2>2, <2>3, <2>4, <2>6 DEF IInv
<1> QED
  BY <1>6, <1>7

(* A screen that a person, an action or the app brings up. *)
LEMMA ScreenStep ==
  ASSUME IInv, UNCHANGED <<paced, poll, log>>, acts' \in 0 .. MaxActs,
         effects' \in {effects, effects + 1},
         act' \in {"idle", "snapshot", "dispatch", "done", "settle"},
         timer = "unset" => act' = "idle",
         NEW s \in Screen, Now < MaxShown, shown' = Append(shown, s)
  PROVE  /\ TypeOK' /\ Ordered' /\ Disarmed' /\ Counted'
         /\ Now' = Now + 1 /\ Now \in Nat /\ Inferences' = Inferences
<1> USE DEF poll
<1>1. /\ shown' \in Seq(Screen) /\ Now' = Now + 1 /\ Now \in Nat \ {0}
      /\ Inferences' = Inferences
  BY ShownGrows, ShownType DEF IInv, Inferences
<1> QED
  BY <1>1, TouchAssumption
  DEF IInv, TypeOK, Ordered, Disarmed, Counted, Now

(* A screen that comes up otherwise than as the effect of an action pays   *)
(* for the difference it makes.                                            *)
LEMMA ShowStep ==
  ASSUME IInv, Touch \/ Redraw
  PROVE  IInv'
<1> USE DEF poll, ai
<1>1. PICK s \in Screen : shown' = Append(shown, s)
  BY DEF Touch, Redraw, Show
<1>2. /\ TypeOK' /\ Ordered' /\ Disarmed' /\ Counted'
      /\ Now' = Now + 1 /\ Now \in Nat /\ Inferences' = Inferences
  <2>1. /\ UNCHANGED <<paced, poll, log>> /\ acts' = acts /\ effects' = effects /\ act' = act
        /\ Now < MaxShown
    BY DEF Touch, Redraw, Show
  <2> QED
    BY <1>1, <2>1, ScreenStep DEF IInv, TypeOK, Ordered
<1>3. /\ effects' = effects /\ act' = act /\ suppressed' = suppressed /\ timer' = timer
      /\ paced' = paced /\ effects \in Nat /\ Cardinality(Inferences) \in Nat
  BY InferencesFinite DEF Touch, Redraw, IInv, TypeOK
<1>4. Unseen' \in Nat /\ Unseen' <= Unseen + 1 /\ Unseen \in Nat
  BY <1>1, ShownUnseen, InferableType DEF Touch, Redraw, IInv
<1>5. Inferable' \in Nat /\ Inferable \in Nat /\ Inferable' <= Inferable + 1
  BY <1>3, <1>4 DEF Inferable
<1>6. Accounted'
  BY <1>2, <1>3, <1>5 DEF IInv, Accounted
<1> QED
  BY <1>2, <1>6 DEF IInv

(* The device does what it was asked to.  The difference that this makes   *)
(* was owed since the dispatch, or the flag pays for it.                   *)
LEMMA EffectStep ==
  ASSUME IInv, Effect
  PROVE  IInv'
<1> USE DEF poll, ai
<1>1. /\ suppressed' = suppressed /\ timer' = timer /\ paced' = paced
      /\ act = "dispatch" /\ act' = "done"
      /\ effects \in Nat /\ Cardinality(Inferences) \in Nat /\ Unseen \in Nat
  BY InferencesFinite, InferableType DEF Effect, IInv, TypeOK
<1>2. CASE UNCHANGED <<shown, effects>>
  <2>1. Inferences' = Inferences /\ Now' = Now /\ Now \in Nat
    BY <1>2, ShownType DEF Effect, Inferences, Now, IInv
  <2>2. Unseen' = Unseen
    BY <1>2, <2>1 DEF Effect, Unseen, Ahead, Gap, Same
  <2>3. Inferable' \in Nat /\ Inferable \in Nat /\ Inferable' <= Inferable
    BY <1>1, <2>2 DEF Inferable
  <2>4. Accounted'
    BY <1>1, <1>2, <2>1, <2>3 DEF IInv, Accounted
  <2> QED
    BY <1>2, <2>1, <2>4 DEF Effect, IInv, TypeOK, Ordered, Disarmed, Counted, Now
<1>3. CASE Show /\ effects' = effects + 1
  <2>1. PICK s \in Screen : shown' = Append(shown, s)
    BY <1>3 DEF Show
  <2>2. /\ TypeOK' /\ Ordered' /\ Disarmed' /\ Counted'
        /\ Now' = Now + 1 /\ Now \in Nat /\ Inferences' = Inferences
    <3>1. /\ UNCHANGED <<paced, poll, log>> /\ acts' = acts /\ Now < MaxShown
          /\ timer # "unset"
      BY <1>1, <1>3 DEF Effect, Show, IInv, Ordered
    <3> QED
      BY <1>1, <1>3, <2>1, <3>1, ScreenStep DEF IInv, TypeOK
  <2>3. Unseen' \in Nat /\ Unseen' <= Unseen + 1
    BY <2>1, ShownUnseen DEF Effect, IInv
  <2>4. Inferable' \in Nat /\ Inferable \in Nat /\ Inferable' <= Inferable
    BY <1>1, <2>3 DEF Inferable
  <2>5. Accounted'
    BY <1>1, <1>3, <2>2, <2>4 DEF IInv, Accounted
  <2> QED
    BY <2>2, <2>5 DEF IInv
<1> QED
  BY <1>2, <1>3 DEF Effect

LEMMA RecordStep ==
  ASSUME IInv, Record
  PROVE  IInv'
<1> USE DEF world, poll, ai
<1>1. /\ log' \in Seq({"inferred", "inferred-transition", "dispatched"})
      /\ Inferences' = Inferences /\ Now' = Now
  BY Logged DEF Record, IInv, Now
<1>2. Inferable' = Inferable
  BY <1>1 DEF Record, Inferable, Unseen, Ahead, Gap, Same
<1> QED
  BY <1>1, <1>2 DEF Record, IInv, TypeOK, Ordered, Disarmed, Counted, Accounted, Now

LEMMA StutterStep ==
  ASSUME IInv, UNCHANGED vars
  PROVE  IInv'
<1>1. Inferences' = Inferences /\ Now' = Now
  BY DEF vars, world, poll, ai, Inferences, Now
<1>2. Inferable' = Inferable
  BY <1>1 DEF vars, world, poll, ai, Inferable, Unseen, Ahead, Gap, Same
<1> QED
  BY <1>1, <1>2 DEF vars, world, poll, ai, IInv, TypeOK, Ordered, Disarmed, Counted, Accounted,
     Now

LEMMA NextHolds ==
  ASSUME IInv, [Next]_vars
  PROVE  IInv'
<1> USE DEF world, poll, ai
<1>1. CASE Act
  <2>1. acts' \in 0 .. MaxActs
    BY <1>1, TouchAssumption DEF Act, IInv, TypeOK
  <2> QED
    BY <1>1, <2>1, QuietStep DEF Act
<1>2. CASE Start \/ Stop \/ Tick \/ ReadOk \/ ReadFails \/ DebounceOver \/ Dispatch
             \/ ActFails \/ Settle
  <2>1. UNCHANGED <<world, log, acts>>
    BY <1>2 DEF Start, Stop, Tick, ReadOk, ReadFails, DebounceOver, Dispatch, ActFails, Settle
  <2> QED
    BY <1>2, <2>1, QuietStep DEF IInv, TypeOK
<1> QED
  BY <1>1, <1>2, HandleStep, ShowStep, EffectStep, RecordStep, StutterStep DEF Next

-----------------------------------------------------------------------------
(* Theorems. *)

(* The inductive invariant holds of every run of the poller beside the     *)
(* client and the person (touch-inferrer.ts, pollOnce and its timer).      *)
THEOREM Invariance == Spec => []IInv
<1>1. IInv /\ [Next]_vars => IInv'
  BY NextHolds
<1> QED
  BY <1>1, InitHolds, PTL DEF Spec

(* Every value stays of its type. *)
THEOREM TypeCorrect == Spec => []TypeOK
<1>1. IInv => TypeOK
  BY DEF IInv
<1> QED
  BY <1>1, Invariance, PTL

(* One change of the screen is taken for at most one interaction: the      *)
(* baseline is replaced with every inference (pollOnce).                   *)
THEOREM OnceInferred == Spec => []OneInferencePerChange
<1>1. IInv => OneInferencePerChange
  BY InferencesFinite, ShownType DEF IInv, TypeOK, Counted, OneInferencePerChange, Now
<1> QED
  BY <1>1, Invariance, PTL

(* The actions of a paced client are not inferred as touches: whatever was *)
(* inferred is paid for by a change of the screen that is not the effect   *)
(* of an action (suppressNextInference before the dispatch of              *)
(* execute_ui_action, and the one-shot flag in pollOnce).                  *)
THEOREM RecordedOnce == Spec => []ActionsNotInferred
<1>1. IInv => ActionsNotInferred
  <2> SUFFICES ASSUME IInv, paced
               PROVE  Cardinality(Inferences) <= Now - 1 - effects
    BY DEF ActionsNotInferred
  <2>1. /\ Inferable \in Nat /\ Cardinality(Inferences) \in Nat
        /\ Now \in Nat /\ effects \in Nat
    BY InferableType, InferencesFinite, ShownType DEF IInv, TypeOK
  <2> QED
    BY <2>1 DEF IInv, Accounted
<1> QED
  BY <1>1, Invariance, PTL

(* A poll in flight when stopPolling clears the timer and the baseline     *)
(* infers nothing.                                                         *)
THEOREM QuietAfterStop == Spec => StoppedInfersNothing
<1>1. ASSUME IInv, [Next]_vars, timer = "cleared"
      PROVE  Inferences' = Inferences
  <2>1. CASE Record
    BY <1>1, <2>1, Logged DEF Record, IInv
  <2>2. CASE ~Record
    <3>1. ~Inferred
      BY <1>1 DEF IInv, Disarmed, Inferred, Differs
    <3>2. log' = log
      BY <1>1, <2>2, <3>1 DEF Next, vars, world, poll, ai, Start, Stop, Tick, ReadOk, ReadFails,
         Handle, Baseline, EqualTrees, Suppressed, Debounced, NotInferred, DebounceOver, Touch,
         Redraw, Act, Dispatch, Effect, Record, ActFails, Settle
    <3> QED
      BY <3>2 DEF Inferences
  <2> QED
    BY <2>1, <2>2
<1>2. IInv /\ [Next]_vars => [timer = "cleared" => Inferences' = Inferences]_vars
  BY <1>1
<1> QED
  BY <1>2, Invariance, PTL DEF Spec, StoppedInfersNothing
=============================================================================
