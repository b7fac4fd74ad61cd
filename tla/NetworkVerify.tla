--------------------------- MODULE NetworkVerify ---------------------------
(***************************************************************************)
(* The verify_network_* tools (handlers.ts) and what they are made of      *)
(* (src/verification): matchers, windows behind an anchor, and a verdict   *)
(* over the session's events.                                              *)
(*                                                                         *)
(* A matcher is the set of urls it matches: its fields are conjuncts over  *)
(* the event alone.  An anchor is an interaction's time, "none" for no     *)
(* afterAction, "lost" for one that resolves to nothing.                   *)
(***************************************************************************)
EXTENDS Synthesis

Matches(e, matcher) == e.url \in matcher

filterEvents(events, matcher) ==
  KeptAt(events, {k \in DOMAIN events : Matches(events[k], matcher)})

-----------------------------------------------------------------------------
(* Anchors and windows. *)

None == [at |-> "none", time |-> 0]
Lost == [at |-> "lost", time |-> 0]
Anchor(t) == [at |-> "time", time |-> t]

(* By index from 0, or by the first interaction of a target. *)
resolveIndex(interactions, n) ==
  IF n < Len(interactions) THEN Anchor(interactions[n + 1].time) ELSE Lost

resolveElement(interactions, target) ==
  LET hits == {k \in DOMAIN interactions : interactions[k].target = target}
  IN IF hits = {} THEN Lost ELSE Anchor(interactions[Min(hits)].time)

eventsInWindow_Open(events, t, within) ==
  KeptAt(events, {k \in DOMAIN events : t <= events[k].time /\ events[k].time < t + within})

eventsInWindow(events, t, within) ==
  KeptAt(events, {k \in DOMAIN events : t <= events[k].time /\ events[k].time <= t + within})

resolveWindow(events, anchor, within) ==
  IF anchor.at = "none" THEN events
  ELSE IF anchor.at = "lost" THEN <<>>
  ELSE eventsInWindow(events, anchor.time, within)

-----------------------------------------------------------------------------
(* Verdicts: `passed` of each tool. *)

Span(events) == IF events = <<>> THEN 0
                ELSE ByTime(events)[Len(events)].time - ByTime(events)[1].time

verifyParallelism(merged, matcher, atLeast, within) ==
  LET matched == filterEvents(merged, matcher)
  IN matched # <<>> /\ Len(matched) >= atLeast /\ Span(matched) <= within

(* Every expected call takes the first event not yet taken. *)
verifyOnScreen(merged, anchor, within, expected) ==
  LET windowed == resolveWindow(merged, anchor, within)
      Hits(used, m) == {k \in DOMAIN windowed \ used : Matches(windowed[k], m)}
      used[n \in 0..Len(expected)] ==
        IF n = 0 THEN {}
        ELSE LET hits == Hits(used[n - 1], expected[n])
             IN used[n - 1] \cup (IF hits = {} THEN {} ELSE {Min(hits)})
  IN /\ anchor.at # "lost"
     /\ \A n \in DOMAIN expected : Hits(used[n - 1], expected[n]) # {}

verifyAbsent_AnchorIgnored(merged, anchor, within, forbidden) ==
  \A m \in Range(forbidden) :
    filterEvents(resolveWindow(merged, anchor, within), m) = <<>>

verifyAbsent(merged, anchor, within, forbidden) ==
  /\ anchor.at # "lost"
  /\ \A m \in Range(forbidden) :
       filterEvents(resolveWindow(merged, anchor, within), m) = <<>>

(* The cursor moves on at an event that matches what is expected next; in  *)
(* strict mode any other event before the last hit is a deviation.         *)
Advance(acc, e, expected) ==
  IF acc.cursor > Len(expected) THEN acc
  ELSE IF Matches(e, expected[acc.cursor]) THEN [acc EXCEPT !.cursor = @ + 1]
  ELSE [acc EXCEPT !.deviates = TRUE]

verifySequence(merged, anchor, within, expected, strict) ==
  LET ordered == ByTime(resolveWindow(merged, anchor, within))
      acc[n \in 0..Len(ordered)] ==
        IF n = 0 THEN [cursor |-> 1, deviates |-> FALSE]
        ELSE Advance(acc[n - 1], ordered[n], expected)
      end == acc[Len(ordered)]
  IN /\ anchor.at # "lost"
     /\ end.cursor > Len(expected) /\ (strict => ~end.deviates)

(* Durations, of each url: "unknown" counts for no violator, and for 0 at  *)
(* the end.                                                                *)
verifyPerformance(merged, anchor, within, matcher, took, maxEach, maxTotal) ==
  LET matched == ByTime(filterEvents(resolveWindow(merged, anchor, within), matcher))
      n == Len(matched)
  IN /\ anchor.at # "lost" /\ n > 0
     /\ \A k \in 1..n : took[matched[k].url] <= maxEach
     /\ matched[n].time + took[matched[n].url] <= matched[1].time + maxTotal

(* The first event of the url. *)
verifyPayloadTarget(merged, matcher) ==
  LET hits == filterEvents(merged, matcher)
  IN IF hits = <<>> THEN <<>> ELSE <<hits[1]>>

verifyDeduplication(merged, anchor, within, matcher, maxDuplicates) ==
  LET scoped == filterEvents(resolveWindow(merged, anchor, within), matcher)
  IN /\ anchor.at # "lost"
     /\ \A u \in DOMAIN FixtureOf :
          Cardinality({k \in DOMAIN scoped : scoped[k].url = u}) <= maxDuplicates

verifyErrorHandling(merged, anchor, within, expected) ==
  /\ anchor.at # "lost"
  /\ \A m \in Range(expected) :
       filterEvents(resolveWindow(merged, anchor, within), m) # <<>>

-----------------------------------------------------------------------------
(* What the tools promise, of a list of events. *)

(* A sequence passes when its matchers are met by events one after the     *)
(* other, in strict mode by the first events of the window.                *)
SequenceIsTrue(merged, anchor, within, expected) ==
  LET w == ByTime(resolveWindow(merged, anchor, within))  n == Len(expected)
      Met(f) == \A k \in 1..n : Matches(w[f[k]], expected[k])
      OneByOne == \E f \in [1..n -> DOMAIN w] :
                   Met(f) /\ \A j, k \in 1..n : j < k => f[j] < f[k]
      AtOnce    == n <= Len(w) /\ Met([k \in 1..n |-> k])
  IN /\ verifySequence(merged, anchor, within, expected, FALSE)
          <=> (anchor.at # "lost" /\ OneByOne)
     /\ verifySequence(merged, anchor, within, expected, TRUE)
          <=> (anchor.at # "lost" /\ AtOnce)

(* A screen's calls were made, each by an event of its own; the converse   *)
(* fails: a wide matcher may take the event a narrow one needs.            *)
OnScreenIsTrue(merged, anchor, within, expected) ==
  verifyOnScreen(merged, anchor, within, expected) =>
    LET w == resolveWindow(merged, anchor, within)
    IN \E f \in [DOMAIN expected -> DOMAIN w] :
         IsInjective(f) /\ \A k \in DOMAIN expected : Matches(w[f[k]], expected[k])

(* A forbidden call makes the tool fail from the anchor to the end of the  *)
(* window, both included, and so does an anchor that is not found.         *)
AbsentIsTrue(merged, anchor, within, m) ==
  verifyAbsent(merged, anchor, within, <<m>>) <=>
    /\ anchor.at # "lost"
    /\ ~\E e \in Range(merged) :
         /\ Matches(e, m)
         /\ anchor.at = "time" => e.time \in anchor.time..(anchor.time + within)

(* The tools agree about one matcher: made, on screen, in sequence and     *)
(* handled are one verdict, absent and no duplicate at all the opposite,   *)
(* and a budget no call can exceed asks only that there is a call.         *)
ToolsAgree(merged, anchor, within, m) ==
  LET made == verifyErrorHandling(merged, anchor, within, <<m>>)
      Instant == [u \in DOMAIN FixtureOf |-> 0]
      Unbounded == Max(Times) + within
  IN /\ made <=> verifyOnScreen(merged, anchor, within, <<m>>)
     /\ made <=> verifySequence(merged, anchor, within, <<m>>, FALSE)
     /\ made <=> verifyPerformance(merged, anchor, within, m, Instant, 0, Unbounded)
     /\ verifyAbsent(merged, anchor, within, <<m>>)
          <=> verifyDeduplication(merged, anchor, within, m, 0)
     /\ anchor.at # "lost" => (made <=> ~verifyAbsent(merged, anchor, within, <<m>>))
     /\ verifyPayloadTarget(merged, m) # <<>> <=> verifyParallelism(merged, m, 1, Unbounded)
     /\ anchor.at = "none" => (made <=> verifyPayloadTarget(merged, m) # <<>>)
=============================================================================
