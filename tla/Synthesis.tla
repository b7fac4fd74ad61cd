----------------------------- MODULE Synthesis -----------------------------
(***************************************************************************)
(* What stop_and_compile_test makes of a recorded session: the functions   *)
(* of src/synthesis, src/session/track-event-extractor.ts and              *)
(* src/segments.  None keeps state.                                        *)
(*                                                                         *)
(* An interaction has a time, a target and a source; a network event a     *)
(* url, a time and a body; a poll record a time, a duration and a result.  *)
(* Method, path and operation are one with the url, an element with its    *)
(* target.  Times are small numbers, in the unit of the window.            *)
(***************************************************************************)
EXTENDS Naturals, Sequences, FiniteSets, SequencesExt, TLC

CONSTANTS
  Times,              (* an interval of naturals                           *)
  Window,             (* the correlation window, 3000 ms in the code       *)
  FlowTolerance,      (* FLOW_MATCH_TOLERANCE_MS                           *)
  TrackUrl,           (* the url of tracking requests, /__track            *)
  FixtureOf,          (* toFixtureId: of each url; two may have the same   *)
  PollInterval        (* pollingIntervalMs                                 *)

(* Array.prototype.sort by timestamp, stable: the place of an element is   *)
(* the number of those that are earlier, or as early and not behind it.    *)
Place(s, k) ==
  Cardinality({j \in DOMAIN s : s[j].time < s[k].time \/ (s[j].time = s[k].time /\ j <= k)})

(* The empty sequence in front makes a function a tuple at once, which    *)
(* TLC need not compute again for each element.                            *)
Sorting(s) ==
  LET place == <<>> \o [k \in DOMAIN s |-> Place(s, k)]
  IN [n \in DOMAIN s |-> CHOOSE k \in DOMAIN s : place[k] = n]

ByTime(s) == LET order == Sorting(s) IN <<>> \o [n \in DOMAIN s |-> s[order[n]]]

(* A set of indices in increasing order. *)
InOrder(K) ==
  CHOOSE f \in [1..Cardinality(K) -> K] : \A n \in 2..Cardinality(K) : f[n - 1] < f[n]

(* What a sequence has at some of its indices; Array.prototype.filter. *)
KeptAt(s, K) == LET order == InOrder(K) IN [n \in DOMAIN order |-> s[order[n]]]

-----------------------------------------------------------------------------
(* Network events. *)

Key(e) == <<e.url, e.time>>

mergeEvents_KeepsAll(dbEvents, harEvents) == dbEvents \o harEvents

(* Rows first, then Proxyman's; the first of a url and a time is kept. *)
mergeEvents(dbEvents, harEvents) ==
  LET all == dbEvents \o harEvents
      First(k) == \A j \in 1..(k - 1) : Key(all[j]) # Key(all[k])
  IN KeptAt(all, {k \in DOMAIN all : First(k)})

(* The app's tracking requests as interactions, at the app's own time.  A  *)
(* body that is no event of the mapping has the target "none".             *)
extractTrackEvents(events) ==
  LET of == KeptAt(events, {k \in DOMAIN events :
              events[k].url = TrackUrl /\ events[k].body.target # "none"})
  IN [k \in DOMAIN of |->
        [time |-> of[k].body.time, target |-> of[k].body.target, source |-> "tracked"]]

-----------------------------------------------------------------------------
(* Correlator.correlate: a step per interaction, in order of time, each    *)
(* event with the nearest interaction before it, if near enough.           *)

nearest_Earliest(its, e) ==
  LET near == {i \in DOMAIN its : its[i].time <= e.time /\ e.time - its[i].time <= Window}
  IN IF near = {} THEN 0 ELSE Min(near)

(* Backwards past those after the event: the first at or before it is the  *)
(* one, or none is.                                                        *)
nearest(its, e) ==
  LET before == {i \in DOMAIN its : its[i].time <= e.time}
  IN IF before = {} \/ e.time - its[Max(before)].time > Window THEN 0 ELSE Max(before)

correlate(interactions, networkEvents) ==
  LET its == ByTime(interactions)
      events == ByTime(networkEvents)
  IN [i \in DOMAIN its |->
        [time |-> its[i].time, interaction |-> its[i],
         events |-> KeptAt(events, {k \in DOMAIN events : nearest(its, events[k]) = i})]]

-----------------------------------------------------------------------------
(* StubWriter: one stub per fixture id, served by the latest capture. *)

Captures(steps) == UNION {Range(st.events) : st \in Range(steps)}

stub_First(steps, id) ==
  LET Of(s) == {k \in DOMAIN s.events : FixtureOf[s.events[k].url] = id}
      first == Min({k \in DOMAIN steps : Of(steps[k]) # {}})
  IN steps[first].events[Min(Of(steps[first]))]

(* deduplicateCaptures goes through the steps in order, and through the    *)
(* events of each: the last wins.                                          *)
stub(steps, id) ==
  LET Of(s) == {k \in DOMAIN s.events : FixtureOf[s.events[k].url] = id}
      last == Max({k \in DOMAIN steps : Of(steps[k]) # {}})
  IN steps[last].events[Max(Of(steps[last]))]

(* filterCaptures, for the modes full, include and exclude. *)
Mocked(url, mode, routes) ==
  \/ mode = "full" \/ routes = {}
  \/ mode = "include" /\ url \in routes
  \/ mode = "exclude" /\ url \notin routes

(* The mappings by fixture id, and the fallback to the real server. *)
writeStubs(steps, mode, routes, proxied) ==
  LET unique == {stub(steps, FixtureOf[e.url]) : e \in Captures(steps)}
  IN [mappings |-> {e \in unique : Mocked(e.url, mode, routes)},
      fallback |-> mode # "full" /\ proxied]

(* StubServer.serveMapping: a fixture, if the mapping names one; all else  *)
(* in a mapping of ours, proxyBaseUrl, it ignores, and answers 200.        *)
serveMapping(hits) ==
  IF hits = {} THEN [from |-> "nothing"]
  ELSE [from |-> "fixture", of |-> CHOOSE e \in hits : TRUE]

(* handleRequest: the first mapping that matches; the fallback comes last. *)
handleRequest(stubs, url) ==
  LET hits == {e \in stubs.mappings : e.url = url}
  IN IF hits = {} /\ ~stubs.fallback THEN [from |-> "404"] ELSE serveMapping(hits)

-----------------------------------------------------------------------------
(* FlowWeaver. *)

IsBoundary(r) == r.result \in {"flow_start", "flow_end"}

Polls(records) == KeptAt(records, {k \in DOMAIN records : ~IsBoundary(records[k])})

(* Each flow_start with the flow_end that follows it, if it is of the same *)
(* flow; one superseded by another, or without an end, is dropped.         *)
Pairs(records) ==
  LET b == KeptAt(records, {k \in DOMAIN records : IsBoundary(records[k])})
      Paired(k) == /\ b[k].result = "flow_start" /\ k < Len(b)
                   /\ b[k + 1].result = "flow_end" /\ b[k + 1].flow = b[k].flow
      starts == InOrder({k \in DOMAIN b : Paired(k)})
  IN [n \in DOMAIN starts |->
        [flow |-> b[starts[n]].flow, time |-> b[starts[n]].time, end |-> b[starts[n] + 1].time]]

Near(a, b) == a <= b + FlowTolerance /\ b <= a + FlowTolerance

(* The executions still there that may be the pair's. *)
take(left, executions, p) ==
  {k \in left : executions[k].flow = p.flow /\ Near(executions[k].time, p.time)}

(* Each pair takes the first of its flow within the tolerance; without one *)
(* it is woven of none.   Steps are found by flow and start.              *)
weaveFlowExecutions(records, executions, parsedSteps) ==
  LET pairs == Pairs(records)
      Woven(p, c) ==
        IF c = {} THEN [flow |-> p.flow, time |-> p.time, end |-> p.end, of |-> 0, steps |-> {}]
        ELSE LET e == executions[Min(c)]
             IN [flow |-> e.flow, time |-> e.time, end |-> e.end, of |-> Min(c),
                 steps |-> {s \in parsedSteps : s.key = <<e.flow, e.time>>}]
      acc[n \in 0..Len(pairs)] ==
        IF n = 0 THEN [left |-> DOMAIN executions, woven |-> <<>>]
        ELSE LET old == acc[n - 1]
                 c == take(old.left, executions, pairs[n])
             IN [left |-> old.left \ (IF c = {} THEN {} ELSE {Min(c)}),
                 woven |-> Append(old.woven, Woven(pairs[n], c))]
  IN [woven |-> ByTime(acc[Len(pairs)].woven),
      records |-> Polls(records)]

-----------------------------------------------------------------------------
(* YamlGenerator.toYaml: launchApp, then steps and flows in one order of   *)
(* time.  The directives alone; comments and selectors are left out.       *)

tapDirectives(steps) ==
  [k \in DOMAIN steps |-> [do |-> steps[k].interaction.target, time |-> steps[k].time]]

flowDirectives(woven) ==
  [k \in DOMAIN woven |-> [do |-> woven[k].flow, time |-> woven[k].time]]

toYaml_FlowsLast(steps, woven) ==
  <<[do |-> "launchApp", time |-> Min(Times)]>> \o tapDirectives(steps) \o flowDirectives(woven)

toYaml(steps, woven) ==
  <<[do |-> "launchApp", time |-> Min(Times)]>>
    \o ByTime(tapDirectives(steps) \o flowDirectives(woven))

-----------------------------------------------------------------------------
(* TimelineBuilder. *)

networkToStep_ByUrl(steps, e) ==
  {k \in DOMAIN steps : \E f \in Range(steps[k].events) : f.url = e.url}

(* The steps of a network event, looked up by url and time. *)
networkToStep(steps, e) ==
  {k \in DOMAIN steps : \E f \in Range(steps[k].events) : Key(f) = Key(e)}

(* A map filled in order: the last step of the interaction's time. *)
interactionToStep(steps, i) == Max({k \in DOMAIN steps : steps[k].time = i.time})

Entry(t, what, of, at) == [time |-> t, type |-> what, of |-> of, step |-> at]

LastOf(set) == IF set = {} THEN 0 ELSE Max(set)

(* A session that is being compiled has no stoppedAt yet. *)
buildTimeline(start, interactions, events, steps, records, woven) ==
  LET polls == Polls(records)
      caused == KeptAt(steps, {k \in DOMAIN steps : steps[k].events # <<>>})
  IN ByTime(
    <<Entry(start, "lifecycle", "started", 0)>>
    \o [k \in DOMAIN polls |-> Entry(polls[k].time, "poll", polls[k].result, 0)]
    \o [k \in DOMAIN interactions |-> Entry(interactions[k].time, "interaction",
          interactions[k], interactionToStep(steps, interactions[k]))]
    \o [k \in DOMAIN events |-> Entry(events[k].time, "network",
          events[k], LastOf(networkToStep(steps, events[k])))]
    \o [k \in DOMAIN caused |-> Entry(caused[k].time, "correlation",
          caused[k].interaction, Len(caused[k].events))]
    \o [k \in DOMAIN woven |-> Entry(woven[k].time, "flow", woven[k].of, 0)])

(* detectGaps: between polls further apart than two intervals. *)
detectGaps(records) ==
  {[from |-> records[k - 1].time, to |-> records[k].time,
    reason |-> IF records[k - 1].result = "error" THEN "poll_errors"
               ELSE IF records[k - 1].took > PollInterval THEN "poll_starvation"
               ELSE "no_polls"] :
     k \in {j \in 2..Len(records) : records[j].time - records[j - 1].time > 2 * PollInterval}}

buildCoverage(events, steps, records) ==
  [matched |-> Cardinality({k \in DOMAIN events : networkToStep(steps, events[k]) # {}}),
   total |-> Len(events), gaps |-> detectGaps(records)]

-----------------------------------------------------------------------------
(* Segments. *)

(* SegmentFingerprint.compute, before the hash: targets and endpoints. *)
fingerprint(steps) ==
  [k \in DOMAIN steps |-> <<steps[k].interaction.target,
    [u \in DOMAIN FixtureOf |->
      Cardinality({j \in DOMAIN steps[k].events : steps[k].events[j].url = u})]>>]

(* SegmentRegistry.addEntry: a name has one entry. *)
addEntry(entries, e) == 
  Append(KeptAt(entries, {k \in DOMAIN entries : entries[k].name # e.name}), e)

findMatches(entries, print) == {e.name : e \in {f \in Range(entries) : f.print = print}}
=============================================================================
