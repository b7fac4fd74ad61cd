---------------------------- MODULE SessionData ----------------------------
(***************************************************************************)
(* The data of one recording: what the database keeps (src/session/        *)
(* database.ts), what Proxyman logs, and what the tools make of both:      *)
(* get_network_logs copies Proxyman's events into the database,            *)
(* stop_and_compile_test compiles the session, register_segment files its  *)
(* fingerprint, the verify_network_* tools give verdicts.                  *)
(***************************************************************************)
EXTENDS NetworkVerify

CONSTANTS
  Target, Flow,       (* what is tapped; names of flows                    *)
  MaxRequests, MaxReads, MaxData   (* bounds: of requests, of the tools that  *)
                      (* read what is recorded, and of all of it          *)

(* The session begins after the first moment; "feed" is what an older      *)
(* request asks for.                                                       *)
ASSUME DataAssumption ==
  /\ Times \subseteq Nat
  /\ \E lo, hi \in Times : lo < hi /\ Times = lo..hi
  /\ Window \in Nat /\ FlowTolerance \in Nat
  /\ {"feed", TrackUrl} \subseteq DOMAIN FixtureOf /\ TrackUrl # "feed"

VARIABLES
  clock,
  har,                (* Proxyman's log                                    *)
  rows,               (* table network_events, in order of insertion       *)
  taps,               (* table ui_interactions                             *)
  records,            (* poll records and flow boundaries                  *)
  executions,         (* table flow_executions                             *)
  reads,              (* of get_network_logs and register_segment          *)
  registered,         (* the fingerprint registered, <<>> for none yet     *)
  compiled            (* "no", "full", or "db" if the export failed        *)

dataVars == <<clock, har, rows, taps, records, executions, reads, registered, compiled>>

startedAt == Min(Times) + 1

(* Proxyman may hold a request from before the session. *)
DataInit ==
  /\ clock = startedAt
  /\ \E old \in {<<>>, <<[url |-> "feed", time |-> Min(Times), body |-> [id |-> 0]]>>} :
       har = old
  /\ rows = <<>> /\ taps = <<>> /\ records = <<>> /\ executions = <<>>
  /\ reads = 0 /\ registered = <<>> /\ compiled = "no"

Open == compiled = "no"

(* The bound on what is recorded and read in all; a poll leaves room for   *)
(* another.                                                                *)
Room(n) == Len(taps) + Len(har) + Len(records) + reads + n <= MaxData

-----------------------------------------------------------------------------

(* execute_ui_action or the touch inferrer: insertUIInteraction. *)
logInteraction ==
  /\ Open /\ Room(1)
  /\ \E t \in Target :
       taps' = Append(taps, [time |-> clock, target |-> t, source |-> "dispatched"])
  /\ UNCHANGED <<clock, har, rows, records, executions, reads, registered, compiled>>

(* The app asks its servers; Proxyman exports the newest first or last.    *)
Logged(e) == Len(har) < MaxRequests /\ har' \in {<<e>> \o har, Append(har, e)}

AppRequest ==
  /\ Open /\ Room(1)
  /\ \E u \in DOMAIN FixtureOf \ {TrackUrl} :
       Logged([url |-> u, time |-> clock, body |-> [id |-> Len(har) + 1]])
  /\ UNCHANGED <<clock, rows, taps, records, executions, reads, registered, compiled>>

(* A tracking request bears the app's own time. *)
Track ==
  /\ Open /\ Room(1)
  /\ \E t \in Target, at \in {clock, clock - 1} :
       Logged([url |-> TrackUrl, time |-> clock,
               body |-> [id |-> Len(har) + 1, target |-> t, time |-> at]])
  /\ UNCHANGED <<clock, rows, taps, records, executions, reads, registered, compiled>>

Poll ==
  /\ Open /\ Room(2)
  /\ \E r \in {"inferred", "error"} :
       records' = Append(records, [time |-> clock, took |-> 0, result |-> r, flow |-> "none"])
  /\ UNCHANGED <<clock, har, rows, taps, executions, reads, registered, compiled>>

(* A flow between pauseSession and resumeSession; it starts at its marker. *)
RunFlow ==
  /\ Open /\ Room(2) /\ clock < Max(Times)
  /\ clock' = clock + 1
  /\ \E f \in Flow :
       LET Mark(t, what) == [time |-> t, took |-> 0, result |-> what, flow |-> f]
       IN /\ records' = records \o <<Mark(clock, "flow_start"), Mark(clock', "flow_end")>>
          /\ executions' = Append(executions,
               [flow |-> f, time |-> clock, end |-> clock'])
  /\ UNCHANGED <<har, rows, taps, reads, registered, compiled>>

Tick ==
  /\ Open /\ clock < Max(Times)
  /\ clock' = clock + 1
  /\ UNCHANGED <<har, rows, taps, records, executions, reads, registered, compiled>>

(* getMergedEvents: rows by time, then the session's part of the export. *)
InSession(events) == KeptAt(events, {k \in DOMAIN events : events[k].time >= startedAt})

getMergedEvents == mergeEvents(ByTime(rows), InSession(har))

(* verify_sdui_payload: the last entry of the log for the url, whenever.   *)
getPayload(u) ==
  LET hits == {k \in DOMAIN har : har[k].url = u} IN IF hits = {} THEN <<>> ELSE <<har[Max(hits)]>>

(* batchInsertNetworkEvents: every event gets a row, again if need be: the *)
(* table has no key an insert could conflict with.                         *)
get_network_logs ==
  /\ Open /\ reads < MaxReads /\ Room(1)
  /\ reads' = reads + 1
  /\ rows' = rows \o InSession(har)
  /\ UNCHANGED <<clock, har, taps, records, executions, registered, compiled>>

(* register_segment: the rows alone, as they are. *)
register_segment ==
  /\ Open /\ registered = <<>> /\ taps # <<>> /\ reads < MaxReads /\ Room(1)
  /\ reads' = reads + 1
  /\ registered' = fingerprint(correlate(ByTime(taps), ByTime(rows)))
  /\ UNCHANGED <<clock, har, rows, taps, records, executions, compiled>>

(* stop_and_compile_test: the export may fail; the rows remain. *)
stop_and_compile_test ==
  /\ Open /\ compiled' \in {"full", "db"}
  /\ UNCHANGED <<clock, har, rows, taps, records, executions, reads, registered>>

DataNext ==
  \/ logInteraction \/ AppRequest \/ Track \/ Poll \/ RunFlow \/ Tick
  \/ get_network_logs \/ register_segment \/ stop_and_compile_test

DataSpec == DataInit /\ [][DataNext]_dataVars

-----------------------------------------------------------------------------
(* What it compiles, of the state. *)

allNetworkEvents ==
  mergeEvents(ByTime(rows), IF compiled = "full" THEN InSession(har) ELSE <<>>)

allInteractions == ByTime(ByTime(taps) \o extractTrackEvents(allNetworkEvents))

compiledSteps == correlate(allInteractions, allNetworkEvents)

(* Maestro's debug output of each flow: one step of it. *)
parsedSteps ==
  {[key |-> <<executions[k].flow, executions[k].time>>, of |-> k] : k \in DOMAIN executions}

weaveResult == weaveFlowExecutions(records, executions, parsedSteps)

compiledYaml == toYaml(compiledSteps, weaveResult.woven)

(* Without a network event no stubs are written at all. *)
compiledStubs(steps, mode, routes, proxied) ==
  IF allNetworkEvents = <<>> THEN [mappings |-> {}, fallback |-> FALSE]
  ELSE writeStubs(steps, mode, routes, proxied)

(* Of the segments that are registered. *)
matchedSegments(entries) ==
  IF compiledSteps = <<>> THEN {} ELSE findMatches(entries, fingerprint(compiledSteps))

compiledTimeline ==
  buildTimeline(startedAt, allInteractions, allNetworkEvents, compiledSteps, records,
                weaveResult.woven)

-----------------------------------------------------------------------------
(* Properties. *)

Sorted(s) == \A k \in 2..Len(s) : s[k - 1].time <= s[k].time

(* A request belongs to the last interaction before it, not more than the  *)
(* window away, and to no other (Correlator's nearest-preceding rule).     *)
NearestCause ==
  ~Open => LET steps == compiledSteps IN
    \A e \in Range(allNetworkEvents) :
      LET causes == {k \in DOMAIN steps : e.time - steps[k].time \in 0..Window}
          of == {k \in DOMAIN steps : e \in Range(steps[k].events)}
      IN /\ causes = {} <=> of = {}
         /\ \A k \in of : k \in causes /\ \A j \in causes : j <= k

(* A stub server loaded with the session answers, in every mode, only what *)
(* is to be mocked, with the latest answer the session saw among those of  *)
(* the fixture that have a cause, and leaves no fixture without a request  *)
(* that gets it (deduplicateCaptures, "freshest data"; filterCaptures).    *)
StubsAreLatest ==
  ~Open =>
    LET its == allInteractions
        steps == compiledSteps
        E == {e \in Range(allNetworkEvents) : nearest(its, e) # 0}
        Rivals == [u \in DOMAIN FixtureOf |-> {e \in E : FixtureOf[e.url] = FixtureOf[u]}]
    IN \A mode \in {"full", "include", "exclude"}, routes \in {{}, {"feed"}} :
         LET stubs == compiledStubs(steps, mode, routes, TRUE)
             answer == [u \in DOMAIN FixtureOf |-> handleRequest(stubs, u)]
         IN \A u \in DOMAIN FixtureOf :
              /\ answer[u].from = "fixture" => LET s == answer[u].of IN
                   /\ s \in E /\ s.url = u /\ Mocked(u, mode, routes)
                   /\ \A e \in Rivals[u] : e.time <= s.time
              /\ mode = "full" /\ Rivals[u] # {} =>
                   \E e \in Rivals[u] : answer[e.url].from = "fixture"

(* However often get_network_logs copied them, the compiled session has    *)
(* every request of the session once and none from before it; and the      *)
(* timeline agrees with the steps: it is in order, counts every request    *)
(* once, matched or not, and sends each to the step that has it            *)
(* (stop_and_compile_test, TimelineBuilder).                               *)
TimelineAddsUp ==
  ~Open =>
    LET steps == compiledSteps
        E == allNetworkEvents
        timeline == compiledTimeline
        session == Range(rows) \cup
          (IF compiled = "full" THEN {h \in Range(har) : h.time >= startedAt} ELSE {})
    IN /\ IsInjective([k \in DOMAIN E |-> Key(E[k])])
       /\ {Key(e) : e \in Range(E)} = {Key(e) : e \in session}
       /\ Sorted(timeline)
       /\ buildCoverage(E, steps, weaveResult.records).matched =
            Cardinality(UNION {{k} \X DOMAIN steps[k].events : k \in DOMAIN steps})
       /\ \A k \in DOMAIN timeline : LET n == timeline[k] IN
            /\ n.type = "network" /\ n.step # 0 => n.of \in Range(steps[n.step].events)
            /\ n.type = "network" /\ n.step = 0 =>
                 \A s \in Range(steps) : n.of \notin Range(s.events)
            /\ n.type = "interaction" => steps[n.step].time = n.of.time

(* Every flow of the session is woven once, as itself, with its own steps, *)
(* and the test replays interactions and flows in order of time            *)
(* (weaveFlowExecutions, toYaml).                                          *)
ReplayIsTheSession ==
  ~Open =>
    LET woven == weaveResult.woven
        yaml == compiledYaml
    IN /\ Len(woven) = Len(executions) /\ Sorted(woven)
       /\ {w.of : w \in Range(woven)} = DOMAIN executions
       /\ \A w \in Range(woven) : w.steps = {s \in parsedSteps : s.of = w.of}
       /\ yaml[1].do = "launchApp" /\ Sorted(yaml)
       /\ Len(yaml) = 1 + Len(compiledSteps) + Len(woven)

(* The verdicts mean what the tools say, on every session and with every   *)
(* anchor, also one that is not found.                                     *)
VerdictsAreTrue ==
  compiled = "full" => LET merged == getMergedEvents IN
    \A a \in {None, resolveElement(ByTime(taps), CHOOSE t \in Target : TRUE)},
       m \in {{"feed"}, {"feed", "list"}} :
      /\ SequenceIsTrue(merged, a, 1, <<m, {"feed"}>>)
      /\ OnScreenIsTrue(merged, a, 1, <<m, {"feed"}>>)
      /\ AbsentIsTrue(merged, a, 1, m)
      /\ ToolsAgree(merged, a, 1, m)

(* wrapper.ts: getPayload finds "the most recent matching entry (last      *)
(* match wins)"; of exportHarScoped the same file says that "Proxyman does *)
(* not guarantee chronological ordering in the HAR array".                 *)
PayloadIsLatest ==
  \A e \in Range(har) : \A p \in Range(getPayload(e.url)) : e.time <= p.time

(* stub-writer.ts: in mode include "only specified routes are stubbed,     *)
(* rest proxied to real server"; README: "unmocked routes proxy to the     *)
(* real server".  No request that is asked of the stub server stays        *)
(* without an answer of one or of the other.                               *)
UnmockedReachesServer ==
  ~Open /\ allNetworkEvents # <<>> => \A u \in DOMAIN FixtureOf :
    handleRequest(compiledStubs(compiledSteps, "include", {"feed"}, TRUE), u).from
      \in {"fixture", "server"}

(* database.ts: "Uses INSERT OR IGNORE to silently skip duplicates."       *)
DuplicatesSkipped == IsInjective([k \in DOMAIN rows |-> Key(rows[k])])

(* event-source.ts: "Chronological, deduplicated merge of session DB and   *)
(* scoped Proxyman events".                                                *)
MergedIsChronological == Sorted(getMergedEvents)

(* segments/registry.ts: the registry maps fingerprints to segments "so    *)
(* the agent can detect and reuse known flows": the fingerprint a session  *)
(* is registered under is the one it compiles to.                          *)
RegisteredIsFound ==
  compiled = "full" /\ registered # <<>> =>
    matchedSegments(addEntry(<<>>, [name |-> "flow", print |-> registered])) # {}
=============================================================================
