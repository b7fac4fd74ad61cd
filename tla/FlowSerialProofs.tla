------------------------- MODULE FlowSerialProofs -------------------------
(***************************************************************************)
(* Proofs about FlowPauseResume when the client calls one tool at a time,  *)
(* Overlap = {}, for any sessions, flows and lengths: the port is held by  *)
(* one driver, nothing is left behind, what was woven is complete, and the *)
(* specification implements SessionLease.                                  *)
(*                                                                         *)
(* At most one handler is between two of its steps (OneHandler); the phase *)
(* that handler is in says everything of the session or flow it works at   *)
(* (SessionPhase, FlowPhase), and all others are at rest (AtRest).  The    *)
(* drivers and timers that exist are those of the phases (DriversKnown,    *)
(* TimersKnown).                                                           *)
(***************************************************************************)
EXTENDS FlowPauseResumeProofs

-----------------------------------------------------------------------------
(* Markers in pairs, one pair for each recorded execution, in its order.   *)
Paired(r, e) ==
  /\ Len(r) = 2 * Len(e)
  /\ \A i \in 1 .. Len(e) :
       /\ r[2 * i - 1] = Boundary("flow_start", e[i].flow)
       /\ r[2 * i] = Boundary("flow_end", e[i].flow)

(* ... and the start of f behind them.                                     *)
Opened(r, e, f) ==
  \E q \in Seq(Marker) : Paired(q, e) /\ r = Append(q, Boundary("flow_start", f))

-----------------------------------------------------------------------------
(* What a session looks like between two steps of the handler at work.     *)

Unpaused(s) == s \notin paused /\ pausedRecords[s] = <<>>

Bare(s) == active[s] = None /\ poller[s] = None

New(s) == Bare(s) /\ Unpaused(s) /\ records[s] = <<>> /\ flowExecs[s] = <<>>

Live(s) ==
  /\ active[s] # None /\ poller[s] = active[s] /\ Unpaused(s)
  /\ Paired(records[active[s]], flowExecs[s])

(* A handler h awaits the stop() of the registered driver. *)
Stopping(s, h) ==
  active[s] # None /\ held[h] = active[s] /\ poller[s] = None /\ s \notin paused

Yielded(s, f) == Bare(s) /\ s \in paused /\ Opened(pausedRecords[s], flowExecs[s], f)

AtRest(s) ==
  \/ status[s] = "none" /\ New(s)
  \/ status[s] = "recording" /\ Live(s)
  \/ status[s] \in Terminal /\ Bare(s) /\ Unpaused(s)

SessionPhase(s) ==
  /\ s \in opening => status[s] = "recording" /\ New(s)
  /\ compile[s] \in {"export", "woven"} => status[s] = "compiling" /\ Live(s)
  /\ compile[s] = "stopping" =>
       status[s] = "done" /\ Stopping(s, <<"compile", s>>) /\ Unpaused(s)
  /\ force[s] = "stopping" => status[s] = "recording" /\ Stopping(s, <<"force", s>>)
  /\ force[s] = "marking" =>
       status[s] \in {"recording"} \cup Terminal /\ Bare(s) /\ Unpaused(s)
  /\ ~ AtWork(s) => AtRest(s)
  /\ Paired(woven[s].records, woven[s].execs)

FlowPhase(f) ==
  /\ bracket[f] = "preparing" => status[target[f]] = "recording" /\ Live(target[f])
  /\ bracket[f] = "pausing" =>
       /\ status[target[f]] = "recording" /\ Stopping(target[f], <<"pause", f>>)
       /\ Opened(pausedRecords[target[f]], flowExecs[target[f]], f)
  /\ bracket[f] \in {"open", "resuming"} /\ target[f] # None =>
       status[target[f]] = "recording" /\ Yielded(target[f], f)
  /\ bracket[f] \in {"idle", "preparing", "pausing"} => ~ timedOut[f]
  /\ InFlight(f) /\ ~ timedOut[f] <=> bracket[f] = "open"
  /\ InProgress(f) => Active \subseteq {target[f]}

(* The handlers that have not answered: a serial client has one at a time. *)
Handlers ==
  {<<"start", s>> : s \in opening}
    \cup {<<"stop", s>> : s \in {x \in Session : compile[x] \notin {"no", "over"}}}
    \cup {<<"force", s>> : s \in {x \in Session : force[x] # "no"}}
    \cup {<<"flow", f>> : f \in {g \in Flow : InProgress(g)}}

OneHandler == \A h, k \in Handlers : h = k

(* NothingLeaks, of one driver and of one timer.                           *)
DriversKnown ==
  \A d \in Driver :
    d \in alive <=> \/ \E s \in Session : active[s] = d
                    \/ d \in opening
                    \/ d \in Flow /\ bracket[d] = "resuming"

TimersKnown == \A d \in Driver : d \in polling <=> \E s \in Session : poller[s] = d

SerialInv ==
  /\ OneHandler /\ DriversKnown /\ TimersKnown
  /\ \A s \in Session : SessionPhase(s)
  /\ \A f \in Flow : FlowPhase(f)
-----------------------------------------------------------------------------
(* One handler at a time.                                                  *)

LEMMA OnlyOpening ==
  ASSUME TypeOK, OneHandler, NEW s \in opening
  PROVE  /\ opening = {s}
         /\ \A x \in Session : compile[x] \in {"no", "over"} /\ force[x] = "no"
         /\ \A f \in Flow : ~ InProgress(f)
<1>1. <<"start", s>> \in Handlers
  BY DEF Handlers
<1>2. \A x \in opening : <<"start", x>> \in Handlers
  BY DEF Handlers
<1>3. \A x \in Session : compile[x] \notin {"no", "over"} => <<"stop", x>> \in Handlers
  BY DEF Handlers
<1>4. \A x \in Session : force[x] # "no" => <<"force", x>> \in Handlers
  BY DEF Handlers
<1>5. \A f \in Flow : InProgress(f) => <<"flow", f>> \in Handlers
  BY DEF Handlers
<1> QED
  BY <1>1, <1>2, <1>3, <1>4, <1>5 DEF OneHandler

LEMMA OnlyCompiling ==
  ASSUME TypeOK, OneHandler, NEW s \in Session, compile[s] \notin {"no", "over"}
  PROVE  /\ opening = {}
         /\ \A x \in Session : x # s => compile[x] \in {"no", "over"}
         /\ \A x \in Session : force[x] = "no"
         /\ \A f \in Flow : ~ InProgress(f)
<1>1. <<"stop", s>> \in Handlers
  BY DEF Handlers
<1>2. \A x \in opening : <<"start", x>> \in Handlers
  BY DEF Handlers
<1>3. \A x \in Session : compile[x] \notin {"no", "over"} => <<"stop", x>> \in Handlers
  BY DEF Handlers
<1>4. \A x \in Session : force[x] # "no" => <<"force", x>> \in Handlers
  BY DEF Handlers
<1>5. \A f \in Flow : InProgress(f) => <<"flow", f>> \in Handlers
  BY DEF Handlers
<1> QED
  BY <1>1, <1>2, <1>3, <1>4, <1>5 DEF OneHandler

LEMMA OnlyForcing ==
  ASSUME TypeOK, OneHandler, NEW s \in Session, force[s] # "no"
  PROVE  /\ opening = {}
         /\ \A x \in Session : compile[x] \in {"no", "over"}
         /\ \A x \in Session : x # s => force[x] = "no"
         /\ \A f \in Flow : ~ InProgress(f)
<1>1. <<"force", s>> \in Handlers
  BY DEF Handlers
<1>2. \A x \in opening : <<"start", x>> \in Handlers
  BY DEF Handlers
<1>3. \A x \in Session : compile[x] \notin {"no", "over"} => <<"stop", x>> \in Handlers
  BY DEF Handlers
<1>4. \A x \in Session : force[x] # "no" => <<"force", x>> \in Handlers
  BY DEF Handlers
<1>5. \A f \in Flow : InProgress(f) => <<"flow", f>> \in Handlers
  BY DEF Handlers
<1> QED
  BY <1>1, <1>2, <1>3, <1>4, <1>5 DEF OneHandler

LEMMA OnlyFlowing ==
  ASSUME TypeOK, OneHandler, NEW f \in Flow, InProgress(f)
  PROVE  /\ opening = {}
         /\ \A x \in Session : compile[x] \in {"no", "over"} /\ force[x] = "no"
         /\ \A g \in Flow : g # f => ~ InProgress(g)
<1>1. <<"flow", f>> \in Handlers
  BY DEF Handlers
<1>2. \A x \in opening : <<"start", x>> \in Handlers
  BY DEF Handlers
<1>3. \A x \in Session : compile[x] \notin {"no", "over"} => <<"stop", x>> \in Handlers
  BY DEF Handlers
<1>4. \A x \in Session : force[x] # "no" => <<"force", x>> \in Handlers
  BY DEF Handlers
<1>5. \A g \in Flow : InProgress(g) => <<"flow", g>> \in Handlers
  BY DEF Handlers
<1> QED
  BY <1>1, <1>2, <1>3, <1>4, <1>5 DEF OneHandler

(* The client began nothing: one handler goes on, or ends.                 *)
LEMMA SessionStepOneHandler ==
  ASSUME TypeOK, OneHandler, NEW s \in Session, SessionStep(s)
  PROVE  OneHandler'
<1>1. UNCHANGED bracket /\ opening' \subseteq opening
  BY DEF SessionStep, RecordingStarted, RecordingFails, Weave, CompileEnds,
         CompileDriverStopped, ForceDriverStopped, ForceMarks, flows
<1>2. \A x \in Session : compile'[x] \notin {"no", "over"} => compile[x] \notin {"no", "over"}
  BY DEF SessionStep, RecordingStarted, RecordingFails, Weave, CompileEnds,
         CompileDriverStopped, ForceDriverStopped, ForceMarks, TypeOK
<1>3. \A x \in Session : force'[x] # "no" => force[x] # "no"
  BY DEF SessionStep, RecordingStarted, RecordingFails, Weave, CompileEnds,
         CompileDriverStopped, ForceDriverStopped, ForceMarks, TypeOK
<1>4. \A f \in Flow : InProgress(f)' => InProgress(f)
  BY <1>1 DEF InProgress
<1>5. Handlers' \subseteq Handlers
  BY <1>1, <1>2, <1>3, <1>4 DEF Handlers
<1> QED
  BY <1>5 DEF OneHandler

LEMMA FlowStepOneHandler ==
  ASSUME TypeOK, OneHandler, NEW f \in Flow,
         FlowStep(f) \/ WatchdogFires(f) \/ CancelFlow(f)
  PROVE  OneHandler'
<1>1. UNCHANGED stops
  BY DEF FlowStep, WatchdogFires, CancelFlow, PauseBegins, PauseRefused, PauseEnds,
         Spawn, BodyReturns, BodyThrows, FlowIsOver, BeginResume, Resumed, ResumeFails,
         stops
<1>2. \A g \in Flow : InProgress(g)' => InProgress(g)
  BY DEF FlowStep, WatchdogFires, CancelFlow, PauseBegins, PauseRefused, PauseEnds,
         Spawn, BodyReturns, BodyThrows, FlowIsOver, BeginResume, Resumed, ResumeFails,
         TypeOK, InProgress
<1>3. Handlers' \subseteq Handlers
  BY <1>1, <1>2 DEF Handlers, stops
<1> QED
  BY <1>3 DEF OneHandler

(* A serial client begins a handler when there is none.                    *)
LEMMA QuietOneHandler ==
  ASSUME Quiet, NEW h, Handlers' \subseteq {h} \cup Handlers
  PROVE  OneHandler'
<1>1. Handlers = {}
  BY DEF Quiet, Handlers
<1> QED
  BY <1>1 DEF OneHandler

LEMMA NextOneHandler ==
  ASSUME TypeOK, Overlap = {}, OneHandler, Next
  PROVE  OneHandler'
<1>1. CASE \E s \in Session : StartRecording(s)
  <2>1. PICK s \in Session : StartRecording(s)
    BY <1>1
  <2>2. Handlers' \subseteq {<<"start", s>>} \cup Handlers
    BY <2>1 DEF StartRecording, Handlers, InProgress, flows
  <2> QED
    BY <2>1, <2>2, QuietOneHandler DEF StartRecording, MayBegin
<1>2. CASE \E s \in Session : StopAndCompile(s)
  <2>1. PICK s \in Session : StopAndCompile(s)
    BY <1>2
  <2>2. \A x \in Session : x # s => compile'[x] = compile[x]
    BY <2>1 DEF StopAndCompile, TypeOK
  <2>3. Handlers' \subseteq {<<"stop", s>>} \cup Handlers
    BY <2>1, <2>2 DEF StopAndCompile, Handlers, InProgress, flows
  <2> QED
    BY <2>1, <2>3, QuietOneHandler DEF StopAndCompile, MayBegin
<1>3. CASE \E s \in Session : ForceCleanup(s)
  <2>1. PICK s \in Session : ForceCleanup(s)
    BY <1>3
  <2>2. \A x \in Session : x # s => force'[x] = force[x]
    BY <2>1 DEF ForceCleanup, TypeOK
  <2>3. Handlers' \subseteq {<<"force", s>>} \cup Handlers
    BY <2>1, <2>2 DEF ForceCleanup, Handlers, InProgress, flows
  <2> QED
    BY <2>1, <2>3, QuietOneHandler DEF ForceCleanup, MayBegin
<1>4. CASE \E f \in Flow : RunFlow(f)
  <2>1. PICK f \in Flow : RunFlow(f)
    BY <1>4
  <2>2. \A g \in Flow : g # f => bracket'[g] = bracket[g]
    BY <2>1 DEF RunFlow, RunUnbracketed, RunRefused, RunBracketed, TypeOK
  <2>3. Handlers' \subseteq {<<"flow", f>>} \cup Handlers
    BY <2>1, <2>2 DEF RunFlow, Handlers, InProgress, stops
  <2> QED
    BY <2>1, <2>3, QuietOneHandler DEF RunFlow, MayBegin
<1>5. CASE \/ \E s \in Session : SessionStep(s)
           \/ \E f \in Flow : FlowStep(f) \/ WatchdogFires(f) \/ CancelFlow(f)
  BY <1>5, SessionStepOneHandler, FlowStepOneHandler
<1> QED
  BY <1>1, <1>2, <1>3, <1>4, <1>5 DEF Next, ClientStep

-----------------------------------------------------------------------------
(* The drivers and the timers of the sessions.                             *)

(* Two sessions never have the same driver.                                *)
LEMMA ActiveInjective ==
  ASSUME IInv, NEW s \in Session, NEW x \in Session, x # s, active[s] # None
  PROVE  active[x] # active[s]
<1>1. active[s] \in Driver /\ Holds(active[s], s) /\ Holds(active[x], x)
  BY DEF IInv, TypeOK, SessionInv
<1> QED
  BY <1>1, OneOwner

(* A poller is the inferrer of the registered driver.                      *)
LEMMA PollerOfDriver ==
  ASSUME IInv, SerialInv, NEW s \in Session
  PROVE  poller[s] \in {None, active[s]}
<1>1. SessionPhase(s)
  BY DEF SerialInv
<1>2. CASE ~ AtWork(s)
  BY <1>1, <1>2 DEF SessionPhase, AtRest, New, Live, Bare
<1>3. CASE s \in opening \/ compile[s] \notin {"no", "over"} \/ force[s] # "no"
  BY <1>1, <1>3 DEF SessionPhase, New, Live, Bare, Stopping, IInv, TypeOK
<1>4. CASE \E f \in Flow : target[f] = s /\ InProgress(f)
  <2>1. PICK f \in Flow : target[f] = s /\ InProgress(f)
    BY <1>4
  <2>2. FlowPhase(f)
    BY DEF SerialInv
  <2>3. bracket[f] \in {"preparing", "pausing", "open", "resuming"}
    BY <2>1 DEF InProgress, IInv, TypeOK
  <2>4. target[f] # None
    BY <2>1, FlowAssumption
  <2> QED
    BY <2>1, <2>2, <2>3, <2>4 DEF FlowPhase, Live, Stopping, Yielded, Bare
<1> QED
  BY <1>2, <1>3, <1>4 DEF AtWork

LEMMA PollerInjective ==
  ASSUME IInv, SerialInv, NEW s \in Session, NEW x \in Session, x # s, poller[s] # None
  PROVE  poller[x] # poller[s]
BY PollerOfDriver, ActiveInjective

(* The drivers and the timers a step leaves alone.                         *)
LEMMA DriversStay ==
  ASSUME DriversKnown, UNCHANGED <<active, alive, opening>>,
         \A f \in Flow : bracket'[f] = "resuming" <=> bracket[f] = "resuming"
  PROVE  DriversKnown'
BY DEF DriversKnown

LEMMA TimersStay ==
  ASSUME TimersKnown, UNCHANGED <<poller, polling>>
  PROVE  TimersKnown'
BY DEF TimersKnown

(* The driver a session had is stopped, and was nobody else's.             *)
LEMMA DriverGone ==
  ASSUME IInv, DriversKnown, UNCHANGED opening,
         \A f \in Flow : bracket'[f] = "resuming" <=> bracket[f] = "resuming",
         NEW h, NEW s \in Session, DriverStopped(h, s),
         active[s] # None, held[h] = active[s]
  PROVE  DriversKnown'
<1>1. active[s] \in Driver /\ Holds(active[s], s)
  BY DEF IInv, TypeOK, SessionInv
<1>2. Registered(active[s])
  BY <1>1 DEF Holds
<1>3. /\ \A x \in Session : active'[x] = IF x = s THEN None ELSE active[x]
      /\ alive' = alive \ {active[s]}
  BY DEF DriverStopped, IInv, TypeOK
<1>4. \A x \in Session : x # s => active[x] # active[s]
  BY ActiveInjective
<1> SUFFICES ASSUME NEW d \in Driver
             PROVE  d \in alive' <=> \/ \E x \in Session : active'[x] = d
                                     \/ d \in opening
                                     \/ d \in Flow /\ bracket[d] = "resuming"
  BY DEF DriversKnown
<1>5. d # None
  BY FlowAssumption DEF Driver
<1>6. CASE d = active[s]
  <2>1. d \notin opening /\ ~ (d \in Flow /\ bracket[d] = "resuming")
    BY <1>2, <1>6 DEF Registered, IInv, TypeOK
  <2> QED
    BY <1>3, <1>4, <1>5, <1>6, <2>1
<1>7. CASE d # active[s]
  <2>1. d \in alive' <=> d \in alive
    BY <1>3, <1>7
  <2>2. (\E x \in Session : active'[x] = d) <=> (\E x \in Session : active[x] = d)
    BY <1>3, <1>5, <1>7
  <2> QED
    BY <2>1, <2>2 DEF DriversKnown
<1> QED
  BY <1>6, <1>7

(* The timer of a session's inferrer is cleared with the entry.            *)
LEMMA TimerGone ==
  ASSUME IInv, SerialInv, NEW s \in Session, StopPolling(s)
  PROVE  TimersKnown'
<1>1. /\ \A x \in Session : poller'[x] = IF x = s THEN None ELSE poller[x]
      /\ polling' = polling \ {poller[s]}
  BY DEF StopPolling, IInv, TypeOK
<1>2. \A x \in Session : x # s /\ poller[s] # None => poller[x] # poller[s]
  BY PollerInjective
<1> SUFFICES ASSUME NEW d \in Driver
             PROVE  d \in polling' <=> \E x \in Session : poller'[x] = d
  BY DEF TimersKnown
<1>3. d # None
  BY FlowAssumption DEF Driver
<1>4. d \in polling <=> \E x \in Session : poller[x] = d
  BY DEF SerialInv, TimersKnown
<1>5. CASE d = poller[s]
  BY <1>1, <1>2, <1>3, <1>5
<1>6. CASE d # poller[s]
  BY <1>1, <1>3, <1>4, <1>6
<1> QED
  BY <1>5, <1>6

(* A registered inferrer polls.                                            *)
LEMMA TimerStarted ==
  ASSUME TypeOK, TimersKnown, NEW s \in Session, NEW d \in Driver, poller[s] = None,
         poller' = [poller EXCEPT ![s] = d], polling' = polling \cup {d}
  PROVE  TimersKnown'
<1>1. \A x \in Session : poller'[x] = IF x = s THEN d ELSE poller[x]
  BY DEF TypeOK
<1>2. \A e \in Driver : e # None
  BY FlowAssumption DEF Driver
<1> QED
  BY <1>1, <1>2 DEF TimersKnown

-----------------------------------------------------------------------------
(* What a step does not touch.                                             *)

SameManager(x) ==
  /\ status'[x] = status[x] /\ active'[x] = active[x] /\ poller'[x] = poller[x]
  /\ x \in paused' <=> x \in paused
  /\ pausedRecords'[x] = pausedRecords[x] /\ flowExecs'[x] = flowExecs[x]
  /\ woven'[x] = woven[x]

SameRecords(x) ==
  /\ records'[x] = records[x]
  /\ active[x] # None => records'[active[x]] = records[active[x]]

LEMMA RestStays ==
  ASSUME NEW x \in Session, SessionPhase(x), ~ AtWork(x), ~ AtWork(x)',
         SameManager(x), SameRecords(x)
  PROVE  SessionPhase(x)'
<1>1. AtRest(x) /\ Paired(woven[x].records, woven[x].execs)
  BY DEF SessionPhase
<1>2. AtRest(x)'
  <2>1. CASE status[x] = "none" /\ New(x)
    BY <2>1 DEF AtRest, New, Bare, Unpaused, SameManager, SameRecords
  <2>2. CASE status[x] = "recording" /\ Live(x)
    BY <2>2 DEF AtRest, Live, Paired, Unpaused, SameManager, SameRecords
  <2>3. CASE status[x] \in Terminal /\ Bare(x) /\ Unpaused(x)
    BY <2>3 DEF AtRest, Bare, Unpaused, SameManager
  <2> QED
    BY <1>1, <2>1, <2>2, <2>3 DEF AtRest
<1>3. Paired(woven[x].records, woven[x].execs)'
  BY <1>1 DEF Paired, SameManager
<1> QED
  BY <1>2, <1>3 DEF SessionPhase, AtWork

LEMMA IdleFlowStays ==
  ASSUME NEW g \in Flow, FlowPhase(g), ~ InProgress(g),
         bracket'[g] = bracket[g], body'[g] = body[g], timedOut'[g] = timedOut[g]
  PROVE  FlowPhase(g)'
BY DEF FlowPhase, InProgress, InFlight

SessionActs(s) ==
  SessionStep(s) \/ StartRecording(s) \/ StopAndCompile(s) \/ ForceCleanup(s)

(* The sessions a handler is not at work on.                               *)
LEMMA OtherSessionStays ==
  ASSUME TypeOK, NEW s \in Session, SessionActs(s),
         NEW x \in Session, x # s, SessionPhase(x), ~ AtWork(x)
  PROVE  SessionPhase(x)'
<1> USE DEF SessionActs, SessionStep
<1>1. status'[x] = status[x]
  BY DEF StartRecording, StopAndCompile, ForceCleanup, RecordingStarted,
         RecordingFails, Weave, CompileEnds, CompileDriverStopped, ForceDriverStopped,
         ForceMarks, AbortedStatus, manager, TypeOK
<1>2. active'[x] = active[x]
  BY DEF StartRecording, StopAndCompile, ForceCleanup, RecordingStarted,
         RecordingFails, Weave, CompileEnds, CompileDriverStopped, ForceDriverStopped,
         ForceMarks, DriverStopped, manager, TypeOK
<1>3. poller'[x] = poller[x]
  BY DEF StartRecording, StopAndCompile, ForceCleanup, RecordingStarted,
         RecordingFails, Weave, CompileEnds, CompileDriverStopped, ForceDriverStopped,
         ForceMarks, StopPolling, manager, TypeOK
<1>4. /\ x \in paused' <=> x \in paused
      /\ pausedRecords'[x] = pausedRecords[x] /\ flowExecs'[x] = flowExecs[x]
  BY DEF StartRecording, StopAndCompile, ForceCleanup, RecordingStarted,
         RecordingFails, Weave, CompileEnds, CompileDriverStopped, ForceDriverStopped,
         ForceMarks, ForgetPause, manager, TypeOK
<1>5. woven'[x] = woven[x]
  BY DEF StartRecording, StopAndCompile, ForceCleanup, RecordingStarted,
         RecordingFails, Weave, CompileEnds, CompileDriverStopped, ForceDriverStopped,
         ForceMarks, TypeOK
<1>6. UNCHANGED <<records, bracket, target>>
  BY DEF StartRecording, StopAndCompile, ForceCleanup, RecordingStarted,
         RecordingFails, Weave, CompileEnds, CompileDriverStopped, ForceDriverStopped,
         ForceMarks, world, flows
<1>7. x \in opening' <=> x \in opening
  BY DEF StartRecording, StopAndCompile, ForceCleanup, RecordingStarted,
         RecordingFails, Weave, CompileEnds, CompileDriverStopped, ForceDriverStopped,
         ForceMarks, TypeOK
<1>8. compile'[x] = compile[x]
  BY DEF StartRecording, StopAndCompile, ForceCleanup, RecordingStarted,
         RecordingFails, Weave, CompileEnds, CompileDriverStopped, ForceDriverStopped,
         ForceMarks, TypeOK
<1>9. force'[x] = force[x]
  BY DEF StartRecording, StopAndCompile, ForceCleanup, RecordingStarted,
         RecordingFails, Weave, CompileEnds, CompileDriverStopped, ForceDriverStopped,
         ForceMarks, TypeOK
<1>10. ~ AtWork(x)'
  BY <1>6, <1>7, <1>8, <1>9 DEF AtWork, InProgress
<1> QED
  BY <1>1, <1>2, <1>3, <1>4, <1>5, <1>6, <1>10, RestStays
     DEF SameManager, SameRecords

(* The flows are over or not begun while a handler of a session works.     *)
LEMMA SessionStepKeepsPhases ==
  ASSUME TypeOK, SerialInv, NEW s \in Session, SessionActs(s),
         \A x \in Session : x # s => ~ AtWork(x),
         \A f \in Flow : ~ InProgress(f),
         SessionPhase(s)'
  PROVE  /\ \A x \in Session : SessionPhase(x)'
         /\ \A f \in Flow : FlowPhase(f)'
<1>1. \A x \in Session : SessionPhase(x)'
  BY OtherSessionStays DEF SerialInv
<1>2. UNCHANGED <<bracket, body, timedOut>>
  BY DEF SessionActs, SessionStep, StartRecording, StopAndCompile, ForceCleanup,
         RecordingStarted, RecordingFails, Weave, CompileEnds, CompileDriverStopped,
         ForceDriverStopped, ForceMarks, flows
<1>3. \A f \in Flow : FlowPhase(f)'
  BY <1>2, IdleFlowStays DEF SerialInv
<1> QED
  BY <1>1, <1>3

LEMMA QuietIsIdle ==
  ASSUME Quiet
  PROVE  /\ \A x \in Session : ~ AtWork(x)
         /\ \A f \in Flow : ~ InProgress(f)
BY DEF Quiet, AtWork

LEMMA OpeningIsAlone ==
  ASSUME TypeOK, OneHandler, NEW s \in opening
  PROVE  /\ \A x \in Session : x # s => ~ AtWork(x)
         /\ \A f \in Flow : ~ InProgress(f)
BY OnlyOpening DEF AtWork

LEMMA CompilingIsAlone ==
  ASSUME TypeOK, OneHandler, NEW s \in Session, compile[s] \notin {"no", "over"}
  PROVE  /\ \A x \in Session : x # s => ~ AtWork(x)
         /\ \A f \in Flow : ~ InProgress(f)
BY OnlyCompiling DEF AtWork

LEMMA ForcingIsAlone ==
  ASSUME TypeOK, OneHandler, NEW s \in Session, force[s] # "no"
  PROVE  /\ \A x \in Session : x # s => ~ AtWork(x)
         /\ \A f \in Flow : ~ InProgress(f)
BY OnlyForcing DEF AtWork

LEMMA FlowIsAlone ==
  ASSUME TypeOK, OneHandler, NEW f \in Flow, InProgress(f)
  PROVE  /\ \A x \in Session : x # target[f] => ~ AtWork(x)
         /\ \A g \in Flow : g # f => ~ InProgress(g)
BY OnlyFlowing DEF AtWork

LEMMA NothingIsPaired == Paired(<<>>, <<>>)
BY DEF Paired

-----------------------------------------------------------------------------
(* One lemma for each step of a handler of a session.                      *)

LEMMA SerialStartRecording ==
  ASSUME IInv, SerialInv, Overlap = {}, NEW s \in Session, StartRecording(s), OneHandler'
  PROVE  SerialInv'
<1>1. Quiet /\ ~ AtWork(s)
  BY QuietIsIdle DEF StartRecording, MayBegin
<1>2. SessionPhase(s)
  BY DEF SerialInv
<1>3. New(s)
  BY <1>1, <1>2 DEF SessionPhase, AtRest, StartRecording, Terminal
<1>4. New(s)' /\ status'[s] = "recording" /\ s \in opening'
  BY <1>3 DEF New, Bare, Unpaused, StartRecording, IInv, TypeOK
<1>5. compile'[s] \in {"no", "over"} /\ force'[s] = "no"
  BY <1>1 DEF StartRecording, Quiet
<1>6. Paired(woven[s].records, woven[s].execs)'
  BY <1>2 DEF SessionPhase, Paired, StartRecording
<1>7. SessionPhase(s)'
  BY <1>4, <1>5, <1>6 DEF SessionPhase, AtWork
<1>8. (\A x \in Session : SessionPhase(x)') /\ (\A f \in Flow : FlowPhase(f)')
  BY <1>1, <1>7, QuietIsIdle, SessionStepKeepsPhases DEF SessionActs, IInv
<1>9. DriversKnown'
  BY DEF StartRecording, DriversKnown, SerialInv, flows
<1>10. TimersKnown'
  BY TimersStay DEF StartRecording, SerialInv
<1> QED
  BY <1>8, <1>9, <1>10 DEF SerialInv

LEMMA SerialRecordingStarted ==
  ASSUME IInv, SerialInv, NEW s \in Session, RecordingStarted(s), OneHandler'
  PROVE  SerialInv'
<1>1. s \in opening /\ SessionPhase(s) /\ OneHandler /\ DriversKnown /\ TimersKnown
  BY DEF SerialInv, RecordingStarted
<1>2. New(s) /\ status[s] = "recording"
  BY <1>1 DEF SessionPhase
<1>3. s \in Driver /\ s # None
  BY FlowAssumption DEF Driver
<1>4. /\ active' = [active EXCEPT ![s] = s] /\ opening' = opening \ {s}
      /\ poller' = [poller EXCEPT ![s] = s] /\ polling' = polling \cup {s}
      /\ UNCHANGED <<status, paused, pausedRecords, flowExecs, alive, records, compile,
                     woven, force, bracket>>
  BY <1>2 DEF RecordingStarted, New, Bare, flows
<1>5. active'[s] = s /\ poller'[s] = s
  BY <1>4 DEF IInv, TypeOK
<1>6. Live(s)'
  BY <1>2, <1>3, <1>4, <1>5, NothingIsPaired DEF Live, New, Unpaused
<1>7. s \notin opening' /\ compile'[s] \in {"no", "over"} /\ force'[s] = "no"
  BY <1>1, <1>4, OnlyOpening DEF IInv
<1>8. SessionPhase(s)'
  BY <1>1, <1>2, <1>4, <1>6, <1>7 DEF SessionPhase, AtRest, Paired
<1>9. (\A x \in Session : SessionPhase(x)') /\ (\A f \in Flow : FlowPhase(f)')
  BY <1>1, <1>8, OpeningIsAlone, SessionStepKeepsPhases DEF SessionActs, SessionStep, IInv
<1>10. \A x \in Session : active'[x] = IF x = s THEN s ELSE active[x]
  BY <1>4 DEF IInv, TypeOK
<1>11. active[s] = None
  BY <1>2 DEF New, Bare
<1>12. DriversKnown'
  BY <1>1, <1>3, <1>4, <1>10, <1>11, FlowAssumption DEF DriversKnown, Driver
<1>13. TimersKnown'
  BY <1>1, <1>2, <1>3, <1>4, TimerStarted DEF New, Bare, IInv
<1> QED
  BY <1>9, <1>12, <1>13 DEF SerialInv

LEMMA SerialRecordingFails ==
  ASSUME IInv, SerialInv, NEW s \in Session, RecordingFails(s), OneHandler'
  PROVE  SerialInv'
<1>1. s \in opening /\ SessionPhase(s) /\ OneHandler /\ DriversKnown /\ TimersKnown
  BY DEF SerialInv, RecordingFails
<1>2. New(s) /\ status[s] = "recording"
  BY <1>1 DEF SessionPhase
<1>3. status'[s] = "aborted"
  BY <1>2 DEF RecordingFails, AbortedStatus, IInv, TypeOK
<1>4. Bare(s)' /\ Unpaused(s)'
  BY <1>2 DEF New, Bare, Unpaused, RecordingFails
<1>5. s \notin opening' /\ compile'[s] \in {"no", "over"} /\ force'[s] = "no"
  BY <1>1, OnlyOpening DEF IInv, RecordingFails
<1>6. SessionPhase(s)'
  BY <1>1, <1>3, <1>4, <1>5 DEF SessionPhase, AtRest, Paired, Terminal, RecordingFails
<1>7. (\A x \in Session : SessionPhase(x)') /\ (\A f \in Flow : FlowPhase(f)')
  BY <1>1, <1>6, OpeningIsAlone, SessionStepKeepsPhases DEF SessionActs, SessionStep, IInv
<1>8. \A x \in Session : active[x] # s
  <2> SUFFICES ASSUME NEW x \in Session, active[x] = s
               PROVE  FALSE
    OBVIOUS
  <2>1. Holds(active[x], x) /\ active[x] # None
    BY FlowAssumption DEF IInv, SessionInv
  <2> QED
    BY <1>1, <2>1 DEF Holds, Registered
<1>9. DriversKnown'
  BY <1>1, <1>8, FlowAssumption DEF DriversKnown, RecordingFails, flows
<1>10. TimersKnown'
  BY <1>1, TimersStay DEF RecordingFails
<1> QED
  BY <1>7, <1>9, <1>10 DEF SerialInv

LEMMA SerialStopAndCompile ==
  ASSUME IInv, SerialInv, Overlap = {}, NEW s \in Session, StopAndCompile(s), OneHandler'
  PROVE  SerialInv'
<1>1. Quiet /\ ~ AtWork(s) /\ SessionPhase(s)
  BY QuietIsIdle DEF StopAndCompile, MayBegin, SerialInv
<1>2. Live(s)
  BY <1>1 DEF SessionPhase, AtRest, StopAndCompile, Terminal
<1>3. /\ status'[s] = "compiling" /\ compile'[s] = "export"
      /\ s \notin opening' /\ force'[s] = "no"
  BY <1>1 DEF StopAndCompile, Quiet, IInv, TypeOK
<1>4. Live(s)'
  BY <1>2 DEF Live, Unpaused, Paired, StopAndCompile, world
<1>5. SessionPhase(s)'
  BY <1>1, <1>3, <1>4 DEF SessionPhase, AtWork, Paired, StopAndCompile
<1>6. (\A x \in Session : SessionPhase(x)') /\ (\A f \in Flow : FlowPhase(f)')
  BY <1>1, <1>5, QuietIsIdle, SessionStepKeepsPhases DEF SessionActs, IInv
<1>7. DriversKnown' /\ TimersKnown'
  BY DriversStay, TimersStay DEF StopAndCompile, SerialInv, flows, world
<1> QED
  BY <1>6, <1>7 DEF SerialInv

LEMMA SerialWeave ==
  ASSUME IInv, SerialInv, NEW s \in Session, Weave(s), OneHandler'
  PROVE  SerialInv'
<1>1. compile[s] = "export" /\ SessionPhase(s) /\ OneHandler
  BY DEF SerialInv, Weave
<1>2. Live(s) /\ status[s] = "compiling"
  BY <1>1 DEF SessionPhase
<1>3. woven'[s] = [records |-> records[active[s]], execs |-> flowExecs[s]]
  BY <1>2 DEF Live, Weave, IInv, TypeOK
<1>4. Paired(woven'[s].records, woven'[s].execs)
  BY <1>2, <1>3 DEF Live
<1>5. Paired(woven[s].records, woven[s].execs)'
  BY <1>4 DEF Paired
<1>6. Live(s)'
  BY <1>2 DEF Live, Unpaused, Paired, Weave, manager, world
<1>7. /\ compile'[s] = "woven" /\ status'[s] = "compiling"
      /\ s \notin opening' /\ force'[s] = "no"
  BY <1>1, <1>2, OnlyCompiling DEF Weave, manager, IInv, TypeOK
<1>8. SessionPhase(s)'
  BY <1>5, <1>6, <1>7 DEF SessionPhase, AtWork
<1>9. (\A x \in Session : SessionPhase(x)') /\ (\A f \in Flow : FlowPhase(f)')
  BY <1>1, <1>8, CompilingIsAlone, SessionStepKeepsPhases DEF SessionActs, SessionStep, IInv
<1>10. DriversKnown' /\ TimersKnown'
  BY DriversStay, TimersStay DEF Weave, SerialInv, flows, world, manager
<1> QED
  BY <1>9, <1>10 DEF SerialInv

LEMMA SerialCompileEnds ==
  ASSUME IInv, SerialInv, NEW s \in Session, CompileEnds(s), OneHandler'
  PROVE  SerialInv'
<1>1. compile[s] \in {"export", "woven"} /\ SessionPhase(s) /\ OneHandler
  BY DEF SerialInv, CompileEnds
<1>2. Live(s) /\ status[s] = "compiling"
  BY <1>1 DEF SessionPhase
<1>3. /\ status'[s] = "done" /\ compile'[s] = "stopping" /\ poller'[s] = None
      /\ held'[<<"compile", s>>] = active[s]
  BY <1>2 DEF CompileEnds, StopPolling, Live, IInv, TypeOK
<1>4. s \notin opening' /\ force'[s] = "no"
  BY <1>1, OnlyCompiling DEF CompileEnds, IInv
<1>5. Stopping(s, <<"compile", s>>)' /\ Unpaused(s)'
  BY <1>2, <1>3 DEF Stopping, Live, Unpaused, CompileEnds
<1>6. SessionPhase(s)'
  BY <1>1, <1>3, <1>4, <1>5 DEF SessionPhase, AtWork, Paired, CompileEnds
<1>7. (\A x \in Session : SessionPhase(x)') /\ (\A f \in Flow : FlowPhase(f)')
  BY <1>1, <1>6, CompilingIsAlone, SessionStepKeepsPhases DEF SessionActs, SessionStep, IInv
<1>8. DriversKnown' /\ TimersKnown'
  BY DriversStay, TimerGone DEF CompileEnds, SerialInv, flows
<1> QED
  BY <1>7, <1>8 DEF SerialInv

LEMMA SerialCompileDriverStopped ==
  ASSUME IInv, SerialInv, NEW s \in Session, CompileDriverStopped(s), OneHandler'
  PROVE  SerialInv'
<1>1. compile[s] = "stopping" /\ SessionPhase(s) /\ OneHandler /\ DriversKnown
  BY DEF SerialInv, CompileDriverStopped
<1>2. status[s] = "done" /\ Stopping(s, <<"compile", s>>) /\ Unpaused(s)
  BY <1>1 DEF SessionPhase
<1>3. DriverStopped(<<"compile", s>>, s)
  BY DEF CompileDriverStopped
<1>4. active'[s] = None
  BY <1>3 DEF DriverStopped, IInv, TypeOK
<1>5. Bare(s)' /\ Unpaused(s)' /\ status'[s] = "done"
  BY <1>2, <1>4 DEF Bare, Unpaused, Stopping, CompileDriverStopped
<1>6. s \notin opening' /\ compile'[s] = "over" /\ force'[s] = "no"
  BY <1>1, OnlyCompiling DEF CompileDriverStopped, IInv, TypeOK
<1>7. SessionPhase(s)'
  BY <1>1, <1>5, <1>6 DEF SessionPhase, AtRest, Terminal, Paired, CompileDriverStopped
<1>8. (\A x \in Session : SessionPhase(x)') /\ (\A f \in Flow : FlowPhase(f)')
  BY <1>1, <1>7, CompilingIsAlone, SessionStepKeepsPhases DEF SessionActs, SessionStep, IInv
<1>9. UNCHANGED <<opening, bracket, poller, polling>>
  BY DEF CompileDriverStopped, flows
<1>10. DriversKnown'
  BY <1>1, <1>2, <1>3, <1>9, DriverGone DEF Stopping
<1>11. TimersKnown'
  BY <1>9, TimersStay DEF SerialInv
<1> QED
  BY <1>8, <1>10, <1>11 DEF SerialInv

LEMMA SerialForceCleanup ==
  ASSUME IInv, SerialInv, Overlap = {}, NEW s \in Session, ForceCleanup(s), OneHandler'
  PROVE  SerialInv'
<1>1. Quiet /\ ~ AtWork(s) /\ SessionPhase(s) /\ status[s] # "none"
  BY QuietIsIdle DEF ForceCleanup, MayBegin, SerialInv
<1>2. /\ status'[s] = status[s] /\ active'[s] = active[s] /\ poller'[s] = None
      /\ s \notin opening' /\ compile'[s] \in {"no", "over"}
      /\ woven'[s] = woven[s]
  BY <1>1 DEF ForceCleanup, StopPolling, Quiet, IInv, TypeOK
<1>5. SessionPhase(s)'
  <2>1. CASE status[s] = "recording" /\ Live(s)
    <3>1. /\ force'[s] = "stopping" /\ held'[<<"force", s>>] = active[s]
          /\ UNCHANGED paused
      BY <2>1 DEF ForceCleanup, Live, IInv, TypeOK
    <3>2. Stopping(s, <<"force", s>>)'
      BY <1>2, <2>1, <3>1 DEF Stopping, Live, Unpaused
    <3> QED
      BY <1>1, <1>2, <2>1, <3>1, <3>2 DEF SessionPhase, AtWork, Paired
  <2>2. CASE status[s] \in Terminal /\ Bare(s)
    <3>1. force'[s] = "marking" /\ ForgetPause(s)
      BY <2>2 DEF ForceCleanup, Bare, IInv, TypeOK
    <3>2. Bare(s)' /\ Unpaused(s)'
      BY <1>2, <2>2, <3>1 DEF Bare, Unpaused, ForgetPause, ForceCleanup, IInv, TypeOK
    <3> QED
      BY <1>1, <1>2, <2>2, <3>1, <3>2 DEF SessionPhase, AtWork, Paired
  <2> QED
    BY <1>1, <2>1, <2>2 DEF SessionPhase, AtRest
<1>6. (\A x \in Session : SessionPhase(x)') /\ (\A f \in Flow : FlowPhase(f)')
  BY <1>1, <1>5, QuietIsIdle, SessionStepKeepsPhases DEF SessionActs, IInv
<1>7. DriversKnown' /\ TimersKnown'
  BY DriversStay, TimerGone DEF ForceCleanup, SerialInv, flows
<1> QED
  BY <1>6, <1>7 DEF SerialInv

LEMMA SerialForceDriverStopped ==
  ASSUME IInv, SerialInv, NEW s \in Session, ForceDriverStopped(s), OneHandler'
  PROVE  SerialInv'
<1>1. force[s] = "stopping" /\ SessionPhase(s) /\ OneHandler /\ DriversKnown
  BY DEF SerialInv, ForceDriverStopped
<1>2. status[s] = "recording" /\ Stopping(s, <<"force", s>>)
  BY <1>1 DEF SessionPhase
<1>3. DriverStopped(<<"force", s>>, s) /\ ForgetPause(s)
  BY DEF ForceDriverStopped
<1>4. active'[s] = None
  BY <1>3 DEF DriverStopped, IInv, TypeOK
<1>5. Bare(s)' /\ Unpaused(s)' /\ status'[s] = "recording"
  BY <1>2, <1>3, <1>4 DEF Bare, Unpaused, Stopping, ForgetPause, ForceDriverStopped,
                         IInv, TypeOK
<1>6. s \notin opening' /\ compile'[s] \in {"no", "over"} /\ force'[s] = "marking"
  BY <1>1, OnlyForcing DEF ForceDriverStopped, IInv, TypeOK
<1>7. SessionPhase(s)'
  BY <1>1, <1>5, <1>6 DEF SessionPhase, AtWork, Paired, ForceDriverStopped
<1>8. (\A x \in Session : SessionPhase(x)') /\ (\A f \in Flow : FlowPhase(f)')
  BY <1>1, <1>7, ForcingIsAlone, SessionStepKeepsPhases DEF SessionActs, SessionStep, IInv
<1>9. UNCHANGED <<opening, bracket, poller, polling>>
  BY DEF ForceDriverStopped, flows
<1>10. DriversKnown'
  BY <1>1, <1>2, <1>3, <1>9, DriverGone DEF Stopping
<1>11. TimersKnown'
  BY <1>9, TimersStay DEF SerialInv
<1> QED
  BY <1>8, <1>10, <1>11 DEF SerialInv

LEMMA SerialForceMarks ==
  ASSUME IInv, SerialInv, NEW s \in Session, ForceMarks(s), OneHandler'
  PROVE  SerialInv'
<1>1. force[s] = "marking" /\ SessionPhase(s) /\ OneHandler
  BY DEF SerialInv, ForceMarks
<1>2. status[s] \in {"recording"} \cup Terminal /\ Bare(s) /\ Unpaused(s)
  BY <1>1 DEF SessionPhase
<1>3. status'[s] \in Terminal
  BY <1>2 DEF ForceMarks, AbortedStatus, Terminal, IInv, TypeOK
<1>4. Bare(s)' /\ Unpaused(s)'
  BY <1>2 DEF Bare, Unpaused, ForceMarks
<1>5. s \notin opening' /\ compile'[s] \in {"no", "over"} /\ force'[s] = "no"
  BY <1>1, OnlyForcing DEF ForceMarks, IInv, TypeOK
<1>6. SessionPhase(s)'
  BY <1>1, <1>3, <1>4, <1>5 DEF SessionPhase, AtRest, Paired, ForceMarks
<1>7. (\A x \in Session : SessionPhase(x)') /\ (\A f \in Flow : FlowPhase(f)')
  BY <1>1, <1>6, ForcingIsAlone, SessionStepKeepsPhases DEF SessionActs, SessionStep, IInv
<1>8. DriversKnown' /\ TimersKnown'
  BY DriversStay, TimersStay DEF ForceMarks, SerialInv, flows, world
<1> QED
  BY <1>7, <1>8 DEF SerialInv

-----------------------------------------------------------------------------
(* Steps of run_test and run_flow.                                         *)

FlowActs(f) == FlowStep(f) \/ WatchdogFires(f) \/ RunFlow(f) \/ CancelFlow(f)

(* The sessions beside the one the flow brackets.                          *)
LEMMA SessionBesideStays ==
  ASSUME IInv, SerialInv, NEW f \in Flow, FlowActs(f),
         NEW x \in Session, x # target[f], x # target'[f], ~ AtWork(x)
  PROVE  SessionPhase(x)'
<1> USE DEF FlowActs, FlowStep
<1>1. /\ TypeOK /\ FlowInv(f) /\ SessionInv(x) /\ SessionPhase(x)
      /\ bracket[f] = "preparing" => poller[target[f]] = active[target[f]]
  BY DEF IInv, SerialInv, FlowPhase, Live
<1>2. status'[x] = status[x]
  BY <1>1 DEF WatchdogFires, RunFlow, CancelFlow, PauseBegins, PauseRefused, PauseEnds,
     Spawn, BodyReturns, BodyThrows, FlowIsOver, Resumed, ResumeFails, AbortedStatus,
     manager, TypeOK
<1>3. active'[x] = active[x] /\ poller'[x] = poller[x]
  BY <1>1 DEF WatchdogFires, RunFlow, CancelFlow, PauseBegins, PauseRefused, PauseEnds,
     Spawn, BodyReturns, BodyThrows, FlowIsOver, Resumed, ResumeFails, DriverStopped,
     StopPolling, manager, TypeOK
<1>4. /\ x \in paused' <=> x \in paused
      /\ pausedRecords'[x] = pausedRecords[x] /\ flowExecs'[x] = flowExecs[x]
  BY <1>1 DEF WatchdogFires, RunFlow, CancelFlow, PauseBegins, PauseRefused, PauseEnds,
     Spawn, BodyReturns, BodyThrows, FlowIsOver, Resumed, ResumeFails, manager, TypeOK
<1>5. UNCHANGED stops
  BY DEF WatchdogFires, RunFlow, CancelFlow, PauseBegins, PauseRefused, PauseEnds,
     Spawn, BodyReturns, BodyThrows, FlowIsOver, BeginResume, Resumed, ResumeFails, stops
<1>6. SameRecords(x)
  <2>1. CASE PauseBegins(f)
    <3>1. target[f] \in Session /\ poller[target[f]] = active[target[f]]
          /\ active[target[f]] # None
      BY <1>1, <2>1 DEF PauseBegins, FlowInv
    <3>2. SessionInv(target[f])
      BY <3>1 DEF IInv
    <3>3. poller[target[f]] # x
      BY <3>1, <3>2, FlowAssumption DEF SessionInv, Holds, Owned
    <3>4. active[x] # poller[target[f]]
      BY <3>1, ActiveInjective
    <3>5. \A d \in Driver : d # poller[target[f]] => records'[d] = records[d]
      BY <1>1, <2>1 DEF PauseBegins, TypeOK
    <3> QED
      BY <1>1, <3>3, <3>4, <3>5 DEF SameRecords, Driver, TypeOK
  <2>2. CASE Resumed(f)
    <3>1. x # f
      BY FlowAssumption
    <3>2. active[x] # f
      BY <1>1, <2>2, FlowAssumption DEF Resumed, SessionInv, Holds, Registered
    <3>3. \A d \in Driver : d # f => records'[d] = records[d]
      BY <1>1, <2>2 DEF Resumed, TypeOK
    <3> QED
      BY <1>1, <3>1, <3>2, <3>3 DEF SameRecords, Driver, TypeOK
  <2>3. CASE ~ PauseBegins(f) /\ ~ Resumed(f)
    BY <2>3 DEF WatchdogFires, RunFlow, CancelFlow, PauseRefused, PauseEnds, Spawn,
       BodyReturns, BodyThrows, FlowIsOver, ResumeFails, world, SameRecords
  <2> QED
    BY <2>1, <2>2, <2>3
<1>7. \A g \in Flow : g # f => target'[g] = target[g]
  BY <1>1 DEF WatchdogFires, RunFlow, RunUnbracketed, RunRefused, RunBracketed,
     CancelFlow, PauseBegins, PauseRefused, PauseEnds, Spawn, BodyReturns, BodyThrows,
     FlowIsOver, Resumed, ResumeFails, TypeOK
<1>8. \A g \in Flow : g # f => bracket'[g] = bracket[g]
  BY <1>1 DEF WatchdogFires, RunFlow, RunUnbracketed, RunRefused, RunBracketed,
     CancelFlow, PauseBegins, PauseRefused, PauseEnds, Spawn, BodyReturns, BodyThrows,
     FlowIsOver, BeginResume, Resumed, ResumeFails, TypeOK
<1>9. ~ AtWork(x)'
  BY <1>5, <1>7, <1>8 DEF AtWork, InProgress, stops
<1> QED
  BY <1>1, <1>2, <1>3, <1>4, <1>5, <1>6, <1>9, RestStays DEF SameManager, stops

LEMMA FlowStepKeepsPhases ==
  ASSUME IInv, SerialInv, NEW f \in Flow, FlowActs(f),
         \A g \in Flow : g # f => ~ InProgress(g),
         NEW t, target'[f] = t, target[f] \in {None, t},
         \A x \in Session : x # t => ~ AtWork(x),
         t \in Session => SessionPhase(t)',
         FlowPhase(f)'
  PROVE  /\ \A x \in Session : SessionPhase(x)'
         /\ \A g \in Flow : FlowPhase(g)'
<1>1. \A x \in Session : SessionPhase(x)'
  BY SessionBesideStays, FlowAssumption
<1>2. ASSUME NEW g \in Flow, g # f
      PROVE  bracket'[g] = bracket[g] /\ body'[g] = body[g] /\ timedOut'[g] = timedOut[g]
  <2> USE DEF FlowActs, FlowStep
  <2>1. bracket'[g] = bracket[g]
    BY <1>2 DEF WatchdogFires, RunFlow, RunUnbracketed, RunRefused, RunBracketed,
       CancelFlow, PauseBegins, PauseRefused, PauseEnds, Spawn, BodyReturns, BodyThrows,
       FlowIsOver, BeginResume, Resumed, ResumeFails, IInv, TypeOK
  <2>2. body'[g] = body[g]
    BY <1>2 DEF WatchdogFires, RunFlow, RunUnbracketed, RunRefused, RunBracketed,
       CancelFlow, PauseBegins, PauseRefused, PauseEnds, Spawn, BodyReturns, BodyThrows,
       FlowIsOver, Resumed, ResumeFails, IInv, TypeOK
  <2>3. timedOut'[g] = timedOut[g]
    BY <1>2 DEF WatchdogFires, RunFlow, CancelFlow, PauseBegins, PauseRefused, PauseEnds,
       Spawn, BodyReturns, BodyThrows, FlowIsOver, Resumed, ResumeFails, IInv, TypeOK
  <2> QED
    BY <2>1, <2>2, <2>3
<1>3. \A g \in Flow : FlowPhase(g)'
  BY <1>2, IdleFlowStays DEF SerialInv
<1> QED
  BY <1>1, <1>3

(* No handler of the session itself is at work.                            *)
LEMMA BracketedPhase ==
  ASSUME NEW s \in Session, SessionPhase(s), UNCHANGED stops,
         s \notin opening, compile[s] \in {"no", "over"}, force[s] = "no",
         AtWork(s)' \/ AtRest(s)'
  PROVE  SessionPhase(s)'
BY DEF SessionPhase, Paired, stops

LEMMA SerialRunFlow ==
  ASSUME IInv, SerialInv, Overlap = {}, NEW f \in Flow, RunFlow(f), OneHandler'
  PROVE  SerialInv'
<1>1. /\ Quiet /\ bracket[f] = "idle" /\ FlowPhase(f) /\ FlowInv(f)
      /\ UNCHANGED <<manager, world, stops, held, timedOut>>
  BY DEF RunFlow, MayBegin, SerialInv, IInv
<1>2. target[f] = None /\ ~ timedOut[f] /\ ~ InFlight(f)
  BY <1>1 DEF FlowInv, FlowPhase
<1>3. PICK t : target'[f] = t
  OBVIOUS
<1>4. FlowPhase(f)' /\ (t \in Session => SessionPhase(t)')
  <2>1. CASE RunUnbracketed(f)
    <3>1. /\ bracket'[f] = "open" /\ target'[f] = None /\ Active' = {}
          /\ InFlight(f)'
      BY <1>1, <1>2, <2>1 DEF RunUnbracketed, Active, InFlight, manager, IInv, TypeOK
    <3> QED
      BY <1>1, <1>2, <1>3, <3>1, FlowAssumption DEF FlowPhase
  <2>2. CASE RunRefused(f)
    <3>1. bracket'[f] = "over" /\ target'[f] = None /\ ~ InFlight(f)'
      BY <1>2, <2>2 DEF RunRefused, InFlight, IInv, TypeOK
    <3> QED
      BY <1>3, <3>1, FlowAssumption DEF FlowPhase, InProgress
  <2>3. CASE RunBracketed(f)
    <3>1. PICK s \in Session : Active = {s} /\ target' = [target EXCEPT ![f] = s]
      BY <2>3 DEF RunBracketed
    <3>2. /\ bracket'[f] = "preparing" /\ target'[f] = s /\ ~ InFlight(f)'
      BY <1>2, <2>3, <3>1 DEF RunBracketed, InFlight, IInv, TypeOK
    <3>3. SessionPhase(s) /\ ~ AtWork(s) /\ active[s] # None
      BY <1>1, <3>1, QuietIsIdle DEF SerialInv, Active
    <3>4. status[s] = "recording" /\ Live(s)
      BY <3>3 DEF SessionPhase, AtRest, New, Bare
    <3>5. (status[s] = "recording")' /\ Live(s)' /\ Active' = {s}
      BY <1>1, <3>1, <3>4 DEF Live, Unpaused, Paired, Active, manager, world
    <3>6. FlowPhase(f)'
      BY <1>1, <1>2, <3>2, <3>5 DEF FlowPhase
    <3>7. AtWork(s)'
      BY <3>2 DEF AtWork, InProgress
    <3>8. s \notin opening /\ compile[s] \in {"no", "over"} /\ force[s] = "no"
      BY <1>1 DEF Quiet
    <3> QED
      BY <1>1, <1>3, <3>2, <3>3, <3>6, <3>7, <3>8, BracketedPhase
  <2> QED
    BY <2>1, <2>2, <2>3 DEF RunFlow
<1>5. (\A x \in Session : SessionPhase(x)') /\ (\A g \in Flow : FlowPhase(g)')
  BY <1>1, <1>2, <1>3, <1>4, QuietIsIdle, FlowStepKeepsPhases DEF FlowActs
<1>6. \A g \in Flow : bracket'[g] = "resuming" <=> bracket[g] = "resuming"
  BY <1>1 DEF RunFlow, RunUnbracketed, RunRefused, RunBracketed, IInv, TypeOK
<1>7. DriversKnown' /\ TimersKnown'
  BY <1>1, <1>6, DriversStay, TimersStay DEF SerialInv, manager, world, stops
<1> QED
  BY <1>5, <1>7 DEF SerialInv

LEMMA SerialPauseBegins ==
  ASSUME IInv, SerialInv, NEW f \in Flow, PauseBegins(f), OneHandler'
  PROVE  SerialInv'
<1>0. PICK s \in Session : target[f] = s
  BY DEF PauseBegins, IInv, FlowInv
<1>1. /\ bracket[f] = "preparing" /\ InProgress(f) /\ FlowPhase(f)
      /\ OneHandler /\ TypeOK /\ SessionPhase(s)
  BY DEF PauseBegins, InProgress, SerialInv, IInv
<1>2. status[s] = "recording" /\ Live(s)
  BY <1>0, <1>1 DEF FlowPhase
<1> DEFINE marked == Append(records[poller[s]], Boundary("flow_start", f))
<1>3. /\ pausedRecords' = [pausedRecords EXCEPT ![s] = marked]
      /\ StopPolling(s) /\ held' = [held EXCEPT ![<<"pause", f>>] = active[s]]
      /\ bracket' = [bracket EXCEPT ![f] = "pausing"]
      /\ UNCHANGED <<status, active, paused, flowExecs, alive, stops, body, target, timedOut>>
  BY <1>0, <1>2 DEF PauseBegins, Live
<1>4. /\ bracket'[f] = "pausing" /\ target'[f] = s /\ held'[<<"pause", f>>] = active[s]
      /\ poller'[s] = None /\ pausedRecords'[s] = marked
  BY <1>0, <1>1, <1>3 DEF StopPolling, TypeOK
<1>5. Stopping(s, <<"pause", f>>)'
  BY <1>2, <1>3, <1>4 DEF Stopping, Live, Unpaused
<1>6. Opened(marked, flowExecs[s], f)
  <2>1. records[poller[s]] \in Seq(Marker) /\ Paired(records[poller[s]], flowExecs[s])
    BY <1>1, <1>2 DEF Live, TypeOK
  <2> QED
    BY <2>1 DEF Opened
<1>7. Opened(pausedRecords[s], flowExecs[s], f)'
  BY <1>3, <1>4, <1>6 DEF Opened, Paired
<1>8. FlowPhase(f)'
  BY <1>0, <1>1, <1>2, <1>3, <1>4, <1>5, <1>7 DEF FlowPhase, InFlight, InProgress, Active
<1>9. SessionPhase(s)'
  BY <1>1, <1>3, <1>4, OnlyFlowing, BracketedPhase DEF AtWork, InProgress
<1>10. (\A x \in Session : SessionPhase(x)') /\ (\A g \in Flow : FlowPhase(g)')
  BY <1>0, <1>1, <1>4, <1>8, <1>9, FlowIsAlone, FlowStepKeepsPhases DEF FlowActs, FlowStep
<1>11. \A g \in Flow : bracket'[g] = "resuming" <=> bracket[g] = "resuming"
  BY <1>1, <1>3 DEF TypeOK
<1>12. DriversKnown' /\ TimersKnown'
  BY <1>1, <1>3, <1>11, DriversStay, TimerGone DEF SerialInv, stops
<1> QED
  BY <1>10, <1>12 DEF SerialInv

(* The session was active when the flow began, and nobody else worked.     *)
LEMMA SerialPauseRefused ==
  ASSUME IInv, SerialInv, NEW f \in Flow, PauseRefused(f)
  PROVE  FALSE
<1>1. FlowPhase(f)
  BY DEF SerialInv
<1> QED
  BY <1>1 DEF PauseRefused, FlowPhase, Live, Unpaused

LEMMA SerialPauseEnds ==
  ASSUME IInv, SerialInv, NEW f \in Flow, PauseEnds(f), OneHandler'
  PROVE  SerialInv'
<1>0. PICK s \in Session : target[f] = s
  BY DEF PauseEnds, IInv, FlowInv
<1>1. /\ bracket[f] = "pausing" /\ InProgress(f) /\ FlowPhase(f)
      /\ OneHandler /\ TypeOK /\ SessionPhase(s) /\ DriversKnown /\ TimersKnown
  BY DEF PauseEnds, InProgress, SerialInv, IInv
<1>2. /\ status[s] = "recording" /\ Stopping(s, <<"pause", f>>)
      /\ Opened(pausedRecords[s], flowExecs[s], f)
  BY <1>0, <1>1 DEF FlowPhase
<1>3. /\ DriverStopped(<<"pause", f>>, s) /\ paused' = paused \cup {s}
      /\ bracket' = [bracket EXCEPT ![f] = "open"]
      /\ UNCHANGED <<status, poller, pausedRecords, flowExecs, polling, stops, target,
                     timedOut>>
  BY <1>0 DEF PauseEnds
<1>4. /\ bracket'[f] = "open" /\ target'[f] = s /\ InFlight(f)'
      /\ active' = [active EXCEPT ![s] = None] /\ active'[s] = None
  BY <1>0, <1>1, <1>3 DEF DriverStopped, PauseEnds, InFlight, TypeOK
<1>5. Yielded(s, f)'
  BY <1>2, <1>3, <1>4 DEF Yielded, Bare, Stopping, Opened, Paired
<1>6. Active' \subseteq Active
  BY <1>1, <1>4 DEF Active, TypeOK
<1>7. FlowPhase(f)'
  BY <1>0, <1>1, <1>2, <1>3, <1>4, <1>5, <1>6 DEF FlowPhase
<1>8. SessionPhase(s)'
  BY <1>1, <1>3, <1>4, OnlyFlowing, BracketedPhase DEF AtWork, InProgress
<1>9. (\A x \in Session : SessionPhase(x)') /\ (\A g \in Flow : FlowPhase(g)')
  BY <1>0, <1>1, <1>4, <1>7, <1>8, FlowIsAlone, FlowStepKeepsPhases DEF FlowActs, FlowStep
<1>10. \A g \in Flow : bracket'[g] = "resuming" <=> bracket[g] = "resuming"
  BY <1>1, <1>3 DEF TypeOK
<1>11. DriversKnown' /\ TimersKnown'
  BY <1>1, <1>2, <1>3, <1>10, DriverGone, TimersStay DEF Stopping, stops
<1> QED
  BY <1>9, <1>11 DEF SerialInv

(* A step nobody but the flow's own body or signal sees.                   *)
LEMMA UnseenStays ==
  ASSUME SerialInv, UNCHANGED <<manager, world, stops, bracket, target, timedOut, held>>,
         \A g \in Flow : /\ InFlight(g)' => InFlight(g)
                         /\ bracket[g] = "open" /\ InFlight(g) => InFlight(g)',
         OneHandler'
  PROVE  SerialInv'
<1>1. \A s \in Session : SessionPhase(s)'
  <2> SUFFICES ASSUME NEW s \in Session
               PROVE  SessionPhase(s)'
    OBVIOUS
  <2>1. SessionPhase(s)
    BY DEF SerialInv
  <2>2. AtWork(s)' <=> AtWork(s)
    BY DEF AtWork, InProgress, stops
  <2>3. /\ Live(s) => Live(s)'
        /\ New(s) => New(s)'
        /\ Bare(s) => Bare(s)'
        /\ Unpaused(s) => Unpaused(s)'
    BY DEF Live, New, Bare, Unpaused, Paired, manager, world
  <2>4. \A h : Stopping(s, h) => Stopping(s, h)'
    BY DEF Stopping, manager
  <2>5. AtRest(s) => AtRest(s)'
    BY <2>3 DEF AtRest, manager
  <2>6. Paired(woven[s].records, woven[s].execs)'
    BY <2>1 DEF SessionPhase, Paired, stops
  <2> QED
    BY <2>1, <2>2, <2>3, <2>4, <2>5, <2>6 DEF SessionPhase, manager, stops
<1>2. \A g \in Flow : FlowPhase(g)'
  <2> SUFFICES ASSUME NEW g \in Flow
               PROVE  FlowPhase(g)'
    OBVIOUS
  <2>1. FlowPhase(g)
    BY DEF SerialInv
  <2> USE DEF manager, world
  <2>2. bracket[g] = "preparing" => (Live(target[g]))'
    BY <2>1 DEF FlowPhase, Live, Unpaused, Paired
  <2>3. bracket[g] = "pausing" =>
          /\ (Stopping(target[g], <<"pause", g>>))'
          /\ (Opened(pausedRecords[target[g]], flowExecs[target[g]], g))'
    BY <2>1 DEF FlowPhase, Stopping, Opened, Paired
  <2>4. bracket[g] \in {"open", "resuming"} /\ target[g] # None => (Yielded(target[g], g))'
    BY <2>1 DEF FlowPhase, Yielded, Bare, Opened, Paired
  <2>5. (InProgress(g) => Active \subseteq {target[g]})'
    BY <2>1 DEF FlowPhase, InProgress, Active
  <2> QED
    BY <2>1, <2>2, <2>3, <2>4, <2>5 DEF FlowPhase
<1>3. DriversKnown' /\ TimersKnown'
  BY DEF SerialInv, DriversKnown, TimersKnown, manager, world, stops
<1> QED
  BY <1>1, <1>2, <1>3 DEF SerialInv

(* Spawning, cancelling, and a body that ends when the bracket was left.   *)
LEMMA SerialUnseen ==
  ASSUME IInv, SerialInv, NEW f \in Flow,
         \/ Spawn(f) \/ CancelFlow(f)
         \/ (BodyReturns(f) \/ BodyThrows(f)) /\ bracket[f] # "open",
         OneHandler'
  PROVE  SerialInv'
<1>1. UNCHANGED <<manager, world, stops, bracket, target, timedOut, held>>
  BY DEF Spawn, CancelFlow, BodyReturns, BodyThrows, FlowIsOver, world
<1>2. \A g \in Flow : /\ InFlight(g)' => InFlight(g)
                      /\ bracket[g] = "open" /\ InFlight(g) => InFlight(g)'
  BY DEF Spawn, CancelFlow, BodyReturns, BodyThrows, FlowIsOver, InFlight, IInv, TypeOK
<1> QED
  BY <1>1, <1>2, UnseenStays

(* The body ends, or the watchdog fires, in an open bracket.               *)
LEMMA SerialBracketEnds ==
  ASSUME IInv, SerialInv, NEW f \in Flow,
         BodyReturns(f) \/ BodyThrows(f) \/ WatchdogFires(f), bracket[f] = "open",
         OneHandler'
  PROVE  SerialInv'
<1>1. /\ InProgress(f) /\ FlowPhase(f) /\ OneHandler /\ TypeOK /\ DriversKnown
      /\ TimersKnown /\ BeginResume(f)
      /\ UNCHANGED <<manager, polling, records, stops, target>>
  BY DEF InProgress, SerialInv, IInv, BodyReturns, BodyThrows, WatchdogFires, FlowIsOver
<1>2. ~ (InFlight(f)' /\ ~ timedOut'[f])
  BY DEF BodyReturns, BodyThrows, WatchdogFires, FlowIsOver, InFlight, IInv, TypeOK
<1>3. PICK t : target[f] = t
  OBVIOUS
<1>4. t \in Session \cup {None}
  BY <1>1, <1>3 DEF TypeOK
<1>5. target'[f] = t
  BY <1>1, <1>3
<1>6. CASE t = None
  <2>1. bracket' = [bracket EXCEPT ![f] = "over"] /\ UNCHANGED alive
    BY <1>1, <1>3, <1>6, FlowAssumption DEF BeginResume, TypeOK
  <2>2. FlowPhase(f)'
    BY <1>1, <1>2, <2>1 DEF FlowPhase, InProgress, TypeOK
  <2>3. (\A x \in Session : SessionPhase(x)') /\ (\A g \in Flow : FlowPhase(g)')
    BY <1>1, <1>3, <1>5, <1>6, <2>2, FlowAssumption, FlowIsAlone, FlowStepKeepsPhases
       DEF FlowActs, FlowStep
  <2>4. \A g \in Flow : bracket'[g] = "resuming" <=> bracket[g] = "resuming"
    BY <1>1, <2>1 DEF TypeOK
  <2>5. DriversKnown' /\ TimersKnown'
    BY <1>1, <2>1, <2>4, DriversStay, TimersStay DEF manager, stops
  <2> QED
    BY <2>3, <2>5 DEF SerialInv
<1>7. CASE t \in Session
  <2>1. status[t] = "recording" /\ Yielded(t, f) /\ SessionPhase(t)
    BY <1>1, <1>3, <1>7, FlowAssumption DEF FlowPhase, SerialInv
  <2>2. bracket' = [bracket EXCEPT ![f] = "resuming"] /\ alive' = alive \cup {f}
    BY <1>1, <1>3, <2>1 DEF BeginResume, Yielded
  <2>3. bracket'[f] = "resuming"
    BY <1>1, <2>2 DEF TypeOK
  <2>4. (Yielded(t, f))'
    BY <1>1, <2>1 DEF Yielded, Bare, Opened, Paired, manager
  <2>5. FlowPhase(f)'
    BY <1>1, <1>2, <1>3, <1>5, <2>1, <2>3, <2>4 DEF FlowPhase, Active, manager
  <2>6. AtWork(t)'
    BY <1>5, <2>3 DEF AtWork, InProgress
  <2>7. SessionPhase(t)'
    BY <1>1, <1>7, <2>1, <2>6, OnlyFlowing, BracketedPhase
  <2>8. (\A x \in Session : SessionPhase(x)') /\ (\A g \in Flow : FlowPhase(g)')
    BY <1>1, <1>3, <1>5, <2>5, <2>7, FlowIsAlone, FlowStepKeepsPhases
       DEF FlowActs, FlowStep
  <2>9. \A g \in Flow : bracket'[g] = "resuming" <=> g = f \/ bracket[g] = "resuming"
    BY <1>1, <2>2 DEF TypeOK
  <2>10. DriversKnown' /\ TimersKnown'
    BY <1>1, <2>2, <2>9, TimersStay DEF DriversKnown, manager, stops
  <2> QED
    BY <2>8, <2>10 DEF SerialInv
<1> QED
  BY <1>4, <1>6, <1>7

(* The start marker, then the end marker and the execution.                *)
LEMMA ClosedIsPaired ==
  ASSUME NEW r \in Seq(Marker), NEW e \in Seq(Exec), NEW f \in Flow, Opened(r, e, f),
         NEW x \in Exec, x.flow = f
  PROVE  Paired(Append(r, Boundary("flow_end", f)), Append(e, x))
<1>1. PICK q \in Seq(Marker) :
        Paired(q, e) /\ r = Append(q, Boundary("flow_start", f))
  BY DEF Opened
<1> DEFINE b == Boundary("flow_start", f)
           d == Boundary("flow_end", f)
           w == Append(r, d)
           n == Len(e)
<1>2. b \in Marker /\ d \in Marker /\ n \in Nat
  BY DEF Boundary, Marker
<1>3. Len(q) = 2 * n
  BY <1>1 DEF Paired
<1>4. Len(r) = 2 * n + 1 /\ r[2 * n + 1] = b
  BY <1>1, <1>2, <1>3
<1>5. Len(w) = 2 * n + 2 /\ w[2 * n + 2] = d /\ w[2 * n + 1] = b
  BY <1>2, <1>4
<1>6. Len(Append(e, x)) = n + 1 /\ Append(e, x)[n + 1] = x
  BY <1>2
<1>7. \A i \in 1 .. n :
        /\ q[2 * i - 1] = Boundary("flow_start", e[i].flow)
        /\ q[2 * i] = Boundary("flow_end", e[i].flow)
  BY <1>1 DEF Paired
<1>8. \A j \in 1 .. 2 * n : w[j] = q[j]
  BY <1>1, <1>2, <1>3, <1>4
<1>9. \A i \in 1 .. n : Append(e, x)[i] = e[i]
  BY <1>2
<1> HIDE DEF b, d, w, n
<1>10. ASSUME NEW i \in 1 .. (n + 1)
       PROVE  /\ w[2 * i - 1] = Boundary("flow_start", Append(e, x)[i].flow)
              /\ w[2 * i] = Boundary("flow_end", Append(e, x)[i].flow)
  <2>1. CASE i = n + 1
    <3>1. 2 * i - 1 = 2 * n + 1 /\ 2 * i = 2 * n + 2
      BY <1>2, <2>1
    <3> QED
      BY <1>5, <1>6, <2>1, <3>1 DEF b, d
  <2>2. CASE i \in 1 .. n
    <3>1. 2 * i - 1 \in 1 .. 2 * n /\ 2 * i \in 1 .. 2 * n
      BY <1>2, <2>2
    <3>2. w[2 * i - 1] = q[2 * i - 1] /\ w[2 * i] = q[2 * i]
      BY <1>8, <3>1
    <3>3. Append(e, x)[i] = e[i]
      BY <1>9, <2>2
    <3>4. /\ q[2 * i - 1] = Boundary("flow_start", e[i].flow)
          /\ q[2 * i] = Boundary("flow_end", e[i].flow)
      BY <1>7, <2>2
    <3> QED
      BY <3>2, <3>3, <3>4
  <2>3. i = n + 1 \/ i \in 1 .. n
    BY <1>2
  <2> QED
    BY <2>1, <2>2, <2>3
<1>11. Len(w) = 2 * Len(Append(e, x))
  BY <1>2, <1>5, <1>6
<1> QED
  BY <1>6, <1>10, <1>11 DEF Paired, w, d

LEMMA SerialResumed ==
  ASSUME IInv, SerialInv, NEW f \in Flow, Resumed(f), OneHandler'
  PROVE  SerialInv'
<1>0. PICK s \in Session : target[f] = s
  BY DEF Resumed, IInv, FlowInv
<1>1. /\ bracket[f] = "resuming" /\ InProgress(f) /\ FlowPhase(f)
      /\ OneHandler /\ TypeOK /\ SessionPhase(s) /\ DriversKnown /\ TimersKnown
  BY DEF Resumed, InProgress, SerialInv, IInv
<1>2. f \in Driver /\ f # None /\ s # None
  BY FlowAssumption DEF Driver
<1>3. status[s] = "recording" /\ Yielded(s, f)
  BY <1>0, <1>1, <1>2 DEF FlowPhase
<1> DEFINE new == Append(pausedRecords[s], Boundary("flow_end", f))
           exec == [flow |-> f, cancelled |-> cancelled[f]]
<1>4. /\ bracket' = [bracket EXCEPT ![f] = "over"]
      /\ active' = [active EXCEPT ![s] = f]
      /\ poller' = [poller EXCEPT ![s] = f]
      /\ polling' = polling \cup {f}
      /\ records' = [records EXCEPT ![f] = new]
      /\ pausedRecords' = [pausedRecords EXCEPT ![s] = <<>>]
      /\ flowExecs' = [flowExecs EXCEPT ![s] = Append(@, exec)]
      /\ paused' = paused \ {s}
      /\ UNCHANGED <<status, alive, stops, body, target, timedOut>>
  BY <1>0 DEF Resumed, Seeded
<1>5. /\ bracket'[f] = "over" /\ target'[f] = s /\ active'[s] = f /\ poller'[s] = f
      /\ records'[f] = new /\ flowExecs'[s] = Append(flowExecs[s], exec)
      /\ pausedRecords'[s] = <<>> /\ s \notin paused'
  BY <1>0, <1>1, <1>2, <1>4 DEF TypeOK
<1>6. Paired(new, Append(flowExecs[s], exec))
  <2>1. pausedRecords[s] \in Seq(Marker) /\ flowExecs[s] \in Seq(Exec) /\ exec \in Exec
    BY <1>1 DEF TypeOK, Exec
  <2>2. Opened(pausedRecords[s], flowExecs[s], f)
    BY <1>3 DEF Yielded
  <2> QED
    BY <2>1, <2>2, ClosedIsPaired
<1> HIDE DEF new, exec
<1>7. Live(s)'
  BY <1>2, <1>5, <1>6 DEF Live, Unpaused, Paired
<1>8. FlowPhase(f)'
  BY <1>1, <1>4, <1>5 DEF FlowPhase, InProgress, InFlight
<1>9. SessionPhase(s)'
  BY <1>1, <1>3, <1>4, <1>7, OnlyFlowing, BracketedPhase DEF AtRest
<1>10. (\A x \in Session : SessionPhase(x)') /\ (\A g \in Flow : FlowPhase(g)')
  BY <1>0, <1>1, <1>5, <1>8, <1>9, FlowIsAlone, FlowStepKeepsPhases DEF FlowActs, FlowStep
<1>11. active[s] = None /\ poller[s] = None
  BY <1>3 DEF Yielded, Bare
<1>12. \A x \in Session : active'[x] = IF x = s THEN f ELSE active[x]
  BY <1>1, <1>4 DEF TypeOK
<1>13. \A g \in Flow : bracket'[g] = "resuming" <=> g # f /\ bracket[g] = "resuming"
  BY <1>1, <1>4 DEF TypeOK
<1>14. UNCHANGED <<opening, alive>>
  BY <1>4 DEF stops
<1>15. f \in alive
  BY <1>1 DEF IInv, FlowInv
<1>16. DriversKnown'
  <2> SUFFICES ASSUME NEW d \in Driver
               PROVE  d \in alive <=> \/ \E x \in Session : active'[x] = d
                                      \/ d \in opening
                                      \/ d \in Flow /\ bracket'[d] = "resuming"
    BY <1>14 DEF DriversKnown
  <2>1. d # None
    BY FlowAssumption DEF Driver
  <2>2. CASE d = f
    BY <1>12, <1>15, <2>2
  <2>3. CASE d # f
    <3>1. (\E x \in Session : active'[x] = d) <=> (\E x \in Session : active[x] = d)
      BY <1>11, <1>12, <2>1, <2>3
    <3> QED
      BY <1>1, <1>13, <2>3, <3>1 DEF DriversKnown
  <2> QED
    BY <2>2, <2>3
<1>17. TimersKnown'
  BY <1>1, <1>2, <1>4, <1>11, TimerStarted
<1> QED
  BY <1>10, <1>16, <1>17 DEF SerialInv

LEMMA SerialResumeFails ==
  ASSUME IInv, SerialInv, NEW f \in Flow, ResumeFails(f), OneHandler'
  PROVE  SerialInv'
<1>0. PICK s \in Session : target[f] = s
  BY DEF ResumeFails, IInv, FlowInv
<1>1. /\ bracket[f] = "resuming" /\ InProgress(f) /\ FlowPhase(f)
      /\ OneHandler /\ TypeOK /\ SessionPhase(s) /\ DriversKnown /\ TimersKnown
  BY DEF ResumeFails, InProgress, SerialInv, IInv
<1>2. status[s] = "recording" /\ Yielded(s, f)
  BY <1>0, <1>1, FlowAssumption DEF FlowPhase
<1>3. /\ bracket' = [bracket EXCEPT ![f] = "over"] /\ alive' = alive \ {f}
      /\ status' = AbortedStatus(s) /\ paused' = paused \ {s}
      /\ pausedRecords' = [pausedRecords EXCEPT ![s] = <<>>]
      /\ UNCHANGED <<active, poller, flowExecs, polling, stops, body, target, timedOut>>
  BY <1>0 DEF ResumeFails
<1>4. bracket'[f] = "over" /\ target'[f] = s /\ status'[s] = "aborted"
  BY <1>0, <1>1, <1>2, <1>3 DEF AbortedStatus, TypeOK
<1>5. Bare(s)' /\ Unpaused(s)'
  BY <1>1, <1>2, <1>3 DEF Bare, Unpaused, Yielded, TypeOK
<1>6. FlowPhase(f)'
  BY <1>1, <1>3, <1>4 DEF FlowPhase, InProgress, InFlight
<1>7. SessionPhase(s)'
  BY <1>1, <1>3, <1>4, <1>5, OnlyFlowing, BracketedPhase DEF AtRest, Terminal
<1>8. (\A x \in Session : SessionPhase(x)') /\ (\A g \in Flow : FlowPhase(g)')
  BY <1>0, <1>1, <1>4, <1>6, <1>7, FlowIsAlone, FlowStepKeepsPhases DEF FlowActs, FlowStep
<1>9. \A x \in Session : active[x] # f
  <2> SUFFICES ASSUME NEW x \in Session, active[x] = f
               PROVE  FALSE
    OBVIOUS
  <2>1. Holds(active[x], x) /\ active[x] # None
    BY FlowAssumption DEF IInv, SessionInv
  <2> QED
    BY <1>1, <2>1 DEF Holds, Registered
<1>10. \A g \in Flow : bracket'[g] = "resuming" <=> g # f /\ bracket[g] = "resuming"
  BY <1>1, <1>3 DEF TypeOK
<1>11. f \notin opening
  BY <1>1, FlowAssumption DEF TypeOK
<1>12. DriversKnown'
  BY <1>1, <1>3, <1>9, <1>10, <1>11 DEF DriversKnown, stops
<1>13. TimersKnown'
  BY <1>1, <1>3, TimersStay
<1> QED
  BY <1>8, <1>12, <1>13 DEF SerialInv

-----------------------------------------------------------------------------
LEMMA InitSerial == Init => SerialInv
<1> SUFFICES ASSUME Init
             PROVE  SerialInv
  OBVIOUS
<1>1. OneHandler
  <2>1. Handlers = {}
    BY DEF Init, Handlers, InProgress
  <2> QED
    BY <2>1 DEF OneHandler
<1>2. DriversKnown /\ TimersKnown
  BY FlowAssumption DEF Init, DriversKnown, TimersKnown, Driver
<1>3. \A s \in Session : SessionPhase(s)
  BY NothingIsPaired, FlowAssumption DEF Init, SessionPhase, AtRest, New, Bare, Unpaused, NotWoven,
     Driver
<1>4. \A f \in Flow : FlowPhase(f)
  BY DEF Init, FlowPhase, InFlight, InProgress
<1> QED
  BY <1>1, <1>2, <1>3, <1>4 DEF SerialInv

LEMMA NextSerial ==
  ASSUME IInv, SerialInv, Overlap = {}, Next
  PROVE  SerialInv'
<1>1. OneHandler'
  BY NextOneHandler DEF IInv, SerialInv
<1>2. ASSUME NEW s \in Session, SessionStep(s)
      PROVE  SerialInv'
  BY <1>1, <1>2, SerialRecordingStarted, SerialRecordingFails, SerialWeave,
     SerialCompileEnds, SerialCompileDriverStopped, SerialForceDriverStopped,
     SerialForceMarks DEF SessionStep
<1>3. ASSUME NEW f \in Flow, FlowStep(f) \/ WatchdogFires(f)
      PROVE  SerialInv'
  <2>1. WatchdogFires(f) => bracket[f] = "open"
    BY DEF WatchdogFires
  <2> QED
    BY <1>1, <1>3, <2>1, SerialPauseBegins, SerialPauseRefused, SerialPauseEnds, SerialUnseen,
       SerialBracketEnds, SerialResumed, SerialResumeFails DEF FlowStep
<1>4. ASSUME ClientStep
      PROVE  SerialInv'
  BY <1>1, <1>4, SerialStartRecording, SerialStopAndCompile, SerialForceCleanup,
     SerialRunFlow, SerialUnseen DEF ClientStep
<1> QED
  BY <1>2, <1>3, <1>4 DEF Next

LEMMA StutterSerial ==
  ASSUME SerialInv, UNCHANGED vars
  PROVE  SerialInv'
<1>1. OneHandler'
  BY DEF SerialInv, OneHandler, Handlers, InProgress, vars, stops, flows
<1>2. \A g \in Flow : InFlight(g)' <=> InFlight(g)
  BY DEF InFlight, vars, flows
<1> QED
  BY <1>1, <1>2, UnseenStays DEF vars, flows

(* A client that waits for each answer: the sessions and the flows are in  *)
(* the phases the handlers were written for.                               *)
THEOREM SerialInvariance == Overlap = {} => (Spec => []SerialInv)
<1> SUFFICES ASSUME Overlap = {}
             PROVE  Spec => []SerialInv
  OBVIOUS
<1>1. IInv /\ SerialInv /\ [Next]_vars => SerialInv'
  BY NextSerial, StutterSerial
<1> QED
  BY InitSerial, Invariance, <1>1, PTL DEF Spec

(* A flow in its bracket has the port alone: the only driver that could be *)
(* up is the one of the session it paused.                                 *)
THEOREM PortIsExclusive == Overlap = {} => (Spec => []PortExclusive)
<1> SUFFICES ASSUME Overlap = {}
             PROVE  Spec => []PortExclusive
  OBVIOUS
<1>1. ASSUME IInv, SerialInv
      PROVE  PortExclusive
  <2> SUFFICES ASSUME NEW f \in Flow, InFlight(f), ~ timedOut[f], NEW d \in alive
               PROVE  FALSE
    BY DEF PortExclusive
  <2>1. FlowPhase(f) /\ bracket[f] = "open" /\ InProgress(f)
    BY <1>1 DEF SerialInv, FlowPhase, InProgress
  <2>2. opening = {} /\ \A g \in Flow : g # f => ~ InProgress(g)
    BY <1>1, <2>1, OnlyFlowing DEF IInv, SerialInv
  <2>3. d \in Driver
    BY <1>1 DEF IInv, TypeOK
  <2>4. PICK s \in Session : active[s] = d
    BY <1>1, <2>1, <2>2, <2>3 DEF SerialInv, DriversKnown, InProgress
  <2>5. s \in Active /\ s = target[f]
    BY <2>1, <2>3, <2>4, FlowAssumption DEF FlowPhase, Active, Driver
  <2> QED
    BY <2>1, <2>5, FlowAssumption DEF FlowPhase, Yielded, Bare, Active
<1> QED
  BY <1>1, Invariance, SerialInvariance, PTL

(* Pause and resume lose no driver and no timer.                           *)
THEOREM NoLeak == Overlap = {} => (Spec => []NothingLeaks)
<1> SUFFICES ASSUME Overlap = {}
             PROVE  Spec => []NothingLeaks
  OBVIOUS
<1>1. ASSUME IInv, SerialInv
      PROVE  NothingLeaks
  <2>1. TypeOK /\ DriversKnown /\ TimersKnown
    BY <1>1 DEF IInv, SerialInv
  <2>2. alive = {active[s] : s \in Active} \cup opening
                  \cup {f \in Flow : bracket[f] = "resuming"}
    BY <2>1, FlowAssumption DEF TypeOK, DriversKnown, Active, Driver
  <2>3. polling = {poller[s] : s \in Session} \ {None}
    <3>1. \A s \in Session : poller[s] \in Driver \cup {None}
      BY <2>1 DEF TypeOK
    <3>2. \A d \in {poller[s] : s \in Session} \ {None} : d \in polling
      BY <2>1, <3>1 DEF TimersKnown
    <3>3. \A d \in polling : d \in {poller[s] : s \in Session} \ {None}
      <4> SUFFICES ASSUME NEW d \in polling
                   PROVE  d \in {poller[s] : s \in Session} \ {None}
        OBVIOUS
      <4>1. d \in Driver /\ d # None
        BY <2>1, FlowAssumption DEF TypeOK, Driver
      <4>2. PICK s \in Session : poller[s] = d
        BY <2>1, <4>1 DEF TimersKnown
      <4> QED
        BY <4>1, <4>2
    <3> QED
      BY <3>2, <3>3
  <2> QED
    BY <2>2, <2>3 DEF NothingLeaks
<1> QED
  BY <1>1, Invariance, SerialInvariance, PTL

(* stop_and_compile_test and force_cleanup_session leave nothing behind.   *)
THEOREM TerminalQuiet == Overlap = {} => (Spec => []TerminalIsQuiet)
<1> SUFFICES ASSUME Overlap = {}
             PROVE  Spec => []TerminalIsQuiet
  OBVIOUS
<1>1. ASSUME IInv, SerialInv
      PROVE  TerminalIsQuiet
  <2> SUFFICES ASSUME NEW s \in Session, status[s] \in Terminal, ~ AtWork(s)
               PROVE  /\ active[s] = None /\ poller[s] = None /\ s \notin paused
                      /\ DriversOf(s) \cap alive = {}
    BY DEF TerminalIsQuiet
  <2>1. SessionPhase(s) /\ TypeOK /\ DriversKnown
    BY <1>1 DEF SerialInv, IInv
  <2>2. active[s] = None /\ poller[s] = None /\ s \notin paused
    BY <2>1 DEF SessionPhase, AtRest, Terminal, Bare, Unpaused
  <2>3. ASSUME NEW d \in DriversOf(s), d \in alive
        PROVE  FALSE
    <3>1. d \in Driver /\ Owned(d, s)
      BY <2>3 DEF DriversOf, Driver, Owned
    <3>2. d \notin opening
      BY <2>1, <3>1, FlowAssumption DEF AtWork, Owned, TypeOK
    <3>3. ~ (d \in Flow /\ bracket[d] = "resuming")
      BY <3>1, FlowAssumption DEF AtWork, Owned, InProgress
    <3>4. PICK x \in Session : active[x] = d
      BY <2>1, <2>3, <3>1, <3>2, <3>3 DEF DriversKnown
    <3>5. x # s /\ d # None
      BY <2>2, <3>1, <3>4, FlowAssumption DEF Driver
    <3>6. Owned(d, x)
      BY <1>1, <3>4, <3>5 DEF IInv, SessionInv, Holds
    <3> QED
      BY <3>1, <3>5, <3>6, FlowAssumption DEF Owned
  <2> QED
    BY <2>2, <2>3
<1> QED
  BY <1>1, Invariance, SerialInvariance, PTL

(* The weaver gets both markers of every flow it resumed from.             *)
THEOREM WeaverGetsAll == Overlap = {} => (Spec => []WovenComplete)
<1> SUFFICES ASSUME Overlap = {}
             PROVE  Spec => []WovenComplete
  OBVIOUS
<1>1. SerialInv => WovenComplete
  BY DEF SerialInv, SessionPhase, Paired, WovenComplete
<1> QED
  BY <1>1, SerialInvariance, PTL

-----------------------------------------------------------------------------
(* The serial sessions implement SessionLease.  PortPhase and PortUsers    *)
(* are what Lease substitutes for its variables; HasDriver says the same   *)
(* of a session without naming the drivers that are up.                    *)

PortPhase ==
  [s \in Session |->
     IF status[s] = "none" THEN "new"
     ELSE IF DriversOf(s) \cap alive # {} THEN "holds"
     ELSE IF s \in paused THEN "yielded"
     ELSE "closed"]

PortUsers == {f \in Flow : InFlight(f) /\ ~ timedOut[f]}

HasDriver(s) ==
  \/ active[s] # None
  \/ s \in opening
  \/ \E f \in Flow : target[f] = s /\ bracket[f] = "resuming"

PhaseOf(s) ==
  IF status[s] = "none" THEN "new"
  ELSE IF HasDriver(s) THEN "holds"
  ELSE IF s \in paused THEN "yielded"
  ELSE "closed"

LEMMA DriverOfSession ==
  ASSUME IInv, SerialInv, NEW s \in Session
  PROVE  DriversOf(s) \cap alive # {} <=> HasDriver(s)
<1>1. TypeOK /\ SessionInv(s) /\ DriversKnown
  BY DEF IInv, SerialInv
<1>2. ASSUME NEW d \in DriversOf(s), d \in alive
      PROVE  HasDriver(s)
  <2>1. d \in Driver /\ Owned(d, s) /\ d # None
    BY <1>2, FlowAssumption DEF DriversOf, Driver, Owned
  <2>2. CASE \E x \in Session : active[x] = d
    <3>1. PICK x \in Session : active[x] = d
      BY <2>2
    <3>2. Owned(d, x)
      BY <2>1, <3>1 DEF IInv, SessionInv, Holds
    <3>3. x = s
      BY <2>1, <3>2, FlowAssumption DEF Owned
    <3> QED
      BY <2>1, <3>1, <3>3 DEF HasDriver
  <2>3. CASE d \in opening \/ (d \in Flow /\ bracket[d] = "resuming")
    BY <1>1, <2>1, <2>3, FlowAssumption DEF HasDriver, Owned, TypeOK
  <2> QED
    BY <1>1, <1>2, <2>1, <2>2, <2>3 DEF DriversKnown
<1>3. ASSUME HasDriver(s)
      PROVE  \E d \in DriversOf(s) : d \in alive
  <2>1. CASE active[s] # None
    BY <1>1, <2>1 DEF SessionInv, Holds, Owned, DriversOf
  <2>2. CASE s \in opening
    BY <1>1, <2>2 DEF SessionInv, DriversOf
  <2>3. CASE \E f \in Flow : target[f] = s /\ bracket[f] = "resuming"
    BY <2>3 DEF IInv, FlowInv, DriversOf
  <2> QED
    BY <1>3, <2>1, <2>2, <2>3 DEF HasDriver
<1> QED
  BY <1>2, <1>3

LEMMA PortIs ==
  IInv /\ SerialInv =>
    /\ PortPhase = [s \in Session |-> PhaseOf(s)]
    /\ PortUsers = {f \in Flow : bracket[f] = "open"}
<1> SUFFICES ASSUME IInv, SerialInv
             PROVE  /\ PortPhase = [s \in Session |-> PhaseOf(s)]
                    /\ PortUsers = {f \in Flow : bracket[f] = "open"}
  OBVIOUS
<1>1. PortPhase = [s \in Session |-> PhaseOf(s)]
  BY DriverOfSession DEF PortPhase, PhaseOf
<1>2. \A f \in Flow : FlowPhase(f)
  BY DEF SerialInv
<1>3. PortUsers = {f \in Flow : bracket[f] = "open"}
  BY <1>2 DEF PortUsers, FlowPhase
<1> QED
  BY <1>1, <1>3

(* PortIs, of the next state.                                              *)
PortIsNext ==
  /\ PortPhase = [s \in Session |-> PhaseOf(s)]
  /\ PortPhase' = [s \in Session |-> PhaseOf(s)']
  /\ PortUsers = {f \in Flow : bracket[f] = "open"}
  /\ PortUsers' = {f \in Flow : bracket'[f] = "open"}

(* One session moves, or none.                                             *)
LEMMA PortMoves ==
  ASSUME PortIsNext, NEW s \in Session,
         \A x \in Session : x # s => PhaseOf(x)' = PhaseOf(x)
  PROVE  PortPhase' = [PortPhase EXCEPT ![s] = PhaseOf(s)']
BY DEF PortIsNext

LEMMA PortStays ==
  ASSUME PortIsNext, \A x \in Session : PhaseOf(x)' = PhaseOf(x)
  PROVE  PortPhase' = PortPhase
BY DEF PortIsNext

LEMMA SamePhase ==
  ASSUME NEW x \in Session, status'[x] = "none" <=> status[x] = "none",
         HasDriver(x)' <=> HasDriver(x), x \in paused' <=> x \in paused
  PROVE  PhaseOf(x)' = PhaseOf(x)
BY DEF PhaseOf

(* The phase of a session that a handler of another session leaves alone.  *)
LEMMA LeaseBesideSession ==
  ASSUME TypeOK, NEW s \in Session, SessionActs(s), NEW x \in Session, x # s
  PROVE  PhaseOf(x)' = PhaseOf(x)
<1> USE DEF SessionActs, SessionStep
<1>1. status'[x] = status[x]
  BY DEF StartRecording, StopAndCompile, ForceCleanup, RecordingStarted,
         RecordingFails, Weave, CompileEnds, CompileDriverStopped, ForceDriverStopped,
         ForceMarks, AbortedStatus, manager, TypeOK
<1>2. active'[x] = active[x]
  BY DEF StartRecording, StopAndCompile, ForceCleanup, RecordingStarted,
         RecordingFails, Weave, CompileEnds, CompileDriverStopped, ForceDriverStopped,
         ForceMarks, DriverStopped, manager, TypeOK
<1>3. x \in paused' <=> x \in paused
  BY DEF StartRecording, StopAndCompile, ForceCleanup, RecordingStarted,
         RecordingFails, Weave, CompileEnds, CompileDriverStopped, ForceDriverStopped,
         ForceMarks, ForgetPause, manager, TypeOK
<1>4. x \in opening' <=> x \in opening
  BY DEF StartRecording, StopAndCompile, ForceCleanup, RecordingStarted,
         RecordingFails, Weave, CompileEnds, CompileDriverStopped, ForceDriverStopped,
         ForceMarks, TypeOK
<1>5. UNCHANGED <<bracket, target>>
  BY DEF StartRecording, StopAndCompile, ForceCleanup, RecordingStarted,
         RecordingFails, Weave, CompileEnds, CompileDriverStopped, ForceDriverStopped,
         ForceMarks, flows
<1>6. HasDriver(x)' <=> HasDriver(x)
  BY <1>2, <1>4, <1>5 DEF HasDriver
<1> QED
  BY <1>1, <1>3, <1>6, SamePhase

LEMMA LeaseOfSession ==
  ASSUME IInv, SerialInv, Overlap = {}, PortIsNext, NEW s \in Session, SessionActs(s)
  PROVE  Lease!LeaseNext \/ (PortPhase' = PortPhase /\ PortUsers' = PortUsers)
<1>1. /\ TypeOK /\ SessionPhase(s) /\ OneHandler
      /\ \A x \in Session : x # s => PhaseOf(x)' = PhaseOf(x)
  BY LeaseBesideSession DEF IInv, SerialInv
<1>2. UNCHANGED <<bracket, target>>
  BY DEF SessionActs, SessionStep, StartRecording, StopAndCompile, ForceCleanup,
         RecordingStarted, RecordingFails, Weave, CompileEnds, CompileDriverStopped,
         ForceDriverStopped, ForceMarks, flows
<1>3. PortUsers' = PortUsers
  BY <1>2 DEF PortIsNext
<1>4. PortPhase[s] = PhaseOf(s)
  BY DEF PortIsNext
<1>5. CASE StartRecording(s)
  <2>1. Quiet
    BY <1>5 DEF StartRecording, MayBegin
  <2>2. PortUsers = {}
    BY <2>1 DEF Quiet, InProgress, PortIsNext
  <2>3. PhaseOf(s) = "new" /\ PhaseOf(s)' = "holds"
    BY <1>1, <1>5 DEF StartRecording, PhaseOf, HasDriver, TypeOK
  <2>4. PortPhase' = [PortPhase EXCEPT ![s] = "holds"]
    BY <1>1, <2>3, PortMoves
  <2>5. Lease!Open(s)
    BY <1>3, <1>4, <2>2, <2>3, <2>4 DEF Lease!Open, Lease!Moves, PortPhase, PortUsers
  <2> QED
    BY <2>5 DEF Lease!LeaseNext
<1>6. ASSUME PhaseOf(s) = "holds", PhaseOf(s)' = "closed"
      PROVE  Lease!LeaseNext
  <2>1. PortPhase' = [PortPhase EXCEPT ![s] = "closed"]
    BY <1>1, <1>6, PortMoves
  <2>2. Lease!Close(s)
    BY <1>3, <1>4, <1>6, <2>1 DEF Lease!Close, Lease!Moves, PortPhase, PortUsers
  <2> QED
    BY <2>2 DEF Lease!LeaseNext
<1>7. CASE RecordingFails(s)
  <2>1. s \in opening /\ New(s) /\ status[s] = "recording"
    BY <1>1, <1>7 DEF RecordingFails, SessionPhase
  <2>2. \A f \in Flow : bracket[f] # "resuming"
    BY <1>1, <2>1, OnlyOpening DEF InProgress
  <2>3. status'[s] # "none" /\ ~ HasDriver(s)' /\ s \notin paused'
    BY <1>1, <1>2, <1>7, <2>1, <2>2, AbortedType
       DEF RecordingFails, HasDriver, New, Bare, Unpaused
  <2>4. PhaseOf(s) = "holds" /\ PhaseOf(s)' = "closed"
    BY <2>1, <2>3 DEF PhaseOf, HasDriver
  <2> QED
    BY <1>6, <2>4
<1>8. CASE CompileDriverStopped(s)
  <2>1. /\ compile[s] = "stopping" /\ status[s] = "done"
        /\ Stopping(s, <<"compile", s>>)
    BY <1>1, <1>8 DEF CompileDriverStopped, SessionPhase
  <2>2. opening = {} /\ \A f \in Flow : bracket[f] # "resuming"
    BY <1>1, <2>1, OnlyCompiling DEF InProgress
  <2>3. status'[s] # "none" /\ ~ HasDriver(s)' /\ s \notin paused'
    BY <1>1, <1>2, <1>8, <2>1, <2>2
       DEF CompileDriverStopped, DriverStopped, HasDriver, Stopping, TypeOK
  <2>4. PhaseOf(s) = "holds" /\ PhaseOf(s)' = "closed"
    BY <2>1, <2>3 DEF PhaseOf, HasDriver, Stopping
  <2> QED
    BY <1>6, <2>4
<1>9. CASE ForceDriverStopped(s)
  <2>1. /\ force[s] = "stopping" /\ status[s] = "recording"
        /\ Stopping(s, <<"force", s>>)
    BY <1>1, <1>9 DEF ForceDriverStopped, SessionPhase
  <2>2. opening = {} /\ \A f \in Flow : bracket[f] # "resuming"
    BY <1>1, <2>1, OnlyForcing DEF InProgress
  <2>3. status'[s] # "none" /\ ~ HasDriver(s)' /\ s \notin paused'
    BY <1>1, <1>2, <1>9, <2>1, <2>2
       DEF ForceDriverStopped, DriverStopped, ForgetPause, HasDriver, Stopping, TypeOK
  <2>4. PhaseOf(s) = "holds" /\ PhaseOf(s)' = "closed"
    BY <2>1, <2>3 DEF PhaseOf, HasDriver, Stopping
  <2> QED
    BY <1>6, <2>4
<1>10. CASE \/ RecordingStarted(s) \/ StopAndCompile(s) \/ Weave(s) \/ CompileEnds(s)
            \/ ForceCleanup(s) \/ ForceMarks(s)
  <2>1. status'[s] = "none" <=> status[s] = "none"
    BY <1>1, <1>10, AbortedType DEF RecordingStarted, StopAndCompile, Weave, CompileEnds,
       ForceCleanup, ForceMarks, manager, TypeOK
  <2>2. HasDriver(s)' <=> HasDriver(s)
    <3>1. CASE RecordingStarted(s)
      BY <1>1, <3>1, FlowAssumption DEF RecordingStarted, HasDriver, TypeOK
    <3>2. CASE ~ RecordingStarted(s)
      <4>1. UNCHANGED <<active, opening>>
        BY <1>10, <3>2 DEF StopAndCompile, Weave, CompileEnds, ForceCleanup, ForceMarks,
           manager
      <4> QED
        BY <1>2, <4>1 DEF HasDriver
    <3> QED
      BY <3>1, <3>2
  <2>3. s \in paused' <=> s \in paused
    <3>1. CASE ForceCleanup(s)
      <4>1. ~ AtWork(s)
        BY <3>1, QuietIsIdle DEF ForceCleanup, MayBegin
      <4>2. s \notin paused
        BY <1>1, <4>1 DEF SessionPhase, AtRest, New, Live, Unpaused
      <4> QED
        BY <3>1, <4>2 DEF ForceCleanup, ForgetPause
    <3>2. CASE ~ ForceCleanup(s)
      BY <1>10, <3>2 DEF RecordingStarted, StopAndCompile, Weave, CompileEnds, ForceMarks,
         manager
    <3> QED
      BY <3>1, <3>2
  <2>4. \A x \in Session : PhaseOf(x)' = PhaseOf(x)
    BY <1>1, <2>1, <2>2, <2>3, SamePhase
  <2> QED
    BY <1>3, <2>4, PortStays
<1> QED
  BY <1>5, <1>7, <1>8, <1>9, <1>10 DEF SessionActs, SessionStep

(* The phase of a session that the flow does not bracket.                  *)
LEMMA LeaseBesideFlow ==
  ASSUME IInv, NEW f \in Flow, FlowActs(f), NEW x \in Session, x # target[f]
  PROVE  PhaseOf(x)' = PhaseOf(x)
<1> USE DEF FlowActs, FlowStep
<1>1. TypeOK /\ FlowInv(f)
  BY DEF IInv
<1>2. status'[x] = status[x]
  BY <1>1 DEF WatchdogFires, RunFlow, CancelFlow, PauseBegins, PauseRefused, PauseEnds,
     Spawn, BodyReturns, BodyThrows, FlowIsOver, Resumed, ResumeFails, AbortedStatus,
     manager, TypeOK
<1>3. active'[x] = active[x]
  BY <1>1 DEF WatchdogFires, RunFlow, CancelFlow, PauseBegins, PauseRefused, PauseEnds,
     Spawn, BodyReturns, BodyThrows, FlowIsOver, Resumed, ResumeFails, DriverStopped,
     manager, TypeOK
<1>4. x \in paused' <=> x \in paused
  BY <1>1 DEF WatchdogFires, RunFlow, CancelFlow, PauseBegins, PauseRefused, PauseEnds,
     Spawn, BodyReturns, BodyThrows, FlowIsOver, Resumed, ResumeFails, manager, TypeOK
<1>5. UNCHANGED opening
  BY DEF WatchdogFires, RunFlow, CancelFlow, PauseBegins, PauseRefused, PauseEnds,
     Spawn, BodyReturns, BodyThrows, FlowIsOver, BeginResume, Resumed, ResumeFails, stops
<1>6. \A g \in Flow : g # f => target'[g] = target[g]
  BY <1>1 DEF WatchdogFires, RunFlow, RunUnbracketed, RunRefused, RunBracketed,
     CancelFlow, PauseBegins, PauseRefused, PauseEnds, Spawn, BodyReturns, BodyThrows,
     FlowIsOver, Resumed, ResumeFails, TypeOK
<1>7. \A g \in Flow : g # f => bracket'[g] = bracket[g]
  BY <1>1 DEF WatchdogFires, RunFlow, RunUnbracketed, RunRefused, RunBracketed,
     CancelFlow, PauseBegins, PauseRefused, PauseEnds, Spawn, BodyReturns, BodyThrows,
     FlowIsOver, BeginResume, Resumed, ResumeFails, TypeOK
<1>8. ~ (target'[f] = x /\ bracket'[f] = "resuming")
  <2>1. CASE RunFlow(f)
    BY <1>1, <2>1 DEF RunFlow, RunUnbracketed, RunRefused, RunBracketed, TypeOK
  <2>2. CASE ~ RunFlow(f)
    <3>1. UNCHANGED target
      BY <2>2 DEF WatchdogFires, CancelFlow, PauseBegins, PauseRefused, PauseEnds, Spawn,
         BodyReturns, BodyThrows, FlowIsOver, BeginResume, Resumed, ResumeFails
    <3> QED
      BY <3>1
  <2> QED
    BY <2>1, <2>2
<1>9. HasDriver(x)' <=> HasDriver(x)
  BY <1>3, <1>5, <1>6, <1>7, <1>8 DEF HasDriver
<1> QED
  BY <1>2, <1>4, <1>9, SamePhase

(* The drivers of the other sessions, while a flow is in progress.         *)
LEMMA FlowHolds ==
  ASSUME IInv, SerialInv, NEW f \in Flow, InProgress(f), NEW x \in Session
  PROVE  HasDriver(x) <=> \/ active[x] # None /\ x = target[f]
                          \/ bracket[f] = "resuming" /\ x = target[f]
<1>1. opening = {} /\ \A g \in Flow : g # f => bracket[g] # "resuming"
  BY OnlyFlowing DEF IInv, SerialInv, InProgress
<1>2. Active \subseteq {target[f]}
  BY DEF SerialInv, FlowPhase
<1> QED
  BY <1>1, <1>2 DEF HasDriver, Active

(* The flow begins: run_test and run_flow have the port.                   *)
LEMMA LeaseBegins ==
  ASSUME IInv, SerialInv, Overlap = {}, PortIsNext, NEW f \in Flow,
         (RunFlow(f) /\ bracket'[f] = "open") \/ PauseEnds(f)
  PROVE  Lease!Begin(f)
<1>1. TypeOK /\ FlowPhase(f) /\ OneHandler
  BY DEF IInv, SerialInv
<1>2. /\ \A g \in Flow : g # f => bracket[g] # "open" /\ bracket'[g] = bracket[g]
      /\ bracket[f] # "open" /\ bracket'[f] = "open"
  <2>1. CASE RunFlow(f) /\ bracket'[f] = "open"
    BY <1>1, <2>1 DEF RunFlow, RunUnbracketed, RunRefused, RunBracketed, MayBegin, Quiet,
       InProgress, TypeOK
  <2>2. CASE PauseEnds(f)
    <3>1. InProgress(f)
      BY <2>2 DEF PauseEnds, InProgress
    <3> QED
      BY <1>1, <2>2, <3>1, OnlyFlowing DEF PauseEnds, InProgress, TypeOK
  <2> QED
    BY <2>1, <2>2
<1>3. PortUsers = {} /\ PortUsers' = {f}
  BY <1>2 DEF PortIsNext
<1>4. CASE RunFlow(f)
  <2>1. Quiet /\ Active = {} /\ target[f] = None
    BY <1>1, <1>4, <1>2 DEF RunFlow, RunUnbracketed, RunRefused, RunBracketed, MayBegin,
       IInv, FlowInv, TypeOK
  <2>2. \A x \in Session : ~ HasDriver(x)
    BY <2>1 DEF HasDriver, Quiet, InProgress, Active
  <2>3. \A x \in Session : PortPhase[x] # "holds"
    BY <2>2 DEF PortIsNext, PhaseOf
  <2>4. PortPhase' = PortPhase
    BY <1>4, <2>1, LeaseBesideFlow, PortStays, FlowAssumption DEF FlowActs
  <2> QED
    BY <1>3, <2>3, <2>4 DEF Lease!Begin, Lease!Holders, PortPhase, PortUsers
<1>5. CASE PauseEnds(f)
  <2>1. PICK s \in Session : target[f] = s
    BY <1>5 DEF PauseEnds, IInv, FlowInv
  <2>2. /\ bracket[f] = "pausing" /\ InProgress(f) /\ status[s] = "recording"
        /\ active[s] # None
    BY <1>1, <1>5, <2>1 DEF PauseEnds, InProgress, FlowPhase, Stopping
  <2>3. \A x \in Session : HasDriver(x) <=> x = s
    BY <2>1, <2>2, FlowHolds
  <2>4. \A x \in Session : PortPhase[x] = "holds" <=> x = s
    BY <2>2, <2>3 DEF PortIsNext, PhaseOf
  <2>5. opening = {} /\ \A g \in Flow : bracket'[g] # "resuming"
    BY <1>1, <1>2, <2>2, OnlyFlowing DEF InProgress
  <2>6. active'[s] = None /\ s \in paused' /\ UNCHANGED <<status, opening>>
    BY <1>1, <1>5, <2>1 DEF PauseEnds, DriverStopped, stops, TypeOK
  <2>7. PhaseOf(s)' = "yielded"
    BY <2>2, <2>5, <2>6 DEF PhaseOf, HasDriver
  <2>8. \A x \in Session : x # s => PhaseOf(x)' = PhaseOf(x)
    BY <1>5, <2>1, LeaseBesideFlow DEF FlowActs, FlowStep
  <2>9. PortPhase' = [PortPhase EXCEPT ![s] = "yielded"]
    BY <2>7, <2>8, PortMoves
  <2>10. Lease!Holders = {s}
    BY <2>4 DEF Lease!Holders, PortPhase
  <2>11. Lease!Moves(s, "holds", "yielded")
    BY <2>4, <2>9 DEF Lease!Moves, PortPhase
  <2> QED
    BY <1>3, <2>10, <2>11 DEF Lease!Begin, PortUsers
<1> QED
  BY <1>4, <1>5

(* The flow is over: the session it paused starts a driver.                *)
LEMMA LeaseEnds ==
  ASSUME IInv, SerialInv, PortIsNext, NEW f \in Flow, bracket[f] = "open",
         BodyReturns(f) \/ BodyThrows(f) \/ WatchdogFires(f)
  PROVE  Lease!End(f)
<1>1. TypeOK /\ FlowPhase(f) /\ OneHandler /\ InProgress(f)
  BY DEF IInv, SerialInv, InProgress
<1>2. BeginResume(f) /\ UNCHANGED <<manager, stops, target>>
  BY DEF BodyReturns, BodyThrows, WatchdogFires, FlowIsOver
<1>3. \A g \in Flow : g # f => bracket'[g] = bracket[g] /\ bracket[g] # "open"
  <2>1. \A g \in Flow : g # f => ~ InProgress(g)
    BY <1>1, OnlyFlowing
  <2>2. \A g \in Flow : g # f => bracket'[g] = bracket[g]
    BY <1>1, <1>2 DEF BeginResume, TypeOK
  <2> QED
    BY <2>1, <2>2 DEF InProgress
<1>4. bracket'[f] # "open"
  BY <1>1, <1>2 DEF BeginResume, TypeOK
<1>5. f \in PortUsers /\ PortUsers' = PortUsers \ {f}
  BY <1>3, <1>4 DEF PortIsNext
<1>6. CASE target[f] \notin Session
  <2>1. \A x \in Session : x \notin paused
    BY <1>3, <1>6, <1>1, OnlyFlowing DEF IInv, PausedHasResumer, InProgress
  <2>2. \A x \in Session : PortPhase[x] # "yielded"
    BY <2>1 DEF PortIsNext, PhaseOf
  <2>3. PortPhase' = PortPhase
    BY <1>6, LeaseBesideFlow, PortStays DEF FlowActs, FlowStep
  <2> QED
    BY <1>5, <2>2, <2>3 DEF Lease!End, PortPhase, PortUsers
<1>7. CASE target[f] \in Session
  <2>1. PICK s \in Session : target[f] = s
    BY <1>7
  <2>2. status[s] = "recording" /\ Yielded(s, f)
    BY <1>1, <2>1, FlowAssumption DEF FlowPhase
  <2>3. ~ HasDriver(s)
    BY <1>1, <2>2, FlowHolds DEF Yielded, Bare
  <2>4. PhaseOf(s) = "yielded"
    BY <2>2, <2>3 DEF PhaseOf, Yielded
  <2>5. bracket'[f] = "resuming"
    BY <1>1, <1>2, <2>1, <2>2 DEF BeginResume, Yielded, TypeOK
  <2>6. PhaseOf(s)' = "holds"
    BY <1>2, <2>1, <2>2, <2>5 DEF PhaseOf, HasDriver, manager
  <2>7. \A x \in Session : x # s => PhaseOf(x)' = PhaseOf(x)
    BY <2>1, LeaseBesideFlow DEF FlowActs, FlowStep
  <2>8. PortPhase' = [PortPhase EXCEPT ![s] = "holds"]
    BY <2>6, <2>7, PortMoves
  <2>9. PortPhase[s] = "yielded"
    BY <2>4 DEF PortIsNext
  <2> QED
    BY <1>5, <2>8, <2>9 DEF Lease!End, Lease!Moves, PortPhase, PortUsers
<1> QED
  BY <1>6, <1>7

LEMMA LeaseOfFlow ==
  ASSUME IInv, SerialInv, Overlap = {}, PortIsNext, NEW f \in Flow, FlowActs(f)
  PROVE  Lease!LeaseNext \/ (PortPhase' = PortPhase /\ PortUsers' = PortUsers)
<1>1. TypeOK /\ FlowPhase(f) /\ FlowInv(f) /\ OneHandler
  BY DEF IInv, SerialInv
<1>2. CASE (RunFlow(f) /\ bracket'[f] = "open") \/ PauseEnds(f)
  BY <1>2, LeaseBegins DEF Lease!LeaseNext
<1>3. CASE bracket[f] = "open" /\ (BodyReturns(f) \/ BodyThrows(f) \/ WatchdogFires(f))
  BY <1>3, LeaseEnds DEF Lease!LeaseNext
<1>4. \A g \in Flow : g # f => bracket'[g] = bracket[g]
  BY <1>1 DEF FlowActs, FlowStep, WatchdogFires, RunFlow, RunUnbracketed, RunRefused,
     RunBracketed, CancelFlow, PauseBegins, PauseRefused, PauseEnds, Spawn, BodyReturns,
     BodyThrows, FlowIsOver, BeginResume, Resumed, ResumeFails, TypeOK
<1>5. CASE RunFlow(f) /\ bracket'[f] # "open"
  <2>1. bracket[f] = "idle" /\ target[f] = None
    BY <1>1, <1>5 DEF RunFlow, FlowInv
  <2>2. PortPhase' = PortPhase
    BY <1>5, <2>1, LeaseBesideFlow, PortStays, FlowAssumption DEF FlowActs
  <2>3. PortUsers' = PortUsers
    BY <1>4, <1>5, <2>1 DEF PortIsNext
  <2> QED
    BY <2>2, <2>3
<1>6. CASE Resumed(f) \/ ResumeFails(f)
  <2>1. PICK s \in Session : target[f] = s
    BY <1>1, <1>6 DEF Resumed, ResumeFails, FlowInv
  <2>2. /\ bracket[f] = "resuming" /\ InProgress(f) /\ bracket'[f] = "over"
        /\ status[s] = "recording" /\ Yielded(s, f)
        /\ \A g \in Flow : g # f => bracket[g] # "resuming"
    BY <1>1, <1>6, <2>1, FlowAssumption, OnlyFlowing
       DEF Resumed, ResumeFails, FlowPhase, InProgress, TypeOK
  <2>3. PortUsers' = PortUsers
    BY <1>4, <2>2 DEF PortIsNext
  <2>4. PhaseOf(s) = "holds"
    BY <2>1, <2>2 DEF PhaseOf, HasDriver
  <2>5. \A x \in Session : x # s => PhaseOf(x)' = PhaseOf(x)
    BY <2>1, <1>6, LeaseBesideFlow DEF FlowActs, FlowStep
  <2>6. CASE Resumed(f)
    <3>1. active'[s] # None /\ UNCHANGED status
      BY <1>1, <2>1, <2>6, FlowAssumption DEF Resumed, TypeOK
    <3>2. PhaseOf(s)' = "holds"
      BY <2>2, <3>1 DEF PhaseOf, HasDriver
    <3>3. PortPhase' = PortPhase
      BY <2>4, <2>5, <3>2, PortStays
    <3> QED
      BY <2>3, <3>3
  <2>7. CASE ResumeFails(f)
    <3>1. opening = {}
      BY <1>1, <2>2, OnlyFlowing
    <3>2. /\ status' = AbortedStatus(s) /\ s \notin paused'
          /\ UNCHANGED <<active, opening>>
      BY <2>1, <2>7 DEF ResumeFails, stops
    <3>3. status'[s] # "none"
      BY <1>1, <2>2, <3>2, AbortedType
    <3>4. ~ HasDriver(s)'
      BY <1>4, <2>2, <3>1, <3>2 DEF HasDriver, Yielded, Bare
    <3>5. PhaseOf(s)' = "closed"
      BY <3>2, <3>3, <3>4 DEF PhaseOf
    <3>6. PortPhase' = [PortPhase EXCEPT ![s] = "closed"]
      BY <2>5, <3>5, PortMoves
    <3>7. PortPhase[s] = "holds"
      BY <2>4 DEF PortIsNext
    <3>8. Lease!Close(s)
      BY <2>3, <3>6, <3>7 DEF Lease!Close, Lease!Moves, PortPhase, PortUsers
    <3> QED
      BY <3>8 DEF Lease!LeaseNext
  <2> QED
    BY <1>6, <2>6, <2>7
<1>7. CASE \/ CancelFlow(f) \/ Spawn(f) \/ PauseBegins(f)
           \/ (BodyReturns(f) \/ BodyThrows(f)) /\ bracket[f] # "open"
  <2>1. /\ UNCHANGED <<status, active, paused, opening, target>>
        /\ bracket'[f] \in {bracket[f], "pausing"}
        /\ bracket'[f] = "pausing" => bracket[f] \in {"preparing", "pausing"}
    BY <1>1, <1>7 DEF CancelFlow, Spawn, PauseBegins, BodyReturns, BodyThrows, FlowIsOver,
       manager, stops, TypeOK
  <2>2. \A x \in Session : HasDriver(x)' <=> HasDriver(x)
    BY <1>4, <2>1 DEF HasDriver
  <2>3. PortPhase' = PortPhase
    BY <2>1, <2>2, SamePhase, PortStays
  <2>4. PortUsers' = PortUsers
    BY <1>4, <2>1 DEF PortIsNext
  <2> QED
    BY <2>3, <2>4
<1>8. ~ PauseRefused(f)
  BY SerialPauseRefused
<1> QED
  BY <1>2, <1>3, <1>5, <1>6, <1>7, <1>8 DEF FlowActs, FlowStep, WatchdogFires

LEMMA LeaseStep ==
  ASSUME IInv, SerialInv, Overlap = {}, PortIsNext, [Next]_vars
  PROVE  Lease!LeaseNext \/ (PortPhase' = PortPhase /\ PortUsers' = PortUsers)
<1>1. ASSUME Next
      PROVE  \/ \E s \in Session : SessionActs(s)
             \/ \E f \in Flow : FlowActs(f)
  BY <1>1 DEF Next, ClientStep, SessionActs, FlowActs
<1>2. CASE UNCHANGED vars
  <2>1. \A x \in Session : PhaseOf(x)' = PhaseOf(x)
    BY <1>2 DEF PhaseOf, HasDriver, vars, manager, stops, flows
  <2>2. PortUsers' = PortUsers
    BY <1>2 DEF PortIsNext, vars, flows
  <2> QED
    BY <2>1, <2>2, PortStays
<1> QED
  BY <1>1, <1>2, LeaseOfSession, LeaseOfFlow

(* With a serial client, the port is lent as SessionLease says: a session  *)
(* opens the port when no flow uses it, yields it to one flow, and takes   *)
(* it back or is closed when that flow is over.                            *)
THEOREM SerialLease == Overlap = {} => (Spec => Lease!LeaseSafe)
<1> SUFFICES ASSUME Overlap = {}
             PROVE  Spec => Lease!LeaseSafe
  OBVIOUS
<1>1. Init => Lease!LeaseInit
  BY DEF Init, Lease!LeaseInit, InFlight
<1>2. IInv /\ SerialInv /\ (IInv /\ SerialInv)' => PortIsNext
  <2>1. IInv /\ SerialInv => /\ PortPhase = [s \in Session |-> PhaseOf(s)]
                             /\ PortUsers = {f \in Flow : bracket[f] = "open"}
    BY PortIs
  <2>2. (IInv /\ SerialInv)' => (/\ PortPhase = [s \in Session |-> PhaseOf(s)]
                                 /\ PortUsers = {f \in Flow : bracket[f] = "open"})'
    BY PortIs, PTL
  <2> QED
    BY <2>1, <2>2 DEF PortIsNext
<1>3. IInv /\ SerialInv /\ PortIsNext /\ [Next]_vars =>
        [Lease!LeaseNext]_<<PortPhase, PortUsers>>
  BY LeaseStep
<1> QED
  BY <1>1, <1>2, <1>3, Invariance, SerialInvariance, PTL
     DEF Spec, Lease!LeaseSafe, Lease!lease, PortPhase, PortUsers

=============================================================================
