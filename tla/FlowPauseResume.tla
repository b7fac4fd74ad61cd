-------------------------- MODULE FlowPauseResume --------------------------
(***************************************************************************)
(* Recording sessions (src/session/manager.ts), the handlers that open,    *)
(* compile and clean them (src/handlers.ts, src/admin/handlers.ts), and    *)
(* run_test / run_flow, which pause the one active session, run `maestro   *)
(* test` as a subprocess, and resume the session (executeFlowWithPause).   *)
(*                                                                         *)
(* The session's daemon driver and the subprocess both want port 7001 of   *)
(* the simulator.  Every handler is cut at its awaits; between two awaits  *)
(* nothing else runs.  A client may begin a handler while another one is   *)
(* still awaiting something: Overlap says which ones the client of a run   *)
(* begins without waiting.                                                 *)
(*                                                                         *)
(* A driver is created by opening a session or by resuming it after a      *)
(* flow, once each, so it is named by the session or the flow.  Each       *)
(* driver feeds one TouchInferrer, which has the driver's name as well.    *)
(***************************************************************************)
EXTENDS Naturals, Sequences, FiniteSets

CONSTANTS
  Session,            (* session ids                                       *)
  Flow,               (* calls of run_test and run_flow                    *)
  None,               (* an absent Map entry                               *)
  Overlap             (* handlers begun while others are in progress       *)

ASSUME FlowAssumption ==
  /\ Session \cap Flow = {}
  /\ None \notin Session \cup Flow
  /\ IsFiniteSet(Session)
  /\ Overlap \subseteq {"start", "stop", "force", "flow"}

Driver == Session \cup Flow

VARIABLES
  status,         (* sessions.status in the database, "none" before insert *)
  active,         (* activeDrivers                                         *)
  poller,         (* activePollers                                         *)
  paused,         (* pausedSessions                                        *)
  pausedRecords,  (* pausedRecords: boundary markers, empty when absent    *)
  flowExecs,      (* flowExecutions: what resumeSession recorded           *)
  alive,          (* drivers started and not yet stopped                   *)
  polling,        (* inferrers whose interval timer runs                   *)
  records,        (* boundary markers in each inferrer's pollRecords       *)
  opening,        (* sessions whose start_recording_session awaits start() *)
  compile,        (* where stop_and_compile_test stands                    *)
  woven,          (* what the compile of a session gave the flow weaver    *)
  force,          (* where force_cleanup_session stands                    *)
  bracket,        (* where executeFlowWithPause stands                     *)
  body,           (* where runFlow stands: before, in, after `maestro test`*)
  target,         (* the session a flow brackets                           *)
  held,           (* the driver whose stop() a handler awaits              *)
  aborted,        (* cleanup.signal.aborted of the flow                    *)
  timedOut,       (* the flow's own watchdog fired                         *)
  cancelled,      (* flowResult.cancelled of executeFlowWithPause          *)
  enabled         (* MCA_FLOW_PAUSE_RESUME is not "off"                    *)

manager == <<status, active, poller, paused, pausedRecords, flowExecs>>
world   == <<alive, polling, records>>
stops   == <<opening, compile, woven, force>>
flows   == <<bracket, body, target, aborted, timedOut, cancelled>>
vars    == <<manager, world, stops, flows, held, enabled>>

Terminal == {"done", "aborted"}

Marker == [kind : {"flow_start", "flow_end"}, flow : Flow]
Exec   == [flow : Flow, cancelled : BOOLEAN]

TypeOK ==
  /\ status \in [Session -> {"none", "recording", "compiling"} \cup Terminal]
  /\ active \in [Session -> Driver \cup {None}]
  /\ poller \in [Session -> Driver \cup {None}]
  /\ paused \in SUBSET Session
  /\ pausedRecords \in [Session -> Seq(Marker)]
  /\ flowExecs \in [Session -> Seq(Exec)]
  /\ alive \in SUBSET Driver
  /\ polling \in SUBSET Driver
  /\ records \in [Driver -> Seq(Marker)]
  /\ opening \in SUBSET Session
  /\ compile \in [Session -> {"no", "export", "woven", "stopping", "over"}]
  /\ woven \in [Session -> [records : Seq(Marker), execs : Seq(Exec)]]
  /\ force \in [Session -> {"no", "stopping", "marking"}]
  /\ bracket \in [Flow -> {"idle", "preparing", "pausing", "open", "resuming",
                           "over"}]
  /\ body \in [Flow -> {"none", "preflight", "running", "over"}]
  /\ target \in [Flow -> Session \cup {None}]
  /\ held \in [{"compile", "force"} \X Session \cup {"pause"} \X Flow
                 -> Driver \cup {None}]
  /\ aborted \in [Flow -> BOOLEAN]
  /\ timedOut \in [Flow -> BOOLEAN]
  /\ cancelled \in [Flow -> BOOLEAN]
  /\ enabled \in BOOLEAN

NotWoven == [records |-> <<>>, execs |-> <<>>]

Init ==
  /\ status = [s \in Session |-> "none"]
  /\ active = [s \in Session |-> None]
  /\ poller = [s \in Session |-> None]
  /\ paused = {}
  /\ pausedRecords = [s \in Session |-> <<>>]
  /\ flowExecs = [s \in Session |-> <<>>]
  /\ alive = {}
  /\ polling = {}
  /\ records = [d \in Driver |-> <<>>]
  /\ opening = {}
  /\ compile = [s \in Session |-> "no"]
  /\ woven = [s \in Session |-> NotWoven]
  /\ force = [s \in Session |-> "no"]
  /\ bracket = [f \in Flow |-> "idle"]
  /\ body = [f \in Flow |-> "none"]
  /\ target = [f \in Flow |-> None]
  /\ held = [h \in {"compile", "force"} \X Session \cup {"pause"} \X Flow |-> None]
  /\ aborted = [f \in Flow |-> FALSE]
  /\ timedOut = [f \in Flow |-> FALSE]
  /\ cancelled = [f \in Flow |-> FALSE]
  /\ enabled \in BOOLEAN

-----------------------------------------------------------------------------
(* The client.  A serial client begins a handler when all others answered. *)

InProgress(f) == bracket[f] \notin {"idle", "over"}

Quiet ==
  /\ \A f \in Flow : ~ InProgress(f)
  /\ opening = {}
  /\ \A s \in Session : compile[s] \in {"no", "over"} /\ force[s] = "no"

MayBegin(handler) == handler \in Overlap \/ Quiet

(* Mutants: a terminal session is aborted too; a recording one is not.     *)
AbortedStatus_Always(s) == [status EXCEPT ![s] = "aborted"]

AbortedStatus_OnlyCompiling(s) ==
  [status EXCEPT ![s] = IF @ = "compiling" THEN "aborted" ELSE @]

(* SessionManager.markAborted: nothing happens to a terminal session.      *)
AbortedStatus(s) ==
  [status EXCEPT ![s] = IF @ \in {"recording", "compiling"} THEN "aborted" ELSE @]

(* Mutant: the inferrer is forgotten, its timer is not cleared.            *)
StopPolling_KeepsTimer(s) ==
  /\ poller' = [poller EXCEPT ![s] = None]
  /\ UNCHANGED polling

(* SessionManager.stopPolling, and the same lines of forceCleanup.         *)
StopPolling(s) ==
  /\ polling' = polling \ {poller[s]}
  /\ poller' = [poller EXCEPT ![s] = None]

(* Mutant: removeActiveDriver is missing.                                  *)
DriverStopped_KeepsEntry(h, s) ==
  /\ alive' = alive \ {held[h]}
  /\ held' = [held EXCEPT ![h] = None]
  /\ UNCHANGED active

(* driver.stop() answered: the entry goes, whatever it holds by now.       *)
DriverStopped(h, s) ==
  /\ alive' = alive \ {held[h]}
  /\ held' = [held EXCEPT ![h] = None]
  /\ active' = [active EXCEPT ![s] = None]

-----------------------------------------------------------------------------
(* start_recording_session: the row is inserted, then start() is awaited.  *)

StartRecording(s) ==
  /\ MayBegin("start")
  /\ status[s] = "none"
  /\ status' = [status EXCEPT ![s] = "recording"]
  /\ alive' = alive \cup {s}
  /\ opening' = opening \cup {s}
  /\ UNCHANGED <<active, poller, paused, pausedRecords, flowExecs, polling,
                 records, compile, woven, force, flows, held, enabled>>

(* setActiveDriver and startPolling.                                       *)
RecordingStarted(s) ==
  /\ s \in opening
  /\ opening' = opening \ {s}
  /\ active' = [active EXCEPT ![s] = s]
  /\ IF poller[s] = None
     THEN poller' = [poller EXCEPT ![s] = s] /\ polling' = polling \cup {s}
     ELSE UNCHANGED <<poller, polling>>
  /\ UNCHANGED <<status, paused, pausedRecords, flowExecs, alive, records,
                 compile, woven, force, flows, held, enabled>>

(* start() rejected; of the cleanups only markAborted has an effect yet.   *)
RecordingFails(s) ==
  /\ s \in opening
  /\ opening' = opening \ {s}
  /\ alive' = alive \ {s}
  /\ status' = AbortedStatus(s)
  /\ UNCHANGED <<active, poller, paused, pausedRecords, flowExecs, polling,
                 records, compile, woven, force, flows, held, enabled>>

-----------------------------------------------------------------------------
(* stop_and_compile_test, with an id that start_recording_session answered.*)

StopAndCompile(s) ==
  /\ MayBegin("stop")
  /\ s \notin opening
  /\ status[s] = "recording"
  /\ status' = [status EXCEPT ![s] = "compiling"]
  /\ compile' = [compile EXCEPT ![s] = "export"]
  /\ UNCHANGED <<active, poller, paused, pausedRecords, flowExecs, world,
                 opening, woven, force, flows, held, enabled>>

(* Steps 3b: the records and executions handed to weaveFlowExecutions.     *)
Weave(s) ==
  /\ compile[s] = "export"
  /\ compile' = [compile EXCEPT ![s] = "woven"]
  /\ woven' = [woven EXCEPT ![s] =
                 [records |-> IF poller[s] = None THEN <<>> ELSE records[poller[s]],
                  execs   |-> flowExecs[s]]]
  /\ UNCHANGED <<manager, world, opening, force, flows, held, enabled>>

(* The finally block, entered also when the export or the compile threw.   *)
CompileEnds(s) ==
  /\ compile[s] \in {"export", "woven"}
  /\ status' = [status EXCEPT ![s] = IF @ = "compiling" THEN "done" ELSE @]
  /\ StopPolling(s)
  /\ held' = [held EXCEPT ![<<"compile", s>>] = active[s]]
  /\ compile' = [compile EXCEPT ![s] =
                   IF active[s] = None THEN "over" ELSE "stopping"]
  /\ UNCHANGED <<active, paused, pausedRecords, flowExecs, alive, records,
                 opening, woven, force, flows, enabled>>

CompileDriverStopped(s) ==
  /\ compile[s] = "stopping"
  /\ compile' = [compile EXCEPT ![s] = "over"]
  /\ DriverStopped(<<"compile", s>>, s)
  /\ UNCHANGED <<status, poller, paused, pausedRecords, flowExecs, polling,
                 records, opening, woven, force, flows, enabled>>

-----------------------------------------------------------------------------
(* force_cleanup_session: SessionManager.forceCleanup, then markAborted.   *)

ForgetPause(s) ==
  /\ paused' = paused \ {s}
  /\ pausedRecords' = [pausedRecords EXCEPT ![s] = <<>>]
  /\ flowExecs' = [flowExecs EXCEPT ![s] = <<>>]

ForceCleanup(s) ==
  /\ MayBegin("force")
  /\ status[s] # "none"
  /\ force[s] = "no"
  /\ StopPolling(s)
  /\ \/ /\ active[s] # None
        /\ force' = [force EXCEPT ![s] = "stopping"]
        /\ held' = [held EXCEPT ![<<"force", s>>] = active[s]]
        /\ UNCHANGED <<paused, pausedRecords, flowExecs>>
     \/ /\ active[s] = None
        /\ ForgetPause(s)
        /\ force' = [force EXCEPT ![s] = "marking"]
        /\ UNCHANGED held
  /\ UNCHANGED <<status, active, alive, records, opening, compile, woven, flows,
                 enabled>>

ForceDriverStopped(s) ==
  /\ force[s] = "stopping"
  /\ force' = [force EXCEPT ![s] = "marking"]
  /\ DriverStopped(<<"force", s>>, s)
  /\ ForgetPause(s)
  /\ UNCHANGED <<status, poller, polling, records, opening, compile, woven,
                 flows, enabled>>

ForceMarks(s) ==
  /\ force[s] = "marking"
  /\ force' = [force EXCEPT ![s] = "no"]
  /\ status' = AbortedStatus(s)
  /\ UNCHANGED <<active, poller, paused, pausedRecords, flowExecs, world,
                 opening, compile, woven, flows, held, enabled>>

-----------------------------------------------------------------------------
(* run_test and run_flow: executeFlowWithPause.                            *)

Active == {s \in Session : active[s] # None}

(* Mutant: the flow runs beside whatever session is active.                *)
RunUnbracketed_BesideSession(f) ==
  /\ bracket' = [bracket EXCEPT ![f] = "open"]
  /\ body' = [body EXCEPT ![f] = "preflight"]
  /\ UNCHANGED target

RunUnbracketed(f) ==
  /\ Active = {}
  /\ bracket' = [bracket EXCEPT ![f] = "open"]
  /\ body' = [body EXCEPT ![f] = "preflight"]
  /\ UNCHANGED target

RunRefused(f) ==
  /\ IF enabled THEN Cardinality(Active) > 1 ELSE Active # {}
  /\ bracket' = [bracket EXCEPT ![f] = "over"]
  /\ UNCHANGED <<body, target>>

RunBracketed(f) ==
  /\ enabled
  /\ \E s \in Session : /\ Active = {s}
                        /\ target' = [target EXCEPT ![f] = s]
  /\ bracket' = [bracket EXCEPT ![f] = "preparing"]
  /\ UNCHANGED body

RunFlow(f) ==
  /\ MayBegin("flow")
  /\ bracket[f] = "idle"
  /\ RunUnbracketed(f) \/ RunRefused(f) \/ RunBracketed(f)
  /\ UNCHANGED <<manager, world, stops, held, aborted, timedOut,
                 cancelled, enabled>>

(* Mutant: the marker does not say which flow it bounds.                   *)
Boundary_Unnamed(k, f) == [kind |-> k, flow |-> None]

Boundary(k, f) == [kind |-> k, flow |-> f]

(* pauseSession up to the await of driver.stop(): the marker, the snapshot *)
(* of the records, the poller.                                             *)
PauseBegins(f) ==
  LET s == target[f]
      marked == Append(records[poller[s]], Boundary("flow_start", f))
  IN /\ bracket[f] = "preparing"
     /\ s \notin paused /\ active[s] # None
     /\ bracket' = [bracket EXCEPT ![f] = "pausing"]
     /\ held' = [held EXCEPT ![<<"pause", f>>] = active[s]]
     /\ IF poller[s] = None
        THEN UNCHANGED <<records, pausedRecords, poller, polling>>
        ELSE /\ records' = [records EXCEPT ![poller[s]] = marked]
             /\ pausedRecords' = [pausedRecords EXCEPT ![s] = marked]
             /\ StopPolling(s)
     /\ UNCHANGED <<status, active, paused, flowExecs, alive, stops, body,
                    target, aborted, timedOut, cancelled, enabled>>

(* pauseSession throws: already paused, or no active driver any more.      *)
PauseRefused(f) ==
  /\ bracket[f] = "preparing"
  /\ target[f] \in paused \/ active[target[f]] = None
  /\ bracket' = [bracket EXCEPT ![f] = "over"]
  /\ UNCHANGED <<manager, world, stops, body, target, aborted, timedOut,
                 cancelled, held, enabled>>

(* driver.stop() is done: the rest of pauseSession, and runFlow begins.    *)
PauseEnds(f) ==
  /\ bracket[f] = "pausing"
  /\ DriverStopped(<<"pause", f>>, target[f])
  /\ paused' = paused \cup {target[f]}
  /\ bracket' = [bracket EXCEPT ![f] = "open"]
  /\ body' = [body EXCEPT ![f] = "preflight"]
  /\ UNCHANGED <<status, poller, pausedRecords, flowExecs, polling, records,
                 stops, target, aborted, timedOut, cancelled, enabled>>

(* runTestCore spawns `maestro test`, also when the signal is aborted.     *)
Spawn(f) ==
  /\ body[f] = "preflight"
  /\ body' = [body EXCEPT ![f] = "running"]
  /\ UNCHANGED <<manager, world, stops, bracket, target, aborted, timedOut,
                 cancelled, held, enabled>>

(* Mutant: the bracket is left without resuming.                           *)
BeginResume_Never(f) ==
  /\ bracket' = [bracket EXCEPT ![f] = "over"]
  /\ UNCHANGED alive

(* doResume: at once over when nothing is paused, else start() is awaited. *)
BeginResume(f) ==
  IF target[f] \in paused
  THEN /\ bracket' = [bracket EXCEPT ![f] = "resuming"]
       /\ alive' = alive \cup {f}
  ELSE /\ bracket' = [bracket EXCEPT ![f] = "over"]
       /\ UNCHANGED alive

(* runFlow is over.  The first to come, this or the watchdog, resumes.     *)
FlowIsOver(f) ==
  /\ body' = [body EXCEPT ![f] = "over"]
  /\ IF bracket[f] = "open"
     THEN BeginResume(f)
     ELSE UNCHANGED <<bracket, alive>>
  /\ UNCHANGED <<manager, polling, records, stops, target, aborted, timedOut,
                 held, enabled>>

(* The subprocess ended: passed, failed, or killed, runTest only returns.  *)
BodyReturns(f) ==
  /\ body[f] = "running"
  /\ FlowIsOver(f)
  /\ UNCHANGED cancelled

(* No simulator, a driver that cannot be cleaned, a stub port in use.  A   *)
(* resume that began before was given flowResult as it was then.           *)
BodyThrows(f) ==
  /\ body[f] = "preflight"
  /\ FlowIsOver(f)
  /\ cancelled' = [cancelled EXCEPT ![f] = bracket[f] = "open" /\ aborted[f]]

(* runHandler's watchdog: abort the signal, run the cleanup, which resumes;*)
(* the subprocess is only asked to end.                                    *)
WatchdogFires(f) ==
  /\ bracket[f] = "open"
  /\ target[f] # None
  /\ aborted' = [aborted EXCEPT ![f] = TRUE]
  /\ timedOut' = [timedOut EXCEPT ![f] = TRUE]
  /\ BeginResume(f)
  /\ UNCHANGED <<manager, polling, records, stops, body, target, cancelled,
                 held, enabled>>

(* cancel_task: the parent's signal is forwarded.                          *)
CancelFlow(f) ==
  /\ InProgress(f)
  /\ ~ aborted[f]
  /\ aborted' = [aborted EXCEPT ![f] = TRUE]
  /\ UNCHANGED <<manager, world, stops, bracket, body, target, timedOut,
                 cancelled, held, enabled>>

-----------------------------------------------------------------------------
(* resumeSession from the answer of start() on.  Nothing is looked at      *)
(* again: whatever became of the session, the driver is registered.        *)

(* Mutant: the new inferrer starts without the records of the paused one.  *)
Seeded_Empty(f) == <<>>

Seeded(f) == pausedRecords[target[f]]

Resumed(f) ==
  LET s == target[f]
  IN /\ bracket[f] = "resuming"
     /\ bracket' = [bracket EXCEPT ![f] = "over"]
     /\ active' = [active EXCEPT ![s] = f]
     /\ poller' = [poller EXCEPT ![s] = f]
     /\ polling' = polling \cup {f}
     /\ records' = [records EXCEPT ![f] = Append(Seeded(f), Boundary("flow_end", f))]
     /\ pausedRecords' = [pausedRecords EXCEPT ![s] = <<>>]
     /\ flowExecs' = [flowExecs EXCEPT ![s] =
                        Append(@, [flow |-> f, cancelled |-> cancelled[f]])]
     /\ paused' = paused \ {s}
     /\ UNCHANGED <<status, alive, stops, body, target, aborted, timedOut,
                    cancelled, held, enabled>>

(* Mutant: the session stays in pausedSessions.                            *)
ResumeFails_KeepsPaused(f) ==
  /\ bracket[f] = "resuming"
  /\ bracket' = [bracket EXCEPT ![f] = "over"]
  /\ alive' = alive \ {f}
  /\ status' = AbortedStatus(target[f])
  /\ UNCHANGED <<active, poller, paused, pausedRecords, flowExecs, polling,
                 records, stops, body, target, aborted, timedOut, cancelled,
                 held, enabled>>

(* The driver could not be created or started: the session is aborted.     *)
ResumeFails(f) ==
  LET s == target[f]
  IN /\ bracket[f] = "resuming"
     /\ bracket' = [bracket EXCEPT ![f] = "over"]
     /\ alive' = alive \ {f}
     /\ status' = AbortedStatus(s)
     /\ paused' = paused \ {s}
     /\ pausedRecords' = [pausedRecords EXCEPT ![s] = <<>>]
     /\ UNCHANGED <<active, poller, flowExecs, polling, records, stops, body,
                    target, aborted, timedOut, cancelled, held, enabled>>

-----------------------------------------------------------------------------
(* What an await answers, and what the client does.                        *)

SessionStep(s) ==
  \/ RecordingStarted(s) \/ RecordingFails(s)
  \/ Weave(s) \/ CompileEnds(s) \/ CompileDriverStopped(s)
  \/ ForceDriverStopped(s) \/ ForceMarks(s)

FlowStep(f) ==
  \/ PauseBegins(f) \/ PauseRefused(f) \/ PauseEnds(f)
  \/ Spawn(f) \/ BodyReturns(f) \/ BodyThrows(f)
  \/ Resumed(f) \/ ResumeFails(f)

ClientStep ==
  \/ \E s \in Session : StartRecording(s) \/ StopAndCompile(s) \/ ForceCleanup(s)
  \/ \E f \in Flow : RunFlow(f) \/ CancelFlow(f)

Next ==
  \/ \E s \in Session : SessionStep(s)
  \/ \E f \in Flow : FlowStep(f) \/ WatchdogFires(f)
  \/ ClientStep

Spec == Init /\ [][Next]_vars

(* Every await answers: a driver starts and stops, or fails to, within the *)
(* daemon's timeouts; a flow ends within testRunMs, by SIGKILL at worst.   *)
Fairness ==
  /\ \A s \in Session : WF_vars(SessionStep(s))
  /\ \A f \in Flow :
       /\ WF_vars(PauseBegins(f) \/ PauseRefused(f) \/ PauseEnds(f)
                    \/ Resumed(f) \/ ResumeFails(f))
       /\ WF_vars(Spawn(f) \/ BodyReturns(f) \/ BodyThrows(f))

FairSpec == Spec /\ Fairness

-----------------------------------------------------------------------------
(* Safety.                                                                 *)

DriversOf(s) == {s} \cup {f \in Flow : target[f] = s}

InFlight(f) == body[f] \in {"preflight", "running"}

(* At work on s: a handler that has not answered yet.                      *)
AtWork(s) ==
  \/ s \in opening
  \/ compile[s] \notin {"no", "over"}
  \/ force[s] # "no"
  \/ \E f \in Flow : target[f] = s /\ InProgress(f)

(* A flow that still has its bracket has port 7001 alone: no session has a *)
(* daemon driver up, registered or not, while `maestro test` or its        *)
(* preflight runs (src/testing/driver-conflict.ts).                        *)
PortExclusive ==
  \A f \in Flow : InFlight(f) /\ ~ timedOut[f] => alive = {}

(* A driver is up exactly while it is registered or being started, and a   *)
(* timer runs exactly while its inferrer is registered: pause and resume   *)
(* lose no process and no interval.                                        *)
NothingLeaks ==
  /\ alive = {active[s] : s \in Active} \cup opening
               \cup {f \in Flow : bracket[f] = "resuming"}
  /\ polling = {poller[s] : s \in Session} \ {None}

(* A session that is done or aborted, once every handler that works on it  *)
(* answered, has no driver, no poller and no pause: stop_and_compile_test  *)
(* and force_cleanup_session clean up for good.                            *)
TerminalIsQuiet ==
  \A s \in Session :
    status[s] \in Terminal /\ ~ AtWork(s) =>
      /\ active[s] = None /\ poller[s] = None /\ s \notin paused
      /\ DriversOf(s) \cap alive = {}

(* force_cleanup_session cleans a paused session for good: once no handler *)
(* is at work on it, the aborted session is not driven by a driver that a  *)
(* resume created (src/session/manager.ts).                                *)
ForceCleansPaused ==
  \A s \in Session :
    status[s] = "aborted" /\ ~ AtWork(s) => active[s] \notin Flow

(* The weaver gets, of every flow the session was resumed from, the start  *)
(* and the end marker next to each other and in the order of the recorded  *)
(* executions, through any number of pauses.                               *)
WovenComplete ==
  \A s \in Session :
    LET r == woven[s].records
        e == woven[s].execs
    IN /\ Len(r) = 2 * Len(e)
       /\ \A i \in 1 .. Len(e) :
            /\ r[2 * i - 1] = Boundary("flow_start", e[i].flow)
            /\ r[2 * i] = Boundary("flow_end", e[i].flow)

(* However the handlers interleave, a paused session has a flow that still *)
(* will resume it.                                                         *)
PausedHasResumer ==
  \A s \in paused :
    \E f \in Flow : target[f] = s /\ bracket[f] \in {"open", "resuming"}

(* However the handlers interleave, a registered driver has not been       *)
(* stopped: execute_ui_action, which takes it from the registry, never     *)
(* talks to a daemon that is gone.                                         *)
ActiveDriverIsAlive ==
  \A s \in Active : active[s] \in alive

-----------------------------------------------------------------------------
(* What a step may never do, and what must happen.                         *)

(* done and aborted are final, whichever of the handlers comes late.       *)
TerminalStays ==
  [][\A s \in Session : status[s] \in Terminal => status'[s] = status[s]]_vars

(* `maestro test` has no way to share the port with a daemon driver        *)
(* (src/testing/driver-conflict.ts, for which executeFlowWithPause pauses  *)
(* the session): no flow starts the session's driver again while the       *)
(* subprocess of another flow runs.                                        *)
ResumesBesideNoFlow ==
  [][\A f, g \in Flow :
       f # g /\ body[f] = "running" /\ body'[f] = "running"
         => ~ (bracket[g] # "resuming" /\ bracket'[g] = "resuming")]_vars

(* Cancellation, timeout or failure of the flow: a session does not stay   *)
(* paused (docs/architecture.md).                                          *)
PauseIsOver ==
  \A s \in Session : s \in paused ~> s \notin paused

(* A session that records does not stay without a driver.                  *)
RecordingRecovers ==
  \A s \in Session :
    status[s] = "recording" /\ active[s] = None
      ~> status[s] # "recording" \/ active[s] # None

(* The port, as a lease that flows take alone and give back.               *)
Lease == INSTANCE SessionLease WITH
  phase   <- [s \in Session |->
                IF status[s] = "none" THEN "new"
                ELSE IF DriversOf(s) \cap alive # {} THEN "holds"
                ELSE IF s \in paused THEN "yielded"
                ELSE "closed"],
  running <- {f \in Flow : InFlight(f) /\ ~ timedOut[f]}

ImplementsLease == Lease!LeaseSpec

=============================================================================
