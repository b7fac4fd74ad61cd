----------------------- MODULE FlowPauseResumeProofs -----------------------
(***************************************************************************)
(* Proofs about FlowPauseResume, for any number of sessions and flows and  *)
(* every overlap of handlers.                                              *)
(*                                                                         *)
(* A registered driver could be stopped under its session's feet because   *)
(* pauseSession, stop_and_compile_test and forceCleanup each hold a driver *)
(* they read before an await.  What saves them: a driver is registered for *)
(* one session only (Owned), once (Registered), and never while it is      *)
(* still being started.                                                    *)
(***************************************************************************)
EXTENDS FlowPauseResume, TLAPS

(* The driver has been put into activeDrivers, or never will be.           *)
Registered(d) ==
  /\ d \in Session => status[d] # "none" /\ d \notin opening
  /\ d \in Flow => bracket[d] = "over"

Owned(d, s) == d = s \/ (d \in Flow /\ target[d] = s)

Holds(d, s) == d # None => Registered(d) /\ Owned(d, s)

SessionInv(s) ==
  /\ active[s] # None => active[s] \in alive
  /\ Holds(active[s], s)
  /\ Holds(held[<<"compile", s>>], s)
  /\ Holds(held[<<"force", s>>], s)
  /\ s \in opening => s \in alive /\ status[s] # "none"

FlowInv(f) ==
  /\ Holds(held[<<"pause", f>>], target[f])
  /\ bracket[f] \in {"preparing", "pausing", "resuming"} => target[f] \in Session
  /\ bracket[f] = "idle" => target[f] = None /\ held[<<"pause", f>>] = None
  /\ bracket[f] = "resuming" => f \in alive

IInv == /\ TypeOK
        /\ PausedHasResumer
        /\ \A s \in Session : SessionInv(s)
        /\ \A f \in Flow : FlowInv(f)

-----------------------------------------------------------------------------
LEMMA InitIInv == Init => IInv
<1> SUFFICES ASSUME Init PROVE IInv
  OBVIOUS
<1>1. TypeOK
  BY DEF Init, TypeOK, NotWoven
<1>2. PausedHasResumer
  BY DEF Init, PausedHasResumer
<1>3. \A s \in Session : SessionInv(s)
  BY DEF Init, SessionInv, Holds
<1>4. \A f \in Flow : FlowInv(f)
  BY DEF Init, FlowInv, Holds
<1> QED
  BY <1>1, <1>2, <1>3, <1>4 DEF IInv

LEMMA AbortedType ==
  ASSUME TypeOK, NEW s \in Session
  PROVE  /\ AbortedStatus(s) \in [Session -> {"none", "recording", "compiling"} \cup Terminal]
         /\ \A x \in Session : status[x] = "none" <=> AbortedStatus(s)[x] = "none"
         /\ \A x \in Session : status[x] \in Terminal => AbortedStatus(s)[x] = status[x]
BY DEF TypeOK, AbortedStatus, Terminal

LEMMA MarkerType ==
  ASSUME NEW f \in Flow, NEW k \in {"flow_start", "flow_end"}, NEW r \in Seq(Marker)
  PROVE  Append(r, Boundary(k, f)) \in Seq(Marker)
BY DEF Boundary, Marker

(* driver.stop() answered.                                                 *)
LEMMA StoppedType ==
  ASSUME TypeOK, NEW h \in DOMAIN held, NEW s \in Session, DriverStopped(h, s)
  PROVE  /\ alive' \in SUBSET Driver
         /\ held' \in [{"compile", "force"} \X Session \cup {"pause"} \X Flow
                         -> Driver \cup {None}]
         /\ active' \in [Session -> Driver \cup {None}]
BY DEF TypeOK, DriverStopped

LEMMA StopPollingType ==
  ASSUME TypeOK, NEW s \in Session, StopPolling(s)
  PROVE  /\ poller' \in [Session -> Driver \cup {None}]
         /\ polling' \in SUBSET Driver
BY DEF TypeOK, StopPolling

LEMMA ForgetPauseType ==
  ASSUME TypeOK, NEW s \in Session, ForgetPause(s)
  PROVE  /\ paused' \in SUBSET Session
         /\ pausedRecords' \in [Session -> Seq(Marker)]
         /\ flowExecs' \in [Session -> Seq(Exec)]
BY DEF TypeOK, ForgetPause

LEMMA BeginResumeType ==
  ASSUME TypeOK, NEW f \in Flow, BeginResume(f)
  PROVE  /\ bracket' \in [Flow -> {"idle", "preparing", "pausing", "open",
                                   "resuming", "over"}]
         /\ alive' \in SUBSET Driver
<1>1. f \in Driver
  BY DEF Driver
<1>2. CASE target[f] \in paused
  <2>1. bracket' = [bracket EXCEPT ![f] = "resuming"] /\ alive' = alive \cup {f}
    BY <1>2 DEF BeginResume
  <2>2. alive' \in SUBSET Driver
    BY <1>1, <2>1 DEF TypeOK
  <2> QED
    BY <2>1, <2>2 DEF TypeOK
<1>3. CASE target[f] \notin paused
  BY <1>3 DEF TypeOK, BeginResume
<1> QED
  BY <1>2, <1>3

LEMMA FlowIsOverType ==
  ASSUME TypeOK, NEW f \in Flow, FlowIsOver(f)
  PROVE  /\ bracket' \in [Flow -> {"idle", "preparing", "pausing", "open",
                                   "resuming", "over"}]
         /\ alive' \in SUBSET Driver
         /\ body' \in [Flow -> {"none", "preflight", "running", "over"}]
BY BeginResumeType DEF TypeOK, FlowIsOver

LEMMA StartRecordingType ==
  ASSUME TypeOK, NEW s \in Session, StartRecording(s)
  PROVE  TypeOK'
BY DEF TypeOK, StartRecording, Driver, flows

LEMMA RecordingStartedType ==
  ASSUME TypeOK, NEW s \in Session, RecordingStarted(s)
  PROVE  TypeOK'
<1>1. s \in Driver
  BY DEF Driver
<1>2. CASE poller[s] = None
  <2>1. /\ poller' = [poller EXCEPT ![s] = s]
        /\ polling' = polling \cup {s}
        /\ active' = [active EXCEPT ![s] = s]
    BY <1>2 DEF RecordingStarted
  <2>2. polling' \in SUBSET Driver
    BY <1>1, <2>1 DEF TypeOK
  <2>3. poller' \in [Session -> Driver \cup {None}] /\ active' \in [Session -> Driver \cup {None}]
    BY <1>1, <2>1 DEF TypeOK
  <2> QED
    BY <2>2, <2>3 DEF TypeOK, RecordingStarted, flows
<1>3. CASE poller[s] # None
  BY <1>1, <1>3 DEF TypeOK, RecordingStarted, flows
<1> QED
  BY <1>2, <1>3


LEMMA RecordingFailsType ==
  ASSUME TypeOK, NEW s \in Session, RecordingFails(s)
  PROVE  TypeOK'
BY AbortedType DEF TypeOK, RecordingFails, Driver, flows

LEMMA StopAndCompileType ==
  ASSUME TypeOK, NEW s \in Session, StopAndCompile(s)
  PROVE  TypeOK'
BY DEF TypeOK, StopAndCompile, flows, world

LEMMA WeaveType ==
  ASSUME TypeOK, NEW s \in Session, Weave(s)
  PROVE  TypeOK'
BY DEF TypeOK, Weave, flows, world, manager

LEMMA CompileEndsType ==
  ASSUME TypeOK, NEW s \in Session, CompileEnds(s)
  PROVE  TypeOK'
BY DEF TypeOK, CompileEnds, flows, StopPolling, Terminal

LEMMA CompileDriverStoppedType ==
  ASSUME TypeOK, NEW s \in Session, CompileDriverStopped(s)
  PROVE  TypeOK'
BY StoppedType DEF TypeOK, CompileDriverStopped, flows

LEMMA ForceCleanupType ==
  ASSUME TypeOK, NEW s \in Session, ForceCleanup(s)
  PROVE  TypeOK'
<1>1. CASE active[s] # None
  <2>1. StopPolling(s)
    BY DEF ForceCleanup
  <2>2. held' = [held EXCEPT ![<<"force", s>>] = active[s]]
    BY <1>1 DEF ForceCleanup
  <2>3. held' \in [{"compile", "force"} \X Session \cup {"pause"} \X Flow
                     -> Driver \cup {None}]
    BY <2>2 DEF TypeOK
  <2> QED
    BY <1>1, <2>1, <2>3, StopPollingType DEF TypeOK, ForceCleanup, flows
<1>2. CASE active[s] = None
  BY <1>2, StopPollingType, ForgetPauseType DEF TypeOK, ForceCleanup, flows
<1> QED
  BY <1>1, <1>2

LEMMA ForceDriverStoppedType ==
  ASSUME TypeOK, NEW s \in Session, ForceDriverStopped(s)
  PROVE  TypeOK'
<1> <<"force", s>> \in DOMAIN held
  BY DEF TypeOK
<1> QED
  BY StoppedType, ForgetPauseType DEF TypeOK, ForceDriverStopped, flows

LEMMA ForceMarksType ==
  ASSUME TypeOK, NEW s \in Session, ForceMarks(s)
  PROVE  TypeOK'
BY AbortedType DEF TypeOK, ForceMarks, flows, world

LEMMA RunFlowType ==
  ASSUME TypeOK, NEW f \in Flow, RunFlow(f)
  PROVE  TypeOK'
<1>1. /\ bracket' \in [Flow -> {"idle", "preparing", "pausing", "open", "resuming", "over"}]
      /\ body' \in [Flow -> {"none", "preflight", "running", "over"}]
      /\ target' \in [Flow -> Session \cup {None}]
  <2>1. CASE RunUnbracketed(f)
    BY <2>1 DEF TypeOK, RunUnbracketed
  <2>2. CASE RunRefused(f)
    BY <2>2 DEF TypeOK, RunRefused
  <2>3. CASE RunBracketed(f)
    BY <2>3 DEF TypeOK, RunBracketed
  <2> QED
    BY <2>1, <2>2, <2>3 DEF RunFlow
<1>2. UNCHANGED <<manager, world, stops, held, aborted, timedOut, cancelled, enabled>>
  BY DEF RunFlow
<1> QED
  BY <1>1, <1>2 DEF TypeOK, manager, world, stops

LEMMA PauseBeginsType ==
  ASSUME TypeOK, NEW f \in Flow, target[f] \in Session, PauseBegins(f)
  PROVE  TypeOK'
<1>1. CASE poller[target[f]] = None
  BY <1>1 DEF TypeOK, PauseBegins, stops
<1>2. CASE poller[target[f]] # None
  <2> DEFINE marked == Append(records[poller[target[f]]], Boundary("flow_start", f))
  <2>1. marked \in Seq(Marker)
    BY <1>2, MarkerType DEF TypeOK
  <2>2. /\ records' = [records EXCEPT ![poller[target[f]]] = marked]
        /\ pausedRecords' = [pausedRecords EXCEPT ![target[f]] = marked]
        /\ StopPolling(target[f])
    BY <1>2 DEF PauseBegins
  <2> HIDE DEF marked
  <2> QED
    BY <2>1, <2>2, StopPollingType DEF TypeOK, PauseBegins, stops
<1> QED
  BY <1>1, <1>2

LEMMA PauseRefusedType ==
  ASSUME TypeOK, NEW f \in Flow, PauseRefused(f)
  PROVE  TypeOK'
BY DEF TypeOK, PauseRefused, manager, world, stops

LEMMA PauseEndsType ==
  ASSUME TypeOK, NEW f \in Flow, target[f] \in Session, PauseEnds(f)
  PROVE  TypeOK'
BY StoppedType DEF TypeOK, PauseEnds, stops

LEMMA SpawnType ==
  ASSUME TypeOK, NEW f \in Flow, Spawn(f)
  PROVE  TypeOK'
BY DEF TypeOK, Spawn, manager, world, stops

LEMMA BodyReturnsType ==
  ASSUME TypeOK, NEW f \in Flow, BodyReturns(f)
  PROVE  TypeOK'
BY FlowIsOverType DEF TypeOK, BodyReturns, FlowIsOver, manager, stops

LEMMA BodyThrowsType ==
  ASSUME TypeOK, NEW f \in Flow, BodyThrows(f)
  PROVE  TypeOK'
BY FlowIsOverType DEF TypeOK, BodyThrows, FlowIsOver, manager, stops

LEMMA WatchdogFiresType ==
  ASSUME TypeOK, NEW f \in Flow, WatchdogFires(f)
  PROVE  TypeOK'
BY BeginResumeType DEF TypeOK, WatchdogFires, manager, stops

LEMMA CancelFlowType ==
  ASSUME TypeOK, NEW f \in Flow, CancelFlow(f)
  PROVE  TypeOK'
BY DEF TypeOK, CancelFlow, manager, stops, world

LEMMA ResumedType ==
  ASSUME TypeOK, NEW f \in Flow, target[f] \in Session, Resumed(f)
  PROVE  TypeOK'
BY MarkerType DEF TypeOK, Resumed, Driver, stops, Exec, Seeded

LEMMA ResumeFailsType ==
  ASSUME TypeOK, NEW f \in Flow, target[f] \in Session, ResumeFails(f)
  PROVE  TypeOK'
<1>1. status' \in [Session -> {"none", "recording", "compiling"} \cup Terminal]
  BY AbortedType DEF ResumeFails
<1> QED
  BY <1>1 DEF TypeOK, ResumeFails, stops

-----------------------------------------------------------------------------
(* Registration is for good: a session does not return to "none", its      *)
(* start() is awaited once, and a flow that left its bracket stays out.    *)
KeepsRegistered ==
  /\ \A s \in Session :
       status[s] # "none" => /\ status'[s] # "none"
                             /\ s \notin opening => s \notin opening'
  /\ \A f \in Flow :
       bracket[f] = "over" => bracket'[f] = "over" /\ target'[f] = target[f]

(* Holds of the next state, for a driver of this one.                      *)
HoldsNext(d, s) ==
  d # None =>
    /\ d \in Session => status'[d] # "none" /\ d \notin opening'
    /\ d \in Flow => bracket'[d] = "over"
    /\ d = s \/ (d \in Flow /\ target'[d] = s)

LEMMA HoldsKept ==
  ASSUME KeepsRegistered, NEW d, NEW s, Holds(d, s)
  PROVE  HoldsNext(d, s)
BY DEF KeepsRegistered, Holds, HoldsNext, Registered, Owned

LEMMA SessionKeepsRegistered ==
  ASSUME TypeOK, NEW s \in Session,
         SessionStep(s) \/ StartRecording(s) \/ StopAndCompile(s) \/ ForceCleanup(s)
  PROVE  KeepsRegistered
<1>1. CASE StartRecording(s)
  BY <1>1 DEF TypeOK, StartRecording, flows, KeepsRegistered
<1>2. CASE RecordingStarted(s)
  BY <1>2 DEF TypeOK, RecordingStarted, flows, KeepsRegistered
<1>3. CASE RecordingFails(s)
  BY <1>3, AbortedType DEF RecordingFails, flows, KeepsRegistered
<1>4. CASE StopAndCompile(s)
  BY <1>4 DEF TypeOK, StopAndCompile, flows, KeepsRegistered
<1>5. CASE Weave(s)
  BY <1>5 DEF Weave, manager, flows, KeepsRegistered
<1>6. CASE CompileEnds(s)
  BY <1>6 DEF TypeOK, CompileEnds, flows, KeepsRegistered
<1>7. CASE CompileDriverStopped(s) \/ ForceDriverStopped(s) \/ ForceCleanup(s)
  BY <1>7 DEF CompileDriverStopped, ForceDriverStopped, ForceCleanup, flows,
              KeepsRegistered
<1>8. CASE ForceMarks(s)
  BY <1>8, AbortedType DEF ForceMarks, flows, KeepsRegistered
<1> QED
  BY <1>1, <1>2, <1>3, <1>4, <1>5, <1>6, <1>7, <1>8 DEF SessionStep

LEMMA FlowKeepsRegistered ==
  ASSUME TypeOK, NEW f \in Flow, bracket[f] = "resuming" => target[f] \in Session,
         FlowStep(f) \/ WatchdogFires(f) \/ RunFlow(f) \/ CancelFlow(f)
  PROVE  KeepsRegistered
<1>1. CASE RunFlow(f)
  BY <1>1 DEF TypeOK, RunFlow, RunUnbracketed, RunRefused, RunBracketed, manager,
              stops, KeepsRegistered
<1>2. CASE CancelFlow(f) \/ Spawn(f)
  BY <1>2 DEF CancelFlow, Spawn, manager, stops, KeepsRegistered
<1>3. CASE PauseBegins(f) \/ PauseRefused(f) \/ PauseEnds(f)
  BY <1>3 DEF TypeOK, PauseBegins, PauseRefused, PauseEnds, manager, stops,
              KeepsRegistered
<1>4. CASE BodyReturns(f) \/ BodyThrows(f)
  BY <1>4 DEF TypeOK, BodyReturns, BodyThrows, FlowIsOver, BeginResume, manager,
              stops, KeepsRegistered
<1>5. CASE WatchdogFires(f)
  BY <1>5 DEF TypeOK, WatchdogFires, BeginResume, manager, stops, KeepsRegistered
<1>6. CASE Resumed(f)
  BY <1>6 DEF TypeOK, Resumed, stops, KeepsRegistered
<1>7. CASE ResumeFails(f)
  <2>1. target[f] \in Session
    BY <1>7 DEF ResumeFails
  <2>2. \A x \in Session : status[x] = "none" <=> status'[x] = "none"
    BY <1>7, <2>1, AbortedType DEF ResumeFails
  <2> QED
    BY <1>7, <2>2 DEF TypeOK, ResumeFails, stops, KeepsRegistered
<1> QED
  BY <1>1, <1>2, <1>3, <1>4, <1>5, <1>6, <1>7 DEF FlowStep

-----------------------------------------------------------------------------
(* SessionInv of the next state, by what a step does with the drivers.     *)

LEMMA OneOwner ==
  ASSUME IInv, NEW s \in Session, NEW x \in Session, x # s, NEW d \in Driver,
         Holds(d, s), Holds(d, x)
  PROVE  FALSE
<1>1. d \in Flow /\ target[d] = s /\ target[d] = x
  BY FlowAssumption DEF Holds, Owned, Driver
<1> QED
  BY <1>1

(* The drivers a step ends were never registered.                          *)
LEMMA NoneRegistered ==
  ASSUME IInv, KeepsRegistered, UNCHANGED <<active, held>>,
         opening' \subseteq opening,
         \A d \in alive \ alive' : ~ Registered(d) /\ d \notin opening'
  PROVE  \A s \in Session : SessionInv(s)'
<1> SUFFICES ASSUME NEW s \in Session
             PROVE  SessionInv(s)'
  OBVIOUS
<1>1. SessionInv(s)
  BY DEF IInv
<1>2. /\ HoldsNext(active[s], s)
      /\ HoldsNext(held[<<"compile", s>>], s)
      /\ HoldsNext(held[<<"force", s>>], s)
  BY <1>1, HoldsKept DEF SessionInv
<1>3. active[s] # None => active[s] \in alive'
  BY <1>1 DEF SessionInv, Holds
<1>4. s \in opening' => s \in alive' /\ status'[s] # "none"
  BY <1>1 DEF SessionInv, KeepsRegistered
<1> QED
  BY <1>2, <1>3, <1>4 DEF SessionInv, Holds, HoldsNext, Registered, Owned

(* A handler takes the registered driver, to stop it.                      *)
LEMMA DriverTaken ==
  ASSUME IInv, KeepsRegistered, UNCHANGED <<active, alive, opening>>,
         NEW h, NEW s \in Session, held' = [held EXCEPT ![h] = active[s]],
         h \in {<<"compile", s>>, <<"force", s>>} \cup {"pause"} \X Flow
  PROVE  \A x \in Session : SessionInv(x)'
<1> SUFFICES ASSUME NEW x \in Session
             PROVE  SessionInv(x)'
  OBVIOUS
<1>1. SessionInv(x) /\ SessionInv(s)
  BY DEF IInv
<1>2. /\ HoldsNext(active[x], x)
      /\ HoldsNext(active[s], s)
      /\ HoldsNext(held[<<"compile", x>>], x)
      /\ HoldsNext(held[<<"force", x>>], x)
  BY <1>1, HoldsKept DEF SessionInv
<1>3. /\ held'[<<"compile", x>>] \in {held[<<"compile", x>>], active[s]}
      /\ held'[<<"force", x>>] \in {held[<<"force", x>>], active[s]}
      /\ x # s => /\ held'[<<"compile", x>>] = held[<<"compile", x>>]
                  /\ held'[<<"force", x>>] = held[<<"force", x>>]
  BY DEF IInv, TypeOK
<1>4. x \in opening' => x \in alive' /\ status'[x] # "none"
  BY <1>1 DEF SessionInv, KeepsRegistered
<1>5. HoldsNext(held'[<<"compile", x>>], x) /\ HoldsNext(held'[<<"force", x>>], x)
  BY <1>2, <1>3
<1>6. active[x] # None => active[x] \in alive
  BY <1>1 DEF SessionInv
<1> QED
  BY <1>2, <1>4, <1>5, <1>6 DEF SessionInv, Holds, HoldsNext, Registered, Owned

(* The driver a handler took is down: it was nobody else's.                *)
LEMMA DriverDown ==
  ASSUME IInv, KeepsRegistered, UNCHANGED opening,
         NEW h \in DOMAIN held, NEW s \in Session, DriverStopped(h, s),
         Holds(held[h], s)
  PROVE  \A x \in Session : SessionInv(x)'
<1> SUFFICES ASSUME NEW x \in Session
             PROVE  SessionInv(x)'
  OBVIOUS
<1>1. SessionInv(x)
  BY DEF IInv
<1>2. /\ HoldsNext(active[x], x)
      /\ HoldsNext(held[<<"compile", x>>], x)
      /\ HoldsNext(held[<<"force", x>>], x)
  BY <1>1, HoldsKept DEF SessionInv
<1>3. /\ held'[<<"compile", x>>] \in {held[<<"compile", x>>], None}
      /\ held'[<<"force", x>>] \in {held[<<"force", x>>], None}
      /\ active'[x] = IF x = s THEN None ELSE active[x]
      /\ alive' = alive \ {held[h]}
  BY DEF IInv, TypeOK, DriverStopped
<1>4. HoldsNext(None, x)
  BY DEF HoldsNext
<1>5. active'[x] # None => active'[x] \in alive'
  <2> SUFFICES ASSUME active'[x] # None
               PROVE  active[x] \in alive'
    BY <1>3
  <2>1. x # s /\ active[x] # None /\ active[x] \in alive
    BY <1>1, <1>3 DEF SessionInv
  <2>2. active[x] \in Driver /\ Holds(active[x], x)
    BY <1>1, <2>1 DEF SessionInv, IInv, TypeOK
  <2>3. active[x] # held[h]
    BY <2>1, <2>2, OneOwner
  <2> QED
    BY <1>3, <2>1, <2>3
<1>6. x \in opening' => x \in alive' /\ status'[x] # "none"
  <2> SUFFICES ASSUME x \in opening
               PROVE  x \in alive' /\ status'[x] # "none"
    OBVIOUS
  <2>1. x \in alive /\ status[x] # "none"
    BY <1>1 DEF SessionInv
  <2>2. x # held[h]
    BY FlowAssumption DEF Holds, Registered
  <2> QED
    BY <1>3, <2>1, <2>2 DEF KeepsRegistered
<1>7. HoldsNext(active'[x], x)
  BY <1>2, <1>3, <1>4
<1>8. HoldsNext(held'[<<"compile", x>>], x) /\ HoldsNext(held'[<<"force", x>>], x)
  BY <1>2, <1>3, <1>4
<1> QED
  BY <1>5, <1>6, <1>7, <1>8 DEF SessionInv, Holds, HoldsNext, Registered, Owned

(* A driver whose start() answered is registered.                          *)
LEMMA DriverRegistered ==
  ASSUME IInv, KeepsRegistered, UNCHANGED <<alive, held>>, opening' \subseteq opening,
         NEW s \in Session, NEW d \in alive, HoldsNext(d, s),
         active' = [active EXCEPT ![s] = d]
  PROVE  \A x \in Session : SessionInv(x)'
<1> SUFFICES ASSUME NEW x \in Session
             PROVE  SessionInv(x)'
  OBVIOUS
<1>1. SessionInv(x)
  BY DEF IInv
<1>2. /\ HoldsNext(active[x], x)
      /\ HoldsNext(held[<<"compile", x>>], x)
      /\ HoldsNext(held[<<"force", x>>], x)
  BY <1>1, HoldsKept DEF SessionInv
<1>3. active'[x] = IF x = s THEN d ELSE active[x]
  BY DEF IInv, TypeOK
<1>4. active'[x] # None => active'[x] \in alive'
  BY <1>1, <1>3 DEF SessionInv
<1>5. x \in opening' => x \in alive' /\ status'[x] # "none"
  BY <1>1 DEF SessionInv, KeepsRegistered
<1>6. HoldsNext(active'[x], x)
  BY <1>2, <1>3
<1> QED
  BY <1>2, <1>4, <1>5, <1>6 DEF SessionInv, Holds, HoldsNext, Registered, Owned

LEMMA SessionStepKeepsSessions ==
  ASSUME IInv, NEW s \in Session,
         SessionStep(s) \/ StartRecording(s) \/ StopAndCompile(s) \/ ForceCleanup(s)
  PROVE  \A x \in Session : SessionInv(x)'
<1>0. KeepsRegistered /\ SessionInv(s)
  BY SessionKeepsRegistered DEF IInv
<1>1. CASE StartRecording(s)
  <2> SUFFICES ASSUME NEW x \in Session
               PROVE  SessionInv(x)'
    OBVIOUS
  <2>1. SessionInv(x)
    BY DEF IInv
  <2>2. /\ HoldsNext(active[x], x)
        /\ HoldsNext(held[<<"compile", x>>], x)
        /\ HoldsNext(held[<<"force", x>>], x)
    BY <1>0, <2>1, HoldsKept DEF SessionInv
  <2>3. /\ UNCHANGED <<active, held>>
        /\ alive' = alive \cup {s} /\ opening' = opening \cup {s}
        /\ status'[s] = "recording"
    BY <1>1 DEF IInv, TypeOK, StartRecording
  <2>4. x \in opening' => x \in alive' /\ status'[x] # "none"
    BY <1>0, <2>1, <2>3 DEF SessionInv, KeepsRegistered
  <2>5. active'[x] # None => active'[x] \in alive'
    BY <2>1, <2>3 DEF SessionInv
  <2> QED
    BY <2>2, <2>3, <2>4, <2>5 DEF SessionInv, Holds, HoldsNext, Registered, Owned
<1>2. CASE RecordingStarted(s)
  <2>1. HoldsNext(s, s)
    BY <1>0, <1>2, FlowAssumption DEF HoldsNext, RecordingStarted, SessionInv
  <2>2. /\ active' = [active EXCEPT ![s] = s] /\ s \in alive
        /\ UNCHANGED <<alive, held>> /\ opening' \subseteq opening
    BY <1>0, <1>2 DEF RecordingStarted, SessionInv
  <2> QED
    BY <1>0, <2>1, <2>2, DriverRegistered
<1>3. CASE RecordingFails(s)
  <2>1. /\ UNCHANGED <<active, held>> /\ opening' = opening \ {s}
        /\ alive' = alive \ {s} /\ s \in opening
    BY <1>3 DEF RecordingFails
  <2>2. \A d \in alive \ alive' : ~ Registered(d) /\ d \notin opening'
    BY <2>1 DEF Registered
  <2> QED
    BY <1>0, <2>1, <2>2, NoneRegistered
<1>4. CASE StopAndCompile(s) \/ Weave(s) \/ ForceMarks(s)
  <2>1. UNCHANGED <<active, held, alive, opening>>
    BY <1>4 DEF StopAndCompile, Weave, ForceMarks, manager, world
  <2> QED
    BY <1>0, <2>1, NoneRegistered
<1>5. CASE CompileEnds(s)
  <2>1. /\ UNCHANGED <<active, alive, opening>>
        /\ held' = [held EXCEPT ![<<"compile", s>>] = active[s]]
    BY <1>5 DEF CompileEnds
  <2> QED
    BY <1>0, <2>1, DriverTaken
<1>6. CASE ForceCleanup(s) /\ active[s] # None
  <2>1. /\ UNCHANGED <<active, alive, opening>>
        /\ held' = [held EXCEPT ![<<"force", s>>] = active[s]]
    BY <1>6 DEF ForceCleanup
  <2> QED
    BY <1>0, <2>1, DriverTaken
<1>7. CASE ForceCleanup(s) /\ active[s] = None
  <2>1. UNCHANGED <<active, held, alive, opening>>
    BY <1>7 DEF ForceCleanup
  <2> QED
    BY <1>0, <2>1, NoneRegistered
<1>8. CASE CompileDriverStopped(s)
  <2>1. DriverStopped(<<"compile", s>>, s) /\ UNCHANGED opening
    BY <1>8 DEF CompileDriverStopped
  <2>2. <<"compile", s>> \in DOMAIN held /\ Holds(held[<<"compile", s>>], s)
    BY <1>0 DEF IInv, TypeOK, SessionInv
  <2> QED
    BY <1>0, <2>1, <2>2, DriverDown
<1>9. CASE ForceDriverStopped(s)
  <2>1. DriverStopped(<<"force", s>>, s) /\ UNCHANGED opening
    BY <1>9 DEF ForceDriverStopped
  <2>2. <<"force", s>> \in DOMAIN held /\ Holds(held[<<"force", s>>], s)
    BY <1>0 DEF IInv, TypeOK, SessionInv
  <2> QED
    BY <1>0, <2>1, <2>2, DriverDown
<1> QED
  BY <1>1, <1>2, <1>3, <1>4, <1>5, <1>6, <1>7, <1>8, <1>9 DEF SessionStep

LEMMA FlowStepKeepsSessions ==
  ASSUME IInv, NEW f \in Flow,
         FlowStep(f) \/ WatchdogFires(f) \/ RunFlow(f) \/ CancelFlow(f)
  PROVE  \A x \in Session : SessionInv(x)'
<1>0. KeepsRegistered /\ FlowInv(f)
  BY FlowKeepsRegistered DEF IInv, FlowInv
<1>1. CASE RunFlow(f) \/ CancelFlow(f) \/ Spawn(f) \/ PauseRefused(f)
  <2>1. UNCHANGED <<active, held, alive, opening>>
    BY <1>1 DEF RunFlow, CancelFlow, Spawn, PauseRefused, manager, world, stops
  <2> QED
    BY <1>0, <2>1, NoneRegistered
<1>2. CASE PauseBegins(f)
  <2>1. /\ UNCHANGED <<active, alive, opening>>
        /\ held' = [held EXCEPT ![<<"pause", f>>] = active[target[f]]]
        /\ target[f] \in Session
    BY <1>0, <1>2 DEF PauseBegins, stops, FlowInv
  <2> QED
    BY <1>0, <2>1, DriverTaken
<1>3. CASE PauseEnds(f)
  <2>1. /\ DriverStopped(<<"pause", f>>, target[f]) /\ UNCHANGED opening
        /\ target[f] \in Session
    BY <1>0, <1>3 DEF PauseEnds, stops, FlowInv
  <2>2. <<"pause", f>> \in DOMAIN held /\ Holds(held[<<"pause", f>>], target[f])
    BY <1>0 DEF IInv, TypeOK, FlowInv
  <2> QED
    BY <1>0, <2>1, <2>2, DriverDown
<1>4. CASE BodyReturns(f) \/ BodyThrows(f) \/ WatchdogFires(f)
  <2>1. UNCHANGED <<active, held, opening>> /\ alive \subseteq alive'
    BY <1>4 DEF BodyReturns, BodyThrows, WatchdogFires, FlowIsOver, BeginResume,
                manager, stops
  <2>2. alive \ alive' = {}
    BY <2>1
  <2> QED
    BY <1>0, <2>1, <2>2, NoneRegistered
<1>5. CASE Resumed(f)
  <2>1. /\ active' = [active EXCEPT ![target[f]] = f] /\ f \in alive
        /\ UNCHANGED <<alive, held, opening>> /\ target[f] \in Session
    BY <1>0, <1>5 DEF Resumed, stops, FlowInv
  <2>2. HoldsNext(f, target[f])
    BY <1>5, FlowAssumption DEF HoldsNext, Resumed, IInv, TypeOK
  <2> QED
    BY <1>0, <2>1, <2>2, DriverRegistered
<1>6. CASE ResumeFails(f)
  <2>1. /\ UNCHANGED <<active, held, opening>> /\ alive' = alive \ {f}
        /\ bracket[f] = "resuming"
    BY <1>6 DEF ResumeFails, stops
  <2>2. \A d \in alive \ alive' : ~ Registered(d) /\ d \notin opening'
    BY <2>1, FlowAssumption DEF Registered, IInv, TypeOK
  <2> QED
    BY <1>0, <2>1, <2>2, NoneRegistered
<1> QED
  BY <1>1, <1>2, <1>3, <1>4, <1>5, <1>6 DEF FlowStep

-----------------------------------------------------------------------------
(* FlowInv of the next state.  A driver that is being started is not       *)
(* registered, so stopping a registered one does not end it.               *)

LEMMA FlowStays ==
  ASSUME IInv, KeepsRegistered, NEW f \in Flow,
         held'[<<"pause", f>>] \in {held[<<"pause", f>>], None},
         bracket'[f] = bracket[f], target'[f] = target[f],
         bracket[f] = "resuming" => f \in alive'
  PROVE  FlowInv(f)'
<1>1. FlowInv(f)
  BY DEF IInv
<1>2. HoldsNext(held[<<"pause", f>>], target[f])
  BY <1>1, HoldsKept DEF FlowInv
<1>3. HoldsNext(held'[<<"pause", f>>], target[f])
  BY <1>2 DEF HoldsNext
<1>4. Holds(held[<<"pause", f>>], target[f])'
  BY <1>3 DEF Holds, HoldsNext, Registered, Owned
<1> QED
  BY <1>1, <1>4 DEF FlowInv

LEMMA ResumingStaysUp ==
  ASSUME IInv, NEW h \in DOMAIN held, NEW s, Holds(held[h], s),
         NEW x, DriverStopped(h, x),
         NEW f \in Flow, bracket[f] = "resuming"
  PROVE  f \in alive'
<1>1. f \in alive
  BY DEF IInv, FlowInv
<1>2. f # held[h]
  BY FlowAssumption DEF Holds, Registered
<1> QED
  BY <1>1, <1>2 DEF DriverStopped

LEMMA SessionStepKeepsFlows ==
  ASSUME IInv, NEW s \in Session,
         SessionStep(s) \/ StartRecording(s) \/ StopAndCompile(s) \/ ForceCleanup(s)
  PROVE  \A f \in Flow : FlowInv(f)'
<1> SUFFICES ASSUME NEW f \in Flow
             PROVE  FlowInv(f)'
  OBVIOUS
<1>1. KeepsRegistered /\ SessionInv(s) /\ FlowInv(f)
  BY SessionKeepsRegistered DEF IInv
<1>2. bracket'[f] = bracket[f] /\ target'[f] = target[f]
  BY DEF SessionStep, StartRecording, StopAndCompile, ForceCleanup, RecordingStarted,
         RecordingFails, Weave, CompileEnds, CompileDriverStopped, ForceDriverStopped,
         ForceMarks, flows
<1>3. held'[<<"pause", f>>] = held[<<"pause", f>>]
  BY DEF SessionStep, StartRecording, StopAndCompile, ForceCleanup, RecordingStarted,
         RecordingFails, Weave, CompileEnds, CompileDriverStopped, ForceDriverStopped,
         ForceMarks, DriverStopped, IInv, TypeOK
<1>4. bracket[f] = "resuming" => f \in alive'
  <2> SUFFICES ASSUME bracket[f] = "resuming"
               PROVE  f \in alive'
    OBVIOUS
  <2>1. f \in alive
    BY <1>1 DEF FlowInv
  <2>2. CASE CompileDriverStopped(s)
    <3>1. <<"compile", s>> \in DOMAIN held /\ Holds(held[<<"compile", s>>], s)
      BY <1>1 DEF IInv, TypeOK, SessionInv
    <3> QED
      BY <2>2, <3>1, ResumingStaysUp DEF CompileDriverStopped
  <2>3. CASE ForceDriverStopped(s)
    <3>1. <<"force", s>> \in DOMAIN held /\ Holds(held[<<"force", s>>], s)
      BY <1>1 DEF IInv, TypeOK, SessionInv
    <3> QED
      BY <2>3, <3>1, ResumingStaysUp DEF ForceDriverStopped
  <2>4. CASE RecordingFails(s)
    BY <2>1, <2>4, FlowAssumption DEF RecordingFails
  <2>5. CASE ~ CompileDriverStopped(s) /\ ~ ForceDriverStopped(s) /\ ~ RecordingFails(s)
    <3>1. alive \subseteq alive'
      BY <2>5 DEF SessionStep, StartRecording, StopAndCompile, ForceCleanup,
                  RecordingStarted, Weave, CompileEnds, ForceMarks, world
    <3> QED
      BY <2>1, <3>1
  <2> QED
    BY <2>2, <2>3, <2>4, <2>5
<1> QED
  BY <1>1, <1>2, <1>3, <1>4, FlowStays

LEMMA FlowStepKeepsOthers ==
  ASSUME IInv, NEW f \in Flow,
         FlowStep(f) \/ WatchdogFires(f) \/ RunFlow(f) \/ CancelFlow(f),
         NEW g \in Flow, g # f
  PROVE  FlowInv(g)'
<1>1. KeepsRegistered /\ FlowInv(f) /\ FlowInv(g)
  BY FlowKeepsRegistered DEF IInv, FlowInv
<1>2. bracket'[g] = bracket[g]
  BY DEF FlowStep, WatchdogFires, RunFlow, RunUnbracketed, RunRefused, RunBracketed,
         CancelFlow, PauseBegins, PauseRefused, PauseEnds, Spawn, BodyReturns,
         BodyThrows, FlowIsOver, BeginResume, Resumed, ResumeFails, IInv, TypeOK
<1>3. target'[g] = target[g]
  BY DEF FlowStep, WatchdogFires, RunFlow, RunUnbracketed, RunRefused, RunBracketed,
         CancelFlow, PauseBegins, PauseRefused, PauseEnds, Spawn, BodyReturns,
         BodyThrows, FlowIsOver, Resumed, ResumeFails, IInv, TypeOK
<1>4. held'[<<"pause", g>>] = held[<<"pause", g>>]
  BY DEF FlowStep, WatchdogFires, RunFlow, CancelFlow, PauseBegins, PauseRefused,
         PauseEnds, DriverStopped, Spawn, BodyReturns, BodyThrows, FlowIsOver,
         Resumed, ResumeFails, IInv, TypeOK
<1>5. bracket[g] = "resuming" => g \in alive'
  <2> SUFFICES ASSUME bracket[g] = "resuming"
               PROVE  g \in alive'
    OBVIOUS
  <2>1. g \in alive
    BY <1>1 DEF FlowInv
  <2>2. CASE PauseEnds(f)
    <3>1. <<"pause", f>> \in DOMAIN held /\ Holds(held[<<"pause", f>>], target[f])
      BY <1>1 DEF IInv, TypeOK, FlowInv
    <3> QED
      BY <2>2, <3>1, ResumingStaysUp DEF PauseEnds
  <2>3. CASE ~ PauseEnds(f)
    <3>1. alive \ {f} \subseteq alive'
      BY <2>3 DEF FlowStep, WatchdogFires, RunFlow, CancelFlow, PauseBegins,
                  PauseRefused, Spawn, BodyReturns, BodyThrows, FlowIsOver,
                  BeginResume, Resumed, ResumeFails, world
    <3> QED
      BY <2>1, <3>1
  <2> QED
    BY <2>2, <2>3
<1> QED
  BY <1>1, <1>2, <1>3, <1>4, <1>5, FlowStays

(* The flow that moves.                                                    *)
LEMMA FlowStepKeepsItself ==
  ASSUME IInv, NEW f \in Flow,
         FlowStep(f) \/ WatchdogFires(f) \/ RunFlow(f) \/ CancelFlow(f)
  PROVE  FlowInv(f)'
<1>1. KeepsRegistered /\ FlowInv(f)
  BY FlowKeepsRegistered DEF IInv, FlowInv
<1>2. HoldsNext(held[<<"pause", f>>], target[f])
  BY <1>1, HoldsKept DEF FlowInv
<1>3. CASE RunFlow(f)
  <2>1. bracket[f] = "idle" /\ UNCHANGED held
    BY <1>3 DEF RunFlow
  <2>2. held'[<<"pause", f>>] = None
    BY <1>1, <2>1 DEF FlowInv
  <2>3. \/ bracket'[f] \in {"open", "over"}
        \/ bracket'[f] = "preparing" /\ target'[f] \in Session
    BY <1>3 DEF RunFlow, RunUnbracketed, RunRefused, RunBracketed, IInv, TypeOK
  <2> QED
    BY <2>2, <2>3 DEF FlowInv, Holds
<1>4. CASE CancelFlow(f) \/ Spawn(f)
  <2>1. UNCHANGED <<held, bracket, target, alive>>
    BY <1>4 DEF CancelFlow, Spawn, world
  <2> QED
    BY <1>1, <2>1, FlowStays DEF FlowInv
<1>5. CASE PauseBegins(f)
  <2>1. /\ target[f] \in Session /\ target'[f] = target[f]
        /\ bracket'[f] = "pausing"
        /\ held'[<<"pause", f>>] = active[target[f]]
    BY <1>1, <1>5 DEF PauseBegins, FlowInv, IInv, TypeOK
  <2>2. HoldsNext(active[target[f]], target[f])
    BY <1>1, <2>1, HoldsKept DEF IInv, SessionInv
  <2> QED
    BY <2>1, <2>2 DEF FlowInv, Holds, HoldsNext, Registered, Owned
<1>6. CASE PauseRefused(f)
  <2>1. /\ bracket'[f] = "over" /\ target'[f] = target[f]
        /\ UNCHANGED held
    BY <1>6 DEF PauseRefused, IInv, TypeOK
  <2> QED
    BY <1>2, <2>1 DEF FlowInv, Holds, HoldsNext, Registered, Owned
<1>7. CASE PauseEnds(f)
  <2>1. bracket'[f] = "open" /\ held'[<<"pause", f>>] = None
    BY <1>7 DEF PauseEnds, DriverStopped, IInv, TypeOK
  <2> QED
    BY <2>1 DEF FlowInv, Holds
<1>8. CASE BodyReturns(f) \/ BodyThrows(f) \/ WatchdogFires(f)
  <2>1. UNCHANGED <<held, target>>
    BY <1>8 DEF BodyReturns, BodyThrows, WatchdogFires, FlowIsOver
  <2>2. CASE BeginResume(f) /\ bracket[f] = "open"
    <3>1. \/ bracket'[f] = "over"
          \/ bracket'[f] = "resuming" /\ target[f] \in Session /\ f \in alive'
      BY <2>2 DEF BeginResume, IInv, TypeOK
    <3> QED
      BY <1>2, <2>1, <3>1 DEF FlowInv, Holds, HoldsNext, Registered, Owned
  <2>3. CASE UNCHANGED <<bracket, alive>>
    BY <1>1, <2>1, <2>3, FlowStays DEF FlowInv
  <2> QED
    BY <1>8, <2>2, <2>3 DEF BodyReturns, BodyThrows, WatchdogFires, FlowIsOver
<1>9. CASE Resumed(f) \/ ResumeFails(f)
  <2>1. /\ bracket'[f] = "over" /\ target'[f] = target[f]
        /\ UNCHANGED held
    BY <1>9 DEF Resumed, ResumeFails, IInv, TypeOK
  <2> QED
    BY <1>2, <2>1 DEF FlowInv, Holds, HoldsNext, Registered, Owned
<1> QED
  BY <1>3, <1>4, <1>5, <1>6, <1>7, <1>8, <1>9 DEF FlowStep

-----------------------------------------------------------------------------
(* A session in pausedSessions keeps the flow that will resume it.         *)

LEMMA SessionStepKeepsResumer ==
  ASSUME IInv, NEW s \in Session,
         SessionStep(s) \/ StartRecording(s) \/ StopAndCompile(s) \/ ForceCleanup(s)
  PROVE  PausedHasResumer'
<1>1. UNCHANGED <<bracket, target>>
  BY DEF SessionStep, StartRecording, StopAndCompile, ForceCleanup, RecordingStarted,
         RecordingFails, Weave, CompileEnds, CompileDriverStopped, ForceDriverStopped,
         ForceMarks, flows
<1>2. paused' \subseteq paused
  BY DEF SessionStep, StartRecording, StopAndCompile, ForceCleanup, RecordingStarted,
         RecordingFails, Weave, CompileEnds, CompileDriverStopped, ForceDriverStopped,
         ForceMarks, ForgetPause, manager
<1> QED
  BY <1>1, <1>2 DEF IInv, PausedHasResumer

LEMMA FlowStepKeepsResumer ==
  ASSUME IInv, NEW f \in Flow,
         FlowStep(f) \/ WatchdogFires(f) \/ RunFlow(f) \/ CancelFlow(f)
  PROVE  PausedHasResumer'
<1>1. FlowInv(f)
  BY DEF IInv
<1>2. \A g \in Flow : g # f => bracket'[g] = bracket[g] /\ target'[g] = target[g]
  <2> SUFFICES ASSUME NEW g \in Flow, g # f
               PROVE  bracket'[g] = bracket[g] /\ target'[g] = target[g]
    OBVIOUS
  <2>1. bracket'[g] = bracket[g]
    BY DEF FlowStep, WatchdogFires, RunFlow, RunUnbracketed, RunRefused, RunBracketed,
           CancelFlow, PauseBegins, PauseRefused, PauseEnds, Spawn, BodyReturns,
           BodyThrows, FlowIsOver, BeginResume, Resumed, ResumeFails, IInv, TypeOK
  <2>2. target'[g] = target[g]
    BY DEF FlowStep, WatchdogFires, RunFlow, RunUnbracketed, RunRefused, RunBracketed,
           CancelFlow, PauseBegins, PauseRefused, PauseEnds, Spawn, BodyReturns,
           BodyThrows, FlowIsOver, Resumed, ResumeFails, IInv, TypeOK
  <2> QED
    BY <2>1, <2>2
<1>3. SUFFICES ASSUME NEW s \in paused'
               PROVE  \E g \in Flow : target'[g] = s /\ bracket'[g] \in {"open", "resuming"}
  BY DEF PausedHasResumer
<1>4. CASE PauseEnds(f)
  <2>1. CASE s = target[f]
    <3>1. bracket'[f] = "open" /\ target'[f] = s
      BY <1>4, <2>1 DEF PauseEnds, IInv, TypeOK
    <3> QED
      BY <3>1
  <2>2. CASE s # target[f]
    <3>1. PICK g \in Flow : target[g] = s /\ bracket[g] \in {"open", "resuming"}
      BY <1>4, <2>2 DEF PauseEnds, IInv, PausedHasResumer
    <3> QED
      BY <1>2, <2>2, <3>1
  <2> QED
    BY <2>1, <2>2
<1>5. CASE ~ PauseEnds(f)
  <2>1. s \in paused
    BY <1>3, <1>5 DEF FlowStep, WatchdogFires, RunFlow, CancelFlow, PauseBegins, PauseRefused,
           Spawn, BodyReturns, BodyThrows, FlowIsOver, Resumed, ResumeFails, manager
  <2>2. PICK g \in Flow : target[g] = s /\ bracket[g] \in {"open", "resuming"}
    BY <2>1 DEF IInv, PausedHasResumer
  <2>3. CASE g # f
    BY <1>2, <2>2, <2>3
  <2>4. CASE g = f
    <3>1. ~ Resumed(f) /\ ~ ResumeFails(f)
      BY <1>3, <2>2, <2>4 DEF Resumed, ResumeFails
    <3>2. target'[f] = target[f]
      BY <1>5, <2>2, <2>4, <3>1 DEF FlowStep, WatchdogFires, RunFlow, CancelFlow,
         PauseBegins, PauseRefused, Spawn, BodyReturns, BodyThrows, FlowIsOver
    <3>3. bracket'[f] \in {"open", "resuming"}
      BY <1>5, <2>1, <2>2, <2>4, <3>1 DEF FlowStep, WatchdogFires, RunFlow, CancelFlow,
         PauseBegins, PauseRefused, Spawn, BodyReturns, BodyThrows, FlowIsOver,
         BeginResume, IInv, TypeOK
    <3> QED
      BY <2>2, <2>4, <3>2, <3>3
  <2> QED
    BY <2>3, <2>4
<1> QED
  BY <1>4, <1>5

-----------------------------------------------------------------------------
LEMMA NextIInv ==
  ASSUME IInv, Next
  PROVE  IInv'
<1>1. CASE \E s \in Session : SessionStep(s) \/ StartRecording(s) \/ StopAndCompile(s)
                              \/ ForceCleanup(s)
  <2>1. PICK s \in Session : SessionStep(s) \/ StartRecording(s) \/ StopAndCompile(s)
                              \/ ForceCleanup(s)
    BY <1>1
  <2>2. TypeOK'
    BY <2>1, StartRecordingType, RecordingStartedType, RecordingFailsType,
       StopAndCompileType, WeaveType, CompileEndsType, CompileDriverStoppedType,
       ForceCleanupType, ForceDriverStoppedType, ForceMarksType DEF SessionStep, IInv
  <2> QED
    BY <2>1, <2>2, SessionStepKeepsSessions, SessionStepKeepsFlows,
       SessionStepKeepsResumer DEF IInv
<1>2. CASE \E f \in Flow : FlowStep(f) \/ WatchdogFires(f) \/ RunFlow(f) \/ CancelFlow(f)
  <2>1. PICK f \in Flow : FlowStep(f) \/ WatchdogFires(f) \/ RunFlow(f) \/ CancelFlow(f)
    BY <1>2
  <2>2. bracket[f] \in {"preparing", "pausing", "resuming"} => target[f] \in Session
    BY DEF IInv, FlowInv
  <2>3. TypeOK'
    BY <2>1, <2>2, RunFlowType, PauseBeginsType, PauseRefusedType, PauseEndsType,
       SpawnType, BodyReturnsType, BodyThrowsType, WatchdogFiresType, CancelFlowType,
       ResumedType, ResumeFailsType
       DEF FlowStep, IInv, PauseBegins, PauseEnds, Resumed, ResumeFails
  <2> QED
    BY <2>1, <2>3, FlowStepKeepsSessions, FlowStepKeepsOthers, FlowStepKeepsItself,
       FlowStepKeepsResumer DEF IInv
<1> QED
  BY <1>1, <1>2 DEF Next, ClientStep

LEMMA StutterIInv ==
  ASSUME IInv, UNCHANGED vars
  PROVE  IInv'
<1>1. TypeOK' /\ PausedHasResumer'
  BY DEF IInv, TypeOK, PausedHasResumer, vars, manager, world, stops, flows
<1>2. ASSUME NEW s \in Session PROVE SessionInv(s)'
  BY DEF IInv, SessionInv, Holds, Registered, Owned, vars, manager, world, stops, flows
<1>3. ASSUME NEW f \in Flow PROVE FlowInv(f)'
  BY DEF IInv, FlowInv, Holds, Registered, Owned, vars, manager, world, stops, flows
<1> QED
  BY <1>1, <1>2, <1>3 DEF IInv

(* The inductive invariant holds whatever the handlers do.                 *)
THEOREM Invariance == Spec => []IInv
<1>1. IInv /\ [Next]_vars => IInv'
  BY NextIInv, StutterIInv
<1> QED
  BY InitIInv, <1>1, PTL DEF Spec

(* Every variable keeps its type.                                          *)
THEOREM TypeCorrect == Spec => []TypeOK
<1>1. IInv => TypeOK
  BY DEF IInv
<1> QED
  BY Invariance, <1>1, PTL

(* A paused session has a flow that will resume it.                        *)
THEOREM Resumable == Spec => []PausedHasResumer
<1>1. IInv => PausedHasResumer
  BY DEF IInv
<1> QED
  BY Invariance, <1>1, PTL

(* The driver execute_ui_action finds has not been stopped.                *)
THEOREM RegisteredIsAlive == Spec => []ActiveDriverIsAlive
<1>1. IInv => ActiveDriverIsAlive
  BY DEF IInv, SessionInv, ActiveDriverIsAlive, Active
<1> QED
  BY Invariance, <1>1, PTL

-----------------------------------------------------------------------------
LEMMA NextKeepsTerminal ==
  ASSUME IInv, [Next]_vars, NEW s \in Session, status[s] \in Terminal
  PROVE  status'[s] = status[s]
<1> USE DEF Terminal
<1>1. CASE UNCHANGED vars
  BY <1>1 DEF vars, manager
<1>2. CASE \E x \in Session : SessionStep(x) \/ StartRecording(x) \/ StopAndCompile(x)
                              \/ ForceCleanup(x)
  <2>1. PICK x \in Session : SessionStep(x) \/ StartRecording(x) \/ StopAndCompile(x)
                              \/ ForceCleanup(x)
    BY <1>2
  <2>2. CASE StartRecording(x) \/ StopAndCompile(x) \/ CompileEnds(x)
    BY <2>2 DEF IInv, TypeOK, StartRecording, StopAndCompile, CompileEnds
  <2>3. CASE RecordingFails(x) \/ ForceMarks(x)
    <3>1. status' = AbortedStatus(x)
      BY <2>3 DEF RecordingFails, ForceMarks
    <3> QED
      BY <3>1, AbortedType DEF IInv
  <2>4. CASE \/ RecordingStarted(x) \/ Weave(x) \/ CompileDriverStopped(x)
             \/ ForceDriverStopped(x) \/ ForceCleanup(x)
    BY <2>4 DEF RecordingStarted, Weave, CompileDriverStopped, ForceDriverStopped,
                ForceCleanup, manager
  <2> QED
    BY <2>1, <2>2, <2>3, <2>4 DEF SessionStep
<1>3. CASE \E f \in Flow : FlowStep(f) \/ WatchdogFires(f) \/ RunFlow(f) \/ CancelFlow(f)
  <2>1. PICK f \in Flow : FlowStep(f) \/ WatchdogFires(f) \/ RunFlow(f) \/ CancelFlow(f)
    BY <1>3
  <2>2. CASE ResumeFails(f)
    <3>1. status' = AbortedStatus(target[f]) /\ target[f] \in Session
      BY <2>2 DEF ResumeFails, IInv, FlowInv
    <3> QED
      BY <3>1, AbortedType DEF IInv
  <2>3. CASE ~ ResumeFails(f)
    BY <2>1, <2>3 DEF FlowStep, WatchdogFires, RunFlow, CancelFlow, PauseBegins,
       PauseRefused, PauseEnds, Spawn, BodyReturns, BodyThrows, FlowIsOver, Resumed,
       manager
  <2> QED
    BY <2>2, <2>3
<1> QED
  BY <1>1, <1>2, <1>3 DEF Next, ClientStep

(* A session that is done or aborted stays so, whoever comes late.         *)
THEOREM TerminalIsFinal == Spec => TerminalStays
<1>1. IInv /\ [Next]_vars =>
        [\A s \in Session : status[s] \in Terminal => status'[s] = status[s]]_vars
  BY NextKeepsTerminal
<1> QED
  BY Invariance, <1>1, PTL DEF Spec, TerminalStays

=============================================================================
