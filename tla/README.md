# Formal models of the mobile automator MCP server

TLA+ specifications of the stateful core of this repository, TLC configurations
that check them on small instances, and TLAPS proofs. The specifications are
translated from the TypeScript in `src/src/`; line numbers below and in
`PROJECT.json` refer to that code, and `PROJECT.json` maps every definition to
the lines it stands for.

How to run, from this directory:

    tlc -workers 2 -config TaskRegistry_lifecycle.cfg MCTaskRegistry.tla
    tlapm TaskRegistryProofs.tla

## 1. The system: inventory

The server is one Node process. Between two `await`s a handler runs alone, so
every race in it is a race between continuations: a handler that resumes after
an await finds a state that other handlers, timers or child processes changed.
Around it live other processes: `maestro mcp` and `maestro test` (JVMs that
both want port 7001 of the simulator), Proxyman (reached through an MCP child
process), builds, simulators.

| component | state | operations | what is hard | what makes it correct |
|---|---|---|---|---|
| **Task registry** `tasks/registry.ts` | `tasks` map, one `Task` record each (status, abort controller, cleanup stack, timers), `capWarnedKinds` | `start`, `run`, `execute`, `cancel`, the watchdog, `evictIfOverCap`, `pruneNow` | cancellation, watchdog and completion race; cleanups are awaited while a task is still live; retention removes tasks that others watch | an accepted cancel is final; a settled task never changes; a live task is never dropped; callers are answered |
| **Task handlers** `handlers.ts` 2330-2620 | none of their own; each awaiting call holds a task | `start_build/test/flow`, `build_app`, `run_test`, `run_flow`, `cancel_task`, `poll_task_status`, `get_task_result`, `list_tasks` | what a handler answers must stay true later | a poller sees running, cancelling, one final status, not found, in that order |
| **Session manager** `session/manager.ts` | status column, `activeDrivers`, `activePollers`, `pausedSessions`, `pausedRecords`, `flowExecutions`, mock ledgers, coverage | create, poll, stop, pause, resume, force cleanup, mark aborted | every operation has awaits in the middle and few look again afterwards | terminal sessions are final and hold nothing; a pause has an end; no driver leaks |
| **start/stop recording** `handlers.ts` | the session | `start_recording_session`, `stop_and_compile_test` | failure half-way through opening; a compile during a pause | the flow weaver is given complete markers |
| **run_test / run_flow** `handlers.ts` 1690-1800 | the bracket around a flow, its abort signal | `executeFlowWithPause`, watchdog, body | the watchdog resumes while the body still runs; two flows | a flow has the port alone and gives the session back |
| **Maestro daemon** `maestro/daemon.ts`, `daemon-driver.ts`, `retry.ts` | child process, pending requests, request ids, `initialized`; `daemonStarted`, `lastRespawnAt` | start, request with retry and respawn hook, respawn with cooldown, stop, CLI fallback | late answers, deaths during waits, stop against respawn | a reported action was done; no child is orphaned; every call ends |
| **Live mocks** `handlers.ts` 2890-3160, `proxymanMcp/client.ts` | ledger in the session manager; rules in Proxyman | `set_mock_response`, `clear_mock_responses`, sweeps | lost answers, repeats, two stores that drift | the ledger tells the truth; a sweep deletes its own scope only, and all of it |
| **Admin tools** `admin/handlers.ts` | none | `force_cleanup_session`, `force_cleanup_mocks`, lists | run beside everything else | what they clean stays clean |
| **Cleanup stack, runHandler** `cleanup.ts` | LIFO of actions, abort signal, watchdog | add, forget, runAll, `runHandler` | the body goes on after its timeout, while the cleanups are awaited | each cleanup runs once, in reverse order, and none after success |
| **Touch inferrer** `session/touch-inferrer.ts`, `maestro/hierarchy-differ.ts` | baseline snapshot, suppress flag, debounce, polling flag, timer | start, poll, stop, seed, boundary markers | a poll is in flight when the flag is set, `stop()` is called or the screen changes again | one change is one interaction; a recorded tap is not inferred a second time |
| **Feature test runner** `featureTest/runner.ts`, `cli/feature-test.ts` | phases, installed mocks, results | install, set up, act, assert, compile, tear down, clean up | a failure in the middle of any phase | the exit code is true; what was installed is removed |
| **Proxyman client** `proxymanMcp/client.ts` | `client`, `connectPromise`, the child | connect, callTool, close | the client is assigned before it is connected; a failing call closes what others use | one fault is survived; no child is left behind |
| **Proxyman CLI wrapper** `proxyman/wrapper.ts`, `verification/event-source.ts` | a two-second HAR cache | export, count, filter | cached data answered for another question, or stamped too late | an answer is fresh enough for its question |
| **Correlator, flow weaver, timeline** `synthesis/*` | none | pure functions of a session's data | window boundaries, equal times, a flow run twice | each request has its nearest cause, each flow its own steps |
| **YAML, stubs, segments** `synthesis/*`, `segments/*` | files | generate, write, register, look up | modes, fixture-id collisions, fingerprints of different data | the test replays the session; stubs answer what the server last did |
| **Network verification** `verification/*`, handlers | none | `verify_network_*` | anchors, boundaries of windows, counts | the verdict is the one of the definition |
| **Session database** `session/database.ts` | sql.js rows | insert, update, select | copies of what Proxyman also has | nothing is counted twice |
| **Stub server** `wiremock/runner.ts` | stub list, a port | start, match, stop | priority among matching stubs; who stops it | the best stub answers; the port is released |
| **Profiling** `profiling/*` | last pid, last CPU reading, timer, samples | start, timer, stop | the app is relaunched between two readings; timer beside stop | a share is computed from one process |
| **Loupe** `loupe/*` | injected or degraded, last observation | start, execute, settle, find ref | refs of an observation that is out of date | a tap hits what it names |
| **Ring buffer, flow registry, driver-level retry, builds, screenshots, CLI wrapper, hierarchy parsing, server, schemas, HTTP bridge** | little or none | text and subprocess I/O | none that a model checker reaches | - |

How they interact. `start_recording_session` creates a daemon driver and a touch
inferrer and registers both with the session manager. `execute_ui_action` and
the inferrer's polls go through that driver. `run_test` and `run_flow` ask the
manager to pause the session (stop inferrer and driver), run `maestro test` as
a task of the registry, and ask the manager to resume it; the markers that
pause and resume write into the inferrer's records are what the flow weaver
reads when `stop_and_compile_test` compiles the session. Mocks set for a
session are swept at that same stop. The compile merges the rows that
`get_network_logs` copied into the database with a fresh export, correlates
them with the interactions, weaves the flows in, and writes a test, stubs and a
timeline. `run_feature_test` calls all of these in turn. The admin tools can
cut into any of this.

## 2. Modules

| module | models | status |
|---|---|---|
| `TaskRegistry` | registry and its callers, one action per synchronous stretch of code | checked, proved |
| `TaskView` | abstract: what a polling client is promised | implemented by `TaskRegistry` (checked; safety part proved) |
| `FlowPauseResume` | session manager, recording handlers, force cleanup, `executeFlowWithPause` | checked, proved |
| `SessionLease` | abstract: the simulator's port as a lease between sessions and flows | implemented by `FlowPauseResume` with a serial client (checked; safety part proved) |
| `MockLedger` | mocks, ledger, sweeps, Proxyman as an external process | checked, proved |
| `MaestroDaemon` | child process, requests, retry, respawn, stop | checked, proved |
| `HierarchyDiff` | the diff of two snapshots and what it says about the user | used by `TouchInferrer` |
| `TouchInferrer` | the poller beside `execute_ui_action` and a person | checked, proved |
| `FeatureTest` | one run of a feature test and its command line | checked, proved |
| `Cleanup` | the cleanup stack and `runHandler` | checked, proved |
| `ProxymanClient` | the connection to Proxyman's MCP server | checked, proved |
| `HarCache` | the cached export of the traffic | checked, proved |
| `Synthesis` | correlator, weaver, timeline, YAML, stubs, stub server, segments, as operators | used by `SessionData` |
| `NetworkVerify` | the `verify_network_*` verdicts, as operators | used by `SessionData` |
| `SessionData` | the rows of a recording, Proxyman's log, the tools that read and compile both | checked, proved |
| `TestRun` | `runTestCore`: stub server, sampler, subprocess, abort | checked, proved |
| `LoupeDriver` | taps by ref, the cached observation, the settle loop | checked, proved |
| `ServicesProofs` | theorems about `Cleanup`, `HarCache`, `ProxymanClient`, `TestRun`, `LoupeDriver` and `FeatureTest` | every step proved |
| `FlowSerialProofs` | theorems about `FlowPauseResume` with a serial client | every step proved |
| other `*Proofs` | theorems about the module they are named after | every step proved |
| `MC*` | values for the constants of the module they are named after; `MCServices` composes seven modules | |

### TaskRegistry

Each field of the code's `Task` is a variable, a function of the task number;
the numbers follow the order of `start()`, which is the insertion order of the
code's `Map`. `runner[t]` says where `execute()` stands: *scheduled* (the
microtask queued by `start`), *body* (the runner is awaited), *cleanup*
(`cleanup.runAll()` is awaited after a throw), *settled*. The body itself does
whatever it likes: registers and forgets cleanups, returns, throws an
AbortError or another error, with or without an abort. `cancel()` and the
watchdog are `RequestCancel`, eviction is part of `Start` as in the code, with
its order (by `finishedAt`, stable, so by insertion among equals) and with the
one-shot warning. A client's `run` call waits for the terminal promise; a
`cancel_task` call polls the status until it is final or its own deadline is
over, so it can answer *cancelling*.

`TaskView` has two variables, the view of each task (*unknown, running,
cancelling*, a final status, *gone*) and the set of tasks that somebody bounds
in time. The refinement mapping reads the view from the `Map` and the status.

### FlowPauseResume

The handlers are cut at every await that other handlers can run during:
`driver.start()`, `driver.stop()`, the HAR export, `maestro test`, and the
microtask boundaries between `executeFlowWithPause`'s guard and
`pauseSession`. A driver is named after what created it, the session (opened)
or the flow (resumed), so that a stale registry entry is seen as such. Poll
records are reduced to the boundary markers, the only part the weaver pairs.
`bracket` and `body` are separate because the watchdog of `runHandler` resumes
the session while `runFlow` is still on its way out. `enabled` is the
environment switch MCA_FLOW_PAUSE_RESUME, fixed at start, either way.

Whether a client waits for an answer before its next call is what decides most
properties. `Overlap` names the handlers that are begun without waiting; with
`Overlap = {}` the client is serial but cancellations and timeouts still
interleave with every step.

Timeouts while a flow is being prepared, paused or resumed change nothing that
the model keeps; `stop_and_compile_test` needs the id that
`start_recording_session` answers, so it cannot begin while that one awaits,
while `force_cleanup_session` can (the id is listed).
The daemon driver degrades to the CLI rather than reject `start()`; the
rejections here (`RecordingFails`, `ResumeFails`) are those that the
`AutomationDriver` interface allows and both callers handle.

### MockLedger

A rule's name carries scope and mock id, which is what the tag prefix of the
code distinguishes. A request takes effect in Proxyman in one step and is
answered in another; the client repeats a call once after a transport failure,
so `create_scripting_rule` may have taken effect twice. `setting` is chosen
initially and stays: *careful* (fresh ids, reliable Proxyman, one handler),
*lossy* (ids repeated, answers lost, the user deletes rules), *concurrent*
(lossy, two handlers).

### MaestroDaemon

One driver object and its daemon. Children are numbered as they are spawned;
`queue` holds what each one has not answered yet and `performed` counts what
the device did for each call, which no variable of the code knows. A call is
its handshake (when it is the one that respawns), then its request, each with
attempts, waits and the once-only respawn hook. The `exit` handler resets the
daemon whichever child ended, as in the code, and request ids start again.
A child that does not answer, answers late, dies, or cannot be spawned is a
choice at every point. `cooling` abstracts the clock of the respawn cooldown: it may end
at any time. The requests that the respawn hook itself sends are one step.

Assumption: output that a child wrote before it died is read before its exit
is handled. Node allows the other order for the last chunk of output; an
answer read after the exit would meet request ids that start anew.

### TouchInferrer and HierarchyDiff

`pollOnce` awaits only the hierarchy read, so a poll is a read (which may fail
once, be repeated, and fail again) and one handler action, split by the early
returns of the code: no baseline yet, equal trees, suppressed, debounced,
nothing to infer, inferred. A snapshot is named by its position in `shown`, the
history of screens, so that the history tells whether two inferences come from
one change. `execute_ui_action` is cut at its awaits: snapshot, dispatch,
effect, answer, settle. Screens are flat sequences of nodes with the four
strings that the diff reads; `Verdicts` tabulates equality and inference for
every pair of screens, a matter of evaluation only.

The screen changes when an action takes effect (`Effect`), when what an action
began goes on (`Redraw`: a loading screen and then its result; the handler
waits for the screen to settle, the poller does not), and, where `Manual` is
TRUE, when a person touches it (`Touch`). A client may be *paced*: it acts again
only when the poller has seen what is on the screen. The flag of
`suppressNextInference` is good for one difference, whoever caused it, so it
cannot promise that no effect of an action is inferred (section 5): a touch that
the poller sees first uses it up, and so does the first of two redraws. What
it does for a paced client is to take one inference away for each action that
took effect: `ActionsNotInferred` counts. A client that acts faster has not
even that.

### SessionData, Synthesis and NetworkVerify

`Synthesis` and `NetworkVerify` are the pure functions, `SessionData` the
reachable inputs for them: a session in which taps, requests, tracking
requests, polls, flows and calls of `get_network_logs` and `register_segment`
come in any order at any of four times, Proxyman's log in either order, with a
request from before the session, and an export that fails at the compile.
Method, path and operation of a request are one with its url and an element with its
target; two urls share a fixture id, which is the collision the stub writer
resolves. Fingerprints are compared before hashing.

### FeatureTest, Cleanup, ProxymanClient, HarCache, TestRun, LoupeDriver

`FeatureTest`: a call of another handler is one step that succeeds or fails,
and one that fails may have had its effect; the ghosts `unanswered`,
`undeleted` and `performed` say what really happened.
`Cleanup`: a late body is one whose watchdog has fired; only
`executeFlowWithPause` has a watchdog, and registers one cleanup.
`ProxymanClient`: children are numbered; every await of `connect`, `callTool`
and `close` is a point where another caller goes on.
`HarCache`: time in seconds; an answer remembers when it was asked for, and for
which domains the cache it came from was filled.
`TestRun`: the steps of `runTestCore` with, inside it, the Android sampler, whose
calls of `collectSample` may overlap; the app may be relaunched.
`LoupeDriver`: a screen is the sequence of its elements' labels, a ref a
position in it, and a point is named by the ref of what is there; `stale`
collects what happened on the screen since an observation was made. A tap by
label goes by the ref of the kept observation or of a new one. If that has no
such element, or none can be had, it goes to the point or the middle of the
bounds that came with the label (`TapAt`), whatever is there, and fails only if
neither came.

## 3. The checks

| run | instance | what it shows |
|---|---|---|
| `tasks_lifecycle` | 2 tasks of a kind with cap 1, 1 client, 1 cleanup | live tasks stay reachable, an accepted cancel is final, answers stay true, a settled task has no timer left; callers are answered; the registry implements `TaskView` |
| `flows_serial` | 2 sessions, 2 flows, serial client | port exclusive, nothing leaks, terminal sessions hold nothing, the weaver gets complete pairs; implements `SessionLease` |
| `flows_overlap` | 1 session, 2 flows, everything overlaps | what holds however handlers interleave: a paused session has a flow that will resume it, a registered driver is alive |
| `flows_live` | 1 session, 2 flows, stop and flow overlap | a pause ends; a recording session gets a driver back or ends |
| `mocks_sweeps` | 2 sessions, 2 mock ids, 3 rules, 2 handlers, three settings | no drift and complete sweeps for a careful client; for every setting the ledger is sound and sweeps stay in scope |
| `daemon_calls` | a poll and a tool call, 2 attempts, 2 children | a reported action was done, on one channel; nothing spawns after stop; every call ends |
| `touch_polling` | an app of 4 screens, 4 shown, 2 actions and a person, a paced client and one that is not | one inference per change; for a paced client no more than there are changes with which no action took effect; none after stop; the baseline catches up |
| `services` | the seven modules of `MCServices`, one per behaviour | exit code and clean-up of a feature test; cleanups once, in reverse; reconnection; freshness; the compiled session (causes, stubs, timeline, test) and the verdicts; what a run_test releases; samples of one process; taps by label |
| `flows_doc_port` | 1 session, 2 flows | a documented claim that fails, see section 5 |
| `daemon_doc_twice` | as `daemon_calls` | a documented claim that fails |
| `data_doc_proxy` | 1 flow, 2 requests, 4 data | a documented claim that fails |
| `loupe_doc_tap` | 3 screens, 4 actions | a documented claim that fails |

Every property that passes is paired in `PROJECT.json` with a mutant: a form of
one operator with a plausible bug (`Op_Bug`, next to the operator) under which
TLC finds the property violated. No action uses a mutant.

Beside these, the directory has configurations that are not listed as runs: one
that passes, about retention (eviction, breach of the cap and pruning keep the
cap and forget the oldest result first), and eight documented claims that fail
(section 5):

    tlc -config TaskRegistry_retention.cfg MCTaskRegistry.tla       # passes
    tlc -config TaskRegistry_doc_cleanups.cfg MCTaskRegistry.tla    # CancelRunsCleanups fails
    tlc -config FlowPauseResume_doc_force.cfg FlowPauseResume.tla   # ForceCleansPaused fails
    tlc -config MockLedger_doc_autoclean.cfg MCMockLedger.tla       # AutoCleaned fails
    tlc -config TouchInferrer_doc_double.cfg MCTouchInferrer.tla    # RecordedNotInferred fails
    tlc -config SessionData_doc_duplicates.cfg MCSessionData.tla    # DuplicatesSkipped fails
    tlc -config SessionData_doc_order.cfg MCSessionData.tla         # MergedIsChronological fails
    tlc -config SessionData_doc_registry.cfg MCSessionData.tla      # RegisteredIsFound fails
    tlc -config SessionData_doc_payload.cfg MCSessionData.tla       # PayloadIsLatest fails

### Bounds, and why they are enough

*Tasks.* Cancellation concerns one task and its callers; the second task is
there so that eviction removes the one another client awaits. The retention
configuration needs a kind with room for two, so that a third start has to
choose between two finished tasks, and a kind with room for one, which is
breached by two live ones. Clock: finished in the same tick, or one tick apart,
and TTL 0 makes expiry possible. The proofs remove all these bounds for the
properties they cover.
*Flows.* The manager allows one pause at a time per session and refuses a flow
when two sessions are active: two sessions and two flows have every case of the
guard, and two pauses in a row show that records survive more than one.
With all handlers overlapping, one session is kept: sessions meet only through the guard
and the port, which the serial run has.
*Mocks.* Two rules under one name are the least that make a ledger entry stale;
a third allows a rule of another scope beside them. *Daemon.* Two children:
the one that died and its successor. Two attempts instead of three: the first
fails, the last succeeds or gives up.
*Touch.* The screens of `MCTouchInferrer` have one pair for each outcome of
the inference (a tap, text typed, a transition, nothing usable); the first is
the screen of a form (`FirstScreens`). Four screens shown are three changes: an
action, a redraw of it and a touch, or two actions with a change beside them.
A person who may touch the screen need not, so `Manual` = TRUE has the
behaviours without one. The proofs remove the bounds on screens, changes and
actions.
*Feature test.* Two of each list are a first and a last; the second of three
actions is a wait. *Cleanups.* Four registrations under two names: the most
recent of a name is not the only one, with another name above it.
*Client.* Two callers; four children are the first, one for each reconnection,
and one more. *Cache.* Three seconds are one more than its validity; two
domains and the two questions that differ by one of them.
*Data.* Four things recorded or read by a tool, of which at most two requests
and two reads: a request read twice has three copies; two requests and two
interactions have every order with equal times, window boundaries (a window of
two units, four times) and one request with two candidates for its cause; two
polls or executions of two flows meet the match tolerance of one.
*Test run.* One relaunch and two collectors: the sample before, the one after,
and the one that overlaps. *Loupe.* Two screens with the same labels at
exchanged places make every stale ref a wrong hit, the empty one a miss. One
point, the place of the first element, lies on either label, or on nothing.

`MaxTasks`, `MaxCleanups`, `MaxTime`, `MaxRules`, `MaxSpawns`, `MaxAttempts`,
`MaxShown`, `MaxActs`, `MaxAdds`, `MaxConns`, `MaxCalls`, `MaxTraffic`,
`MaxRequests`, `MaxData`, `MaxReads`, `MaxRelaunches`, `MaxSamples` and
`MaxActions` are the counters with a bound that the code does not have;
`MaxAttempts` (3) and `MaxScrolls` are the code's own constants made smaller.
`MaxSpawns` disables a respawn rather than a failure of it, so after the last
child calls that would respawn wait; they have not begun, and `EveryCallEnds`
speaks of calls that began.

Deadlock is checked in every run but those whose system ends: a stopped daemon
(`MaestroDaemon_*`), and the services, sessions and drivers of `Services`,
`SessionData_*` and `LoupeDriver_*`.

### Fairness

*Tasks.* The event loop runs microtasks and timers that are due. A runner is
only assumed to end once its signal is aborted (its children get SIGTERM, then
SIGKILL), and its cleanups are assumed to end. No runner is assumed to end by
itself, and clients need not call.
*Flows.* Every await answers: drivers start, stop or fail within the daemon's
timeouts, a flow ends within `testRunMs` at worst by SIGKILL. The watchdog, the client's calls and
cancellations are not fair.
*Daemon.* Request timers fire and the waits between attempts end. Children are
not assumed to answer, to die or to be killable.
*Touch.* The interval fires, and what follows the await of a poll is done. Reads may
fail, but one that is repeated for ever works now and then (`SF` for `ReadOk`):
a device whose hierarchy can never be read has no baseline to catch up with.
Nobody has to act or to stop.

## 4. The proofs

Every specification with theorems has one theorem of the form `Spec =>
[]IInv`, of an inductive invariant, and the other theorems follow from it.
`Invariance` and `IInv` are their names where a module has one specification;
the others are `SerialInvariance`, `DaemonInvariance`, `CleanupInvariance`,
`HarInvariance`, `ClientInvariance`, `TestInvariance`, `LoupeInvariance`,
`FeatureInvariance`, and for the recorded data `DataTypesHold` with
`FlowsRecordedHolds`. Every invariant that a run checks is proved.

**Tasks.** `TaskRegistryProofs` proves, for every number of tasks, clients,
kinds and cleanups and every cap and TTL (assumption `RegistryAssumption`:
these are natural numbers): `TypeCorrect`, `CoherentAlways`,
`CancellationFinal`, `LiveReachable`, `AnswersTrue`, `SettledClean`
(invariants), `SettledFinal`, `FirstReason`, `ForgetsOldestFirst`
(`OldestForgottenFirst`), `StartKeepsCap` (`CapHoldsAfterStart`) (action
properties) and `RegistryImplementsView` (every behaviour is one of
`TaskView`'s safety part).

The invariant. None of these is inductive alone. That a task with an accepted
cancel ends cancelled, for example, needs that its signal is set exactly when
a reason is recorded, that a status is final exactly when the runner settled,
and that a live runner is where `execute()` can still look at the signal.
`Coherent` collects those facts, and `IInv` regroups the whole conjunction
into what holds of one task (`TaskInv`) and of one call (`CallInv`). A step is
then checked on the task and the call it works on. `TaskFrame` and `CallFrame`
carry the rest: a task whose fields do not change and which leaves the map
only when finished keeps its invariant; a call that is not touched keeps its
own when no signal is withdrawn and no final status changes. `EvictedFinished`
is the fact about retention they rest on. The action properties and the
refinement follow from `IInv` and one lemma per kind of step.

Retention. `Evicted` counts, for each finished task, those that finished
before it. As that order is a strict linear one (`OrderOfFinish`), a task that
finished before an evicted one has fewer before it and is evicted too
(`EvictsInOrder`). If a finished task stays, take the first of those that stay
(`FirstFinished`; the strict subset order is well-founded): all before it are
evicted, and they are at least as many as the kind is over its cap
(`EvictsEnough`).

**Flows.** `FlowPauseResumeProofs` proves, for every number of sessions and
flows and every `Overlap` (assumption `FlowAssumption`: session ids, flows and
`None` are different): `TypeCorrect`, `Resumable` (`PausedHasResumer`),
`RegisteredIsAlive` (`ActiveDriverIsAlive`), `TerminalIsFinal`
(`TerminalStays`).

The second is the one that could go wrong: `pauseSession`,
`stop_and_compile_test` and `forceCleanup` each read the registered driver,
await its `stop()`, and delete the registry entry of the session, whatever it
holds by then. A registered driver stays alive because of two facts about
every driver that is in the registry or in a handler's hands (`Holds`): it
belongs to that session (`Owned`), and its `start()` has answered for good
(`Registered`). So a handler of one session never stops the driver of another
(`OneOwner`), and never one that a resume is just starting
(`ResumingStaysUp`). The lemmas are grouped by what a step does with drivers:
it ends one that was never registered (`NoneRegistered`), takes one to stop it
(`DriverTaken`), has stopped it (`DriverDown`), registers one
(`DriverRegistered`).

**Flows, one call at a time.** `FlowSerialProofs` adds what holds only of a
client that waits for each answer. The theorems have the hypothesis `Overlap =
{}`, the value of the serial run, and still any number of sessions and flows,
cancellations and watchdogs between any two steps: `PortIsExclusive`
(`PortExclusive`), `NoLeak` (`NothingLeaks`), `TerminalQuiet`
(`TerminalIsQuiet`), `WeaverGetsAll` (`WovenComplete`) and `SerialLease`
(every behaviour is one of `SessionLease`'s safety part).

`SerialInv` has four parts. `OneHandler`: at most one handler is between two
of its steps, so that what a handler read before an await still holds behind
it. `SessionPhase` and `FlowPhase`: where that handler stands fixes the
status, driver, poller, pause and markers of the session it works at; every
session without a handler is at rest (`AtRest`). `Paired` and `Opened`
describe the markers by index: two for each recorded execution, and one more
start while a flow has the session paused. `DriversKnown` and `TimersKnown`: a
driver is up or a timer running exactly where a phase says so. A step is
checked on its own session (the `Serial...` lemmas, one per action);
`OtherSessionStays` and `SessionBesideStays` carry the others. For the
refinement `PortPhase`, the view `SessionLease` has of each session, is a
function of the phase, so each action is matched with the one action of the
lease that makes its move, or with a stutter (`LeaseOfSession`,
`LeaseOfFlow`). `WovenComplete` holds by `Paired` of what the weaver was
given.

**Mocks.** `MockLedgerProofs` proves, for every number of sessions, mock ids,
rules and handlers and every setting (assumption `LedgerAssumption`, which has
the handlers finite): `TypeCorrect`, `LedgerTrue` (`LedgerSound`), `OwnScope`
(`SweepsOwnScope`), `ClearForgets` (`ClearForgetsOnlyDeleted`), and for a
careful client `NoDrift` (`DriftFree`) and `SweepsClean` (`SweptClean`).

Both of the first speak of what a handler read before an await. `IInv` says of
every request in flight that its rules bear the names it has for them and lie
in its scopes (`Held`), and of a clear that runs alone that it still agrees
with the ledger (`InStep`). Drift needs more: `CarefulInv` says what exactly
the handler in progress has yet to file or to delete, so that rules and ledger
agree once it is idle (`CarefulExact`).

**Touch.** `TouchInferrerProofs` proves, for every app (any set of screens),
any history and any number of actions (assumptions `TouchAssumption`,
`DiffAssumption`): `TypeCorrect`, `OnceInferred` (`OneInferencePerChange`),
`RecordedOnce` (`ActionsNotInferred`), `QuietAfterStop`
(`StoppedInfersNothing`).

Inferences are counted by where the baseline is (`Counted`): each moves it
forward along the snapshots, and no poll moves it back (`Ordered`). For a paced
client they are counted also by what may still be inferred (`Accounted`): the
differences that the poll in flight and the next one can find (`Unseen`, at
most two), one less if the next of them is suppressed, one more for an action
that is about to take effect without the flag (`Inferable`). Together with the
inferences made these never exceed the changes that are not effects of actions:
an inference is one more made and one less to be made, a redraw or a touch adds
at most one to either side, and an effect adds to neither, since it was counted
before or the flag takes it away. A paced client acts when nothing is left to
be inferred. That the polls find no more differences than these needs that
equality of screens is transitive (`areEqualTrees` compares what trees
contain). A poll that outlives `stop()` has no baseline (`Disarmed`). The
proofs use of the diff only this and that an inference bears one of two
sources.

**Feature test.** `ServicesProofs` proves, for specs with lists of any
length (assumption `SpecAssumption`): `FeatureTypeCorrect`, `ExitTrue`
(`ExitCodeIsTrue`), `LeavesNothing` (`RunLeavesNothing`). Both of the last speak
of the end of a run. `FeatureInv` says what each phase leaves to the next: which
rules can exist and which of them the clean-up has passed already
(`MocksKnown`), that the recording is not open behind a compile that succeeded
(`RecordingEnds`), which actions the device has performed (`DeviceActs`), and
which flows and assertions have passed so far (`Progress`).

**Daemon.** `MaestroDaemonProofs` proves, for any calls, attempts and children
(assumption `DaemonAssumption`): `DaemonTypes`, `SuccessIsReal`
(`SuccessMeansPerformed`), `ActsOnOneChannel` (`OneChannel`),
`StopKillsEveryChild` (`StopLeavesNoChild`) and `StoppedForGood`
(`NothingSpawnsAfterStop`).

The hazard is that request ids start again with every child while requests of
the last one may be on their way. `IdsMatch` says that a pending id stands for
the request that a child has under it and for no other. It is kept because a
daemon that holds a child has that child and no other alive, and one that
holds none has no request pending (`OneChild`), and because the ids in use are
below the counter (`IdsBelow`). After `stop()` a child may outlive its kill;
by `Phases` nothing is asked of a daemon any more then. `Unasked` is the half
of `OneChannel` that looks ahead: of a call that has not passed its handshake,
or went to the CLI, nothing is performed and nothing is queued.

**Cleanups.** `ServicesProofs` proves for bodies of any length
`CleanupsRunOnce` (`CleanedUpOnce`). `RanBackwards`: what has run is the end
of what was on the stack, last one first, by index. `Stacked`: only a late
body can still register or forget while the cleanups run, and it has at most
one entry, so that the loop meets every entry where it stood. That `forget`
removes an entry of the stack needs that a non-empty finite set of indices has
a maximum (`LastIndex`).

**Traffic.** `AnswersAreFresh` (`AnswerIsFresh`), for any readers, domains and
times: by `Covered`, data that is kept or exported has every request of its
domains that was made before its time stamp, whoever exported it.

**Connection.** `ReconnectsCleanly` (`ReconnectIsClean`), for any number of
calls and connections. While calls have not overlapped (`OneCall`), the call
under way uses the current connection, and only that one can be alive
(`OneConnection`); each of its attempts that failed is a fault that was
counted (`Faulty`).

**Run.** For any number of samples, relaunches and collections side by side
`ServicesProofs` proves `Releases` (`RunReleases`) and `OneProcessSampled`
(`SamplesAreOfOneProcess`). `Held` gives of every resource the steps at which
it may exist; the exits are outside all of them, whenever the signal came.
`OneProcess` says that while collections do not overlap, the last reading of
the CPU is of the process that is read next, or there is none: a collection
that resolves the process anew has dropped it.

**Loupe.** For any screens and any number of actions (assumption
`LoupeAssumption`: screens and refs are numbered from 1): `HitsNamed`
(`TapHitsNamed`). By `Current` an observation that nothing unforeseen has
happened to is of the screen shown: the one that is kept, the one a settle has
fetched and may be about to keep, and the one in which a tap on its way was
resolved. A tap on its way by a point has by then an element that is not on
the screen, unless no observation was had.

**Session data.** `SessionDataProofs` proves, for sessions of any length, any
targets, flows, urls and fixture ids (assumption `DataAssumption`: times are an
interval of naturals, the window and the match tolerance are naturals, and an
ordinary url and the tracking url exist), `CausesAreNearest` (`NearestCause`),
`StubsServeLatest` (`StubsAreLatest`), `TimelineAgrees` (`TimelineAddsUp`),
`VerdictsHold` (`VerdictsAreTrue`) and `ReplayIsRecorded`
(`ReplayIsTheSession`).

Four of these speak of what the tools compute, whatever was recorded: they
follow from the types of what is recorded (`DataTypes`) and from lemmas that
say what each function returns. The lists come first: `ByTime` is a permutation
in order of time (`ByTimeIs`), a filtered list has the elements that satisfy
the condition, in their order (`KeptAtIs`, `KeptSorted`), a merged one each key
once (`MergedOnce`). From these: the nearest interaction is the last cause, or
there is none (`NearestIs`); the captures of all steps, read step by step, are
in order of time, so that the last one of a fixture is the latest
(`CompiledCaptures`, `stubIs`); a request is in one step and once in it
(`InSteps`), so that the matched events are as many as the places they have in
steps (`MatchedIs`). The cursor of
`verify_network_sequence` gets past the expected calls exactly if requests meet
them one after the other, and gets there without a deviation exactly if the
first requests do (`CursorTells`); `verify_network_on_screen`, when it passes,
has given each expected call a request of its own (`OnScreenHolds`).

`ReplayIsTheSession` is not a fact about functions alone. The weaver pairs the
boundaries among the poll records, takes for each pair an execution of its flow
that started within a tolerance, and would weave one flow as another if the
recording could confuse it: a boundary without its partner, a flow twice at one
moment. `FlowsRecorded` says that it does not: the boundaries of the records
are those of the executions, two by two and in their order, and each execution
started later than the one before it. It is inductive (`FlowsStep`), because a
record that is no boundary leaves the boundaries alone and one that is one is
put behind them (`MarksAppend`, from `KeptAppend`), and because a flow takes
time. Given it, the boundaries pair up as the flows ran (`PairsRecorded`), the
k-th pair finds the k-th execution first among those that are left
(`WovenSoFar`), and no other execution has its key (`OwnSteps`).

Induction over a list is stated of a set of naturals (`NatInd`, from
`NatLeast`), since no installed prover instantiates an operator; that a
recursive function exists at all is `Recursion`. That is why the models sort by
counting (`Place`), filter by a set of indices in order (`KeptAt`), and fold
with a recursive function: each of these has a definition a prover can expand,
and `ByTime` is the same stable sort, `KeptAt` the same filter as the code's.

**Only model-checked.** Liveness (`CallsAreAnswered`, the liveness parts of
`TaskView` and `SessionLease`, `PauseIsOver`, `RecordingRecovers`,
`EveryCallEnds`, `CatchesUp`) is beyond the prover, which has no ENABLED and
so no use of fairness.

The documented claims that fail (section 5) are refuted by TLC on an instance,
which settles them. What the model takes from outside the code, such as how
Proxyman, Maestro or a device answer, is a choice in every model and nothing is
proved of it.

## 5. Where the code and its documents disagree

Each is a configuration in which TLC refutes the documented claim; the first
four are runs of `PROJECT.json`.

* `ResumesBesideNoFlow`. driver-conflict.ts:10-12 says that `maestro test` has
  no way to share the port with a daemon driver. While one flow has the session
  paused no driver is registered, so a second flow runs without a bracket
  (handlers.ts:1709), and the first one, when its body ends, restarts the daemon
  beside the second one's subprocess.
* `NeverPerformedTwice`. maestro/retry.ts:4-7 says that only reads are retried,
  because a repeated tap may act twice. The daemon's own `sendRequest` repeats
  every request after a timeout, taps and text input included
  (daemon.ts:545).
* `UnmockedReachesServer`. stub-writer.ts:7 and README.md:20 say that unmocked
  routes are proxied to the real server. The stub writer's catch-all mapping
  has a `proxyBaseUrl`, which the stub server does not know: it answers an
  empty 200 (wiremock/runner.ts:226).
* `TapHitsTarget`. loupe-driver.ts:269-270 says that a replay hits the target that was
  hit live. Typing, and a command whose answer is lost, keep the cached
  observation, and a later tap by label goes by its refs. The claim is about taps
  that go by a ref: one that falls back to its point hits whatever is there
  (loupe-driver.ts:286-290). `TapHitsNamed` says what does hold of both.
* `RecordedNotInferred`. touch-inferrer.ts:337 and handlers.ts:890 say that the
  suppression prevents the double logging of an action. The flag is cleared by
  the first difference (touch-inferrer.ts:475-476); an action that redraws the
  screen twice, with a poll after each, is inferred the second time, for a paced
  client alone on the device too. `ActionsNotInferred` says what does hold.
* `CancelRunsCleanups`. README.md:48 and handlers.ts:2555 say that `cancel_task`
  runs the cleanups. A runner that returns a value after the abort is settled
  as cancelled without `runAll()`: only the catch branch runs them
  (registry.ts:245).
* `ForceCleansPaused`. manager.ts:428-429 says that `forceCleanup` leaves a
  paused session clean. A resume that awaits its driver's start goes on
  afterwards and registers driver and poller for the aborted session
  (manager.ts:588).
* `AutoCleaned`. handlers.ts:2902-2903 says that session mocks are cleaned at the
  stop. After the same id was set twice and cleared once the ledger is empty,
  and the sweep returns early (handlers.ts:3111).
* `DuplicatesSkipped`. database.ts:312 says that INSERT OR IGNORE skips
  duplicates; no unique key covers a network event, so calling
  `get_network_logs` twice inserts its events twice. The compile removes the
  copies again (`TimelineAddsUp`).
* `MergedIsChronological`. event-source.ts:61 calls the merge chronological; it
  appends what Proxyman has to what the database has.
* `PayloadIsLatest`. wrapper.ts:500 takes the last match in the HAR for the most
  recent one; the same file says that the HAR is not ordered.
* `RegisteredIsFound`. `register_segment` (handlers.ts:1626) fingerprints
  the steps of the database alone, the compile those of the merged events:
  a session need not match its own registration.

Met while modelling, and visible in the models, without a run of their own:

* A child whose handshake failed stays in `process`. The next check after the
  cooldown finds it, `start()` returns at once, and `ensureDaemonAliveOrFalse`
  answers that the daemon is usable (daemon-driver.ts:41-44); an action then
  fails with "not started" where the CLI could have served it.
* `MaestroDaemonDriver.stop()` does nothing when `start()` had failed, so the
  child of a failed handshake is not killed. `StopLeavesNoChild` is claimed for
  drivers that did start.
* The watchdog of a flow restarts the session's daemon while the subprocess is
  only asked to end, so for a moment both may want the port. `PortExclusive`
  speaks of flows that still have their bracket.
* A flow that timed out is recorded as not cancelled.
* A `stop_and_compile_test` that is called during a flow leaves the session
  done and then resumed by the flow, with a driver.
* `start_recording_session` does not ask whether a flow is running, and a flow
  that begins while a session is still opening its driver sees none registered:
  it runs without a bracket, and the two share the port.
* The schema says of `point` that it takes precedence over all other selectors
  (schemas.ts:31-35); the Loupe driver uses it last (loupe-driver.ts:286), and
  with a label that is not on the screen taps the point and reports success.
* docs/architecture.md describes pause and resume as off by default; the code
  has it on unless the variable is "off".
* registry.ts:334-336 describes the status after a cancel as "cancelled or
  failed"; a cancelled task is never failed (proved: `CancellationFinal`).
* `verify_network_on_screen` assigns events to matchers greedily, in order, and
  can report a miss where another assignment has none (handlers.ts:1151).
* `get_network_logs` with a limit keeps the first rows, not the latest.
* An AI's tap in an instrumented app is recorded by the handler and by the
  app's own tracking, and is replayed twice (handlers.ts:493).
* Of two urls with one fixture id one stub is lost (stub-writer.ts:70).
* No compiled timeline has an entry `session_stopped`: it is
  written after the compile (timeline-builder.ts:236).
* The HAR cache is not keyed by the domains asked for: `AnswerIsFresh` speaks of
  those asked for both times (wrapper.ts:402).
* Calls to Proxyman that fail side by side leave a child behind: the second
  `close()` forgets the connection that the first reconnect has just set
  (client.ts:148). `ReconnectIsClean` is claimed for calls that do not overlap.
* With the fallback switched on an action may be performed by the daemon and by
  the CLI (featureTest/runner.ts:285-296).
* "Teardown — always run" (featureTest/runner.ts:324) is skipped by the early
  returns of the phases before.
* A mock rule whose creation was not answered, or whose deletion failed, stays
  (`RunLeavesNothing` names both).
* Two `collectSample` calls that overlap can compare two processes' CPU
  ticks (lightweight-android-profiler.ts:116); `SamplesAreOfOneProcess` is
  claimed for samples that do not overlap.
* `setAppContext` for another bundle keeps the last observation
  (loupe-driver.ts:102). The driver of actions without a session is never
  stopped and holds the port beside `run_test` (handlers.ts:759).

## 6. Not modelled

Reported under "components" in `PROJECT.json`. Subprocess and text work
(build invocation, screenshots, hierarchy parsing, HAR parsing, schemas,
transport) has no state that interleavings could disturb. The ring buffer is a
sequential buffer on which no other state depends. In the modelled components the
following is left out: `list_active_mocks` and the `list_*` tools (reads only);
the contents of tool results in `MaestroDaemon`; the prune timer's start and
stop in `TaskRegistry`; nesting of nodes and 32-bit hash collisions in
`HierarchyDiff`; JSON paths, percentiles and payload matching in
`NetworkVerify`; selectors, comments and file names in `Synthesis`; snapshots
and migrations of the database; the xctrace and simpleperf profilers in
`TestRun`; a change of bundle, and elements with several names, in
`LoupeDriver`; the exit with 0 of `--help` in `FeatureTest`. A restart of the server is not
modelled: the registries are in memory and begin empty.

## 7. Plan

Done: all modules of section 2, and proofs of every safety property that a run
checks.

Next, proofs: `SessionLease` with overlapping handlers, for those overlaps that
keep the port exclusive; that `verify_network_on_screen` misses nothing where
no request matches two of the expected calls.

Next, models: `MockLedger` as an implementation of a set of rules with atomic
operations; `SessionData` composed with the records of `FlowPauseResume`, so
that the weaver's input is what pauses really write; `LoupeDriver` with a
change of bundle.
