---------------------------- MODULE TaskRegistry ----------------------------
(***************************************************************************)
(* The in-process registry of long-running tasks (src/tasks/registry.ts)   *)
(* and the MCP handlers that start, await and cancel tasks                 *)
(* (src/handlers.ts).                                                      *)
(*                                                                         *)
(* A task is executed by an asynchronous runner.  Everything between two   *)
(* awaits is one step here: the registry has no other interleaving points. *)
(* The client's calls, the runner's completion, the watchdog timer and the *)
(* prune timer interleave freely at those points.                          *)
(*                                                                         *)
(* Tasks are numbered in the order they are started, so the order of the   *)
(* task numbers is the insertion order of the code's Map.                  *)
(***************************************************************************)
EXTENDS Naturals, FiniteSets

CONSTANTS
  MaxTasks,     (* how many tasks are ever started                        *)
  Kind,         (* the task kinds: build, test, flow, ...                 *)
  Cap,          (* Cap[k]: maxRetained, how many tasks of k are kept      *)
  MaxCleanups,  (* how many cleanups one runner has registered at a time  *)
  TTL,          (* retention of a finished task, in clock ticks           *)
  MaxTime,      (* bound on the clock                                     *)
  Caller        (* clients that await an answer                           *)

ASSUME RegistryAssumption ==
  /\ MaxTasks \in Nat
  /\ Cap \in [Kind -> Nat]
  /\ MaxCleanups \in Nat
  /\ TTL \in Nat
  /\ MaxTime \in Nat

Task == 1 .. MaxTasks

VARIABLES
  next,         (* number of the next task                                *)
  tasks,        (* the keys of the registry's Map                         *)
  kind,         (* kind of a started task                                 *)
  status,       (* Task.status, "none" before the task is started         *)
  runner,       (* where execute() stands in a task                       *)
  thrown,       (* what the runner threw: an AbortError, another Error    *)
  aborted,      (* controller.signal.aborted, and cleanup.signal.aborted  *)
  cancelReason, (* Task.cancelReason: who asked for the cancellation      *)
  result,       (* whether Task.result is set                             *)
  error,        (* Task.error: what the message reports                   *)
  finishedAt,   (* Task.finishedAt                                        *)
  watchdog,     (* whether the task's watchdog timer is pending           *)
  cleanups,     (* how many cleanup actions are registered and not run    *)
  capWarned,    (* capWarnedKinds                                         *)
  now,          (* Date.now()                                             *)
  calls         (* what each caller waits for, and its answer             *)

exec   == <<runner, thrown, cleanups>>
cancel == <<aborted, cancelReason>>
outcome == <<result, error, finishedAt>>
vars   == <<next, tasks, kind, status, exec, cancel, outcome, watchdog,
            capWarned, now, calls>>

Terminal  == {"done", "failed", "cancelled"}
Live      == {"running", "cancelling"}
Status    == {"none"} \cup Live \cup Terminal
Requester == {"user", "watchdog"}
Idle      == [op |-> "idle", task |-> 0, answer |-> "none"]

TaskTypeOK ==
  /\ next \in 1 .. MaxTasks + 1
  /\ tasks \in SUBSET Task
  /\ kind \in [Task -> Kind \cup {"none"}]
  /\ status \in [Task -> Status]
  /\ runner \in [Task -> {"none", "scheduled", "body", "cleanup", "settled"}]
  /\ thrown \in [Task -> {"none", "AbortError", "Error"}]
  /\ aborted \in [Task -> BOOLEAN]
  /\ cancelReason \in [Task -> {"none"} \cup Requester]
  /\ result \in [Task -> BOOLEAN]
  /\ error \in [Task -> {"none", "runner", "ignored abort"} \cup Requester]
  /\ finishedAt \in [Task -> Nat]
  /\ watchdog \in [Task -> BOOLEAN]
  /\ cleanups \in [Task -> 0 .. MaxCleanups]
  /\ capWarned \in SUBSET Kind
  /\ now \in 0 .. MaxTime

Call == [op     : {"idle", "run", "cancel"},
         task   : Task \cup {0},
         answer : {"none", "waiting", "notFound", "refused"}
                  \cup Live \cup Terminal]

TypeOK == TaskTypeOK /\ calls \in [Caller -> Call]

Init ==
  /\ next = 1
  /\ tasks = {}
  /\ kind = [t \in Task |-> "none"]
  /\ status = [t \in Task |-> "none"]
  /\ runner = [t \in Task |-> "none"]
  /\ thrown = [t \in Task |-> "none"]
  /\ aborted = [t \in Task |-> FALSE]
  /\ cancelReason = [t \in Task |-> "none"]
  /\ result = [t \in Task |-> FALSE]
  /\ error = [t \in Task |-> "none"]
  /\ finishedAt = [t \in Task |-> 0]
  /\ watchdog = [t \in Task |-> FALSE]
  /\ cleanups = [t \in Task |-> 0]
  /\ capWarned = {}
  /\ now = 0
  /\ calls = [c \in Caller |-> Idle]

-----------------------------------------------------------------------------
(* Retention: start() evicts the oldest finished tasks of its kind.        *)

(* Forms of the operators below with a plausible bug are named Op_Bug; no  *)
(* action uses them, each breaks one property (PROJECT.json, mutants).     *)

OfKind(k) == {t \in tasks : kind[t] = k}

Finished_AnyStatus(k) == OfKind(k)

Finished(k) == {t \in OfKind(k) : status[t] \in Terminal}

(* The order of evictIfOverCap: by finishedAt, and, as the sort is stable, *)
(* by insertion among tasks that finished in the same clock tick.          *)
FinishedBefore(t, u) ==
  \/ finishedAt[t] < finishedAt[u]
  \/ finishedAt[t] = finishedAt[u] /\ t < u

OverCap_BeforeInsert(k) ==
  IF Cardinality(OfKind(k)) > Cap[k] THEN Cardinality(OfKind(k)) - Cap[k] ELSE 0

(* How many tasks of kind k there are beyond the cap once one is added.    *)
OverCap(k) == IF Cardinality(OfKind(k)) + 1 > Cap[k]
              THEN Cardinality(OfKind(k)) + 1 - Cap[k]
              ELSE 0

Evicted_NewestFirst(k) ==
  {t \in Finished(k) :
     Cardinality({u \in Finished(k) : FinishedBefore(t, u)}) < OverCap(k)}

Evicted(k) ==
  {t \in Finished(k) :
     Cardinality({u \in Finished(k) : FinishedBefore(u, t)}) < OverCap(k)}

(* The one-shot warning is armed again by any eviction of the kind.        *)
WarnedAfter(k) ==
  IF OverCap(k) = 0 THEN capWarned
  ELSE IF Evicted(k) # {} THEN capWarned \ {k} ELSE capWarned \cup {k}

-----------------------------------------------------------------------------
(* start(): the task enters the Map, older ones leave it, the watchdog is  *)
(* armed when the caller gave a timeout, the runner is queued.             *)

Start(k, timed) ==
  /\ next \in Task
  /\ next' = next + 1
  /\ tasks' = (tasks \ Evicted(k)) \cup {next}
  /\ capWarned' = WarnedAfter(k)
  /\ kind' = [kind EXCEPT ![next] = k]
  /\ status' = [status EXCEPT ![next] = "running"]
  /\ runner' = [runner EXCEPT ![next] = "scheduled"]
  /\ watchdog' = [watchdog EXCEPT ![next] = timed]
  /\ UNCHANGED <<thrown, cleanups, cancel, outcome, now>>

(* start_build, start_test, start_flow: the caller gets the id at once.    *)
StartTask(k, timed) == Start(k, timed) /\ UNCHANGED calls

(* build_app, run_test, run_flow: registry.run() starts the task and then  *)
(* awaits its terminal promise.                                            *)
RunTask(c, k, timed) ==
  /\ calls[c].answer # "waiting"
  /\ Start(k, timed)
  /\ calls' = [calls EXCEPT ![c] =
                 [op |-> "run", task |-> next, answer |-> "waiting"]]

RunReply(c) ==
  /\ calls[c].op = "run"
  /\ calls[c].answer = "waiting"
  /\ status[calls[c].task] \in Terminal
  /\ calls' = [calls EXCEPT ![c].answer = status[calls[c].task]]
  /\ UNCHANGED <<next, tasks, kind, status, exec, cancel, outcome, watchdog,
                 capWarned, now>>

-----------------------------------------------------------------------------
(* execute(): the runner's life.                                           *)

ExecuteBegin(t) ==
  /\ runner[t] = "scheduled"
  /\ runner' = [runner EXCEPT ![t] = "body"]
  /\ UNCHANGED <<next, tasks, kind, status, thrown, cleanups, cancel, outcome,
                 watchdog, capWarned, now, calls>>

AddCleanup(t) ==
  /\ runner[t] = "body"
  /\ cleanups[t] < MaxCleanups
  /\ cleanups' = [cleanups EXCEPT ![t] = @ + 1]
  /\ UNCHANGED <<next, tasks, kind, status, runner, thrown, cancel, outcome,
                 watchdog, capWarned, now, calls>>

ForgetCleanup(t) ==
  /\ runner[t] = "body"
  /\ cleanups[t] > 0
  /\ cleanups' = [cleanups EXCEPT ![t] = @ - 1]
  /\ UNCHANGED <<next, tasks, kind, status, runner, thrown, cancel, outcome,
                 watchdog, capWarned, now, calls>>

Settle_KeepsTimer(t) ==
  /\ runner' = [runner EXCEPT ![t] = "settled"]
  /\ finishedAt' = [finishedAt EXCEPT ![t] = now]
  /\ UNCHANGED watchdog

(* The finally block.                                                      *)
Settle(t) ==
  /\ runner' = [runner EXCEPT ![t] = "settled"]
  /\ watchdog' = [watchdog EXCEPT ![t] = FALSE]
  /\ finishedAt' = [finishedAt EXCEPT ![t] = now]

StatusOnReturn_IgnoresSignal(t) == "done"

(* The runner returned: its value counts only when nobody asked to cancel. *)
StatusOnReturn(t) == IF aborted[t] THEN "cancelled" ELSE "done"

RunnerReturns(t) ==
  /\ runner[t] = "body"
  /\ status' = [status EXCEPT ![t] = StatusOnReturn(t)]
  /\ result' = [result EXCEPT ![t] = StatusOnReturn(t) = "done"]
  /\ error' = [error EXCEPT ![t] = IF aborted[t] THEN "ignored abort" ELSE @]
  /\ Settle(t)
  /\ UNCHANGED <<next, tasks, kind, thrown, cleanups, cancel, capWarned, now,
                 calls>>

(* The runner threw: the task keeps its status while runAll() is awaited.  *)
RunnerThrows(t, err) ==
  /\ runner[t] = "body"
  /\ runner' = [runner EXCEPT ![t] = "cleanup"]
  /\ thrown' = [thrown EXCEPT ![t] = err]
  /\ UNCHANGED <<next, tasks, kind, status, cleanups, cancel, outcome,
                 watchdog, capWarned, now, calls>>

RunCleanup(t) ==
  /\ runner[t] = "cleanup"
  /\ cleanups[t] > 0
  /\ cleanups' = [cleanups EXCEPT ![t] = @ - 1]
  /\ UNCHANGED <<next, tasks, kind, status, runner, thrown, cancel, outcome,
                 watchdog, capWarned, now, calls>>

StatusOnThrow_ByErrorOnly(t) ==
  IF thrown[t] = "AbortError" THEN "cancelled" ELSE "failed"

StatusOnThrow_Reason(t) == IF aborted[t] THEN cancelReason[t] ELSE "failed"

(* Which status a thrown error leads to is decided after the cleanups, so  *)
(* a cancellation that arrives during the cleanups still counts.           *)
StatusOnThrow(t) ==
  IF aborted[t] \/ thrown[t] = "AbortError" THEN "cancelled" ELSE "failed"

FinishThrown(t) ==
  /\ runner[t] = "cleanup"
  /\ cleanups[t] = 0
  /\ status' = [status EXCEPT ![t] = StatusOnThrow(t)]
  /\ error' = [error EXCEPT ![t] =
                 IF aborted[t] THEN cancelReason[t] ELSE "runner"]
  /\ Settle(t)
  /\ UNCHANGED <<next, tasks, kind, thrown, cleanups, cancel, result,
                 capWarned, now, calls>>

-----------------------------------------------------------------------------
(* Cancellation: by cancel_task or by the watchdog timer.                  *)

Cancellable_OnceDone(t) == status[t] \in {"running"} \cup Terminal

Cancellable_Again(t) == status[t] \in Live

Cancellable(t) == status[t] = "running"

RequestCancel_NoAbort(t, who) ==
  /\ cancelReason' = [cancelReason EXCEPT ![t] = who]
  /\ status' = [status EXCEPT ![t] = "cancelling"]
  /\ UNCHANGED aborted

RequestCancel(t, who) ==
  /\ cancelReason' = [cancelReason EXCEPT ![t] = who]
  /\ aborted' = [aborted EXCEPT ![t] = TRUE]
  /\ status' = [status EXCEPT ![t] = "cancelling"]

(* cancel_task on a task that runs: handleCancelTask reads the status and  *)
(* calls cancel() without an await in between, then polls the status.      *)
CancelTask(c, t) ==
  /\ calls[c].answer # "waiting"
  /\ t \in tasks
  /\ Cancellable(t)
  /\ RequestCancel(t, "user")
  /\ calls' = [calls EXCEPT ![c] =
                 [op |-> "cancel", task |-> t, answer |-> "waiting"]]
  /\ UNCHANGED <<next, tasks, kind, exec, outcome, watchdog, capWarned, now>>

(* cancel_task on an unknown, pruned, finished or cancelling task.         *)
CancelRefused(c, t) ==
  /\ calls[c].answer # "waiting"
  /\ t < next
  /\ t \in tasks => ~ Cancellable(t)
  /\ calls' = [calls EXCEPT ![c] =
                 [op |-> "cancel", task |-> t,
                  answer |-> IF t \in tasks THEN "refused" ELSE "notFound"]]
  /\ UNCHANGED <<next, tasks, kind, status, exec, cancel, outcome, watchdog,
                 capWarned, now>>

(* The polling loop ends with a terminal status or at its deadline: the    *)
(* answer is the status of the task object, kept even when evicted.        *)
CancelReply(c) ==
  /\ calls[c].op = "cancel"
  /\ calls[c].answer = "waiting"
  /\ calls' = [calls EXCEPT ![c].answer = status[calls[c].task]]
  /\ UNCHANGED <<next, tasks, kind, status, exec, cancel, outcome, watchdog,
                 capWarned, now>>

WatchdogFires(t) ==
  /\ watchdog[t]
  /\ watchdog' = [watchdog EXCEPT ![t] = FALSE]
  /\ \/ Cancellable(t) /\ RequestCancel(t, "watchdog")
     \/ ~ Cancellable(t) /\ UNCHANGED <<status, cancel>>
  /\ UNCHANGED <<next, tasks, kind, exec, outcome, capWarned, now, calls>>

-----------------------------------------------------------------------------
(* The prune timer drops what finished longer than the TTL ago.            *)

Expired_Unfinished == {t \in tasks : finishedAt[t] + TTL < now}

Expired == {t \in tasks : /\ status[t] \in Terminal
                          /\ finishedAt[t] + TTL < now}

Prune ==
  /\ Expired # {}
  /\ tasks' = tasks \ Expired
  /\ UNCHANGED <<next, kind, status, exec, cancel, outcome, watchdog,
                 capWarned, now, calls>>

Tick ==
  /\ now < MaxTime
  /\ now' = now + 1
  /\ UNCHANGED <<next, tasks, kind, status, exec, cancel, outcome, watchdog,
                 capWarned, calls>>

-----------------------------------------------------------------------------
RunnerStep(t) ==
  \/ ExecuteBegin(t)
  \/ AddCleanup(t)
  \/ ForgetCleanup(t)
  \/ RunnerReturns(t)
  \/ \E err \in {"AbortError", "Error"} : RunnerThrows(t, err)
  \/ RunCleanup(t)
  \/ FinishThrown(t)

ClientStep(c) ==
  \/ \E k \in Kind, timed \in BOOLEAN : RunTask(c, k, timed)
  \/ RunReply(c)
  \/ \E t \in Task : CancelTask(c, t) \/ CancelRefused(c, t)
  \/ CancelReply(c)

Next ==
  \/ \E k \in Kind, timed \in BOOLEAN : StartTask(k, timed)
  \/ \E c \in Caller : ClientStep(c)
  \/ \E t \in Task : RunnerStep(t) \/ WatchdogFires(t)
  \/ Prune
  \/ Tick

(* The event loop runs queued microtasks and due timers; a runner is only  *)
(* known to end once it was told to (its children get SIGTERM and then     *)
(* SIGKILL), and the cleanups a runner registers are assumed to end.       *)
Ends(t) == RunnerReturns(t) \/ \E err \in {"AbortError", "Error"} :
                                  RunnerThrows(t, err)

HonoursAbort(t) == aborted[t] /\ Ends(t)

Fairness ==
  /\ \A t \in Task : /\ WF_vars(ExecuteBegin(t))
                     /\ WF_vars(HonoursAbort(t))
                     /\ WF_vars(RunCleanup(t))
                     /\ WF_vars(FinishThrown(t))
                     /\ WF_vars(WatchdogFires(t))
  /\ \A c \in Caller : WF_vars(RunReply(c)) /\ WF_vars(CancelReply(c))

Spec == Init /\ [][Next]_vars

FairSpec == Spec /\ Fairness

-----------------------------------------------------------------------------
(* Safety.                                                                 *)

(* Status, runner, signal and timer of a task agree in every state, also   *)
(* in the middle of a cancellation and while cleanups are awaited: the     *)
(* fields are written by four independent pieces of code (execute, cancel, *)
(* the watchdog callback, start), each of which assumes this of the others.*)
TaskCoherent(t) ==
  /\ status[t] = "none" <=> runner[t] = "none"
  /\ status[t] \in Terminal <=> runner[t] = "settled"
  /\ aborted[t] <=> cancelReason[t] # "none"
  /\ aborted[t] => status[t] \in {"cancelling", "cancelled"}
  /\ status[t] = "cancelling" => aborted[t]
  /\ result[t] => status[t] = "done"
  /\ thrown[t] # "none" => runner[t] \in {"cleanup", "settled"}
  /\ t \in tasks => status[t] # "none"

CallCoherent(c) ==
  /\ calls[c].answer = "waiting" => calls[c].task \in Task
  /\ calls[c].op = "idle" => calls[c].answer = "none"
  /\ calls[c].op = "run" => /\ calls[c].task \in Task
                            /\ calls[c].answer \in {"waiting"} \cup Terminal
  /\ calls[c].op = "cancel" /\ calls[c].answer \notin {"refused", "notFound"} =>
       calls[c].task \in Task /\ aborted[calls[c].task]

FreshNext == \A t \in Task : status[t] = "none" <=> t >= next

Coherent ==
  /\ FreshNext
  /\ \A t \in Task : TaskCoherent(t)
  /\ \A c \in Caller : CallCoherent(c)

(* cancel() returned true or the watchdog fired: whatever the runner then  *)
(* does, return, throw or ignore the signal, the task ends in "cancelled"  *)
(* and shows no result (execute() looks at the signal in every branch).    *)
CancellationIsFinal ==
  \A t \in Task : cancelReason[t] # "none" =>
    status[t] \in {"cancelling", "cancelled"} /\ ~ result[t]

(* evictIfOverCap and prune never drop a task that still runs: cancel_task *)
(* and poll_task_status can reach every task until it has ended.           *)
LiveTaskIsReachable ==
  \A t \in Task : status[t] \in Live => t \in tasks

(* What a handler told its caller stays true.  run_test and build_app      *)
(* report the status the task ended with; cancel_task, having answered     *)
(* cancelled:true, never goes with a task that ends "done" or "failed".    *)
AnswersStayTrue ==
  \A c \in Caller :
    /\ calls[c].op = "run" /\ calls[c].answer \in Terminal =>
         status[calls[c].task] = calls[c].answer
    /\ calls[c].op = "cancel" /\ calls[c].answer \in Live \cup Terminal =>
         /\ calls[c].answer \in {"cancelling", "cancelled"}
         /\ status[calls[c].task] \in {"cancelling", "cancelled"}

(* A settled task has nothing left that could act on it later: no timer,   *)
(* and, when its runner threw, no cleanup that was skipped.                *)
SettledLeavesNothing ==
  \A t \in Task : status[t] \in Terminal =>
    ~ watchdog[t] /\ (thrown[t] # "none" => cleanups[t] = 0)

(* The recorded outcome of a task never changes once it is terminal: a     *)
(* late cancel, a late timer or the poll of another client finds it as is. *)
OutcomeKept(t) ==
  /\ status'[t] = status[t]
  /\ result'[t] = result[t]
  /\ error'[t] = error[t]
  /\ finishedAt'[t] = finishedAt[t]
  /\ cancelReason'[t] = cancelReason[t]

SettledIsFinal ==
  [][\A t \in Task : status[t] \in Terminal => OutcomeKept(t)]_vars

(* cancelReason names the request that stopped the task: a second cancel   *)
(* or the watchdog of a task that is already cancelling does not take over.*)
FirstReasonStays ==
  [][\A t \in Task : cancelReason[t] # "none" =>
       cancelReason'[t] = cancelReason[t]]_vars

(* After a start the kind is within its cap, or all its tasks still run.   *)
CapHoldsAfterStart ==
  [][\A k \in Kind : next' # next /\ kind'[next] = k =>
       \/ Cardinality(OfKind(k)') <= Cap[k]
       \/ Finished(k)' = {}]_vars

(* The registry forgets the oldest results first: what eviction or pruning *)
(* drops did not finish after a task of the same kind that is kept.        *)
OldestForgottenFirst ==
  [][\A t \in tasks \ tasks' :
       \A u \in tasks \cap tasks' :
         status[u] \in Terminal /\ kind[u] = kind[t] =>
           ~ FinishedBefore(u, t)]_vars

-----------------------------------------------------------------------------
(* Liveness.                                                               *)

(* The caller of a task with a pending watchdog, or that was asked to      *)
(* stop, gets its answer: a runner that hangs until it is told to stop     *)
(* cannot keep run_test waiting for ever.                                  *)
CallsAreAnswered ==
  \A c \in Caller :
    (/\ calls[c].answer = "waiting"
     /\ watchdog[calls[c].task] \/ aborted[calls[c].task])
    ~> (calls[c].answer # "waiting")

-----------------------------------------------------------------------------
(* What a polling client sees of this registry, as TaskView states it.     *)

ClientView(t) == IF status[t] = "none" THEN "unknown"
                 ELSE IF t \in tasks THEN status[t] ELSE "gone"

Bounded == {t \in Task : status[t] \in Live /\ (watchdog[t] \/ aborted[t])}

View == INSTANCE TaskView WITH view  <- [t \in Task |-> ClientView(t)],
                               timed <- Bounded

(* Polling a task shows running, cancelling, one final status, notFound,   *)
(* in this order and with no other change.                                 *)
ImplementsView == View!ViewSpec

-----------------------------------------------------------------------------
(* What the docs say and the code does not do.                             *)

(* README.md:48, handlers.ts:2555: cancel_task runs the cleanups.          *)
CancelRunsCleanups ==
  \A t \in Task : cancelReason[t] # "none" /\ status[t] = "cancelled" =>
                     cleanups[t] = 0

=============================================================================
