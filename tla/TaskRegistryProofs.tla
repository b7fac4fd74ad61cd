------------------------- MODULE TaskRegistryProofs -------------------------
(***************************************************************************)
(* Proofs about TaskRegistry, for every number of tasks, kinds, clients    *)
(* and cleanups and for every retention cap and TTL.                       *)
(*                                                                         *)
(* The invariants are proved together: none of them is inductive without   *)
(* Coherent, which relates the fields that execute(), cancel(), the        *)
(* watchdog and start() write.  IInv splits their conjunction into what    *)
(* holds of one task (TaskInv) and of one call (CallInv), so that a step   *)
(* is checked on the task it works on; TaskFrame and CallFrame say when    *)
(* the others are not disturbed.                                           *)
(***************************************************************************)
EXTENDS TaskRegistry, FiniteSetTheorems, WellFoundedInduction, TLAPS

TaskInv(t) ==
  /\ TaskCoherent(t)
  /\ status[t] \in Live => t \in tasks
  /\ status[t] \in Terminal => ~ watchdog[t]
  /\ status[t] = "none" => ~ watchdog[t]
  /\ status[t] \in Terminal /\ thrown[t] # "none" => cleanups[t] = 0

CallInv(c) ==
  /\ CallCoherent(c)
  /\ calls[c].op = "run" /\ calls[c].answer \in Terminal =>
       status[calls[c].task] = calls[c].answer
  /\ calls[c].op = "cancel" /\ calls[c].answer \in Live \cup Terminal =>
       calls[c].answer \in {"cancelling", "cancelled"}

IInv == /\ TypeOK
        /\ FreshNext
        /\ \A t \in Task : TaskInv(t)
        /\ \A c \in Caller : CallInv(c)

-----------------------------------------------------------------------------
(* What start() evicts and what prune() drops has finished.                *)
LEMMA EvictedFinished ==
  ASSUME NEW k \in Kind, NEW t \in Evicted(k)
  PROVE  t \in tasks /\ status[t] \in Terminal /\ kind[t] = k
BY DEF Evicted, Finished, OfKind

LEMMA WarnedType ==
  ASSUME TypeOK, NEW k \in Kind
  PROVE  WarnedAfter(k) \in SUBSET Kind
BY DEF TypeOK, TaskTypeOK, WarnedAfter

(* A task none of whose fields changes, and which leaves the Map only when *)
(* it has finished, keeps its invariant.                                   *)
LEMMA TaskFrame ==
  ASSUME NEW u \in Task, TaskInv(u),
         status'[u] = status[u], runner'[u] = runner[u],
         aborted'[u] = aborted[u], cancelReason'[u] = cancelReason[u],
         result'[u] = result[u], thrown'[u] = thrown[u],
         watchdog'[u] = watchdog[u], cleanups'[u] = cleanups[u],
         u \in tasks' => u \in tasks,
         u \in tasks /\ u \notin tasks' => status[u] \in Terminal
  PROVE  TaskInv(u)'
BY DEF TaskInv, TaskCoherent, Live, Terminal

(* A call that is not touched keeps its invariant when no signal is        *)
(* withdrawn and no final status changes.                                  *)
LEMMA CallFrame ==
  ASSUME NEW c \in Caller, CallInv(c), calls'[c] = calls[c],
         \A u \in Task : aborted[u] => aborted'[u],
         \A u \in Task : status[u] \in Terminal => status'[u] = status[u]
  PROVE  CallInv(c)'
BY DEF CallInv, CallCoherent

(* The clock is a natural number, and a registered cleanup more or less    *)
(* within the bound is within the bound.                                   *)
LEMMA NowNat == ASSUME TaskTypeOK PROVE now \in Nat
<1>1. now \in 0 .. MaxTime
  BY DEF TaskTypeOK
<1>2. MaxTime \in Nat
  BY RegistryAssumption
<1> QED
  BY <1>1, <1>2

LEMMA CleanupsStep ==
  ASSUME cleanups \in [Task -> 0 .. MaxCleanups], NEW t \in Task,
         \/ cleanups[t] < MaxCleanups /\ cleanups' = [cleanups EXCEPT ![t] = @ + 1]
         \/ cleanups[t] > 0 /\ cleanups' = [cleanups EXCEPT ![t] = @ - 1]
  PROVE  /\ cleanups' \in [Task -> 0 .. MaxCleanups]
         /\ \A u \in Task \ {t} : cleanups'[u] = cleanups[u]
<1>1. MaxCleanups \in Nat /\ cleanups[t] \in 0 .. MaxCleanups
  BY RegistryAssumption
<1>2. PICK n \in 0 .. MaxCleanups : cleanups' = [cleanups EXCEPT ![t] = n]
  <2>1. CASE cleanups[t] < MaxCleanups /\ cleanups' = [cleanups EXCEPT ![t] = @ + 1]
    <3>1. cleanups[t] + 1 \in 0 .. MaxCleanups
      BY <1>1, <2>1
    <3> QED
      BY <2>1, <3>1
  <2>2. CASE cleanups[t] > 0 /\ cleanups' = [cleanups EXCEPT ![t] = @ - 1]
    <3>1. cleanups[t] - 1 \in 0 .. MaxCleanups
      BY <1>1, <2>2
    <3> QED
      BY <2>2, <3>1
  <2> QED
    BY <2>1, <2>2
<1> QED
  BY <1>2

LEMMA InitIInv == Init => IInv
<1> SUFFICES ASSUME Init PROVE IInv
  OBVIOUS
<1>1. TypeOK
  BY RegistryAssumption DEF Init, TypeOK, TaskTypeOK, Call, Task, Status, Idle
<1>2. FreshNext
  BY RegistryAssumption DEF Init, FreshNext, Task
<1>3. \A t \in Task : TaskInv(t)
  BY DEF Init, TaskInv, TaskCoherent, Live, Terminal
<1>4. \A c \in Caller : CallInv(c)
  BY DEF Init, CallInv, CallCoherent, Idle
<1> QED
  BY <1>1, <1>2, <1>3, <1>4 DEF IInv

-----------------------------------------------------------------------------
(* start() itself, whoever calls it.                                       *)
LEMMA StartStep ==
  ASSUME IInv, NEW k \in Kind, NEW timed \in BOOLEAN, Start(k, timed)
  PROVE  /\ TaskTypeOK'
         /\ FreshNext'
         /\ \A u \in Task : TaskInv(u)'
         /\ \A u \in Task : /\ aborted[u] => aborted'[u]
                            /\ status[u] \in Terminal => status'[u] = status[u]
<1>1. TypeOK /\ TaskTypeOK /\ FreshNext /\ \A u \in Task : TaskInv(u)
  BY DEF IInv, TypeOK
<1>2. next \in Task /\ next \in Nat /\ next' = next + 1
  BY RegistryAssumption DEF Start, Task
<1>3. status[next] = "none"
  BY <1>1, <1>2 DEF FreshNext
<1>4. /\ runner[next] = "none" /\ ~ aborted[next] /\ ~ result[next]
      /\ thrown[next] = "none" /\ cancelReason[next] = "none"
  BY <1>1, <1>2, <1>3 DEF TaskInv, TaskCoherent, Terminal
<1>5. TaskTypeOK'
  <2>1. next' \in 1 .. MaxTasks + 1
    BY <1>2, RegistryAssumption DEF Task
  <2>2. tasks' \in SUBSET Task
    BY <1>1, <1>2 DEF Start, TaskTypeOK
  <2>3. capWarned' \in SUBSET Kind
    BY <1>1, WarnedType DEF Start
  <2>4. /\ kind' \in [Task -> Kind \cup {"none"}]
        /\ status' \in [Task -> Status]
        /\ runner' \in [Task -> {"none", "scheduled", "body", "cleanup", "settled"}]
        /\ watchdog' \in [Task -> BOOLEAN]
    BY <1>1 DEF Start, TaskTypeOK, Status, Live
  <2> QED
    BY <1>1, <2>1, <2>2, <2>3, <2>4 DEF Start, TaskTypeOK, cancel, outcome
<1>6. FreshNext'
  <2> SUFFICES ASSUME NEW u \in Task PROVE status'[u] = "none" <=> u >= next'
    BY DEF FreshNext
  <2>1. u \in Nat
    BY RegistryAssumption DEF Task
  <2>2. status[u] = "none" <=> u >= next
    BY <1>1 DEF FreshNext
  <2>3. status'[u] = IF u = next THEN "running" ELSE status[u]
    BY <1>1 DEF Start, TaskTypeOK
  <2> QED
    BY <1>2, <2>1, <2>2, <2>3
<1>7. ASSUME NEW u \in Task PROVE TaskInv(u)'
  <2>1. CASE u = next
    BY <1>1, <1>2, <1>4, <2>1
       DEF Start, TaskTypeOK, TaskInv, TaskCoherent, cancel, outcome, Live, Terminal
  <2>2. CASE u # next
    <3>1. /\ status'[u] = status[u] /\ runner'[u] = runner[u]
          /\ watchdog'[u] = watchdog[u]
      BY <1>1, <2>2 DEF Start, TaskTypeOK
    <3>2. u \in tasks' => u \in tasks
      BY <2>2 DEF Start
    <3>3. u \in tasks /\ u \notin tasks' => status[u] \in Terminal
      BY EvictedFinished DEF Start
    <3> QED
      BY <1>1, <3>1, <3>2, <3>3, TaskFrame DEF Start, cancel, outcome
  <2> QED
    BY <2>1, <2>2
<1>8. ASSUME NEW u \in Task
      PROVE  /\ aborted[u] => aborted'[u]
             /\ status[u] \in Terminal => status'[u] = status[u]
  BY <1>1, <1>3 DEF Start, TaskTypeOK, cancel, Terminal
<1> QED
  BY <1>5, <1>6, <1>7, <1>8

LEMMA StartInv ==
  ASSUME IInv, NEW k \in Kind, NEW timed \in BOOLEAN, StartTask(k, timed)
  PROVE  IInv'
<1>1. Start(k, timed) /\ calls' = calls
  BY DEF StartTask
<1>2. TypeOK'
  BY <1>1, StartStep DEF IInv, TypeOK, Call
<1>3. \A c \in Caller : CallInv(c)'
  BY <1>1, StartStep, CallFrame DEF IInv
<1> QED
  BY <1>1, <1>2, <1>3, StartStep DEF IInv

LEMMA RunInv ==
  ASSUME IInv, NEW c \in Caller, NEW k \in Kind, NEW timed \in BOOLEAN,
         RunTask(c, k, timed)
  PROVE  IInv'
<1>1. /\ Start(k, timed)
      /\ calls' = [calls EXCEPT ![c] =
                     [op |-> "run", task |-> next, answer |-> "waiting"]]
  BY DEF RunTask
<1>2. calls \in [Caller -> Call] /\ next \in Task
  BY <1>1 DEF IInv, TypeOK, Start
<1>3. TypeOK'
  BY <1>1, <1>2, StartStep DEF TypeOK, Call
<1>4. ASSUME NEW d \in Caller PROVE CallInv(d)'
  <2>1. CASE d = c
    BY <1>1, <1>2, <2>1 DEF CallInv, CallCoherent, Live, Terminal, Task
  <2>2. CASE d # c
    <3>1. calls'[d] = calls[d]
      BY <1>1, <1>2, <2>2
    <3> QED
      BY <1>1, <3>1, StartStep, CallFrame DEF IInv
  <2> QED
    BY <2>1, <2>2
<1> QED
  BY <1>1, <1>3, <1>4, StartStep DEF IInv

-----------------------------------------------------------------------------
(* A step that works on one task t and neither starts nor forgets a task.  *)
LEMMA OneTaskStep ==
  ASSUME IInv, NEW t \in Task, TaskTypeOK', TaskInv(t)',
         next' = next, tasks' = tasks,
         status[t] # "none", status'[t] # "none",
         aborted[t] => aborted'[t],
         status[t] \in Terminal => status'[t] = status[t],
         \A u \in Task \ {t} :
           /\ status'[u] = status[u] /\ runner'[u] = runner[u]
           /\ aborted'[u] = aborted[u] /\ cancelReason'[u] = cancelReason[u]
           /\ result'[u] = result[u] /\ thrown'[u] = thrown[u]
           /\ watchdog'[u] = watchdog[u] /\ cleanups'[u] = cleanups[u]
  PROVE  /\ TaskTypeOK'
         /\ FreshNext'
         /\ \A u \in Task : TaskInv(u)'
         /\ \A c \in Caller : calls'[c] = calls[c] => CallInv(c)'
<1>1. FreshNext /\ (\A u \in Task : TaskInv(u)) /\ (\A c \in Caller : CallInv(c))
  BY DEF IInv
<1>2. FreshNext'
  BY <1>1 DEF FreshNext
<1>3. ASSUME NEW u \in Task PROVE TaskInv(u)'
  <2>1. CASE u = t
    BY <2>1
  <2>2. CASE u # t
    BY <1>1, <2>2, TaskFrame
  <2> QED
    BY <2>1, <2>2
<1>4. ASSUME NEW c \in Caller, calls'[c] = calls[c] PROVE CallInv(c)'
  <2>1. \A u \in Task : /\ aborted[u] => aborted'[u]
                        /\ status[u] \in Terminal => status'[u] = status[u]
    OBVIOUS
  <2> QED
    BY <1>1, <1>4, <2>1, CallFrame
<1> QED
  BY <1>2, <1>3, <1>4

(* execute(): the steps of a runner.                                       *)
LEMMA RunnerInv ==
  ASSUME IInv, NEW t \in Task, RunnerStep(t)
  PROVE  IInv'
<1> DEFINE Others == \A u \in Task \ {t} :
           /\ status'[u] = status[u] /\ runner'[u] = runner[u]
           /\ aborted'[u] = aborted[u] /\ cancelReason'[u] = cancelReason[u]
           /\ result'[u] = result[u] /\ thrown'[u] = thrown[u]
           /\ watchdog'[u] = watchdog[u] /\ cleanups'[u] = cleanups[u]
<1>1. TypeOK /\ TaskTypeOK /\ TaskInv(t)
  BY DEF IInv, TypeOK
<1> SUFFICES /\ next' = next /\ tasks' = tasks /\ calls' = calls
             /\ TaskTypeOK' /\ TaskInv(t)' /\ Others
             /\ status[t] # "none" /\ status'[t] # "none"
             /\ aborted[t] => aborted'[t]
             /\ status[t] \in Terminal => status'[t] = status[t]
  BY <1>1, OneTaskStep DEF IInv, TypeOK, Call
<1> USE DEF cancel, outcome
<1>2. CASE ExecuteBegin(t)
  <2>1. TaskTypeOK' /\ Others
    BY <1>1, <1>2 DEF ExecuteBegin, TaskTypeOK
  <2>2. runner[t] = "scheduled" /\ runner'[t] = "body"
    BY <1>1, <1>2 DEF ExecuteBegin, TaskTypeOK
  <2> QED
    BY <1>1, <1>2, <2>1, <2>2
       DEF ExecuteBegin, TaskInv, TaskCoherent, Live, Terminal
<1>3. CASE AddCleanup(t)
  <2>1. TaskTypeOK' /\ Others
    <3>1. /\ cleanups' \in [Task -> 0 .. MaxCleanups]
          /\ \A u \in Task \ {t} : cleanups'[u] = cleanups[u]
      BY <1>1, <1>3, CleanupsStep DEF AddCleanup, TaskTypeOK
    <3> QED
      BY <1>1, <1>3, <3>1 DEF AddCleanup, TaskTypeOK
  <2>2. runner[t] = "body"
    BY <1>3 DEF AddCleanup
  <2> QED
    BY <1>1, <1>3, <2>1, <2>2
       DEF AddCleanup, TaskInv, TaskCoherent, Live, Terminal
<1>4. CASE ForgetCleanup(t)
  <2>1. TaskTypeOK' /\ Others
    <3>1. /\ cleanups' \in [Task -> 0 .. MaxCleanups]
          /\ \A u \in Task \ {t} : cleanups'[u] = cleanups[u]
      BY <1>1, <1>4, CleanupsStep DEF ForgetCleanup, TaskTypeOK
    <3> QED
      BY <1>1, <1>4, <3>1 DEF ForgetCleanup, TaskTypeOK
  <2>2. runner[t] = "body"
    BY <1>4 DEF ForgetCleanup
  <2> QED
    BY <1>1, <1>4, <2>1, <2>2
       DEF ForgetCleanup, TaskInv, TaskCoherent, Live, Terminal
<1>5. CASE RunnerReturns(t)
  <2>1. StatusOnReturn(t) \in Terminal
    BY DEF StatusOnReturn, Terminal
  <2>2. TaskTypeOK' /\ Others
    <3>1. now \in Nat
      BY <1>1, NowNat
    <3>2. /\ status' \in [Task -> Status]
          /\ \A u \in Task \ {t} : status'[u] = status[u]
      BY <1>1, <1>5, <2>1 DEF RunnerReturns, TaskTypeOK, Status
    <3>3. /\ finishedAt' \in [Task -> Nat]
          /\ error' \in [Task -> {"none", "runner", "ignored abort"} \cup Requester]
      BY <1>1, <1>5, <3>1 DEF RunnerReturns, Settle, TaskTypeOK
    <3>4. /\ result' \in [Task -> BOOLEAN]
          /\ runner' \in [Task -> {"none", "scheduled", "body", "cleanup", "settled"}]
          /\ watchdog' \in [Task -> BOOLEAN]
          /\ \A u \in Task \ {t} : /\ result'[u] = result[u]
                                   /\ runner'[u] = runner[u]
                                   /\ watchdog'[u] = watchdog[u]
      BY <1>1, <1>5 DEF RunnerReturns, Settle, TaskTypeOK
    <3> QED
      BY <1>1, <1>5, <3>2, <3>3, <3>4 DEF RunnerReturns, TaskTypeOK
  <2>3. /\ runner[t] = "body" /\ runner'[t] = "settled" /\ ~ watchdog'[t]
        /\ status'[t] = StatusOnReturn(t)
        /\ result'[t] <=> StatusOnReturn(t) = "done"
    BY <1>1, <1>5 DEF RunnerReturns, Settle, TaskTypeOK
  <2>4. TaskInv(t)'
    BY <1>1, <1>5, <2>1, <2>3
       DEF RunnerReturns, StatusOnReturn, TaskInv, TaskCoherent, Live, Terminal
  <2> QED
    BY <1>1, <1>5, <2>1, <2>2, <2>3, <2>4
       DEF RunnerReturns, TaskInv, TaskCoherent, Terminal
<1>6. CASE \E err \in {"AbortError", "Error"} : RunnerThrows(t, err)
  <2> PICK err \in {"AbortError", "Error"} : RunnerThrows(t, err)
    BY <1>6
  <2>1. TaskTypeOK' /\ Others
    BY <1>1 DEF RunnerThrows, TaskTypeOK
  <2>2. runner[t] = "body" /\ runner'[t] = "cleanup" /\ status'[t] = status[t]
    BY <1>1 DEF RunnerThrows, TaskTypeOK
  <2> QED
    BY <1>1, <2>1, <2>2 DEF RunnerThrows, TaskInv, TaskCoherent, Live, Terminal
<1>7. CASE RunCleanup(t)
  <2>1. TaskTypeOK' /\ Others
    <3>1. /\ cleanups' \in [Task -> 0 .. MaxCleanups]
          /\ \A u \in Task \ {t} : cleanups'[u] = cleanups[u]
      BY <1>1, <1>7, CleanupsStep DEF RunCleanup, TaskTypeOK
    <3> QED
      BY <1>1, <1>7, <3>1 DEF RunCleanup, TaskTypeOK
  <2>2. runner[t] = "cleanup"
    BY <1>7 DEF RunCleanup
  <2> QED
    BY <1>1, <1>7, <2>1, <2>2
       DEF RunCleanup, TaskInv, TaskCoherent, Live, Terminal
<1>8. CASE FinishThrown(t)
  <2>1. StatusOnThrow(t) \in {"cancelled", "failed"}
    BY DEF StatusOnThrow
  <2>2. TaskTypeOK' /\ Others
    <3>1. now \in Nat
      BY <1>1, NowNat
    <3>2. /\ status' \in [Task -> Status]
          /\ \A u \in Task \ {t} : status'[u] = status[u]
      BY <1>1, <1>8, <2>1 DEF FinishThrown, TaskTypeOK, Status, Terminal
    <3>3. aborted[t] => cancelReason[t] \in Requester
      BY <1>1 DEF TaskTypeOK, TaskInv, TaskCoherent
    <3>4. /\ finishedAt' \in [Task -> Nat]
          /\ error' \in [Task -> {"none", "runner", "ignored abort"} \cup Requester]
      BY <1>1, <1>8, <3>1, <3>3 DEF FinishThrown, Settle, TaskTypeOK
    <3>5. /\ runner' \in [Task -> {"none", "scheduled", "body", "cleanup", "settled"}]
          /\ watchdog' \in [Task -> BOOLEAN]
          /\ \A u \in Task \ {t} : /\ runner'[u] = runner[u]
                                   /\ watchdog'[u] = watchdog[u]
      BY <1>1, <1>8 DEF FinishThrown, Settle, TaskTypeOK
    <3> QED
      BY <1>1, <1>8, <3>2, <3>4, <3>5 DEF FinishThrown, TaskTypeOK
  <2>3. /\ runner[t] = "cleanup" /\ runner'[t] = "settled" /\ ~ watchdog'[t]
        /\ status'[t] = StatusOnThrow(t) /\ cleanups'[t] = 0
    BY <1>1, <1>8 DEF FinishThrown, Settle, TaskTypeOK
  <2>4. TaskInv(t)'
    BY <1>1, <1>8, <2>1, <2>3
       DEF FinishThrown, StatusOnThrow, TaskInv, TaskCoherent, Live, Terminal
  <2> QED
    BY <1>1, <1>8, <2>1, <2>2, <2>3, <2>4
       DEF FinishThrown, TaskInv, TaskCoherent, Terminal
<1> QED
  BY <1>2, <1>3, <1>4, <1>5, <1>6, <1>7, <1>8 DEF RunnerStep

-----------------------------------------------------------------------------
(* A step that only answers, or refuses, one call.                         *)
LEMMA OneCallStep ==
  ASSUME IInv, NEW c \in Caller, NEW r \in Call, CallInv(c)',
         calls' = [calls EXCEPT ![c] = r],
         UNCHANGED <<next, tasks, kind, status, exec, cancel, outcome, watchdog,
                     capWarned, now>>
  PROVE  IInv'
<1> USE DEF exec, cancel, outcome
<1>1. calls \in [Caller -> Call] /\ TaskTypeOK /\ FreshNext
  BY DEF IInv, TypeOK
<1>2. TaskTypeOK' /\ FreshNext'
  BY <1>1 DEF TaskTypeOK, FreshNext
<1>3. calls' \in [Caller -> Call]
  BY <1>1
<1>4. ASSUME NEW u \in Task PROVE TaskInv(u)'
  BY TaskFrame DEF IInv
<1>5. ASSUME NEW d \in Caller PROVE CallInv(d)'
  <2>1. CASE d = c
    BY <2>1
  <2>2. CASE d # c
    <3>1. calls'[d] = calls[d] /\ CallInv(d)
      BY <1>1, <2>2 DEF IInv
    <3> QED
      BY <3>1, CallFrame
  <2> QED
    BY <2>1, <2>2
<1>6. TypeOK'
  BY <1>2, <1>3 DEF TypeOK, Call
<1> QED
  BY <1>2, <1>4, <1>5, <1>6 DEF IInv

LEMMA RunReplyInv ==
  ASSUME IInv, NEW c \in Caller, RunReply(c)
  PROVE  IInv'
<1> DEFINE r == [calls[c] EXCEPT !.answer = status[calls[c].task]]
<1>1. calls \in [Caller -> Call] /\ CallInv(c)
  BY DEF IInv, TypeOK
<1>2. /\ calls[c] \in Call /\ calls[c].op = "run"
      /\ calls[c].task \in Task /\ status[calls[c].task] \in Terminal
      /\ calls' = [calls EXCEPT ![c] = r]
  BY <1>1 DEF RunReply, CallInv, CallCoherent
<1>3. r \in Call /\ r.op = "run" /\ r.task = calls[c].task
      /\ r.answer = status[calls[c].task]
  BY <1>2 DEF Call
<1>4. calls'[c] = r /\ status' = status
  BY <1>1, <1>2 DEF RunReply
<1>5. CallInv(c)'
  BY <1>2, <1>3, <1>4 DEF CallInv, CallCoherent, Terminal, Live
<1> QED
  BY <1>2, <1>3, <1>5, OneCallStep DEF RunReply

LEMMA CancelReplyInv ==
  ASSUME IInv, NEW c \in Caller, CancelReply(c)
  PROVE  IInv'
<1> DEFINE r == [calls[c] EXCEPT !.answer = status[calls[c].task]]
<1>1. calls \in [Caller -> Call] /\ CallInv(c)
  BY DEF IInv, TypeOK
<1>2. /\ calls[c] \in Call /\ calls[c].op = "cancel"
      /\ calls[c].task \in Task /\ aborted[calls[c].task]
      /\ calls' = [calls EXCEPT ![c] = r]
  BY <1>1 DEF CancelReply, CallInv, CallCoherent
<1>3. status[calls[c].task] \in {"cancelling", "cancelled"}
  BY <1>2 DEF IInv, TaskInv, TaskCoherent
<1>4. r \in Call /\ r.op = "cancel" /\ r.task = calls[c].task
      /\ r.answer = status[calls[c].task]
  BY <1>2, <1>3 DEF Call, Live, Terminal
<1>5. calls'[c] = r /\ status' = status /\ aborted' = aborted
  BY <1>1, <1>2 DEF CancelReply, cancel
<1>6. CallInv(c)'
  BY <1>2, <1>3, <1>4, <1>5 DEF CallInv, CallCoherent, Terminal, Live
<1> QED
  BY <1>2, <1>4, <1>6, OneCallStep DEF CancelReply

LEMMA CancelRefusedInv ==
  ASSUME IInv, NEW c \in Caller, NEW t \in Task, CancelRefused(c, t)
  PROVE  IInv'
<1> DEFINE r == [op |-> "cancel", task |-> t,
                 answer |-> IF t \in tasks THEN "refused" ELSE "notFound"]
<1>1. calls \in [Caller -> Call]
  BY DEF IInv, TypeOK
<1>2. r \in Call /\ r.op = "cancel" /\ r.answer \in {"refused", "notFound"}
  BY DEF Call
<1>3. calls' = [calls EXCEPT ![c] = r] /\ calls'[c] = r
  BY <1>1 DEF CancelRefused
<1>4. CallInv(c)'
  BY <1>2, <1>3 DEF CallInv, CallCoherent, Terminal, Live
<1> QED
  BY <1>2, <1>3, <1>4, OneCallStep DEF CancelRefused

-----------------------------------------------------------------------------
(* The request to cancel, by a client or by the watchdog.                  *)
LEMMA RequestStep ==
  ASSUME IInv, NEW t \in Task, NEW who \in Requester,
         Cancellable(t), RequestCancel(t, who),
         UNCHANGED <<next, tasks, kind, exec, outcome, capWarned, now>>,
         watchdog' \in [Task -> BOOLEAN],
         \A u \in Task \ {t} : watchdog'[u] = watchdog[u]
  PROVE  /\ TaskTypeOK'
         /\ FreshNext'
         /\ \A u \in Task : TaskInv(u)'
         /\ \A c \in Caller : calls'[c] = calls[c] => CallInv(c)'
         /\ aborted'[t]
<1> USE DEF exec, outcome
<1>1. TaskTypeOK /\ TaskInv(t)
  BY DEF IInv, TypeOK
<1>2. TaskTypeOK'
  BY <1>1 DEF TaskTypeOK, RequestCancel, Status, Live
<1>3. /\ status[t] = "running" /\ status'[t] = "cancelling"
      /\ aborted'[t] /\ cancelReason'[t] = who
  BY <1>1 DEF TaskTypeOK, RequestCancel, Cancellable
<1>4. TaskInv(t)'
  BY <1>1, <1>3 DEF TaskInv, TaskCoherent, Live, Terminal, Requester
<1>5. \A u \in Task \ {t} :
           /\ status'[u] = status[u] /\ runner'[u] = runner[u]
           /\ aborted'[u] = aborted[u] /\ cancelReason'[u] = cancelReason[u]
           /\ result'[u] = result[u] /\ thrown'[u] = thrown[u]
           /\ watchdog'[u] = watchdog[u] /\ cleanups'[u] = cleanups[u]
  BY <1>1 DEF TaskTypeOK, RequestCancel
<1>6. status[t] \notin Terminal
  BY <1>3 DEF Terminal
<1> QED
  BY <1>2, <1>3, <1>4, <1>5, <1>6, OneTaskStep

LEMMA CancelInv ==
  ASSUME IInv, NEW c \in Caller, NEW t \in Task, CancelTask(c, t)
  PROVE  IInv'
<1> DEFINE r == [op |-> "cancel", task |-> t, answer |-> "waiting"]
<1>1. calls \in [Caller -> Call] /\ TaskTypeOK
  BY DEF IInv, TypeOK
<1>2. calls' = [calls EXCEPT ![c] = r] /\ r \in Call
  BY DEF CancelTask, Call
<1>3. /\ TaskTypeOK' /\ FreshNext' /\ aborted'[t]
      /\ \A u \in Task : TaskInv(u)'
      /\ \A d \in Caller : calls'[d] = calls[d] => CallInv(d)'
  BY <1>1, RequestStep DEF CancelTask, Requester, TaskTypeOK
<1>4. calls'[c] = r
  BY <1>1, <1>2
<1>5. CallInv(c)'
  BY <1>3, <1>4 DEF CallInv, CallCoherent, Live, Terminal
<1>6. \A d \in Caller \ {c} : calls'[d] = calls[d]
  BY <1>1, <1>2
<1>7. calls' \in [Caller -> Call]
  BY <1>1, <1>2
<1>8. TypeOK'
  BY <1>3, <1>7 DEF TypeOK, Call
<1> QED
  BY <1>3, <1>5, <1>6, <1>8 DEF IInv

LEMMA WatchdogInv ==
  ASSUME IInv, NEW t \in Task, WatchdogFires(t)
  PROVE  IInv'
<1>1. TaskTypeOK /\ TypeOK /\ TaskInv(t)
  BY DEF IInv, TypeOK
<1>2. /\ watchdog[t] /\ ~ watchdog'[t]
      /\ watchdog' \in [Task -> BOOLEAN]
      /\ \A u \in Task \ {t} : watchdog'[u] = watchdog[u]
  BY <1>1 DEF WatchdogFires, TaskTypeOK
<1>3. /\ TaskTypeOK' /\ FreshNext'
      /\ \A u \in Task : TaskInv(u)'
      /\ \A d \in Caller : calls'[d] = calls[d] => CallInv(d)'
  <2>1. CASE Cancellable(t) /\ RequestCancel(t, "watchdog")
    BY <1>2, <2>1, RequestStep DEF WatchdogFires, Requester
  <2>2. CASE UNCHANGED <<status, cancel>>
    <3> USE DEF exec, outcome, cancel
    <3>1. TaskTypeOK'
      BY <1>1, <1>2, <2>2 DEF WatchdogFires, TaskTypeOK
    <3>2. TaskInv(t)' /\ status[t] # "none"
      BY <1>1, <1>2, <2>2 DEF WatchdogFires, TaskInv, TaskCoherent
    <3> QED
      BY <1>2, <2>2, <3>1, <3>2, OneTaskStep DEF WatchdogFires
  <2> QED
    BY <2>1, <2>2 DEF WatchdogFires
<1>4. calls' = calls
  BY DEF WatchdogFires
<1> QED
  BY <1>1, <1>3, <1>4 DEF IInv, TypeOK, Call

LEMMA PruneInv == ASSUME IInv, Prune PROVE IInv'
<1> USE DEF exec, outcome, cancel
<1>1. TypeOK /\ TaskTypeOK /\ FreshNext
  BY DEF IInv, TypeOK
<1>2. TypeOK' /\ FreshNext'
  BY <1>1 DEF Prune, TypeOK, TaskTypeOK, FreshNext, Call
<1>3. ASSUME NEW u \in Task PROVE TaskInv(u)'
  BY TaskFrame DEF IInv, Prune, Expired
<1>4. ASSUME NEW c \in Caller PROVE CallInv(c)'
  BY CallFrame DEF IInv, Prune
<1> QED
  BY <1>2, <1>3, <1>4 DEF IInv

LEMMA TickInv == ASSUME IInv, Tick PROVE IInv'
<1> USE DEF exec, outcome, cancel
<1>1. TypeOK /\ TaskTypeOK /\ FreshNext
  BY DEF IInv, TypeOK
<1>2. now' \in 0 .. MaxTime
  <2>1. now \in 0 .. MaxTime /\ MaxTime \in Nat
    BY <1>1, RegistryAssumption DEF TaskTypeOK
  <2> QED
    BY <2>1 DEF Tick
<1>3. TypeOK' /\ FreshNext'
  BY <1>1, <1>2 DEF Tick, TypeOK, TaskTypeOK, FreshNext, Call
<1>4. ASSUME NEW u \in Task PROVE TaskInv(u)'
  BY TaskFrame DEF IInv, Tick
<1>5. ASSUME NEW c \in Caller PROVE CallInv(c)'
  BY CallFrame DEF IInv, Tick
<1> QED
  BY <1>3, <1>4, <1>5 DEF IInv

LEMMA StutterInv == ASSUME IInv, UNCHANGED vars PROVE IInv'
<1> USE DEF exec, outcome, cancel, vars
<1>1. TypeOK /\ TaskTypeOK /\ FreshNext
  BY DEF IInv, TypeOK
<1>2. TypeOK' /\ FreshNext'
  BY <1>1 DEF TypeOK, TaskTypeOK, FreshNext, Call
<1>3. ASSUME NEW u \in Task PROVE TaskInv(u)'
  BY TaskFrame DEF IInv
<1>4. ASSUME NEW c \in Caller PROVE CallInv(c)'
  BY CallFrame DEF IInv
<1> QED
  BY <1>2, <1>3, <1>4 DEF IInv

LEMMA NextIInv == IInv /\ [Next]_vars => IInv'
<1> SUFFICES ASSUME IInv, [Next]_vars PROVE IInv'
  OBVIOUS
<1>1. ASSUME NEW c \in Caller, ClientStep(c) PROVE IInv'
  BY <1>1, RunInv, RunReplyInv, CancelInv, CancelRefusedInv, CancelReplyInv
     DEF ClientStep
<1>2. ASSUME NEW t \in Task, RunnerStep(t) \/ WatchdogFires(t) PROVE IInv'
  BY <1>2, RunnerInv, WatchdogInv
<1>3. ASSUME NEW k \in Kind, NEW timed \in BOOLEAN, StartTask(k, timed)
      PROVE  IInv'
  BY <1>3, StartInv
<1> QED
  BY <1>1, <1>2, <1>3, PruneInv, TickInv, StutterInv DEF Next

(* The strengthened invariant holds in every reachable state.              *)
THEOREM Invariance == Spec => []IInv
<1>1. Init => IInv
  BY InitIInv
<1>2. IInv /\ [Next]_vars => IInv'
  BY NextIInv
<1> QED
  BY <1>1, <1>2, PTL DEF Spec

-----------------------------------------------------------------------------
(* Every field has its type in every reachable state: what start(),        *)
(* execute() and cancel() write is always a status, a reason, an outcome.  *)
THEOREM TypeCorrect == Spec => []TypeOK
<1>1. IInv => TypeOK
  BY DEF IInv
<1> QED
  BY <1>1, Invariance, PTL

(* The fields written by execute(), cancel(), the watchdog and start()     *)
(* agree in every reachable state.                                         *)
THEOREM CoherentAlways == Spec => []Coherent
<1>1. IInv => Coherent
  BY DEF IInv, Coherent, TaskInv, CallInv
<1> QED
  BY <1>1, Invariance, PTL

(* A cancellation that was accepted is never turned into another outcome,  *)
(* whichever way the runner ends.                                          *)
THEOREM CancellationFinal == Spec => []CancellationIsFinal
<1>1. IInv => CancellationIsFinal
  BY DEF IInv, TaskInv, TaskCoherent, CancellationIsFinal
<1> QED
  BY <1>1, Invariance, PTL

(* Whatever the cap and the TTL, the registry never loses a task that runs.*)
THEOREM LiveReachable == Spec => []LiveTaskIsReachable
<1>1. IInv => LiveTaskIsReachable
  BY DEF IInv, TaskInv, LiveTaskIsReachable
<1> QED
  BY <1>1, Invariance, PTL

(* What run_test, build_app or cancel_task answered stays true.            *)
THEOREM AnswersTrue == Spec => []AnswersStayTrue
<1>1. ASSUME IInv PROVE AnswersStayTrue
  <2> SUFFICES ASSUME NEW c \in Caller
      PROVE /\ calls[c].op = "run" /\ calls[c].answer \in Terminal =>
                 status[calls[c].task] = calls[c].answer
            /\ calls[c].op = "cancel" /\ calls[c].answer \in Live \cup Terminal =>
                 /\ calls[c].answer \in {"cancelling", "cancelled"}
                 /\ status[calls[c].task] \in {"cancelling", "cancelled"}
    BY DEF AnswersStayTrue
  <2>1. CallInv(c)
    BY <1>1 DEF IInv
  <2>2. calls[c].op = "cancel" /\ calls[c].answer \in Live \cup Terminal =>
          calls[c].task \in Task /\ aborted[calls[c].task]
    BY <2>1 DEF CallInv, CallCoherent, Live, Terminal
  <2>3. ASSUME NEW t \in Task, aborted[t]
        PROVE  status[t] \in {"cancelling", "cancelled"}
    BY <1>1, <2>3 DEF IInv, TaskInv, TaskCoherent
  <2> QED
    BY <2>1, <2>2, <2>3 DEF CallInv
<1> QED
  BY <1>1, Invariance, PTL

(* A settled task has no pending watchdog and, when its runner threw, no   *)
(* cleanup left.                                                           *)
THEOREM SettledClean == Spec => []SettledLeavesNothing
<1>1. IInv => SettledLeavesNothing
  BY DEF IInv, TaskInv, SettledLeavesNothing
<1> QED
  BY <1>1, Invariance, PTL

-----------------------------------------------------------------------------
(* What one step may do to a task: a settled one keeps its outcome, one    *)
(* whose cancellation was requested keeps the reason.                      *)
LEMMA StepKeeps ==
  ASSUME IInv, [Next]_vars, NEW t \in Task
  PROVE  /\ status[t] \in Terminal =>
              /\ status'[t] = status[t] /\ result'[t] = result[t]
              /\ error'[t] = error[t] /\ finishedAt'[t] = finishedAt[t]
         /\ status[t] # "running" /\ status[t] # "none" =>
              cancelReason'[t] = cancelReason[t]
         /\ cancelReason[t] # "none" => cancelReason'[t] = cancelReason[t]
<1> DEFINE Kept == /\ status'[t] = status[t] /\ result'[t] = result[t]
                   /\ error'[t] = error[t] /\ finishedAt'[t] = finishedAt[t]
<1> USE DEF exec, outcome, cancel
<1>1. TaskTypeOK /\ FreshNext /\ TaskInv(t)
  BY DEF IInv, TypeOK
<1>2. /\ status[t] \in Terminal => runner[t] = "settled"
      /\ cancelReason[t] # "none" => status[t] # "running"
  BY <1>1 DEF TaskInv, TaskCoherent, Terminal
<1>3. ASSUME NEW k \in Kind, NEW timed \in BOOLEAN, Start(k, timed)
      PROVE  /\ status[t] \in Terminal => Kept
             /\ cancelReason' = cancelReason
  <2>1. next \in Task /\ status[next] = "none"
    BY <1>1, <1>3, RegistryAssumption DEF Start, FreshNext, Task
  <2> QED
    BY <1>1, <1>3, <2>1 DEF Start, TaskTypeOK, Terminal
<1>4. ASSUME NEW u \in Task, RunnerStep(u)
      PROVE  /\ status[t] \in Terminal => Kept
             /\ cancelReason' = cancelReason
  BY <1>1, <1>2, <1>4
     DEF RunnerStep, ExecuteBegin, AddCleanup, ForgetCleanup, RunnerReturns,
         RunnerThrows, RunCleanup, FinishThrown, Settle, TaskTypeOK
<1>5. ASSUME NEW u \in Task, NEW who, Cancellable(u), RequestCancel(u, who),
             UNCHANGED outcome
      PROVE  /\ status[t] \in Terminal => Kept
             /\ status[t] # "running" => cancelReason'[t] = cancelReason[t]
  BY <1>1, <1>5 DEF Cancellable, RequestCancel, TaskTypeOK, Terminal
<1>6. ASSUME NEW u \in Task, WatchdogFires(u)
      PROVE  /\ status[t] \in Terminal => Kept
             /\ status[t] # "running" => cancelReason'[t] = cancelReason[t]
  BY <1>5, <1>6 DEF WatchdogFires
<1>7. ASSUME NEW c \in Caller, ClientStep(c)
      PROVE  /\ status[t] \in Terminal => Kept
             /\ status[t] # "running" => cancelReason'[t] = cancelReason[t]
  BY <1>3, <1>5, <1>7
     DEF ClientStep, RunTask, RunReply, CancelTask, CancelRefused, CancelReply
<1>8. Prune \/ Tick \/ UNCHANGED vars => Kept /\ cancelReason' = cancelReason
  BY DEF Prune, Tick, vars
<1> QED
  BY <1>2, <1>3, <1>4, <1>6, <1>7, <1>8 DEF Next, StartTask

(* No late cancel, timer, prune or second client changes the recorded      *)
(* outcome of a task that has ended.                                       *)
THEOREM SettledFinal == Spec => SettledIsFinal
<1>1. IInv /\ [Next]_vars =>
        [\A t \in Task : status[t] \in Terminal => OutcomeKept(t)]_vars
  BY StepKeeps DEF OutcomeKept, Terminal
<1> QED
  BY <1>1, Invariance, PTL DEF Spec, SettledIsFinal

(* The reason recorded for a cancellation is that of the first request.    *)
THEOREM FirstReason == Spec => FirstReasonStays
<1> DEFINE Keeps == \A t \in Task : cancelReason[t] # "none" =>
                     cancelReason'[t] = cancelReason[t]
<1>1. IInv /\ [Next]_vars => [Keeps]_vars
  BY StepKeeps
<1> QED
  BY <1>1, Invariance, PTL DEF Spec, FirstReasonStays

-----------------------------------------------------------------------------
(* Retention.  Of the finished tasks of a kind each is in the order after  *)
(* those that finished before it.                                          *)
Before(t, k) == {u \in Finished(k) : FinishedBefore(u, t)}

LEMMA OrderOfFinish ==
  ASSUME TaskTypeOK, NEW k \in Kind
  PROVE  /\ \A t, u \in Finished(k) : t # u => FinishedBefore(t, u) \/ FinishedBefore(u, t)
         /\ \A t, u \in Finished(k) : FinishedBefore(t, u) => ~ FinishedBefore(u, t)
         /\ \A t, u, v \in Finished(k) :
              FinishedBefore(t, u) /\ FinishedBefore(u, v) => FinishedBefore(t, v)
<1>1. \A t \in Finished(k) : t \in Nat /\ finishedAt[t] \in Nat
  <2> SUFFICES ASSUME NEW t \in Finished(k) PROVE t \in Nat /\ finishedAt[t] \in Nat
    OBVIOUS
  <2>1. t \in Task
    BY DEF Finished, OfKind, TaskTypeOK
  <2>2. t \in Nat
    BY <2>1, RegistryAssumption DEF Task
  <2> QED
    BY <2>1, <2>2 DEF TaskTypeOK
<1> QED
  BY <1>1 DEF FinishedBefore

LEMMA RetentionFinite ==
  ASSUME TaskTypeOK, NEW k \in Kind
  PROVE  /\ IsFiniteSet(OfKind(k)) /\ Cardinality(OfKind(k)) \in Nat
         /\ Finished(k) \subseteq OfKind(k) /\ IsFiniteSet(Finished(k))
         /\ Evicted(k) \subseteq Finished(k)
         /\ OverCap(k) \in Nat /\ Cardinality(OfKind(k)) + 1 <= OverCap(k) + Cap[k]
<1>1. IsFiniteSet(Task)
  BY RegistryAssumption, FS_Interval DEF Task
<1>2. OfKind(k) \in SUBSET Task /\ Finished(k) \in SUBSET OfKind(k)
  BY DEF OfKind, Finished, TaskTypeOK
<1>3. IsFiniteSet(OfKind(k)) /\ IsFiniteSet(Finished(k))
  BY <1>1, <1>2, FS_Subset
<1>4. Cardinality(OfKind(k)) \in Nat /\ Cap[k] \in Nat
  BY <1>3, FS_CardinalityType, RegistryAssumption
<1>5. OverCap(k) \in Nat /\ Cardinality(OfKind(k)) + 1 <= OverCap(k) + Cap[k]
  BY <1>4 DEF OverCap
<1> QED
  BY <1>2, <1>3, <1>4, <1>5 DEF Evicted

(* What finished before an evicted task is evicted.                        *)
LEMMA EvictsInOrder ==
  ASSUME TaskTypeOK, NEW k \in Kind, NEW t \in Evicted(k), NEW u \in Finished(k),
         FinishedBefore(u, t)
  PROVE  u \in Evicted(k)
<1>1. t \in Finished(k) /\ IsFiniteSet(Finished(k)) /\ OverCap(k) \in Nat
  BY RetentionFinite
<1>2. Before(u, k) \in SUBSET Before(t, k) /\ Before(t, k) \in SUBSET Finished(k)
  BY <1>1, OrderOfFinish DEF Before
<1>3. IsFiniteSet(Before(t, k))
  BY <1>1, <1>2, FS_Subset
<1>4. /\ Cardinality(Before(u, k)) <= Cardinality(Before(t, k))
      /\ Cardinality(Before(u, k)) \in Nat /\ Cardinality(Before(t, k)) \in Nat
  BY <1>2, <1>3, FS_Subset, FS_CardinalityType
<1>5. Cardinality(Before(t, k)) < OverCap(k)
  BY DEF Evicted, Before
<1>6. Cardinality(Before(u, k)) < OverCap(k)
  BY <1>1, <1>4, <1>5
<1> QED
  BY <1>6 DEF Evicted, Before

(* Of the finished tasks of a set, one finished before the others.         *)
LEMMA FirstFinished ==
  ASSUME TaskTypeOK, NEW k \in Kind, NEW S \in SUBSET Finished(k), S # {}
  PROVE  \E t \in S : \A u \in S : ~ FinishedBefore(u, t)
<1> DEFINE W == {Before(t, k) : t \in S}
<1>1. W \subseteq FiniteSubsetsOf(Finished(k)) /\ W # {}
  <2>1. \A t \in S : Before(t, k) \in SUBSET Finished(k)
    BY DEF Before
  <2>2. \A t \in S : IsFiniteSet(Before(t, k))
    BY <2>1, RetentionFinite, FS_Subset
  <2> QED
    BY <2>1, <2>2 DEF FiniteSubsetsOf
<1>2. PICK w \in W : \A v \in W : <<v, w>> \notin StrictSubsetOrdering(Finished(k))
  BY <1>1, FS_StrictSubsetOrderingWellFounded, WFMin
<1>3. PICK t \in S : w = Before(t, k)
  BY <1>2
<1>4. ASSUME NEW u \in S, FinishedBefore(u, t) PROVE FALSE
  <2>1. Before(u, k) \in W /\ Before(u, k) \subseteq Before(t, k)
    BY <1>4, OrderOfFinish DEF Before
  <2>2. u \in Before(t, k) /\ u \notin Before(u, k)
    BY <1>4, OrderOfFinish DEF Before
  <2>3. Before(u, k) \in SUBSET Finished(k) /\ Before(t, k) \in SUBSET Finished(k)
    BY DEF Before
  <2> QED
    BY <1>2, <1>3, <2>1, <2>2, <2>3 DEF StrictSubsetOrdering
<1> QED
  BY <1>4

(* Eviction makes room, unless it leaves no finished task of the kind.     *)
LEMMA EvictsEnough ==
  ASSUME TaskTypeOK, NEW k \in Kind, Finished(k) \ Evicted(k) # {}
  PROVE  Cardinality(OfKind(k) \ Evicted(k)) + 1 <= Cap[k]
<1>1. /\ IsFiniteSet(OfKind(k)) /\ Cardinality(OfKind(k)) \in Nat
      /\ Finished(k) \subseteq OfKind(k) /\ IsFiniteSet(Finished(k))
      /\ Evicted(k) \in SUBSET Finished(k)
      /\ OverCap(k) \in Nat /\ Cardinality(OfKind(k)) + 1 <= OverCap(k) + Cap[k]
  BY RetentionFinite
<1>2. PICK t \in Finished(k) \ Evicted(k) :
        \A u \in Finished(k) \ Evicted(k) : ~ FinishedBefore(u, t)
  BY FirstFinished
<1>3. Before(t, k) \in SUBSET Evicted(k) /\ IsFiniteSet(Evicted(k))
  BY <1>1, <1>2, FS_Subset DEF Before
<1>4. /\ Cardinality(Before(t, k)) <= Cardinality(Evicted(k))
      /\ Cardinality(Before(t, k)) \in Nat /\ Cardinality(Evicted(k)) \in Nat
  BY <1>3, FS_Subset, FS_CardinalityType
<1>5. OverCap(k) <= Cardinality(Before(t, k))
  BY <1>1, <1>2, <1>4 DEF Evicted, Before
<1>6. Cardinality(OfKind(k) \ Evicted(k)) = Cardinality(OfKind(k)) - Cardinality(Evicted(k))
  <2>1. OfKind(k) \cap Evicted(k) = Evicted(k)
    BY <1>1
  <2> QED
    BY <1>1, <2>1, FS_Difference
<1>7. Cap[k] \in Nat
  BY RegistryAssumption
<1> QED
  BY <1>1, <1>4, <1>5, <1>6, <1>7

(* A step that drops a task is a start or a prune.                         *)
LEMMA MapStays ==
  ASSUME [Next]_vars
  PROVE  \/ \E k \in Kind, timed \in BOOLEAN : Start(k, timed)
         \/ Prune
         \/ tasks' = tasks /\ next' = next
<1>1. ASSUME NEW t \in Task, RunnerStep(t) PROVE tasks' = tasks /\ next' = next
  BY <1>1 DEF RunnerStep, ExecuteBegin, AddCleanup, ForgetCleanup, RunnerReturns,
     RunnerThrows, RunCleanup, FinishThrown
<1>2. ASSUME NEW c \in Caller, ClientStep(c)
      PROVE  \/ \E k \in Kind, timed \in BOOLEAN : Start(k, timed)
             \/ tasks' = tasks /\ next' = next
  BY <1>2 DEF ClientStep, RunTask, RunReply, CancelTask, CancelRefused, CancelReply
<1> QED
  BY <1>1, <1>2 DEF Next, StartTask, WatchdogFires, Tick, vars

(* Eviction and pruning forget the oldest results of a kind first.         *)
THEOREM ForgetsOldestFirst == Spec => OldestForgottenFirst
<1> DEFINE InOrder == \A t \in tasks \ tasks' :
                        \A u \in tasks \cap tasks' :
                          status[u] \in Terminal /\ kind[u] = kind[t] =>
                            ~ FinishedBefore(u, t)
<1>1. IInv /\ [Next]_vars => [InOrder]_vars
  <2> SUFFICES ASSUME IInv, [Next]_vars, NEW t \in tasks \ tasks',
                      NEW u \in tasks \cap tasks', status[u] \in Terminal,
                      kind[u] = kind[t], FinishedBefore(u, t)
               PROVE  FALSE
    OBVIOUS
  <2>1. TaskTypeOK
    BY DEF IInv, TypeOK
  <2>2. CASE \E k \in Kind, timed \in BOOLEAN : Start(k, timed)
    <3>1. PICK k \in Kind : tasks' = (tasks \ Evicted(k)) \cup {next}
      BY <2>2 DEF Start
    <3>2. t \in Evicted(k) /\ kind[t] = k
      BY <3>1, EvictedFinished
    <3>3. u \in Finished(k)
      BY <3>2 DEF Finished, OfKind
    <3>4. u \in Evicted(k)
      BY <2>1, <3>2, <3>3, EvictsInOrder
    <3>5. u = next
      BY <3>1, <3>4
    <3>6. status[u] = "none"
      BY <2>1, <2>2, <3>5, RegistryAssumption DEF IInv, FreshNext, Start, Task
    <3> QED
      BY <3>6 DEF Terminal
  <2>3. CASE Prune
    <3>1. t \in Expired /\ u \notin Expired
      BY <2>3 DEF Prune
    <3>2. finishedAt[t] + TTL < now /\ ~ (finishedAt[u] + TTL < now)
      BY <3>1 DEF Expired
    <3>3. finishedAt[t] \in Nat /\ finishedAt[u] \in Nat /\ TTL \in Nat /\ now \in Nat
      BY <2>1, RegistryAssumption, NowNat DEF TaskTypeOK
    <3>4. finishedAt[t] < finishedAt[u]
      BY <3>2, <3>3
    <3> QED
      BY <3>3, <3>4 DEF FinishedBefore
  <2>4. CASE tasks' = tasks
    BY <2>4
  <2> QED
    BY <2>2, <2>3, <2>4, MapStays
<1> QED
  BY <1>1, Invariance, PTL DEF Spec, OldestForgottenFirst

(* After a start the kind is within its cap, or all its tasks still run.   *)
THEOREM StartKeepsCap == Spec => CapHoldsAfterStart
<1> DEFINE Kept == \A k \in Kind : next' # next /\ kind'[next] = k =>
                     \/ Cardinality(OfKind(k)') <= Cap[k]
                     \/ Finished(k)' = {}
<1>1. IInv /\ [Next]_vars => [Kept]_vars
  <2> SUFFICES ASSUME IInv, [Next]_vars, NEW k \in Kind, next' # next, kind'[next] = k,
                      Finished(k)' # {}
               PROVE  Cardinality(OfKind(k)') <= Cap[k]
    OBVIOUS
  <2>1. TaskTypeOK
    BY DEF IInv, TypeOK
  <2>2. PICK j \in Kind, timed \in BOOLEAN : Start(j, timed)
    BY MapStays DEF Prune
  <2>3. next \in Task /\ j = k
    BY <2>1, <2>2 DEF Start, TaskTypeOK
  <2>4. /\ tasks' = (tasks \ Evicted(k)) \cup {next}
        /\ \A u \in Task \ {next} : kind'[u] = kind[u] /\ status'[u] = status[u]
        /\ status'[next] = "running" /\ kind'[next] = k
    BY <2>1, <2>2, <2>3 DEF Start, TaskTypeOK
  <2>5. OfKind(k)' \in SUBSET ((OfKind(k) \ Evicted(k)) \cup {next})
    BY <2>1, <2>4 DEF OfKind, TaskTypeOK
  <2>6. Finished(k)' \subseteq Finished(k) \ Evicted(k)
    BY <2>1, <2>4 DEF Finished, OfKind, TaskTypeOK, Terminal
  <2>7. Cardinality(OfKind(k) \ Evicted(k)) + 1 <= Cap[k]
    BY <2>1, <2>6, EvictsEnough
  <2>8. IsFiniteSet(OfKind(k) \ Evicted(k))
    BY <2>1, RetentionFinite, FS_Difference
  <2>9. /\ IsFiniteSet((OfKind(k) \ Evicted(k)) \cup {next})
        /\ Cardinality((OfKind(k) \ Evicted(k)) \cup {next})
             <= Cardinality(OfKind(k) \ Evicted(k)) + 1
    <3>1. Cardinality(OfKind(k) \ Evicted(k)) \in Nat
      BY <2>8, FS_CardinalityType
    <3>2. /\ IsFiniteSet((OfKind(k) \ Evicted(k)) \cup {next})
          /\ \/ Cardinality((OfKind(k) \ Evicted(k)) \cup {next})
                   = Cardinality(OfKind(k) \ Evicted(k))
             \/ Cardinality((OfKind(k) \ Evicted(k)) \cup {next})
                   = Cardinality(OfKind(k) \ Evicted(k)) + 1
      BY <2>8, FS_AddElement
    <3> QED
      BY <3>1, <3>2
  <2>10. /\ Cardinality(OfKind(k)') <= Cardinality((OfKind(k) \ Evicted(k)) \cup {next})
         /\ Cardinality(OfKind(k)') \in Nat
         /\ Cardinality((OfKind(k) \ Evicted(k)) \cup {next}) \in Nat
         /\ Cardinality(OfKind(k) \ Evicted(k)) \in Nat /\ Cap[k] \in Nat
    BY <2>5, <2>8, <2>9, FS_Subset, FS_CardinalityType, RegistryAssumption
  <2> QED
    BY <2>7, <2>9, <2>10
<1> QED
  BY <1>1, Invariance, PTL DEF Spec, CapHoldsAfterStart

-----------------------------------------------------------------------------
(* The registry implements TaskView.  Every step of a task is compared     *)
(* with what a polling client sees of it.                                  *)
ViewMap == [t \in Task |-> ClientView(t)]

(* A step that changes neither what is seen of any task nor which tasks    *)
(* are bounded is a stuttering step of TaskView.                           *)
LEMMA ViewStutter ==
  ASSUME status' = status, tasks' = tasks,
         \A u \in Task : status[u] \in Live =>
                         (watchdog'[u] \/ aborted'[u] <=> watchdog[u] \/ aborted[u])
  PROVE  ViewMap' = ViewMap /\ Bounded' = Bounded
BY DEF ViewMap, ClientView, Bounded

LEMMA ViewOfStart ==
  ASSUME IInv, NEW k \in Kind, NEW timed \in BOOLEAN, Start(k, timed)
  PROVE  View!Appear(next)
<1>1. TaskTypeOK /\ FreshNext /\ \A u \in Task : TaskInv(u)
  BY DEF IInv, TypeOK
<1>2. next \in Task /\ status[next] = "none" /\ ~ aborted[next]
  BY <1>1, RegistryAssumption DEF Start, FreshNext, Task, TaskInv, TaskCoherent
<1> DEFINE gone == Evicted(k) \cap Task
<1>3. \A u \in gone : status[u] \in Terminal /\ u \in tasks /\ u # next
  BY <1>2, EvictedFinished DEF Terminal
<1>4. gone \in SUBSET {u \in Task : ViewMap[u] \in View!Final}
  BY <1>3 DEF ViewMap, ClientView, View!Final, Terminal
<1>5. ASSUME NEW u \in Task
      PROVE  ViewMap'[u] = IF u = next THEN "running"
                           ELSE IF u \in gone THEN "gone" ELSE ViewMap[u]
  <2>1. status'[u] = IF u = next THEN "running" ELSE status[u]
    BY <1>1 DEF Start, TaskTypeOK
  <2>2. u \in tasks' <=> u = next \/ (u \in tasks /\ u \notin gone)
    BY DEF Start
  <2> QED
    BY <1>3, <2>1, <2>2 DEF ViewMap, ClientView, Terminal
<1>6. ViewMap' = [u \in Task |-> IF u = next THEN "running"
                                 ELSE IF u \in gone THEN "gone" ELSE ViewMap[u]]
  BY <1>5 DEF ViewMap
<1>7. ViewMap[next] = "unknown"
  BY <1>2 DEF ViewMap, ClientView
<1>8. \A u \in Task \ {next} : u \in Bounded' <=> u \in Bounded
  BY <1>1, <1>2 DEF Start, TaskTypeOK, Bounded, cancel
<1>9. Bounded' \in {Bounded, Bounded \cup {next}}
  <2>1. next \notin Bounded
    BY <1>2 DEF Bounded, Live
  <2>2. Bounded \subseteq Task /\ Bounded' \subseteq Task
    BY DEF Bounded
  <2>3. CASE next \in Bounded'
    <3>1. Bounded' = Bounded \cup {next}
      BY <1>2, <1>8, <2>2, <2>3
    <3> QED
      BY <3>1
  <2>4. CASE next \notin Bounded'
    <3>1. Bounded' = Bounded
      BY <1>8, <2>1, <2>2, <2>4
    <3> QED
      BY <3>1
  <2> QED
    BY <2>3, <2>4
<1> QED
  BY <1>4, <1>6, <1>7, <1>9 DEF View!Appear, ViewMap

LEMMA ViewOfRequest ==
  ASSUME IInv, NEW t \in Task, NEW who, Cancellable(t), RequestCancel(t, who),
         tasks' = tasks, \A u \in Task \ {t} : watchdog'[u] = watchdog[u]
  PROVE  View!AcceptCancel(t)
<1>1. TaskTypeOK /\ TaskInv(t)
  BY DEF IInv, TypeOK
<1>2. status[t] = "running" /\ t \in tasks
  BY <1>1 DEF Cancellable, TaskInv, Live
<1>3. /\ status'[t] = "cancelling" /\ aborted'[t]
      /\ \A u \in Task \ {t} : status'[u] = status[u] /\ aborted'[u] = aborted[u]
  BY <1>1 DEF RequestCancel, TaskTypeOK
<1>4. ViewMap' = [ViewMap EXCEPT ![t] = "cancelling"]
  BY <1>2, <1>3 DEF ViewMap, ClientView
<1>5. Bounded' = Bounded \cup {t}
  BY <1>3 DEF Bounded, Live
<1>6. ViewMap[t] = "running"
  BY <1>2 DEF ViewMap, ClientView
<1> QED
  BY <1>4, <1>5, <1>6 DEF View!AcceptCancel, ViewMap

(* How a runner settles, as the client sees it.                            *)
LEMMA ViewOfFinish ==
  ASSUME IInv, NEW t \in Task, NEW s \in Terminal,
         status[t] \in Live, aborted[t] => s = "cancelled",
         status' = [status EXCEPT ![t] = s],
         tasks' = tasks, aborted' = aborted,
         \A u \in Task \ {t} : watchdog'[u] = watchdog[u]
  PROVE  View!Finish(t)
<1>1. TaskTypeOK /\ TaskInv(t)
  BY DEF IInv, TypeOK
<1>2. t \in tasks /\ (status[t] = "cancelling" => s = "cancelled")
  BY <1>1 DEF TaskInv, TaskCoherent
<1>3. status'[t] = s /\ \A u \in Task \ {t} : status'[u] = status[u]
  BY <1>1 DEF TaskTypeOK
<1>4. ViewMap' = [ViewMap EXCEPT ![t] = s]
  <2>1. s # "none"
    BY DEF Terminal
  <2> QED
    BY <1>2, <1>3, <2>1 DEF ViewMap, ClientView
<1>5. Bounded' = Bounded \ {t}
  BY <1>3 DEF Bounded, Live, Terminal
<1>6. ViewMap[t] = status[t]
  BY <1>2 DEF ViewMap, ClientView, Live
<1>7. s \in View!Final
  BY DEF View!Final, Terminal
<1> QED
  BY <1>2, <1>4, <1>5, <1>6, <1>7 DEF View!Finish, ViewMap, Live

LEMMA ViewOfRunner ==
  ASSUME IInv, NEW t \in Task, RunnerStep(t)
  PROVE  View!Finish(t) \/ (ViewMap' = ViewMap /\ Bounded' = Bounded)
<1> USE DEF cancel, outcome
<1>1. TaskTypeOK /\ TaskInv(t)
  BY DEF IInv, TypeOK
<1>2. CASE RunnerReturns(t)
  <2>1. status[t] \in Live
    BY <1>1, <1>2 DEF RunnerReturns, TaskInv, TaskCoherent, TaskTypeOK, Status, Live
  <2>2. StatusOnReturn(t) \in Terminal /\ (aborted[t] => StatusOnReturn(t) = "cancelled")
    BY DEF StatusOnReturn, Terminal
  <2>3. \A u \in Task \ {t} : watchdog'[u] = watchdog[u]
    BY <1>1, <1>2 DEF RunnerReturns, Settle, TaskTypeOK
  <2> QED
    BY <1>2, <2>1, <2>2, <2>3, ViewOfFinish DEF RunnerReturns
<1>3. CASE FinishThrown(t)
  <2>1. status[t] \in Live
    BY <1>1, <1>3 DEF FinishThrown, TaskInv, TaskCoherent, TaskTypeOK, Status, Live
  <2>2. StatusOnThrow(t) \in Terminal /\ (aborted[t] => StatusOnThrow(t) = "cancelled")
    BY DEF StatusOnThrow, Terminal
  <2>3. \A u \in Task \ {t} : watchdog'[u] = watchdog[u]
    BY <1>1, <1>3 DEF FinishThrown, Settle, TaskTypeOK
  <2> QED
    BY <1>3, <2>1, <2>2, <2>3, ViewOfFinish DEF FinishThrown
<1>4. CASE \/ ExecuteBegin(t) \/ AddCleanup(t) \/ ForgetCleanup(t)
           \/ RunCleanup(t)
           \/ \E err \in {"AbortError", "Error"} : RunnerThrows(t, err)
  BY <1>4, ViewStutter
     DEF ExecuteBegin, AddCleanup, ForgetCleanup, RunCleanup, RunnerThrows
<1> QED
  BY <1>2, <1>3, <1>4 DEF RunnerStep

LEMMA ViewOfWatchdog ==
  ASSUME IInv, NEW t \in Task, WatchdogFires(t)
  PROVE  View!AcceptCancel(t) \/ (ViewMap' = ViewMap /\ Bounded' = Bounded)
<1>1. TaskTypeOK /\ TaskInv(t)
  BY DEF IInv, TypeOK
<1>2. watchdog[t] /\ \A u \in Task \ {t} : watchdog'[u] = watchdog[u]
  BY <1>1 DEF WatchdogFires, TaskTypeOK
<1>3. CASE Cancellable(t) /\ RequestCancel(t, "watchdog")
  BY <1>2, <1>3, ViewOfRequest DEF WatchdogFires
<1>4. CASE ~ Cancellable(t) /\ UNCHANGED <<status, cancel>>
  <2>1. status[t] \in Live => aborted[t]
    BY <1>1, <1>4 DEF Cancellable, TaskInv, TaskCoherent, Live
  <2> QED
    BY <1>2, <1>4, <2>1, ViewStutter DEF WatchdogFires, cancel
<1> QED
  BY <1>3, <1>4 DEF WatchdogFires

LEMMA ViewOfPrune == ASSUME IInv, Prune PROVE View!Disappear
<1> DEFINE gone == Expired \cap Task
<1>1. \A u \in gone : u \in tasks /\ status[u] \in Terminal
  BY DEF Expired
<1>2. gone \in SUBSET {u \in Task : ViewMap[u] \in View!Final}
  BY <1>1 DEF ViewMap, ClientView, View!Final, Terminal
<1>3. ViewMap' = [u \in Task |-> IF u \in gone THEN "gone" ELSE ViewMap[u]]
  BY <1>1 DEF Prune, ViewMap, ClientView, Terminal
<1>4. Bounded' = Bounded
  BY DEF Prune, Bounded, cancel
<1> QED
  BY <1>2, <1>3, <1>4 DEF View!Disappear, ViewMap

LEMMA ViewOfStep ==
  ASSUME IInv, [Next]_vars
  PROVE  View!ViewNext \/ (ViewMap' = ViewMap /\ Bounded' = Bounded)
<1>1. ASSUME NEW k \in Kind, NEW timed \in BOOLEAN, Start(k, timed)
      PROVE  View!ViewNext
  BY <1>1, ViewOfStart DEF Start, View!ViewNext
<1>2. ASSUME NEW c \in Caller, NEW t \in Task, CancelTask(c, t)
      PROVE  View!ViewNext
  BY <1>2, ViewOfRequest DEF CancelTask, View!ViewNext
<1>3. ASSUME NEW c \in Caller,
             \/ RunReply(c) \/ CancelReply(c)
             \/ \E t \in Task : CancelRefused(c, t)
      PROVE  ViewMap' = ViewMap /\ Bounded' = Bounded
  BY <1>3, ViewStutter DEF RunReply, CancelReply, CancelRefused, cancel
<1>4. ASSUME NEW t \in Task, RunnerStep(t) \/ WatchdogFires(t)
      PROVE  View!ViewNext \/ (ViewMap' = ViewMap /\ Bounded' = Bounded)
  BY <1>4, ViewOfRunner, ViewOfWatchdog DEF View!ViewNext
<1>5. Prune => View!ViewNext
  BY ViewOfPrune DEF View!ViewNext
<1>6. Tick \/ UNCHANGED vars => ViewMap' = ViewMap /\ Bounded' = Bounded
  BY ViewStutter DEF Tick, vars, cancel
<1> QED
  BY <1>1, <1>2, <1>3, <1>4, <1>5, <1>6
     DEF Next, ClientStep, StartTask, RunTask

(* The safety part of ImplementsView: for every number of tasks, kinds and *)
(* clients, what a client sees by polling is a behaviour of TaskView.      *)
THEOREM RegistryImplementsView == Spec => View!ViewSafe
<1>1. Init => View!ViewInit
  BY DEF Init, View!ViewInit, ClientView, Bounded, Live
<1>2. IInv /\ [Next]_vars => [View!ViewNext]_<<ViewMap, Bounded>>
  BY ViewOfStep
<1> QED
  BY <1>1, <1>2, Invariance, PTL DEF Spec, View!ViewSafe, ViewMap

=============================================================================
