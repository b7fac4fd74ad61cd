------------------------------ MODULE TaskView ------------------------------
(***************************************************************************)
(* What the task registry promises to a client that polls a task: the      *)
(* abstract specification that TaskRegistry implements.                    *)
(*                                                                         *)
(* A client sees a task running, perhaps cancelling, then in exactly one   *)
(* final status, and at last no longer at all (poll_task_status answers    *)
(* notFound).  A task that still runs never disappears, a cancellation     *)
(* that was accepted ends in "cancelled" and in nothing else, and a task   *)
(* with a watchdog does not run for ever.                                  *)
(***************************************************************************)
CONSTANT Task

VARIABLES
  view,   (* what poll_task_status shows of each task                      *)
  timed   (* the tasks that a watchdog or a cancellation bounds            *)

Final == {"done", "failed", "cancelled"}

ViewInit ==
  /\ view = [t \in Task |-> "unknown"]
  /\ timed = {}

Appear(t) ==
  /\ view[t] = "unknown"
  /\ \E gone \in SUBSET {u \in Task : view[u] \in Final} :
       view' = [u \in Task |-> IF u = t THEN "running"
                               ELSE IF u \in gone THEN "gone" ELSE view[u]]
  /\ timed' \in {timed, timed \cup {t}}

AcceptCancel(t) ==
  /\ view[t] = "running"
  /\ view' = [view EXCEPT ![t] = "cancelling"]
  /\ timed' = timed \cup {t}

Finish(t) ==
  /\ \/ view[t] = "running" /\ view' \in {[view EXCEPT ![t] = s] : s \in Final}
     \/ view[t] = "cancelling" /\ view' = [view EXCEPT ![t] = "cancelled"]
  /\ timed' = timed \ {t}

Disappear ==
  /\ \E gone \in SUBSET {u \in Task : view[u] \in Final} :
       view' = [u \in Task |-> IF u \in gone THEN "gone" ELSE view[u]]
  /\ UNCHANGED timed

ViewNext ==
  \/ \E t \in Task : Appear(t) \/ AcceptCancel(t) \/ Finish(t)
  \/ Disappear

ViewSafe == ViewInit /\ [][ViewNext]_<<view, timed>>

ViewLive == \A t \in Task : (t \in timed) ~> (view[t] \in Final \cup {"gone"})

ViewSpec == ViewSafe /\ ViewLive

=============================================================================
