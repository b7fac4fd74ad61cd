--------------------------- MODULE TouchInferrer ---------------------------
(***************************************************************************)
(* Passive capture: the poller of src/session/touch-inferrer.ts, started   *)
(* and stopped by src/session/manager.ts, beside execute_ui_action         *)
(* (src/handlers.ts), which acts on the device and asks the poller not to  *)
(* infer what it has recorded itself.                                      *)
(*                                                                         *)
(* pollOnce awaits only the hierarchy read; what follows runs to its end.  *)
(* A snapshot is named by its position in `shown`, so that two snapshots   *)
(* of equal content taken at different moments can be told apart.          *)
(***************************************************************************)
EXTENDS HierarchyDiff

CONSTANTS
  Screen,             (* the screens of the app: sequences of nodes        *)
  FirstScreen,        (* those it may show when the session starts         *)
  Manual,             (* a person uses the device too                      *)
  MaxShown,           (* bound: screens shown, the first one included      *)
  MaxActs             (* bound: calls of execute_ui_action                 *)

ASSUME TouchAssumption ==
  /\ FirstScreen \subseteq Screen /\ Manual \in BOOLEAN
  /\ MaxShown \in Nat \ {0} /\ MaxActs \in Nat

VARIABLES
  shown,              (* the screens the device has shown, in order        *)
  timer,              (* "unset", "set" by start(), "cleared" by stop()    *)
  reading,            (* the poll: "no", "first" or "retry" read, "read"   *)
  tree,               (* the snapshot the poll in flight has read          *)
  previous,           (* previousHierarchy, 0 when null                    *)
  suppressed,         (* the next diff is not to be inferred from          *)
  recent,             (* an inference was made less than debounceMs ago    *)
  last,               (* <<lastInferredAction, lastInferredTarget>>        *)
  log,                (* the interactions recorded for the session         *)
  act,                (* where execute_ui_action stands                    *)
  acts,               (* calls of execute_ui_action                        *)
  effects,            (* of the changes of the screen, those with which an *)
                      (* action took effect (a ghost)                      *)
  paced               (* the client waits for the poller between actions   *)

poll  == <<timer, reading, tree, previous, suppressed, recent, last>>
world == <<shown, effects, paced>>
ai    == <<act, acts>>
vars  == <<world, poll, log, ai>>

TypeOK ==
  /\ shown \in Seq(Screen) /\ Len(shown) \in 1..MaxShown
  /\ timer \in {"unset", "set", "cleared"}
  /\ reading \in {"no", "first", "retry", "read"}
  /\ tree \in 0..Len(shown) /\ previous \in 0..Len(shown)
  /\ suppressed \in BOOLEAN /\ recent \in BOOLEAN
  /\ paced \in BOOLEAN
  /\ act \in {"idle", "snapshot", "dispatch", "done", "settle"}
  /\ acts \in 0..MaxActs /\ effects \in 0..(Len(shown) - 1)
  /\ log \in Seq({"inferred", "inferred-transition", "dispatched"})

Now == Len(shown)

(* What any two screens of the app say, worked out once. *)
Verdicts ==
  {[from |-> a, to |-> b,
    same |-> areEqualTrees(a, b), infer |-> inferInteraction(diff(a, b))] :
     a \in Screen, b \in Screen}

Verdict(a, b) == CHOOSE v \in Verdicts : v.from = a /\ v.to = b

Same(i, j) == Verdict(shown[i], shown[j]).same

Init ==
  /\ shown \in {<<s>> : s \in FirstScreen}
  /\ timer = "unset" /\ reading = "no" /\ tree = 0 /\ previous = 0
  /\ suppressed = FALSE /\ recent = FALSE /\ last = Nothing
  /\ log = <<>> /\ act = "idle" /\ acts = 0 /\ effects = 0
  /\ paced \in BOOLEAN

-----------------------------------------------------------------------------
(* The poller. *)

(* startPolling: the first poll does not wait for the timer. *)
Start ==
  /\ timer = "unset"
  /\ timer' = "set" /\ reading' = "first"
  /\ UNCHANGED <<world, tree, previous, suppressed, recent, last, log, ai>>

(* stopPolling: the timer is cleared; a poll in flight goes on. *)
Stop_Baseline ==
  /\ timer = "set"
  /\ timer' = "cleared"
  /\ UNCHANGED <<world, reading, tree, previous, suppressed, recent, last, log, ai>>

Stop ==
  /\ timer = "set"
  /\ timer' = "cleared" /\ previous' = 0
  /\ UNCHANGED <<world, reading, tree, suppressed, recent, last, log, ai>>

(* The interval timer; a tick during a poll is skipped. *)
Tick ==
  /\ timer = "set" /\ reading = "no"
  /\ reading' = "first"
  /\ UNCHANGED <<world, timer, tree, previous, suppressed, recent, last, log, ai>>

ReadOk ==
  /\ reading \in {"first", "retry"}
  /\ reading' = "read" /\ tree' = Now
  /\ UNCHANGED <<world, timer, previous, suppressed, recent, last, log, ai>>

(* A failed read is tried once more if its error is a transient one; then  *)
(* the poll ends with an error, and the polling goes on.                   *)
ReadFails_Stuck ==
  /\ \/ reading = "first" /\ reading' = "retry"
     \/ reading = "retry" /\ reading' = "failed"
  /\ UNCHANGED <<world, timer, tree, previous, suppressed, recent, last, log, ai>>

ReadFails ==
  /\ \/ reading = "first" /\ reading' \in {"retry", "no"}
     \/ reading = "retry" /\ reading' = "no"
  /\ UNCHANGED <<world, timer, tree, previous, suppressed, recent, last, log, ai>>

Baseline ==
  /\ reading = "read" /\ previous = 0
  /\ reading' = "no" /\ previous' = tree
  /\ UNCHANGED <<world, timer, tree, suppressed, recent, last, log, ai>>

EqualTrees_Consumes ==
  /\ reading = "read" /\ previous # 0 /\ Same(previous, tree)
  /\ reading' = "no" /\ suppressed' = FALSE
  /\ UNCHANGED <<world, timer, tree, previous, recent, last, log, ai>>

EqualTrees ==
  /\ reading = "read" /\ previous # 0 /\ Same(previous, tree)
  /\ reading' = "no"
  /\ UNCHANGED <<world, timer, tree, previous, suppressed, recent, last, log, ai>>

Differs ==
  /\ reading = "read" /\ previous # 0 /\ ~Same(previous, tree)
  /\ reading' = "no" /\ previous' = tree

Suppressed ==
  /\ Differs
  /\ suppressed
  /\ suppressed' = FALSE
  /\ UNCHANGED <<world, timer, tree, recent, last, log, ai>>

Debounced ==
  /\ Differs
  /\ ~suppressed /\ recent
  /\ UNCHANGED <<world, timer, tree, suppressed, recent, last, log, ai>>

Interaction == Verdict(shown[previous], shown[tree]).infer

Target(i) ==
  IF i.element.id # "" THEN i.element.id
  ELSE IF i.element.label # "" THEN i.element.label ELSE i.element.text

RepeatsType(i) ==
  i # Nothing /\ i.action = "type" /\ last = <<"type", Target(i)>>

(* No candidate among the changes, or the same field typed into again. *)
NotInferred ==
  /\ Differs
  /\ ~suppressed /\ ~recent
  /\ Interaction = Nothing \/ RepeatsType(Interaction)
  /\ UNCHANGED <<world, timer, tree, suppressed, recent, last, log, ai>>

Inferred_KeepsBaseline ==
  /\ reading = "read" /\ previous # 0 /\ ~Same(previous, tree)
  /\ reading' = "no" /\ UNCHANGED previous
  /\ ~suppressed /\ ~recent
  /\ Interaction # Nothing /\ ~RepeatsType(Interaction)
  /\ log' = Append(log, Interaction.source)
  /\ recent' = TRUE
  /\ last' = <<Interaction.action, Target(Interaction)>>
  /\ UNCHANGED <<world, timer, tree, suppressed, ai>>

Inferred ==
  /\ Differs
  /\ ~suppressed /\ ~recent
  /\ Interaction # Nothing /\ ~RepeatsType(Interaction)
  /\ log' = Append(log, Interaction.source)
  /\ recent' = TRUE
  /\ last' = <<Interaction.action, Target(Interaction)>>
  /\ UNCHANGED <<world, timer, tree, suppressed, ai>>

DebounceOver ==
  /\ recent /\ recent' = FALSE
  /\ UNCHANGED <<world, timer, reading, tree, previous, suppressed, last, log, ai>>

-----------------------------------------------------------------------------
(* The device and its users. *)

(* Another screen than the one that is shown. *)
Show == Now < MaxShown /\ \E s \in Screen \ {shown[Now]} : shown' = Append(shown, s)

(* A person changes the screen, at any moment. *)
Touch ==
  /\ Manual /\ Show
  /\ UNCHANGED <<effects, paced, poll, log, ai>>

(* What an action began goes on: the app that is loading shows the result, *)
(* or animates (the handler waits for it to settle, the poller does not).  *)
Redraw ==
  /\ effects > 0 /\ Show
  /\ UNCHANGED <<effects, paced, poll, log, ai>>

(* A paced client acts again when the poller has seen what is on the       *)
(* screen and is not comparing an older snapshot.                          *)
Paced ==
  /\ previous # 0 /\ Same(previous, Now)
  /\ reading = "read" => Same(tree, Now)

(* execute_ui_action: the session's driver, then the pre-action snapshot,  *)
(* whose failure does not matter.                                          *)
Act ==
  /\ act = "idle" /\ acts < MaxActs
  /\ timer = "set"
  /\ paced => Paced
  /\ act' = "snapshot" /\ acts' = acts + 1
  /\ UNCHANGED <<world, poll, log>>

(* suppressNextInference, if the session still has a poller; then the      *)
(* action goes to the driver.                                              *)
Dispatch ==
  /\ act = "snapshot" /\ act' = "dispatch"
  /\ suppressed' = (suppressed \/ timer = "set")
  /\ UNCHANGED <<world, timer, reading, tree, previous, recent, last, log, acts>>

(* The device performs the action, which changes the screen or does not. *)
Effect ==
  /\ act = "dispatch" /\ act' = "done"
  /\ \/ UNCHANGED <<shown, effects>>
     \/ Show /\ effects' = effects + 1
  /\ UNCHANGED <<paced, poll, log, acts>>

(* The driver reports success: the action is recorded, and the snapshot    *)
(* that follows only shapes the answer. *)
Record ==
  /\ act = "done" /\ act' = "settle"
  /\ log' = Append(log, "dispatched")
  /\ UNCHANGED <<world, poll, acts>>

(* The driver reports failure, before or after the device has acted: the   *)
(* handler throws.                                                         *)
ActFails ==
  /\ act \in {"dispatch", "done"} /\ act' = "idle"
  /\ UNCHANGED <<world, poll, log, acts>>

Settle ==
  /\ act = "settle" /\ act' = "idle"
  /\ UNCHANGED <<world, poll, log, acts>>

-----------------------------------------------------------------------------

Handle ==
  \/ Baseline \/ EqualTrees \/ Suppressed \/ Debounced \/ NotInferred \/ Inferred

Next ==
  \/ Start \/ Stop \/ Tick \/ ReadOk \/ ReadFails \/ Handle \/ DebounceOver
  \/ Touch \/ Redraw \/ Act \/ Dispatch \/ Effect \/ Record \/ ActFails \/ Settle

Spec == Init /\ [][Next]_vars

(* The interval fires; a read that is tried again and again works now and  *)
(* then; what a handler does after its await is done.  Nobody has to stop  *)
(* the session or to act.                                                  *)
Fairness == WF_vars(Tick) /\ WF_vars(Handle) /\ SF_vars(ReadOk) /\ WF_vars(ReadFails)

FairSpec == Spec /\ Fairness

-----------------------------------------------------------------------------
(* Properties. *)

Inferences == {k \in DOMAIN log : log[k] \in {"inferred", "inferred-transition"}}

(* However reads, taps and polls interleave, one change of the screen is   *)
(* taken for at most one interaction (pollOnce replaces the baseline by    *)
(* what it compared with it, and no two polls run at a time).              *)
OneInferencePerChange == Cardinality(Inferences) < Now

(* A client that lets the poller see one action before the next does not   *)
(* have its actions inferred as touches: there are no more inferences than *)
(* changes of the screen other than those with which an action took        *)
(* effect.  The flag of suppressNextInference is good for one difference,  *)
(* so a touch that comes first may use it up, and then the action counts   *)
(* for the touch (touch-inferrer.ts, suppress).                            *)
ActionsNotInferred == paced => Cardinality(Inferences) <= Now - 1 - effects

(* touch-inferrer.ts and handlers.ts say that the flag prevents the double *)
(* logging of an action: alone on the device, a paced client has nothing   *)
(* inferred.  It has, when one action changes the screen twice.            *)
RecordedNotInferred == paced /\ ~Manual => Inferences = {}

(* After stopPolling nothing is inferred, also by a poll in flight.        *)
StoppedInfersNothing == [][timer = "cleared" => Inferences' = Inferences]_vars

(* Failed reads and skipped ticks do not end the capture: while the        *)
(* session polls, the baseline catches up with the screen.                 *)
CatchesUp == <>[](timer = "set" => previous # 0 /\ Same(previous, Now))
=============================================================================
