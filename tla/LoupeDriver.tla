---------------------------- MODULE LoupeDriver ----------------------------
(***************************************************************************)
(* LoupeDriver (src/loupe/loupe-driver.ts) under execute_ui_action: taps   *)
(* by label go by the ref the element had in the last observation, which   *)
(* is kept until an action is known to have changed the screen, and where  *)
(* there is no ref by the point or the bounds that the client gave.        *)
(* Typing into an element is two actions here: a tap of it, then the text; *)
(* going back and a tap of a point alone are as a swipe.                   *)
(***************************************************************************)
EXTENDS Integers, Sequences, FiniteSets, Functions

CONSTANTS
  Layout,             (* the app's screens: of each, the label of every ref *)
  Point,              (* the places on a screen the client gives points of *)
  MaxActions,         (* bound on actions and on redraws by the app        *)
  MaxScrolls          (* SCROLL_UNTIL_VISIBLE_MAX_STEPS                    *)

(* Screens are numbered from 1, where the app starts; 0 is none.  Refs are *)
(* handed out in the order of the screen, so that a place on it is named   *)
(* as the ref of what is there; another screen may have something else at  *)
(* that place, or nothing.                                                 *)
ASSUME LoupeAssumption ==
  /\ DOMAIN Layout \subseteq Nat \ {0} /\ 1 \in DOMAIN Layout
  /\ \A s \in DOMAIN Layout : DOMAIN Layout[s] \subseteq Nat \ {0}
  /\ Point \subseteq Nat \ {0}

VARIABLES
  screen,             (* what the app shows                                *)
  runtime,            (* "no", "injected", "degraded"                      *)
  attempts,           (* of an injection: start() and setAppContext()      *)
  lastObservation,    (* the screen it is of, 0 for undefined              *)
  action, settle,     (* executeAction and dumpHierarchyUntilSettled       *)
  stale,              (* what happened on the screen since the observation *)
                      (* was made that is kept, fetched, or acted on       *)
  tap,                (* a tap by label that was performed, until the next *)
                      (* action: what it was to hit and hit, by ref or by  *)
                      (* point, and whether the element was there (ghost)  *)
  budget

loupeVars == <<screen, runtime, attempts, lastObservation, action, settle, stale, tap, budget>>

Label == UNION {Range(Layout[s]) : s \in DOMAIN Layout}
Kinds == {"tapId", "tapLabel", "type", "swipe", "scrollUntilVisible"}
NoAction == [pc |-> "idle", kind |-> "none", want |-> "none", ref |-> 0, at |-> 0,
             scrolls |-> 0]
NoTap == [want |-> "none", hit |-> "none", by |-> "none", there |-> TRUE, stale |-> {}]
NoSettle == [pc |-> "idle", fetched |-> 0, last |-> 0, hits |-> 0]

LoupeInit ==
  /\ screen = 1 /\ runtime = "no" /\ attempts = 0 /\ lastObservation = 0
  /\ action = NoAction /\ settle = NoSettle
  /\ stale = [of \in {"kept", "fetched", "used"} |-> {}]
  /\ tap = NoTap
  /\ budget = MaxActions

canUseLoupe == runtime = "injected"
Happens(reason) == stale' = [of \in DOMAIN stale |-> stale[of] \cup {reason}]

-----------------------------------------------------------------------------

(* start(), and setAppContext() unless that has injected already. *)
injectOrDegrade ==
  /\ attempts < 2 /\ ~canUseLoupe /\ action = NoAction
  /\ attempts' = attempts + 1 /\ runtime' \in {"injected", "degraded"}
  /\ UNCHANGED <<screen, lastObservation, action, settle, stale, tap, budget>>

(* The point or the middle of the bounds of the element to tap; 0 if the   *)
(* client gives neither.                                                   *)
PointFor(k) == IF k = "tapLabel" THEN Point \cup {0} ELSE {0}

executeAction ==
  /\ attempts > 0 /\ action.pc = "idle" /\ budget > 0
  /\ budget' = budget - 1 /\ tap' = NoTap
  /\ \E k \in Kinds, l \in Label : \E p \in PointFor(k) :
       action' = [NoAction EXCEPT
         !.kind = k, !.want = l, !.at = p,
         !.pc = IF ~canUseLoupe THEN "maestro"
                ELSE CASE k = "tapLabel" -> "find" [] k = "scrollUntilVisible" -> "look"
                       [] OTHER -> "command"]
  /\ UNCHANGED <<screen, runtime, attempts, lastObservation, settle, stale>>

(* Degraded: the Maestro wrapper finds the element itself. *)
ByMaestro ==
  /\ action.pc = "maestro" /\ action' = NoAction
  /\ screen' \in DOMAIN Layout
  /\ UNCHANGED <<runtime, attempts, lastObservation, settle, stale, tap, budget>>

(* dispatchTap by a ref, or without one by the point that was given, or    *)
(* else the tap fails.                                                     *)
TapAt(ref) ==
  action' = IF ref = 0 /\ action.at = 0 THEN NoAction
            ELSE [action EXCEPT !.pc = "command", !.ref = ref]

(* findRef: the kept observation, else a new one. *)
findRef ==
  /\ action.pc = "find"
  /\ lastObservation' = IF lastObservation # 0 THEN lastObservation ELSE screen
  /\ LET kept == IF lastObservation # 0 THEN stale["kept"] ELSE {}
         refs == {r \in DOMAIN Layout[lastObservation'] :
                    Layout[lastObservation'][r] = action.want}
     IN /\ stale' = [stale EXCEPT !["kept"] = kept, !["used"] = kept]
        /\ IF refs = {} THEN TapAt(0) ELSE TapAt(CHOOSE r \in refs : TRUE)
  /\ UNCHANGED <<screen, runtime, attempts, settle, tap, budget>>

(* The new observation cannot be had: there is no ref either. *)
RefreshFails ==
  /\ action.pc = "find" /\ lastObservation = 0
  /\ TapAt(0)
  /\ stale' = [stale EXCEPT !["used"] = {"unseen"}]
  /\ UNCHANGED <<screen, runtime, attempts, lastObservation, settle, tap, budget>>

(* What the command would hit; "none" if it is not there, or no tap.       *)
Hit == CASE action.kind = "tapLabel" ->
              LET place == IF action.ref # 0 THEN action.ref ELSE action.at
              IN  IF place \in DOMAIN Layout[screen] THEN Layout[screen][place] ELSE "none"
         [] action.kind = "tapId" ->
              IF action.want \in Range(Layout[screen]) THEN action.want ELSE "none"
         [] OTHER -> "none"

IsTap == action.kind \in {"tapId", "tapLabel"}
ByPoint == action.kind = "tapLabel" /\ action.ref = 0

(* How a performed command may leave the kept observation behind.          *)
Reason(ok) == IF settle # NoSettle THEN "beside" ELSE IF ~ok THEN "lost"
              ELSE IF action.kind = "type" THEN "typed" ELSE "acted"

Invalidated_TapsOnly == IF IsTap THEN 0 ELSE lastObservation

(* Taps and swipes drop the observation, typing does not. *)
Invalidated == IF action.kind = "type" THEN lastObservation ELSE 0

(* The command is performed, and the answer may be lost (its time-out).    *)
Performed ==
  /\ action.pc = "command" /\ (IsTap => Hit # "none" \/ ByPoint)
  /\ screen' \in DOMAIN Layout
  /\ tap' = IF action.kind # "tapLabel" THEN tap
            ELSE [want |-> action.want, hit |-> Hit,
                  by |-> IF ByPoint THEN "point" ELSE "ref",
                  there |-> action.want \in Range(Layout[screen]),
                  stale |-> stale["used"]]
  /\ \E ok \in BOOLEAN :
       /\ Happens(Reason(ok))
       /\ lastObservation' = IF ok THEN Invalidated ELSE lastObservation
       /\ IF ok /\ action.kind = "scrollUntilVisible"
          THEN action' = [action EXCEPT !.pc = "look", !.scrolls = @ + 1] /\ UNCHANGED settle
          ELSE /\ action' = NoAction
               /\ settle' = IF ok /\ settle = NoSettle THEN [NoSettle EXCEPT !.pc = "fetch"]
                            ELSE settle
  /\ UNCHANGED <<runtime, attempts, budget>>

(* It fails, as it must for an element that is not there: nothing is done. *)
CommandFails ==
  /\ action.pc = "command" /\ action' = NoAction
  /\ UNCHANGED <<screen, runtime, attempts, lastObservation, settle, stale, tap, budget>>

(* dispatchScrollUntilVisible: look, swipe, and look once more at the end. *)
Look ==
  /\ action.pc = "look"
  /\ \E seen \in {FALSE, action.want \in Range(Layout[screen])} :   (* it may fail *)
       action' = IF seen \/ action.scrolls = MaxScrolls THEN NoAction
                 ELSE [action EXCEPT !.pc = "command"]
  /\ UNCHANGED <<screen, runtime, attempts, lastObservation, settle, stale, tap, budget>>

(* dumpHierarchyUntilSettled: three equal observations; the third is kept. *)
Fetch ==
  /\ settle.pc = "fetch"
  /\ settle' = [settle EXCEPT !.pc = "take", !.fetched = screen]
  /\ stale' = [stale EXCEPT !["fetched"] = {}]
  /\ UNCHANGED <<screen, runtime, attempts, lastObservation, action, tap, budget>>

Take ==
  /\ settle.pc = "take"
  /\ LET same == settle.fetched = settle.last
         settled == same /\ settle.hits = 1
     IN /\ settle' = IF settled THEN NoSettle
                     ELSE [settle EXCEPT !.pc = "fetch", !.last = settle.fetched,
                                         !.hits = IF same THEN @ + 1 ELSE 0]
        /\ lastObservation' = IF settled THEN settle.fetched ELSE lastObservation
        /\ stale' = IF settled THEN [stale EXCEPT !["kept"] = stale["fetched"]] ELSE stale
  /\ UNCHANGED <<screen, runtime, attempts, action, tap, budget>>

(* The deadline, or an observation that fails. *)
SettleEnds ==
  /\ settle.pc = "fetch" /\ settle' = NoSettle
  /\ UNCHANGED <<screen, runtime, attempts, lastObservation, action, stale, tap, budget>>

(* The app changes the screen by itself. *)
Redraw ==
  /\ budget > 0 /\ budget' = budget - 1
  /\ screen' \in DOMAIN Layout \ {screen} /\ Happens("redrawn")
  /\ UNCHANGED <<runtime, attempts, lastObservation, action, settle, tap>>

LoupeNext ==
  \/ injectOrDegrade \/ executeAction \/ ByMaestro \/ findRef \/ RefreshFails
  \/ Performed \/ CommandFails \/ Look \/ Fetch \/ Take \/ SettleEnds \/ Redraw

LoupeSpec == LoupeInit /\ [][LoupeNext]_loupeVars

-----------------------------------------------------------------------------
(* Properties. *)

(* A tap by label hits the element of that label after any number of       *)
(* answered taps and swipes: their observations are dropped, also the one  *)
(* a settle is about to keep.  It may miss only if the app has redrawn     *)
(* itself, text was typed, an answer was lost, or an action ran beside a   *)
(* settle, since the observation it goes by; or by the point that was      *)
(* given with the label, when no observation could be had or the element   *)
(* was not on the screen at all (dispatchTap, findRef).                    *)
TapHitsNamed ==
  tap.hit # tap.want =>
    \/ tap.stale \cap {"redrawn", "typed", "lost", "beside", "unseen"} # {}
    \/ tap.by = "point" /\ ~tap.there

(* loupe-driver.ts, dispatchTap: "replaying the YAML must hit the same     *)
(* target the LoupeDriver hit live".  Replayed by label it hits the        *)
(* element of that label; live, for a client that waits for its answers    *)
(* and an app that changes its screen only when acted on, it does so too   *)
(* when it goes by a ref.                                                  *)
TapHitsTarget ==
  tap.by = "ref" /\ tap.hit # tap.want => tap.stale \cap {"redrawn", "beside"} # {}
=============================================================================
