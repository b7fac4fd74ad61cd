------------------------------ MODULE Cleanup ------------------------------
(***************************************************************************)
(* The cleanup stack and runHandler of src/cleanup.ts.  A handler's body   *)
(* registers cleanups while it builds up state and forgets those whose     *)
(* state it keeps; when it throws, or its watchdog fires, the rest run in  *)
(* reverse order, one awaited after the other.                             *)
(*                                                                         *)
(* The watchdog does not stop the body.  A body that goes on regardless is *)
(* a late one: it may still register and forget while the cleanups run.    *)
(* The one handler with a watchdog (executeFlowWithPause in handlers.ts)   *)
(* registers one cleanup, so late bodies here do no more.                  *)
(***************************************************************************)
EXTENDS Naturals, Sequences, SequencesExt

CONSTANTS
  Name,               (* names of cleanups                                 *)
  MaxAdds             (* bound: registrations of a body                    *)

VARIABLES
  actions,            (* the stack: ids and names                          *)
  added,              (* registrations so far; the next id is added + 1    *)
  phase,              (* of the handler: "body", "aborted", "cleaning",    *)
                      (* "over"                                            *)
  outcome,            (* what runHandler does: "none" yet, "ok", "throws"  *)
  at,                 (* index of runAll's loop, counted from 1            *)
  ran,                (* ids of the cleanups runAll called, in order       *)
  pending,            (* ids on the stack when runAll began, in order      *)
  bodyDone,
  late

cleanupVars == <<actions, added, phase, outcome, at, ran, pending, bodyDone, late>>

Limit == IF late THEN 1 ELSE MaxAdds

CleanupInit ==
  /\ actions = <<>> /\ added = 0
  /\ phase = "body" /\ outcome = "none"
  /\ at = 0 /\ ran = <<>> /\ pending = <<>>
  /\ bodyDone = FALSE /\ late \in BOOLEAN

Ids(s) == [k \in DOMAIN s |-> s[k].id]

-----------------------------------------------------------------------------
(* The body. *)

BodyRuns == ~bodyDone /\ (phase = "body" \/ late)

add ==
  /\ BodyRuns /\ added < Limit
  /\ added' = added + 1
  /\ \E n \in Name : actions' = Append(actions, [id |-> added + 1, name |-> n])
  /\ UNCHANGED <<phase, outcome, at, ran, pending, bodyDone, late>>

(* The most recent one of the name; none is no error. *)
forget ==
  /\ BodyRuns
  /\ \E n \in Name :
       LET k == SelectLastInSeq(actions, LAMBDA a : a.name = n)
       IN  k # 0 /\ actions' = RemoveAt(actions, k)
  /\ UNCHANGED <<added, phase, outcome, at, ran, pending, bodyDone, late>>

Returns_RunsCleanups ==
  /\ BodyRuns /\ bodyDone' = TRUE
  /\ IF phase = "body" THEN phase' = "aborted" /\ outcome' = "ok"
     ELSE UNCHANGED <<phase, outcome>>
  /\ UNCHANGED <<actions, added, at, ran, pending, late>>

(* A result in time is returned and nothing is cleaned up; a late one is   *)
(* dropped.                                                                *)
Returns ==
  /\ BodyRuns /\ bodyDone' = TRUE
  /\ IF phase = "body" THEN phase' = "over" /\ outcome' = "ok"
     ELSE UNCHANGED <<phase, outcome>>
  /\ UNCHANGED <<actions, added, at, ran, pending, late>>

(* The signal is aborted, and the body hears of it before runAll begins.   *)
Abort == phase' = "aborted" /\ outcome' = "throws"

Throws ==
  /\ BodyRuns /\ bodyDone' = TRUE
  /\ IF phase = "body" THEN Abort ELSE UNCHANGED <<phase, outcome>>
  /\ UNCHANGED <<actions, added, at, ran, pending, late>>

(* timeoutRace *)
Watchdog ==
  /\ late /\ phase = "body"
  /\ Abort
  /\ UNCHANGED <<actions, added, at, ran, pending, bodyDone, late>>

-----------------------------------------------------------------------------
(* runAll reads the stack by index, between awaits of what it calls.  A    *)
(* late body that registered two and forgot one meanwhile would make it    *)
(* call one of them again.                                                 *)

RunFrom_Oldest(k) ==
  IF k = 0 THEN phase' = "over" /\ actions' = <<>> /\ UNCHANGED <<at, ran>>
  ELSE /\ ran' = Append(ran, actions[Len(actions) + 1 - k].id)
       /\ at' = k - 1 /\ phase' = "cleaning" /\ UNCHANGED actions

RunFrom(k) ==
  IF k = 0 THEN phase' = "over" /\ actions' = <<>> /\ UNCHANGED <<at, ran>>
  ELSE /\ ran' = Append(ran, actions[k].id)
       /\ at' = k - 1 /\ phase' = "cleaning" /\ UNCHANGED actions

runAll ==
  /\ phase = "aborted" /\ pending' = Ids(actions)
  /\ RunFrom(Len(actions))
  /\ UNCHANGED <<added, outcome, bodyDone, late>>

RunNext ==
  /\ phase = "cleaning"
  /\ RunFrom(at)
  /\ UNCHANGED <<added, outcome, pending, bodyDone, late>>

CleanupNext ==
  \/ add \/ forget \/ Returns \/ Throws \/ Watchdog \/ runAll \/ RunNext

CleanupSpec == CleanupInit /\ [][CleanupNext]_cleanupVars

-----------------------------------------------------------------------------
(* Properties. *)

(* The contract of cleanup.ts: after a failure every cleanup still         *)
(* registered when they begin runs, once, the last one first, whatever a   *)
(* late body does meanwhile; after success none does.                      *)
CleanedUpOnce ==
  phase = "over" =>
    /\ outcome = "ok" => ran = <<>>
    /\ outcome = "throws" => ran = Reverse(pending)
=============================================================================
