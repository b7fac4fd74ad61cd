---------------------------- MODULE FeatureTest ----------------------------
(***************************************************************************)
(* run_feature_test: the runner of src/featureTest/runner.ts and the       *)
(* command line around it (src/cli/feature-test.ts).  One run installs     *)
(* mocks, runs setup flows, records a session while it performs actions,   *)
(* asks the network tools for verdicts, compiles the session, runs         *)
(* teardown flows and, whatever happened, deletes the mocks it installed.  *)
(*                                                                         *)
(* The runner calls the other handlers and awaits each; here a call is one *)
(* step that succeeds or fails.  A failed call may have had its effect.    *)
(***************************************************************************)
EXTENDS Naturals, Sequences, FiniteSets

CONSTANTS
  Mocks, Setup, Actions, Assertions, Teardown,  (* lengths in the spec     *)
  Waits                                         (* positions of waits      *)

ASSUME SpecAssumption ==
  /\ {Mocks, Setup, Actions, Assertions, Teardown} \subseteq Nat
  /\ Waits \subseteq 1..Actions

VARIABLES
  pc,             (* the phase                                             *)
  i,              (* position in the phase's list                          *)
  rules,          (* the run's rules in Proxyman                           *)
  installed,      (* installedRunMocks                                     *)
  unanswered,     (* rules whose creation was not answered                 *)
  undeleted,      (* rules whose deletion failed                           *)
  session,        (* the recording: "none", "recording", "over"            *)
  compileFailed,
  setupFlows,     (* result.setup.flows, of each its `passed`              *)
  setupPassed,    (* result.setup.passed                                   *)
  interactions,   (* length of result.actions.interactions                 *)
  performed,      (* how often the device performed each action            *)
  actionsPassed,
  verdicts,       (* result.assertions, of each its `passed`               *)
  passed,         (* result.passed                                         *)
  exit,           (* exit code of the command line, 3 before it ends       *)
  cliFallback     (* MCA_FEATURE_TEST_CLI_FALLBACK is "1"                  *)

mockVars == <<rules, installed, unanswered, undeleted>>
recordVars == <<session, compileFailed>>
setupVars == <<setupFlows, setupPassed>>
actionVars == <<interactions, performed, actionsPassed>>
outcomeVars == <<verdicts, passed>>
vars == <<pc, i, mockVars, recordVars, setupVars, actionVars, outcomeVars, exit, cliFallback>>

TypeOK ==
  /\ pc \in {"load", "install", "setup", "start", "act", "assert", "compile",
             "teardown", "verdict", "cleanup", "over"}
  /\ i \in Nat
  /\ {rules, installed, unanswered, undeleted} \subseteq SUBSET (1..Mocks)
  /\ session \in {"none", "recording", "over"} /\ compileFailed \in BOOLEAN
  /\ setupFlows \in Seq(BOOLEAN) /\ setupPassed \in BOOLEAN
  /\ interactions \in 0..Actions /\ performed \in [1..Actions -> 0..2]
  /\ actionsPassed \in BOOLEAN
  /\ verdicts \in Seq(BOOLEAN) /\ passed \in BOOLEAN
  /\ exit \in 0..3 /\ cliFallback \in BOOLEAN

Init ==
  /\ pc = "load" /\ i = 1
  /\ rules = {} /\ installed = {} /\ unanswered = {} /\ undeleted = {}
  /\ session = "none" /\ compileFailed = FALSE
  /\ setupFlows = <<>> /\ setupPassed = TRUE
  /\ interactions = 0 /\ performed = [a \in 1..Actions |-> 0]
  /\ actionsPassed = TRUE
  /\ verdicts = <<>> /\ passed = FALSE
  /\ exit = 3 /\ cliFallback \in BOOLEAN

(* A loop over a list of n entries: in its body, and behind it. *)
In(ph, n)  == pc = ph /\ i <= n
Stay          == pc' = pc /\ i' = i + 1
Go(ph)     == pc' = ph /\ i' = 1
Past(ph, n, next) == pc = ph /\ i > n /\ Go(next)

-----------------------------------------------------------------------------
(* A spec or a command line that cannot be read: exit code 2. *)
Load ==
  /\ pc = "load"
  /\ \/ Go("install") /\ UNCHANGED exit
     \/ Go("over") /\ exit' = 2
  /\ UNCHANGED <<mockVars, recordVars, setupVars, actionVars, outcomeVars, cliFallback>>

(* installRunnerMock; a failure ends the run, and the rule may be there.   *)
InstallFails_Returns ==
  /\ In("install", Mocks)
  /\ \E made \in SUBSET {i} :
       rules' = rules \cup made /\ unanswered' = unanswered \cup made
  /\ Go("over") /\ exit' = 1
  /\ UNCHANGED <<installed, undeleted, recordVars, setupVars, actionVars, outcomeVars, cliFallback>>

InstallFails ==
  /\ In("install", Mocks)
  /\ \E made \in SUBSET {i} :
       rules' = rules \cup made /\ unanswered' = unanswered \cup made
  /\ Go("cleanup")
  /\ UNCHANGED <<installed, undeleted, recordVars, setupVars, actionVars, outcomeVars, exit, cliFallback>>

Install ==
  /\ In("install", Mocks)
  /\ rules' = rules \cup {i} /\ installed' = installed \cup {i}
  /\ Stay
  /\ UNCHANGED <<unanswered, undeleted, recordVars, setupVars, actionVars, outcomeVars, exit, cliFallback>>

Installed ==
  /\ Past("install", Mocks, "setup")
  /\ UNCHANGED <<mockVars, recordVars, setupVars, actionVars, outcomeVars, exit, cliFallback>>

(* A setup flow runs if the phase is within its budget. *)
SetupPasses ==
  /\ In("setup", Setup)
  /\ setupFlows' = Append(setupFlows, TRUE)
  /\ Stay
  /\ UNCHANGED <<mockVars, recordVars, setupPassed, actionVars, outcomeVars, exit, cliFallback>>

(* The budget is spent, the flow fails or it throws: no further phase. *)
SetupFails ==
  /\ In("setup", Setup)
  /\ setupFlows' = Append(setupFlows, FALSE) /\ setupPassed' = FALSE
  /\ Go("cleanup")
  /\ UNCHANGED <<mockVars, recordVars, actionVars, outcomeVars, exit, cliFallback>>

SetupOver ==
  /\ Past("setup", Setup, "start")
  /\ UNCHANGED <<mockVars, recordVars, setupVars, actionVars, outcomeVars, exit, cliFallback>>

(* start_recording_session cleans up after itself when it throws. *)
StartRecording ==
  /\ pc = "start"
  /\ \/ session' = "recording" /\ Go("act")
     \/ UNCHANGED session /\ Go("cleanup")
  /\ UNCHANGED <<mockVars, compileFailed, setupVars, actionVars, outcomeVars, exit, cliFallback>>

Wait ==
  /\ In("act", Actions) /\ i \in Waits
  /\ interactions' = interactions + 1
  /\ Stay
  /\ UNCHANGED <<mockVars, recordVars, setupVars, performed, actionsPassed, outcomeVars, exit, cliFallback>>

Do(n) == performed' = [performed EXCEPT ![i] = @ + n]

(* execute_ui_action; when it throws and the flag is set, the command-line *)
(* driver is asked as well.                                                *)
Act ==
  /\ In("act", Actions) /\ i \notin Waits
  /\ \/ Do(1)
     \/ cliFallback /\ \E already \in {0, 1} : Do(already + 1)
  /\ interactions' = interactions + 1
  /\ Stay
  /\ UNCHANGED <<mockVars, recordVars, setupVars, actionsPassed, outcomeVars, exit, cliFallback>>

ActFails ==
  /\ In("act", Actions) /\ i \notin Waits
  /\ \E already \in 0..(IF cliFallback THEN 2 ELSE 1) : Do(already)
  /\ actionsPassed' = FALSE
  /\ Go("compile")
  /\ UNCHANGED <<mockVars, recordVars, setupVars, interactions, outcomeVars, exit, cliFallback>>

ActTimesOut_Unnoticed ==
  /\ In("act", Actions)
  /\ Go("assert")
  /\ UNCHANGED <<mockVars, recordVars, setupVars, interactions, performed, actionsPassed, outcomeVars,
                 exit, cliFallback>>

(* The budget of the phase is looked at before every action. *)
ActTimesOut ==
  /\ In("act", Actions)
  /\ actionsPassed' = FALSE
  /\ Go("compile")
  /\ UNCHANGED <<mockVars, recordVars, setupVars, interactions, performed, outcomeVars, exit, cliFallback>>

(* After the last action the traffic settles, then come the assertions. *)
ActsOver ==
  /\ Past("act", Actions, "assert")
  /\ UNCHANGED <<mockVars, recordVars, setupVars, actionVars, outcomeVars, exit, cliFallback>>

(* One verify_network_* tool; a throw is a failed assertion. *)
RunAssertion ==
  /\ In("assert", Assertions)
  /\ \E v \in BOOLEAN : verdicts' = Append(verdicts, v)
  /\ Stay
  /\ UNCHANGED <<mockVars, recordVars, setupVars, actionVars, passed, exit, cliFallback>>

AssertsOver ==
  /\ Past("assert", Assertions, "compile")
  /\ UNCHANGED <<mockVars, recordVars, setupVars, actionVars, outcomeVars, exit, cliFallback>>

(* stop_and_compile_test; its failure is logged. *)
StopAndCompile ==
  /\ pc = "compile"
  /\ \/ session' = "over" /\ UNCHANGED compileFailed
     \/ session' \in {session, "over"} /\ compileFailed' = TRUE
  /\ Go("teardown")
  /\ UNCHANGED <<mockVars, setupVars, actionVars, outcomeVars, exit, cliFallback>>

(* A teardown flow; how it ends changes nothing. *)
TeardownFlow ==
  /\ In("teardown", Teardown)
  /\ Stay
  /\ UNCHANGED <<mockVars, recordVars, setupVars, actionVars, outcomeVars, exit, cliFallback>>

TeardownOver ==
  /\ Past("teardown", Teardown, "verdict")
  /\ UNCHANGED <<mockVars, recordVars, setupVars, actionVars, outcomeVars, exit, cliFallback>>

AllTrue(s, n) == Len(s) = n /\ \A k \in 1..Len(s) : s[k]

Verdict ==
  /\ pc = "verdict"
  /\ passed' = (setupPassed /\ actionsPassed /\ AllTrue(verdicts, Assertions))
  /\ Go("cleanup")
  /\ UNCHANGED <<mockVars, recordVars, setupVars, actionVars, verdicts, exit, cliFallback>>

(* The finally block: every installed rule is deleted, or that fails. *)
DeleteMock ==
  /\ In("cleanup", Mocks) /\ i \in installed
  /\ \/ rules' = rules \ {i} /\ UNCHANGED undeleted
     \/ rules' \in {rules, rules \ {i}} /\ undeleted' = undeleted \cup {i}
  /\ Stay
  /\ UNCHANGED <<installed, unanswered, recordVars, setupVars, actionVars, outcomeVars, exit, cliFallback>>

(* runCli turns the result into the exit code. *)
ExitCode ==
  /\ pc = "cleanup" /\ i \notin installed
  /\ Go("over") /\ exit' = IF passed THEN 0 ELSE 1
  /\ UNCHANGED <<mockVars, recordVars, setupVars, actionVars, outcomeVars, cliFallback>>

Next ==
  \/ Load \/ InstallFails \/ Install \/ Installed
  \/ SetupPasses \/ SetupFails \/ SetupOver \/ StartRecording
  \/ Wait \/ Act \/ ActFails \/ ActTimesOut \/ ActsOver \/ RunAssertion \/ AssertsOver
  \/ StopAndCompile \/ TeardownFlow \/ TeardownOver \/ Verdict
  \/ DeleteMock \/ ExitCode

Spec == Init /\ [][Next]_vars

-----------------------------------------------------------------------------
(* Properties. *)

(* Exit code 0 is a promise to CI: every setup flow passed, the device     *)
(* performed every action, every assertion was asked and held; and a run   *)
(* that did all this is not failed for its teardown (runner.ts, phases 1   *)
(* to 4, and runCli).                                                      *)
ExitCodeIsTrue ==
  /\ exit = 0 => \A a \in (1..Actions) \ Waits : performed[a] >= 1
  /\ exit \in {0, 1} =>
       (exit = 0 <=> /\ AllTrue(setupFlows, Setup) /\ session # "none"
                     /\ interactions = Actions /\ AllTrue(verdicts, Assertions))

(* Whichever way the run ends, the rules it leaves in Proxyman are those   *)
(* of which it never got the id and those whose deletion failed, and the   *)
(* session is over unless stop_and_compile_test itself failed.             *)
RunLeavesNothing ==
  pc = "over" => /\ rules \subseteq unanswered \cup undeleted
                 /\ session = "recording" => compileFailed
=============================================================================
