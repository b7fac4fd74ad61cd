----------------------------- MODULE MCServices -----------------------------
(***************************************************************************)
(* The parts beside the four state machines with threads of their own: a   *)
(* feature test's run, a handler's cleanups, the connection to Proxyman,   *)
(* the reading of its traffic, a recording's data, a run_test with its     *)
(* profiler, and the Loupe driver.  They share no state, so a behaviour is *)
(* one of one of them; the others stay as they begin.                      *)
(***************************************************************************)
EXTENDS FeatureTest, Cleanup, ProxymanClient, HarCache, SessionData, TestRun, LoupeDriver, TLC

VARIABLE service

Services == {"feature test", "cleanup", "client", "har", "data", "test run", "loupe"}

allVars ==
  <<service, vars, cleanupVars, clientVars, harVars, dataVars, testVars, loupeVars>>

(* The choices of the others' initial states are made only for the service *)
(* they belong to.                                                         *)
MCInit ==
  /\ service \in Services
  /\ Init /\ CleanupInit /\ ClientInit /\ HarInit /\ DataInit /\ TestInit /\ LoupeInit
  /\ service # "feature test" => ~cliFallback
  /\ service # "cleanup" => ~late
  /\ service # "data" => har = <<>>

MCNext ==
  /\ UNCHANGED service
  /\ \/ /\ service = "feature test" /\ Next
        /\ UNCHANGED <<cleanupVars, clientVars, harVars, dataVars, testVars, loupeVars>>
     \/ /\ service = "cleanup" /\ CleanupNext
        /\ UNCHANGED <<vars, clientVars, harVars, dataVars, testVars, loupeVars>>
     \/ /\ service = "client" /\ ClientNext
        /\ UNCHANGED <<vars, cleanupVars, harVars, dataVars, testVars, loupeVars>>
     \/ /\ service = "har" /\ HarNext
        /\ UNCHANGED <<vars, cleanupVars, clientVars, dataVars, testVars, loupeVars>>
     \/ /\ service = "data" /\ DataNext
        /\ UNCHANGED <<vars, cleanupVars, clientVars, harVars, testVars, loupeVars>>
     \/ /\ service = "test run" /\ TestNext
        /\ UNCHANGED <<vars, cleanupVars, clientVars, harVars, dataVars, loupeVars>>
     \/ /\ service = "loupe" /\ LoupeNext
        /\ UNCHANGED <<vars, cleanupVars, clientVars, harVars, dataVars, testVars>>

MCSpec == MCInit /\ [][MCNext]_allVars

MCSymmetry == Permutations(Caller) \cup Permutations(Reader) \cup Permutations(Collector)

MCAsks == {{"api"}, {"api", "cdn"}}
MCTimes == 0..3
MCFixtureOf == [u \in {"feed", "list", "track"} |-> IF u = "track" THEN 2 ELSE 1]

(* Two screens with the same elements at other places, and an empty one. *)
MCLayout == <<<<"ok", "cancel">>, <<"cancel", "ok">>, <<>>>>
=============================================================================
