--------------------------- MODULE MCTaskRegistry ---------------------------
(* Small instances of TaskRegistry.  With room for two tasks of a kind,    *)
(* eviction has to choose among finished ones; with room for one, the      *)
(* start of the second evicts or breaches the cap.                         *)
EXTENDS TaskRegistry

CapOne == [k \in Kind |-> 1]

CapTwoOrOne == [k \in Kind |-> IF k = "build" THEN 2 ELSE 1]
=============================================================================
