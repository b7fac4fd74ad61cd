--------------------------- MODULE MCSessionData ---------------------------
EXTENDS SessionData

MCTimes == 0..3
MCFixtureOf == [u \in {"feed", "list", "track"} |-> IF u = "track" THEN 2 ELSE 1]
=============================================================================
