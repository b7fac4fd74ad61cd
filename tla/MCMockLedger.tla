---------------------------- MODULE MCMockLedger ----------------------------
(* Small instances of MockLedger.  A careful client with two sessions; a   *)
(* client that repeats ids, with a Proxyman that loses answers; the same   *)
(* with two handlers in progress, over one mock id.                        *)
EXTENDS MockLedger

CarefulClient ==
  [scopes |-> {"s1", "s2", "standalone"}, mocks |-> {"m1", "m2"},
   callers |-> {"c1"}, limit |-> 3,
   fresh |-> TRUE, lossy |-> FALSE]

RepeatingClient ==
  [scopes |-> {"s1", "standalone"}, mocks |-> {"m1", "m2"},
   callers |-> {"c1"}, limit |-> 3,
   fresh |-> FALSE, lossy |-> FALSE]

LossyProxyman == [RepeatingClient EXCEPT !.lossy = TRUE]

ConcurrentHandlers ==
  [LossyProxyman EXCEPT !.mocks = {"m1"}, !.callers = {"c1", "c2"},
                        !.limit = 2]

AllSettings == {CarefulClient, LossyProxyman, ConcurrentHandlers}

OnlyRepeating == {RepeatingClient}
=============================================================================
