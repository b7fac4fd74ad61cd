\* Eviction, breach of the cap and pruning among three tasks of two kinds; no client waits.
CONSTANTS
  MaxTasks = 3
  Kind = {"build", "flow"}
  Cap <- CapTwoOrOne
  MaxCleanups = 0
  TTL = 0
  MaxTime = 1
  Caller = {}
SPECIFICATION Spec
INVARIANT LiveTaskIsReachable
PROPERTY OldestForgottenFirst
\* Without a client nothing happens once every task has ended and expired.
CHECK_DEADLOCK FALSE
