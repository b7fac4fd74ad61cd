\* README.md:48 and handlers.ts:2555 against execute().
CONSTANTS
  MaxTasks = 1
  Kind = {"build"}
  Cap <- CapOne
  MaxCleanups = 1
  TTL = 0
  MaxTime = 0
  Caller = {"c1"}
SPECIFICATION Spec
INVARIANT CancelRunsCleanups
