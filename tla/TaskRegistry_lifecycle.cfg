\* Cancellation against completion, cleanups, the watchdog and pruning; what ends.
CONSTANTS
  MaxTasks = 2
  Kind = {"build"}
  Cap <- CapOne
  MaxCleanups = 1
  TTL = 0
  MaxTime = 1
  Caller = {"c1"}
SPECIFICATION FairSpec
INVARIANTS LiveTaskIsReachable CancellationIsFinal AnswersStayTrue SettledLeavesNothing
PROPERTIES CallsAreAnswered ImplementsView
