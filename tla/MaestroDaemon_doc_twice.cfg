\* maestro/retry.ts:4-7 against a request that is sent again after a timeout.
SPECIFICATION Spec
CONSTANTS
  Call = {"poll", "tool"}
  Kinds <- PollAndAct
  Open = "open"
  MaxAttempts = 2
  MaxSpawns = 2
INVARIANT NeverPerformedTwice
CHECK_DEADLOCK FALSE
