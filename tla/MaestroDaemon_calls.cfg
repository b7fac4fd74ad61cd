\* Two calls, a respawn, two attempts of each request, and the stop.
SPECIFICATION FairSpec
CONSTANTS
  Call = {"poll", "tool"}
  Kinds <- PollAndAct
  Open = "open"
  MaxAttempts = 2
  MaxSpawns = 2
INVARIANTS SuccessMeansPerformed OneChannel
PROPERTIES NothingSpawnsAfterStop EveryCallEnds
\* Once every call is over and the driver is stopped nothing is left to do.
CHECK_DEADLOCK FALSE
