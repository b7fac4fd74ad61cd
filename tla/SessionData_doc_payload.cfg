SPECIFICATION DataSpec
CONSTANTS
  Times <- MCTimes
  Window = 2
  FlowTolerance = 1
  TrackUrl = "track"
  FixtureOf <- MCFixtureOf
  PollInterval = 1
  Target = {"a"}
  Flow = {"login"}
  MaxRequests = 2
  MaxData = 4
  MaxReads = 2
INVARIANT PayloadIsLatest
CHECK_DEADLOCK FALSE
