\* The proxy fallback of stub-writer.ts:219, served by wiremock/runner.ts:226.
SPECIFICATION DataSpec
CONSTANTS
  Times <- MCTimes
  Window = 2
  FlowTolerance = 1
  TrackUrl = "track"
  FixtureOf <- MCFixtureOf
  PollInterval = 1
  Target = {"a"}
  Flow = {"login"}
  MaxRequests = 2
  MaxData = 4
  MaxReads = 2
INVARIANT UnmockedReachesServer
CHECK_DEADLOCK FALSE
