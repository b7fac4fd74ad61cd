SPECIFICATION MCSpec
CONSTANTS
  Mocks = 2
  Setup = 2
  Actions = 3
  Assertions = 2
  Teardown = 1
  Waits = {2}
  Name = {"driver", "poller"}
  MaxAdds = 4
  Caller = {c1, c2}
  Reader = {r1, r2}
  MaxConns = 4
  MaxCalls = 3
  Domain = {"api", "cdn"}
  Asks <- MCAsks
  MaxTime = 3
  MaxTraffic = 2
  Times <- MCTimes
  Window = 2
  FlowTolerance = 1
  TrackUrl = "track"
  FixtureOf <- MCFixtureOf
  PollInterval = 1
  Target = {"a"}
  Flow = {"login", "search"}
  MaxRequests = 2
  MaxData = 4
  MaxReads = 2
  Collector = {k1, k2}
  MaxRelaunches = 1
  MaxSamples = 2
  Layout <- MCLayout
  Point = {1}
  MaxActions = 3
  MaxScrolls = 2
INVARIANTS ExitCodeIsTrue RunLeavesNothing CleanedUpOnce ReconnectIsClean AnswerIsFresh
  NearestCause StubsAreLatest TimelineAddsUp ReplayIsTheSession VerdictsAreTrue
  RunReleases SamplesAreOfOneProcess TapHitsNamed
SYMMETRY MCSymmetry
\* The services end.
CHECK_DEADLOCK FALSE
