\* A client that waits for every answer; timeouts and cancellations happen.
SPECIFICATION FairSpec
CONSTANTS
  Session = {s1, s2}
  Flow = {f1, f2}
  None = None
  Overlap = {}
INVARIANTS PortExclusive NothingLeaks TerminalIsQuiet WovenComplete
PROPERTIES ImplementsLease
