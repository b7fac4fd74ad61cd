\* Three settings in one run: careful, lossy, concurrent.
CONSTANTS
  Session = {"s1", "s2"}
  Standalone = "standalone"
  Mock = {"m1", "m2"}
  Caller = {"c1", "c2"}
  MaxRules = 3
  Setting <- AllSettings
SPECIFICATION Spec
INVARIANTS DriftFree LedgerSound SweepsOwnScope
PROPERTY SweptClean
