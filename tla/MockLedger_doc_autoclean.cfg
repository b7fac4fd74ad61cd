\* handlers.ts:2902 against the early return of the cleanup.
CONSTANTS
  Session = {"s1", "s2"}
  Standalone = "standalone"
  Mock = {"m1", "m2"}
  Caller = {"c1", "c2"}
  MaxRules = 3
  Setting <- OnlyRepeating
SPECIFICATION Spec
PROPERTY AutoCleaned
