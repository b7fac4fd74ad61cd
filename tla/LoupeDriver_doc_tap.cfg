\* loupe-driver.ts:269-270 against a cached observation that outlives a lost answer, or typing.
SPECIFICATION LoupeSpec
CONSTANTS
  Layout <- MCLayout
  Point = {1}
  MaxActions = 4
  MaxScrolls = 2
INVARIANT TapHitsTarget
CHECK_DEADLOCK FALSE
