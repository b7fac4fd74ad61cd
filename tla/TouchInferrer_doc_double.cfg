\* touch-inferrer.ts (suppress) against an action that redraws the screen twice.
SPECIFICATION Spec
CONSTANTS
  TransientName = {"spinner"}
  DecorativeLabel = {"logo"}
  AmbiguousText = {"42"}
  MaxChangesThreshold = 2
  Screen <- Screens
  FirstScreen <- FirstScreens
  Manual = FALSE
  MaxShown = 4
  MaxActs = 2
INVARIANT RecordedNotInferred
CHECK_DEADLOCK FALSE
