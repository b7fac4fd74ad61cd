\* A poller, a person at the device and an AI client, in half the runs a paced one.
SPECIFICATION FairSpec
CONSTANTS
  TransientName = {"spinner"}
  DecorativeLabel = {"logo"}
  AmbiguousText = {"42"}
  MaxChangesThreshold = 2
  Screen <- Screens
  FirstScreen <- FirstScreens
  Manual = TRUE
  MaxShown = 4
  MaxActs = 2
INVARIANTS OneInferencePerChange ActionsNotInferred
PROPERTIES StoppedInfersNothing CatchesUp
\* A stopped session with no client does nothing more.
CHECK_DEADLOCK FALSE
