\* Flows, and a stop, begun while others are in progress.
SPECIFICATION FairSpec
CONSTANTS
  Session = {s1}
  Flow = {f1, f2}
  None = None
  Overlap = {"stop", "flow"}
PROPERTIES PauseIsOver RecordingRecovers
