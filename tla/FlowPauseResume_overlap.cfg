SPECIFICATION Spec
CONSTANTS
  Session = {s1}
  Flow = {f1, f2}
  None = None
  Overlap = {"start", "stop", "force", "flow"}
INVARIANTS
  PausedHasResumer
  ActiveDriverIsAlive
