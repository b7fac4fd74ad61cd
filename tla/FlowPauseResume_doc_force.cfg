SPECIFICATION Spec
CONSTANTS
  Session = {s1}
  Flow = {f1}
  None = None
  Overlap = {"force"}
INVARIANTS
  ForceCleansPaused
