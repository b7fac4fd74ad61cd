\* driver-conflict.ts:10-12 against two flows at once, one of which has the session paused.
SPECIFICATION Spec
CONSTANTS
  Session = {s1}
  Flow = {f1, f2}
  None = None
  Overlap = {"flow"}
PROPERTY ResumesBesideNoFlow
