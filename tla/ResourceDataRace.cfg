\* A station is added while loadData runs; no files.
CONSTANTS
  Gui = gui
  None = none
  DefaultStation = default
  Task = {p1}
  StationUid = {s1, s2}
  StationName = {m1}
  ObsFileUid = {}
SPECIFICATION Spec
INVARIANT AllIsUpdated
