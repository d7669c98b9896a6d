\* One loadData call, stations and a file that come at any time, under the
\* fairness of the event loop and the pool.
CONSTANTS
  Gui = gui
  None = none
  DefaultStation = default
  Task = {p1}
  StationUid = {s1}
  StationName = {m1}
  ObsFileUid = {f1}
SPECIFICATION FairSpec
INVARIANTS TypeOK PagesAreCurrent 
PROPERTIES NothingVanishes LoadingEnds
