\* Files of the second directory may fail to open.
CONSTANTS
  u1 = u1
  u2 = u2
  n1 = n1
  n2 = n2
  d1 = d1
  d2 = d2
  Missing = missing
  Unset = unset
  Nothing = nothing
  DefaultStation = default
  StationUid = {s1}
  StationName = {m1, m2}
  ObsFileUid = {o1}
  Uid <- MCUid
  Name <- MCName
  Path <- MCPath
  Info <- MCInfo
  ProjectJson <- MCProjectJson
  MayFail <- SecondFails
SPECIFICATION Spec
INVARIANT TypeOK
PROPERTIES OnlyLoadingMisfiles OnlyOpeningMisleads RecordsStayWhileRunning
