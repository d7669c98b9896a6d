SPECIFICATION Spec
CONSTANTS
  fileA = fileA  fileB = fileB  siteA = siteA  siteB = siteB
  Key <- Keys
  StationUid <- Keys
  ObsFileUid <- Keys
  StationName <- Sites
  DefaultStation = none
  FileName <- Files
  StationOf <- Suggested
INVARIANTS TypeOK NothingRefused
PROPERTY AcceptedIsRegistered
