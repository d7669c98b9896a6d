--------------------------- MODULE NavCoreRegistry ---------------------------
(***************************************************************************)
(* The registries of NavCore: the stations and the observation files of a  *)
(* project, src/core/NavCore/src/NavCore.cpp.  Each is a map from a UID to *)
(* a record that the class fills once and never edits: setStation,         *)
(* delStation and their like are stubs, and so is addNavFile.              *)
(*                                                                         *)
(* A station's record is abstracted to its name, an observation file's to  *)
(* the UID of its station.  A key the caller leaves out of the JSON object *)
(* is a member of these sets like any other: the empty string.             *)
(***************************************************************************)
CONSTANTS
  StationUid,     \* station_UID of a caller's JSON object
  StationName,    \* station_name of it
  DefaultStation, \* what getStation returns for a UID it does not know
  ObsFileUid      \* obsfile_UID of it

VARIABLES
  stations,  \* m_station_map: UID -> station_name
  obsfiles   \* m_obsfile_map: UID -> station_UID

registryVars == <<stations, obsfiles>>

EmptyMap == [k \in {} |-> k]

StationMap == UNION {[known -> StationName] : known \in SUBSET StationUid}
ObsFileMap == UNION {[known -> StationUid] : known \in SUBSET ObsFileUid}

RegistryTypeOK == stations \in StationMap /\ obsfiles \in ObsFileMap

RegistryInit == stations = EmptyMap /\ obsfiles = EmptyMap

Inserted(map, key, value) ==
  [k \in DOMAIN map \cup {key} |-> IF k = key THEN value ELSE map[k]]

(* Mutant: operator[] for find and insert, a known record is overwritten. *)
StationOverwritten(map, u, n) == Inserted(map, u, n)

(* What addStation leaves in the map: a UID that is known keeps its record *)
(* and the call returns 1.                                                 *)
StationInserted(map, u, n) ==
  IF u \in DOMAIN map THEN map ELSE Inserted(map, u, n)

AddStation(u, n) ==
  /\ stations' = StationInserted(stations, u, n)
  /\ obsfiles' = obsfiles

(* A new file brings its station with it.  The station's record comes from *)
(* the same JSON object.                                                   *)
AddObsFile(f, u, n) ==
  /\ f \notin DOMAIN obsfiles
  /\ obsfiles' = Inserted(obsfiles, f, u)
  /\ stations' = StationInserted(stations, u, n)

(* A file with a known UID is refused before anything changes. *)
RefuseObsFile(f) ==
  /\ f \in DOMAIN obsfiles
  /\ UNCHANGED registryVars

GetStation(u) == IF u \in DOMAIN stations THEN stations[u] ELSE DefaultStation

-----------------------------------------------------------------------------
(* Properties *)

(* getStation never answers for an observation file with the empty station *)
(* it returns when it does not know the UID.                               *)
ObsFileHasStation ==
  \A f \in DOMAIN obsfiles : obsfiles[f] \in DOMAIN stations

(* A record that is registered stays as it was entered, whatever is added  *)
(* under its UID later.                                                    *)
RecordsStay ==
  /\ \A u \in DOMAIN stations : u \in DOMAIN stations' /\ stations'[u] = stations[u]
  /\ \A f \in DOMAIN obsfiles : f \in DOMAIN obsfiles' /\ obsfiles'[f] = obsfiles[f]
=============================================================================
