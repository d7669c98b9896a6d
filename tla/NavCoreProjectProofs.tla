------------------------- MODULE NavCoreProjectProofs -------------------------
(***************************************************************************)
(* What holds of NavCore's project and registries for any UIDs, names,     *)
(* directories and JSON objects, and whichever files fail to open.         *)
(***************************************************************************)
EXTENDS NavCoreProject, TLAPS

-----------------------------------------------------------------------------
(* The registries *)

Maps(Key, Value) == UNION {[known -> Value] : known \in SUBSET Key}

(* A record that is entered keeps the others and maps like them. *)
LEMMA InsertedIsMap ==
  ASSUME NEW Key, NEW Value, NEW map \in Maps(Key, Value),
         NEW key \in Key, NEW value \in Value
  PROVE  /\ Inserted(map, key, value) \in Maps(Key, Value)
         /\ DOMAIN Inserted(map, key, value) = DOMAIN map \cup {key}
         /\ Inserted(map, key, value)[key] = value
         /\ \A k \in DOMAIN map : k # key => Inserted(map, key, value)[k] = map[k]
<1>1. PICK known \in SUBSET Key : map \in [known -> Value]
  BY DEF Maps
<1>2. Inserted(map, key, value) \in [known \cup {key} -> Value]
  BY <1>1 DEF Inserted
<1>3. known \cup {key} \in SUBSET Key
  BY <1>1
<1> QED
  BY <1>1, <1>2, <1>3 DEF Inserted, Maps

(* What addStation leaves is a map that has the station and every station  *)
(* it had, unchanged.                                                      *)
LEMMA StationInsertedIsMap ==
  ASSUME NEW known \in StationMap, NEW u \in StationUid, NEW n \in StationName
  PROVE  /\ StationInserted(known, u, n) \in StationMap
         /\ DOMAIN StationInserted(known, u, n) = DOMAIN known \cup {u}
         /\ \A k \in DOMAIN known : StationInserted(known, u, n)[k] = known[k]
<1>1. CASE u \in DOMAIN known
  BY <1>1 DEF StationInserted
<1>2. CASE u \notin DOMAIN known
  <2>1. StationMap = Maps(StationUid, StationName)
    BY DEF StationMap, Maps
  <2>2. /\ Inserted(known, u, n) \in Maps(StationUid, StationName)
        /\ DOMAIN Inserted(known, u, n) = DOMAIN known \cup {u}
        /\ \A k \in DOMAIN known : k # u => Inserted(known, u, n)[k] = known[k]
    <3>1. known \in Maps(StationUid, StationName)
      BY <2>1
    <3>2. Inserted(known, u, n) \in Maps(StationUid, StationName)
      BY <3>1, InsertedIsMap
    <3>3. DOMAIN Inserted(known, u, n) = DOMAIN known \cup {u}
      BY <3>1, InsertedIsMap
    <3>4. \A k \in DOMAIN known : k # u => Inserted(known, u, n)[k] = known[k]
      BY DEF Inserted
    <3> QED
      BY <3>2, <3>3, <3>4
  <2> QED
    BY <1>2, <2>1, <2>2 DEF StationInserted
<1> QED
  BY <1>1, <1>2

(* The registries of a program that has just started. *)
LEMMA EmptyIsMap ==
  /\ EmptyMap \in StationMap
  /\ EmptyMap \in ObsFileMap
  /\ DOMAIN EmptyMap = {}
<1>1. EmptyMap \in [{} -> StationName] /\ EmptyMap \in [{} -> StationUid]
  BY DEF EmptyMap
<1>2. {} \in SUBSET StationUid /\ {} \in SUBSET ObsFileUid
  OBVIOUS
<1> QED
  BY <1>1, <1>2 DEF EmptyMap, StationMap, ObsFileMap

(* A registration keeps the types, the link from files to stations and     *)
(* every record.                                                           *)
LEMMA RegisterKeepsRecords ==
  ASSUME RegistryTypeOK, ObsFileHasStation, Register
  PROVE  RegistryTypeOK' /\ ObsFileHasStation' /\ RecordsStay
<1>1. PICK u \in StationUid, n \in StationName :
        AddStationCall(u, n) \/ \E f \in ObsFileUid : AddObsFileCall(f, u, n)
  BY DEF Register
<1>2. /\ StationInserted(stations, u, n) \in StationMap
      /\ DOMAIN StationInserted(stations, u, n) = DOMAIN stations \cup {u}
      /\ \A k \in DOMAIN stations : StationInserted(stations, u, n)[k] = stations[k]
  BY StationInsertedIsMap DEF RegistryTypeOK
<1>3. CASE AddStationCall(u, n)
  BY <1>2, <1>3 DEF AddStationCall, AddStation, RegistryTypeOK, ObsFileHasStation, RecordsStay
<1>4. CASE \E f \in ObsFileUid : AddObsFileCall(f, u, n)
  <2>1. PICK f \in ObsFileUid : AddObsFileCall(f, u, n)
    BY <1>4
  <2>2. CASE AddObsFile(f, u, n)
    <3>1. /\ Inserted(obsfiles, f, u) \in ObsFileMap
          /\ DOMAIN Inserted(obsfiles, f, u) = DOMAIN obsfiles \cup {f}
          /\ Inserted(obsfiles, f, u)[f] = u
          /\ \A k \in DOMAIN obsfiles : k # f => Inserted(obsfiles, f, u)[k] = obsfiles[k]
      <4>1. ObsFileMap = Maps(ObsFileUid, StationUid)
        BY DEF ObsFileMap, Maps
      <4>2. obsfiles \in ObsFileMap
        BY DEF RegistryTypeOK
      <4> QED
        BY <4>1, <4>2, InsertedIsMap
    <3> QED
      BY <1>2, <2>2, <3>1 DEF AddObsFile, RegistryTypeOK, ObsFileHasStation, RecordsStay
  <2>3. CASE RefuseObsFile(f)
    BY <2>3 DEF RefuseObsFile, registryVars, RegistryTypeOK, ObsFileHasStation, RecordsStay
  <2> QED
    BY <2>1, <2>2, <2>3 DEF AddObsFileCall
<1> QED
  BY <1>1, <1>3, <1>4

(* Steps that leave the registries alone. *)
LEMMA UnchangedRegistry ==
  ASSUME UNCHANGED registryVars
  PROVE  /\ RegistryTypeOK => RegistryTypeOK'
         /\ ObsFileHasStation => ObsFileHasStation'
         /\ RecordsStay
BY DEF registryVars, RegistryTypeOK, ObsFileHasStation, RecordsStay

(* Every action but Restart and Register leaves the registries alone. *)
LEMMA OnlyRegisterRegisters ==
  ASSUME [Next]_vars
  PROVE  Restart \/ Register \/ UNCHANGED registryVars
BY DEF Next, vars, registryVars, InitProject, InitProjectFails, OpenMainScreen, LoadProject,
       LoadProjectFails, SaveProject, SaveProjectFails, ExitProject

RegistryInv == RegistryTypeOK /\ ObsFileHasStation

LEMMA RegistryInvHolds == Spec => []RegistryInv
<1>1. Init => RegistryInv
  BY EmptyIsMap DEF Init, RegistryInit, RegistryInv, RegistryTypeOK, ObsFileHasStation
<1>2. RegistryInv /\ [Next]_vars => RegistryInv'
  <2> SUFFICES ASSUME RegistryInv, [Next]_vars PROVE RegistryInv'
    OBVIOUS
  <2>1. CASE Restart
    BY <2>1, EmptyIsMap DEF Restart, RegistryInv, RegistryTypeOK, ObsFileHasStation
  <2>2. CASE Register
    BY <2>2, RegisterKeepsRecords DEF RegistryInv
  <2>3. CASE UNCHANGED registryVars
    BY <2>3, UnchangedRegistry DEF RegistryInv
  <2> QED
    BY <2>1, <2>2, <2>3, OnlyRegisterRegisters
<1> QED
  BY <1>1, <1>2, PTL DEF Spec

(* getStation knows the station of every observation file, whatever is     *)
(* registered, in whichever order, with UIDs that repeat or are missing.   *)
THEOREM ObsFilesHaveStations == Spec => []ObsFileHasStation
<1>1. RegistryInv => ObsFileHasStation
  BY DEF RegistryInv
<1> QED
  BY <1>1, RegistryInvHolds, PTL

(* No call changes or removes a record while the program runs. *)
THEOREM RecordsArePermanent == Spec => RecordsStayWhileRunning
<1>1. RegistryInv /\ [Next]_vars => [~Restart => RecordsStay]_vars
  <2> SUFFICES ASSUME RegistryInv, [Next]_vars, ~Restart PROVE RecordsStay
    OBVIOUS
  <2>1. CASE Register
    BY <2>1, RegisterKeepsRecords DEF RegistryInv
  <2>2. CASE UNCHANGED registryVars
    BY <2>2, UnchangedRegistry
  <2> QED
    BY <2>1, <2>2, OnlyRegisterRegisters
<1> QED
  BY <1>1, RegistryInvHolds, PTL DEF Spec, RecordsStayWhileRunning
-----------------------------------------------------------------------------
(* The project and its files *)

(* The value a setter leaves is the one it had or one the caller gave. *)
LEMMA GivenStays ==
  ASSUME NEW Value, NEW value \in Value \cup {Missing}, NEW old \in Value \cup {Unset}
  PROVE  Given(value, old) \in Value \cup {Unset}
BY DEF Given

(* What initProject makes of the identity has the type of one. *)
LEMMA IdentityHasType ==
  ASSUME TypeOK, NEW info \in Info, SetIdentity(info)
  PROVE  /\ projectInfo' \in Info \cup {Nothing}
         /\ uid' \in Uid \cup {Unset}
         /\ name' \in Names
         /\ path' \in Paths
         /\ file' \in File
         /\ loaded' = FALSE
<1>1. /\ info.UID \in Uid \cup {Missing}
      /\ info.name \in Name \cup {Missing}
      /\ info.path \in Path \cup {Missing}
  BY InfoAssumption
<1>2. uid' \in Uid \cup {Unset}
  BY <1>1, GivenStays DEF TypeOK, SetIdentity
<1>3. name' \in Names
  BY <1>1, GivenStays DEF TypeOK, SetIdentity, Names
<1>4. path' \in Paths
  BY <1>1, GivenStays DEF TypeOK, SetIdentity, Paths
<1>5. file' \in File
  BY <1>3, <1>4 DEF SetIdentity, File
<1> QED
  BY <1>2, <1>3, <1>4, <1>5 DEF SetIdentity

(* What the title bar shows has the type of an identity. *)
LEMMA RefreshHasType ==
  ASSUME shown \in View \cup {Nothing}, Refresh,
         uid' \in Uid \cup {Unset}, name' \in Names, file' \in File
  PROVE  shown' \in View \cup {Nothing}
BY DEF Refresh, View

(* The types, apart from the registries'. *)
ProjectTypeOK ==
  /\ projectInfo \in Info \cup {Nothing}
  /\ uid \in Uid \cup {Unset}
  /\ name \in Names
  /\ path \in Paths
  /\ file \in File
  /\ modified \in BOOLEAN
  /\ disk \in [File \X Extension -> Info \cup {Nothing}]
  /\ shown \in View \cup {Nothing}
  /\ mainScreen \in BOOLEAN
  /\ loaded \in BOOLEAN

LEMMA TypeParts == TypeOK <=> RegistryTypeOK /\ ProjectTypeOK
BY DEF TypeOK, ProjectTypeOK

(* What has not been loaded is of the project the files are named after.   *)
Matches ==
  projectInfo # Nothing /\ ~loaded =>
    Agrees(projectInfo.path, file[1]) /\ Agrees(projectInfo.name, file[2])

LEMMA StartHasType == Init => ProjectTypeOK /\ Matches
<1> SUFFICES ASSUME Init PROVE ProjectTypeOK /\ Matches
  OBVIOUS
<1>1. Unset \in Paths /\ Unset \in Names /\ <<Unset, Unset>> \in File
  BY DEF Paths, Names, File
<1>2. disk \in [File \X Extension -> Info \cup {Nothing}]
  BY DEF Init
<1> QED
  BY <1>1, <1>2 DEF Init, ProjectTypeOK, Matches

(* initProject takes the object and the name of the files from one call. *)
LEMMA IdentityMatches ==
  ASSUME NEW info \in Info, SetIdentity(info)
  PROVE  /\ Agrees(info.path, file'[1]) /\ Agrees(info.name, file'[2])
         /\ Matches'
<1>1. /\ Agrees(info.path, file'[1])
      /\ Agrees(info.name, file'[2])
  BY DEF SetIdentity, Given, Agrees
<1>2. projectInfo' = info
  BY DEF SetIdentity
<1> QED
  BY <1>1, <1>2 DEF Matches

(* A write to one file leaves the type of the disk and the other files. *)
LEMMA WriteIsOneFile ==
  ASSUME NEW to \in File, NEW kind \in Extension, NEW info \in Info \cup {Nothing},
         disk \in [File \X Extension -> Info \cup {Nothing}],
         disk' = [disk EXCEPT ![<<to, kind>>] = info]
  PROVE  /\ disk' \in [File \X Extension -> Info \cup {Nothing}]
         /\ disk'[<<to, kind>>] = info
         /\ \A f \in File, e \in Extension :
              f # to \/ e # kind => disk'[<<f, e>>] = disk[<<f, e>>]
<1>1. <<to, kind>> \in File \X Extension
  OBVIOUS
<1>2. ASSUME NEW f \in File, NEW e \in Extension, f # to \/ e # kind
      PROVE  disk'[<<f, e>>] = disk[<<f, e>>]
  BY <1>2
<1> QED
  BY <1>1, <1>2

(* The project's part of a step. *)
LEMMA ProjectStep ==
  ASSUME TypeOK, Matches, [Next]_vars
  PROVE  ProjectTypeOK' /\ Matches'
<1>1. ASSUME NEW info \in Info, InitProject(info) PROVE ProjectTypeOK' /\ Matches'
  <2>1. SetIdentity(info) /\ Refresh /\ disk' = [disk EXCEPT ![<<file', "nps">>] = info]
    BY <1>1 DEF InitProject
  <2>2. /\ projectInfo' \in Info \cup {Nothing}
        /\ uid' \in Uid \cup {Unset} /\ name' \in Names
        /\ path' \in Paths /\ file' \in File /\ loaded' = FALSE
    BY <2>1, IdentityHasType
  <2>3. shown' \in View \cup {Nothing}
    BY <2>1, <2>2, RefreshHasType DEF TypeOK
  <2>4. disk' \in [File \X Extension -> Info \cup {Nothing}]
    BY <2>1, <2>2, WriteIsOneFile DEF TypeOK, Extension
  <2>5. modified' = FALSE /\ mainScreen' = TRUE
    BY <1>1 DEF InitProject
  <2>6. Matches'
    BY <2>1, IdentityMatches
  <2> QED
    BY <2>2, <2>3, <2>4, <2>5, <2>6 DEF ProjectTypeOK
<1>2. ASSUME NEW info \in Info, InitProjectFails(info)
      PROVE  ProjectTypeOK' /\ Matches'
  <2>1. /\ SetIdentity(info)
        /\ UNCHANGED <<modified, disk, shown, mainScreen>>
    BY <1>2 DEF InitProjectFails, screenVars
  <2>2. /\ projectInfo' \in Info \cup {Nothing}
        /\ uid' \in Uid \cup {Unset} /\ name' \in Names
        /\ path' \in Paths /\ file' \in File /\ loaded' = FALSE
    BY <2>1, IdentityHasType
  <2>3. Matches'
    BY <2>1, IdentityMatches
  <2> QED
    BY <2>1, <2>2, <2>3 DEF TypeOK, ProjectTypeOK
<1>3. ASSUME OpenMainScreen PROVE ProjectTypeOK' /\ Matches'
  <2>1. /\ UNCHANGED <<projectInfo, uid, name, path, file, loaded, modified, disk>>
        /\ mainScreen' = TRUE /\ Refresh
    BY <1>3 DEF OpenMainScreen, identityVars
  <2>2. shown' \in View \cup {Nothing}
    BY <2>1, RefreshHasType DEF TypeOK
  <2> QED
    BY <2>1, <2>2 DEF TypeOK, ProjectTypeOK, Matches, Agrees
<1>4. ASSUME NEW p \in Path, LoadProject(p) PROVE ProjectTypeOK' /\ Matches'
  <2>1. projectInfo' \in Info
    BY <1>4, InfoAssumption DEF LoadProject, Paths
  <2>2. /\ UNCHANGED <<uid, name, path, file, modified, disk, shown, mainScreen>>
        /\ loaded' = TRUE
    BY <1>4 DEF LoadProject, screenVars
  <2> QED
    BY <2>1, <2>2 DEF TypeOK, ProjectTypeOK, Matches
<1>5. ASSUME NEW p \in Path, SaveProject(p) PROVE ProjectTypeOK' /\ Matches'
  <2>1. /\ disk' = [disk EXCEPT ![<<file, "cps">>] = projectInfo]
        /\ modified' = FALSE
        /\ UNCHANGED <<projectInfo, uid, name, path, file, loaded, shown, mainScreen>>
    BY <1>5 DEF SaveProject, identityVars, screenVars
  <2>2. disk' \in [File \X Extension -> Info \cup {Nothing}]
    BY <2>1, WriteIsOneFile DEF TypeOK, Extension
  <2> QED
    BY <2>1, <2>2 DEF TypeOK, ProjectTypeOK, Matches, Agrees
<1>6. ASSUME Restart PROVE ProjectTypeOK' /\ Matches'
  <2>1. Unset \in Paths /\ Unset \in Names /\ <<Unset, Unset>> \in File
    BY DEF Paths, Names, File
  <2> QED
    BY <1>6, <2>1 DEF Restart, TypeOK, ProjectTypeOK, Matches
<1>7. ASSUME UNCHANGED <<identityVars, modified, disk, screenVars>>
      PROVE  ProjectTypeOK' /\ Matches'
  BY <1>7 DEF identityVars, screenVars, TypeOK, ProjectTypeOK, Matches, Agrees
<1>8. ASSUME Register PROVE UNCHANGED <<identityVars, modified, disk, screenVars>>
  BY <1>8 DEF Register, AddStationCall, AddObsFileCall
<1> QED
  BY <1>1, <1>2, <1>3, <1>4, <1>5, <1>6, <1>7, <1>8
  DEF Next, vars, LoadProjectFails, SaveProjectFails, ExitProject

ProjectInv == RegistryInv /\ TypeOK /\ Matches

LEMMA ProjectInvHolds == Spec => []ProjectInv
<1>1. Init => TypeOK /\ Matches
  BY StartHasType, TypeParts, EmptyIsMap DEF Init, RegistryInit, RegistryTypeOK
<1>2. RegistryInv' /\ TypeOK /\ Matches /\ [Next]_vars
      => TypeOK' /\ Matches'
  BY ProjectStep, TypeParts DEF RegistryInv, TypeOK, ProjectTypeOK
<1> QED
  BY <1>1, <1>2, RegistryInvHolds, PTL DEF Spec, ProjectInv

(* Every variable keeps its type, for any objects callers pass. *)
THEOREM TypeCorrect == Spec => []TypeOK
<1>1. ProjectInv => TypeOK
  BY DEF ProjectInv
<1> QED
  BY <1>1, ProjectInvHolds, PTL

(* What is written agrees with the name it is written under. *)
LEMMA WriteHoldsItsProject ==
  ASSUME NEW to \in File, NEW kind \in Extension, NEW info \in Info \cup {Nothing},
         disk \in [File \X Extension -> Info \cup {Nothing}],
         disk' = [disk EXCEPT ![<<to, kind>>] = info],
         NEW f \in File, NEW e \in Extension, HoldsItsProject(f, e),
         f = to /\ e = kind /\ info # Nothing => Agrees(info.path, to[1]) /\ Agrees(info.name, to[2])
  PROVE  HoldsItsProject(f, e)'
<1>1. CASE f = to /\ e = kind
  <2>1. disk'[<<f, e>>] = info
    BY <1>1, WriteIsOneFile
  <2> QED
    BY <1>1, <2>1 DEF HoldsItsProject, Agrees
<1>2. CASE ~(f = to /\ e = kind)
  <2>1. disk'[<<f, e>>] = disk[<<f, e>>]
    BY <1>2, WriteIsOneFile
  <2> QED
    BY <2>1 DEF HoldsItsProject, Agrees
<1> QED
  BY <1>1, <1>2

(* Keys that are missing, calls that fail and restarts put no project into *)
(* the file of another: saving what was loaded does, and nothing else.     *)
THEOREM OnlyLoadingCanMisfile == Spec => OnlyLoadingMisfiles
<1> DEFINE Saves(f, e) == loaded /\ f = file /\ e = "cps" /\ \E p \in Path : SaveProject(p)
<1>1. ASSUME TypeOK, Matches, [Next]_vars,
             NEW f \in File, NEW e \in Extension, HoldsItsProject(f, e)
      PROVE  HoldsItsProject(f, e)' \/ Saves(f, e)
  <2>1. ASSUME NEW info \in Info, InitProject(info) PROVE HoldsItsProject(f, e)'
    <3>1. SetIdentity(info) /\ disk' = [disk EXCEPT ![<<file', "nps">>] = info]
      BY <2>1 DEF InitProject
    <3>2. file' \in File /\ "nps" \in Extension
      BY <1>1, <3>1, IdentityHasType DEF Extension
    <3>3. Agrees(info.path, file'[1]) /\ Agrees(info.name, file'[2])
      BY <3>1, IdentityMatches
    <3> QED
      BY <1>1, <3>1, <3>2, <3>3, WriteHoldsItsProject DEF TypeOK
  <2>2. ASSUME NEW p \in Path, SaveProject(p), ~Saves(f, e) PROVE HoldsItsProject(f, e)'
    <3>1. disk' = [disk EXCEPT ![<<file, "cps">>] = projectInfo]
      BY <2>2 DEF SaveProject
    <3>2. /\ file \in File /\ "cps" \in Extension
          /\ projectInfo \in Info \cup {Nothing}
          /\ disk \in [File \X Extension -> Info \cup {Nothing}]
      BY <1>1 DEF TypeOK, Extension
    <3>3. f = file /\ e = "cps" /\ projectInfo # Nothing =>
            Agrees(projectInfo.path, file[1]) /\ Agrees(projectInfo.name, file[2])
      BY <1>1, <2>2 DEF Matches
    <3> QED
      BY <1>1, <3>1, <3>2, <3>3, WriteHoldsItsProject
  <2>3. ASSUME UNCHANGED disk PROVE HoldsItsProject(f, e)'
    BY <1>1, <2>3 DEF HoldsItsProject, Agrees
  <2>4. CASE Register
    BY <2>3, <2>4 DEF Register, AddStationCall, AddObsFileCall
  <2>5. CASE Restart
    BY <2>3, <2>5 DEF Restart
  <2> QED
    BY <1>1, <2>1, <2>2, <2>3, <2>4, <2>5
    DEF Next, vars, InitProjectFails, OpenMainScreen, LoadProject, LoadProjectFails,
        SaveProjectFails, ExitProject
<1>2. ProjectInv /\ [Next]_vars =>
        [\A f \in File, e \in Extension :
           HoldsItsProject(f, e) =>
             \/ HoldsItsProject(f, e)'
             \/ loaded /\ f = file /\ e = "cps" /\ \E p \in Path : SaveProject(p)]_vars
  BY <1>1 DEF ProjectInv
<1> QED
  BY <1>2, ProjectInvHolds, PTL DEF Spec, OnlyLoadingMisfiles
-----------------------------------------------------------------------------
(* The title bar and the disk *)

(* The title bar shows nothing before there is a UID. *)
ShownHasUid == shown # Nothing => uid # Unset

(* A UID that is there does not go away. *)
LEMMA UidStays ==
  ASSUME NEW info \in Info, SetIdentity(info), uid # Unset
  PROVE  uid' # Unset
<1>1. info.UID \in Uid \cup {Missing}
  BY InfoAssumption
<1> QED
  BY <1>1, NothingAssumption DEF SetIdentity, Given

LEMMA ShownHasUidStep ==
  ASSUME ShownHasUid, [Next]_vars
  PROVE  ShownHasUid'
<1>1. ASSUME NEW info \in Info, InitProject(info) PROVE ShownHasUid'
  BY <1>1, UidStays DEF InitProject, Refresh, ShownHasUid
<1>2. ASSUME NEW info \in Info, InitProjectFails(info) PROVE ShownHasUid'
  BY <1>2, UidStays DEF InitProjectFails, screenVars, ShownHasUid
<1>3. CASE OpenMainScreen
  BY <1>3 DEF OpenMainScreen, identityVars, Refresh, ShownHasUid
<1>4. CASE Restart
  BY <1>4 DEF Restart, ShownHasUid
<1>5. ASSUME UNCHANGED <<uid, shown>> PROVE ShownHasUid'
  BY <1>5 DEF ShownHasUid
<1>6. CASE Register
  BY <1>5, <1>6 DEF Register, AddStationCall, AddObsFileCall, identityVars, screenVars
<1> QED
  BY <1>1, <1>2, <1>3, <1>4, <1>5, <1>6
  DEF Next, vars, identityVars, screenVars, LoadProject, LoadProjectFails, SaveProject,
      SaveProjectFails, ExitProject

LEMMA ShownHasUidHolds == Spec => []ShownHasUid
<1>1. Init => ShownHasUid
  BY DEF Init, ShownHasUid
<1> QED
  BY <1>1, ShownHasUidStep, PTL DEF Spec

(* The project that initProject has written is the one the title bar shows *)
(* next.                                                                   *)
LEMMA WrittenIsShown ==
  ASSUME TypeOK, ShownHasUid, NEW info \in Info, InitProject(info)
  PROVE  ShownProjectIsOnDisk'
<1>1. /\ SetIdentity(info) /\ Refresh
      /\ disk' = [disk EXCEPT ![<<file', "nps">>] = info]
  BY DEF InitProject
<1>2. <<file', "nps">> \in File \X Extension
  BY <1>1, IdentityHasType DEF Extension
<1>3. disk'[<<file', "nps">>] = info /\ info # Nothing
  BY <1>1, <1>2, NothingAssumption DEF TypeOK
<1>4. shown' # Nothing => /\ shown'.file = file'
                          /\ shown'.UID = uid'
                          /\ shown'.name = name'
  BY <1>1, UidStays DEF Refresh, ShownHasUid
<1>5. Agrees(info.UID, uid') /\ Agrees(info.name, name')
  BY <1>1 DEF SetIdentity, Given, Agrees
<1> QED
  BY <1>3, <1>4, <1>5 DEF ShownProjectIsOnDisk, Agrees

(* saveProject leaves the files alone that the title bar is about. *)
LEMMA SavingKeepsShown ==
  ASSUME TypeOK, ShownProjectIsOnDisk, NEW p \in Path, SaveProject(p)
  PROVE  ShownProjectIsOnDisk'
<1>1. shown' = shown /\ disk' = [disk EXCEPT ![<<file, "cps">>] = projectInfo]
  BY DEF SaveProject, screenVars
<1>2. shown # Nothing => shown.file \in File
  BY DEF TypeOK, View
<1>3. \A f \in File : disk'[<<f, "nps">>] = disk[<<f, "nps">>]
  BY <1>1 DEF TypeOK, Extension
<1> QED
  BY <1>1, <1>2, <1>3 DEF ShownProjectIsOnDisk, Agrees

(* The title bar and the disk part in one way only, for any callers and    *)
(* any directories: the main screen is created on top of a failed          *)
(* initProject.                                                            *)
THEOREM OnlyOpeningCanMislead == Spec => OnlyOpeningMisleads
<1>1. TypeOK /\ ShownHasUid /\ [Next]_vars
      => [ShownProjectIsOnDisk /\ ~OpenMainScreen => ShownProjectIsOnDisk']_vars
  <2> SUFFICES ASSUME TypeOK, ShownHasUid, [Next]_vars, ShownProjectIsOnDisk, ~OpenMainScreen
               PROVE  ShownProjectIsOnDisk'
    OBVIOUS
  <2>1. ASSUME NEW info \in Info, InitProject(info) PROVE ShownProjectIsOnDisk'
    BY <2>1, WrittenIsShown
  <2>2. ASSUME NEW p \in Path, SaveProject(p) PROVE ShownProjectIsOnDisk'
    BY <2>2, SavingKeepsShown
  <2>3. CASE Restart
    BY <2>3 DEF Restart, ShownProjectIsOnDisk
  <2>4. ASSUME UNCHANGED <<disk, shown>> PROVE ShownProjectIsOnDisk'
    BY <2>4 DEF ShownProjectIsOnDisk, Agrees
  <2>5. CASE Register
    BY <2>4, <2>5 DEF Register, AddStationCall, AddObsFileCall, screenVars
  <2> QED
    BY <2>1, <2>2, <2>3, <2>4, <2>5
    DEF Next, vars, screenVars, InitProjectFails, LoadProject, LoadProjectFails,
        SaveProjectFails, ExitProject
<1> QED
  BY <1>1, TypeCorrect, ShownHasUidHolds, PTL DEF Spec, OnlyOpeningMisleads
=============================================================================
