--------------------------- MODULE NavCoreProject ---------------------------
(***************************************************************************)
(* The life of a project: NavCore (src/core/NavCore/src/NavCore.cpp), what *)
(* it writes to disk, and the copy of its identity that NavPost            *)
(* (src/app/NavPost/src/NavPost.cpp) keeps for the title bar of the main   *)
(* screen (qml/screen/Screen_Main.qml).                                    *)
(*                                                                         *)
(* A caller passes a JSON object.  Its keys UID, project_name and          *)
(* project_path may be missing: the setters PROPERTY_AUTO generates leave  *)
(* the old value then.  A project file is named by the directory and the   *)
(* project name it is derived from, and by its extension: initProject      *)
(* writes name.nps, saveProject name.nps.cps.  loadProject reads a         *)
(* project.json that the program itself never writes.                      *)
(***************************************************************************)
EXTENDS NavCoreRegistry

CONSTANTS
  Uid, Name, Path,  \* values of the keys UID, project_name and project_path
  Missing,          \* the key is not in the object
  Unset,            \* the empty string a member starts with
  Nothing,          \* no such file, no JSON, no project shown
  Info,             \* the JSON objects callers pass
  MayFail,          \* directories in which opening a file may fail
  ProjectJson       \* ProjectJson[p]: the contents of p/project.json

ASSUME InfoAssumption ==
  /\ Info \subseteq [UID : Uid \cup {Missing}, name : Name \cup {Missing},
                     path : Path \cup {Missing}]
  /\ ProjectJson \in [Path -> Info \cup {Nothing}]

(* A UID that is given is not empty, and a JSON object is not nothing. *)
ASSUME NothingAssumption ==
  /\ Unset \notin Uid
  /\ Nothing \notin Info

Paths == Path \cup {Unset}
Names == Name \cup {Unset}
File == Paths \X Names
Extension == {"nps", "cps"}

VARIABLES
  projectInfo, \* m_project_info
  uid,         \* m_UID
  name,        \* m_project_name
  path,        \* m_project_path
  file,        \* m_project_file, as the pair it is made of
  modified,    \* m_is_modified, which no constructor initialises
  disk,        \* what the files that are written contain
  shown,       \* NavPost::m_project_info
  mainScreen,  \* Screen_Main has been created (it is a singleton route)
  loaded       \* history variable: m_project_info is one that loadProject
               \* read, and not the one the identity was taken from

identityVars == <<projectInfo, uid, name, path, file, loaded>>
screenVars == <<shown, mainScreen>>
vars == <<registryVars, identityVars, modified, disk, screenVars>>

View == [UID : Uid, name : Names, file : File]

(* No constructor gives m_is_modified a value: it is what the memory held. *)
Init ==
  /\ RegistryInit
  /\ projectInfo = Nothing
  /\ uid = Unset
  /\ name = Unset
  /\ path = Unset
  /\ file = <<Unset, Unset>>
  /\ modified \in BOOLEAN
  /\ shown = Nothing
  /\ mainScreen = FALSE
  /\ loaded = FALSE
  /\ disk = [f \in File \X Extension |-> Nothing]

-----------------------------------------------------------------------------
(* initProject, as NavPost::init_Project calls it. *)

(* Mutant: a missing key is stored. *)
GivenOrMissing(value, old) == value

(* PROPERTY_AUTO: a missing key leaves the member as it is. *)
Given(value, old) == IF value = Missing THEN old ELSE value

(* Mutant: the file is named before the project is. *)
IdentityFromOldName(info) ==
  /\ projectInfo' = info
  /\ uid' = Given(info.UID, uid)
  /\ name' = Given(info.name, name)
  /\ path' = Given(info.path, path)
  /\ file' = <<path', name>>
  /\ loaded' = FALSE

SetIdentity(info) ==
  /\ projectInfo' = info
  /\ uid' = Given(info.UID, uid)
  /\ name' = Given(info.name, name)
  /\ path' = Given(info.path, path)
  /\ file' = <<path', name'>>
  /\ loaded' = FALSE

(* NavPost::refreshProjectInfo copies the identity when there is a UID. *)
Refresh ==
  shown' = IF uid' = Unset THEN shown
           ELSE [UID |-> uid', name |-> name', file |-> file']

(* The file is written, NavPost refreshes and the dialog goes to the main  *)
(* screen.                                                                 *)
InitProject(info) ==
  /\ SetIdentity(info)
  /\ disk' = [disk EXCEPT ![<<file', "nps">>] = info]
  /\ modified' = FALSE
  /\ Refresh
  /\ mainScreen' = TRUE
  /\ UNCHANGED registryVars

(* Mutant: NavPost refreshes whatever initProject returns. *)
InitProjectFailsRefreshed(info) ==
  /\ SetIdentity(info)
  /\ path' \in MayFail
  /\ Refresh
  /\ UNCHANGED <<registryVars, modified, disk, mainScreen>>

(* The file cannot be opened: return 1, after the identity was set. *)
InitProjectFails(info) ==
  /\ SetIdentity(info)
  /\ path' \in MayFail
  /\ UNCHANGED <<registryVars, modified, disk, screenVars>>

(* The user goes to the main screen from the start page.  Its title bar    *)
(* refreshes when it is created.                                           *)
OpenMainScreen ==
  /\ ~mainScreen
  /\ mainScreen' = TRUE
  /\ UNCHANGED <<registryVars, identityVars, modified, disk>>
  /\ Refresh

-----------------------------------------------------------------------------
(* loadProject, saveProject and exitProject *)

LoadProject(p) ==
  /\ ProjectJson[p] # Nothing
  /\ projectInfo' = ProjectJson[p]
  /\ loaded' = TRUE
  /\ UNCHANGED <<registryVars, uid, name, path, file, modified, disk, screenVars>>

LoadProjectFails(p) ==
  /\ ProjectJson[p] = Nothing
  /\ UNCHANGED <<registryVars, identityVars, modified, disk, screenVars>>

(* The directory the caller names is not used. *)
SaveProject(dir) ==
  /\ path # Unset
  /\ disk' = [disk EXCEPT ![<<file, "cps">>] = projectInfo]
  /\ modified' = FALSE
  /\ UNCHANGED <<registryVars, identityVars, screenVars>>

(* return 1 when the file cannot be opened; without a project path the     *)
(* call ends in the exception of create_directories("").                   *)
SaveProjectFails(dir) ==
  /\ path \in MayFail \cup {Unset}
  /\ UNCHANGED <<registryVars, identityVars, modified, disk, screenVars>>

ExitProject ==
  /\ UNCHANGED <<registryVars, identityVars, modified, disk, screenVars>>

(* The program ends, on its own account or not, and is started again: only *)
(* the disk is left.                                                       *)
Restart ==
  /\ stations' = EmptyMap
  /\ obsfiles' = EmptyMap
  /\ projectInfo' = Nothing
  /\ uid' = Unset
  /\ name' = Unset
  /\ path' = Unset
  /\ file' = <<Unset, Unset>>
  /\ modified' \in BOOLEAN
  /\ shown' = Nothing
  /\ mainScreen' = FALSE
  /\ loaded' = FALSE
  /\ disk' = disk

-----------------------------------------------------------------------------
(* The registries, as NavPost::addStation and NavPost::addObsFile call      *)
(* them: whatever the call returns, NavPost answers true.                  *)

AddStationCall(u, n) ==
  /\ AddStation(u, n)
  /\ UNCHANGED <<identityVars, modified, disk, screenVars>>

AddObsFileCall(f, u, n) ==
  /\ AddObsFile(f, u, n) \/ RefuseObsFile(f)
  /\ UNCHANGED <<identityVars, modified, disk, screenVars>>

Register ==
  \E u \in StationUid, n \in StationName :
    \/ AddStationCall(u, n)
    \/ \E f \in ObsFileUid : AddObsFileCall(f, u, n)

Next ==
  \/ \E info \in Info : InitProject(info) \/ InitProjectFails(info)
  \/ OpenMainScreen
  \/ \E p \in Path : \/ LoadProject(p) \/ LoadProjectFails(p)
                     \/ SaveProject(p) \/ SaveProjectFails(p)
  \/ ExitProject
  \/ Restart
  \/ Register

Spec == Init /\ [][Next]_vars

-----------------------------------------------------------------------------
(* Properties *)

(* Type invariant. *)
TypeOK ==
  /\ RegistryTypeOK
  /\ projectInfo \in Info \cup {Nothing}
  /\ uid \in Uid \cup {Unset}
  /\ name \in Names
  /\ path \in Paths
  /\ file \in File
  /\ modified \in BOOLEAN
  /\ disk \in [File \X Extension -> Info \cup {Nothing}]
  /\ shown \in View \cup {Nothing}
  /\ mainScreen \in BOOLEAN
  /\ loaded \in BOOLEAN

(* The JSON object agrees with the value a project has for one of its keys. *)
Agrees(given, value) == given \in {Missing, value}

(* The project of the title bar has been written to its file, and no other *)
(* project has been written over it.                                       *)
ShownProjectIsOnDisk ==
  shown # Nothing =>
    LET written == disk[<<shown.file, "nps">>] IN
    /\ written # Nothing
    /\ Agrees(written.UID, shown.UID)
    /\ Agrees(written.name, shown.name)

(* What a file of one of the two extensions holds is of the project that   *)
(* the file is named after.                                                *)
HoldsItsProject(f, e) ==
  LET written == disk[<<f, e>>] IN
  written # Nothing => Agrees(written.path, f[1]) /\ Agrees(written.name, f[2])

(* No call, that fails or not, and no restart puts another project into a  *)
(* file, of either extension, but saveProject after loadProject, which     *)
(* writes what was loaded beside the project that was open before.         *)
OnlyLoadingMisfiles ==
  [][\A f \in File, e \in Extension :
       HoldsItsProject(f, e) =>
         \/ HoldsItsProject(f, e)'
         \/ loaded /\ f = file /\ e = "cps" /\ \E p \in Path : SaveProject(p)]_vars

(* With files that fail to open, the title bar and the disk part only when *)
(* the main screen is created on top of a failed initProject: no failure,  *)
(* no load and no save breaks their agreement by itself.                   *)
OnlyOpeningMisleads ==
  [][ShownProjectIsOnDisk /\ ~OpenMainScreen => ShownProjectIsOnDisk']_vars

(* Records stay while the program runs. *)
RecordsStayWhileRunning == [][~Restart => RecordsStay]_vars

=============================================================================
