----------------------------- MODULE ImportObs -----------------------------
(***************************************************************************)
(* Where UIDs come from and what they are for: the dialog that imports     *)
(* observation files (qml/dialog/Dialog_File_ImportObs.qml), the dialog    *)
(* that adds a station (qml/dialog/Dialog_Station_AddNew.qml), the key     *)
(* generator they share (NavPost::generate_UniqueKey) and the registries   *)
(* of NavCore they fill.                                                   *)
(*                                                                         *)
(* The dialog lists files before they are registered.  An item gets its    *)
(* UIDs when it is listed; until the list is accepted the user can edit    *)
(* the name of the file and the name of the station it belongs to.  The    *)
(* station is named in a box that every row shows all the time, and the    *)
(* row has another name than its box until Enter is pressed there; the     *)
(* list is short enough for no box to be scrolled away and made anew.      *)
(*                                                                         *)
(* Both dialogs are modal.  The key of the navigation file is generated    *)
(* and not kept: addNavFile is a stub.  The end of the process loses every *)
(* variable, so a restart is Init.                                         *)
(***************************************************************************)
EXTENDS NavCoreRegistry, Sequences, SequencesExt

CONSTANTS
  Key,           \* what generate_random_key can return
  FileName,      \* names of observation files, without their directory
  StationOf(_)   \* the station name suggested for a file: no extension

ASSUME KeyAssumption ==
  /\ Key = StationUid
  /\ Key = ObsFileUid
  /\ \A f \in FileName : StationOf(f) \in StationName

VARIABLES
  generated, \* _generated_key
  items,     \* dataModel of the dialog
  texts,     \* editText of the station box of each row
  open,      \* contentDialog is open
  refused    \* history variable: addStation or addObsFile returned 1

listVars == <<items, texts>>
vars == <<registryVars, generated, listVars, open, refused>>

Item == [obsfile : Key, station : Key, name : FileName, stationName : StationName]

Init ==
  /\ RegistryInit
  /\ generated = {}
  /\ items = <<>>
  /\ texts = <<>>
  /\ open = FALSE
  /\ refused = FALSE

(* Mutant: a key is not remembered. *)
Forgotten(keys) == generated' = generated

(* generate_UniqueKey draws until the key is new, and remembers it.  With  *)
(* every key used up it would not return.                                  *)
Generate(keys) ==
  /\ keys \cap generated = {}
  /\ generated' = generated \cup keys

-----------------------------------------------------------------------------
(* The import dialog *)

(* Mutant: the dialog is shown again with the list it had. *)
OpenWithOldList ==
  /\ ~open
  /\ open' = TRUE
  /\ UNCHANGED <<registryVars, generated, listVars, refused>>

(* Screen_Root loads the dialog anew, with an empty list. *)
OpenDialog ==
  /\ ~open
  /\ open' = TRUE
  /\ items' = <<>>
  /\ texts' = <<>>
  /\ UNCHANGED <<registryVars, generated, refused>>

IsDuplicate(f) == \E i \in DOMAIN items : items[i].name = f

(* add_obs_item generates the keys before it looks for a duplicate.  The   *)
(* box of a new row starts with the suggested name.                        *)
AddObsItem(f, k1, k2, k3) ==
  /\ open
  /\ Cardinality({k1, k2, k3}) = 3
  /\ Generate({k1, k2, k3})
  /\ IF IsDuplicate(f) THEN UNCHANGED listVars
     ELSE /\ items' = Append(items, [obsfile |-> k1, station |-> k2, name |-> f,
                                     stationName |-> StationOf(f)])
          /\ texts' = Append(texts, StationOf(f))
  /\ UNCHANGED <<registryVars, open, refused>>

EditFileName(i, f) ==
  /\ open
  /\ items' = [items EXCEPT ![i].name = f]
  /\ UNCHANGED <<registryVars, generated, texts, open, refused>>

(* A name is picked from the drop-down of the box, or typed into it: the   *)
(* row does not hear of it.                                                *)
ChooseStationName(i, n) ==
  /\ open
  /\ texts' = [texts EXCEPT ![i] = n]
  /\ UNCHANGED <<registryVars, generated, items, open, refused>>

(* Mutant: the text goes to the column of the file name. *)
EditWrongColumn(i) ==
  /\ open
  /\ items' = [items EXCEPT ![i].name = texts[i]]
  /\ UNCHANGED <<registryVars, generated, texts, open, refused>>

(* changeDisplay, on Enter and Return. *)
EditStationName(i) ==
  /\ open
  /\ items' = [items EXCEPT ![i].stationName = texts[i]]
  /\ UNCHANGED <<registryVars, generated, texts, open, refused>>

(* Mutant: NavCore::addObsFile does not enter the station of the file. *)
AddedWithoutStation(registry, item) ==
  [registry EXCEPT !.obsfiles = Inserted(@, item.obsfile, item.station)]

(* NavCore::addObsFile for an item of the list. *)
Added(registry, item) ==
  IF item.obsfile \in DOMAIN registry.obsfiles
  THEN [registry EXCEPT !.refused = TRUE]
  ELSE [registry EXCEPT
          !.obsfiles = Inserted(@, item.obsfile, item.station),
          !.stations = StationInserted(@, item.station, item.stationName)]

(* onAccepted registers the items one by one; the list stays as it is. *)
Accept ==
  /\ open
  /\ open' = FALSE
  /\ LET before == [stations |-> stations, obsfiles |-> obsfiles, refused |-> refused]
         after == FoldLeft(Added, before, items)
     IN  /\ stations' = after.stations
         /\ obsfiles' = after.obsfiles
         /\ refused' = after.refused
  /\ UNCHANGED <<generated, listVars>>

Cancel ==
  /\ open
  /\ open' = FALSE
  /\ UNCHANGED <<registryVars, generated, listVars, refused>>

(* The dialog that adds a station, accepted. *)
AddNewStation(k, n) ==
  /\ ~open
  /\ Generate({k})
  /\ AddStation(k, n)
  /\ refused' = (refused \/ k \in DOMAIN stations)
  /\ UNCHANGED <<listVars, open>>

Next ==
  \/ OpenDialog
  \/ \E f \in FileName, k1, k2, k3 \in Key : AddObsItem(f, k1, k2, k3)
  \/ \E i \in DOMAIN items :
       \/ \E f \in FileName : EditFileName(i, f)
       \/ \E n \in StationName : ChooseStationName(i, n)
       \/ EditStationName(i)
  \/ Accept
  \/ Cancel
  \/ \E k \in Key, n \in StationName : AddNewStation(k, n)

Spec == Init /\ [][Next]_vars

-----------------------------------------------------------------------------
(* Properties *)

(* Type invariant. *)
TypeOK ==
  /\ RegistryTypeOK
  /\ generated \in SUBSET Key
  /\ items \in Seq(Item)
  /\ texts \in Seq(StationName)
  /\ Len(texts) = Len(items)
  /\ open \in BOOLEAN
  /\ refused \in BOOLEAN

(* addStation and addObsFile never meet a UID they know: the comments at   *)
(* their return 1 say that this should not happen.  A key serves one       *)
(* record, whatever is listed, edited, accepted and opened again.          *)
NothingRefused == ~refused

(* An accepted list is registered as it stands: each row becomes a new     *)
(* file and a new station, with UIDs that no other row's have, and the     *)
(* station has the name of the row, which its box need not show.           *)
AcceptedIsRegistered ==
  [][Accept => \A i \in DOMAIN items :
       LET file == items[i].obsfile
           station == obsfiles'[file]
       IN  /\ file \in DOMAIN obsfiles' \ DOMAIN obsfiles
           /\ station \in DOMAIN stations' \ DOMAIN stations
           /\ stations'[station] = items[i].stationName
           /\ \A j \in DOMAIN items \ {i} :
                items[j].obsfile # file /\ obsfiles'[items[j].obsfile] # station]_vars
=============================================================================
