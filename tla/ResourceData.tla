---------------------------- MODULE ResourceData ----------------------------
(***************************************************************************)
(* The tables of the resource view: ResourceDataController                 *)
(* (src/app/NavPost/src/ResourceDataController.cpp), the calls of NavPost  *)
(* that change what it lists, and the pages that show its lists            *)
(* (qml/page/Page_Table_Station.qml, _Obsfile.qml and _Baseline.qml).      *)
(*                                                                         *)
(* An update of a list empties it and walks a map of NavCore.  It runs on  *)
(* the GUI thread when a page is created or something was added, and on a  *)
(* thread of the pool in loadData; no lock separates the two.  A signal of *)
(* the GUI thread reaches the pages at once, one of a pool thread waits in *)
(* the event queue of the GUI thread.                                      *)
(*                                                                         *)
(* loadData also updates the lists of navigation files and baselines; the  *)
(* maps it walks for them are never filled and no page reads the lists but *)
(* for the baseline page, which shows an empty one.                        *)
(*                                                                         *)
(* A map that is inserted into during a walk may rehash under the          *)
(* iterator: the rest of the walk may then skip or repeat keys.            *)
(***************************************************************************)
EXTENDS NavCoreRegistry, Integers, Sequences, SequencesExt

CONSTANTS
  Gui,   \* the GUI thread
  Task,  \* the calls of loadData: each runs once, on a thread of the pool
  None   \* no table is being updated, no station is being added

ASSUME ThreadAssumption == Gui \notin Task

Thread == Task \cup {Gui}
Table == {"station", "obsfile"}
Page == Table \cup {"baseline"}

ASSUME NoneAssumption ==
  None \notin Table /\ None \notin [uid : StationUid, name : StationName]

Signal == [page : Page, kind : {"Start", "Success"}]

VARIABLES
  data,     \* data["station"]: m_station_data, data["obsfile"]: m_obsfile_data
  task,     \* where a loadData call is
  updating, \* the list a thread updates
  step,     \* where that update is
  walked,   \* the keys its walk has visited
  pending,  \* the keys its walk must still visit
  adding,   \* the station addObsFile is about to add, after it added the file
  queue,    \* signals of pool threads the GUI thread has not handled
  pages,    \* the pages that have been created (singleton routes)
  shown,    \* dataModel.sourceData of each page
  loading,  \* the pages that exist and whose panel_loading is visible
  raced,    \* history variable: two threads were at a list, or a map and a
            \* walk of it, at the same time
  unlisted  \* history variable: stations that came with a file after the
            \* last walk of the stations

walkVars == <<updating, step, walked, pending>>
pageVars == <<pages, shown, loading>>
vars == <<registryVars, data, task, walkVars, adding, queue, pageVars, raced,
          unlisted>>

Keys(table) == IF table = "station" THEN DOMAIN stations ELSE DOMAIN obsfiles

(* A row: the key and the name of the station. *)
Row(table, key) ==
  <<key, IF table = "station" THEN stations[key] ELSE GetStation(obsfiles[key])>>

Rows(table) == {Row(table, key) : key \in Keys(table)}

Idle(t) == updating[t] = None

(* The GUI thread is in its event loop. *)
GuiIdle == Idle(Gui) /\ adding = None

Init ==
  /\ RegistryInit
  /\ data = [table \in Table |-> <<>>]
  /\ task = [t \in Task |-> "waiting"]
  /\ updating = [t \in Thread |-> None]
  /\ step = [t \in Thread |-> "start"]
  /\ walked = [t \in Thread |-> {}]
  /\ pending = [t \in Thread |-> {}]
  /\ adding = None
  /\ queue = <<>>
  /\ pages = {}
  /\ shown = [page \in Page |-> <<>>]
  /\ loading = [page \in Page |-> FALSE]
  /\ raced = FALSE
  /\ unlisted = {}

-----------------------------------------------------------------------------
(* Signals and the slots of the pages. *)

Listing(page) == IF page \in Table THEN data[page] ELSE <<>>

(* A page that exists shows its loading panel from Start to Success; on    *)
(* Success it takes the list as it is then.                                *)
Handle(signal) ==
  LET page == signal.page IN
  /\ loading' = IF page \in pages
                THEN [loading EXCEPT ![page] = signal.kind = "Start"]
                ELSE loading
  /\ shown' = IF page \in pages /\ signal.kind = "Success"
              THEN [shown EXCEPT ![page] = Listing(page)]
              ELSE shown

Emit(t, signal) ==
  IF t = Gui THEN Handle(signal) /\ queue' = queue
  ELSE queue' = Append(queue, signal) /\ UNCHANGED <<shown, loading>>

(* The event loop of the GUI thread handles the oldest signal. *)
Deliver ==
  /\ GuiIdle
  /\ queue # <<>>
  /\ Handle(Head(queue))
  /\ queue' = Tail(queue)
  /\ UNCHANGED <<registryVars, data, task, walkVars, adding, pages, raced, unlisted>>

-----------------------------------------------------------------------------
(* updateStationData and updateObsFileData, on either thread. *)

(* The thread is between the clear of the list and the end of the walk. *)
InBody(t, table) == updating[t] = table /\ step[t] \in {"walk", "success"}

Others(t, table) == \E o \in Thread \ {t} : InBody(o, table)

EmitStart(t) ==
  /\ ~Idle(t)
  /\ step[t] = "start"
  /\ Emit(t, [page |-> updating[t], kind |-> "Start"])
  /\ step' = [step EXCEPT ![t] = "clear"]
  /\ UNCHANGED <<registryVars, data, task, updating, walked, pending, adding,
                 pages, raced, unlisted>>

(* Mutant: the list is not cleared. *)
ClearMissing(t) ==
  /\ ~Idle(t)
  /\ step[t] = "clear"
  /\ pending' = [pending EXCEPT ![t] = Keys(updating[t])]
  /\ walked' = [walked EXCEPT ![t] = {}]
  /\ step' = [step EXCEPT ![t] = "walk"]
  /\ raced' = (raced \/ Others(t, updating[t]))
  /\ unlisted' = IF updating[t] = "station" THEN {} ELSE unlisted
  /\ UNCHANGED <<registryVars, data, task, updating, adding, queue, pageVars>>

Clear(t) ==
  /\ ~Idle(t)
  /\ step[t] = "clear"
  /\ data' = [data EXCEPT ![updating[t]] = <<>>]
  /\ pending' = [pending EXCEPT ![t] = Keys(updating[t])]
  /\ walked' = [walked EXCEPT ![t] = {}]
  /\ step' = [step EXCEPT ![t] = "walk"]
  /\ raced' = (raced \/ Others(t, updating[t]))
  /\ unlisted' = IF updating[t] = "station" THEN {} ELSE unlisted
  /\ UNCHANGED <<registryVars, task, updating, adding, queue, pageVars>>

(* Mutant: the row goes into the list of stations, whatever is walked. *)
AppendToStations(t) ==
  /\ ~Idle(t)
  /\ step[t] = "walk"
  /\ \E key \in Keys(updating[t]) \ walked[t] :
       /\ data' = [data EXCEPT !["station"] = Append(@, Row(updating[t], key))]
       /\ walked' = [walked EXCEPT ![t] = @ \cup {key}]
       /\ pending' = [pending EXCEPT ![t] = @ \ {key}]
  /\ UNCHANGED <<registryVars, task, updating, step, adding, queue, pageVars,
                 raced, unlisted>>

(* The callback of forEachStation or forEachObsfile appends one row. *)
AppendRow(t) ==
  /\ ~Idle(t)
  /\ step[t] = "walk"
  /\ \E key \in Keys(updating[t]) \ walked[t] :
       /\ data' = [data EXCEPT ![updating[t]] = Append(@, Row(updating[t], key))]
       /\ walked' = [walked EXCEPT ![t] = @ \cup {key}]
       /\ pending' = [pending EXCEPT ![t] = @ \ {key}]
  /\ UNCHANGED <<registryVars, task, updating, step, adding, queue, pageVars,
                 raced, unlisted>>

(* Mutant: Success is emitted before the walk is over. *)
EndWalkEarly(t) ==
  /\ ~Idle(t)
  /\ step[t] = "walk"
  /\ step' = [step EXCEPT ![t] = "success"]
  /\ UNCHANGED <<registryVars, data, task, updating, walked, pending, adding,
                 queue, pageVars, raced, unlisted>>

EndWalk(t) ==
  /\ ~Idle(t)
  /\ step[t] = "walk"
  /\ pending[t] = {}
  /\ step' = [step EXCEPT ![t] = "success"]
  /\ UNCHANGED <<registryVars, data, task, updating, walked, pending, adding,
                 queue, pageVars, raced, unlisted>>

(* The update ends; loadData goes on to the next list. *)
EmitSuccess(t) ==
  /\ ~Idle(t)
  /\ step[t] = "success"
  /\ Emit(t, [page |-> updating[t], kind |-> "Success"])
  /\ updating' = [updating EXCEPT ![t] =
                    IF t # Gui /\ @ = "station" THEN "obsfile" ELSE None]
  /\ step' = [step EXCEPT ![t] = "start"]
  /\ UNCHANGED <<registryVars, data, task, walked, pending, adding, pages,
                 raced, unlisted>>

Update(t) ==
  \/ EmitStart(t)
  \/ Clear(t)
  \/ AppendRow(t)
  \/ EndWalk(t)
  \/ EmitSuccess(t)

-----------------------------------------------------------------------------
(* loadData: the task a pool thread runs. *)

StartTask(t) ==
  /\ task[t] = "queued"
  /\ task' = [task EXCEPT ![t] = "running"]
  /\ Emit(t, [page |-> "baseline", kind |-> "Start"])
  /\ updating' = [updating EXCEPT ![t] = "station"]
  /\ UNCHANGED <<registryVars, data, step, walked, pending, adding, pages,
                 raced, unlisted>>

EndTask(t) ==
  /\ task[t] = "running"
  /\ Idle(t)
  /\ task' = [task EXCEPT ![t] = "done"]
  /\ Emit(t, [page |-> "baseline", kind |-> "Success"])
  /\ UNCHANGED <<registryVars, data, walkVars, adding, pages, raced, unlisted>>

RunTask(t) == StartTask(t) \/ EndTask(t) \/ Update(t)

-----------------------------------------------------------------------------
(* The GUI thread. *)

(* A page is covered by its loading panel from its creation, and updates   *)
(* its list then.                                                          *)
CreateTablePage(table) ==
  /\ GuiIdle
  /\ table \notin pages
  /\ pages' = pages \cup {table}
  /\ loading' = [loading EXCEPT ![table] = TRUE]
  /\ updating' = [updating EXCEPT ![Gui] = table]
  /\ UNCHANGED <<registryVars, data, task, step, walked, pending, adding, queue,
                 shown, raced, unlisted>>

(* Mutant: the page waits for the data of the others. *)
BaselineWithoutLoad ==
  /\ GuiIdle
  /\ "baseline" \notin pages
  /\ pages' = pages \cup {"baseline"}
  /\ loading' = [loading EXCEPT !["baseline"] = TRUE]
  /\ UNCHANGED <<registryVars, data, task, walkVars, adding, queue, shown, raced,
                 unlisted>>

(* So is the baseline page, which calls loadData: a task for the pool. *)
CreateBaselinePage ==
  /\ GuiIdle
  /\ "baseline" \notin pages
  /\ pages' = pages \cup {"baseline"}
  /\ loading' = [loading EXCEPT !["baseline"] = TRUE]
  /\ \E t \in Task :
       /\ task[t] = "waiting"
       /\ task' = [task EXCEPT ![t] = "queued"]
  /\ UNCHANGED <<registryVars, data, walkVars, adding, queue, shown, raced, unlisted>>

(* An insertion during a walk: the walk may end at any time from then on   *)
(* and may come back to keys it has visited.                               *)
Disturb(changed) ==
  LET hit == {t \in Task : step[t] = "walk" /\ updating[t] \in changed} IN
  /\ pending' = [t \in Thread |-> IF t \in hit THEN {} ELSE pending[t]]
  /\ \/ walked' = walked
     \/ hit # {} /\ walked' = [t \in Thread |-> IF t \in hit THEN {} ELSE walked[t]]
  /\ raced' = (raced \/ \E t \in Task : step[t] = "walk" /\ changed # {})

(* NavPost::addStation: NavCore::addStation, whatever it returns, and then *)
(* updateStationData.                                                      *)
NavPostAddStation(u, n) ==
  /\ GuiIdle
  /\ AddStation(u, n)
  /\ Disturb(IF u \in DOMAIN stations THEN {} ELSE {"station"})
  /\ updating' = [updating EXCEPT ![Gui] = "station"]
  /\ UNCHANGED <<data, task, step, adding, queue, pageVars, unlisted>>

(* NavPost::addObsFile, its first half: NavCore::addObsFile has entered a  *)
(* new file, whose station it will add when it does not know it.           *)
InsertObsFile(f, u, n) ==
  /\ GuiIdle
  /\ f \notin DOMAIN obsfiles
  /\ obsfiles' = Inserted(obsfiles, f, u)
  /\ adding' = [uid |-> u, name |-> n]
  /\ Disturb({"obsfile"})
  /\ UNCHANGED <<stations, data, task, updating, step, queue, pageVars, unlisted>>

(* Its second half: the station, and the update of the list of files only. *)
InsertItsStation ==
  /\ adding # None
  /\ AddStation(adding.uid, adding.name)
  /\ Disturb(IF adding.uid \in DOMAIN stations THEN {} ELSE {"station"})
  /\ unlisted' = unlisted \cup ({adding.uid} \ DOMAIN stations)
  /\ adding' = None
  /\ updating' = [updating EXCEPT ![Gui] = "obsfile"]
  /\ UNCHANGED <<data, task, step, queue, pageVars>>

(* The file is known: nothing is entered, and its list is updated all the  *)
(* same.                                                                   *)
NavPostRefusesObsFile(f) ==
  /\ GuiIdle
  /\ RefuseObsFile(f)
  /\ updating' = [updating EXCEPT ![Gui] = "obsfile"]
  /\ UNCHANGED <<data, task, step, walked, pending, adding, queue, pageVars,
                 raced, unlisted>>

Input ==
  \/ \E table \in Table : CreateTablePage(table)
  \/ CreateBaselinePage
  \/ \E u \in StationUid, n \in StationName :
       \/ NavPostAddStation(u, n)
       \/ \E f \in ObsFileUid : InsertObsFile(f, u, n)
  \/ \E f \in ObsFileUid : NavPostRefusesObsFile(f)

Next ==
  \/ Input
  \/ InsertItsStation
  \/ Update(Gui)
  \/ Deliver
  \/ \E t \in Task : RunTask(t)

Spec == Init /\ [][Next]_vars

(* An update that has begun goes on, a task in the pool gets a thread, and *)
(* the event loop comes to every signal, however often the user acts.      *)
FairSpec ==
  /\ Spec
  /\ WF_vars(InsertItsStation)
  /\ WF_vars(Update(Gui))
  /\ SF_vars(Deliver)
  /\ \A t \in Task : WF_vars(RunTask(t))

-----------------------------------------------------------------------------
(* Properties *)

RowsOver(table) ==
  [1..2 -> (IF table = "station" THEN StationUid ELSE ObsFileUid)
           \cup StationName \cup {DefaultStation}]

(* Type invariant. *)
TypeOK ==
  /\ RegistryTypeOK
  /\ \A table \in Table : data[table] \in Seq(RowsOver(table))
  /\ task \in [Task -> {"waiting", "queued", "running", "done"}]
  /\ updating \in [Thread -> Table \cup {None}]
  /\ step \in [Thread -> {"start", "clear", "walk", "success"}]
  /\ \A t \in Thread : walked[t] \cup pending[t] \subseteq StationUid \cup ObsFileUid
  /\ adding \in [uid : StationUid, name : StationName] \cup {None}
  /\ queue \in Seq(Signal)
  /\ pages \subseteq Page
  /\ \A table \in Table : shown[table] \in Seq(RowsOver(table))
  /\ loading \in [Page -> BOOLEAN]
  /\ raced \in BOOLEAN
  /\ unlisted \subseteq StationUid

(* Nothing is under way. *)
Quiet ==
  /\ GuiIdle
  /\ \A t \in Task : Idle(t)
  /\ \A t \in Task : task[t] \in {"waiting", "done"}
  /\ queue = <<>>

ListsOnce(table, rows) ==
  /\ ToSet(shown[table]) = rows
  /\ Len(shown[table]) = Len(SetToSeq(rows))

(* Once everything has come to rest, and no two threads met at a list or a *)
(* map, a page lists every row once, in whatever order updates, tasks and  *)
(* signals came; only a station that a file brought along may be missing.  *)
PagesAreCurrent ==
  Quiet /\ ~raced =>
    \A table \in pages \cap Table :
      ListsOnce(table, IF table = "station"
                       THEN {Row(table, u) : u \in Keys(table) \ unlisted}
                       ELSE Rows(table))

(* What the comment on loadData says, it updates all the information, and  *)
(* what the pages are for: at rest, each lists every row once.             *)
AllIsUpdated ==
  Quiet => \A table \in pages \cap Table : ListsOnce(table, Rows(table))

(* Nothing is ever deleted, so a row a page has shown stays on it: no page *)
(* takes over a list while it is being rebuilt, unless two threads met.    *)
NothingVanishes ==
  [][~raced' => \A table \in Table : ToSet(shown[table]) \subseteq ToSet(shown'[table])]_vars

(* A loading panel, which covers a page from its creation and whenever its *)
(* list is rebuilt, goes away: the task gets a thread and ends, and the    *)
(* page hears of it.                                                       *)
LoadingEnds == \A page \in Page : loading[page] ~> ~loading[page]
=============================================================================
