-------------------------- MODULE ResourceDataProofs --------------------------
(***************************************************************************)
(* What holds of the tables of the resource view, for any UIDs, names and  *)
(* calls of loadData: as long as no two threads meet at a list or at a     *)
(* map, nothing that was on a page vanishes, and at rest each page lists   *)
(* what is registered, once.                                               *)
(*                                                                         *)
(* Neither is inductive.  IInv says of every moment, races or not, which   *)
(* updates and signals can still be under way (Base), and without a race   *)
(* that at most one thread is at a list, that a list is complete but for   *)
(* what its walk has yet to visit or is about to be rebuilt by the GUI     *)
(* thread, that pages show rows that will not change, and that a page is   *)
(* its list or a Success that makes it so is to come (Good).               *)
(***************************************************************************)
EXTENDS ResourceData, FiniteSetTheorems, TLAPS

Uid == StationUid \cup ObsFileUid

(* The variables that are indexed by threads, tables and pages. *)
Shape ==
  /\ walked \in [Thread -> SUBSET Uid]
  /\ pending \in [Thread -> SUBSET Uid]
  /\ DOMAIN data = Table
  /\ DOMAIN shown = Page

Typed == TypeOK /\ Shape

-----------------------------------------------------------------------------
(* Types *)

LEMMA Names ==
  /\ Table = {"station", "obsfile"} /\ Page = Table \cup {"baseline"} /\ Table \subseteq Page
  /\ Gui \in Thread /\ Task \subseteq Thread /\ Gui \notin Task
  /\ \A t \in Thread : t = Gui \/ t \in Task
  /\ None \notin Table
BY ThreadAssumption, NoneAssumption DEF Table, Page, Thread

LEMMA MapFacts ==
  ASSUME RegistryTypeOK
  PROVE  /\ \A u \in DOMAIN stations : u \in StationUid /\ stations[u] \in StationName
         /\ \A f \in DOMAIN obsfiles : f \in ObsFileUid /\ obsfiles[f] \in StationUid
<1>1. PICK known \in SUBSET StationUid : stations \in [known -> StationName]
  BY DEF RegistryTypeOK, StationMap
<1>2. PICK listed \in SUBSET ObsFileUid : obsfiles \in [listed -> StationUid]
  BY DEF RegistryTypeOK, ObsFileMap
<1> QED
  BY <1>1, <1>2

LEMMA RowFacts ==
  ASSUME RegistryTypeOK, NEW table \in Table, NEW key \in Keys(table)
  PROVE  /\ Row(table, key) \in RowsOver(table)
         /\ Row(table, key)[1] = key
<1>1. CASE table = "station"
  <2>1. key \in StationUid /\ stations[key] \in StationName
    BY <1>1, MapFacts DEF Keys
  <2> QED
    BY <1>1, <2>1 DEF Row, RowsOver
<1>2. CASE table # "station"
  <2>1. key \in ObsFileUid /\ GetStation(obsfiles[key]) \in StationName \cup {DefaultStation}
    BY <1>2, MapFacts DEF Keys, GetStation
  <2> QED
    BY <1>2, <2>1 DEF Row, RowsOver
<1> QED
  BY <1>1, <1>2

LEMMA KeysAreUids ==
  ASSUME RegistryTypeOK, NEW table \in Table
  PROVE  Keys(table) \subseteq Uid
BY MapFacts DEF Keys, Uid

(* A page that exists takes its list on Success, and changes nothing else. *)
LEMMA HandleFacts ==
  ASSUME TypeOK, Shape, NEW signal \in Signal, Handle(signal)
  PROVE  /\ loading' \in [Page -> BOOLEAN]
         /\ DOMAIN shown' = Page
         /\ \A page \in Page :
              shown'[page] = IF page = signal.page /\ page \in pages /\ signal.kind = "Success"
                             THEN Listing(page) ELSE shown[page]
         /\ \A table \in Table : shown'[table] \in Seq(RowsOver(table))
<1>1. signal.page \in Page /\ loading \in [Page -> BOOLEAN] /\ DOMAIN shown = Page
  BY DEF Signal, TypeOK, Shape
<1>2. loading' \in [Page -> BOOLEAN]
  BY <1>1 DEF Handle
<1>3. /\ DOMAIN shown' = Page
      /\ \A page \in Page :
           shown'[page] = IF page = signal.page /\ page \in pages /\ signal.kind = "Success"
                          THEN Listing(page) ELSE shown[page]
  BY <1>1 DEF Handle
<1>4. \A table \in Table : Listing(table) = data[table] /\ table \in Page
  BY Names DEF Listing
<1> QED
  BY <1>2, <1>3, <1>4 DEF TypeOK

LEMMA EmitFacts ==
  ASSUME TypeOK, Shape, NEW t \in Thread, NEW signal \in Signal, Emit(t, signal)
  PROVE  /\ loading' \in [Page -> BOOLEAN]
         /\ DOMAIN shown' = Page
         /\ \A table \in Table : shown'[table] \in Seq(RowsOver(table))
         /\ t = Gui => queue' = queue
         /\ t # Gui => queue' = Append(queue, signal) /\ shown' = shown
         /\ queue' \in Seq(Signal)
<1>1. CASE t = Gui
  BY <1>1, HandleFacts DEF Emit, TypeOK
<1>2. CASE t # Gui
  BY <1>2 DEF Emit, TypeOK, Shape
<1> QED
  BY <1>1, <1>2

(* An insertion leaves a walk alone, or is a race.                         *)
LEMMA DisturbFacts ==
  ASSUME TypeOK, Shape, NEW changed, Disturb(changed)
  PROVE  /\ walked' \in [Thread -> SUBSET Uid] /\ pending' \in [Thread -> SUBSET Uid]
         /\ raced' \in BOOLEAN
         /\ ~raced' => /\ ~raced
                       /\ changed # {} => \A t \in Task : step[t] # "walk"
                       /\ \A t \in Thread : walked'[t] = walked[t] /\ pending'[t] = pending[t]
<1> DEFINE hit == {t \in Task : step[t] = "walk" /\ updating[t] \in changed}
<1>1. /\ pending' = [t \in Thread |-> IF t \in hit THEN {} ELSE pending[t]]
      /\ \/ walked' = walked
         \/ hit # {} /\ walked' = [t \in Thread |-> IF t \in hit THEN {} ELSE walked[t]]
      /\ raced' = (raced \/ \E t \in Task : step[t] = "walk" /\ changed # {})
  BY DEF Disturb
<1>2. hit # {} => \E t \in Task : step[t] = "walk" /\ changed # {}
  OBVIOUS
<1> HIDE DEF hit
<1>3. walked' \in [Thread -> SUBSET Uid] /\ pending' \in [Thread -> SUBSET Uid]
  BY <1>1 DEF Shape
<1>4. raced' \in BOOLEAN
  BY <1>1 DEF TypeOK
<1>5. ~raced' => /\ ~raced /\ hit = {}
                 /\ changed # {} => \A t \in Task : step[t] # "walk"
  BY <1>1, <1>2
<1>6. hit = {} => \A t \in Thread : walked'[t] = walked[t] /\ pending'[t] = pending[t]
  BY <1>1
<1> QED
  BY <1>3, <1>4, <1>5, <1>6

Maps(K, Value) == UNION {[known -> Value] : known \in SUBSET K}

LEMMA InsertedIsMap ==
  ASSUME NEW K, NEW Value, NEW map \in Maps(K, Value), NEW key \in K, NEW value \in Value
  PROVE  Inserted(map, key, value) \in Maps(K, Value)
<1>1. PICK known \in SUBSET K : map \in [known -> Value]
  BY DEF Maps
<1>2. Inserted(map, key, value) \in [known \cup {key} -> Value]
  BY <1>1 DEF Inserted
<1>3. known \cup {key} \in SUBSET K
  BY <1>1
<1> QED
  BY <1>2, <1>3 DEF Maps

(* A station is added, if it is new; nothing else changes in the map.      *)
LEMMA StationFacts ==
  ASSUME RegistryTypeOK, NEW u \in StationUid, NEW n \in StationName, AddStation(u, n)
  PROVE  /\ RegistryTypeOK' /\ obsfiles' = obsfiles
         /\ DOMAIN stations' = DOMAIN stations \cup {u}
         /\ \A v \in DOMAIN stations : stations'[v] = stations[v]
         /\ u \in DOMAIN stations => stations' = stations
<1>1. StationMap = Maps(StationUid, StationName)
  BY DEF StationMap, Maps
<1>2. Inserted(stations, u, n) \in Maps(StationUid, StationName)
  BY <1>1, InsertedIsMap DEF RegistryTypeOK
<1>3. stations' \in StationMap
  BY <1>1, <1>2 DEF AddStation, StationInserted, RegistryTypeOK
<1> QED
  BY <1>3 DEF AddStation, StationInserted, Inserted, RegistryTypeOK

(* A file is entered. *)
LEMMA FileFacts ==
  ASSUME RegistryTypeOK, NEW f \in ObsFileUid, NEW u \in StationUid, f \notin DOMAIN obsfiles,
         obsfiles' = Inserted(obsfiles, f, u), stations' = stations
  PROVE  /\ RegistryTypeOK' /\ DOMAIN obsfiles' = DOMAIN obsfiles \cup {f}
         /\ obsfiles'[f] = u /\ \A g \in DOMAIN obsfiles : obsfiles'[g] = obsfiles[g]
<1>1. ObsFileMap = Maps(ObsFileUid, StationUid)
  BY DEF ObsFileMap, Maps
<1>2. obsfiles' \in ObsFileMap
  BY <1>1, InsertedIsMap DEF RegistryTypeOK
<1> QED
  BY <1>2 DEF RegistryTypeOK, Inserted

LEMMA TypesInitially == Init => Typed
<1> SUFFICES ASSUME Init PROVE Typed
  OBVIOUS
<1>1. RegistryTypeOK
  <2>1. EmptyMap \in [{} -> StationName] /\ EmptyMap \in [{} -> StationUid]
    BY DEF EmptyMap
  <2>2. {} \in SUBSET StationUid /\ {} \in SUBSET ObsFileUid
    OBVIOUS
  <2>3. EmptyMap \in StationMap /\ EmptyMap \in ObsFileMap
    BY <2>1, <2>2 DEF StationMap, ObsFileMap
  <2> QED
    BY <2>3 DEF Init, RegistryInit, RegistryTypeOK
<1>2. Shape
  BY DEF Init, Shape
<1>3. /\ \A table \in Table : data[table] \in Seq(RowsOver(table))
      /\ \A table \in Table : shown[table] \in Seq(RowsOver(table))
  <2>1. \A table \in Table : data[table] = <<>> /\ shown[table] = <<>>
    BY Names DEF Init
  <2>2. \A S : <<>> \in Seq(S)
    OBVIOUS
  <2> QED
    BY <2>1, <2>2
<1>4. /\ task \in [Task -> {"waiting", "queued", "running", "done"}]
      /\ updating \in [Thread -> Table \cup {None}]
      /\ step \in [Thread -> {"start", "clear", "walk", "success"}]
      /\ \A t \in Thread : walked[t] \cup pending[t] \subseteq StationUid \cup ObsFileUid
  BY DEF Init
<1>5. /\ adding \in [uid : StationUid, name : StationName] \cup {None}
      /\ pages \subseteq Page
      /\ loading \in [Page -> BOOLEAN]
      /\ raced \in BOOLEAN
      /\ unlisted \subseteq StationUid
  BY DEF Init
<1>6. queue \in Seq(Signal)
  BY DEF Init
<1>7. TypeOK
  BY <1>1, <1>3, <1>4, <1>5, <1>6 DEF TypeOK
<1> QED
  BY <1>2, <1>7 DEF Typed

(* A signal that is handled or emitted changes queue, shown and loading.   *)
LEMMA SignalKeepsTypes ==
  ASSUME TypeOK, Shape, UNCHANGED <<registryVars, data, adding, pages, raced, unlisted>>,
         walked' = walked, pending' = pending,
         task' \in [Task -> {"waiting", "queued", "running", "done"}],
         updating' \in [Thread -> Table \cup {None}],
         step' \in [Thread -> {"start", "clear", "walk", "success"}],
         queue' \in Seq(Signal),
         loading' \in [Page -> BOOLEAN],
         DOMAIN shown' = Page,
         \A table \in Table : shown'[table] \in Seq(RowsOver(table))
  PROVE  Typed'
<1>1. RegistryTypeOK'
  BY DEF TypeOK, RegistryTypeOK, registryVars
<1>2. Shape'
  BY DEF Shape
<1>3. TypeOK'
  BY <1>1 DEF TypeOK
<1> QED
  BY <1>2, <1>3 DEF Typed

LEMMA DeliverKeepsTypes == Typed /\ Deliver => Typed'
<1> SUFFICES ASSUME Typed, Deliver PROVE Typed'
  OBVIOUS
<1>1. TypeOK /\ Shape
  BY DEF Typed
<1>2. queue \in Seq(Signal) /\ queue # <<>>
  BY <1>1 DEF TypeOK, Deliver
<1>3. Head(queue) \in Signal /\ Tail(queue) \in Seq(Signal)
  BY <1>2
<1>4. /\ loading' \in [Page -> BOOLEAN]
      /\ DOMAIN shown' = Page
      /\ \A table \in Table : shown'[table] \in Seq(RowsOver(table))
  BY <1>1, <1>3, HandleFacts DEF Deliver
<1>5. /\ UNCHANGED <<registryVars, data, adding, pages, raced, unlisted>>
      /\ UNCHANGED <<task, updating, step, walked, pending>>
      /\ queue' \in Seq(Signal)
  BY <1>3 DEF Deliver, walkVars
<1> QED
  BY <1>1, <1>4, <1>5, SignalKeepsTypes DEF TypeOK

(* An update that is on names a table. *)
LEMMA BusyFacts ==
  ASSUME TypeOK, NEW t \in Thread, ~Idle(t)
  PROVE  updating[t] \in Table /\ updating[t] \in Page
BY Names DEF TypeOK, Idle

LEMMA EmitStartKeepsTypes ==
  ASSUME Typed, NEW t \in Thread, EmitStart(t) PROVE Typed'
<1>1. TypeOK /\ Shape
  BY DEF Typed
<1> DEFINE signal == [page |-> updating[t], kind |-> "Start"]
<1>2. signal \in Signal
  BY <1>1, BusyFacts DEF EmitStart, Signal
<1>3. Emit(t, signal)
  BY DEF EmitStart
<1> HIDE DEF signal
<1>4. /\ loading' \in [Page -> BOOLEAN]
      /\ DOMAIN shown' = Page
      /\ \A table \in Table : shown'[table] \in Seq(RowsOver(table))
      /\ queue' \in Seq(Signal)
  BY <1>1, <1>2, <1>3, EmitFacts
<1>5. /\ UNCHANGED <<registryVars, data, adding, pages, raced, unlisted>>
      /\ UNCHANGED <<task, updating, walked, pending>>
      /\ step' \in [Thread -> {"start", "clear", "walk", "success"}]
  BY <1>1 DEF EmitStart, TypeOK
<1> QED
  BY <1>1, <1>4, <1>5, SignalKeepsTypes DEF TypeOK

LEMMA EmitSuccessKeepsTypes ==
  ASSUME Typed, NEW t \in Thread, EmitSuccess(t) PROVE Typed'
<1>1. TypeOK /\ Shape
  BY DEF Typed
<1> DEFINE signal == [page |-> updating[t], kind |-> "Success"]
<1>2. signal \in Signal
  BY <1>1, BusyFacts DEF EmitSuccess, Signal
<1>3. Emit(t, signal)
  BY DEF EmitSuccess
<1> HIDE DEF signal
<1>4. /\ loading' \in [Page -> BOOLEAN]
      /\ DOMAIN shown' = Page
      /\ \A table \in Table : shown'[table] \in Seq(RowsOver(table))
      /\ queue' \in Seq(Signal)
  BY <1>1, <1>2, <1>3, EmitFacts
<1>5. /\ UNCHANGED <<registryVars, data, adding, pages, raced, unlisted>>
      /\ UNCHANGED <<task, walked, pending>>
      /\ updating' \in [Thread -> Table \cup {None}]
      /\ step' \in [Thread -> {"start", "clear", "walk", "success"}]
  BY <1>1, Names DEF EmitSuccess, TypeOK
<1> QED
  BY <1>1, <1>4, <1>5, SignalKeepsTypes DEF TypeOK

LEMMA StartTaskKeepsTypes ==
  ASSUME Typed, NEW t \in Task, StartTask(t) PROVE Typed'
<1>1. TypeOK /\ Shape /\ t \in Thread
  BY Names DEF Typed
<1> DEFINE signal == [page |-> "baseline", kind |-> "Start"]
<1>2. signal \in Signal
  BY Names DEF Signal
<1>3. Emit(t, signal)
  BY DEF StartTask
<1> HIDE DEF signal
<1>4. /\ loading' \in [Page -> BOOLEAN]
      /\ DOMAIN shown' = Page
      /\ \A table \in Table : shown'[table] \in Seq(RowsOver(table))
      /\ queue' \in Seq(Signal)
  BY <1>1, <1>2, <1>3, EmitFacts
<1>5. /\ UNCHANGED <<registryVars, data, adding, pages, raced, unlisted>>
      /\ UNCHANGED <<step, walked, pending>>
      /\ task' \in [Task -> {"waiting", "queued", "running", "done"}]
      /\ updating' \in [Thread -> Table \cup {None}]
  BY <1>1, Names DEF StartTask, TypeOK
<1> QED
  BY <1>1, <1>4, <1>5, SignalKeepsTypes DEF TypeOK

LEMMA EndTaskKeepsTypes ==
  ASSUME Typed, NEW t \in Task, EndTask(t) PROVE Typed'
<1>1. TypeOK /\ Shape /\ t \in Thread
  BY Names DEF Typed
<1> DEFINE signal == [page |-> "baseline", kind |-> "Success"]
<1>2. signal \in Signal
  BY Names DEF Signal
<1>3. Emit(t, signal)
  BY DEF EndTask
<1> HIDE DEF signal
<1>4. /\ loading' \in [Page -> BOOLEAN]
      /\ DOMAIN shown' = Page
      /\ \A table \in Table : shown'[table] \in Seq(RowsOver(table))
      /\ queue' \in Seq(Signal)
  BY <1>1, <1>2, <1>3, EmitFacts
<1>5. /\ UNCHANGED <<registryVars, data, adding, pages, raced, unlisted>>
      /\ UNCHANGED <<updating, step, walked, pending>>
      /\ task' \in [Task -> {"waiting", "queued", "running", "done"}]
  BY <1>1, Names DEF EndTask, TypeOK, walkVars
<1> QED
  BY <1>1, <1>4, <1>5, SignalKeepsTypes DEF TypeOK

(* A list is emptied, or gets the row of a key its thread has not visited. *)
LEMMA DataKeepsTypes ==
  ASSUME TypeOK, Shape, NEW table \in Table,
         NEW rows \in Seq(RowsOver(table)), data' = [data EXCEPT ![table] = rows]
  PROVE  DOMAIN data' = Table /\ \A other \in Table : data'[other] \in Seq(RowsOver(other))
BY DEF Shape, TypeOK

LEMMA ClearKeepsTypes ==
  ASSUME Typed, NEW t \in Thread, Clear(t) PROVE Typed'
<1>1. TypeOK /\ Shape
  BY DEF Typed
<1>2. updating[t] \in Table
  BY <1>1, BusyFacts DEF Clear
<1>3. Keys(updating[t]) \in SUBSET Uid
  BY <1>1, <1>2, KeysAreUids DEF TypeOK
<1>4. DOMAIN data' = Table /\ \A other \in Table : data'[other] \in Seq(RowsOver(other))
  <2>1. <<>> \in Seq(RowsOver(updating[t]))
    OBVIOUS
  <2> QED
    BY <1>1, <1>2, <2>1, DataKeepsTypes DEF Clear
<1>5. RegistryTypeOK'
  BY <1>1 DEF Clear, TypeOK, RegistryTypeOK, registryVars
<1>6. Shape'
  BY <1>1, <1>3, <1>4 DEF Clear, Shape, pageVars
<1>7. /\ step' \in [Thread -> {"start", "clear", "walk", "success"}]
      /\ raced' \in BOOLEAN
      /\ unlisted' \subseteq StationUid
      /\ \A x \in Thread : walked'[x] \cup pending'[x] \subseteq StationUid \cup ObsFileUid
  <2>1. raced' \in BOOLEAN
    BY <1>1 DEF Clear, TypeOK
  <2> QED
    BY <1>1, <1>6, <2>1 DEF Clear, TypeOK, Shape, Uid
<1>8. UNCHANGED <<task, updating, adding, queue, pages, shown, loading>>
  BY DEF Clear, pageVars
<1>9. TypeOK'
  BY <1>1, <1>4, <1>5, <1>7, <1>8 DEF TypeOK
<1> QED
  BY <1>6, <1>9 DEF Typed

LEMMA AppendRowKeepsTypes ==
  ASSUME Typed, NEW t \in Thread, AppendRow(t) PROVE Typed'
<1>1. TypeOK /\ Shape
  BY DEF Typed
<1>2. updating[t] \in Table
  BY <1>1, BusyFacts DEF AppendRow
<1>3. PICK key \in Keys(updating[t]) \ walked[t] :
        /\ data' = [data EXCEPT ![updating[t]] = Append(@, Row(updating[t], key))]
        /\ walked' = [walked EXCEPT ![t] = @ \cup {key}]
        /\ pending' = [pending EXCEPT ![t] = @ \ {key}]
  BY DEF AppendRow
<1>4. key \in Uid /\ Row(updating[t], key) \in RowsOver(updating[t])
  BY <1>1, <1>2, <1>3, KeysAreUids, RowFacts DEF TypeOK
<1>5. DOMAIN data' = Table /\ \A other \in Table : data'[other] \in Seq(RowsOver(other))
  <2> DEFINE rows == Append(data[updating[t]], Row(updating[t], key))
  <2>1. rows \in Seq(RowsOver(updating[t]))
    BY <1>1, <1>2, <1>4 DEF TypeOK
  <2>2. data' = [data EXCEPT ![updating[t]] = rows]
    BY <1>3
  <2> HIDE DEF rows
  <2> QED
    BY <1>1, <1>2, <2>1, <2>2, DataKeepsTypes
<1>6. RegistryTypeOK'
  BY <1>1 DEF AppendRow, TypeOK, RegistryTypeOK, registryVars
<1>7. Shape'
  BY <1>1, <1>3, <1>4, <1>5 DEF AppendRow, Shape, pageVars
<1>8. \A x \in Thread : walked'[x] \cup pending'[x] \subseteq StationUid \cup ObsFileUid
  BY <1>7 DEF Shape, Uid
<1>9. UNCHANGED <<task, updating, step, adding, queue, pages, shown, loading, raced, unlisted>>
  BY DEF AppendRow, pageVars
<1>10. TypeOK'
  BY <1>1, <1>5, <1>6, <1>8, <1>9 DEF TypeOK
<1> QED
  BY <1>7, <1>10 DEF Typed

LEMMA EndWalkKeepsTypes ==
  ASSUME Typed, NEW t \in Thread, EndWalk(t) PROVE Typed'
<1>1. TypeOK /\ Shape
  BY DEF Typed
<1>2. step' \in [Thread -> {"start", "clear", "walk", "success"}]
  BY <1>1 DEF EndWalk, TypeOK
<1>3. /\ UNCHANGED <<registryVars, data, adding, pages, raced, unlisted>>
      /\ UNCHANGED <<task, updating, walked, pending, queue, shown, loading>>
  BY DEF EndWalk, pageVars
<1> QED
  BY <1>1, <1>2, <1>3, SignalKeepsTypes DEF TypeOK, Shape

(* The GUI thread begins an update, or hands a task to the pool. *)
LEMMA InputKeepsTypes ==
  ASSUME Typed, RegistryTypeOK',
         UNCHANGED <<data, step, queue, shown>>, loading' \in [Page -> BOOLEAN],
         walked' \in [Thread -> SUBSET Uid], pending' \in [Thread -> SUBSET Uid],
         task' \in [Task -> {"waiting", "queued", "running", "done"}],
         updating' \in [Thread -> Table \cup {None}],
         adding' \in [uid : StationUid, name : StationName] \cup {None},
         pages' \subseteq Page, raced' \in BOOLEAN, unlisted' \subseteq StationUid
  PROVE  Typed'
<1>1. Shape'
  BY DEF Typed, Shape
<1>2. \A t \in Thread : walked'[t] \cup pending'[t] \subseteq StationUid \cup ObsFileUid
  BY DEF Uid
<1>3. TypeOK'
  BY <1>2 DEF Typed, TypeOK
<1> QED
  BY <1>1, <1>3 DEF Typed

LEMMA CreateKeepsTypes ==
  Typed /\ (CreateBaselinePage \/ \E table \in Table : CreateTablePage(table)) => Typed'
<1> SUFFICES ASSUME Typed, CreateBaselinePage \/ \E table \in Table : CreateTablePage(table)
             PROVE  Typed'
  OBVIOUS
<1>1. TypeOK /\ Shape
  BY DEF Typed
<1>2. /\ UNCHANGED <<stations, obsfiles, data, step, walked, pending, queue, shown>>
      /\ UNCHANGED <<adding, raced, unlisted>>
  BY DEF CreateBaselinePage, CreateTablePage, registryVars, walkVars
<1>3. RegistryTypeOK'
  BY <1>1, <1>2 DEF TypeOK, RegistryTypeOK
<1>4. /\ task' \in [Task -> {"waiting", "queued", "running", "done"}]
      /\ updating' \in [Thread -> Table \cup {None}]
      /\ pages' \subseteq Page
  <2>1. CASE CreateBaselinePage
    BY <1>1, <2>1, Names DEF CreateBaselinePage, TypeOK, walkVars
  <2>2. CASE \E table \in Table : CreateTablePage(table)
    BY <1>1, <2>2, Names DEF CreateTablePage, TypeOK, walkVars
  <2> QED
    BY <2>1, <2>2
<1>7. loading' \in [Page -> BOOLEAN]
  <2>1. PICK page \in Page : loading' = [loading EXCEPT ![page] = TRUE]
    BY DEF CreateBaselinePage, CreateTablePage, Page
  <2> QED
    BY <1>1, <2>1 DEF TypeOK
<1>5. walked' \in [Thread -> SUBSET Uid] /\ pending' \in [Thread -> SUBSET Uid]
  BY <1>1, <1>2 DEF Shape
<1>6. /\ adding' \in [uid : StationUid, name : StationName] \cup {None}
      /\ raced' \in BOOLEAN /\ unlisted' \subseteq StationUid
  BY <1>1, <1>2 DEF TypeOK
<1> QED
  BY <1>2, <1>3, <1>4, <1>5, <1>6, <1>7, InputKeepsTypes

LEMMA AddStationKeepsTypes ==
  ASSUME Typed, NEW u \in StationUid, NEW n \in StationName, NavPostAddStation(u, n)
  PROVE  Typed'
<1>1. TypeOK /\ Shape /\ RegistryTypeOK
  BY DEF Typed, TypeOK
<1>2. RegistryTypeOK'
  BY <1>1, StationFacts DEF NavPostAddStation
<1> DEFINE changed == IF u \in DOMAIN stations THEN {} ELSE {"station"}
<1>3. Disturb(changed)
  BY DEF NavPostAddStation
<1> HIDE DEF changed
<1>4. /\ walked' \in [Thread -> SUBSET Uid] /\ pending' \in [Thread -> SUBSET Uid]
      /\ raced' \in BOOLEAN
  BY <1>1, <1>3, DisturbFacts
<1>5. /\ UNCHANGED <<data, step, queue, shown, loading>>
      /\ UNCHANGED <<task, adding, pages, unlisted>>
      /\ updating' \in [Thread -> Table \cup {None}]
  BY <1>1, Names DEF NavPostAddStation, pageVars, TypeOK
<1>6. /\ task' \in [Task -> {"waiting", "queued", "running", "done"}]
      /\ adding' \in [uid : StationUid, name : StationName] \cup {None}
      /\ pages' \subseteq Page /\ unlisted' \subseteq StationUid
      /\ loading' \in [Page -> BOOLEAN]
  BY <1>1, <1>5 DEF TypeOK
<1> QED
  BY <1>2, <1>4, <1>5, <1>6, InputKeepsTypes

LEMMA InsertObsFileKeepsTypes ==
  ASSUME Typed, NEW f \in ObsFileUid, NEW u \in StationUid, NEW n \in StationName,
         InsertObsFile(f, u, n)
  PROVE  Typed'
<1>1. TypeOK /\ Shape /\ RegistryTypeOK
  BY DEF Typed, TypeOK
<1>2. RegistryTypeOK'
  BY <1>1, FileFacts DEF InsertObsFile
<1>3. /\ walked' \in [Thread -> SUBSET Uid] /\ pending' \in [Thread -> SUBSET Uid]
      /\ raced' \in BOOLEAN
  BY <1>1, DisturbFacts DEF InsertObsFile
<1>4. /\ UNCHANGED <<data, step, queue, shown, loading>>
      /\ UNCHANGED <<task, updating, pages, unlisted>>
      /\ adding' \in [uid : StationUid, name : StationName] \cup {None}
  BY DEF InsertObsFile, pageVars
<1>5. /\ task' \in [Task -> {"waiting", "queued", "running", "done"}]
      /\ updating' \in [Thread -> Table \cup {None}]
      /\ pages' \subseteq Page /\ unlisted' \subseteq StationUid
      /\ loading' \in [Page -> BOOLEAN]
  BY <1>1, <1>4 DEF TypeOK
<1> QED
  BY <1>2, <1>3, <1>4, <1>5, InputKeepsTypes

(* The station that came with a file. *)
LEMMA ComingFacts ==
  ASSUME TypeOK, adding # None
  PROVE  adding.uid \in StationUid /\ adding.name \in StationName
BY DEF TypeOK

LEMMA InsertItsStationKeepsTypes == Typed /\ InsertItsStation => Typed'
<1> SUFFICES ASSUME Typed, InsertItsStation PROVE Typed'
  OBVIOUS
<1>1. TypeOK /\ Shape /\ RegistryTypeOK
  BY DEF Typed, TypeOK
<1>2. adding.uid \in StationUid /\ adding.name \in StationName
  BY <1>1, ComingFacts DEF InsertItsStation
<1>3. RegistryTypeOK'
  BY <1>1, <1>2, StationFacts DEF InsertItsStation
<1> DEFINE changed == IF adding.uid \in DOMAIN stations THEN {} ELSE {"station"}
<1>4. Disturb(changed)
  BY DEF InsertItsStation
<1> HIDE DEF changed
<1>5. /\ walked' \in [Thread -> SUBSET Uid] /\ pending' \in [Thread -> SUBSET Uid]
      /\ raced' \in BOOLEAN
  BY <1>1, <1>4, DisturbFacts
<1>6. /\ UNCHANGED <<data, step, queue, shown, loading>>
      /\ UNCHANGED <<task, pages>>
      /\ updating' \in [Thread -> Table \cup {None}]
      /\ adding' \in [uid : StationUid, name : StationName] \cup {None}
      /\ unlisted' \subseteq StationUid
  BY <1>1, <1>2, Names DEF InsertItsStation, pageVars, TypeOK
<1>7. /\ task' \in [Task -> {"waiting", "queued", "running", "done"}]
      /\ pages' \subseteq Page /\ loading' \in [Page -> BOOLEAN]
  BY <1>1, <1>6 DEF TypeOK
<1> QED
  BY <1>3, <1>5, <1>6, <1>7, InputKeepsTypes

LEMMA RefusalKeepsTypes ==
  ASSUME Typed, NEW f, NavPostRefusesObsFile(f) PROVE Typed'
<1>1. TypeOK /\ Shape
  BY DEF Typed
<1>2. /\ UNCHANGED <<stations, obsfiles, data, step, queue, shown, loading>>
      /\ UNCHANGED <<task, walked, pending, adding, pages, raced, unlisted>>
      /\ updating' = [updating EXCEPT ![Gui] = "obsfile"]
  BY DEF NavPostRefusesObsFile, RefuseObsFile, registryVars, pageVars
<1>3. RegistryTypeOK' /\ updating' \in [Thread -> Table \cup {None}]
  BY <1>1, <1>2, Names DEF TypeOK, RegistryTypeOK
<1>4. walked' \in [Thread -> SUBSET Uid] /\ pending' \in [Thread -> SUBSET Uid]
  BY <1>1, <1>2 DEF Shape
<1>5. /\ task' \in [Task -> {"waiting", "queued", "running", "done"}]
      /\ adding' \in [uid : StationUid, name : StationName] \cup {None}
      /\ pages' \subseteq Page /\ raced' \in BOOLEAN /\ unlisted' \subseteq StationUid
      /\ loading' \in [Page -> BOOLEAN]
  BY <1>1, <1>2 DEF TypeOK
<1> QED
  BY <1>2, <1>3, <1>4, <1>5, InputKeepsTypes

LEMMA StutterKeepsTypes == Typed /\ UNCHANGED vars => Typed'
<1> SUFFICES ASSUME Typed, UNCHANGED vars PROVE Typed'
  OBVIOUS
<1>1. TypeOK /\ Shape
  BY DEF Typed
<1> QED
  BY <1>1, SignalKeepsTypes DEF vars, walkVars, pageVars, TypeOK, Shape

(* The steps, one by one. *)
LEMMA Steps ==
  Next =>
    \/ CreateBaselinePage \/ Deliver \/ InsertItsStation
    \/ \E table \in Table : CreateTablePage(table)
    \/ \E u \in StationUid, n \in StationName : NavPostAddStation(u, n)
    \/ \E f \in ObsFileUid, u \in StationUid, n \in StationName : InsertObsFile(f, u, n)
    \/ \E f \in ObsFileUid : NavPostRefusesObsFile(f)
    \/ \E t \in Thread : EmitStart(t) \/ Clear(t) \/ AppendRow(t) \/ EndWalk(t) \/ EmitSuccess(t)
    \/ \E t \in Task : StartTask(t) \/ EndTask(t)
BY Names DEF Next, Input, Update, RunTask

LEMMA StepKeepsTypes == Typed /\ [Next]_vars => Typed'
<1> SUFFICES ASSUME Typed, [Next]_vars PROVE Typed'
  OBVIOUS
<1>1. CASE UNCHANGED vars
  BY <1>1, StutterKeepsTypes
<1>2. CASE CreateBaselinePage \/ \E table \in Table : CreateTablePage(table)
  BY <1>2, CreateKeepsTypes
<1>3. CASE Deliver \/ InsertItsStation
  BY <1>3, DeliverKeepsTypes, InsertItsStationKeepsTypes
<1>4. CASE \E u \in StationUid, n \in StationName : NavPostAddStation(u, n)
  BY <1>4, AddStationKeepsTypes
<1>5. CASE \E f \in ObsFileUid, u \in StationUid, n \in StationName : InsertObsFile(f, u, n)
  BY <1>5, InsertObsFileKeepsTypes
<1>6. CASE \E f \in ObsFileUid : NavPostRefusesObsFile(f)
  BY <1>6, RefusalKeepsTypes
<1>7. CASE \E t \in Thread :
             EmitStart(t) \/ Clear(t) \/ AppendRow(t) \/ EndWalk(t) \/ EmitSuccess(t)
  BY <1>7, EmitStartKeepsTypes, ClearKeepsTypes, AppendRowKeepsTypes, EndWalkKeepsTypes,
     EmitSuccessKeepsTypes
<1>8. CASE \E t \in Task : StartTask(t) \/ EndTask(t)
  BY <1>8, StartTaskKeepsTypes, EndTaskKeepsTypes
<1> QED
  BY <1>1, <1>2, <1>3, <1>4, <1>5, <1>6, <1>7, <1>8, Steps

(* The type invariant, and the types of the functions it leaves open.      *)
THEOREM TypesHold == Spec => []Typed
BY TypesInitially, StepKeepsTypes, PTL DEF Spec

(* A list holds rows of its table, a page one of them, and every queued    *)
(* signal is one that some page knows (the type invariant).                *)
THEOREM TypeCorrect == Spec => []TypeOK
<1>1. Typed => TypeOK
  BY DEF Typed
<1> QED
  BY <1>1, TypesHold, PTL

-----------------------------------------------------------------------------
(* The threads, the queue and the file that comes with a station: these    *)
(* hold whether or not threads have met.                                   *)

(* A thread is at the start when it updates nothing, the GUI thread        *)
(* between the halves of addObsFile, and loadData is called once.          *)
Threads ==
  /\ \A t \in Thread : Idle(t) => step[t] = "start"
  /\ adding # None => Idle(Gui)
  /\ \A t \in Task : task[t] # "running" => Idle(t)

Called ==
  /\ queue # <<>> => "baseline" \in pages
  /\ \A t \in Task : task[t] # "waiting" => "baseline" \in pages
  /\ \A t, o \in Task : task[t] # "waiting" /\ task[o] # "waiting" => t = o

Success(table) == [page |-> table, kind |-> "Success"]

(* A Success in the queue comes from an update that no task is about to    *)
(* make once more.                                                         *)
Passed ==
  \A i \in DOMAIN queue, table \in Table :
    queue[i] = Success(table) =>
      \A t \in Task : /\ task[t] # "queued"
                      /\ updating[t] # table
                      /\ table = "obsfile" => updating[t] # "station"

(* The station of a file is known, or is just being added. *)
Settled ==
  \A f \in DOMAIN obsfiles :
    obsfiles[f] \in DOMAIN stations \/ (adding # None /\ obsfiles[f] = adding.uid)

Base == Typed /\ Threads /\ Called /\ Passed /\ Settled

LEMMA ThreadsStep == Base /\ [Next]_vars => Threads'
<1> SUFFICES ASSUME Base, [Next]_vars PROVE Threads'
  OBVIOUS
<1>1. TypeOK /\ Threads
  BY DEF Base, Typed
<1> USE <1>1
<1>2. CASE UNCHANGED vars
  BY <1>2 DEF vars, walkVars, Threads, Idle
<1>3. CASE CreateBaselinePage
  BY <1>3 DEF CreateBaselinePage, walkVars, Threads, Idle, TypeOK
<1>4. CASE Deliver
  BY <1>4 DEF Deliver, walkVars, Threads, Idle
<1>5. CASE InsertItsStation
  BY <1>5, Names DEF InsertItsStation, Threads, Idle, TypeOK
<1>6. CASE \E table \in Table : CreateTablePage(table)
  BY <1>6, Names DEF CreateTablePage, GuiIdle, Threads, Idle, TypeOK
<1>7. CASE \E u \in StationUid, n \in StationName : NavPostAddStation(u, n)
  BY <1>7, Names DEF NavPostAddStation, GuiIdle, Threads, Idle, TypeOK
<1>8. CASE \E f \in ObsFileUid, u \in StationUid, n \in StationName : InsertObsFile(f, u, n)
  BY <1>8, Names DEF InsertObsFile, GuiIdle, Threads, Idle, TypeOK
<1>9. CASE \E f \in ObsFileUid : NavPostRefusesObsFile(f)
  BY <1>9, Names DEF NavPostRefusesObsFile, GuiIdle, Threads, Idle, TypeOK
<1>10. CASE \E t \in Thread : EmitStart(t) \/ Clear(t) \/ AppendRow(t) \/ EndWalk(t)
  BY <1>10 DEF EmitStart, Clear, AppendRow, EndWalk, Threads, Idle, TypeOK
<1>11. CASE \E t \in Thread : EmitSuccess(t)
  BY <1>11, Names DEF EmitSuccess, Threads, Idle, TypeOK
<1>12. CASE \E t \in Task : StartTask(t)
  BY <1>12, Names DEF StartTask, Threads, Idle, TypeOK
<1>13. CASE \E t \in Task : EndTask(t)
  BY <1>13, Names DEF EndTask, walkVars, Threads, Idle, TypeOK
<1> QED
  BY <1>2, <1>3, <1>4, <1>5, <1>6, <1>7, <1>8, <1>9, <1>10, <1>11, <1>12, <1>13, Steps

(* What a step does to the queue: nothing, take its head, or a task that   *)
(* runs or begins appends one signal.                                      *)
LEMMA QueueFacts ==
  ASSUME TypeOK, Threads, NEW t \in Thread, NEW signal, Emit(t, signal),
         t \in Task => task[t] \in {"queued", "running"}
  PROVE  \/ queue' = queue
         \/ /\ t \in Task /\ task[t] # "waiting"
            /\ queue' = Append(queue, signal)
BY Names DEF Emit

LEMMA CalledStep == Base /\ [Next]_vars => Called'
<1> SUFFICES ASSUME Base, [Next]_vars PROVE Called'
  OBVIOUS
<1>1. TypeOK /\ Threads /\ Called
  BY DEF Base, Typed
<1> USE <1>1
<1>2. CASE UNCHANGED <<task, pages, queue>>
  BY <1>2 DEF Called
<1>3. CASE CreateBaselinePage
  BY <1>3 DEF CreateBaselinePage, Called, TypeOK
<1>4. CASE Deliver
  <2>1. queue # <<>> /\ task' = task /\ pages' = pages
    BY <1>4 DEF Deliver
  <2> QED
    BY <2>1 DEF Called
<1>5. CASE \E table \in Table : CreateTablePage(table)
  BY <1>5 DEF CreateTablePage, Called
<1>6. CASE \E t \in Thread : EmitStart(t) \/ EmitSuccess(t)
  <2>1. PICK t \in Thread : EmitStart(t) \/ EmitSuccess(t)
    BY <1>6
  <2>2. t \in Task => task[t] = "running"
    BY <2>1 DEF EmitStart, EmitSuccess, Threads
  <2>3. queue' = queue \/ (t \in Task /\ task[t] # "waiting")
    BY <2>1, <2>2, QueueFacts DEF EmitStart, EmitSuccess
  <2>4. task' = task /\ pages' = pages
    BY <2>1 DEF EmitStart, EmitSuccess
  <2> QED
    BY <2>3, <2>4 DEF Called
<1>7. CASE \E t \in Task : StartTask(t) \/ EndTask(t)
  <2>1. PICK t \in Task : StartTask(t) \/ EndTask(t)
    BY <1>7
  <2>2. task[t] # "waiting" /\ pages' = pages
    BY <2>1 DEF StartTask, EndTask
  <2>3. \A o \in Task : task'[o] # "waiting" => task[o] # "waiting"
    BY <2>1, <2>2 DEF StartTask, EndTask, TypeOK
  <2> QED
    BY <2>2, <2>3 DEF Called
<1>8. CASE \E t \in Thread : Clear(t) \/ AppendRow(t) \/ EndWalk(t)
  BY <1>2, <1>8 DEF Clear, AppendRow, EndWalk, pageVars
<1>9. CASE InsertItsStation \/ \E u \in StationUid, n \in StationName : NavPostAddStation(u, n)
  BY <1>2, <1>9 DEF InsertItsStation, NavPostAddStation, pageVars
<1>10. CASE \/ \E f \in ObsFileUid, u \in StationUid, n \in StationName : InsertObsFile(f, u, n)
            \/ \E f \in ObsFileUid : NavPostRefusesObsFile(f)
  BY <1>2, <1>10 DEF InsertObsFile, NavPostRefusesObsFile, pageVars
<1>11. CASE UNCHANGED vars
  BY <1>2, <1>11 DEF vars, pageVars
<1> QED
  BY <1>3, <1>4, <1>5, <1>6, <1>7, <1>8, <1>9, <1>10, <1>11, Steps

LEMMA Appended ==
  ASSUME NEW S, NEW list \in Seq(S), NEW row \in S
  PROVE  /\ \A i \in DOMAIN Append(list, row) :
              \/ i \in DOMAIN list /\ Append(list, row)[i] = list[i]
              \/ i = Len(list) + 1 /\ Append(list, row)[i] = row
         /\ ToSet(Append(list, row)) = ToSet(list) \cup {row}
         /\ IsInjective(list) /\ row \notin ToSet(list) => IsInjective(Append(list, row))
<1>1. Len(list) \in Nat /\ DOMAIN list = 1..Len(list)
  OBVIOUS
<1>2. Append(list, row) \in Seq(S) /\ Len(Append(list, row)) = Len(list) + 1
  OBVIOUS
<1>3. DOMAIN Append(list, row) = 1..(Len(list) + 1)
  BY <1>2
<1>4. \A i \in 1..(Len(list) + 1) :
        Append(list, row)[i] = IF i <= Len(list) THEN list[i] ELSE row
  OBVIOUS
<1> DEFINE longer == Append(list, row)
<1>5. /\ DOMAIN longer = 1..(Len(list) + 1)
      /\ \A i \in 1..(Len(list) + 1) : longer[i] = IF i <= Len(list) THEN list[i] ELSE row
  BY <1>3, <1>4
<1> HIDE DEF longer
<1>6. \A i \in DOMAIN longer :
        \/ i \in DOMAIN list /\ longer[i] = list[i]
        \/ i = Len(list) + 1 /\ longer[i] = row
  BY <1>1, <1>5
<1>7. \A i \in DOMAIN list : i \in DOMAIN longer /\ longer[i] = list[i]
  BY <1>1, <1>5
<1>8. Len(list) + 1 \in DOMAIN longer /\ longer[Len(list) + 1] = row
  BY <1>1, <1>5
<1>9. ToSet(longer) = ToSet(list) \cup {row}
  BY <1>6, <1>7, <1>8 DEF ToSet
<1>10. IsInjective(list) /\ row \notin ToSet(list) => IsInjective(longer)
  BY <1>6 DEF ToSet, IsInjective
<1> QED
  BY <1>6, <1>9, <1>10 DEF longer

(* An appended signal that is no Success of a table is no new condition;   *)
(* one that is must have passed itself.                                    *)
LEMMA PassedGrows ==
  ASSUME TypeOK, NEW signal \in Signal, queue' = queue \/ queue' = Append(queue, signal),
         \A i \in DOMAIN queue, table \in Table :
           queue[i] = Success(table) =>
             \A t \in Task : /\ task'[t] # "queued"
                             /\ updating'[t] # table
                             /\ table = "obsfile" => updating'[t] # "station",
         \A table \in Table :
           signal = Success(table) =>
             \/ queue' = queue
             \/ \A t \in Task : /\ task'[t] # "queued"
                                /\ updating'[t] # table
                                /\ table = "obsfile" => updating'[t] # "station"
  PROVE  Passed'
<1>1. CASE queue' = queue
  BY <1>1 DEF Passed, Success
<1>2. CASE queue' # queue
  <2>1. queue \in Seq(Signal) /\ queue' = Append(queue, signal)
    BY <1>2 DEF TypeOK
  <2>2. \A i \in DOMAIN queue' : \/ i \in DOMAIN queue /\ queue'[i] = queue[i]
                                 \/ queue'[i] = signal
    BY <2>1, Appended
  <2> QED
    BY <1>2, <2>2 DEF Passed, Success
<1> QED
  BY <1>1, <1>2

(* A step that begins no task and no update of one, nor emits a Success.   *)
LEMMA PassedStays ==
  ASSUME TypeOK, Passed, NEW signal \in Signal, queue' = queue \/ queue' = Append(queue, signal),
         \A table \in Table : signal # Success(table),
         \A t \in Task : task'[t] = "queued" => task[t] = "queued",
         \A t \in Task : updating'[t] = updating[t] \/ updating'[t] = None
  PROVE  Passed'
<1>1. \A i \in DOMAIN queue, table \in Table :
        queue[i] = Success(table) =>
          \A t \in Task : /\ task'[t] # "queued"
                          /\ updating'[t] # table
                          /\ table = "obsfile" => updating'[t] # "station"
  BY Names DEF Passed
<1> QED
  BY <1>1, PassedGrows

LEMMA PassedStep == Base /\ [Next]_vars => Passed'
<1> SUFFICES ASSUME Base, [Next]_vars PROVE Passed'
  OBVIOUS
<1>1. TypeOK /\ Threads /\ Called /\ Passed
  BY DEF Base, Typed
<1> USE <1>1
<1>2. \A page \in Page, table \in Table : [page |-> page, kind |-> "Start"] # Success(table)
  BY DEF Success
<1>3. /\ \A table \in Table : [page |-> "baseline", kind |-> "Success"] # Success(table)
      /\ [page |-> "baseline", kind |-> "Success"] \in Signal
  BY Names DEF Success, Signal
<1>4. ASSUME queue' = queue, task' = task, \A t \in Task : updating'[t] = updating[t]
      PROVE  Passed'
  BY <1>3, <1>4, PassedStays
<1>5. CASE CreateBaselinePage
  <2>1. queue = <<>>
    BY <1>5 DEF CreateBaselinePage, Called
  <2>2. queue' = <<>>
    BY <2>1, <1>5 DEF CreateBaselinePage
  <2> QED
    BY <2>2 DEF Passed
<1>6. CASE Deliver
  <2>1. /\ queue \in Seq(Signal) /\ queue # <<>> /\ queue' = Tail(queue)
        /\ task' = task /\ updating' = updating
    BY <1>6 DEF Deliver, walkVars, TypeOK
  <2>2. \A i \in DOMAIN queue' : i + 1 \in DOMAIN queue /\ queue'[i] = queue[i + 1]
    BY <2>1
  <2> QED
    BY <2>1, <2>2 DEF Passed, Success
<1>7. CASE \E t \in Thread : EmitStart(t)
  <2>1. PICK t \in Thread : EmitStart(t)
    BY <1>7
  <2> DEFINE signal == [page |-> updating[t], kind |-> "Start"]
  <2>2. signal \in Signal /\ \A table \in Table : signal # Success(table)
    BY <1>2, <2>1, BusyFacts DEF EmitStart, Signal
  <2>3. /\ Emit(t, signal) /\ task' = task /\ updating' = updating
    BY <2>1 DEF EmitStart
  <2>4. queue' = queue \/ queue' = Append(queue, signal)
    BY <2>3 DEF Emit
  <2> HIDE DEF signal
  <2> QED
    BY <2>2, <2>3, <2>4, PassedStays
<1>8. CASE \E t \in Thread : EmitSuccess(t)
  <2>1. PICK t \in Thread : EmitSuccess(t)
    BY <1>8
  <2>2. updating[t] \in Table /\ ~Idle(t)
    BY <2>1, BusyFacts DEF EmitSuccess
  <2>3. /\ Emit(t, Success(updating[t])) /\ task' = task
        /\ updating' = [updating EXCEPT ![t] =
                          IF t # Gui /\ @ = "station" THEN "obsfile" ELSE None]
    BY <2>1 DEF EmitSuccess, Success
  <2>4. CASE t = Gui
    <3>1. queue' = queue /\ \A o \in Task : updating'[o] = updating[o]
      BY <2>3, <2>4, Names DEF Emit, TypeOK
    <3> QED
      BY <1>4, <2>3, <3>1
  <2>5. CASE t # Gui
    <3>1. t \in Task /\ task[t] = "running" /\ queue' = Append(queue, Success(updating[t]))
      BY <2>2, <2>3, <2>5, Names DEF Emit, Threads
    <3>2. updating'[t] = IF updating[t] = "station" THEN "obsfile" ELSE None
      BY <2>3, <2>5 DEF TypeOK
    <3>3. \A o \in Task : o # t => task[o] = "waiting" /\ updating'[o] = None
      BY <2>3, <3>1 DEF Called, Threads, Idle, TypeOK
    <3>4. \A o \in Task : task'[o] # "queued"
      BY <2>3, <3>1, <3>3
    <3>5. \A i \in DOMAIN queue, table \in Table :
            queue[i] = Success(table) =>
              \A o \in Task : /\ task'[o] # "queued"
                              /\ updating'[o] # table
                              /\ table = "obsfile" => updating'[o] # "station"
      BY <3>1, <3>2, <3>3, <3>4, Names DEF Passed
    <3>6. \A table \in Table :
            Success(updating[t]) = Success(table) =>
              \A o \in Task : /\ task'[o] # "queued"
                              /\ updating'[o] # table
                              /\ table = "obsfile" => updating'[o] # "station"
      <4>1. \A table \in Table : Success(updating[t]) = Success(table) => table = updating[t]
        BY DEF Success
      <4> QED
        BY <2>2, <3>2, <3>3, <3>4, <4>1, Names
    <3>7. Success(updating[t]) \in Signal
      BY <2>2, Names DEF Success, Signal
    <3> QED
      BY <3>1, <3>5, <3>6, <3>7, PassedGrows
  <2> QED
    BY <2>4, <2>5
<1>9. CASE \E t \in Task : StartTask(t)
  <2>1. PICK t \in Task : StartTask(t)
    BY <1>9
  <2> DEFINE signal == [page |-> "baseline", kind |-> "Start"]
  <2>2. signal \in Signal /\ \A table \in Table : signal # Success(table)
    BY Names DEF Success, Signal
  <2>3. Emit(t, signal)
    BY <2>1 DEF StartTask
  <2>4. queue' = queue \/ queue' = Append(queue, signal)
    BY <2>3 DEF Emit
  <2> HIDE DEF signal
  <2>5. \A i \in DOMAIN queue, table \in Table : queue[i] # Success(table)
    BY <2>1 DEF Passed, StartTask
  <2> QED
    BY <2>2, <2>4, <2>5, PassedGrows
<1>10. CASE \E t \in Task : EndTask(t)
  <2>1. PICK t \in Task : EndTask(t)
    BY <1>10
  <2> DEFINE signal == [page |-> "baseline", kind |-> "Success"]
  <2>2. Emit(t, signal) /\ updating' = updating
    BY <2>1 DEF EndTask, walkVars
  <2>3. queue' = queue \/ queue' = Append(queue, signal)
    BY <2>2 DEF Emit
  <2>4. signal \in Signal /\ \A table \in Table : signal # Success(table)
    BY <1>3
  <2> HIDE DEF signal
  <2>5. \A o \in Task : task'[o] = "queued" => task[o] = "queued"
    BY <2>1 DEF EndTask, TypeOK
  <2> QED
    BY <2>2, <2>3, <2>4, <2>5, PassedStays
<1>11. CASE \E t \in Thread : Clear(t) \/ AppendRow(t) \/ EndWalk(t)
  BY <1>4, <1>11 DEF Clear, AppendRow, EndWalk
<1>12. CASE InsertItsStation \/ \E u \in StationUid, n \in StationName : NavPostAddStation(u, n)
  BY <1>4, <1>12, Names DEF InsertItsStation, NavPostAddStation, TypeOK
<1>13. CASE \/ \E f \in ObsFileUid, u \in StationUid, n \in StationName : InsertObsFile(f, u, n)
            \/ \E f \in ObsFileUid : NavPostRefusesObsFile(f)
            \/ \E table \in Table : CreateTablePage(table)
  BY <1>4, <1>13, Names DEF InsertObsFile, NavPostRefusesObsFile, CreateTablePage, TypeOK
<1>14. CASE UNCHANGED vars
  BY <1>4, <1>14 DEF vars, walkVars
<1> QED
  BY <1>5, <1>6, <1>7, <1>8, <1>9, <1>10, <1>11, <1>12, <1>13, <1>14, Steps

LEMMA SettledStep == Base /\ [Next]_vars => Settled'
<1> SUFFICES ASSUME Base, [Next]_vars PROVE Settled'
  OBVIOUS
<1>1. TypeOK /\ RegistryTypeOK /\ Settled
  BY DEF Base, Typed, TypeOK
<1> USE <1>1
<1>2. CASE UNCHANGED <<stations, obsfiles, adding>>
  BY <1>2 DEF Settled
<1>3. CASE \E u \in StationUid, n \in StationName : NavPostAddStation(u, n)
  <2>1. PICK u \in StationUid, n \in StationName : NavPostAddStation(u, n)
    BY <1>3
  <2>2. /\ obsfiles' = obsfiles
        /\ DOMAIN stations' = DOMAIN stations \cup {u}
    BY <2>1, StationFacts DEF NavPostAddStation
  <2>3. adding = None
    BY <2>1 DEF NavPostAddStation, GuiIdle
  <2> QED
    BY <2>2, <2>3 DEF Settled
<1>4. CASE \E f \in ObsFileUid, u \in StationUid, n \in StationName : InsertObsFile(f, u, n)
  <2>1. PICK f \in ObsFileUid, u \in StationUid, n \in StationName : InsertObsFile(f, u, n)
    BY <1>4
  <2>2. /\ DOMAIN obsfiles' = DOMAIN obsfiles \cup {f} /\ stations' = stations
        /\ obsfiles'[f] = u /\ \A g \in DOMAIN obsfiles : obsfiles'[g] = obsfiles[g]
    BY <2>1, FileFacts DEF InsertObsFile
  <2>3. adding = None /\ adding' = [uid |-> u, name |-> n]
    BY <2>1 DEF InsertObsFile, GuiIdle
  <2>4. adding' # None
    BY <2>3, NoneAssumption
  <2> QED
    BY <2>2, <2>3, <2>4 DEF Settled
<1>5. CASE InsertItsStation
  <2>1. adding.uid \in StationUid /\ adding.name \in StationName
    BY <1>5, ComingFacts DEF InsertItsStation
  <2>2. /\ obsfiles' = obsfiles
        /\ DOMAIN stations' = DOMAIN stations \cup {adding.uid}
    BY <1>5, <2>1, StationFacts DEF InsertItsStation
  <2> QED
    BY <2>2 DEF Settled
<1>6. CASE CreateBaselinePage \/ Deliver \/ \E table \in Table : CreateTablePage(table)
  BY <1>2, <1>6 DEF CreateBaselinePage, Deliver, CreateTablePage, registryVars
<1>7. CASE \E f \in ObsFileUid : NavPostRefusesObsFile(f)
  BY <1>2, <1>7 DEF NavPostRefusesObsFile, RefuseObsFile, registryVars
<1>8. CASE \E t \in Thread : EmitStart(t) \/ Clear(t) \/ AppendRow(t) \/ EndWalk(t) \/ EmitSuccess(t)
  BY <1>2, <1>8 DEF EmitStart, Clear, AppendRow, EndWalk, EmitSuccess, registryVars
<1>9. CASE \E t \in Task : StartTask(t) \/ EndTask(t)
  BY <1>2, <1>9 DEF StartTask, EndTask, registryVars
<1>10. CASE UNCHANGED vars
  BY <1>2, <1>10 DEF vars, registryVars
<1> QED
  BY <1>3, <1>4, <1>5, <1>6, <1>7, <1>8, <1>9, <1>10, Steps

LEMMA BaseInitially == Init => Base
<1> SUFFICES ASSUME Init PROVE Base
  OBVIOUS
<1>1. Threads
  <2>1. \A t \in Thread : step[t] = "start" /\ updating[t] = None
    BY DEF Init
  <2>2. adding = None /\ Gui \in Thread /\ Task \subseteq Thread
    BY Names DEF Init
  <2> QED
    BY <2>1, <2>2 DEF Threads, Idle
<1>2. Called /\ Passed
  BY DEF Init, Called, Passed
<1>3. Settled
  BY DEF Init, RegistryInit, EmptyMap, Settled
<1> QED
  BY <1>1, <1>2, <1>3, TypesInitially DEF Base

LEMMA BaseStep == Base /\ [Next]_vars => Base'
BY StepKeepsTypes, ThreadsStep, CalledStep, PassedStep, SettledStep DEF Base

-----------------------------------------------------------------------------
(* The lists and the pages, as long as no threads have met. *)

Walking(t, table) == updating[t] = table /\ step[t] = "walk"

(* The GUI thread is going to empty the list and walk the map. *)
WillRebuild(table) ==
  \/ updating[Gui] = table /\ step[Gui] \in {"start", "clear"}
  \/ table = "obsfile" /\ adding # None

Unlisted(table) == IF table = "station" THEN unlisted ELSE {}

RowsOf(table, keys) == {Row(table, key) : key \in keys}

ListHolds(table, keys) ==
  ToSet(data[table]) = RowsOf(table, keys) /\ IsInjective(data[table])

(* A list under a walk holds the rows of the keys it has visited, the rest *)
(* are pending; a list at rest holds all of them.                          *)
Listed(table) ==
  /\ \A t \in Thread :
       Walking(t, table) => /\ ListHolds(table, walked[t])
                            /\ walked[t] \cup pending[t] = Keys(table)
                            /\ Unlisted(table) = {}
  /\ (\A t \in Thread : ~Walking(t, table)) => ListHolds(table, Keys(table) \ Unlisted(table))

(* What a page can have got a row of: it will not change any more. *)
Known(table) ==
  IF table = "station" THEN DOMAIN stations \ unlisted
  ELSE {f \in DOMAIN obsfiles : obsfiles[f] \in DOMAIN stations}

Apart ==
  \A table \in Table, t, o \in Thread : InBody(t, table) /\ InBody(o, table) => t = o

ListsAreKept == \A table \in Table : WillRebuild(table) \/ Listed(table)

ShownIsKnown == \A table \in Table : ToSet(shown[table]) \subseteq RowsOf(table, Known(table))

(* A page shows its list, or a Success that will make it is to come. *)
ShowsOrWill(table) ==
  \/ WillRebuild(table)
  \/ \E t \in Thread : InBody(t, table)
  \/ Success(table) \in ToSet(queue)
  \/ shown[table] = data[table]

ShownIsCurrent == \A table \in Table \cap pages : ShowsOrWill(table)

Good == Apart /\ ListsAreKept /\ ShownIsKnown /\ ShownIsCurrent

IInv == Base /\ (~raced => Good)

(* The row of a key that is known never changes. *)
LEMMA RowsStay ==
  ASSUME RegistryTypeOK, RecordsStay, NEW table \in Table, NEW key \in Keys(table),
         table = "obsfile" => obsfiles[key] \in DOMAIN stations
  PROVE  key \in Keys(table)' /\ Row(table, key)' = Row(table, key)
BY Names DEF RecordsStay, Keys, Row, GetStation

LEMMA KnownGrows ==
  ASSUME RegistryTypeOK, RecordsStay, NEW table \in Table,
         unlisted' \cap DOMAIN stations \subseteq unlisted
  PROVE  RowsOf(table, Known(table)) \subseteq RowsOf(table, Known(table))'
<1> SUFFICES ASSUME NEW key \in Known(table)
             PROVE  Row(table, key) \in RowsOf(table, Known(table))'
  BY DEF RowsOf
<1>1. key \in Keys(table) /\ (table = "obsfile" => obsfiles[key] \in DOMAIN stations)
  BY Names DEF Known, Keys
<1>2. Row(table, key)' = Row(table, key)
  BY <1>1, RowsStay
<1>3. key \in Known(table)'
  BY Names DEF Known, RecordsStay
<1> QED
  BY <1>2, <1>3 DEF RowsOf

LEMMA ShownStays ==
  ASSUME RegistryTypeOK, RecordsStay, ShownIsKnown, shown' = shown,
         unlisted' \cap DOMAIN stations \subseteq unlisted
  PROVE  ShownIsKnown'
BY KnownGrows DEF ShownIsKnown

(* A list that is not touched, with keys and rows that are not.            *)
LEMMA HoldsStays ==
  ASSUME NEW table \in Table, NEW keys, ListHolds(table, keys),
         data'[table] = data[table],
         \A key \in keys : Row(table, key)' = Row(table, key)
  PROVE  ListHolds(table, keys)'
BY DEF ListHolds, RowsOf

LEMMA ListedStays ==
  ASSUME NEW table \in Table, Listed(table), TypeOK,
         data'[table] = data[table], Keys(table)' = Keys(table),
         Unlisted(table)' = Unlisted(table),
         \A t \in Thread : Walking(t, table)' <=> Walking(t, table),
         \A t \in Thread :
           Walking(t, table) => walked'[t] = walked[t] /\ pending'[t] = pending[t],
         \A key \in Keys(table) : Row(table, key)' = Row(table, key)
  PROVE  Listed(table)'
<1>1. ASSUME NEW t \in Thread, Walking(t, table)'
      PROVE  /\ ListHolds(table, walked[t])'
             /\ walked'[t] \cup pending'[t] = Keys(table)'
             /\ Unlisted(table)' = {}
  <2>1. /\ ListHolds(table, walked[t]) /\ walked[t] \cup pending[t] = Keys(table)
        /\ Unlisted(table) = {}
        /\ walked'[t] = walked[t] /\ pending'[t] = pending[t]
    BY <1>1 DEF Listed
  <2>2. \A key \in walked[t] : Row(table, key)' = Row(table, key)
    BY <2>1
  <2> QED
    BY <2>1, <2>2 DEF ListHolds, RowsOf
<1>2. ASSUME \A t \in Thread : ~Walking(t, table)'
      PROVE  ListHolds(table, Keys(table) \ Unlisted(table))'
  <2>1. ListHolds(table, Keys(table) \ Unlisted(table))
    BY <1>2 DEF Listed
  <2> QED
    BY <2>1 DEF ListHolds, RowsOf
<1> QED
  BY <1>1, <1>2 DEF Listed

(* Nothing of a list, of a page or of an update changes. *)
LEMMA Frame ==
  ASSUME Base, Good, stations' = stations, obsfiles' = obsfiles,
         data' = data, shown' = shown, unlisted' = unlisted,
         pages' \subseteq pages \cup {"baseline"}, ToSet(queue) \subseteq ToSet(queue'),
         \A t \in Thread : walked'[t] = walked[t] /\ pending'[t] = pending[t],
         \A table \in Table, t \in Thread : Walking(t, table)' <=> Walking(t, table),
         \A table \in Table, t \in Thread : InBody(t, table)' <=> InBody(t, table),
         \A table \in Table : WillRebuild(table)' <=> WillRebuild(table)
  PROVE  Good'
<1>1. TypeOK /\ RegistryTypeOK
  BY DEF Base, Typed, TypeOK
<1>2. Apart'
  BY DEF Good, Apart
<1>3. ListsAreKept'
  <2> SUFFICES ASSUME NEW table \in Table, ~WillRebuild(table) PROVE Listed(table)'
    BY DEF ListsAreKept
  <2>1. Listed(table)
    BY DEF Good, ListsAreKept
  <2>2. /\ Keys(table)' = Keys(table) /\ Unlisted(table)' = Unlisted(table)
        /\ \A key \in Keys(table) : Row(table, key)' = Row(table, key)
    BY DEF Keys, Unlisted, Row, GetStation
  <2> QED
    BY <1>1, <2>1, <2>2, ListedStays
<1>4. ShownIsKnown'
  BY <1>1, ShownStays DEF Good, RecordsStay
<1>5. ShownIsCurrent'
  BY Names DEF Good, ShownIsCurrent, ShowsOrWill, Success
<1> QED
  BY <1>2, <1>3, <1>4, <1>5 DEF Good

(* The GUI thread, between two updates, is going to rebuild a list. *)
LEMMA GuiBegins ==
  ASSUME Base, Good, NEW table \in Table, WillRebuild(table)',
         \A other \in Table \ {table} : ~WillRebuild(other) /\ Listed(other)',
         RecordsStay, data' = data, shown' = shown, queue' = queue,
         unlisted' \cap DOMAIN stations \subseteq unlisted,
         pages' \subseteq pages \cup {table},
         \A other \in Table, t \in Thread : InBody(t, other)' <=> InBody(t, other)
  PROVE  Good'
<1>1. TypeOK /\ RegistryTypeOK
  BY DEF Base, Typed, TypeOK
<1>2. Apart'
  BY DEF Good, Apart
<1>3. ListsAreKept'
  BY DEF ListsAreKept
<1>4. ShownIsKnown'
  BY <1>1, ShownStays DEF Good
<1>5. ShownIsCurrent'
  BY Names DEF Good, ShownIsCurrent, ShowsOrWill, Success
<1> QED
  BY <1>2, <1>3, <1>4, <1>5 DEF Good

(* The GUI thread in its event loop rebuilds nothing and walks nothing.    *)
LEMMA GuiWaits ==
  ASSUME Base, Idle(Gui)
  PROVE  /\ step[Gui] = "start" /\ updating[Gui] = None
         /\ \A table \in Table : ~InBody(Gui, table) /\ ~Walking(Gui, table)
         /\ ~WillRebuild("station")
         /\ adding = None => ~WillRebuild("obsfile")
BY Names DEF Base, Threads, Idle, InBody, Walking, WillRebuild

LEMMA Begins ==
  ASSUME Base, Idle(Gui), NEW table \in Table,
         updating' = [updating EXCEPT ![Gui] = table], step' = step
  PROVE  /\ WillRebuild(table)'
         /\ \A other \in Table, t \in Thread : /\ InBody(t, other)' <=> InBody(t, other)
                                               /\ Walking(t, other)' <=> Walking(t, other)
<1>1. step[Gui] = "start" /\ updating[Gui] = None
  BY GuiWaits
<1>2. updating'[Gui] = table /\ \A t \in Thread : t # Gui => updating'[t] = updating[t]
  BY Names DEF Base, Typed, TypeOK
<1> QED
  BY <1>1, <1>2 DEF WillRebuild, InBody, Walking

(* A list that is not about to be rebuilt stays, when what changes in the  *)
(* registry is of the other table, or not walked.                          *)
LEMMA OtherListed ==
  ASSUME Base, Good, RecordsStay, adding = None, NEW table \in Table, ~WillRebuild(table),
         data' = data, Keys(table)' = Keys(table), unlisted' = unlisted,
         \A t \in Thread : walked'[t] = walked[t] /\ pending'[t] = pending[t],
         \A t \in Thread : Walking(t, table)' <=> Walking(t, table)
  PROVE  Listed(table)'
<1>1. TypeOK /\ RegistryTypeOK /\ Listed(table)
  BY DEF Base, Typed, TypeOK, Good, ListsAreKept
<1>2. \A key \in Keys(table) : table = "obsfile" => obsfiles[key] \in DOMAIN stations
  BY Names DEF Base, Settled, Keys
<1>3. \A key \in Keys(table) : Row(table, key)' = Row(table, key)
  BY <1>1, <1>2, RowsStay
<1>4. Unlisted(table)' = Unlisted(table)
  BY DEF Unlisted
<1> QED
  BY <1>1, <1>3, <1>4, ListedStays

LEMMA CreateTablePageIsGood ==
  ASSUME Base, Good, NEW table \in Table, CreateTablePage(table)
  PROVE  Good'
<1>1. /\ Idle(Gui) /\ adding = None
      /\ updating' = [updating EXCEPT ![Gui] = table] /\ step' = step
      /\ pages' = pages \cup {table}
      /\ UNCHANGED <<stations, obsfiles, data, walked, pending, queue, shown, unlisted>>
  BY DEF CreateTablePage, GuiIdle, registryVars
<1>2. RecordsStay /\ \A other \in Table : Keys(other)' = Keys(other)
  BY <1>1 DEF RecordsStay, Keys
<1>3. \A other \in Table : ~WillRebuild(other)
  BY <1>1, GuiWaits, Names
<1>4. /\ WillRebuild(table)'
      /\ \A other \in Table, t \in Thread : /\ InBody(t, other)' <=> InBody(t, other)
                                            /\ Walking(t, other)' <=> Walking(t, other)
  BY <1>1, Begins
<1>5. \A other \in Table : Listed(other)'
  BY <1>1, <1>2, <1>3, <1>4, OtherListed
<1> QED
  BY <1>1, <1>2, <1>3, <1>4, <1>5, GuiBegins

LEMMA RefusalIsGood ==
  ASSUME Base, Good, NEW f, NavPostRefusesObsFile(f)
  PROVE  Good'
<1>1. /\ Idle(Gui) /\ adding = None
      /\ updating' = [updating EXCEPT ![Gui] = "obsfile"] /\ step' = step
      /\ UNCHANGED <<stations, obsfiles, data, walked, pending, queue, shown, pages, unlisted>>
  BY DEF NavPostRefusesObsFile, RefuseObsFile, GuiIdle, registryVars, pageVars
<1>2. RecordsStay /\ \A other \in Table : Keys(other)' = Keys(other)
  BY <1>1 DEF RecordsStay, Keys
<1>3. \A other \in Table : ~WillRebuild(other)
  BY <1>1, GuiWaits, Names
<1>4. /\ WillRebuild("obsfile")'
      /\ \A other \in Table, t \in Thread : /\ InBody(t, other)' <=> InBody(t, other)
                                            /\ Walking(t, other)' <=> Walking(t, other)
  BY <1>1, Begins, Names
<1>5. \A other \in Table : Listed(other)'
  BY <1>1, <1>2, <1>3, <1>4, OtherListed
<1> QED
  BY <1>1, <1>2, <1>3, <1>4, <1>5, GuiBegins, Names

LEMMA AddStationIsGood ==
  ASSUME Base, Good, ~raced', NEW u \in StationUid, NEW n \in StationName,
         NavPostAddStation(u, n)
  PROVE  Good'
<1>1. /\ Idle(Gui) /\ adding = None
      /\ updating' = [updating EXCEPT ![Gui] = "station"] /\ step' = step
      /\ UNCHANGED <<obsfiles, data, queue, shown, pages, unlisted>>
  BY DEF NavPostAddStation, AddStation, GuiIdle, pageVars
<1>2. TypeOK /\ Shape /\ RegistryTypeOK
  BY DEF Base, Typed, TypeOK
<1>3. RecordsStay /\ Keys("obsfile")' = Keys("obsfile")
  BY <1>1, <1>2, StationFacts DEF NavPostAddStation, RecordsStay, Keys
<1>4. \A t \in Thread : walked'[t] = walked[t] /\ pending'[t] = pending[t]
  BY <1>2, DisturbFacts DEF NavPostAddStation
<1>5. \A other \in Table : ~WillRebuild(other)
  BY <1>1, GuiWaits, Names
<1>6. /\ WillRebuild("station")'
      /\ \A other \in Table, t \in Thread : /\ InBody(t, other)' <=> InBody(t, other)
                                            /\ Walking(t, other)' <=> Walking(t, other)
  BY <1>1, Begins, Names
<1>7. Listed("obsfile")'
  BY <1>1, <1>3, <1>4, <1>5, <1>6, OtherListed, Names
<1> QED
  BY <1>1, <1>3, <1>5, <1>6, <1>7, GuiBegins, Names

LEMMA InsertObsFileIsGood ==
  ASSUME Base, Good, ~raced', NEW f \in ObsFileUid, NEW u \in StationUid, NEW n \in StationName,
         InsertObsFile(f, u, n)
  PROVE  Good'
<1>1. /\ Idle(Gui) /\ adding = None /\ adding' # None
      /\ UNCHANGED <<stations, updating, step, data, queue, shown, pages, unlisted>>
  BY NoneAssumption DEF InsertObsFile, GuiIdle, pageVars
<1>2. TypeOK /\ Shape /\ RegistryTypeOK
  BY DEF Base, Typed, TypeOK
<1>3. RecordsStay /\ Keys("station")' = Keys("station")
  BY <1>1, <1>2, FileFacts DEF InsertObsFile, RecordsStay, Keys
<1>4. \A t \in Thread : walked'[t] = walked[t] /\ pending'[t] = pending[t]
  BY <1>2, DisturbFacts DEF InsertObsFile
<1>5. \A other \in Table : ~WillRebuild(other)
  BY <1>1, GuiWaits, Names
<1>6. /\ WillRebuild("obsfile")'
      /\ \A other \in Table, t \in Thread : /\ InBody(t, other)' <=> InBody(t, other)
                                            /\ Walking(t, other)' <=> Walking(t, other)
  BY <1>1 DEF WillRebuild, InBody, Walking
<1>7. Listed("station")'
  BY <1>1, <1>3, <1>4, <1>5, <1>6, OtherListed, Names
<1> QED
  BY <1>1, <1>3, <1>5, <1>6, <1>7, GuiBegins, Names

(* The list of stations is not updated: the new one is not in it.          *)
LEMMA InsertItsStationIsGood ==
  ASSUME Base, Good, ~raced', InsertItsStation
  PROVE  Good'
<1>1. /\ Idle(Gui) /\ adding # None
      /\ updating' = [updating EXCEPT ![Gui] = "obsfile"] /\ step' = step
      /\ UNCHANGED <<obsfiles, data, queue, shown, pages>>
      /\ unlisted' = unlisted \cup ({adding.uid} \ DOMAIN stations)
  BY DEF InsertItsStation, AddStation, Base, Threads, pageVars
<1>2. TypeOK /\ Shape /\ RegistryTypeOK /\ adding.uid \in StationUid /\ adding.name \in StationName
  BY <1>1, ComingFacts DEF Base, Typed, TypeOK
<1>3. /\ DOMAIN stations' = DOMAIN stations \cup {adding.uid}
      /\ adding.uid \in DOMAIN stations => stations' = stations
  BY <1>2, StationFacts DEF InsertItsStation
<1>4. RecordsStay
  BY <1>1, <1>2, StationFacts DEF InsertItsStation, RecordsStay
<1>5. /\ \A t \in Thread : walked'[t] = walked[t] /\ pending'[t] = pending[t]
      /\ adding.uid \notin DOMAIN stations => \A t \in Task : step[t] # "walk"
  BY <1>2, DisturbFacts DEF InsertItsStation
<1>6. ~WillRebuild("station")
  BY <1>1, GuiWaits
<1>7. /\ WillRebuild("obsfile")'
      /\ \A other \in Table, t \in Thread : /\ InBody(t, other)' <=> InBody(t, other)
                                            /\ Walking(t, other)' <=> Walking(t, other)
  BY <1>1, Begins, Names
<1>8. Listed("station")
  BY <1>6, Names DEF Good, ListsAreKept
<1>9. \A key \in DOMAIN stations : Row("station", key)' = Row("station", key)
  BY <1>4 DEF RecordsStay, Row
<1>10. Listed("station")'
  <2>1. CASE adding.uid \in DOMAIN stations
    <3>1. /\ Keys("station")' = Keys("station")
          /\ Unlisted("station")' = Unlisted("station")
          /\ \A key \in Keys("station") : Row("station", key)' = Row("station", key)
      BY <1>1, <1>3, <1>9, <2>1 DEF Keys, Unlisted
    <3> QED
      BY <1>1, <1>2, <1>5, <1>7, <1>8, <3>1, ListedStays, Names
  <2>2. CASE adding.uid \notin DOMAIN stations
    <3>1. \A t \in Thread : ~Walking(t, "station") /\ ~Walking(t, "station")'
      BY <1>1, <1>5, <1>7, <2>2, GuiWaits, Names DEF Walking
    <3>2. ListHolds("station", DOMAIN stations \ unlisted)
      BY <1>8, <3>1 DEF Listed, Keys, Unlisted
    <3>3. DOMAIN stations' \ unlisted' = DOMAIN stations \ unlisted
      BY <1>1, <1>3, <2>2
    <3>4. ToSet(data'["station"]) = {Row("station", key)' : key \in DOMAIN stations' \ unlisted'}
          /\ IsInjective(data'["station"])
      BY <1>1, <1>9, <3>2, <3>3 DEF ListHolds, RowsOf
    <3>5. ListHolds("station", Keys("station") \ Unlisted("station"))'
      BY <3>4 DEF ListHolds, RowsOf, Keys, Unlisted
    <3> QED
      BY <3>1, <3>5 DEF Listed
  <2> QED
    BY <2>1, <2>2
<1>11. unlisted' \cap DOMAIN stations \subseteq unlisted
  BY <1>1
<1> QED
  BY <1>1, <1>4, <1>6, <1>7, <1>10, <1>11, GuiBegins, Names

(* A Start, and what a task emits, changes no page at once. *)
LEMMA QuietSignal ==
  ASSUME TypeOK, NEW t \in Thread, NEW signal \in Signal, Emit(t, signal),
         signal.kind = "Start" \/ t # Gui
  PROVE  shown' = shown /\ ToSet(queue) \subseteq ToSet(queue')
<1>1. shown' = shown
  BY DEF Emit, Handle
<1>2. queue \in Seq(Signal) /\ (queue' = queue \/ queue' = Append(queue, signal))
  BY DEF TypeOK, Emit
<1>3. ToSet(queue) \subseteq ToSet(Append(queue, signal))
  BY <1>2, Appended
<1> QED
  BY <1>1, <1>2, <1>3

LEMMA EmitStartIsGood ==
  ASSUME Base, Good, NEW t \in Thread, EmitStart(t)
  PROVE  Good'
<1>1. TypeOK /\ updating[t] \in Page
  BY BusyFacts DEF Base, Typed, EmitStart
<1>2. shown' = shown /\ ToSet(queue) \subseteq ToSet(queue')
  BY <1>1, QuietSignal DEF EmitStart, Signal
<1>3. /\ UNCHANGED <<stations, obsfiles, data, updating, walked, pending, pages, unlisted, adding>>
      /\ step[t] = "start" /\ step' = [step EXCEPT ![t] = "clear"]
  BY DEF EmitStart, registryVars
<1>4. step'[t] = "clear" /\ \A o \in Thread : o # t => step'[o] = step[o]
  BY <1>1, <1>3 DEF TypeOK
<1>5. \A table \in Table :
        /\ \A o \in Thread : Walking(o, table)' <=> Walking(o, table)
        /\ \A o \in Thread : InBody(o, table)' <=> InBody(o, table)
        /\ WillRebuild(table)' <=> WillRebuild(table)
  BY <1>3, <1>4, Names DEF Walking, InBody, WillRebuild
<1> QED
  BY <1>2, <1>3, <1>5, Frame

LEMMA TaskIsGood ==
  ASSUME Base, Good, NEW t \in Task, StartTask(t) \/ EndTask(t)
  PROVE  Good'
<1>1. TypeOK /\ t \in Thread /\ t # Gui
  BY Names DEF Base, Typed
<1>2. shown' = shown /\ ToSet(queue) \subseteq ToSet(queue')
  <2>1. \A kind \in {"Start", "Success"} : [page |-> "baseline", kind |-> kind] \in Signal
    BY Names DEF Signal
  <2> QED
    BY <1>1, <2>1, QuietSignal DEF StartTask, EndTask
<1>3. /\ UNCHANGED <<stations, obsfiles, data, step, walked, pending, pages, unlisted, adding>>
      /\ updating' = updating \/ updating' = [updating EXCEPT ![t] = "station"]
      /\ Idle(t)
  BY DEF StartTask, EndTask, Base, Threads, registryVars, walkVars
<1>4. step[t] = "start" /\ \A o \in Thread : o # t => updating'[o] = updating[o]
  BY <1>1, <1>3 DEF TypeOK, Base, Threads
<1>5. \A table \in Table :
        /\ \A o \in Thread : Walking(o, table)' <=> Walking(o, table)
        /\ \A o \in Thread : InBody(o, table)' <=> InBody(o, table)
        /\ WillRebuild(table)' <=> WillRebuild(table)
  BY <1>1, <1>3, <1>4, Names DEF Walking, InBody, WillRebuild
<1> QED
  BY <1>2, <1>3, <1>5, Frame

LEMMA CreateBaselinePageIsGood ==
  ASSUME Base, Good, CreateBaselinePage
  PROVE  Good'
BY Frame DEF CreateBaselinePage, registryVars, walkVars, Walking, InBody, WillRebuild

LEMMA StutterIsGood ==
  ASSUME Base, Good, UNCHANGED vars
  PROVE  Good'
BY Frame DEF vars, registryVars, walkVars, pageVars, Walking, InBody, WillRebuild

(* A step of an update of a list: the other list, and what the pages show, *)
(* stay as they are.                                                       *)
LEMMA UpdateIsGood ==
  ASSUME Base, Good, NEW t \in Thread, InBody(t, updating[t])', updating[t] \in Table,
         UNCHANGED <<stations, obsfiles, updating, adding, queue, pages, shown>>,
         \A o \in Thread : o # t => /\ step'[o] = step[o]
                                    /\ walked'[o] = walked[o] /\ pending'[o] = pending[o],
         \A table \in Table \ {updating[t]} :
           data'[table] = data[table] /\ Unlisted(table)' = Unlisted(table),
         unlisted' \subseteq unlisted,
         \A o \in Thread \ {t} : ~InBody(o, updating[t]),
         WillRebuild(updating[t])' \/ Listed(updating[t])'
  PROVE  Good'
<1>1. TypeOK /\ RegistryTypeOK
  BY DEF Base, Typed, TypeOK
<1>2. Apart'
  BY DEF Good, Apart, InBody
<1>3. ASSUME NEW table \in Table \ {updating[t]}
      PROVE  /\ WillRebuild(table)' <=> WillRebuild(table)
             /\ \A o \in Thread : Walking(o, table)' <=> Walking(o, table)
             /\ \A o \in Thread : InBody(o, table)' <=> InBody(o, table)
  BY <1>3, Names DEF WillRebuild, Walking, InBody
<1>4. ListsAreKept'
  <2> SUFFICES ASSUME NEW table \in Table \ {updating[t]}, ~WillRebuild(table)
               PROVE  Listed(table)'
    BY <1>3 DEF ListsAreKept
  <2>1. Listed(table)
    BY DEF Good, ListsAreKept
  <2>2. \A key \in Keys(table) : Row(table, key)' = Row(table, key)
    BY DEF Row, GetStation
  <2>3. /\ Keys(table)' = Keys(table) /\ Unlisted(table)' = Unlisted(table)
        /\ data'[table] = data[table]
    BY DEF Keys
  <2>4. \A o \in Thread : Walking(o, table) => walked'[o] = walked[o] /\ pending'[o] = pending[o]
    BY DEF Walking
  <2> QED
    BY <1>1, <1>3, <2>1, <2>2, <2>3, <2>4, ListedStays
<1>5. ShownIsKnown'
  <2>1. RecordsStay
    BY DEF RecordsStay
  <2> QED
    BY <1>1, <2>1, ShownStays DEF Good
<1>6. ShownIsCurrent'
  BY <1>3 DEF Good, ShownIsCurrent, ShowsOrWill, Success
<1> QED
  BY <1>2, <1>4, <1>5, <1>6 DEF Good

LEMMA ClearIsGood ==
  ASSUME Base, Good, ~raced', NEW t \in Thread, Clear(t)
  PROVE  Good'
<1>1. TypeOK /\ Shape /\ updating[t] \in Table
  BY BusyFacts DEF Base, Typed, Clear
<1> DEFINE table == updating[t]
<1>2. /\ UNCHANGED <<stations, obsfiles, updating, adding, queue, pages, shown>>
      /\ step' = [step EXCEPT ![t] = "walk"]
      /\ walked' = [walked EXCEPT ![t] = {}] /\ pending' = [pending EXCEPT ![t] = Keys(table)]
      /\ data' = [data EXCEPT ![table] = <<>>]
      /\ unlisted' = IF table = "station" THEN {} ELSE unlisted
  BY DEF Clear, registryVars, pageVars
<1>3. \A o \in Thread \ {t} : ~InBody(o, table)
  BY DEF Clear, Others
<1>4. /\ step'[t] = "walk" /\ walked'[t] = {} /\ pending'[t] = Keys(table)
      /\ \A o \in Thread : o # t => /\ step'[o] = step[o]
                                    /\ walked'[o] = walked[o] /\ pending'[o] = pending[o]
  BY <1>1, <1>2 DEF TypeOK, Shape
<1>5. /\ data'[table] = <<>>
      /\ \A other \in Table \ {table} :
           data'[other] = data[other] /\ Unlisted(other)' = Unlisted(other)
  BY <1>1, <1>2, Names DEF Shape, Unlisted
<1>6. InBody(t, table)'
  BY <1>2, <1>4 DEF InBody
<1>7. Listed(table)'
  <2>1. \A o \in Thread : (updating'[o] = updating[t] /\ step'[o] = "walk") <=> o = t
    BY <1>2, <1>3, <1>4 DEF InBody
  <2>2. Unlisted(table)' = {} /\ Keys(table)' = Keys(table)
    BY <1>2 DEF Unlisted, Keys
  <2>3. ToSet(data'[table]) = {} /\ IsInjective(data'[table])
    BY <1>5 DEF ToSet, IsInjective
  <2> QED
    BY <1>2, <1>4, <2>1, <2>2, <2>3 DEF Listed, Walking, ListHolds, RowsOf
<1> QED
  BY <1>1, <1>2, <1>3, <1>4, <1>5, <1>6, <1>7, UpdateIsGood

(* An update that has begun is over its list alone, and it is not the one  *)
(* the GUI thread is going to make.                                        *)
LEMMA InBodyFacts ==
  ASSUME Base, Good, NEW t \in Thread, ~Idle(t), step[t] \in {"walk", "success"}
  PROVE  /\ updating[t] \in Table /\ InBody(t, updating[t])
         /\ \A o \in Thread \ {t} : ~InBody(o, updating[t])
BY BusyFacts DEF Base, Typed, Good, Apart, InBody

LEMMA AppendRowIsGood ==
  ASSUME Base, Good, NEW t \in Thread, AppendRow(t)
  PROVE  Good'
<1>1. TypeOK /\ Shape /\ RegistryTypeOK
  BY DEF Base, Typed, TypeOK
<1> DEFINE table == updating[t]
<1>2. table \in Table /\ InBody(t, table) /\ \A o \in Thread \ {t} : ~InBody(o, table)
  BY InBodyFacts DEF AppendRow
<1>3. PICK key \in Keys(table) \ walked[t] :
        /\ data' = [data EXCEPT ![table] = Append(@, Row(table, key))]
        /\ walked' = [walked EXCEPT ![t] = @ \cup {key}]
        /\ pending' = [pending EXCEPT ![t] = @ \ {key}]
  BY DEF AppendRow
<1>4. /\ UNCHANGED <<stations, obsfiles, updating, step, adding, queue, pages, shown, unlisted>>
      /\ step[t] = "walk"
  BY DEF AppendRow, registryVars, pageVars
<1>5. /\ walked'[t] = walked[t] \cup {key} /\ pending'[t] = pending[t] \ {key}
      /\ \A o \in Thread : o # t => walked'[o] = walked[o] /\ pending'[o] = pending[o]
  BY <1>1, <1>3 DEF Shape
<1>6. /\ data'[table] = Append(data[table], Row(table, key))
      /\ \A other \in Table \ {table} :
           data'[other] = data[other] /\ Unlisted(other)' = Unlisted(other)
  BY <1>1, <1>2, <1>3, <1>4 DEF Shape, Unlisted
<1>7. WillRebuild(table)' <=> WillRebuild(table)
  BY <1>4 DEF WillRebuild
<1>8. InBody(t, table)'
  BY <1>2, <1>4 DEF InBody
<1>9. ASSUME Listed(table) PROVE Listed(table)'
  <2>1. /\ ToSet(data[table]) = RowsOf(table, walked[t]) /\ IsInjective(data[table])
        /\ walked[t] \cup pending[t] = Keys(table) /\ Unlisted(table) = {}
    BY <1>4, <1>9 DEF Listed, Walking, ListHolds
  <2>2. \A other \in walked[t] : other \in Keys(table) /\ Row(table, other)[1] = other
    BY <1>1, <1>2, <2>1, RowFacts
  <2>3. Row(table, key)[1] = key /\ Row(table, key) \in RowsOver(table)
    BY <1>1, <1>2, <1>3, RowFacts
  <2>4. Row(table, key) \notin ToSet(data[table])
    BY <1>3, <2>1, <2>2, <2>3 DEF RowsOf
  <2>5. data[table] \in Seq(RowsOver(table))
    BY <1>1, <1>2 DEF TypeOK
  <2>6. /\ ToSet(data'[table]) = ToSet(data[table]) \cup {Row(table, key)}
        /\ IsInjective(data'[table])
    BY <1>6, <2>1, <2>3, <2>4, <2>5, Appended
  <2>7. ToSet(data'[table]) = {Row(table, other) : other \in walked'[t]}
    BY <1>5, <2>1, <2>6 DEF RowsOf
  <2>8. \A other : Row(table, other)' = Row(table, other)
    BY <1>4 DEF Row, GetStation
  <2>9. ListHolds(table, walked[t])'
    BY <1>4, <2>6, <2>7, <2>8 DEF ListHolds, RowsOf
  <2>10. walked'[t] \cup pending'[t] = Keys(table)' /\ Unlisted(table)' = {}
    BY <1>3, <1>4, <1>5, <2>1 DEF Keys, Unlisted
  <2>11. \A o \in Thread : (updating'[o] = updating[t] /\ step'[o] = "walk") <=> o = t
    BY <1>2, <1>4 DEF InBody
  <2> QED
    BY <1>4, <2>9, <2>10, <2>11 DEF Listed, Walking
<1>10. WillRebuild(table)' \/ Listed(table)'
  BY <1>2, <1>7, <1>9 DEF Good, ListsAreKept
<1> QED
  BY <1>2, <1>4, <1>5, <1>6, <1>8, <1>10, UpdateIsGood

LEMMA EndWalkIsGood ==
  ASSUME Base, Good, NEW t \in Thread, EndWalk(t)
  PROVE  Good'
<1>1. TypeOK
  BY DEF Base, Typed
<1> DEFINE table == updating[t]
<1>2. table \in Table /\ InBody(t, table) /\ \A o \in Thread \ {t} : ~InBody(o, table)
  BY InBodyFacts DEF EndWalk
<1>3. /\ UNCHANGED <<stations, obsfiles, data, updating, walked, pending, adding>>
      /\ UNCHANGED <<queue, pages, shown, unlisted>>
      /\ step[t] = "walk" /\ pending[t] = {}
      /\ step' = [step EXCEPT ![t] = "success"]
  BY DEF EndWalk, registryVars, pageVars
<1>4. step'[t] = "success" /\ \A o \in Thread : o # t => step'[o] = step[o]
  BY <1>1, <1>3 DEF TypeOK
<1>5. WillRebuild(table)' <=> WillRebuild(table)
  BY <1>3, <1>4, Names DEF WillRebuild
<1>6. InBody(t, table)'
  BY <1>3, <1>4 DEF InBody
<1>7. ASSUME Listed(table) PROVE Listed(table)'
  <2>1. ListHolds(table, walked[t]) /\ walked[t] = Keys(table) /\ Unlisted(table) = {}
    BY <1>3, <1>7 DEF Listed, Walking
  <2>2. ListHolds(table, Keys(table) \ Unlisted(table))'
    <3>1. /\ ToSet(data[table]) = {Row(table, key) : key \in Keys(table)}
          /\ IsInjective(data[table])
      BY <2>1 DEF ListHolds, RowsOf
    <3>2. \A other : Row(table, other)' = Row(table, other)
      BY <1>3 DEF Row, GetStation
    <3>3. Keys(table)' = Keys(table) /\ Unlisted(table)' = {}
      BY <1>3, <2>1 DEF Keys, Unlisted
    <3> QED
      BY <1>3, <3>1, <3>2, <3>3 DEF ListHolds, RowsOf
  <2>3. \A o \in Thread : ~(updating'[o] = updating[t] /\ step'[o] = "walk")
    BY <1>2, <1>3, <1>4 DEF InBody
  <2> QED
    BY <1>3, <2>2, <2>3 DEF Listed, Walking
<1>8. WillRebuild(table)' \/ Listed(table)'
  BY <1>2, <1>5, <1>7 DEF Good, ListsAreKept
<1>9. \A other \in Table \ {table} :
        data'[other] = data[other] /\ Unlisted(other)' = Unlisted(other)
  BY <1>3 DEF Unlisted
<1> QED
  BY <1>2, <1>3, <1>4, <1>6, <1>8, <1>9, UpdateIsGood

(* A list that nobody is about to rebuild and nobody walks, once the       *)
(* station of every file is known, lists what is known.                    *)
LEMMA AtRest ==
  ASSUME Base, Good, NEW table \in Table, adding = None, ~WillRebuild(table),
         \A t \in Thread : ~Walking(t, table)
  PROVE  /\ ToSet(data[table]) = RowsOf(table, Known(table))
         /\ IsInjective(data[table])
<1>1. ListHolds(table, Keys(table) \ Unlisted(table))
  BY DEF Good, ListsAreKept, Listed
<1>2. Known(table) = Keys(table) \ Unlisted(table)
  BY Names DEF Base, Settled, Known, Keys, Unlisted
<1> QED
  BY <1>1, <1>2 DEF ListHolds

(* What a step makes a page show is what it has shown, or all the rows     *)
(* that are known.                                                         *)
Takes ==
  \A table \in Table :
    shown'[table] = shown[table] \/ ToSet(shown'[table]) = RowsOf(table, Known(table))

(* A page takes its list over when it is at rest.                          *)
LEMMA TakenIsGood ==
  ASSUME Base, Good,
         UNCHANGED <<stations, obsfiles, data, walked, pending, adding, pages, unlisted>>,
         \A table \in Table, t \in Thread : Walking(t, table)' <=> Walking(t, table),
         \A table \in Table : WillRebuild(table)' <=> WillRebuild(table),
         \A table \in Table, t \in Thread : InBody(t, table)' => InBody(t, table),
         \A table \in Table :
           \/ /\ shown'[table] = data[table] /\ adding = None /\ ~WillRebuild(table)
              /\ \A t \in Thread : ~Walking(t, table)
           \/ /\ shown'[table] = shown[table]
              /\ table \in pages /\ Success(table) \in ToSet(queue) =>
                   Success(table) \in ToSet(queue')
              /\ table \in pages /\ (\E t \in Thread : InBody(t, table)) =>
                   \/ \E t \in Thread : InBody(t, table)'
                   \/ Success(table) \in ToSet(queue')
  PROVE  Good' /\ Takes
<1>1. TypeOK /\ RegistryTypeOK
  BY DEF Base, Typed, TypeOK
<1>2. Apart'
  BY DEF Good, Apart
<1>3. /\ \A table \in Table : /\ Keys(table)' = Keys(table) /\ Known(table)' = Known(table)
                              /\ Unlisted(table)' = Unlisted(table)
      /\ \A table \in Table : \A key : Row(table, key)' = Row(table, key)
  BY DEF Keys, Known, Unlisted, Row, GetStation
<1>4. ListsAreKept'
  <2> SUFFICES ASSUME NEW table \in Table, ~WillRebuild(table) PROVE Listed(table)'
    BY DEF ListsAreKept
  <2>1. Listed(table)
    BY DEF Good, ListsAreKept
  <2> QED
    BY <1>1, <1>3, <2>1, ListedStays
<1>5. Takes
  BY AtRest DEF Takes
<1>6. ShownIsKnown'
  <2> SUFFICES ASSUME NEW table \in Table
               PROVE  ToSet(shown'[table]) \subseteq RowsOf(table, Known(table))'
    BY DEF ShownIsKnown
  <2>1. RowsOf(table, Known(table))' = RowsOf(table, Known(table))
    BY <1>3 DEF RowsOf
  <2>2. ToSet(shown[table]) \subseteq RowsOf(table, Known(table))
    BY DEF Good, ShownIsKnown
  <2> QED
    BY <1>5, <2>1, <2>2 DEF Takes
<1>7. ShownIsCurrent'
  <2> SUFFICES ASSUME NEW table \in Table \cap pages PROVE ShowsOrWill(table)'
    BY DEF ShownIsCurrent
  <2>1. ShowsOrWill(table)
    BY DEF Good, ShownIsCurrent
  <2> QED
    BY <2>1 DEF ShowsOrWill, Success
<1> QED
  BY <1>2, <1>4, <1>5, <1>6, <1>7 DEF Good

LEMMA EmitSuccessIsGood ==
  ASSUME Base, Good, NEW t \in Thread, EmitSuccess(t)
  PROVE  Good' /\ Takes
<1>1. TypeOK /\ Shape /\ Threads
  BY DEF Base, Typed
<1> DEFINE table == updating[t]
<1>2. table \in Table /\ InBody(t, table) /\ \A o \in Thread \ {t} : ~InBody(o, table)
  BY InBodyFacts DEF EmitSuccess
<1>3. /\ UNCHANGED <<stations, obsfiles, data, walked, pending, adding, pages, unlisted>>
      /\ step[t] = "success" /\ step' = [step EXCEPT ![t] = "start"]
      /\ updating' = [updating EXCEPT ![t] =
                        IF t # Gui /\ @ = "station" THEN "obsfile" ELSE None]
      /\ Emit(t, Success(table))
  BY DEF EmitSuccess, Success, registryVars
<1>4. /\ step'[t] = "start"
      /\ updating'[t] = IF t # Gui /\ table = "station" THEN "obsfile" ELSE None
      /\ \A o \in Thread : o # t => step'[o] = step[o] /\ updating'[o] = updating[o]
  BY <1>1, <1>3 DEF TypeOK
<1>5. \A other \in Table, o \in Thread :
        /\ Walking(o, other)' <=> Walking(o, other)
        /\ InBody(o, other)' <=> InBody(o, other) /\ o # t
  BY <1>3, <1>4 DEF Walking, InBody
<1>6. \A other \in Table \ {table} : ~InBody(t, other)
  BY DEF InBody
<1>7. \A o \in Thread : ~Walking(o, table)
  BY <1>2, <1>3 DEF Walking, InBody
<1>8. Success(table) \in Signal
  BY <1>2, Names DEF Success, Signal
<1>9. CASE t = Gui
  <2>1. adding = None /\ Handle(Success(table)) /\ queue' = queue
    BY <1>1, <1>2, <1>3, <1>9 DEF Threads, Emit, EmitSuccess
  <2>2. \A other \in Table : ~WillRebuild(other) /\ ~WillRebuild(other)'
    BY <1>3, <1>4, <1>9, <2>1, Names DEF WillRebuild
  <2>3. \A page \in Page : shown'[page] = IF page = table /\ page \in pages
                                          THEN Listing(page) ELSE shown[page]
    BY <1>1, <1>8, <2>1, HandleFacts DEF Success
  <2>4. table \in pages => shown'[table] = data[table]
    BY <1>2, <2>3, Names DEF Listing
  <2>5. table \notin pages => shown'[table] = shown[table]
    BY <1>2, <2>3, Names
  <2>6. ASSUME NEW other \in Table \ {table}
        PROVE  /\ shown'[other] = shown[other]
               /\ (\E o \in Thread : InBody(o, other)) => \E o \in Thread : InBody(o, other)'
    BY <1>5, <1>6, <2>3, Names
  <2> HIDE DEF table
  <2> QED
    BY <1>3, <1>5, <1>7, <2>1, <2>2, <2>4, <2>5, <2>6, TakenIsGood DEF Success
<1>10. CASE t # Gui
  <2>1. queue' = Append(queue, Success(table)) /\ shown' = shown
    BY <1>3, <1>10 DEF Emit
  <2>2. ToSet(queue') = ToSet(queue) \cup {Success(table)}
    BY <1>1, <1>8, <2>1, Appended DEF TypeOK
  <2>3. \A other \in Table : WillRebuild(other)' <=> WillRebuild(other)
    BY <1>3, <1>4, <1>10, Names DEF WillRebuild
  <2>4. ASSUME NEW other \in Table \ {table}
        PROVE  (\E o \in Thread : InBody(o, other)) => \E o \in Thread : InBody(o, other)'
    BY <1>5, <1>6
  <2> HIDE DEF table
  <2> QED
    BY <1>3, <1>5, <2>1, <2>2, <2>3, <2>4, TakenIsGood DEF Success
<1> QED
  BY <1>9, <1>10

LEMMA DeliverIsGood ==
  ASSUME Base, Good, Deliver
  PROVE  Good' /\ Takes
<1>1. TypeOK /\ Shape /\ Threads /\ Passed
  BY DEF Base, Typed
<1>2. /\ UNCHANGED <<stations, obsfiles, data, updating, step, walked, pending>>
      /\ UNCHANGED <<adding, pages, unlisted>>
      /\ Idle(Gui) /\ adding = None
      /\ queue \in Seq(Signal) /\ queue # <<>> /\ queue' = Tail(queue) /\ Handle(Head(queue))
  BY <1>1 DEF Deliver, GuiIdle, registryVars, walkVars, TypeOK
<1> DEFINE head == Head(queue)
<1>3. head \in Signal /\ head = queue[1] /\ 1 \in DOMAIN queue
  BY <1>2
<1>4. \A signal \in ToSet(queue) : signal = head \/ signal \in ToSet(queue')
  <2>1. \A i \in DOMAIN queue : i = 1 \/ (i - 1 \in DOMAIN queue' /\ queue'[i - 1] = queue[i])
    BY <1>2
  <2> QED
    BY <1>3, <2>1 DEF ToSet
<1>5. \A page \in Page :
        shown'[page] = IF page = head.page /\ page \in pages /\ head.kind = "Success"
                       THEN Listing(page) ELSE shown[page]
  BY <1>1, <1>2, <1>3, HandleFacts
<1> HIDE DEF head
<1>6. \A table \in Table :
        /\ ~WillRebuild(table)
        /\ \A t \in Thread : /\ Walking(t, table)' <=> Walking(t, table)
                             /\ InBody(t, table)' <=> InBody(t, table)
        /\ WillRebuild(table)' <=> WillRebuild(table)
  <2>1. \A table \in Table : ~WillRebuild(table)
    BY <1>2, GuiWaits, Names
  <2> QED
    BY <1>2, <2>1 DEF Walking, InBody, WillRebuild
<1>7. ASSUME NEW table \in Table
      PROVE  \/ /\ shown'[table] = data[table]
                /\ \A t \in Thread : ~Walking(t, table)
             \/ /\ shown'[table] = shown[table]
                /\ table \in pages /\ Success(table) \in ToSet(queue) =>
                     Success(table) \in ToSet(queue')
  <2>1. head.kind \in {"Start", "Success"}
    BY <1>3 DEF Signal
  <2>2. CASE head = Success(table) /\ table \in pages
    <3>1. shown'[table] = data[table]
      BY <1>5, <2>2, Names DEF Success, Listing
    <3>2. \A t \in Task : updating[t] # table
      BY <1>1, <1>3, <2>2 DEF Passed
    <3>3. \A t \in Thread : ~Walking(t, table)
      BY <1>2, <3>2, GuiWaits, Names DEF Walking
    <3> QED
      BY <3>1, <3>3
  <2>3. CASE ~(head = Success(table) /\ table \in pages)
    <3>1. ~(table = head.page /\ table \in pages /\ head.kind = "Success")
      BY <1>3, <2>3 DEF Signal, Success
    <3> QED
      BY <1>4, <1>5, <2>3, <3>1, Names
  <2> QED
    BY <2>2, <2>3
<1> QED
  BY <1>2, <1>6, <1>7, TakenIsGood DEF Success

LEMMA InitIsGood == Init => Good
<1> SUFFICES ASSUME Init PROVE Good
  OBVIOUS
<1>1. /\ \A table \in Table : data[table] = <<>> /\ shown[table] = <<>>
      /\ \A t \in Thread : step[t] = "start"
      /\ stations = EmptyMap /\ obsfiles = EmptyMap /\ unlisted = {} /\ pages = {}
  BY Names DEF Init, RegistryInit
<1>2. ToSet(<<>>) = {} /\ IsInjective(<<>>)
  BY DEF ToSet, IsInjective
<1>3. \A table \in Table : Keys(table) = {} /\ Unlisted(table) = {}
  BY <1>1 DEF Keys, EmptyMap, Unlisted
<1>4. Apart
  BY <1>1 DEF Apart, InBody
<1>5. ListsAreKept
  BY <1>1, <1>2, <1>3 DEF ListsAreKept, Listed, Walking, ListHolds, RowsOf
<1>6. ShownIsKnown
  BY <1>1, <1>2 DEF ShownIsKnown
<1>7. ShownIsCurrent
  BY <1>1 DEF ShownIsCurrent
<1> QED
  BY <1>4, <1>5, <1>6, <1>7 DEF Good

(* Threads that have met have met. *)
LEMMA RacesStay == Base /\ [Next]_vars /\ raced => raced'
<1> SUFFICES ASSUME Base, [Next]_vars, raced PROVE raced'
  OBVIOUS
<1>1. ASSUME NEW changed, Disturb(changed) PROVE raced'
  BY <1>1 DEF Disturb
<1>2. CASE UNCHANGED vars
  BY <1>2 DEF vars
<1>3. CASE CreateBaselinePage \/ Deliver \/ \E table \in Table : CreateTablePage(table)
  BY <1>3 DEF CreateBaselinePage, Deliver, CreateTablePage
<1>4. CASE InsertItsStation \/ \E u \in StationUid, n \in StationName : NavPostAddStation(u, n)
  BY <1>1, <1>4 DEF InsertItsStation, NavPostAddStation
<1>5. CASE \/ \E f \in ObsFileUid, u \in StationUid, n \in StationName : InsertObsFile(f, u, n)
           \/ \E f \in ObsFileUid : NavPostRefusesObsFile(f)
  BY <1>1, <1>5 DEF InsertObsFile, NavPostRefusesObsFile
<1>6. CASE \E t \in Thread : EmitStart(t) \/ Clear(t) \/ AppendRow(t) \/ EndWalk(t) \/ EmitSuccess(t)
  BY <1>6 DEF EmitStart, Clear, AppendRow, EndWalk, EmitSuccess
<1>7. CASE \E t \in Task : StartTask(t) \/ EndTask(t)
  BY <1>7 DEF StartTask, EndTask
<1> QED
  BY <1>2, <1>3, <1>4, <1>5, <1>6, <1>7, Steps

LEMMA StepIsGood == Base /\ Good /\ [Next]_vars /\ ~raced' => Good'
<1> SUFFICES ASSUME Base, Good, [Next]_vars, ~raced' PROVE Good'
  OBVIOUS
<1>1. CASE UNCHANGED vars
  BY <1>1, StutterIsGood
<1>2. CASE CreateBaselinePage \/ \E table \in Table : CreateTablePage(table)
  BY <1>2, CreateBaselinePageIsGood, CreateTablePageIsGood
<1>3. CASE Deliver \/ InsertItsStation
  BY <1>3, DeliverIsGood, InsertItsStationIsGood
<1>4. CASE \E u \in StationUid, n \in StationName : NavPostAddStation(u, n)
  BY <1>4, AddStationIsGood
<1>5. CASE \E f \in ObsFileUid, u \in StationUid, n \in StationName : InsertObsFile(f, u, n)
  BY <1>5, InsertObsFileIsGood
<1>6. CASE \E f \in ObsFileUid : NavPostRefusesObsFile(f)
  BY <1>6, RefusalIsGood
<1>7. CASE \E t \in Thread :
             EmitStart(t) \/ Clear(t) \/ AppendRow(t) \/ EndWalk(t) \/ EmitSuccess(t)
  BY <1>7, EmitStartIsGood, ClearIsGood, AppendRowIsGood, EndWalkIsGood, EmitSuccessIsGood
<1>8. CASE \E t \in Task : StartTask(t) \/ EndTask(t)
  BY <1>8, TaskIsGood
<1> QED
  BY <1>1, <1>2, <1>3, <1>4, <1>5, <1>6, <1>7, <1>8, Steps

LEMMA StepTakes == Base /\ Good /\ Next => Takes
<1> SUFFICES ASSUME Base, Good, Next PROVE Takes
  OBVIOUS
<1>1. TypeOK /\ Shape
  BY DEF Base, Typed
<1>2. CASE Deliver
  BY <1>2, DeliverIsGood
<1>3. CASE \E t \in Thread : EmitSuccess(t)
  BY <1>3, EmitSuccessIsGood
<1>4. CASE \E t \in Thread : EmitStart(t)
  <2>1. PICK t \in Thread : EmitStart(t)
    BY <1>4
  <2>2. updating[t] \in Page
    BY <1>1, <2>1, BusyFacts DEF EmitStart
  <2>3. shown' = shown
    BY <1>1, <2>1, <2>2, QuietSignal DEF EmitStart, Signal
  <2> QED
    BY <2>3 DEF Takes
<1>5. CASE \E t \in Task : StartTask(t) \/ EndTask(t)
  BY <1>5, Names DEF StartTask, EndTask, Emit, Takes
<1>6. CASE \E t \in Thread : Clear(t) \/ AppendRow(t) \/ EndWalk(t)
  BY <1>6 DEF Clear, AppendRow, EndWalk, pageVars, Takes
<1>7. CASE CreateBaselinePage \/ InsertItsStation \/ \E table \in Table : CreateTablePage(table)
  BY <1>7 DEF CreateBaselinePage, InsertItsStation, CreateTablePage, pageVars, Takes
<1>8. CASE \E u \in StationUid, n \in StationName : NavPostAddStation(u, n)
  BY <1>8 DEF NavPostAddStation, pageVars, Takes
<1>9. CASE \/ \E f \in ObsFileUid, u \in StationUid, n \in StationName : InsertObsFile(f, u, n)
           \/ \E f \in ObsFileUid : NavPostRefusesObsFile(f)
  BY <1>9 DEF InsertObsFile, NavPostRefusesObsFile, pageVars, Takes
<1> QED
  BY <1>2, <1>3, <1>4, <1>5, <1>6, <1>7, <1>8, <1>9, Steps

(* The inductive invariant. *)
THEOREM InvariantHolds == Spec => []IInv
<1>1. Init => IInv
  BY BaseInitially, InitIsGood DEF IInv
<1>2. IInv /\ [Next]_vars => IInv'
  BY BaseStep, StepIsGood, RacesStay DEF IInv
<1> QED
  BY <1>1, <1>2, PTL DEF Spec

-----------------------------------------------------------------------------
(* What a page shows *)

(* A list that holds each row once is as long as there are rows.           *)
LEMMA OnceIsCounted ==
  ASSUME NEW S, NEW list \in Seq(S), IsInjective(list)
  PROVE  Len(list) = Len(SetToSeq(ToSet(list)))
<1> DEFINE n == Len(list)  rows == ToSet(list)
<1>1. n \in Nat /\ DOMAIN list = 1..n /\ list \in [1..n -> rows]
  BY DEF ToSet
<1>2. list \in Bijection(1..n, rows)
  BY <1>1 DEF Bijection, Injection, Surjection, IsInjective, ToSet
<1>3. Cardinality(rows) = n
  BY <1>1, <1>2, FS_CountingElements DEF ExistsBijection
<1>4. SetToSeq(rows) \in [1..n -> rows]
  BY <1>1, <1>3 DEF SetToSeq
<1>5. Len(SetToSeq(rows)) = n
  BY <1>1, <1>4
<1> QED
  BY <1>5

(* When everything has come to rest, and no two threads met at a list or a *)
(* map, the page of a table lists each of its rows once: nobody is about   *)
(* to rebuild the list, nobody walks it and no Success is to come.         *)
THEOREM RestIsCurrent == Spec => []PagesAreCurrent
<1>1. ASSUME IInv, Quiet, ~raced, NEW table \in pages \cap Table
      PROVE  ListsOnce(table, IF table = "station"
                              THEN {Row(table, u) : u \in Keys(table) \ unlisted}
                              ELSE Rows(table))
  <2>1. Base /\ Good /\ TypeOK
    BY <1>1 DEF IInv, Base, Typed
  <2>2. adding = None /\ queue = <<>> /\ \A t \in Thread : updating[t] = None
    BY <1>1, Names DEF Quiet, GuiIdle, Idle
  <2>3. ~WillRebuild(table) /\ \A t \in Thread : ~Walking(t, table) /\ ~InBody(t, table)
    BY <2>2, Names DEF WillRebuild, Walking, InBody
  <2>4. ToSet(queue) = {}
    BY <2>2 DEF ToSet
  <2>5. shown[table] = data[table]
    BY <2>1, <2>3, <2>4 DEF Good, ShownIsCurrent, ShowsOrWill
  <2>6. ListHolds(table, Keys(table) \ Unlisted(table))
    BY <2>1, <2>3 DEF Good, ListsAreKept, Listed
  <2>7. ToSet(shown[table]) = RowsOf(table, Keys(table) \ Unlisted(table)) /\ IsInjective(shown[table])
    BY <2>5, <2>6 DEF ListHolds
  <2>8. Len(shown[table]) = Len(SetToSeq(ToSet(shown[table])))
    BY <2>1, <2>7, OnceIsCounted DEF TypeOK
  <2>9. RowsOf(table, Keys(table) \ Unlisted(table)) =
          IF table = "station" THEN {Row(table, u) : u \in Keys(table) \ unlisted} ELSE Rows(table)
    BY DEF RowsOf, Unlisted, Rows
  <2> QED
    BY <2>7, <2>8, <2>9 DEF ListsOnce
<1>2. IInv => PagesAreCurrent
  BY <1>1 DEF PagesAreCurrent
<1> QED
  BY <1>2, InvariantHolds, PTL

(* What the comment on loadData says holds when no two threads have met    *)
(* and no station came with a file since its list was walked: these are    *)
(* the only ways in which a page can be behind at rest.                    *)
THEOREM AllIsUpdatedOtherwise == Spec => [](~raced /\ unlisted = {} => AllIsUpdated)
<1>1. ASSUME PagesAreCurrent, ~raced, unlisted = {}, Quiet, NEW table \in pages \cap Table
      PROVE  ListsOnce(table, Rows(table))
  <2> DEFINE rows == IF table = "station"
                     THEN {Row(table, u) : u \in Keys(table) \ unlisted} ELSE Rows(table)
  <2>1. ListsOnce(table, rows)
    BY <1>1 DEF PagesAreCurrent
  <2>2. rows = Rows(table)
    BY <1>1 DEF Rows
  <2> HIDE DEF rows
  <2> QED
    BY <2>1, <2>2
<1>2. PagesAreCurrent => (~raced /\ unlisted = {} => AllIsUpdated)
  BY <1>1 DEF AllIsUpdated
<1> QED
  BY <1>2, RestIsCurrent, PTL

(* A row that a page has shown stays on it while no two threads have met:  *)
(* a page takes a list only when it is complete, and what the page has is  *)
(* in it.                                                                  *)
THEOREM RowsStayShown == Spec => NothingVanishes
<1> DEFINE Stays == ~raced' => \A table \in Table : ToSet(shown[table]) \subseteq ToSet(shown'[table])
<1>1. IInv /\ [Next]_vars => [Stays]_vars
  <2> SUFFICES ASSUME IInv, Next, ~raced', NEW table \in Table
               PROVE  ToSet(shown[table]) \subseteq ToSet(shown'[table])
    OBVIOUS
  <2>1. Base /\ Good
    BY RacesStay DEF IInv
  <2>2. ToSet(shown[table]) \subseteq RowsOf(table, Known(table))
    BY <2>1 DEF Good, ShownIsKnown
  <2>3. Takes
    BY <2>1, StepTakes
  <2> QED
    BY <2>2, <2>3 DEF Takes
<1> QED
  BY <1>1, InvariantHolds, PTL DEF Spec, NothingVanishes

=============================================================================
