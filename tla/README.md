# NavPost in TLA+

NavPost (`README.md`: "a post-process software") is a desktop program for the
post-processing of GNSS observations: a core library, `core/NavCore`, and a Qt
Quick application, `app/NavPost`, whose C++ classes are singletons of its QML.
At this commit the core keeps projects, stations and observation files; the
processing itself (tasks, baselines, results) is declared and not written.

This directory models the parts of the program that keep state, checks them
with TLC on small instances and proves the most important facts with TLAPS.

## Inventory

| Part | State | Operations | Meets | What is hard |
|---|---|---|---|---|
| Command history, `Command_Pattern.h` | `transactionHistory`, `redoStack`, `currentTransaction`, the executed commands of each transaction | begin, add, commit, undo, redo, clear; rollback | the commands it calls | every command may throw, at any place of a loop |
| Log, `Log.h`, `SidePage_Log.qml` | `_logs`, `_history_logs`, the rows of the panel | `addLog` from any thread, two reads from the GUI thread | spdlog's mutex, the panel's timer | the reads take no mutex; both sides trim one history to its limit |
| NavCore, project life, `NavCore.cpp` | the project's JSON value, UID, name, path, file; the files on disk | `initProject`, `loadProject`, `saveProject`, `exitProject` | NavPost's copy for the title bar, the dialog of a new project | failing half-way, missing keys, restarts |
| NavCore, records, `NavCore.cpp` | the maps of stations and observation files | `addStation`, `addObsFile`, lookups | everything that lists or imports | one operation fills two maps; UIDs that come again |
| Import of observation files, `Dialog_File_ImportObs.qml` | the list of the dialog, the keys generated | add, edit, accept, cancel | `generate_UniqueKey`, `addObsFile` | a list accepted piece by piece, names against UIDs, what a box shows against what its row holds |
| Resource data, `ResourceDataController.cpp` and the table pages | three lists, the rows each page shows, loading panels | `update…Data` on the GUI thread, `loadData` on a pool thread | NavCore's maps, queued signals | no lock between the threads |
| Page tabs, `Screen_Main.qml`, `TabViewEx.qml` | the tabs, the current index, `Global.displayMidTop`, the routed page | open, click, close, drag | the router, the ribbons | two handlers of one change, closing while handling |
| Side panels, `Global.qml`, `Screen_Main.qml`, `NavBar_View.qml` | flags of three groups and six panels, what folding saved | menus, fold buttons, the view ribbon | handlers that set the flags they are bound to | re-entrant handlers; derived flags set directly |
| Time systems, `x_time.h` | none (functions and a value class) | conversions between UTC and GNSS times, GPS week | other headers of `basic/` | leap seconds, two epochs, truncating division |
| Coordinates, ephemerides, constants | none | floating-point formulas | | numerical |
| Facade, `NavPost.cpp` | the copy of the project's identity, generated keys | forwards to NavCore | QML | ignores results |
| Tables of the resource view, `Page_Table.qml` | the table named, the table shown | ribbon buttons, taps at the side | the tabs, Global | two ways to the router, one of which leaves the property alone |
| Single instance and restart, `StarterImpl.cpp`, `main.cpp` | the processes, a segment of shared memory, a note in it | start, create or find, note, timer, exit, restart | the window, which a second start brings back | processes that race; a crash; a restart that overtakes the process it replaces |
| Window, tray, theme, `MainWindow.qml`, `Theme.qml`, `CircularReveal.cpp` | visibility, dialogs, dark mode, a reveal under way | close, minimise, show, switch, choose | settings, the system's palette | an image and an animation that come later |
| Settings, application info, `SettingsHelper.cpp`, `AppInfo.cpp` | theme and language, in memory and on disk | load, save, write | window, restart | written later than they are set |
| Screens and dialogs | the screen and its page, form fields | navigation | Global | forms mostly without logic |
| Table controllers, monitor, tools | sample rows, a frame counter | | | |
| `rely/` | third-party libraries | | | |

What makes each part correct:

* Command history: the document always is what the committed transactions made
  of it; undo and redo walk one line of states; a commit happens or does not;
  no transaction disappears.
* Log: every entry reaches the panel, once and in order.
* Project: a project file, of either extension, holds the project it is named
  after; the title bar shows a project that exists on disk; saving goes where
  the project is.
* Records: what is registered stays, and an observation file has its station.
* Import: what a row holds when the list is accepted is what is registered; a key
  is given once.
* Resource data: at rest a page lists every record once; nothing flickers away;
  a loading panel goes.
* Tabs and panels: the current tab is the page on show; one tab for a page;
  a group is visible exactly when one of its panels is; folding loses nothing.
* Tables: a button of the ribbon leads to its table.
* Single instance: one process has the program; a second start shows its
  window; a restart brings it back.
* Window and settings: the theme outlives the process; the button that switches
  it keeps working; a chosen language takes effect.
* Time systems: conversions are inverse to one another and monotonic.

`PROJECT.json` lists every part with its status and every hazard with the line
where it bites.

## Plan

The order follows what would cost the user most.

1. Command history with its abstract specification; log; project life and
   records; resource data; import; main screen (tabs and panels). **Written.**
2. Theorems of the first three. **Written.**
3. `TimeSystems`: the integer functions of `x_time.h` as operators, compared
   with reference definitions, and their two theorems. **Written.**
4. `OneInstance`, `SingleInstance`, `Appearance`, `Screens` and `Application`,
   which composes them: start, restart, crash and end of the program around its
   window and settings; `TableView` in the main screen. Theorems of the first
   and of the composition. **Written.**
5. Proofs of `ImportObs`, `ResourceData`, `MainScreen` with its three parts,
   and of what was left of `LogRecord` and `TimeSystems`. **Written.**
6. An abstract specification of the resource view (a page lists a subset of
   the records that only grows) that `ResourceData` implements while no two
   threads meet, on top of `RowsStayShown`; the same for the log (a queue
   without loss), on top of `LogIsComplete`.
7. Composition of project life, import and resource view over one registry.

## Modules

| Module | Models | EXTENDS |
|---|---|---|
| `LinearUndo` | what an undo history promises (abstract) | |
| `CommandPattern` | `Transaction` and `Invoker`, one virtual call of a command a step | |
| `LogRecord` | `LogRecord`, `RecordSink`, the manager's reads, the panel and its timer | |
| `NavCoreRegistry` | the two maps, `addStation`, `addObsFile`, `getStation` | |
| `NavCoreProject` | project life, the files, the title bar's copy, restarts | `NavCoreRegistry` |
| `ImportObs` | import dialog, station dialog, key generator | `NavCoreRegistry` |
| `ResourceData` | the controller on two kinds of threads, signals, pages | `NavCoreRegistry` |
| `PageTabs` | tabs, index, router | |
| `SidePanels` | groups, panels, folding, header and ribbon | |
| `TableView` | the table that is named and the one on show | |
| `MainScreen` | tabs, panels and tables together: what of the one makes the other reachable | `PageTabs`, `SidePanels`, `TableView` |
| `OneInstance` | what a single instance promises (abstract) | |
| `SingleInstance` | the processes, the shared memory, the note, restart, crash | |
| `Appearance` | window, dialogs, theme and reveal, language, settings | |
| `Screens` | the three screens and whether the settings page is on show | |
| `Application` | the last three together: what the running process can do, and what its start and end do to the rest | `SingleInstance`, `Appearance`, `Screens` |
| `TimeSystems` | leap seconds, conversions, `XTime`, GPS week, under a clock that ticks | |
| `MC…` | the instances for TLC | the module named |
| `…Proofs` | theorems | the module named, `TLAPS` |

How state and actions correspond to the code:

* **CommandPattern.** `history`, `redoStack` and `current` are the members of
  `Invoker`; `target` is the local variable of `undo()` and `redo()`; `phase`
  and `pos` are the loop under way and its index. Begin, add, commit, undo,
  redo and clear start a call in phase `idle`; each iteration of a loop is a
  step in which the command's method returns or throws; the end of the loop
  and each way an exception leaves it are steps of their own. Commands are
  constants, with the contract that undo reverses execute.
* **LogRecord.** `addLog` runs under spdlog's mutex, `getCurrentLogs` and
  `getHistoryLogs` without it, so that nothing but the size is between the trims
  of the two. Each test of a size is a step, `append` and `removeFirst` are two:
  one reads the list, the other stores it back, and may so undo what the other
  thread has stored since. `sinkStep` and `reader` say where the two threads
  are, `seen` and `held` what they have read. A list that is torn, which such a
  race may also leave, is not modelled. An entry is its number.
* **NavCoreProject.** `Given` is the generated setter that leaves a member alone
  when its key is missing. A file is a pair of directory and project name and an
  extension, `.nps` from `initProject` or `.cps` from `saveProject`. `loaded`
  remembers that the JSON value is one that `loadProject` read. `InitProject` is
  the accepted dialog: NavCore, the refresh and the way to the main screen, all
  in one call of the GUI thread. `Restart` forgets everything but the disk.
* **ImportObs.** A row of the dialog is the four fields that matter. What its
  station box shows (`texts`) is apart from it: choosing or typing a name
  changes the box (`ChooseStationName`), Enter writes it to the row
  (`EditStationName`), and the row is what is registered. `Accept` folds
  `addObsFile` over the list, as the loop of `onAccepted` does.
* **ResourceData.** A thread that updates a list emits, clears, appends row by
  row, ends the walk and emits, each a step. Signals of the GUI thread are
  handled at once, those of a pool thread are queued. A page is covered by its
  loading panel from its creation. Inserting into a map
  that is walked may end the walk or let it repeat keys (`Disturb`): the
  iterator of an `unordered_map` is invalid after a rehash.
* **PageTabs.** All handlers of one user action run in one step, in the order
  the signals are emitted: the operators `TabSelected`, `Displayed`, `Removed`
  and `HandedOver` return the state after a handler and are composed.
* **SidePanels.** `SetPanel` is an assignment to a panel's flag with the
  handler of the ribbon's button that runs inside it when the ribbon is loaded.
* **TableView.** `NameList` is the assignment to `Global.displayTablePage` with
  the handler it sets off, `TapList` the item at the side of the page.
  `MainScreen` decides when the page is created (`FollowTables`).
* **SingleInstance.** A stage says how far a process has come in `main` and
  `checkApplication`. Creating the segment is one step; `writeData` of a second
  process is two, between which the memory is zeroed and the lock held.
  `Notice` is a tick of the timer that finds a timestamp other than that of
  `m_data`: `note` says what the memory holds in terms of what the running
  process has seen, `sawZeros` that `m_data` is empty. A tick that finds
  nothing new changes nothing. `Exit` is `WindowRouter.exit` and the return of
  `exec`, `Respawn` the process that is started after it, `End` the end of
  `main`, where the engine and with it the segment go.
* **Appearance.** The variables are those of the process that runs, of which
  there is one (`IsOneInstance`); after its end they keep what was last on
  show, which the next start is compared with. `SetTheme` is an assignment to
  `Theme.darkMode` with the handler that saves it. The message about a second
  start is left out: it shows a text and waits for Yes.
* **Application.** A step of the processes leaves the window alone, except
  where the code acts on it: `Begin` loads the settings and shows the window,
  `Activate` shows it again, `Leave` and `Restart` quit, `Break` loses what was
  not written. Pages are out of reach under a modal dialog.
* **TimeSystems.** The functions are operators of the same names. The state is
  a clock, which no code keeps: an instant that ticks inside a window, so that
  a step compares the conversions of one second with those of the next. The
  seconds of a week are a product of `int`, which overflows after `LastWeek`
  (3550, in 2048); the definition says nothing of it from there on.

`PROJECT.json` maps every definition to its lines.

## Runs

| Run | Asks | Instance | Result |
|---|---|---|---|
| `command_pattern` | do undo, redo and commit keep one history, whatever throws; does `Invoker` implement `LinearUndo`; does every call end | two commands that do not commute, two transactions of two commands | holds |
| `command_pattern_rollback` | does a commit that throws leave no trace | one transaction; only one command's undo throws | violated |
| `log_record` | what reaches the panel, and when; what two trims of one history remove | GUI thread and another, limit of 3, five entries | holds |
| `nav_core_project` | which files hold whose project; titles and records through failures and restarts | two projects, two objects with missing keys, a directory that fails | holds |
| `resource_data` | do pages become current, does nothing vanish, do loading panels go | one pool task, one station, one file, all pages | holds |
| `resource_data_race` | does a reload list everything once | two stations | violated |
| `import_obs` | is each row that was accepted registered as a file and a station of its own, is any key refused | two files, two stations, six keys | holds |
| `main_screen` | do tabs, pages, tables, groups and panels agree | three pages, two tables, one sidebar and the middle | holds |
| `application` | is the program one process, does a second start, a restart, a theme have its effect, does the reveal end | two processes, a system that frees the segment of the dead, one language | holds |
| `application_language` | does the language that was chosen take effect | the same with two languages | violated |
| `time_systems` | are conversions inverse and monotonic, is GPS time right, do weeks count days | the program's tables; windows around every leap second and some days and weeks | holds |
| `time_leap_seconds` | are the leap seconds before a time what is counted | the same | violated |

Why the instances are large enough. *Commands*: a swap and a rotation of three
elements are the smallest pair whose order shows in the document; two
transactions are needed for a redo that follows a commit, two commands for a
loop that fails in its middle. *Log*: a limit of 3 is passed with three entries
and trimmed again with five, and both threads then are in their trims at once: the
bound of `UnracedIsNeverLost` is reached (it fails with one entry less to
spare). A limit of three is the least for which `RemovesAnEntry` holds, the
program's is 5000. One other thread suffices because the sink's
mutex admits one at a time. *Project*: two projects for one that is written
over the other, one object without name and path and one without any key (as
the repository's demo passes it), one directory that fails and one that does
not. *Resource data*: the races are between one pool thread and the GUI thread;
one row in each list shows loss and doubling, and the violation needs a second
station to be added while the first is walked. *Import*: two files give
duplicates and two stations; six keys list two files, or one and three
stations, and run out. *Main screen*: three pages for a tab before, at and
after the current one; the two sidebars run the same code on their own flags
and `update_visable` treats the groups separately, so that one sidebar and the
middle show every interference; two tables, the one named and another one.
*Application*: two processes are the one that runs and the one that starts, finds,
notes, or is started by a restart; a third adds another note, whose writer
waits for the same lock, and was tried for the processes alone (635 states,
`IsOneInstance` holds). With one language the settings still tell saved from
never saved. The theorems hold for any number of processes and for systems
that keep the segment of the dead as well. *Time systems*: the functions are piecewise
linear, with a corner at each entry of the table and at each day and week; a
window of twenty seconds on either side holds a corner, the place where the
other direction meets it (at most 18 seconds away) and the straight parts. The
windows end in 2025, because TLC's integers are as wide as the `int` whose
overflow in 2048 is out of the model.

Bounds, all of them constants: `MaxTransactions`, `MaxCommands`, `MaxEntries`
(named in the guards of the actions that would pass them), and the finite sets
of keys, tasks and UIDs. Deadlock is
checked in every run but the two of `TimeSystems`, whose clock stops where its
window ends.

### What the violations show

Each is a place where a comment or a text of the repository says one thing and
the code does another; `findings` in `PROJECT.json` quotes the comment.

* A rollback whose undo throws goes on with the next command and leaves the
  document changed (`Command_Pattern.h:87`). Where undo does not throw, a failed
  commit leaves no trace: `CommitIsAtomic`.
* A reload on a pool thread and an update on the GUI thread fill one list
  together (`ResourceDataController.cpp:31`). Two threads that meet, and a
  station that came with a file since its list was walked, are the only causes:
  `AllIsUpdatedOtherwise`.
* The language that is chosen on the settings page is saved and never loaded:
  after the restart the dialog offers, the program has the system's language
  again (`AppInfo.cpp:13`).
* The leap seconds before a time are counted ten years early: the table counts
  from 1980, the times from 1970, so that in 1981 the code counts seven of which
  none had been inserted, and every time after 2006 has all of them
  (`x_time.h:96`). From the last leap second on that makes no difference:
  `GpsIsRightSinceLastDate`.

## Fairness

* `CommandPattern`: weak fairness of the steps inside a call. A call runs on one
  thread and every iteration ends by returning or throwing; whether the user
  makes another call is left open.
* `LogRecord`: weak fairness of a thread that holds the mutex, of a read under
  way and of the panel's repeating timer. Nobody has to log.
* `ResourceData`: weak fairness of an update under way and of the pool; strong
  fairness of the event loop, which handles queued events in order between
  whatever the user does. The user's actions are not fair.
* `Application`: strong fairness of each process on its way from its start to
  its note or its window, and from its exit to its end: nothing of it waits for
  the user, and the lock it may wait for is a semaphore, which serves those who
  wait. Weak fairness of the running process's look at the note, which a
  repeating timer makes, and of the image and the animation of a reveal, which
  come with the frames of a window that is shown. Starting, using, leaving and
  breaking the program is not fair.
* The other modules check safety only and have no fairness.

## Theorems

For every value of the constants that satisfies the named assumptions.

* **CommandPatternProofs.** From the contract that undo reverses execute:
  `TypeCorrect`, `DocumentIsHistory`, `RedoIsSafe`, `CommitAtomicity`,
  `TransactionsAreKept` and `Refinement` (the state machine part of
  `ImplementsLinearUndo`). That the document is the end of the last
  transaction is not inductive: inside a loop it is not. `IInv` adds that the
  loop has applied `pos` commands of the transaction it works on (`LoopInv`),
  who owns that transaction (`OwnerInv`), that each trail is the run of its
  commands (`RecordInv`), and that transactions of the history meet end to
  start, those of the redo stack start from where the history ends
  (`ChainInv`).
* **LogRecordProofs.** For any threads and any limit above two: `TypeCorrect`,
  `LogIsComplete` (what no `addLog` overlaps is delivered whole),
  `LogIsCompleteOnGui` (with one thread the panel is complete),
  `NoEmptyRemoval`, `HistoryIsNewest` and `UnracedIsKept`. `IInv` follows the
  entries through the steps of a read: into the history and the panel on
  creation, into the local copy and the panel on a tick. `TailInv` says of each
  of these steps which newest part of the panel the history is. `LengthInv`
  says, whatever races, how long a list is that a removal meets or stores back:
  the thread of the sink meets one entry less than the limit at worst, that of
  the panel two. That gives `NoEmptyRemoval`, and that a removal during the
  panel's creation starts from a list that is one entry short of the limit at
  most. `UnracedIsKept` has to hold in spite of races, so that it has an
  invariant without `raced` as a hypothesis, `KeepInv`: a read that meets an
  `addLog` marks its entry (`Overlap`), and for each stage of the panel
  (`Before`, `Filling`, `Reading`, `Showing`) every entry that is not marked is
  in the panel, on its way there, or old enough to have been trimmed. While the
  panel is created that is said of every list either thread may yet store as the
  history.
* **NavCoreProjectProofs.** For any UIDs, names, directories and objects:
  `TypeCorrect`, `ObsFilesHaveStations` (getStation knows the station of every
  file; no run states it, `AcceptedIsRegistered` says more of what is imported),
  `RecordsArePermanent`, `OnlyLoadingCanMisfile`, `OnlyOpeningCanMislead`. The
  first of the last two needs that the JSON value is of the project the paths are
  of, unless `loadProject` has read another (`Matches`); the other that a project
  that is shown has a UID, and that a UID once set stays (`ShownHasUid`).
* **ApplicationProofs.** For any number of processes and both kinds of
  system: `TypeCorrect` and `SingleInstanceIsOne`, the refinement of
  `OneInstance` by the processes. That one process owns the program is not
  inductive: `IInv`
  adds that the segment is there while anybody is attached to it
  (`HeldWhileAttached`), which is what makes `create` fail for the others; the
  lemmas say for each step what it does to the owners and to the attached.
  Then `ApplicationIsOneInstance` (every step of the
  application is a step of the processes or leaves them alone),
  `ApplicationTypeCorrect` and `ThemeIsKept`. The last rests on one invariant,
  that the theme in memory is the one on show or was never saved (`ThemeKept`),
  and on `OnlyBeginRuns`.
* **TimeSystemsProofs.** For any table whose leap seconds are further apart than
  there are any, any offsets and any zones: `ConversionsAreInverse`,
  `OrderIsKeptAlways` and `TypeCorrect`. The first two rest on `CountStep`:
  between two times at most `Total` seconds apart, the count goes up by one at
  most, and only over an entry. `time2utc` counts at a time that is off by the
  count itself, which is at most `Total`. Nothing is assumed about the epoch of
  the table, which is why the two hold although the counts are early.
  `WeeksCountDays` also needs that the offset of GPS is the Sunday weeks start
  with (`EpochAssumption`): from there to the end of `LastWeek` the numbers are
  those of `WeekNumber` and `DayOfWeek`, whatever the count of leap seconds is.
  `GpsIsRight` needs a date for each entry of the table, the last one past every
  entry (`DatesAssumption`): from then on the table, which counts early, has
  counted everything.
* **MainScreenProofs.** For any pages, buttons, sidebars and tables:
  `CurrentTabIsRight`, `PagesHaveOneTab`, `OnlyShortcuts`, `OnlyTaps` and
  `TypeCorrect`. `Consistent` is a condition on a state of the tabs as the
  handlers pass it on, stronger than the two invariants: a route that is
  assigned to `Global.displayMidTop` is the page on show, and the current tab
  is that page's unless it is the null page. Each handler keeps it
  (`TabSelected`, `Displayed`, `Removed`, `HandedOver`), and a button's list of
  assignments is an induction over its length. The panels need the shape of the
  flags only (`PanelsTypeOK`): for each assignment, the handlers that run inside
  it are shown to leave the group following its panels.
* **ImportObsProofs.** For any keys, files and stations, where a station and a
  file take their keys from one generator: `NothingIsRefused`,
  `ListsAreRegistered` (a new file and a new station for each row, with UIDs no
  other row has, under the name of the row) and `TypeCorrect`. That nothing is
  refused is not inductive: `IInv` adds that every key in use was generated
  (`KeysAreRemembered`), that no two items share one (`KeysDiffer`) and that
  those of an open list are not registered (`ListIsNew`). Accepting is an
  induction over the list: after the first `n` items exactly these are
  registered and the rest is still new.
* **ResourceDataProofs.** For any UIDs, names and number of calls of `loadData`:
  `RestIsCurrent`, `RowsStayShown`, `AllIsUpdatedOtherwise` and `TypeCorrect`.
  `IInv` says in every state which updates and signals can still be under way
  (`Base`): an idle thread has no step left to do, one call of `loadData` at
  most has begun, a queued Success was sent after the last time the task touches
  that list, and the station of a file is registered or being added. Without a
  race it says (`Good`) that one thread at most is at a list (`Apart`); that a
  list is what its walk has visited, or is about to be rebuilt by the GUI thread
  (`ListsAreKept`); that a page shows nothing but rows of records that are
  registered, which never change (`ShownIsKnown`); and that a page is its list,
  or something that will make it so is still to come (`ShownIsCurrent`). `Base`
  has no hypothesis about races because `Good` needs it for the step in which a
  race begins. `AllIsUpdatedOtherwise` names all the ways in which the comment
  that `resource_data_race` refutes can fail.

Where a definition folds over a list, the induction is over the set of lengths
for which the claim holds (`SetInduction`, from the least element of its
complement), and `FoldSteps` gives the recursive function behind the fold; the
library's own induction theorems take a predicate, which the prover cannot
instantiate.

Only model-checked: the liveness properties (`EveryCallEnds`,
`EveryEntryIsShown`, `LoadingEnds`, `StartIsNoticed`, `RestartBringsBack`,
`RevealEnds`), because the prover handles neither liveness under fairness nor
`ENABLED`. Every other property of a run that holds is a theorem; the four
violations are counterexamples, which stay with TLC.

## Not modelled

* Conversions between QVariant and JSON, texts, layout, drawing, and the fields
  of a record that nothing depends on.
* Task, baseline and result operations, the set and delete operations, and
  `Invoker`'s use by NavCore: stubs or commented out at this commit.
* Floating-point code of `basic/`: coordinates, ephemerides, fractions of a
  second; calendar dates, which the C library computes; the system clock.
* Dialogs whose handlers are empty; the table controllers with sample rows.
* `Project_Qt.cpp` (not compiled); the frame counter of
  `PerformanceMonitor.cpp`, which the render thread increments without a lock
  and which is only drawn.
* The property panel: which record it shows. The check and the closed-loop table
  open it without naming a record (`Page_Table_Closeloop.qml:209`), so that it
  shows the one of another table; both are placeholders with sample rows.
* Notes of more than 1024 bytes, for which `writeData` returns with the lock
  held (`StarterImpl.cpp:61`); a crash while the lock is held; two writes in
  one millisecond, which have one timestamp.
* Weeks of GPS after 3550, whose seconds overflow an `int` (`x_time.h:330`).
* Torn lists of the log: two threads that write one `QList` may leave it in a
  state that neither wrote.
* Most of `rely/`: RTKLIB, Abseil, nlohmann json, spdlog and yaml-cpp are other
  projects' code, far larger than the program (the measured lines of the
  repository are nearly all theirs), and the program calls little of it: no
  source under `app/` or `core/` calls RTKLIB or Abseil. Of FluentUI the starter,
  the window router, the page router and the theme are modelled; the list view,
  QSettings and spdlog's mutex appear as external definitions.

Disagreements met without a run:

* an entry logged between the copy and the clear of `getCurrentLogs` is lost
  (`Log.h:94`), while entries that overlap no read are never lost
  (`UnracedIsNeverLost`) unless they are older than a full history, which two
  trims at once may leave one entry short (`Log.h:66` and `Log.h:96`), and the
  panel is complete if only the GUI thread logs (`LogIsCompleteOnGui`);
* rows of an import that are given one station name become stations of their own
  (`Dialog_File_ImportObs.qml:475`);
* a name that is picked or typed in the station box of an import without Enter
  is on show when the list is accepted, and the station gets the name the row
  had before (`Dialog_File_ImportObs.qml:183`), which `AcceptedIsRegistered`
  says by speaking of the rows;
* a restart that overtakes the process it replaces leaves nobody running
  (`main.cpp:97`), which `RestartBringsBack` has to except;
* on Unix a crash leaves the segment behind and the program starts no more
  (`StarterImpl.cpp:28`);
* after a tap the button of the table that was named last does nothing
  (`Page_Table.qml:75`), which `OnlyTapsPart` excepts;
* the first page of the property panel has no route (`Global.qml:76`);
* after a failed `initProject` the main screen may show a project that is not on
  disk (`NavCore.cpp:40`), which only its first visit can bring about
  (`OnlyOpeningMisleads`);
* `loadProject` leaves the paths alone, so that the next save writes what was
  loaded beside another project's file (`NavCore.cpp:98` and `NavCore.cpp:167`),
  which only the demo program calls and is the one exception of
  `OnlyLoadingMisfiles`;
* `GNSS()` labels its result UTC (`x_time.h:285`);
* the Undo and Redo buttons assign numbers to `Global.displayScreen`
  (`Screen_Main.qml:247`), which have no route;
* `Dialog_Station_EditProperty.qml:602` calls `NavPost.add_Station`, which does
  not exist;
* the import dialog swaps name and path of a chosen navigation file
  (`Dialog_File_ImportObs.qml:286`);
* `addObsFile` reads `navifile_UID` where the dialog sends `navfile_UID`
  (`NavCore.cpp:281`);
* `updateNavFileData` appends to the station list
  (`ResourceDataController.cpp:126`), out of reach while `addNavFile` is a stub;
* a fold button compares where it should assign (`Screen_Main.qml:917`).
