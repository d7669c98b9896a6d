------------------------------ MODULE LogRecord ------------------------------
(***************************************************************************)
(* The in-memory log of NavPost: LogRecord, LogRecordManager and           *)
(* RecordSink of src/app/NavPost/src/Log.h, and the log panel that reads   *)
(* it, src/app/NavPost/qml/component/SidePage_Log.qml.                     *)
(*                                                                         *)
(* spdlog calls the sink with the mutex of base_sink held, so at most one  *)
(* thread is in addLog.  The panel reads on the GUI thread and takes no    *)
(* mutex.  Every test of a list's size is a step of its own here; append   *)
(* and removeFirst, which read the list and store it back, are two steps,  *)
(* and the second may undo what the other thread stored in between.  The   *)
(* other outcomes of this data race (a list that is torn) are left out.    *)
(*                                                                         *)
(* An entry is the number of its addLog call, in the order in which the    *)
(* sink's mutex is obtained.                                               *)
(***************************************************************************)
EXTENDS Integers, Sequences, SequencesExt

CONSTANTS
  Thread,     \* the threads whose messages reach the sink
  Gui,        \* the thread of the QML engine
  Nobody,     \* the sink's mutex is free
  MaxLogs,    \* LogRecord::_maxLogCount
  MaxEntries  \* bound: messages logged in a behaviour

ASSUME ThreadAssumption == Gui \in Thread /\ Nobody \notin Thread
ASSUME LimitAssumption == MaxLogs \in Nat \ 0..2 /\ MaxEntries \in Nat

VARIABLES
  emitted,  \* messages that entered addLog
  logs,     \* LogRecord::_logs
  history,  \* LogRecord::_history_logs
  sink,     \* the thread that holds the mutex of the sink
  sinkStep, \* where its addLog is
  seen,     \* the list that its append or removeFirst has read
  panel,    \* the panel is absent, in Component.onCompleted, or shown
  reader,   \* where getCurrentLogs or getHistoryLogs is
  held,     \* the list that its append or removeFirst has read
  taken,    \* the local of getCurrentLogs: logs
  console,  \* console_listmodel of the panel
  raced     \* history variable: entries whose addLog overlapped a read

recordVars == <<logs, history>>
sinkVars == <<emitted, sink, sinkStep, seen>>
panelVars == <<panel, reader, held, taken, console>>
vars == <<recordVars, sinkVars, panelVars, raced>>

Entries == Seq(1..MaxEntries)

(* Mutant: removeLast() for removeFirst(), the trim drops the newest. *)
WithoutNewest(list) == SubSeq(list, 1, Len(list) - 1)

(* removeFirst(): what it leaves of the list that it has read. *)
Rest(list) == SubSeq(list, 2, Len(list))

Init ==
  /\ emitted = 0
  /\ logs = <<>>
  /\ history = <<>>
  /\ sink = Nobody
  /\ sinkStep = "out"
  /\ seen = <<>>
  /\ panel = "absent"
  /\ reader = "idle"
  /\ held = <<>>
  /\ taken = <<>>
  /\ console = <<>>
  /\ raced = {}

-----------------------------------------------------------------------------
(* Mutants: forms a bug would give to the steps that follow.  No step uses *)
(* them; a run that passes must fail when one replaces the step it mutates. *)

(* Mutant: getCurrentLogs forgets _logs.clear(). *)
ClearLogsMissing ==
  /\ reader = "clear"
  /\ reader' = "trim"
  /\ UNCHANGED <<recordVars, sinkVars, panel, held, taken, console, raced>>

(* Mutant: the entries read on creation are not put into the panel. *)
ShowLogsMissesHistory ==
  /\ reader = "return"
  /\ console' = console \o taken
  /\ panel' = "shown"
  /\ reader' = "idle"
  /\ taken' = <<>>
  /\ UNCHANGED <<recordVars, sinkVars, held, raced>>

(* Mutant: the copy is taken after the list was moved, so it is empty. *)
TimerTakesNothing ==
  /\ panel = "shown"
  /\ reader = "idle"
  /\ sink # Gui
  /\ taken' = <<>>
  /\ reader' = "append"
  /\ raced' = IF sink = Nobody THEN raced ELSE raced \cup {emitted}
  /\ UNCHANGED <<recordVars, sinkVars, panel, held, console>>

(* Mutant: the trim asks for an entry, not for the limit. *)
TrimToNothing ==
  /\ reader = "trim"
  /\ reader' = IF Len(history) > 0 THEN "take" ELSE "return"
  /\ UNCHANGED <<recordVars, sinkVars, panel, held, taken, console, raced>>

(* Mutant: the mutex of the sink is not released. *)
ReleaseMissing ==
  /\ sinkStep = "release"
  /\ sinkStep' = "out"
  /\ UNCHANGED <<recordVars, emitted, sink, seen, panelVars, raced>>

-----------------------------------------------------------------------------
(* RecordSink::sink_it_ and LogRecord::addLog, on the thread that logs.    *)

(* The thread gets the mutex and enters addLog. *)
AddLog(t) ==
  /\ sink = Nobody
  /\ t = Gui => reader = "idle"
  /\ emitted < MaxEntries
  /\ sink' = t
  /\ sinkStep' = "trim"
  /\ emitted' = emitted + 1
  /\ raced' = IF reader = "idle" THEN raced ELSE raced \cup {emitted + 1}
  /\ UNCHANGED <<recordVars, seen, panelVars>>

(* while (_history_logs.size() >= _maxLogCount), or the if of the second   *)
(* trim, which removes at most one.                                        *)
SinkTests ==
  /\ \/ /\ sinkStep = "trim"
        /\ sinkStep' = IF Len(history) >= MaxLogs THEN "take" ELSE "append"
     \/ /\ sinkStep = "last"
        /\ sinkStep' = IF Len(history) >= MaxLogs THEN "lastTake" ELSE "release"
  /\ UNCHANGED <<recordVars, emitted, sink, seen, panelVars, raced>>

(* _history_logs.removeFirst(), its first half *)
SinkTakes ==
  /\ \/ sinkStep = "take" /\ sinkStep' = "put"
     \/ sinkStep = "lastTake" /\ sinkStep' = "lastPut"
  /\ seen' = history
  /\ UNCHANGED <<recordVars, emitted, sink, panelVars, raced>>

(* Its second half; the loop tests again. *)
SinkPuts ==
  /\ \/ sinkStep = "put" /\ sinkStep' = "trim"
     \/ sinkStep = "lastPut" /\ sinkStep' = "release"
  /\ history' = Rest(seen)
  /\ seen' = <<>>
  /\ UNCHANGED <<logs, emitted, sink, panelVars, raced>>

(* _logs.append(item), its first half *)
AppendReads ==
  /\ sinkStep = "append"
  /\ seen' = logs
  /\ sinkStep' = "store"
  /\ UNCHANGED <<recordVars, emitted, sink, panelVars, raced>>

(* Its second half. *)
AppendStores ==
  /\ sinkStep = "store"
  /\ logs' = Append(seen, emitted)
  /\ sinkStep' = "last"
  /\ seen' = <<>>
  /\ UNCHANGED <<history, emitted, sink, panelVars, raced>>

(* addLog returns and base_sink releases the mutex. *)
Release ==
  /\ sinkStep = "release"
  /\ sink' = Nobody
  /\ sinkStep' = "out"
  /\ UNCHANGED <<recordVars, emitted, seen, panelVars, raced>>

-----------------------------------------------------------------------------
(* The panel, on the GUI thread. *)

(* Component.onCompleted calls get_all_logs. *)
CreatePanel ==
  /\ panel = "absent"
  /\ sink # Gui
  /\ panel' = "creating"
  /\ reader' = "append"
  /\ raced' = IF sink = Nobody THEN raced ELSE raced \cup {emitted}
  /\ UNCHANGED <<recordVars, sinkVars, held, taken, console>>

(* console_timer calls get_new_logs, which starts with auto logs = _logs. *)
Timer ==
  /\ panel = "shown"
  /\ reader = "idle"
  /\ sink # Gui
  /\ taken' = logs
  /\ reader' = "append"
  /\ raced' = IF sink = Nobody THEN raced ELSE raced \cup {emitted}
  /\ UNCHANGED <<recordVars, sinkVars, panel, held, console>>

(* _history_logs.append(_logs), its first half *)
MoveReads ==
  /\ reader = "append"
  /\ held' = history \o logs
  /\ reader' = "store"
  /\ UNCHANGED <<recordVars, sinkVars, panel, taken, console, raced>>

(* Its second half. *)
MoveStores ==
  /\ reader = "store"
  /\ history' = held
  /\ held' = <<>>
  /\ reader' = "clear"
  /\ UNCHANGED <<logs, sinkVars, panel, taken, console, raced>>

(* _logs.clear() *)
ClearLogs ==
  /\ reader = "clear"
  /\ logs' = <<>>
  /\ reader' = "trim"
  /\ UNCHANGED <<history, sinkVars, panel, held, taken, console, raced>>

(* while (_history_logs.size() >= _maxLogCount) *)
TrimTests ==
  /\ reader = "trim"
  /\ reader' = IF Len(history) >= MaxLogs THEN "take" ELSE "return"
  /\ UNCHANGED <<recordVars, sinkVars, panel, held, taken, console, raced>>

(* _history_logs.removeFirst(), its first half *)
TrimTakes ==
  /\ reader = "take"
  /\ held' = history
  /\ reader' = "put"
  /\ UNCHANGED <<recordVars, sinkVars, panel, taken, console, raced>>

(* Its second half; the loop tests again. *)
TrimPuts ==
  /\ reader = "put"
  /\ history' = Rest(held)
  /\ held' = <<>>
  /\ reader' = "trim"
  /\ UNCHANGED <<logs, sinkVars, panel, taken, console, raced>>

(* The return into the panel, which appends what it got to its list: a     *)
(* copy of the history on creation, the new entries on a tick.             *)
ShowLogs ==
  /\ reader = "return"
  /\ console' = console \o (IF panel = "creating" THEN history ELSE taken)
  /\ panel' = "shown"
  /\ reader' = "idle"
  /\ taken' = <<>>
  /\ UNCHANGED <<recordVars, sinkVars, held, raced>>

SinkTrims == SinkTests \/ SinkTakes \/ SinkPuts
Sink == SinkTrims \/ AppendReads \/ AppendStores \/ Release
ReadTrims == TrimTests \/ TrimTakes \/ TrimPuts
Read == MoveReads \/ MoveStores \/ ClearLogs \/ ReadTrims \/ ShowLogs

Next ==
  \/ \E t \in Thread : AddLog(t)
  \/ Sink
  \/ CreatePanel
  \/ Timer
  \/ Read

Spec == Init /\ [][Next]_vars

(* A call that has begun goes on; the timer of a shown panel repeats. *)
FairSpec == Spec /\ WF_vars(Sink) /\ WF_vars(Read) /\ WF_vars(Timer)

-----------------------------------------------------------------------------
(* Properties *)

(* The entries that addLog has stored. *)
Stored ==
  IF sinkStep \in {"out", "last", "lastTake", "lastPut", "release"} THEN emitted
  ELSE emitted - 1

(* What the panel shows or will show at its next tick. *)
Shown == console \o logs

(* The list holds the entries up to last, each once and in order. *)
EndsAt(list, last) ==
  \A i \in 1..Len(list) : list[i] = last - Len(list) + i

(* Type invariant; a thread is in addLog exactly when it holds the mutex.  *)
TypeOK ==
  /\ emitted \in 0..MaxEntries
  /\ logs \in Entries
  /\ history \in Entries
  /\ sink \in Thread \cup {Nobody}
  /\ sinkStep \in {"out", "trim", "take", "put", "append", "store",
                  "last", "lastTake", "lastPut", "release"}
  /\ (sinkStep = "out") = (sink = Nobody)
  /\ sink # Nobody => emitted > 0
  /\ seen \in Entries
  /\ panel \in {"absent", "creating", "shown"}
  /\ reader \in {"idle", "append", "store", "clear", "trim", "take", "put",
                "return"}
  /\ held \in Entries
  /\ taken \in Entries
  /\ console \in Entries
  /\ raced \subseteq 1..emitted

(* A panel that has been filled shows, with what waits in _logs, every     *)
(* entry up to the newest, each once and in order; only entries older      *)
(* than a full history are missing from it.                                *)
ConsoleIsComplete ==
  panel = "shown" /\ reader = "idle" =>
    /\ EndsAt(Shown, Stored)
    /\ Len(Shown) < Stored => Len(console) >= MaxLogs - 1

(* The same of every behaviour in which no addLog overlapped a read,       *)
(* whatever threads log.                                                   *)
CompleteUnlessRaced == raced = {} => ConsoleIsComplete

(* An entry whose addLog overlapped no read is never lost, whatever other  *)
(* entries raced: it is in the panel or waits for the next tick, unless it *)
(* is older than a history as full as the trims leave it was when the      *)
(* panel was created.  A trim alone leaves _maxLogCount - 1 entries; two   *)
(* at once may both pass the test and remove one entry more.               *)
UnracedIsNeverLost ==
  panel = "shown" /\ reader = "idle" =>
    \A e \in (1..Stored) \ (raced \cup ToSet(Shown)) :
      /\ Len(console) >= MaxLogs - 2
      /\ \A x \in ToSet(console) : e < x

(* removeFirst() meets a list with an entry, although the size was tested  *)
(* without the mutex and the other thread may have removed entries since:  *)
(* at most two, so a limit of two would not do.                            *)
RemovesAnEntry ==
  /\ sinkStep \in {"take", "lastTake"} => history # <<>>
  /\ reader = "take" => history # <<>>

(* If nothing raced, the history is between two calls the newest part of   *)
(* what the panel has shown, as much of it as _maxLogCount lets stay.      *)
HistoryIsTail ==
  raced = {} /\ panel = "shown" /\ reader = "idle" =>
    /\ IsSuffix(history, console)
    /\ Len(history) =
         IF Len(console) < MaxLogs THEN Len(console) ELSE MaxLogs - 1

(* Once the panel is shown, the entry just stored gets to it, unless it    *)
(* raced with a read.                                                      *)
EveryEntryIsShown ==
  \A e \in 1..MaxEntries :
    panel = "shown" /\ sink = Nobody /\ emitted = e /\ e \in ToSet(logs)
      ~> e \in ToSet(console) \cup raced
=============================================================================
