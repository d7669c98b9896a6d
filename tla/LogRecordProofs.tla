--------------------------- MODULE LogRecordProofs ---------------------------
(***************************************************************************)
(* Proofs about LogRecord, for any threads and any _maxLogCount above two. *)
(*                                                                         *)
(* A read that no addLog overlaps delivers every entry once and in order.  *)
(* The invariant follows the entries through the steps of a read: on       *)
(* creation they go from _logs to the history and from there to the panel, *)
(* on a tick they go to the local copy and from there to the panel.        *)
(*                                                                         *)
(* Three more invariants stand beside it: how long the list is that a      *)
(* removal meets and stores back (LengthInv), which part of the panel's    *)
(* entries the history is at each step (TailInv), and, whatever races,     *)
(* where an entry is that no read overlapped (KeepInv).                    *)
(***************************************************************************)
EXTENDS LogRecord, TLAPS

(* addLog is between its test of the size and its removal, or in it. *)
SinkTaking == sinkStep \in {"take", "lastTake"}
SinkPutting == sinkStep \in {"put", "lastPut"}

(* The panel's read has moved the entries and has not returned. *)
Moved == reader \in {"clear", "trim", "take", "put", "return"}

(* The panel, before and while it is created. *)
PanelInv ==
  /\ panel = "absent" => reader = "idle" /\ console = <<>> /\ history = <<>>
  /\ panel = "creating" => reader # "idle" /\ console = <<>>
  /\ panel = "creating" /\ reader \in {"append", "store"} => history = <<>>

(* Every entry up to the newest, but for those older than a full history. *)
Complete(list) ==
  /\ EndsAt(list, Stored)
  /\ Len(list) < Stored => Len(console) >= MaxLogs - 1

(* As many of the newest entries as a full history has. *)
Full(list) ==
  /\ EndsAt(list, Stored)
  /\ Len(list) < Stored => Len(list) >= MaxLogs - 1

(* All the entries there are. *)
All(list) == Len(list) = Stored /\ EndsAt(list, Stored)

Apart ==
  /\ sink = Nobody \/ reader = "idle"
  /\ sinkStep = "store" => seen = logs
  /\ ~SinkTaking /\ ~SinkPutting

Trimming ==
  /\ reader \in {"idle", "return"} => Len(history) < MaxLogs
  /\ reader \in {"take", "put"} => Len(history) >= MaxLogs
  /\ reader = "put" => held = history

Creating ==
  /\ panel = "absent" => All(logs)
  /\ panel = "creating" /\ reader = "append" => All(logs)
  /\ panel = "creating" /\ reader = "store" => Full(held)
  /\ panel = "creating" /\ Moved => Full(history)

Ticking ==
  /\ panel = "shown" /\ reader = "idle" => Complete(console \o logs)
  /\ panel = "shown" /\ reader # "idle" => Complete(console \o taken)

Cleared == reader \in {"trim", "take", "put", "return"} => logs = <<>>

Delivery == Apart /\ Trimming /\ Creating /\ Ticking /\ Cleared

IInv ==
  /\ TypeOK
  /\ PanelInv
  /\ raced = {} => Delivery

-----------------------------------------------------------------------------
(* What the operations on lists return. *)

LEMMA ConcatFacts ==
  ASSUME NEW S, NEW s \in Seq(S), NEW t \in Seq(S)
  PROVE  /\ s \o t \in Seq(S)
         /\ Len(s \o t) = Len(s) + Len(t)
         /\ \A i \in 1..Len(s) : (s \o t)[i] = s[i]
         /\ \A i \in 1..Len(t) : (s \o t)[Len(s) + i] = t[i]
  OBVIOUS

LEMMA AppendFacts ==
  ASSUME NEW S, NEW s \in Seq(S), NEW e \in S
  PROVE  /\ Append(s, e) \in Seq(S)
         /\ Len(Append(s, e)) = Len(s) + 1
         /\ \A i \in 1..Len(s) : Append(s, e)[i] = s[i]
         /\ Append(s, e)[Len(s) + 1] = e
  OBVIOUS

(* An entry may be appended to either of two lists read one after another. *)
LEMMA ConcatAppend ==
  ASSUME NEW S, NEW s \in Seq(S), NEW t \in Seq(S), NEW e \in S
  PROVE  s \o Append(t, e) = Append(s \o t, e)
  OBVIOUS

LEMMA EmptyFacts ==
  ASSUME NEW S, NEW s \in Seq(S)
  PROVE  /\ <<>> \in Seq(S)
         /\ Len(<<>>) = 0
         /\ s \o <<>> = s
         /\ <<>> \o s = s
  OBVIOUS

(* removeFirst() takes the oldest entry away. *)
LEMMA RestFacts ==
  ASSUME NEW S, NEW s \in Seq(S), Len(s) >= 1
  PROVE  /\ Rest(s) \in Seq(S)
         /\ Len(s) = 1 + Len(Rest(s))
         /\ \A i \in 1..Len(Rest(s)) : Rest(s)[i] = s[1 + i]
<1> DEFINE k == Len(s) - 1
           rest == [i \in 1..k |-> s[1 + i]]
<1>1. k \in Nat /\ Len(s) = 1 + k /\ \A i \in 1..k : s[1 + i] \in S
  OBVIOUS
<1>2. Rest(s) = rest
  BY DEF Rest
<1> HIDE DEF k
<1>3. rest \in [1..k -> S] /\ \A i \in 1..k : rest[i] = s[1 + i]
  BY <1>1
<1> HIDE DEF rest
<1>4. rest \in Seq(S) /\ Len(rest) = k
  BY <1>1, <1>3
<1> QED
  BY <1>1, <1>2, <1>3, <1>4

LEMMA RestType ==
  ASSUME NEW S, NEW s \in Seq(S)
  PROVE  Rest(s) \in Seq(S)
<1>1. CASE Len(s) >= 1
  BY <1>1, RestFacts
<1>2. CASE Len(s) = 0
  BY <1>2 DEF Rest
<1> QED
  BY <1>1, <1>2

-----------------------------------------------------------------------------
(* Type correctness: one step per action. *)

LEMMA InitHolds == Init => IInv
  BY ThreadAssumption, LimitAssumption, EmptyFacts
  DEF Init, IInv, TypeOK, PanelInv, Delivery, Apart, Trimming, Creating, Ticking, Cleared,
      SinkTaking, SinkPutting, Moved, All, EndsAt, Stored, Entries

LEMMA TypeStep == TypeOK /\ [Next]_vars => TypeOK'
<1> SUFFICES ASSUME TypeOK, [Next]_vars PROVE TypeOK'
  OBVIOUS
<1> USE ThreadAssumption, LimitAssumption
<1>1. ASSUME NEW t \in Thread, AddLog(t) PROVE TypeOK'
  BY <1>1 DEF AddLog, TypeOK, recordVars, panelVars
<1>2. CASE SinkTests
  BY <1>2 DEF SinkTests, TypeOK, recordVars, panelVars
<1>3. CASE SinkTakes
  BY <1>3 DEF SinkTakes, TypeOK, recordVars, panelVars
<1>4. CASE SinkPuts
  <2>1. Rest(seen) \in Entries /\ <<>> \in Entries
    BY RestType, EmptyFacts DEF TypeOK, Entries
  <2> QED
    BY <1>4, <2>1 DEF SinkPuts, TypeOK, panelVars
<1>5. CASE AppendReads
  BY <1>5 DEF AppendReads, TypeOK, recordVars, panelVars
<1>6. CASE AppendStores
  <2>1. emitted \in 1..MaxEntries
    BY <1>6 DEF AppendStores, TypeOK
  <2>2. Append(seen, emitted) \in Entries /\ <<>> \in Entries
    BY <2>1, AppendFacts, EmptyFacts DEF TypeOK, Entries
  <2> QED
    BY <1>6, <2>2 DEF AppendStores, TypeOK, panelVars
<1>7. CASE Release
  BY <1>7 DEF Release, TypeOK, recordVars, panelVars
<1>8. CASE CreatePanel
  <2>1. raced' \subseteq 1..emitted
    BY <1>8 DEF CreatePanel, TypeOK
  <2> QED
    BY <1>8, <2>1 DEF CreatePanel, TypeOK, recordVars, sinkVars
<1>9. CASE Timer
  <2>1. raced' \subseteq 1..emitted
    BY <1>9 DEF Timer, TypeOK
  <2> QED
    BY <1>9, <2>1 DEF Timer, TypeOK, recordVars, sinkVars
<1>10. CASE MoveReads
  <2>1. history \o logs \in Entries
    BY ConcatFacts DEF TypeOK, Entries
  <2> QED
    BY <1>10, <2>1 DEF MoveReads, TypeOK, recordVars, sinkVars
<1>11. CASE MoveStores
  BY <1>11, EmptyFacts DEF MoveStores, TypeOK, sinkVars, Entries
<1>12. CASE ClearLogs
  BY <1>12 DEF ClearLogs, TypeOK, sinkVars, Entries
<1>13. CASE TrimTests
  BY <1>13 DEF TrimTests, TypeOK, recordVars, sinkVars
<1>14. CASE TrimTakes
  BY <1>14 DEF TrimTakes, TypeOK, recordVars, sinkVars
<1>15. CASE TrimPuts
  <2>1. Rest(held) \in Entries /\ <<>> \in Entries
    BY RestType, EmptyFacts DEF TypeOK, Entries
  <2> QED
    BY <1>15, <2>1 DEF TrimPuts, TypeOK, sinkVars
<1>16. CASE ShowLogs
  <2>1. console \o (IF panel = "creating" THEN history ELSE taken) \in Entries
    BY ConcatFacts DEF TypeOK, Entries
  <2> QED
    BY <1>16, <2>1 DEF ShowLogs, TypeOK, recordVars, sinkVars, Entries
<1>17. CASE UNCHANGED vars
  BY <1>17 DEF vars, TypeOK, recordVars, sinkVars, panelVars
<1> QED
  BY <1>1, <1>2, <1>3, <1>4, <1>5, <1>6, <1>7, <1>8, <1>9, <1>10, <1>11, <1>12, <1>13,
     <1>14, <1>15, <1>16, <1>17
  DEF Next, Sink, SinkTrims, Read, ReadTrims

-----------------------------------------------------------------------------
(* The steps, as far as they concern the entries stored and the panel. *)

LEMMA StoredFacts == TypeOK => Stored \in Nat
  BY DEF TypeOK, Stored

(* Only the store of addLog changes which entries are stored. *)
LEMMA StoredStep == TypeOK /\ [Next]_vars /\ ~AppendStores => Stored' = Stored
<1> SUFFICES ASSUME TypeOK, [Next]_vars, ~AppendStores PROVE Stored' = Stored
  OBVIOUS
<1>1. ASSUME NEW t \in Thread, AddLog(t) PROVE Stored' = Stored
  BY <1>1 DEF AddLog, TypeOK, Stored
<1>2. CASE SinkTrims \/ AppendReads \/ Release
  BY <1>2 DEF SinkTrims, SinkTests, SinkTakes, SinkPuts, AppendReads, Release, Stored
<1>3. CASE CreatePanel \/ Timer \/ Read
  BY <1>3 DEF CreatePanel, Timer, Read, MoveReads, MoveStores, ClearLogs, ReadTrims, TrimTests,
     TrimTakes, TrimPuts, ShowLogs, Stored, sinkVars
<1>4. CASE UNCHANGED vars
  BY <1>4 DEF vars, sinkVars, Stored
<1> QED
  BY <1>1, <1>2, <1>3, <1>4 DEF Next, Sink

LEMMA RacedGrows == [Next]_vars /\ raced' = {} => raced = {}
  BY DEF Next, Sink, SinkTrims, SinkTests, SinkTakes, SinkPuts, Release, Read, ReadTrims,
         AddLog, AppendReads, AppendStores, CreatePanel, Timer, MoveReads, MoveStores,
         ClearLogs, TrimTests, TrimTakes, TrimPuts, ShowLogs, vars

(* How many entries a removal meets and stores back, whatever races; while *)
(* the panel is created, neither thread starts one from a list that the    *)
(* other has left shorter than the limit, so one too many is the most.     *)
LengthInv ==
  /\ SinkTaking \/ SinkPutting => Len(history) >= MaxLogs - 1
  /\ SinkPutting => Len(seen) >= MaxLogs - 1
  /\ SinkTaking /\ Len(history) < MaxLogs => reader \notin {"take", "put"}
  /\ reader = "take" => Len(history) >= MaxLogs - 2
  /\ reader = "take" /\ Len(history) < MaxLogs => ~SinkTaking /\ ~SinkPutting
  /\ reader = "put" /\ Len(held) < MaxLogs =>
       Len(history) <= Len(held) /\ ~SinkTaking /\ ~SinkPutting
  /\ reader = "store" /\ (SinkTaking \/ SinkPutting) => Len(held) >= MaxLogs - 1
  /\ reader = "store" /\ Len(history) >= MaxLogs => Len(held) >= MaxLogs - 1
  /\ panel = "creating" =>
       /\ reader = "take" => Len(history) >= MaxLogs - 1
       /\ reader = "put" => Len(held) >= MaxLogs - 1
       /\ SinkPutting /\ Len(seen) < MaxLogs =>
            Len(history) < MaxLogs /\ reader \notin {"take", "put"}

LEMMA LengthStep == TypeOK /\ PanelInv /\ LengthInv /\ [Next]_vars => LengthInv'
<1> SUFFICES ASSUME TypeOK, PanelInv, LengthInv, [Next]_vars PROVE LengthInv'
  OBVIOUS
<1>0. /\ Len(history) \in Nat /\ Len(seen) \in Nat /\ Len(held) \in Nat
      /\ MaxLogs \in Nat /\ MaxLogs > 2
  BY LimitAssumption DEF TypeOK, Entries
<1> USE <1>0 DEF LengthInv, SinkTaking, SinkPutting
<1>1. ASSUME NEW t \in Thread, AddLog(t) PROVE LengthInv'
  BY <1>1 DEF AddLog, recordVars, panelVars
<1>2. CASE SinkTests
  BY <1>2 DEF SinkTests, recordVars, panelVars
<1>3. CASE SinkTakes
  BY <1>3 DEF SinkTakes, recordVars, panelVars
<1>4. CASE SinkPuts
  <2>1. Len(history') = Len(seen) - 1
    BY <1>4, RestFacts DEF SinkPuts, TypeOK, Entries
  <2>2. UNCHANGED <<held, panel, reader>>
    BY <1>4 DEF SinkPuts, panelVars
  <2>3. SinkPutting /\ ~SinkTaking /\ ~SinkTaking' /\ ~SinkPutting'
    BY <1>4 DEF SinkPuts
  <2> QED
    BY <2>1, <2>2, <2>3
<1>5. CASE AppendReads
  BY <1>5 DEF AppendReads, recordVars, panelVars
<1>6. CASE AppendStores
  BY <1>6 DEF AppendStores, panelVars
<1>7. CASE Release
  BY <1>7 DEF Release, recordVars, panelVars
<1>8. CASE CreatePanel
  BY <1>8 DEF CreatePanel, recordVars, sinkVars, PanelInv
<1>9. CASE Timer
  BY <1>9 DEF Timer, recordVars, sinkVars
<1>10. CASE MoveReads
  <2>1. Len(held') >= Len(history) /\ Len(held') \in Nat
    BY <1>10, ConcatFacts DEF MoveReads, TypeOK, Entries
  <2>2. reader' = "store" /\ UNCHANGED <<history, sinkStep, seen, panel>>
    BY <1>10 DEF MoveReads, recordVars, sinkVars
  <2>3. panel = "creating" => Len(history) = 0
    BY <1>10 DEF MoveReads, PanelInv
  <2> QED
    BY <2>1, <2>2, <2>3
<1>11. CASE MoveStores
  <2>1. /\ reader = "store" /\ reader' = "clear" /\ history' = held
        /\ UNCHANGED <<sinkStep, seen, panel>>
    BY <1>11 DEF MoveStores, sinkVars
  <2>2. panel = "creating" => Len(history) = 0
    BY <2>1 DEF PanelInv
  <2> QED
    BY <2>1, <2>2
<1>12. CASE ClearLogs
  BY <1>12 DEF ClearLogs, sinkVars
<1>13. CASE TrimTests
  BY <1>13 DEF TrimTests, recordVars, sinkVars
<1>14. CASE TrimTakes
  BY <1>14 DEF TrimTakes, recordVars, sinkVars
<1>15. CASE TrimPuts
  <2>1. Len(held) >= 1 => Len(history') = Len(held) - 1
    BY <1>15, RestFacts DEF TrimPuts, TypeOK, Entries
  <2>2. Len(history') \in Nat
    BY TypeStep DEF TypeOK, Entries
  <2>3. Len(held) < 1 => Len(history') = 0
    BY <1>15, <2>2 DEF TrimPuts, TypeOK, Entries, Rest
  <2>4. reader = "put" /\ reader' = "trim" /\ UNCHANGED <<sinkStep, seen, panel>>
    BY <1>15 DEF TrimPuts, sinkVars
  <2> QED
    BY <2>1, <2>2, <2>3, <2>4
<1>16. CASE ShowLogs
  BY <1>16 DEF ShowLogs, recordVars, sinkVars
<1>17. CASE UNCHANGED vars
  BY <1>17 DEF vars, recordVars, sinkVars, panelVars
<1> QED
  BY <1>1, <1>2, <1>3, <1>4, <1>5, <1>6, <1>7, <1>8, <1>9, <1>10, <1>11, <1>12, <1>13,
     <1>14, <1>15, <1>16, <1>17
  DEF Next, Sink, SinkTrims, Read, ReadTrims

-----------------------------------------------------------------------------
(* The entries on their way to the panel. *)

LEMMA PanelStep == TypeOK /\ PanelInv /\ LengthInv /\ [Next]_vars => PanelInv'
<1> SUFFICES ASSUME TypeOK, PanelInv, LengthInv, [Next]_vars PROVE PanelInv'
  OBVIOUS
<1> USE DEF PanelInv
<1>1. ASSUME NEW t \in Thread, AddLog(t) PROVE PanelInv'
  BY <1>1 DEF AddLog, recordVars, panelVars
<1>2. CASE SinkTests \/ SinkTakes \/ AppendReads \/ AppendStores \/ Release
  BY <1>2 DEF SinkTests, SinkTakes, AppendReads, AppendStores, Release, recordVars, panelVars
<1>3. CASE SinkPuts
  <2>1. history # <<>>
    BY <1>3, LimitAssumption DEF SinkPuts, LengthInv, SinkPutting
  <2> QED
    BY <1>3, <2>1 DEF SinkPuts, panelVars
<1>4. CASE CreatePanel
  BY <1>4 DEF CreatePanel, recordVars
<1>5. CASE Timer
  BY <1>5 DEF Timer, recordVars
<1>6. CASE MoveReads \/ MoveStores \/ ClearLogs \/ ReadTrims \/ ShowLogs
  BY <1>6 DEF MoveReads, MoveStores, ClearLogs, ReadTrims, TrimTests, TrimTakes, TrimPuts,
     ShowLogs, recordVars
<1>7. CASE UNCHANGED vars
  BY <1>7 DEF vars, recordVars, panelVars
<1> QED
  BY <1>1, <1>2, <1>3, <1>4, <1>5, <1>6, <1>7 DEF Next, Sink, SinkTrims, Read

(* The next entry extends a list that ends at the newest one. *)
LEMMA EndsAtAppend ==
  ASSUME NEW list \in Entries, NEW e \in 1..MaxEntries, EndsAt(list, e - 1)
  PROVE  EndsAt(Append(list, e), e)
<1> DEFINE longer == Append(list, e)
<1>1. /\ Len(longer) = Len(list) + 1
      /\ \A i \in 1..Len(list) : longer[i] = list[i]
      /\ longer[Len(list) + 1] = e
  BY AppendFacts DEF Entries
<1> HIDE DEF longer
<1>2. \A i \in 1..Len(longer) : longer[i] = e - Len(longer) + i
  BY <1>1 DEF EndsAt, Entries
<1> QED
  BY <1>2 DEF EndsAt, longer

(* Dropping the oldest entry leaves a list that ends where it did. *)
LEMMA EndsAtRest ==
  ASSUME NEW list \in Entries, Len(list) >= 1, NEW e \in Int, EndsAt(list, e)
  PROVE  EndsAt(Rest(list), e)
<1>1. /\ Rest(list) \in Entries
      /\ Len(list) = 1 + Len(Rest(list))
      /\ \A i \in 1..Len(Rest(list)) : Rest(list)[i] = list[1 + i]
  BY RestFacts DEF Entries
<1> DEFINE rest == Rest(list)
<1>2. Len(rest) \in Nat
  BY <1>1 DEF Entries
<1> HIDE DEF rest
<1>3. ASSUME NEW i \in 1..Len(rest)
      PROVE  rest[i] = e - Len(rest) + i
  <2>1. 1 + i \in 1..Len(list) /\ e - Len(list) + (1 + i) = e - Len(rest) + i
    BY <1>1, <1>2 DEF rest
  <2> QED
    BY <1>1, <2>1 DEF EndsAt, rest
<1> QED
  BY <1>3 DEF EndsAt, rest

LEMMA DeliveryStep == IInv /\ [Next]_vars /\ raced' = {} => Delivery'
<1> SUFFICES ASSUME IInv, [Next]_vars, raced' = {} PROVE Delivery'
  OBVIOUS
<1>0. TypeOK /\ PanelInv /\ Apart /\ Trimming /\ Creating /\ Ticking /\ Cleared
  BY RacedGrows DEF IInv, Delivery
<1> USE <1>0
<1>1. ASSUME NEW t \in Thread, AddLog(t) PROVE Delivery'
  <2>1. reader = "idle" /\ panel # "creating"
    BY <1>1 DEF AddLog, PanelInv
  <2>2. Stored' = Stored
    BY <1>1, StoredStep DEF AddLog, AppendStores, TypeOK
  <2>3. /\ UNCHANGED <<logs, history, seen, panel, reader, held, taken, console>>
        /\ sinkStep' = "trim"
    BY <1>1 DEF AddLog, recordVars, panelVars
  <2> QED
    BY <2>1, <2>2, <2>3
    DEF Delivery, Apart, Trimming, Creating, Ticking, Cleared, SinkTaking, SinkPutting, Moved,
        All, Complete, EndsAt
<1>2. CASE SinkTests \/ AppendReads \/ Release
  <2>1. UNCHANGED <<logs, history, panel, reader, held, taken, console>>
    BY <1>2 DEF SinkTests, AppendReads, Release, recordVars, panelVars
  <2>2. Stored' = Stored
    BY <1>2, StoredStep DEF SinkTests, AppendReads, Release, AppendStores
  <2>3. reader = "idle" /\ Len(history) < MaxLogs
    BY <1>2 DEF SinkTests, AppendReads, Release, TypeOK, Apart, Trimming
  <2>4. /\ sinkStep' \in {"append", "store", "release", "out"}
        /\ sinkStep' = "store" => seen' = logs
    BY <1>2, <2>3, LimitAssumption DEF SinkTests, AppendReads, Release, TypeOK, Entries
  <2> QED
    BY <2>1, <2>2, <2>3, <2>4
    DEF Delivery, Apart, Trimming, Creating, Ticking, Cleared, SinkTaking, SinkPutting, Moved,
        All, Complete, EndsAt, PanelInv
<1>3. CASE SinkTakes \/ SinkPuts
  BY <1>3 DEF SinkTakes, SinkPuts, Apart, SinkTaking, SinkPutting
<1>4. CASE AppendStores
  <2>1. sink # Nobody /\ reader = "idle" /\ seen = logs
    BY <1>4 DEF AppendStores, TypeOK, Apart
  <2>2. /\ logs' = Append(logs, emitted)
        /\ UNCHANGED <<emitted, history, panel, reader, held, taken, console>>
        /\ sinkStep = "store" /\ sinkStep' = "last"
    BY <1>4, <2>1 DEF AppendStores, panelVars
  <2>3. Stored = emitted - 1 /\ Stored' = emitted /\ emitted \in 1..MaxEntries
    BY <2>1, <2>2 DEF Stored, TypeOK
  <2>4. panel = "absent" => All(logs)'
    <3> SUFFICES ASSUME All(logs) PROVE All(logs)'
      BY DEF Creating
    <3>1. EndsAt(logs', emitted)
      BY <2>2, <2>3, EndsAtAppend DEF All, TypeOK
    <3>2. Len(logs') = emitted
      BY <2>2, <2>3, AppendFacts DEF All, TypeOK, Entries
    <3> QED
      BY <2>3, <3>1, <3>2 DEF All, EndsAt
  <2>5. panel = "shown" => Complete(console \o logs)'
    <3> SUFFICES ASSUME Complete(console \o logs) PROVE Complete(console \o logs)'
      BY <2>1 DEF Ticking
    <3> DEFINE list == console \o logs
    <3>1. list \in Entries
      BY ConcatFacts DEF TypeOK, Entries
    <3>2. console' \o logs' = Append(list, emitted)
      BY <2>2, <2>3, ConcatAppend DEF TypeOK, Entries
    <3>3. EndsAt(Append(list, emitted), emitted)
      BY <3>1, <2>3, EndsAtAppend DEF Complete
    <3>4. Len(Append(list, emitted)) = Len(list) + 1 /\ Len(list) \in Nat
      BY <3>1, <2>3, AppendFacts DEF Entries
    <3>5. Len(list) < emitted - 1 => Len(console) >= MaxLogs - 1
      BY <2>3 DEF Complete
    <3> HIDE DEF list
    <3>6. Len(Append(list, emitted)) < emitted => Len(console) >= MaxLogs - 1
      BY <2>3, <3>4, <3>5
    <3>7. EndsAt(console' \o logs', Stored')
      BY <2>3, <3>2, <3>3
    <3> QED
      BY <2>2, <2>3, <3>2, <3>6, <3>7 DEF Complete, EndsAt
  <2> QED
    BY <2>1, <2>2, <2>4, <2>5
    DEF Delivery, Apart, Trimming, Creating, Ticking, Cleared, SinkTaking, SinkPutting, Moved,
        PanelInv
<1>5. CASE CreatePanel
  <2>1. sink = Nobody /\ raced' = raced /\ reader' = "append" /\ panel' = "creating"
    BY <1>5 DEF CreatePanel
  <2>2. UNCHANGED <<emitted, sink, sinkStep, seen, logs, history, held, taken, console>>
    BY <1>5 DEF CreatePanel, recordVars, sinkVars
  <2>3. Stored' = Stored
    BY <2>2 DEF Stored
  <2>4. All(logs)'
    BY <1>5, <2>2, <2>3 DEF CreatePanel, Creating, All, EndsAt
  <2> QED
    BY <2>1, <2>2, <2>4
    DEF Delivery, Apart, Trimming, Creating, Ticking, Cleared, SinkTaking, SinkPutting, Moved
<1>6. CASE Timer
  <2>1. sink = Nobody /\ reader' = "append" /\ panel' = "shown"
    BY <1>6 DEF Timer
  <2>2. UNCHANGED <<emitted, sink, sinkStep, seen, logs, history, panel, held, console>>
    BY <1>6 DEF Timer, recordVars, sinkVars
  <2>3. Stored' = Stored /\ taken' = logs /\ panel = "shown" /\ reader = "idle"
    BY <1>6, <2>2 DEF Timer, Stored
  <2>4. Complete(console \o taken)'
    BY <2>2, <2>3 DEF Ticking, Complete, EndsAt
  <2> QED
    BY <2>1, <2>2, <2>4
    DEF Delivery, Apart, Trimming, Creating, Ticking, Cleared, SinkTaking, SinkPutting, Moved
<1>7. CASE MoveReads
  <2>1. /\ UNCHANGED <<emitted, sink, sinkStep, seen, logs, history, panel, taken, console>>
        /\ reader = "append" /\ reader' = "store" /\ held' = history \o logs
    BY <1>7 DEF MoveReads, recordVars, sinkVars
  <2>2. Stored' = Stored
    BY <2>1 DEF Stored
  <2>3. sink = Nobody /\ panel # "absent"
    BY <2>1 DEF Apart, PanelInv
  <2>4. panel = "creating" => Full(held)'
    <3>1. panel = "creating" => held' = logs /\ All(logs)
      BY <2>1, EmptyFacts DEF PanelInv, Creating, TypeOK, Entries
    <3> QED
      BY <3>1, <2>2, StoredFacts DEF All, Full, EndsAt
  <2>5. panel = "shown" => Complete(console \o taken)'
    BY <2>1, <2>2 DEF Ticking, Complete, EndsAt
  <2> QED
    BY <2>1, <2>3, <2>4, <2>5
    DEF Delivery, Apart, Trimming, Creating, Ticking, Cleared, SinkTaking, SinkPutting, Moved
<1>8. CASE MoveStores
  <2>1. /\ UNCHANGED <<emitted, sink, sinkStep, seen, logs, panel, taken, console>>
        /\ reader = "store" /\ reader' = "clear" /\ history' = held
    BY <1>8 DEF MoveStores, sinkVars
  <2>2. Stored' = Stored
    BY <2>1 DEF Stored
  <2>3. sink = Nobody /\ panel # "absent"
    BY <2>1 DEF Apart, PanelInv
  <2>4. panel = "creating" => Full(history)'
    BY <2>1, <2>2 DEF Creating, Full, EndsAt
  <2>5. panel = "shown" => Complete(console \o taken)'
    BY <2>1, <2>2 DEF Ticking, Complete, EndsAt
  <2> QED
    BY <2>1, <2>3, <2>4, <2>5
    DEF Delivery, Apart, Trimming, Creating, Ticking, Cleared, SinkTaking, SinkPutting, Moved
<1>9. CASE ClearLogs \/ TrimTests \/ TrimTakes
  <2>1. /\ UNCHANGED <<emitted, sink, sinkStep, seen, history, panel, taken, console>>
        /\ reader \in {"clear", "trim", "take"} /\ reader' \in {"trim", "take", "put", "return"}
    BY <1>9 DEF ClearLogs, TrimTests, TrimTakes, recordVars, sinkVars
  <2>2. Stored' = Stored
    BY <2>1 DEF Stored
  <2>3. sink = Nobody /\ panel # "absent"
    BY <2>1 DEF Apart, PanelInv
  <2>4. panel = "creating" => Full(history)'
    BY <2>1, <2>2 DEF Creating, Moved, Full, EndsAt
  <2>5. panel = "shown" => Complete(console \o taken)'
    BY <2>1, <2>2 DEF Ticking, Complete, EndsAt
  <2>6. logs' = <<>>
    BY <1>9 DEF ClearLogs, TrimTests, TrimTakes, Cleared, recordVars
  <2>7. Trimming'
    BY <1>9, LimitAssumption
    DEF ClearLogs, TrimTests, TrimTakes, Trimming, recordVars, TypeOK, Entries
  <2>8. Apart'
    BY <2>1, <2>3 DEF Apart, TypeOK, SinkTaking, SinkPutting
  <2>9. Creating' /\ Ticking' /\ Cleared'
    BY <2>1, <2>3, <2>4, <2>5, <2>6 DEF Creating, Ticking, Cleared
  <2> QED
    BY <2>7, <2>8, <2>9 DEF Delivery
<1>10. CASE TrimPuts
  <2>1. /\ UNCHANGED <<emitted, sink, sinkStep, seen, logs, panel, taken, console>>
        /\ reader = "put" /\ reader' = "trim" /\ history' = Rest(history)
    BY <1>10 DEF TrimPuts, sinkVars, Trimming
  <2>2. Stored' = Stored
    BY <2>1 DEF Stored
  <2>3. sink = Nobody /\ panel # "absent" /\ logs = <<>>
    BY <2>1 DEF Apart, PanelInv, Cleared
  <2>4. panel = "creating" => Full(history)'
    <3> SUFFICES ASSUME panel = "creating" PROVE Full(history)'
      OBVIOUS
    <3>1. Full(history) /\ Len(history) >= MaxLogs /\ history \in Entries
      BY <2>1 DEF Creating, Moved, Trimming, TypeOK
    <3>2. Len(history) \in Nat /\ Len(history) >= 1
      BY <3>1, LimitAssumption DEF Entries
    <3>3. EndsAt(history', Stored')
      BY <2>1, <2>2, <3>1, <3>2, StoredFacts, EndsAtRest DEF Full
    <3>4. Len(history) = 1 + Len(history')
      BY <2>1, <3>1, <3>2, RestFacts DEF Entries
    <3>5. Len(history') >= MaxLogs - 1
      <4>1. Len(history') \in Nat
        BY <2>1, <3>1, RestType DEF Entries
      <4> QED
        BY <3>1, <3>2, <3>4, <4>1, LimitAssumption
    <3> QED
      BY <3>3, <3>5 DEF Full, EndsAt
  <2>5. panel = "shown" => Complete(console \o taken)'
    BY <2>1, <2>2 DEF Ticking, Complete, EndsAt
  <2> QED
    BY <2>1, <2>3, <2>4, <2>5
    DEF Delivery, Apart, Trimming, Creating, Ticking, Cleared, SinkTaking, SinkPutting, Moved
<1>11. CASE ShowLogs
  <2>1. /\ UNCHANGED <<emitted, sink, sinkStep, seen, logs, history>>
        /\ reader = "return" /\ reader' = "idle" /\ panel' = "shown"
    BY <1>11 DEF ShowLogs, recordVars, sinkVars
  <2>2. Stored' = Stored
    BY <2>1 DEF Stored
  <2>3. sink = Nobody /\ logs = <<>> /\ Len(history) < MaxLogs
    BY <2>1 DEF Apart, Cleared, Trimming
  <2>4. console' \in Entries
    BY TypeStep DEF TypeOK
  <2>5. console' \o logs' = console'
    BY <2>1, <2>3, <2>4, EmptyFacts DEF Entries
  <2>6. EndsAt(console', Stored) /\ (Len(console') < Stored => Len(console') >= MaxLogs - 1)
    <3>1. CASE panel = "creating"
      <4>1. console' = history
        BY <1>11, <3>1, EmptyFacts DEF ShowLogs, PanelInv, TypeOK, Entries
      <4> QED
        BY <2>1, <3>1, <4>1 DEF Creating, Moved, Full
    <3>2. CASE panel = "shown"
      <4>1. console' = console \o taken
        BY <1>11, <3>2 DEF ShowLogs
      <4>2. Complete(console \o taken)
        BY <2>1, <3>2 DEF Ticking
      <4>3. Len(console \o taken) >= Len(console)
        BY ConcatFacts DEF TypeOK, Entries
      <4>4. Len(console) \in Nat /\ Len(console \o taken) \in Nat
        BY ConcatFacts DEF TypeOK, Entries
      <4> QED
        BY <4>1, <4>2, <4>3, <4>4, LimitAssumption DEF Complete
    <3> QED
      BY <3>1, <3>2, <2>1 DEF TypeOK, PanelInv
  <2>7. Complete(console \o logs)'
    BY <2>2, <2>5, <2>6 DEF Complete, EndsAt
  <2> QED
    BY <2>1, <2>3, <2>7
    DEF Delivery, Apart, Trimming, Creating, Ticking, Cleared, SinkTaking, SinkPutting, Moved
<1>12. CASE UNCHANGED vars
  BY <1>12 DEF vars, recordVars, sinkVars, panelVars, Delivery, Apart, Trimming, Creating,
     Ticking, Cleared, SinkTaking, SinkPutting, Moved, All, Full, Complete, EndsAt, Stored
<1> QED
  BY <1>1, <1>2, <1>3, <1>4, <1>5, <1>6, <1>7, <1>8, <1>9, <1>10, <1>11, <1>12
  DEF Next, Sink, SinkTrims, Read, ReadTrims

-----------------------------------------------------------------------------
(* The invariants, in every state of every behaviour. *)
THEOREM InvariantHolds == Spec => [](IInv /\ LengthInv)
<1>1. Init => IInv /\ LengthInv
  BY InitHolds, EmptyFacts DEF Init, LengthInv, SinkTaking, SinkPutting
<1>2. IInv /\ LengthInv /\ [Next]_vars => (IInv /\ LengthInv)'
  BY TypeStep, PanelStep, LengthStep, DeliveryStep DEF IInv
<1> QED
  BY <1>1, <1>2, PTL DEF Spec

(* Every variable of the record, the sink and the panel keeps its type,    *)
(* whatever number of threads log.                                         *)
THEOREM TypeCorrect == Spec => []TypeOK
<1>1. IInv => TypeOK
  BY DEF IInv
<1> QED
  BY <1>1, InvariantHolds, PTL

(* As long as no addLog overlaps a read, the panel shows every entry once  *)
(* and in order, for any limit above two and any number of entries.        *)
THEOREM LogIsComplete == Spec => []CompleteUnlessRaced
<1>1. IInv => CompleteUnlessRaced
  BY DEF IInv, CompleteUnlessRaced, ConsoleIsComplete, Delivery, Ticking, Complete, Shown
<1> QED
  BY <1>1, InvariantHolds, PTL

(* No removal meets an empty list, whatever threads log and whatever the   *)
(* other thread removes between the test and the removal.                  *)
THEOREM NoEmptyRemoval == Spec => []RemovesAnEntry
<1>1. IInv /\ LengthInv => RemovesAnEntry
  BY LimitAssumption DEF IInv, TypeOK, LengthInv, SinkTaking, RemovesAnEntry, Entries
<1> QED
  BY <1>1, InvariantHolds, PTL

(* On the GUI thread alone nothing ever races. *)
GuiOnly ==
  /\ raced = {}
  /\ reader # "idle" => sink = Nobody
  /\ TypeOK

(* A program that logs on the GUI thread only loses and repeats nothing.   *)
THEOREM LogIsCompleteOnGui ==
  ASSUME Thread = {Gui}
  PROVE  Spec => []ConsoleIsComplete
<1>1. Init => GuiOnly
  BY InitHolds DEF Init, GuiOnly, IInv
<1>2. GuiOnly /\ [Next]_vars => GuiOnly'
  <2> SUFFICES ASSUME GuiOnly, [Next]_vars PROVE GuiOnly'
    OBVIOUS
  <2>1. TypeOK'
    BY TypeStep DEF GuiOnly
  <2>2. sink = Nobody \/ sink = Gui
    BY DEF GuiOnly, TypeOK
  <2>3. /\ raced' = {}
        /\ reader' # "idle" => sink' = Nobody
    BY <2>2 DEF GuiOnly, TypeOK, Next, Sink, SinkTrims, SinkTests, SinkTakes, SinkPuts, Release,
       Read, ReadTrims, AddLog, AppendReads, AppendStores, CreatePanel, Timer, MoveReads,
       MoveStores, ClearLogs, TrimTests, TrimTakes, TrimPuts, ShowLogs, vars, recordVars,
       sinkVars, panelVars
  <2> QED
    BY <2>1, <2>3 DEF GuiOnly
<1>3. GuiOnly /\ CompleteUnlessRaced => ConsoleIsComplete
  BY DEF GuiOnly, CompleteUnlessRaced
<1> QED
  BY <1>1, <1>2, <1>3, LogIsComplete, PTL DEF Spec

-----------------------------------------------------------------------------
(* The history, when nothing races *)

(* A list is the newest part of another: all of it, or as much as the trim *)
(* leaves at least.                                                        *)
Newest(part, list) ==
  /\ Len(part) <= Len(list)
  /\ \A i \in 1..Len(part) : part[i] = list[Len(list) - Len(part) + i]
  /\ Len(part) < Len(list) => Len(part) >= MaxLogs - 1

TailInv ==
  raced = {} /\ panel = "shown" =>
    /\ reader \in {"idle", "append"} => Newest(history, console)
    /\ reader \in {"append", "store"} => taken = logs
    /\ reader = "store" => Newest(held, console \o taken)
    /\ Moved => Newest(history, console \o taken)

(* The entries of a tick go to the history and to the panel alike.         *)
LEMMA NewestConcat ==
  ASSUME NEW S, NEW h \in Seq(S), NEW c \in Seq(S), NEW t \in Seq(S),
         Len(h) <= Len(c), \A i \in 1..Len(h) : h[i] = c[Len(c) - Len(h) + i]
  PROVE  /\ Len(h \o t) <= Len(c \o t)
         /\ \A i \in 1..Len(h \o t) : (h \o t)[i] = (c \o t)[Len(c \o t) - Len(h \o t) + i]
<1> DEFINE ht == h \o t
           ct == c \o t
           d == Len(c) - Len(h)
<1>1. /\ Len(ht) = Len(h) + Len(t)
      /\ \A i \in 1..Len(h) : ht[i] = h[i]
      /\ \A i \in 1..Len(t) : ht[Len(h) + i] = t[i]
  BY ConcatFacts
<1>2. /\ Len(ct) = Len(c) + Len(t)
      /\ \A i \in 1..Len(c) : ct[i] = c[i]
      /\ \A i \in 1..Len(t) : ct[Len(c) + i] = t[i]
  BY ConcatFacts
<1>3. Len(h) \in Nat /\ Len(c) \in Nat /\ Len(t) \in Nat
  OBVIOUS
<1> HIDE DEF ht, ct
<1>4. Len(ct) - Len(ht) = d /\ d \in Nat
  BY <1>1, <1>2, <1>3
<1>5. ASSUME NEW i \in 1..Len(ht)
      PROVE  ht[i] = ct[d + i]
  <2>1. CASE i <= Len(h)
    <3>1. i \in 1..Len(h) /\ d + i \in 1..Len(c)
      BY <1>3, <1>5, <2>1
    <3> QED
      BY <1>1, <1>2, <3>1
  <2>2. CASE i > Len(h)
    <3> DEFINE j == i - Len(h)
    <3>1. j \in 1..Len(t) /\ Len(h) + j = i /\ Len(c) + j = d + i
      BY <1>1, <1>3, <1>5, <2>2
    <3> HIDE DEF j, d
    <3>2. ht[Len(h) + j] = t[j] /\ ct[Len(c) + j] = t[j]
      BY <1>1, <1>2, <3>1
    <3> QED
      BY <3>1, <3>2
  <2> QED
    BY <1>3, <1>5, <2>1, <2>2
<1> QED
  BY <1>1, <1>2, <1>3, <1>4, <1>5 DEF ht, ct

LEMMA NewestRest ==
  ASSUME NEW part \in Entries, NEW list \in Entries, Newest(part, list), Len(part) >= MaxLogs
  PROVE  Newest(Rest(part), list)
<1> DEFINE rest == Rest(part)
<1>1. Len(part) \in Nat /\ Len(list) \in Nat /\ Len(part) >= 1
  BY LimitAssumption DEF Entries
<1>2. /\ rest \in Entries /\ Len(part) = 1 + Len(rest)
      /\ \A i \in 1..Len(rest) : rest[i] = part[1 + i]
  BY <1>1, RestFacts DEF Entries
<1>3. Len(rest) \in Nat
  BY <1>2 DEF Entries
<1> HIDE DEF rest
<1>4. ASSUME NEW i \in 1..Len(rest)
      PROVE  rest[i] = list[Len(list) - Len(rest) + i]
  <2>1. 1 + i \in 1..Len(part) /\ Len(list) - Len(part) + (1 + i) = Len(list) - Len(rest) + i
    BY <1>1, <1>2, <1>3
  <2>2. part[1 + i] = list[Len(list) - Len(part) + (1 + i)]
    BY <2>1 DEF Newest
  <2> QED
    BY <1>2, <2>1, <2>2
<1>5. Len(rest) <= Len(list) /\ Len(rest) >= MaxLogs - 1
  BY <1>1, <1>2, <1>3, LimitAssumption DEF Newest
<1> QED
  BY <1>4, <1>5 DEF Newest, rest

LEMMA TailStep == IInv /\ TailInv /\ [Next]_vars => TailInv'
<1> SUFFICES ASSUME IInv, TailInv, [Next]_vars, raced' = {}, panel' = "shown"
             PROVE  /\ reader' \in {"idle", "append"} => Newest(history, console)'
                    /\ reader' \in {"append", "store"} => taken' = logs'
                    /\ reader' = "store" => Newest(held, console \o taken)'
                    /\ Moved' => Newest(history, console \o taken)'
  BY DEF TailInv
<1> USE LimitAssumption
<1>0. /\ raced = {} /\ Apart /\ Trimming /\ PanelInv /\ TypeOK
      /\ history \in Entries /\ console \in Entries /\ taken \in Entries /\ logs \in Entries
  BY RacedGrows DEF IInv, Delivery, TypeOK
<1>1. ASSUME \/ \E t \in Thread : AddLog(t)
             \/ SinkTests \/ AppendReads \/ AppendStores \/ Release
      PROVE  reader' = "idle" /\ Newest(history, console)'
  <2>1. reader = "idle"
    BY <1>1, <1>0 DEF AddLog, SinkTests, AppendReads, AppendStores, Release, Apart, TypeOK
  <2>2. UNCHANGED <<history, reader, panel, console>>
    BY <1>1 DEF AddLog, SinkTests, AppendReads, AppendStores, Release, recordVars, panelVars
  <2> QED
    BY <1>0, <2>1, <2>2 DEF TailInv, Newest
<1>2. ~SinkTakes /\ ~SinkPuts /\ ~CreatePanel
  BY <1>0 DEF SinkTakes, SinkPuts, CreatePanel, Apart, SinkTaking, SinkPutting
<1>3. CASE UNCHANGED vars
  <2>1. UNCHANGED <<logs, history, reader, panel, held, console, taken>>
    BY <1>3 DEF recordVars, panelVars, vars
  <2> QED
    BY <1>0, <2>1 DEF TailInv, Newest, Moved
<1>4. CASE Timer
  <2>1. /\ reader = "idle" /\ panel = "shown" /\ reader' = "append" /\ taken' = logs
        /\ UNCHANGED <<logs, history, console>>
    BY <1>4 DEF Timer, recordVars
  <2> QED
    BY <1>0, <2>1 DEF TailInv, Newest, Moved
<1>5. CASE MoveReads
  <2>1. /\ reader = "append" /\ panel = "shown" /\ reader' = "store"
        /\ held' = history \o logs /\ UNCHANGED <<logs, console, taken>>
    BY <1>5 DEF MoveReads, recordVars
  <2>2. Newest(history, console) /\ taken = logs
    BY <1>0, <2>1 DEF TailInv
  <2>3. /\ Len(held') <= Len(console \o taken)
        /\ \A i \in 1..Len(held') :
             held'[i] = (console \o taken)[Len(console \o taken) - Len(held') + i]
    BY <1>0, <2>1, <2>2, NewestConcat DEF Newest, Entries
  <2>4. /\ Len(held') = Len(history) + Len(taken)
        /\ Len(console \o taken) = Len(console) + Len(taken)
        /\ Len(history) \in Nat /\ Len(console) \in Nat /\ Len(taken) \in Nat
    BY <1>0, <2>1, <2>2, ConcatFacts DEF Entries
  <2>5. Len(held') < Len(console \o taken) => Len(held') >= MaxLogs - 1
    BY <2>2, <2>4 DEF Newest
  <2> QED
    BY <2>1, <2>2, <2>3, <2>5 DEF Newest, Moved
<1>6. CASE MoveStores
  <2>1. reader = "store" /\ panel = "shown" /\ reader' = "clear" /\ history' = held
        /\ UNCHANGED <<console, taken>>
    BY <1>6 DEF MoveStores
  <2> QED
    BY <1>0, <2>1 DEF TailInv, Newest
<1>7. CASE ClearLogs \/ TrimTests \/ TrimTakes
  <2>1. /\ Moved /\ panel = "shown" /\ reader' \in {"trim", "take", "put", "return"}
        /\ UNCHANGED <<history, console, taken>>
    BY <1>7 DEF ClearLogs, TrimTests, TrimTakes, recordVars, Moved
  <2> QED
    BY <1>0, <2>1 DEF TailInv, Newest
<1>8. CASE TrimPuts
  <2>1. /\ reader = "put" /\ panel = "shown" /\ reader' = "trim"
        /\ history' = Rest(history) /\ Len(history) >= MaxLogs
        /\ UNCHANGED <<console, taken>>
    BY <1>0, <1>8 DEF TrimPuts, Trimming
  <2>2. console \o taken \in Entries
    BY <1>0, ConcatFacts DEF Entries
  <2>3. Newest(history, console \o taken)
    BY <1>0, <2>1 DEF TailInv, Moved
  <2>4. Newest(Rest(history), console \o taken)
    BY <1>0, <2>1, <2>2, <2>3, NewestRest
  <2> QED
    BY <2>1, <2>4
<1>9. CASE ShowLogs
  <2>1. reader = "return" /\ reader' = "idle" /\ history' = history
    BY <1>9 DEF ShowLogs, recordVars
  <2>2. CASE panel = "creating"
    <3>1. console' = history
      BY <1>0, <1>9, <2>2, EmptyFacts DEF ShowLogs, PanelInv, Entries
    <3>2. Newest(history, history)
      BY <1>0 DEF Newest, Entries
    <3> QED
      BY <2>1, <3>1, <3>2 DEF Moved
  <2>3. CASE panel = "shown"
    <3>1. console' = console \o taken
      BY <1>9, <2>3 DEF ShowLogs
    <3>2. Newest(history, console \o taken)
      BY <1>0, <2>1, <2>3 DEF TailInv, Moved
    <3> QED
      BY <2>1, <3>1, <3>2 DEF Moved
  <2> QED
    BY <1>0, <2>1, <2>2, <2>3 DEF TypeOK, PanelInv
<1> QED
  BY <1>1, <1>2, <1>3, <1>4, <1>5, <1>6, <1>7, <1>8, <1>9
  DEF Next, Sink, SinkTrims, Read, ReadTrims, Moved

(* A suffix, element by element. *)
LEMMA SuffixFacts ==
  ASSUME NEW S, NEW s \in Seq(S), NEW t \in Seq(S), Len(s) <= Len(t),
         \A i \in 1..Len(s) : s[i] = t[Len(t) - Len(s) + i]
  PROVE  IsSuffix(s, t)
<1> DEFINE rs == Reverse(s)
           rt == Reverse(t)
<1>1. rs \in Seq(S) /\ Len(rs) = Len(s) /\ \A i \in 1..Len(s) : rs[i] = s[(Len(s) - i) + 1]
  BY DEF Reverse
<1>2. rt \in Seq(S) /\ Len(rt) = Len(t) /\ \A i \in 1..Len(t) : rt[i] = t[(Len(t) - i) + 1]
  BY DEF Reverse
<1> HIDE DEF rs, rt
<1>3. ASSUME NEW i \in 1..Len(s)
      PROVE  rs[i] = rt[i]
  <2>1. (Len(s) - i) + 1 \in 1..Len(s) /\ i \in 1..Len(t)
    OBVIOUS
  <2>2. Len(t) - Len(s) + ((Len(s) - i) + 1) = (Len(t) - i) + 1
    OBVIOUS
  <2> QED
    BY <1>1, <1>2, <2>1, <2>2
<1>4. /\ SubSeq(rs, 1, Len(rs)) = [i \in 1..Len(s) |-> rs[i]]
      /\ SubSeq(rt, 1, Len(rs)) = [i \in 1..Len(s) |-> rt[i]]
  BY <1>1, <1>2
<1> QED
  BY <1>1, <1>2, <1>3, <1>4 DEF IsSuffix, IsPrefix, rs, rt

(* What the history holds between two calls, if nothing races: the newest  *)
(* entries of the panel, as many as the trim leaves.                       *)
THEOREM HistoryIsNewest == Spec => []HistoryIsTail
<1>1. Init => TailInv
  BY DEF Init, TailInv
<1>2. IInv /\ TailInv => HistoryIsTail
  <2> SUFFICES ASSUME IInv, TailInv, raced = {}, panel = "shown", reader = "idle"
               PROVE  /\ IsSuffix(history, console)
                      /\ Len(history) =
                           IF Len(console) < MaxLogs THEN Len(console) ELSE MaxLogs - 1
    BY DEF HistoryIsTail
  <2>1. Newest(history, console) /\ Len(history) < MaxLogs /\ history \in Entries /\ console \in Entries
    BY DEF TailInv, IInv, Delivery, Trimming, TypeOK
  <2>2. IsSuffix(history, console)
    BY <2>1, SuffixFacts DEF Newest, Entries
  <2>3. Len(history) \in Nat /\ Len(console) \in Nat
    BY <2>1 DEF Entries
  <2> QED
    BY <2>1, <2>2, <2>3, LimitAssumption DEF Newest
<1> QED
  BY <1>1, <1>2, TailStep, InvariantHolds, PTL DEF Spec

-----------------------------------------------------------------------------
(* What no race can lose *)

Unraced == (1..Stored) \ raced

Older(e, list) == \A x \in ToSet(list) : e < x

(* An entry is in the list, or the list holds newer ones only. *)
Below(e, list) == e \in ToSet(list) \/ Older(e, list)

(* An entry that a full list has lost, to two trims at once perhaps. *)
Past(e, list) == Len(list) >= MaxLogs - 2 /\ Older(e, list)

(* What the next store may leave in _logs holds the entry or newer ones,   *)
(* though it starts from a list that was read before a clear.              *)
Waits(e) == Below(e, logs) /\ (sinkStep = "store" => Below(e, seen))

Increasing(list) == \A i, j \in 1..Len(list) : i < j => list[i] < list[j]

(* A list in order that has what its trims have left of the unraced.       *)
Holds(list) ==
  /\ Increasing(list)
  /\ \A e \in Unraced : e \in ToSet(list) \/ Past(e, list)

Overlap ==
  /\ reader # "idle" /\ sink # Nobody => emitted \in raced
  /\ sinkStep = "store" => seen = logs \/ logs = <<>>

Before ==
  panel = "absent" \/ (panel = "creating" /\ reader = "append") =>
    All(logs) /\ (sinkStep = "store" => seen = logs)

(* Every list that a step of either thread may yet store as the history.   *)
Filling ==
  panel = "creating" /\ reader # "append" =>
    /\ reader \in {"store", "put"} => Holds(held)
    /\ reader # "store" => Holds(history)
    /\ SinkPutting => Holds(seen)
    /\ \A e \in Unraced : Waits(e)

Reading ==
  panel = "shown" /\ reader # "idle" =>
    \A e \in Unraced : \/ e \in ToSet(console) \cup ToSet(taken)
                       \/ Past(e, console) /\ Older(e, taken) /\ Waits(e)

Showing ==
  panel = "shown" /\ reader = "idle" =>
    \A e \in Unraced : \/ e \in ToSet(console) \cup ToSet(logs)
                       \/ Past(e, console) /\ Waits(e)

KeepInv == Overlap /\ Before /\ Filling /\ Reading /\ Showing

LEMMA AppendSet ==
  ASSUME NEW S, NEW s \in Seq(S), NEW e \in S
  PROVE  ToSet(Append(s, e)) = ToSet(s) \cup {e}
<1> DEFINE a == Append(s, e)
<1>1. /\ DOMAIN a = (1..Len(s)) \cup {Len(s) + 1} /\ DOMAIN s = 1..Len(s)
      /\ \A i \in 1..Len(s) : a[i] = s[i]
      /\ a[Len(s) + 1] = e
  OBVIOUS
<1> HIDE DEF a
<1>2. ToSet(a) = ToSet(s) \cup {e}
  BY <1>1 DEF ToSet
<1> QED
  BY <1>2 DEF a

LEMMA ConcatSet ==
  ASSUME NEW S, NEW s \in Seq(S), NEW t \in Seq(S)
  PROVE  ToSet(s \o t) = ToSet(s) \cup ToSet(t)
<1> DEFINE st == s \o t
<1>1. /\ st \in Seq(S) /\ Len(st) = Len(s) + Len(t) /\ Len(s) \in Nat /\ Len(t) \in Nat
      /\ DOMAIN st = 1..Len(st) /\ DOMAIN s = 1..Len(s) /\ DOMAIN t = 1..Len(t)
      /\ \A i \in 1..Len(s) : st[i] = s[i]
      /\ \A i \in 1..Len(t) : st[Len(s) + i] = t[i]
  BY ConcatFacts
<1> HIDE DEF st
<1>2. ToSet(s) \subseteq ToSet(st)
  BY <1>1 DEF ToSet
<1>3. ASSUME NEW i \in DOMAIN t
      PROVE  t[i] \in ToSet(st)
  <2>1. Len(s) + i \in DOMAIN st
    BY <1>1
  <2> QED
    BY <1>1, <2>1 DEF ToSet
<1>4. ASSUME NEW k \in DOMAIN st
      PROVE  st[k] \in ToSet(s) \cup ToSet(t)
  <2>1. CASE k <= Len(s)
    BY <1>1, <2>1 DEF ToSet
  <2>2. CASE k > Len(s)
    <3> DEFINE i == k - Len(s)
    <3>1. i \in 1..Len(t) /\ Len(s) + i = k
      BY <1>1, <2>2
    <3> HIDE DEF i
    <3> QED
      BY <1>1, <3>1 DEF ToSet
  <2> QED
    BY <1>1, <2>1, <2>2
<1> QED
  BY <1>2, <1>3, <1>4 DEF ToSet, st

LEMMA ElementsIn ==
  ASSUME NEW S, NEW s \in Seq(S)
  PROVE  Len(s) \in Nat /\ DOMAIN s = 1..Len(s) /\ \A i \in 1..Len(s) : s[i] \in S
  OBVIOUS

(* A list in order that loses its oldest entry, but stays nearly full, has *)
(* lost nothing but what is older than the rest.                           *)
LEMMA HoldsRest ==
  ASSUME NEW list \in Entries, Len(list) >= MaxLogs - 1, Holds(list)
  PROVE  Holds(Rest(list))
<1> DEFINE rest == Rest(list)
<1>1. /\ Len(list) \in Nat /\ DOMAIN list = 1..Len(list) /\ Len(list) >= 1
      /\ \A i \in 1..Len(list) : list[i] \in 1..MaxEntries
  BY ElementsIn, LimitAssumption DEF Entries
<1>2. /\ rest \in Entries /\ Len(list) = 1 + Len(rest)
      /\ \A i \in 1..Len(rest) : rest[i] = list[1 + i]
  BY <1>1, RestFacts DEF Entries
<1>3. Len(rest) \in Nat /\ DOMAIN rest = 1..Len(rest)
  BY <1>2 DEF Entries
<1> HIDE DEF rest
<1>4. Len(rest) >= MaxLogs - 2
  BY <1>1, <1>2, <1>3, LimitAssumption
<1>5. Increasing(rest)
  <2> SUFFICES ASSUME NEW i \in 1..Len(rest), NEW j \in 1..Len(rest), i < j
               PROVE  rest[i] < rest[j]
    BY DEF Increasing
  <2>1. 1 + i \in 1..Len(list) /\ 1 + j \in 1..Len(list) /\ 1 + i < 1 + j
    BY <1>1, <1>2, <1>3
  <2>2. list[1 + i] < list[1 + j]
    BY <2>1 DEF Holds, Increasing
  <2> QED
    BY <1>2, <2>2
<1>6. \A x \in ToSet(rest) : x \in ToSet(list) /\ list[1] < x
  <2> SUFFICES ASSUME NEW i \in 1..Len(rest)
               PROVE  rest[i] \in ToSet(list) /\ list[1] < rest[i]
    BY <1>3 DEF ToSet
  <2>1. 1 + i \in 1..Len(list) /\ 1 \in 1..Len(list) /\ 1 < 1 + i
    BY <1>1, <1>2, <1>3
  <2>2. list[1] < list[1 + i]
    BY <2>1 DEF Holds, Increasing
  <2> QED
    BY <1>1, <1>2, <2>1, <2>2 DEF ToSet
<1>7. \A e \in ToSet(list) : e = list[1] \/ e \in ToSet(rest)
  <2> SUFFICES ASSUME NEW k \in 1..Len(list), k # 1
               PROVE  list[k] \in ToSet(rest)
    BY <1>1 DEF ToSet
  <2>1. k - 1 \in 1..Len(rest) /\ 1 + (k - 1) = k
    BY <1>1, <1>2, <1>3
  <2>2. rest[k - 1] = list[k]
    BY <1>2, <2>1
  <2> QED
    BY <1>3, <2>1, <2>2 DEF ToSet
<1>8. ASSUME NEW e \in Unraced
      PROVE  e \in ToSet(rest) \/ Past(e, rest)
  <2>1. e \in ToSet(list) \/ Past(e, list)
    BY DEF Holds
  <2> QED
    BY <1>4, <1>6, <1>7, <2>1 DEF Past, Older
<1> QED
  BY <1>5, <1>8 DEF Holds, rest

(* The entries that are all there are, in order, none missing.             *)
LEMMA AllFacts ==
  ASSUME NEW list \in Entries, Stored \in Nat, All(list)
  PROVE  Increasing(list) /\ 1..Stored \subseteq ToSet(list)
<1>1. /\ Len(list) = Stored /\ DOMAIN list = 1..Stored
      /\ \A i \in 1..Stored : list[i] = i
  BY DEF All, EndsAt, Entries
<1> QED
  BY <1>1 DEF Increasing, ToSet

LEMMA KeepAddLog ==
  ASSUME TypeOK, PanelInv, KeepInv, NEW t \in Thread, AddLog(t)
  PROVE  KeepInv'
<1>1. /\ sink = Nobody /\ sinkStep = "out" /\ sinkStep' = "trim" /\ emitted' = emitted + 1
      /\ UNCHANGED <<logs, history, seen, panel, reader, held, taken, console>>
      /\ raced' = IF reader = "idle" THEN raced ELSE raced \cup {emitted + 1}
  BY DEF AddLog, recordVars, panelVars, TypeOK
<1>2. Stored' = Stored /\ Stored = emitted /\ emitted \in Nat
  BY <1>1 DEF Stored, TypeOK
<1>3. Unraced' = Unraced
  <2>1. emitted + 1 \notin 1..Stored
    BY <1>2
  <2> QED
    BY <1>1, <1>2, <2>1 DEF Unraced
<1>4. \A e : Waits(e) => Waits(e)'
  BY <1>1 DEF Waits, Below, Older
<1>5. Overlap' /\ Before'
  BY <1>1, <1>2 DEF KeepInv, Overlap, Before, All, EndsAt
<1>6. Filling'
  BY <1>1, <1>3, <1>4
  DEF KeepInv, Filling, SinkPutting, Holds, Increasing, Past, Older
<1>7. Reading' /\ Showing'
  BY <1>1, <1>3, <1>4 DEF KeepInv, Reading, Showing, Past, Older
<1> QED
  BY <1>5, <1>6, <1>7 DEF KeepInv

LEMMA KeepSinkSteps ==
  ASSUME TypeOK, PanelInv, LengthInv, KeepInv, [Next]_vars, SinkTests \/ SinkTakes \/ AppendReads \/ Release
  PROVE  KeepInv'
<1>1. /\ UNCHANGED <<emitted, history, logs, panel, reader, held, taken, console, raced>>
      /\ sink' # Nobody => sink' = sink
      /\ sinkStep' = "store" => seen' = logs
      /\ SinkPutting' => seen' = history
  BY DEF SinkTests, SinkTakes, AppendReads, Release, recordVars, panelVars, SinkPutting
<1>2. Stored' = Stored
  BY StoredStep DEF SinkTests, SinkTakes, AppendReads, Release, AppendStores
<1>3. Unraced' = Unraced /\ \A e : Waits(e) => Waits(e)'
  BY <1>1, <1>2 DEF Unraced, Waits, Below, Older
<1>4. Overlap' /\ Before'
  BY <1>1, <1>2 DEF KeepInv, Overlap, Before, All, EndsAt
<1>5. Filling'
  <2>1. SinkPutting' /\ panel = "creating" => reader # "store"
    <3>1. SinkPutting' => Len(history') >= MaxLogs - 1
      BY LengthStep DEF LengthInv
    <3>2. SinkPutting' => history # <<>>
      BY <1>1, <3>1, LimitAssumption
    <3> QED
      BY <3>2 DEF PanelInv
  <2> SUFFICES ASSUME panel = "creating", reader # "append" PROVE Filling'
    BY <1>1 DEF Filling
  <2>2. /\ reader \in {"store", "put"} => Holds(held)'
        /\ reader # "store" => Holds(history)'
        /\ \A e \in Unraced' : Waits(e)'
    BY <1>1, <1>3 DEF KeepInv, Filling, Holds, Increasing, Past, Older
  <2>3. SinkPutting' => Holds(seen)'
    BY <1>1, <1>3, <2>1 DEF KeepInv, Filling, Holds, Increasing, Past, Older
  <2> QED
    BY <1>1, <2>2, <2>3 DEF Filling
<1>6. Reading' /\ Showing'
  BY <1>1, <1>3 DEF KeepInv, Reading, Showing, Past, Older
<1> QED
  BY <1>4, <1>5, <1>6 DEF KeepInv

LEMMA KeepSinkPuts ==
  ASSUME TypeOK, PanelInv, LengthInv, KeepInv, [Next]_vars, SinkPuts
  PROVE  KeepInv'
<1>1. /\ UNCHANGED <<emitted, sink, logs, panel, reader, held, taken, console, raced>>
      /\ history' = Rest(seen) /\ SinkPutting /\ ~SinkPutting' /\ sinkStep' # "store"
  BY DEF SinkPuts, panelVars, SinkPutting
<1>2. Stored' = Stored
  BY StoredStep DEF SinkPuts, AppendStores
<1>3. Unraced' = Unraced /\ \A e : Waits(e) => Waits(e)'
  BY <1>1, <1>2 DEF Unraced, Waits, Below, Older
<1>4. Overlap' /\ Before'
  BY <1>1, <1>2 DEF KeepInv, Overlap, Before, All, EndsAt
<1>5. Filling'
  <2> SUFFICES ASSUME panel = "creating", reader # "append" PROVE Filling'
    BY <1>1 DEF Filling
  <2>1. Holds(seen) /\ Len(seen) >= MaxLogs - 1 /\ seen \in Entries
    BY <1>1 DEF KeepInv, Filling, LengthInv, TypeOK
  <2>2. Holds(Rest(seen))
    BY <2>1, HoldsRest
  <2>3. Holds(history)'
    BY <1>1, <1>3, <2>2 DEF Holds, Increasing, Past, Older
  <2>4. /\ reader \in {"store", "put"} => Holds(held)'
        /\ \A e \in Unraced' : Waits(e)'
    BY <1>1, <1>3 DEF KeepInv, Filling, Holds, Increasing, Past, Older
  <2> QED
    BY <1>1, <2>3, <2>4 DEF Filling
<1>6. Reading' /\ Showing'
  BY <1>1, <1>3 DEF KeepInv, Reading, Showing, Past, Older
<1> QED
  BY <1>4, <1>5, <1>6 DEF KeepInv

LEMMA KeepAppendStores ==
  ASSUME TypeOK, PanelInv, KeepInv, AppendStores
  PROVE  KeepInv'
<1>1. /\ sinkStep = "store" /\ sink # Nobody /\ sinkStep' = "last"
      /\ logs' = Append(seen, emitted)
      /\ UNCHANGED <<emitted, sink, history, panel, reader, held, taken, console, raced>>
  BY DEF AppendStores, panelVars, TypeOK
<1>2. Stored = emitted - 1 /\ Stored' = emitted /\ emitted \in 1..MaxEntries
  BY <1>1 DEF TypeOK, Stored
<1>3. seen \in Entries /\ logs \in Entries
  BY DEF TypeOK
<1>4. ToSet(logs') = ToSet(seen) \cup {emitted} /\ ToSet(<<>>) = {}
  <2>1. ToSet(Append(seen, emitted)) = ToSet(seen) \cup {emitted}
    <3> DEFINE S == 1..MaxEntries
    <3>1. seen \in Seq(S) /\ emitted \in S
      BY <1>2, <1>3 DEF Entries
    <3> HIDE DEF S
    <3> QED
      BY <3>1, AppendSet
  <2>2. ToSet(<<>>) = {}
    BY DEF ToSet
  <2> QED
    BY <1>1, <2>1, <2>2
<1>5. \A e \in Unraced' : e \in Unraced \/ (e = emitted /\ reader = "idle")
  <2>1. \A e \in 1..emitted : e \in 1..(emitted - 1) \/ e = emitted
    BY <1>2
  <2>2. reader # "idle" => emitted \in raced
    BY <1>1 DEF KeepInv, Overlap
  <2> QED
    BY <1>1, <1>2, <2>1, <2>2 DEF Unraced
<1>6. ASSUME NEW e \in Unraced, Waits(e)
      PROVE  Waits(e)'
  <2>1. e < emitted
    BY <1>2 DEF Unraced
  <2>2. Below(e, seen)
    BY <1>1, <1>6 DEF Waits
  <2>3. Below(e, logs')
    BY <1>4, <2>1, <2>2 DEF Below, Older
  <2> QED
    BY <1>1, <2>3 DEF Waits, Below, Older
<1>7. Overlap'
  BY <1>1 DEF KeepInv, Overlap
<1>8. Before'
  <2> SUFFICES ASSUME panel = "absent" \/ (panel = "creating" /\ reader = "append")
               PROVE  All(logs)'
    BY <1>1 DEF Before
  <2>1. All(logs) /\ seen = logs
    BY <1>1 DEF KeepInv, Before
  <2>2. EndsAt(logs', emitted)
    BY <1>1, <1>2, <1>3, <2>1, EndsAtAppend DEF All
  <2>3. Len(logs') = emitted
    BY <1>1, <1>2, <1>3, <2>1, AppendFacts DEF All, Entries
  <2> QED
    BY <1>2, <2>2, <2>3 DEF All, EndsAt
<1>9. Filling'
  <2> SUFFICES ASSUME panel = "creating", reader # "append" PROVE Filling'
    BY <1>1 DEF Filling
  <2>1. Unraced' \subseteq Unraced
    BY <1>5 DEF PanelInv
  <2>2. /\ reader \in {"store", "put"} => Holds(held)'
        /\ reader # "store" => Holds(history)'
    BY <1>1, <2>1 DEF KeepInv, Filling, Holds, Increasing, Past, Older
  <2>3. \A e \in Unraced' : Waits(e)'
    BY <1>6, <2>1 DEF KeepInv, Filling
  <2> QED
    BY <1>1, <2>2, <2>3 DEF Filling, SinkPutting
<1>10. Reading'
  <2> SUFFICES ASSUME panel = "shown", reader # "idle", NEW e \in Unraced'
               PROVE  \/ e \in ToSet(console) \cup ToSet(taken)
                      \/ Past(e, console) /\ Older(e, taken) /\ Waits(e)'
    BY <1>1 DEF Reading, Past, Older
  <2>1. e \in Unraced
    BY <1>5
  <2> QED
    BY <1>6, <2>1 DEF KeepInv, Reading
<1>11. Showing'
  <2> SUFFICES ASSUME panel = "shown", reader = "idle", NEW e \in Unraced'
               PROVE  \/ e \in ToSet(console) \cup ToSet(logs')
                      \/ Past(e, console) /\ Waits(e)'
    BY <1>1 DEF Showing, Past, Older
  <2>1. CASE e = emitted
    BY <1>4, <2>1
  <2>2. CASE e \in Unraced
    <3>1. seen = logs \/ logs = <<>>
      BY <1>1 DEF KeepInv, Overlap
    <3>2. e \in ToSet(logs) => e \in ToSet(logs')
      BY <1>4, <3>1
    <3>3. \/ e \in ToSet(console) \cup ToSet(logs)
          \/ Past(e, console) /\ Waits(e)
      BY <2>2 DEF KeepInv, Showing
    <3> QED
      BY <1>6, <2>2, <3>2, <3>3
  <2> QED
    BY <1>5, <2>1, <2>2
<1> QED
  BY <1>7, <1>8, <1>9, <1>10, <1>11 DEF KeepInv

LEMMA KeepCreatePanel ==
  ASSUME TypeOK, PanelInv, KeepInv, CreatePanel
  PROVE  KeepInv'
<1>1. /\ panel = "absent" /\ panel' = "creating" /\ reader' = "append"
      /\ UNCHANGED <<emitted, sink, sinkStep, seen, logs>>
      /\ raced' = IF sink = Nobody THEN raced ELSE raced \cup {emitted}
  BY DEF CreatePanel, recordVars, sinkVars
<1>2. Overlap' /\ Before'
  BY <1>1 DEF KeepInv, Overlap, Before, All, EndsAt, Stored
<1> QED
  BY <1>1, <1>2 DEF KeepInv, Filling, Reading, Showing

LEMMA KeepTimer ==
  ASSUME TypeOK, PanelInv, KeepInv, Timer
  PROVE  KeepInv'
<1>1. /\ panel = "shown" /\ panel' = "shown" /\ reader = "idle" /\ reader' = "append"
      /\ taken' = logs
      /\ UNCHANGED <<emitted, sink, sinkStep, seen, logs, history, console>>
      /\ raced' = IF sink = Nobody THEN raced ELSE raced \cup {emitted}
  BY DEF Timer, recordVars, sinkVars
<1>2. Overlap' /\ Before'
  BY <1>1 DEF KeepInv, Overlap, Before
<1>3. Unraced' \subseteq Unraced /\ \A e : Waits(e) => Waits(e)'
  BY <1>1 DEF Unraced, Stored, Waits, Below, Older
<1>4. Reading'
  <2> SUFFICES ASSUME NEW e \in Unraced
               PROVE  \/ e \in ToSet(console) \cup ToSet(logs)
                      \/ Past(e, console) /\ Older(e, logs) /\ Waits(e)
    BY <1>1, <1>3 DEF Reading, Past, Older
  <2> QED
    BY <1>1 DEF KeepInv, Showing, Waits, Below
<1> QED
  BY <1>1, <1>2, <1>4 DEF KeepInv, Filling, Showing

LEMMA KeepMoveReads ==
  ASSUME TypeOK, PanelInv, LengthInv, KeepInv, MoveReads
  PROVE  KeepInv'
<1>1. /\ reader = "append" /\ reader' = "store" /\ held' = history \o logs
      /\ UNCHANGED <<emitted, sink, sinkStep, seen, logs, history, panel, taken, console, raced>>
      /\ logs \in Entries /\ panel # "absent"
  BY DEF MoveReads, recordVars, sinkVars, TypeOK, PanelInv
<1>2. Overlap' /\ Before'
  BY <1>1 DEF KeepInv, Overlap, Before
<1>3. Unraced' = Unraced /\ \A e : Waits(e) => Waits(e)'
  BY <1>1 DEF Unraced, Stored, Waits, Below, Older
<1>4. Filling'
  <2> SUFFICES ASSUME panel = "creating" PROVE Filling'
    BY <1>1 DEF Filling
  <2>1. history = <<>> /\ held' = logs /\ All(logs) /\ (sinkStep = "store" => seen = logs)
    BY <1>1, EmptyFacts DEF PanelInv, KeepInv, Before, Entries
  <2>2. Increasing(logs) /\ \A e \in Unraced : e \in ToSet(logs)
    BY <1>1, <2>1, StoredFacts, AllFacts DEF Unraced
  <2>3. Holds(held)' /\ \A e \in Unraced : Waits(e)
    BY <1>1, <1>3, <2>1, <2>2 DEF Holds, Increasing, Waits, Below
  <2>4. ~SinkPutting'
    <3>1. ~SinkPutting
      BY <2>1, LimitAssumption DEF LengthInv
    <3> QED
      BY <1>1, <3>1 DEF SinkPutting
  <2> QED
    BY <1>1, <1>3, <2>3, <2>4 DEF Filling
<1>5. Reading' /\ Showing'
  BY <1>1, <1>3 DEF KeepInv, Reading, Showing, Past, Older
<1> QED
  BY <1>2, <1>4, <1>5 DEF KeepInv

(* The other steps of a read until it returns; TrimPuts alone shortens a   *)
(* list.                                                                   *)
LEMMA KeepReadSteps ==
  ASSUME TypeOK, PanelInv, LengthInv, KeepInv,
         MoveStores \/ ClearLogs \/ ReadTrims
  PROVE  KeepInv'
<1>1. /\ UNCHANGED <<emitted, sink, sinkStep, seen, panel, taken, console, raced>>
      /\ logs' \in {logs, <<>>}
      /\ reader \notin {"idle", "append"} /\ reader' \notin {"idle", "append", "store"}
      /\ panel # "absent"
  BY DEF MoveStores, ClearLogs, ReadTrims, TrimTests, TrimTakes, TrimPuts, sinkVars, recordVars,
         PanelInv
<1>2. Overlap'
  BY <1>1 DEF KeepInv, Overlap
<1>3. Before'
  BY <1>1 DEF Before
<1>4. Unraced' = Unraced /\ \A e : Waits(e) => Waits(e)'
  <2>1. ToSet(<<>>) = {}
    BY DEF ToSet
  <2> QED
    BY <1>1, <2>1 DEF Unraced, Stored, Waits, Below, Older
<1>5. Filling'
  <2> SUFFICES ASSUME panel = "creating" PROVE Filling'
    BY <1>1 DEF Filling
  <2>1. /\ reader \in {"store", "put"} => Holds(held)
        /\ reader # "store" => Holds(history)
        /\ SinkPutting => Holds(seen)
        /\ \A e \in Unraced : Waits(e)
    BY <1>1 DEF KeepInv, Filling
  <2>2. reader = "put" => Holds(Rest(held))
    BY <2>1, HoldsRest DEF LengthInv, TypeOK
  <2>3. /\ \/ history' = history /\ reader # "store"
           \/ history' = held /\ reader = "store"
           \/ history' = Rest(held) /\ reader = "put"
        /\ reader' = "put" => held' = history /\ reader = "take"
    BY DEF MoveStores, ClearLogs, ReadTrims, TrimTests, TrimTakes, TrimPuts, recordVars
  <2>4. Holds(history)' /\ (reader' = "put" => Holds(held)')
    BY <1>4, <2>1, <2>2, <2>3 DEF Holds, Increasing, Past, Older
  <2>5. SinkPutting' => Holds(seen)'
    BY <1>1, <1>4, <2>1 DEF SinkPutting, Holds, Increasing, Past, Older
  <2> QED
    BY <1>1, <1>4, <2>1, <2>4, <2>5 DEF Filling
<1>6. Reading' /\ Showing'
  BY <1>1, <1>4 DEF KeepInv, Reading, Showing, Past, Older
<1> QED
  BY <1>2, <1>3, <1>5, <1>6 DEF KeepInv

LEMMA KeepShowLogs ==
  ASSUME TypeOK, PanelInv, KeepInv, ShowLogs
  PROVE  KeepInv'
<1>1. /\ reader = "return" /\ reader' = "idle" /\ panel' = "shown"
      /\ console' = console \o (IF panel = "creating" THEN history ELSE taken)
      /\ UNCHANGED <<emitted, sink, sinkStep, seen, logs, raced>>
      /\ history \in Entries /\ console \in Entries /\ taken \in Entries
      /\ panel \in {"creating", "shown"}
  BY DEF ShowLogs, recordVars, sinkVars, TypeOK, PanelInv
<1>2. Overlap' /\ Before'
  BY <1>1 DEF KeepInv, Overlap, Before
<1>3. Unraced' = Unraced /\ \A e : Waits(e) => Waits(e)'
  BY <1>1 DEF Unraced, Stored, Waits, Below, Older
<1>4. ASSUME NEW e \in Unraced
      PROVE  \/ e \in ToSet(console') \cup ToSet(logs)
             \/ Past(e, console') /\ Waits(e)
  <2>1. CASE panel = "creating"
    <3>1. (e \in ToSet(history) \/ Past(e, history)) /\ Waits(e)
      BY <1>1, <2>1 DEF KeepInv, Filling, Holds
    <3>2. console' = history
      BY <1>1, <2>1, EmptyFacts DEF PanelInv, Entries
    <3> QED
      BY <3>1, <3>2
  <2>2. CASE panel = "shown"
    <3>1. console' = console \o taken
      BY <1>1, <2>2
    <3>2. ToSet(console') = ToSet(console) \cup ToSet(taken)
      <4>1. console \in Entries /\ taken \in Entries
        BY <1>1
      <4>2. ToSet(console \o taken) = ToSet(console) \cup ToSet(taken)
        BY <4>1, ConcatSet DEF Entries
      <4> QED
        BY <3>1, <4>2
    <3>3. Len(console') = Len(console) + Len(taken) /\ Len(console) \in Nat /\ Len(taken) \in Nat
      <4>1. console \in Entries /\ taken \in Entries
        BY <1>1
      <4>2. Len(console \o taken) = Len(console) + Len(taken)
        BY <4>1, ConcatFacts DEF Entries
      <4> QED
        BY <3>1, <4>1, <4>2 DEF Entries
    <3>4. Past(e, console) /\ Older(e, taken) => Past(e, console')
      BY <3>2, <3>3, LimitAssumption DEF Past, Older
    <3> QED
      BY <1>1, <2>2, <3>2, <3>4 DEF KeepInv, Reading
  <2> QED
    BY <1>1, <2>1, <2>2
<1>5. Showing'
  BY <1>1, <1>3, <1>4 DEF Showing, Past, Older
<1> QED
  BY <1>1, <1>2, <1>5 DEF KeepInv, Filling, Reading

LEMMA KeepStep == IInv /\ LengthInv /\ KeepInv /\ [Next]_vars => KeepInv'
<1> SUFFICES ASSUME IInv, LengthInv, KeepInv, [Next]_vars PROVE KeepInv'
  OBVIOUS
<1>1. TypeOK /\ PanelInv
  BY DEF IInv
<1>2. CASE UNCHANGED vars
  BY <1>2 DEF vars, recordVars, sinkVars, panelVars, KeepInv, Overlap, Before, Filling,
     Reading, Showing, All, EndsAt, Unraced, Stored, Waits, Below, Older, Past, Holds,
     Increasing, SinkPutting
<1> QED
  BY <1>1, <1>2, KeepAddLog, KeepSinkSteps, KeepSinkPuts, KeepAppendStores, KeepCreatePanel,
     KeepTimer, KeepMoveReads, KeepReadSteps, KeepShowLogs
  DEF Next, Sink, SinkTrims, Read

(* Whatever races, an entry that was logged outside every read is in the   *)
(* panel or waits for its next tick, for any threads and any limit above   *)
(* two; the trims of the two threads take their steps in any order.        *)
THEOREM UnracedIsKept == Spec => []UnracedIsNeverLost
<1>1. Init => KeepInv
  BY ThreadAssumption, EmptyFacts
  DEF Init, KeepInv, Overlap, Before, Filling, Reading, Showing, All, EndsAt, Stored
<1>2. IInv /\ KeepInv => UnracedIsNeverLost
  <2> SUFFICES ASSUME IInv, KeepInv, panel = "shown", reader = "idle",
                      NEW e \in Unraced, e \notin ToSet(Shown)
               PROVE  Past(e, console)
    BY DEF UnracedIsNeverLost, Unraced, Past, Older
  <2>1. ToSet(Shown) = ToSet(console) \cup ToSet(logs)
    BY ConcatSet DEF Shown, IInv, TypeOK, Entries
  <2> QED
    BY <2>1 DEF KeepInv, Showing
<1> QED
  BY <1>1, <1>2, KeepStep, InvariantHolds, PTL DEF Spec

=============================================================================
