------------------------ MODULE CommandPatternProofs ------------------------
(***************************************************************************)
(* Proofs about CommandPattern for every set of commands, every document   *)
(* and every choice of the calls that throw.                               *)
(***************************************************************************)
EXTENDS CommandPattern, SequenceTheorems, TLAPS

(***************************************************************************)
(* The inductive invariant.  A transaction is well recorded when its trail *)
(* is the run of its executed commands; the loop that is under way has     *)
(* applied pos commands of the transaction it works on.                    *)
(***************************************************************************)
Recorded(t) ==
  /\ Len(t.trail) = Len(t.executed) + 1
  /\ \A i \in 1 .. Len(t.executed) :
       t.trail[i + 1] = ExecuteOn(t.executed[i], t.trail[i])

AllRecorded(s) == \A i \in 1 .. Len(s) : Recorded(s[i])

Active == IF phase \in {"execute", "rollback"} THEN current ELSE target

LoopInv ==
  /\ phase # "idle" => /\ Active \in Transaction
                       /\ Recorded(Active)
                       /\ pos <= Len(Active.executed)
  /\ phase = "execute" => /\ pos = Len(current.executed)
                          /\ pos <= Len(current.commands)
                          /\ document = current.trail[pos + 1]
  /\ phase = "idle" => pos = 0

OwnerInv ==
  /\ phase \in {"idle", "execute", "rollback"} => target = NoTransaction
  /\ phase \in {"idle", "undo", "redo"} /\ current # NoTransaction =>
       current.executed = <<>>

RecordInv == AllRecorded(history) /\ AllRecorded(redoStack)

(* Where redo starts from: while a transaction is between the stacks, its  *)
(* end.                                                                    *)
RedoBase ==
  IF phase \in {"undo", "redo"} THEN After(target) ELSE Present(history)

ChainInv ==
  ~torn =>
    /\ HistoryChain(history)
    /\ RedoChain(redoStack)
    /\ redoStack # <<>> => Before(Last(redoStack)) = RedoBase
    /\ phase = "idle" => document = Present(history)
    /\ phase # "idle" => /\ Before(Active) = Present(history)
                         /\ document = Active.trail[pos + 1]

IInv == TypeOK /\ LoopInv /\ OwnerInv /\ RecordInv /\ ChainInv

-----------------------------------------------------------------------------
(* Append, Last and Front, as the steps use them. *)

LEMMA AppendFacts ==
  ASSUME NEW S, NEW s \in Seq(S), NEW e \in S
  PROVE  /\ Append(s, e) \in Seq(S)
         /\ Len(Append(s, e)) = Len(s) + 1
         /\ Append(s, e) # <<>>
         /\ Last(Append(s, e)) = e
         /\ \A i \in 1 .. Len(s) : Append(s, e)[i] = s[i]
         /\ Append(s, e)[Len(s) + 1] = e
  BY DEF Last

LEMMA FrontFacts ==
  ASSUME NEW S, NEW s \in Seq(S), s # <<>>
  PROVE  /\ Front(s) \in Seq(S)
         /\ Len(s) \in Nat \ {0}
         /\ Len(Front(s)) = Len(s) - 1
         /\ Last(s) \in S
         /\ Last(s) = s[Len(s)]
         /\ \A i \in 1 .. Len(s) - 1 : Front(s)[i] = s[i]
<1>1. /\ Len(s) \in Nat \ {0}
      /\ \A i \in 1 .. Len(s) : s[i] \in S
  OBVIOUS
<1> DEFINE n == Len(s) - 1
<1> DEFINE g == SubSeq(s, 1, n)
<1>2. n \in Nat /\ \A i \in 1 .. n : s[i] \in S
  BY <1>1
<1>3. /\ g \in Seq(S)
      /\ Len(g) = IF 1 <= n THEN n - 1 + 1 ELSE 0
      /\ \A i \in 1 .. n - 1 + 1 : g[i] = s[1 + i - 1]
  <2>. HIDE DEF n
  <2>. QED  BY <1>2, SubSeqProperties
<1>4. Front(s) = g
  BY DEF Front
<1> HIDE DEF g
<1>5. Len(Front(s)) = Len(s) - 1
  BY <1>1, <1>3, <1>4
<1>6. ASSUME NEW i \in 1 .. Len(s) - 1
      PROVE  Front(s)[i] = s[i]
  <2>1. i \in 1 .. n - 1 + 1 /\ 1 + i - 1 = i
    BY <1>1
  <2>. QED  BY <2>1, <1>3, <1>4
<1>7. Last(s) \in S /\ Last(s) = s[Len(s)]
  BY <1>1 DEF Last
<1>. QED  BY <1>1, <1>3, <1>4, <1>5, <1>6, <1>7

(* The chain of the history when a transaction is pushed and popped. *)
LEMMA HistoryPush ==
  ASSUME NEW h \in Seq(Transaction), NEW t \in Transaction,
         HistoryChain(h), Before(t) = Present(h)
  PROVE  /\ HistoryChain(Append(h, t))
         /\ Present(Append(h, t)) = After(t)
<1> DEFINE g == Append(h, t)
<1>1. /\ g \in Seq(Transaction) /\ Len(g) = Len(h) + 1 /\ g # <<>>
      /\ Last(g) = t /\ g[Len(h) + 1] = t
      /\ \A i \in 1 .. Len(h) : g[i] = h[i]
  BY AppendFacts
<1>2. ASSUME NEW i \in 1 .. Len(g)
      PROVE  Before(g[i]) = IF i = 1 THEN EmptyDocument ELSE After(g[i - 1])
  <2>1. CASE i <= Len(h)
    BY <2>1, <1>1 DEF HistoryChain
  <2>2. CASE i = Len(h) + 1
    <3>1. h = <<>> <=> Len(h) = 0
      OBVIOUS
    <3>2. Len(h) # 0 => g[i - 1] = Last(h)
      BY <2>2, <1>1 DEF Last
    <3>. QED  BY <2>2, <3>1, <3>2, <1>1 DEF Present
  <2>. QED  BY <2>1, <2>2, <1>1
<1>3. Present(g) = After(t)
  BY <1>1 DEF Present
<1>. QED  BY <1>2, <1>3 DEF HistoryChain

LEMMA HistoryPop ==
  ASSUME NEW h \in Seq(Transaction), h # <<>>, HistoryChain(h)
  PROVE  /\ HistoryChain(Front(h))
         /\ Before(Last(h)) = Present(Front(h))
<1> DEFINE g == Front(h)
<1>1. /\ g \in Seq(Transaction) /\ Len(h) \in Nat \ {0}
      /\ Len(g) = Len(h) - 1 /\ Last(h) = h[Len(h)]
      /\ \A i \in 1 .. Len(h) - 1 : g[i] = h[i]
  BY FrontFacts
<1>2. HistoryChain(g)
  BY <1>1 DEF HistoryChain
<1>3. Before(Last(h)) = Present(g)
  <2>1. g = <<>> <=> Len(h) = 1
    BY <1>1
  <2>2. Len(h) # 1 => Last(g) = h[Len(h) - 1]
    BY <1>1 DEF Last
  <2>. QED  BY <1>1, <2>1, <2>2 DEF HistoryChain, Present
<1>. QED  BY <1>2, <1>3

(* The chain of the redo stack when a transaction is pushed and popped. *)
LEMMA RedoPush ==
  ASSUME NEW r \in Seq(Transaction), NEW t \in Transaction,
         RedoChain(r), r # <<>> => Before(Last(r)) = After(t)
  PROVE  RedoChain(Append(r, t))
<1> DEFINE g == Append(r, t)
<1>1. /\ Len(g) = Len(r) + 1 /\ g[Len(r) + 1] = t
      /\ \A i \in 1 .. Len(r) : g[i] = r[i]
  BY AppendFacts
<1>2. ASSUME NEW i \in 1 .. Len(g) - 1
      PROVE  Before(g[i]) = After(g[i + 1])
  <2>1. CASE i < Len(r)
    BY <2>1, <1>1 DEF RedoChain
  <2>2. CASE i = Len(r)
    BY <2>2, <1>1 DEF Last
  <2>. QED  BY <2>1, <2>2, <1>1
<1>. QED  BY <1>2 DEF RedoChain

LEMMA RedoPop ==
  ASSUME NEW r \in Seq(Transaction), r # <<>>, RedoChain(r)
  PROVE  /\ RedoChain(Front(r))
         /\ Front(r) # <<>> => Before(Last(Front(r))) = After(Last(r))
<1> DEFINE g == Front(r)
<1>1. /\ g \in Seq(Transaction) /\ Len(r) \in Nat \ {0}
      /\ Len(g) = Len(r) - 1 /\ Last(r) = r[Len(r)]
      /\ \A i \in 1 .. Len(r) - 1 : g[i] = r[i]
  BY FrontFacts
<1>2. RedoChain(g)
  BY <1>1 DEF RedoChain
<1>3. g # <<>> => Len(r) > 1 /\ Last(g) = r[Len(r) - 1]
  BY <1>1 DEF Last
<1>. QED  BY <1>1, <1>2, <1>3 DEF RedoChain

LEMMA RecordedPush ==
  ASSUME NEW s \in Seq(Transaction), NEW t \in Transaction,
         AllRecorded(s), Recorded(t)
  PROVE  AllRecorded(Append(s, t))
  BY AppendFacts DEF AllRecorded

LEMMA RecordedPop ==
  ASSUME NEW s \in Seq(Transaction), s # <<>>, AllRecorded(s)
  PROVE  AllRecorded(Front(s)) /\ Recorded(Last(s))
<1>1. /\ Len(s) \in Nat \ {0} /\ Len(Front(s)) = Len(s) - 1
      /\ Last(s) = s[Len(s)]
      /\ \A i \in 1 .. Len(s) - 1 : Front(s)[i] = s[i]
  BY FrontFacts
<1>. QED  BY <1>1 DEF AllRecorded

-----------------------------------------------------------------------------
(* Transactions as the steps build them. *)

LEMMA NewTransactionFacts ==
  /\ NewTransaction \in Transaction
  /\ NewTransaction.executed = <<>>
  BY DEF NewTransaction, Transaction

LEMMA StartFacts ==
  ASSUME NEW t \in Transaction, t.executed = <<>>, NEW d \in Document,
         NEW u, u = [t EXCEPT !.trail = <<d>>]
  PROVE  /\ u \in Transaction
         /\ u.commands = t.commands
         /\ u.executed = <<>>
         /\ Recorded(u)
         /\ Before(u) = d
         /\ u.trail[1] = d
<1>1. <<d>> \in Seq(Document) /\ Len(<<d>>) = 1 /\ <<d>>[1] = d
  OBVIOUS
<1>2. /\ u.trail = <<d>>
      /\ u.commands = t.commands
      /\ u.executed = <<>>
      /\ u = [commands |-> u.commands, executed |-> u.executed,
              trail |-> u.trail]
  BY DEF Transaction
<1>3. u \in Transaction
  BY <1>1, <1>2 DEF Transaction
<1>. QED  BY <1>1, <1>2, <1>3 DEF Recorded, Before

(* t after its next command c has led to document d. *)
Executed(t, c, d) ==
  [t EXCEPT !.executed = Append(@, c), !.trail = Append(@, d)]

LEMMA ExecutedFacts ==
  ASSUME NEW t \in Transaction, Recorded(t),
         NEW c \in Command, NEW d \in Document,
         d = ExecuteOn(c, Last(t.trail))
  PROVE  /\ Executed(t, c, d) \in Transaction
         /\ Executed(t, c, d).commands = t.commands
         /\ Len(Executed(t, c, d).executed) = Len(t.executed) + 1
         /\ Recorded(Executed(t, c, d))
         /\ Before(Executed(t, c, d)) = Before(t)
         /\ Executed(t, c, d).trail[Len(t.executed) + 2] = d
<1> DEFINE u == Executed(t, c, d)
<1>1. /\ t.executed \in Seq(Command) /\ t.trail \in Seq(Document)
      /\ Len(t.trail) = Len(t.executed) + 1
  BY DEF Transaction, Recorded
<1>2. /\ u \in Transaction /\ u.commands = t.commands
      /\ u.executed = Append(t.executed, c)
      /\ u.trail = Append(t.trail, d)
  <2> DEFINE e == Append(t.executed, c)
             f == Append(t.trail, d)
  <2>1. e \in Seq(Command) /\ f \in Seq(Document)
    BY <1>1
  <2>2. u = [t EXCEPT !.executed = e, !.trail = f]
    BY DEF Executed
  <2>. HIDE DEF e, f, u
  <2>3. /\ u.commands = t.commands /\ u.executed = e /\ u.trail = f
        /\ u = [commands |-> u.commands, executed |-> u.executed,
                trail |-> u.trail]
    BY <2>2 DEF Transaction
  <2>4. u \in Transaction
    BY <2>1, <2>3 DEF Transaction
  <2>. QED  BY <2>3, <2>4 DEF e, f
<1> HIDE DEF u
<1>3. /\ Len(u.executed) = Len(t.executed) + 1
      /\ Len(u.trail) = Len(t.trail) + 1
      /\ \A i \in 1 .. Len(t.executed) : u.executed[i] = t.executed[i]
      /\ u.executed[Len(t.executed) + 1] = c
      /\ \A i \in 1 .. Len(t.trail) : u.trail[i] = t.trail[i]
      /\ u.trail[Len(t.trail) + 1] = d
  BY <1>1, <1>2, AppendFacts
<1>4. Before(u) = Before(t)
  BY <1>1, <1>3 DEF Before
<1>5. ASSUME NEW i \in 1 .. Len(u.executed)
      PROVE  u.trail[i + 1] = ExecuteOn(u.executed[i], u.trail[i])
  <2>1. CASE i <= Len(t.executed)
    BY <2>1, <1>1, <1>3 DEF Recorded
  <2>2. CASE i = Len(t.executed) + 1
    <3>1. u.trail[i + 1] = d /\ u.executed[i] = c
      BY <2>2, <1>1, <1>3
    <3>2. u.trail[i] = Last(t.trail)
      BY <2>2, <1>1, <1>3 DEF Last
    <3>. QED  BY <3>1, <3>2
  <2>. QED  BY <2>1, <2>2, <1>1, <1>3
<1>. QED  BY <1>1, <1>2, <1>3, <1>4, <1>5 DEF Recorded, u

(* What one step forward or back along a trail does to the document. *)
LEMMA TrailFacts ==
  ASSUME NEW t \in Transaction, Recorded(t), NEW i \in 1 .. Len(t.executed)
  PROVE  /\ t.executed[i] \in Command
         /\ t.trail[i] \in Document
         /\ ExecuteOn(t.executed[i], t.trail[i]) = t.trail[i + 1]
         /\ UndoOn(t.executed[i], t.trail[i + 1]) = t.trail[i]
<1>1. t.executed \in Seq(Command) /\ t.trail \in Seq(Document)
  BY DEF Transaction
<1>2. t.executed[i] \in Command /\ t.trail[i] \in Document
  BY <1>1 DEF Recorded
<1>3. ExecuteOn(t.executed[i], t.trail[i]) = t.trail[i + 1]
  BY DEF Recorded
<1>. QED  BY <1>2, <1>3, CommandContract

LEMMA AfterFacts ==
  ASSUME NEW t \in Transaction, Recorded(t)
  PROVE  /\ After(t) = t.trail[Len(t.executed) + 1]
         /\ Len(t.executed) \in Nat
  BY DEF Transaction, Recorded, After, Last

-----------------------------------------------------------------------------
LEMMA InitIInv == Init => IInv
<1> SUFFICES ASSUME Init PROVE IInv
  OBVIOUS
<1>1. TypeOK
  <2>1. <<>> \in Seq(Transaction)
    BY EmptySeq
  <2>. QED  BY <2>1, CommandContract DEF Init, TypeOK, Phase
<1>2. LoopInv /\ OwnerInv /\ RecordInv
  BY DEF Init, LoopInv, OwnerInv, RecordInv, AllRecorded
<1>3. ChainInv
  BY DEF Init, ChainInv, HistoryChain, RedoChain, Present
<1>. QED  BY <1>1, <1>2, <1>3 DEF IInv

(* One step per action.  Within it, first the loop invariants, which the   *)
(* action moves, then the chain, which the lemmas above move.              *)
LEMMA NextIInv == IInv /\ [Next]_vars => IInv'
<1> SUFFICES ASSUME IInv, [Next]_vars PROVE IInv'
  OBVIOUS
<1> USE DEF IInv, Phase
<1>1. CASE BeginTransaction
  <2>1. current' \in Transaction /\ current'.executed = <<>>
    BY <1>1, NewTransactionFacts DEF BeginTransaction
  <2>2. TypeOK' /\ LoopInv' /\ OwnerInv' /\ RecordInv'
    BY <1>1, <2>1
       DEF BeginTransaction, TypeOK, LoopInv, OwnerInv, RecordInv
  <2>3. ChainInv'
    BY <1>1 DEF BeginTransaction, ChainInv, RedoBase
  <2>. QED  BY <2>2, <2>3
<1>2. ASSUME NEW c \in Command, AddCommand(c)
      PROVE  IInv'
  <2>1. current' \in Transaction /\ current'.executed = current.executed
    <3>1. current \in Transaction
      BY <1>2 DEF AddCommand, TypeOK
    <3>2. Append(current.commands, c) \in Seq(Command)
      BY <3>1 DEF Transaction
    <3>. QED  BY <1>2, <3>1, <3>2 DEF AddCommand, Transaction
  <2>2. TypeOK' /\ LoopInv' /\ OwnerInv' /\ RecordInv'
    BY <1>2, <2>1 DEF AddCommand, TypeOK, LoopInv, OwnerInv, RecordInv
  <2>3. ChainInv'
    BY <1>2 DEF AddCommand, ChainInv, RedoBase
  <2>. QED  BY <2>2, <2>3
<1>3. ASSUME NEW t \in Transaction, t.executed = <<>>, StartExecute(t)
      PROVE  IInv'
  <2>1. /\ current' \in Transaction
        /\ current'.commands = t.commands
        /\ current'.executed = <<>>
        /\ Recorded(current')
        /\ Before(current') = document
        /\ current'.trail[1] = document
    BY <1>3, StartFacts DEF StartExecute, TypeOK
  <2>2. t.commands \in Seq(Command)
    BY DEF Transaction
  <2>3. TypeOK' /\ OwnerInv' /\ RecordInv'
    BY <1>3, <2>1 DEF StartExecute, TypeOK, OwnerInv, RecordInv
  <2>4. LoopInv'
    BY <1>3, <2>1, <2>2 DEF StartExecute, LoopInv, Active
  <2>5. ChainInv'
    BY <1>3, <2>1 DEF StartExecute, ChainInv, RedoBase, Active
  <2>. QED  BY <2>3, <2>4, <2>5
<1>4. CASE CommitTransaction
  BY <1>3, <1>4 DEF CommitTransaction, StartExecute, TypeOK, OwnerInv
<1>5. ASSUME NEW c \in Command, ExecuteCommand(c)
      PROVE  IInv'
  <2> DEFINE t == [NewTransaction EXCEPT !.commands = <<c>>]
  <2>1. t \in Transaction /\ t.executed = <<>>
    <3>1. <<c>> \in Seq(Command) /\ <<>> \in Seq(Document)
      OBVIOUS
    <3>2. t = [commands |-> <<c>>, executed |-> <<>>, trail |-> <<>>]
      BY DEF NewTransaction
    <3>. HIDE DEF t
    <3>. QED  BY <3>1, <3>2 DEF Transaction
  <2>2. StartExecute(t)
    BY <1>5 DEF ExecuteCommand
  <2>. HIDE DEF t
  <2>. QED  BY <1>3, <2>1, <2>2
<1>6. CASE ExecuteNext
  <2> DEFINE c == current.commands[pos + 1]
  <2>1. /\ current \in Transaction /\ Recorded(current)
        /\ pos = Len(current.executed) /\ pos \in Nat
        /\ pos < Len(current.commands) /\ document \in Document
    BY <1>6 DEF ExecuteNext, LoopInv, Active, TypeOK
  <2>2. c \in Command
    BY <2>1 DEF Transaction
  <2>3. document' = ExecuteOn(c, document) /\ document' \in Document
    BY <1>6, <2>1, <2>2, CommandContract DEF ExecuteNext
  <2>4. current' = [current EXCEPT !.executed = Append(@, c),
                                   !.trail = Append(@, document')]
    BY <1>6 DEF ExecuteNext
  <2>5. document = Last(current.trail)
    BY <1>6, <2>1 DEF ExecuteNext, LoopInv, Recorded, Last
  <2>6. /\ current' \in Transaction
        /\ current'.commands = current.commands
        /\ Len(current'.executed) = Len(current.executed) + 1
        /\ Recorded(current')
        /\ Before(current') = Before(current)
        /\ current'.trail[Len(current.executed) + 2] = document'
    <3>1. current' = Executed(current, c, document')
      BY <2>4 DEF Executed
    <3>. HIDE DEF c
    <3>. QED  BY <2>1, <2>2, <2>3, <2>5, <3>1, ExecutedFacts
  <2>7. /\ phase' = "execute" /\ pos' = pos + 1
        /\ UNCHANGED <<history, redoStack, target, torn>>
    BY <1>6 DEF ExecuteNext
  <2>8. current.commands \in Seq(Command)
    BY <2>1 DEF Transaction
  <2>9. LoopInv'
    BY <2>1, <2>6, <2>7, <2>8 DEF LoopInv, Active
  <2>10. TypeOK' /\ OwnerInv' /\ RecordInv'
    BY <1>6, <2>1, <2>3, <2>6, <2>7
       DEF ExecuteNext, TypeOK, OwnerInv, RecordInv
  <2>11. document' = current'.trail[pos' + 1]
    BY <2>1, <2>6, <2>7
  <2>12. ~torn' => Before(current') = Present(history)
    BY <1>6, <2>6, <2>7 DEF ExecuteNext, ChainInv, Active
  <2>13. ChainInv'
    <3>1. phase = "execute"
      BY <1>6 DEF ExecuteNext
    <3>. QED  BY <2>7, <2>11, <2>12, <3>1 DEF ChainInv, RedoBase, Active
  <2>. QED  BY <2>9, <2>10, <2>13
<1>7. CASE ExecuteFails
  <2>1. /\ current \in Transaction /\ Recorded(current)
        /\ pos = Len(current.executed) /\ pos \in Nat
    BY <1>7 DEF ExecuteFails, LoopInv, Active, TypeOK
  <2>2. TypeOK' /\ LoopInv' /\ OwnerInv' /\ RecordInv'
    BY <1>7, <2>1
       DEF ExecuteFails, TypeOK, LoopInv, OwnerInv, RecordInv, Active
  <2>3. ChainInv'
    BY <1>7, <2>1 DEF ExecuteFails, ChainInv, RedoBase, Active
  <2>. QED  BY <2>2, <2>3
<1>8. CASE CommitReturns
  <2>1. /\ current \in Transaction /\ Recorded(current)
        /\ pos = Len(current.executed)
        /\ document = current.trail[pos + 1]
    BY <1>8 DEF CommitReturns, LoopInv, Active
  <2>2. /\ history' = Append(history, current)
        /\ redoStack' = <<>> /\ current' = NoTransaction
        /\ phase' = "idle" /\ pos' = 0
        /\ UNCHANGED <<target, document, torn>>
    BY <1>8 DEF CommitReturns
  <2>3. history' \in Seq(Transaction) /\ redoStack' \in Seq(Transaction)
    BY <2>1, <2>2, AppendFacts, EmptySeq DEF TypeOK
  <2>4. TypeOK' /\ LoopInv' /\ OwnerInv'
    BY <1>8, <2>2, <2>3 DEF CommitReturns, TypeOK, LoopInv, OwnerInv
  <2>5. RecordInv'
    BY <2>1, <2>2, RecordedPush DEF TypeOK, RecordInv, AllRecorded
  <2>6. ASSUME ~torn
        PROVE  /\ HistoryChain(history')
               /\ document = Present(history')
    <3>1. HistoryChain(history) /\ Before(current) = Present(history)
      BY <1>8, <2>6 DEF CommitReturns, ChainInv, Active
    <3>2. document = After(current)
      BY <2>1, AfterFacts
    <3>. QED  BY <2>1, <2>2, <3>1, <3>2, HistoryPush DEF TypeOK
  <2>7. ChainInv'
    BY <2>2, <2>6 DEF ChainInv, RedoChain
  <2>. QED  BY <2>4, <2>5, <2>7
<1>9. CASE RollbackNext
  <2> DEFINE c == current.executed[pos]
  <2>1. /\ current \in Transaction /\ Recorded(current)
        /\ pos \in 1 .. Len(current.executed)
    BY <1>9 DEF RollbackNext, LoopInv, Active, TypeOK
  <2>2. /\ c \in Command
        /\ UndoOn(c, current.trail[pos + 1]) = current.trail[pos]
        /\ UndoOn(c, document) \in Document
    BY <2>1, TrailFacts, CommandContract DEF TypeOK
  <2>3. /\ phase' = "rollback" /\ pos' = pos - 1
        /\ UNCHANGED <<history, redoStack, current, target>>
        /\ torn' \in BOOLEAN /\ document' \in Document
        /\ ~torn' => ~torn /\ document' = UndoOn(c, document)
    <3>1. CASE document' = UndoOn(c, document) /\ torn' = torn
      BY <1>9, <2>2, <3>1 DEF RollbackNext, TypeOK
    <3>2. CASE document' = document /\ torn' = TRUE
      BY <1>9, <3>2 DEF RollbackNext, TypeOK
    <3>. QED  BY <1>9, <3>1, <3>2 DEF RollbackNext
  <2>4. TypeOK' /\ LoopInv' /\ OwnerInv' /\ RecordInv'
    BY <1>9, <2>1, <2>3
       DEF RollbackNext, TypeOK, LoopInv, OwnerInv, RecordInv, Active
  <2>5. ASSUME ~torn'
        PROVE  document' = current.trail[pos]
    BY <1>9, <2>2, <2>3, <2>5 DEF RollbackNext, ChainInv, Active
  <2>6. ChainInv'
    BY <1>9, <2>1, <2>3, <2>5 DEF RollbackNext, ChainInv, RedoBase, Active
  <2>. QED  BY <2>4, <2>6
<1>10. CASE CommitThrows
  <2>1. /\ current \in Transaction /\ phase = "rollback" /\ pos = 0
        /\ current' = [current EXCEPT !.executed = <<>>, !.trail = <<>>]
        /\ phase' = "idle"
        /\ UNCHANGED <<history, redoStack, target, pos, document, torn>>
    BY <1>10 DEF CommitThrows, LoopInv, Active
  <2>2. current' \in Transaction /\ current'.executed = <<>>
    <3>1. <<>> \in Seq(Command) /\ <<>> \in Seq(Document)
      BY EmptySeq
    <3>. QED  BY <2>1, <3>1 DEF Transaction
  <2>3. TypeOK' /\ LoopInv' /\ OwnerInv' /\ RecordInv'
    BY <2>1, <2>2 DEF TypeOK, LoopInv, OwnerInv, RecordInv
  <2>4. ~torn => document = Present(history)
    BY <2>1 DEF ChainInv, Active, Before
  <2>5. ChainInv'
    BY <2>1, <2>4 DEF ChainInv, RedoBase
  <2>. QED  BY <2>3, <2>5
<1>11. CASE Undo
  <2>1. /\ phase = "idle" /\ history # <<>>
        /\ target' = Last(history) /\ history' = Front(history)
        /\ phase' = "undo" /\ pos' = Len(Last(history).executed)
        /\ UNCHANGED <<redoStack, current, document, torn>>
    BY <1>11 DEF Undo
  <2>2. /\ target' \in Transaction /\ history' \in Seq(Transaction)
        /\ AllRecorded(history') /\ Recorded(target')
    BY <2>1, FrontFacts, RecordedPop DEF TypeOK, RecordInv
  <2>3. pos' \in Nat /\ After(target') = target'.trail[pos' + 1]
    BY <2>1, <2>2, AfterFacts
  <2>4. TypeOK' /\ LoopInv' /\ OwnerInv' /\ RecordInv'
    BY <2>1, <2>2, <2>3
       DEF TypeOK, LoopInv, OwnerInv, RecordInv, Active
  <2>5. ASSUME ~torn
        PROVE  /\ HistoryChain(history')
               /\ Before(target') = Present(history')
               /\ document = After(target')
    BY <2>1, <2>5, HistoryPop DEF TypeOK, ChainInv, Present
  <2>6. ChainInv'
    BY <2>1, <2>3, <2>5 DEF ChainInv, RedoBase, Active, Present
  <2>. QED  BY <2>4, <2>6
<1>12. CASE UndoNext
  <2> DEFINE c == target.executed[pos]
  <2>1. /\ phase = "undo" /\ target \in Transaction /\ Recorded(target)
        /\ pos \in 1 .. Len(target.executed)
    BY <1>12 DEF UndoNext, LoopInv, Active, TypeOK
  <2>2. /\ c \in Command
        /\ UndoOn(c, target.trail[pos + 1]) = target.trail[pos]
        /\ UndoOn(c, document) \in Document
    BY <2>1, TrailFacts, CommandContract DEF TypeOK
  <2>3. /\ document' = UndoOn(c, document) /\ pos' = pos - 1
        /\ UNCHANGED <<history, redoStack, current, target, phase, torn>>
    BY <1>12 DEF UndoNext
  <2>4. TypeOK' /\ LoopInv' /\ OwnerInv' /\ RecordInv'
    BY <2>1, <2>2, <2>3 DEF TypeOK, LoopInv, OwnerInv, RecordInv, Active
  <2>5. ~torn => document' = target.trail[pos]
    BY <2>1, <2>2, <2>3 DEF ChainInv, Active
  <2>6. ChainInv'
    BY <2>1, <2>3, <2>5 DEF ChainInv, RedoBase, Active
  <2>. QED  BY <2>4, <2>6
<1>13. CASE UndoThrowsOut
  BY <1>13 DEF UndoThrowsOut, TypeOK, LoopInv, OwnerInv, RecordInv, ChainInv
<1>14. CASE UndoReturns
  <2>1. /\ phase = "undo" /\ pos = 0
        /\ target \in Transaction /\ Recorded(target)
        /\ redoStack' = Append(redoStack, target)
        /\ target' = NoTransaction /\ phase' = "idle"
        /\ UNCHANGED <<history, current, pos, document, torn>>
    BY <1>14 DEF UndoReturns, LoopInv, Active
  <2>2. /\ redoStack' \in Seq(Transaction) /\ AllRecorded(redoStack')
        /\ Last(redoStack') = target
    BY <2>1, AppendFacts, RecordedPush DEF TypeOK, RecordInv
  <2>3. TypeOK' /\ LoopInv' /\ OwnerInv' /\ RecordInv'
    BY <2>1, <2>2 DEF TypeOK, LoopInv, OwnerInv, RecordInv
  <2>4. ASSUME ~torn
        PROVE  /\ RedoChain(redoStack')
               /\ document = Before(target)
               /\ Before(target) = Present(history)
    <3>1. /\ RedoChain(redoStack)
          /\ redoStack # <<>> => Before(Last(redoStack)) = After(target)
          /\ Before(target) = Present(history)
          /\ document = target.trail[1]
      BY <2>1, <2>4 DEF ChainInv, RedoBase, Active
    <3>. QED  BY <2>1, <3>1, RedoPush DEF TypeOK, Before
  <2>5. ChainInv'
    BY <2>1, <2>2, <2>4 DEF ChainInv, RedoBase
  <2>. QED  BY <2>3, <2>5
<1>15. CASE Redo
  <2>1. /\ phase = "idle" /\ redoStack # <<>>
        /\ target' = Last(redoStack) /\ redoStack' = Front(redoStack)
        /\ phase' = "redo" /\ pos' = 0
        /\ UNCHANGED <<history, current, document, torn>>
    BY <1>15 DEF Redo
  <2>2. /\ target' \in Transaction /\ redoStack' \in Seq(Transaction)
        /\ AllRecorded(redoStack') /\ Recorded(target')
    BY <2>1, FrontFacts, RecordedPop DEF TypeOK, RecordInv
  <2>3. Len(target'.executed) \in Nat
    BY <2>2, AfterFacts
  <2>4. TypeOK' /\ LoopInv' /\ OwnerInv' /\ RecordInv'
    BY <2>1, <2>2, <2>3
       DEF TypeOK, LoopInv, OwnerInv, RecordInv, Active
  <2>5. ASSUME ~torn
        PROVE  /\ RedoChain(redoStack')
               /\ redoStack' # <<>> => Before(Last(redoStack')) = After(target')
               /\ Before(target') = Present(history)
               /\ document = Before(target')
    BY <2>1, <2>5, RedoPop DEF TypeOK, ChainInv, RedoBase
  <2>6. ChainInv'
    BY <2>1, <2>5 DEF ChainInv, RedoBase, Active, Before
  <2>. QED  BY <2>4, <2>6
<1>16. CASE RedoNext
  <2> DEFINE c == target.executed[pos + 1]
  <2>1. /\ phase = "redo" /\ target \in Transaction /\ Recorded(target)
        /\ pos \in Nat /\ pos + 1 \in 1 .. Len(target.executed)
    BY <1>16, AfterFacts DEF RedoNext, LoopInv, Active, TypeOK
  <2>2. /\ c \in Command
        /\ ExecuteOn(c, target.trail[pos + 1]) = target.trail[pos + 2]
        /\ ExecuteOn(c, document) \in Document
    BY <2>1, TrailFacts, CommandContract DEF TypeOK
  <2>3. /\ document' = ExecuteOn(c, document) /\ pos' = pos + 1
        /\ UNCHANGED <<history, redoStack, current, target, phase, torn>>
    BY <1>16 DEF RedoNext
  <2>4. TypeOK' /\ LoopInv' /\ OwnerInv' /\ RecordInv'
    BY <2>1, <2>2, <2>3 DEF TypeOK, LoopInv, OwnerInv, RecordInv, Active
  <2>5. ~torn => document' = target.trail[pos + 2]
    BY <2>1, <2>2, <2>3 DEF ChainInv, Active
  <2>6. ChainInv'
    BY <2>1, <2>3, <2>5 DEF ChainInv, RedoBase, Active
  <2>. QED  BY <2>4, <2>6
<1>17. CASE RedoThrowsOut
  BY <1>17 DEF RedoThrowsOut, TypeOK, LoopInv, OwnerInv, RecordInv, ChainInv
<1>18. CASE RedoReturns
  <2>1. /\ phase = "redo" /\ pos = Len(target.executed)
        /\ target \in Transaction /\ Recorded(target)
        /\ history' = Append(history, target)
        /\ target' = NoTransaction /\ phase' = "idle" /\ pos' = 0
        /\ UNCHANGED <<redoStack, current, document, torn>>
    BY <1>18 DEF RedoReturns, LoopInv, Active
  <2>2. history' \in Seq(Transaction) /\ AllRecorded(history')
    BY <2>1, AppendFacts, RecordedPush DEF TypeOK, RecordInv
  <2>3. TypeOK' /\ LoopInv' /\ OwnerInv' /\ RecordInv'
    BY <2>1, <2>2 DEF TypeOK, LoopInv, OwnerInv, RecordInv
  <2>4. ASSUME ~torn
        PROVE  /\ HistoryChain(history')
               /\ Present(history') = After(target)
               /\ document = After(target)
    <3>1. /\ HistoryChain(history) /\ Before(target) = Present(history)
          /\ document = target.trail[pos + 1]
      BY <2>1, <2>4 DEF ChainInv, Active
    <3>2. document = After(target)
      BY <2>1, <3>1, AfterFacts
    <3>. QED  BY <2>1, <3>1, <3>2, HistoryPush DEF TypeOK
  <2>5. ChainInv'
    BY <2>1, <2>4 DEF ChainInv, RedoBase
  <2>. QED  BY <2>3, <2>5
<1>19. CASE UNCHANGED vars
  BY <1>19 DEF vars, TypeOK, LoopInv, OwnerInv, RecordInv, ChainInv, Active,
               RedoBase
<1>. QED
  BY <1>1, <1>2, <1>4, <1>5, <1>6, <1>7, <1>8, <1>9, <1>10, <1>11, <1>12,
     <1>13, <1>14, <1>15, <1>16, <1>17, <1>18, <1>19
     DEF Next, Call, Continue

-----------------------------------------------------------------------------
(* The inductive invariant holds in every reachable state. *)
THEOREM InvariantHolds == Spec => []IInv
  BY InitIInv, NextIInv, PTL DEF Spec

(* Every variable keeps its type. *)
THEOREM TypeCorrect == Spec => []TypeOK
<1>1. IInv => TypeOK
  BY DEF IInv
<1>. QED  BY <1>1, InvariantHolds, PTL

(* As long as no undo or redo has thrown, the document between two calls   *)
(* is the one the history leads to, for any commands and any pattern of    *)
(* exceptions out of execute.                                              *)
THEOREM DocumentIsHistory == Spec => []DocumentMatchesHistory
<1>1. IInv => DocumentMatchesHistory
  BY DEF IInv, ChainInv, DocumentMatchesHistory
<1>. QED  BY <1>1, InvariantHolds, PTL

(* redo always finds the document its transaction was recorded on. *)
THEOREM RedoIsSafe == Spec => []RedoAppliesWhereRecorded
<1>1. IInv => RedoAppliesWhereRecorded
  BY DEF IInv, ChainInv, RedoBase, RedoAppliesWhereRecorded
<1>. QED  BY <1>1, InvariantHolds, PTL

(* A commit that throws leaves no trace, unless an undo threw as well. *)
THEOREM CommitAtomicity == Spec => CommitIsAtomic
<1> DEFINE A ==
      phase = "rollback" /\ phase' = "idle" /\ ~torn =>
        /\ document' = Before(current)
        /\ document' = Present(history)
        /\ UNCHANGED <<history, redoStack>>
        /\ current'.commands = current.commands
        /\ current'.executed = <<>>
<1>1. IInv /\ [Next]_vars => [A]_vars
  <2> SUFFICES ASSUME IInv, Next, phase = "rollback", phase' = "idle", ~torn
               PROVE  A
    OBVIOUS
  <2>1. CommitThrows
    BY DEF Next, Call, Continue, BeginTransaction, AddCommand, ExecuteCommand,
           CommitTransaction, StartExecute, Undo, Redo, ExecuteNext,
           ExecuteFails, CommitReturns, RollbackNext, UndoNext,
           UndoThrowsOut, UndoReturns, RedoNext, RedoThrowsOut, RedoReturns
  <2>2. /\ current \in Transaction /\ document = current.trail[1]
        /\ Before(current) = Present(history)
    BY <2>1 DEF CommitThrows, IInv, LoopInv, ChainInv, Active
  <2>. QED  BY <2>1, <2>2 DEF CommitThrows, Transaction, Before
<1>. QED  BY <1>1, InvariantHolds, PTL DEF Spec, CommitIsAtomic

(* undo and redo move transactions between the stacks and lose none. *)
THEOREM TransactionsAreKept == Spec => NoTransactionLost
<1> DEFINE A ==
      ~torn' /\ ~(phase = "execute" /\ phase' = "idle") =>
        Len(history') + Len(redoStack') + InFlight'
          = Len(history) + Len(redoStack) + InFlight
<1>1. IInv /\ [Next]_vars => [A]_vars
  <2> SUFFICES ASSUME IInv, Next, ~torn',
                      ~(phase = "execute" /\ phase' = "idle")
               PROVE  Len(history') + Len(redoStack') + InFlight'
                        = Len(history) + Len(redoStack) + InFlight
    OBVIOUS
  <2> USE DEF InFlight
  <2>1. /\ history \in Seq(Transaction) /\ redoStack \in Seq(Transaction)
        /\ Len(history) \in Nat /\ Len(redoStack) \in Nat
        /\ phase \in {"idle", "execute", "rollback"} => target = NoTransaction
        /\ phase \in {"undo", "redo"} => target \in Transaction
    BY DEF IInv, TypeOK, OwnerInv, LoopInv, Active
  <2>2. \A t \in Transaction : t # NoTransaction
    BY NoTransactionAssumption
  <2>3. CASE Undo
    <3>1. /\ target' \in Transaction
          /\ Len(history') = Len(history) - 1
      BY <2>1, <2>3, FrontFacts DEF Undo
    <3>. QED  BY <2>1, <2>2, <2>3, <3>1 DEF Undo
  <2>4. CASE Redo
    <3>1. /\ target' \in Transaction
          /\ Len(redoStack') = Len(redoStack) - 1
      BY <2>1, <2>4, FrontFacts DEF Redo
    <3>. QED  BY <2>1, <2>2, <2>4, <3>1 DEF Redo
  <2>5. CASE UndoReturns
    <3>1. Len(redoStack') = Len(redoStack) + 1
      BY <2>1, <2>5, AppendFacts DEF UndoReturns
    <3>. QED  BY <2>1, <2>2, <2>5, <3>1 DEF UndoReturns
  <2>6. CASE RedoReturns
    <3>1. Len(history') = Len(history) + 1
      BY <2>1, <2>6, AppendFacts DEF RedoReturns
    <3>. QED  BY <2>1, <2>2, <2>6, <3>1 DEF RedoReturns
  <2>7. CASE UndoThrowsOut \/ RedoThrowsOut
    BY <2>7 DEF UndoThrowsOut, RedoThrowsOut
  <2>8. CASE CommitReturns
    BY <2>8 DEF CommitReturns
  <2>9. CASE UNCHANGED <<history, redoStack, target>>
    BY <2>9
  <2>. QED
    BY <2>3, <2>4, <2>5, <2>6, <2>7, <2>8, <2>9
       DEF Next, Call, Continue, BeginTransaction, AddCommand, ExecuteCommand,
           CommitTransaction, StartExecute, ExecuteNext, ExecuteFails,
           RollbackNext, CommitThrows, UndoNext, RedoNext
<1>. QED  BY <1>1, InvariantHolds, PTL DEF Spec, NoTransactionLost

-----------------------------------------------------------------------------
(* The refinement: the images of the two stacks move with them. *)

LEMMA StartsPush ==
  ASSUME NEW h \in Seq(Transaction), NEW t \in Transaction
  PROVE  StartsOf(Append(h, t)) = Append(StartsOf(h), Before(t))
  BY DEF StartsOf

LEMMA StartsPop ==
  ASSUME NEW h \in Seq(Transaction), h # <<>>
  PROVE  /\ StartsOf(h) # <<>>
         /\ Last(StartsOf(h)) = Before(Last(h))
         /\ Front(StartsOf(h)) = StartsOf(Front(h))
  BY DEF StartsOf, Front, Last

LEMMA EndsPush ==
  ASSUME NEW r \in Seq(Transaction), NEW t \in Transaction
  PROVE  EndsOf(Append(r, t)) = Append(EndsOf(r), After(t))
  BY DEF EndsOf

LEMMA EndsPop ==
  ASSUME NEW r \in Seq(Transaction), r # <<>>
  PROVE  /\ EndsOf(r) # <<>>
         /\ Last(EndsOf(r)) = After(Last(r))
         /\ Front(EndsOf(r)) = EndsOf(Front(r))
  BY DEF EndsOf, Front, Last

LEMMA FrontOfAppend ==
  ASSUME NEW s \in Seq(Transaction), s # <<>>
  PROVE  Append(Front(s), Last(s)) = s
  BY DEF Front, Last

(* What a step leaves alone in the abstract state. *)
LinearUnchanged ==
  /\ LogicalHistory' = LogicalHistory
  /\ LogicalRedo' = LogicalRedo
  /\ LogicalDocument' = LogicalDocument
  /\ torn' = torn

LEMMA StepRefines == IInv /\ [Next]_vars => [Linear!Next]_Linear!vars
<1> SUFFICES ASSUME IInv, [Next]_vars
             PROVE  [Linear!Next]_Linear!vars
  OBVIOUS
<1> USE DEF Phase
<1>1. CASE torn'
  <2>1. torn' = TRUE
    BY <1>1, NextIInv DEF IInv, TypeOK
  <2>. QED  BY <2>1 DEF Linear!Next, Linear!Break
<1>2. CASE LinearUnchanged
  BY <1>2 DEF LinearUnchanged, Linear!vars
<1>3. ASSUME ~torn', ~LinearUnchanged
      PROVE  [Linear!Next]_Linear!vars
  <2>1. /\ TypeOK /\ LoopInv /\ ChainInv
        /\ history \in Seq(Transaction) /\ redoStack \in Seq(Transaction)
        /\ document \in Document
    BY DEF IInv, TypeOK
  <2>2. ~torn
    BY <1>3 DEF vars, Next, Call, Continue, BeginTransaction, AddCommand,
         ExecuteCommand, CommitTransaction, StartExecute, Undo, Redo,
         ExecuteNext, ExecuteFails, CommitReturns, RollbackNext, CommitThrows,
         UndoNext, UndoThrowsOut, UndoReturns, RedoNext, RedoThrowsOut,
         RedoReturns
  <2> USE <2>2
  <2>3. ASSUME BeginTransaction \/ \E c \in Command : AddCommand(c)
        PROVE  LinearUnchanged
    BY <2>3 DEF BeginTransaction, AddCommand, LinearUnchanged,
                LogicalHistory, LogicalRedo, LogicalDocument
  <2>4. ASSUME NEW t \in Transaction, t.executed = <<>>, StartExecute(t)
        PROVE  LinearUnchanged
    <3>1. Before(current') = document
      BY <2>1, <2>4, StartFacts DEF StartExecute
    <3>. QED  BY <2>4, <3>1 DEF StartExecute, LinearUnchanged,
                  LogicalHistory, LogicalRedo, LogicalDocument
  <2>5. ASSUME ExecuteNext
        PROVE  LinearUnchanged
    <3>1. Before(current') = Before(current)
      <4>1. current \in Transaction /\ Recorded(current)
        BY <2>1, <2>5 DEF ExecuteNext, LoopInv, Active
      <4>2. /\ current.trail \in Seq(Document) /\ Len(current.trail) # 0
            /\ document' \in Document
        BY <4>1, AfterFacts, NextIInv DEF Transaction, Recorded, IInv, TypeOK
      <4>3. current'.trail = Append(current.trail, document')
        BY <2>5, <4>1 DEF ExecuteNext, Transaction
      <4>. QED  BY <4>2, <4>3, AppendFacts DEF Before
    <3>. QED  BY <2>5, <3>1 DEF ExecuteNext, LinearUnchanged,
                  LogicalHistory, LogicalRedo, LogicalDocument
  <2>6. ASSUME ExecuteFails \/ RollbackNext \/ UndoNext \/ RedoNext
        PROVE  LinearUnchanged
    BY <1>3, <2>1, <2>6 DEF ExecuteFails, RollbackNext, UndoNext, RedoNext,
       LinearUnchanged, LogicalHistory, LogicalRedo, LogicalDocument, TypeOK
  <2>7. CASE CommitReturns
    <3>1. current \in Transaction
      BY <2>1, <2>7 DEF CommitReturns, LoopInv, Active
    <3>2. StartsOf(history') = Append(StartsOf(history), Before(current))
      BY <2>1, <2>7, <3>1, StartsPush DEF CommitReturns
    <3>3. EndsOf(<<>>) = <<>>
      BY DEF EndsOf
    <3>4. Linear!Commit
      BY <2>1, <2>7, <3>2, <3>3 DEF CommitReturns, Linear!Commit,
         LogicalHistory, LogicalRedo, LogicalDocument
    <3>. QED  BY <3>4 DEF Linear!Next
  <2>8. ASSUME CommitThrows
        PROVE  LinearUnchanged
    BY <2>1, <2>8 DEF CommitThrows, LinearUnchanged, LogicalHistory,
       LogicalRedo, LogicalDocument, ChainInv, Active, Before
  <2>9. ASSUME Undo
        PROVE  LinearUnchanged
    BY <2>1, <2>9, FrontOfAppend DEF Undo, LinearUnchanged, LogicalHistory,
       LogicalRedo, LogicalDocument, ChainInv, Present
  <2>10. CASE UndoReturns
    <3>1. /\ target \in Transaction /\ document = Before(target)
      BY <2>1, <2>10 DEF UndoReturns, LoopInv, ChainInv, Active, Before
    <3>2. StartsOf(Append(history, target))
            = Append(StartsOf(history), Before(target))
      BY <2>1, <3>1, StartsPush
    <3>3. /\ StartsOf(Append(history, target)) # <<>>
          /\ Last(StartsOf(Append(history, target))) = Before(target)
          /\ Front(StartsOf(Append(history, target))) = StartsOf(history)
      <4>1. /\ Append(history, target) \in Seq(Transaction)
            /\ Append(history, target) # <<>>
            /\ Last(Append(history, target)) = target
            /\ Front(Append(history, target)) = history
        BY <2>1, <3>1 DEF Last, Front
      <4>. QED  BY <4>1, StartsPop
    <3>4. EndsOf(redoStack') = Append(EndsOf(redoStack), After(target))
      BY <2>1, <2>10, <3>1, EndsPush DEF UndoReturns
    <3>5. /\ LogicalHistory = Append(history, target)
          /\ LogicalHistory' = history
          /\ LogicalRedo = redoStack /\ LogicalRedo' = redoStack'
          /\ LogicalDocument = After(target)
          /\ LogicalDocument' = Before(target) /\ torn' = torn
      BY <2>10, <3>1 DEF UndoReturns, LogicalHistory, LogicalRedo,
                         LogicalDocument
    <3>6. Linear!Undo
      BY <3>3, <3>4, <3>5
         DEF Linear!Undo, Linear!Front, Linear!Last, Front, Last
    <3>. QED  BY <3>6 DEF Linear!Next
  <2>11. ASSUME Redo
         PROVE  LinearUnchanged
    <3>1. Before(Last(redoStack)) = document
      BY <2>1, <2>11 DEF Redo, ChainInv, RedoBase
    <3>. QED  BY <2>1, <2>11, <3>1, FrontOfAppend DEF Redo, LinearUnchanged,
                  LogicalHistory, LogicalRedo, LogicalDocument
  <2>12. CASE RedoReturns
    <3>1. /\ target \in Transaction /\ document = After(target)
      BY <2>1, <2>12, AfterFacts DEF RedoReturns, LoopInv, ChainInv, Active
    <3>2. StartsOf(history') = Append(StartsOf(history), Before(target))
      BY <2>1, <2>12, <3>1, StartsPush DEF RedoReturns
    <3>3. /\ EndsOf(Append(redoStack, target)) # <<>>
          /\ Last(EndsOf(Append(redoStack, target))) = After(target)
          /\ Front(EndsOf(Append(redoStack, target))) = EndsOf(redoStack)
      <4>1. /\ Append(redoStack, target) \in Seq(Transaction)
            /\ Append(redoStack, target) # <<>>
            /\ Last(Append(redoStack, target)) = target
            /\ Front(Append(redoStack, target)) = redoStack
        BY <2>1, <3>1 DEF Last, Front
      <4>. QED  BY <4>1, EndsPop
    <3>4. /\ LogicalRedo = Append(redoStack, target)
          /\ LogicalRedo' = redoStack
          /\ LogicalHistory = history /\ LogicalHistory' = history'
          /\ LogicalDocument = Before(target)
          /\ LogicalDocument' = After(target) /\ torn' = torn
      BY <2>12, <3>1 DEF RedoReturns, LogicalHistory, LogicalRedo,
                         LogicalDocument
    <3>5. Linear!Redo
      BY <3>2, <3>3, <3>4
         DEF Linear!Redo, Linear!Front, Linear!Last, Front, Last
    <3>. QED  BY <3>5 DEF Linear!Next
  <2>13. ASSUME UndoThrowsOut \/ RedoThrowsOut
         PROVE  FALSE
    BY <1>3, <2>13 DEF UndoThrowsOut, RedoThrowsOut
  <2>14. ASSUME UNCHANGED vars
         PROVE  LinearUnchanged
    BY <2>14 DEF vars, LinearUnchanged, LogicalHistory, LogicalRedo,
                 LogicalDocument
  <2>15. ASSUME CommitTransaction
         PROVE  LinearUnchanged
    BY <2>1, <2>4, <2>15 DEF CommitTransaction, StartExecute, IInv, TypeOK,
                             OwnerInv
  <2>16. ASSUME NEW c \in Command, ExecuteCommand(c)
         PROVE  LinearUnchanged
    <3> DEFINE t == [NewTransaction EXCEPT !.commands = <<c>>]
    <3>1. t \in Transaction /\ t.executed = <<>>
      <4>1. <<c>> \in Seq(Command) /\ <<>> \in Seq(Document)
        OBVIOUS
      <4>2. t = [commands |-> <<c>>, executed |-> <<>>, trail |-> <<>>]
        BY DEF NewTransaction
      <4>. HIDE DEF t
      <4>. QED  BY <4>1, <4>2 DEF Transaction
    <3>2. StartExecute(t)
      BY <2>16 DEF ExecuteCommand
    <3>. HIDE DEF t
    <3>. QED  BY <2>4, <3>1, <3>2
  <2>. QED
    BY <1>3, <2>3, <2>5, <2>6, <2>7, <2>8, <2>9, <2>10, <2>11, <2>12, <2>13,
       <2>14, <2>15, <2>16 DEF Next, Call, Continue
<1>. QED  BY <1>1, <1>2, <1>3

(* The Invoker is a linear undo: each call is one step of LinearUndo or    *)
(* none, until a call to undo or redo of a command throws.                 *)
THEOREM Refinement == Spec => ImplementsLinearUndo
<1>1. Init => Linear!Init
  <2>1. StartsOf(<<>>) = <<>> /\ EndsOf(<<>>) = <<>>
    BY DEF StartsOf, EndsOf
  <2>. QED  BY <2>1 DEF Init, Linear!Init, LogicalHistory, LogicalRedo,
                        LogicalDocument
<1>2. IInv /\ [Next]_vars => [Linear!Next]_Linear!vars
  BY StepRefines
<1>. QED  BY <1>1, <1>2, InvariantHolds, PTL
             DEF Spec, ImplementsLinearUndo, Linear!Spec
=============================================================================
