--------------------------- MODULE CommandPattern ---------------------------
(***************************************************************************)
(* The undo/redo engine of NavCore: class Invoker and class Transaction of *)
(* src/core/NavCore/include/Command_Pattern.h, at the granularity of one   *)
(* virtual call of a Command.                                              *)
(*                                                                         *)
(* A Command (Command.h) is an interface: what its execute, undo and redo  *)
(* do to the project is not known here.  It is a constant of the module,   *)
(* constrained only by the contract the class relies on: undo applied to   *)
(* the result of execute gives the document back, and redo is execute (the *)
(* one command of the repository, AddStationCmd, calls execute in redo).   *)
(* Each of the calls may throw; a call that throws leaves the document     *)
(* as it was.                                                              *)
(*                                                                         *)
(* All of Invoker runs on one thread, so a call of it is a sequence of     *)
(* steps that starts and ends in phase "idle".                             *)
(***************************************************************************)
EXTENDS Integers, Sequences, SequencesExt

CONSTANTS
  Command,          \* the commands a caller can build
  Document,         \* the states of what commands edit
  EmptyDocument,    \* its state when the Invoker is created
  ExecuteOn(_, _),  \* ExecuteOn(c, d): the document after c->execute() on d
  UndoOn(_, _),     \* UndoOn(c, d): the document after c->undo() on d
  ExecuteThrows,    \* the commands whose execute may throw
  UndoThrows,       \* the commands whose undo may throw
  RedoThrows,       \* the commands whose redo may throw
  NoTransaction,    \* nullptr, in the place of a transaction
  MaxTransactions,  \* bound: transactions in the history and the redo stack
  MaxCommands       \* bound: commands of one transaction

ASSUME CommandContract ==
  /\ EmptyDocument \in Document
  /\ \A c \in Command, d \in Document :
       /\ ExecuteOn(c, d) \in Document
       /\ UndoOn(c, d) \in Document
       /\ UndoOn(c, ExecuteOn(c, d)) = d

ASSUME BoundsAssumption ==
  /\ MaxTransactions \in Nat
  /\ MaxCommands \in Nat

(***************************************************************************)
(* A Transaction.  commands and executed are the two vectors of the class. *)
(* trail is a history variable: the documents before, between and after    *)
(* the executed commands.  No guard reads it.                              *)
(***************************************************************************)
Transaction ==
  [commands : Seq(Command), executed : Seq(Command), trail : Seq(Document)]

NewTransaction == [commands |-> <<>>, executed |-> <<>>, trail |-> <<>>]

ASSUME NoTransactionAssumption == NoTransaction \notin Transaction

Phase == {"idle", "execute", "rollback", "undo", "redo"}

VARIABLES
  history,   \* Invoker::transactionHistory, oldest first
  redoStack, \* Invoker::redoStack, top last
  current,   \* Invoker::currentTransaction
  target,    \* the local of undo() and redo(): lastTransaction, transaction
  phase,     \* the loop that runs, "idle" between two calls
  pos,       \* the position of that loop: commands applied so far (execute
             \* and redo) or commands still to be undone (rollback and undo)
  document,  \* what the commands edit
  torn       \* history variable: some undo or redo has thrown

vars == <<history, redoStack, current, target, phase, pos, document, torn>>

Init ==
  /\ history = <<>>
  /\ redoStack = <<>>
  /\ current = NoTransaction
  /\ target = NoTransaction
  /\ phase = "idle"
  /\ pos = 0
  /\ document = EmptyDocument
  /\ torn = FALSE

-----------------------------------------------------------------------------
(* Mutants: forms a bug would give to the steps that follow.  No step uses *)
(* them; a run that passes must fail when one replaces the step it mutates. *)

(* Mutant: the redo stack survives a commit. *)
CommitKeepsRedo ==
  /\ phase = "execute"
  /\ pos = Len(current.commands)
  /\ history' = Append(history, current)
  /\ current' = NoTransaction
  /\ phase' = "idle"
  /\ pos' = 0
  /\ UNCHANGED <<redoStack, target, document, torn>>

(* Mutant: the loop of rollback does not advance its iterator. *)
RollbackStays ==
  /\ phase = "rollback"
  /\ pos > 0
  /\ LET c == current.executed[pos] IN
       \/ document' = UndoOn(c, document) /\ torn' = torn
       \/ c \in UndoThrows /\ document' = document /\ torn' = TRUE
  /\ UNCHANGED <<history, redoStack, current, target, phase, pos>>

(* Mutant: rollback forgets executedCommands.clear(). *)
CommitThrowsUncleared ==
  /\ phase = "rollback"
  /\ pos = 0
  /\ phase' = "idle"
  /\ UNCHANGED <<history, redoStack, current, target, pos, document, torn>>

(* Mutant: begin() for rbegin(), the commands are undone first to last. *)
UndoForward ==
  /\ phase = "undo"
  /\ pos > 0
  /\ document' = UndoOn(target.executed[Len(target.executed) + 1 - pos], document)
  /\ pos' = pos - 1
  /\ UNCHANGED <<history, redoStack, current, target, phase, torn>>

(* Mutant: currentTransaction is pushed in the place of lastTransaction. *)
UndoPushesCurrent ==
  /\ phase = "undo"
  /\ pos = 0
  /\ redoStack' = Append(redoStack, current)
  /\ target' = NoTransaction
  /\ phase' = "idle"
  /\ UNCHANGED <<history, current, pos, document, torn>>

(* Mutant: the push onto the redo stack is missing. *)
UndoForgets ==
  /\ phase = "undo"
  /\ pos = 0
  /\ target' = NoTransaction
  /\ phase' = "idle"
  /\ UNCHANGED <<history, redoStack, current, pos, document, torn>>

(* Mutant: the redo stack is used as a queue. *)
RedoOldest ==
  /\ phase = "idle"
  /\ redoStack # <<>>
  /\ target' = Head(redoStack)
  /\ redoStack' = Tail(redoStack)
  /\ phase' = "redo"
  /\ pos' = 0
  /\ UNCHANGED <<history, current, document, torn>>

-----------------------------------------------------------------------------
(* Calls that only touch the open transaction. *)

(* A transaction that was open is dropped without a word. *)
BeginTransaction ==
  /\ phase = "idle"
  /\ current' = NewTransaction
  /\ UNCHANGED <<history, redoStack, target, phase, pos, document, torn>>

(* Without an open transaction the command is ignored: a stutter. *)
AddCommand(c) ==
  /\ phase = "idle"
  /\ current # NoTransaction
  /\ Len(current.commands) < MaxCommands
  /\ current' = [current EXCEPT !.commands = Append(@, c)]
  /\ UNCHANGED <<history, redoStack, target, phase, pos, document, torn>>

-----------------------------------------------------------------------------
(* commitTransaction and executeCommand. *)

RoomForOne == Len(history) + Len(redoStack) < MaxTransactions

(* Transaction::execute is entered with t as the open transaction. *)
StartExecute(t) ==
  /\ phase = "idle"
  /\ RoomForOne
  /\ current' = [t EXCEPT !.trail = <<document>>]
  /\ phase' = "execute"
  /\ pos' = 0
  /\ UNCHANGED <<history, redoStack, target, document, torn>>

CommitTransaction ==
  /\ current # NoTransaction
  /\ StartExecute(current)

(* beginTransaction, addCommand and commitTransaction in one call. *)
ExecuteCommand(c) ==
  /\ MaxCommands > 0
  /\ StartExecute([NewTransaction EXCEPT !.commands = <<c>>])

ExecuteNext ==
  /\ phase = "execute"
  /\ pos < Len(current.commands)
  /\ LET c == current.commands[pos + 1] IN
       /\ document' = ExecuteOn(c, document)
       /\ current' = [current EXCEPT !.executed = Append(@, c),
                                     !.trail = Append(@, document')]
  /\ pos' = pos + 1
  /\ UNCHANGED <<history, redoStack, target, phase, torn>>

(* execute throws: the catch clause enters rollback. *)
ExecuteFails ==
  /\ phase = "execute"
  /\ pos < Len(current.commands)
  /\ current.commands[pos + 1] \in ExecuteThrows
  /\ phase' = "rollback"
  /\ pos' = Len(current.executed)
  /\ UNCHANGED <<history, redoStack, current, target, document, torn>>

(* All commands executed: commitTransaction goes on. *)
CommitReturns ==
  /\ phase = "execute"
  /\ pos = Len(current.commands)
  /\ history' = Append(history, current)
  /\ current' = NoTransaction
  /\ redoStack' = <<>>
  /\ phase' = "idle"
  /\ pos' = 0
  /\ UNCHANGED <<target, document, torn>>

(* rollback swallows the exception of an undo and goes on with the next. *)
RollbackNext ==
  /\ phase = "rollback"
  /\ pos > 0
  /\ LET c == current.executed[pos] IN
       \/ /\ document' = UndoOn(c, document)
          /\ torn' = torn
       \/ /\ c \in UndoThrows
          /\ document' = document
          /\ torn' = TRUE
  /\ pos' = pos - 1
  /\ UNCHANGED <<history, redoStack, current, target, phase>>

(* execute rethrows: commitTransaction is left before it changes anything, *)
(* and the transaction stays open with its commands.                       *)
CommitThrows ==
  /\ phase = "rollback"
  /\ pos = 0
  /\ current' = [current EXCEPT !.executed = <<>>, !.trail = <<>>]
  /\ phase' = "idle"
  /\ UNCHANGED <<history, redoStack, target, pos, document, torn>>

-----------------------------------------------------------------------------
(* undo: the transaction leaves the history before it is undone. *)

Undo ==
  /\ phase = "idle"
  /\ history # <<>>
  /\ target' = Last(history)
  /\ history' = Front(history)
  /\ phase' = "undo"
  /\ pos' = Len(Last(history).executed)
  /\ UNCHANGED <<redoStack, current, document, torn>>

UndoNext ==
  /\ phase = "undo"
  /\ pos > 0
  /\ document' = UndoOn(target.executed[pos], document)
  /\ pos' = pos - 1
  /\ UNCHANGED <<history, redoStack, current, target, phase, torn>>

(* The exception leaves Invoker::undo between pop_back and push: the       *)
(* transaction is in neither stack any more.                               *)
UndoThrowsOut ==
  /\ phase = "undo"
  /\ pos > 0
  /\ target.executed[pos] \in UndoThrows
  /\ target' = NoTransaction
  /\ phase' = "idle"
  /\ pos' = 0
  /\ torn' = TRUE
  /\ UNCHANGED <<history, redoStack, current, document>>

UndoReturns ==
  /\ phase = "undo"
  /\ pos = 0
  /\ redoStack' = Append(redoStack, target)
  /\ target' = NoTransaction
  /\ phase' = "idle"
  /\ UNCHANGED <<history, current, pos, document, torn>>

-----------------------------------------------------------------------------
(* redo: the transaction leaves the redo stack before it is redone. *)

Redo ==
  /\ phase = "idle"
  /\ redoStack # <<>>
  /\ target' = Last(redoStack)
  /\ redoStack' = Front(redoStack)
  /\ phase' = "redo"
  /\ pos' = 0
  /\ UNCHANGED <<history, current, document, torn>>

RedoNext ==
  /\ phase = "redo"
  /\ pos < Len(target.executed)
  /\ document' = ExecuteOn(target.executed[pos + 1], document)
  /\ pos' = pos + 1
  /\ UNCHANGED <<history, redoStack, current, target, phase, torn>>

RedoThrowsOut ==
  /\ phase = "redo"
  /\ pos < Len(target.executed)
  /\ target.executed[pos + 1] \in RedoThrows
  /\ target' = NoTransaction
  /\ phase' = "idle"
  /\ pos' = 0
  /\ torn' = TRUE
  /\ UNCHANGED <<history, redoStack, current, document>>

RedoReturns ==
  /\ phase = "redo"
  /\ pos = Len(target.executed)
  /\ history' = Append(history, target)
  /\ target' = NoTransaction
  /\ phase' = "idle"
  /\ pos' = 0
  /\ UNCHANGED <<redoStack, current, document, torn>>

-----------------------------------------------------------------------------
(* Call starts a call of the public interface, Continue is the rest of it. *)
Call ==
  \/ BeginTransaction
  \/ \E c \in Command : AddCommand(c) \/ ExecuteCommand(c)
  \/ CommitTransaction
  \/ Undo
  \/ Redo

Continue ==
  \/ ExecuteNext
  \/ ExecuteFails
  \/ CommitReturns
  \/ RollbackNext
  \/ CommitThrows
  \/ UndoNext
  \/ UndoThrowsOut
  \/ UndoReturns
  \/ RedoNext
  \/ RedoThrowsOut
  \/ RedoReturns

Next == Call \/ Continue

Spec == Init /\ [][Next]_vars

(* A started call runs to its end: the loops wait for nothing. *)
FairSpec == Spec /\ WF_vars(Continue)

-----------------------------------------------------------------------------
TypeOK ==
  /\ history \in Seq(Transaction)
  /\ redoStack \in Seq(Transaction)
  /\ current \in Transaction \union {NoTransaction}
  /\ target \in Transaction \union {NoTransaction}
  /\ phase \in Phase
  /\ pos \in Nat
  /\ document \in Document
  /\ torn \in BOOLEAN

(* The document before the first and after the last command of t. *)
Before(t) == t.trail[1]
After(t) == Last(t.trail)

(* The document a history stands for. *)
Present(h) == IF h = <<>> THEN EmptyDocument ELSE After(Last(h))

(* Each transaction starts where the one executed before it ended.  The    *)
(* top of the redo stack, its last element, was executed first.            *)
HistoryChain(h) ==
  \A i \in 1 .. Len(h) :
    Before(h[i]) = IF i = 1 THEN EmptyDocument ELSE After(h[i - 1])

RedoChain(r) == \A i \in 1 .. Len(r) - 1 : Before(r[i]) = After(r[i + 1])

(***************************************************************************)
(* Between two calls the document is the one that the last transaction of  *)
(* the history produced, and every transaction of the history was executed *)
(* on the document its predecessor produced: undo can therefore walk back  *)
(* to the empty document.  Lost only when an undo or a redo has thrown.    *)
(***************************************************************************)
DocumentMatchesHistory ==
  ~torn => /\ HistoryChain(history)
           /\ phase = "idle" => document = Present(history)

(***************************************************************************)
(* The transaction on top of the redo stack starts from the present        *)
(* document, and each one below it from where the one above ends: redo     *)
(* never applies a transaction to a document it was not recorded on.       *)
(***************************************************************************)
RedoAppliesWhereRecorded ==
  ~torn /\ phase = "idle" =>
    /\ RedoChain(redoStack)
    /\ redoStack # <<>> => Before(Last(redoStack)) = document

(***************************************************************************)
(* Atomicity of a commit ("execute all commands of the transaction, make   *)
(* sure it is atomic", Command_Pattern.h:22): a commit that ends with an   *)
(* exception leaves document, history and redo stack as they were when it  *)
(* began, and the transaction open and not executed, ready for a retry.    *)
(* The claim needs that no undo threw in the rollback.                     *)
(***************************************************************************)
CommitIsAtomic ==
  [][ phase = "rollback" /\ phase' = "idle" /\ ~torn =>
        /\ document' = Before(current)
        /\ document' = Present(history)
        /\ UNCHANGED <<history, redoStack>>
        /\ current'.commands = current.commands
        /\ current'.executed = <<>> ]_vars

(***************************************************************************)
(* The promise of the comment alone, with no condition on what undo does.  *)
(* rollback swallows the exception of an undo and continues, so the code   *)
(* does not keep it.                                                       *)
(***************************************************************************)
FailedCommitLeavesNoTrace ==
  [][phase = "rollback" /\ phase' = "idle" => document' = Before(current)]_vars

(***************************************************************************)
(* Transactions leave the two stacks only when a commit clears the redo    *)
(* stack or an undo or redo throws: undo and redo move them from one stack *)
(* to the other and lose none.                                             *)
(***************************************************************************)
InFlight == IF target = NoTransaction THEN 0 ELSE 1

NoTransactionLost ==
  [][ ~torn' /\ ~(phase = "execute" /\ phase' = "idle") =>
        Len(history') + Len(redoStack') + InFlight'
          = Len(history) + Len(redoStack) + InFlight ]_vars

(* Every call of the Invoker returns or throws. *)
EveryCallEnds == (phase # "idle") ~> (phase = "idle")

-----------------------------------------------------------------------------
(***************************************************************************)
(* What the Invoker promises its callers is the linear undo of LinearUndo: *)
(* a commit is one step there, however many commands it runs, and an undo  *)
(* or redo takes place when the transaction reaches the other stack.       *)
(***************************************************************************)
LogicalHistory ==
  IF phase = "undo" THEN Append(history, target) ELSE history

LogicalRedo ==
  IF phase = "redo" THEN Append(redoStack, target) ELSE redoStack

LogicalDocument ==
  CASE phase = "idle" -> document
    [] phase \in {"execute", "rollback"} -> Before(current)
    [] phase = "undo" -> After(target)
    [] phase = "redo" -> Before(target)

StartsOf(h) == [i \in 1 .. Len(h) |-> Before(h[i])]
EndsOf(r) == [i \in 1 .. Len(r) |-> After(r[i])]

Linear == INSTANCE LinearUndo WITH
  past <- StartsOf(LogicalHistory),
  present <- LogicalDocument,
  future <- EndsOf(LogicalRedo),
  broken <- torn

(* The Invoker implements linear undo until an undo or a redo throws. *)
ImplementsLinearUndo == Linear!Spec
=============================================================================
