SPECIFICATION FairSpec
CONSTANTS
  Command <- MCCommand
  Document <- MCDocument
  EmptyDocument <- Identity
  ExecuteOn <- MCExecuteOn
  UndoOn <- MCUndoOn
  ExecuteThrows <- MCCommand
  UndoThrows <- MCCommand
  RedoThrows <- MCCommand
  NoTransaction = NoTransaction
  MaxTransactions = 2
  MaxCommands = 2
INVARIANTS
  TypeOK
  DocumentMatchesHistory
  RedoAppliesWhereRecorded
PROPERTIES
  CommitIsAtomic
  NoTransactionLost
  ImplementsLinearUndo
  EveryCallEnds
