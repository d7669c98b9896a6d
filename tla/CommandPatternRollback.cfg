SPECIFICATION Spec
CONSTANTS
  Command <- MCCommand
  Document <- MCDocument
  EmptyDocument <- Identity
  ExecuteOn <- MCExecuteOn
  UndoOn <- MCUndoOn
  ExecuteThrows <- MCCommand
  UndoThrows <- OnlySwap
  RedoThrows <- Nothing
  NoTransaction = NoTransaction
  MaxTransactions = 1
  MaxCommands = 2
PROPERTIES
  FailedCommitLeavesNoTrace
