\* The GUI thread and one more that logs (one at a time holds the mutex).
CONSTANTS
  Gui = gui
  Nobody = nobody
  Thread = {gui, w}
  MaxLogs = 3
  MaxEntries = 5
SPECIFICATION FairSpec
INVARIANTS TypeOK CompleteUnlessRaced UnracedIsNeverLost RemovesAnEntry HistoryIsTail
PROPERTY EveryEntryIsShown
