SPECIFICATION Spec
CONSTANTS
  Conversations <- MCConversations
  StrayBytes = {0, 97}
  Entries = {0, 1, 5, 6, 30}
INVARIANTS Understood NeverLeftWaiting SizeNeverTorn HistoryOnScreen
CHECK_DEADLOCK FALSE
