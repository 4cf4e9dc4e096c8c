\* Scans, undo, cancellation and settings around crashes, expired requests, failing saves, labels and grants.
SPECIFICATION Spec
CONSTANTS
  Newest = 2
  ChunkSize = 1
  MaxScan = 2
  MaxAttempts = 2
  QueueSize = 2
  Groups = {g1, g2}
  NoGroup = NoGroup
  Owner = {"recent", "history", "rollback", "cancel", "settings"}
  Troubles = {"crash", "expire", "undo", "save", "labels", "grant", "token", "listing", "unlink", "messages", "run"}
  MaxDays = 1
  MaxOrders = 2
  MaxTroubles = 2
SYMMETRY GroupSymmetry
INVARIANTS IInv NothingDropped BundleCommitted HistoryAlone UndoLatest RunningIsTrue
PROPERTIES CancelReachesItsRun
