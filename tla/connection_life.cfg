\* Two accounts, two sign-ins over two threads, two disconnects, two disturbances.
SPECIFICATION FairSpec
CONSTANTS
  Accounts = {a, b}
  Nobody = Nobody
  Signins = {s1, s2}
  Callbacks = {c1, c2}
  MaxPending = 1
  Troubles = {"crash", "store", "publish", "cleanup", "archive"}
  MaxTroubles = 2
  MaxDisconnects = 2
INVARIANTS Inv SingleUse
PROPERTIES ImplementsSlot ArchiveWhole ThreadsEnd
CHECK_DEADLOCK FALSE
