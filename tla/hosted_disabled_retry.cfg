\* A retry comes due after settings could not be saved.
SPECIFICATION Spec
CONSTANTS
  Newest = 2
  ChunkSize = 1
  MaxScan = 2
  MaxAttempts = 2
  QueueSize = 2
  Groups = {g1, g2}
  NoGroup = NoGroup
  Owner = {"history", "settings"}
  Troubles = {"messages", "save"}
  MaxDays = 1
  MaxOrders = 2
  MaxTroubles = 2
SYMMETRY GroupSymmetry
PROPERTIES DisabledRunsNothing
