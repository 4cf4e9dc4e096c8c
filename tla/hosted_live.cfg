\* A history scan and due retries under the timer.
SPECIFICATION FairSpec
CONSTANTS
  Newest = 2
  ChunkSize = 1
  MaxScan = 2
  MaxAttempts = 2
  QueueSize = 2
  Groups = {g1}
  NoGroup = NoGroup
  Owner = {"history", "settings"}
  Troubles = {"messages", "run", "save", "token", "grant", "labels", "listing"}
  MaxDays = 1
  MaxOrders = 2
  MaxTroubles = 2
PROPERTIES BackfillEnds RetriesServed
