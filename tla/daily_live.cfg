\* An older version left one draft recorded for three messages; a run reads two of them; every run ends.
SPECIFICATION FairSpec
CONSTANTS
  Messages = {1, 2, 3}
  Place <- NewestFirst
  ThreadOf <- Mixed
  Drafts = {d1, d2, d3, d4, d5}
  NoDraft = NoDraft
  TopicLabels = {}
  Processed = "processed"
  AccountWide = TRUE
  AlwaysReply = {}
  Kinds = {"daily", "retry"}
  Troubles = {"owner", "draft", "lost", "label", "save", "undo", "cancel"}
  WriteLimit = 3
  MaxDrafts = 2
  Workers = 2
  LegacyDraft = d1
  MaxRuns = 2
  MaxTroubles = 1
INVARIANTS TypeOK DraftedOnce
PROPERTIES ProcessedAfterDraft DailyDoneMeansHandled RunEnds
CHECK_DEADLOCK FALSE
