\* Account-wide drafting with --max-drafts 1 over three messages.
SPECIFICATION Spec
CONSTANTS
  Messages = {1, 2, 3}
  Place <- NewestFirst
  ThreadOf <- Mixed
  Drafts = {d1, d2, d3}
  NoDraft = NoDraft
  TopicLabels = {}
  Processed = "processed"
  AccountWide = TRUE
  AlwaysReply = {}
  Kinds = {"daily"}
  Troubles = {}
  WriteLimit = 10
  MaxDrafts = 1
  Workers = 2
  LegacyDraft = NoDraft
  MaxRuns = 2
  MaxTroubles = 0
SYMMETRY DraftSymmetry
PROPERTIES DoneDayHidesNothing
CHECK_DEADLOCK FALSE
