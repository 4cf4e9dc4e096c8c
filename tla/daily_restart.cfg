\* One conversation; the process may die anywhere, calls and saves fail, chunks resume, runs are undone.
SPECIFICATION Spec
CONSTANTS
  Messages = {1, 2}
  Place <- NewestFirst
  ThreadOf <- Together
  Drafts = {d1, d2, d3, d4}
  NoDraft = NoDraft
  TopicLabels = {}
  Processed = "processed"
  AccountWide = FALSE
  AlwaysReply = {}
  Kinds = {"daily", "history", "retry"}
  Troubles = {"crash", "lost", "read", "save", "undo", "label"}
  WriteLimit = 10
  MaxDrafts = 2
  Workers = 2
  LegacyDraft = NoDraft
  MaxRuns = 2
  MaxTroubles = 2
SYMMETRY DraftSymmetry
INVARIANTS IInv RecordedDraftUndoable UndoneDraftsGone
CHECK_DEADLOCK FALSE
