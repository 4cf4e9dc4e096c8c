\* One reply each, and taking it back.  Seven messages, two labels and one of them in another case, a run, two undos, three drafts, two of the owner's touches.
SPECIFICATION Spec
CONSTANTS
  Messages <- MCMessages
  Addresses = {"ann", "ann2", "ann3", "ben", "cat", "me", "me2"}
  Owner = "me"
  ExcludeLabel = "closed"
  Reviewed = {"recruits"}
  Lower <- MCLower
  Campaigns = {"news", "recruits", "Recruits"}
  AliasFiles <- MCAliasFiles
  Exclusions <- MCExclusions
  Approvals <- MCApprovals
  Limits = {1, 2}
  MaxRuns = 1
  MaxDrafts = 3
  MaxUndos = 2
  MaxTouches = 2
INVARIANTS Inv LogExact UndoExact
CHECK_DEADLOCK FALSE
