\* What is drafted is what was approved.  Two categories, one year; one edit, one approval.
SPECIFICATION Spec
CONSTANTS
  Categories = {"intro", "administrative"}
  Fallback = "administrative"
  SenderTypes = {"recruit", "administrative"}
  SenderOf <- MCSenderOf
  Rules <- MCRules
  YearLabel <- MCYearLabel
  Review = "needs review"
  Considered <- MCConsidered
  CategoryLabel <- MCCategoryLabel
  Emails <- MCEmails
  Accounts = {"coach", "test"}
  Protectable <- MCProtectable
  Styles = {"plain", "refused"}
  Edits = {"account", "global", "category", "protect", "wording", "earlier", "settings"}
  Kinds = {"daily", "unlabelled"}
  FirstProfiles <- MCFirstProfiles
  EditedModes = {"generic"}
  EditedKeys <- MCEditedKeys
  Named <- MCNamed
  FirstLabels = {{}}
  MaxEdits = 1
  MaxApprovals = 1
  MaxWording = 3
INVARIANTS Inv DraftApproved SafeMessageDrafted UndraftedIsShown ReadyMeansDrafts
PROPERTIES OneCategoryLabel
CHECK_DEADLOCK FALSE
