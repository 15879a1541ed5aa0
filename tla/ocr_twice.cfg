SPECIFICATION Spec
CONSTANTS
  t1 = t1  t2 = t2  v1 = v1  v2 = v2
  Tabs = {t1, t2}
  Uploads <- OneImage
  Values = {v1}
  Blank = Blank
  Extractions <- OneDraft
  ServiceConfigured = TRUE
  MaxSessions = 1
INVARIANT OneEntryPerDraft
CHECK_DEADLOCK FALSE
