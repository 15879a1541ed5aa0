SPECIFICATION FairSpec
CONSTANTS
  t1 = t1  t2 = t2  v1 = v1  v2 = v2
  Tabs = {t1, t2}
  Uploads <- TwoImages
  Values = {v1, v2}
  Blank = Blank
  Extractions <- AnyDraft
  ServiceConfigured = TRUE
  MaxSessions = 1
INVARIANTS TypeOK ConfirmedHaveEntries StateMatchesDrafts ImagesOnDisk
PROPERTIES ImplementsReview SessionSettles AbandonedByFaultOnly
CHECK_DEADLOCK FALSE
