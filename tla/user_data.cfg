SPECIFICATION FairSpec
CONSTANTS
  server = server  tool = tool  e1 = e1  r1 = r1  n1 = n1  n2 = n2  d1 = d1  k1 = k1  k2 = k2
  Files <- MCFiles
  Openers <- MCOpeners
  Drafts = {d1}
  Server = server
  Tool = tool
  LegacyEntries = {e1}
  LegacyRates = {r1}
  LegacyInvoices = {n1, n2}
  OwnNumbers = {n2}
  SettingKeys = {k1, k2}
  MaxCopies = 2
  MaxFaults = 1
INVARIANTS OpenIsMigrated LinesBelong DoubledOnlyConfirmed
PROPERTIES DraftsKept OpensInTheEnd
