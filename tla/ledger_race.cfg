SPECIFICATION FairSpec
CONSTANTS
  dev = dev  ops = ops  jan = jan  feb = feb  p1 = p1  p2 = p2  s1 = s1  s2 = s2
  Dates <- MCDates
  Months = {jan}
  MonthOf <- MCMonthOf
  Cats = {dev}
  All = All
  Cent = 1
  Requests = {p1, p2}
  EntryInputs <- MCEntries
  RateInputs <- MCRates
  NumberInputs <- MCNumbers
  Blank = Blank
  Slug <- MCSlug
  Settings = {s1}
  Nobody = Nobody
  MaxSuffix = 2
  MaxEntries = 1
  MaxRates = 1
  MaxInvoices = 3
INVARIANTS TypeOK SnapshotCurrent UniqueNumbers
PROPERTIES ImplementsBook EveryRequestAnswered
