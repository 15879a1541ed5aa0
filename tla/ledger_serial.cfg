SPECIFICATION Spec
CONSTANTS
  dev = dev  ops = ops  jan = jan  feb = feb  p1 = p1  p2 = p2  s1 = s1  s2 = s2
  Dates <- SerialDates
  Months = {jan, feb}
  MonthOf <- SerialMonthOf
  Cats = {dev, ops}
  All = All
  Cent = 2
  Requests = {p1}
  EntryInputs <- SerialEntries
  RateInputs <- SerialRates
  NumberInputs <- SerialNumbers
  Blank = Blank
  Slug <- SerialSlug
  Settings = {s1}
  Nobody = Nobody
  MaxSuffix = 2
  MaxEntries = 2
  MaxRates = 3
  MaxInvoices = 1
INVARIANTS NoOverlappingRates BilledOnce DashboardAgrees
