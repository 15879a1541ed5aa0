SPECIFICATION Spec
CONSTANTS
  r1 = r1  r2 = r2  no = no  high_street = high_street  leeds = leeds  ls1 = ls1
  mill_lane = mill_lane  york = york  acme = acme  bolt = bolt  office = office
  Requests = {r1, r2}
  Ids = {1}
  Parties <- MCParties
  Fine = 10
  LineLists <- MCLineLists
  Blank = no
  MaxDelivered = 2
INVARIANT CustomerOfTheInvoice
