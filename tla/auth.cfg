SPECIFICATION FairSpec
CONSTANTS
  t1 = t1  t2 = t2  c1 = c1  alice = alice  Alice = Alice  s1 = s1  s2 = s2  k1 = k1  k2 = k2
  Clients = {c1}
  Policy <- MCPolicy
  Slots = {t1, t2}
  Browser <- OneBrowser
  NewNames = {alice}
  OldNames = {Alice}
  Lower <- MCLower
  Sids = {s1, s2}
  Tokens = {k1, k2}
  NoToken = NoToken
  TTL = 0
  PromptLimit = 1
  MaxFaults = 1
INVARIANTS TypeOK OneAccountPerName CeremonySpentOnce SessionHasPasskey AnswerAdmitted
PROPERTY CeremoniesLeave

