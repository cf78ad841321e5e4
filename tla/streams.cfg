CONSTANTS
  r1 = r1
  r2 = r2
  Request = {r1, r2}
  Url <- MCUrl
  NoUrl = NoUrl
  Together <- MCTogether
  MaxDeaths = 2
  MaxFaults = 1
SPECIFICATION FairSpec
INVARIANTS StreamsTypeOK RetriesOnAnother
PROPERTIES DeadUrlIsReplaced
