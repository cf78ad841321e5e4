SPECIFICATION Spec
CONSTANTS
  u1 = u1
  u2 = u2
  w1 = w1
  sweeper = sweeper
  noJob = noJob
  Url <- MCUrl
  Job <- MCJob
  Worker <- MCOneWorker
  Caller <- MCOneWorkerCallers
  Sweeper = sweeper
  NoJob = noJob
  Backoff = 1
  GiveUpAfter = 2
  CaptionAnswers = {"none"}
  MaxRequests = 1
  MaxPresses = 2
  MaxFaults = 1
PROPERTIES
  StoreSpec
  SucceededIsFinal
INVARIANTS
  StoreTypeOK
  OneActivePerUrl
  AttemptsBounded
  ActiveIsVisible
  TimesMatchState
