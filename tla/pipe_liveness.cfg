SPECIFICATION FairSpec
CONSTANTS
  u1 = u1
  u2 = u2
  w1 = w1
  sweeper = sweeper
  noJob = noJob
  Url <- MCUrl
  Job <- MCOneJob
  Worker <- MCOneWorker
  Caller <- MCOneWorkerCallers
  Sweeper = sweeper
  NoJob = noJob
  Backoff = 1
  GiveUpAfter = 2
  CaptionAnswers = {"landed", "refused"}
  MaxRequests = 1
  MaxPresses = 2
  MaxFaults = 1
PROPERTIES
  AbandonedJobIsReleased
  RefusedIsAskedAgain
  CancelFreesTheSlot
INVARIANTS
  OneFetchPerVideo
