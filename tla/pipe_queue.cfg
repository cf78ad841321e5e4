SPECIFICATION EndingSpec
CONSTANTS
  u1 = u1
  u2 = u2
  w1 = w1
  sweeper = sweeper
  noJob = noJob
  Url <- MCTwoUrls
  Job <- MCJob
  Worker <- MCOneWorker
  Caller <- MCTwoUrlCallers
  Sweeper = sweeper
  NoJob = noJob
  Backoff = 1
  GiveUpAfter = 2
  CaptionAnswers = {"none"}
  MaxRequests = 1
  MaxPresses = 2
  MaxFaults = 0
PROPERTY QueueDrains
