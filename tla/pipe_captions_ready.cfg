SPECIFICATION Spec
CONSTANTS
  u1 = u1
  u2 = u2
  w1 = w1
  sweeper = sweeper
  noJob = noJob
  Url <- MCUrl
  Job <- MCOneJob
  Worker <- MCOneWorker
  Caller <- MCOneWorkerCallers
  Sweeper = sweeper
  NoJob = noJob
  Backoff = 1
  GiveUpAfter = 2
  CaptionAnswers = {"landed"}
  MaxRequests = 1
  MaxPresses = 1
  MaxFaults = 0
PROPERTY CaptionsKeepReady
