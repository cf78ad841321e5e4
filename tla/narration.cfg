CONSTANTS
  g1 = g1
  g2 = g2
  s1 = s1
  Lines = 2
  Far = 1
  FirstBatch = 1
  BatchSize = 2
  Voice = {"an", "binh"}
  Runner = {g1, g2}
  Stream = {s1}
  Obj <- MCObj
  NoObj = NoObj
  Together <- MCTogether
  MaxEvents = 2
  MaxFaults = 1
SPECIFICATION FairSpec
INVARIANTS NarrationTypeOK RunningIsRun BlockHasTheLines
PROPERTIES ReadyIsToldInTheEnd
CHECK_DEADLOCK FALSE
