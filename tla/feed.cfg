CONSTANTS
  a1 = a1
  a2 = a2
  a3 = a3
  a4 = a4
  n1 = n1
  b1 = b1
  A = A
  B = B
  r1 = r1
  r2 = r2
  Video <- MCVideo
  Channel <- MCChannel
  NoChannel = NoChannel
  Slot <- MCSlot
  Mix <- MCMix
  FreshShare = 10
  Window = 4
  PerChannel = 2
  FreshGap = 2
  Reader = {r1, r2}
  First = {a1}
  Scroller = r1
  Id <- MCId
  NoId = NoId
  NotLoaded = NotLoaded
  PageSize = 1
  MaxChanges = 1
  MaxFaults = 1
SPECIFICATION FairSpec
INVARIANTS ScrollIsWhole StampedHasCaughtUp PagesReorderOnly PagesShareFairly PagesKeepChannelsApart
PROPERTIES StayingVideoIsOffered
