CONSTANTS
  a = a
  la = la
  lc = lc
  v = v
  w = w
  x = x
  y = y
  Member <- MCMember
  List <- MCList
  Owner <- MCOwner
  Contents <- MCContents
  Follows <- MCFollows
  Likes <- MCNone
  Video = {v, w, x, y}
  Unreadable = {lc}
  Limit = 3
  Rereads = 1
  FailureLimit = 2
  Timer = Timer
  Button = Button
  Everybody = Everybody
  MaxEvents = 1
  MaxFaults = 1
SPECIFICATION FairSpec
INVARIANTS AccountsTypeOK
PROPERTIES RemovedOnlyIfUnseen MirrorCatchesUp DeadSessionIsGivenUp
