SPECIFICATION Spec
CONSTANTS
  a = a
  b = b
  v1 = v1
  v2 = v2
  t1 = t1
  t2 = t2
  none = none
  User <- MCUser
  Video <- MCTwoVideos
  Tx <- MCTx
  NoTx = none
  MaxDeletes = 1
SYMMETRY Symmetric
INVARIANTS
  PinsTypeOK
  SavesKeepPins
