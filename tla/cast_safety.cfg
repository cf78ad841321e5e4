CONSTANTS
  Video = {"song", "chant", "air"}
  Duration = 1
  EndSlack = 0
  Untimed = {}
  NoKey = NoKey
  OtherKey = OtherKey
  NoVideo = NoVideo
  Kinds = {"google"}
  SessionId = {1, 2}
  Asked <- MCAsked
  Edits <- MCEdits
  Offsets = {1}
  Unplayable = {"air"}
  Refused = {}
  Vietnamese = {"chant"}
  Narrations = {FALSE}
  AskedFor = {}
  MaxEvents = 3
SPECIFICATION Spec
INVARIANTS  HistoryWasHeard OneLiveSession
PROPERTIES SessionsSpec
CHECK_DEADLOCK FALSE
