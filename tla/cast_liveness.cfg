CONSTANTS
  Video = {"song", "chant", "air"}
  Duration = 1
  EndSlack = 0
  Untimed = {"song"}
  NoKey = NoKey
  OtherKey = OtherKey
  NoVideo = NoVideo
  Kinds = {"r1"}
  SessionId = {1}
  Asked <- MCAsked
  Edits <- MCEdits
  Offsets = {1}
  Unplayable = {"air"}
  Refused = {}
  Vietnamese = {"chant"}
  Narrations = {TRUE}
  AskedFor = {"chant"}
  MaxEvents = 2
SPECIFICATION FairSpec
INVARIANTS NarrationSettles
PROPERTIES LoadingIsResolved WrongSongIsNoticed LostSpeakerIsGivenUp
CHECK_DEADLOCK FALSE
