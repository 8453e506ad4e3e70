SPECIFICATION FairSpec
CONSTANTS
  h1 = h1
  h2 = h2
  g1 = g1
  Local = {h1, h2}
  Guest = {g1}
  Pair <- Pairs
  NoOne = NoOne
  RoomId = {r1}
  ReqId = {q1, q2}
  Idle = 1
  Timeout = 1
  Cooldown = 2
  Retention = 2
INVARIANTS TypeOK OnlyByConsent OneOpenRequest
PROPERTIES OnTimeKeepsRoom NoMeansNo RevokedStops
CHECK_DEADLOCK FALSE
