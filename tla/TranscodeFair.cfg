SPECIFICATION FairSpec
CONSTANTS
  Handlers = {h1}
  Sessions = {s1, s2}
  Owners = {o1}
  Anon = anon
  Callers = {o1}
  NoSess = NoSess
  Films = {f1}
  Channels = {c1}
  Offsets = {0, 60}
  SegmentSeconds = 6
  Kinds = {"hls", "prog"}
  MaxSessions = 1
  UnreadIdle = 1
  LiveIdle = 1
  Grace = 2
  IdleTimeout = 2
  FileWait = 1
  SegWait = 1
  Events = {"clock", "segment", "fail"}
PROPERTIES PlaylistAnswered SessionsEnd
CHECK_DEADLOCK FALSE
