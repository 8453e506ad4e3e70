SPECIFICATION Spec
CONSTANTS
  Handlers = {h1, h2}
  Sessions = {s1, s2}
  Owners = {}
  Anon = anon
  Callers = {anon}
  NoSess = NoSess
  Films = {f1}
  Channels = {c1}
  Offsets = {0}
  SegmentSeconds = 6
  Kinds = {"hls", "live", "livehls"}
  MaxSessions = 1
  UnreadIdle = 1
  LiveIdle = 1
  Grace = 3
  IdleTimeout = 4
  FileWait = 1
  SegWait = 2
  Events = {"clock", "segment", "stop", "shutdown", "fail"}
SYMMETRY Symmetric
INVARIANTS TypeOK NoOrphan
PROPERTIES PlayedSessionKept ImplementsLife
CHECK_DEADLOCK FALSE
