SPECIFICATION Spec
CONSTANTS
  Handlers = {h1, h2}
  Sessions = {s1, s2, s3, s4}
  Owners = {o1}
  Anon = anon
  Callers = {o1}
  NoSess = NoSess
  Films = {f1}
  Channels = {c1}
  Offsets = {0, 60}
  SegmentSeconds = 6
  Kinds = {"hls", "prog"}
  MaxSessions = 2
  UnreadIdle = 1
  LiveIdle = 1
  Grace = 0
  IdleTimeout = 2
  FileWait = 1
  SegWait = 1
  Events = {}
SYMMETRY Symmetric
INVARIANTS CeilingOvershoot SeeksLeaveNothing
CHECK_DEADLOCK FALSE
