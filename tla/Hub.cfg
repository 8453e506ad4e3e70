SPECIFICATION FairSpec
CONSTANTS
  Subs = {s1, s2}
  Users = {u1, u2}
  Topics = {t1, t2}
  NoSub = NoSub
INVARIANTS TypeOK NoTopicStranded ClosedReachesAll
PROPERTY ImplementsMailbox
CHECK_DEADLOCK FALSE
