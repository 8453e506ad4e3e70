SPECIFICATION FairSpec
CONSTANTS
  Windows = {w1}
  Subs = {s1, s2}
  Users = {u1}
  Topics = {t1}
  NoSub = NoSub
  MaxChanges = 1
PROPERTY NeverStaleForever
CHECK_DEADLOCK FALSE
