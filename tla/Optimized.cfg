SPECIFICATION FairSpec
CONSTANTS
  t1 = t1
  t2 = t2
  t3 = t3
  Title = {t1, t2, t3}
  Estimate <- EstimateOf
  Copied = {t2}
  Largest = 3
  Limit = 3
  NoTitle = NoTitle
  Moves = 5
INVARIANTS TypeOK ReadyIsWhole LimitKept
PROPERTY Settles
CHECK_DEADLOCK FALSE
