CONSTANTS
  t1 = t1
  w1 = w1
  w2 = w2
  r1 = r1
  r2 = r2
  r3 = r3
  Tasks = {t1}
  Runs = {r1, r2}
  Workers = {w1, w2}
  Limit = 1
  NoRun = NoRun
  NoTask = NoTask
  EventBound = 2
SPECIFICATION FairSpec
INVARIANT DueOnce
PROPERTY DueIsServed
CHECK_DEADLOCK FALSE
