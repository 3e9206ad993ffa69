\* Two workers, two submitters, three tasks, and shut_down at any moment.
SPECIFICATION FairSpec
CONSTANTS
  w1 = w1
  w2 = w2
  s1 = s1
  s2 = s2
  t1 = t1
  t2 = t2
  t3 = t3
  Workers = {w1, w2}
  Submitters = {s1, s2}
  Tasks = {t1, t2, t3}
  NoTask = NoTask
INVARIANTS RunOnce NoSleeperWhenJoining
PROPERTY WorksAndEnds
CHECK_DEADLOCK FALSE
