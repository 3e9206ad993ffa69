\* Two io threads, two presses of connect, one login.
SPECIFICATION Spec
CONSTANTS
  t1 = t1
  t2 = t2
  Threads = {t1, t2}
  MaxConnects = 2
  MaxLogins = 1
INVARIANTS ConnectionsExplained MainWindowHonest EndTold
CHECK_DEADLOCK FALSE
