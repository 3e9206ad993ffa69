SPECIFICATION Spec
CONSTANTS
  N = 2
  MaxBytes = 3
  MaxTicks = 1
  MaxPosts = 3
  ThreadCounts = {1, 2}
  Droppers = {audio, other}
  FirstSize = 1
  MaxObjects = 4
  Clients = {k1, k2}
  Users = {u}
  MaxConns = 3
  MaxSends = 3
  MaxBoth = 4
  IoThreads = 2
  NoUser = NoUser
  Media <- SomeMedia
  MaxFiles = 3
  Length = 2
  RingRoom = 1
  QueueRoom = 1
  MaxSeeks = 2
  FilmLength = 2
  Late = 1
  MaxWall = 3
  MaxSought = 1
  Sizes <- SomeSizes
  FrameSize <- WideFrame
  MaxResizes = 2
  Rooms = 3
  MaxMessages = 1
  MaxAsks = 3
  MaxThreads = 3
  StartThreads = 2
  PoolSize = 4
  MaxHandlers = 4
  PoolWorkers = {w1, w2, w3}
  Submitters = {s1, s2}
  MaxTasks = 3
INVARIANTS   WindowHonest WritesExplained ChatExplained ServiceHonest SleepersExplained   SoundHonest TimerHonest SizeExplained
SYMMETRY ClientsAlike
CHECK_DEADLOCK FALSE
