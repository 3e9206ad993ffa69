\* Every kind of file, every user operation at any moment, what can go wrong
\* and what can hang.
SPECIFICATION FairSpec
CONSTANTS
  Modes = {"VideoWithAudio", "Audio", "Video"}
  UserOps = {"open", "play_button", "seek", "close"}
  Patient = TRUE
  MaxOpens = 2
  MaxPackets = 1
  RingCapacity = 1
INVARIANTS NoDanglingPlay
PROPERTIES StopIsComplete 
CHECK_DEADLOCK FALSE
