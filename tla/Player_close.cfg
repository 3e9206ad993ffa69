\* The window is closed while a file plays, or is paused.
SPECIFICATION FairSpec
CONSTANTS
  Modes = {"VideoWithAudio"}
  UserOps = {"open", "play_button", "close"}
  Patient = TRUE
  MaxOpens = 1
  MaxPackets = 1
  RingCapacity = 1
PROPERTY CloseReturns
CHECK_DEADLOCK FALSE
