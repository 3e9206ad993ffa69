\* The player's use of the buffer: the audio thread reads, the decoder thread
\* is the only one that writes and the only one that clears.
SPECIFICATION FairSpec
CONSTANTS
  audio = audio
  decoder = decoder
  Readers = {audio}
  Writers = {decoder}
  Clearers = {decoder}
  Stoppers = {}
  Capacity = 2
  MaxWrites = 5
INVARIANT WriterWakeups
PROPERTIES KeepsMoving
CHECK_DEADLOCK FALSE
