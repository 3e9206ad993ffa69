\* Three messages that fit into one fragment or just fill it, from a client.
SPECIFICATION FairSpec
CONSTANTS
  t1 = t1
  t2 = t2
  Threads = {t1, t2}
  Peer = "send_to"
  HeaderSize = 2
  MAX_FRAGMENT_SIZE = 3
  TmpSize = 3
  MaxMessages = 3
  Sizes = {1, 3}
INVARIANTS StreamIntact NothingAfterDisconnect
PROPERTIES StreamServed
CHECK_DEADLOCK FALSE
