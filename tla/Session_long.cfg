\* One message of two fragments, from the server.
SPECIFICATION FairSpec
CONSTANTS
  t1 = t1
  t2 = t2
  Threads = {t1, t2}
  Peer = "transmitMessage"
  HeaderSize = 2
  MAX_FRAGMENT_SIZE = 3
  TmpSize = 3
  MaxMessages = 1
  Sizes = {4}
PROPERTY LongMessagesHandled
CHECK_DEADLOCK FALSE
