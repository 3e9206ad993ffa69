SPECIFICATION ClientSpec
CONSTANTS
  Conns = {c1}
  Users = {ix}
  Workers = {w1}
  Limits = {2}
  Packets = 1
  Msgs = 0
  HangUps = 0
  None = None
  MaxPacketSize = 4
  Header = 2
  ChatLengths = {3, 4}
  LoginLength = 2
  Messages = 2
  Chats = 1
  Offlines = 1
INVARIANTS  LoginHonest SleepExplained
CHECK_DEADLOCK FALSE
