SPECIFICATION Spec
CONSTANTS
  Conns = {c1, c2, c3}
  Users = {ix}
  Workers = {w1, w2}
  Limits = {2, 4}
  Packets = 1
  Msgs = 2
  HangUps = 1
  None = None
INVARIANTS OneHandler NobodyForgotten AddressKept 
SYMMETRY Symmetric
CHECK_DEADLOCK FALSE
