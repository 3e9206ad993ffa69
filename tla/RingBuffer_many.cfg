\* Two readers and two writers compete; a third thread stops the buffer.
SPECIFICATION Spec
CONSTANTS
  r1 = r1
  r2 = r2
  w1 = w1
  w2 = w2
  s1 = s1
  Readers = {r1, r2}
  Writers = {w1, w2}
  Clearers = {}
  Stoppers = {s1}
  Capacity = 2
  MaxWrites = 4
SYMMETRY Symmetry
INVARIANTS Consistent ReaderWakeups
PROPERTY Promise
CHECK_DEADLOCK FALSE
