\* Two images, two shapes, two operations of the page and a prediction task.
SPECIFICATION Spec
CONSTANTS
  None = None
  Guess = Guess
  Agreed = Agreed
  Images = {a, b}
  Guessed = {}
  Shapes = {s1, s2}
  a = a
  b = b
  s1 = s1
  s2 = s2
  MaxCalls = 2
  MaxTicks = 1
  MaxOps = 2
  MaxHistory = 3
INVARIANTS TypeOK OwnImage NothingLost
PROPERTY DeletedStaysDeleted
CONSTRAINT OneRace
SYMMETRY Symmetric
CHECK_DEADLOCK FALSE
