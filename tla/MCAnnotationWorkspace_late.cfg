\* A list that the poll asked for before a save and applies after it.
SPECIFICATION Spec
CONSTANTS
  None = None
  Guess = Guess
  Agreed = Agreed
  Images = {a, b}
  Guessed = {}
  Shapes = {s1, s2}
  a = a
  b = b
  s1 = s1
  s2 = s2
  MaxCalls = 2
  MaxTicks = 1
  MaxOps = 2
  MaxHistory = 3
INVARIANT LostByNoPoll
CHECK_DEADLOCK FALSE
