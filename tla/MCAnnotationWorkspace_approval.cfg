\* Approve All, then a save from the canvas that was not told.
SPECIFICATION Spec
CONSTANTS
  None = None
  Guess = Guess
  Agreed = Agreed
  Images = {a, b}
  Guessed = {}
  Shapes = {s1}
  a = a
  b = b
  s1 = s1
  s2 = s2
  MaxCalls = 2
  MaxTicks = 1
  MaxOps = 3
  MaxHistory = 3
PROPERTY ApprovalHolds
CHECK_DEADLOCK FALSE
