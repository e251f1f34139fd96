SPECIFICATION Spec
CHECK_DEADLOCK FALSE
CONSTANTS
  Handlers = {h1}
  LastMonth = 2
  Rent = 1
  Usage = 0
  Amounts = {1}
  MaxPayments = 1
  Ops = {"bill", "pay"}
  Overrides = {"sent", "paid", "void"}
  MayCrash = FALSE
PROPERTY CarriedIsOwed
