SPECIFICATION Spec
CHECK_DEADLOCK FALSE
CONSTANTS
  Handlers = {h1, h2}
  LastMonth = 1
  Rent = 1
  Usage = 1
  Amounts = {1}
  MaxPayments = 1
  Ops = {"bill", "pay", "reading"}
  Overrides = {}
  MayCrash = FALSE
INVARIANT AmountsAgree
