SPECIFICATION HSpec
CHECK_DEADLOCK FALSE
CONSTANTS
  Handlers = {h1, h2}
  LastMonth = 2
  Rent = 2
  Usage = 1
  Amounts = {2}
  MaxPayments = 2
  Ops <- AllOps
  Racing = {"bill", "pay", "proforma", "update"}
  Overrides = {"sent"}
  MayCrash = TRUE
INVARIANT TypeOK
INVARIANT AmountsAgree
INVARIANT LedgerLeads
PROPERTY SerialMovesForward
SYMMETRY Symmetric
