\* Three clipboards that join one by one, one leaves; two copies with any of two time stamps.
CONSTANTS
  MaxNodes = 3
  MaxCopies = 2
  Stamps = {0, 1}
  MaxLeave = 1
SPECIFICATION FairNetSpec
CHECK_DEADLOCK FALSE
INVARIANTS
  NetTypeOK
  Delivery
  SenderHas
  NoReturn
  Agreement
PROPERTIES
  Settles
