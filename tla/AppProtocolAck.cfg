SPECIFICATION ProtoSpec
CONSTANTS
  Payloads <- MCPayloads
  Counts = {1, 8}
  Stamp = 7
  None = None
  MaxCalls = 3
  MaxOthers = 0
INVARIANT PasteReturnsCopy
CHECK_DEADLOCK FALSE
