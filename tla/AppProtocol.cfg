SPECIFICATION FairProtoSpec
CONSTANTS
  Payloads <- MCPayloads
  Counts = {1, 8}
  Stamp = 7
  None = None
  MaxCalls = 4
  MaxOthers = 2
INVARIANTS ProtoTypeOK OwnAnswer InStep CloseIsSafe
PROPERTIES CallsReturn
CHECK_DEADLOCK FALSE
