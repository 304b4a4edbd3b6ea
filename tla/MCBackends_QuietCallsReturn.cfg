CONSTANTS
  None = None
  Unreadable = Unreadable
  Missing = Missing
  Table = Table
  f = f
  g = g
  Value = {v1, v2}
  Upper <- MCUpper
  Kept <- MCKept
  Keyspaces <- MCKeyspaces
  OtherSlots <- MCOtherSlots
  MaxWrites = 2
SPECIFICATION Spec
INVARIANTS
  QuietCallsReturn
CHECK_DEADLOCK FALSE
