CONSTANTS
  Class = {c1, c2, c3}
  Namespace = {None, app}
  Unset = Unset
  MaxDepth = 0
SPECIFICATION Spec
SYMMETRY InstanceSymmetry
INVARIANTS
  CompletenessAccepted
CHECK_DEADLOCK FALSE
