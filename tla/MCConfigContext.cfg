CONSTANTS
  Task = {t1, t2}
  Ctx = {x0, x1, x2}
  DefaultCtx = x0
  a = a
  b = b
  c = c
  d = d
  Class <- MCClass
  Loadable <- MCLoadable
  Version = {v1, v2, v3}
  Active = Active
  Idle = Idle
SPECIFICATION Spec
SYMMETRY InstanceSymmetry
INVARIANTS
  TypeOK
  WholeLoads
  OneContextPerLoad
PROPERTIES
  StaysLoaded
CHECK_DEADLOCK FALSE
