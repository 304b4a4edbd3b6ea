CONSTANTS
  Task = {t1, t2}
  Ctx = {x0, x1}
  DefaultCtx = x0
  Active = Active
  Idle = Idle
  Missing = Missing
  Fallback = Fallback
  Unasked = Unasked
  Volunteered <- MCVolunteered
  A = A
  B = B
  f = f
  g = g
  p = p
  q = q
  r = r
  app = app
  Class = {A, B}
  Manager = {app}
  Backend = {p, q, r}
  Field <- MCOneField
  ClassOf <- MCLaterClass
  Defaulted = {g}
  Managed <- MCManaged
  Route <- MCRoute
  KeyspaceOrder <- MCKeyspaceOrder
  Value = {v1}
  MaxWrites = 0
  MaxLoads = 2
SPECIFICATION Spec
SYMMETRY InstanceSymmetry
PROPERTIES
  ImplementsContexts
CHECK_DEADLOCK FALSE
