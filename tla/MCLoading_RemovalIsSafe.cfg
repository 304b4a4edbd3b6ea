CONSTANTS
  Task = {t1}
  Ctx = {x0}
  DefaultCtx = x0
  Active = Active
  Idle = Idle
  Missing = Missing
  Fallback = Fallback
  Unasked = Unasked
  Volunteered <- MCVolunteered
  A = A
  B = B
  f = f
  g = g
  p = p
  q = q
  r = r
  app = app
  Class = {A, B}
  Manager = {app}
  Backend = {p, q, r}
  Field <- MCField
  ClassOf <- MCClassOf
  Defaulted = {g}
  Managed <- MCManaged
  Route <- MCRoute
  KeyspaceOrder <- MCKeyspaceOrder
  Value = {v1}
  MaxWrites = 0
  MaxLoads = 1
SPECIFICATION FairSpec
PROPERTIES
  RemovalIsSafe
CHECK_DEADLOCK FALSE
