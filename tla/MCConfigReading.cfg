CONSTANTS
  Class = {c1, c2, c3}
  Namespace = {n1, n2}
  Unset = Unset
  Task = {t1, t2}
  Ctx = {x0, x1}
  DefaultCtx = x0
  Version = {v1, v2}
  Active = Active
  Idle = Idle
  Manager = {m1}
  Unread = Unread
  MaxArgs = 2
SPECIFICATION Spec
SYMMETRY InstanceSymmetry
INVARIANTS
  TypeOK
  LoadedIsReadable
  ReadersMoveForward
PROPERTIES
  ConcreteStaysReadable
  AbstractReadsChangeForCause
CHECK_DEADLOCK FALSE
