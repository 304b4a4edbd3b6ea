CONSTANTS
  Abs = Abs
  Con = Con
  Other = Other
  ns = ns
  one = one
  two = two
  None = None
  p = p
  q = q
  r = r
  Class = {Abs, Con, Other}
  ConcreteOf <- MCConcreteOf
  NamespaceOf <- MCNamespaceOf
  FieldsOf <- MCFieldsOf
  Field = {one, two}
  Backend = {p, q, r}
  Orderings <- MCOrderings
  Declarations <- MCDeclarations
  MaxClasses = 2
  MaxSources = 3
SPECIFICATION Spec
INVARIANTS
  TypeOK
  RoutesFollowDeclarations
  KeyspacesMatchRoutes
  SecretsStayOut
  EveryArgumentIsManaged
CHECK_DEADLOCK FALSE
