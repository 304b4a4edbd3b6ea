CONSTANTS
  Class = {c1, c2, c3}
  Namespace = {None, app, lib}
  Unset = Unset
  MaxDepth = 1
SPECIFICATION Spec
SYMMETRY InstanceSymmetry
INVARIANTS
  TypeOK
  LookupsAgree
  NamespaceOwners
  NormalizeSound
PROPERTIES
  ConcreteIsStable
CHECK_DEADLOCK FALSE
