------------------------------ MODULE MCRegistry ------------------------------
(* Registry on a small instance.  Class objects are interchangeable, and so *)
(* are namespaces: the registry only compares them.                        *)
EXTENDS Registry

InstanceSymmetry == Permutations(Class) \cup Permutations(Namespace)

===============================================================================
