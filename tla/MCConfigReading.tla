---------------------------- MODULE MCConfigReading ----------------------------
(* ConfigReading on a small instance.                                      *)
EXTENDS ConfigReading, TLC

InstanceSymmetry ==
  Permutations(Class) \cup Permutations(Namespace) \cup Permutations(Task)
    \cup Permutations(Manager) \cup Permutations(Version)

===============================================================================
