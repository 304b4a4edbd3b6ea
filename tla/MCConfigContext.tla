---------------------------- MODULE MCConfigContext ----------------------------
(* ConfigContext with three managers: the one of a and b shares no class  *)
(* with another, those of {c, d} and {d} compete for d.                    *)
EXTENDS ConfigContext

CONSTANTS a, b, c, d

MCClass == {a, b, c, d}
MCLoadable == {{a, b}, {c, d}, {d}}

InstanceSymmetry ==
  Permutations(Task) \cup Permutations(Ctx \ {DefaultCtx})
    \cup Permutations(Version)

===============================================================================
