------------------------------- MODULE MCLoading -------------------------------
(* Loading with a manager of two classes.  Backend p answers for g, which   *)
(* it is not asked for, and r is a backend that no field uses.              *)
EXTENDS Loading

CONSTANTS
  A, B,      (* Classes.                                                    *)
  f, g,      (* Their fields: f of A, and g of B, which has a default.       *)
  p, q, r,   (* Backends.                                                   *)
  app        (* A manager.                                                  *)

MCField == {f, g}
MCOneField == {f}
MCClassOf == [h \in Field |-> IF h = f THEN A ELSE B]

(* The later class may lack a value after the earlier one was built.        *)
MCLaterClass == [h \in Field |-> B]

MCManaged == app :> <<A, B>>
MCRoute == app :> [h \in Field |-> IF h = f THEN <<p, q>> ELSE <<q>>]
MCKeyspaceOrder == app :> <<p, q>>
MCVolunteered == [b \in Backend |-> IF b = p THEN Field \ {f} ELSE {}]

InstanceSymmetry ==
  Permutations(Task) \cup Permutations(Ctx \ {DefaultCtx}) \cup Permutations(Value)

===============================================================================
