----------------------------- MODULE MCConstruction -----------------------------
(* Construction with an abstract class, the concrete one that implements it *)
(* and another concrete one with the same namespace, which the registry     *)
(* does not rule out.  The first field of Con is declared in every way, the *)
(* second in three, so that the two meet in the keyspaces.                  *)
EXTENDS Construction

CONSTANTS
  Abs, Con,   (* The abstract class and its concrete class.                 *)
  Other,      (* The other concrete class.                                  *)
  ns,         (* The namespace of Con and Other.                            *)
  one, two,   (* Fields.                                                    *)
  p, q, r     (* Backends.                                                  *)

MCConcreteOf == (Abs :> Con) @@ (Con :> Con) @@ (Other :> Other)
MCNamespaceOf == (Abs :> None) @@ (Con :> ns) @@ (Other :> ns)
MCFieldsOf == (Abs :> <<>>) @@ (Con :> <<one, two>>) @@ (Other :> <<>>)

MCOrderings == {<<q, p>>, <<p, q, r>>}

MCDeclarations ==
  (one :> Declaration) @@
  (two :> {d \in Declaration :
             /\ d.abstract = "plaintext" /\ d.concrete \in {"absent", "secret"}
             /\ d.sources \in {<<>>, <<[backend |-> q, key |-> 1]>>}
             /\ d.concrete = "absent" => d.sources = <<>>})

===============================================================================
