------------------------------ MODULE MCBackends -------------------------------
(* Backends with fields whose names meet: those of second and third are one *)
(* environment variable, A_B_C, and the key of first is the name of the     *)
(* table that second is in.                                                *)
EXTENDS Backends

CONSTANTS f, g  (* Names of fields.                                         *)

a == <<"a">>

MCUpper == [ch \in {"a", "b", "c", "n", "o", "e"} |->
              CASE ch = "a" -> "A" [] ch = "b" -> "B" [] ch = "c" -> "C"
                [] ch = "n" -> "N" [] ch = "o" -> "O" [] ch = "e" -> "E"]
MCKept == {"A", "B", "C", "N", "O", "E", "_"}

first == [namespace |-> None, name |-> g, key |-> a]
second == [namespace |-> a, name |-> f, key |-> <<"b", ".", "c">>]
third == [namespace |-> <<"a", "_", "b">>, name |-> f, key |-> <<"c">>]

MCKeyspaces == {<<first, second>>, <<second, third>>, <<first, second, third>>}

(* A variable of another program; an entry of another test; a value where a *)
(* table is expected, and another value of that table.                      *)
MCOtherSlots ==
  [k \in Kind |->
     CASE k = "env"    -> {<<"O">>}
       [] k = "memory" -> {<<None, g, <<"c">>>>}
       [] OTHER        -> {<<a>>, <<a, <<"c">>>>}]

InstanceSymmetry == Permutations(Value)

===============================================================================
