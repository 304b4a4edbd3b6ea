------------------------------ MODULE BackendCall ------------------------------
(***************************************************************************)
(* What a config backend promises for one call of its load_sync() or        *)
(* load_async() (the CfgBackend protocol of src_py/configatron/backends.py), *)
(* while the storage behind it changes: it returns all of the values that   *)
(* it has for the fields it is asked for.  The protocol says nothing of     *)
(* exceptions; the prebaked backends raise where they cannot answer, so a   *)
(* call may also raise.                                                    *)
(*                                                                         *)
(* A call takes time, so what the storage "has" is what it held for the     *)
(* field at some instant of the call.  Loading.tla relies on this promise,  *)
(* and Backends.tla shows when the prebaked backends keep it.               *)
(***************************************************************************)
EXTENDS Naturals, Sequences, SequencesExt, Dicts

CONSTANTS
  Field,    (* The fields that can be asked for.                            *)
  Value,    (* The values that the storage can hold for them.               *)
  Missing   (* The storage has no value for the field.                      *)

VARIABLES
  past,     (* Seq of the storage's contents since the call: the last one   *)
            (* is the current one.                                          *)
  asked,    (* The fields of the call's keyspace.                           *)
  answer,   (* A dict from fields to values: what the call returned.         *)
  outcome   (* "running", "returned" or "raised".                           *)

vars == <<past, asked, answer, outcome>>

Storage == [Field -> Value \cup {Missing}]

(* An answer that a call may give: for each field asked for, a value that   *)
(* the storage had, or no entry if there was an instant when it had none.   *)
MayAnswer(r) ==
  /\ DOMAIN r \subseteq asked
  /\ \A f \in asked : \E i \in DOMAIN past :
       past[i][f] = IF f \in DOMAIN r THEN r[f] ELSE Missing

Init ==
  /\ past \in {<<s>> : s \in Storage}
  /\ asked \in SUBSET Field
  /\ answer = EmptyDict
  /\ outcome = "running"

(* The storage changes.                                                    *)
Write ==
  /\ past' \in Seq(Storage)
  /\ Front(past') = past
  /\ UNCHANGED <<asked, answer, outcome>>

Return ==
  /\ outcome = "running"
  /\ answer' \in Dict(asked, Value)
  /\ MayAnswer(answer')
  /\ outcome' = "returned"
  /\ UNCHANGED <<past, asked>>

Raise ==
  /\ outcome = "running"
  /\ outcome' = "raised"
  /\ UNCHANGED <<past, asked, answer>>

Next == Write \/ Return \/ Raise

Spec == Init /\ [][Next]_vars

===============================================================================
