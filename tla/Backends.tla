------------------------------- MODULE Backends --------------------------------
(***************************************************************************)
(* The prebaked backends (src_py/configatron/prebaked/backends): a call of   *)
(* load_sync() or load_async() on environment variables, on a JSON or TOML  *)
(* file, or on a MemoryBackend, while another thread or process changes the *)
(* storage.  What the call promises is the module BackendCall.              *)
(*                                                                         *)
(* The storage is a dict from slots to values.  A slot is the name of an    *)
(* environment variable, the MemoryBackendKey, or the path of a value in    *)
(* the document: <<key>> on the top level, <<table, key>> in a table.       *)
(*                                                                         *)
(* os.environ is listed first and then read one variable at a time, the     *)
(* memory's dict is iterated over, and a file is read at once.  load_async() on the   *)
(* first two is load_sync() after a sleep(0), during which anything may     *)
(* happen to the storage, as it may before the first step here.             *)
(***************************************************************************)
EXTENDS Naturals, Sequences, SequencesExt, FiniteSets, Dicts

CONSTANTS
  None,        (* Python's None.                                            *)
  Unreadable,  (* A file that is absent, malformed, or no table at all.     *)
  Missing,     (* No value.                                                 *)
  Table,       (* Stands for any table that is returned as a value.         *)
  Value,       (* The other values.                                         *)
  Upper,       (* str.upper(), for the characters that it changes.          *)
  Kept,        (* The characters that NAME_COERCER leaves alone.            *)
  Keyspaces,   (* Bound: the keyspaces that a manager asks for.             *)
  OtherSlots,  (* Bound: [Kind -> slots of no field that may be filled].     *)
  MaxWrites    (* Bound: changes of the storage.                            *)

ASSUME MissingAssumption == Missing \notin Value \cup {Table}
ASSUME BoundAssumption == MaxWrites \in Nat

VARIABLES
  kind,      (* The backend: one of Kind.                                   *)
  keyspace,  (* full_keyspace.flattened, which is also the request.         *)
  history,   (* Seq of the storage's contents: the last is the current one. *)
  listed,    (* Where in the history the slots were listed; 0 before that.  *)
  todo,      (* Slots that the call has listed, or will come to, and has     *)
             (* not read.                                                    *)
  left,      (* Items that an iteration over the memory's dict still expects. *)
  answer,    (* The dict that the call returns.                             *)
  outcome    (* "running", "returned", or why the call raised.              *)

call == <<kind, keyspace>>
vars == <<kind, keyspace, history, listed, todo, left, answer, outcome>>

-------------------------------------------------------------------------------
(* Keyspaces.                                                              *)

Kind == {"env", "json", "toml", "memory"}
IsFile == kind \in {"json", "toml"}

ASSUME SlotsAssumption == \A k \in Kind : IsFiniteSet(OtherSlots[k])

(* A document is as deep as the keyspaces look into it.                     *)
ASSUME DepthAssumption ==
  \A k \in {"json", "toml"} : \A s \in OtherSlots[k] :
    s \in Seq(Range(s)) /\ Len(s) \in 1..2

(* A field: its CfgFieldDesc, and the first lookup key of its source, the   *)
(* only one that these backends use.  Texts are sequences of characters.    *)
Desc(e) == [namespace |-> e.namespace, name |-> e.name]
Fields == {Desc(e) : e \in Range(keyspace)}

(* A keyspace is a list, which has a field once.                            *)
ASSUME KeyspacesAssumption ==
  \A k \in Keyspaces :
    /\ k \in Seq(Range(k))
    /\ \A i, j \in DOMAIN k : Desc(k[i]) = Desc(k[j]) => i = j

(* NAME_COERCER.sub('_', f'{namespace}_{lookup_key}'.upper())               *)
VariableName(namespace, key) ==
  LET shown == IF namespace = None THEN <<"N", "o", "n", "e">> ELSE namespace
      text == shown \o <<"_">> \o key
      Uppercase(ch) == IF ch \in DOMAIN Upper THEN Upper[ch] ELSE ch
  IN  [i \in DOMAIN text |->
         IF Uppercase(text[i]) \in Kept THEN Uppercase(text[i]) ELSE "_"]

MemoryBackendKey(e) == <<e.namespace, e.name, e.key>>

PathOf(e) == IF e.namespace = None THEN <<e.key>> ELSE <<e.namespace, e.key>>

SlotOf(e) ==
  CASE kind = "env"    -> VariableName(e.namespace, e.key)
    [] kind = "memory" -> MemoryBackendKey(e)
    [] IsFile          -> PathOf(e)

Slots == {SlotOf(e) : e \in Range(keyspace)} \cup OtherSlots[kind]

(* The dict from slots to fields that the call computes first.  Of several  *)
(* fields with the same slot, the last one in the keyspace gets it.         *)
expected_keys_FirstWins ==
  [s \in {SlotOf(e) : e \in Range(keyspace)} |->
     Desc(keyspace[SelectInSeq(keyspace, LAMBDA e : SlotOf(e) = s)])]

expected_keys ==
  [s \in {SlotOf(e) : e \in Range(keyspace)} |->
     Desc(keyspace[SelectLastInSeq(keyspace, LAMBDA e : SlotOf(e) = s)])]

-------------------------------------------------------------------------------
(* The storage.                                                            *)

Current == Last(history)

(* In a document a name is either that of a value or that of a table.       *)
WellFormed(content) ==
  \A s \in DOMAIN content : Len(s) = 2 => <<s[1]>> \notin DOMAIN content

Contents ==
  IF IsFile
  THEN {content \in Dict(Slots, Value) : WellFormed(content)} \cup {Unreadable}
  ELSE Dict(Slots, Value)

Init ==
  /\ kind \in Kind
  /\ keyspace \in Keyspaces
  /\ history \in {<<content>> : content \in Contents}
  /\ listed = 0
  /\ todo = {}
  /\ left = 0
  /\ answer = EmptyDict
  /\ outcome = "running"

(* The content after one slot was filled, changed or emptied, or after the  *)
(* whole file was replaced.                                                *)
SlotsDiffer(c, d) ==
  {s \in DOMAIN c \cup DOMAIN d :
     ~(s \in DOMAIN c \cap DOMAIN d /\ c[s] = d[s])}

Changed(content) ==
  IF IsFile /\ Unreadable \in {content, Current}
  THEN content # Current
  ELSE Cardinality(SlotsDiffer(content, Current)) = 1

(* What is ahead of an iteration over the memory's dict when a key is added: *)
(* the new key too, at the end.  But the dict may have to be laid out anew   *)
(* without its gaps, and an iteration that has begun goes on at its old     *)
(* position: it misses some of what was ahead, all of it perhaps.  A key    *)
(* that is removed leaves a gap.                                           *)
Begun == listed # 0 /\ left < Cardinality(DOMAIN history[listed])

Ahead(content) ==
  LET added == DOMAIN content \ DOMAIN Current
  IN  CASE kind # "memory" \/ listed = 0 \/ added = {} -> {todo}
        [] kind = "memory" /\ listed # 0 /\ added # {} ->
             {todo \cup added} \cup
               IF Begun THEN {{}} \cup {rest \cup added : rest \in SUBSET todo} ELSE {}

(* The storage changes.                                                    *)
Write(content) ==
  /\ outcome = "running"
  /\ Len(history) <= MaxWrites
  /\ Changed(content)
  /\ history' = Append(history, content)
  /\ todo' \in Ahead(content)
  /\ UNCHANGED <<call, listed, left, answer, outcome>>

-------------------------------------------------------------------------------
(* The call.                                                               *)

Raise(error) ==
  /\ outcome' = error
  /\ UNCHANGED <<call, history, listed, todo, left, answer>>

(* set(os.environ), and the start of an iteration over the memory's dict.   *)
(* Every variable stays listed: difference_update() is given fields.        *)
List ==
  /\ outcome = "running"
  /\ kind \in {"env", "memory"}
  /\ listed = 0
  /\ listed' = Len(history)
  /\ todo' = DOMAIN Current
  /\ left' = IF kind = "memory" THEN Cardinality(DOMAIN Current) ELSE 0
  /\ UNCHANGED <<call, history, answer, outcome>>

Reading(slot) == outcome = "running" /\ slot \in todo

Pass(slot) ==
  /\ todo' = todo \ {slot}
  /\ UNCHANGED <<call, history, listed, outcome>>

Take(slot) ==
  /\ Pass(slot)
  /\ answer' = Put(answer, expected_keys[slot], Current[slot])

(* EnvVarBackend: expected_keys[varname], then os.environ[varname].         *)
ReadVariable(slot) ==
  /\ kind = "env"
  /\ Reading(slot)
  /\ IF slot \in DOMAIN expected_keys /\ slot \in DOMAIN Current
     THEN Take(slot) /\ left' = left
     ELSE Raise("KeyError")

(* MemoryBackend: an iteration notices at each of its steps, the last one   *)
(* included, that the dict has become larger or smaller, ...               *)
SizeChanged == Cardinality(DOMAIN Current) # Cardinality(DOMAIN history[listed])

NextItem(slot) ==
  /\ kind = "memory"
  /\ Reading(slot) /\ slot \in DOMAIN Current
  /\ ~SizeChanged
  /\ left > 0
  /\ left' = left - 1
  /\ IF slot \in DOMAIN expected_keys
     THEN Take(slot)
     ELSE Pass(slot) /\ answer' = answer

(* ... or that there is another item after it gave as many as it had to.    *)
ItemsAhead == todo \cap DOMAIN Current # {}

IterationRaises ==
  /\ kind = "memory"
  /\ outcome = "running"
  /\ listed # 0
  /\ SizeChanged \/ (left = 0 /\ ItemsAhead)
  /\ Raise("RuntimeError")

Return ==
  /\ outcome = "running"
  /\ listed # 0
  /\ kind = "env" => todo = {}
  /\ kind = "memory" => ~SizeChanged /\ ~ItemsAhead
  /\ outcome' = "returned"
  /\ UNCHANGED <<call, history, listed, todo, left, answer>>

(* The files: json_obj.get(namespace, {}).get(lookup_key, _MISSING), with   *)
(* the document itself for namespace None.  A table there is a value too.   *)
Get_ValuesOnly(content, e) ==
  IF PathOf(e) \in DOMAIN content THEN content[PathOf(e)] ELSE Missing

Get(content, e) ==
  CASE PathOf(e) \in DOMAIN content -> content[PathOf(e)]
    [] e.namespace = None /\ \E s \in DOMAIN content : Len(s) = 2 /\ s[1] = e.key -> Table
    [] OTHER -> Missing

(* What has the name of a namespace but is a value has no get().            *)
NoTableFor_NoDefault(content, namespace) ==
  ~\E s \in DOMAIN content : Len(s) = 2 /\ s[1] = namespace

NoTableFor(content, namespace) == <<namespace>> \in DOMAIN content

(* The fields that get a value.                                            *)
Found_Everything(content) == Range(keyspace)

Found(content) == {e \in Range(keyspace) : Get(content, e) # Missing}

ParseDocument ==
  CASE Current = Unreadable -> Raise("Unreadable")
    [] Current # Unreadable
         /\ \E e \in Range(keyspace) :
              e.namespace # None /\ NoTableFor(Current, e.namespace) ->
           Raise("AttributeError")
    [] OTHER ->
         /\ answer' =
              [d \in {Desc(e) : e \in Found(Current)} |->
                 Get(Current, CHOOSE e \in Found(Current) : Desc(e) = d)]
         /\ outcome' = "returned"
         /\ UNCHANGED <<call, history, listed, todo, left>>

ReadJson ==
  /\ kind = "json"
  /\ outcome = "running"
  /\ ParseDocument

ReadToml ==
  /\ kind = "toml"
  /\ outcome = "running"
  /\ ParseDocument

Next ==
  \/ \E content \in Contents : Write(content)
  \/ List
  \/ \E slot \in Slots : ReadVariable(slot)
  \/ \E slot \in Slots : NextItem(slot)
  \/ IterationRaises
  \/ Return
  \/ ReadJson
  \/ ReadToml

Spec == Init /\ [][Next]_vars

-------------------------------------------------------------------------------
(* The type invariant.                                                     *)
TypeOK ==
  /\ kind \in Kind /\ keyspace \in Keyspaces
  /\ history \in Seq(Contents) /\ Len(history) \in 1..(MaxWrites + 1)
  /\ listed \in 0..Len(history)
  /\ todo \subseteq Slots /\ left \in 0..Cardinality(Slots)
  /\ answer \in Dict(Fields, Value \cup {Table})
  /\ outcome \in {"running", "returned",
                 "KeyError", "RuntimeError", "AttributeError", "Unreadable"}

(* A later field of the keyspace takes the slot: it has the same name as an *)
(* environment variable.  The docstring (env_vars.py:34) tells how names    *)
(* are coerced, and not that two fields can come to share one.             *)
Shadowed(e) ==
  \E i, j \in DOMAIN keyspace :
    i < j /\ keyspace[i] = e /\ SlotOf(keyspace[j]) = SlotOf(e)

(* What a document has at a path: the value there, or the table of what is  *)
(* below it.                                                               *)
At(content, path) ==
  CASE path \in DOMAIN content -> content[path]
    [] path \notin DOMAIN content
         /\ \E s \in DOMAIN content : IsStrictPrefix(path, s) -> Table
    [] OTHER -> Missing

(* The value that a content of the storage holds for a field.              *)
Held(content, e) ==
  CASE ~IsFile -> IF SlotOf(e) \in DOMAIN content /\ ~Shadowed(e)
                  THEN content[SlotOf(e)] ELSE Missing
    [] IsFile /\ content = Unreadable -> Missing
    [] IsFile /\ content # Unreadable -> At(content, PathOf(e))

AllFields == UNION {{Desc(k[i]) : i \in DOMAIN k} : k \in Keyspaces}

HeldFor(content) ==
  [f \in AllFields |->
     IF f \in Fields
     THEN Held(content, CHOOSE e \in Range(keyspace) : Desc(e) = f)
     ELSE Missing]

(* A key was added to the memory's dict after the iteration had begun.      *)
Disturbed ==
  /\ kind = "memory"
  /\ listed # 0
  /\ \E i \in (listed + 1)..Len(history) :
       ~(DOMAIN history[i] \subseteq DOMAIN history[i - 1])

Returned == outcome = "returned" /\ ~Disturbed

Call == INSTANCE BackendCall WITH
  Field <- AllFields,
  Value <- Value \cup {Table},
  past <- [i \in DOMAIN history |-> HeldFor(history[i])],
  asked <- Fields,
  answer <- IF Returned THEN answer ELSE EmptyDict,
  outcome <- IF outcome = "running" THEN "running"
             ELSE IF Returned THEN "returned" ELSE "raised"

(* A call that returns keeps the promise of BackendCall, for every field    *)
(* whose slot no later field takes: each value was in the field's own slot  *)
(* during the call, and a field is left out only if it had none at some     *)
(* instant.  The storage may change in any way between the listing and the  *)
(* reads, but for one: a call whose dict gained a key during the iteration  *)
(* counts as one that raised, whatever it returned, so nothing is promised  *)
(* of it here: with another key removed the size is the same again, and it  *)
(* can return without a field whose entry was there all the time.           *)
ImplementsCall == Call!Spec

(* Whatever the storage went through, that included, no call makes up an    *)
(* answer: each value was held for the field it is returned for, in its own *)
(* slot or at its own path, at some instant of the call, and a field whose  *)
(* slot a later field takes gets no value.                                 *)
ValuesWereHeld ==
  outcome = "returned" =>
    \A e \in Range(keyspace) : Desc(e) \in DOMAIN answer =>
      \E i \in DOMAIN history : Held(history[i], e) = answer[Desc(e)]

(* What a call raises can be told from the storage: a call fails only when  *)
(* it held something outside the keyspace or lost it again while it was     *)
(* read, or when the file was not what the keyspace takes it for.           *)
KeySetChanged == \E i, j \in DOMAIN history : DOMAIN history[i] # DOMAIN history[j]

ErrorsHaveCause ==
  /\ outcome = "KeyError" =>
       \/ \E s \in DOMAIN history[listed] : \A e \in Range(keyspace) : s # SlotOf(e)
       \/ KeySetChanged
  /\ outcome = "RuntimeError" => KeySetChanged
  /\ outcome = "Unreadable" => Current = Unreadable
  /\ outcome = "AttributeError" =>
       \E s \in DOMAIN Current, e \in Range(keyspace) : s = <<e.namespace>>

-------------------------------------------------------------------------------
(* What the documentation says of the backends and the code does not do.    *)

(* backends.py:44 says that backends must return all of the values they     *)
(* have available.  An environment that holds nothing but strangers and the *)
(* fields' variables, and does not change, still makes EnvVarBackend raise.  *)
QuietCallsReturn ==
  kind = "env" /\ Len(history) = 1 => outcome # "KeyError"

===============================================================================
