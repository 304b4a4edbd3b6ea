------------------------------- MODULE Registry -------------------------------
(***************************************************************************)
(* The registry of config classes (src_py/configatron/_registry.py), with  *)
(* its two writers: the metaclass, which registers every class it creates  *)
(* as abstract (cfg_abstract.py), and the class decorator, which registers *)
(* the class it finishes as concrete (cfg_concrete.py).                    *)
(*                                                                         *)
(* A class is the identity of a class object.  What the code stores on the *)
(* class object itself (its config ancestors and its Configatron config)   *)
(* is global; what it stores in a CfgRegistryState belongs to the registry *)
(* context that is active, and contexts nest.                              *)
(*                                                                         *)
(* One registration is one step: classes are created by module code, which *)
(* the import system runs one module at a time.                            *)
(***************************************************************************)
EXTENDS Naturals, Sequences, SequencesExt, Dicts

CONSTANTS
  Class,      (* Identities of class objects with metaclass CfgMeta.        *)
  Namespace,  (* Namespaces, Python's None being one of them.               *)
  Unset,      (* Stands for a class without a _configatron_cfg of its own.  *)
  MaxDepth    (* Bound: how deep create_registry_context() calls nest.      *)

ASSUME UnsetAssumption == Unset \notin Namespace
ASSUME MaxDepthAssumption == MaxDepth \in Nat

VARIABLES
  mro,       (* [Class -> Seq(Class)]: __CONFIGATRON_CLASSES__, the class    *)
             (* itself first; <<>> before the class object exists.           *)
  slotted,   (* Classes that dataclass(slots=True) has made.                 *)
  cfg,       (* The namespace of the class's own _configatron_cfg, or Unset. *)
  registry,  (* The CfgRegistryState that _CONFIG_REGISTRY.get() returns.    *)
  outer      (* The states that the open registry contexts will restore.     *)

vars == <<mro, slotted, cfg, registry, outer>>

-------------------------------------------------------------------------------
(* Class objects.                                                          *)

Exists(c) == mro[c] # <<>>

(* getattr() on a class also finds the config of the classes it inherits   *)
(* from, so a subclass of a concrete class counts as concrete.             *)
is_cfg_cls_xable(c) == \E i \in DOMAIN mro[c] : cfg[mro[c][i]] # Unset

(* The abstract class that a concrete class implements: the parentmost     *)
(* config class, which is the class itself when it has no config ancestor. *)
AbstractOf_NearestParent(parents) ==
  IF Len(parents) = 1 THEN parents[1] ELSE parents[2]

AbstractOf(parents) == Last(parents)

-------------------------------------------------------------------------------
(* CfgRegistryState and its methods, as functions of the state.            *)

CfgRegistryState ==
  [abstract_cfg_classes  : SUBSET Class,
   concrete_cfg_classes  : SUBSET Class,
   concrete_lookup       : Dict(Class, Class),      (* abstract -> concrete *)
   abstract_lookup       : Dict(Class, Class),      (* concrete -> abstract *)
   concrete_by_namespace : Dict(Namespace, Class)]

EmptyRegistry ==
  [abstract_cfg_classes  |-> {},
   concrete_cfg_classes  |-> {},
   concrete_lookup       |-> EmptyDict,
   abstract_lookup       |-> EmptyDict,
   concrete_by_namespace |-> EmptyDict]

register_abstract(r, c) == [r EXCEPT !.abstract_cfg_classes = @ \cup {c}]

(* A registration is refused, without effect on the registry, when the     *)
(* class is already concrete (MultipleConcreteConfigsForAbstract) or its   *)
(* namespace is taken (DuplicateConfigNamespace).                          *)
Refused_NoClassCheck(r, c, ns) == ns \in DOMAIN r.concrete_by_namespace

Refused(r, c, ns) ==
  \/ c \in DOMAIN r.abstract_lookup
  \/ ns \in DOMAIN r.concrete_by_namespace

(* The tables with c in them.                                              *)
Registered_SwappedKey(r, c, ns, parents) ==
  [r EXCEPT !.concrete_cfg_classes  = @ \cup {c},
            !.concrete_by_namespace = Put(@, c, ns),
            !.concrete_lookup       = Put(@, AbstractOf(parents), c),
            !.abstract_lookup       = Put(@, c, AbstractOf(parents))]

Registered(r, c, ns, parents) ==
  [r EXCEPT !.concrete_cfg_classes  = @ \cup {c},
            !.concrete_by_namespace = Put(@, ns, c),
            !.concrete_lookup       = Put(@, AbstractOf(parents), c),
            !.abstract_lookup       = Put(@, c, AbstractOf(parents))]

register_concrete_WritesFirst(r, c, ns, parents) ==
  IF Refused(r, c, ns)
  THEN [r EXCEPT !.concrete_lookup = Put(@, AbstractOf(parents), c)]
  ELSE Registered(r, c, ns, parents)

register_concrete(r, c, ns, parents) ==
  IF Refused(r, c, ns) THEN r ELSE Registered(r, c, ns, parents)

(* verify_completeness() raises MissingConcreteConfigs when it is FALSE.    *)
verify_completeness(r) == r.abstract_cfg_classes \subseteq DOMAIN r.concrete_lookup

(* normalize_config_cls(): a lookup that fails is a KeyError.               *)
Normalizes(r, c) ==
  c \in DOMAIN (IF is_cfg_cls_xable(c) THEN r.abstract_lookup
                                       ELSE r.concrete_lookup)

normalize_config_cls(r, c) ==
  IF is_cfg_cls_xable(c)
  THEN [abstract_cls |-> r.abstract_lookup[c], concrete_cls |-> c]
  ELSE [abstract_cls |-> c, concrete_cls |-> r.concrete_lookup[c]]

-------------------------------------------------------------------------------
Init ==
  /\ mro = [c \in Class |-> <<>>]
  /\ slotted = {}
  /\ cfg = [c \in Class |-> Unset]
  /\ registry = EmptyRegistry
  /\ outer = <<>>

(* class c(...): CfgMeta.__init__ computes the config ancestors and         *)
(* registers the class, whatever it is, as abstract.  left and right are   *)
(* the ancestors that up to two bases contribute, in the order of the      *)
(* bases; the bases share no config ancestor, so they are not merged.      *)
DefineClass(c, left, right) ==
  /\ ~Exists(c)
  /\ Range(left) \cap Range(right) = {}
  /\ mro' = [mro EXCEPT ![c] = <<c>> \o left \o right]
  /\ registry' = register_abstract(registry, c)
  /\ UNCHANGED <<slotted, cfg, outer>>

(* @ext_dataclass(Configatron(ns)) on c: postprocess_dataclass() stores the *)
(* config on the class, then asks for the registration.  When that is      *)
(* refused the exception leaves the stored config behind.                  *)
Decorate_Rollback(c, ns) ==
  /\ Exists(c)
  /\ cfg' = [cfg EXCEPT ![c] = IF Refused(registry, c, ns) THEN Unset ELSE ns]
  /\ registry' = register_concrete(registry, c, ns, mro[c])
  /\ UNCHANGED <<mro, slotted, outer>>

Decorate(c, ns) ==
  /\ Exists(c)
  /\ cfg' = [cfg EXCEPT ![c] = ns]
  /\ registry' = register_concrete(registry, c, ns, mro[c])
  /\ UNCHANGED <<mro, slotted, outer>>

(* The same with slots=True: dataclass() makes a second class object d with *)
(* c's bases, which the metaclass registers too, and the rest happens to d. *)
(* c stays in the registry.  dataclass() rejects a class that has slots.    *)
DecorateSlots(c, d, ns) ==
  /\ Exists(c)
  /\ c \notin slotted
  /\ ~Exists(d)
  /\ mro' = [mro EXCEPT ![d] = <<d>> \o Tail(mro[c])]
  /\ slotted' = slotted \cup {d}
  /\ cfg' = [cfg EXCEPT ![d] = ns]
  /\ registry' = register_concrete(register_abstract(registry, d),
                                   d, ns, <<d>> \o Tail(mro[c]))
  /\ UNCHANGED outer

(* with create_registry_context(): a new state becomes the active one, and *)
(* the one before it is active again when the block is left.               *)
EnterRegistryContext ==
  /\ Len(outer) < MaxDepth
  /\ outer' = Append(outer, registry)
  /\ registry' = EmptyRegistry
  /\ UNCHANGED <<mro, slotted, cfg>>

ExitRegistryContext ==
  /\ outer # <<>>
  /\ registry' = Last(outer)
  /\ outer' = Front(outer)
  /\ UNCHANGED <<mro, slotted, cfg>>

Next ==
  \/ \E c \in Class : \E left, right \in Range(mro) \cup {<<>>} :
       DefineClass(c, left, right)
  \/ \E c \in Class, ns \in Namespace : Decorate(c, ns)
  \/ \E c, d \in Class, ns \in Namespace : DecorateSlots(c, d, ns)
  \/ EnterRegistryContext
  \/ ExitRegistryContext

Spec == Init /\ [][Next]_vars

-------------------------------------------------------------------------------
(* The type invariant.                                                     *)
TypeOK ==
  /\ mro \in [Class -> Seq(Class)]
  /\ slotted \subseteq Class
  /\ cfg \in [Class -> Namespace \cup {Unset}]
  /\ registry \in CfgRegistryState
  /\ outer \in Seq(CfgRegistryState)

(* The registries that the program can still come to use, innermost last.   *)
Contexts == Append(outer, registry)
Live == Range(Contexts)

(* The two lookup tables that register_concrete() fills stay each other's  *)
(* partial inverse, through any order of definitions, refusals and         *)
(* contexts: a concrete class is looked up under its parentmost config     *)
(* class, that class always has a concrete one, and the concrete class a   *)
(* lookup gives implements the abstract class it was looked up for.        *)
LookupsAgree ==
  \A r \in Live :
    /\ \A c \in DOMAIN r.abstract_lookup :
         /\ r.abstract_lookup[c] = Last(mro[c])
         /\ r.abstract_lookup[c] \in DOMAIN r.concrete_lookup
    /\ \A a \in DOMAIN r.concrete_lookup :
         /\ r.concrete_lookup[a] \in DOMAIN r.abstract_lookup
         /\ r.abstract_lookup[r.concrete_lookup[a]] = a

(* Each registered concrete class owns exactly one namespace, and nothing  *)
(* else owns one: a refused registration leaves no half-made entry.        *)
NamespaceOwners ==
  \A r \in Live :
    /\ Range(r.concrete_by_namespace) = r.concrete_cfg_classes
    /\ DOMAIN r.abstract_lookup = r.concrete_cfg_classes
    /\ IsInjective(r.concrete_by_namespace)

(* When normalize_config_cls() answers, the answer is right: a registered  *)
(* concrete class together with the abstract class it implements.          *)
NormalizeSound ==
  \A r \in Live : \A c \in Class : Normalizes(r, c) =>
    LET n == normalize_config_cls(r, c)
    IN  /\ n.concrete_cls \in r.concrete_cfg_classes
        /\ n.abstract_cls = Last(mro[n.concrete_cls])

(* Once registered, a concrete class normalizes to itself and to the same  *)
(* abstract class for as long as its registry is live, whatever is defined, *)
(* decorated again or refused later, in this context or in a nested one.    *)
ConcreteIsStable ==
  [][\A i \in DOMAIN Contexts \cap DOMAIN Contexts' :
       \A c \in Contexts[i].concrete_cfg_classes :
         /\ c \in Contexts'[i].concrete_cfg_classes
         /\ Normalizes(Contexts[i], c)'
         /\ normalize_config_cls(Contexts[i], c)'
              = normalize_config_cls(Contexts[i], c)]_vars

-------------------------------------------------------------------------------
(* What the documentation says of the registry and the code does not do.   *)

(* _registry.py:86 says that verify_completeness() returns True when a      *)
(* concrete class has been declared for every abstract one.  Every class   *)
(* the metaclass creates is in abstract_cfg_classes, the concrete ones too, *)
(* and only parentmost classes become keys of concrete_lookup.             *)
CompletenessAccepted ==
  registry.abstract_cfg_classes
    \subseteq registry.concrete_cfg_classes \cup DOMAIN registry.concrete_lookup
  => verify_completeness(registry)

(* exceptions.py:19 says that an application that defines several concrete *)
(* configs for one abstract config gets MultipleConcreteConfigsForAbstract. *)
(* The guard looks the class itself up instead of the abstract class, and  *)
(* the later concrete class takes over the abstract one.                   *)
OneConcretePerAbstract == IsInjective(registry.abstract_lookup)

===============================================================================
