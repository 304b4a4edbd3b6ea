----------------------------- MODULE Construction ------------------------------
(***************************************************************************)
(* The construction of a CfgManager (__init__(), _analyze_configs() and     *)
(* _build_routes() in src_py/configatron/manager.py, and analyze_cfg_cls()  *)
(* in src_py/configatron/_analysis.py): from the classes, the declarations  *)
(* of their fields and the backends that it is given, the manager computes  *)
(* for each field the route, the backends to search in order, and for each  *)
(* backend the keyspace, the fields to ask it for.                         *)
(*                                                                         *)
(* Loading.tla takes the routes and the keyspaces as they come out of this. *)
(*                                                                         *)
(* What the caller passes is chosen in the initial state; each iteration of *)
(* the constructor's three loops is a step.                                *)
(***************************************************************************)
EXTENDS Naturals, Sequences, FiniteSetsExt, SequencesExt, Dicts

CONSTANTS
  Class,        (* Config classes that can be passed, abstract ones too.    *)
  ConcreteOf,   (* [Class -> Class]: what normalize_config_cls() finds.     *)
  NamespaceOf,  (* [Class -> Namespace]: of concrete classes.               *)
  FieldsOf,     (* [Class -> Seq(Field)]: of concrete classes.              *)
  Field,        (* Fields, as the CfgFieldDescs that identify them.         *)
  Backend,      (* Names of backends, those that no manager has included.   *)
  None,         (* The backend of a CfgSource for every backend.            *)
  Orderings,    (* Bound: the Seq(Backend)s that can be passed.             *)
  Declarations, (* Bound: [Field -> the ways in which it can be declared].   *)
  MaxClasses,   (* Bound: classes passed to the manager.                    *)
  MaxSources    (* Bound: sources declared for a field.                     *)

ASSUME NoneAssumption == None \notin Backend
ASSUME ConcreteAssumption ==
  /\ ConcreteOf \in [Class -> Class]
  /\ \A c \in Class : ConcreteOf[ConcreteOf[c]] = ConcreteOf[c]
ASSUME FieldsAssumption == FieldsOf \in [Class -> Seq(Field)]
ASSUME BoundAssumption == MaxClasses \in Nat /\ MaxSources \in Nat

(* A dict has a key only once.                                             *)
ASSUME OrderingsAssumption ==
  \A s \in Orderings : s \in Seq(Backend) /\ IsInjective(s)

VARIABLES
  args,      (* Seq(Class): the positional arguments.                        *)
  decls,     (* [Field -> its declaration]                                  *)
  backends,  (* Seq(Backend): the keys of the backends, in order.            *)
  allows,    (* [Backend -> the flavors that the backend supports]           *)
  accepted,  (* How many of the arguments are in cfg_classes.                *)
  classes,   (* Seq of [namespace, class]: the items of cfg_classes.         *)
  analyzed,  (* How many of the classes are in the analysis.                *)
  todo,      (* Seq(Field): analyzed fields that have no route yet.         *)
  routes,    (* A dict from fields to their _DefiniteCfgSources.             *)
  keyspaces, (* A dict from backends to the fields and sources they get.     *)
  outcome    (* "running", "built", or the error that was raised.            *)

given == <<args, decls, backends, allows>>
vars == <<args, decls, backends, allows, accepted, classes, analyzed, todo,
          routes, keyspaces, outcome>>

-------------------------------------------------------------------------------
(* A source is what a CfgSource names, and its place in the declaration,    *)
(* which stands for its lookup keys.                                       *)
Source == [backend : Backend \cup {None}, key : 0..MaxSources]

(* The annotation of a field on the abstract and on the concrete class.     *)
Annotation == {"absent", "plaintext", "secret"}

Sources ==
  UNION {{[i \in 1..n |-> [backend |-> bs[i], key |-> i]] :
            bs \in [1..n -> Backend \cup {None}]} : n \in 0..MaxSources}

Declaration ==
  {d \in [sources : Sources, abstract : Annotation, concrete : Annotation] :
     d.abstract # "absent" \/ d.concrete # "absent"}

ASSUME DeclarationsAssumption ==
  \A f \in Field : Declarations[f] \subseteq Declaration

Init ==
  /\ args \in UNION {[1..n -> Class] : n \in 1..MaxClasses}
  /\ decls \in {d \in [Field -> UNION {Declarations[f] : f \in Field}] :
                \A f \in Field : d[f] \in Declarations[f]}
  /\ backends \in Orderings
  /\ allows \in [Backend -> SUBSET {"plaintext", "secret"}]
  /\ accepted = 0
  /\ classes = <<>>
  /\ analyzed = 0
  /\ todo = <<>>
  /\ routes = EmptyDict
  /\ keyspaces = EmptyDict
  /\ outcome = "running"

-------------------------------------------------------------------------------
(* cfg_classes_[namespace] = class, for the next argument: an entry of the  *)
(* same namespace is replaced where it stands.                             *)
Enter(entry) ==
  LET Same(e) == e.namespace = entry.namespace
      at == SelectInSeq(classes, Same)
  IN  IF at = 0 THEN Append(classes, entry) ELSE [classes EXCEPT ![at] = entry]

(* The namespace is that of the concrete class, also of an abstract one.    *)
Entry_OwnNamespace(c) == [namespace |-> NamespaceOf[c], class |-> c]

Entry(c) == [namespace |-> NamespaceOf[ConcreteOf[c]], class |-> c]

AcceptClass ==
  /\ outcome = "running"
  /\ accepted < Len(args)
  /\ classes' = Enter(Entry(args[accepted + 1]))
  /\ accepted' = accepted + 1
  /\ UNCHANGED <<given, analyzed, todo, routes, keyspaces, outcome>>

(* _analyze_configs(), for the next entry: an abstract class is refused.    *)
Analyzing ==
  /\ outcome = "running"
  /\ accepted = Len(args)
  /\ analyzed < Len(classes)

NextClass == classes[analyzed + 1].class

IsConcrete_Unchecked(c) == TRUE

IsConcrete(c) == ConcreteOf[c] = c

RefuseAbstract ==
  /\ Analyzing
  /\ ~IsConcrete(NextClass)
  /\ outcome' = "ValueError"
  /\ UNCHANGED <<given, accepted, classes, analyzed, todo, routes, keyspaces>>

(* analyze_cfg_cls(): every field of the abstract class is on the concrete  *)
(* one, or the analysis fails.                                             *)
Lacking(c) ==
  {f \in Range(FieldsOf[c]) : decls[f].concrete = "absent"}

RefuseIncomplete ==
  /\ Analyzing
  /\ IsConcrete(NextClass)
  /\ Lacking(NextClass) # {}
  /\ outcome' = "MissingAbstractFields"
  /\ UNCHANGED <<given, accepted, classes, analyzed, todo, routes, keyspaces>>

Analyze ==
  /\ Analyzing
  /\ IsConcrete(NextClass)
  /\ Lacking(NextClass) = {}
  /\ todo' = todo \o FieldsOf[NextClass]
  /\ analyzed' = analyzed + 1
  /\ UNCHANGED <<given, accepted, classes, routes, keyspaces, outcome>>

(* The analysis of a field: it is secret when either class says so, and a   *)
(* field without declared sources is looked for in every backend.           *)
flavor_ConcreteOnly(f) == decls[f].concrete

flavor(f) ==
  IF "secret" \in {decls[f].abstract, decls[f].concrete}
  THEN "secret" ELSE "plaintext"

sources(f) ==
  IF decls[f].sources = <<>> THEN <<[backend |-> None, key |-> 0]>>
                             ELSE decls[f].sources

-------------------------------------------------------------------------------
(* _build_routes().                                                        *)

(* The sources of f that name b, by their indexes; with None for b, those   *)
(* that stand for every backend.                                           *)
Mentions(f, b) == {i \in DOMAIN sources(f) : sources(f)[i].backend = b}

ForEveryBackend(f) == Mentions(f, None) # {}

(* backend_ordering: the named backends, each where it is named first, and  *)
(* then the manager's other backends if there is a source for them.  With   *)
(* no named backends that is the manager's own order.                      *)
FirstMentions(f) ==
  {i \in DOMAIN sources(f) :
     /\ sources(f)[i].backend # None
     /\ i = Min(Mentions(f, sources(f)[i].backend))}

NamedOrder(f) ==
  LET firsts == Filtered([i \in DOMAIN sources(f) |-> i], FirstMentions(f))
  IN  [n \in DOMAIN firsts |-> sources(f)[firsts[n]].backend]

OtherOrder(f) ==
  Filtered(backends, {b \in Backend : ForEveryBackend(f) /\ Mentions(f, b) = {}})

backend_ordering_ManagerFirst(f) == OtherOrder(f) \o NamedOrder(f)

backend_ordering(f) == NamedOrder(f) \o OtherOrder(f)

(* The source of a backend in the ordering: the last one that names it, or  *)
(* else the first of those for every backend.                              *)
SourceFor(f, b) ==
  sources(f)[IF Mentions(f, b) # {} THEN Max(Mentions(f, b))
                                    ELSE Min(Mentions(f, None))]

supported_backends(f) == {b \in Range(backends) : flavor(f) \in allows[b]}

(* The sources of the route of f: the filtered ordering.                   *)
RouteOf(f) ==
  LET order == Filtered(backend_ordering(f), supported_backends(f))
  IN  [i \in DOMAIN order |->
         [backend |-> order[i], key |-> SourceFor(f, order[i]).key]]

(* wip_keyspaces[backend][namespace].append(...) for each of the sources.   *)
AskedIn_FirstSource(route) == {s \in Range(route) : s = Head(route)}

AskedIn(route) == Range(route)

AddToKeyspaces(f, route) ==
  Update(keyspaces,
         [b \in {s.backend : s \in AskedIn(route)} |->
            (IF b \in DOMAIN keyspaces THEN keyspaces[b] ELSE {})
              \cup {[field |-> f, key |-> s.key] :
                      s \in {r \in AskedIn(route) : r.backend = b}}])

RouteField ==
  /\ outcome = "running"
  /\ accepted = Len(args)
  /\ analyzed = Len(classes)
  /\ todo # <<>>
  /\ routes' = Put(routes, Head(todo), RouteOf(Head(todo)))
  /\ keyspaces' = AddToKeyspaces(Head(todo), RouteOf(Head(todo)))
  /\ todo' = Tail(todo)
  /\ UNCHANGED <<given, accepted, classes, analyzed, outcome>>

(* The last check of __init__(), for backends that the manager lacks.       *)
missing_backends == DOMAIN keyspaces \ Range(backends)

Finish ==
  /\ outcome = "running"
  /\ accepted = Len(args)
  /\ analyzed = Len(classes)
  /\ todo = <<>>
  /\ outcome' = IF missing_backends # {} THEN "ValueError" ELSE "built"
  /\ UNCHANGED <<given, accepted, classes, analyzed, todo, routes, keyspaces>>

Next ==
  \/ AcceptClass
  \/ RefuseAbstract
  \/ RefuseIncomplete
  \/ Analyze
  \/ RouteField
  \/ Finish

Spec == Init /\ [][Next]_vars

-------------------------------------------------------------------------------
(* The type invariant.                                                     *)
TypeOK ==
  /\ args \in Seq(Class) /\ accepted \in 0..Len(args)
  /\ decls \in [Field -> Declaration]
  /\ backends \in Seq(Backend)
  /\ allows \in [Backend -> SUBSET {"plaintext", "secret"}]
  /\ \A i \in DOMAIN classes :
       classes[i].class \in Class
         /\ classes[i].namespace = NamespaceOf[ConcreteOf[classes[i].class]]
  /\ analyzed \in 0..Len(classes)
  /\ todo \in Seq(Field)
  /\ DOMAIN routes \subseteq Field /\ routes \in [DOMAIN routes -> Seq(Source)]
  /\ DOMAIN keyspaces \subseteq Backend
  /\ keyspaces \in [DOMAIN keyspaces ->
                     SUBSET [field : Field, key : 0..MaxSources]]
  /\ outcome \in {"running", "built", "ValueError", "MissingAbstractFields"}

(* Where a backend is first named in the declaration of a field, and where  *)
(* it is in the manager's ordering; 0 when it is not.                      *)
DeclaredAt(f, b) == SelectInSeq(decls[f].sources, LAMBDA s : s.backend = b)
ManagerAt(b) == SelectInSeq(backends, LAMBDA x : x = b)

(* b has precedence over c for f: named backends come first, in the order   *)
(* of the declaration, and then the others, in the order of the manager.    *)
Precedes(f, b, c) ==
  IF DeclaredAt(f, b) # 0
  THEN DeclaredAt(f, c) = 0 \/ DeclaredAt(f, b) < DeclaredAt(f, c)
  ELSE DeclaredAt(f, c) = 0 /\ ManagerAt(b) < ManagerAt(c)

(* A field's route has exactly the manager's backends that the declaration  *)
(* asks for and that take the field's flavor, each once, by precedence.     *)
RoutesFollowDeclarations ==
  \A f \in DOMAIN routes :
    LET order == [i \in DOMAIN routes[f] |-> routes[f][i].backend]
    IN  /\ \A b \in Backend :
             b \in Range(order) <=>
               /\ ManagerAt(b) # 0
               /\ \/ decls[f].sources = <<>>
                  \/ DeclaredAt(f, None) # 0
                  \/ DeclaredAt(f, b) # 0
               /\ flavor(f) \in allows[b]
        /\ \A i, j \in DOMAIN order : i < j => Precedes(f, order[i], order[j])

(* A backend is asked for exactly the fields whose routes have it, under    *)
(* the lookup keys of the same source: the loaders index the results of     *)
(* the backends by the routes (manager.py:414), so an entry that is only in *)
(* the route is a KeyError there.                                          *)
KeyspacesMatchRoutes ==
  /\ \A b \in Backend, f \in Field :
       LET asked == {e \in IF b \in DOMAIN keyspaces THEN keyspaces[b] ELSE {} :
                       e.field = f}
           routed == {s \in IF f \in DOMAIN routes THEN Range(routes[f]) ELSE {} :
                        s.backend = b}
       IN  {e.key : e \in asked} = {s.key : s \in routed}
  /\ \A b \in DOMAIN keyspaces : keyspaces[b] # {}

(* A backend that does not support secrets is never asked for a field that  *)
(* either class annotates as secret, however explicitly the declaration     *)
(* names the backend.                                                      *)
SecretsStayOut ==
  \A b \in DOMAIN keyspaces : "secret" \notin allows[b] =>
    \A e \in keyspaces[b] :
      decls[e.field].abstract # "secret" /\ decls[e.field].concrete # "secret"

(* A manager that is built manages every class that it was passed, once, as *)
(* a concrete class; only one that shares its namespace with a later        *)
(* argument is dropped.  An abstract class is refused, or, when its         *)
(* concrete class follows and replaces it before the check, managed as that.*)
EveryArgumentIsManaged ==
  outcome = "built" =>
    /\ \A i \in DOMAIN args :
         LET concrete == ConcreteOf[args[i]]
         IN  \/ \E n \in DOMAIN classes : classes[n].class = concrete
             \/ \E j \in (i + 1)..Len(args) :
                  /\ ConcreteOf[args[j]] # concrete
                  /\ NamespaceOf[ConcreteOf[args[j]]] = NamespaceOf[concrete]
    /\ \A m, n \in DOMAIN classes :
         ConcreteOf[classes[m].class] = ConcreteOf[classes[n].class] => m = n

-------------------------------------------------------------------------------
(* What the code says of the construction and does not do.                 *)

(* manager.py:157 raises a ValueError when backends required by config      *)
(* fields are missing from the manager.  The keyspaces it looks at were     *)
(* filtered by the manager's backends before.                              *)
MissingBackendsRefused ==
  outcome = "built" =>
    \A f \in DOMAIN routes : \A s \in Range(sources(f)) :
      s.backend # None => s.backend \in Range(backends)

===============================================================================
