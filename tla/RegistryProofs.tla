---------------------------- MODULE RegistryProofs ----------------------------
(***************************************************************************)
(* Proofs about Registry.tla, for any sets of classes and namespaces and    *)
(* any depth of registry contexts.                                         *)
(*                                                                         *)
(* The invariants of Registry are not inductive by themselves.  They need   *)
(* that a registered class exists (else a later definition could change     *)
(* its ancestors) and that its own config is set (else the class would      *)
(* normalize as an abstract one), and they need all of it together for      *)
(* every registry that a context may bring back.                           *)
(***************************************************************************)
EXTENDS Registry, DictProofs

(* What holds of a registry r when m gives the config ancestors of classes  *)
(* and g their namespaces.                                                 *)
Consistent(m, g, r) ==
  /\ r \in CfgRegistryState
  /\ \A c \in r.concrete_cfg_classes : m[c] # <<>> /\ g[c] # Unset
  /\ DOMAIN r.abstract_lookup = r.concrete_cfg_classes
  /\ \A c \in r.concrete_cfg_classes :
       /\ r.abstract_lookup[c] = Last(m[c])
       /\ r.abstract_lookup[c] \in DOMAIN r.concrete_lookup
  /\ \A a \in DOMAIN r.concrete_lookup :
       /\ r.concrete_lookup[a] \in r.concrete_cfg_classes
       /\ r.abstract_lookup[r.concrete_lookup[a]] = a
  /\ Range(r.concrete_by_namespace) = r.concrete_cfg_classes
  /\ IsInjective(r.concrete_by_namespace)

(* A class comes first among its own config ancestors.                     *)
OwnFirst == \A c \in Class : mro[c] # <<>> => mro[c][1] = c

IInv ==
  /\ mro \in [Class -> Seq(Class)]
  /\ slotted \subseteq Class
  /\ cfg \in [Class -> Namespace \cup {Unset}]
  /\ outer \in Seq(CfgRegistryState)
  /\ OwnFirst
  /\ Consistent(mro, cfg, registry)
  /\ \A i \in 1..Len(outer) : Consistent(mro, cfg, outer[i])

-------------------------------------------------------------------------------
(* The registry's methods.                                                 *)

(* A registry stays consistent when classes come to exist, and when configs *)
(* are set or replaced, outside of it.                                     *)
LEMMA ConsistentPersists ==
  ASSUME NEW m, NEW g, NEW m2, NEW g2, NEW r,
         Consistent(m, g, r),
         \A c \in Class : m[c] # <<>> => m2[c] = m[c],
         \A c \in Class : g[c] # Unset => g2[c] # Unset
  PROVE  Consistent(m2, g2, r)
<1>1. r.concrete_cfg_classes \subseteq Class
  BY DEF Consistent, CfgRegistryState
<1>2. QED
  BY <1>1 DEF Consistent

(* The state that CfgRegistryState() makes is consistent.                  *)
LEMMA EmptyConsistent ==
  ASSUME NEW m, NEW g
  PROVE  Consistent(m, g, EmptyRegistry)
<1>1. EmptyDict \in Dict(Class, Class) /\ EmptyDict \in Dict(Namespace, Class)
  BY DEF Dict, EmptyDict
<1>2. DOMAIN EmptyDict = {} /\ Range(EmptyDict) = {} /\ IsInjective(EmptyDict)
  BY DEF EmptyDict, Range, IsInjective
<1>3. EmptyRegistry \in CfgRegistryState
  BY <1>1 DEF EmptyRegistry, CfgRegistryState
<1>4. QED
  BY <1>2, <1>3 DEF Consistent, EmptyRegistry

(* register_abstract() keeps a registry consistent.                        *)
LEMMA RegisterAbstractConsistent ==
  ASSUME NEW m, NEW g, NEW r, NEW c \in Class, Consistent(m, g, r)
  PROVE  Consistent(m, g, register_abstract(r, c))
<1> DEFINE s == register_abstract(r, c)
<1>1. s \in CfgRegistryState
  BY DEF Consistent, CfgRegistryState, register_abstract
<1>2. /\ s.concrete_cfg_classes = r.concrete_cfg_classes
      /\ s.concrete_lookup = r.concrete_lookup
      /\ s.abstract_lookup = r.abstract_lookup
      /\ s.concrete_by_namespace = r.concrete_by_namespace
  BY DEF Consistent, CfgRegistryState, register_abstract
<1> HIDE DEF s
<1>3. QED
  BY <1>1, <1>2 DEF Consistent, s

(* register_concrete() keeps a registry consistent, whether it registers   *)
(* or refuses: c exists and has its own config by then.                    *)
LEMMA RegisterConcreteConsistent ==
  ASSUME NEW m, NEW g, NEW r, NEW c \in Class, NEW ns \in Namespace,
         Consistent(m, g, r),
         m[c] \in Seq(Class), m[c] # <<>>, g[c] # Unset
  PROVE  Consistent(m, g, register_concrete(r, c, ns, m[c]))
<1> DEFINE s == register_concrete(r, c, ns, m[c])
           a == Last(m[c])
<1>1. CASE Refused(r, c, ns)
  BY <1>1 DEF register_concrete
<1>2. CASE ~Refused(r, c, ns)
  <2>1. a \in Class
    BY DEF Last
  <2>2. /\ r.abstract_cfg_classes \subseteq Class
        /\ r.concrete_cfg_classes \subseteq Class
        /\ r.concrete_lookup \in Dict(Class, Class)
        /\ r.abstract_lookup \in Dict(Class, Class)
        /\ r.concrete_by_namespace \in Dict(Namespace, Class)
    BY DEF Consistent, CfgRegistryState
  <2>3. c \notin r.concrete_cfg_classes /\ ns \notin DOMAIN r.concrete_by_namespace
    BY <1>2 DEF Refused, Consistent
  <2>4. /\ s.abstract_cfg_classes = r.abstract_cfg_classes
        /\ s.concrete_cfg_classes = r.concrete_cfg_classes \cup {c}
        /\ s.concrete_by_namespace = Put(r.concrete_by_namespace, ns, c)
        /\ s.concrete_lookup = Put(r.concrete_lookup, a, c)
        /\ s.abstract_lookup = Put(r.abstract_lookup, c, a)
    BY <1>2 DEF register_concrete, Registered, AbstractOf, Consistent, CfgRegistryState
  <2>5. s \in CfgRegistryState
    <3>1. /\ Put(r.concrete_by_namespace, ns, c) \in Dict(Namespace, Class)
          /\ Put(r.concrete_lookup, a, c) \in Dict(Class, Class)
          /\ Put(r.abstract_lookup, c, a) \in Dict(Class, Class)
      BY <2>1, <2>2, PutType
    <3>2. QED
      BY <1>2, <2>2, <3>1
         DEF register_concrete, Registered, AbstractOf, Consistent, CfgRegistryState
  <2> HIDE DEF s, a
  <2>6. /\ DOMAIN s.abstract_lookup = DOMAIN r.abstract_lookup \cup {c}
        /\ s.abstract_lookup[c] = a
        /\ \A x \in DOMAIN r.abstract_lookup :
             x # c => s.abstract_lookup[x] = r.abstract_lookup[x]
    BY <2>4 DEF Put
  <2>7. /\ DOMAIN s.concrete_lookup = DOMAIN r.concrete_lookup \cup {a}
        /\ s.concrete_lookup[a] = c
        /\ \A x \in DOMAIN r.concrete_lookup :
             x # a => s.concrete_lookup[x] = r.concrete_lookup[x]
    BY <2>4 DEF Put
  <2>8. /\ Range(s.concrete_by_namespace) = s.concrete_cfg_classes
        /\ IsInjective(s.concrete_by_namespace)
    BY <2>2, <2>3, <2>4, PutInjective DEF Consistent
  <2>9. \A x \in s.concrete_cfg_classes : m[x] # <<>> /\ g[x] # Unset
    BY <2>4 DEF Consistent
  <2>10. DOMAIN s.abstract_lookup = s.concrete_cfg_classes
    BY <2>4, <2>6 DEF Consistent
  <2>11. \A x \in s.concrete_cfg_classes :
           /\ s.abstract_lookup[x] = Last(m[x])
           /\ s.abstract_lookup[x] \in DOMAIN s.concrete_lookup
    BY <2>3, <2>4, <2>6, <2>7 DEF Consistent, a
  <2>12. \A x \in DOMAIN s.concrete_lookup :
           /\ s.concrete_lookup[x] \in s.concrete_cfg_classes
           /\ s.abstract_lookup[s.concrete_lookup[x]] = x
    BY <2>3, <2>4, <2>6, <2>7 DEF Consistent
  <2>13. QED
    BY <2>5, <2>8, <2>9, <2>10, <2>11, <2>12 DEF Consistent, s
<1>3. QED
  BY <1>1, <1>2

-------------------------------------------------------------------------------
(* The inductive invariant.                                                *)

(* The invariant holds before any class is defined.                        *)
LEMMA RegistryInit == Init => IInv
<1> SUFFICES ASSUME Init PROVE IInv
  OBVIOUS
<1>1. Consistent(mro, cfg, registry)
  BY EmptyConsistent DEF Init
<1>2. outer \in Seq(CfgRegistryState) /\ Len(outer) = 0
  BY DEF Init
<1>3. QED
  BY <1>1, <1>2 DEF Init, IInv, OwnFirst

(* What a step does to classes never disturbs the registries it leaves      *)
(* alone, the shelved ones among them.                                     *)
LEMMA OthersPersist ==
  ASSUME IInv,
         \A c \in Class : mro[c] # <<>> => mro'[c] = mro[c],
         \A c \in Class : cfg[c] # Unset => cfg'[c] # Unset
  PROVE  /\ Consistent(mro', cfg', registry)
         /\ \A i \in 1..Len(outer) : Consistent(mro', cfg', outer[i])
  BY ConsistentPersists DEF IInv

(* The metaclass keeps the invariant: only a class that did not exist gets *)
(* its ancestors.                                                          *)
LEMMA DefineClassStep ==
  ASSUME IInv, NEW c \in Class,
         NEW left \in Range(mro) \cup {<<>>}, NEW right \in Range(mro) \cup {<<>>},
         DefineClass(c, left, right)
  PROVE  IInv'
<1>1. /\ mro[c] = <<>>
      /\ mro' = [mro EXCEPT ![c] = <<c>> \o left \o right]
      /\ registry' = register_abstract(registry, c)
      /\ slotted' = slotted /\ cfg' = cfg /\ outer' = outer
  BY DEF DefineClass, Exists
<1>2. left \in Seq(Class) /\ right \in Seq(Class)
  <2>1. Range(mro) \subseteq Seq(Class)
    BY DEF IInv, Range
  <2>2. <<>> \in Seq(Class)
    OBVIOUS
  <2>3. QED
    BY <2>1, <2>2
<1>3. <<c>> \o left \o right \in Seq(Class) /\ (<<c>> \o left \o right)[1] = c
  <2>1. <<c>> \o left \in Seq(Class) /\ Len(<<c>> \o left) >= 1
    BY <1>2
  <2>2. (<<c>> \o left)[1] = c
    BY <1>2
  <2>3. QED
    BY <1>2, <2>1, <2>2
<1>4. mro' \in [Class -> Seq(Class)] /\ OwnFirst'
  BY <1>1, <1>3 DEF IInv, OwnFirst
<1>5. \A x \in Class : mro[x] # <<>> => mro'[x] = mro[x]
  BY <1>1 DEF IInv
<1>6. /\ Consistent(mro', cfg', registry)
      /\ \A i \in 1..Len(outer) : Consistent(mro', cfg', outer[i])
  BY <1>1, <1>5, OthersPersist
<1>7. Consistent(mro', cfg', registry')
  BY <1>1, <1>6, RegisterAbstractConsistent
<1>8. QED
  BY <1>1, <1>4, <1>6, <1>7 DEF IInv

(* The decorator keeps the invariant: it may replace a config that is set, *)
(* but never unsets one.                                                   *)
LEMMA DecorateStep ==
  ASSUME IInv, NEW c \in Class, NEW ns \in Namespace, Decorate(c, ns)
  PROVE  IInv'
<1>1. /\ mro[c] # <<>>
      /\ cfg' = [cfg EXCEPT ![c] = ns]
      /\ registry' = register_concrete(registry, c, ns, mro[c])
      /\ mro' = mro /\ slotted' = slotted /\ outer' = outer
  BY DEF Decorate, Exists
<1>2. /\ cfg' \in [Class -> Namespace \cup {Unset}]
      /\ cfg'[c] # Unset
      /\ \A x \in Class : cfg[x] # Unset => cfg'[x] # Unset
  BY <1>1, UnsetAssumption DEF IInv
<1>3. /\ Consistent(mro', cfg', registry)
      /\ \A i \in 1..Len(outer) : Consistent(mro', cfg', outer[i])
  BY <1>1, <1>2, OthersPersist
<1>4. mro'[c] \in Seq(Class)
  BY <1>1 DEF IInv
<1>5. Consistent(mro', cfg', registry')
  BY <1>1, <1>2, <1>3, <1>4, RegisterConcreteConsistent
<1>6. QED
  BY <1>1, <1>2, <1>3, <1>5 DEF IInv, OwnFirst

(* So does the decorator with slots=True, which makes a new class.         *)
LEMMA DecorateSlotsStep ==
  ASSUME IInv, NEW c \in Class, NEW d \in Class, NEW ns \in Namespace,
         DecorateSlots(c, d, ns)
  PROVE  IInv'
<1> DEFINE line == <<d>> \o Tail(mro[c])
<1>1. /\ mro[c] # <<>> /\ mro[d] = <<>>
      /\ mro' = [mro EXCEPT ![d] = line]
      /\ slotted' = slotted \cup {d}
      /\ cfg' = [cfg EXCEPT ![d] = ns]
      /\ registry' = register_concrete(register_abstract(registry, d), d, ns, line)
      /\ outer' = outer
  BY DEF DecorateSlots, Exists
<1>2. line \in Seq(Class) /\ line # <<>> /\ line[1] = d
  <2>1. Tail(mro[c]) \in Seq(Class)
    BY <1>1 DEF IInv
  <2>2. QED
    BY <2>1
<1> HIDE DEF line
<1>3. /\ mro' \in [Class -> Seq(Class)] /\ OwnFirst'
      /\ mro'[d] = line
      /\ \A x \in Class : mro[x] # <<>> => mro'[x] = mro[x]
  BY <1>1, <1>2 DEF IInv, OwnFirst
<1>4. /\ cfg' \in [Class -> Namespace \cup {Unset}]
      /\ cfg'[d] # Unset
      /\ \A x \in Class : cfg[x] # Unset => cfg'[x] # Unset
  BY <1>1, UnsetAssumption DEF IInv
<1>5. /\ Consistent(mro', cfg', registry)
      /\ \A i \in 1..Len(outer) : Consistent(mro', cfg', outer[i])
  BY <1>3, <1>4, OthersPersist
<1>6. Consistent(mro', cfg', register_abstract(registry, d))
  BY <1>5, RegisterAbstractConsistent
<1>7. Consistent(mro', cfg', registry')
  BY <1>1, <1>2, <1>3, <1>4, <1>6, RegisterConcreteConsistent
<1>8. slotted' \subseteq Class
  BY <1>1 DEF IInv
<1>9. QED
  BY <1>1, <1>3, <1>4, <1>5, <1>7, <1>8 DEF IInv

(* Entering a registry context shelves a consistent registry.              *)
LEMMA EnterStep ==
  ASSUME IInv, EnterRegistryContext
  PROVE  IInv'
<1>1. /\ outer' = Append(outer, registry)
      /\ registry' = EmptyRegistry
      /\ mro' = mro /\ slotted' = slotted /\ cfg' = cfg
  BY DEF EnterRegistryContext
<1>2. registry \in CfgRegistryState
  BY DEF IInv, Consistent
<1>3. /\ outer' \in Seq(CfgRegistryState)
      /\ Len(outer') = Len(outer) + 1
      /\ \A i \in 1..Len(outer) : outer'[i] = outer[i]
      /\ outer'[Len(outer) + 1] = registry
  BY <1>1, <1>2 DEF IInv
<1>4. \A i \in 1..Len(outer') : Consistent(mro', cfg', outer'[i])
  BY <1>1, <1>3 DEF IInv
<1>5. Consistent(mro', cfg', registry')
  BY <1>1, EmptyConsistent
<1>6. QED
  BY <1>1, <1>3, <1>4, <1>5 DEF IInv, OwnFirst

(* Leaving one brings a consistent registry back.                          *)
LEMMA ExitStep ==
  ASSUME IInv, ExitRegistryContext
  PROVE  IInv'
<1>1. /\ outer # <<>> /\ outer \in Seq(CfgRegistryState)
      /\ registry' = outer[Len(outer)]
      /\ outer' = SubSeq(outer, 1, Len(outer) - 1)
      /\ mro' = mro /\ slotted' = slotted /\ cfg' = cfg
  BY DEF ExitRegistryContext, Last, Front, IInv
<1>2. Len(outer) \in 1..Len(outer)
  BY <1>1 DEF IInv
<1>3. /\ outer' \in Seq(CfgRegistryState)
      /\ Len(outer') = Len(outer) - 1
      /\ \A i \in 1..Len(outer') : outer'[i] = outer[i]
  BY <1>1, FrontFacts DEF Front
<1>4. /\ Consistent(mro', cfg', registry')
      /\ \A i \in 1..Len(outer') : Consistent(mro', cfg', outer'[i])
  BY <1>1, <1>2, <1>3 DEF IInv
<1>5. QED
  BY <1>1, <1>3, <1>4 DEF IInv, OwnFirst

(* Every step of the registry keeps the invariant.                         *)
LEMMA RegistryStep == IInv /\ [Next]_vars => IInv'
<1> SUFFICES ASSUME IInv, [Next]_vars PROVE IInv'
  OBVIOUS
<1>1. CASE \E c \in Class : \E left, right \in Range(mro) \cup {<<>>} :
             DefineClass(c, left, right)
  BY <1>1, DefineClassStep
<1>2. CASE \E c \in Class, ns \in Namespace : Decorate(c, ns)
  BY <1>2, DecorateStep
<1>3. CASE \E c, d \in Class, ns \in Namespace : DecorateSlots(c, d, ns)
  BY <1>3, DecorateSlotsStep
<1>4. CASE EnterRegistryContext
  BY <1>4, EnterStep
<1>5. CASE ExitRegistryContext
  BY <1>5, ExitStep
<1>6. CASE UNCHANGED vars
  BY <1>6 DEF vars, IInv, OwnFirst, Consistent
<1>7. QED
  BY <1>1, <1>2, <1>3, <1>4, <1>5, <1>6 DEF Next

(* The inductive invariant of the registry holds throughout.               *)
THEOREM Inductive == Spec => []IInv
<1>1. QED
  BY RegistryInit, RegistryStep, PTL DEF Spec

-------------------------------------------------------------------------------
(* The invariants.                                                         *)

(* Each registry that is active or shelved is consistent.                  *)
LEMMA LiveConsistent ==
  ASSUME IInv
  PROVE  \A r \in Live : Consistent(mro, cfg, r)
<1>1. registry \in CfgRegistryState /\ outer \in Seq(CfgRegistryState)
  BY DEF IInv, Consistent
<1>2. DOMAIN Contexts = 1..(Len(outer) + 1)
  BY <1>1 DEF Contexts
<1>3. \A i \in 1..(Len(outer) + 1) : Consistent(mro, cfg, Contexts[i])
  BY <1>1 DEF IInv, Contexts
<1>4. QED
  BY <1>2, <1>3 DEF Live, Range

(* The state of the registry has the type that Registry.tla gives it.       *)
THEOREM TypeCorrect == Spec => []TypeOK
<1>1. IInv => TypeOK
  BY DEF IInv, TypeOK, Consistent
<1>2. QED
  BY <1>1, Inductive, PTL

(* The two lookup tables that register_concrete() fills agree in every      *)
(* registry that is active or shelved.                                     *)
THEOREM LookupsAlwaysAgree == Spec => []LookupsAgree
<1>1. IInv => LookupsAgree
  BY LiveConsistent DEF LookupsAgree, Consistent
<1>2. QED
  BY <1>1, Inductive, PTL

(* A namespace in a registry has one owner, a registered concrete class,    *)
(* and every registered concrete class owns one.                           *)
THEOREM NamespacesAreOwned == Spec => []NamespaceOwners
<1>1. IInv => NamespaceOwners
  BY LiveConsistent DEF NamespaceOwners, Consistent
<1>2. QED
  BY <1>1, Inductive, PTL

(* normalize_config_cls() gives a registered concrete class and the abstract *)
(* class that it implements, or a KeyError.                                *)
THEOREM NormalizingIsSound == Spec => []NormalizeSound
<1>1. ASSUME LookupsAgree, NamespaceOwners
      PROVE  NormalizeSound
  <2> SUFFICES ASSUME NEW r \in Live, NEW c \in Class, Normalizes(r, c)
               PROVE  LET n == normalize_config_cls(r, c)
                      IN  /\ n.concrete_cls \in r.concrete_cfg_classes
                          /\ n.abstract_cls = Last(mro[n.concrete_cls])
    BY DEF NormalizeSound
  <2>1. CASE is_cfg_cls_xable(c)
    BY <1>1, <2>1 DEF Normalizes, normalize_config_cls, LookupsAgree, NamespaceOwners
  <2>2. CASE ~is_cfg_cls_xable(c)
    BY <1>1, <2>2 DEF Normalizes, normalize_config_cls, LookupsAgree, NamespaceOwners
  <2>3. QED
    BY <2>1, <2>2
<1>2. QED
  BY <1>1, LookupsAlwaysAgree, NamespacesAreOwned, PTL

-------------------------------------------------------------------------------
(* Stability of what is registered.                                        *)

(* s has what r had registered, under the same abstract classes.           *)
Extends(r, s) ==
  \A c \in r.concrete_cfg_classes :
    /\ c \in s.concrete_cfg_classes
    /\ s.abstract_lookup[c] = r.abstract_lookup[c]

(* register_abstract() takes nothing away from what is registered.         *)
LEMMA RegisterAbstractExtends ==
  ASSUME NEW r \in CfgRegistryState, NEW c
  PROVE  Extends(r, register_abstract(r, c))
  BY DEF Extends, register_abstract, CfgRegistryState

(* Nor does register_concrete(): a class that is registered is refused.    *)
LEMMA RegisterConcreteExtends ==
  ASSUME NEW m, NEW g, NEW r, Consistent(m, g, r),
         NEW c, NEW ns, NEW parents
  PROVE  Extends(r, register_concrete(r, c, ns, parents))
<1>1. CASE Refused(r, c, ns)
  BY <1>1 DEF register_concrete, Extends
<1>2. CASE ~Refused(r, c, ns)
  <2> DEFINE s == register_concrete(r, c, ns, parents)
  <2>1. /\ s.concrete_cfg_classes = r.concrete_cfg_classes \cup {c}
        /\ s.abstract_lookup = Put(r.abstract_lookup, c, AbstractOf(parents))
    BY <1>2 DEF register_concrete, Registered, Consistent, CfgRegistryState
  <2>2. c \notin r.concrete_cfg_classes
    BY <1>2 DEF Refused, Consistent
  <2> HIDE DEF s
  <2>3. Extends(r, s)
    BY <2>1, <2>2 DEF Extends, Put, Consistent
  <2>4. QED
    BY <2>3 DEF s
<1>3. QED
  BY <1>1, <1>2

(* A step of the active registry that keeps the shelved ones.              *)
LEMMA ActiveExtends ==
  ASSUME IInv, outer' = outer, Extends(registry, registry')
  PROVE  \A i \in DOMAIN Contexts \cap DOMAIN Contexts' :
           Extends(Contexts[i], Contexts'[i])
<1>1. outer \in Seq(CfgRegistryState)
  BY DEF IInv
<1>2. \A i \in 1..Len(outer) : Contexts[i] = outer[i] /\ Contexts'[i] = outer[i]
  BY <1>1 DEF Contexts
<1>3. /\ DOMAIN Contexts = 1..(Len(outer) + 1)
      /\ Contexts[Len(outer) + 1] = registry
      /\ Contexts'[Len(outer) + 1] = registry'
  BY <1>1 DEF Contexts
<1>4. \A i \in 1..(Len(outer) + 1) : i \in 1..Len(outer) \/ i = Len(outer) + 1
  BY <1>1
<1>5. QED
  BY <1>2, <1>3, <1>4 DEF Extends

(* No step takes away from a registry that is live before and after it.    *)
LEMMA StepExtends ==
  ASSUME IInv, [Next]_vars
  PROVE  \A i \in DOMAIN Contexts \cap DOMAIN Contexts' :
           Extends(Contexts[i], Contexts'[i])
<1>1. /\ registry \in CfgRegistryState
      /\ outer \in Seq(CfgRegistryState)
      /\ Consistent(mro, cfg, registry)
  BY DEF IInv, Consistent
<1>2. ASSUME NEW c \in Class,
             NEW left \in Range(mro) \cup {<<>>}, NEW right \in Range(mro) \cup {<<>>},
             DefineClass(c, left, right)
      PROVE  outer' = outer /\ Extends(registry, registry')
  BY <1>1, <1>2, RegisterAbstractExtends DEF DefineClass
<1>3. ASSUME NEW c \in Class, NEW ns \in Namespace, Decorate(c, ns)
      PROVE  outer' = outer /\ Extends(registry, registry')
  BY <1>1, <1>3, RegisterConcreteExtends DEF Decorate
<1>4. ASSUME NEW c \in Class, NEW d \in Class, NEW ns \in Namespace,
             DecorateSlots(c, d, ns)
      PROVE  outer' = outer /\ Extends(registry, registry')
  <2> DEFINE r == register_abstract(registry, d)
  <2>1. Extends(registry, r) /\ Consistent(mro, cfg, r)
    BY <1>1, RegisterAbstractExtends, RegisterAbstractConsistent
  <2> HIDE DEF r
  <2>2. Extends(r, register_concrete(r, d, ns, <<d>> \o Tail(mro[c])))
    BY <2>1, RegisterConcreteExtends
  <2>3. /\ outer' = outer
        /\ registry' = register_concrete(r, d, ns, <<d>> \o Tail(mro[c]))
    BY <1>4 DEF DecorateSlots, r
  <2>4. QED
    BY <2>1, <2>2, <2>3 DEF Extends
<1>5. CASE outer' = outer /\ Extends(registry, registry')
  BY <1>5, ActiveExtends
<1>6. CASE EnterRegistryContext
  <2>1. Contexts' = Append(Contexts, EmptyRegistry)
    BY <1>6 DEF EnterRegistryContext, Contexts
  <2>2. Contexts \in Seq(CfgRegistryState)
    BY <1>1 DEF Contexts
  <2>3. \A i \in DOMAIN Contexts : Contexts'[i] = Contexts[i]
    BY <2>1, <2>2
  <2>4. QED
    BY <2>3 DEF Extends
<1>7. CASE ExitRegistryContext
  <2>1. outer # <<>> /\ outer' = Front(outer) /\ registry' = outer[Len(outer)]
    BY <1>7 DEF ExitRegistryContext, Last
  <2>2. /\ outer' \in Seq(CfgRegistryState)
        /\ Len(outer') = Len(outer) - 1
        /\ \A i \in 1..(Len(outer) - 1) : outer'[i] = outer[i]
    BY <1>1, <2>1, FrontFacts
  <2>3. /\ DOMAIN Contexts' = 1..Len(outer)
        /\ Contexts'[Len(outer)] = outer[Len(outer)]
        /\ \A i \in 1..(Len(outer) - 1) : Contexts'[i] = outer[i]
    BY <1>1, <2>1, <2>2 DEF Contexts
  <2>4. \A i \in 1..Len(outer) : Contexts[i] = outer[i]
    BY <1>1 DEF Contexts
  <2>5. \A i \in 1..Len(outer) : Contexts'[i] = Contexts[i]
    BY <1>1, <2>3, <2>4
  <2>6. QED
    BY <2>3, <2>5 DEF Extends
<1>8. CASE UNCHANGED vars
  BY <1>8, <1>5 DEF vars, Extends
<1>9. QED
  BY <1>2, <1>3, <1>4, <1>5, <1>6, <1>7, <1>8 DEF Next

(* What is registered as concrete normalizes to itself.                    *)
NormalizesToItself ==
  \A i \in DOMAIN Contexts : \A c \in Contexts[i].concrete_cfg_classes :
    /\ Normalizes(Contexts[i], c)
    /\ normalize_config_cls(Contexts[i], c)
         = [abstract_cls |-> Contexts[i].abstract_lookup[c], concrete_cls |-> c]

(* Its own config makes a registered class count as concrete, so the lookup*)
(* goes to the right table.                                                *)
LEMMA ConcreteNormalizes == IInv => NormalizesToItself
<1> SUFFICES ASSUME IInv,
                    NEW i \in DOMAIN Contexts,
                    NEW c \in Contexts[i].concrete_cfg_classes
             PROVE  /\ Normalizes(Contexts[i], c)
                    /\ normalize_config_cls(Contexts[i], c)
                         = [abstract_cls |-> Contexts[i].abstract_lookup[c],
                            concrete_cls |-> c]
  BY DEF NormalizesToItself
<1>1. Consistent(mro, cfg, Contexts[i])
  BY LiveConsistent DEF Live, Range
<1>2. /\ c \in Class
      /\ mro[c] # <<>> /\ cfg[c] # Unset
      /\ c \in DOMAIN Contexts[i].abstract_lookup
  BY <1>1 DEF Consistent, CfgRegistryState
<1>3. 1 \in DOMAIN mro[c] /\ mro[c][1] = c
  BY <1>2 DEF IInv, OwnFirst
<1>4. is_cfg_cls_xable(c)
  BY <1>2, <1>3 DEF is_cfg_cls_xable
<1>5. QED
  BY <1>2, <1>4 DEF Normalizes, normalize_config_cls

(* Once registered, a concrete class normalizes to itself and to the same   *)
(* abstract class for as long as its registry is active or shelved.         *)
THEOREM ConcreteStaysStable == Spec => ConcreteIsStable
<1> DEFINE Step ==
      \A i \in DOMAIN Contexts \cap DOMAIN Contexts' :
        \A c \in Contexts[i].concrete_cfg_classes :
          /\ c \in Contexts'[i].concrete_cfg_classes
          /\ Normalizes(Contexts[i], c)'
          /\ normalize_config_cls(Contexts[i], c)'
               = normalize_config_cls(Contexts[i], c)
<1>1. ASSUME NormalizesToItself, NormalizesToItself', IInv, [Next]_vars
      PROVE  Step
  <2> SUFFICES ASSUME NEW i \in DOMAIN Contexts \cap DOMAIN Contexts',
                      NEW c \in Contexts[i].concrete_cfg_classes
               PROVE  /\ c \in Contexts'[i].concrete_cfg_classes
                      /\ Normalizes(Contexts[i], c)'
                      /\ normalize_config_cls(Contexts[i], c)'
                           = normalize_config_cls(Contexts[i], c)
    OBVIOUS
  <2>1. /\ c \in Contexts'[i].concrete_cfg_classes
        /\ Contexts'[i].abstract_lookup[c] = Contexts[i].abstract_lookup[c]
    BY <1>1, StepExtends DEF Extends
  <2>2. /\ Normalizes(Contexts[i], c)'
        /\ normalize_config_cls(Contexts[i], c)'
             = [abstract_cls |-> Contexts'[i].abstract_lookup[c], concrete_cls |-> c]
    BY <1>1, <2>1 DEF NormalizesToItself
  <2>3. normalize_config_cls(Contexts[i], c)
          = [abstract_cls |-> Contexts[i].abstract_lookup[c], concrete_cls |-> c]
    BY <1>1 DEF NormalizesToItself
  <2>4. QED
    BY <2>1, <2>2, <2>3
<1>2. ASSUME IInv, IInv', [Next]_vars PROVE [Step]_vars
  BY <1>1, <1>2, ConcreteNormalizes, PTL
<1>3. QED
  BY <1>2, Inductive, PTL DEF Spec, ConcreteIsStable

===============================================================================
