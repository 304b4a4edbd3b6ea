-------------------------- MODULE ConfigReadingProofs --------------------------
(***************************************************************************)
(* Proofs about ConfigReading.tla, for any classes, namespaces, tasks,      *)
(* contexts, loads and managers.                                           *)
(*                                                                         *)
(* The registry and the config contexts keep the invariants that are proved *)
(* of them on their own (RegistryProofs.tla, ConfigContextProofs.tla).  The *)
(* managers tie them together: what is loaded was managed, and what is      *)
(* managed counts as concrete from then on.  Of the read that is            *)
(* remembered the invariant says why no later one goes back: what comes    *)
(* into its context from then on is from loads that had not ended.          *)
(***************************************************************************)
EXTENDS ConfigReading, DictProofs

ClassProofs == INSTANCE RegistryProofs WITH outer <- <<>>, MaxDepth <- 0
StoreProofs == INSTANCE ConfigContextProofs WITH Loadable <- SUBSET Class

(* A managed class has a config, its own or an inherited one.               *)
ManagedAreConcrete ==
  \A m \in Manager : \A c \in Range(managers[m]) :
    c \in Class /\ Classes!is_cfg_cls_xable(c)

(* The loads are those of managers, and so is all that they have left.      *)
LoadsAreManaged ==
  /\ \A t \in Task : ~Contexts!IsIdle(t) =>
       \E m \in Manager : managers[m] # EmptyDict /\ loads[t].classes = Range(managers[m])
  /\ \A x \in Ctx : DOMAIN dicts[x] \subseteq UNION ManagedClasses

(* The classes of a manager that shares none with another are in a context  *)
(* all together, of one load, or not at all.                               *)
Alone(S) == \A R \in ManagedClasses : R = S \/ R \cap S = {}

LoadsAreWhole ==
  \A S \in ManagedClasses : Alone(S) => \A x \in Ctx :
    \/ S \cap DOMAIN dicts[x] = {}
    \/ S \subseteq DOMAIN dicts[x] /\ \A c, d \in S : dicts[x][c] = dicts[x][d]

Tied ==
  /\ managers \in [Manager -> Dict(Namespace, Class)]
  /\ ManagedAreConcrete
  /\ LoadsAreManaged
  /\ LoadsAreWhole

(* After a read, the context that it was in has the configs of the manager  *)
(* it was of, each of the load that was read or of one that had not ended,  *)
(* and no load that runs or is yet to begin has ended.                     *)
SeenIsKept ==
  /\ seen \in [cfg : [class : Class, load : Version], ctx : Ctx, ended : SUBSET Version]
  /\ seen.ended \subseteq used
  /\ \A t \in Task : ~Contexts!IsIdle(t) => loads[t].version \notin seen.ended
  /\ seen.cfg.class \in UNION ManagedClasses
  /\ \A S \in ManagedClasses : Alone(S) /\ seen.cfg.class \in S =>
       /\ S \subseteq DOMAIN dicts[seen.ctx]
       /\ \A d \in S : dicts[seen.ctx][d] \notin seen.ended \ {seen.cfg.load}

Remembered == seen # Unread => SeenIsKept

IInv == ClassProofs!IInv /\ StoreProofs!IInv /\ Tied /\ Remembered

-------------------------------------------------------------------------------
(* The proofs of the two parts are about this registry and these contexts.  *)
LEMMA PartAssumptions ==
  /\ Unset \notin Namespace /\ 0 \in Nat
  /\ DefaultCtx \in Ctx
  /\ SUBSET Class \subseteq SUBSET Class
  /\ Active \notin Ctx
  BY UnsetAssumption, DefaultCtxAssumption, ActiveAssumption

(* Both instances of Registry, the model's and that of its proofs, agree on *)
(* what is used here.                                                      *)
LEMMA SameClasses ==
  /\ Classes!Init => ClassProofs!Init
  /\ ClassStep => ClassProofs!Next
  /\ \A c : Classes!is_cfg_cls_xable(c) <=> ClassProofs!is_cfg_cls_xable(c)
  /\ ClassProofs!TypeOK => Classes!TypeOK
<1>1. /\ Classes!EmptyRegistry = ClassProofs!EmptyRegistry
      /\ Classes!CfgRegistryState = ClassProofs!CfgRegistryState
  BY DEF Classes!EmptyRegistry, ClassProofs!EmptyRegistry, Classes!EmptyDict,
    ClassProofs!EmptyDict, Classes!CfgRegistryState, ClassProofs!CfgRegistryState,
    Classes!Dict, ClassProofs!Dict
<1>2. \A r, c, ns, parents :
        Classes!register_concrete(r, c, ns, parents)
          = ClassProofs!register_concrete(r, c, ns, parents)
  BY DEF Classes!register_concrete, ClassProofs!register_concrete,
    Classes!Refused, ClassProofs!Refused, Classes!Registered, ClassProofs!Registered,
    Classes!AbstractOf, ClassProofs!AbstractOf, Classes!Last, ClassProofs!Last,
    Classes!Put, ClassProofs!Put
<1>3. \A r, c : Classes!register_abstract(r, c) = ClassProofs!register_abstract(r, c)
  BY DEF Classes!register_abstract, ClassProofs!register_abstract
<1>4. \A c : Classes!Exists(c) <=> ClassProofs!Exists(c)
  BY DEF Classes!Exists, ClassProofs!Exists
<1>5. ASSUME NEW c \in Class, NEW left \in Range(mro) \cup {<<>>},
             NEW right \in Range(mro) \cup {<<>>}, Classes!DefineClass(c, left, right)
      PROVE  ClassProofs!DefineClass(c, left, right)
  BY <1>3, <1>4, <1>5 DEF Classes!DefineClass, ClassProofs!DefineClass,
    Classes!Range, ClassProofs!Range
<1>6. ASSUME NEW c \in Class, NEW ns \in Namespace, Classes!Decorate(c, ns)
      PROVE  ClassProofs!Decorate(c, ns)
  BY <1>2, <1>4, <1>6 DEF Classes!Decorate, ClassProofs!Decorate
<1>7. ASSUME NEW c \in Class, NEW d \in Class, NEW ns \in Namespace,
             Classes!DecorateSlots(c, d, ns)
      PROVE  ClassProofs!DecorateSlots(c, d, ns)
  BY <1>2, <1>3, <1>4, <1>7 DEF Classes!DecorateSlots, ClassProofs!DecorateSlots
<1>8. ClassStep => ClassProofs!Next
  BY <1>5, <1>6, <1>7 DEF ClassStep, ClassProofs!Next, ClassProofs!Range, Range
<1>9. \A c : Classes!is_cfg_cls_xable(c) <=> ClassProofs!is_cfg_cls_xable(c)
  BY DEF Classes!is_cfg_cls_xable, ClassProofs!is_cfg_cls_xable
<1>10. QED
  BY <1>1, <1>8, <1>9 DEF Classes!Init, ClassProofs!Init, Classes!TypeOK, ClassProofs!TypeOK

(* So do the instances of ConfigContext.                                   *)
LEMMA SameContexts ==
  /\ Contexts!Init => StoreProofs!Init
  /\ ContextStep => StoreProofs!Next
  /\ \A t \in Task, v \in Version, S \in SUBSET Class, into \in Ctx \cup {Active} :
       Contexts!Begin(t, v, S, into) => StoreProofs!Next
  /\ \A t : Contexts!IsIdle(t) <=> StoreProofs!IsIdle(t)
  /\ StoreProofs!TypeOK => Contexts!TypeOK
<1>1. \A t : Contexts!IsIdle(t) <=> StoreProofs!IsIdle(t)
  BY DEF Contexts!IsIdle, StoreProofs!IsIdle
<1>2. \A t : Contexts!Committed(t) = StoreProofs!Committed(t)
  BY DEF Contexts!Committed, StoreProofs!Committed, Contexts!Target, StoreProofs!Target,
    Contexts!Update, StoreProofs!Update, Contexts!Loaded, StoreProofs!Loaded
<1>3. ContextStep => StoreProofs!Next
  BY <1>1, <1>2 DEF ContextStep, StoreProofs!Next,
    Contexts!EnterContext, StoreProofs!EnterContext,
    Contexts!ExitContext, StoreProofs!ExitContext,
    Contexts!SpawnTask, StoreProofs!SpawnTask,
    Contexts!StartThread, StoreProofs!StartThread,
    Contexts!Commit, StoreProofs!Commit,
    Contexts!Abandon, StoreProofs!Abandon,
    Contexts!Front, StoreProofs!Front,
    Contexts!Last, StoreProofs!Last
<1>4. \A t \in Task, v \in Version, S \in SUBSET Class, into \in Ctx \cup {Active} :
        Contexts!Begin(t, v, S, into) => StoreProofs!Next
  BY <1>1 DEF StoreProofs!Next, Contexts!Begin, StoreProofs!Begin
<1>5. Contexts!Init => StoreProofs!Init
  BY DEF Contexts!Init, StoreProofs!Init, Contexts!EmptyDict, StoreProofs!EmptyDict
<1>6. StoreProofs!TypeOK => Contexts!TypeOK
  BY DEF Contexts!TypeOK, StoreProofs!TypeOK, Contexts!Dict, StoreProofs!Dict,
    Contexts!Load, StoreProofs!Load
<1>7. QED
  BY <1>1, <1>3, <1>4, <1>5, <1>6

(* The two invariants that are taken over.                                 *)
LEMMA PartsInit == Init => ClassProofs!IInv /\ StoreProofs!IInv
<1>1. ClassProofs!Init => ClassProofs!IInv
  BY PartAssumptions, ClassProofs!RegistryInit
<1>2. StoreProofs!Init => StoreProofs!IInv
  BY PartAssumptions, StoreProofs!ContextInit
<1>3. QED
  BY <1>1, <1>2, SameClasses, SameContexts DEF Init

(* The invariant of Registry is kept by a step on the classes.             *)
LEMMA ClassPart ==
  ASSUME ClassProofs!IInv, ClassStep \/ UNCHANGED classVars
  PROVE  ClassProofs!IInv'
<1>1. ClassProofs!Next \/ UNCHANGED ClassProofs!vars
  BY SameClasses DEF classVars, ClassProofs!vars
<1>2. QED
  BY <1>1, PartAssumptions, ClassProofs!RegistryStep

(* The invariant of ConfigContext is kept by a step on the contexts.       *)
LEMMA ContextPart ==
  ASSUME StoreProofs!IInv, StoreProofs!Next \/ UNCHANGED contextVars
  PROVE  StoreProofs!IInv'
<1>1. StoreProofs!Next \/ UNCHANGED StoreProofs!vars
  BY DEF contextVars, StoreProofs!vars
<1>2. QED
  BY <1>1, PartAssumptions, StoreProofs!ContextStep

-------------------------------------------------------------------------------
(* A class that normalizes normalizes to one with a config: to itself if it *)
(* has one.                                                                *)
LEMMA NormalizedIsConcrete ==
  ASSUME ClassProofs!IInv, NEW c \in Class, Classes!Normalizes(registry, c)
  PROVE  LET k == Classes!normalize_config_cls(registry, c).concrete_cls
         IN  /\ k \in Class
             /\ Classes!is_cfg_cls_xable(k)
             /\ Classes!is_cfg_cls_xable(c) => k = c
<1> DEFINE k == Classes!normalize_config_cls(registry, c).concrete_cls
<1>1. /\ mro \in [Class -> Seq(Class)]
      /\ \A d \in Class : mro[d] # <<>> => mro[d][1] = d
      /\ \A d \in registry.concrete_cfg_classes : d \in Class /\ mro[d] # <<>> /\ cfg[d] # Unset
      /\ \A a \in DOMAIN registry.concrete_lookup :
           registry.concrete_lookup[a] \in registry.concrete_cfg_classes
  BY DEF ClassProofs!IInv, ClassProofs!OwnFirst, ClassProofs!Consistent,
    ClassProofs!CfgRegistryState
<1>2. CASE Classes!is_cfg_cls_xable(c)
  <2>1. k = c
    BY <1>2 DEF Classes!normalize_config_cls
  <2>2. QED
    BY <1>2, <2>1
<1>3. CASE ~Classes!is_cfg_cls_xable(c)
  <2>1. c \in DOMAIN registry.concrete_lookup /\ k = registry.concrete_lookup[c]
    BY <1>3 DEF Classes!Normalizes, Classes!normalize_config_cls
  <2> HIDE DEF k
  <2>2. k \in Class /\ mro[k] \in Seq(Class) /\ mro[k] # <<>> /\ mro[k][1] = k /\ cfg[k] # Unset
    BY <1>1, <2>1
  <2>3. 1 \in DOMAIN mro[k]
    BY <2>2
  <2>4. Classes!is_cfg_cls_xable(k)
    BY <2>2, <2>3 DEF Classes!is_cfg_cls_xable
  <2>5. QED
    BY <1>3, <2>2, <2>4 DEF k
<1>4. QED
  BY <1>2, <1>3

(* Such a class has a namespace.                                           *)
LEMMA ConcreteHasNamespace ==
  ASSUME ClassProofs!IInv, NEW k \in Class, Classes!is_cfg_cls_xable(k)
  PROVE  get_configatron_cfg(k) \in Namespace
<1> DEFINE I == {i \in 1..Len(mro[k]) : cfg[mro[k][i]] # Unset}
<1>1. /\ mro[k] \in Seq(Class) /\ cfg \in [Class -> Namespace \cup {Unset}]
  BY DEF ClassProofs!IInv
<1>2. I # {}
  BY <1>1 DEF Classes!is_cfg_cls_xable
<1>3. get_configatron_cfg(k) = cfg[mro[k][IF I # {} THEN Min(I) ELSE 0]]
  BY DEF get_configatron_cfg, SelectInSeq
<1>4. Min(I) \in I
  <2>1. I \in SUBSET Nat
    BY <1>1
  <2> HIDE DEF I
  <2>2. QED
    BY <1>2, <2>1, MinFacts
<1>5. cfg[mro[k][Min(I)]] # Unset /\ mro[k][Min(I)] \in Class
  <2>1. \A i \in I : cfg[mro[k][i]] # Unset /\ mro[k][i] \in Class
    BY <1>1
  <2> HIDE DEF I
  <2>2. QED
    BY <1>4, <2>1
<1> HIDE DEF I
<1>6. QED
  BY <1>1, <1>2, <1>3, <1>5

(* A class that counts as concrete goes on doing so.                        *)
LEMMA ConcretePersists ==
  ASSUME ClassProofs!IInv, ClassStep \/ UNCHANGED classVars,
         NEW e \in Class, Classes!is_cfg_cls_xable(e)
  PROVE  Classes!is_cfg_cls_xable(e)'
<1>1. /\ mro \in [Class -> Seq(Class)] /\ cfg \in [Class -> Namespace \cup {Unset}]
  BY DEF ClassProofs!IInv
<1>2. PICK i \in DOMAIN mro[e] : cfg[mro[e][i]] # Unset
  BY DEF Classes!is_cfg_cls_xable
<1>3. mro[e] # <<>> /\ mro[e][i] \in Class
  BY <1>1, <1>2
<1>4. SUFFICES /\ mro'[e] = mro[e]
               /\ \A d \in Class : cfg[d] # Unset => cfg'[d] # Unset
  BY <1>2, <1>3 DEF Classes!is_cfg_cls_xable
<1>5. ASSUME NEW c \in Class, NEW left, NEW right, Classes!DefineClass(c, left, right)
      PROVE  mro'[e] = mro[e] /\ cfg' = cfg
  <2>1. /\ mro[c] = <<>> /\ cfg' = cfg
        /\ mro' = [mro EXCEPT ![c] = <<c>> \o left \o right]
    BY <1>5 DEF Classes!DefineClass, Classes!Exists
  <2>2. QED
    BY <1>1, <1>3, <2>1
<1>6. ASSUME NEW c \in Class, NEW ns \in Namespace, Classes!Decorate(c, ns)
      PROVE  mro' = mro /\ \A d \in Class : cfg[d] # Unset => cfg'[d] # Unset
  BY <1>1, <1>6, UnsetAssumption DEF Classes!Decorate
<1>7. ASSUME NEW c \in Class, NEW d \in Class, NEW ns \in Namespace,
             Classes!DecorateSlots(c, d, ns)
      PROVE  /\ mro'[e] = mro[e]
             /\ \A x \in Class : cfg[x] # Unset => cfg'[x] # Unset
  <2>1. /\ mro[d] = <<>> /\ cfg' = [cfg EXCEPT ![d] = ns]
        /\ mro' = [mro EXCEPT ![d] = <<d>> \o Tail(mro[c])]
    BY <1>7 DEF Classes!DecorateSlots, Classes!Exists
  <2>2. QED
    BY <1>1, <1>3, <2>1, UnsetAssumption
<1>8. QED
  BY <1>5, <1>6, <1>7 DEF ClassStep, classVars

-------------------------------------------------------------------------------
(* What ties the managers to the two parts.                                *)
LEMMA TiedInit == Init => Tied /\ Remembered
<1> SUFFICES ASSUME Init PROVE Tied /\ Remembered
  OBVIOUS
<1>1. \A m \in Manager : managers[m] = EmptyDict
  BY DEF Init
<1>2. EmptyDict \in Dict(Namespace, Class) /\ DOMAIN EmptyDict = {} /\ Range(EmptyDict) = {}
  BY DEF Dict, EmptyDict, Range
<1>3. managers \in [Manager -> Dict(Namespace, Class)]
  BY <1>2 DEF Init
<1>4. ManagedAreConcrete
  BY <1>1, <1>2 DEF ManagedAreConcrete
<1>5. \A x \in Ctx : DOMAIN dicts[x] = {}
  BY DEF Init, Contexts!Init, Contexts!EmptyDict
<1>6. \A t \in Task : Contexts!IsIdle(t)
  BY DEF Init, Contexts!Init, Contexts!IsIdle
<1>7. LoadsAreManaged /\ LoadsAreWhole
  BY <1>5, <1>6 DEF LoadsAreManaged, LoadsAreWhole
<1>8. Remembered
  BY DEF Init, Remembered
<1>9. QED
  BY <1>3, <1>4, <1>7, <1>8 DEF Tied

(* Definitions of classes.                                                 *)
LEMMA TiedClassStep ==
  ASSUME IInv, ClassStep \/ UNCHANGED classVars, UNCHANGED <<contextVars, managers>>
  PROVE  Tied'
<1>1. ManagedAreConcrete'
  BY ConcretePersists DEF IInv, Tied, ManagedAreConcrete
<1>2. ManagedClasses' = ManagedClasses
  BY DEF ManagedClasses
<1>3. LoadsAreManaged' /\ LoadsAreWhole'
  BY <1>2 DEF IInv, Tied, contextVars, LoadsAreManaged, LoadsAreWhole, Alone,
    Contexts!IsIdle
<1>4. QED
  BY <1>1, <1>3 DEF IInv, Tied

(* What happens to the contexts, but not to what is in them.                *)
LEMMA TiedQuietStep ==
  ASSUME IInv, UNCHANGED <<classVars, managers, dicts>>,
         \A t \in Task : \/ Contexts!IsIdle(t)'
                         \/ loads'[t] = loads[t]
                         \/ \E m \in Manager :
                              managers[m] # EmptyDict /\ loads'[t].classes = Range(managers[m])
  PROVE  Tied'
<1>1. ManagedAreConcrete'
  BY DEF IInv, Tied, ManagedAreConcrete, classVars, Classes!is_cfg_cls_xable
<1>2. ManagedClasses' = ManagedClasses
  BY DEF ManagedClasses
<1>3. LoadsAreWhole'
  BY <1>2 DEF IInv, Tied, LoadsAreWhole, Alone
<1>4. LoadsAreManaged'
  BY <1>2 DEF IInv, Tied, LoadsAreManaged, Contexts!IsIdle
<1>5. QED
  BY <1>1, <1>3, <1>4 DEF IInv, Tied

(* A load that commits.                                                    *)
LEMMA TiedCommit ==
  ASSUME IInv, NEW t \in Task, Contexts!Commit(t), UNCHANGED <<classVars, managers>>
  PROVE  Tied'
<1> DEFINE S == loads[t].classes
           v == loads[t].version
           y == Contexts!Target(t)
<1>1. /\ dicts' = [dicts EXCEPT ![y] = Update(dicts[y], [c \in S |-> v])]
      /\ loads' = [loads EXCEPT ![t] = Idle]
      /\ ~Contexts!IsIdle(t)
  BY DEF Contexts!Commit, Contexts!Committed, Contexts!Loaded, Contexts!Update, Update
<1>2. /\ dicts \in [Ctx -> Dict(Class, Version)]
      /\ loads \in [Task -> StoreProofs!Load \cup {Idle}]
  BY DEF IInv, StoreProofs!IInv, StoreProofs!TypeOK, StoreProofs!Dict, Dict
<1>3. y \in Ctx
  <2>1. /\ active \in [Task -> made] /\ made \subseteq Ctx
        /\ loads[t].into \in made \cup {Active}
    BY <1>1, SameContexts DEF IInv, StoreProofs!IInv, StoreProofs!TypeOK, StoreProofs!OpenLoads
  <2>2. QED
    BY <2>1 DEF Contexts!Target
<1>4. S \in ManagedClasses
  BY <1>1 DEF IInv, Tied, LoadsAreManaged, ManagedClasses
<1> HIDE DEF S, v, y
<1>5. /\ DOMAIN dicts'[y] = DOMAIN dicts[y] \cup S
      /\ \A c \in S : dicts'[y][c] = v
      /\ \A c \in DOMAIN dicts[y] \ S : dicts'[y][c] = dicts[y][c]
      /\ \A x \in Ctx : x # y => dicts'[x] = dicts[x]
  BY <1>1, <1>2, <1>3 DEF Update
<1>6. ManagedClasses' = ManagedClasses
  BY DEF ManagedClasses
<1>7. ManagedAreConcrete'
  BY DEF IInv, Tied, ManagedAreConcrete, classVars, Classes!is_cfg_cls_xable
<1>8. LoadsAreManaged'
  <2>1. \A u \in Task : Contexts!IsIdle(u)' \/ loads'[u] = loads[u]
    BY <1>1, <1>2 DEF Contexts!IsIdle
  <2>2. \A u \in Task : ~Contexts!IsIdle(u)' =>
          \E m \in Manager : managers'[m] # EmptyDict /\ loads'[u].classes = Range(managers'[m])
    BY <2>1 DEF IInv, Tied, LoadsAreManaged, Contexts!IsIdle
  <2>3. \A x \in Ctx : DOMAIN dicts'[x] \subseteq UNION ManagedClasses'
    BY <1>4, <1>5, <1>6 DEF IInv, Tied, LoadsAreManaged
  <2>4. QED
    BY <2>2, <2>3 DEF LoadsAreManaged
<1>9. LoadsAreWhole'
  <2> SUFFICES ASSUME NEW R \in ManagedClasses, Alone(R), NEW x \in Ctx
               PROVE  \/ R \cap DOMAIN dicts'[x] = {}
                      \/ /\ R \subseteq DOMAIN dicts'[x]
                         /\ \A c, d \in R : dicts'[x][c] = dicts'[x][d]
    BY <1>6 DEF LoadsAreWhole, Alone
  <2>1. \/ R \cap DOMAIN dicts[x] = {}
        \/ R \subseteq DOMAIN dicts[x] /\ \A c, d \in R : dicts[x][c] = dicts[x][d]
    BY DEF IInv, Tied, LoadsAreWhole
  <2>2. S = R \/ S \cap R = {}
    BY <1>4 DEF Alone
  <2>3. CASE x # y
    BY <1>5, <2>1, <2>3
  <2>4. CASE x = y /\ S = R
    BY <1>5, <2>4
  <2>5. CASE x = y /\ S \cap R = {}
    BY <1>5, <2>1, <2>5
  <2>6. QED
    BY <2>2, <2>3, <2>4, <2>5
<1>10. QED
  BY <1>7, <1>8, <1>9 DEF IInv, Tied

(* The remembered read, when a step leaves the dicts and the managers alone *)
(* and begins new loads only.                                              *)
LEMMA RememberedQuietStep ==
  ASSUME Remembered, UNCHANGED <<seen, managers, dicts>>, used \subseteq used',
         \A t \in Task : \/ Contexts!IsIdle(t)'
                         \/ loads'[t] = loads[t]
                         \/ loads'[t].version \notin used
  PROVE  Remembered'
<1> SUFFICES ASSUME seen # Unread PROVE SeenIsKept'
  BY DEF Remembered
<1>1. SeenIsKept
  BY DEF Remembered
<1>2. ManagedClasses' = ManagedClasses
  BY DEF ManagedClasses
<1>3. \A S : Alone(S)' <=> Alone(S)
  BY <1>2 DEF Alone
<1>4. \A t \in Task : ~Contexts!IsIdle(t)' => loads'[t].version \notin seen.ended
  BY <1>1 DEF SeenIsKept, Contexts!IsIdle
<1>5. QED
  BY <1>1, <1>2, <1>3, <1>4 DEF SeenIsKept

(* A load that commits had not ended when the read was made.                *)
LEMMA RememberedCommit ==
  ASSUME IInv, NEW t \in Task, Contexts!Commit(t), UNCHANGED <<seen, managers>>
  PROVE  Remembered'
<1> SUFFICES ASSUME seen # Unread PROVE SeenIsKept'
  BY DEF Remembered
<1> DEFINE S == loads[t].classes
           v == loads[t].version
           y == Contexts!Target(t)
<1>1. /\ dicts' = [dicts EXCEPT ![y] = Update(dicts[y], [c \in S |-> v])]
      /\ loads' = [loads EXCEPT ![t] = Idle] /\ used' = used
      /\ ~Contexts!IsIdle(t)
  BY DEF Contexts!Commit, Contexts!Committed, Contexts!Loaded, Contexts!Update, Update
<1>2. /\ dicts \in [Ctx -> Dict(Class, Version)]
      /\ loads \in [Task -> StoreProofs!Load \cup {Idle}]
  BY DEF IInv, StoreProofs!IInv, StoreProofs!TypeOK, StoreProofs!Dict, Dict
<1>3. SeenIsKept
  BY DEF IInv, Remembered
<1>4. S \in ManagedClasses
  BY <1>1 DEF IInv, Tied, LoadsAreManaged, ManagedClasses
<1>5. PICK x \in Ctx : x = seen.ctx
  BY <1>3 DEF SeenIsKept
<1>6. v \notin seen.ended
  BY <1>1, <1>3 DEF SeenIsKept
<1> HIDE DEF S, v, y
<1>7. \/ dicts'[x] = dicts[x]
      \/ /\ DOMAIN dicts'[x] = DOMAIN dicts[x] \cup S
         /\ \A c \in S : dicts'[x][c] = v
         /\ \A c \in DOMAIN dicts[x] \ S : dicts'[x][c] = dicts[x][c]
  BY <1>1, <1>2 DEF Update
<1>8. ManagedClasses' = ManagedClasses
  BY DEF ManagedClasses
<1>9. ASSUME NEW R \in ManagedClasses, Alone(R), seen.cfg.class \in R
      PROVE  /\ R \subseteq DOMAIN dicts'[x]
             /\ \A d \in R : dicts'[x][d] \notin seen.ended \ {seen.cfg.load}
  <2>1. /\ R \subseteq DOMAIN dicts[x]
        /\ \A d \in R : dicts[x][d] \notin seen.ended \ {seen.cfg.load}
    BY <1>3, <1>5, <1>9 DEF SeenIsKept
  <2>2. S = R \/ S \cap R = {}
    BY <1>4, <1>9 DEF Alone
  <2>3. QED
    BY <1>6, <1>7, <2>1, <2>2
<1>10. \A R : Alone(R)' <=> Alone(R)
  BY <1>8 DEF Alone
<1>11. \A u \in Task : ~Contexts!IsIdle(u)' => loads'[u].version \notin seen.ended
  BY <1>1, <1>2, <1>3 DEF SeenIsKept, Contexts!IsIdle
<1>12. QED
  BY <1>1, <1>3, <1>5, <1>8, <1>9, <1>10, <1>11 DEF SeenIsKept

(* A read.                                                                 *)
LEMMA RememberedRead ==
  ASSUME IInv, NEW t \in Task, NEW c \in Class, Read(t, c)
  PROVE  Remembered'
<1> DEFINE k == Asked(c)
<1>1. /\ seen' = [cfg |-> [class |-> k, load |-> dicts[active[t]][k]],
                  ctx |-> active[t], ended |-> Ended]
      /\ Classes!Normalizes(registry, c) /\ k \in DOMAIN dicts[active[t]]
      /\ UNCHANGED <<contextVars, managers>>
  BY DEF Read, Reads, get_active_cfg, Contexts!IsLoaded, Contexts!get_active_cfg
<1>2. k \in Class
  BY <1>1, NormalizedIsConcrete DEF Asked, IInv
<1> HIDE DEF k
<1>3. PICK x \in Ctx : x = active[t]
  BY DEF IInv, StoreProofs!IInv, StoreProofs!TypeOK
<1>4. dicts[x] \in Dict(Class, Version) /\ used \subseteq Version
  BY DEF IInv, StoreProofs!IInv, StoreProofs!TypeOK, StoreProofs!Dict, Dict
<1>5. PICK v \in Version : v = dicts[x][k]
  BY <1>1, <1>3, <1>4, DictFacts
<1>6. Ended \subseteq used /\ \A u \in Task : ~Contexts!IsIdle(u) => loads[u].version \notin Ended
  BY DEF Ended
<1>7. k \in UNION ManagedClasses
  BY <1>1, <1>3 DEF IInv, Tied, LoadsAreManaged
<1>8. ASSUME NEW S \in ManagedClasses, Alone(S), k \in S
      PROVE  S \subseteq DOMAIN dicts[x] /\ \A d \in S : dicts[x][d] = v
  BY <1>1, <1>3, <1>5, <1>8 DEF IInv, Tied, LoadsAreWhole
<1>9. ManagedClasses' = ManagedClasses /\ \A S : Alone(S)' <=> Alone(S)
  BY <1>1 DEF ManagedClasses, Alone
<1>10. /\ seen' = [cfg |-> [class |-> k, load |-> v], ctx |-> x, ended |-> Ended]
       /\ dicts' = dicts /\ loads' = loads /\ used' = used
  BY <1>1, <1>3, <1>5 DEF contextVars
<1> HIDE DEF Ended
<1>11. SeenIsKept'
  <2>1. seen' \in [cfg : [class : Class, load : Version], ctx : Ctx, ended : SUBSET Version]
    BY <1>2, <1>4, <1>6, <1>10
  <2>2. /\ seen'.cfg.class = k /\ seen'.cfg.load = v
        /\ seen'.ctx = x /\ seen'.ended = Ended
    BY <1>10
  <2>3. \A u \in Task : ~Contexts!IsIdle(u)' => loads'[u].version \notin seen'.ended
    BY <1>6, <1>10, <2>2 DEF Contexts!IsIdle
  <2>4. ASSUME NEW S \in ManagedClasses', Alone(S)', seen'.cfg.class \in S
        PROVE  /\ S \subseteq DOMAIN dicts'[seen'.ctx]
               /\ \A d \in S : dicts'[seen'.ctx][d] \notin seen'.ended \ {seen'.cfg.load}
    BY <1>8, <1>9, <1>10, <2>2, <2>4
  <2>5. QED
    BY <1>6, <1>7, <1>9, <1>10, <2>1, <2>2, <2>3, <2>4 DEF SeenIsKept
<1>12. QED
  BY <1>11 DEF Remembered

(* A new manager shares classes with the one whose config was read, or is   *)
(* not of that config.                                                     *)
LEMMA RememberedNewManager ==
  ASSUME IInv, NEW N, UNCHANGED <<contextVars, seen>>,
         \A R \in ManagedClasses : R \in ManagedClasses' \/ R = {},
         \A R \in ManagedClasses' : R \in ManagedClasses \/ R = N
  PROVE  Remembered'
<1> SUFFICES ASSUME seen # Unread PROVE SeenIsKept'
  BY DEF Remembered
<1>1. SeenIsKept
  BY DEF IInv, Remembered
<1>2. UNION ManagedClasses \subseteq UNION ManagedClasses'
  OBVIOUS
<1>3. ASSUME NEW S \in ManagedClasses', Alone(S)', seen.cfg.class \in S
      PROVE  S \in ManagedClasses /\ Alone(S)
  <2>1. PICK R \in ManagedClasses : seen.cfg.class \in R
    BY <1>1 DEF SeenIsKept
  <2>2. R \in ManagedClasses'
    BY <2>1
  <2>3. R = S
    BY <1>3, <2>1, <2>2 DEF Alone
  <2>4. \A Q \in ManagedClasses : Q = S \/ Q \cap S = {}
    BY <1>3 DEF Alone
  <2>5. QED
    BY <2>1, <2>3, <2>4 DEF Alone
<1>4. /\ dicts' = dicts /\ used' = used /\ seen' = seen
      /\ \A t \in Task : ~Contexts!IsIdle(t)' => loads'[t].version \notin seen.ended
  BY <1>1 DEF SeenIsKept, Contexts!IsIdle, contextVars
<1>5. QED
  BY <1>1, <1>2, <1>3, <1>4 DEF SeenIsKept

(* The constructor, when it returns, manages concrete classes only.         *)
LEMMA ManagedFacts ==
  ASSUME ClassProofs!IInv, NEW n \in Nat, NEW args \in [1..n -> Class],
         \A c \in Range(args) : Classes!Normalizes(registry, c),
         \A c \in Range(cfg_classes(args)) : Analyzable(c)
  PROVE  /\ cfg_classes(args) \in Dict(Namespace, Class)
         /\ \A c \in Range(cfg_classes(args)) : c \in Class /\ Classes!is_cfg_cls_xable(c)
<1> DEFINE With(ns) == {i \in 1..n : namespace(args[i]) = ns}
           N == {namespace(c) : c \in Range(args)}
           d == cfg_classes(args)
<1>1. Range(args) = {args[i] : i \in 1..n} /\ DOMAIN args = 1..n
  BY DEF Range
<1>2. d = [ns \in N |-> args[Max(With(ns))]]
  BY <1>1 DEF cfg_classes
<1>3. N \subseteq Namespace
  <2>1. ASSUME NEW c \in Range(args) PROVE namespace(c) \in Namespace
    <3>1. c \in Class /\ Classes!Normalizes(registry, c)
      BY <1>1
    <3>2. /\ Classes!normalize_config_cls(registry, c).concrete_cls \in Class
          /\ Classes!is_cfg_cls_xable(Classes!normalize_config_cls(registry, c).concrete_cls)
      BY <3>1, NormalizedIsConcrete
    <3>3. QED
      BY <3>2, ConcreteHasNamespace DEF namespace
  <2>2. QED
    BY <2>1
<1>4. \A ns \in N : Max(With(ns)) \in 1..n
  <2>1. TAKE ns \in N
  <2>2. With(ns) \in SUBSET (0..n) /\ With(ns) \in SUBSET (1..n) /\ With(ns) # {}
    BY <1>1
  <2> HIDE DEF With
  <2>3. Max(With(ns)) \in With(ns)
    BY <2>2, MaxFacts
  <2>4. QED
    BY <2>2, <2>3
<1> HIDE DEF With, N, d
<1>5. DOMAIN d = N /\ d \in [N -> Class] /\ \A ns \in N : d[ns] \in Range(args)
  BY <1>1, <1>2, <1>4
<1>6. d \in Dict(Namespace, Class)
  BY <1>3, <1>5, DictIntro
<1>7. \A c \in Range(d) : c \in Range(args) /\ c \in Class
  BY <1>5 DEF Range
<1>8. ASSUME NEW c \in Range(d) PROVE Classes!is_cfg_cls_xable(c)
  <2>1. c \in Class /\ Classes!Normalizes(registry, c)
    BY <1>7
  <2>2. Classes!normalize_config_cls(registry, c).concrete_cls = c
    BY DEF Analyzable, d
  <2>3. QED
    BY <2>1, <2>2, NormalizedIsConcrete
<1>9. QED
  BY <1>6, <1>7, <1>8 DEF d

(* A new manager shares classes with none of the loads so far, or is not    *)
(* alone with them.                                                        *)
LEMMA TiedNewManager ==
  ASSUME IInv, NEW m \in Manager, NEW n \in Nat, NEW args \in [1..n -> Class],
         NewManager(m, args)
  PROVE  Tied' /\ Remembered'
<1>1. PICK N : N = cfg_classes(args)
  OBVIOUS
<1>2. /\ managers[m] = EmptyDict /\ managers' = [managers EXCEPT ![m] = N]
      /\ UNCHANGED <<classVars, contextVars, seen>>
  BY <1>1 DEF NewManager
<1>3. managers \in [Manager -> Dict(Namespace, Class)]
  BY DEF IInv, Tied
<1>4. N \in Dict(Namespace, Class) /\ \A c \in Range(N) : c \in Class /\ Classes!is_cfg_cls_xable(c)
  BY <1>1, ManagedFacts DEF IInv, NewManager
<1>5. /\ managers' \in [Manager -> Dict(Namespace, Class)]
      /\ managers'[m] = N /\ \A o \in Manager : o # m => managers'[o] = managers[o]
  BY <1>2, <1>3, <1>4
<1>6. ManagedAreConcrete'
  <2>1. \A c : Classes!is_cfg_cls_xable(c)' <=> Classes!is_cfg_cls_xable(c)
    BY <1>2 DEF Classes!is_cfg_cls_xable, classVars
  <2>2. QED
    BY <1>4, <1>5, <2>1 DEF IInv, Tied, ManagedAreConcrete
<1>7. Range(EmptyDict) = {}
  BY DEF Range, EmptyDict
<1>8. /\ \A R \in ManagedClasses : R \in ManagedClasses' \/ R = {}
      /\ \A R \in ManagedClasses' : R \in ManagedClasses \/ R = Range(N)
  BY <1>2, <1>5, <1>7 DEF ManagedClasses
<1>9. LoadsAreManaged'
  <2>1. \A t \in Task : ~Contexts!IsIdle(t)' =>
          \E o \in Manager : managers'[o] # EmptyDict /\ loads'[t].classes = Range(managers'[o])
    BY <1>2, <1>5 DEF IInv, Tied, LoadsAreManaged, Contexts!IsIdle, contextVars
  <2>2. UNION ManagedClasses \subseteq UNION ManagedClasses'
    BY <1>8
  <2>3. QED
    BY <1>2, <2>1, <2>2 DEF IInv, Tied, LoadsAreManaged, contextVars
<1>10. LoadsAreWhole'
  <2> SUFFICES ASSUME NEW S \in ManagedClasses',
                      \A R \in ManagedClasses' : R = S \/ R \cap S = {},
                      NEW x \in Ctx
               PROVE  \/ S \cap DOMAIN dicts[x] = {}
                      \/ S \subseteq DOMAIN dicts[x] /\ \A c, d \in S : dicts[x][c] = dicts[x][d]
    BY <1>2 DEF LoadsAreWhole, Alone, contextVars
  <2>1. \A R \in ManagedClasses : R = S \/ R \cap S = {}
    BY <1>8
  <2>2. CASE S \in ManagedClasses
    BY <2>1, <2>2 DEF IInv, Tied, LoadsAreWhole, Alone
  <2>3. CASE S \notin ManagedClasses
    <3>1. S \cap UNION ManagedClasses = {}
      BY <2>1, <2>3
    <3>2. DOMAIN dicts[x] \subseteq UNION ManagedClasses
      BY DEF IInv, Tied, LoadsAreManaged
    <3>3. QED
      BY <3>1, <3>2
  <2>4. QED
    BY <2>2, <2>3
<1>11. Remembered'
  BY <1>2, <1>8, RememberedNewManager
<1>12. QED
  BY <1>5, <1>6, <1>9, <1>10, <1>11 DEF Tied

-------------------------------------------------------------------------------
(* Each step keeps the invariant.                                          *)
LEMMA ReadingStep == IInv /\ [Next]_vars => IInv'
<1> SUFFICES ASSUME IInv, [Next]_vars PROVE IInv'
  OBVIOUS
<1>1. ASSUME NEW m \in Manager, NEW n \in 1..MaxArgs, NEW args \in [1..n -> Class],
             NewManager(m, args)
      PROVE  IInv'
  <2>1. n \in Nat
    OBVIOUS
  <2>2. Tied' /\ Remembered'
    BY <1>1, <2>1, TiedNewManager
  <2>3. QED
    BY <1>1, <2>2, ClassPart, ContextPart DEF IInv, NewManager
<1>2. ASSUME NEW t \in Task, NEW m \in Manager, NEW v \in Version,
             NEW into \in Ctx \cup {Active}, BeginLoad(t, m, v, into)
      PROVE  IInv'
  <2> DEFINE S == Range(managers[m])
  <2>1. /\ managers[m] # EmptyDict
        /\ Contexts!Begin(t, v, S, into)
        /\ UNCHANGED <<classVars, managers, seen>>
    BY <1>2 DEF BeginLoad
  <2>2. S \in SUBSET Class
    <3>1. \A c \in S : c \in Class
      BY DEF IInv, Tied, ManagedAreConcrete
    <3>2. QED
      BY <3>1
  <2> HIDE DEF S
  <2>3. StoreProofs!IInv'
    BY <2>1, <2>2, SameContexts, ContextPart DEF IInv
  <2>4. /\ dicts' = dicts
        /\ loads' = [loads EXCEPT ![t] = [version |-> v, classes |-> S, into |-> into]]
        /\ v \notin used /\ used' = used \cup {v}
    BY <2>1 DEF Contexts!Begin
  <2>5. loads \in [Task -> StoreProofs!Load \cup {Idle}]
    BY DEF IInv, StoreProofs!IInv, StoreProofs!TypeOK
  <2>6. \A u \in Task :
          \/ loads'[u] = loads[u]
          \/ loads'[u].classes = S /\ loads'[u].version = v
    BY <2>4, <2>5
  <2>7. Tied'
    BY <2>1, <2>4, <2>6, TiedQuietStep DEF S
  <2>8. Remembered'
    BY <2>1, <2>4, <2>6, RememberedQuietStep DEF IInv
  <2>9. QED
    BY <2>1, <2>3, <2>7, <2>8, ClassPart DEF IInv
<1>3. CASE ClassStep
  <2>1. UNCHANGED <<contextVars, managers, seen>>
    BY <1>3 DEF ClassStep
  <2>2. Remembered'
    BY <2>1, RememberedQuietStep DEF IInv, contextVars
  <2>3. QED
    BY <1>3, <2>1, <2>2, ClassPart, ContextPart, TiedClassStep DEF IInv
<1>4. CASE ContextStep
  <2>1. UNCHANGED <<classVars, managers, seen>>
    BY <1>4 DEF ContextStep
  <2>2. ClassProofs!IInv' /\ StoreProofs!IInv'
    BY <1>4, <2>1, SameContexts, ClassPart, ContextPart DEF IInv
  <2>3. ASSUME dicts' = dicts, used' = used,
               \A t \in Task : Contexts!IsIdle(t)' \/ loads'[t] = loads[t]
        PROVE  Tied' /\ Remembered'
    BY <2>1, <2>3, TiedQuietStep, RememberedQuietStep DEF IInv
  <2>4. ASSUME NEW t \in Task, Contexts!Abandon(t)
        PROVE  Tied' /\ Remembered'
    <3>1. /\ dicts' = dicts /\ used' = used /\ loads' = [loads EXCEPT ![t] = Idle]
          /\ loads \in [Task -> StoreProofs!Load \cup {Idle}]
      BY <2>4 DEF Contexts!Abandon, IInv, StoreProofs!IInv, StoreProofs!TypeOK
    <3>2. \A u \in Task : Contexts!IsIdle(u)' \/ loads'[u] = loads[u]
      BY <3>1 DEF Contexts!IsIdle
    <3>3. QED
      BY <2>3, <3>1, <3>2
  <2>5. ASSUME NEW t \in Task, Contexts!Commit(t)
        PROVE  Tied' /\ Remembered'
    BY <2>1, <2>5, TiedCommit, RememberedCommit
  <2>6. ASSUME dicts' = dicts, loads' = loads, used' = used PROVE Tied' /\ Remembered'
    BY <2>3, <2>6
  <2>7. Tied' /\ Remembered'
    BY <1>4, <2>4, <2>5, <2>6 DEF ContextStep, Contexts!EnterContext, Contexts!ExitContext,
      Contexts!SpawnTask, Contexts!StartThread
  <2>8. QED
    BY <2>2, <2>7 DEF IInv
<1>5. ASSUME NEW t \in Task, NEW c \in Class, Read(t, c)
      PROVE  IInv'
  <2>1. UNCHANGED classVars /\ UNCHANGED <<contextVars, managers>>
    BY <1>5 DEF Read
  <2>2. QED
    BY <1>5, <2>1, ClassPart, ContextPart, TiedClassStep, RememberedRead DEF IInv
<1>6. CASE UNCHANGED vars
  <2>1. UNCHANGED classVars /\ UNCHANGED <<contextVars, managers, seen>>
    BY <1>6 DEF vars
  <2>2. Remembered'
    BY <2>1, RememberedQuietStep DEF IInv, contextVars
  <2>3. QED
    BY <2>1, <2>2, ClassPart, ContextPart, TiedClassStep DEF IInv
<1>7. QED
  BY <1>1, <1>2, <1>3, <1>4, <1>5, <1>6 DEF Next

(* IInv is inductive.                                                      *)
THEOREM Inductive == Spec => []IInv
<1>1. Init => IInv
  BY PartsInit, TiedInit DEF IInv
<1>2. QED
  BY <1>1, ReadingStep, PTL DEF Spec

-------------------------------------------------------------------------------
(* The registry, the contexts, the managers and the read keep their types.  *)
THEOREM TypeCorrect == Spec => []TypeOK
<1>1. ClassProofs!IInv => ClassProofs!TypeOK
  BY DEF ClassProofs!IInv, ClassProofs!TypeOK, ClassProofs!Consistent
<1>2. IInv => TypeOK
  BY <1>1, SameClasses, SameContexts DEF IInv, Tied, Remembered, SeenIsKept, TypeOK,
    StoreProofs!IInv
<1>3. QED
  BY <1>2, Inductive, PTL

(* What a task has in its context, and that is not unknown to the registry, *)
(* it can read.                                                            *)
THEOREM LoadedCanBeRead == Spec => []LoadedIsReadable
<1>1. IInv => LoadedIsReadable
  <2> SUFFICES ASSUME IInv, NEW t \in Task, NEW c \in Class,
                      Contexts!IsLoaded(t, c), Classes!Normalizes(registry, c)
               PROVE  Reads(t, c) /\ get_active_cfg(t, c).class = c
    BY DEF LoadedIsReadable
  <2>1. active[t] \in Ctx
    BY DEF IInv, StoreProofs!IInv, StoreProofs!TypeOK
  <2>2. c \in UNION ManagedClasses
    BY <2>1 DEF Contexts!IsLoaded, IInv, Tied, LoadsAreManaged
  <2>3. Classes!is_cfg_cls_xable(c)
    BY <2>2 DEF ManagedClasses, IInv, Tied, ManagedAreConcrete
  <2>4. Asked(c) = c
    BY <2>3, NormalizedIsConcrete DEF Asked, IInv
  <2>5. QED
    BY <2>4 DEF Reads, get_active_cfg
<1>2. QED
  BY <1>1, Inductive, PTL

(* After one read of a manager's configs no read of them goes back: all of  *)
(* them can be read, of the load that was read first or of one that had not *)
(* ended by then.                                                          *)
THEOREM ReadersNeverGoBack == Spec => []ReadersMoveForward
<1>1. IInv => ReadersMoveForward
  <2> SUFFICES ASSUME IInv, seen # Unread, NEW S \in ManagedClasses, Alone(S),
                      seen.cfg.class \in S, NEW t \in Task, NEW c \in Class,
                      active[t] = seen.ctx,
                      Classes!Normalizes(registry, c), Asked(c) \in S
               PROVE  /\ Reads(t, c)
                      /\ get_active_cfg(t, c).load \notin seen.ended \ {seen.cfg.load}
    BY DEF ReadersMoveForward, Alone
  <2>1. /\ S \subseteq DOMAIN dicts[seen.ctx]
        /\ \A d \in S : dicts[seen.ctx][d] \notin seen.ended \ {seen.cfg.load}
    BY DEF IInv, Remembered, SeenIsKept
  <2>2. QED
    BY <2>1 DEF Reads, get_active_cfg, Contexts!IsLoaded, Contexts!get_active_cfg
<1>2. QED
  BY <1>1, Inductive, PTL

(* What is registered as concrete is what get_active_cfg() looks for.       *)
ConcreteIsAsked ==
  \A c \in registry.concrete_cfg_classes :
    c \in Class /\ Classes!Normalizes(registry, c) /\ Asked(c) = c

(* A registered concrete class normalizes to itself.                       *)
LEMMA ConcreteAsksItself == IInv => ConcreteIsAsked
<1> SUFFICES ASSUME IInv, NEW c \in registry.concrete_cfg_classes
             PROVE  c \in Class /\ Classes!Normalizes(registry, c) /\ Asked(c) = c
  BY DEF ConcreteIsAsked
<1>1. /\ c \in Class /\ mro[c] \in Seq(Class) /\ mro[c] # <<>> /\ cfg[c] # Unset
      /\ c \in DOMAIN registry.abstract_lookup
      /\ mro[c][1] = c
  BY DEF IInv, ClassProofs!IInv, ClassProofs!OwnFirst, ClassProofs!Consistent,
    ClassProofs!CfgRegistryState
<1>2. 1 \in DOMAIN mro[c]
  BY <1>1
<1>3. Classes!is_cfg_cls_xable(c)
  BY <1>1, <1>2 DEF Classes!is_cfg_cls_xable
<1>4. QED
  BY <1>1, <1>3 DEF Classes!Normalizes, Classes!normalize_config_cls, Asked

(* No step takes a class out of the registry, or out of a context.          *)
LEMMA NothingForgotten ==
  ASSUME IInv, [Next]_vars
  PROVE  /\ registry.concrete_cfg_classes \subseteq registry'.concrete_cfg_classes
         /\ \A x \in Ctx : DOMAIN dicts[x] \subseteq DOMAIN dicts'[x]
<1>1. ClassStep \/ UNCHANGED classVars
  BY DEF Next, NewManager, BeginLoad, ContextStep, Read, vars
<1>2. StoreProofs!Next \/ UNCHANGED contextVars
  <2>1. ASSUME NEW t \in Task, NEW m \in Manager, NEW v \in Version,
               NEW into \in Ctx \cup {Active}, BeginLoad(t, m, v, into)
        PROVE  StoreProofs!Next
    <3>1. \A c \in Range(managers[m]) : c \in Class
      BY DEF IInv, Tied, ManagedAreConcrete
    <3>2. Range(managers[m]) \in SUBSET Class
      BY <3>1
    <3>3. QED
      BY <2>1, <3>2, SameContexts DEF BeginLoad
  <2>2. QED
    BY <2>1, SameContexts DEF Next, NewManager, ClassStep, Read, vars
<1>3. \A x \in Ctx : DOMAIN dicts[x] \subseteq DOMAIN dicts'[x]
  <2>1. [StoreProofs!Next]_(StoreProofs!vars)
    BY <1>2 DEF contextVars, StoreProofs!vars
  <2>2. QED
    BY <2>1, PartAssumptions, StoreProofs!NothingUnloaded DEF IInv
<1>4. registry.concrete_cfg_classes \subseteq registry'.concrete_cfg_classes
  <2>1. [ClassProofs!Next]_(ClassProofs!vars)
    BY <1>1, SameClasses DEF classVars, ClassProofs!vars
  <2>2. \A i \in DOMAIN ClassProofs!Contexts \cap DOMAIN ClassProofs!Contexts' :
          ClassProofs!Extends(ClassProofs!Contexts[i], ClassProofs!Contexts'[i])
    BY <2>1, PartAssumptions, ClassProofs!StepExtends DEF IInv
  <2>3. /\ DOMAIN ClassProofs!Contexts = {1} /\ ClassProofs!Contexts[1] = registry
        /\ DOMAIN ClassProofs!Contexts' = {1} /\ ClassProofs!Contexts'[1] = registry'
    BY DEF ClassProofs!Contexts
  <2>4. ClassProofs!Extends(registry, registry')
    BY <2>2, <2>3
  <2>5. QED
    BY <2>4 DEF ClassProofs!Extends
<1>5. QED
  BY <1>3, <1>4

(* A registered concrete class that a task has read by that class stays     *)
(* readable in the task's context.                                         *)
THEOREM ReadableStaysReadable == Spec => ConcreteStaysReadable
<1> DEFINE Step ==
      \A t \in Task : \A c \in registry.concrete_cfg_classes :
        /\ Reads(t, c)
        /\ active'[t] = active[t]
        => Reads(t, c)' /\ get_active_cfg(t, c)'.class = c
<1>1. ASSUME IInv, ConcreteIsAsked, ConcreteIsAsked', [Next]_vars
      PROVE  Step
  <2> SUFFICES ASSUME NEW t \in Task, NEW c \in registry.concrete_cfg_classes,
                      Reads(t, c), active'[t] = active[t]
               PROVE  Reads(t, c)' /\ get_active_cfg(t, c)'.class = c
    OBVIOUS
  <2>1. c \in registry'.concrete_cfg_classes
    BY <1>1, NothingForgotten
  <2>2. Classes!Normalizes(registry, c)' /\ Asked(c)' = c
    BY <1>1, <2>1 DEF ConcreteIsAsked
  <2>3. active[t] \in Ctx
    BY <1>1 DEF IInv, StoreProofs!IInv, StoreProofs!TypeOK
  <2>4. c \in DOMAIN dicts[active[t]]
    BY <1>1 DEF ConcreteIsAsked, Reads, Contexts!IsLoaded
  <2>5. c \in DOMAIN dicts'[active'[t]]
    BY <1>1, <2>3, <2>4, NothingForgotten
  <2>6. QED
    BY <2>2, <2>5 DEF Reads, Contexts!IsLoaded, get_active_cfg
<1>2. ASSUME IInv, IInv', [Next]_vars PROVE [Step]_vars
  BY <1>1, <1>2, ConcreteAsksItself, PTL
<1>3. QED
  BY <1>2, Inductive, PTL DEF Spec, ConcreteStaysReadable

(* register_abstract() leaves the lookup by abstract class alone.  After    *)
(* register_concrete() an abstract class leads where it led, or to the      *)
(* class that was registered for it.                                       *)
LookupKept(mro2, registry2) ==
  \A a \in DOMAIN registry.concrete_lookup :
    /\ a \in DOMAIN registry2.concrete_lookup
    /\ \/ registry2.concrete_lookup[a] = registry.concrete_lookup[a]
       \/ \E d \in registry2.concrete_cfg_classes \ registry.concrete_cfg_classes :
            Last(mro2[d]) = a /\ registry2.concrete_lookup[a] = d

LEMMA RegistrationKeepsLookups ==
  ASSUME NEW r, NEW d, NEW ns, NEW mro2,
         registry \in Classes!CfgRegistryState, r \in Classes!CfgRegistryState,
         DOMAIN registry.abstract_lookup = registry.concrete_cfg_classes,
         r.concrete_lookup = registry.concrete_lookup,
         r.abstract_lookup = registry.abstract_lookup,
         r.concrete_cfg_classes = registry.concrete_cfg_classes
  PROVE  LookupKept(mro2, Classes!register_concrete(r, d, ns, mro2[d]))
<1> DEFINE q == Classes!register_concrete(r, d, ns, mro2[d])
           b == Last(mro2[d])
<1>1. CASE Classes!Refused(r, d, ns)
  <2>1. q.concrete_lookup = registry.concrete_lookup
    BY <1>1 DEF Classes!register_concrete
  <2>2. QED
    BY <2>1 DEF LookupKept
<1>2. CASE ~Classes!Refused(r, d, ns)
  <2>1. /\ q.concrete_lookup = Classes!Put(r.concrete_lookup, b, d)
        /\ q.concrete_cfg_classes = r.concrete_cfg_classes \cup {d}
    BY <1>2 DEF Classes!register_concrete, Classes!Registered, Classes!AbstractOf,
      Classes!CfgRegistryState, Classes!Last, Last
  <2>2. d \notin registry.concrete_cfg_classes
    BY <1>2 DEF Classes!Refused
  <2> HIDE DEF q
  <2>3. \A a \in DOMAIN registry.concrete_lookup :
          /\ a \in DOMAIN q.concrete_lookup
          /\ a # b => q.concrete_lookup[a] = registry.concrete_lookup[a]
          /\ a = b => q.concrete_lookup[a] = d
    BY <2>1 DEF Classes!Put
  <2>4. d \in q.concrete_cfg_classes \ registry.concrete_cfg_classes
    BY <2>1, <2>2
  <2>5. LookupKept(mro2, q)
    BY <2>3, <2>4 DEF LookupKept
  <2>6. QED
    BY <2>5 DEF q
<1>3. QED
  BY <1>1, <1>2

(* No step takes an abstract class away from its concrete one, except for a *)
(* rival.                                                                  *)
LEMMA StepKeepsLookups ==
  ASSUME IInv, [Next]_vars
  PROVE  LookupKept(mro', registry')
<1>1. ClassStep \/ UNCHANGED classVars
  BY DEF Next, NewManager, BeginLoad, ContextStep, Read, vars
<1>2. /\ registry \in Classes!CfgRegistryState
      /\ mro \in [Class -> Seq(Class)]
      /\ DOMAIN registry.abstract_lookup = registry.concrete_cfg_classes
  BY DEF IInv, ClassProofs!IInv, ClassProofs!Consistent, ClassProofs!CfgRegistryState,
    Classes!CfgRegistryState, ClassProofs!Dict, Classes!Dict
<1>3. \A c \in Class :
        LET r == Classes!register_abstract(registry, c)
        IN  /\ r \in Classes!CfgRegistryState
            /\ r.concrete_lookup = registry.concrete_lookup
            /\ r.abstract_lookup = registry.abstract_lookup
            /\ r.concrete_cfg_classes = registry.concrete_cfg_classes
  BY <1>2 DEF Classes!register_abstract, Classes!CfgRegistryState
<1>4. ASSUME NEW c \in Class, NEW left, NEW right, Classes!DefineClass(c, left, right)
      PROVE  LookupKept(mro', registry')
  BY <1>3, <1>4 DEF Classes!DefineClass, LookupKept
<1>5. ASSUME NEW c \in Class, NEW ns \in Namespace, Classes!Decorate(c, ns)
      PROVE  LookupKept(mro', registry')
  BY <1>2, <1>5, RegistrationKeepsLookups DEF Classes!Decorate
<1>6. ASSUME NEW c \in Class, NEW d \in Class, NEW ns \in Namespace,
             Classes!DecorateSlots(c, d, ns)
      PROVE  LookupKept(mro', registry')
  <2>1. /\ registry' = Classes!register_concrete(Classes!register_abstract(registry, d),
                                                 d, ns, <<d>> \o Tail(mro[c]))
        /\ mro'[d] = <<d>> \o Tail(mro[c])
    BY <1>2, <1>6 DEF Classes!DecorateSlots
  <2>2. PICK r : r = Classes!register_abstract(registry, d)
    OBVIOUS
  <2>3. /\ r \in Classes!CfgRegistryState
        /\ r.concrete_lookup = registry.concrete_lookup
        /\ r.abstract_lookup = registry.abstract_lookup
        /\ r.concrete_cfg_classes = registry.concrete_cfg_classes
    BY <1>3, <2>2
  <2>4. registry' = Classes!register_concrete(r, d, ns, mro'[d])
    BY <2>1, <2>2
  <2>5. QED
    BY <1>2, <2>3, <2>4, RegistrationKeepsLookups
<1>7. CASE UNCHANGED classVars
  BY <1>7 DEF classVars, LookupKept
<1>8. QED
  BY <1>1, <1>4, <1>5, <1>6, <1>7 DEF ClassStep

(* Only a rival, or a decoration of the abstract class itself, changes what *)
(* a task reads by an abstract class.                                      *)
THEOREM AbstractReadsChange == Spec => AbstractReadsChangeForCause
<1> DEFINE Step ==
      \A t \in Task, c \in Class :
        /\ Reads(t, c)
        /\ ~Classes!is_cfg_cls_xable(c)
        /\ active'[t] = active[t]
        => \/ Reads(t, c)' /\ Asked(c)' = Asked(c)
           \/ \E d \in registry'.concrete_cfg_classes \ registry.concrete_cfg_classes :
                Last(mro'[d]) = c /\ Asked(c)' = d
           \/ Classes!is_cfg_cls_xable(c)'
<1>1. ASSUME IInv, [Next]_vars PROVE Step
  <2> SUFFICES ASSUME NEW t \in Task, NEW c \in Class,
                      Reads(t, c), ~Classes!is_cfg_cls_xable(c), active'[t] = active[t],
                      ~Classes!is_cfg_cls_xable(c)'
               PROVE  \/ Reads(t, c)' /\ Asked(c)' = Asked(c)
                      \/ \E d \in registry'.concrete_cfg_classes \ registry.concrete_cfg_classes :
                           Last(mro'[d]) = c /\ Asked(c)' = d
    OBVIOUS
  <2>1. /\ c \in DOMAIN registry.concrete_lookup
        /\ Asked(c) = registry.concrete_lookup[c]
        /\ Asked(c) \in DOMAIN dicts[active[t]]
    BY DEF Reads, Asked, Contexts!IsLoaded, Classes!Normalizes, Classes!normalize_config_cls
  <2>2. /\ Classes!Normalizes(registry, c)' <=> c \in DOMAIN registry'.concrete_lookup
        /\ Asked(c)' = registry'.concrete_lookup[c]
    BY DEF Asked, Classes!Normalizes, Classes!normalize_config_cls
  <2>3. LookupKept(mro', registry')
    BY <1>1, StepKeepsLookups
  <2>4. CASE registry'.concrete_lookup[c] = registry.concrete_lookup[c]
    <3>1. active[t] \in Ctx
      BY <1>1 DEF IInv, StoreProofs!IInv, StoreProofs!TypeOK
    <3>2. Asked(c) \in DOMAIN dicts'[active'[t]]
      BY <1>1, <2>1, <3>1, NothingForgotten
    <3>3. c \in DOMAIN registry'.concrete_lookup
      BY <2>1, <2>3 DEF LookupKept
    <3>4. Asked(c)' = Asked(c)
      BY <2>1, <2>2, <2>4
    <3>5. QED
      BY <2>2, <3>2, <3>3, <3>4 DEF Reads, Contexts!IsLoaded
  <2>5. CASE \E d \in registry'.concrete_cfg_classes \ registry.concrete_cfg_classes :
                Last(mro'[d]) = c /\ registry'.concrete_lookup[c] = d
    BY <2>2, <2>5
  <2>6. QED
    BY <2>1, <2>3, <2>4, <2>5 DEF LookupKept
<1>2. ASSUME IInv, [Next]_vars PROVE [Step]_vars
  BY <1>1, <1>2
<1>3. QED
  BY <1>2, Inductive, PTL DEF Spec, AbstractReadsChangeForCause

===============================================================================
