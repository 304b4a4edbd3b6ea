----------------------------- MODULE ConfigReading -----------------------------
(***************************************************************************)
(* What a program reads with get_active_cfg() (src_py/configatron/manager.py *)
(* 492-510): the class that it asks for goes through the active registry    *)
(* (Registry.tla), and the concrete class that comes out is looked up in    *)
(* the active config context (ConfigContext.tla).  The two are filled       *)
(* independently, by the definitions of classes and by the loads of the     *)
(* managers that were built from some of those classes, so they can come    *)
(* apart: classes go on being defined after a manager was built and after   *)
(* its configs were loaded.                                                *)
(*                                                                         *)
(* All tasks read in the one registry of the program; registry contexts,    *)
(* which isolate tests from it, are in Registry.tla.                        *)
(***************************************************************************)
EXTENDS Naturals, Sequences, SequencesExt, Dicts

CONSTANTS
  Class, Namespace, Unset,                         (* As in Registry.        *)
  Task, Ctx, DefaultCtx, Version, Active, Idle,    (* As in ConfigContext.   *)
  Manager,   (* Identities of CfgManager objects.                           *)
  Unread,    (* Stands for no read.                                         *)
  MaxArgs    (* Bound: classes passed to a manager.                         *)

ASSUME UnsetAssumption == Unset \notin Namespace
ASSUME DefaultCtxAssumption == DefaultCtx \in Ctx
ASSUME ActiveAssumption == Active \notin Ctx

VARIABLES
  mro, slotted, cfg, registry,                 (* Of Registry.               *)
  dicts, made, active, outer, loads, used,     (* Of ConfigContext.          *)
  managers,  (* [Manager -> a dict from namespaces to classes, cfg_classes,  *)
             (* which is empty before the manager is built]                  *)
  seen       (* What one read of the program, any one, got and when it was;  *)
             (* Unread before it.                                            *)

classVars == <<mro, slotted, cfg, registry>>
contextVars == <<dicts, made, active, outer, loads, used>>
vars == <<classVars, contextVars, managers, seen>>

Classes == INSTANCE Registry WITH outer <- <<>>, MaxDepth <- 0
Contexts == INSTANCE ConfigContext WITH Loadable <- SUBSET Class

-------------------------------------------------------------------------------
Init ==
  /\ Classes!Init
  /\ Contexts!Init
  /\ managers = [m \in Manager |-> EmptyDict]
  /\ seen = Unread

(* getattr(cls, '_configatron_cfg'): the nearest of the class's ancestors.  *)
get_configatron_cfg(c) ==
  LET HasOwn(d) == cfg[d] # Unset
  IN  cfg[mro[c][SelectInSeq(mro[c], HasOwn)]]

(* CfgManager(...): a class that does not normalize, or is not itself the   *)
(* concrete one when it comes to be analyzed, makes the constructor raise.  *)
(* Of the arguments with the same namespace the last one stays.  What the   *)
(* constructor does with the fields is in Construction.tla.                 *)
namespace(c) ==
  get_configatron_cfg(Classes!normalize_config_cls(registry, c).concrete_cls)

cfg_classes(args) ==
  LET With(ns) == {i \in DOMAIN args : namespace(args[i]) = ns}
  IN  [ns \in {namespace(c) : c \in Range(args)} |-> args[Max(With(ns))]]

Analyzable_Unchecked(c) == TRUE

Analyzable(c) == Classes!normalize_config_cls(registry, c).concrete_cls = c

NewManager(m, args) ==
  /\ managers[m] = EmptyDict
  /\ \A c \in Range(args) : Classes!Normalizes(registry, c)
  /\ \A c \in Range(cfg_classes(args)) : Analyzable(c)
  /\ managers' = [managers EXCEPT ![m] = cfg_classes(args)]
  /\ UNCHANGED <<classVars, contextVars, seen>>

(* manager.load_once_sync() or load_once_async().                           *)
BeginLoad(t, m, v, into) ==
  /\ managers[m] # EmptyDict
  /\ Contexts!Begin(t, v, Range(managers[m]), into)
  /\ UNCHANGED <<classVars, managers, seen>>

(* The rest of what happens to classes and contexts.                       *)
ClassStep ==
  /\ \/ \E c \in Class : \E left, right \in Range(mro) \cup {<<>>} :
          Classes!DefineClass(c, left, right)
     \/ \E c \in Class, ns \in Namespace : Classes!Decorate(c, ns)
     \/ \E c, d \in Class, ns \in Namespace : Classes!DecorateSlots(c, d, ns)
  /\ UNCHANGED <<contextVars, managers, seen>>

ContextStep ==
  /\ \/ \E t \in Task, x \in Ctx : Contexts!EnterContext(t, x)
     \/ \E t \in Task : Contexts!ExitContext(t)
     \/ \E t, u \in Task : Contexts!SpawnTask(t, u)
     \/ \E u \in Task : Contexts!StartThread(u)
     \/ \E t \in Task : Contexts!Commit(t)
     \/ \E t \in Task : Contexts!Abandon(t)
  /\ UNCHANGED <<classVars, managers, seen>>

(* get_active_cfg(c) in task t: it raises a KeyError unless the class       *)
(* normalizes, and ConfigNotLoaded unless the concrete class is loaded.     *)
Asked_ByAbstract(c) ==
  registry.concrete_lookup[Classes!normalize_config_cls(registry, c).abstract_cls]

Asked(c) == Classes!normalize_config_cls(registry, c).concrete_cls

Reads(t, c) ==
  Classes!Normalizes(registry, c) /\ Contexts!IsLoaded(t, Asked(c))

get_active_cfg(t, c) ==
  [class |-> Asked(c), load |-> Contexts!get_active_cfg(t, Asked(c))]

(* The loads that have returned or raised.                                  *)
Ended == {v \in used : \A t \in Task : Contexts!IsIdle(t) \/ loads[t].version # v}

(* The program reads.  It may do so any number of times: the one read that  *)
(* is remembered stands for each of them.                                  *)
Read(t, c) ==
  /\ seen = Unread
  /\ Reads(t, c)
  /\ seen' = [cfg |-> get_active_cfg(t, c), ctx |-> active[t], ended |-> Ended]
  /\ UNCHANGED <<classVars, contextVars, managers>>

Next ==
  \/ \E m \in Manager, n \in 1..MaxArgs : \E args \in [1..n -> Class] :
       NewManager(m, args)
  \/ \E t \in Task, m \in Manager, v \in Version, into \in Ctx \cup {Active} :
       BeginLoad(t, m, v, into)
  \/ ClassStep
  \/ ContextStep
  \/ \E t \in Task, c \in Class : Read(t, c)

Spec == Init /\ [][Next]_vars

-------------------------------------------------------------------------------
(* The type invariant.                                                     *)
TypeOK ==
  /\ Classes!TypeOK
  /\ Contexts!TypeOK
  /\ managers \in [Manager -> Dict(Namespace, Class)]
  /\ seen \in {Unread} \cup
       [cfg : [class : Class, load : Version], ctx : Ctx, ended : SUBSET Version]

(* What is loaded can be read: a class that has an instance in the context  *)
(* of a task reads as that instance wherever the active registry knows the  *)
(* class at all, whatever was registered since the manager was built.       *)
LoadedIsReadable ==
  \A t \in Task, c \in Class :
    Contexts!IsLoaded(t, c) /\ Classes!Normalizes(registry, c) =>
      Reads(t, c) /\ get_active_cfg(t, c).class = c

(* Of two reads in one context the later one never goes back, whoever reads *)
(* and whatever was defined, loaded, overtaken by another load or abandoned *)
(* between them: after some config of a manager that shares no class with   *)
(* another was read, all of its configs can be read, by their own or by     *)
(* their abstract classes, and each comes from the load that was read first *)
(* or from one that had not ended by then.                                 *)
ManagedClasses == {Range(managers[m]) : m \in Manager}

ReadersMoveForward ==
  seen # Unread =>
    \A S \in ManagedClasses :
      /\ seen.cfg.class \in S
      /\ \A R \in ManagedClasses : R = S \/ R \cap S = {}
      => \A t \in Task, c \in Class :
           /\ active[t] = seen.ctx
           /\ Classes!Normalizes(registry, c) /\ Asked(c) \in S
           => /\ Reads(t, c)
              /\ get_active_cfg(t, c).load \notin seen.ended \ {seen.cfg.load}

(* A task that has read a registered concrete class by that class can read  *)
(* it again until it moves to another config context: later definitions,    *)
(* refused decorations, rivals and failed loads do not take it away.        *)
ConcreteStaysReadable ==
  [][\A t \in Task : \A c \in registry.concrete_cfg_classes :
       /\ Reads(t, c)
       /\ active'[t] = active[t]
       => Reads(t, c)' /\ get_active_cfg(t, c)'.class = c]_vars

(* A read by the abstract class is less safe.  Two things take its answer   *)
(* away, and nothing else does: a rival, another concrete class that is     *)
(* registered for the abstract one, and a decoration of the abstract class  *)
(* itself, refused or not, after which it counts as a concrete one.  A      *)
(* rival that is refused, a load, and what other tasks do change nothing.   *)
AbstractReadsChangeForCause ==
  [][\A t \in Task, c \in Class :
       /\ Reads(t, c)
       /\ ~Classes!is_cfg_cls_xable(c)
       /\ active'[t] = active[t]
       => \/ Reads(t, c)' /\ Asked(c)' = Asked(c)
          \/ \E d \in registry'.concrete_cfg_classes \ registry.concrete_cfg_classes :
               Last(mro'[d]) = c /\ Asked(c)' = d
          \/ Classes!is_cfg_cls_xable(c)']_vars

===============================================================================
