----------------------------- MODULE ConfigContext -----------------------------
(***************************************************************************)
(* What loading promises to the readers of a config: the config contexts   *)
(* (the _CONFIG_CTX context variable of src_py/configatron/manager.py) as   *)
(* a small transactional store.                                            *)
(*                                                                         *)
(* A context is a dict from concrete config classes to their instances; a   *)
(* task (an async task, or a thread with no event loop) reads the context   *)
(* that is active for it.  A load begins, takes its time, and then either   *)
(* commits an instance of every class of its manager in one step, or is    *)
(* abandoned and leaves no trace.  Here an instance is only the version it  *)
(* belongs to, the identity of the load that made it.                      *)
(*                                                                         *)
(* Loading.tla models how the manager does this, and implements this       *)
(* module.                                                                 *)
(***************************************************************************)
EXTENDS Naturals, Sequences, SequencesExt, Dicts

CONSTANTS
  Task,        (* Async tasks and threads.                                  *)
  Ctx,         (* Identities of context dicts.                              *)
  DefaultCtx,  (* The dict that is the default of _CONFIG_CTX.              *)
  Class,       (* Concrete config classes.                                  *)
  Loadable,    (* The sets of classes that the managers load together.      *)
  Version,     (* Bound: identities of loads, each used for one load.       *)
  Active,      (* Stands for into_ctx=None: load into the active context.   *)
  Idle         (* The load of a task that runs none.                        *)

ASSUME DefaultCtxAssumption == DefaultCtx \in Ctx
ASSUME LoadableAssumption == Loadable \subseteq SUBSET Class
ASSUME ActiveAssumption == Active \notin Ctx

VARIABLES
  dicts,   (* [Ctx -> a dict from classes to versions]                       *)
  made,    (* The context dicts that exist.                                 *)
  active,  (* [Task -> Ctx]: what _CONFIG_CTX.get() returns in the task.     *)
  outer,   (* [Task -> Seq(Ctx)]: what the task's open contexts restore.     *)
  loads,   (* [Task -> the load the task is running]                        *)
  used     (* The versions of the loads begun so far.                       *)

vars == <<dicts, made, active, outer, loads, used>>

-------------------------------------------------------------------------------
Load == [version : Version, classes : Loadable, into : Ctx \cup {Active}]

IsIdle(t) == loads[t] = Idle

(* Where the task's load goes: the active context is looked up when the    *)
(* load commits, not when it begins.                                       *)
Target(t) == IF loads[t].into = Active THEN active[t] ELSE loads[t].into

(* The config instance of a concrete class that a task gets from            *)
(* get_active_cfg(), which raises ConfigNotLoaded when there is none.       *)
IsLoaded(t, c) == c \in DOMAIN dicts[active[t]]
get_active_cfg(t, c) == dicts[active[t]][c]

-------------------------------------------------------------------------------
Init ==
  /\ dicts = [x \in Ctx |-> EmptyDict]
  /\ made = {DefaultCtx}
  /\ active = [t \in Task |-> DefaultCtx]
  /\ outer = [t \in Task |-> <<>>]
  /\ loads = [t \in Task |-> Idle]
  /\ used = {}

(* with create_config_context(): a new, empty dict becomes active ...      *)
EnterContext_NotRemembered(t, x) ==
  /\ IsIdle(t)
  /\ x \notin made
  /\ active' = [active EXCEPT ![t] = x]
  /\ outer' = [outer EXCEPT ![t] = Append(@, active[t])]
  /\ UNCHANGED <<dicts, made, loads, used>>

EnterContext(t, x) ==
  /\ IsIdle(t)
  /\ x \notin made
  /\ made' = made \cup {x}
  /\ active' = [active EXCEPT ![t] = x]
  /\ outer' = [outer EXCEPT ![t] = Append(@, active[t])]
  /\ UNCHANGED <<dicts, loads, used>>

(* ... and the one before it is active again when the block is left.        *)
ExitContext_Merges(t) ==
  /\ IsIdle(t)
  /\ outer[t] # <<>>
  /\ dicts' = [dicts EXCEPT ![Last(outer[t])] = Update(@, dicts[active[t]])]
  /\ active' = [active EXCEPT ![t] = Last(outer[t])]
  /\ outer' = [outer EXCEPT ![t] = Front(@)]
  /\ UNCHANGED <<made, loads, used>>

ExitContext(t) ==
  /\ IsIdle(t)
  /\ outer[t] # <<>>
  /\ active' = [active EXCEPT ![t] = Last(outer[t])]
  /\ outer' = [outer EXCEPT ![t] = Front(@)]
  /\ UNCHANGED <<dicts, made, loads, used>>

(* Task t starts async task u, which gets a copy of t's context variables:  *)
(* the same dict, but none of t's open contexts.  A task that runs nothing  *)
(* and has no open context stands for one that has not started.            *)
SpawnTask(t, u) ==
  /\ t # u
  /\ IsIdle(t) /\ IsIdle(u)
  /\ outer[u] = <<>>
  /\ active' = [active EXCEPT ![u] = active[t]]
  /\ UNCHANGED <<dicts, made, outer, loads, used>>

(* A new thread starts with no context variables set.                      *)
StartThread(u) ==
  /\ IsIdle(u)
  /\ outer[u] = <<>>
  /\ active' = [active EXCEPT ![u] = DefaultCtx]
  /\ UNCHANGED <<dicts, made, outer, loads, used>>

(* A call of load_once_sync() or load_once_async() ...                     *)
Begin(t, v, S, into) ==
  /\ IsIdle(t)
  /\ v \notin used
  /\ into \in made \cup {Active}
  /\ loads' = [loads EXCEPT ![t] = [version |-> v, classes |-> S, into |-> into]]
  /\ used' = used \cup {v}
  /\ UNCHANGED <<dicts, made, active, outer>>

(* ... which returns, having updated one context, ...                      *)
Loaded(t) == [c \in loads[t].classes |-> loads[t].version]

Committed_OneClass(t) ==
  [dicts EXCEPT ![Target(t)] =
     Put(@, CHOOSE c \in loads[t].classes : TRUE, loads[t].version)]

Committed_ReplacesContext(t) == [dicts EXCEPT ![Target(t)] = Loaded(t)]

Committed_BothContexts(t) ==
  [dicts EXCEPT ![Target(t)] = Update(@, Loaded(t)),
                ![active[t]] = Update(@, Loaded(t))]

Committed(t) == [dicts EXCEPT ![Target(t)] = Update(@, Loaded(t))]

Commit(t) ==
  /\ ~IsIdle(t)
  /\ dicts' = Committed(t)
  /\ loads' = [loads EXCEPT ![t] = Idle]
  /\ UNCHANGED <<made, active, outer, used>>

(* ... or raises, having updated none.                                     *)
Abandon(t) ==
  /\ ~IsIdle(t)
  /\ loads' = [loads EXCEPT ![t] = Idle]
  /\ UNCHANGED <<dicts, made, active, outer, used>>

Next ==
  \/ \E t \in Task, x \in Ctx : EnterContext(t, x)
  \/ \E t \in Task : ExitContext(t)
  \/ \E t, u \in Task : SpawnTask(t, u)
  \/ \E u \in Task : StartThread(u)
  \/ \E t \in Task, v \in Version, S \in Loadable, into \in Ctx \cup {Active} :
       Begin(t, v, S, into)
  \/ \E t \in Task : Commit(t)
  \/ \E t \in Task : Abandon(t)

Spec == Init /\ [][Next]_vars

-------------------------------------------------------------------------------
(* The type invariant.                                                     *)
TypeOK ==
  /\ dicts \in [Ctx -> Dict(Class, Version)]
  /\ made \subseteq Ctx
  /\ active \in [Task -> made]
  /\ outer \in [Task -> Seq(made)]
  /\ loads \in [Task -> Load \cup {Idle}]
  /\ used \subseteq Version

(* The classes of S are loaded by managers that load all of S, or nothing  *)
(* of it: no two managers compete for a class of S, the case the docstring *)
(* of CfgManager warns about (manager.py:90-97).                           *)
Uncontested(S) == \A R \in Loadable : R = S \/ R \cap S = {}

(* A reader never sees half a load: in every context the uncontested       *)
(* classes that are loaded together are all absent, or all present and all *)
(* from the same load, whatever loads run at the same time and fail.       *)
WholeLoads ==
  \A x \in Ctx, S \in Loadable : Uncontested(S) =>
    \/ S \cap DOMAIN dicts[x] = {}
    \/ /\ S \subseteq DOMAIN dicts[x]
       /\ \A c, d \in S : dicts[x][c] = dicts[x][d]

(* A load ends up in one context at most: a task that enters or shares     *)
(* contexts never finds the same load's instances in two of them, and a    *)
(* dict that was not created yet has nothing in it.                        *)
OneContextPerLoad ==
  /\ \A x, y \in Ctx : x # y =>
       \A c \in DOMAIN dicts[x], d \in DOMAIN dicts[y] : dicts[x][c] # dicts[y][d]
  /\ \A x \in Ctx \ made : dicts[x] = EmptyDict

(* A class that a task has read stays readable for it until the task itself *)
(* moves to another context, however many loads fail or overlap.           *)
StaysLoaded ==
  [][\A t \in Task, c \in Class :
       /\ IsLoaded(t, c)
       /\ active'[t] = active[t]
       => IsLoaded(t, c)']_vars

===============================================================================
