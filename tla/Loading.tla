------------------------------- MODULE Loading --------------------------------
(***************************************************************************)
(* How a CfgManager loads (load_once_sync(), load_once_async() and          *)
(* _distill_load_results() in src_py/configatron/manager.py), while other   *)
(* tasks load too, the values in the backends change, backends fail, async  *)
(* loads are cancelled and the manager's type coercer is replaced.          *)
(*                                                                         *)
(* A task loads with one manager at a time.  Its steps interleave with      *)
(* those of every other task: async tasks of one event loop interleave      *)
(* less than that, but tasks in other threads do not.                       *)
(*                                                                         *)
(* A backend is what BackendCall.tla says: a call of it returns, for each   *)
(* field it is asked for, a value that the field had in it at some instant  *)
(* during the call, or it raises.  It may answer for other fields, too.     *)
(* The store of the backends has a history of MaxWrites changes.            *)
(***************************************************************************)
EXTENDS Naturals, Sequences, SequencesExt, Dicts

CONSTANTS
  Task, Ctx, DefaultCtx, Class, Active, Idle,   (* As in ConfigContext.     *)
  Manager,       (* CfgManager objects, constructed before the behaviour.   *)
  Backend,       (* Names of backends.                                      *)
  Field,         (* Fields, as the CfgFieldDescs that identify them.        *)
  ClassOf,       (* [Field -> Class]                                        *)
  Defaulted,     (* The fields with a default in their dataclass.           *)
  Managed,       (* [Manager -> Seq(Class)]: the order of cfg_classes.      *)
  Route,         (* [Manager -> [Field -> Seq(Backend)]]: _field_routes.    *)
  KeyspaceOrder, (* [Manager -> Seq(Backend)]: _keyspaces_by_backend.       *)
  Value,         (* Values in backends.                                     *)
  Missing,       (* _MISSING: the backend has no value for the field.       *)
  Fallback,      (* A value that no backend gave: the dataclass's default,  *)
                 (* or what the type coercer supplied.                      *)
  Volunteered,   (* [Backend -> fields that it answers for unasked]          *)
  Unasked,       (* The value that it answers for them.                     *)
  MaxWrites,     (* Bound: changes of the backends' values.                 *)
  MaxLoads       (* Bound: calls of the loaders.                            *)

ASSUME SentinelAssumption == /\ Missing \notin Value
                             /\ Fallback \notin Value \cup {Missing}
                             /\ Unasked \notin Value \cup {Missing, Fallback}
                             /\ Active \notin Ctx

ASSUME ManagerAssumption ==
  /\ ClassOf \in [Field -> Class]
  /\ Managed \in [Manager -> Seq(Class)]
  /\ Route \in [Manager -> [Field -> Seq(Backend)]]
  /\ KeyspaceOrder \in [Manager -> Seq(Backend)]
  /\ Volunteered \in [Backend -> SUBSET Field]
  /\ DefaultCtx \in Ctx

ASSUME BoundAssumption == MaxWrites \in Nat /\ MaxLoads \in Nat

(* _build_routes() puts a backend into the keyspaces exactly when some      *)
(* route has it.                                                           *)
ASSUME KeyspaceAssumption ==
  \A m \in Manager :
    Range(KeyspaceOrder[m]) = UNION {Range(Route[m][f]) : f \in Field}

VARIABLES
  dicts, made, active, outer,   (* As in ConfigContext, but with instances. *)
  load,      (* [Task -> the load the task is running, or Idle]              *)
  coercer,   (* [Manager -> BOOLEAN]: the manager has a type_coercer.        *)
  history,   (* Seq of the backends' values: the last is the current one.   *)
  log        (* Seq of the loads begun: what each began with.               *)

contextVars == <<dicts, made, active, outer>>
vars == <<dicts, made, active, outer, load, coercer, history, log>>

-------------------------------------------------------------------------------
FieldsOf(c) == {f \in Field : ClassOf[f] = c}

(* The fields that manager m asks backend b for.                           *)
Keyspace(m, b) == {f \in Field : b \in Range(Route[m][f])}

(* What is in the backends; a value that no manager asks for is left out.    *)
Asked(b, f) == \E m \in Manager : f \in Keyspace(m, b)

Store ==
  {s \in [Backend -> [Field -> Value \cup {Missing}]] :
     \A b \in Backend, f \in Field : Asked(b, f) \/ s[b][f] = Missing}

(* A config instance, and the load that made it (its number in the log).    *)
Instance == [load : 1..MaxLoads, fields : Dict(Field, Value \cup {Fallback})]

Result == Dict(Field, Value \cup {Missing, Unasked})

IsIdle(t) == load[t] = Idle
InPhase(t, p) == ~IsIdle(t) /\ load[t].phase = p

ManagerOf(t) == log[load[t].id].manager

(* The backends whose call has not returned.                               *)
Pending(t) == Range(KeyspaceOrder[ManagerOf(t)]) \ DOMAIN load[t].results

-------------------------------------------------------------------------------
Init ==
  /\ dicts = [x \in Ctx |-> EmptyDict]
  /\ made = {DefaultCtx}
  /\ active = [t \in Task |-> DefaultCtx]
  /\ outer = [t \in Task |-> <<>>]
  /\ load = [t \in Task |-> Idle]
  /\ coercer \in [Manager -> BOOLEAN]
  /\ history \in {<<s>> : s \in Store}
  /\ log = <<>>

(* The environment: config contexts and tasks, as in ConfigContext.         *)
EnterContext(t, x) ==
  /\ IsIdle(t)
  /\ x \notin made
  /\ made' = made \cup {x}
  /\ active' = [active EXCEPT ![t] = x]
  /\ outer' = [outer EXCEPT ![t] = Append(@, active[t])]
  /\ UNCHANGED <<dicts, load, coercer, history, log>>

ExitContext(t) ==
  /\ IsIdle(t)
  /\ outer[t] # <<>>
  /\ active' = [active EXCEPT ![t] = Last(outer[t])]
  /\ outer' = [outer EXCEPT ![t] = Front(@)]
  /\ UNCHANGED <<dicts, made, load, coercer, history, log>>

SpawnTask(t, u) ==
  /\ t # u
  /\ IsIdle(t) /\ IsIdle(u)
  /\ outer[u] = <<>>
  /\ active' = [active EXCEPT ![u] = active[t]]
  /\ UNCHANGED <<dicts, made, outer, load, coercer, history, log>>

(* A new thread starts with no context variables set.                      *)
StartThread(u) ==
  /\ IsIdle(u)
  /\ outer[u] = <<>>
  /\ active' = [active EXCEPT ![u] = DefaultCtx]
  /\ UNCHANGED <<dicts, made, outer, load, coercer, history, log>>

(* A value of a backend appears, changes or disappears.                     *)
Write(b, f, v) ==
  /\ Len(history) <= MaxWrites
  /\ Asked(b, f)
  /\ Last(history)[b][f] # v
  /\ history' = Append(history, [Last(history) EXCEPT ![b][f] = v])
  /\ UNCHANGED <<contextVars, load, coercer, log>>

(* manager.type_coercer = ...: the one attribute that __setattr__() allows  *)
(* to change after construction.                                           *)
SetCoercer(m, set) ==
  /\ coercer[m] # set
  /\ coercer' = [coercer EXCEPT ![m] = set]
  /\ UNCHANGED <<contextVars, load, history, log>>

-------------------------------------------------------------------------------
(* Reading the backends.                                                   *)

(* load_once_sync() or load_once_async() is called.                        *)
Begin(t, m, async, into) ==
  /\ IsIdle(t)
  /\ Len(log) < MaxLoads
  /\ into \in made \cup {Active}
  /\ log' = Append(log, [manager |-> m, began |-> Len(history)])
  /\ load' = [load EXCEPT ![t] =
       [id |-> Len(log) + 1, async |-> async, into |-> into, phase |-> "reading",
        since |-> Len(history), results |-> EmptyDict,
        todo |-> Managed[m], coerce |-> FALSE, built |-> EmptyDict]]
  /\ UNCHANGED <<contextVars, coercer, history>>

(* The sync loader calls one backend after the other; the async loader runs *)
(* one child task for each, which may return in any order.                  *)
Callable(t) ==
  IF load[t].async
  THEN Pending(t)
  ELSE {b \in Pending(t) :
          \E n \in DOMAIN KeyspaceOrder[ManagerOf(t)] :
            /\ KeyspaceOrder[ManagerOf(t)][n] = b
            /\ \A i \in 1..(n - 1) : KeyspaceOrder[ManagerOf(t)][i] \notin Pending(t)}

(* What a call of b may return, when it began no earlier than since.  The   *)
(* documentation allows values that were not asked for, and has the manager *)
(* ignore them (docs/0100-custom_backends.clc:59).                          *)
Answers(t, b) ==
  {Update([f \in Volunteered[b] |-> Unasked], r) :
     r \in {s \in [Keyspace(ManagerOf(t), b) -> Value \cup {Missing}] :
             \A f \in DOMAIN s :
               \E i \in load[t].since..Len(history) : history[i][b][f] = s[f]}}

(* A backend's load_sync() or load_async() returns.                        *)
Answer(t, b) ==
  /\ InPhase(t, "reading")
  /\ b \in Callable(t)
  /\ \E r \in Answers(t, b) :
       load' = [load EXCEPT ![t].results = Put(@, b, r),
                            ![t].since = IF load[t].async THEN @ ELSE Len(history)]
  /\ UNCHANGED <<contextVars, coercer, history, log>>

(* It raises.  A sync load raises too; an async load first cancels its      *)
(* other child tasks and waits for them.                                   *)
BackendRaises(t, b) ==
  /\ InPhase(t, "reading")
  /\ b \in Callable(t)
  /\ load' = [load EXCEPT ![t] =
       IF load[t].async
       THEN [load[t] EXCEPT !.phase = "unwinding",
                            !.results = Put(load[t].results, b, EmptyDict)]
       ELSE Idle]
  /\ UNCHANGED <<contextVars, coercer, history, log>>

(* The task of an async load is cancelled while it waits for its children.  *)
Cancel(t) ==
  /\ InPhase(t, "reading")
  /\ load[t].async
  /\ load' = [load EXCEPT ![t].phase = "unwinding"]
  /\ UNCHANGED <<contextVars, coercer, history, log>>

(* A cancelled child ends, with an answer that nobody will read or without. *)
ChildEnds(t, b) ==
  /\ InPhase(t, "unwinding")
  /\ b \in Pending(t)
  /\ load' = [load EXCEPT ![t].results = Put(@, b, EmptyDict)]
  /\ UNCHANGED <<contextVars, coercer, history, log>>

(* All children have ended, and the task group raises.                     *)
Unwound(t) ==
  /\ InPhase(t, "unwinding")
  /\ Pending(t) = {}
  /\ load' = [load EXCEPT ![t] = Idle]
  /\ UNCHANGED <<contextVars, coercer, history, log>>

(* All backends have answered: _distill_load_results() is called.           *)
AllAnswered_OneIsEnough(t) == DOMAIN load[t].results # {}

AllAnswered_EveryBackend(t) == DOMAIN load[t].results = Backend

AllAnswered(t) == Pending(t) = {}

Join(t) ==
  /\ InPhase(t, "reading")
  /\ AllAnswered(t)
  /\ load' = [load EXCEPT ![t].phase = "distilling"]
  /\ UNCHANGED <<contextVars, coercer, history, log>>

-------------------------------------------------------------------------------
(* _distill_load_results().                                                *)

(* The index in f's route of the source whose value f takes; 0 for none.   *)
(* A backend whose results are missing altogether is a KeyError; see        *)
(* RoutesAnswered.                                                         *)
Winner_LastSource(t, f) ==
  SelectLastInSeq(Route[ManagerOf(t)][f], LAMBDA b : load[t].results[b][f] # Missing)

Winner(t, f) ==
  SelectInSeq(Route[ManagerOf(t)][f], LAMBDA b : load[t].results[b][f] # Missing)

(* The kwargs of class c: a field without a value is not among them.        *)
Kwargs(t, c) ==
  [f \in {g \in FieldsOf(c) : Winner(t, g) # 0} |->
     load[t].results[Route[ManagerOf(t)][f][Winner(t, f)]][f]]

(* The loop over the classes is done.                                      *)
Finished_InTheMiddle(t) == Len(load[t].todo) <= 1

Finished(t) == load[t].todo = <<>>

(* if self.type_coercer is None: what the load's next class goes through is *)
(* decided here, ...                                                       *)
Decide(t) ==
  /\ InPhase(t, "distilling")
  /\ ~Finished(t)
  /\ load' = [load EXCEPT ![t].phase = "constructing",
                          ![t].coerce = coercer[ManagerOf(t)]]
  /\ UNCHANGED <<contextVars, coercer, history, log>>

Constructed(t, instance) ==
  load' = [load EXCEPT ![t].phase = "distilling",
                       ![t].todo = Tail(@),
                       ![t].built = Put(@, Head(load[t].todo), instance)]

InstanceOf_KeepsMissing(t, c) ==
  [load |-> load[t].id,
   fields |-> Update([f \in FieldsOf(c) |-> Missing], Kwargs(t, c))]

InstanceOf(t, c) ==
  [load |-> load[t].id,
   fields |-> Update([f \in FieldsOf(c) |-> Fallback], Kwargs(t, c))]

(* ... and the constructor is called, which raises a TypeError for a        *)
(* missing field that has no default, ...                                  *)
Lacking(t, c) == FieldsOf(c) \ (DOMAIN Kwargs(t, c) \cup Defaulted)

Construct(t) ==
  /\ InPhase(t, "constructing")
  /\ ~load[t].coerce
  /\ Lacking(t, Head(load[t].todo)) = {}
  /\ Constructed(t, InstanceOf(t, Head(load[t].todo)))
  /\ UNCHANGED <<contextVars, coercer, history, log>>

ConstructRaises(t) ==
  /\ InPhase(t, "constructing")
  /\ ~load[t].coerce
  /\ Lacking(t, Head(load[t].todo)) # {}
  /\ load' = [load EXCEPT ![t] = Idle]
  /\ UNCHANGED <<contextVars, coercer, history, log>>

(* ... or self.type_coercer is, read a second time.  A coercer may reject   *)
(* the values, and may supply a value for a missing field.                 *)
Coerce(t) ==
  /\ InPhase(t, "constructing")
  /\ load[t].coerce
  /\ coercer[ManagerOf(t)]
  /\ Constructed(t, InstanceOf(t, Head(load[t].todo)))
  /\ UNCHANGED <<contextVars, coercer, history, log>>

CoercerRejects(t) ==
  /\ InPhase(t, "constructing")
  /\ load[t].coerce
  /\ coercer[ManagerOf(t)]
  /\ load' = [load EXCEPT ![t] = Idle]
  /\ UNCHANGED <<contextVars, coercer, history, log>>

(* Set to None in between, it is called all the same: a TypeError.          *)
CoercerGone(t) ==
  /\ InPhase(t, "constructing")
  /\ load[t].coerce
  /\ ~coercer[ManagerOf(t)]
  /\ load' = [load EXCEPT ![t] = Idle]
  /\ UNCHANGED <<contextVars, coercer, history, log>>

(* Every class is built: the context is updated and the call returns.       *)
Target(t) == IF load[t].into = Active THEN active[t] ELSE load[t].into

Publish(t) ==
  /\ InPhase(t, "distilling")
  /\ Finished(t)
  /\ dicts' = [dicts EXCEPT ![Target(t)] = Update(@, load[t].built)]
  /\ load' = [load EXCEPT ![t] = Idle]
  /\ UNCHANGED <<made, active, outer, coercer, history, log>>

-------------------------------------------------------------------------------
(* A load's own steps.                                                     *)
Reads(t) ==
  \/ \E b \in Backend : Answer(t, b)
  \/ \E b \in Backend : BackendRaises(t, b)
  \/ \E b \in Backend : ChildEnds(t, b)
  \/ Unwound(t)
  \/ Join(t)

Distills(t) ==
  \/ Decide(t)
  \/ Construct(t)
  \/ ConstructRaises(t)
  \/ Coerce(t)
  \/ CoercerRejects(t)
  \/ CoercerGone(t)
  \/ Publish(t)

Next ==
  \/ \E t \in Task, x \in Ctx : EnterContext(t, x)
  \/ \E t \in Task : ExitContext(t)
  \/ \E t, u \in Task : SpawnTask(t, u)
  \/ \E u \in Task : StartThread(u)
  \/ \E b \in Backend, f \in Field, v \in Value \cup {Missing} : Write(b, f, v)
  \/ \E m \in Manager, set \in BOOLEAN : SetCoercer(m, set)
  \/ \E t \in Task, m \in Manager, async \in BOOLEAN, into \in Ctx \cup {Active} :
       Begin(t, m, async, into)
  \/ \E t \in Task : Cancel(t)
  \/ \E t \in Task : Reads(t)
  \/ \E t \in Task : Distills(t)

Spec == Init /\ [][Next]_vars

(* A backend's call eventually returns or raises, and a task that is in the *)
(* middle of a load eventually goes on.                                    *)
FairSpec ==
  Spec /\ \A t \in Task : WF_vars(Reads(t)) /\ WF_vars(Distills(t))

-------------------------------------------------------------------------------
(* The type invariant.                                                     *)
LoadRecord ==
  [id : 1..MaxLoads, async : BOOLEAN, into : Ctx \cup {Active},
   phase : {"reading", "unwinding", "distilling", "constructing"},
   since : 1..(MaxWrites + 1), results : Dict(Backend, Result),
   todo : Seq(Class), coerce : BOOLEAN, built : Dict(Class, Instance)]

ASSUME IdleAssumption == Idle \notin LoadRecord

TypeOK ==
  /\ dicts \in [Ctx -> Dict(Class, Instance)]
  /\ made \subseteq Ctx
  /\ active \in [Task -> made]
  /\ outer \in [Task -> Seq(made)]
  /\ load \in [Task -> LoadRecord \cup {Idle}]
  /\ coercer \in [Manager -> BOOLEAN]
  /\ history \in Seq(Store) \ {<<>>}
  /\ log \in Seq([manager : Manager, began : 1..(MaxWrites + 1)])

(* When the results are distilled, every backend of every route has         *)
(* answered for the field: results_by_backend[source.backend] is never a    *)
(* KeyError, however many children were cancelled or failed.                *)
RoutesAnswered ==
  \A t \in Task : InPhase(t, "distilling") \/ InPhase(t, "constructing") =>
    \A f \in Field : ClassOf[f] \in Range(Managed[ManagerOf(t)]) =>
      \A b \in Range(Route[ManagerOf(t)][f]) :
        /\ b \in DOMAIN load[t].results
        /\ f \in DOMAIN load[t].results[b]

Visible(b, f, v, from) == \E i \in from..Len(history) : history[i][b][f] = v

(* The field's value comes from a source that had it during the load, when  *)
(* each source before that one in the route had none; if it comes from no  *)
(* source, each of them had none.                                          *)
Justified(instance, f) ==
  LET began == log[instance.load].began
      route == Route[log[instance.load].manager][f]
      value == instance.fields[f]
      LackedUntil(n) == \A i \in 1..n : Visible(route[i], f, Missing, began)
  IN  \/ value = Fallback /\ LackedUntil(Len(route))
      \/ \E n \in DOMAIN route :
           Visible(route[n], f, value, began) /\ LackedUntil(n - 1)

(* Every value that a load publishes was the one that precedence selects,   *)
(* as far as values that change during the load let one tell: it is neither *)
(* older than the call of the loader nor shadowed by an earlier source.     *)
PublishedWasVisible ==
  [][\A x \in Ctx : \A c \in DOMAIN dicts'[x] :
       \/ c \in DOMAIN dicts[x] /\ dicts'[x][c] = dicts[x][c]
       \/ \A f \in FieldsOf(c) : Justified(dicts[x][c], f)']_vars

(* Loads commit as a whole or not at all: the loader implements the store   *)
(* of ConfigContext, where an instance is the load that made it.           *)
Contexts == INSTANCE ConfigContext WITH
  Loadable <- {Range(Managed[m]) : m \in Manager},
  Version <- 1..MaxLoads,
  dicts <- [x \in Ctx |-> [c \in DOMAIN dicts[x] |-> dicts[x][c].load]],
  loads <- [t \in Task |->
              IF IsIdle(t) THEN Idle
              ELSE [version |-> load[t].id,
                    classes |-> Range(Managed[ManagerOf(t)]),
                    into |-> load[t].into]],
  used <- DOMAIN log

ASSUME IdleLoadAssumption == Idle \notin Contexts!Load

ImplementsContexts == Contexts!Spec

(* A load that was begun ends: it publishes or raises, whatever the other  *)
(* tasks do, and even if a child of it failed or the task was cancelled.   *)
LoadsEnd == \A t \in Task : ~IsIdle(t) ~> IsIdle(t)

-------------------------------------------------------------------------------
(* What the documentation says of loading and the code does not do.        *)

(* manager.py:106 says that type_coercer can be updated after the manager's *)
(* creation, and set to None to remove it.  A load that is between the test *)
(* for None and the call then calls None.                                  *)
RemovalIsSafe == [][\A t \in Task : ~CoercerGone(t)]_vars

===============================================================================
