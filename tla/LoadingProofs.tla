----------------------------- MODULE LoadingProofs -----------------------------
(***************************************************************************)
(* Proofs about Loading.tla, for any tasks, contexts, managers, backends,   *)
(* fields and values, any routes, and any number of loads and changes.      *)
(*                                                                         *)
(* None of the properties is inductive: what a load will publish is decided *)
(* many steps before, so the invariant says of every running load what its  *)
(* results and the instances that it has built are, relative to the loads   *)
(* begun and to the history of the backends, which only grow.               *)
(***************************************************************************)
EXTENDS Loading, DictProofs

(* The loads and the changes are within their bounds, and no load began in  *)
(* the future.                                                             *)
Bounded ==
  /\ Len(log) <= MaxLoads
  /\ Len(history) <= MaxWrites + 1
  /\ \A i \in DOMAIN log : log[i].began <= Len(history)

(* A running load was begun, and goes to a context that exists.             *)
Placed(t) ==
  /\ load[t].id \in DOMAIN log
  /\ load[t].into \in made \cup {Active}
  /\ log[load[t].id].began <= load[t].since
  /\ load[t].since <= Len(history)

(* Nothing is distilled before every backend has answered, and nothing      *)
(* constructed when all classes are built.                                 *)
InOrder(t) ==
  /\ load[t].phase \in {"distilling", "constructing"} => Pending(t) = {}
  /\ load[t].phase = "constructing" => load[t].todo # <<>>

(* Unless the load is given up: a backend that answered did so for every    *)
(* field it was asked for, with a value that was in it during the load.     *)
Answered(t) ==
  load[t].phase # "unwinding" =>
    \A b \in DOMAIN load[t].results : \A f \in Keyspace(ManagerOf(t), b) :
      /\ f \in DOMAIN load[t].results[b]
      /\ Visible(b, f, load[t].results[b][f], log[load[t].id].began)

(* The classes of the manager are built or yet to be built, and what is     *)
(* built carries the load's number and values that precedence justifies.    *)
Built(t) ==
  /\ Range(Managed[ManagerOf(t)]) = DOMAIN load[t].built \cup Range(load[t].todo)
  /\ \A c \in DOMAIN load[t].built :
       /\ load[t].built[c].load = load[t].id
       /\ \A f \in FieldsOf(c) : Justified(load[t].built[c], f)

LoadOK(t) == Placed(t) /\ InOrder(t) /\ Answered(t) /\ Built(t)

IInv ==
  /\ TypeOK
  /\ DefaultCtx \in made
  /\ Bounded
  /\ \A t \in Task : ~IsIdle(t) => LoadOK(t)

-------------------------------------------------------------------------------
(* The types that the proofs below keep needing.                           *)
LEMMA Types ==
  ASSUME IInv
  PROVE  /\ load \in [Task -> LoadRecord \cup {Idle}]
         /\ log \in Seq([manager : Manager, began : 1..(MaxWrites + 1)])
         /\ history \in Seq(Store) /\ Len(history) \in Nat /\ Len(history) > 0
         /\ DOMAIN history = 1..Len(history)
         /\ \A i \in DOMAIN history : history[i] \in Store
         /\ Len(log) \in Nat /\ DOMAIN log = 1..Len(log)
         /\ \A i \in DOMAIN log : log[i].manager \in Manager /\ log[i].began \in Nat \ {0}
         /\ coercer \in [Manager -> BOOLEAN]
         /\ made \subseteq Ctx
<1>1. TypeOK
  BY DEF IInv
<1> DEFINE Entry == [manager : Manager, began : 1..(MaxWrites + 1)]
<1>5. log \in Seq(Entry)
  BY <1>1 DEF TypeOK
<1> HIDE DEF Entry
<1>2. \A i \in DOMAIN log : log[i] \in Entry
  BY <1>5
<1>3. \A i \in DOMAIN log : log[i].manager \in Manager /\ log[i].began \in Nat \ {0}
  BY <1>2, BoundAssumption DEF Entry
<1>4. QED
  BY <1>1, <1>3 DEF TypeOK

(* A running load is a load, of a manager.                                 *)
LEMMA RunningLoad ==
  ASSUME IInv, NEW t \in Task, ~IsIdle(t)
  PROVE  /\ load[t] \in LoadRecord
         /\ LoadOK(t)
         /\ load[t].id \in DOMAIN log
         /\ ManagerOf(t) \in Manager
         /\ log[load[t].id].began \in 1..Len(history)
<1>1. load[t] \in LoadRecord /\ LoadOK(t)
  BY Types DEF IInv, IsIdle
<1>2. load[t].id \in DOMAIN log
  BY <1>1 DEF LoadOK, Placed
<1>3. log[load[t].id].manager \in Manager /\ log[load[t].id].began \in Nat \ {0}
  BY <1>2, Types
<1>4. log[load[t].id].began <= Len(history)
  BY <1>2 DEF IInv, Bounded
<1>5. QED
  BY <1>1, <1>2, <1>3, <1>4, Types DEF ManagerOf

(* What a step may not do to the loads begun, the history and the contexts. *)
NothingForgotten ==
  /\ \A i \in DOMAIN log : i \in DOMAIN log' /\ log'[i] = log[i]
  /\ Len(history) <= Len(history')
  /\ \A i \in 1..Len(history) : history'[i] = history[i]
  /\ made \subseteq made'

(* A value that was visible stays visible: the history only grows.          *)
LEMMA StaysVisible ==
  ASSUME IInv, NothingForgotten, Len(history') \in Nat,
         NEW b, NEW f, NEW v, NEW from \in Nat \ {0}, Visible(b, f, v, from)
  PROVE  Visible(b, f, v, from)'
<1>1. PICK i \in from..Len(history) : history[i][b][f] = v
  BY DEF Visible
<1>2. i \in 1..Len(history) /\ i \in from..Len(history')
  BY Types DEF NothingForgotten
<1>3. history'[i] = history[i]
  BY <1>2 DEF NothingForgotten
<1>4. QED
  BY <1>1, <1>2, <1>3 DEF Visible

(* A value that precedence justified stays justified.                      *)
LEMMA StaysJustified ==
  ASSUME IInv, NothingForgotten, Len(history') \in Nat,
         NEW instance, instance.load \in DOMAIN log,
         NEW f \in Field, Justified(instance, f)
  PROVE  Justified(instance, f)'
<1>1. log'[instance.load] = log[instance.load]
  BY DEF NothingForgotten
<1>2. log[instance.load].began \in Nat \ {0}
  BY Types
<1>3. \A b, v : \A from \in Nat \ {0} : Visible(b, f, v, from) => Visible(b, f, v, from)'
  BY StaysVisible
<1>4. PICK r, k : r = Route[log[instance.load].manager][f] /\ k = log[instance.load].began
  OBVIOUS
<1> DEFINE Lacked(n) == \A i \in 1..n : Visible(r[i], f, Missing, k)
           Had(n) == Visible(r[n], f, instance.fields[f], k)
<1>5. \/ instance.fields[f] = Fallback /\ Lacked(Len(r))
      \/ \E n \in DOMAIN r : Had(n) /\ Lacked(n - 1)
  BY <1>4 DEF Justified
<1>6. \A n : (Lacked(n) => Lacked(n)') /\ (Had(n) => Had(n)')
  BY <1>2, <1>3, <1>4
<1>7. \/ instance.fields[f] = Fallback /\ Lacked(Len(r))'
      \/ \E n \in DOMAIN r : Had(n)' /\ Lacked(n - 1)'
  <2> HIDE DEF Lacked, Had
  <2>1. QED
    BY <1>5, <1>6
<1>8. /\ Route[log'[instance.load].manager][f] = r
      /\ log'[instance.load].began = k
  BY <1>1, <1>4
<1>9. CASE instance.fields[f] = Fallback /\ Lacked(Len(r))'
  BY <1>8, <1>9 DEF Justified, Visible
<1>10. CASE \E n \in DOMAIN r : Had(n)' /\ Lacked(n - 1)'
  BY <1>8, <1>10 DEF Justified, Visible
<1>11. QED
  BY <1>7, <1>9, <1>10

(* A load that a step leaves alone stays as it should be.                  *)
LEMMA Kept ==
  ASSUME IInv, NothingForgotten, Len(history') \in Nat,
         NEW t \in Task, ~IsIdle(t), load'[t] = load[t]
  PROVE  LoadOK(t)'
<1>1. /\ LoadOK(t) /\ load[t].id \in DOMAIN log /\ load[t] \in LoadRecord
      /\ log[load[t].id].began \in Nat \ {0}
  BY RunningLoad, Types
<1>2. load[t].id \in DOMAIN log' /\ log'[load[t].id] = log[load[t].id]
  BY <1>1 DEF NothingForgotten
<1>3. ManagerOf(t)' = ManagerOf(t)
  BY <1>2 DEF ManagerOf
<1>4. Placed(t)'
  <2>1. load[t].since \in Nat
    BY <1>1, BoundAssumption DEF LoadRecord
  <2>2. QED
    BY <1>1, <1>2, <2>1, Types DEF LoadOK, Placed, NothingForgotten
<1>5. InOrder(t)'
  BY <1>1, <1>3 DEF LoadOK, InOrder, Pending
<1>6. Answered(t)'
  BY <1>1, <1>2, <1>3, StaysVisible DEF LoadOK, Answered, Keyspace
<1>7. Built(t)'
  <2>1. \A c \in DOMAIN load[t].built : \A f \in FieldsOf(c) : Justified(load[t].built[c], f)'
    BY <1>1, StaysJustified DEF LoadOK, Built, FieldsOf
  <2>2. QED
    BY <1>1, <1>3, <2>1 DEF LoadOK, Built
<1>8. QED
  BY <1>4, <1>5, <1>6, <1>7 DEF LoadOK

-------------------------------------------------------------------------------
(* One lemma for every kind of step.                                       *)

(* At first no task loads and nothing is loaded.                           *)
LEMMA LoadingInit == Init => IInv
<1> SUFFICES ASSUME Init PROVE IInv
  OBVIOUS
<1>1. EmptyDict \in Dict(Class, Instance)
  BY EmptyType
<1>2. PICK s \in Store : history = <<s>>
  BY DEF Init
<1>3. history \in Seq(Store) \ {<<>>} /\ Len(history) = 1
  BY <1>2
<1>4. log = <<>> /\ log \in Seq([manager : Manager, began : 1..(MaxWrites + 1)])
  BY DEF Init
<1>5. TypeOK
  BY <1>1, <1>3, <1>4, ManagerAssumption DEF Init, TypeOK
<1>6. Bounded
  BY <1>3, <1>4, BoundAssumption DEF Bounded
<1>7. QED
  BY <1>5, <1>6 DEF Init, IInv, IsIdle

(* A step that leaves the loads, the log and the history alone.             *)
LEMMA ContextStep ==
  ASSUME IInv, TypeOK', made \subseteq made', UNCHANGED <<load, history, log>>
  PROVE  IInv'
<1>1. NothingForgotten /\ Len(history') \in Nat
  BY Types DEF NothingForgotten
<1>2. \A t \in Task : ~IsIdle(t)' => LoadOK(t)'
  BY <1>1, Kept DEF IsIdle
<1>3. Bounded'
  BY DEF IInv, Bounded
<1>4. QED
  BY <1>2, <1>3 DEF IInv

(* A task enters a context.                                                *)
LEMMA EnterStep ==
  ASSUME IInv, NEW t \in Task, NEW x \in Ctx, EnterContext(t, x)
  PROVE  IInv'
<1>1. /\ made' = made \cup {x}
      /\ active' = [active EXCEPT ![t] = x]
      /\ outer' = [outer EXCEPT ![t] = Append(@, active[t])]
      /\ UNCHANGED <<dicts, load, coercer, history, log>>
  BY DEF EnterContext
<1>2. /\ active \in [Task -> made] /\ outer \in [Task -> Seq(made)]
      /\ made \subseteq Ctx
  BY DEF IInv, TypeOK
<1>3. active' \in [Task -> made']
  BY <1>1, <1>2
<1>4. \A u \in Task : outer[u] \in Seq(made')
  BY <1>1, <1>2
<1>5. Append(outer[t], active[t]) \in Seq(made')
  BY <1>4, <1>1, <1>2
<1>6. outer' \in [Task -> Seq(made')]
  BY <1>1, <1>2, <1>4, <1>5
<1>7. TypeOK'
  BY <1>1, <1>2, <1>3, <1>6 DEF IInv, TypeOK
<1>8. QED
  BY <1>1, <1>7, ContextStep

(* A task leaves the block of a context.                                   *)
LEMMA ExitStep ==
  ASSUME IInv, NEW t \in Task, ExitContext(t)
  PROVE  IInv'
<1>1. /\ outer[t] # <<>>
      /\ active' = [active EXCEPT ![t] = outer[t][Len(outer[t])]]
      /\ outer' = [outer EXCEPT ![t] = Front(outer[t])]
      /\ UNCHANGED <<dicts, made, load, coercer, history, log>>
  BY DEF ExitContext, Last
<1>2. active \in [Task -> made] /\ outer \in [Task -> Seq(made)]
  BY DEF IInv, TypeOK
<1>3. outer[t][Len(outer[t])] \in made
  BY <1>1, <1>2
<1>4. Front(outer[t]) \in Seq(made)
  BY <1>1, <1>2, FrontFacts
<1>5. active' \in [Task -> made] /\ outer' \in [Task -> Seq(made)]
  BY <1>1, <1>2, <1>3, <1>4
<1>6. TypeOK'
  BY <1>1, <1>5 DEF IInv, TypeOK
<1>7. QED
  BY <1>1, <1>6, ContextStep

(* A task or a thread starts.                                              *)
LEMMA StartStep ==
  ASSUME IInv, NEW u \in Task, NEW x \in made,
         active' = [active EXCEPT ![u] = x],
         UNCHANGED <<dicts, made, outer, load, coercer, history, log>>
  PROVE  IInv'
<1>1. TypeOK'
  BY DEF IInv, TypeOK
<1>2. QED
  BY <1>1, ContextStep

(* The manager's coercer is set or removed.                                *)
LEMMA SetCoercerStep ==
  ASSUME IInv, NEW m \in Manager, NEW set \in BOOLEAN, SetCoercer(m, set)
  PROVE  IInv'
<1>1. /\ coercer' = [coercer EXCEPT ![m] = set]
      /\ UNCHANGED <<dicts, made, active, outer, load, history, log>>
  BY DEF SetCoercer, contextVars
<1>2. TypeOK'
  BY <1>1 DEF IInv, TypeOK
<1>3. QED
  BY <1>1, <1>2, ContextStep

(* A value in a backend changes: what was visible stays so.                 *)
LEMMA WriteStep ==
  ASSUME IInv, NEW b \in Backend, NEW f \in Field, NEW v \in Value \cup {Missing},
         Write(b, f, v)
  PROVE  IInv'
<1> DEFINE s == [history[Len(history)] EXCEPT ![b][f] = v]
<1>1. /\ Len(history) <= MaxWrites /\ Asked(b, f)
      /\ history' = Append(history, s)
      /\ UNCHANGED <<dicts, made, active, outer, load, coercer, log>>
  BY DEF Write, contextVars, Last
<1>2. history \in Seq(Store) /\ Len(history) \in Nat /\ Len(history) > 0
  BY Types
<1>3. history[Len(history)] \in Store
  BY <1>2
<1>4. s \in Store
  BY <1>1, <1>3 DEF Store
<1> HIDE DEF s
<1>5. /\ history' \in Seq(Store) \ {<<>>} /\ Len(history') = Len(history) + 1
      /\ \A i \in 1..Len(history) : history'[i] = history[i]
  BY <1>1, <1>2, <1>4
<1>6. NothingForgotten /\ Len(history') \in Nat
  BY <1>1, <1>2, <1>5 DEF NothingForgotten
<1>7. TypeOK'
  BY <1>1, <1>5 DEF IInv, TypeOK
<1>8. Bounded'
  BY <1>1, <1>2, <1>5, Types, BoundAssumption DEF IInv, Bounded
<1>9. \A t \in Task : ~IsIdle(t)' => LoadOK(t)'
  BY <1>1, <1>6, Kept DEF IsIdle
<1>10. QED
  BY <1>1, <1>7, <1>8, <1>9 DEF IInv

(* A load that goes on in its task, and nothing else changes.               *)
LEMMA LoadStep ==
  ASSUME IInv, NEW t \in Task, NEW l \in LoadRecord \cup {Idle},
         load' = [load EXCEPT ![t] = l],
         UNCHANGED <<contextVars, coercer, history, log>>,
         l # Idle => LoadOK(t)'
  PROVE  IInv'
<1>1. load' \in [Task -> LoadRecord \cup {Idle}] /\ load'[t] = l
  BY Types
<1>2. \A u \in Task : u # t => load'[u] = load[u]
  BY Types
<1>3. TypeOK'
  BY <1>1 DEF IInv, TypeOK, contextVars
<1>4. NothingForgotten /\ Len(history') \in Nat
  BY Types DEF NothingForgotten, contextVars
<1>5. \A u \in Task : ~IsIdle(u)' => LoadOK(u)'
  BY <1>1, <1>2, <1>4, Kept DEF IsIdle
<1>6. QED
  BY <1>3, <1>5 DEF IInv, Bounded, contextVars

(* A loader is called: it has no results yet, and every class to build.     *)
LEMMA BeginStep ==
  ASSUME IInv, NEW t \in Task, NEW m \in Manager, NEW async \in BOOLEAN,
         NEW into \in Ctx \cup {Active}, Begin(t, m, async, into)
  PROVE  IInv'
<1> DEFINE e == [manager |-> m, began |-> Len(history)]
           l == [id |-> Len(log) + 1, async |-> async, into |-> into, phase |-> "reading",
                 since |-> Len(history), results |-> EmptyDict,
                 todo |-> Managed[m], coerce |-> FALSE, built |-> EmptyDict]
<1>1. /\ Len(log) < MaxLoads /\ into \in made \cup {Active}
      /\ log' = Append(log, e)
      /\ load' = [load EXCEPT ![t] = l]
      /\ UNCHANGED <<dicts, made, active, outer, coercer, history>>
  BY DEF Begin, contextVars
<1>2. Len(history) \in 1..(MaxWrites + 1) /\ Len(log) + 1 \in 1..MaxLoads
  BY <1>1, Types, BoundAssumption DEF IInv, Bounded
<1>3. EmptyDict \in Dict(Backend, Result) /\ EmptyDict \in Dict(Class, Instance)
      /\ DOMAIN EmptyDict = {}
  BY EmptyType
<1>4. l \in LoadRecord
  BY <1>2, <1>3, ManagerAssumption DEF LoadRecord
<1>5. e \in [manager : Manager, began : 1..(MaxWrites + 1)]
  BY <1>2
<1>6. /\ log' \in Seq([manager : Manager, began : 1..(MaxWrites + 1)])
      /\ Len(log') = Len(log) + 1 /\ DOMAIN log' = 1..(Len(log) + 1)
      /\ log'[Len(log) + 1] = e
      /\ \A i \in DOMAIN log : log'[i] = log[i] /\ i \in DOMAIN log'
  <2>1. log \in Seq([manager : Manager, began : 1..(MaxWrites + 1)])
    BY Types
  <2> HIDE DEF e
  <2>2. QED
    BY <1>1, <1>5, <2>1
<1>7. load'[t] = l /\ load' \in [Task -> LoadRecord \cup {Idle}]
      /\ \A u \in Task : u # t => load'[u] = load[u]
  BY <1>1, <1>4, Types
<1>8. NothingForgotten /\ Len(history') \in Nat
  BY <1>1, <1>6, Types DEF NothingForgotten
<1>9. LoadOK(t)'
  <2>1. ManagerOf(t)' = m
    BY <1>6, <1>7 DEF ManagerOf
  <2>2. Placed(t)'
    BY <1>1, <1>2, <1>6, <1>7 DEF Placed
  <2>3. InOrder(t)' /\ Answered(t)'
    BY <1>3, <1>7 DEF InOrder, Answered
  <2>4. Built(t)'
    BY <1>3, <1>7, <2>1 DEF Built
  <2>5. QED
    BY <2>2, <2>3, <2>4 DEF LoadOK
<1>10. \A u \in Task : ~IsIdle(u)' => LoadOK(u)'
  BY <1>7, <1>8, <1>9, Kept DEF IsIdle
<1>11. TypeOK'
  BY <1>1, <1>6, <1>7 DEF IInv, TypeOK
<1>12. Bounded'
  <2>1. \A i \in DOMAIN log' : i \in DOMAIN log \/ i = Len(log) + 1
    BY <1>6, Types
  <2>2. QED
    BY <1>1, <1>2, <1>6, <2>1, Types DEF IInv, Bounded
<1>13. QED
  BY <1>1, <1>10, <1>11, <1>12 DEF IInv

(* A load goes on as the load that it is, and nothing else changes ...       *)
Proceeds(t) ==
  /\ ~IsIdle(t)
  /\ \E l \in LoadRecord :
       /\ load' = [load EXCEPT ![t] = l]
       /\ l.id = load[t].id
       /\ l.into = load[t].into
  /\ UNCHANGED <<contextVars, coercer, history, log>>

(* ... or is over, having changed nothing.                                 *)
Ends(t) ==
  /\ ~IsIdle(t)
  /\ load' = [load EXCEPT ![t] = Idle]
  /\ UNCHANGED <<contextVars, coercer, history, log>>

(* A load goes on with what it has built and has to build.  What is left to *)
(* show is about its phase and its results.                                *)
LEMMA GoesOn ==
  ASSUME IInv, NEW t \in Task, ~IsIdle(t), NEW l \in LoadRecord,
         load' = [load EXCEPT ![t] = l],
         UNCHANGED <<contextVars, coercer, history, log>>,
         l.id = load[t].id, l.into = load[t].into,
         l.todo = load[t].todo, l.built = load[t].built,
         log[load[t].id].began <= l.since, l.since <= Len(history),
         l.phase \in {"distilling", "constructing"} =>
           Range(KeyspaceOrder[ManagerOf(t)]) \subseteq DOMAIN l.results,
         l.phase = "constructing" => l.todo # <<>>,
         l.phase # "unwinding" =>
           \A b \in DOMAIN l.results : \A f \in Keyspace(ManagerOf(t), b) :
             /\ f \in DOMAIN l.results[b]
             /\ Visible(b, f, l.results[b][f], log[load[t].id].began)
  PROVE  IInv' /\ Proceeds(t)
<1>1. /\ load[t] \in LoadRecord /\ LoadOK(t) /\ load[t].id \in DOMAIN log
      /\ load'[t] = l
  BY RunningLoad, Types
<1>2. history' = history /\ log' = log /\ made' = made
  BY DEF contextVars
<1>3. ManagerOf(t)' = ManagerOf(t)
  BY <1>1, <1>2 DEF ManagerOf
<1>4. Placed(t)'
  BY <1>1, <1>2 DEF LoadOK, Placed
<1>5. InOrder(t)'
  BY <1>1, <1>3 DEF InOrder, Pending
<1>6. Answered(t)'
  BY <1>1, <1>2, <1>3 DEF Answered, Visible
<1>7. Built(t)'
  <2>1. NothingForgotten /\ Len(history') \in Nat
    BY <1>2, Types DEF NothingForgotten
  <2>2. \A c \in DOMAIN l.built : \A f \in FieldsOf(c) : Justified(l.built[c], f)'
    BY <1>1, <2>1, StaysJustified DEF LoadOK, Built, FieldsOf
  <2>3. QED
    BY <1>1, <1>3, <2>2 DEF LoadOK, Built
<1>8. LoadOK(t)'
  BY <1>4, <1>5, <1>6, <1>7 DEF LoadOK
<1>9. IInv'
  BY <1>8, LoadStep
<1>10. QED
  BY <1>9 DEF Proceeds

(* A backend answers: for the fields it was asked for it gives values that  *)
(* were in it during the call, whatever it volunteers besides.             *)
LEMMA AnswerStep ==
  ASSUME IInv, NEW t \in Task, NEW b \in Backend, Answer(t, b)
  PROVE  IInv' /\ Proceeds(t)
<1> DEFINE m == ManagerOf(t)
           began == log[load[t].id].began
<1>1. PICK r \in Answers(t, b) :
        load' = [load EXCEPT ![t].results = Put(@, b, r),
                             ![t].since = IF load[t].async THEN @ ELSE Len(history)]
  BY DEF Answer
<1>2. /\ InPhase(t, "reading") /\ ~IsIdle(t) /\ load[t].phase = "reading"
      /\ UNCHANGED <<contextVars, coercer, history, log>>
  BY DEF Answer, InPhase
<1>3. /\ load[t] \in LoadRecord /\ LoadOK(t) /\ m \in Manager
      /\ began \in 1..Len(history)
  BY <1>2, RunningLoad
<1> DEFINE l == [load[t] EXCEPT !.results = Put(load[t].results, b, r),
                                !.since = IF load[t].async THEN @ ELSE Len(history)]
<1>4. load' = [load EXCEPT ![t] = l]
  BY <1>1, Types
<1>5. PICK s \in [Keyspace(m, b) -> Value \cup {Missing}] :
        /\ r = Update([f \in Volunteered[b] |-> Unasked], s)
        /\ \A f \in Keyspace(m, b) :
             \E i \in load[t].since..Len(history) : history[i][b][f] = s[f]
  BY DEF Answers
<1>6. r \in Result
  <2>1. [f \in Volunteered[b] |-> Unasked] \in Dict(Field, Value \cup {Missing, Unasked})
    BY ManagerAssumption DEF Dict
  <2>2. s \in Dict(Field, Value \cup {Missing, Unasked})
    <3>1. s \in [Keyspace(m, b) -> Value \cup {Missing, Unasked}]
      OBVIOUS
    <3>2. Keyspace(m, b) \in SUBSET Field
      BY DEF Keyspace
    <3>3. QED
      BY <3>1, <3>2, DictIntro
  <2>3. QED
    BY <1>5, <2>1, <2>2, UpdateType DEF Result
<1>7. \A f \in Keyspace(m, b) : f \in DOMAIN r /\ r[f] = s[f]
  BY <1>5 DEF Update
<1>8. load[t].since \in Nat /\ load[t].since \in began..Len(history)
      /\ Len(history) \in 1..(MaxWrites + 1)
  BY <1>3, Types, BoundAssumption DEF LoadOK, Placed, LoadRecord, IInv, Bounded
<1>9. \A f \in Keyspace(m, b) : Visible(b, f, r[f], began)
  <2>1. TAKE f \in Keyspace(m, b)
  <2>2. PICK i \in load[t].since..Len(history) : history[i][b][f] = s[f]
    BY <1>5
  <2>3. i \in began..Len(history)
    BY <1>3, <1>8
  <2>4. QED
    BY <1>7, <2>2, <2>3 DEF Visible
<1>10. load[t].results \in Dict(Backend, Result)
  BY <1>3 DEF LoadRecord
<1>11. Put(load[t].results, b, r) \in Dict(Backend, Result)
  BY <1>6, <1>10, PutType
<1>12. l \in LoadRecord
  BY <1>3, <1>8, <1>11 DEF LoadRecord
<1>13. /\ load'[t] = l /\ l.id = load[t].id /\ l.into = load[t].into
       /\ l.phase = "reading" /\ l.todo = load[t].todo /\ l.built = load[t].built
       /\ l.results = Put(load[t].results, b, r)
       /\ began <= l.since /\ l.since <= Len(history)
  BY <1>2, <1>3, <1>4, <1>8, Types DEF LoadRecord
<1> HIDE DEF l
<1>14. \A d \in DOMAIN l.results : \A f \in Keyspace(m, d) :
         f \in DOMAIN l.results[d] /\ Visible(d, f, l.results[d][f], began)
  <2>1. \A d \in DOMAIN l.results :
          d = b \/ (d \in DOMAIN load[t].results /\ l.results[d] = load[t].results[d])
    BY <1>13 DEF Put
  <2>2. l.results[b] = r
    BY <1>13 DEF Put
  <2>3. QED
    BY <1>2, <1>3, <1>7, <1>9, <2>1, <2>2 DEF LoadOK, Answered
<1>15. QED
  BY <1>2, <1>4, <1>12, <1>13, <1>14, GoesOn

(* A load that is over leaves nothing behind.                              *)
LEMMA EndStep ==
  ASSUME IInv, NEW t \in Task, Ends(t)
  PROVE  IInv'
  BY LoadStep DEF Ends

(* A load that is given up: nothing is asked of its results any more.       *)
LEMMA UnwindStep ==
  ASSUME IInv, NEW t \in Task, ~IsIdle(t),
         NEW r \in Dict(Backend, Result),
         load' = [load EXCEPT ![t] = [load[t] EXCEPT !.phase = "unwinding", !.results = r]],
         UNCHANGED <<contextVars, coercer, history, log>>
  PROVE  IInv' /\ Proceeds(t)
<1> DEFINE l == [load[t] EXCEPT !.phase = "unwinding", !.results = r]
<1>1. load[t] \in LoadRecord /\ LoadOK(t)
  BY RunningLoad
<1>2. /\ l \in LoadRecord /\ l.id = load[t].id /\ l.into = load[t].into
      /\ l.todo = load[t].todo /\ l.built = load[t].built
      /\ l.since = load[t].since /\ l.phase = "unwinding"
  BY <1>1 DEF LoadRecord
<1> HIDE DEF l
<1>3. log[load[t].id].began <= l.since /\ l.since <= Len(history)
  BY <1>1, <1>2 DEF LoadOK, Placed
<1>4. load' = [load EXCEPT ![t] = l]
  BY DEF l
<1>5. QED
  BY <1>2, <1>3, <1>4, GoesOn

(* What a child that answers nothing leaves in the results.                *)
LEMMA NoAnswer ==
  ASSUME IInv, NEW t \in Task, ~IsIdle(t), NEW b \in Backend
  PROVE  Put(load[t].results, b, EmptyDict) \in Dict(Backend, Result)
<1>1. load[t].results \in Dict(Backend, Result)
  BY RunningLoad DEF LoadRecord
<1>2. EmptyDict \in Result
  BY EmptyType DEF Result
<1>3. QED
  BY <1>1, <1>2, PutType

(* A backend raises, or a cancelled child of a load ends.                  *)
LEMMA ChildStep ==
  ASSUME IInv, NEW t \in Task, NEW b \in Backend,
         BackendRaises(t, b) \/ ChildEnds(t, b)
  PROVE  IInv' /\ (Proceeds(t) \/ Ends(t))
<1> DEFINE r == Put(load[t].results, b, EmptyDict)
           l == [load[t] EXCEPT !.phase = "unwinding", !.results = r]
<1>1. ~IsIdle(t) /\ UNCHANGED <<contextVars, coercer, history, log>>
  BY DEF BackendRaises, ChildEnds, InPhase
<1>2. load \in [Task -> LoadRecord \cup {Idle}] /\ load[t] \in LoadRecord
  BY <1>1, Types, RunningLoad
<1>3. r \in Dict(Backend, Result)
  BY <1>1, NoAnswer
<1>4. load' = [load EXCEPT ![t] = Idle] \/ load' = [load EXCEPT ![t] = l]
  <2>1. CASE BackendRaises(t, b)
    BY <2>1 DEF BackendRaises
  <2>2. CASE ChildEnds(t, b)
    <3>1. load' = [load EXCEPT ![t].results = r] /\ load[t].phase = "unwinding"
      BY <2>2, <1>2 DEF ChildEnds, InPhase
    <3>2. [load[t] EXCEPT !.results = r] = l
      BY <3>1, <1>2 DEF LoadRecord
    <3>3. QED
      BY <3>1, <3>2, <1>2
  <2>3. QED
    BY <2>1, <2>2
<1> HIDE DEF r
<1>5. QED
  BY <1>1, <1>3, <1>4, EndStep, UnwindStep DEF Ends

(* The task of an async load is cancelled.                                 *)
LEMMA CancelStep ==
  ASSUME IInv, NEW t \in Task, Cancel(t)
  PROVE  IInv' /\ Proceeds(t)
<1>1. /\ ~IsIdle(t) /\ UNCHANGED <<contextVars, coercer, history, log>>
      /\ load' = [load EXCEPT ![t].phase = "unwinding"]
  BY DEF Cancel, InPhase
<1>2. load \in [Task -> LoadRecord \cup {Idle}] /\ load[t] \in LoadRecord
  BY <1>1, Types, RunningLoad
<1>3. load[t].results \in Dict(Backend, Result)
  BY <1>2 DEF LoadRecord
<1>4. load' = [load EXCEPT ![t] =
         [load[t] EXCEPT !.phase = "unwinding", !.results = load[t].results]]
  <2>1. [load[t] EXCEPT !.phase = "unwinding"]
          = [load[t] EXCEPT !.phase = "unwinding", !.results = load[t].results]
    BY <1>2 DEF LoadRecord
  <2>2. QED
    BY <1>1, <1>2, <2>1
<1>5. QED
  BY <1>1, <1>3, <1>4, UnwindStep

(* All backends have answered, or the coercer is looked up for a class that *)
(* is left: the load only moves to its next phase.                         *)
LEMMA PhaseStep ==
  ASSUME IInv, NEW t \in Task, Join(t) \/ Decide(t)
  PROVE  IInv' /\ Proceeds(t)
<1>1. /\ ~IsIdle(t) /\ load[t].phase # "unwinding"
      /\ UNCHANGED <<contextVars, coercer, history, log>>
  BY DEF Join, Decide, InPhase
<1>2. load \in [Task -> LoadRecord \cup {Idle}] /\ load[t] \in LoadRecord /\ LoadOK(t)
  BY <1>1, Types, RunningLoad
<1>3. PICK l \in LoadRecord :
        /\ load' = [load EXCEPT ![t] = l]
        /\ l.phase = "distilling" \/ (l.phase = "constructing" /\ load[t].todo # <<>>)
        /\ l.id = load[t].id /\ l.into = load[t].into /\ l.since = load[t].since
        /\ l.results = load[t].results /\ l.todo = load[t].todo /\ l.built = load[t].built
  <2>1. CASE Join(t)
    <3> DEFINE k == [load[t] EXCEPT !.phase = "distilling"]
    <3>1. load' = [load EXCEPT ![t] = k]
      BY <2>1, <1>2 DEF Join
    <3>2. k \in LoadRecord
      BY <1>2 DEF LoadRecord
    <3>3. QED
      BY <3>1, <3>2, <1>2 DEF LoadRecord
  <2>2. CASE Decide(t)
    <3> DEFINE k == [load[t] EXCEPT !.phase = "constructing", !.coerce = coercer[ManagerOf(t)]]
    <3>1. load' = [load EXCEPT ![t] = k] /\ load[t].todo # <<>>
      BY <2>2, <1>2 DEF Decide, Finished
    <3>2. coercer[ManagerOf(t)] \in BOOLEAN
      BY <1>1, Types, RunningLoad
    <3>3. k \in LoadRecord
      BY <1>2, <3>2 DEF LoadRecord
    <3>4. QED
      BY <3>1, <3>3, <1>2 DEF LoadRecord
  <2>3. QED
    BY <2>1, <2>2
<1>4. Range(KeyspaceOrder[ManagerOf(t)]) \subseteq DOMAIN load[t].results
  BY <1>2 DEF Join, Decide, AllAnswered, Pending, InPhase, LoadOK, InOrder
<1>5. log[load[t].id].began <= l.since /\ l.since <= Len(history)
  BY <1>2, <1>3 DEF LoadOK, Placed
<1>6. \A b \in DOMAIN l.results : \A f \in Keyspace(ManagerOf(t), b) :
        /\ f \in DOMAIN l.results[b]
        /\ Visible(b, f, l.results[b][f], log[load[t].id].began)
  BY <1>1, <1>2, <1>3 DEF LoadOK, Answered
<1>7. QED
  BY <1>1, <1>3, <1>4, <1>5, <1>6, GoesOn

-------------------------------------------------------------------------------
(* What precedence selects.                                                *)

(* The winner is the first source of the route that had a value, or 0.      *)
LEMMA WinnerFacts ==
  ASSUME NEW t \in Task, NEW f \in Field, Route[ManagerOf(t)][f] \in Seq(Backend)
  PROVE  LET route == Route[ManagerOf(t)][f]
             w == Winner(t, f)
             Lacks(i) == load[t].results[route[i]][f] = Missing
         IN  \/ w = 0 /\ \A i \in 1..Len(route) : Lacks(i)
             \/ w \in 1..Len(route) /\ ~Lacks(w) /\ \A i \in 1..(w - 1) : Lacks(i)
<1> DEFINE route == Route[ManagerOf(t)][f]
           w == Winner(t, f)
           Lacks(i) == load[t].results[route[i]][f] = Missing
           I == {i \in 1..Len(route) : ~Lacks(i)}
<1>1. w = IF I # {} THEN Min(I) ELSE 0
  BY DEF Winner, SelectInSeq
<1>2. I \in SUBSET Nat /\ Len(route) \in Nat
  OBVIOUS
<1>3. CASE I = {}
  BY <1>1, <1>3
<1>4. CASE I # {}
  <2>1. w \in I /\ \A i \in I : w <= i
    BY <1>1, <1>2, <1>4, MinFacts
  <2>2. w \in 1..Len(route) /\ ~Lacks(w)
    BY <2>1
  <2>3. \A i \in 1..(w - 1) : i \in 1..Len(route) /\ i \notin I
    BY <1>2, <2>1, <2>2
  <2>4. \A i \in 1..(w - 1) : Lacks(i)
    BY <2>3
  <2>5. QED
    BY <2>2, <2>4
<1>5. QED
  BY <1>3, <1>4

(* When the results are distilled, every source of every route has          *)
(* answered, with a value that was in it.                                  *)
LEMMA SourcesAnswered ==
  ASSUME IInv, NEW t \in Task, ~IsIdle(t),
         load[t].phase \in {"distilling", "constructing"},
         NEW f \in Field, NEW b \in Range(Route[ManagerOf(t)][f])
  PROVE  /\ b \in DOMAIN load[t].results
         /\ f \in DOMAIN load[t].results[b]
         /\ Visible(b, f, load[t].results[b][f], log[load[t].id].began)
         /\ load[t].results[b][f] \in Value \cup {Missing}
<1>1. LoadOK(t) /\ ManagerOf(t) \in Manager /\ log[load[t].id].began \in 1..Len(history)
  BY RunningLoad
<1>2. b \in Backend
  <2>1. Route[ManagerOf(t)][f] \in Seq(Backend)
    BY <1>1, ManagerAssumption
  <2>2. QED
    BY <2>1 DEF Range
<1>3. b \in Range(KeyspaceOrder[ManagerOf(t)])
  BY <1>1, KeyspaceAssumption
<1>4. b \in DOMAIN load[t].results
  BY <1>1, <1>3 DEF LoadOK, InOrder, Pending
<1>5. f \in Keyspace(ManagerOf(t), b)
  BY DEF Keyspace
<1>6. /\ f \in DOMAIN load[t].results[b]
      /\ Visible(b, f, load[t].results[b][f], log[load[t].id].began)
  BY <1>1, <1>4, <1>5 DEF LoadOK, Answered
<1>7. PICK i \in log[load[t].id].began..Len(history) :
        history[i][b][f] = load[t].results[b][f]
  BY <1>6 DEF Visible
<1>8. history[i] \in Store
  BY <1>1, <1>7, Types
<1>9. load[t].results[b][f] \in Value \cup {Missing}
  BY <1>2, <1>7, <1>8 DEF Store
<1>10. QED
  BY <1>4, <1>6, <1>9

(* What the load would build of a class carries its number, holds values of *)
(* the backends or fallbacks, and every value of it is justified.           *)
LEMMA InstanceFacts ==
  ASSUME IInv, NEW t \in Task, ~IsIdle(t),
         load[t].phase \in {"distilling", "constructing"}, NEW c \in Class
  PROVE  /\ InstanceOf(t, c) \in Instance
         /\ InstanceOf(t, c).load = load[t].id
         /\ \A f \in FieldsOf(c) : Justified(InstanceOf(t, c), f)
<1> DEFINE Rt(f) == Route[ManagerOf(t)][f]
           began == log[load[t].id].began
           Got(f, i) == load[t].results[Rt(f)[i]][f]
           kw == Kwargs(t, c)
           inst == InstanceOf(t, c)
<1>1. /\ load[t] \in LoadRecord /\ ManagerOf(t) \in Manager
      /\ load[t].id \in 1..MaxLoads
  BY RunningLoad DEF LoadRecord
<1>2. \A f \in Field : Rt(f) \in Seq(Backend) /\ DOMAIN Rt(f) = 1..Len(Rt(f))
  BY <1>1, ManagerAssumption
<1>3. \A f \in Field : \A i \in 1..Len(Rt(f)) :
        /\ Visible(Rt(f)[i], f, Got(f, i), began)
        /\ Got(f, i) \in Value \cup {Missing}
  <2>1. TAKE f \in Field
  <2>2. TAKE i \in 1..Len(Rt(f))
  <2>3. Rt(f)[i] \in Range(Rt(f))
    BY <1>2 DEF Range
  <2>4. QED
    BY <2>3, SourcesAnswered
<1>4. \A f \in Field :
        \/ /\ Winner(t, f) = 0
           /\ \A i \in 1..Len(Rt(f)) : Got(f, i) = Missing
        \/ /\ Winner(t, f) \in 1..Len(Rt(f))
           /\ Got(f, Winner(t, f)) # Missing
           /\ \A i \in 1..(Winner(t, f) - 1) : Got(f, i) = Missing
  BY <1>2, WinnerFacts
<1>5. /\ DOMAIN kw = {f \in FieldsOf(c) : Winner(t, f) # 0}
      /\ \A f \in DOMAIN kw : kw[f] = Got(f, Winner(t, f))
  BY DEF Kwargs
<1>6. kw \in Dict(Field, Value \cup {Fallback})
  <2>1. \A f \in DOMAIN kw : kw[f] \in Value \cup {Fallback}
    BY <1>3, <1>4, <1>5 DEF FieldsOf
  <2>2. kw \in [DOMAIN kw -> Value \cup {Fallback}]
    BY <2>1 DEF Kwargs
  <2>3. DOMAIN kw \in SUBSET Field
    BY <1>5 DEF FieldsOf
  <2>4. QED
    BY <2>2, <2>3, DictIntro
<1>7. [f \in FieldsOf(c) |-> Fallback] \in Dict(Field, Value \cup {Fallback})
  <2>1. [f \in FieldsOf(c) |-> Fallback] \in [FieldsOf(c) -> Value \cup {Fallback}]
    OBVIOUS
  <2>2. FieldsOf(c) \in SUBSET Field
    BY DEF FieldsOf
  <2>3. QED
    BY <2>1, <2>2, DictIntro
<1> HIDE DEF kw
<1>8. /\ inst = [load |-> load[t].id, fields |-> Update([f \in FieldsOf(c) |-> Fallback], kw)]
      /\ inst.load = load[t].id
      /\ inst.fields = Update([f \in FieldsOf(c) |-> Fallback], kw)
  BY DEF InstanceOf, kw
<1>9. Update([f \in FieldsOf(c) |-> Fallback], kw) \in Dict(Field, Value \cup {Fallback})
  BY <1>6, <1>7, UpdateType
<1>10. inst \in Instance
  BY <1>1, <1>8, <1>9 DEF Instance
<1>11. \A f \in FieldsOf(c) :
         inst.fields[f] = IF Winner(t, f) = 0 THEN Fallback ELSE Got(f, Winner(t, f))
  BY <1>5, <1>8 DEF Update
<1>12. ASSUME NEW f \in FieldsOf(c) PROVE Justified(inst, f)
  <2>1. f \in Field
    BY DEF FieldsOf
  <2>2. /\ log[inst.load].began = began
        /\ Route[log[inst.load].manager][f] = Rt(f)
    BY <1>8 DEF ManagerOf
  <2>3. CASE Winner(t, f) = 0
    <3>1. \A i \in 1..Len(Rt(f)) : Visible(Rt(f)[i], f, Missing, began)
      BY <2>1, <2>3, <1>2, <1>3, <1>4
    <3>2. inst.fields[f] = Fallback
      BY <1>11, <2>3
    <3>3. QED
      BY <2>2, <3>1, <3>2 DEF Justified
  <2>4. CASE Winner(t, f) # 0
    <3> DEFINE w == Winner(t, f)
    <3>1. w \in 1..Len(Rt(f)) /\ \A i \in 1..(w - 1) : Got(f, i) = Missing
      BY <2>1, <2>4, <1>4
    <3>2. inst.fields[f] = Got(f, w)
      BY <1>11, <2>4
    <3>3. Visible(Rt(f)[w], f, inst.fields[f], began)
      BY <2>1, <1>3, <3>1, <3>2
    <3>4. \A i \in 1..(w - 1) : Visible(Rt(f)[i], f, Missing, began)
      <4>1. TAKE i \in 1..(w - 1)
      <4>2. i \in 1..Len(Rt(f)) /\ Got(f, i) = Missing
        BY <2>1, <1>2, <3>1
      <4>3. QED
        BY <2>1, <1>3, <4>2
    <3>5. w \in DOMAIN Rt(f)
      BY <2>1, <1>2, <3>1
    <3>6. QED
      BY <2>2, <3>3, <3>4, <3>5 DEF Justified
  <2>5. QED
    BY <2>3, <2>4
<1>13. QED
  BY <1>8, <1>10, <1>12

-------------------------------------------------------------------------------
(* The steps of distilling.                                                *)

(* An instance of the next class is built.                                 *)
LEMMA ConstructStep ==
  ASSUME IInv, NEW t \in Task, Construct(t) \/ Coerce(t)
  PROVE  IInv' /\ Proceeds(t)
<1> DEFINE c == Head(load[t].todo)
           inst == InstanceOf(t, c)
<1>1. /\ ~IsIdle(t) /\ load[t].phase = "constructing"
      /\ Constructed(t, inst)
      /\ UNCHANGED <<contextVars, coercer, history, log>>
  BY DEF Construct, Coerce, InPhase
<1>2. /\ load \in [Task -> LoadRecord \cup {Idle}]
      /\ load[t] \in LoadRecord /\ LoadOK(t) /\ load[t].id \in DOMAIN log
  BY <1>1, Types, RunningLoad
<1>3. load[t].todo \in Seq(Class) /\ load[t].todo # <<>>
  BY <1>1, <1>2 DEF LoadRecord, LoadOK, InOrder
<1>4. /\ c \in Class /\ Tail(load[t].todo) \in Seq(Class)
      /\ Range(load[t].todo) = {c} \cup Range(Tail(load[t].todo))
  BY <1>3, TailFacts
<1>5. /\ inst \in Instance /\ inst.load = load[t].id
      /\ \A f \in FieldsOf(c) : Justified(inst, f)
  BY <1>1, <1>4, InstanceFacts
<1>6. load[t].built \in Dict(Class, Instance)
  BY <1>2 DEF LoadRecord
<1>7. Put(load[t].built, c, inst) \in Dict(Class, Instance)
  BY <1>4, <1>5, <1>6, PutType
<1>8. PICK b \in Dict(Class, Instance) : b = Put(load[t].built, c, inst)
  BY <1>7
<1>9. /\ DOMAIN b = {c} \cup DOMAIN load[t].built /\ b[c] = inst
      /\ \A d \in DOMAIN b : d = c \/ (d \in DOMAIN load[t].built /\ b[d] = load[t].built[d])
  BY <1>8 DEF Put
<1> DEFINE l == [load[t] EXCEPT !.phase = "distilling",
                                !.todo = Tail(load[t].todo),
                                !.built = b]
<1>10. load' = [load EXCEPT ![t] = l]
  <2>1. load' = [load EXCEPT ![t].phase = "distilling",
                             ![t].todo = Tail(@), ![t].built = b]
    BY <1>1, <1>8 DEF Constructed
  <2>2. QED
    BY <1>2, <2>1
<1> HIDE DEF c, inst
<1>11. l \in LoadRecord
  BY <1>2, <1>4 DEF LoadRecord
<1>12. /\ l.id = load[t].id /\ l.into = load[t].into /\ l.since = load[t].since
       /\ l.results = load[t].results /\ l.phase = "distilling"
       /\ l.todo = Tail(load[t].todo) /\ l.built = b
  BY <1>2 DEF LoadRecord
<1>13. load'[t] = l
  BY <1>2, <1>10
<1> HIDE DEF l
<1>14. NothingForgotten /\ Len(history') \in Nat
  BY <1>1, Types DEF NothingForgotten, contextVars
<1>15. history' = history /\ log' = log /\ made' = made
  BY <1>1 DEF contextVars
<1>16. ManagerOf(t)' = ManagerOf(t)
  BY <1>12, <1>13, <1>15 DEF ManagerOf
<1>17. Placed(t)'
  BY <1>2, <1>12, <1>13, <1>15 DEF LoadOK, Placed
<1>18. InOrder(t)'
  BY <1>1, <1>2, <1>12, <1>13, <1>16 DEF LoadOK, InOrder, Pending
<1>19. Answered(t)'
  BY <1>1, <1>2, <1>12, <1>13, <1>15, <1>16 DEF LoadOK, Answered, Visible
<1>20. Built(t)'
  <2>1. \A d \in DOMAIN b : b[d].load = load[t].id
    BY <1>2, <1>5, <1>9 DEF LoadOK, Built
  <2>2. \A d \in DOMAIN b : \A f \in FieldsOf(d) : Justified(b[d], f)
    BY <1>2, <1>5, <1>9 DEF LoadOK, Built
  <2>3. \A d \in DOMAIN b : \A f \in FieldsOf(d) : Justified(b[d], f)'
    BY <1>2, <1>14, <2>1, <2>2, StaysJustified DEF FieldsOf
  <2>4. Range(Managed[ManagerOf(t)]) = DOMAIN b \cup Range(Tail(load[t].todo))
    BY <1>2, <1>4, <1>9 DEF LoadOK, Built
  <2>5. QED
    BY <1>12, <1>13, <1>16, <2>1, <2>3, <2>4 DEF Built
<1>21. LoadOK(t)'
  BY <1>17, <1>18, <1>19, <1>20 DEF LoadOK
<1>22. IInv'
  BY <1>1, <1>10, <1>11, <1>21, LoadStep
<1>23. QED
  BY <1>1, <1>10, <1>11, <1>12, <1>22 DEF Proceeds

(* The context of a load exists.                                           *)
LEMMA TargetExists ==
  ASSUME IInv, NEW t \in Task, ~IsIdle(t)
  PROVE  Target(t) \in made /\ Target(t) \in Ctx
<1>1. load[t].into \in made \cup {Active}
  BY RunningLoad DEF LoadOK, Placed
<1>2. active[t] \in made /\ made \subseteq Ctx
  BY DEF IInv, TypeOK
<1>3. QED
  BY <1>1, <1>2 DEF Target

(* What was built goes to the context, as a whole.                          *)
LEMMA PublishStep ==
  ASSUME IInv, NEW t \in Task, Publish(t)
  PROVE  IInv'
<1> DEFINE x == Target(t)
<1>1. /\ ~IsIdle(t)
      /\ dicts' = [dicts EXCEPT ![x] = Update(dicts[x], load[t].built)]
      /\ load' = [load EXCEPT ![t] = Idle]
      /\ UNCHANGED <<made, active, outer, coercer, history, log>>
  BY DEF Publish, InPhase
<1>2. x \in Ctx /\ load[t].built \in Dict(Class, Instance)
  BY <1>1, TargetExists, RunningLoad DEF LoadRecord
<1>3. dicts \in [Ctx -> Dict(Class, Instance)]
  BY DEF IInv, TypeOK
<1>4. Update(dicts[x], load[t].built) \in Dict(Class, Instance)
  BY <1>2, <1>3, UpdateType
<1>5. dicts' \in [Ctx -> Dict(Class, Instance)]
  BY <1>1, <1>3, <1>4
<1>6. /\ load' \in [Task -> LoadRecord \cup {Idle}] /\ load'[t] = Idle
      /\ \A u \in Task : u # t => load'[u] = load[u]
  BY <1>1, Types
<1>7. TypeOK'
  BY <1>1, <1>5, <1>6 DEF IInv, TypeOK
<1>8. NothingForgotten /\ Len(history') \in Nat
  BY <1>1, Types DEF NothingForgotten
<1>9. \A u \in Task : ~IsIdle(u)' => LoadOK(u)'
  BY <1>6, <1>8, Kept DEF IsIdle
<1>10. QED
  BY <1>1, <1>7, <1>9 DEF IInv, Bounded

(* A step of a load, or its cancellation, lets it go on, ends it without a  *)
(* trace or publishes it.                                                  *)
LEMMA OwnStep ==
  ASSUME IInv, NEW t \in Task, Cancel(t) \/ Reads(t) \/ Distills(t)
  PROVE  IInv' /\ (Proceeds(t) \/ Ends(t) \/ Publish(t))
<1>1. CASE Unwound(t) \/ ConstructRaises(t) \/ CoercerRejects(t) \/ CoercerGone(t)
  <2>1. Ends(t)
    BY <1>1 DEF Unwound, ConstructRaises, CoercerRejects, CoercerGone, InPhase, Ends
  <2>2. QED
    BY <2>1, EndStep
<1>2. CASE Cancel(t)
  BY <1>2, CancelStep
<1>3. CASE Reads(t)
  BY <1>1, <1>3, AnswerStep, ChildStep, PhaseStep DEF Reads
<1>4. CASE Distills(t)
  BY <1>1, <1>4, PhaseStep, ConstructStep, PublishStep DEF Distills
<1>5. QED
  BY <1>2, <1>3, <1>4

(* Every step of the loaders and of their environment.                     *)
LEMMA LoadingStep ==
  ASSUME IInv, [Next]_vars
  PROVE  IInv'
<1>1. CASE UNCHANGED vars
  <2>1. TypeOK'
    BY <1>1 DEF IInv, TypeOK, vars, contextVars
  <2>2. QED
    BY <1>1, <2>1, ContextStep DEF vars, contextVars
<1>2. ASSUME NEW t \in Task, NEW x \in Ctx, EnterContext(t, x) PROVE IInv'
  BY <1>2, EnterStep
<1>3. ASSUME NEW t \in Task, ExitContext(t) PROVE IInv'
  BY <1>3, ExitStep
<1>4. ASSUME NEW t \in Task, NEW u \in Task, SpawnTask(t, u) PROVE IInv'
  <2>1. active[t] \in made
    BY DEF IInv, TypeOK
  <2>2. QED
    BY <1>4, <2>1, StartStep DEF SpawnTask
<1>5. ASSUME NEW u \in Task, StartThread(u) PROVE IInv'
  <2>1. DefaultCtx \in made
    BY DEF IInv
  <2>2. QED
    BY <1>5, <2>1, StartStep DEF StartThread
<1>6. ASSUME NEW b \in Backend, NEW f \in Field, NEW v \in Value \cup {Missing},
             Write(b, f, v)
      PROVE  IInv'
  BY <1>6, WriteStep
<1>7. ASSUME NEW m \in Manager, NEW set \in BOOLEAN, SetCoercer(m, set) PROVE IInv'
  BY <1>7, SetCoercerStep
<1>8. ASSUME NEW t \in Task, NEW m \in Manager, NEW async \in BOOLEAN,
             NEW into \in Ctx \cup {Active}, Begin(t, m, async, into)
      PROVE  IInv'
  BY <1>8, BeginStep
<1>9. ASSUME NEW t \in Task, Cancel(t) \/ Reads(t) \/ Distills(t) PROVE IInv'
  BY <1>9, OwnStep
<1>10. QED
  BY <1>1, <1>2, <1>3, <1>4, <1>5, <1>6, <1>7, <1>8, <1>9 DEF Next

-------------------------------------------------------------------------------
(* The loads, the log and the contexts always fit together.                 *)
THEOREM Inductive == Spec => []IInv
<1>1. Init => IInv
  BY LoadingInit
<1>2. IInv /\ [Next]_vars => IInv'
  BY LoadingStep
<1>3. QED
  BY <1>1, <1>2, PTL DEF Spec

(* The variables keep their types: a load only ever publishes instances     *)
(* whose fields are values of backends or fallbacks, never _MISSING and     *)
(* never a value that a backend volunteered.                               *)
THEOREM TypeCorrect == Spec => []TypeOK
<1>1. IInv => TypeOK
  BY DEF IInv
<1>2. QED
  BY <1>1, Inductive, PTL

(* Distilling never meets a source without an answer, whatever fails and    *)
(* whoever is cancelled.                                                   *)
THEOREM RoutesAlwaysAnswered == Spec => []RoutesAnswered
<1>1. ASSUME IInv PROVE RoutesAnswered
  BY <1>1, SourcesAnswered DEF RoutesAnswered, InPhase
<1>2. QED
  BY <1>1, Inductive, PTL

-------------------------------------------------------------------------------
(* What a step may publish.                                                *)

(* Only Publish() changes a context, and all that it adds was built.        *)
LEMMA OnlyPublishWrites ==
  ASSUME IInv, [Next]_vars
  PROVE  \/ dicts' = dicts
         \/ \E t \in Task : ~IsIdle(t) /\ Publish(t)
<1>1. ASSUME NEW t \in Task, Cancel(t) \/ Reads(t) \/ Distills(t)
      PROVE  dicts' = dicts \/ (~IsIdle(t) /\ Publish(t))
  BY <1>1, OwnStep DEF Proceeds, Ends, Publish, InPhase, contextVars
<1>2. QED
  BY <1>1 DEF Next, vars, contextVars, EnterContext, ExitContext, SpawnTask, StartThread,
              Write, SetCoercer, Begin

(* Whatever a load publishes, precedence selected it among values that were *)
(* in the sources while the load ran.                                      *)
THEOREM PublishesWhatWasVisible == Spec => PublishedWasVisible
<1> DEFINE Step ==
      \A x \in Ctx : \A c \in DOMAIN dicts'[x] :
        \/ c \in DOMAIN dicts[x] /\ dicts'[x][c] = dicts[x][c]
        \/ \A f \in FieldsOf(c) : Justified(dicts[x][c], f)'
<1>1. ASSUME IInv, [Next]_vars PROVE Step
  <2>1. CASE dicts' = dicts
    BY <2>1
  <2>2. ASSUME NEW t \in Task, ~IsIdle(t), Publish(t) PROVE Step
    <3>1. dicts' = [dicts EXCEPT ![Target(t)] = Update(@, load[t].built)]
          /\ history' = history /\ log' = log
      BY <2>2 DEF Publish
    <3>2. dicts \in [Ctx -> Dict(Class, Instance)] /\ LoadOK(t)
      BY <1>1, <2>2, RunningLoad DEF IInv, TypeOK
    <3>3. ASSUME NEW x \in Ctx, NEW c \in DOMAIN dicts'[x]
          PROVE  \/ c \in DOMAIN dicts[x] /\ dicts'[x][c] = dicts[x][c]
                 \/ c \in DOMAIN load[t].built /\ dicts'[x][c] = load[t].built[c]
      BY <3>1, <3>2 DEF Update
    <3>4. ASSUME NEW x \in Ctx, NEW c \in DOMAIN load[t].built, NEW f \in FieldsOf(c),
                 dicts'[x][c] = load[t].built[c]
          PROVE  Justified(dicts[x][c], f)'
      <4>1. PICK instance : instance = load[t].built[c]
        OBVIOUS
      <4>2. Justified(instance, f) /\ instance.load \in DOMAIN log /\ f \in Field
        BY <3>2, <4>1 DEF LoadOK, Built, Placed, FieldsOf
      <4>3. NothingForgotten /\ Len(history') \in Nat
        BY <1>1, <2>2, Types DEF NothingForgotten, Publish
      <4>4. Justified(instance, f)'
        BY <1>1, <4>2, <4>3, StaysJustified
      <4>5. dicts'[x][c] = instance
        BY <3>4, <4>1
      <4>6. QED
        BY <4>4, <4>5 DEF Justified, Visible
    <3>5. QED
      BY <3>3, <3>4
  <2>3. QED
    BY <1>1, <2>1, <2>2, OnlyPublishWrites
<1>2. QED
  BY <1>1, Inductive, PTL DEF Spec, PublishedWasVisible

-------------------------------------------------------------------------------
(* The loader implements the store of ConfigContext.                        *)

(* The load of a task, and the contexts, as the store sees them.            *)
AbstractLoad(t) ==
  IF IsIdle(t) THEN Idle
  ELSE [version |-> load[t].id,
        classes |-> Range(Managed[ManagerOf(t)]),
        into |-> load[t].into]

AbstractDicts == [x \in Ctx |-> [c \in DOMAIN dicts[x] |-> dicts[x][c].load]]

AbstractLoads == [t \in Task |-> AbstractLoad(t)]

(* The store begins empty.                                                 *)
LEMMA AbstractInit == Init => Contexts!Init
<1> SUFFICES ASSUME Init PROVE Contexts!Init
  OBVIOUS
<1>1. AbstractDicts = [x \in Ctx |-> Contexts!EmptyDict]
  BY DEF Init, AbstractDicts, EmptyDict, Contexts!EmptyDict
<1>2. AbstractLoads = [t \in Task |-> Idle]
  BY DEF Init, AbstractLoads, AbstractLoad, IsIdle
<1>3. DOMAIN log = {}
  BY DEF Init
<1>4. QED
  BY <1>1, <1>2, <1>3 DEF Init, Contexts!Init, AbstractDicts, AbstractLoads, AbstractLoad

(* The store sees a task's load exactly while the task has one.             *)
LEMMA AbstractLoadFacts ==
  ASSUME IInv, NEW t \in Task
  PROVE  /\ AbstractLoads[t] = AbstractLoad(t)
         /\ Contexts!IsIdle(t) <=> IsIdle(t)
         /\ ~IsIdle(t) => /\ AbstractLoad(t).version = load[t].id
                          /\ AbstractLoad(t).classes = Range(Managed[ManagerOf(t)])
                          /\ AbstractLoad(t).into = load[t].into
<1>1. AbstractLoads[t] = AbstractLoad(t)
  BY DEF AbstractLoads
<1>2. ~IsIdle(t) => AbstractLoad(t) \in Contexts!Load
  <2>1. SUFFICES ASSUME ~IsIdle(t) PROVE AbstractLoad(t) \in Contexts!Load
    OBVIOUS
  <2>2. ManagerOf(t) \in Manager /\ load[t] \in LoadRecord
    BY <2>1, RunningLoad
  <2>3. QED
    BY <2>1, <2>2 DEF AbstractLoad, Contexts!Load, LoadRecord
<1>3. AbstractLoad(t) = Idle <=> IsIdle(t)
  BY <1>2, IdleLoadAssumption DEF AbstractLoad
<1>4. Contexts!IsIdle(t) <=> AbstractLoads[t] = Idle
  BY DEF Contexts!IsIdle, AbstractLoads, AbstractLoad
<1>5. QED
  BY <1>1, <1>3, <1>4 DEF AbstractLoad

(* What the store sees of a load that a step leaves alone.                  *)
LEMMA AbstractLoadKept ==
  ASSUME IInv, NothingForgotten, NEW t \in Task, IsIdle(t)' <=> IsIdle(t),
         ~IsIdle(t) => load'[t].id = load[t].id /\ load'[t].into = load[t].into
  PROVE  AbstractLoad(t)' = AbstractLoad(t)
<1>1. CASE IsIdle(t)
  BY <1>1 DEF AbstractLoad
<1>2. CASE ~IsIdle(t)
  <2>1. load[t].id \in DOMAIN log
    BY <1>2, RunningLoad
  <2>2. ManagerOf(t)' = ManagerOf(t)
    BY <1>2, <2>1 DEF ManagerOf, NothingForgotten
  <2>3. QED
    BY <1>2, <2>2 DEF AbstractLoad
<1>3. QED
  BY <1>1, <1>2

(* Steps of the environment are steps of the store's environment, or none.  *)
LEMMA AbstractEnvironment ==
  ASSUME IInv, UNCHANGED <<dicts, load, log>>,
         \/ UNCHANGED <<made, active, outer>>
         \/ \E t \in Task, x \in Ctx : EnterContext(t, x)
         \/ \E t \in Task : ExitContext(t)
         \/ \E t, u \in Task : SpawnTask(t, u)
         \/ \E u \in Task : StartThread(u)
  PROVE  [Contexts!Next]_(Contexts!vars)
<1>1. /\ AbstractDicts' = AbstractDicts
      /\ AbstractLoads' = AbstractLoads
      /\ (DOMAIN log)' = DOMAIN log
  BY DEF AbstractDicts, AbstractLoads, AbstractLoad, IsIdle, ManagerOf
<1>2. CASE UNCHANGED <<made, active, outer>>
  BY <1>1, <1>2 DEF Contexts!vars, AbstractDicts, AbstractLoads, AbstractLoad
<1>3. ASSUME NEW t \in Task, NEW x \in Ctx, EnterContext(t, x)
      PROVE  Contexts!EnterContext(t, x)
  BY <1>1, <1>3, AbstractLoadFacts
     DEF EnterContext, Contexts!EnterContext, AbstractDicts, AbstractLoads, AbstractLoad
<1>4. ASSUME NEW t \in Task, ExitContext(t)
      PROVE  Contexts!ExitContext(t)
  BY <1>1, <1>4, AbstractLoadFacts
     DEF ExitContext, Contexts!ExitContext, AbstractDicts, AbstractLoads, AbstractLoad,
         Front, Contexts!Front, Last, Contexts!Last
<1>5. ASSUME NEW t \in Task, NEW u \in Task, SpawnTask(t, u)
      PROVE  Contexts!SpawnTask(t, u)
  BY <1>1, <1>5, AbstractLoadFacts
     DEF SpawnTask, Contexts!SpawnTask, AbstractDicts, AbstractLoads, AbstractLoad
<1>6. ASSUME NEW u \in Task, StartThread(u)
      PROVE  Contexts!StartThread(u)
  BY <1>1, <1>6, AbstractLoadFacts
     DEF StartThread, Contexts!StartThread, AbstractDicts, AbstractLoads, AbstractLoad
<1>7. QED
  BY <1>2, <1>3, <1>4, <1>5, <1>6 DEF Contexts!Next

(* The call of a loader begins a load of the store.                        *)
LEMMA AbstractBegin ==
  ASSUME IInv, IInv', NEW t \in Task, NEW m \in Manager, NEW async \in BOOLEAN,
         NEW into \in Ctx \cup {Active}, Begin(t, m, async, into)
  PROVE  Contexts!Begin(t, Len(log) + 1, Range(Managed[m]), into)
<1> DEFINE v == Len(log) + 1
           a == [version |-> v, classes |-> Range(Managed[m]), into |-> into]
           e == [manager |-> m, began |-> Len(history)]
           l == [id |-> Len(log) + 1, async |-> async, into |-> into, phase |-> "reading",
                 since |-> Len(history), results |-> EmptyDict,
                 todo |-> Managed[m], coerce |-> FALSE, built |-> EmptyDict]
<1>1. /\ IsIdle(t) /\ into \in made \cup {Active}
      /\ log' = Append(log, e)
      /\ load' = [load EXCEPT ![t] = l]
      /\ UNCHANGED <<dicts, made, active, outer, history>>
  BY DEF Begin, contextVars
<1>2. log \in Seq([manager : Manager, began : 1..(MaxWrites + 1)]) /\ Len(log) \in Nat
      /\ DOMAIN log = 1..Len(log)
  BY Types
<1>3. load'[t] = l /\ l.id = v /\ l.into = into
      /\ \A u \in Task : u # t => load'[u] = load[u]
  BY <1>1, Types
<1> HIDE DEF l
<1>4. log'[v] = e /\ DOMAIN log' = DOMAIN log \cup {v} /\ v \notin DOMAIN log
      /\ \A i \in DOMAIN log : i \in DOMAIN log' /\ log'[i] = log[i]
  BY <1>1, <1>2
<1>5. NothingForgotten
  BY <1>1, <1>4, Types DEF NothingForgotten
<1>6. ~IsIdle(t)'
  <2>1. l \in LoadRecord
    <3>1. EmptyDict \in Dict(Backend, Result) /\ EmptyDict \in Dict(Class, Instance)
      BY EmptyType
    <3>2. Len(log) + 1 \in 1..MaxLoads
      BY <1>2, Types, BoundAssumption DEF IInv, Bounded, Begin
    <3>3. Len(history) \in 1..(MaxWrites + 1)
      BY Types, BoundAssumption DEF IInv, Bounded
    <3>4. QED
      BY <3>1, <3>2, <3>3, ManagerAssumption DEF LoadRecord, l
  <2>2. QED
    BY <1>3, <2>1, IdleAssumption DEF IsIdle
<1>7. AbstractLoad(t)' = a
  BY <1>3, <1>4, <1>6 DEF AbstractLoad, ManagerOf
<1>8. \A u \in Task : u # t => AbstractLoad(u)' = AbstractLoad(u)
  BY <1>3, <1>5, AbstractLoadKept DEF IsIdle
<1>9. AbstractLoads' = [AbstractLoads EXCEPT ![t] = a]
  BY <1>7, <1>8 DEF AbstractLoads
<1>10. AbstractDicts' = AbstractDicts
  BY <1>1 DEF AbstractDicts
<1>11. Contexts!IsIdle(t)
  BY <1>1, AbstractLoadFacts
<1>12. QED
  BY <1>1, <1>4, <1>9, <1>10, <1>11
     DEF Contexts!Begin, AbstractDicts, AbstractLoads, AbstractLoad

(* A load that only goes on is not seen to do anything.                     *)
LEMMA AbstractStutter ==
  ASSUME IInv, NEW t \in Task, Proceeds(t)
  PROVE  UNCHANGED Contexts!vars
<1>1. PICK l \in LoadRecord :
        load' = [load EXCEPT ![t] = l] /\ l.id = load[t].id /\ l.into = load[t].into
  BY DEF Proceeds
<1>2. ~IsIdle(t) /\ UNCHANGED <<dicts, made, active, outer, coercer, history, log>>
  BY DEF Proceeds, contextVars
<1>3. load'[t] = l /\ \A u \in Task : u # t => load'[u] = load[u]
  BY <1>1, Types
<1>4. NothingForgotten
  BY <1>2, Types DEF NothingForgotten
<1>5. ~IsIdle(t)'
  BY <1>3, IdleAssumption DEF IsIdle
<1>6. \A u \in Task : AbstractLoad(u)' = AbstractLoad(u)
  BY <1>1, <1>2, <1>3, <1>4, <1>5, AbstractLoadKept DEF IsIdle
<1>7. AbstractLoads' = AbstractLoads /\ AbstractDicts' = AbstractDicts
  BY <1>2, <1>6 DEF AbstractLoads, AbstractDicts
<1>8. QED
  BY <1>2, <1>7 DEF Contexts!vars, AbstractDicts, AbstractLoads, AbstractLoad

(* What the store sees of the loads when one is over.                       *)
LEMMA AbstractOver ==
  ASSUME IInv, NEW t \in Task, ~IsIdle(t), load' = [load EXCEPT ![t] = Idle],
         UNCHANGED <<made, history, log>>
  PROVE  AbstractLoads' = [AbstractLoads EXCEPT ![t] = Idle]
<1>1. load'[t] = Idle /\ \A u \in Task : u # t => load'[u] = load[u]
  BY Types
<1>2. NothingForgotten
  BY Types DEF NothingForgotten
<1>3. \A u \in Task : u # t => AbstractLoad(u)' = AbstractLoad(u)
  BY <1>1, <1>2, AbstractLoadKept DEF IsIdle
<1>4. AbstractLoad(t)' = Idle
  BY <1>1 DEF AbstractLoad, IsIdle
<1>5. QED
  BY <1>3, <1>4 DEF AbstractLoads

(* A load that ends without a trace is one that the store abandons.         *)
LEMMA AbstractAbandon ==
  ASSUME IInv, NEW t \in Task, Ends(t)
  PROVE  Contexts!Abandon(t)
<1>1. /\ ~IsIdle(t) /\ load' = [load EXCEPT ![t] = Idle]
      /\ UNCHANGED <<dicts, made, active, outer, coercer, history, log>>
  BY DEF Ends, contextVars
<1>2. AbstractLoads' = [AbstractLoads EXCEPT ![t] = Idle]
  BY <1>1, AbstractOver
<1>3. ~Contexts!IsIdle(t)
  BY <1>1, AbstractLoadFacts
<1>4. AbstractDicts' = AbstractDicts
  BY <1>1 DEF AbstractDicts
<1>5. QED
  BY <1>1, <1>2, <1>3, <1>4
     DEF Contexts!Abandon, AbstractDicts, AbstractLoads, AbstractLoad

(* Publishing is the store's commit: an instance of every class of the      *)
(* manager, all of this load, to the context where the store puts them.     *)
LEMMA AbstractCommit ==
  ASSUME IInv, NEW t \in Task, Publish(t)
  PROVE  Contexts!Commit(t)
<1> DEFINE x == Target(t)
           loaded == [c \in Range(Managed[ManagerOf(t)]) |-> load[t].id]
<1>1. /\ ~IsIdle(t) /\ load[t].todo = <<>>
      /\ dicts' = [dicts EXCEPT ![x] = Update(dicts[x], load[t].built)]
      /\ load' = [load EXCEPT ![t] = Idle]
      /\ UNCHANGED <<made, active, outer, coercer, history, log>>
  BY DEF Publish, InPhase, Finished
<1>2. LoadOK(t) /\ x \in Ctx /\ dicts \in [Ctx -> Dict(Class, Instance)]
  BY <1>1, RunningLoad, TargetExists DEF IInv, TypeOK
<1>3. /\ DOMAIN load[t].built = Range(Managed[ManagerOf(t)])
      /\ \A c \in DOMAIN load[t].built : load[t].built[c].load = load[t].id
  <2>1. Range(<<>>) = {}
    BY DEF Range
  <2>2. QED
    BY <1>1, <1>2, <2>1 DEF LoadOK, Built
<1>4. Contexts!Target(t) = x
  BY <1>1, AbstractLoadFacts
     DEF Contexts!Target, Target, AbstractLoads, AbstractLoad
<1>5. Contexts!Loaded(t) = loaded
  BY <1>1, AbstractLoadFacts DEF Contexts!Loaded, AbstractLoads, AbstractLoad
<1>6. AbstractDicts' = [AbstractDicts EXCEPT ![x] = Contexts!Update(AbstractDicts[x], loaded)]
  <2>1. \A y \in Ctx : y # x => dicts'[y] = dicts[y]
    BY <1>1, <1>2
  <2>2. dicts'[x] = Update(dicts[x], load[t].built)
    BY <1>1, <1>2
  <2>3. [c \in DOMAIN dicts'[x] |-> dicts'[x][c].load]
          = Contexts!Update([c \in DOMAIN dicts[x] |-> dicts[x][c].load], loaded)
    BY <1>3, <2>2 DEF Update, Contexts!Update
  <2>4. QED
    BY <1>2, <2>1, <2>3 DEF AbstractDicts
<1>7. AbstractLoads' = [AbstractLoads EXCEPT ![t] = Idle]
  BY <1>1, AbstractOver
<1>8. ~Contexts!IsIdle(t)
  BY <1>1, AbstractLoadFacts
<1> HIDE DEF x, loaded
<1>9. QED
  BY <1>1, <1>4, <1>5, <1>6, <1>7, <1>8
     DEF Contexts!Commit, Contexts!Committed, AbstractDicts, AbstractLoads, AbstractLoad

(* Every step of the loaders and of their environment is a step of the      *)
(* store, or none.                                                         *)
LEMMA AbstractStep ==
  ASSUME IInv, IInv', [Next]_vars
  PROVE  [Contexts!Next]_(Contexts!vars)
<1>1. CASE UNCHANGED vars
  BY <1>1, AbstractEnvironment DEF vars, contextVars
<1>2. CASE \/ \E t \in Task, x \in Ctx : EnterContext(t, x)
           \/ \E t \in Task : ExitContext(t)
           \/ \E t, u \in Task : SpawnTask(t, u)
           \/ \E u \in Task : StartThread(u)
  <2>1. UNCHANGED <<dicts, load, log>>
    BY <1>2 DEF EnterContext, ExitContext, SpawnTask, StartThread
  <2>2. QED
    BY <1>2, <2>1, AbstractEnvironment
<1>3. CASE \/ \E b \in Backend, f \in Field, v \in Value \cup {Missing} : Write(b, f, v)
           \/ \E m \in Manager, set \in BOOLEAN : SetCoercer(m, set)
  BY <1>3, AbstractEnvironment DEF Write, SetCoercer, contextVars
<1>4. ASSUME NEW t \in Task, NEW m \in Manager, NEW async \in BOOLEAN,
             NEW into \in Ctx \cup {Active}, Begin(t, m, async, into)
      PROVE  Contexts!Next
  <2>1. Len(log) + 1 \in 1..MaxLoads
    BY <1>4, Types, BoundAssumption DEF Begin
  <2>2. QED
    BY <1>4, <2>1, AbstractBegin DEF Contexts!Next
<1>5. ASSUME NEW t \in Task, Cancel(t) \/ Reads(t) \/ Distills(t)
      PROVE  [Contexts!Next]_(Contexts!vars)
  BY <1>5, OwnStep, AbstractStutter, AbstractAbandon, AbstractCommit DEF Contexts!Next
<1>6. QED
  BY <1>1, <1>2, <1>3, <1>4, <1>5 DEF Next

(* The loader keeps every promise of the store: loads commit as a whole or  *)
(* leave no trace, whatever backends, coercers and other tasks do.          *)
THEOREM LoaderImplementsStore == Spec => ImplementsContexts
<1>1. Init => Contexts!Init
  BY AbstractInit
<1>2. IInv /\ IInv' /\ [Next]_vars => [Contexts!Next]_(Contexts!vars)
  BY AbstractStep
<1>3. QED
  BY <1>1, <1>2, Inductive, PTL DEF Spec, Contexts!Spec, ImplementsContexts

-------------------------------------------------------------------------------
(* What ConfigContextProofs.tla proves of the store therefore holds of the  *)
(* loader.                                                                 *)
StoreProofs == INSTANCE ConfigContextProofs WITH
  Loadable <- {Range(Managed[m]) : m \in Manager},
  Version <- 1..MaxLoads,
  dicts <- AbstractDicts,
  loads <- AbstractLoads,
  used <- DOMAIN log

(* The managers and their contexts are ones that the store is proved for.   *)
LEMMA StoreAssumptions ==
  /\ DefaultCtx \in Ctx
  /\ {Range(Managed[m]) : m \in Manager} \subseteq SUBSET Class
  /\ Active \notin Ctx
<1>1. \A m \in Manager : Range(Managed[m]) \subseteq Class
  <2>1. TAKE m \in Manager
  <2>2. Managed[m] \in Seq(Class)
    BY ManagerAssumption
  <2>3. QED
    BY <2>2 DEF Range
<1>2. QED
  BY <1>1, ManagerAssumption, SentinelAssumption

(* The store that the loader implements is the one of the proofs.            *)
LEMMA SameStore == Contexts!Spec => StoreProofs!Spec
<1>1. Contexts!Init => StoreProofs!Init
  BY DEF Contexts!Init, StoreProofs!Init, AbstractDicts, AbstractLoads, AbstractLoad,
    Contexts!EmptyDict, StoreProofs!EmptyDict
<1>2. Contexts!vars = StoreProofs!vars
  BY DEF Contexts!vars, StoreProofs!vars, AbstractDicts, AbstractLoads, AbstractLoad
<1>3. Contexts!Next => StoreProofs!Next
  BY DEF Contexts!Next, StoreProofs!Next, AbstractDicts, AbstractLoads, AbstractLoad,
    Contexts!EnterContext, StoreProofs!EnterContext,
    Contexts!ExitContext, StoreProofs!ExitContext,
    Contexts!SpawnTask, StoreProofs!SpawnTask,
    Contexts!StartThread, StoreProofs!StartThread,
    Contexts!Begin, StoreProofs!Begin,
    Contexts!Commit, StoreProofs!Commit,
    Contexts!Abandon, StoreProofs!Abandon,
    Contexts!Committed, StoreProofs!Committed,
    Contexts!Loaded, StoreProofs!Loaded,
    Contexts!Target, StoreProofs!Target,
    Contexts!Update, StoreProofs!Update,
    Contexts!Front, StoreProofs!Front,
    Contexts!Last, StoreProofs!Last,
    Contexts!IsIdle, StoreProofs!IsIdle
<1>4. Contexts!vars' = StoreProofs!vars'
  BY DEF Contexts!vars, StoreProofs!vars, AbstractDicts, AbstractLoads, AbstractLoad
<1>5. [Contexts!Next]_(Contexts!vars) => [StoreProofs!Next]_(StoreProofs!vars)
  BY <1>2, <1>3, <1>4
<1>6. QED
  BY <1>1, <1>5, PTL DEF Contexts!Spec, StoreProofs!Spec

(* No reader sees half of a load that the loader publishes, no load lands   *)
(* in two contexts, and what a task can read stays there.                   *)
THEOREM LoaderKeepsPromises ==
  Spec => /\ []Contexts!WholeLoads
          /\ []Contexts!OneContextPerLoad
          /\ Contexts!StaysLoaded
<1>1. Spec => StoreProofs!Spec
  BY LoaderImplementsStore, SameStore, PTL DEF ImplementsContexts
<1>2. StoreProofs!Spec => []StoreProofs!WholeLoads
  BY StoreAssumptions, StoreProofs!LoadsAreWhole
<1>3. StoreProofs!Spec => []StoreProofs!OneContextPerLoad
  BY StoreAssumptions, StoreProofs!LoadsHaveOneContext
<1>4. StoreProofs!Spec => StoreProofs!StaysLoaded
  BY StoreAssumptions, StoreProofs!LoadedStaysLoaded
<1>5. StoreProofs!WholeLoads => Contexts!WholeLoads
  BY DEF StoreProofs!WholeLoads, Contexts!WholeLoads, AbstractDicts,
    StoreProofs!Uncontested, Contexts!Uncontested
<1>6. StoreProofs!OneContextPerLoad => Contexts!OneContextPerLoad
  BY DEF StoreProofs!OneContextPerLoad, Contexts!OneContextPerLoad, AbstractDicts,
    StoreProofs!EmptyDict, Contexts!EmptyDict
<1> DEFINE StoreStep ==
             \A t \in Task, c \in Class :
               /\ StoreProofs!IsLoaded(t, c)
               /\ active'[t] = active[t]
               => StoreProofs!IsLoaded(t, c)'
           LoaderStep ==
             \A t \in Task, c \in Class :
               /\ Contexts!IsLoaded(t, c)
               /\ active'[t] = active[t]
               => Contexts!IsLoaded(t, c)'
<1>7. [StoreStep]_(StoreProofs!vars) => [LoaderStep]_(Contexts!vars)
  <2>1. StoreProofs!vars = Contexts!vars /\ StoreProofs!vars' = Contexts!vars'
    BY DEF StoreProofs!vars, Contexts!vars, AbstractDicts, AbstractLoads, AbstractLoad
  <2>2. StoreStep => LoaderStep
    BY DEF StoreProofs!IsLoaded, Contexts!IsLoaded, AbstractDicts
  <2> HIDE DEF StoreStep, LoaderStep
  <2>3. QED
    BY <2>1, <2>2
<1>8. StoreProofs!StaysLoaded => Contexts!StaysLoaded
  BY <1>7, PTL DEF StoreProofs!StaysLoaded, Contexts!StaysLoaded
<1>9. QED
  BY <1>1, <1>2, <1>3, <1>4, <1>5, <1>6, <1>8, PTL

===============================================================================
