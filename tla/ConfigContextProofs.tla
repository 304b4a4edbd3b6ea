-------------------------- MODULE ConfigContextProofs --------------------------
(***************************************************************************)
(* Proofs about ConfigContext.tla, for any sets of tasks, contexts, classes *)
(* and managers and any number of loads.                                   *)
(*                                                                         *)
(* That a load lands in one context only is not inductive: one needs that   *)
(* the version of an open load is in no dict yet and is no other open       *)
(* load's, and that an open load goes to a dict that exists.                *)
(***************************************************************************)
EXTENDS ConfigContext, DictProofs

(* An open load's version was taken when it began, is in no dict, and its   *)
(* context exists.                                                         *)
OpenLoads ==
  \A t \in Task : ~IsIdle(t) =>
    /\ loads[t].version \in used
    /\ loads[t].into \in made \cup {Active}
    /\ \A x \in Ctx : \A c \in DOMAIN dicts[x] : dicts[x][c] # loads[t].version

(* Two tasks never run the same load.                                      *)
DistinctLoads ==
  \A t, u \in Task : t # u /\ ~IsIdle(t) /\ ~IsIdle(u) =>
    loads[t].version # loads[u].version

(* Only loads that were begun are in the dicts.                            *)
OnlyUsed == \A x \in Ctx : \A c \in DOMAIN dicts[x] : dicts[x][c] \in used

IInv ==
  /\ TypeOK
  /\ DefaultCtx \in made
  /\ OpenLoads
  /\ DistinctLoads
  /\ OnlyUsed
  /\ WholeLoads
  /\ OneContextPerLoad

-------------------------------------------------------------------------------
(* Every context is empty at first.                                        *)
LEMMA ContextInit == Init => IInv
<1> SUFFICES ASSUME Init PROVE IInv
  OBVIOUS
<1>1. EmptyDict \in Dict(Class, Version) /\ DOMAIN EmptyDict = {}
  BY DEF Dict, EmptyDict
<1>2. TypeOK
  BY <1>1, DefaultCtxAssumption DEF Init, TypeOK
<1>3. \A x \in Ctx : dicts[x] = EmptyDict
  BY DEF Init
<1>4. \A t \in Task : IsIdle(t)
  BY DEF Init, IsIdle
<1>5. OpenLoads /\ DistinctLoads /\ OnlyUsed
  BY <1>1, <1>3, <1>4 DEF OpenLoads, DistinctLoads, OnlyUsed
<1>6. WholeLoads
  BY <1>1, <1>3 DEF WholeLoads
<1>7. OneContextPerLoad
  BY <1>1, <1>3 DEF OneContextPerLoad
<1>8. QED
  BY <1>2, <1>5, <1>6, <1>7 DEF IInv, Init

(* Steps that leave the dicts and the loads alone, and at most create a     *)
(* context, keep everything but the types of what they change.              *)
LEMMA DictsKept ==
  ASSUME IInv, dicts' = dicts, loads' = loads, used' = used,
         made \subseteq made', made' \subseteq Ctx
  PROVE  OpenLoads' /\ DistinctLoads' /\ OnlyUsed' /\ WholeLoads' /\ OneContextPerLoad'
<1>1. OpenLoads' /\ DistinctLoads' /\ OnlyUsed'
  BY DEF IInv, OpenLoads, DistinctLoads, OnlyUsed, IsIdle
<1>2. WholeLoads'
  BY DEF IInv, WholeLoads
<1>3. OneContextPerLoad'
  BY DEF IInv, OneContextPerLoad
<1>4. QED
  BY <1>1, <1>2, <1>3

(* with create_config_context(): a fresh dict.                             *)
LEMMA EnterStep ==
  ASSUME IInv, NEW t \in Task, NEW x \in Ctx, EnterContext(t, x)
  PROVE  IInv'
<1>1. /\ made' = made \cup {x}
      /\ active' = [active EXCEPT ![t] = x]
      /\ outer' = [outer EXCEPT ![t] = Append(@, active[t])]
      /\ dicts' = dicts /\ loads' = loads /\ used' = used
  BY DEF EnterContext
<1>2. /\ active \in [Task -> made] /\ outer \in [Task -> Seq(made)]
      /\ made \subseteq Ctx
  BY DEF IInv, TypeOK
<1>3. active' \in [Task -> made']
  BY <1>1, <1>2
<1>4. outer' \in [Task -> Seq(made')]
  <2>1. \A u \in Task : outer[u] \in Seq(made')
    BY <1>1, <1>2
  <2>2. Append(outer[t], active[t]) \in Seq(made')
    BY <2>1, <1>1, <1>2
  <2>3. QED
    BY <1>1, <1>2, <2>1, <2>2
<1>5. TypeOK'
  BY <1>1, <1>2, <1>3, <1>4 DEF IInv, TypeOK
<1>6. QED
  BY <1>1, <1>2, <1>5, DictsKept DEF IInv

(* The block of a context is left.                                         *)
LEMMA ExitStep ==
  ASSUME IInv, NEW t \in Task, ExitContext(t)
  PROVE  IInv'
<1>1. /\ outer[t] # <<>>
      /\ active' = [active EXCEPT ![t] = outer[t][Len(outer[t])]]
      /\ outer' = [outer EXCEPT ![t] = Front(outer[t])]
      /\ dicts' = dicts /\ made' = made /\ loads' = loads /\ used' = used
  BY DEF ExitContext, Last
<1>2. /\ active \in [Task -> made] /\ outer \in [Task -> Seq(made)]
      /\ made \subseteq Ctx
  BY DEF IInv, TypeOK
<1>3. outer[t][Len(outer[t])] \in made
  BY <1>1, <1>2
<1>4. Front(outer[t]) \in Seq(made)
  BY <1>1, <1>2, FrontFacts
<1>5. active' \in [Task -> made] /\ outer' \in [Task -> Seq(made)]
  BY <1>1, <1>2, <1>3, <1>4
<1>6. TypeOK'
  BY <1>1, <1>5 DEF IInv, TypeOK
<1>7. QED
  BY <1>1, <1>2, <1>6, DictsKept DEF IInv

(* A task or a thread starts.                                              *)
LEMMA StartStep ==
  ASSUME IInv, NEW u \in Task, NEW x \in made,
         active' = [active EXCEPT ![u] = x],
         UNCHANGED <<dicts, made, outer, loads, used>>
  PROVE  IInv'
<1>1. TypeOK'
  BY DEF IInv, TypeOK
<1>2. made \subseteq Ctx
  BY DEF IInv, TypeOK
<1>3. QED
  BY <1>1, <1>2, DictsKept DEF IInv

(* A loader is called: nobody else has its version.                        *)
LEMMA BeginStep ==
  ASSUME IInv, NEW t \in Task, NEW v \in Version, NEW S \in Loadable,
         NEW into \in Ctx \cup {Active}, Begin(t, v, S, into)
  PROVE  IInv'
<1> DEFINE l == [version |-> v, classes |-> S, into |-> into]
<1>1. /\ v \notin used
      /\ into \in made \cup {Active}
      /\ loads' = [loads EXCEPT ![t] = l]
      /\ used' = used \cup {v}
      /\ dicts' = dicts /\ made' = made /\ active' = active /\ outer' = outer
  BY DEF Begin
<1>2. l \in Load /\ l.version = v /\ l.into = into
  BY DEF Load
<1> HIDE DEF l
<1>3. loads \in [Task -> Load \cup {Idle}]
  BY DEF IInv, TypeOK
<1>4. loads'[t] = l /\ \A u \in Task : u # t => loads'[u] = loads[u]
  BY <1>1, <1>3
<1>5. TypeOK'
  BY <1>1, <1>2, <1>3 DEF IInv, TypeOK
<1>6. OnlyUsed'
  BY <1>1 DEF IInv, OnlyUsed
<1>7. OpenLoads'
  BY <1>1, <1>2, <1>4 DEF IInv, OpenLoads, OnlyUsed, IsIdle
<1>8. DistinctLoads'
  BY <1>1, <1>2, <1>4 DEF IInv, DistinctLoads, OpenLoads, IsIdle
<1>9. WholeLoads' /\ OneContextPerLoad'
  BY <1>1 DEF IInv, WholeLoads, OneContextPerLoad
<1>10. QED
  BY <1>1, <1>5, <1>6, <1>7, <1>8, <1>9 DEF IInv

(* A load raises: nothing of it remains.                                   *)
LEMMA AbandonStep ==
  ASSUME IInv, NEW t \in Task, Abandon(t)
  PROVE  IInv'
<1>1. /\ loads' = [loads EXCEPT ![t] = Idle]
      /\ dicts' = dicts /\ made' = made /\ active' = active /\ outer' = outer
      /\ used' = used
  BY DEF Abandon
<1>2. loads \in [Task -> Load \cup {Idle}]
  BY DEF IInv, TypeOK
<1>3. loads'[t] = Idle /\ \A u \in Task : u # t => loads'[u] = loads[u]
  BY <1>1, <1>2
<1>4. TypeOK'
  BY <1>1, <1>2 DEF IInv, TypeOK
<1>5. OpenLoads' /\ DistinctLoads' /\ OnlyUsed'
  BY <1>1, <1>3 DEF IInv, OpenLoads, DistinctLoads, OnlyUsed, IsIdle
<1>6. WholeLoads' /\ OneContextPerLoad'
  BY <1>1 DEF IInv, WholeLoads, OneContextPerLoad
<1>7. QED
  BY <1>1, <1>4, <1>5, <1>6 DEF IInv

(* A load updates its one context, with a version that no dict has.         *)
LEMMA CommitStep ==
  ASSUME IInv, NEW t \in Task, Commit(t)
  PROVE  IInv'
<1> DEFINE x == Target(t)
           S == loads[t].classes
           v == loads[t].version
           d == dicts[x]
<1>1. /\ ~IsIdle(t)
      /\ dicts' = [dicts EXCEPT ![x] = Update(d, [c \in S |-> v])]
      /\ loads' = [loads EXCEPT ![t] = Idle]
      /\ made' = made /\ active' = active /\ outer' = outer /\ used' = used
  BY DEF Commit, Committed, Loaded
<1>2. /\ dicts \in [Ctx -> Dict(Class, Version)]
      /\ loads \in [Task -> Load \cup {Idle}]
      /\ active \in [Task -> made]
      /\ made \subseteq Ctx
  BY DEF IInv, TypeOK
<1>3. /\ loads[t] \in Load
      /\ S \in Loadable /\ S \subseteq Class /\ v \in Version
      /\ v \in used
      /\ \A y \in Ctx : \A c \in DOMAIN dicts[y] : dicts[y][c] # v
  BY <1>1, <1>2, LoadableAssumption DEF IInv, OpenLoads, IsIdle, Load
<1>4. x \in made /\ x \in Ctx
  BY <1>1, <1>2 DEF IInv, OpenLoads, Target
<1> HIDE DEF x, S, v
<1>5. loads'[t] = Idle /\ \A u \in Task : u # t => loads'[u] = loads[u]
  BY <1>1, <1>2
<1>6. \A y \in Ctx : y # x => dicts'[y] = dicts[y]
  BY <1>1, <1>2
<1>7. /\ DOMAIN dicts'[x] = DOMAIN d \cup S
      /\ \A c \in S : dicts'[x][c] = v
      /\ \A c \in DOMAIN d \ S : dicts'[x][c] = d[c]
  BY <1>1, <1>2, <1>4 DEF Update
<1>8. TypeOK'
  <2>1. [c \in S |-> v] \in Dict(Class, Version)
    BY <1>3, DictIntro
  <2>2. Update(d, [c \in S |-> v]) \in Dict(Class, Version)
    BY <1>2, <1>4, <2>1, UpdateType
  <2>3. dicts' \in [Ctx -> Dict(Class, Version)]
    BY <1>1, <1>2, <2>2
  <2>4. loads' \in [Task -> Load \cup {Idle}]
    BY <1>1, <1>2
  <2>5. QED
    BY <1>1, <2>3, <2>4 DEF IInv, TypeOK
(* What is in a dict now is the load's version, or was in the same dict.    *)
<1>9. \A y \in Ctx : \A c \in DOMAIN dicts'[y] :
        \/ y = x /\ c \in S /\ dicts'[y][c] = v
        \/ c \in DOMAIN dicts[y] /\ dicts'[y][c] = dicts[y][c]
  BY <1>6, <1>7
<1>10. OnlyUsed'
  BY <1>1, <1>3, <1>9 DEF IInv, OnlyUsed
<1>11. DistinctLoads'
  BY <1>5 DEF IInv, DistinctLoads, IsIdle
<1>12. OpenLoads'
  <2> SUFFICES ASSUME NEW u \in Task, u # t, ~IsIdle(u)
               PROVE  /\ loads[u].version \in used
                      /\ loads[u].into \in made \cup {Active}
                      /\ \A y \in Ctx : \A c \in DOMAIN dicts'[y] :
                           dicts'[y][c] # loads[u].version
    BY <1>1, <1>5 DEF OpenLoads, IsIdle
  <2>1. loads[u].version # v
    BY <1>1 DEF IInv, DistinctLoads, v
  <2>2. QED
    BY <1>9, <2>1 DEF IInv, OpenLoads
<1>13. WholeLoads'
  <2> SUFFICES ASSUME NEW y \in Ctx, NEW R \in Loadable, Uncontested(R)
               PROVE  \/ R \cap DOMAIN dicts'[y] = {}
                      \/ /\ R \subseteq DOMAIN dicts'[y]
                         /\ \A b, c \in R : dicts'[y][b] = dicts'[y][c]
    BY DEF WholeLoads
  <2>1. \/ R \cap DOMAIN dicts[y] = {}
        \/ /\ R \subseteq DOMAIN dicts[y]
           /\ \A b, c \in R : dicts[y][b] = dicts[y][c]
    BY DEF IInv, WholeLoads
  <2>2. CASE y # x
    BY <1>6, <2>1, <2>2
  <2>3. CASE y = x /\ S = R
    BY <1>7, <2>3
  <2>4. CASE y = x /\ S \cap R = {}
    BY <1>7, <2>1, <2>4
  <2>5. QED
    BY <1>3, <2>2, <2>3, <2>4 DEF Uncontested
<1>14. OneContextPerLoad'
  <2>1. ASSUME NEW y \in Ctx, NEW z \in Ctx, y # z,
               NEW b \in DOMAIN dicts'[y], NEW c \in DOMAIN dicts'[z]
        PROVE  dicts'[y][b] # dicts'[z][c]
    BY <1>3, <1>9, <2>1 DEF IInv, OneContextPerLoad
  <2>2. \A y \in Ctx \ made' : dicts'[y] = EmptyDict
    BY <1>1, <1>4, <1>6 DEF IInv, OneContextPerLoad
  <2>3. QED
    BY <2>1, <2>2 DEF OneContextPerLoad
<1>15. QED
  BY <1>1, <1>8, <1>10, <1>11, <1>12, <1>13, <1>14 DEF IInv

(* The invariant is inductive.                                             *)
LEMMA ContextStep == IInv /\ [Next]_vars => IInv'
<1> SUFFICES ASSUME IInv, [Next]_vars PROVE IInv'
  OBVIOUS
<1>1. CASE \E t \in Task, x \in Ctx : EnterContext(t, x)
  BY <1>1, EnterStep
<1>2. CASE \E t \in Task : ExitContext(t)
  BY <1>2, ExitStep
<1>3. CASE \E t, u \in Task : SpawnTask(t, u)
  <2>1. PICK t, u \in Task : SpawnTask(t, u)
    BY <1>3
  <2>2. active[t] \in made
    BY DEF IInv, TypeOK
  <2>3. QED
    BY <2>1, <2>2, StartStep DEF SpawnTask
<1>4. CASE \E u \in Task : StartThread(u)
  <2>1. PICK u \in Task : StartThread(u)
    BY <1>4
  <2>2. DefaultCtx \in made
    BY DEF IInv
  <2>3. QED
    BY <2>1, <2>2, StartStep DEF StartThread
<1>5. CASE \E t \in Task, v \in Version, S \in Loadable, into \in Ctx \cup {Active} :
             Begin(t, v, S, into)
  BY <1>5, BeginStep
<1>6. CASE \E t \in Task : Commit(t)
  BY <1>6, CommitStep
<1>7. CASE \E t \in Task : Abandon(t)
  BY <1>7, AbandonStep
<1>8. CASE UNCHANGED vars
  BY <1>8 DEF vars, IInv, TypeOK, OpenLoads, DistinctLoads, OnlyUsed, WholeLoads,
              OneContextPerLoad, IsIdle
<1>9. QED
  BY <1>1, <1>2, <1>3, <1>4, <1>5, <1>6, <1>7, <1>8 DEF Next

(* The invariant holds throughout.                                         *)
THEOREM Inductive == Spec => []IInv
<1>1. QED
  BY ContextInit, ContextStep, PTL DEF Spec

(* The contexts, the tasks' stacks of them and the loads keep their types:  *)
(* in particular every context on a stack is one that was created.         *)
THEOREM TypeCorrect == Spec => []TypeOK
<1>1. IInv => TypeOK
  BY DEF IInv
<1>2. QED
  BY <1>1, Inductive, PTL

(* No reader ever sees half of a load.                                     *)
THEOREM LoadsAreWhole == Spec => []WholeLoads
<1>1. IInv => WholeLoads
  BY DEF IInv
<1>2. QED
  BY <1>1, Inductive, PTL

(* No load reaches two contexts.                                           *)
THEOREM LoadsHaveOneContext == Spec => []OneContextPerLoad
<1>1. IInv => OneContextPerLoad
  BY DEF IInv
<1>2. QED
  BY <1>1, Inductive, PTL

(* No step unloads a class from a context.                                 *)
LEMMA NothingUnloaded ==
  ASSUME IInv, [Next]_vars
  PROVE  \A x \in Ctx : DOMAIN dicts[x] \subseteq DOMAIN dicts'[x]
<1>1. CASE dicts' = dicts
  BY <1>1
<1>2. ASSUME NEW t \in Task, Commit(t)
      PROVE  \A x \in Ctx : DOMAIN dicts[x] \subseteq DOMAIN dicts'[x]
  <2> DEFINE e == [c \in loads[t].classes |-> loads[t].version]
  <2>1. dicts' = [dicts EXCEPT ![Target(t)] = Update(dicts[Target(t)], e)]
    BY <1>2 DEF Commit, Committed, Loaded
  <2>2. dicts \in [Ctx -> Dict(Class, Version)]
    BY DEF IInv, TypeOK
  <2> HIDE DEF e
  <2>3. \A d : DOMAIN d \subseteq DOMAIN Update(d, e)
    BY DEF Update
  <2>4. QED
    BY <2>1, <2>2, <2>3
<1>3. QED
  BY <1>1, <1>2 DEF Next, vars, EnterContext, ExitContext, SpawnTask, StartThread,
                    Begin, Abandon

(* What a task can read stays readable until it moves to another context.   *)
THEOREM LoadedStaysLoaded == Spec => StaysLoaded
<1> DEFINE Step ==
      \A t \in Task, c \in Class :
        /\ IsLoaded(t, c)
        /\ active'[t] = active[t]
        => IsLoaded(t, c)'
<1>1. ASSUME IInv, [Next]_vars
      PROVE  Step
  <2>1. \A t \in Task : active[t] \in Ctx
    BY <1>1 DEF IInv, TypeOK
  <2>2. QED
    BY <1>1, <2>1, NothingUnloaded DEF IsLoaded
<1>2. QED
  BY <1>1, Inductive, PTL DEF Spec, StaysLoaded

===============================================================================
