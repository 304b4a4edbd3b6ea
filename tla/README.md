# A verification project for configatron

This directory holds TLA+ models of configatron (`src_py/configatron`), the TLC
configurations that check them on small instances, and TLAPS proofs of the
properties that matter most. Paths below are relative to the repository, and
`manager.py` and the like are files of `src_py/configatron`.

## 1. The system

Configatron separates *what* a library wants configured from *where* the values
come from. A library declares an abstract config class; an application declares
a concrete one that implements it, gives the manager backends, and loads. Readers
ask for the instance of the abstract class that is active for them.

| Component | State | Operations | Interacts with |
|---|---|---|---|
| Class registry (`_registry.py`, `cfg_abstract.py`, `cfg_concrete.py`) | The `CfgRegistryState` in the context variable `_CONFIG_REGISTRY`: two sets of classes, three lookup tables. On each class object: its config ancestors and its own config. | Class creation by `CfgMeta`; the decorator's `postprocess_dataclass()`; `create_registry_context()`; `normalize_config_cls()`; `verify_completeness()`. | The manager and `get_active_cfg()` normalize through it. |
| Manager construction (`manager.py:114-298`, `_analysis.py`) | `cfg_classes`, the analysis, routes (field to backends, in order), keyspaces (backend to fields). Frozen afterwards. | `__init__()`, `_analyze_configs()`, `analyze_cfg_cls()`, `_build_routes()`. | Reads the registry; the loaders read its results. |
| Loaders (`manager.py:326-433`, `475-484`) | The results of a load in progress; `type_coercer`, which is the one mutable attribute of a manager. | `load_once_sync()`, `load_once_async()`, `_distill_load_results()`. | Call backends and the coercer; write a config context. |
| Config contexts (`manager.py:50-58`, `447-510`) | Dicts from concrete classes to instances, one of them active per task or thread through the context variable `_CONFIG_CTX`. | `create_config_context()`, inheritance by tasks, `get_active_cfg()`, `~ConfigClass`. | Written by the loaders, read by everybody. |
| Prebaked backends (`backends.py`, `prebaked/backends/`) | What is stored in the environment, in a JSON or TOML file, or in a dict. A backend has no state of its own. | `load_sync()`, `load_async()`. | Called by the loaders with a keyspace; they share their storage with other threads and processes. |
| Type coercers | User code. | A call for each class and load. | Called by the loaders. |
| Polling, `audit_configs()`, exports | None. | `poll_*()` raise `NotImplementedError`; the audit returns the analysis. | None. |

### Where the difficulty is

- *Registration is a sequence of partial updates of several tables*, any of which
  can be preceded by a refusal, and what is stored on class objects is global
  while what is stored in a registry is per context. `slots=True` makes a second
  class object. Correct means: the tables agree with each other in every
  registry that can still become active.
- *Loads overlap.* Tasks and threads share context dicts, by inheritance or by
  passing them; an async load runs a child per backend, and any of them may fail
  or be cancelled; values change while they are read. Correct means: readers see
  whole loads, a load reaches one context, a failed load leaves nothing, and a
  value is the one that precedence selects.
- *`type_coercer` may change while a load runs.*
- *Storage changes while it is read.* The environment is listed first and then read
  entry by entry, the memory's dict is iterated over while it changes, and what a
  keyspace calls a table can be a value. Correct means: a call that returns, returns values that were there for the
  fields that were asked for, and a call fails only for a reason.
- *Readers join two structures that change independently*, the registry and the active
  config context. Correct means: what was loaded stays readable as itself, a later read
  never gets an older load, and a read by an abstract class changes only for a cause
  that the program can see, whatever is defined or decorated in between.
- *Construction keeps two tables that must be each other's transpose*, computed
  from declarations that combine named, unnamed and repeated sources with the
  flavors that backends support. The loaders index one table by the other.

`PROJECT.json` lists these as hazards, each at its line with its properties.

## 2. The modules

| Module | What it is |
|---|---|
| `Dicts` | Python dicts as functions: `Dict(K, V)`, `Put` (`d[k] = v`), `Update` (`d.update(e)`); lists: `Filtered` (`[x for x in s if x in S]`). |
| `Registry`, `MCRegistry` | The class registry. |
| `ConfigContext`, `MCConfigContext` | What loading promises to readers: config contexts as a transactional store. The abstract specification of `Loading`. |
| `Loading`, `MCLoading` | The loaders, with backends, coercer, tasks and contexts; implements `ConfigContext`. |
| `Construction`, `MCConstruction` | From the arguments of `CfgManager()` to routes and keyspaces. |
| `BackendCall` | What one call of a `CfgBackend` promises while the storage changes. The abstract specification of `Backends`, and what `Loading` relies on. |
| `Backends`, `MCBackends` | A call of each of the four prebaked backends; implements `BackendCall`. |
| `ConfigReading`, `MCConfigReading` | `get_active_cfg()`: the composition of `Registry`, managers and `ConfigContext`. |
| `DictProofs` | Lemmas about dicts, lists, and the least and greatest of numbers. |
| `RegistryProofs`, `ConfigContextProofs`, `LoadingProofs`, `ConstructionProofs`, `BackendsProofs`, `ConfigReadingProofs` | The inductive invariants and the theorems about each component. |

```
Registry ------+                     Construction     (routes and keyspaces, which
               +-- ConfigReading                       Loading takes as constants)
ConfigContext -+
      ^
      | refined by
   Loading - - - relies on - - - BackendCall <--- refined by --- Backends
```

An operator `X_Y` next to an operator `X` (such as `AllAnswered_OneIsEnough`) is a
wrong variant of `X`, the change a plausible mistake would make. No
specification uses them; `PROJECT.json` pairs each with a property that it must
break.

### Registry

`mro` is `__CONFIGATRON_CLASSES__` of each class, the class itself first and empty
before the class exists; `cfg` is the `_configatron_cfg` of the class itself.
Both belong to class objects. `registry` is the active `CfgRegistryState`, with
its five fields under their own names, and `outer` the registries that open
`create_registry_context()` blocks will restore.

| Action | Code |
|---|---|
| `DefineClass` | `CfgMeta.__init__()`: computes the ancestors and registers the class as abstract, whatever it is. Up to two bases with config ancestors. |
| `Decorate` | `Configatron.postprocess_dataclass()`: stores the config, then registers; a refusal leaves the stored config behind. |
| `DecorateSlots` | The same with `slots=True`, where `dataclass()` first makes a second class object. |
| `EnterRegistryContext`, `ExitRegistryContext` | `create_registry_context()`. |

One registration is one step: it contains no `await`, and classes are created by
module code. Data that no property distinguishes is left out: annotations,
names, docstrings, and diamonds of config ancestors.

### ConfigContext

`dicts` are the context dicts, which hold for each class the version (the load)
that its instance belongs to; `made` those that were created; `active` and `outer`
the context variable per task and its pending resets; `loads` the load that each
task runs. `Begin` is the call of a loader, `Commit` its one `dict.update()`,
`Abandon` an exception. `SpawnTask` and `StartThread` are how Python hands context
variables to async tasks (a copy, so the same dict) and threads (none).

### Loading

The same contexts, and a load in its phases:

| Phase | Actions | Code |
|---|---|---|
| reading | `Answer`, `BackendRaises`, `Cancel`, `Join` | The calls of the backends, in order (`load_once_sync()`) or as children of a task group. |
| unwinding | `ChildEnds`, `Unwound` | A task group cancels and awaits its children before it raises. |
| distilling | `Decide`, `Publish` | The loop of `_distill_load_results()`, the test of `type_coercer`, and the update of the target context. |
| constructing | `Construct`, `ConstructRaises`, `Coerce`, `CoercerRejects`, `CoercerGone` | The constructor of one class, or the second read of `type_coercer` and its call. |

`Write` changes what a backend stores and `SetCoercer` is the assignment of
`type_coercer`; both may happen between any two steps of a load. `history` keeps
every state of the storage and `log` when each load began. No guard of the code's
own actions depends on either: they say what an answer may contain and serve
the properties. An answer may hold, for each field separately, any value that
the backend had since its call could have begun: that is the promise of `BackendCall`, with the
load's `since` as the beginning of the call. An answer may also hold values for fields
that were not asked for (`Volunteered`), which the documentation allows and has the
manager ignore (`docs/0100-custom_backends.clc:59`). The prebaked backends keep the promise,
with one exception (`MemoryBackend`, section 6), for which `PublishedWasVisible` can
miss a value too. A load looks up its active
context when it publishes.

Sync loads of two threads interleave at the granularity of these steps; async
loads of one event loop interleave at fewer points, so their behaviours are
among the checked ones.

### Construction

What the caller passes is chosen in the initial state: the classes, each field's
declaration (its sources, and how the abstract and the concrete class annotate
it), the backends in order and their flavors. `AcceptClass` is an iteration of
the loop over the arguments; `RefuseAbstract`, `RefuseIncomplete` and `Analyze`
are one of `_analyze_configs()`; `RouteField` is one of `_build_routes()`, with the
additions to the keyspaces; `Finish` is the last check of `__init__()`.
Two classes that share a namespace meet in `Enter`.

### BackendCall and Backends

`BackendCall` has the storage's contents since the call (`past`), the fields `asked` for,
and the `answer`. A call returns, for each field asked for, a value that the storage
had at some instant of the call, or nothing if it had none at some instant; or it
raises.

`Backends` is the same call as the prebaked backends make it. The storage is a dict
from slots to values; a slot is a variable's name, a `MemoryBackendKey`, or the path
of a value in a document.

| Action | Code |
|---|---|
| `List` | `set(os.environ)` (`env_vars.py:58`), and the start of the iteration in `memory.py:59`. `listed` is its instant, `todo` what is ahead, and `left` how many items the iteration has still to give. |
| `ReadVariable` | `expected_keys[varname]` and `os.environ[varname]`, each of which may be a `KeyError`. |
| `NextItem`, `IterationRaises` | A step of the iteration over the memory's dict, which raises when the dict has another size than at the start, or when there is another item after as many as it started with. |
| `Return` | The end of either loop. |
| `ReadJson`, `ReadToml` | `_load()`: the file is read at once and then walked by namespace and lookup key. |
| `Write` | Another thread or process changes one slot, or replaces the file. |

For the memory's dict `Write` also says what the iteration still visits (`Ahead`), because
CPython compares only sizes. A removed key leaves a gap in the dict. An added key goes
to the end, but when there is no room the dict is laid out anew without its gaps while
an iteration that has begun goes on at its old position, so it may miss any of
what was ahead. The choice is nondeterministic: when the layout changes depends on the
dict's past. A removal and an addition together leave the size as it was and go
unnoticed (section 6).

`VariableName` is the coercion of `env_vars.py:51-56`, character by character, because
two fields that are coerced to one variable is one of the hazards. `expected_keys` is a
dict that later fields overwrite, so the last of such fields gets the value. `Get` and
`NoTableFor` are `json_obj.get(namespace, {}).get(lookup_key, _MISSING)` where the name of a
table and that of a value meet; what a document holds is defined apart from them, by
paths (`At`). `ImplementsCall` maps `history` to `past`, seen
through the slots of the fields (`Held`); a field whose slot a later field takes is
mapped to one without a value, which excludes it from the promise. A call whose dict
gained a key during the iteration (`Disturbed`) is mapped to one that raised: nothing is
promised of it. `ValuesWereHeld` holds of these calls too.

### ConfigReading

The variables of `Registry` (without nested registries, which isolate tests) and of
`ConfigContext`, and `managers`, the `cfg_classes` of each manager. Classes are defined and
decorated (`ClassStep`, the actions of `Registry`); managers are built from classes that
normalize (`NewManager`, with the checks of `CfgManager()` and none of its work on
fields); loads of a manager's classes begin (`BeginLoad`), commit or fail, in contexts
that come and go (`ContextStep`, the actions of `ConfigContext`). `get_active_cfg()` is
what a task would be answered in a state: `Asked` is the normalization, `Reads` says that
neither `KeyError` nor `ConfigNotLoaded` is raised. `~ConfigClass` is the same call. The
action `Read` makes one such call and remembers in `seen` what it got, in which context,
and which loads had ended by then. It changes nothing else and may happen at any time, in
any task, so what is checked of the one remembered read against every later state is
said of every pair of reads.

Two successive reads around another task's `Commit` do meet two loads. What is promised is
the direction: `ReadersMoveForward` says that no later read, by any task in that
context, gets a load that had ended before the first read and was not the one it saw,
and that none of the manager's configs is missing. It is about managers that
share no class with another one; the order of loads that overlap is open (section 7).
`ConcreteStaysReadable` is about registered concrete classes that are asked for by
themselves. A read by an abstract class can be taken away, by a rival (which may not
be loaded) or by a decoration of the abstract class, even one that is refused;
`AbstractReadsChangeForCause` says that nothing else does it.

## 3. The runs

All runs are of `MC*.tla` modules; bounds are the constants named `Max*`, `Version`
and the sizes of the sets.

| Run | Configuration | Shows |
|---|---|---|
| `registry` | `MCRegistry.cfg` | `TypeOK`, `LookupsAgree`, `NamespaceOwners`, `NormalizeSound`, `ConcreteIsStable`. |
| `contexts` | `MCConfigContext.cfg` | `TypeOK`, `WholeLoads`, `OneContextPerLoad`, `StaysLoaded`. |
| `loading` | `MCLoading.cfg` | `TypeOK`, `RoutesAnswered`, `PublishedWasVisible`, while values change and the coercer is replaced, and `LoadsEnd`, under fairness. |
| `loading_contexts` | `MCLoadingContexts.cfg` | `ImplementsContexts`: `Loading` refines `ConfigContext`. |
| `construction` | `MCConstruction.cfg` | `TypeOK`, `RoutesFollowDeclarations`, `KeyspacesMatchRoutes`, `SecretsStayOut`, `EveryArgumentIsManaged`. |
| `backends` | `MCBackends.cfg` | `TypeOK`, `ErrorsHaveCause`, `ValuesWereHeld`, and `ImplementsCall`: `Backends` refines `BackendCall`, but for iterations of the memory's dict during which a key was added. |
| `reading` | `MCConfigReading.cfg` | `TypeOK`, `LoadedIsReadable`, `ReadersMoveForward`, `ConcreteStaysReadable`, `AbstractReadsChangeForCause`. |
| five runs that end in a violation | `MC*_*.cfg` | The disagreements of section 6. |

The instances, and why they are enough:

- *registry*: three classes, three namespaces, one nested registry context. Three
  classes make an abstract class with two rivals, a chain of three ancestors,
  and a slotted pair with an ancestor; a refusal needs two classes or one
  namespace used twice; a nested context in which the same classes are
  decorated again needs one level. Class objects and namespaces are only
  compared, so they are symmetric.
- *contexts*: two tasks, three contexts, four classes, three loads, and three
  managers: one whose classes nobody else loads, and two that compete for a
  class, the case that the docstring of `CfgManager` warns about. The third load
  is what overlaps a pair with a finished one.
- *loading*: one load, two backends that both have a field, a second field with a
  default, two writes, both loaders. Two writes let a value appear and vanish
  again between the calls of two backends, which is what shadowing needs. One
  task suffices for these properties, because other loads write only contexts and
  loads never read them, and a load waits for nothing that another load holds.
  Backend `p` answers for a field it is not asked for; backend `r` is one that the
  manager has and no field uses.
- *loading_contexts*: two tasks, two contexts, two loads, one manager of two classes
  with one field, which belongs to the later class, so that its constructor can raise after
  the earlier class was built. Both loads can overlap, fail or be cancelled at any point.
- *construction*: a first field with every list of up to three sources over three
  backends and "any", each way to annotate it on the two classes; a second
  field that meets it in the keyspaces; a manager with two backends in reverse
  and one with all three, with every combination of flavors; one or two
  arguments out of an abstract class, its concrete class and another concrete class
  with the same namespace. Three sources make a repeated and an unnamed source
  possible next to another one; a backend that a field names and the manager lacks
  is `r` in the shorter ordering.
- *backends*: keyspaces of two and three fields, in which two fields have one
  environment variable and the lookup key of one is the namespace of another; a slot of
  no field; two values and two writes, so that a slot can be listed, lost and filled
  again, change its value twice, or be lost while another one is filled, during one call.
- *reading*: three classes make an abstract class, its concrete class and a rival or
  a slotted copy; two namespaces; one manager of one or two classes; two tasks, two
  contexts and two loads, which may overlap, share a context or fail, while
  classes are defined before, during and after them; the remembered read may come
  before, between or after the loads and in either context.

`CHECK_DEADLOCK FALSE` is set in every run: these systems may stop. Nobody has to
define another class, begin another load, or use a manager that is built.

**Fairness.** Only `LoadsEnd` needs it. `FairSpec` of `Loading` has weak fairness of `Reads(t)`
(a backend's call returns or raises, a child that was cancelled ends, and a load
whose children have ended goes on) and of `Distills(t)` (a task that distills, with no
`await`, goes on). That is what the thread or event loop provides as long as a
backend's call returns. Nothing is assumed of `Cancel`, `Write`, `SetCoercer`, of new
loads or of contexts. The code has no timeout of its own: a backend that never
returns holds its load up, and `LoadsEnd` says nothing of it. The run
`loading_coercer_race` uses the same specification for a counterexample that does not
rest on a load that stops.

## 4. What is proved

Every invariant and action property that a run checks, and both refinements, are
theorems: TLAPS checks them for every value of the constants that satisfies the
assumptions named in the modules. All that stays with TLC alone is listed at the end of
this section.

| Module | Theorem | States |
|---|---|---|
| `RegistryProofs` | `TypeCorrect` | `Spec => []TypeOK` |
| | `LookupsAlwaysAgree` | `Spec => []LookupsAgree` |
| | `NamespacesAreOwned` | `Spec => []NamespaceOwners` |
| | `NormalizingIsSound` | `Spec => []NormalizeSound` |
| | `ConcreteStaysStable` | `Spec => ConcreteIsStable` |
| `ConfigContextProofs` | `TypeCorrect` | `Spec => []TypeOK` |
| | `LoadsAreWhole` | `Spec => []WholeLoads` |
| | `LoadsHaveOneContext` | `Spec => []OneContextPerLoad` |
| | `LoadedStaysLoaded` | `Spec => StaysLoaded` |
| `LoadingProofs` | `TypeCorrect` | `Spec => []TypeOK` |
| | `RoutesAlwaysAnswered` | `Spec => []RoutesAnswered` |
| | `PublishesWhatWasVisible` | `Spec => PublishedWasVisible` |
| | `LoaderImplementsStore` | `Spec => ImplementsContexts` |
| | `LoaderKeepsPromises` | `WholeLoads`, `OneContextPerLoad` and `StaysLoaded` hold of the loader |
| `ConstructionProofs` | `TypeCorrect` | `Spec => []TypeOK` |
| | `RoutesAreDeclared` | `Spec => []RoutesFollowDeclarations` |
| | `KeyspacesAreTheRoutes` | `Spec => []KeyspacesMatchRoutes` |
| | `SecretsAreKept` | `Spec => []SecretsStayOut` |
| | `ArgumentsAreManaged` | `Spec => []EveryArgumentIsManaged` |
| `BackendsProofs` | `TypeCorrect` | `Spec => []TypeOK` |
| | `ErrorsAreCaused` | `Spec => []ErrorsHaveCause` |
| | `ReturnsWhatWasHeld` | `Spec => []ValuesWereHeld` |
| | `BackendsKeepPromise` | `Spec => ImplementsCall` |
| `ConfigReadingProofs` | `TypeCorrect` | `Spec => []TypeOK` |
| | `LoadedCanBeRead` | `Spec => []LoadedIsReadable` |
| | `ReadersNeverGoBack` | `Spec => []ReadersMoveForward` |
| | `ReadableStaysReadable` | `Spec => ConcreteStaysReadable` |
| | `AbstractReadsChange` | `Spec => AbstractReadsChangeForCause` |

In each module the inductive invariant is `IInv`, and `Inductive` is the
theorem `Spec => []IInv`; TLC checked each `IInv` on the instance of the component's run
before it was proved.

**`RegistryProofs`.** `LookupsAgree` and `NamespaceOwners` are not inductive. A class in a
table might not exist yet, and then defining it would change the ancestors by
which it was registered; its own config might be unset, and then it would
normalize as an abstract class; and leaving a context brings back a registry of
which nothing was known. `IInv` therefore states for one registry (`Consistent`)
that its tables agree *and* that each registered class exists and has a config,
and it states that of the active registry and of every shelved one. Definitions
only add ancestors to classes that had none, and decorations never unset a
config, so a consistent registry stays consistent while it is shelved
(`ConsistentPersists`). Inside the active one it comes down to a class that is
registered being refused (`RegisterConcreteConsistent`). Stability follows from the
tables only growing (`StepExtends`) and from the class's own config deciding
which table `normalize_config_cls()` looks into (`ConcreteNormalizes`).

**`ConfigContextProofs`.** The strengthening relates contexts to loads: every version in a
dict was used, the version of a load that still runs is in no dict, and no two running
loads share one. So when a load commits, its version is new everywhere, it
writes all of its classes at once, and it writes none of an uncontested set unless
it writes all of it.

**`LoadingProofs`.** What a load will publish is decided many steps before it does, so the
invariant says of each running load what it has so far: the backends in
its results have answered for all that they were asked, with values that were visible since
the load began (`Answered`); no class is distilled before all have answered
(`InOrder`); the classes built and those to do are together the manager's, and what
is built carries the load's number and values that precedence justifies (`Built`).
`NothingForgotten` says that the log and the history only grow, and what was visible or
justified stays so (`StaysVisible`, `StaysJustified`): that is what lets a value be
justified at `Decide` and published later, with any writes in between. For the
refinement, an instance is the load that made it; every step of a load before `Publish`
is a stutter of `ConfigContext` or its `Abandon`, and `Publish` is its `Commit` because
`Built` gives exactly the manager's classes. The theorems of `ConfigContextProofs` are
then taken over through an instance of that module (`LoaderKeepsPromises`).

**`ConstructionProofs`.** A route is a function of what the manager was given (`RouteOf`), so
half of the work is about lists and the other half about loops. `FilteredFacts`
(in `DictProofs`) says that filtering a list gives exactly its members in the set, in
their order; from it come the order of the named backends, of the others, and of the
route, of any length. `Routed` says that the loop accumulates `RouteOf` of the
fields routed so far, and in each keyspace exactly what these routes ask of its backend
(`Asks`). `Entered` gives each argument so far an entry, which a later argument of the
same namespace may have taken, and `Analyzed` says that the entries analyzed are
concrete: only when all arguments are in does that say something of the last ones.

**`BackendsProofs`.** The promise is about a call that returns, so the invariant says how
far a call that still reads has come (`Answering`): the fields with an answer are those
whose slot was listed and has been read, and each answer was in its own slot at some
instant. A field without an answer at the end was therefore not in the listing, and
the listing is the instant at which it had none. `ExpectedFacts` says that a slot
belongs to one field, the last one of the keyspace that has it. `Listing` says of an
iteration over the memory's dict that, as long as no key was added, what is ahead of it was
in the listing, the dict has only lost keys, and as many items are `left` as are ahead: so
an iteration that ends without noticing anything has lost none. When a key was added only
the other half is left, that each answer was in its own slot once, which is
`ValuesWereHeld`. For documents, what the code computes by namespace and
lookup key (`Get`) is proved to be what the document holds at the field's path
(`AtIsGet`).

**`ConfigReadingProofs`.** The registry and the contexts keep the invariants of
`RegistryProofs` and `ConfigContextProofs`, which are instantiated and not proved again.
`Tied` relates them through the managers: a managed class has a config, its own or an
inherited one, from which it follows that it normalizes to itself wherever it is
registered; whatever is loaded is managed; and the classes of an uncontested manager are
in a context together, from one load. A manager that is built later can only make a set
contested, and a new set that is uncontested shares no class with the managers before it,
so nothing of it is loaded yet. `Remembered` carries a read forward: every load that runs
after it, or begins later, is not among those that had ended, and so nothing that had ended
comes back into the context. For `AbstractReadsChange` each registration is taken
apart (`RegistrationKeepsLookups`): it writes one entry of `concrete_lookup`, for the class
that it registers and that was not registered before.

**The assumptions** are on the parameters: sentinels (`None`, `Missing`, `Idle`, ...) are not
values; a dict or a keyspace has a key once; bounds are numbers; what `Loading` takes from
`Construction` is typed, and its keyspaces name exactly the backends of its routes
(`KeyspaceAssumption`, which `KeyspacesAreTheRoutes` justifies); the slots that no field
has are finitely many. The bounds that keep TLC's state spaces finite remain parameters,
so the theorems hold for every number of loads, writes, arguments and sources.

**Recursion and induction.** The library's induction theorems cannot be used with the
installed provers, because they take an operator. The one recursive function of the
models, `Filtered` in `Dicts`, is proved about by its least counterexample instead:
`MinFacts` (from the well-foundedness of `<`) gives every non-empty set of numbers a
least one, `SetInduction` follows for *sets* of numbers, and `KeptExists` and
`FilteredFacts` apply it.

### What is only model-checked

- Liveness (`LoadsEnd`), which is out of the prover's reach, as is anything that needs
  `ENABLED`.
- The five disagreements of section 6, which are counterexamples and not theorems.

## 5. What is not modelled, and why

- Custom backends: `Loading` models any backend by the promise of `BackendCall`.
- Fields whose source has no lookup key, and lookup keys after the first, which the
  prebaked backends do not look at.
- When CPython lays a dict out anew: `Ahead` allows it at every addition during an
  iteration.
- A file that is half written: the states of a file are those in which it is read as
  a document or is `Unreadable`.
- Nested registries and more than one manager at a time in `ConfigReading`; they are in
  `Registry` and `ConfigContext`.
- Diamonds of config ancestors in `Registry`: bases share no ancestor.
- `__setattr__()` and `__delattr__()` of the manager: that they reject every name but
  `type_coercer` is the absence of actions on the others.
- Polling (not implemented in the code), `audit_configs()` (no state), logging,
  the wording of exceptions, annotations and metadata of fields.
- JSON and TOML syntax: a parsed document is what its paths hold.
- Which exception a load raises: a load that raises is abandoned, whatever it was.

## 6. What the code says and does not do

Each of these is a run whose property states what a line of the repository says,
and which TLC finds violated.

| Run | The code says | The code does |
|---|---|---|
| `registry_completeness` | `_registry.py:86`: `verify_completeness()` returns True when every abstract config has a concrete class. | It subtracts the abstract classes that have a concrete one from *all* classes, so concrete ones count as incomplete (`_registry.py:90`). |
| `registry_one_concrete` | `exceptions.py:19`: multiple concrete configs for one abstract class are refused. | It looks for the concrete class instead of the abstract one (`_registry.py:54`); the later class takes over. |
| `loading_coercer_race` | `manager.py:106`: "Can be updated after creating the config manager. Set to None to remove." (It does not say that this is safe while a load runs, nor that it is not.) | It is read for the test and again for the call (`manager.py:431`). |
| `construction_missing_backends` | `manager.py:157`: backends that fields require and the manager lacks are an error. | The check runs on keyspaces that were filtered by the existing backends (`manager.py:154`). One test relies on it: `tests_py/configatron.e2e.test.py:93` passes `backends={}` with a field whose source names a backend. |
| `backends_strangers` | `backends.py:44`: backends return all of the values that they have for the request. | The environment backend subtracts field descriptions from a set of variable names (`prebaked/backends/env_vars.py:59`), so any variable that belongs to no field makes it raise `KeyError`. |

Disagreements that were met while modelling and have no run of their own:

- `MemoryBackend` iterates over its live dict (`prebaked/backends/memory.py:59`). When
  another thread removes one entry and adds another between two items, the size is
  what it was, and the iteration can return without an entry that was there all the
  time, which `backends.py:44` excludes. This is why `ImplementsCall` sets calls
  apart whose dict gained a key (`Disturbed`): without that, TLC refutes it. The backend is
  meant for tests (`memory.py:43`), and async tasks of one event loop cannot interfere.
- A field without a value is logged with "Load will fail." (`manager.py:425`), but a
  dataclass default makes the load succeed; `Loading` models that (`Defaulted`).
- A source for every backend is searched after the named ones wherever it is declared
  (`manager.py:226`), while `_analysis.py:38` calls the list of sources ordered by
  precedence; `Precedes` in `Construction` states what the code does.
- A refused second decoration has already stored its namespace on the class
  (`cfg_concrete.py:39`), so two registered classes can come to share a namespace,
  which `exceptions.py:37` excludes. `EveryArgumentIsManaged` allows for it.
- An abstract class that is followed by its concrete class is overwritten
  (`manager.py:144`) before the check that only concrete classes are passed
  (`manager.py:175`). `EveryArgumentIsManaged` says what comes of it.
- Two fields can be coerced to one environment variable, and only the later one gets
  its value (`env_vars.py:53`); the docstring (`env_vars.py:34`) does not say so. The
  character class `[A-z]` also keeps `[`, `\`, `]`, `^` and the backquote
  (`env_vars.py:18`), which the docstring does not list; `Kept` is a constant of `Backends`.
- Of the abstract classes that a concrete class implements, only the parentmost gets a
  concrete class (`_registry.py:80`); the others raise `KeyError` when they are read.

## 7. Plan

Done, in this order: the registry and its proofs; the contexts and theirs; loading
and its refinement; construction; the promise of backends and the prebaked ones; the
composition that readers see; then the proofs of loading, of construction, of the
composition, and of the backends with their refinement.

Next, in order of importance:

1. The seams between components, which are assumptions today: that what `Construction`
   builds satisfies the assumptions of `Loading` (`ManagerAssumption`,
   `KeyspaceAssumption`), and that an answer that `BackendCall` allows is one that
   `Loading` accepts (`Result`).
2. The order of overlapping loads into one context (`manager.py:360`), the hazard that no
   property covers yet: what a reader can still be promised about the age of values.
3. Safety lemmas behind `LoadsEnd`: a measure that every step of a running load decreases,
   so that only the fairness argument stays with TLC.

The number of runs stays small: new ones replace those that a larger composition or
a proof makes redundant.
