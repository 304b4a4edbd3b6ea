--------------------------- MODULE ConstructionProofs --------------------------
(***************************************************************************)
(* Proofs about Construction.tla, for any classes, declarations, orderings  *)
(* and numbers of backends.                                                *)
(*                                                                         *)
(* The routes are a function of what the manager was given, which is        *)
(* followed down to the recursion that filters a list; the invariant says   *)
(* that the loops of the constructor accumulate exactly these routes.       *)
(***************************************************************************)
EXTENDS Construction, DictProofs

Entry_ == [namespace : {NamespaceOf[c] : c \in Class}, class : Class]

(* What the manager was given.                                             *)
Given ==
  /\ args \in Seq(Class)
  /\ decls \in [Field -> Declaration]
  /\ backends \in Orderings
  /\ allows \in [Backend -> SUBSET {"plaintext", "secret"}]

(* A namespace has one entry, and every argument so far has the entry of    *)
(* its namespace or was replaced there by a later argument.                 *)
Entered ==
  /\ accepted \in 0..Len(args)
  /\ classes \in Seq(Entry_)
  /\ \A n \in DOMAIN classes :
       classes[n].namespace = NamespaceOf[ConcreteOf[classes[n].class]]
  /\ \A m, n \in DOMAIN classes :
       classes[m].namespace = classes[n].namespace => m = n
  /\ \A i \in 1..accepted : \E n \in DOMAIN classes : \E k \in i..accepted :
       /\ classes[n].class = args[k]
       /\ classes[n].namespace = NamespaceOf[ConcreteOf[args[i]]]

(* Only concrete classes pass the analysis, which waits for all arguments.  *)
Analyzed ==
  /\ analyzed \in 0..Len(classes)
  /\ accepted < Len(args) => analyzed = 0
  /\ \A n \in 1..analyzed : IsConcrete(classes[n].class)
  /\ todo \in Seq(Field)
  /\ outcome \in {"running", "built", "ValueError", "MissingAbstractFields"}
  /\ outcome = "built" => accepted = Len(args) /\ analyzed = Len(classes)

(* What the routes so far ask backend b for.                               *)
Asks(b) ==
  {e \in [field : DOMAIN routes, key : 0..MaxSources] :
     \E s \in Range(RouteOf(e.field)) : s.backend = b /\ s.key = e.key}

(* The routes and the keyspaces say the same.                              *)
Routed ==
  /\ DOMAIN routes \subseteq Field
  /\ routes = [f \in DOMAIN routes |-> RouteOf(f)]
  /\ DOMAIN keyspaces = {b \in Backend : Asks(b) # {}}
  /\ keyspaces = [b \in DOMAIN keyspaces |-> Asks(b)]

IInv == Given /\ Entered /\ Analyzed /\ Routed

-------------------------------------------------------------------------------
(* A field has sources, at least the one for every backend.                *)
LEMMA SourcesFacts ==
  ASSUME Given, NEW f \in Field
  PROVE  sources(f) \in Seq(Source) /\ sources(f) # <<>>
<1> DEFINE none == <<[backend |-> None, key |-> 0]>>
<1>1. MaxSources \in Nat
  BY BoundAssumption
<1>2. decls[f].sources \in Sources
  BY DEF Given, Declaration
<1>3. PICK n \in 0..MaxSources : \E bs \in [1..n -> Backend \cup {None}] :
        decls[f].sources = [i \in 1..n |-> [backend |-> bs[i], key |-> i]]
  <2> DEFINE Declared(n) == {[i \in 1..n |-> [backend |-> bs[i], key |-> i]] :
                               bs \in [1..n -> Backend \cup {None}]}
  <2>1. \A n : decls[f].sources \in Declared(n) =>
                \E bs \in [1..n -> Backend \cup {None}] :
                  decls[f].sources = [i \in 1..n |-> [backend |-> bs[i], key |-> i]]
    OBVIOUS
  <2>2. decls[f].sources \in UNION {Declared(n) : n \in 0..MaxSources}
    BY <1>2 DEF Sources
  <2> HIDE DEF Declared
  <2>3. \E n \in 0..MaxSources : decls[f].sources \in Declared(n)
    BY <2>2
  <2>4. QED
    BY <2>1, <2>3
<1>4. PICK bs \in [1..n -> Backend \cup {None}] :
        decls[f].sources = [i \in 1..n |-> [backend |-> bs[i], key |-> i]]
  BY <1>3
<1>5. \A i \in 1..n : [backend |-> bs[i], key |-> i] \in Source
  BY <1>1, <1>3 DEF Source
<1>6. decls[f].sources \in Seq(Source)
  BY <1>1, <1>3, <1>4, <1>5
<1>7. none \in Seq(Source) /\ none # <<>>
  <2>1. [backend |-> None, key |-> 0] \in Source
    BY <1>1 DEF Source
  <2>2. QED
    BY <2>1
<1>8. QED
  BY <1>6, <1>7 DEF sources

(* The declaration names a backend where a source mentions it.              *)
LEMMA MentionsFacts ==
  ASSUME Given, NEW f \in Field
  PROVE  /\ \A b \in Backend \cup {None} : Mentions(f, b) \in SUBSET (1..Len(sources(f)))
         /\ \A b \in Backend :
              DeclaredAt(f, b) = IF Mentions(f, b) = {} THEN 0 ELSE Min(Mentions(f, b))
         /\ ForEveryBackend(f) <=>
              decls[f].sources = <<>> \/ DeclaredAt(f, None) # 0
<1> DEFINE declared == decls[f].sources
<1>1. sources(f) \in Seq(Source) /\ sources(f) # <<>>
  BY SourcesFacts
<1>2. DOMAIN sources(f) = 1..Len(sources(f)) /\ Len(sources(f)) \in Nat
  BY <1>1
<1>3. \A b \in Backend \cup {None} : Mentions(f, b) \in SUBSET (1..Len(sources(f)))
  BY <1>2 DEF Mentions
<1>4. CASE declared = <<>>
  <2>1. sources(f) = <<[backend |-> None, key |-> 0]>>
    BY <1>4 DEF sources
  <2>2. Len(sources(f)) = 1 /\ sources(f)[1].backend = None
    BY <2>1
  <2>3. Mentions(f, None) = {1}
    BY <1>2, <2>2 DEF Mentions
  <2>4. \A b \in Backend : Mentions(f, b) = {}
    BY <1>2, <2>2, NoneAssumption DEF Mentions
  <2>5. \A b \in Backend : DeclaredAt(f, b) = 0
    <3>1. Len(declared) = 0
      BY <1>4
    <3>2. QED
      BY <3>1 DEF DeclaredAt, SelectInSeq
  <2>6. QED
    BY <1>3, <1>4, <2>3, <2>4, <2>5 DEF ForEveryBackend
<1>5. CASE declared # <<>>
  <2>1. sources(f) = declared
    BY <1>5 DEF sources
  <2>2. \A b : Mentions(f, b) = {i \in 1..Len(declared) : declared[i].backend = b}
    BY <1>2, <2>1 DEF Mentions
  <2>3. \A b : DeclaredAt(f, b) = IF Mentions(f, b) = {} THEN 0 ELSE Min(Mentions(f, b))
    <3>1. TAKE b
    <3>2. Mentions(f, b) = {i \in 1..Len(declared) : declared[i].backend = b}
      BY <2>2
    <3>3. QED
      BY <3>2 DEF DeclaredAt, SelectInSeq
  <2>4. Mentions(f, None) # {} => Min(Mentions(f, None)) # 0
    <3>1. HAVE Mentions(f, None) # {}
    <3>2. Mentions(f, None) \in SUBSET Nat /\ Mentions(f, None) \in SUBSET (1..Len(sources(f)))
      BY <1>3
    <3>3. Min(Mentions(f, None)) \in Mentions(f, None)
      BY <3>1, <3>2, MinFacts
    <3>4. QED
      BY <3>2, <3>3
  <2>5. QED
    BY <1>3, <1>5, <2>3, <2>4 DEF ForEveryBackend
<1>6. QED
  BY <1>4, <1>5

(* The manager's backends are in its ordering, each once.                   *)
LEMMA ManagerFacts ==
  ASSUME Given
  PROVE  /\ backends \in Seq(Backend)
         /\ \A i \in 1..Len(backends) : ManagerAt(backends[i]) = i
         /\ \A b \in Backend : ManagerAt(b) # 0 <=> b \in Range(backends)
<1>1. backends \in Seq(Backend) /\ IsInjective(backends)
  BY OrderingsAssumption DEF Given
<1>2. DOMAIN backends = 1..Len(backends) /\ Len(backends) \in Nat
  BY <1>1
<1>3. \A i, j \in 1..Len(backends) : backends[i] = backends[j] => i = j
  BY <1>1, <1>2 DEF IsInjective
<1> DEFINE At(b) == {i \in 1..Len(backends) : backends[i] = b}
<1>4. \A b : ManagerAt(b) = IF At(b) # {} THEN Min(At(b)) ELSE 0
  BY DEF ManagerAt, SelectInSeq
<1>5. \A i \in 1..Len(backends) : ManagerAt(backends[i]) = i
  <2>1. TAKE i \in 1..Len(backends)
  <2>2. At(backends[i]) = {i}
    BY <1>3
  <2>3. {i} \in SUBSET Nat
    BY <1>2
  <2>4. Min({i}) = i
    BY <2>3, MinFacts
  <2>5. QED
    BY <1>4, <2>2, <2>4
<1>6. \A b \in Backend : ManagerAt(b) # 0 <=> b \in Range(backends)
  <2>1. TAKE b \in Backend
  <2>2. CASE b \in Range(backends)
    <3>1. PICK i \in 1..Len(backends) : b = backends[i]
      BY <1>2, <2>2 DEF Range
    <3>2. QED
      BY <1>2, <1>5, <2>2, <3>1
  <2>3. CASE b \notin Range(backends)
    <3>1. At(b) = {}
      BY <1>2, <2>3 DEF Range
    <3>2. QED
      BY <1>4, <2>3, <3>1
  <2>4. QED
    BY <2>2, <2>3
<1>7. QED
  BY <1>1, <1>5, <1>6

(* The named backends, each once, in the order in which they are declared.  *)
LEMMA NamedFacts ==
  ASSUME Given, NEW f \in Field
  PROVE  /\ NamedOrder(f) \in Seq(Backend)
         /\ \A b \in Backend :
              Mentions(f, b) # {} <=> \E n \in 1..Len(NamedOrder(f)) : NamedOrder(f)[n] = b
         /\ \A m, n \in 1..Len(NamedOrder(f)) : m < n =>
              DeclaredAt(f, NamedOrder(f)[m]) < DeclaredAt(f, NamedOrder(f)[n])
<1> DEFINE places == [i \in DOMAIN sources(f) |-> i]
           firsts == Filtered(places, FirstMentions(f))
           l == Len(sources(f))
<1>1. /\ l \in Nat /\ DOMAIN sources(f) = 1..l
      /\ \A i \in 1..l : sources(f)[i].backend \in Backend \cup {None}
  <2>1. sources(f) \in Seq(Source)
    BY SourcesFacts
  <2>2. \A x \in Source : x.backend \in Backend \cup {None}
    BY DEF Source
  <2>3. \A i \in 1..l : sources(f)[i] \in Source
    BY <2>1
  <2>4. l \in Nat /\ DOMAIN sources(f) = 1..l
    BY <2>1
  <2>5. QED
    BY <2>2, <2>3, <2>4
<1>2. \A b \in Backend \cup {None} :
        Mentions(f, b) = {i \in 1..l : sources(f)[i].backend = b}
  BY <1>1 DEF Mentions
<1>3. places \in Seq(1..l) /\ Len(places) = l /\ \A i \in 1..l : places[i] = i
  BY <1>1
<1> HIDE DEF places
<1>4. PICK at : Selects(at, firsts, places, FirstMentions(f))
  BY <1>3, FilteredFacts
<1>5. firsts \in Seq(1..l)
  BY <1>3, FilteredFacts
<1> HIDE DEF firsts
<1>6. Len(firsts) \in Nat /\ DOMAIN firsts = 1..Len(firsts)
  BY <1>5
<1>7. /\ \A j \in 1..Len(firsts) :
              at[j] \in 1..l /\ firsts[j] = at[j] /\ at[j] \in FirstMentions(f)
      /\ \A j, k \in 1..Len(firsts) : j < k => at[j] < at[k]
      /\ \A n \in 1..l : n \in FirstMentions(f) => \E j \in 1..Len(firsts) : at[j] = n
  BY <1>3, <1>4 DEF Selects
<1>8. NamedOrder(f) = [n \in 1..Len(firsts) |-> sources(f)[firsts[n]].backend]
  BY <1>6 DEF NamedOrder, firsts, places
<1>9. \A j \in 1..Len(firsts) : NamedOrder(f)[j] = sources(f)[at[j]].backend
  BY <1>7, <1>8
<1>10. \A j \in 1..Len(firsts) :
         /\ NamedOrder(f)[j] \in Backend
         /\ Mentions(f, NamedOrder(f)[j]) # {}
         /\ at[j] = Min(Mentions(f, NamedOrder(f)[j]))
  <2>1. TAKE j \in 1..Len(firsts)
  <2>2. /\ at[j] \in 1..l
        /\ sources(f)[at[j]].backend # None
        /\ at[j] = Min(Mentions(f, sources(f)[at[j]].backend))
    BY <1>7 DEF FirstMentions
  <2>3. sources(f)[at[j]].backend \in Backend
    BY <1>1, <2>2
  <2>4. at[j] \in Mentions(f, sources(f)[at[j]].backend)
    BY <1>2, <2>2, <2>3
  <2>5. QED
    BY <1>9, <2>2, <2>3, <2>4
<1>11. NamedOrder(f) \in Seq(Backend) /\ Len(NamedOrder(f)) = Len(firsts)
  BY <1>6, <1>8, <1>9, <1>10
<1>12. ASSUME NEW b \in Backend, Mentions(f, b) # {}
       PROVE  \E n \in 1..Len(firsts) : NamedOrder(f)[n] = b
  <2>1. Mentions(f, b) \in SUBSET Nat
    BY <1>1, <1>2
  <2>2. Min(Mentions(f, b)) \in Mentions(f, b)
    BY <1>12, <2>1, MinFacts
  <2>3. PICK i \in 1..l : i = Min(Mentions(f, b)) /\ sources(f)[i].backend = b
    BY <1>2, <2>2
  <2>4. i \in FirstMentions(f)
    BY <1>1, <2>3, NoneAssumption DEF FirstMentions
  <2>5. PICK j \in 1..Len(firsts) : at[j] = i
    BY <1>7, <2>4
  <2>6. QED
    BY <1>9, <2>3, <2>5
<1>13. ASSUME NEW m \in 1..Len(firsts), NEW n \in 1..Len(firsts), m < n
       PROVE  DeclaredAt(f, NamedOrder(f)[m]) < DeclaredAt(f, NamedOrder(f)[n])
  <2>1. \A j \in 1..Len(firsts) : DeclaredAt(f, NamedOrder(f)[j]) = at[j]
    BY <1>10, MentionsFacts
  <2>2. at[m] < at[n]
    BY <1>7, <1>13
  <2>3. QED
    BY <2>1, <2>2
<1>14. QED
  BY <1>10, <1>11, <1>12, <1>13

(* The other backends, in the manager's order.                             *)
LEMMA OtherFacts ==
  ASSUME Given, NEW f \in Field
  PROVE  /\ OtherOrder(f) \in Seq(Backend)
         /\ \A b \in Backend :
              (\E n \in 1..Len(OtherOrder(f)) : OtherOrder(f)[n] = b) <=>
                b \in Range(backends) /\ ForEveryBackend(f) /\ Mentions(f, b) = {}
         /\ \A m, n \in 1..Len(OtherOrder(f)) : m < n =>
              ManagerAt(OtherOrder(f)[m]) < ManagerAt(OtherOrder(f)[n])
<1> DEFINE others == {b \in Backend : ForEveryBackend(f) /\ Mentions(f, b) = {}}
           order == Filtered(backends, others)
<1>1. /\ backends \in Seq(Backend) /\ Len(backends) \in Nat
      /\ DOMAIN backends = 1..Len(backends)
      /\ \A i \in 1..Len(backends) : ManagerAt(backends[i]) = i
  <2>1. backends \in Seq(Backend)
    BY ManagerFacts
  <2>2. QED
    BY <2>1, ManagerFacts
<1>2. OtherOrder(f) = order
  BY DEF OtherOrder
<1> HIDE DEF others
<1>3. PICK at : Selects(at, order, backends, others)
  BY <1>1, FilteredFacts
<1>4. order \in Seq(Backend)
  BY <1>1, FilteredFacts
<1> HIDE DEF order
<1>5. \A j \in 1..Len(order) : ManagerAt(order[j]) = at[j]
  BY <1>1, <1>3 DEF Selects
<1>6. \A j, k \in 1..Len(order) : j < k => ManagerAt(order[j]) < ManagerAt(order[k])
  BY <1>3, <1>5 DEF Selects
<1>7. Range(backends) = {backends[i] : i \in 1..Len(backends)}
  BY <1>1 DEF Range
<1>8. \A b \in Backend :
        (\E n \in 1..Len(order) : order[n] = b) <=> b \in Range(backends) /\ b \in others
  <2>1. ASSUME NEW b \in Backend, NEW n \in 1..Len(order), order[n] = b
        PROVE  b \in Range(backends) /\ b \in others
    BY <1>3, <1>7, <2>1 DEF Selects
  <2>2. ASSUME NEW b \in Backend, b \in Range(backends), b \in others
        PROVE  \E n \in 1..Len(order) : order[n] = b
    <3>1. PICK i \in 1..Len(backends) : backends[i] = b
      BY <1>7, <2>2
    <3>2. PICK j \in 1..Len(order) : at[j] = i
      BY <1>3, <2>2, <3>1 DEF Selects
    <3>3. QED
      BY <1>3, <3>1, <3>2 DEF Selects
  <2>3. QED
    BY <2>1, <2>2
<1>9. QED
  BY <1>2, <1>4, <1>6, <1>8 DEF others

(* The backends to search for a field, if they support it, by precedence.   *)
LEMMA OrderFacts ==
  ASSUME Given, NEW f \in Field
  PROVE  /\ backend_ordering(f) \in Seq(Backend)
         /\ \A b \in Backend :
              (\E n \in 1..Len(backend_ordering(f)) : backend_ordering(f)[n] = b) <=>
                \/ Mentions(f, b) # {}
                \/ b \in Range(backends) /\ ForEveryBackend(f)
         /\ \A m, n \in 1..Len(backend_ordering(f)) : m < n =>
              Precedes(f, backend_ordering(f)[m], backend_ordering(f)[n])
<1> DEFINE named == NamedOrder(f)
           other == OtherOrder(f)
           order == backend_ordering(f)
           d == Len(named)
<1>1. /\ named \in Seq(Backend)
      /\ \A b \in Backend : Mentions(f, b) # {} <=> \E n \in 1..Len(named) : named[n] = b
      /\ \A m, n \in 1..Len(named) : m < n => DeclaredAt(f, named[m]) < DeclaredAt(f, named[n])
  BY NamedFacts
<1>2. /\ other \in Seq(Backend)
      /\ \A b \in Backend :
           (\E n \in 1..Len(other) : other[n] = b) <=>
             b \in Range(backends) /\ ForEveryBackend(f) /\ Mentions(f, b) = {}
      /\ \A m, n \in 1..Len(other) : m < n => ManagerAt(other[m]) < ManagerAt(other[n])
  BY OtherFacts
<1>3. order = named \o other
  BY DEF backend_ordering
<1> HIDE DEF named, other, order
<1>4. /\ d \in Nat /\ Len(other) \in Nat
      /\ order \in Seq(Backend) /\ Len(order) = d + Len(other)
      /\ \A n \in 1..d : order[n] = named[n] /\ named[n] \in Backend /\ n \in 1..Len(order)
      /\ \A n \in 1..Len(other) : order[d + n] = other[n] /\ other[n] \in Backend
                                    /\ d + n \in 1..Len(order)
  BY <1>1, <1>2, <1>3
<1> HIDE DEF d
<1>5. \A n \in 1..Len(order) : n \in 1..d \/ (n - d \in 1..Len(other) /\ d + (n - d) = n)
  BY <1>4
<1>6. \A n \in 1..d : DeclaredAt(f, order[n]) \in Nat \ {0}
  <2>1. TAKE n \in 1..d
  <2>2. order[n] \in Backend /\ Mentions(f, order[n]) # {}
    BY <1>1, <1>4 DEF d
  <2>3. Mentions(f, order[n]) \in SUBSET (1..Len(sources(f)))
    BY <2>2, MentionsFacts
  <2>4. Min(Mentions(f, order[n])) \in Mentions(f, order[n])
    <3>1. Mentions(f, order[n]) \in SUBSET Nat
      BY <2>3
    <3>2. QED
      BY <2>2, <3>1, MinFacts
  <2>5. DeclaredAt(f, order[n]) = Min(Mentions(f, order[n]))
    BY <2>2, MentionsFacts
  <2>6. Min(Mentions(f, order[n])) \in 1..Len(sources(f))
    BY <2>3, <2>4
  <2>7. QED
    BY <2>5, <2>6
<1>7. \A n \in 1..Len(other) : DeclaredAt(f, order[d + n]) = 0
  BY <1>2, <1>4, MentionsFacts
<1>8. ASSUME NEW m \in 1..Len(order), NEW n \in 1..Len(order), m < n
      PROVE  Precedes(f, order[m], order[n])
  <2>1. CASE m \in 1..d /\ n \in 1..d
    <3>1. DeclaredAt(f, order[m]) < DeclaredAt(f, order[n])
      BY <1>1, <1>4, <1>8, <2>1 DEF d
    <3>2. DeclaredAt(f, order[m]) # 0
      BY <1>6, <2>1
    <3>3. QED
      BY <3>1, <3>2 DEF Precedes
  <2>2. CASE m \in 1..d /\ n \notin 1..d
    <3>1. DeclaredAt(f, order[m]) # 0 /\ DeclaredAt(f, order[n]) = 0
      <4>1. DeclaredAt(f, order[m]) # 0
        BY <1>6, <2>2
      <4>2. DeclaredAt(f, order[n]) = 0
        BY <1>5, <1>7, <2>2
      <4>3. QED
        BY <4>1, <4>2
    <3>2. QED
      BY <3>1 DEF Precedes
  <2>3. CASE m \notin 1..d
    <3> DEFINE i == m - d
               k == n - d
    <3>1. i \in 1..Len(other) /\ k \in 1..Len(other) /\ i < k /\ d + i = m /\ d + k = n
      BY <1>4, <1>8, <2>3
    <3> HIDE DEF i, k
    <3>2. ManagerAt(order[m]) < ManagerAt(order[n])
      BY <1>2, <1>4, <3>1
    <3>3. DeclaredAt(f, order[m]) = 0 /\ DeclaredAt(f, order[n]) = 0
      BY <1>7, <3>1
    <3>4. QED
      BY <3>2, <3>3 DEF Precedes
  <2>4. QED
    BY <2>1, <2>2, <2>3
<1>9. \A b \in Backend :
        (\E n \in 1..Len(order) : order[n] = b) <=>
          (\E n \in 1..d : named[n] = b) \/ (\E n \in 1..Len(other) : other[n] = b)
  <2>1. TAKE b \in Backend
  <2>2. ASSUME NEW n \in 1..Len(order), order[n] = b
        PROVE  (\E i \in 1..d : named[i] = b) \/ (\E i \in 1..Len(other) : other[i] = b)
    BY <1>4, <1>5, <2>2
  <2>3. QED
    BY <1>4, <2>2
<1>10. QED
  BY <1>1, <1>2, <1>4, <1>8, <1>9 DEF d, order

(* Every backend to search has a source.                                   *)
LEMMA SourceForFacts ==
  ASSUME Given, NEW f \in Field, NEW b \in Backend,
         Mentions(f, b) # {} \/ ForEveryBackend(f)
  PROVE  SourceFor(f, b) \in Source
<1>1. /\ sources(f) \in Seq(Source) /\ Len(sources(f)) \in Nat
      /\ \A i \in 1..Len(sources(f)) : sources(f)[i] \in Source
  <2>1. sources(f) \in Seq(Source)
    BY SourcesFacts
  <2>2. QED
    BY <2>1
<1>2. \A x \in {b, None} : Mentions(f, x) \in SUBSET (1..Len(sources(f)))
  BY MentionsFacts
<1>3. CASE Mentions(f, b) # {}
  <2>1. Mentions(f, b) \in SUBSET (0..Len(sources(f)))
    BY <1>1, <1>2
  <2>2. Max(Mentions(f, b)) \in Mentions(f, b)
    BY <1>1, <1>3, <2>1, MaxFacts
  <2>3. QED
    BY <1>1, <1>2, <1>3, <2>2 DEF SourceFor
<1>4. CASE Mentions(f, b) = {}
  <2>1. Mentions(f, None) # {} /\ Mentions(f, None) \in SUBSET Nat
    BY <1>1, <1>2, <1>4 DEF ForEveryBackend
  <2>2. Min(Mentions(f, None)) \in Mentions(f, None)
    BY <2>1, MinFacts
  <2>3. QED
    BY <1>1, <1>2, <1>4, <2>2 DEF SourceFor
<1>5. QED
  BY <1>3, <1>4

(* The route has the backends of the ordering that the manager has and that *)
(* take the field, in the same order.                                      *)
LEMMA RouteFacts ==
  ASSUME Given, NEW f \in Field
  PROVE  /\ RouteOf(f) \in Seq(Source)
         /\ \A n \in 1..Len(RouteOf(f)) : RouteOf(f)[n].backend \in Backend
         /\ \A b \in Backend :
              (\E n \in 1..Len(RouteOf(f)) : RouteOf(f)[n].backend = b) <=>
                /\ b \in supported_backends(f)
                /\ Mentions(f, b) # {} \/ ForEveryBackend(f)
         /\ \A m, n \in 1..Len(RouteOf(f)) : m < n =>
              Precedes(f, RouteOf(f)[m].backend, RouteOf(f)[n].backend)
<1> DEFINE order == backend_ordering(f)
           kept == Filtered(order, supported_backends(f))
           Wanted(b) == Mentions(f, b) # {} \/ ForEveryBackend(f)
<1>1. /\ order \in Seq(Backend)
      /\ \A b \in Backend : b \in Range(backends) =>
           ((\E n \in 1..Len(order) : order[n] = b) <=> Wanted(b))
      /\ \A n \in 1..Len(order) : Wanted(order[n])
      /\ \A m, n \in 1..Len(order) : m < n => Precedes(f, order[m], order[n])
  <2>1. order \in Seq(Backend)
    BY OrderFacts
  <2>2. \A n \in 1..Len(order) : order[n] \in Backend
    BY <2>1
  <2>3. \A b \in Backend : (\E n \in 1..Len(order) : order[n] = b) <=>
          Mentions(f, b) # {} \/ (b \in Range(backends) /\ ForEveryBackend(f))
    BY OrderFacts
  <2>4. \A m, n \in 1..Len(order) : m < n => Precedes(f, order[m], order[n])
    BY OrderFacts
  <2> HIDE DEF order
  <2>5. QED
    BY <2>1, <2>2, <2>3, <2>4
<1>2. RouteOf(f) = [i \in DOMAIN kept |-> [backend |-> kept[i], key |-> SourceFor(f, kept[i]).key]]
  BY DEF RouteOf
<1> HIDE DEF order
<1>3. PICK at : Selects(at, kept, order, supported_backends(f))
  BY <1>1, FilteredFacts
<1>4. kept \in Seq(Backend)
  BY <1>1, FilteredFacts
<1> HIDE DEF kept
<1>5. /\ \A j \in 1..Len(kept) :
           at[j] \in 1..Len(order) /\ kept[j] = order[at[j]] /\ kept[j] \in supported_backends(f)
      /\ \A j, k \in 1..Len(kept) : j < k => at[j] < at[k]
      /\ \A n \in 1..Len(order) : order[n] \in supported_backends(f) =>
           \E j \in 1..Len(kept) : kept[j] = order[n]
  BY <1>3 DEF Selects
<1>6. /\ Len(kept) \in Nat /\ DOMAIN kept = 1..Len(kept)
      /\ \A j \in 1..Len(kept) : kept[j] \in Backend
  BY <1>4
<1>7. \A j \in 1..Len(kept) : Wanted(kept[j])
  BY <1>1, <1>5
<1>8. \A j \in 1..Len(kept) : SourceFor(f, kept[j]).key \in 0..MaxSources
  <2>1. \A j \in 1..Len(kept) : SourceFor(f, kept[j]) \in Source
    BY <1>6, <1>7, SourceForFacts
  <2>2. \A x \in Source : x.key \in 0..MaxSources
    BY DEF Source
  <2>3. QED
    BY <2>1, <2>2
<1>9. \A j \in 1..Len(kept) : /\ RouteOf(f)[j] \in Source
                              /\ RouteOf(f)[j].backend = kept[j]
  BY <1>2, <1>6, <1>8 DEF Source
<1>10. RouteOf(f) \in Seq(Source) /\ Len(RouteOf(f)) = Len(kept)
  BY <1>2, <1>6, <1>9
<1>11. \A b \in Backend : (\E n \in 1..Len(kept) : kept[n] = b) <=>
         b \in supported_backends(f) /\ Wanted(b)
  <2>1. TAKE b \in Backend
  <2>2. ASSUME b \in supported_backends(f), Wanted(b)
        PROVE  \E n \in 1..Len(kept) : kept[n] = b
    <3>1. b \in Range(backends)
      BY <2>2 DEF supported_backends
    <3>2. PICK n \in 1..Len(order) : order[n] = b
      BY <1>1, <2>2, <3>1
    <3>3. QED
      BY <1>5, <2>2, <3>2
  <2> HIDE DEF Wanted
  <2>3. QED
    BY <1>5, <1>7, <2>2
<1>12. \A m, n \in 1..Len(kept) : m < n => Precedes(f, kept[m], kept[n])
  BY <1>1, <1>5
<1>13. QED
  BY <1>6, <1>9, <1>10, <1>11, <1>12

(* What the manager was given does not change, and neither do the routes    *)
(* that it calls for.                                                      *)
LEMMA GivenStays ==
  ASSUME Given, UNCHANGED given
  PROVE  Given' /\ \A f : RouteOf(f)' = RouteOf(f)
<1> USE DEF given
<1>1. Given'
  BY DEF Given
<1>2. \A f : sources(f)' = sources(f)
  BY DEF sources
<1>3. \A f, b : Mentions(f, b)' = Mentions(f, b)
  BY <1>2 DEF Mentions
<1>4. \A f : NamedOrder(f)' = NamedOrder(f)
  <2>1. \A f : FirstMentions(f)' = FirstMentions(f)
    BY <1>2, <1>3 DEF FirstMentions
  <2>2. QED
    BY <1>2, <2>1 DEF NamedOrder
<1>5. \A f : OtherOrder(f)' = OtherOrder(f)
  BY <1>3 DEF OtherOrder, ForEveryBackend
<1>6. \A f : backend_ordering(f)' = backend_ordering(f)
  BY <1>4, <1>5 DEF backend_ordering
<1>7. \A f : supported_backends(f)' = supported_backends(f)
  BY DEF supported_backends, flavor
<1>8. \A f, b : SourceFor(f, b)' = SourceFor(f, b)
  BY <1>2, <1>3 DEF SourceFor
<1>9. \A f : RouteOf(f)' = RouteOf(f)
  BY <1>6, <1>7, <1>8 DEF RouteOf
<1>10. QED
  BY <1>1, <1>9

-------------------------------------------------------------------------------
(* now is old with the entry e at the place of its namespace.               *)
Enters(at, old, now, e) ==
  /\ at \in DOMAIN now
  /\ now[at] = e
  /\ \A n \in DOMAIN now : n # at =>
       n \in DOMAIN old /\ now[n] = old[n] /\ old[n].namespace # e.namespace
  /\ \A n \in DOMAIN old :
       n \in DOMAIN now /\ (n = at => old[n].namespace = e.namespace)

(* Entering a class leaves the namespace with this one entry, where it was,  *)
(* and the other entries where they were.                                  *)
LEMMA EnterFacts ==
  ASSUME classes \in Seq(Entry_), NEW e \in Entry_,
         \A m, n \in DOMAIN classes : classes[m].namespace = classes[n].namespace => m = n
  PROVE  /\ Enter(e) \in Seq(Entry_)
         /\ \E at : Enters(at, classes, Enter(e), e)
<1> DEFINE l == Len(classes)
           I == {n \in 1..l : classes[n].namespace = e.namespace}
           at == IF I # {} THEN Min(I) ELSE 0
<1>1. l \in Nat /\ DOMAIN classes = 1..l /\ \A n \in 1..l : classes[n] \in Entry_
  OBVIOUS
<1>2. Enter(e) = IF at = 0 THEN Append(classes, e) ELSE [classes EXCEPT ![at] = e]
  BY DEF Enter, SelectInSeq
<1>3. CASE I = {}
  <2>1. Enter(e) = Append(classes, e)
    BY <1>2, <1>3
  <2>2. /\ Enter(e) \in Seq(Entry_) /\ DOMAIN Enter(e) = 1..(l + 1)
        /\ Enter(e)[l + 1] = e
        /\ \A n \in 1..l : Enter(e)[n] = classes[n]
    BY <1>1, <2>1
  <2>3. \A n \in 1..(l + 1) : n # l + 1 => n \in 1..l
    BY <1>1
  <2>4. \A n \in 1..l : n \in 1..(l + 1) /\ n # l + 1 /\ classes[n].namespace # e.namespace
    BY <1>1, <1>3
  <2>5. l + 1 \in 1..(l + 1)
    BY <1>1
  <2>6. Enters(l + 1, classes, Enter(e), e)
    BY <1>1, <2>2, <2>3, <2>4, <2>5 DEF Enters
  <2>7. QED
    BY <2>2, <2>6
<1>4. CASE I # {}
  <2>1. I \in SUBSET Nat /\ 0 \notin I
    BY <1>1
  <2>2. at \in I
    <3> HIDE DEF I
    <3>1. Min(I) \in I
      BY <1>4, <2>1, MinFacts
    <3>2. QED
      BY <1>4, <3>1
  <2>3. at \in 1..l /\ classes[at].namespace = e.namespace /\ at # 0
    BY <2>1, <2>2
  <2> HIDE DEF at, I
  <2>4. Enter(e) = [classes EXCEPT ![at] = e]
    BY <1>2, <2>3
  <2>5. /\ Enter(e) \in Seq(Entry_) /\ DOMAIN Enter(e) = 1..l
        /\ Enter(e)[at] = e
        /\ \A n \in 1..l : n # at => Enter(e)[n] = classes[n]
    BY <1>1, <2>3, <2>4
  <2>6. \A n \in 1..l : n # at => classes[n].namespace # e.namespace
    BY <1>1, <2>3
  <2>7. Enters(at, classes, Enter(e), e)
    BY <1>1, <2>3, <2>5, <2>6 DEF Enters
  <2>8. QED
    BY <2>5, <2>7
<1>5. QED
  BY <1>3, <1>4

-------------------------------------------------------------------------------
(* The initial states, and each step.                                      *)
LEMMA InitHolds == Init => IInv
<1> SUFFICES ASSUME Init PROVE IInv
  OBVIOUS
<1>1. Given
  <2>1. args \in Seq(Class)
    BY BoundAssumption DEF Init
  <2>2. decls \in [Field -> Declaration]
    BY DeclarationsAssumption DEF Init
  <2>3. QED
    BY <2>1, <2>2 DEF Init, Given
<1>2. Entered
  BY <1>1 DEF Init, Entered, Given
<1>3. Analyzed
  BY DEF Init, Analyzed
<1>4. Routed
  <2>1. DOMAIN routes = {} /\ routes = [f \in {} |-> RouteOf(f)]
    BY DEF Init, EmptyDict
  <2>2. \A b : Asks(b) = {}
    BY <2>1 DEF Asks
  <2>3. DOMAIN keyspaces = {} /\ keyspaces = [b \in {} |-> Asks(b)]
    BY DEF Init, EmptyDict
  <2>4. QED
    BY <2>1, <2>2, <2>3 DEF Routed
<1>5. QED
  BY <1>1, <1>2, <1>3, <1>4 DEF IInv

(* Nothing but a route in the making changes the keyspaces.                 *)
LEMMA RoutedStays ==
  ASSUME Given, Routed, UNCHANGED given, UNCHANGED <<routes, keyspaces>>
  PROVE  Routed'
<1>1. \A f : RouteOf(f)' = RouteOf(f)
  BY GivenStays
<1>2. \A b : Asks(b)' = Asks(b)
  BY <1>1 DEF Asks
<1>3. QED
  BY <1>1, <1>2 DEF Routed

(* __init__() takes the next argument.                                     *)
LEMMA AcceptStep == IInv /\ AcceptClass => IInv'
<1> SUFFICES ASSUME IInv, AcceptClass PROVE IInv'
  OBVIOUS
<1> USE DEF IInv
<1>1. Given' /\ Routed'
  BY GivenStays, RoutedStays DEF AcceptClass
<1> DEFINE new == Entry(args[accepted + 1])
           a == accepted + 1
<1>2. /\ accepted \in Nat /\ Len(args) \in Nat /\ a \in 1..Len(args)
      /\ accepted' = a /\ args' = args
      /\ classes' = Enter(new)
  BY DEF AcceptClass, Entered, Given, given
<1>3. /\ new \in Entry_ /\ new.class = args[a]
      /\ new.namespace = NamespaceOf[ConcreteOf[args[a]]]
  <2>1. args[a] \in Class
    BY <1>2 DEF Given
  <2>2. ConcreteOf[args[a]] \in Class
    BY <2>1, ConcreteAssumption
  <2>3. QED
    BY <2>1, <2>2 DEF Entry, Entry_
<1> HIDE DEF new
<1>4. /\ classes \in Seq(Entry_)
      /\ \A n \in DOMAIN classes :
           classes[n].namespace = NamespaceOf[ConcreteOf[classes[n].class]]
      /\ \A m, n \in DOMAIN classes :
           classes[m].namespace = classes[n].namespace => m = n
      /\ \A i \in 1..accepted : \E n \in DOMAIN classes : \E k \in i..accepted :
           /\ classes[n].class = args[k]
           /\ classes[n].namespace = NamespaceOf[ConcreteOf[args[i]]]
  BY DEF Entered
<1>5. classes' \in Seq(Entry_)
  BY <1>2, <1>3, <1>4, EnterFacts
<1>6. PICK at : Enters(at, classes, classes', new)
  BY <1>2, <1>3, <1>4, EnterFacts
<1>7. \A n \in DOMAIN classes' :
        classes'[n].namespace = NamespaceOf[ConcreteOf[classes'[n].class]]
  BY <1>3, <1>4, <1>6 DEF Enters
<1>8. \A m, n \in DOMAIN classes' :
        classes'[m].namespace = classes'[n].namespace => m = n
  BY <1>4, <1>6 DEF Enters
<1>9. \A i \in 1..a : \E n \in DOMAIN classes' : \E k \in i..a :
        /\ classes'[n].class = args[k]
        /\ classes'[n].namespace = NamespaceOf[ConcreteOf[args[i]]]
  <2>1. TAKE i \in 1..a
  <2>2. CASE i = a
    <3>1. a \in i..a
      BY <1>2, <2>2
    <3>2. QED
      BY <1>3, <1>6, <2>2, <3>1 DEF Enters
  <2>3. CASE i # a
    <3>1. i \in 1..accepted
      BY <1>2, <2>3
    <3>2. PICK n \in DOMAIN classes, k \in i..accepted :
            /\ classes[n].class = args[k]
            /\ classes[n].namespace = NamespaceOf[ConcreteOf[args[i]]]
      BY <1>4, <3>1
    <3>3. CASE n = at
      <4>1. new.namespace = NamespaceOf[ConcreteOf[args[i]]]
        BY <1>6, <3>2, <3>3 DEF Enters
      <4>2. a \in i..a
        BY <1>2
      <4>3. QED
        BY <1>3, <1>6, <4>1, <4>2 DEF Enters
    <3>4. CASE n # at
      <4>1. n \in DOMAIN classes' /\ classes'[n] = classes[n]
        BY <1>6, <3>2, <3>4 DEF Enters
      <4>2. k \in i..a
        BY <1>2, <3>1
      <4>3. QED
        BY <3>2, <4>1, <4>2
    <3>5. QED
      BY <3>3, <3>4
  <2>4. QED
    BY <2>2, <2>3
<1>10. Entered'
  <2>1. accepted' \in 0..Len(args')
    BY <1>2
  <2> HIDE DEF a
  <2>2. QED
    BY <1>2, <1>5, <1>7, <1>8, <1>9, <2>1 DEF Entered
<1>11. Analyzed'
  <2>1. analyzed = 0 /\ analyzed' = 0 /\ Len(classes') \in Nat
    BY <1>5 DEF Analyzed, AcceptClass
  <2>2. QED
    BY <2>1 DEF Analyzed, AcceptClass
<1>12. QED
  BY <1>1, <1>10, <1>11

(* A refusal, or the end, changes only the outcome.                         *)
LEMMA OutcomeStep == IInv /\ (RefuseAbstract \/ RefuseIncomplete \/ Finish) => IInv'
<1> SUFFICES ASSUME IInv, RefuseAbstract \/ RefuseIncomplete \/ Finish PROVE IInv'
  OBVIOUS
<1> USE DEF IInv
<1>1. /\ UNCHANGED <<given, accepted, classes, analyzed, todo, routes, keyspaces>>
      /\ \/ outcome' \in {"ValueError", "MissingAbstractFields"}
         \/ outcome' = "built" /\ accepted = Len(args) /\ analyzed = Len(classes)
         \/ outcome' = "ValueError"
  BY DEF RefuseAbstract, RefuseIncomplete, Finish
<1>2. Given' /\ Routed'
  BY <1>1, GivenStays, RoutedStays
<1>3. Entered'
  BY <1>1 DEF Entered, given
<1>4. Analyzed'
  BY <1>1 DEF Analyzed, given
<1>5. QED
  BY <1>2, <1>3, <1>4

(* The fields of the next class are to be routed.                          *)
LEMMA AnalyzeStep == IInv /\ Analyze => IInv'
<1> SUFFICES ASSUME IInv, Analyze PROVE IInv'
  OBVIOUS
<1> USE DEF IInv
<1>1. Given' /\ Routed'
  BY GivenStays, RoutedStays DEF Analyze
<1>2. Entered'
  BY DEF Entered, Analyze, given
<1>3. Analyzed'
  <2>1. /\ analyzed \in 0..Len(classes) /\ Len(classes) \in Nat /\ analyzed < Len(classes)
        /\ accepted = Len(args) /\ analyzed' = analyzed + 1 /\ classes' = classes
        /\ accepted' = accepted /\ args' = args
        /\ IsConcrete(classes[analyzed + 1].class)
        /\ todo' = todo \o FieldsOf[classes[analyzed + 1].class]
        /\ outcome' = outcome /\ outcome = "running"
    BY DEF Analyze, Analyzing, NextClass, Analyzed, Entered, given
  <2>2. classes[analyzed + 1].class \in Class
    <3>1. classes \in Seq(Entry_) /\ analyzed + 1 \in 1..Len(classes)
      BY <2>1 DEF Entered
    <3>2. classes[analyzed + 1] \in Entry_
      BY <3>1
    <3>3. QED
      BY <3>2 DEF Entry_
  <2>3. todo' \in Seq(Field)
    BY <2>1, <2>2, FieldsAssumption DEF Analyzed
  <2>4. \A n \in 1..(analyzed + 1) : n \in 1..analyzed \/ n = analyzed + 1
    BY <2>1
  <2>5. \A n \in 1..analyzed' : IsConcrete(classes'[n].class)
    BY <2>1, <2>4 DEF Analyzed, IsConcrete
  <2>6. QED
    BY <2>1, <2>3, <2>5 DEF Analyzed
<1>4. QED
  BY <1>1, <1>2, <1>3

(* The next field gets its route, and its backends the field.              *)
LEMMA RouteStep == IInv /\ RouteField => IInv'
<1> SUFFICES ASSUME IInv, RouteField PROVE IInv'
  OBVIOUS
<1> USE DEF IInv
<1>1. PICK f : f = Head(todo)
  OBVIOUS
<1>2. PICK R : R = Range(RouteOf(f))
  OBVIOUS
<1>3. f \in Field /\ todo' \in Seq(Field)
  BY <1>1, TailFacts DEF RouteField, Analyzed
<1>4. \A s \in R : s.backend \in Backend /\ s.key \in 0..MaxSources
  <2>1. RouteOf(f) \in Seq(Source)
        /\ \A n \in 1..Len(RouteOf(f)) : RouteOf(f)[n].backend \in Backend
    BY <1>3, RouteFacts
  <2>2. \A s \in R : \E n \in 1..Len(RouteOf(f)) : s = RouteOf(f)[n] /\ s \in Source
    BY <1>2, <2>1 DEF Range
  <2>3. QED
    BY <2>1, <2>2 DEF Source
<1>5. Given' /\ Entered' /\ Analyzed'
  <2>1. Given' /\ Entered'
    BY GivenStays DEF RouteField, Entered, given
  <2>2. Analyzed'
    BY <1>3 DEF RouteField, Analyzed, given
  <2>3. QED
    BY <2>1, <2>2
<1>6. \A g : RouteOf(g)' = RouteOf(g)
  BY GivenStays DEF RouteField
<1>7. routes' = Put(routes, f, RouteOf(f))
  BY <1>1 DEF RouteField
<1>8. /\ DOMAIN routes' = DOMAIN routes \cup {f}
      /\ routes' = [g \in DOMAIN routes' |-> RouteOf(g)']
  BY <1>6, <1>7 DEF Put, Routed
<1> DEFINE New(b) == {[field |-> f, key |-> s.key] : s \in {r \in R : r.backend = b}}
           B == {s.backend : s \in R}
           Old(b) == IF b \in DOMAIN keyspaces THEN keyspaces[b] ELSE {}
<1>9. keyspaces' = Update(keyspaces, [b \in B |-> Old(b) \cup New(b)])
  BY <1>1, <1>2 DEF RouteField, AddToKeyspaces, AskedIn
<1>10. \A b \in Backend : Old(b) = Asks(b)
  BY DEF Routed
<1>11. \A b : Asks(b)' = Asks(b) \cup New(b)
  <2>1. TAKE b
  <2>2. Asks(b)' = {e \in [field : DOMAIN routes \cup {f}, key : 0..MaxSources] :
                      \E s \in Range(RouteOf(e.field)) : s.backend = b /\ s.key = e.key}
    BY <1>6, <1>8 DEF Asks
  <2>3. ASSUME NEW e \in [field : DOMAIN routes \cup {f}, key : 0..MaxSources],
               \E s \in Range(RouteOf(e.field)) : s.backend = b /\ s.key = e.key
        PROVE  e \in Asks(b) \cup New(b)
    <3>1. CASE e.field \in DOMAIN routes
      BY <2>3, <3>1 DEF Asks
    <3>2. CASE e.field = f
      <4>1. PICK s \in R : s.backend = b /\ s.key = e.key
        BY <1>2, <2>3, <3>2
      <4>2. e = [field |-> f, key |-> s.key]
        BY <3>2, <4>1
      <4>3. QED
        BY <4>1, <4>2
    <3>3. QED
      BY <3>1, <3>2
  <2>4. ASSUME NEW e \in New(b)
        PROVE  /\ e \in [field : DOMAIN routes \cup {f}, key : 0..MaxSources]
               /\ \E s \in Range(RouteOf(e.field)) : s.backend = b /\ s.key = e.key
    <3>1. PICK s \in R : s.backend = b /\ e = [field |-> f, key |-> s.key]
      OBVIOUS
    <3>2. e.field = f /\ e.key = s.key /\ s.key \in 0..MaxSources
      BY <1>4, <3>1
    <3>3. QED
      BY <1>2, <3>1, <3>2
  <2>5. Asks(b) \subseteq Asks(b)'
    BY <2>2 DEF Asks
  <2> HIDE DEF New
  <2>6. QED
    BY <2>2, <2>3, <2>4, <2>5
<1>12. /\ B \subseteq Backend
       /\ \A b : New(b) # {} <=> b \in B
  BY <1>4
<1> HIDE DEF New, B, Old
<1>13. /\ DOMAIN keyspaces' = DOMAIN keyspaces \cup B
       /\ keyspaces' = [b \in DOMAIN keyspaces \cup B |->
                          IF b \in B THEN Old(b) \cup New(b) ELSE keyspaces[b]]
  BY <1>9 DEF Update
<1>14. DOMAIN keyspaces = {b \in Backend : Asks(b) # {}}
  BY DEF Routed
<1>15. DOMAIN keyspaces' = {b \in Backend : Asks(b)' # {}}
  BY <1>11, <1>12, <1>13, <1>14
<1>16. \A b \in DOMAIN keyspaces \cup B :
         (IF b \in B THEN Old(b) \cup New(b) ELSE keyspaces[b]) = Asks(b)'
  <2>1. TAKE b \in DOMAIN keyspaces \cup B
  <2>2. CASE b \in B
    BY <1>10, <1>11, <1>12, <2>2
  <2>3. CASE b \notin B
    <3>1. keyspaces[b] = Asks(b) /\ New(b) = {}
      BY <1>12, <2>3 DEF Routed
    <3>2. QED
      BY <1>11, <2>3, <3>1
  <2>4. QED
    BY <2>2, <2>3
<1>17. keyspaces' = [b \in DOMAIN keyspaces' |-> Asks(b)']
  BY <1>13, <1>16
<1>18. Routed'
  <2>1. DOMAIN routes' \subseteq Field
    BY <1>3, <1>8 DEF Routed
  <2>2. QED
    BY <1>8, <1>15, <1>17, <2>1 DEF Routed
<1>19. QED
  BY <1>5, <1>18

(* IInv is inductive.                                                      *)
THEOREM Inductive == Spec => []IInv
<1>1. Init => IInv
  BY InitHolds
<1>2. IInv /\ [Next]_vars => IInv'
  <2> SUFFICES ASSUME IInv, [Next]_vars PROVE IInv'
    OBVIOUS
  <2>1. CASE AcceptClass
    BY <2>1, AcceptStep
  <2>2. CASE RefuseAbstract \/ RefuseIncomplete \/ Finish
    BY <2>2, OutcomeStep
  <2>3. CASE Analyze
    BY <2>3, AnalyzeStep
  <2>4. CASE RouteField
    BY <2>4, RouteStep
  <2>5. CASE UNCHANGED vars
    <3>1. UNCHANGED given /\ UNCHANGED <<routes, keyspaces>>
      BY <2>5 DEF vars, given
    <3>2. Given' /\ Routed'
      BY <3>1, GivenStays, RoutedStays DEF IInv
    <3>3. Entered' /\ Analyzed'
      BY <2>5 DEF IInv, Entered, Analyzed, vars
    <3>4. QED
      BY <3>2, <3>3 DEF IInv
  <2>6. QED
    BY <2>1, <2>2, <2>3, <2>4, <2>5 DEF Next
<1>3. QED
  BY <1>1, <1>2, PTL DEF Spec

-------------------------------------------------------------------------------
(* The state of the constructor has the types of the model.                 *)
THEOREM TypeCorrect == Spec => []TypeOK
<1>1. IInv => TypeOK
  <2> SUFFICES ASSUME IInv PROVE TypeOK
    OBVIOUS
  <2> USE DEF IInv
  <2>1. /\ args \in Seq(Class) /\ accepted \in 0..Len(args)
        /\ decls \in [Field -> Declaration]
        /\ backends \in Seq(Backend)
        /\ allows \in [Backend -> SUBSET {"plaintext", "secret"}]
    BY ManagerFacts DEF Given, Entered
  <2>2. \A i \in DOMAIN classes :
          classes[i].class \in Class
            /\ classes[i].namespace = NamespaceOf[ConcreteOf[classes[i].class]]
    <3>1. \A i \in DOMAIN classes : classes[i] \in Entry_
      BY DEF Entered
    <3>2. QED
      BY <3>1 DEF Entered, Entry_
  <2>3. /\ analyzed \in 0..Len(classes) /\ todo \in Seq(Field)
        /\ outcome \in {"running", "built", "ValueError", "MissingAbstractFields"}
    BY DEF Analyzed
  <2>4. DOMAIN routes \subseteq Field /\ routes \in [DOMAIN routes -> Seq(Source)]
    <3>1. DOMAIN routes \subseteq Field /\ routes = [f \in DOMAIN routes |-> RouteOf(f)]
      BY DEF Routed
    <3>2. \A f \in DOMAIN routes : RouteOf(f) \in Seq(Source)
      BY <3>1, RouteFacts
    <3>3. [f \in DOMAIN routes |-> RouteOf(f)] \in [DOMAIN routes -> Seq(Source)]
      BY <3>2
    <3>4. QED
      BY <3>1, <3>3
  <2>5. /\ DOMAIN keyspaces \subseteq Backend
        /\ keyspaces \in [DOMAIN keyspaces -> SUBSET [field : Field, key : 0..MaxSources]]
    <3>1. /\ DOMAIN keyspaces \subseteq Backend
          /\ keyspaces = [b \in DOMAIN keyspaces |-> Asks(b)]
          /\ DOMAIN routes \subseteq Field
      BY DEF Routed
    <3>2. \A b : Asks(b) \in SUBSET [field : Field, key : 0..MaxSources]
      BY <3>1 DEF Asks
    <3> DEFINE K == [field : Field, key : 0..MaxSources]
    <3> HIDE DEF K
    <3>3. [b \in DOMAIN keyspaces |-> Asks(b)] \in [DOMAIN keyspaces -> SUBSET K]
      BY <3>2 DEF K
    <3>4. QED
      BY <3>1, <3>3 DEF K
  <2>6. QED
    BY <2>1, <2>2, <2>3, <2>4, <2>5 DEF TypeOK
<1>2. QED
  BY <1>1, Inductive, PTL

(* Whatever the declarations and the backends are, a field's route has the  *)
(* backends that it asks for and that take it, each once, by precedence.    *)
THEOREM RoutesAreDeclared == Spec => []RoutesFollowDeclarations
<1>1. IInv => RoutesFollowDeclarations
  <2> SUFFICES ASSUME IInv, NEW f \in DOMAIN routes
               PROVE  LET order == [i \in DOMAIN routes[f] |-> routes[f][i].backend]
                      IN  /\ \A b \in Backend :
                               b \in Range(order) <=>
                                 /\ ManagerAt(b) # 0
                                 /\ \/ decls[f].sources = <<>>
                                    \/ DeclaredAt(f, None) # 0
                                    \/ DeclaredAt(f, b) # 0
                                 /\ flavor(f) \in allows[b]
                          /\ \A i, j \in DOMAIN order : i < j => Precedes(f, order[i], order[j])
    BY DEF RoutesFollowDeclarations
  <2> USE DEF IInv
  <2> DEFINE route == routes[f]
             order == [i \in DOMAIN route |-> route[i].backend]
  <2>1. f \in Field /\ route = RouteOf(f)
    BY DEF Routed
  <2>2. /\ route \in Seq(Source)
        /\ \A b \in Backend :
             (\E n \in 1..Len(route) : route[n].backend = b) <=>
               b \in supported_backends(f) /\ (Mentions(f, b) # {} \/ ForEveryBackend(f))
        /\ \A m, n \in 1..Len(route) : m < n =>
             Precedes(f, route[m].backend, route[n].backend)
    BY <2>1, RouteFacts
  <2> HIDE DEF route
  <2>3. DOMAIN route = 1..Len(route)
    BY <2>2
  <2>4. \A b : b \in Range(order) <=> \E n \in 1..Len(route) : route[n].backend = b
    BY <2>3 DEF Range
  <2>5. \A i, j \in DOMAIN order : i < j => Precedes(f, order[i], order[j])
    BY <2>2, <2>3
  <2>6. ASSUME NEW b \in Backend
        PROVE  b \in Range(order) <=>
                 /\ ManagerAt(b) # 0
                 /\ \/ decls[f].sources = <<>>
                    \/ DeclaredAt(f, None) # 0
                    \/ DeclaredAt(f, b) # 0
                 /\ flavor(f) \in allows[b]
    <3>1. b \in supported_backends(f) <=> ManagerAt(b) # 0 /\ flavor(f) \in allows[b]
      BY ManagerFacts DEF supported_backends
    <3>2. Mentions(f, b) # {} <=> DeclaredAt(f, b) # 0
      <4>1. /\ Mentions(f, b) \in SUBSET (1..Len(sources(f)))
            /\ DeclaredAt(f, b) = IF Mentions(f, b) = {} THEN 0 ELSE Min(Mentions(f, b))
        BY <2>1, MentionsFacts
      <4>2. Mentions(f, b) # {} => Min(Mentions(f, b)) \in Mentions(f, b)
        <5>1. Mentions(f, b) \in SUBSET Nat
          BY <4>1
        <5>2. QED
          BY <5>1, MinFacts
      <4>3. QED
        BY <4>1, <4>2
    <3>3. ForEveryBackend(f) <=> decls[f].sources = <<>> \/ DeclaredAt(f, None) # 0
      BY <2>1, MentionsFacts
    <3> HIDE DEF order
    <3>4. QED
      BY <2>2, <2>4, <3>1, <3>2, <3>3
  <2>7. QED
    BY <2>5, <2>6 DEF route
<1>2. QED
  BY <1>1, Inductive, PTL

(* The backends are asked for exactly what the routes will look up.          *)
THEOREM KeyspacesAreTheRoutes == Spec => []KeyspacesMatchRoutes
<1>1. IInv => KeyspacesMatchRoutes
  <2> SUFFICES ASSUME IInv PROVE KeyspacesMatchRoutes
    OBVIOUS
  <2> USE DEF IInv
  <2>1. /\ DOMAIN routes \subseteq Field
        /\ routes = [f \in DOMAIN routes |-> RouteOf(f)]
        /\ DOMAIN keyspaces = {b \in Backend : Asks(b) # {}}
        /\ keyspaces = [b \in DOMAIN keyspaces |-> Asks(b)]
    BY DEF Routed
  <2>2. \A b \in DOMAIN keyspaces : keyspaces[b] # {}
    BY <2>1
  <2> DEFINE asked(b, f) == {e \in IF b \in DOMAIN keyspaces THEN keyspaces[b] ELSE {} :
                               e.field = f}
             routed(b, f) == {s \in IF f \in DOMAIN routes THEN Range(routes[f]) ELSE {} :
                                s.backend = b}
  <2>3. ASSUME NEW b \in Backend, NEW f \in Field
        PROVE  {e.key : e \in asked(b, f)} = {s.key : s \in routed(b, f)}
    <3>1. asked(b, f) = {e \in Asks(b) : e.field = f}
      BY <2>1
    <3>2. CASE f \in DOMAIN routes
      <4>1. routes[f] = RouteOf(f)
        BY <2>1, <3>2
      <4>2. \A s \in Range(RouteOf(f)) : s.key \in 0..MaxSources
        <5>1. RouteOf(f) \in Seq(Source)
          BY RouteFacts
        <5>2. \A s \in Range(RouteOf(f)) : s \in Source
          BY <5>1 DEF Range
        <5>3. QED
          BY <5>2 DEF Source
      <4>3. \A s \in Range(RouteOf(f)) : s.backend = b =>
              [field |-> f, key |-> s.key] \in asked(b, f)
        BY <3>1, <3>2, <4>2 DEF Asks
      <4>4. \A e \in asked(b, f) :
              \E s \in Range(RouteOf(f)) : s.backend = b /\ s.key = e.key
        BY <3>1 DEF Asks
      <4>5. routed(b, f) = {s \in Range(RouteOf(f)) : s.backend = b}
        BY <3>2, <4>1
      <4> HIDE DEF asked, routed
      <4>6. \A s \in routed(b, f) : \E e \in asked(b, f) : e.key = s.key
        <5>1. TAKE s \in routed(b, f)
        <5>2. [field |-> f, key |-> s.key] \in asked(b, f)
          BY <4>3, <4>5
        <5>3. QED
          BY <5>2
      <4>7. \A e \in asked(b, f) : \E s \in routed(b, f) : e.key = s.key
        BY <4>4, <4>5
      <4>8. QED
        BY <4>6, <4>7
    <3>3. CASE f \notin DOMAIN routes
      <4>1. asked(b, f) = {}
        BY <3>1, <3>3 DEF Asks
      <4>2. routed(b, f) = {}
        BY <3>3
      <4>3. QED
        BY <4>1, <4>2
    <3>4. QED
      BY <3>2, <3>3
  <2>4. QED
    BY <2>2, <2>3 DEF KeyspacesMatchRoutes
<1>2. QED
  BY <1>1, Inductive, PTL

(* No backend without support for secrets is asked for a secret.            *)
THEOREM SecretsAreKept == Spec => []SecretsStayOut
<1>1. IInv => SecretsStayOut
  <2> SUFFICES ASSUME IInv, NEW b \in DOMAIN keyspaces, "secret" \notin allows[b],
                      NEW e \in keyspaces[b]
               PROVE  decls[e.field].abstract # "secret" /\ decls[e.field].concrete # "secret"
    BY DEF SecretsStayOut
  <2> USE DEF IInv
  <2>1. b \in Backend /\ e \in Asks(b)
    BY DEF Routed
  <2>2. PICK f : f = e.field
    OBVIOUS
  <2>3. f \in Field
    BY <2>1, <2>2 DEF Routed, Asks
  <2>4. \E n \in 1..Len(RouteOf(f)) : RouteOf(f)[n].backend = b
    <3>1. DOMAIN RouteOf(f) = 1..Len(RouteOf(f))
      <4>1. RouteOf(f) \in Seq(Source)
        BY <2>3, RouteFacts
      <4>2. QED
        BY <4>1
    <3>2. QED
      BY <2>1, <2>2, <3>1 DEF Asks, Range
  <2>5. b \in supported_backends(f)
    BY <2>1, <2>3, <2>4, RouteFacts
  <2>6. flavor(f) # "secret"
    BY <2>5 DEF supported_backends
  <2>7. QED
    BY <2>2, <2>6 DEF flavor
<1>2. QED
  BY <1>1, Inductive, PTL

(* A manager that is built has every class that it was passed, or a later   *)
(* one of the same namespace, and each only once.                          *)
THEOREM ArgumentsAreManaged == Spec => []EveryArgumentIsManaged
<1>1. IInv => EveryArgumentIsManaged
  <2> SUFFICES ASSUME IInv, outcome = "built" PROVE EveryArgumentIsManaged
    BY DEF EveryArgumentIsManaged
  <2> USE DEF IInv
  <2>1. accepted = Len(args) /\ analyzed = Len(classes)
    BY DEF Analyzed
  <2>2. DOMAIN args = 1..Len(args) /\ DOMAIN classes = 1..Len(classes) /\ Len(args) \in Nat
    BY DEF Given, Entered
  <2>3. \A n \in DOMAIN classes : ConcreteOf[classes[n].class] = classes[n].class
    BY <2>1, <2>2 DEF Analyzed, IsConcrete
  <2>4. ASSUME NEW i \in DOMAIN args
        PROVE  \/ \E n \in DOMAIN classes : classes[n].class = ConcreteOf[args[i]]
               \/ \E j \in (i + 1)..Len(args) :
                    /\ ConcreteOf[args[j]] # ConcreteOf[args[i]]
                    /\ NamespaceOf[ConcreteOf[args[j]]] = NamespaceOf[ConcreteOf[args[i]]]
    <3>1. PICK n \in DOMAIN classes, k \in i..accepted :
            /\ classes[n].class = args[k]
            /\ classes[n].namespace = NamespaceOf[ConcreteOf[args[i]]]
      BY <2>1, <2>2 DEF Entered
    <3>2. ConcreteOf[args[k]] = classes[n].class
      BY <2>3, <3>1
    <3>3. NamespaceOf[ConcreteOf[args[k]]] = NamespaceOf[ConcreteOf[args[i]]]
      BY <3>1 DEF Entered
    <3>4. CASE ConcreteOf[args[k]] = ConcreteOf[args[i]]
      BY <3>2, <3>4
    <3>5. CASE ConcreteOf[args[k]] # ConcreteOf[args[i]]
      <4>1. k \in (i + 1)..Len(args)
        BY <2>1, <2>2, <3>5
      <4>2. QED
        BY <3>3, <3>5, <4>1
    <3>6. QED
      BY <3>4, <3>5
  <2>5. ASSUME NEW m \in DOMAIN classes, NEW n \in DOMAIN classes,
               ConcreteOf[classes[m].class] = ConcreteOf[classes[n].class]
        PROVE  m = n
    BY <2>5 DEF Entered
  <2>6. QED
    BY <2>4, <2>5 DEF EveryArgumentIsManaged
<1>2. QED
  BY <1>1, Inductive, PTL

===============================================================================
