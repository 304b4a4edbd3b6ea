---------------------------- MODULE BackendsProofs -----------------------------
(***************************************************************************)
(* Proofs about Backends.tla, for any keyspaces, values and numbers of      *)
(* changes of the storage.                                                 *)
(*                                                                         *)
(* The promise of BackendCall is about a call that returns.  The invariant  *)
(* says how far a call that still reads has come: the fields it has an      *)
(* answer for are those whose slots it has read, as long as no key was      *)
(* added to the dict that it iterates over, and each answer was in its slot *)
(* once, whatever was added.                                               *)
(***************************************************************************)
EXTENDS Backends, DictProofs, FiniteSetTheorems

Types ==
  /\ kind \in Kind /\ keyspace \in Keyspaces
  /\ history \in Seq(Contents) /\ Len(history) \in 1..(MaxWrites + 1)
  /\ listed \in 0..Len(history)
  /\ todo \subseteq Slots /\ left \in 0..Cardinality(Slots)
  /\ answer \in Dict(Fields, Value \cup {Table})
  /\ outcome \in {"running", "returned",
                 "KeyError", "RuntimeError", "AttributeError", "Unreadable"}

(* A file is not listed.  What is left to read was listed, and the memory's  *)
(* dict has only lost keys since, unless one was added.                    *)
Listing ==
  /\ IsFile => listed = 0 /\ (outcome = "running" => answer = EmptyDict)
  /\ listed = 0 => todo = {}
  /\ listed # 0 /\ ~Disturbed =>
       /\ todo \subseteq DOMAIN history[listed]
       /\ kind = "memory" =>
            /\ DOMAIN Current \subseteq DOMAIN history[listed]
            /\ left = Cardinality(todo)

(* The answers so far are those from the slots that were listed and read.   *)
Answers(e) ==
  /\ listed # 0
  /\ SlotOf(e) \in DOMAIN history[listed] \ todo
  /\ ~Shadowed(e)

WasHeld(e) ==
  \E i \in 1..Len(history) :
    SlotOf(e) \in DOMAIN history[i] /\ answer[Desc(e)] = history[i][SlotOf(e)]

Answering ==
  ~IsFile =>
    /\ answer \in Dict(Fields, Value)
    /\ \A e \in Range(keyspace) :
         /\ ~Disturbed => (Desc(e) \in DOMAIN answer <=> Answers(e))
         /\ Desc(e) \in DOMAIN answer => ~Shadowed(e) /\ WasHeld(e)

IInv == Types /\ Listing /\ Answering /\ ErrorsHaveCause /\ ValuesWereHeld

-------------------------------------------------------------------------------
(* The keyspace is a list that has a field once.                            *)
LEMMA KeyspaceFacts ==
  ASSUME keyspace \in Keyspaces
  PROVE  /\ Len(keyspace) \in Nat /\ DOMAIN keyspace = 1..Len(keyspace)
         /\ Range(keyspace) = {keyspace[i] : i \in 1..Len(keyspace)}
         /\ \A e, d \in Range(keyspace) : Desc(e) = Desc(d) => e = d
<1>1. /\ keyspace \in Seq(Range(keyspace))
      /\ \A i, j \in DOMAIN keyspace : Desc(keyspace[i]) = Desc(keyspace[j]) => i = j
  BY KeyspacesAssumption
<1>2. Len(keyspace) \in Nat /\ DOMAIN keyspace = 1..Len(keyspace)
  BY <1>1
<1>3. Range(keyspace) = {keyspace[i] : i \in 1..Len(keyspace)}
  BY <1>2 DEF Range
<1> HIDE DEF Desc
<1>4. \A e, d \in Range(keyspace) : Desc(e) = Desc(d) => e = d
  BY <1>1, <1>2, <1>3
<1>5. QED
  BY <1>2, <1>3, <1>4

(* A slot that is asked for belongs to one field, the last one that has it. *)
LEMMA ExpectedFacts ==
  ASSUME keyspace \in Keyspaces, NEW slot \in DOMAIN expected_keys
  PROVE  \E e \in Range(keyspace) :
           /\ SlotOf(e) = slot /\ ~Shadowed(e)
           /\ expected_keys[slot] = Desc(e)
           /\ \A d \in Range(keyspace) : SlotOf(d) = slot /\ ~Shadowed(d) => d = e
<1> DEFINE l == Len(keyspace)
           I == {i \in 1..l : SlotOf(keyspace[i]) = slot}
<1>1. /\ l \in Nat /\ DOMAIN keyspace = 1..l
      /\ Range(keyspace) = {keyspace[i] : i \in 1..l}
      /\ \A e, d \in Range(keyspace) : Desc(e) = Desc(d) => e = d
  BY KeyspaceFacts
<1>2. \A i, j \in 1..l : keyspace[i] = keyspace[j] => i = j
  BY <1>1, KeyspacesAssumption
<1>3. slot \in {SlotOf(e) : e \in Range(keyspace)}
  BY DEF expected_keys
<1>4. expected_keys[slot] = Desc(keyspace[IF I # {} THEN Max(I) ELSE 0])
  BY <1>3 DEF expected_keys, SelectLastInSeq
<1>5. I \in SUBSET (0..l) /\ I # {}
  BY <1>1, <1>3
<1>6. PICK m \in I : m = Max(I) /\ \A i \in I : m >= i
  <2> HIDE DEF I
  <2>1. QED
    BY <1>1, <1>5, MaxFacts
<1>7. m \in 1..l /\ SlotOf(keyspace[m]) = slot
  OBVIOUS
<1>8. expected_keys[slot] = Desc(keyspace[m])
  BY <1>4, <1>5, <1>6
<1>9. ~Shadowed(keyspace[m])
  <2> SUFFICES ASSUME NEW i \in 1..l, NEW j \in 1..l, i < j,
                      keyspace[i] = keyspace[m], SlotOf(keyspace[j]) = SlotOf(keyspace[m])
               PROVE  FALSE
    BY <1>1 DEF Shadowed
  <2>1. i = m /\ j \in I
    BY <1>2, <1>7
  <2>2. QED
    BY <1>1, <1>6, <2>1
<1>10. ASSUME NEW d \in Range(keyspace), SlotOf(d) = slot, ~Shadowed(d)
       PROVE  d = keyspace[m]
  <2>1. PICK i \in 1..l : d = keyspace[i]
    BY <1>1
  <2>2. i \in I
    BY <1>10, <2>1
  <2>3. ~(i < m)
    BY <1>1, <1>7, <1>10, <2>1 DEF Shadowed
  <2>4. m >= i
    BY <1>6, <2>2
  <2>5. i = m
    BY <1>1, <1>7, <2>3, <2>4
  <2>6. QED
    BY <2>1, <2>5
<1>11. keyspace[m] \in Range(keyspace)
  BY <1>1, <1>7
<1>12. QED
  BY <1>7, <1>8, <1>9, <1>10, <1>11

(* The call does not change what it is asked for.                           *)
LEMMA CallStays ==
  ASSUME UNCHANGED call
  PROVE  /\ IsFile' = IsFile /\ Contents' = Contents /\ Slots' = Slots /\ Fields' = Fields
         /\ \A e : SlotOf(e)' = SlotOf(e) /\ Shadowed(e)' = Shadowed(e)
<1> USE DEF call
<1>1. IsFile' = IsFile /\ Fields' = Fields
  BY DEF IsFile, Fields
<1>2. \A e : SlotOf(e)' = SlotOf(e)
  BY DEF SlotOf, PathOf, IsFile
<1>3. \A e : Shadowed(e)' = Shadowed(e)
  BY <1>2 DEF Shadowed
<1>4. Slots' = Slots
  BY <1>2 DEF Slots
<1>5. Contents' = Contents
  BY <1>1, <1>4 DEF Contents
<1>6. QED
  BY <1>1, <1>2, <1>3, <1>4, <1>5

(* What the storage holds now, and what it held when it was listed.         *)
LEMMA HistoryFacts ==
  ASSUME Types
  PROVE  /\ Len(history) \in 1..(MaxWrites + 1) /\ MaxWrites + 1 \in Nat
         /\ DOMAIN history = 1..Len(history)
         /\ Current = history[Len(history)]
         /\ \A i \in 1..Len(history) : history[i] \in Contents
         /\ ~IsFile => \A i \in 1..Len(history) : history[i] \in Dict(Slots, Value)
<1>1. /\ history \in Seq(Contents) /\ Len(history) \in 1..(MaxWrites + 1)
      /\ MaxWrites + 1 \in Nat
  BY BoundAssumption DEF Types
<1>2. \A i \in 1..Len(history) : history[i] \in Contents
  BY <1>1
<1>3. Current = history[Len(history)]
  BY <1>1 DEF Current, Last
<1>4. ~IsFile => Contents = Dict(Slots, Value)
  BY DEF Contents
<1>5. QED
  BY <1>1, <1>2, <1>3, <1>4

(* What a document has at a path.                                          *)
LEMMA AtFacts ==
  ASSUME NEW content \in Dict(Slots, Value), NEW path
  PROVE  At(content, path) \in Value \cup {Table, Missing}
<1>1. CASE path \in DOMAIN content
  <2>1. content[path] \in Value
    BY <1>1, DictFacts
  <2>2. QED
    BY <1>1, <2>1 DEF At
<1>2. CASE path \notin DOMAIN content
  BY <1>2 DEF At
<1>3. QED
  BY <1>1, <1>2

(* Taking the first item of a sequence.                                    *)
LEMMA FirstOfSeq ==
  ASSUME NEW S, NEW s \in Seq(S), Len(s) >= 1
  PROVE  SubSeq(s, 1, 1) = <<s[1]>>
<1> DEFINE t == SubSeq(s, 1, 1)
<1>1. t \in Seq(S) /\ Len(t) = 1 /\ t[1] = s[1]
  OBVIOUS
<1> HIDE DEF t
<1>2. t = <<t[1]>>
  BY <1>1
<1>3. QED
  BY <1>1, <1>2 DEF t

(* Taking all of it.                                                       *)
LEMMA WholeOfSeq ==
  ASSUME NEW S, NEW s \in Seq(S), Len(s) >= 1
  PROVE  SubSeq(s, 1, Len(s)) = s
<1>1. /\ SubSeq(s, 1, Len(s)) \in Seq(S) /\ Len(SubSeq(s, 1, Len(s))) = Len(s)
      /\ \A i \in 1..Len(s) : SubSeq(s, 1, Len(s))[i] = s[i]
  OBVIOUS
<1>2. QED
  BY <1>1

(* A document is as deep as the keyspaces look into it, so the lookups find *)
(* what it has at the path of a field.                                     *)
LEMMA AtIsGet ==
  ASSUME IsFile, NEW content \in Dict(Slots, Value), NEW e
  PROVE  At(content, PathOf(e)) = Get(content, e)
<1>1. ASSUME NEW s \in DOMAIN content
      PROVE  s \in Seq(Range(s)) /\ Len(s) \in 1..2
  <2>1. s \in Slots
    BY DictFacts
  <2>2. CASE s \in OtherSlots[kind]
    BY <2>2, DepthAssumption DEF IsFile
  <2>3. CASE s \in {SlotOf(d) : d \in Range(keyspace)}
    <3>1. PICK d : s = PathOf(d)
      BY <2>3 DEF SlotOf, IsFile
    <3>2. CASE s = <<d.key>>
      <4>1. Range(s) = {d.key}
        BY <3>2 DEF Range
      <4>2. QED
        BY <3>2, <4>1
    <3>3. CASE s = <<d.namespace, d.key>>
      <4>1. Range(s) = {d.namespace, d.key}
        BY <3>3 DEF Range
      <4>2. QED
        BY <3>3, <4>1
    <3>4. QED
      BY <3>1, <3>2, <3>3 DEF PathOf
  <2>4. QED
    BY <2>1, <2>2, <2>3 DEF Slots
<1>2. CASE PathOf(e) \in DOMAIN content
  BY <1>2 DEF At, Get
<1>3. CASE PathOf(e) \notin DOMAIN content /\ e.namespace = None
  <2>1. ASSUME NEW s \in DOMAIN content
        PROVE  IsStrictPrefix(PathOf(e), s) <=> Len(s) = 2 /\ s[1] = e.key
    <3>1. /\ s \in Seq(Range(s)) /\ Len(s) \in 1..2
          /\ PathOf(e) = <<e.key>> /\ s # <<e.key>>
      BY <1>1, <1>3 DEF PathOf
    <3>2. SubSeq(<<e.key>>, 1, 1) = <<e.key>> /\ SubSeq(s, 1, 1) = <<s[1]>>
      <4>1. /\ <<e.key>> \in Seq({e.key}) /\ Len(<<e.key>>) >= 1 /\ Len(s) >= 1
            /\ <<e.key>>[1] = e.key
        BY <3>1
      <4>2. SubSeq(s, 1, 1) = <<s[1]>>
        BY <3>1, <4>1, FirstOfSeq
      <4>3. SubSeq(<<e.key>>, 1, 1) = <<(<<e.key>>[1])>>
        BY <4>1, FirstOfSeq
      <4>4. QED
        BY <4>1, <4>2, <4>3
    <3>3. Len(s) = 1 => s = <<s[1]>>
      BY <3>1
    <3>4. Len(<<e.key>>) = 1
      OBVIOUS
    <3>5. IsStrictPrefix(PathOf(e), s) <=> <<e.key>> = <<s[1]>>
      BY <3>1, <3>2, <3>4 DEF IsStrictPrefix, IsPrefix
    <3>6. QED
      BY <3>1, <3>3, <3>5
  <2>2. QED
    BY <1>3, <2>1 DEF At, Get
<1>4. CASE PathOf(e) \notin DOMAIN content /\ e.namespace # None
  <2>1. ASSUME NEW s \in DOMAIN content, IsStrictPrefix(PathOf(e), s)
        PROVE  FALSE
    <3>1. /\ s \in Seq(Range(s)) /\ Len(s) \in 1..2
          /\ PathOf(e) = <<e.namespace, e.key>> /\ s # PathOf(e)
      BY <1>1, <1>4 DEF PathOf
    <3>2. Len(PathOf(e)) = 2 /\ SubSeq(PathOf(e), 1, 2) = PathOf(e)
      <4>1. PathOf(e) \in Seq({e.namespace, e.key}) /\ Len(PathOf(e)) = 2
        BY <3>1
      <4>2. QED
        BY <4>1, WholeOfSeq
    <3>3. Len(s) = 2 /\ SubSeq(s, 1, 2) = PathOf(e)
      BY <2>1, <3>1, <3>2 DEF IsStrictPrefix, IsPrefix
    <3>4. SubSeq(s, 1, 2) = s
      BY <3>1, <3>3
    <3>5. QED
      BY <3>1, <3>3, <3>4
  <2>2. QED
    BY <1>4, <2>1 DEF At, Get
<1>5. QED
  BY <1>2, <1>3, <1>4

(* There are finitely many slots to fill.                                  *)
LEMMA FiniteSlots ==
  ASSUME kind \in Kind, keyspace \in Keyspaces
  PROVE  /\ IsFiniteSet(Slots) /\ Cardinality(Slots) \in Nat
         /\ \A D \in SUBSET Slots :
              IsFiniteSet(D) /\ Cardinality(D) \in 0..Cardinality(Slots)
<1> DEFINE l == Len(keyspace)
           S == {SlotOf(e) : e \in Range(keyspace)}
           at == [i \in 1..l |-> SlotOf(keyspace[i])]
<1>1. l \in Nat /\ Range(keyspace) = {keyspace[i] : i \in 1..l}
  BY KeyspaceFacts
<1>2. at \in Surjection(1..l, S)
  BY <1>1 DEF Surjection
<1>3. IsFiniteSet(1..l)
  BY <1>1, FS_Interval
<1> HIDE DEF l, S, at
<1>4. IsFiniteSet(S)
  BY <1>2, <1>3, FS_Surjection
<1>5. IsFiniteSet(Slots)
  BY <1>4, SlotsAssumption, FS_Union DEF Slots, S
<1>6. Cardinality(Slots) \in Nat
  BY <1>5, FS_CardinalityType
<1>7. ASSUME NEW D \in SUBSET Slots
      PROVE  IsFiniteSet(D) /\ Cardinality(D) \in 0..Cardinality(Slots)
  <2>1. IsFiniteSet(D) /\ Cardinality(D) <= Cardinality(Slots)
    BY <1>5, FS_Subset
  <2>2. Cardinality(D) \in Nat
    BY <2>1, FS_CardinalityType
  <2>3. QED
    BY <1>6, <2>1, <2>2
<1>8. QED
  BY <1>5, <1>6, <1>7

-------------------------------------------------------------------------------
(* Each step keeps the invariant.                                          *)
LEMMA InitHolds == Init => IInv
<1> SUFFICES ASSUME Init PROVE IInv
  OBVIOUS
<1>1. PICK content \in Contents : history = <<content>>
  BY DEF Init
<1>2. history \in Seq(Contents) /\ Len(history) = 1
  BY <1>1
<1>3. EmptyDict \in Dict(Fields, Value \cup {Table}) /\ EmptyDict \in Dict(Fields, Value)
      /\ DOMAIN EmptyDict = {}
  BY DEF Dict, EmptyDict
<1>4. Types
  <2>1. left \in 0..Cardinality(Slots)
    BY FiniteSlots DEF Init
  <2>2. QED
    BY <1>2, <1>3, <2>1, BoundAssumption DEF Init, Types
<1>5. Listing /\ ErrorsHaveCause /\ ValuesWereHeld
  BY <1>1, <1>2 DEF Init, Listing, ErrorsHaveCause, ValuesWereHeld
<1>6. Answering
  BY <1>3 DEF Init, Answering, Answers
<1>7. QED
  BY <1>4, <1>5, <1>6 DEF IInv

(* What a step that leaves the history alone does not change.               *)
LEMMA HistoryStays ==
  ASSUME UNCHANGED <<call, history, listed>>
  PROVE  /\ Disturbed' <=> Disturbed
         /\ KeySetChanged' <=> KeySetChanged
         /\ Current' = Current
BY DEF call, Disturbed, KeySetChanged, Current

(* A change of the storage that does not disturb an iteration finds it      *)
(* undisturbed, and leaves what is ahead as it was.                        *)
LEMMA WriteKeeps ==
  ASSUME Types, NEW content \in Contents, Write(content), ~Disturbed'
  PROVE  /\ ~Disturbed
         /\ todo' = todo
         /\ kind = "memory" /\ listed # 0 => DOMAIN content \subseteq DOMAIN Current
<1> DEFINE l == Len(history)
<1>1. /\ l \in Nat /\ l > 0 /\ history \in Seq(Contents) /\ listed \in 0..l
      /\ Current = history[l] /\ DOMAIN history = 1..l
  BY HistoryFacts DEF Types
<1>2. /\ history' = Append(history, content) /\ kind' = kind /\ listed' = listed
      /\ todo' \in Ahead(content)
  BY DEF Write, call
<1>3. /\ Len(history') = l + 1 /\ history'[l + 1] = content
      /\ \A i \in 1..l : history'[i] = history[i]
  BY <1>1, <1>2
<1>4. kind = "memory" /\ listed # 0 =>
        \A i \in (listed + 1)..(l + 1) : DOMAIN history'[i] \subseteq DOMAIN history'[i - 1]
  BY <1>2, <1>3 DEF Disturbed
<1>5. ~Disturbed
  <2> SUFFICES ASSUME kind = "memory", listed # 0, NEW i \in (listed + 1)..l
               PROVE  DOMAIN history[i] \subseteq DOMAIN history[i - 1]
    BY DEF Disturbed
  <2>1. i \in (listed + 1)..(l + 1) /\ i \in 1..l /\ i - 1 \in 1..l
    BY <1>1
  <2>2. history'[i] = history[i] /\ history'[i - 1] = history[i - 1]
    BY <1>3, <2>1
  <2>3. QED
    BY <1>4, <2>1, <2>2
<1>6. ASSUME kind = "memory", listed # 0 PROVE DOMAIN content \subseteq DOMAIN Current
  <2>1. l + 1 \in (listed + 1)..(l + 1) /\ (l + 1) - 1 = l /\ l \in 1..l
    BY <1>1, <1>6
  <2>2. DOMAIN history'[l + 1] \subseteq DOMAIN history'[l]
    BY <1>4, <1>6, <2>1
  <2>3. QED
    BY <1>1, <1>3, <2>1, <2>2
<1>7. todo' = todo
  BY <1>2, <1>6 DEF Ahead
<1>8. QED
  BY <1>5, <1>6, <1>7

(* What is ahead of an iteration, or listed in the environment, are slots.  *)
LEMMA AheadType ==
  ASSUME Types, NEW content \in Contents, NEW ahead \in Ahead(content)
  PROVE  ahead \subseteq Slots
<1>1. todo \subseteq Slots
  BY DEF Types
<1>2. kind = "memory" => DOMAIN content \subseteq Slots
  BY DictFacts DEF Contents, IsFile
<1>3. QED
  BY <1>1, <1>2 DEF Ahead

(* Somebody writes to the storage.                                         *)
LEMMA WriteStep ==
  ASSUME IInv, NEW content \in Contents, Write(content)
  PROVE  IInv'
<1>1. /\ history' = Append(history, content) /\ outcome = "running" /\ outcome' = outcome
      /\ UNCHANGED call /\ listed' = listed /\ left' = left /\ answer' = answer
      /\ kind' = kind /\ keyspace' = keyspace
      /\ todo' \in Ahead(content) /\ Len(history) <= MaxWrites /\ Types
  BY DEF Write, IInv, call
<1>2. /\ history \in Seq(Contents) /\ Len(history) \in 1..(MaxWrites + 1)
      /\ MaxWrites + 1 \in Nat /\ MaxWrites \in Nat
      /\ listed \in 0..Len(history)
  BY HistoryFacts, BoundAssumption DEF IInv, Types
<1>3. /\ history' \in Seq(Contents) /\ Len(history') = Len(history) + 1
      /\ history'[Len(history')] = content
      /\ \A i \in 1..Len(history) : history'[i] = history[i] /\ i \in 1..Len(history')
  BY <1>1, <1>2
<1>4. Types'
  <2>1. Len(history') \in 1..(MaxWrites + 1) /\ listed' \in 0..Len(history')
    BY <1>1, <1>2, <1>3
  <2>2. todo' \subseteq Slots
    BY <1>1, AheadType
  <2>3. QED
    BY <1>1, <1>3, <2>1, <2>2, CallStays DEF IInv, Types
<1>5. listed # 0 => history'[listed] = history[listed]
  BY <1>2, <1>3
<1>6. ~Disturbed' =>
        /\ ~Disturbed /\ todo' = todo
        /\ kind = "memory" /\ listed # 0 => DOMAIN content \subseteq DOMAIN Current
  BY <1>1, WriteKeeps
<1>7. Listing'
  <2>1. IsFile' = IsFile
    BY <1>1, CallStays
  <2>2. Current' = content
    BY <1>3 DEF Current, Last
  <2>3. listed' = 0 => todo' = {}
    BY <1>1 DEF Ahead, IInv, Listing
  <2>4. ASSUME listed' # 0, ~Disturbed'
        PROVE  /\ todo' \subseteq DOMAIN history'[listed']
               /\ kind' = "memory" =>
                    /\ DOMAIN Current' \subseteq DOMAIN history'[listed']
                    /\ left' = Cardinality(todo')
    BY <1>1, <1>5, <1>6, <2>2, <2>4 DEF IInv, Listing
  <2>5. QED
    BY <1>1, <2>1, <2>3, <2>4 DEF IInv, Listing
<1>8. Answering'
  <2>1. ASSUME NEW e, WasHeld(e) PROVE WasHeld(e)'
    <3>1. PICK i \in 1..Len(history) :
            SlotOf(e) \in DOMAIN history[i] /\ answer[Desc(e)] = history[i][SlotOf(e)]
      BY <2>1 DEF WasHeld
    <3>2. i \in 1..Len(history') /\ history'[i] = history[i] /\ SlotOf(e)' = SlotOf(e)
      BY <1>1, <1>3, CallStays
    <3>3. QED
      BY <1>1, <3>1, <3>2 DEF WasHeld
  <2>2. ~Disturbed' => \A e : Answers(e)' <=> Answers(e)
    BY <1>1, <1>5, <1>6, CallStays DEF Answers
  <2>3. /\ IsFile' = IsFile /\ Dict(Fields, Value)' = Dict(Fields, Value)
        /\ \A e : Shadowed(e)' = Shadowed(e)
    BY <1>1, CallStays DEF Dict
  <2>4. QED
    BY <1>1, <1>6, <2>1, <2>2, <2>3 DEF IInv, Answering
<1>9. ErrorsHaveCause' /\ ValuesWereHeld'
  BY <1>1 DEF ErrorsHaveCause, ValuesWereHeld
<1>10. QED
  BY <1>4, <1>7, <1>8, <1>9 DEF IInv

(* The variables, or the keys of the memory's dict, are listed.             *)
LEMMA ListStep ==
  ASSUME IInv, List
  PROVE  IInv'
<1>1. /\ kind \in {"env", "memory"} /\ listed = 0 /\ outcome = "running"
      /\ listed' = Len(history) /\ todo' = DOMAIN Current
      /\ left' = IF kind = "memory" THEN Cardinality(DOMAIN Current) ELSE 0
      /\ UNCHANGED call /\ history' = history /\ answer' = answer /\ outcome' = outcome
      /\ kind' = kind /\ keyspace' = keyspace
  BY DEF List, call
<1>2. ~IsFile
  BY <1>1 DEF IsFile
<1>3. /\ Len(history) \in Nat /\ Len(history) # 0 /\ Len(history) \in 1..Len(history)
      /\ Current = history[Len(history)]
      /\ Current \in Dict(Slots, Value)
  BY <1>2, HistoryFacts DEF IInv
<1>4. DOMAIN Current \subseteq Slots
  BY <1>3, DictFacts
<1>5. Types'
  <2>1. listed' \in 0..Len(history')
    BY <1>1, <1>3
  <2>2. left' \in 0..Cardinality(Slots)
    BY <1>1, <1>4, FiniteSlots DEF IInv, Types
  <2>3. QED
    BY <1>1, <1>4, <2>1, <2>2, CallStays DEF IInv, Types
<1>6. Current' = Current
  BY <1>1 DEF Current
<1>7. Listing'
  BY <1>1, <1>2, <1>3, <1>6, CallStays DEF Listing
<1>8. Answering'
  <2>1. ~Disturbed
    BY <1>1 DEF Disturbed
  <2>2. \A e \in Range(keyspace) : ~Answers(e) /\ Desc(e) \notin DOMAIN answer
    BY <1>1, <1>2, <2>1 DEF IInv, Answering, Answers
  <2>3. \A e : ~Answers(e)'
    BY <1>1, <1>3 DEF Answers
  <2>4. answer' \in Dict(Fields, Value)'
    BY <1>1, <1>2, CallStays DEF IInv, Answering
  <2>5. QED
    BY <1>1, <2>2, <2>3, <2>4 DEF Answering
<1>9. ErrorsHaveCause' /\ ValuesWereHeld'
  BY <1>1 DEF ErrorsHaveCause, ValuesWereHeld
<1>10. QED
  BY <1>5, <1>7, <1>8, <1>9 DEF IInv

(* The call ends, with what it has read so far.                             *)
LEMMA EndStep ==
  ASSUME IInv, UNCHANGED <<call, history, listed, todo, left, answer>>,
         outcome' \in {"returned", "KeyError", "RuntimeError", "AttributeError", "Unreadable"},
         ErrorsHaveCause', ValuesWereHeld'
  PROVE  IInv'
<1>1. Types'
  BY CallStays DEF IInv, Types, call
<1>2. /\ Disturbed' <=> Disturbed
      /\ Current' = Current
      /\ kind' = kind /\ keyspace' = keyspace
  BY HistoryStays DEF call
<1>3. Listing'
  BY <1>2, CallStays DEF IInv, Listing
<1>4. Answering'
  <2>1. \A e : (Answers(e)' <=> Answers(e)) /\ (WasHeld(e)' <=> WasHeld(e))
    BY CallStays DEF Answers, WasHeld
  <2>2. QED
    BY <1>2, <2>1, CallStays DEF IInv, Answering
<1>5. QED
  BY <1>1, <1>3, <1>4 DEF IInv

(* A listed slot is read or passed over, and an iteration counts it.        *)
Counted == left' = IF kind = "memory" THEN left - 1 ELSE left

(* What is ahead and what is still expected decrease together.              *)
LEMMA PassKeeps ==
  ASSUME IInv, ~IsFile, NEW slot \in todo, Pass(slot), Counted, kind = "memory" => left > 0,
         answer' \in Dict(Fields, Value \cup {Table})
  PROVE  Types' /\ Listing'
<1>1. /\ todo' = todo \ {slot} /\ Types
      /\ UNCHANGED call /\ history' = history /\ listed' = listed /\ outcome' = outcome
      /\ kind' = kind
  BY DEF Pass, IInv, call
<1>2. left \in Nat /\ Cardinality(Slots) \in Nat /\ left <= Cardinality(Slots)
      /\ IsFiniteSet(todo)
  BY <1>1, FiniteSlots DEF Types
<1>3. left' \in 0..Cardinality(Slots)
  BY <1>2 DEF Counted
<1>4. Types'
  BY <1>1, <1>3, CallStays DEF Types, call
<1>5. Cardinality(todo') = Cardinality(todo) - 1
  BY <1>1, <1>2, FS_RemoveElement
<1>6. listed # 0
  BY DEF IInv, Listing
<1>7. (Disturbed' <=> Disturbed) /\ Current' = Current /\ IsFile' = IsFile
  BY <1>1, HistoryStays, CallStays
<1>8. Listing'
  BY <1>1, <1>5, <1>6, <1>7 DEF IInv, Listing, Counted
<1>9. QED
  BY <1>4, <1>8

(* Only the field that a slot belongs to gets the answer from it.           *)
LEMMA TakeStep ==
  ASSUME IInv, ~IsFile, outcome = "running", NEW slot \in todo,
         slot \in DOMAIN expected_keys, slot \in DOMAIN Current, Take(slot),
         Counted, kind = "memory" => left > 0
  PROVE  IInv'
<1>1. /\ todo' = todo \ {slot} /\ Pass(slot)
      /\ answer' = Put(answer, expected_keys[slot], Current[slot])
      /\ UNCHANGED call /\ history' = history /\ listed' = listed /\ outcome' = outcome
  BY DEF Take, Pass
<1>2. PICK e \in Range(keyspace) :
        /\ SlotOf(e) = slot /\ ~Shadowed(e)
        /\ expected_keys[slot] = Desc(e)
        /\ \A d \in Range(keyspace) : SlotOf(d) = slot /\ ~Shadowed(d) => d = e
  BY ExpectedFacts DEF IInv, Types
<1>3. PICK n \in 1..Len(history) : n = Len(history) /\ Current = history[n]
  <2>1. /\ Len(history) \in 1..(MaxWrites + 1) /\ MaxWrites + 1 \in Nat
        /\ Current = history[Len(history)]
    BY HistoryFacts DEF IInv
  <2>2. Len(history) \in 1..Len(history)
    BY <2>1
  <2>3. QED
    BY <2>1, <2>2
<1>4. Current[slot] \in Value
  <2>1. Current \in Dict(Slots, Value)
    BY <1>3, HistoryFacts DEF IInv
  <2>2. QED
    BY <2>1, DictFacts
<1>5. listed # 0 /\ (~Disturbed => slot \in DOMAIN history[listed])
  BY DEF IInv, Listing
<1>6. /\ DOMAIN answer' = DOMAIN answer \cup {Desc(e)}
      /\ answer'[Desc(e)] = Current[slot]
      /\ \A f \in DOMAIN answer : f # Desc(e) => answer'[f] = answer[f]
  BY <1>1, <1>2 DEF Put
<1>7. answer \in Dict(Fields, Value) /\ Desc(e) \in Fields
  BY DEF IInv, Answering, Fields
<1>8. answer' \in Dict(Fields, Value)
  BY <1>1, <1>2, <1>4, <1>7, PutType
<1>9. answer' \in Dict(Fields, Value \cup {Table})
  <2>1. /\ answer' \in [DOMAIN answer' -> Value] /\ DOMAIN answer' \subseteq Fields
    BY <1>8, DictFacts
  <2>2. answer' \in [DOMAIN answer' -> Value \cup {Table}]
    BY <2>1
  <2>3. QED
    BY <2>1, <2>2, DictIntro
<1>10. Types' /\ Listing'
  BY <1>1, <1>9, PassKeeps
<1>11. ASSUME ~Disturbed, NEW d \in Range(keyspace)
       PROVE  Answers(d)' <=> Answers(d) \/ d = e
  <2>1. Answers(d)' <=> /\ SlotOf(d) \in DOMAIN history[listed] \ (todo \ {slot})
                        /\ ~Shadowed(d)
    BY <1>1, <1>5, CallStays DEF Answers
  <2>2. SlotOf(d) = slot /\ ~Shadowed(d) <=> d = e
    BY <1>2
  <2>3. QED
    BY <1>5, <1>11, <2>1, <2>2 DEF Answers
<1>12. \A d \in Range(keyspace) : Desc(d) = Desc(e) <=> d = e
  <2>1. keyspace \in Keyspaces
    BY DEF IInv, Types
  <2>2. QED
    BY <2>1, KeyspaceFacts
<1>13. ASSUME NEW d \in Range(keyspace)
       PROVE  /\ ~Disturbed => (Desc(d) \in DOMAIN answer' <=> Answers(d)')
              /\ Desc(d) \in DOMAIN answer' => ~Shadowed(d) /\ WasHeld(d)'
  <2>1. CASE d = e
    <3>1. SlotOf(e) \in DOMAIN history[n] /\ answer'[Desc(e)] = history[n][SlotOf(e)]
      BY <1>2, <1>3, <1>6
    <3>2. WasHeld(e)'
      BY <1>1, <3>1, CallStays DEF WasHeld
    <3>3. Desc(e) \in DOMAIN answer' /\ (~Disturbed => Answers(e)')
      BY <1>6, <1>11
    <3>4. QED
      BY <1>2, <2>1, <3>2, <3>3
  <2>2. CASE d # e
    <3>1. /\ Desc(d) \in DOMAIN answer' <=> Desc(d) \in DOMAIN answer
          /\ Desc(d) \in DOMAIN answer => answer'[Desc(d)] = answer[Desc(d)]
          /\ ~Disturbed => (Answers(d)' <=> Answers(d))
      BY <1>6, <1>11, <1>12, <2>2
    <3>2. /\ ~Disturbed => (Desc(d) \in DOMAIN answer <=> Answers(d))
          /\ Desc(d) \in DOMAIN answer => ~Shadowed(d) /\ WasHeld(d)
      BY DEF IInv, Answering
    <3>3. Desc(d) \in DOMAIN answer /\ WasHeld(d) => WasHeld(d)'
      BY <1>1, <3>1, CallStays DEF WasHeld
    <3>4. QED
      BY <3>1, <3>2, <3>3
  <2>3. QED
    BY <2>1, <2>2
<1>14. Answering'
  <2>1. /\ Dict(Fields, Value)' = Dict(Fields, Value) /\ keyspace' = keyspace
        /\ Disturbed' <=> Disturbed
        /\ \A d : Shadowed(d)' = Shadowed(d)
    BY <1>1, CallStays, HistoryStays DEF Dict, call
  <2>2. QED
    BY <1>8, <1>13, <2>1 DEF Answering
<1>15. ErrorsHaveCause' /\ ValuesWereHeld'
  BY <1>1 DEF ErrorsHaveCause, ValuesWereHeld
<1>16. QED
  BY <1>10, <1>14, <1>15 DEF IInv

(* A slot of no field is passed over.                                      *)
LEMMA PassStep ==
  ASSUME IInv, ~IsFile, outcome = "running", NEW slot \in todo,
         slot \notin DOMAIN expected_keys, Pass(slot), answer' = answer,
         Counted, kind = "memory" => left > 0
  PROVE  IInv'
<1>1. /\ todo' = todo \ {slot}
      /\ UNCHANGED call /\ history' = history /\ listed' = listed /\ outcome' = outcome
  BY DEF Pass
<1>2. Types' /\ Listing'
  <2>1. answer' \in Dict(Fields, Value \cup {Table})
    BY DEF IInv, Types
  <2>2. QED
    BY <2>1, PassKeeps
<1>3. \A e \in Range(keyspace) : SlotOf(e) # slot
  BY DEF expected_keys
<1>4. \A e \in Range(keyspace) : (Answers(e)' <=> Answers(e)) /\ (WasHeld(e)' <=> WasHeld(e))
  BY <1>1, <1>3, CallStays DEF Answers, WasHeld
<1>5. Answering'
  <2>1. /\ Dict(Fields, Value)' = Dict(Fields, Value) /\ keyspace' = keyspace
        /\ Disturbed' <=> Disturbed
        /\ \A d : Shadowed(d)' = Shadowed(d)
    BY <1>1, CallStays, HistoryStays DEF Dict, call
  <2>2. QED
    BY <1>4, <2>1 DEF IInv, Answering
<1>6. ErrorsHaveCause' /\ ValuesWereHeld'
  BY <1>1 DEF ErrorsHaveCause, ValuesWereHeld
<1>7. QED
  BY <1>2, <1>5, <1>6 DEF IInv

(* The keys changed between the listing and the present, if they differ.    *)
LEMMA ChangedSince ==
  ASSUME Types, listed # 0, DOMAIN history[listed] # DOMAIN Current
  PROVE  KeySetChanged
<1>1. /\ Len(history) \in Nat /\ Len(history) > 0 /\ listed \in 0..Len(history)
      /\ DOMAIN history = 1..Len(history) /\ Current = history[Len(history)]
  BY HistoryFacts DEF Types
<1>2. listed \in DOMAIN history /\ Len(history) \in DOMAIN history
  BY <1>1
<1>3. QED
  BY <1>1, <1>2 DEF KeySetChanged

(* A key that was added is a change, too.                                  *)
LEMMA DisturbedChanged ==
  ASSUME Types, Disturbed
  PROVE  KeySetChanged
<1>1. PICK i \in (listed + 1)..Len(history) :
        ~(DOMAIN history[i] \subseteq DOMAIN history[i - 1])
  BY DEF Disturbed
<1>2. /\ Len(history) \in Nat /\ listed \in 0..Len(history) /\ DOMAIN history = 1..Len(history)
      /\ listed # 0
  BY HistoryFacts DEF Types, Disturbed
<1>3. i \in DOMAIN history /\ i - 1 \in DOMAIN history
  BY <1>2
<1>4. QED
  BY <1>1, <1>3 DEF KeySetChanged

(* A listed variable is read; it is a stranger's, or gone, if that raises. *)
LEMMA ReadVariableStep ==
  ASSUME IInv, NEW slot \in Slots, ReadVariable(slot)
  PROVE  IInv'
<1>1. /\ kind = "env" /\ outcome = "running" /\ slot \in todo /\ ~IsFile /\ ~Disturbed
      /\ IF slot \in DOMAIN expected_keys /\ slot \in DOMAIN Current
         THEN Take(slot) /\ left' = left ELSE Raise("KeyError")
  BY DEF ReadVariable, Reading, IsFile, Disturbed
<1>2. CASE slot \in DOMAIN expected_keys /\ slot \in DOMAIN Current
  <2>1. Counted
    BY <1>1, <1>2 DEF Counted
  <2>2. QED
    BY <1>1, <1>2, <2>1, TakeStep
<1>3. CASE ~(slot \in DOMAIN expected_keys /\ slot \in DOMAIN Current)
  <2>1. UNCHANGED <<call, history, listed, todo, left, answer>> /\ outcome' = "KeyError"
    BY <1>1, <1>3 DEF Raise
  <2>2. listed # 0 /\ slot \in DOMAIN history[listed]
    BY <1>1 DEF IInv, Listing
  <2>3. \/ \E s \in DOMAIN history[listed] : \A e \in Range(keyspace) : s # SlotOf(e)
        \/ KeySetChanged
    <3>1. CASE slot \notin DOMAIN expected_keys
      BY <2>2, <3>1 DEF expected_keys
    <3>2. CASE slot \notin DOMAIN Current
      BY <2>2, <3>2, ChangedSince DEF IInv
    <3>3. QED
      BY <1>3, <3>1, <3>2
  <2>4. \A e : SlotOf(e)' = SlotOf(e)
    BY <2>1, CallStays
  <2>5. KeySetChanged' <=> KeySetChanged
    BY <2>1 DEF KeySetChanged
  <2>6. ErrorsHaveCause' /\ ValuesWereHeld'
    BY <2>1, <2>3, <2>4, <2>5 DEF ErrorsHaveCause, ValuesWereHeld, call
  <2>7. QED
    BY <2>1, <2>6, EndStep
<1>4. QED
  BY <1>2, <1>3

(* The next item of the memory's dict is in the dict.                      *)
LEMMA NextItemStep ==
  ASSUME IInv, NEW slot \in Slots, NextItem(slot)
  PROVE  IInv'
<1>1. /\ kind = "memory" /\ outcome = "running" /\ ~IsFile
      /\ slot \in todo /\ slot \in DOMAIN Current
      /\ left > 0 /\ Counted
      /\ IF slot \in DOMAIN expected_keys THEN Take(slot) ELSE Pass(slot) /\ answer' = answer
  BY DEF NextItem, Reading, IsFile, Counted
<1>2. QED
  BY <1>1, TakeStep, PassStep

(* The iteration raises only after the keys changed.                       *)
LEMMA IterationRaisesStep ==
  ASSUME IInv, IterationRaises
  PROVE  IInv'
<1>1. /\ UNCHANGED <<call, history, listed, todo, left, answer>> /\ outcome' = "RuntimeError"
      /\ kind = "memory" /\ listed # 0
      /\ SizeChanged \/ (left = 0 /\ ItemsAhead)
  BY DEF IterationRaises, Raise
<1>2. KeySetChanged
  <2>1. CASE Disturbed
    BY <2>1, DisturbedChanged DEF IInv
  <2>2. CASE SizeChanged
    <3>1. DOMAIN history[listed] # DOMAIN Current
      BY <2>2 DEF SizeChanged
    <3>2. QED
      BY <1>1, <3>1, ChangedSince DEF IInv
  <2>3. CASE ~Disturbed /\ left = 0 /\ ItemsAhead
    <3>1. Cardinality(todo) = 0
      BY <1>1, <2>3 DEF IInv, Listing
    <3>2. IsFiniteSet(todo)
      BY FiniteSlots DEF IInv, Types
    <3>3. todo = {}
      BY <3>1, <3>2, FS_EmptySet
    <3>4. QED
      BY <2>3, <3>3 DEF ItemsAhead
  <2>4. QED
    BY <1>1, <2>1, <2>2, <2>3
<1>3. KeySetChanged'
  BY <1>1, <1>2 DEF KeySetChanged
<1>4. ErrorsHaveCause' /\ ValuesWereHeld'
  BY <1>1, <1>3 DEF ErrorsHaveCause, ValuesWereHeld
<1>5. QED
  BY <1>1, <1>4, EndStep

(* What a document or a dict holds for a field depends on the call only.    *)
LEMMA HeldOfCall ==
  ASSUME UNCHANGED call
  PROVE  \A c, e : Held(c, e)' = Held(c, e)
<1>1. /\ IsFile' = IsFile
      /\ \A e : SlotOf(e)' = SlotOf(e) /\ Shadowed(e)' = Shadowed(e)
  BY CallStays
<1>2. \A c, e : At(c, PathOf(e))' = At(c, PathOf(e))
  BY DEF At, PathOf
<1>3. QED
  BY <1>1, <1>2 DEF Held

(* Nothing is left to read, and the call returns.                          *)
LEMMA ReturnStep ==
  ASSUME IInv, Return
  PROVE  IInv'
<1>1. /\ UNCHANGED <<call, history, listed, todo, left, answer>> /\ outcome' = "returned"
      /\ listed # 0
  BY DEF Return
<1>2. ErrorsHaveCause'
  BY <1>1 DEF ErrorsHaveCause
<1>3. ~IsFile /\ DOMAIN history = 1..Len(history)
  BY <1>1, HistoryFacts DEF IInv, Listing
<1>4. ASSUME NEW e \in Range(keyspace), Desc(e) \in DOMAIN answer
      PROVE  \E i \in DOMAIN history : Held(history[i], e) = answer[Desc(e)]
  <2>1. ~Shadowed(e) /\ WasHeld(e)
    BY <1>3, <1>4 DEF IInv, Answering
  <2>2. PICK i \in 1..Len(history) :
          SlotOf(e) \in DOMAIN history[i] /\ answer[Desc(e)] = history[i][SlotOf(e)]
    BY <2>1 DEF WasHeld
  <2>3. Held(history[i], e) = answer[Desc(e)]
    BY <1>3, <2>1, <2>2 DEF Held
  <2>4. QED
    BY <1>3, <2>3
<1>5. ValuesWereHeld'
  <2>1. \A c, e : Held(c, e)' = Held(c, e)
    BY <1>1, HeldOfCall
  <2>2. /\ keyspace' = keyspace /\ history' = history /\ answer' = answer
    BY <1>1 DEF call
  <2>3. \A i, e : Held(history[i], e)' = Held(history[i], e)
    BY <2>1, <2>2
  <2>4. QED
    BY <1>4, <2>2, <2>3 DEF ValuesWereHeld
<1>6. QED
  BY <1>1, <1>2, <1>5, EndStep

(* What ParseDocument does, case by case.                                  *)
Parsed ==
  [d \in {Desc(e) : e \in Found(Current)} |->
     Get(Current, CHOOSE e \in Found(Current) : Desc(e) = d)]

(* ParseDocument raises one of two errors, or returns what it found.       *)
LEMMA ParseCases ==
  ASSUME ParseDocument
  PROVE  \/ Current = Unreadable /\ Raise("Unreadable")
         \/ /\ \E e \in Range(keyspace) : NoTableFor(Current, e.namespace)
            /\ Raise("AttributeError")
         \/ /\ Current # Unreadable
            /\ answer' = Parsed /\ outcome' = "returned"
            /\ UNCHANGED <<call, history, listed, todo, left>>
<1>1. CASE Current = Unreadable
  BY <1>1 DEF ParseDocument
<1>2. CASE /\ Current # Unreadable
           /\ \E e \in Range(keyspace) :
                e.namespace # None /\ NoTableFor(Current, e.namespace)
  BY <1>2 DEF ParseDocument
<1>3. CASE /\ Current # Unreadable
           /\ ~\E e \in Range(keyspace) :
                 e.namespace # None /\ NoTableFor(Current, e.namespace)
  BY <1>3 DEF ParseDocument, Parsed
<1>4. QED
  BY <1>1, <1>2, <1>3

(* The document that was read, if it can be.                               *)
LEMMA DocumentFacts ==
  ASSUME Types, IsFile, Current # Unreadable
  PROVE  /\ Current \in Dict(Slots, Value)
         /\ Parsed \in Dict(Fields, Value \cup {Table})
         /\ \A e \in Range(keyspace) :
              /\ Desc(e) \in DOMAIN Parsed <=> Get(Current, e) # Missing
              /\ Desc(e) \in DOMAIN Parsed => Parsed[Desc(e)] = Get(Current, e)
<1>1. Current \in Dict(Slots, Value)
  <2>1. Current \in Contents
    <3>1. /\ Len(history) \in 1..(MaxWrites + 1) /\ MaxWrites + 1 \in Nat
          /\ Current = history[Len(history)]
          /\ \A i \in 1..Len(history) : history[i] \in Contents
      BY HistoryFacts
    <3>2. Len(history) \in 1..Len(history)
      BY <3>1
    <3>3. QED
      BY <3>1, <3>2
  <2>2. QED
    BY <2>1 DEF Contents
<1>2. \A e, d \in Range(keyspace) : Desc(e) = Desc(d) => e = d
  BY KeyspaceFacts DEF Types
<1>3. \A e : e \in Found(Current) <=> e \in Range(keyspace) /\ Get(Current, e) # Missing
  BY DEF Found
<1> DEFINE of(d) == CHOOSE e \in Found(Current) : Desc(e) = d
<1>4. ASSUME NEW e \in Found(Current) PROVE of(Desc(e)) = e
  <2>1. of(Desc(e)) \in Found(Current) /\ Desc(of(Desc(e))) = Desc(e)
    <3> HIDE DEF Desc
    <3>1. QED
      OBVIOUS
  <2> HIDE DEF of, Desc
  <2>2. QED
    BY <1>2, <1>3, <2>1
<1> HIDE DEF of, Desc
<1>5. Parsed = [d \in {Desc(e) : e \in Found(Current)} |-> Get(Current, of(d))]
  BY DEF Parsed, of
<1>6. \A e \in Found(Current) : Desc(e) \in DOMAIN Parsed /\ Parsed[Desc(e)] = Get(Current, e)
  BY <1>4, <1>5
<1>7. \A e \in Range(keyspace) : Desc(e) \in DOMAIN Parsed => e \in Found(Current)
  <2> SUFFICES ASSUME NEW e \in Range(keyspace), NEW d \in Found(Current), Desc(e) = Desc(d)
               PROVE  e \in Found(Current)
    BY <1>5
  <2>1. QED
    BY <1>2, <1>3
<1>8. Parsed \in Dict(Fields, Value \cup {Table})
  <2>1. \A e \in Found(Current) : Get(Current, e) \in Value \cup {Table}
    BY <1>1, <1>3, AtFacts, AtIsGet
  <2>2. DOMAIN Parsed \subseteq Fields
    BY <1>3, <1>5 DEF Fields
  <2>3. \A d \in DOMAIN Parsed : Parsed[d] \in Value \cup {Table}
    BY <1>5, <1>6, <2>1
  <2>4. Parsed \in [DOMAIN Parsed -> Value \cup {Table}]
    BY <1>5, <2>3
  <2>5. QED
    BY <2>2, <2>4, DictIntro
<1>9. QED
  BY <1>1, <1>3, <1>6, <1>7, <1>8

(* A file is read at once.                                                 *)
LEMMA ParseStep ==
  ASSUME IInv, IsFile, ParseDocument
  PROVE  IInv'
<1>1. CASE Current = Unreadable /\ Raise("Unreadable")
  <2>1. UNCHANGED <<call, history, listed, todo, left, answer>> /\ outcome' = "Unreadable"
    BY <1>1 DEF Raise
  <2>2. ErrorsHaveCause' /\ ValuesWereHeld'
    BY <1>1, <2>1 DEF ErrorsHaveCause, ValuesWereHeld, Current
  <2>3. QED
    BY <2>1, <2>2, EndStep
<1>2. CASE /\ \E e \in Range(keyspace) : NoTableFor(Current, e.namespace)
           /\ Raise("AttributeError")
  <2>1. UNCHANGED <<call, history, listed, todo, left, answer>> /\ outcome' = "AttributeError"
    BY <1>2 DEF Raise
  <2>2. \E s \in DOMAIN Current, e \in Range(keyspace) : s = <<e.namespace>>
    BY <1>2 DEF NoTableFor
  <2>3. Current' = Current /\ keyspace' = keyspace
    BY <2>1 DEF Current, call
  <2>4. ErrorsHaveCause' /\ ValuesWereHeld'
    BY <2>1, <2>2, <2>3 DEF ErrorsHaveCause, ValuesWereHeld
  <2>5. QED
    BY <2>1, <2>4, EndStep
<1>3. CASE /\ Current # Unreadable
           /\ answer' = Parsed /\ outcome' = "returned"
           /\ UNCHANGED <<call, history, listed, todo, left>>
  <2>1. answer' \in Dict(Fields, Value \cup {Table})
    BY <1>3, DocumentFacts DEF IInv
  <2>2. Types'
    BY <1>3, <2>1, CallStays DEF IInv, Types, call
  <2>3. Listing'
    BY <1>3, CallStays DEF IInv, Listing
  <2>4. Answering'
    BY <1>3, CallStays DEF Answering
  <2>5. ErrorsHaveCause'
    BY <1>3 DEF ErrorsHaveCause
  <2>6. ValuesWereHeld'
    <3>1. PICK n \in DOMAIN history : history[n] = Current
      <4>1. /\ Len(history) \in 1..(MaxWrites + 1) /\ MaxWrites + 1 \in Nat
            /\ Current = history[Len(history)] /\ DOMAIN history = 1..Len(history)
        BY HistoryFacts DEF IInv
      <4>2. Len(history) \in DOMAIN history
        BY <4>1
      <4>3. QED
        BY <4>1, <4>2
    <3>2. /\ Current \in Dict(Slots, Value)
          /\ \A e \in Range(keyspace) : Desc(e) \in DOMAIN Parsed => Parsed[Desc(e)] = Get(Current, e)
      BY <1>3, DocumentFacts DEF IInv
    <3>3. \A e \in Range(keyspace) : Held(history[n], e) = Get(Current, e)
      BY <1>3, <3>1, <3>2, AtIsGet DEF Held, IInv, Types
    <3>4. /\ \A i, e : Held(history[i], e)' = Held(history[i], e)
          /\ keyspace' = keyspace /\ history' = history
      <4>1. (\A c, e : Held(c, e)' = Held(c, e)) /\ keyspace' = keyspace /\ history' = history
        BY <1>3, HeldOfCall DEF call
      <4>2. QED
        BY <4>1
    <3> HIDE DEF Desc
    <3>5. \A e \in Range(keyspace) : Desc(e) \in DOMAIN answer' =>
            Held(history[n], e) = answer'[Desc(e)]
      BY <1>3, <3>2, <3>3
    <3>6. QED
      BY <3>1, <3>4, <3>5 DEF ValuesWereHeld
  <2>7. QED
    BY <2>2, <2>3, <2>4, <2>5, <2>6 DEF IInv
<1>4. QED
  BY <1>1, <1>2, <1>3, ParseCases

(* Every step of Next keeps the invariant.                                 *)
LEMMA CallStep == IInv /\ [Next]_vars => IInv'
<1> SUFFICES ASSUME IInv, [Next]_vars PROVE IInv'
  OBVIOUS
<1>1. CASE ReadJson \/ ReadToml
  <2>1. IsFile /\ ParseDocument
    BY <1>1 DEF ReadJson, ReadToml, IsFile
  <2>2. QED
    BY <2>1, ParseStep
<1>2. CASE UNCHANGED vars
  <2>1. /\ UNCHANGED call /\ history' = history /\ listed' = listed /\ left' = left
        /\ todo' = todo /\ answer' = answer /\ outcome' = outcome
        /\ kind' = kind /\ keyspace' = keyspace
    BY <1>2 DEF vars, call
  <2>2. /\ Disturbed' <=> Disturbed
        /\ KeySetChanged' <=> KeySetChanged
        /\ Current' = Current
    BY <2>1, HistoryStays
  <2>3. Types' /\ Listing'
    BY <2>1, <2>2, CallStays DEF IInv, Types, Listing
  <2>4. Answering'
    <3>1. \A e : (Answers(e)' <=> Answers(e)) /\ (WasHeld(e)' <=> WasHeld(e))
      BY <2>1, CallStays DEF Answers, WasHeld
    <3>2. QED
      BY <2>1, <2>2, <3>1, CallStays DEF IInv, Answering
  <2>5. ErrorsHaveCause'
    <3>1. \A e : SlotOf(e)' = SlotOf(e)
      BY <2>1, CallStays
    <3>2. QED
      BY <2>1, <2>2, <3>1 DEF IInv, ErrorsHaveCause
  <2>6. ValuesWereHeld'
    <3>1. \A c, e : Held(c, e)' = Held(c, e)
      BY <2>1, HeldOfCall
    <3>2. \A i, e : Held(history[i], e)' = Held(history[i], e)
      BY <2>1, <3>1
    <3>3. QED
      BY <2>1, <3>2 DEF IInv, ValuesWereHeld
  <2>7. QED
    BY <2>3, <2>4, <2>5, <2>6 DEF IInv
<1>3. QED
  BY <1>1, <1>2, WriteStep, ListStep, ReadVariableStep, NextItemStep, IterationRaisesStep,
    ReturnStep DEF Next

(* IInv is inductive.                                                      *)
THEOREM Inductive == Spec => []IInv
<1>1. QED
  BY InitHolds, CallStep, PTL DEF Spec

-------------------------------------------------------------------------------
(* A call of a backend, and the storage behind it, keep their types.        *)
THEOREM TypeCorrect == Spec => []TypeOK
<1>1. IInv => TypeOK
  BY DEF IInv, Types, TypeOK
<1>2. QED
  BY <1>1, Inductive, PTL

(* Whatever a call raises, the storage gave cause for it.                   *)
THEOREM ErrorsAreCaused == Spec => []ErrorsHaveCause
<1>1. IInv => ErrorsHaveCause
  BY DEF IInv
<1>2. QED
  BY <1>1, Inductive, PTL

(* Every value that a call returns was held for its field during the call,  *)
(* however the storage changed.                                            *)
THEOREM ReturnsWhatWasHeld == Spec => []ValuesWereHeld
<1>1. IInv => ValuesWereHeld
  BY DEF IInv
<1>2. QED
  BY <1>1, Inductive, PTL

-------------------------------------------------------------------------------
(* The refinement.  past, as BackendCall sees it, is what the storage held   *)
(* for each field; the answer is empty until a call returns that nothing    *)
(* disturbed.                                                              *)
PastHeld == [i \in DOMAIN history |-> HeldFor(history[i])]
AnswerGiven == IF Returned THEN answer ELSE EmptyDict
OutcomeSeen == IF outcome = "running" THEN "running"
               ELSE IF Returned THEN "returned" ELSE "raised"

(* What a content of the storage holds for the fields of the keyspace.       *)
LEMMA HeldFacts ==
  ASSUME Types, NEW content \in Contents
  PROVE  /\ HeldFor(content) \in Call!Storage
         /\ Fields \subseteq AllFields
         /\ \A e \in Range(keyspace) : HeldFor(content)[Desc(e)] = Held(content, e)
<1> DEFINE of(f) == CHOOSE e \in Range(keyspace) : Desc(e) = f
<1>1. /\ keyspace \in Keyspaces
      /\ DOMAIN keyspace = 1..Len(keyspace)
      /\ Range(keyspace) = {keyspace[i] : i \in 1..Len(keyspace)}
      /\ \A e, d \in Range(keyspace) : Desc(e) = Desc(d) => e = d
  BY KeyspaceFacts DEF Types
<1> HIDE DEF Desc
<1>2. Fields \subseteq AllFields
  <2>1. \A e \in Range(keyspace) : \E i \in DOMAIN keyspace : Desc(e) = Desc(keyspace[i])
    BY <1>1
  <2>2. QED
    BY <1>1, <2>1 DEF Fields, AllFields
<1>3. \A e \in Range(keyspace) : of(Desc(e)) = e
  BY <1>1
<1>4. \A f \in Fields : of(f) \in Range(keyspace)
  BY <1>3 DEF Fields
<1>5. ~IsFile => content \in Dict(Slots, Value)
  BY DEF Contents
<1>6. IsFile /\ content # Unreadable => content \in Dict(Slots, Value)
  BY DEF Contents
<1>7. \A e \in Range(keyspace) : Held(content, e) \in Value \cup {Table, Missing}
  <2>1. TAKE e \in Range(keyspace)
  <2>2. CASE IsFile /\ content = Unreadable
    BY <2>2 DEF Held
  <2>3. CASE IsFile /\ content # Unreadable
    BY <1>6, <2>3, AtFacts DEF Held
  <2>4. CASE ~IsFile
    <3>1. content \in [DOMAIN content -> Value]
      BY <1>5, <2>4, DictFacts
    <3>2. QED
      BY <2>4, <3>1 DEF Held
  <2>5. QED
    BY <2>2, <2>3, <2>4
<1>8. HeldFor(content) =
        [f \in AllFields |-> IF f \in Fields THEN Held(content, of(f)) ELSE Missing]
  BY DEF HeldFor
<1> HIDE DEF of
<1>9. \A f \in AllFields : (IF f \in Fields THEN Held(content, of(f)) ELSE Missing)
                            \in Value \cup {Table} \cup {Missing}
  BY <1>4, <1>7
<1>10. HeldFor(content) \in Call!Storage
  BY <1>8, <1>9 DEF Call!Storage
<1>11. \A e \in Range(keyspace) : HeldFor(content)[Desc(e)] = Held(content, e)
  <2>1. \A e \in Range(keyspace) : Desc(e) \in Fields
    BY DEF Fields
  <2>2. QED
    BY <1>2, <1>3, <1>8, <2>1
<1>12. QED
  BY <1>2, <1>10, <1>11

(* The past that BackendCall sees is one of its pasts.                      *)
LEMMA PastFacts ==
  ASSUME Types
  PROVE  /\ PastHeld \in Seq(Call!Storage)
         /\ DOMAIN PastHeld = 1..Len(history) /\ Len(PastHeld) = Len(history)
         /\ \A i \in 1..Len(history) : \A e \in Range(keyspace) :
              PastHeld[i][Desc(e)] = Held(history[i], e)
<1>1. /\ Len(history) \in Nat /\ DOMAIN history = 1..Len(history)
      /\ \A i \in 1..Len(history) : history[i] \in Contents
  BY HistoryFacts
<1>2. PastHeld = [i \in 1..Len(history) |-> HeldFor(history[i])]
  BY <1>1 DEF PastHeld
<1>3. \A i \in 1..Len(history) : HeldFor(history[i]) \in Call!Storage
  BY <1>1, HeldFacts
<1>4. PastHeld \in Seq(Call!Storage) /\ Len(PastHeld) = Len(history)
  BY <1>1, <1>2, <1>3
<1>5. QED
  BY <1>1, <1>2, <1>4, HeldFacts

(* The call starts as the promise says.                                    *)
LEMMA StartsAsCall == Init => Call!Init
<1> SUFFICES ASSUME Init PROVE Call!Init
  OBVIOUS
<1>1. PICK content \in Contents : history = <<content>>
  BY DEF Init
<1>2. Types
  BY InitHolds DEF IInv
<1>3. HeldFor(content) \in Call!Storage /\ Fields \in SUBSET AllFields
  BY <1>2, HeldFacts
<1>4. PastHeld = <<HeldFor(content)>>
  BY <1>1 DEF PastHeld
<1>5. PastHeld \in {<<s>> : s \in Call!Storage}
  BY <1>3, <1>4
<1>6. AnswerGiven = Call!EmptyDict /\ OutcomeSeen = "running"
  BY DEF Init, AnswerGiven, OutcomeSeen, Returned, EmptyDict, Call!EmptyDict
<1>7. QED
  BY <1>3, <1>5, <1>6 DEF Call!Init, PastHeld, AnswerGiven, OutcomeSeen

(* What a content holds for a field does not depend on the state of the call. *)
LEMMA HeldStays ==
  ASSUME UNCHANGED call
  PROVE  \A c : HeldFor(c)' = HeldFor(c)
<1>1. Fields' = Fields /\ keyspace' = keyspace
  BY CallStays DEF call
<1>2. \A c, e : Held(c, e)' = Held(c, e)
  BY HeldOfCall
<1>3. QED
  BY <1>1, <1>2 DEF HeldFor

(* A change of the storage is one that the promise allows for.              *)
LEMMA WriteImplements ==
  ASSUME IInv, NEW content \in Contents, Write(content)
  PROVE  Call!Write
<1>1. /\ history' = Append(history, content) /\ UNCHANGED call
      /\ outcome = "running" /\ outcome' = outcome /\ Types /\ Types'
  BY WriteStep DEF Write, IInv
<1>2. /\ Len(history) \in Nat /\ Len(history) > 0
      /\ DOMAIN history = 1..Len(history)
      /\ history \in Seq(Contents)
  BY <1>1, HistoryFacts DEF Types
<1>3. /\ Len(history') = Len(history) + 1
      /\ \A i \in 1..Len(history) : history'[i] = history[i]
  BY <1>1, <1>2
<1>4. /\ PastHeld' = [i \in 1..(Len(history) + 1) |-> HeldFor(history'[i])]
      /\ PastHeld = [i \in 1..Len(history) |-> HeldFor(history[i])]
  <2>1. PastHeld' = [i \in DOMAIN history' |-> HeldFor(history[i])']
    BY DEF PastHeld
  <2>2. DOMAIN history' = 1..(Len(history) + 1)
    BY <1>1, <1>2
  <2>3. \A i : HeldFor(history[i])' = HeldFor(history'[i])
    BY <1>1, HeldStays
  <2>4. QED
    BY <1>2, <2>1, <2>2, <2>3 DEF PastHeld
<1>5. /\ PastHeld' \in Seq(Call!Storage)
      /\ Len(PastHeld') = Len(history) + 1
      /\ \A i \in 1..Len(history) : PastHeld'[i] = PastHeld[i]
  <2>1. \A i \in 1..(Len(history) + 1) : history'[i] \in Contents
    BY <1>1, <1>2
  <2>2. \A i \in 1..(Len(history) + 1) : HeldFor(history'[i]) \in Call!Storage
    BY <1>1, <2>1, HeldFacts
  <2>3. QED
    BY <1>2, <1>3, <1>4, <2>2
<1>6. Call!Front(PastHeld') = PastHeld
  <2>1. PastHeld \in Seq(Call!Storage) /\ Len(PastHeld) = Len(history)
    BY <1>1, PastFacts
  <2>2. /\ Front(PastHeld') \in Seq(Call!Storage)
        /\ Len(Front(PastHeld')) = Len(history)
        /\ \A i \in 1..Len(history) : Front(PastHeld')[i] = PastHeld'[i]
    <3>1. PastHeld' # <<>> /\ Len(PastHeld') - 1 = Len(history)
      BY <1>2, <1>5
    <3> HIDE DEF PastHeld
    <3>2. QED
      BY <1>5, <3>1, FrontFacts
  <2>3. Front(PastHeld') = PastHeld
    <3> HIDE DEF PastHeld
    <3>1. QED
      BY <1>5, <2>1, <2>2
  <2>4. QED
    BY <2>3 DEF Front, Call!Front
<1>7. Fields' = Fields /\ AnswerGiven' = AnswerGiven /\ OutcomeSeen' = OutcomeSeen
  BY <1>1, CallStays DEF AnswerGiven, OutcomeSeen, Returned, EmptyDict
<1>8. QED
  BY <1>5, <1>6, <1>7 DEF Call!Write, PastHeld, AnswerGiven, OutcomeSeen

(* Listing and reading are not seen from outside.                           *)
LEMMA WorkImplements ==
  ASSUME UNCHANGED <<call, history>>, outcome = "running", outcome' = "running"
  PROVE  UNCHANGED Call!vars
<1>1. UNCHANGED call /\ history' = history
  OBVIOUS
<1>2. PastHeld' = PastHeld
  BY <1>1, HeldStays DEF PastHeld
<1>3. Fields' = Fields
  BY <1>1, CallStays
<1>4. AnswerGiven' = AnswerGiven /\ OutcomeSeen' = OutcomeSeen
  BY DEF AnswerGiven, OutcomeSeen, Returned, EmptyDict
<1>5. QED
  BY <1>2, <1>3, <1>4 DEF Call!vars, PastHeld, AnswerGiven, OutcomeSeen

(* An exception ends the call without an answer, and so does, as the promise *)
(* sees it, a return after a key was added.                                *)
LEMMA RaiseImplements ==
  ASSUME outcome = "running", outcome' # "running", ~Returned', UNCHANGED <<call, history>>
  PROVE  Call!Raise
<1>1. UNCHANGED call /\ history' = history
  OBVIOUS
<1>2. PastHeld' = PastHeld
  BY <1>1, HeldStays DEF PastHeld
<1>3. Fields' = Fields
  BY <1>1, CallStays
<1>4. AnswerGiven' = AnswerGiven /\ OutcomeSeen = "running" /\ OutcomeSeen' = "raised"
  <2>1. ~Returned
    BY DEF Returned
  <2>2. QED
    BY <2>1 DEF AnswerGiven, OutcomeSeen, EmptyDict
<1>5. QED
  BY <1>2, <1>3, <1>4 DEF Call!Raise, PastHeld, AnswerGiven, OutcomeSeen

(* A call that returns gives the answer if the storage had each value that  *)
(* the answer holds, and none for a field that it leaves out, at some time. *)
LEMMA AnswerImplements ==
  ASSUME Types, outcome = "running", outcome' = "returned",
         UNCHANGED <<call, history, listed>>, ~Disturbed,
         answer' \in Dict(Fields, Value \cup {Table}),
         \A e \in Range(keyspace) : \E i \in 1..Len(history) :
           Held(history[i], e) =
             IF Desc(e) \in DOMAIN answer' THEN answer'[Desc(e)] ELSE Missing
  PROVE  Call!Return
<1>1. UNCHANGED call /\ history' = history
  OBVIOUS
<1>2. PastHeld' = PastHeld
  BY <1>1, HeldStays DEF PastHeld
<1>3. Fields' = Fields
  BY <1>1, CallStays
<1>4. AnswerGiven' = answer' /\ OutcomeSeen = "running" /\ OutcomeSeen' = "returned"
  <2>1. Returned'
    BY HistoryStays DEF Returned
  <2>2. QED
    BY <2>1 DEF AnswerGiven, OutcomeSeen
<1>5. answer' \in Call!Dict(Fields, Value \cup {Table}) /\ DOMAIN answer' \subseteq Fields
  BY DictFacts DEF Dict, Call!Dict
<1>6. \A f \in Fields : \E i \in DOMAIN PastHeld :
        PastHeld[i][f] = IF f \in DOMAIN answer' THEN answer'[f] ELSE Missing
  <2> HIDE DEF Desc
  <2>1. TAKE f \in Fields
  <2>2. PICK e \in Range(keyspace) : f = Desc(e)
    BY DEF Fields
  <2>3. PICK i \in 1..Len(history) :
          Held(history[i], e) =
            IF Desc(e) \in DOMAIN answer' THEN answer'[Desc(e)] ELSE Missing
    OBVIOUS
  <2>4. i \in DOMAIN PastHeld /\ PastHeld[i][f] = Held(history[i], e)
    BY <2>2, PastFacts
  <2>5. QED
    BY <2>2, <2>3, <2>4
<1>7. QED
  BY <1>2, <1>3, <1>4, <1>5, <1>6
  DEF Call!Return, Call!MayAnswer, PastHeld, AnswerGiven, OutcomeSeen

(* An iteration that nothing disturbed ends with nothing left to read.      *)
LEMMA NothingLeft ==
  ASSUME IInv, Return, ~Disturbed
  PROVE  todo = {}
<1>1. CASE kind = "memory"
  <2>1. /\ listed # 0 /\ todo \cap DOMAIN Current = {}
        /\ Cardinality(DOMAIN Current) = Cardinality(DOMAIN history[listed])
    BY <1>1 DEF Return, SizeChanged, ItemsAhead
  <2>2. todo \subseteq DOMAIN history[listed] /\ DOMAIN Current \subseteq DOMAIN history[listed]
    BY <1>1, <2>1 DEF IInv, Listing
  <2>3. IsFiniteSet(DOMAIN history[listed])
    <3>1. listed \in 1..Len(history) /\ ~IsFile
      BY <1>1, <2>1, HistoryFacts DEF IInv, Types, IsFile
    <3>2. DOMAIN history[listed] \subseteq Slots
      BY <3>1, HistoryFacts, DictFacts DEF IInv
    <3>3. QED
      BY <3>2, FiniteSlots DEF IInv, Types
  <2>4. DOMAIN Current = DOMAIN history[listed]
    BY <2>1, <2>2, <2>3, FS_Subset
  <2>5. QED
    BY <2>1, <2>2, <2>4
<1>2. CASE kind = "env"
  BY <1>2 DEF Return
<1>3. CASE IsFile
  BY <1>3 DEF Return, IInv, Listing
<1>4. QED
  BY <1>1, <1>2, <1>3 DEF IInv, Types, Kind, IsFile

(* What was read slot by slot is an answer: a field without one was not     *)
(* listed, or a later field has its slot.                                  *)
LEMMA ReturnImplements ==
  ASSUME IInv, Return
  PROVE  Call!Return \/ Call!Raise
<1>1. /\ UNCHANGED <<call, history, listed>> /\ answer' = answer
      /\ outcome = "running" /\ outcome' = "returned"
      /\ listed # 0
  BY DEF Return
<1>2. /\ Types /\ ~IsFile /\ answer \in Dict(Fields, Value \cup {Table})
      /\ listed \in 1..Len(history)
  <2>1. Len(history) \in Nat /\ listed \in 0..Len(history)
    BY HistoryFacts DEF IInv, Types
  <2>2. QED
    BY <1>1, <2>1 DEF IInv, Types, Listing
<1>3. CASE Disturbed
  <2>1. ~Returned'
    BY <1>1, <1>3, HistoryStays DEF Returned
  <2>2. QED
    BY <1>1, <2>1, RaiseImplements
<1>4. CASE ~Disturbed
  <2>1. todo = {}
    BY <1>4, NothingLeft
  <2>2. ASSUME NEW e \in Range(keyspace)
        PROVE  \E i \in 1..Len(history) :
                 Held(history[i], e)
                   = IF Desc(e) \in DOMAIN answer THEN answer[Desc(e)] ELSE Missing
    <3>1. CASE Desc(e) \in DOMAIN answer
      <4>1. ~Shadowed(e) /\ WasHeld(e)
        BY <1>2, <3>1 DEF IInv, Answering
      <4>2. PICK i \in 1..Len(history) :
              SlotOf(e) \in DOMAIN history[i] /\ answer[Desc(e)] = history[i][SlotOf(e)]
        BY <4>1 DEF WasHeld
      <4>3. Held(history[i], e) = answer[Desc(e)]
        BY <1>2, <4>1, <4>2 DEF Held
      <4>4. QED
        BY <3>1, <4>3
    <3>2. CASE Desc(e) \notin DOMAIN answer
      <4>1. SlotOf(e) \notin DOMAIN history[listed] \/ Shadowed(e)
        BY <1>1, <1>2, <1>4, <2>1, <3>2 DEF IInv, Answering, Answers
      <4>2. Held(history[listed], e) = Missing
        BY <1>2, <4>1 DEF Held
      <4>3. QED
        BY <1>2, <3>2, <4>2
    <3>3. QED
      BY <3>1, <3>2
  <2>3. QED
    BY <1>1, <1>2, <1>4, <2>2, AnswerImplements
<1>5. QED
  BY <1>3, <1>4

(* A file is read at once: its last content is the one that is returned.    *)
LEMMA ParseImplements ==
  ASSUME IInv, IsFile, outcome = "running", ParseDocument
  PROVE  Call!Return \/ Call!Raise
<1>1. CASE Current = Unreadable /\ Raise("Unreadable")
  BY <1>1, RaiseImplements DEF Raise, Returned
<1>2. CASE Raise("AttributeError")
  BY <1>2, RaiseImplements DEF Raise, Returned
<1>3. CASE /\ Current # Unreadable
           /\ answer' = Parsed /\ outcome' = "returned"
           /\ UNCHANGED <<call, history, listed, todo, left>>
  <2>1. /\ Types
        /\ Parsed \in Dict(Fields, Value \cup {Table})
        /\ \A e \in Range(keyspace) :
             /\ Desc(e) \in DOMAIN Parsed <=> Get(Current, e) # Missing
             /\ Desc(e) \in DOMAIN Parsed => Parsed[Desc(e)] = Get(Current, e)
    BY <1>3, DocumentFacts DEF IInv
  <2>2. Len(history) \in 1..Len(history) /\ Current = history[Len(history)]
    <3>1. /\ Len(history) \in 1..(MaxWrites + 1) /\ MaxWrites + 1 \in Nat
          /\ Current = history[Len(history)]
      BY <2>1, HistoryFacts
    <3>2. QED
      BY <3>1
  <2>3. \A e \in Range(keyspace) : Held(Current, e) = Get(Current, e)
    BY <1>3, <2>1, DocumentFacts, AtIsGet DEF Held, Types
  <2> HIDE DEF Desc
  <2>4. \A e \in Range(keyspace) : \E i \in 1..Len(history) :
          Held(history[i], e) = IF Desc(e) \in DOMAIN Parsed THEN Parsed[Desc(e)] ELSE Missing
    BY <2>1, <2>2, <2>3
  <2>5. ~Disturbed
    BY DEF Disturbed, IsFile
  <2>6. QED
    BY <1>3, <2>1, <2>4, <2>5, AnswerImplements
<1>4. QED
  BY <1>1, <1>2, <1>3, ParseCases

(* Every step is one of the promise, or is not seen.                        *)
LEMMA StepImplements == IInv /\ [Next]_vars => [Call!Next]_Call!vars
<1> SUFFICES ASSUME IInv, [Next]_vars PROVE [Call!Next]_Call!vars
  OBVIOUS
<1>1. ASSUME NEW content \in Contents, Write(content) PROVE Call!Next
  BY <1>1, WriteImplements DEF Call!Next
<1>2. CASE List
  BY <1>2, WorkImplements DEF List
<1>3. ASSUME NEW slot \in Slots, ReadVariable(slot) PROVE [Call!Next]_Call!vars
  <2>1. outcome = "running" /\ (Take(slot) \/ Raise("KeyError"))
    BY <1>3 DEF ReadVariable, Reading
  <2>2. CASE Take(slot)
    BY <2>1, <2>2, WorkImplements DEF Take, Pass
  <2>3. CASE Raise("KeyError")
    BY <2>1, <2>3, RaiseImplements DEF Raise, Returned, Call!Next
  <2>4. QED
    BY <2>1, <2>2, <2>3
<1>4. ASSUME NEW slot \in Slots, NextItem(slot) PROVE UNCHANGED Call!vars
  <2>1. outcome = "running" /\ Pass(slot)
    BY <1>4 DEF NextItem, Reading, Take
  <2>2. UNCHANGED <<call, history>> /\ outcome' = "running"
    BY <2>1 DEF Pass
  <2>3. QED
    BY <2>1, <2>2, WorkImplements
<1>5. CASE IterationRaises
  <2>1. outcome = "running" /\ Raise("RuntimeError")
    BY <1>5 DEF IterationRaises
  <2>2. QED
    BY <2>1, RaiseImplements DEF Raise, Returned, Call!Next
<1>6. CASE Return
  BY <1>6, ReturnImplements DEF Call!Next
<1>7. CASE ReadJson \/ ReadToml
  <2>1. IsFile /\ outcome = "running" /\ ParseDocument
    BY <1>7 DEF ReadJson, ReadToml, IsFile
  <2>2. QED
    BY <2>1, ParseImplements DEF Call!Next
<1>8. CASE UNCHANGED vars
  <2>1. /\ UNCHANGED call /\ history' = history /\ listed' = listed
        /\ answer' = answer /\ outcome' = outcome
    BY <1>8 DEF vars, call
  <2>2. PastHeld' = PastHeld /\ Fields' = Fields
    BY <2>1, HeldStays, CallStays DEF PastHeld
  <2>3. AnswerGiven' = AnswerGiven /\ OutcomeSeen' = OutcomeSeen
    BY <2>1, HistoryStays DEF AnswerGiven, OutcomeSeen, Returned, EmptyDict
  <2>4. QED
    BY <2>2, <2>3 DEF Call!vars, PastHeld, AnswerGiven, OutcomeSeen
<1>9. QED
  BY <1>1, <1>2, <1>3, <1>4, <1>5, <1>6, <1>7, <1>8 DEF Next

(* Each of the prebaked backends keeps the promise of the protocol, for     *)
(* every field whose slot no later field takes, however the storage changes *)
(* during the call, unless it is MemoryBackend and a key was added while it *)
(* iterated over its dict.                                                 *)
THEOREM BackendsKeepPromise == Spec => ImplementsCall
<1>1. QED
  BY StartsAsCall, StepImplements, Inductive, PTL DEF Spec, ImplementsCall, Call!Spec

===============================================================================
