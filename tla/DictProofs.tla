------------------------------ MODULE DictProofs ------------------------------
(* Facts about dictionaries and lists, about taking a sequence for a stack  *)
(* or a queue, and about the least of a set of numbers, that the proofs     *)
(* about the components use.                                               *)
EXTENDS Dicts, Functions, FiniteSetsExt, SequencesExt, SequenceTheorems,
        WellFoundedInduction, TLAPS

(* A dictionary is a function on some of its keys.                         *)
LEMMA DictFacts ==
  ASSUME NEW K, NEW V, NEW d \in Dict(K, V)
  PROVE  /\ DOMAIN d \subseteq K
         /\ d \in [DOMAIN d -> V]
  BY DEF Dict

(* A function on a set of keys is a dictionary of them.                    *)
LEMMA DictIntro ==
  ASSUME NEW K, NEW V, NEW D \in SUBSET K, NEW d \in [D -> V]
  PROVE  d \in Dict(K, V)
  BY DEF Dict

(* The empty dictionary is one, whatever its keys and values would be.      *)
LEMMA EmptyType ==
  ASSUME NEW K, NEW V
  PROVE  EmptyDict \in Dict(K, V) /\ DOMAIN EmptyDict = {}
  BY DEF Dict, EmptyDict

(* d[k] = v keeps a dictionary a dictionary.                               *)
LEMMA PutType ==
  ASSUME NEW K, NEW V, NEW d \in Dict(K, V), NEW k \in K, NEW v \in V
  PROVE  Put(d, k, v) \in Dict(K, V)
<1>1. d \in [DOMAIN d -> V] /\ DOMAIN d \subseteq K
  BY DictFacts
<1>2. Put(d, k, v) \in [DOMAIN d \cup {k} -> V]
  BY <1>1 DEF Put
<1>3. QED
  BY <1>1, <1>2, DictIntro

(* Putting a new value under a new key keeps a dictionary injective.        *)
LEMMA PutInjective ==
  ASSUME NEW K, NEW V, NEW d \in Dict(K, V), NEW k \in K, NEW v \in V,
         k \notin DOMAIN d, v \notin Range(d), IsInjective(d)
  PROVE  /\ IsInjective(Put(d, k, v))
         /\ Range(Put(d, k, v)) = Range(d) \cup {v}
<1> DEFINE e == Put(d, k, v)
<1>1. /\ DOMAIN e = DOMAIN d \cup {k}
      /\ e[k] = v
      /\ \A x \in DOMAIN d : e[x] = d[x]
  BY DEF Put
<1>2. Range(e) = Range(d) \cup {v}
  BY <1>1 DEF Range
<1>3. \A x \in DOMAIN d : d[x] # v
  BY DEF Range
<1>4. IsInjective(e)
  BY <1>1, <1>3 DEF IsInjective
<1>5. QED
  BY <1>2, <1>4

(* d.update(e) is a dictionary of the keys of both, where e wins.           *)
LEMMA UpdateType ==
  ASSUME NEW K, NEW V, NEW d \in Dict(K, V), NEW e \in Dict(K, V)
  PROVE  Update(d, e) \in Dict(K, V)
<1>1. /\ d \in [DOMAIN d -> V] /\ DOMAIN d \subseteq K
      /\ e \in [DOMAIN e -> V] /\ DOMAIN e \subseteq K
  BY DictFacts
<1>2. Update(d, e) \in [DOMAIN d \cup DOMAIN e -> V]
  BY <1>1 DEF Update
<1>3. QED
  BY <1>1, <1>2, DictIntro

(* Dropping the last element of a sequence.                                *)
LEMMA FrontFacts ==
  ASSUME NEW S, NEW s \in Seq(S), s # <<>>
  PROVE  /\ Front(s) \in Seq(S)
         /\ Len(Front(s)) = Len(s) - 1
         /\ \A i \in 1..(Len(s) - 1) : Front(s)[i] = s[i]
<1> DEFINE n == Len(s) - 1
<1>1. n \in Nat /\ \A i \in 1..n : s[i] \in S
  OBVIOUS
<1>2. Front(s) = SubSeq(s, 1, n)
  BY DEF Front
<1> HIDE DEF n
<1>3. /\ SubSeq(s, 1, n) \in Seq(S)
      /\ Len(SubSeq(s, 1, n)) = IF 1 <= n THEN n - 1 + 1 ELSE 0
      /\ \A i \in 1..(n - 1 + 1) : SubSeq(s, 1, n)[i] = s[1 + i - 1]
  BY <1>1, SubSeqProperties
<1>4. Len(SubSeq(s, 1, n)) = n
  BY <1>1, <1>3
<1>5. \A i \in 1..n : SubSeq(s, 1, n)[i] = s[i]
  <2>1. TAKE i \in 1..n
  <2>2. i \in 1..(n - 1 + 1) /\ 1 + i - 1 = i
    BY <1>1
  <2>3. QED
    BY <1>3, <2>2
<1>6. QED
  BY <1>2, <1>3, <1>4, <1>5 DEF n

(* Taking the first element off a sequence: the rest holds nothing else,    *)
(* and with the first element all of the sequence.                         *)
LEMMA TailFacts ==
  ASSUME NEW S, NEW s \in Seq(S), s # <<>>
  PROVE  /\ Head(s) \in S
         /\ Tail(s) \in Seq(S)
         /\ Range(s) = {Head(s)} \cup Range(Tail(s))
<1>1. /\ Len(s) \in Nat /\ Len(s) > 0
      /\ \A i \in 1..Len(s) : s[i] \in S
      /\ Head(s) = s[1]
      /\ Tail(s) \in Seq(S)
      /\ Len(Tail(s)) = Len(s) - 1
      /\ \A i \in 1..(Len(s) - 1) : Tail(s)[i] = s[i + 1]
  OBVIOUS
<1>2. Range(s) = {s[i] : i \in 1..Len(s)}
  BY DEF Range
<1>3. Range(Tail(s)) = {Tail(s)[i] : i \in 1..(Len(s) - 1)}
  <2>1. DOMAIN Tail(s) = 1..(Len(s) - 1)
    <3>1. \A r \in Seq(S) : DOMAIN r = 1..Len(r)
      OBVIOUS
    <3>2. QED
      BY <1>1, <3>1
  <2>2. QED
    BY <2>1 DEF Range
<1>4. \A i \in 1..Len(s) : i = 1 \/ (i - 1 \in 1..(Len(s) - 1) /\ Tail(s)[i - 1] = s[i])
  <2>1. TAKE i \in 1..Len(s)
  <2>2. CASE i # 1
    <3>1. i - 1 \in 1..(Len(s) - 1) /\ i - 1 + 1 = i
      BY <2>2, <1>1
    <3>2. QED
      BY <3>1, <1>1
  <2>3. QED
    BY <2>2
<1>5. \A i \in 1..(Len(s) - 1) : i + 1 \in 1..Len(s)
  BY <1>1
<1>6. Range(s) \subseteq {Head(s)} \cup Range(Tail(s))
  BY <1>1, <1>2, <1>3, <1>4
<1>7. {Head(s)} \cup Range(Tail(s)) \subseteq Range(s)
  BY <1>1, <1>2, <1>3, <1>5
<1>8. QED
  BY <1>1, <1>6, <1>7

(* A set of numbers that is not empty has a least one, which Min chooses.   *)
LEMMA MinFacts ==
  ASSUME NEW S \in SUBSET Nat, S # {}
  PROVE  Min(S) \in S /\ \A y \in S : Min(S) <= y
<1> DEFINE less == OpToRel(<, Nat)
<1>1. IsWellFoundedOn(less, Nat)
  BY NatLessThanWellFounded
<1>2. \A x, y \in S : <<y, x>> \in less <=> y < x
  BY DEF OpToRel
<1> HIDE DEF less
<1>3. \E x \in S : \A y \in S : <<y, x>> \notin less
  BY <1>1, WFMin
<1>4. \E x \in S : \A y \in S : x <= y
  <2>1. PICK x \in S : \A y \in S : <<y, x>> \notin less
    BY <1>3
  <2>2. \A y \in S : ~(y < x)
    BY <1>2, <2>1
  <2>3. \A y \in S : x <= y
    BY <2>2
  <2>4. QED
    BY <2>3
<1>5. QED
  BY <1>4 DEF Min

(* A set of numbers up to n that is not empty has a greatest one.           *)
LEMMA MaxFacts ==
  ASSUME NEW n \in Nat, NEW S \in SUBSET (0..n), S # {}
  PROVE  Max(S) \in S /\ \A y \in S : Max(S) >= y
<1> DEFINE R == {n - y : y \in S}
<1>1. R \in SUBSET Nat /\ R # {}
  <2>1. \A y \in S : n - y \in Nat
    OBVIOUS
  <2>2. R \subseteq Nat
    BY <2>1
  <2>3. QED
    BY <2>2
<1>2. PICK r \in R : \A z \in R : r <= z
  <2> HIDE DEF R
  <2>1. QED
    BY <1>1, MinFacts
<1>3. PICK x \in S : r = n - x
  OBVIOUS
<1>4. \A y \in S : n - x <= n - y
  BY <1>2, <1>3
<1>5. \A y \in S : x >= y
  <2>1. TAKE y \in S
  <2>2. x \in Int /\ y \in Int
    OBVIOUS
  <2>3. n - x <= n - y
    BY <1>4
  <2>4. QED
    BY <2>2, <2>3
<1>6. QED
  BY <1>5 DEF Max

(* Induction: a set of numbers with 0, and with every number the next one,  *)
(* is all of them.                                                         *)
LEMMA SetInduction ==
  ASSUME NEW S \in SUBSET Nat, 0 \in S, \A n \in S : n + 1 \in S
  PROVE  S = Nat
<1> SUFFICES ASSUME Nat \ S # {} PROVE FALSE
  OBVIOUS
<1> DEFINE n == Min(Nat \ S)
<1>1. n \in Nat \ S /\ \A k \in Nat \ S : n <= k
  BY MinFacts
<1>2. n # 0 /\ n - 1 \in Nat
  BY <1>1
<1>3. n - 1 \in S
  BY <1>1, <1>2
<1>4. n - 1 + 1 = n
  BY <1>1
<1>5. QED
  BY <1>1, <1>3, <1>4

(* The recursion of Filtered() defines a function.                          *)
LEMMA KeptExists ==
  ASSUME NEW s, NEW S, Len(s) \in Nat
  PROVE  \E F : F = [n \in 0..Len(s) |->
                      IF n = 0 THEN <<>>
                      ELSE IF s[n] \in S THEN Append(F[n - 1], s[n]) ELSE F[n - 1]]
<1> DEFINE Next(F, n) == IF s[n] \in S THEN Append(F[n - 1], s[n]) ELSE F[n - 1]
           Defines(F, k) == F = [n \in 0..k |-> IF n = 0 THEN <<>> ELSE Next(F, n)]
           D == {k \in Nat : \E F : Defines(F, k)}
<1>1. 0 \in D
  <2>1. Defines([n \in 0..0 |-> <<>>], 0)
    OBVIOUS
  <2>2. QED
    BY <2>1
<1>2. ASSUME NEW k \in D PROVE k + 1 \in D
  <2>1. PICK F : Defines(F, k)
    OBVIOUS
  <2> DEFINE G == [n \in 0..(k + 1) |-> IF n = k + 1 THEN Next(F, n) ELSE F[n]]
  <2>2. k \in Nat
    OBVIOUS
  <2>3. \A n \in 0..k : G[n] = F[n]
    BY <2>2
  <2>4. \A n \in 1..(k + 1) : n - 1 \in 0..k
    BY <2>2
  <2>5. \A n \in 1..(k + 1) : Next(G, n) = Next(F, n)
    BY <2>3, <2>4
  <2>6. \A n \in 0..k : F[n] = IF n = 0 THEN <<>> ELSE Next(F, n)
    BY <2>1
  <2> HIDE DEF Next
  <2>7. \A n \in 0..(k + 1) : G[n] = IF n = 0 THEN <<>> ELSE Next(G, n)
    BY <2>2, <2>5, <2>6
  <2>8. Defines(G, k + 1)
    BY <2>7
  <2> HIDE DEF Defines, G
  <2>9. QED
    BY <2>2, <2>8
<1> HIDE DEF D
<1>3. \A k \in D : k + 1 \in D
  BY <1>2
<1>4. D \in SUBSET Nat
  BY DEF D
<1>5. D = Nat
  BY <1>1, <1>3, <1>4, SetInduction
<1>6. QED
  BY <1>5 DEF D

(* r is, in their order, exactly the elements of s that are in S: at[j] is  *)
(* the place in s of the j-th of them.                                     *)
Selects(at, r, s, S) ==
  /\ at \in [1..Len(r) -> 1..Len(s)]
  /\ \A j \in 1..Len(r) : r[j] = s[at[j]] /\ s[at[j]] \in S
  /\ \A j, k \in 1..Len(r) : j < k => at[j] < at[k]
  /\ \A n \in 1..Len(s) : s[n] \in S => \E j \in 1..Len(r) : at[j] = n

(* Filtered() returns exactly the elements of s that are in S.              *)
LEMMA FilteredFacts ==
  ASSUME NEW T, NEW s \in Seq(T), NEW S
  PROVE  /\ Filtered(s, S) \in Seq(T)
         /\ \E at : Selects(at, Filtered(s, S), s, S)
<1> DEFINE Step(F, n) == IF s[n] \in S THEN Append(F[n - 1], s[n]) ELSE F[n - 1]
           Defines(F) == F = [n \in 0..Len(s) |-> IF n = 0 THEN <<>> ELSE Step(F, n)]
           F == CHOOSE F : Defines(F)
           Picks(r, n, at) ==
             /\ \A j \in 1..Len(r) : r[j] = s[at[j]] /\ s[at[j]] \in S
             /\ \A j, k \in 1..Len(r) : j < k => at[j] < at[k]
             /\ \A i \in 1..n : s[i] \in S => \E j \in 1..Len(r) : at[j] = i
           Good(n) == /\ F[n] \in Seq(T)
                      /\ \E at \in [1..Len(F[n]) -> 1..n] : Picks(F[n], n, at)
           D == {n \in Nat : n <= Len(s) => Good(n)}
<1>1. Len(s) \in Nat /\ \A n \in 1..Len(s) : s[n] \in T
  OBVIOUS
<1>2. Defines(F)
  <2>1. \E G : Defines(G)
    BY <1>1, KeptExists, Zenon
  <2> HIDE DEF Defines
  <2>2. QED
    BY <2>1
<1>3. Filtered(s, S) = F[Len(s)]
  BY DEF Filtered
<1> HIDE DEF F
<1>4. F[0] = <<>> /\ \A n \in 1..Len(s) : F[n] = Step(F, n)
  <2>1. \A n \in 0..Len(s) : F[n] = IF n = 0 THEN <<>> ELSE Step(F, n)
    BY <1>2
  <2> HIDE DEF Step
  <2>2. QED
    BY <1>1, <2>1
<1>5. 0 \in D
  <2>1. F[0] \in Seq(T) /\ Len(F[0]) = 0
    BY <1>4
  <2>2. Picks(F[0], 0, [j \in 1..0 |-> 1])
    BY <2>1
  <2>3. [j \in 1..0 |-> 1] \in [1..0 -> 1..0]
    OBVIOUS
  <2> HIDE DEF Picks
  <2>4. QED
    BY <2>1, <2>2, <2>3
<1>6. ASSUME NEW m \in D PROVE m + 1 \in D
  <2> SUFFICES ASSUME m + 1 <= Len(s) PROVE Good(m + 1)
    <3> HIDE DEF Good
    <3>1. QED
      OBVIOUS
  <2> DEFINE n == m + 1
  <2>1. m \in Nat /\ n \in 1..Len(s) /\ m <= Len(s) /\ n - 1 = m
    BY <1>1
  <2>2. F[m] \in Seq(T)
    BY <2>1
  <2>3. PICK at \in [1..Len(F[m]) -> 1..m] : Picks(F[m], m, at)
    BY <2>1
  <2>4. F[n] = IF s[n] \in S THEN Append(F[m], s[n]) ELSE F[m]
    BY <1>4, <2>1
  <2>5. CASE s[n] \notin S
    <3>1. F[n] = F[m]
      BY <2>4, <2>5
    <3>2. at \in [1..Len(F[m]) -> 1..n]
      BY <2>1
    <3>3. \A i \in 1..n : i \in 1..m \/ i = n
      BY <2>1
    <3>4. Picks(F[m], n, at)
      BY <2>3, <2>5, <3>3
    <3> HIDE DEF Picks
    <3>5. QED
      BY <2>2, <3>1, <3>2, <3>4
  <2>6. CASE s[n] \in S
    <3> DEFINE r == Append(F[m], s[n])
               l == Len(F[m])
               bt == [j \in 1..(l + 1) |-> IF j = l + 1 THEN n ELSE at[j]]
    <3>1. F[n] = r
      BY <2>4, <2>6
    <3>2. /\ l \in Nat /\ r \in Seq(T) /\ Len(r) = l + 1
          /\ r[l + 1] = s[n] /\ \A j \in 1..l : r[j] = F[m][j]
      BY <1>1, <2>1, <2>2
    <3>3. bt \in [1..Len(r) -> 1..n]
      BY <2>1, <3>2
    <3>4. bt[l + 1] = n /\ \A j \in 1..l : bt[j] = at[j] /\ at[j] \in 1..m
      <4>1. \A j \in 1..l : at[j] \in 1..m
        OBVIOUS
      <4> HIDE DEF l, r
      <4>2. \A j \in 1..l : j # l + 1 /\ j \in 1..(l + 1)
        BY <3>2
      <4>3. QED
        BY <3>2, <4>1, <4>2
    <3> HIDE DEF r, l, bt
    <3>5. \A j \in 1..Len(r) : j = l + 1 \/ j \in 1..l
      BY <3>2
    <3>6. \A j \in 1..Len(r) : r[j] = s[bt[j]] /\ s[bt[j]] \in S
      BY <2>3, <2>6, <3>2, <3>4, <3>5 DEF l
    <3>7. \A j, k \in 1..Len(r) : j < k => bt[j] < bt[k]
      <4>1. TAKE j, k \in 1..Len(r)
      <4>2. HAVE j < k
      <4>3. j \in 1..l
        BY <3>2, <4>2
      <4>4. CASE k = l + 1
        BY <2>1, <3>4, <4>3, <4>4
      <4>5. CASE k \in 1..l
        BY <2>3, <3>4, <4>2, <4>3, <4>5 DEF l
      <4>6. QED
        BY <3>5, <4>4, <4>5
    <3>8. \A i \in 1..n : s[i] \in S => \E j \in 1..Len(r) : bt[j] = i
      <4>1. TAKE i \in 1..n
      <4>2. HAVE s[i] \in S
      <4>3. CASE i = n
        <5>1. l + 1 \in 1..Len(r)
          BY <3>2
        <5>2. QED
          BY <3>4, <4>3, <5>1
      <4>4. CASE i \in 1..m
        <5>1. PICK j \in 1..l : at[j] = i
          BY <2>3, <4>2, <4>4 DEF l
        <5>2. j \in 1..Len(r)
          BY <3>2, <5>1
        <5>3. QED
          BY <3>4, <5>1, <5>2
      <4>5. QED
        BY <2>1, <4>3, <4>4
    <3>9. Picks(r, n, bt)
      BY <3>6, <3>7, <3>8
    <3> HIDE DEF Picks
    <3>10. QED
      BY <3>1, <3>2, <3>3, <3>9
  <2>7. QED
    BY <2>5, <2>6
<1> HIDE DEF D
<1>7. \A m \in D : m + 1 \in D
  BY <1>6
<1>8. D \in SUBSET Nat
  BY DEF D
<1>9. D = Nat
  BY <1>5, <1>7, <1>8, SetInduction
<1>10. Good(Len(s))
  <2> HIDE DEF Good
  <2>1. QED
    BY <1>1, <1>9 DEF D
<1>11. PICK at \in [1..Len(F[Len(s)]) -> 1..Len(s)] : Picks(F[Len(s)], Len(s), at)
  BY <1>10
<1>12. Selects(at, F[Len(s)], s, S)
  BY <1>11 DEF Selects
<1> HIDE DEF Picks
<1>13. QED
  BY <1>3, <1>10, <1>12

===============================================================================
