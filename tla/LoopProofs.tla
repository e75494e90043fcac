----------------------------- MODULE LoopProofs -----------------------------
(***************************************************************************)
(* The loops that compute something and wait for nothing: what             *)
(* shardEntries promises for every list of entries, every sizes and every  *)
(* options; the plan of a sample and the checksum of its entries, for      *)
(* every target, every table of sizes, every pattern and every length.     *)
(***************************************************************************)
EXTENDS Sharding, SamplePlan, Checksum, FiniteSetTheorems, FunctionTheorems, TLAPS

-----------------------------------------------------------------------------
(* The shards.                                                             *)

\* The arguments do not change, and with them the indices.
LEMMA SameInput ==
  ASSUME UNCHANGED input
  PROVE  Index' = Index /\ entries' = entries /\ size' = size
BY DEF input, Index, ShardCount, ChooseWorkerCount

\* The accumulators keep their shape: every shard holds entries of the input
\* and a natural number of bytes.
THEOREM ShardingTypeCorrect == Spec => []ShardingTypeOK
<1>1. Init => ShardingTypeOK
  <2> SUFFICES ASSUME Init
               PROVE  ShardingTypeOK
    OBVIOUS
  <2>1. size \in [entries -> Nat]
    BY ShardingAssumption DEF Init
  <2>2. shard \in [Index -> [entries : SUBSET entries, totalBytes : Nat]]
    BY DEF Init
  <2>3. QED
    BY <2>1, <2>2 DEF Init, ShardingTypeOK
<1>2. ShardingTypeOK /\ [Next]_vars => ShardingTypeOK'
  <2> SUFFICES ASSUME ShardingTypeOK, [Next]_vars
               PROVE  ShardingTypeOK'
    OBVIOUS
  <2>1. CASE Place
    <3>1. PICK e \in todo, i \in Index :
            Give(e, i) /\ todo' = todo \ {e} /\ UNCHANGED input
      BY <2>1 DEF Place
    <3>2. Index' = Index /\ entries' = entries /\ size' = size
      BY <3>1, SameInput
    <3>3. e \in entries /\ size[e] \in Nat
      BY DEF ShardingTypeOK
    <3>4. shard' \in [Index -> [entries : SUBSET entries, totalBytes : Nat]]
      BY <3>1, <3>3 DEF Give, ShardingTypeOK
    <3>5. QED
      BY <3>1, <3>2, <3>4 DEF ShardingTypeOK
  <2>2. CASE UNCHANGED vars
    <3>1. UNCHANGED input /\ UNCHANGED <<todo, shard>>
      BY <2>2 DEF vars
    <3>2. QED
      BY <3>1, SameInput DEF ShardingTypeOK
  <2>3. QED
    BY <2>1, <2>2 DEF Next
<1>3. QED
  BY <1>1, <1>2, PTL DEF Spec

\* Every entry is in exactly one shard when the loop is over, and in none
\* before its turn has come: no file of a job is extracted twice or left out.
THEOREM EntriesPlacedOnce == Spec => []ExactlyOnce
<1>1. Init => ExactlyOnce
  <2> SUFFICES ASSUME Init
               PROVE  ExactlyOnce
    OBVIOUS
  <2>1. \A i \in Index : shard[i].entries = {}
    BY DEF Init
  <2>2. QED
    BY <2>1 DEF Init, ExactlyOnce, Holds
<1>2. ShardingTypeOK /\ ExactlyOnce /\ [Next]_vars => ExactlyOnce'
  <2> SUFFICES ASSUME ShardingTypeOK, ExactlyOnce, [Next]_vars
               PROVE  ExactlyOnce'
    OBVIOUS
  <2>1. CASE Place
    <3>1. PICK e \in todo, i \in Index :
            Give(e, i) /\ todo' = todo \ {e} /\ UNCHANGED input
      BY <2>1 DEF Place
    <3>2. Index' = Index /\ entries' = entries
      BY <3>1, SameInput
    <3>3. \A j \in Index : shard'[j].entries =
            IF j = i THEN shard[i].entries \cup {e} ELSE shard[j].entries
      BY <3>1 DEF Give, ShardingTypeOK
    <3>4. Holds(e) = {} /\ e \in entries
      BY DEF ExactlyOnce, ShardingTypeOK
    <3>5. ASSUME NEW d \in entries
          PROVE  Holds(d)' = IF d = e THEN {i} ELSE Holds(d)
      BY <3>2, <3>3, <3>4 DEF Holds
    <3>6. QED
      BY <3>1, <3>2, <3>5 DEF ExactlyOnce
  <2>2. CASE UNCHANGED vars
    <3>1. UNCHANGED input /\ UNCHANGED <<todo, shard>>
      BY <2>2 DEF vars
    <3>2. QED
      BY <3>1, SameInput DEF ExactlyOnce, Holds
  <2>3. QED
    BY <2>1, <2>2 DEF Next
<1>3. QED
  BY <1>1, <1>2, ShardingTypeCorrect, PTL DEF Spec

\* No two shards are further apart than one entry is large, at any turn.  The
\* order of the entries is not needed for it; that the lightest is chosen is.
THEOREM ShardsBalanced == Spec => []WithinOneEntry
<1>1. Init => WithinOneEntry
  BY DEF Init, WithinOneEntry
<1>2. ShardingTypeOK /\ WithinOneEntry /\ [Next]_vars => WithinOneEntry'
  <2> SUFFICES ASSUME ShardingTypeOK, WithinOneEntry, [Next]_vars
               PROVE  WithinOneEntry'
    OBVIOUS
  <2>1. CASE Place
    <3>1. PICK e \in todo, i \in Index :
            Lightest(i) /\ Give(e, i) /\ todo' = todo \ {e} /\ UNCHANGED input
      BY <2>1 DEF Place
    <3>2. Index' = Index /\ entries' = entries /\ size' = size
      BY <3>1, SameInput
    <3>3. e \in entries /\ size[e] \in Nat
      BY DEF ShardingTypeOK
    <3>4. \A j \in Index : shard[j].totalBytes \in Nat /\ shard'[j].totalBytes =
            IF j = i THEN shard[i].totalBytes + size[e] ELSE shard[j].totalBytes
      BY <3>1 DEF Give, ShardingTypeOK
    <3>5. \A j \in Index : shard[i].totalBytes <= shard[j].totalBytes
      BY <3>1, <3>4 DEF Lightest
    <3>6. ASSUME NEW k \in Index, NEW j \in Index
          PROVE  \/ shard'[k].totalBytes <= shard'[j].totalBytes
                 \/ \E d \in entries :
                      shard'[k].totalBytes - shard'[j].totalBytes <= size[d]
      <4>1. CASE k = i
        BY <3>3, <3>4, <3>5, <4>1
      <4>2. CASE k # i
        <5>1. CASE shard[k].totalBytes <= shard[j].totalBytes
          BY <3>3, <3>4, <4>2, <5>1
        <5>2. CASE \E d \in entries :
                     shard[k].totalBytes - shard[j].totalBytes <= size[d]
          <6>1. PICK d \in entries :
                  shard[k].totalBytes - shard[j].totalBytes <= size[d]
            BY <5>2
          <6>2. size[d] \in Nat
            BY DEF ShardingTypeOK
          <6>3. shard'[k].totalBytes - shard'[j].totalBytes <= size[d]
            BY <3>3, <3>4, <4>2, <6>1, <6>2
          <6>4. QED
            BY <6>3
        <5>3. QED
          BY <5>1, <5>2 DEF WithinOneEntry
      <4>3. QED
        BY <4>1, <4>2
    <3>7. QED
      BY <3>2, <3>6 DEF WithinOneEntry
  <2>2. CASE UNCHANGED vars
    <3>1. UNCHANGED input /\ UNCHANGED <<todo, shard>>
      BY <2>2 DEF vars
    <3>2. QED
      BY <3>1, SameInput DEF WithinOneEntry
  <2>3. QED
    BY <2>1, <2>2 DEF Next
<1>3. QED
  BY <1>1, <1>2, ShardingTypeCorrect, PTL DEF Spec

-----------------------------------------------------------------------------
(* Sums of sizes are cardinalities: of the bytes of the entries.           *)
Units(w, S) == UNION {{e} \X (1 .. w[e]) : e \in S}

LEMMA UnitsAre ==
  ASSUME NEW w, NEW S, NEW u
  PROVE  u \in Units(w, S) <=> \E e \in S : \E k \in 1 .. w[e] : u = <<e, k>>
BY DEF Units

LEMMA UnitsOfOne ==
  ASSUME NEW w, NEW e, w[e] \in Nat
  PROVE  IsFiniteSet({e} \X (1 .. w[e])) /\ Cardinality({e} \X (1 .. w[e])) = w[e]
<1>1. PICK one : one = {e} /\ IsFiniteSet(one) /\ Cardinality(one) = 1
  BY FS_Singleton
<1>2. PICK n, units : n \in Nat /\ n = w[e] /\ units = 1 .. n
  OBVIOUS
<1>3. IsFiniteSet(units) /\ Cardinality(units) = n
  <2>1. 1 \in Int /\ n \in Int
    BY <1>2
  <2>2. IsFiniteSet(1 .. n) /\ Cardinality(1 .. n) = IF 1 > n THEN 0 ELSE n - 1 + 1
    BY ONLY <2>1, FS_Interval
  <2>3. QED
    BY <1>2, <2>2
<1>4. IsFiniteSet(one \X units) /\ Cardinality(one \X units) = Cardinality(one) * Cardinality(units)
  BY <1>1, <1>3, FS_Product
<1>5. Cardinality(one) * Cardinality(units) = n
  BY <1>1, <1>2, <1>3
<1>6. QED
  BY <1>1, <1>2, <1>4, <1>5

LEMMA UnitsFinite ==
  ASSUME NEW w, NEW S, IsFiniteSet(S), \A e \in S : w[e] \in Nat
  PROVE  IsFiniteSet(Units(w, S)) /\ Cardinality(Units(w, S)) \in Nat
<1> DEFINE each(e) == {e} \X (1 .. w[e])
<1>1. IsFiniteSet({each(e) : e \in S})
  <2> DEFINE f == [e \in S |-> each(e)]
  <2>1. f \in Surjection(S, {each(e) : e \in S})
    BY DEF Surjection
  <2>2. QED
    BY <2>1, FS_Surjection
<1>2. \A T \in {each(e) : e \in S} : IsFiniteSet(T)
  BY UnitsOfOne
<1>3. IsFiniteSet(UNION {each(e) : e \in S})
  BY <1>1, <1>2, FS_UNION
<1>4. IsFiniteSet(Units(w, S))
  BY <1>3 DEF Units
<1>5. QED
  BY <1>4, FS_CardinalityType

LEMMA FoldIs ==
  ASSUME NEW w, NEW S
  PROVE  SumFunctionOnSet(w, S) =
           LET iter[s \in SUBSET S] ==
                 IF s = {} THEN 0 ELSE LET x == CHOOSE x \in s : TRUE IN w[x] + iter[s \ {x}]
           IN  iter[S]
BY DEF SumFunctionOnSet, FoldFunctionOnSet, MapThenFoldSet

Weight(w, S) == Cardinality(Units(w, S))

LEMMA WeightOfNone ==
  ASSUME NEW w
  PROVE  Weight(w, {}) = 0
<1>1. Units(w, {}) = {}
  BY DEF Units
<1>2. QED
  BY <1>1, FS_EmptySet DEF Weight

LEMMA WeightOfOneMore ==
  ASSUME NEW w, NEW S, IsFiniteSet(S), NEW x, x \notin S, \A e \in S \cup {x} : w[e] \in Nat
  PROVE  Weight(w, S \cup {x}) = Weight(w, S) + w[x]
<1> DEFINE old == Units(w, S)
           new == {x} \X (1 .. w[x])
<1>1. IsFiniteSet(old) /\ Cardinality(old) \in Nat
  BY UnitsFinite
<1>2. IsFiniteSet(new) /\ Cardinality(new) = w[x] /\ w[x] \in Nat
  BY UnitsOfOne
<1>3. Units(w, S \cup {x}) = old \cup new
  BY DEF Units
<1>4. old \cap new = {}
  BY DEF Units
<1> HIDE DEF old, new
<1>5. Cardinality(old \cup new) = Cardinality(old) + Cardinality(new) - Cardinality(old \cap new)
  BY <1>1, <1>2, FS_Union
<1>6. Cardinality(old \cap new) = 0
  BY <1>4, FS_EmptySet
<1>7. Weight(w, S) = Cardinality(old) /\ Weight(w, S \cup {x}) = Cardinality(old \cup new)
  BY <1>3 DEF Weight, old
<1>8. QED
  BY <1>1, <1>2, <1>5, <1>6, <1>7

LEMMA WeightGrows ==
  ASSUME NEW w, NEW T, IsFiniteSet(T), \A e \in T : w[e] \in Nat, NEW S, S \subseteq T
  PROVE  Weight(w, S) \in Nat /\ Weight(w, T) \in Nat /\ Weight(w, S) <= Weight(w, T)
<1>1. Units(w, S) \in SUBSET Units(w, T)
  BY DEF Units
<1>2. IsFiniteSet(S)
  BY FS_Subset
<1>3. IsFiniteSet(Units(w, T)) /\ Cardinality(Units(w, T)) \in Nat /\ Cardinality(Units(w, S)) \in Nat
  BY <1>2, UnitsFinite
<1>4. QED
  BY <1>1, <1>3, FS_Subset DEF Weight

\* The fold takes the elements one after the other; a smallest set where it came to
\* something else would be one more than a set where it did not.
LEMMA SumIsWeight ==
  ASSUME NEW w, NEW S, IsFiniteSet(S), \A e \in S : w[e] \in Nat
  PROVE  SumFunctionOnSet(w, S) = Weight(w, S)
<1> DEFINE step(f) == [s \in SUBSET S |->
             IF s = {} THEN 0 ELSE w[CHOOSE x \in s : TRUE] + f[s \ {CHOOSE x \in s : TRUE}]]
           sum == [s \in SUBSET S |-> Weight(w, s)]
<1>1. \A s \in SUBSET S : IsFiniteSet(s) /\ Weight(w, s) \in Nat
  BY FS_Subset, WeightGrows
<1>2. \A s \in SUBSET S : s # {} =>
        LET x == CHOOSE x \in s : TRUE IN
        x \in s /\ s \ {x} \in SUBSET S /\ Weight(w, s) = w[x] + Weight(w, s \ {x})
  <2> SUFFICES ASSUME NEW s \in SUBSET S, s # {}, NEW x, x = CHOOSE y \in s : TRUE
               PROVE  x \in s /\ s \ {x} \in SUBSET S /\ Weight(w, s) = w[x] + Weight(w, s \ {x})
    OBVIOUS
  <2>1. x \in s /\ w[x] \in Nat
    OBVIOUS
  <2>2. PICK rest : rest = s \ {x}
    OBVIOUS
  <2>3. s = rest \cup {x} /\ x \notin rest /\ rest \in SUBSET S
    BY <2>1, <2>2
  <2>4. Weight(w, rest \cup {x}) = Weight(w, rest) + w[x]
    BY <1>1, <2>1, <2>3, WeightOfOneMore
  <2>5. Weight(w, rest) \in Nat
    BY <1>1, <2>3
  <2>6. QED
    BY <2>1, <2>2, <2>3, <2>4, <2>5
<1>3. sum = step(sum)
  BY <1>2, WeightOfNone
<1>4. ASSUME NEW f, f = step(f)
      PROVE  f[S] = Weight(w, S)
  <2> DEFINE wrong == {s \in SUBSET S : f[s] # Weight(w, s)}
  <2>1. \A s \in SUBSET S : f[s] = IF s = {} THEN 0
          ELSE w[CHOOSE x \in s : TRUE] + f[s \ {CHOOSE x \in s : TRUE}]
    BY <1>4
  <2>2. SUFFICES ASSUME wrong # {} PROVE FALSE
    OBVIOUS
  <2>3. IsWellFoundedOn(StrictSubsetOrdering(S), FiniteSubsetsOf(S))
    BY FS_StrictSubsetOrderingWellFounded
  <2>4. wrong \subseteq FiniteSubsetsOf(S)
    BY FS_FiniteSubsetsOfFinite
  <2>5. PICK s \in wrong : \A t \in wrong : <<t, s>> \notin StrictSubsetOrdering(S)
    <3> HIDE DEF wrong
    <3>1. QED
      BY <2>2, <2>3, <2>4, WFMin
  <2>6. s # {}
    BY <2>1, <2>5, WeightOfNone
  <2>7. PICK x \in s : /\ s \ {x} \in SUBSET S /\ Weight(w, s) = w[x] + Weight(w, s \ {x})
                       /\ f[s] = w[x] + f[s \ {x}]
    BY <1>2, <2>1, <2>5, <2>6
  <2>8. <<s \ {x}, s>> \in StrictSubsetOrdering(S)
    BY <2>5, <2>7 DEF StrictSubsetOrdering
  <2>9. s \ {x} \notin wrong
    BY <2>5, <2>8
  <2>10. QED
    BY <2>5, <2>7, <2>9
<1>5. SumFunctionOnSet(w, S) = LET iter == CHOOSE f : f = step(f) IN iter[S]
  BY FoldIs
<1>6. QED
  <2> DEFINE iter == CHOOSE f : f = step(f)
  <2> HIDE DEF sum, step
  <2>1. iter = step(iter)
    BY <1>3
  <2>2. QED
    BY <1>4, <1>5, <2>1

-----------------------------------------------------------------------------
(* Counting: entries (P) that are given to workers (I).                    *)
Fiber(own, P, j) == {e \in P : own[e] = j}

\* Where everybody has c units, there are as many for each.
LEMMA AtLeastEach ==
  ASSUME NEW w, NEW P, IsFiniteSet(P), \A e \in P : w[e] \in Nat,
         NEW I, IsFiniteSet(I), NEW own, \A e \in P : own[e] \in I, NEW c \in Nat,
         \A j \in I : c <= Weight(w, Fiber(own, P, j))
  PROVE  Cardinality(I) * c <= Weight(w, P)
<1> DEFINE units(j) == Units(w, Fiber(own, P, j))
<1>1. \A j \in I : \E f : f \in Injection(1 .. c, units(j))
  <2> SUFFICES ASSUME NEW j \in I
               PROVE  \E f : f \in Injection(1 .. c, units(j))
    OBVIOUS
  <2>1. Fiber(own, P, j) \in SUBSET P
    BY DEF Fiber
  <2>2. IsFiniteSet(Fiber(own, P, j))
    BY <2>1, FS_Subset
  <2>3. IsFiniteSet(units(j)) /\ Cardinality(units(j)) \in Nat
    BY <2>1, <2>2, UnitsFinite
  <2>4. c <= Cardinality(units(j))
    BY DEF Weight
  <2> HIDE DEF units
  <2>5. PICK b : b \in Bijection(1 .. Cardinality(units(j)), units(j))
    BY <2>3, FS_CardinalityType DEF ExistsBijection
  <2>6. [k \in 1 .. c |-> b[k]] \in Injection(1 .. c, units(j))
    BY <2>3, <2>4, <2>5 DEF Bijection, Injection, IsInjective
  <2>7. QED
    BY <2>6
<1> DEFINE pick == [j \in I |-> CHOOSE f : f \in Injection(1 .. c, units(j))]
           all == [u \in I \X (1 .. c) |-> pick[u[1]][u[2]]]
<1>2. \A j \in I : pick[j] \in Injection(1 .. c, units(j))
  BY <1>1
<1>3. all \in Injection(I \X (1 .. c), Units(w, P))
  <2>1. \A j \in I, k \in 1 .. c :
          pick[j][k] \in units(j) /\ \A l \in 1 .. c : pick[j][k] = pick[j][l] => k = l
    <3> HIDE DEF pick, units
    <3>1. QED
      BY <1>2 DEF Injection, IsInjective
  <2>2. \A j \in I : \A u \in units(j) : u \in Units(w, P) /\ own[u[1]] = j
    BY DEF Units, Fiber
  <2> HIDE DEF pick, units
  <2>3. \A u \in I \X (1 .. c) : all[u] \in Units(w, P) /\ own[all[u][1]] = u[1]
    BY <2>1, <2>2
  <2>4. \A u, v \in I \X (1 .. c) : all[u] = all[v] => u = v
    <3> SUFFICES ASSUME NEW u \in I \X (1 .. c), NEW v \in I \X (1 .. c), all[u] = all[v]
                 PROVE  u = v
      OBVIOUS
    <3>1. u[1] = v[1]
      BY <2>3
    <3>2. u[2] = v[2]
      BY <2>1, <3>1
    <3>3. QED
      BY <3>1, <3>2
  <2>5. all = [u \in I \X (1 .. c) |-> all[u]]
    OBVIOUS
  <2> HIDE DEF all
  <2>6. QED
    BY <2>3, <2>4, <2>5 DEF Injection, IsInjective
<1> HIDE DEF all
<1>4. IsFiniteSet(Units(w, P))
  BY UnitsFinite
<1>5. Cardinality(I \X (1 .. c)) <= Cardinality(Units(w, P))
  BY <1>3, <1>4, FS_Injection
<1>6. IsFiniteSet(1 .. c) /\ Cardinality(1 .. c) = c
  BY FS_Interval
<1>7. Cardinality(I \X (1 .. c)) = Cardinality(I) * Cardinality(1 .. c)
  BY <1>6, FS_Product
<1>8. QED
  BY <1>5, <1>6, <1>7 DEF Weight

\* Where nobody has more than b units, there are not more for each.
LEMMA AtMostEach ==
  ASSUME NEW w, NEW P, IsFiniteSet(P), \A e \in P : w[e] \in Nat,
         NEW I, IsFiniteSet(I), NEW own, \A e \in P : own[e] \in I, NEW b \in Nat,
         \A j \in I : Weight(w, Fiber(own, P, j)) <= b
  PROVE  Weight(w, P) <= Cardinality(I) * b
<1> DEFINE units(j) == Units(w, Fiber(own, P, j))
<1>1. \A j \in I : \E f : f \in Injection(units(j), 1 .. b)
  <2> SUFFICES ASSUME NEW j \in I
               PROVE  \E f : f \in Injection(units(j), 1 .. b)
    OBVIOUS
  <2>1. Fiber(own, P, j) \in SUBSET P
    BY DEF Fiber
  <2>2. IsFiniteSet(Fiber(own, P, j))
    BY <2>1, FS_Subset
  <2>3. IsFiniteSet(units(j)) /\ Cardinality(units(j)) \in Nat
    BY <2>1, <2>2, UnitsFinite
  <2>4. Cardinality(units(j)) <= b
    BY DEF Weight
  <2> HIDE DEF units
  <2>5. ExistsBijection(units(j), 1 .. Cardinality(units(j)))
    BY <2>3, FS_CardinalityType, Fun_ExistsBijSymmetric
  <2>6. PICK f : f \in Bijection(units(j), 1 .. Cardinality(units(j)))
    BY <2>5 DEF ExistsBijection
  <2>7. f \in Injection(units(j), 1 .. b)
    BY <2>3, <2>4, <2>6 DEF Bijection, Injection, IsInjective
  <2>8. QED
    BY <2>7
<1> DEFINE pick == [j \in I |-> CHOOSE f : f \in Injection(units(j), 1 .. b)]
           all == [u \in Units(w, P) |-> <<own[u[1]], pick[own[u[1]]][u]>>]
<1>2. \A j \in I : pick[j] \in Injection(units(j), 1 .. b)
  BY <1>1
<1>3. all \in Injection(Units(w, P), I \X (1 .. b))
  <2>1. \A u \in Units(w, P) : own[u[1]] \in I /\ u \in units(own[u[1]])
    BY DEF Units, Fiber
  <2>2. \A j \in I : \A u \in units(j) :
          pick[j][u] \in 1 .. b /\ \A v \in units(j) : pick[j][u] = pick[j][v] => u = v
    <3> HIDE DEF pick, units
    <3>1. QED
      BY <1>2 DEF Injection, IsInjective
  <2> HIDE DEF pick, units
  <2>3. \A u \in Units(w, P) : all[u] \in I \X (1 .. b)
    BY <2>1, <2>2
  <2>4. \A u, v \in Units(w, P) : all[u] = all[v] => u = v
    <3> SUFFICES ASSUME NEW u \in Units(w, P), NEW v \in Units(w, P), all[u] = all[v]
                 PROVE  u = v
      OBVIOUS
    <3>1. own[u[1]] = own[v[1]] /\ pick[own[u[1]]][u] = pick[own[v[1]]][v]
      OBVIOUS
    <3>2. QED
      BY <2>1, <2>2, <3>1
  <2>5. all = [u \in Units(w, P) |-> all[u]]
    OBVIOUS
  <2> HIDE DEF all
  <2>6. QED
    BY <2>3, <2>4, <2>5 DEF Injection, IsInjective
<1> HIDE DEF all
<1>4. IsFiniteSet(1 .. b) /\ Cardinality(1 .. b) = b
  BY FS_Interval
<1>5. /\ IsFiniteSet(I \X (1 .. b))
      /\ Cardinality(I \X (1 .. b)) = Cardinality(I) * Cardinality(1 .. b)
  BY <1>4, FS_Product
<1>6. Cardinality(Units(w, P)) <= Cardinality(I \X (1 .. b))
  BY <1>3, <1>5, FS_Injection
<1>7. QED
  BY <1>4, <1>5, <1>6 DEF Weight

\* Who shares a worker with nobody.
Alone(own, P) == {x \in P : \A y \in P : own[y] = own[x] => y = x}

\* Every entry once, and once more if it is alone.
Counted(own, P) == (P \X {0}) \cup (Alone(own, P) \X {1})

LEMMA CountedIs ==
  ASSUME NEW P, IsFiniteSet(P), NEW own
  PROVE  /\ IsFiniteSet(Counted(own, P)) /\ IsFiniteSet(Alone(own, P))
         /\ Cardinality(Counted(own, P)) = Cardinality(P) + Cardinality(Alone(own, P))
<1> DEFINE A == Alone(own, P)
<1>1. IsFiniteSet(A)
  BY FS_Subset DEF Alone
<1> HIDE DEF A
<1>2. \A x : IsFiniteSet({x}) /\ Cardinality({x}) = 1
  BY FS_Singleton
<1>3. /\ IsFiniteSet(P \X {0}) /\ Cardinality(P \X {0}) = Cardinality(P)
      /\ IsFiniteSet(A \X {1}) /\ Cardinality(A \X {1}) = Cardinality(A)
      /\ Cardinality(P) \in Nat /\ Cardinality(A) \in Nat
  <2>1. Cardinality(P) \in Nat /\ Cardinality(A) \in Nat
    BY <1>1, FS_CardinalityType
  <2>2. PICK zero, one : zero = {0} /\ one = {1}
    OBVIOUS
  <2>3. /\ IsFiniteSet(zero) /\ Cardinality(zero) = 1
        /\ IsFiniteSet(one) /\ Cardinality(one) = 1
    BY <1>2, <2>2
  <2>4. IsFiniteSet(P \X zero) /\ Cardinality(P \X zero) = Cardinality(P) * Cardinality(zero)
    BY <2>3, FS_Product
  <2>5. IsFiniteSet(A \X one) /\ Cardinality(A \X one) = Cardinality(A) * Cardinality(one)
    BY <1>1, <2>3, FS_Product
  <2>6. Cardinality(P \X zero) = Cardinality(P) /\ Cardinality(A \X one) = Cardinality(A)
    BY <2>1, <2>3, <2>4, <2>5
  <2>7. QED
    BY <2>1, <2>2, <2>4, <2>5, <2>6
<1>4. (P \X {0}) \cap (A \X {1}) = {}
  OBVIOUS
<1>5. Cardinality((P \X {0}) \cap (A \X {1})) = 0
  BY <1>4, FS_EmptySet
<1>6. /\ IsFiniteSet((P \X {0}) \cup (A \X {1}))
      /\ Cardinality((P \X {0}) \cup (A \X {1}))
           = Cardinality(P \X {0}) + Cardinality(A \X {1})
             - Cardinality((P \X {0}) \cap (A \X {1}))
  BY <1>3, FS_Union
<1>7. QED
  BY <1>1, <1>3, <1>5, <1>6 DEF Counted, A

LEMMA TwiceAsMany ==
  ASSUME NEW I, IsFiniteSet(I)
  PROVE  /\ IsFiniteSet(I \X {1, 2})
         /\ Cardinality(I \X {1, 2}) = 2 * Cardinality(I) /\ Cardinality(I) \in Nat
<1>1. PICK to : to = {1, 2}
  OBVIOUS
<1>2. IsFiniteSet(to) /\ Cardinality(to) = 2
  <2>1. IsFiniteSet({1}) /\ Cardinality({1}) = 1
    BY FS_Singleton
  <2>2. to = {1} \cup {2} /\ 2 \notin {1}
    BY <1>1
  <2>3. QED
    BY <2>1, <2>2, FS_AddElement
<1>3. Cardinality(I) \in Nat
  BY FS_CardinalityType
<1>4. IsFiniteSet(I \X to) /\ Cardinality(I \X to) = Cardinality(I) * Cardinality(to)
  BY <1>2, FS_Product
<1>5. Cardinality(I \X to) = 2 * Cardinality(I)
  BY <1>2, <1>3, <1>4
<1>6. QED
  BY <1>1, <1>3, <1>4, <1>5

\* Where everybody has an entry, many are alone.
LEMMA ManyAlone ==
  ASSUME NEW P, IsFiniteSet(P), NEW I, IsFiniteSet(I), NEW own, \A e \in P : own[e] \in I,
         \A j \in I : \E x \in P : own[x] = j
  PROVE  2 * Cardinality(I) <= Cardinality(P) + Cardinality(Alone(own, P))
<1> DEFINE first(j) == CHOOSE x \in P : own[x] = j
           shared(j) == \E y \in P : own[y] = j /\ y # first(j)
           second(j) == CHOOSE y \in P : own[y] = j /\ y # first(j)
<1>1. \A j \in I : first(j) \in P /\ own[first(j)] = j
  OBVIOUS
<1>2. \A j \in I : shared(j) => second(j) \in P /\ own[second(j)] = j /\ second(j) # first(j)
  OBVIOUS
<1>3. \A j \in I : ~shared(j) => first(j) \in Alone(own, P)
  BY <1>1 DEF Alone
<1> HIDE DEF first, shared, second
<1> DEFINE f == [s \in I \X {1, 2} |->
             IF s[2] = 1 THEN <<first(s[1]), 0>>
             ELSE IF shared(s[1]) THEN <<second(s[1]), 0>> ELSE <<first(s[1]), 1>>]
<1>4. \A s \in I \X {1, 2} : f[s] \in Counted(own, P) /\ own[f[s][1]] = s[1]
  BY <1>1, <1>2, <1>3 DEF Counted
<1>5. \A s, t \in I \X {1, 2} : f[s] = f[t] => s = t
  <2> SUFFICES ASSUME NEW s \in I \X {1, 2}, NEW t \in I \X {1, 2}, f[s] = f[t]
               PROVE  s = t
    OBVIOUS
  <2>1. s[1] = t[1]
    <3> HIDE DEF f
    <3>1. own[f[s][1]] = s[1] /\ own[f[t][1]] = t[1]
      BY <1>4
    <3>2. QED
      BY <3>1
  <2>2. PICK j \in I : s[1] = j /\ t[1] = j
    BY <2>1
  <2>3. ~(s[2] = 1 /\ t[2] = 2)
    BY <1>2, <2>2
  <2>4. ~(s[2] = 2 /\ t[2] = 1)
    BY <1>2, <2>2
  <2>5. s[2] = t[2]
    BY <2>3, <2>4
  <2>6. QED
    BY <2>1, <2>5
<1>6. f \in Injection(I \X {1, 2}, Counted(own, P))
  <2>1. f = [s \in I \X {1, 2} |-> f[s]]
    OBVIOUS
  <2> HIDE DEF f
  <2>2. QED
    BY <1>4, <1>5, <2>1 DEF Injection, IsInjective
<1> HIDE DEF f
<1>7. Cardinality(I \X {1, 2}) <= Cardinality(Counted(own, P))
  BY <1>6, CountedIs, FS_Injection
<1>8. QED
  BY <1>7, CountedIs, TwiceAsMany

\* Where nobody has three entries, few are alone.
LEMMA FewAlone ==
  ASSUME NEW P, IsFiniteSet(P), NEW I, IsFiniteSet(I), NEW own, \A e \in P : own[e] \in I,
         \A x, y, z \in P : own[x] = own[y] /\ own[y] = own[z] => x = y \/ y = z \/ x = z
  PROVE  Cardinality(P) + Cardinality(Alone(own, P)) <= 2 * Cardinality(I)
<1> DEFINE first(j) == CHOOSE x \in P : own[x] = j
<1>1. \A x \in P : own[x] \in I /\ first(own[x]) \in P /\ own[first(own[x])] = own[x]
  OBVIOUS
<1> HIDE DEF first
<1> DEFINE f == [s \in Counted(own, P) |->
             <<own[s[1]], IF s[2] = 0 /\ s[1] = first(own[s[1]]) THEN 1 ELSE 2>>]
<1>2. \A s \in Counted(own, P) :
        /\ s[1] \in P /\ s[2] \in {0, 1} /\ s = <<s[1], s[2]>>
        /\ s[2] = 1 => s[1] \in Alone(own, P) /\ first(own[s[1]]) = s[1]
  <2>1. Alone(own, P) \subseteq P
    BY DEF Alone
  <2>2. \A x \in Alone(own, P) : first(own[x]) = x
    BY <1>1 DEF Alone
  <2>3. QED
    BY <2>1, <2>2 DEF Counted
<1>3. \A s, t \in Counted(own, P) : f[s] = f[t] => s = t
  <2> SUFFICES ASSUME NEW s \in Counted(own, P), NEW t \in Counted(own, P), f[s] = f[t]
               PROVE  s = t
    OBVIOUS
  <2>1. PICK x \in P, y \in P : x = s[1] /\ y = t[1]
    BY <1>2
  <2>2. own[x] = own[y] /\ first(own[x]) = first(own[y])
        /\ (s[2] = 0 /\ x = first(own[x]) <=> t[2] = 0 /\ y = first(own[y]))
    BY <2>1
  <2>3. CASE s[2] = 1
    <3>1. y = x
      BY <1>2, <2>1, <2>2, <2>3 DEF Alone
    <3>2. x = first(own[x])
      BY <1>2, <2>1, <2>3
    <3>3. t[2] # 0
      BY <2>2, <2>3, <3>1, <3>2
    <3>4. QED
      BY <1>2, <2>1, <2>3, <3>1, <3>3
  <2>4. CASE t[2] = 1
    <3>1. y = x
      BY <1>2, <2>1, <2>2, <2>4 DEF Alone
    <3>2. y = first(own[y])
      BY <1>2, <2>1, <2>4
    <3>3. s[2] # 0
      BY <2>2, <2>4, <3>1, <3>2
    <3>4. QED
      BY <1>2, <2>1, <2>4, <3>1, <3>3
  <2>5. CASE s[2] = 0 /\ t[2] = 0
    <3>1. PICK z \in P : z = first(own[x]) /\ own[z] = own[x]
      BY <1>1
    <3>2. own[x] = own[y] /\ own[y] = own[z] /\ (x = z <=> y = z)
      BY <2>2, <2>5, <3>1
    <3>3. x = y
      BY <3>2
    <3>4. s = <<s[1], s[2]>> /\ t = <<t[1], t[2]>>
      BY <1>2
    <3>5. QED
      BY <2>1, <2>5, <3>3, <3>4
  <2>6. QED
    BY <1>2, <2>3, <2>4, <2>5
<1>4. f \in Injection(Counted(own, P), I \X {1, 2})
  <2>1. f = [s \in Counted(own, P) |-> f[s]]
    OBVIOUS
  <2>2. \A s \in Counted(own, P) : f[s] \in I \X {1, 2}
    BY <1>1, <1>2
  <2> HIDE DEF f
  <2>3. QED
    BY <1>3, <2>1, <2>2 DEF Injection, IsInjective
<1> HIDE DEF f
<1>5. Cardinality(Counted(own, P)) <= Cardinality(I \X {1, 2})
  BY <1>4, TwiceAsMany, FS_Injection
<1>6. QED
  BY <1>5, CountedIs, TwiceAsMany

-----------------------------------------------------------------------------
(* The last and smallest entry on the lightest of the workers.             *)
LEMMA TwoWeigh ==
  ASSUME NEW w, NEW S, IsFiniteSet(S), \A e \in S : w[e] \in Nat,
         NEW x \in S, NEW y \in S, x # y
  PROVE  w[x] + w[y] <= Weight(w, S)
<1>1. Weight(w, {}) = 0 /\ IsFiniteSet({})
  BY WeightOfNone, FS_EmptySet
<1>2. PICK one, two : one = {} \cup {x} /\ two = one \cup {y}
  OBVIOUS
<1>3. IsFiniteSet(one) /\ IsFiniteSet(two) /\ y \notin one /\ x \notin {} /\ two \subseteq S
  BY <1>1, <1>2, FS_AddElement
<1>4. Weight(w, one) = Weight(w, {}) + w[x]
  BY <1>1, <1>2, <1>3, WeightOfOneMore
<1>5. Weight(w, two) = Weight(w, one) + w[y]
  BY <1>2, <1>3, WeightOfOneMore
<1>6. Weight(w, two) <= Weight(w, S)
  BY <1>3, WeightGrows
<1>7. QED
  BY <1>1, <1>4, <1>5, <1>6

LEMMA ThreeWeigh ==
  ASSUME NEW w, NEW S, IsFiniteSet(S), \A e \in S : w[e] \in Nat,
         NEW x \in S, NEW y \in S, NEW z \in S, x # y, y # z, x # z
  PROVE  w[x] + w[y] + w[z] <= Weight(w, S)
<1>1. PICK rest : rest = S \ {z}
  OBVIOUS
<1>2. IsFiniteSet(rest) /\ S = rest \cup {z} /\ z \notin rest /\ x \in rest /\ y \in rest
  BY <1>1, FS_RemoveElement
<1>3. w[x] + w[y] <= Weight(w, rest)
  BY <1>2, TwoWeigh
<1>4. Weight(w, rest \cup {z}) = Weight(w, rest) + w[z]
  BY <1>2, WeightOfOneMore
<1>5. Weight(w, rest) \in Nat
  BY <1>1, WeightGrows
<1>6. QED
  BY <1>2, <1>3, <1>4, <1>5

\* No entry is smaller than the one to be placed; it goes to the lightest.
LEMMA LightestFits ==
  ASSUME NEW w, NEW P, IsFiniteSet(P), NEW e, e \notin P, \A x \in P \cup {e} : w[x] \in Nat,
         \A x \in P : w[e] <= w[x],
         NEW I, IsFiniteSet(I), NEW own, \A x \in P : own[x] \in I, NEW i \in I,
         \A j \in I : Weight(w, Fiber(own, P, i)) <= Weight(w, Fiber(own, P, j)),
         NEW split, \A x \in P \cup {e} : split[x] \in I, NEW b \in Nat,
         \A j \in I : Weight(w, Fiber(split, P \cup {e}, j)) <= b
  PROVE  3 * Cardinality(I) * (Weight(w, Fiber(own, P, i)) + w[e]) <= (4 * Cardinality(I) - 1) * b
<1> DEFINE all == P \cup {e}
           load == Weight(w, Fiber(own, P, i))
           n == Cardinality(I)
           s == w[e]
<1>1. IsFiniteSet(all) /\ e \in all /\ P \subseteq all
  BY FS_AddElement
<1>2. /\ \A j \in I : /\ Fiber(own, P, j) \subseteq P /\ IsFiniteSet(Fiber(own, P, j))
                      /\ Weight(w, Fiber(own, P, j)) \in Nat
      /\ \A j : /\ Fiber(split, all, j) \subseteq all /\ IsFiniteSet(Fiber(split, all, j))
                /\ Weight(w, Fiber(split, all, j)) \in Nat
  <2>1. \A j : Fiber(own, P, j) \in SUBSET P /\ Fiber(split, all, j) \in SUBSET all
    BY DEF Fiber
  <2>2. \A j : IsFiniteSet(Fiber(own, P, j)) /\ IsFiniteSet(Fiber(split, all, j))
    BY <1>1, <2>1, FS_Subset
  <2>3. QED
    BY <1>1, <2>1, <2>2, WeightGrows
<1>3. load \in Nat /\ n \in Nat /\ s \in Nat
  BY <1>1, <1>2, FS_CardinalityType
<1>4. n # 0
  BY FS_EmptySet
<1>5. \A x \in all : w[x] \in Nat /\ s <= w[x] /\ split[x] \in I
  BY <1>3
<1>6. CASE 3 * s <= b
  <2>1. n * load <= Weight(w, P)
    BY <1>2, <1>3, AtLeastEach
  <2>2. Weight(w, all) = Weight(w, P) + s /\ Weight(w, P) \in Nat
    BY WeightOfOneMore, WeightGrows
  <2>3. Weight(w, all) <= n * b
    BY <1>1, <1>5, AtMostEach
  <2>4. n * load \in Nat /\ n * b \in Nat /\ n * s \in Nat
    BY <1>3
  <2>5. n * load + s <= n * b
    BY <2>1, <2>2, <2>3, <2>4, <1>3
  <2>6. (n - 1) * (3 * s) <= (n - 1) * b
    BY <1>3, <1>4, <1>6
  <2>7. PICK nl \in Nat, nb \in Nat, ns \in Nat : nl = n * load /\ nb = n * b /\ ns = n * s
    BY <2>4
  <2>8. /\ 3 * n * (load + s) = 3 * nl + 3 * ns
        /\ (4 * n - 1) * b = 4 * nb - b
        /\ (n - 1) * (3 * s) = 3 * ns - 3 * s
        /\ (n - 1) * b = nb - b
    <3> HIDE DEF n, load, s
    <3>1. n * (load + s) = n * load + n * s
      BY <1>3
    <3>2. 3 * n * (load + s) = 3 * (n * (load + s))
      BY <1>3
    <3>3. (4 * n - 1) * b = 4 * (n * b) - b
      BY <1>3
    <3>4. (n - 1) * b = n * b - b
      BY <1>3
    <3>5. (n - 1) * (3 * s) = 3 * (n * s) - 3 * s
      BY <1>3
    <3>6. QED
      BY <1>3, <2>7, <3>1, <3>2, <3>3, <3>4, <3>5
  <2>9. nl + s <= nb
    BY <2>5, <2>7
  <2>10. 3 * ns - 3 * s <= nb - b
    BY <2>6, <2>8
  <2>11. 3 * nl + 3 * ns <= 4 * nb - b
    BY <1>3, <2>9, <2>10
  <2>12. QED
    BY <2>8, <2>11
<1>7. CASE b < 3 * s
  <2>1. load + s <= b
    <3>1. CASE \E j \in I : \A x \in P : own[x] # j
      <4>1. PICK j \in I : \A x \in P : own[x] # j
        BY <3>1
      <4>2. Fiber(own, P, j) = {}
        BY <4>1 DEF Fiber
      <4>3. load = 0
        BY <1>3, <4>2, WeightOfNone
      <4>4. e \in Fiber(split, all, split[e])
        BY <1>1 DEF Fiber
      <4>5. s <= Weight(w, Fiber(split, all, split[e]))
        <5>1. PICK own0 : own0 = Fiber(split, all, split[e])
          OBVIOUS
        <5>2. IsFiniteSet({e}) /\ Weight(w, {} \cup {e}) = Weight(w, {}) + s
          BY <1>3, FS_EmptySet, FS_Singleton, WeightOfOneMore
        <5>3. IsFiniteSet(own0) /\ {} \cup {e} \subseteq own0 /\ \A x \in own0 : w[x] \in Nat
          BY <1>2, <1>5, <4>4, <5>1
        <5>4. Weight(w, {} \cup {e}) <= Weight(w, own0)
          BY <5>3, WeightGrows
        <5>5. QED
          BY <1>3, <5>1, <5>2, <5>4, WeightOfNone
      <4>6. split[e] \in I
        BY <1>1, <1>5
      <4>7. /\ Weight(w, Fiber(split, all, split[e])) <= b
            /\ Weight(w, Fiber(split, all, split[e])) \in Nat
        BY <1>2, <4>6
      <4> HIDE DEF all, load, s
      <4>8. QED
        BY <1>3, <4>3, <4>5, <4>7
    <3>2. CASE \A j \in I : \E x \in P : own[x] = j
      <4>1. 2 * n <= Cardinality(P) + Cardinality(Alone(own, P))
        BY <3>2, ManyAlone
      <4>2. ASSUME NEW x \in all, NEW y \in all, NEW z \in all,
                   split[x] = split[y], split[y] = split[z]
            PROVE  x = y \/ y = z \/ x = z
        <5> SUFFICES ASSUME x # y, y # z, x # z PROVE FALSE
          OBVIOUS
        <5>1. PICK fiber : fiber = Fiber(split, all, split[x])
          OBVIOUS
        <5>2. /\ IsFiniteSet(fiber) /\ x \in fiber /\ y \in fiber /\ z \in fiber
              /\ \A u \in fiber : w[u] \in Nat
          BY <1>2, <1>5, <4>2, <5>1 DEF Fiber
        <5>3. w[x] + w[y] + w[z] <= Weight(w, fiber)
          BY <5>2, ThreeWeigh
        <5>4. Weight(w, fiber) <= b /\ Weight(w, fiber) \in Nat
          BY <1>2, <1>5, <5>1
        <5>5. s <= w[x] /\ s <= w[y] /\ s <= w[z]
          BY <1>5
        <5>6. QED
          BY <1>3, <1>5, <1>7, <5>3, <5>4, <5>5
      <4>3. Cardinality(all) + Cardinality(Alone(split, all)) <= 2 * n
        BY <1>1, <1>5, <4>2, FewAlone
      <4>4. Cardinality(all) = Cardinality(P) + 1 /\ Cardinality(P) \in Nat
        BY FS_AddElement, FS_CardinalityType
      <4>5. /\ IsFiniteSet(Alone(own, P)) /\ IsFiniteSet(Alone(split, all))
            /\ Cardinality(Alone(own, P)) \in Nat /\ Cardinality(Alone(split, all)) \in Nat
        BY <1>1, CountedIs, FS_CardinalityType
      <4>6. Cardinality(Alone(split, all)) < Cardinality(Alone(own, P))
        BY <1>3, <4>1, <4>3, <4>4, <4>5
      <4>7. ~(Alone(own, P) \subseteq Alone(split, all))
        BY <4>5, <4>6, FS_Subset
      <4>8. PICK x \in Alone(own, P) : x \notin Alone(split, all)
        BY <4>7
      <4>9. x \in P /\ \A y \in P : own[y] = own[x] => y = x
        BY <4>8 DEF Alone
      <4>10. PICK y \in all : split[y] = split[x] /\ y # x
        BY <1>1, <4>8, <4>9 DEF Alone
      <4>11. load <= w[x]
        <5>1. Fiber(own, P, own[x]) = {} \cup {x}
          BY <4>9 DEF Fiber
        <5>2. Weight(w, {} \cup {x}) = Weight(w, {}) + w[x]
          BY <4>9, FS_EmptySet, WeightOfOneMore
        <5>3. own[x] \in I /\ w[x] \in Nat
          BY <4>9
        <5>4. load <= Weight(w, Fiber(own, P, own[x]))
          BY <5>3
        <5>5. QED
          BY <5>1, <5>2, <5>3, <5>4, WeightOfNone
      <4>12. w[x] + w[y] <= b
        <5>1. PICK fiber : fiber = Fiber(split, all, split[x])
          OBVIOUS
        <5>2. /\ IsFiniteSet(fiber) /\ x \in fiber /\ y \in fiber
              /\ \A u \in fiber : w[u] \in Nat
          BY <1>1, <1>2, <1>5, <4>9, <4>10, <5>1 DEF Fiber
        <5>3. w[x] + w[y] <= Weight(w, fiber)
          BY <4>10, <5>2, TwoWeigh
        <5>4. Weight(w, fiber) <= b /\ Weight(w, fiber) \in Nat
          BY <1>1, <1>2, <1>5, <4>9, <5>1
        <5>5. QED
          BY <1>1, <1>5, <4>9, <5>3, <5>4
      <4>13. QED
        BY <1>1, <1>3, <1>5, <4>9, <4>11, <4>12
    <3>3. QED
      BY <3>1, <3>2
  <2> HIDE DEF load, n, s
  <2>2. PICK t \in Nat : t = load + s /\ t <= b
    BY <1>3, <2>1
  <2>3. n * t <= n * b
    BY <1>3, <2>2
  <2>4. /\ 3 * n * t = 3 * (n * t) /\ (4 * n - 1) * b = 3 * (n * b) + (n - 1) * b
        /\ n * t \in Nat /\ n * b \in Nat /\ (n - 1) * b \in Nat
    BY <1>3, <1>4, <2>2
  <2>5. 3 * n * t <= (4 * n - 1) * b
    BY <2>3, <2>4
  <2>6. QED
    BY <2>2, <2>5 DEF n, load, s
<1>8. QED
  BY <1>3, <1>6, <1>7

-----------------------------------------------------------------------------
(* The largest and the smallest.                                           *)
LEMMA MaxIs ==
  ASSUME NEW T, T \subseteq Nat, T # {}, IsFiniteSet(T)
  PROVE  Max(T) \in T /\ \A y \in T : y <= Max(T)
<1> DEFINE endless == {s \in SUBSET T : s # {} /\ \A x \in s : \E y \in s : y > x}
<1>1. IsWellFoundedOn(StrictSubsetOrdering(T), FiniteSubsetsOf(T))
  BY FS_StrictSubsetOrderingWellFounded
<1>2. endless \subseteq FiniteSubsetsOf(T)
  BY FS_FiniteSubsetsOfFinite
<1>3. ASSUME endless # {}
      PROVE  FALSE
  <2>1. PICK s \in endless : \A t \in endless : <<t, s>> \notin StrictSubsetOrdering(T)
    <3> HIDE DEF endless
    <3>1. QED
      BY <1>1, <1>2, <1>3, WFMin
  <2>2. PICK x \in s : TRUE
    BY <2>1
  <2>3. PICK rest : rest = s \ {x}
    OBVIOUS
  <2>4. PICK y \in s : y > x
    OBVIOUS
  <2>5. y \in rest /\ rest \in SUBSET T /\ x \notin rest /\ x # y
    <3>1. s \in SUBSET T /\ x \in Nat /\ y \in Nat
      BY <2>1, <2>2, <2>4
    <3>2. QED
      BY <2>3, <2>4, <3>1
  <2>6. <<rest, s>> \in StrictSubsetOrdering(T)
    BY <2>2, <2>3, <2>5 DEF StrictSubsetOrdering
  <2>7. rest \notin endless
    BY <2>1, <2>6
  <2>8. PICK z \in rest : \A u \in rest : ~(u > z)
    BY <2>5, <2>7
  <2>9. z \in s /\ x \in Nat /\ y \in Nat /\ z \in Nat
    BY <2>3, <2>5
  <2>10. PICK u \in s : u > z
    BY <2>9
  <2>11. u = x
    BY <2>3, <2>8, <2>10
  <2>12. ~(y > z)
    BY <2>5, <2>8
  <2>13. QED
    BY <2>4, <2>9, <2>10, <2>11, <2>12
<1>4. PICK x \in T : \A y \in T : ~(y > x)
  BY <1>3
<1>5. \A y \in T : x >= y
  BY <1>4
<1>6. PICK m : m = Max(T) /\ m \in T /\ \A y \in T : m >= y
  BY <1>5 DEF Max
<1>7. QED
  BY <1>6

LEMMA MinIs ==
  ASSUME NEW T, T \subseteq Nat, T # {}
  PROVE  Min(T) \in T /\ \A y \in T : Min(T) <= y
<1>1. PICK z \in T : TRUE
  OBVIOUS
<1> DEFINE below == {d \in 0 .. z : z - d \in T}
<1>2. IsFiniteSet(below)
  <2>1. z \in Nat /\ below \in SUBSET Nat /\ \A d \in below : d <= z
    BY <1>1
  <2> HIDE DEF below
  <2>2. QED
    BY <2>1, FS_BoundedSetOfNaturals
<1>3. 0 \in below /\ below \subseteq Nat
  BY <1>1
<1>4. PICK d \in below : \A c \in below : c <= d
  <2> HIDE DEF below
  <2>1. QED
    BY <1>2, <1>3, MaxIs
<1>5. z - d \in T /\ \A y \in T : z - d <= y
  <2> SUFFICES ASSUME NEW y \in T
               PROVE  z - d <= y
    OBVIOUS
  <2>1. z \in Nat /\ y \in Nat /\ d \in Nat
    BY <1>1
  <2>2. CASE y <= z
    <3>1. z - y \in 0 .. z /\ z - (z - y) = y
      BY <2>1, <2>2
    <3>2. z - y \in below
      BY <3>1
    <3>3. QED
      BY <1>4, <2>1, <3>1, <3>2
  <2>3. QED
    BY <2>1, <2>2
<1>6. PICK x \in T : \A y \in T : x <= y
  BY <1>5
<1>7. PICK m : m = Min(T) /\ m \in T /\ \A y \in T : m <= y
  BY <1>6 DEF Min
<1>8. QED
  BY <1>7

LEMMA MaxOfEach ==
  ASSUME NEW I, IsFiniteSet(I), I # {}, NEW f, \A i \in I : f[i] \in Nat
  PROVE  LET most == Max({f[i] : i \in I}) IN
         (\E i \in I : most = f[i]) /\ \A i \in I : f[i] <= most
<1> DEFINE T == {f[i] : i \in I}
<1>1. [i \in I |-> f[i]] \in Surjection(I, T)
  BY DEF Surjection
<1>2. IsFiniteSet(T)
  BY <1>1, FS_Surjection
<1>3. T # {} /\ T \subseteq Nat
  OBVIOUS
<1>4. Max(T) \in T /\ \A y \in T : y <= Max(T)
  BY <1>2, <1>3, MaxIs
<1>5. QED
  BY <1>4

-----------------------------------------------------------------------------
(* The bound of the shards, turn by turn.                                  *)
Placed == entries \ todo

\* Whatever split leaves nobody more than b of what is placed, no shard has more than
\* the bound of b.
NearEverySplit ==
  \A split \in [entries -> Index], b \in Nat :
    (\A j \in Index : Weight(size, Fiber(split, Placed, j)) <= b) =>
      \A i \in Index :
        3 * Cardinality(Index) * shard[i].totalBytes <= (4 * Cardinality(Index) - 1) * b

(* The inductive invariant: totals are those of the entries, the entries   *)
(* that are placed are none of them smaller than those to come.            *)
LptInv ==
  /\ options \in [maxWorkers : Nat, filesPerWorker : Nat]
  /\ IsFiniteSet(Placed)
  /\ \A x \in Placed, y \in todo : size[y] <= size[x]
  /\ \A i \in Index : shard[i].totalBytes = Weight(size, shard[i].entries)
  /\ IsFiniteSet(entries) => NearEverySplit

\* There is a worker as soon as there is an entry.
LEMMA IndexIs ==
  ASSUME IsFiniteSet(entries), options \in [maxWorkers : Nat, filesPerWorker : Nat]
  PROVE  IsFiniteSet(Index) /\ (entries # {} => 0 \in Index)
<1>1. Cardinality(entries) \in Nat /\ (entries # {} => Cardinality(entries) # 0)
  BY FS_CardinalityType, FS_EmptySet
<1>2. PICK per \in Nat : per = Larger(1, options.filesPerWorker) /\ per > 0
  BY DEF Larger
<1>3. CeilDiv(Cardinality(entries), per) \in Int
  BY <1>1, <1>2 DEF CeilDiv
<1>4. PICK count : count = ChooseWorkerCount(Cardinality(entries), options)
  OBVIOUS
<1>5. count \in Int /\ (entries # {} => count >= 1)
  BY <1>1, <1>2, <1>3, <1>4 DEF ChooseWorkerCount, Larger, Smaller
<1>6. ShardCount(entries, options) \in Int /\ (entries # {} => ShardCount(entries, options) >= 1)
  BY <1>1, <1>4, <1>5 DEF ShardCount, Smaller
<1>7. IsFiniteSet(0 .. ShardCount(entries, options) - 1)
  <2>1. PICK last \in Int : last = ShardCount(entries, options) - 1
    BY <1>6
  <2>2. IsFiniteSet(0 .. last)
    BY FS_Interval
  <2>3. QED
    BY <2>1, <2>2
<1>8. QED
  BY <1>6, <1>7 DEF Index

LEMMA LptStarts ==
  ASSUME Init
  PROVE  LptInv
<1>1. Placed = {} /\ \A i \in Index : shard[i] = [entries |-> {}, totalBytes |-> 0]
  BY DEF Init, Placed
<1>2. IsFiniteSet(Placed)
  BY <1>1, FS_EmptySet
<1>3. \A i \in Index : shard[i].totalBytes = Weight(size, shard[i].entries)
  BY <1>1, WeightOfNone
<1>4. ASSUME IsFiniteSet(entries)
      PROVE  NearEverySplit
  <2> SUFFICES ASSUME NEW b \in Nat, NEW i \in Index
               PROVE  3 * Cardinality(Index) * shard[i].totalBytes
                        <= (4 * Cardinality(Index) - 1) * b
    BY DEF NearEverySplit
  <2>1. IsFiniteSet(Index)
    BY <1>4, IndexIs, ShardingAssumption DEF Init
  <2>2. PICK n \in Nat : n = Cardinality(Index) /\ n # 0
    BY <2>1, FS_CardinalityType, FS_EmptySet
  <2>3. shard[i].totalBytes = 0
    BY <1>1
  <2>4. (4 * n - 1) * b \in Nat /\ 3 * n * 0 = 0
    BY <2>2
  <2>5. QED
    BY <2>2, <2>3, <2>4
<1>5. options \in [maxWorkers : Nat, filesPerWorker : Nat]
  BY ShardingAssumption DEF Init
<1>6. QED
  BY <1>1, <1>2, <1>3, <1>4, <1>5 DEF LptInv

\* What is placed, is in one shard.
LEMMA PlacedInOne ==
  ASSUME ShardingTypeOK, ExactlyOnce
  PROVE  \E own : /\ \A x \in Placed : own[x] \in Index
                  /\ \A j \in Index : shard[j].entries = Fiber(own, Placed, j)
<1> DEFINE own == [x \in Placed |-> CHOOSE i \in Index : Holds(x) = {i}]
<1>1. \A x \in Placed : own[x] \in Index /\ Holds(x) = {own[x]}
  BY DEF ExactlyOnce, Placed
<1>2. \A x \in entries \ Placed : Holds(x) = {}
  BY DEF ExactlyOnce, Placed
<1> HIDE DEF own
<1>3. ASSUME NEW j \in Index
      PROVE  shard[j].entries = Fiber(own, Placed, j)
  <2>1. shard[j].entries \subseteq entries
    BY DEF ShardingTypeOK
  <2>2. \A x : x \in shard[j].entries <=> j \in Holds(x)
    BY DEF Holds
  <2>3. \A x \in Placed : x \in entries
    BY DEF Placed
  <2>4. \A x \in shard[j].entries : x \in Placed /\ own[x] = j
    BY <1>1, <1>2, <2>1, <2>2
  <2>5. \A x \in Placed : own[x] = j => x \in shard[j].entries
    BY <1>1, <2>2
  <2>6. QED
    BY <2>4, <2>5 DEF Fiber
<1>4. QED
  BY <1>1, <1>3

LEMMA LptSteps ==
  ASSUME ShardingTypeOK, ExactlyOnce, LptInv, Place
  PROVE  LptInv'
<1>1. PICK e \in todo, i \in Index :
        Largest(e) /\ Lightest(i) /\ Give(e, i) /\ todo' = todo \ {e} /\ UNCHANGED input
  BY DEF Place
<1>2. Index' = Index /\ entries' = entries /\ size' = size /\ options' = options
  BY <1>1, SameInput DEF input
<1>3. e \in entries /\ todo \subseteq entries /\ \A x \in entries : size[x] \in Nat
  BY DEF ShardingTypeOK
<1>4. e \notin Placed /\ Placed' = Placed \cup {e}
  BY <1>1, <1>2, <1>3 DEF Placed
<1>5. \A x \in Placed \cup {e} : x \in entries /\ size[x] \in Nat
  BY <1>3 DEF Placed
<1>6. IsFiniteSet(Placed) /\ IsFiniteSet(Placed')
  BY <1>4, FS_AddElement DEF LptInv
<1>7. \A j \in Index : /\ shard[j].totalBytes \in Nat
                       /\ shard'[j].totalBytes =
                            IF j = i THEN shard[i].totalBytes + size[e] ELSE shard[j].totalBytes
                       /\ shard'[j].entries =
                            IF j = i THEN shard[i].entries \cup {e} ELSE shard[j].entries
  BY <1>1 DEF Give, ShardingTypeOK
<1>8. PICK own : /\ \A x \in Placed : own[x] \in Index
                 /\ \A j \in Index : shard[j].entries = Fiber(own, Placed, j)
  BY PlacedInOne
<1>9. \A j \in Index : shard[j].totalBytes = Weight(size, Fiber(own, Placed, j))
  BY <1>8 DEF LptInv
<1>10. \A x \in Placed', y \in todo' : size'[y] <= size'[x]
  <2> SUFFICES ASSUME NEW x \in Placed \cup {e}, NEW y \in todo, y # e
               PROVE  size[y] <= size[x]
    BY <1>1, <1>2, <1>4
  <2>1. size[y] <= size[e]
    BY <1>1 DEF Largest
  <2>2. QED
    BY <2>1 DEF LptInv
<1>11. \A j \in Index : shard'[j].totalBytes = Weight(size, shard'[j].entries)
  <2> SUFFICES ASSUME NEW j \in Index
               PROVE  shard'[j].totalBytes = Weight(size, shard'[j].entries)
    OBVIOUS
  <2>1. CASE j = i
    <3>1. PICK held : held = shard[i].entries
      OBVIOUS
    <3>2. held \in SUBSET Placed /\ e \notin held
      BY <1>4, <1>8, <3>1 DEF Fiber
    <3>3. IsFiniteSet(held) /\ \A x \in held \cup {e} : size[x] \in Nat
      BY <1>5, <1>6, <3>2, FS_Subset
    <3>4. Weight(size, held \cup {e}) = Weight(size, held) + size[e]
      BY <3>2, <3>3, WeightOfOneMore
    <3>5. QED
      BY <1>7, <2>1, <3>1, <3>4 DEF LptInv
  <2>2. CASE j # i
    BY <1>7, <2>2 DEF LptInv
  <2>3. QED
    BY <2>1, <2>2
<1>12. ASSUME IsFiniteSet(entries), NEW split \in [entries -> Index], NEW b \in Nat,
              \A j \in Index : Weight(size, Fiber(split, Placed \cup {e}, j)) <= b,
              NEW k \in Index
       PROVE  3 * Cardinality(Index) * shard'[k].totalBytes <= (4 * Cardinality(Index) - 1) * b
  <2>1. CASE k = i
    <3>1. IsFiniteSet(Index)
      BY <1>12, IndexIs DEF LptInv
    <3>2. \A x \in Placed : size[e] <= size[x]
      BY DEF LptInv
    <3>3. \A j \in Index :
            Weight(size, Fiber(own, Placed, i)) <= Weight(size, Fiber(own, Placed, j))
      BY <1>1, <1>7, <1>9 DEF Lightest
    <3>4. \A x \in Placed \cup {e} : split[x] \in Index /\ size[x] \in Nat
      BY <1>5
    <3>5. 3 * Cardinality(Index) * (Weight(size, Fiber(own, Placed, i)) + size[e])
            <= (4 * Cardinality(Index) - 1) * b
      BY <1>4, <1>6, <1>8, <1>12, <3>1, <3>2, <3>3, <3>4, LightestFits
    <3>6. QED
      BY <1>7, <1>9, <2>1, <3>5
  <2>2. CASE k # i
    <3>1. ASSUME NEW j \in Index
          PROVE  Weight(size, Fiber(split, Placed, j)) <= b
      <4>1. PICK more : more = Fiber(split, Placed \cup {e}, j)
        OBVIOUS
      <4>2. more \in SUBSET (Placed \cup {e}) /\ Fiber(split, Placed, j) \subseteq more
        BY <4>1 DEF Fiber
      <4>3. IsFiniteSet(more) /\ \A x \in more : size[x] \in Nat
        BY <1>4, <1>5, <1>6, <4>2, FS_Subset
      <4>4. /\ Weight(size, Fiber(split, Placed, j)) <= Weight(size, more)
            /\ Weight(size, Fiber(split, Placed, j)) \in Nat /\ Weight(size, more) \in Nat
        BY <4>2, <4>3, WeightGrows
      <4>5. Weight(size, more) <= b
        BY <1>12, <4>1
      <4>6. QED
        BY <4>4, <4>5
    <3>2. 3 * Cardinality(Index) * shard[k].totalBytes <= (4 * Cardinality(Index) - 1) * b
      BY <1>12, <3>1 DEF LptInv, NearEverySplit
    <3>3. QED
      BY <1>7, <2>2, <3>2
  <2>3. QED
    BY <2>1, <2>2
<1>13. (IsFiniteSet(entries) => NearEverySplit)'
  BY <1>2, <1>4, <1>12 DEF NearEverySplit, Fiber
<1>14. QED
  BY <1>2, <1>6, <1>10, <1>11, <1>13 DEF LptInv

\* When all is placed, the best of all the splits is one of them.
LEMMA BestIsASplit ==
  ASSUME ShardingTypeOK, ExactlyOnce, LptInv, Returned, entries # {}
  PROVE  LET n == Cardinality(Index) IN 3 * n * Heaviest <= (4 * n - 1) * Optimum
<1> DEFINE best == {HeaviestOf(split) : split \in [entries -> Index]}
<1>1. Placed = entries /\ IsFiniteSet(entries) /\ \A x \in entries : size[x] \in Nat
  BY DEF Placed, Returned, LptInv, ShardingTypeOK
<1>2. IsFiniteSet(Index) /\ Index # {}
  BY <1>1, IndexIs DEF LptInv
<1>3. PICK i \in Index : Heaviest = shard[i].totalBytes
  <2>1. PICK total : total = [j \in Index |-> shard[j].totalBytes]
    OBVIOUS
  <2>2. \A j \in Index : total[j] \in Nat /\ total[j] = shard[j].totalBytes
    BY <2>1 DEF ShardingTypeOK
  <2>3. \E j \in Index : Max({total[k] : k \in Index}) = total[j]
    BY <1>2, <2>2, MaxOfEach
  <2>4. {total[k] : k \in Index} = {shard[k].totalBytes : k \in Index}
    BY <2>2
  <2>5. QED
    BY <2>2, <2>3, <2>4 DEF Heaviest
<1>4. ASSUME NEW split \in [entries -> Index]
      PROVE  /\ HeaviestOf(split) \in Nat
             /\ \A j \in Index : Weight(size, Fiber(split, entries, j)) <= HeaviestOf(split)
  <2> DEFINE sum(j) == SumOfSizes({e \in entries : split[e] = j})
  <2>1. PICK total : total = [j \in Index |-> Weight(size, Fiber(split, entries, j))]
    OBVIOUS
  <2>2. ASSUME NEW j \in Index
        PROVE  /\ total[j] = Weight(size, Fiber(split, entries, j)) /\ total[j] \in Nat
               /\ sum(j) = total[j]
    <3>1. PICK fiber : fiber = {e \in entries : split[e] = j}
      OBVIOUS
    <3>2. fiber = Fiber(split, entries, j) /\ fiber \in SUBSET entries
      BY <3>1 DEF Fiber
    <3>3. IsFiniteSet(fiber) /\ \A x \in fiber : size[x] \in Nat
      BY <1>1, <3>2, FS_Subset
    <3>4. SumFunctionOnSet(size, fiber) = Weight(size, fiber)
      BY <3>3, SumIsWeight
    <3>5. Weight(size, fiber) \in Nat
      BY <1>1, <3>2, WeightGrows
    <3>6. QED
      BY <2>1, <3>1, <3>2, <3>4, <3>5 DEF SumOfSizes
  <2>3. /\ \E j \in Index : Max({total[k] : k \in Index}) = total[j]
        /\ \A j \in Index : total[j] <= Max({total[k] : k \in Index})
    BY <1>2, <2>2, MaxOfEach
  <2>4. HeaviestOf(split) = Max({sum(k) : k \in Index})
    BY DEF HeaviestOf
  <2> HIDE DEF sum
  <2>5. {total[k] : k \in Index} = {sum(k) : k \in Index}
    BY <2>2
  <2>6. QED
    BY <2>2, <2>3, <2>4, <2>5
<1>5. PICK split \in [entries -> Index] : Optimum = HeaviestOf(split)
  <2>1. best \subseteq Nat
    BY <1>4
  <2>2. best # {}
    <3>1. PICK j \in Index : TRUE
      BY <1>2
    <3>2. [x \in entries |-> j] \in [entries -> Index]
      OBVIOUS
    <3>3. QED
      BY <3>2
  <2>3. Min(best) \in best
    <3> HIDE DEF best
    <3>1. QED
      BY <2>1, <2>2, MinIs
  <2>4. QED
    BY <2>3 DEF Optimum
<1>6. NearEverySplit
  BY <1>1 DEF LptInv
<1>7. QED
  BY <1>1, <1>3, <1>4, <1>5, <1>6 DEF NearEverySplit

(* "the classic multiprocessor-scheduling approximation" (shard.ts:76):    *)
(* the heaviest shard is within 4/3 - 1/(3 n) of the best of all splits,   *)
(* for any entries, any sizes and any number of workers.                   *)
THEOREM AlwaysNearTheOptimum == Spec => []NearTheOptimum
<1>1. Init => LptInv
  BY LptStarts
<1>2. ShardingTypeOK /\ ExactlyOnce /\ LptInv /\ [Next]_vars => LptInv'
  <2> SUFFICES ASSUME ShardingTypeOK, ExactlyOnce, LptInv, [Next]_vars
               PROVE  LptInv'
    OBVIOUS
  <2>1. CASE Place
    BY <2>1, LptSteps
  <2>2. CASE UNCHANGED vars
    <3>1. UNCHANGED input /\ todo' = todo /\ shard' = shard
      BY <2>2 DEF vars
    <3>2. Index' = Index /\ entries' = entries /\ size' = size /\ options' = options
      BY <3>1, SameInput DEF input
    <3>3. QED
      BY <3>1, <3>2 DEF LptInv, NearEverySplit, Placed, Weight, Units, Fiber
  <2>3. QED
    BY <2>1, <2>2 DEF Next
<1>3. ShardingTypeOK /\ ExactlyOnce /\ LptInv => NearTheOptimum
  BY BestIsASplit DEF NearTheOptimum
<1>4. QED
  BY <1>1, <1>2, <1>3, ShardingTypeCorrect, EntriesPlacedOnce, PTL DEF Spec

-----------------------------------------------------------------------------
(* The checksum.                                                           *)

(* What the next turn of crc32Combine would apply, for the bit it looks    *)
(* at: the operator it is about to square into.                            *)
NextOperator == IF half = "even" THEN 2 * odd ELSE 2 * even

(* The loop of crc32Combine: what was applied and what is still to apply   *)
(* is the length of the second block in bits; that length is below WORD,   *)
(* so no bit of it is cut off.                                             *)
CombineInv ==
  /\ len \in 0 .. WORD - 1
  /\ half \in {"even", "odd"} => len > 0 /\ advanced + len * NextOperator = 8 * len2
  /\ half = "done" => advanced = 8 * len2
  /\ half # "idle" => Len(crc) \in 1 .. Blocks - 1 /\ len2 = BlockSize(Len(crc) + 1)

ChecksumInv == ChecksumIsExact /\ CombineInv

(* A turn on a length: its lowest bit and twice its half.                  *)
LEMMA HalvedBelow ==
  ASSUME NEW n \in 1 .. WORD - 1
  PROVE  /\ Halved(n) \in 0 .. WORD - 1
         /\ Halved(n) = n \div 2
         /\ n = 2 * Halved(n) + (n % 2)
         /\ n % 2 \in {0, 1}
<1>1. n % WORD = n
  BY ChecksumAssumption
<1>2. n = 2 * (n \div 2) + (n % 2) /\ n % 2 \in {0, 1} /\ n \div 2 \in Int
  BY ChecksumAssumption
<1>3. n \div 2 \in 0 .. WORD - 1
  BY <1>2, ChecksumAssumption
<1>4. Halved(n) = n \div 2
  BY <1>1 DEF Halved
<1>5. QED
  BY <1>2, <1>3, <1>4

(* The operator of a turn accounts for the lowest bit, its double for the  *)
(* rest of the length.                                                     *)
LEMMA TurnAccounts ==
  ASSUME NEW n \in Nat, NEW h \in Nat, NEW bit \in {0, 1}, n = 2 * h + bit,
         NEW p \in Nat, NEW a \in Nat, NEW total \in Nat, a + n * p = total
  PROVE  (IF bit = 1 THEN a + p ELSE a) + h * (2 * p) = total
<1>1. n * p = h * (2 * p) + bit * p
  OBVIOUS
<1>2. bit = 1 => bit * p = p
  OBVIOUS
<1>3. bit = 0 => bit * p = 0
  OBVIOUS
<1>4. h * (2 * p) \in Nat
  OBVIOUS
<1>5. QED
  BY <1>1, <1>2, <1>3, <1>4

(* The blocks of an entry: where each ends and how long it is.             *)
LEMMA BlockSizes ==
  ASSUME uncompressedSize \in StoredSizes
  PROVE  /\ uncompressedSize \in Nat /\ FullPatterns \in Nat /\ Blocks \in Nat
         /\ Rest \in 0 .. PATTERN_SIZE - 1
         /\ uncompressedSize = PATTERN_SIZE * FullPatterns + Rest
<1>1. uncompressedSize \in Nat /\ PATTERN_SIZE \in Nat \ {0}
  BY ChecksumAssumption
<1>2. /\ uncompressedSize \div PATTERN_SIZE \in Int
      /\ uncompressedSize % PATTERN_SIZE \in 0 .. PATTERN_SIZE - 1
  BY <1>1
<1>3. uncompressedSize = PATTERN_SIZE * (uncompressedSize \div PATTERN_SIZE)
                           + (uncompressedSize % PATTERN_SIZE)
  BY <1>1
<1>4. uncompressedSize \div PATTERN_SIZE \in Nat
  BY <1>1
<1>5. QED
  BY <1>1, <1>2, <1>3, <1>4 DEF FullPatterns, Rest, Blocks

LEMMA BlockEnds ==
  ASSUME uncompressedSize \in StoredSizes, NEW k \in 1 .. Blocks - 1
  PROVE  /\ BlockSize(k + 1) \in 1 .. PATTERN_SIZE
         /\ EndOf(k + 1) = EndOf(k) + BlockSize(k + 1)
<1>1. /\ uncompressedSize \in Nat /\ FullPatterns \in Nat /\ Rest \in 0 .. PATTERN_SIZE - 1
      /\ uncompressedSize = PATTERN_SIZE * FullPatterns + Rest
      /\ PATTERN_SIZE \in Nat \ {0}
  BY BlockSizes, ChecksumAssumption
<1>2. k \in Nat /\ k <= FullPatterns
  BY <1>1 DEF Blocks
<1>3. CASE k + 1 <= FullPatterns
  <2>1. (k + 1) * PATTERN_SIZE = k * PATTERN_SIZE + PATTERN_SIZE
    BY <1>1, <1>2
  <2>2. QED
    BY <2>1, <1>1, <1>2, <1>3 DEF BlockSize, EndOf
<1>4. CASE ~(k + 1 <= FullPatterns)
  <2>1. k = FullPatterns /\ Rest > 0
    BY <1>1, <1>2, <1>4 DEF Blocks
  <2>2. k * PATTERN_SIZE = PATTERN_SIZE * FullPatterns
    BY <2>1, <1>1
  <2>3. QED
    BY <2>1, <2>2, <1>1, <1>2, <1>4 DEF BlockSize, EndOf
<1>5. QED
  BY <1>3, <1>4

LEMMA ChecksumStarts == ChecksumInit => ChecksumInv
<1> SUFFICES ASSUME ChecksumInit
             PROVE  ChecksumInv
  OBVIOUS
<1>1. uncompressedSize \in Nat /\ FullPatterns \in Nat /\ Blocks \in Nat
      /\ Rest \in 0 .. PATTERN_SIZE - 1
      /\ uncompressedSize = PATTERN_SIZE * FullPatterns + Rest
  BY BlockSizes DEF ChecksumInit
<1>2. crc \in Seq(Nat) /\ Len(crc) \in {0, 1} /\ (\A k \in DOMAIN crc : k = 1 /\ crc[k] = 0)
      /\ (Len(crc) = 1 => uncompressedSize > 0)
  BY DEF ChecksumInit
<1>3. Len(crc) <= Blocks
  <2>1. CASE FullPatterns = 0
    <3>1. PATTERN_SIZE * FullPatterns = 0
      BY <2>1, ChecksumAssumption
    <3>2. QED
      BY <3>1, <2>1, <1>1, <1>2 DEF Blocks
  <2>2. CASE FullPatterns > 0
    BY <2>2, <1>1, <1>2 DEF Blocks
  <2>3. QED
    BY <2>1, <2>2, <1>1
<1>4. EndOf(1) \in Int
  BY <1>1, ChecksumAssumption DEF EndOf
<1>5. \A k \in DOMAIN crc : crc[k] = 8 * (EndOf(Len(crc)) - EndOf(k))
  <2> SUFFICES ASSUME NEW k \in DOMAIN crc
               PROVE  crc[k] = 8 * (EndOf(Len(crc)) - EndOf(k))
    OBVIOUS
  <2>1. k = 1 /\ Len(crc) = 1 /\ crc[k] = 0
    BY <1>2
  <2>2. QED
    BY <2>1, <1>4
<1>6. ChecksumTypeOK
  BY <1>2 DEF ChecksumInit, ChecksumTypeOK
<1>7. CombineInv
  BY ChecksumAssumption DEF ChecksumInit, CombineInv
<1>8. QED
  BY <1>2, <1>3, <1>5, <1>6, <1>7 DEF ChecksumInit, ChecksumInv, ChecksumIsExact

LEMMA ChecksumSteps == ChecksumInv /\ [ChecksumNext]_checksumVars => ChecksumInv'
<1> SUFFICES ASSUME ChecksumInv, [ChecksumNext]_checksumVars
             PROVE  ChecksumIsExact' /\ CombineInv'
  BY DEF ChecksumInv
<1> USE DEF ChecksumInv
<1>1. ChecksumTypeOK /\ CombineInv /\ uncompressedSize \in StoredSizes
  BY DEF ChecksumIsExact, ChecksumTypeOK
<1>2. /\ uncompressedSize' = uncompressedSize
      /\ Blocks' = Blocks /\ (\A k : BlockSize(k)' = BlockSize(k) /\ EndOf(k)' = EndOf(k))
  BY DEF ChecksumNext, Combine, EvenTurn, OddTurn, Combined, checksumVars, combineVars,
         Blocks, BlockSize, EndOf, FullPatterns, Rest
<1>3. Blocks \in Nat /\ Len(crc) \in Nat /\ \A k : EndOf(k)' = EndOf(k)
  BY <1>1, <1>2, BlockSizes DEF ChecksumTypeOK
<1>4. CASE Combine
  <2>1. /\ Len(crc) \in 1 .. Blocks - 1 /\ len2' = BlockSize(Len(crc) + 1) /\ len' = len2'
        /\ even' = 2 /\ odd' = 4 /\ advanced' = 0 /\ half' = "even" /\ crc' = crc
    BY <1>4 DEF Combine
  <2>2. len' \in 1 .. PATTERN_SIZE
    BY <2>1, <1>1, BlockEnds
  <2>3. len' \in 1 .. WORD - 1 /\ len2' \in Nat
    BY <2>1, <2>2, ChecksumAssumption
  <2>4. advanced' + len' * NextOperator' = 8 * len2'
    BY <2>1, <2>3 DEF NextOperator
  <2>5. ChecksumTypeOK'
    BY <2>1, <2>3, <1>1, <1>2 DEF ChecksumTypeOK
  <2>6. CombineInv'
    BY <2>1, <2>3, <2>4, <1>2 DEF CombineInv
  <2>7. QED
    BY <2>1, <2>5, <2>6, <1>2 DEF ChecksumIsExact
<1>5. CASE EvenTurn
  <2>1. len \in 1 .. WORD - 1 /\ advanced + len * (2 * odd) = 8 * len2
    BY <1>5 DEF EvenTurn, CombineInv, NextOperator
  <2>2. /\ Halved(len) \in 0 .. WORD - 1 /\ len = 2 * Halved(len) + (len % 2)
        /\ len % 2 \in {0, 1}
    BY <2>1, HalvedBelow
  <2>3. /\ {Halved(len), len, advanced, odd, len2, 2 * odd, 8 * len2} \subseteq Nat
        /\ Applied(2 * odd) \in Nat
    <3>1. len \in Nat /\ advanced \in Nat /\ odd \in Nat /\ len2 \in Nat
      BY <1>1 DEF ChecksumTypeOK
    <3>2. Halved(len) \in Nat
      BY <2>2, ChecksumAssumption
    <3>3. QED
      BY <3>1, <3>2 DEF Applied
  <2>4. Applied(2 * odd) + Halved(len) * (2 * (2 * odd)) = 8 * len2
    BY <2>1, <2>2, <2>3, TurnAccounts DEF Applied
  <2>5. /\ even' = 2 * odd /\ len' = Halved(len) /\ advanced' = Applied(2 * odd)
        /\ half' = IF len' = 0 THEN "done" ELSE "odd"
        /\ UNCHANGED <<uncompressedSize, crc, len2, odd>>
    BY <1>5 DEF EvenTurn
  <2>6. ChecksumTypeOK'
    BY <1>1, <2>3, <2>5 DEF ChecksumTypeOK
  <2>7. half' = "odd" => len' > 0 /\ advanced' + len' * NextOperator' = 8 * len2'
    BY <2>2, <2>4, <2>5 DEF NextOperator
  <2>8. half' = "done" => advanced' = 8 * len2'
    <3> SUFFICES ASSUME half' = "done"
                 PROVE  advanced' = 8 * len2
      BY <2>5
    <3>1. Halved(len) = 0 /\ 2 * (2 * odd) \in Nat /\ Applied(2 * odd) \in Nat
      BY <2>3, <2>5 DEF Applied
    <3>2. Halved(len) * (2 * (2 * odd)) = 0
      BY <3>1
    <3>3. QED
      BY <3>1, <3>2, <2>4, <2>5
  <2>9. half # "idle" /\ len' \in 0 .. WORD - 1
    BY <1>5, <2>2, <2>5 DEF EvenTurn
  <2>10. CombineInv'
    BY <2>5, <2>7, <2>8, <2>9, <1>1, <1>2, <1>3 DEF CombineInv
  <2>11. QED
    BY <2>5, <2>6, <2>8, <2>10, <1>1, <1>2, <1>3 DEF ChecksumIsExact
<1>6. CASE OddTurn
  <2>1. len \in 1 .. WORD - 1 /\ advanced + len * (2 * even) = 8 * len2
    BY <1>6 DEF OddTurn, CombineInv, NextOperator
  <2>2. /\ Halved(len) \in 0 .. WORD - 1 /\ len = 2 * Halved(len) + (len % 2)
        /\ len % 2 \in {0, 1}
    BY <2>1, HalvedBelow
  <2>3. /\ {Halved(len), len, advanced, even, len2, 2 * even, 8 * len2} \subseteq Nat
        /\ Applied(2 * even) \in Nat
    <3>1. len \in Nat /\ advanced \in Nat /\ even \in Nat /\ len2 \in Nat
      BY <1>1 DEF ChecksumTypeOK
    <3>2. Halved(len) \in Nat
      BY <2>2, ChecksumAssumption
    <3>3. QED
      BY <3>1, <3>2 DEF Applied
  <2>4. Applied(2 * even) + Halved(len) * (2 * (2 * even)) = 8 * len2
    BY <2>1, <2>2, <2>3, TurnAccounts DEF Applied
  <2>5. /\ odd' = 2 * even /\ len' = Halved(len) /\ advanced' = Applied(2 * even)
        /\ half' = IF len' = 0 THEN "done" ELSE "even"
        /\ UNCHANGED <<uncompressedSize, crc, len2, even>>
    BY <1>6 DEF OddTurn
  <2>6. ChecksumTypeOK'
    BY <1>1, <2>3, <2>5 DEF ChecksumTypeOK
  <2>7. half' = "even" => len' > 0 /\ advanced' + len' * NextOperator' = 8 * len2'
    BY <2>2, <2>4, <2>5 DEF NextOperator
  <2>8. half' = "done" => advanced' = 8 * len2'
    <3> SUFFICES ASSUME half' = "done"
                 PROVE  advanced' = 8 * len2
      BY <2>5
    <3>1. Halved(len) = 0 /\ 2 * (2 * even) \in Nat /\ Applied(2 * even) \in Nat
      BY <2>3, <2>5 DEF Applied
    <3>2. Halved(len) * (2 * (2 * even)) = 0
      BY <3>1
    <3>3. QED
      BY <3>1, <3>2, <2>4, <2>5
  <2>9. half # "idle" /\ len' \in 0 .. WORD - 1
    BY <1>6, <2>2, <2>5 DEF OddTurn
  <2>10. CombineInv'
    BY <2>5, <2>7, <2>8, <2>9, <1>1, <1>2, <1>3 DEF CombineInv
  <2>11. QED
    BY <2>5, <2>6, <2>8, <2>10, <1>1, <1>2, <1>3 DEF ChecksumIsExact
<1>7. CASE Combined
  <2>1. /\ half = "done" /\ half' = "idle"
        /\ crc' = [k \in 1 .. Len(crc) + 1 |-> IF k <= Len(crc) THEN crc[k] + advanced ELSE 0]
        /\ UNCHANGED <<uncompressedSize, len2, len, even, odd, advanced>>
    BY <1>7 DEF Combined
  <2>2. /\ Len(crc) \in 1 .. Blocks - 1 /\ advanced = 8 * len2 /\ len2 = BlockSize(Len(crc) + 1)
        /\ len \in 0 .. WORD - 1
    BY <2>1, <1>1 DEF CombineInv
  <2>3. crc' \in Seq(Nat) /\ Len(crc') = Len(crc) + 1 /\ DOMAIN crc' = 1 .. Len(crc) + 1
    BY <2>1, <1>1 DEF ChecksumTypeOK
  <2>4. EndOf(Len(crc) + 1) = EndOf(Len(crc)) + len2
    BY <2>2, <1>1, BlockEnds
  <2>5. \A k \in 1 .. Len(crc) + 1 : EndOf(k) \in Int
    BY <1>1, BlockSizes, ChecksumAssumption DEF EndOf
  <2>6. \A k \in DOMAIN crc' : crc'[k] = 8 * (EndOf(Len(crc) + 1) - EndOf(k))
    <3> SUFFICES ASSUME NEW k \in 1 .. Len(crc) + 1
                 PROVE  crc'[k] = 8 * (EndOf(Len(crc) + 1) - EndOf(k))
      BY <2>3
    <3>1. CASE k = Len(crc) + 1
      BY <3>1, <2>1, <2>5, <1>3
    <3>2. CASE k <= Len(crc)
      <4>1. crc[k] = 8 * (EndOf(Len(crc)) - EndOf(k)) /\ crc'[k] = crc[k] + 8 * len2
        BY <3>2, <2>1, <2>2, <1>3 DEF ChecksumIsExact, ChecksumTypeOK
      <4>2. EndOf(Len(crc)) \in Int /\ EndOf(k) \in Int /\ len2 \in Int
        BY <2>2, <2>5, <1>1, <1>3 DEF ChecksumTypeOK
      <4>3. QED
        BY <4>1, <4>2, <2>4
    <3>3. QED
      BY <3>1, <3>2, <1>3
  <2>7. (\A k \in DOMAIN crc : crc[k] = 8 * (EndOf(Len(crc)) - EndOf(k)))'
    BY <2>1, <2>3, <2>6 DEF EndOf, FullPatterns
  <2>8. ChecksumTypeOK'
    BY <2>1, <2>3, <1>1 DEF ChecksumTypeOK
  <2>9. CombineInv'
    BY <2>1, <2>2 DEF CombineInv
  <2>10. Len(crc') <= Blocks'
    BY <2>2, <2>3, <1>2, <1>3
  <2>11. QED
    BY <2>1, <2>7, <2>8, <2>9, <2>10 DEF ChecksumIsExact
<1>8. CASE UNCHANGED checksumVars
  <2>1. UNCHANGED <<uncompressedSize, crc, half, len2, len, even, odd, advanced>>
    BY <1>8 DEF checksumVars, combineVars
  <2>2. ChecksumIsExact'
    BY <2>1, <1>2 DEF ChecksumIsExact, ChecksumTypeOK
  <2>3. CombineInv'
    BY <2>1, <1>1, <1>2 DEF CombineInv, NextOperator
  <2>4. QED
    BY <2>2, <2>3
<1>9. QED
  BY <1>4, <1>5, <1>6, <1>7, <1>8 DEF ChecksumNext

(* The checksum of an entry is that of its data: for every size of an      *)
(* entry and every pattern below 4 GiB, each turn of crc32Combine and each *)
(* call of it leaves every block advanced over the bytes behind it         *)
(* (crc32.ts:63-95, builder-do.ts:319-333).                                *)
THEOREM ChecksumAlwaysExact == ChecksumSpec => []ChecksumIsExact
<1>1. ChecksumInv => ChecksumIsExact
  BY DEF ChecksumInv
<1>2. QED
  BY ChecksumStarts, ChecksumSteps, <1>1, PTL DEF ChecksumSpec

-----------------------------------------------------------------------------
(* The plan.                                                               *)

(* Every number up to the two counters is used up: the next text and the   *)
(* next media entry have names that are not in the plan.                   *)
Below(p, media, text) ==
  \A i \in DOMAIN p : p[i].number < (IF p[i].kind = "media" THEN media ELSE text)

Differ(p) == \A i, j \in DOMAIN p : SameName(p[i], p[j]) => i = j

PlanInv == PlanTypeOK /\ LandsAtTarget /\ PlanNamesDiffer /\ Below(plan, mediaIdx, textIdx)

(* An entry with the next number joins a plan.                             *)
LEMMA JoinsPlan ==
  ASSUME NEW p \in Seq(PlannedEntry), NEW e \in PlannedEntry, NEW media \in Nat, NEW text \in Nat,
         Below(p, media, text), Differ(p),
         e.number = (IF e.kind = "media" THEN media ELSE text),
         NEW m \in Nat, NEW t \in Nat,
         m = (IF e.kind = "media" THEN media + 1 ELSE media),
         t = (IF e.kind = "media" THEN text ELSE text + 1)
  PROVE  /\ p \o <<e>> \in Seq(PlannedEntry)
         /\ Below(p \o <<e>>, m, t)
         /\ Differ(p \o <<e>>)
<1> DEFINE q == p \o <<e>>
<1>1. /\ q \in Seq(PlannedEntry) /\ DOMAIN q = 1 .. Len(p) + 1 /\ Len(p) \in Nat
      /\ q[Len(p) + 1] = e /\ DOMAIN p = 1 .. Len(p)
      /\ \A i \in DOMAIN p : q[i] = p[i] /\ p[i] \in PlannedEntry
  <2>1. Len(p) \in Nat /\ DOMAIN p = 1 .. Len(p) /\ \A i \in DOMAIN p : p[i] \in PlannedEntry
    OBVIOUS
  <2>2. <<e>> \in Seq(PlannedEntry) /\ Len(<<e>>) = 1 /\ <<e>>[1] = e
    OBVIOUS
  <2>3. q \in Seq(PlannedEntry) /\ DOMAIN q = 1 .. Len(q) /\ Len(q) = Len(p) + 1
    BY <2>2
  <2>4. \A i \in 1 .. Len(p) : q[i] = p[i]
    BY <2>2
  <2>5. q[Len(p) + 1] = e
    BY <2>1, <2>2
  <2>6. QED
    BY <2>1, <2>3, <2>4, <2>5
<1>2. \A i \in DOMAIN p : p[i].number < (IF p[i].kind = "media" THEN media ELSE text)
  BY DEF Below
<1> HIDE DEF q
<1>3. ASSUME NEW i \in DOMAIN p
      PROVE  p[i].number \in Nat /\ ~SameName(p[i], e) /\ ~SameName(e, p[i])
  <2>1. p[i].number \in Nat
    BY <1>1 DEF PlannedEntry
  <2>2. ~(p[i].kind = e.kind /\ p[i].number = e.number)
    BY <1>2, <2>1
  <2>3. QED
    BY <2>1, <2>2 DEF SameName
<1>4. Below(q, m, t)
  <2> SUFFICES ASSUME NEW i \in 1 .. Len(p) + 1
               PROVE  q[i].number < (IF q[i].kind = "media" THEN m ELSE t)
    BY <1>1 DEF Below
  <2>1. CASE i = Len(p) + 1
    BY <2>1, <1>1
  <2>2. CASE i \in DOMAIN p
    BY <2>2, <1>1, <1>2, <1>3
  <2>3. QED
    BY <2>1, <2>2, <1>1
<1>5. Differ(q)
  <2> SUFFICES ASSUME NEW i \in 1 .. Len(p) + 1, NEW j \in 1 .. Len(p) + 1, SameName(q[i], q[j])
               PROVE  i = j
    BY <1>1 DEF Differ
  <2>1. CASE i \in DOMAIN p /\ j \in DOMAIN p
    BY <2>1, <1>1 DEF Differ
  <2>2. CASE i \in DOMAIN p /\ j = Len(p) + 1
    BY <2>2, <1>1, <1>3
  <2>3. CASE i = Len(p) + 1 /\ j \in DOMAIN p
    BY <2>3, <1>1, <1>3
  <2>4. QED
    BY <2>1, <2>2, <2>3, <1>1
<1>6. QED
  BY <1>1, <1>4, <1>5 DEF q

(* The sizes and the folders in turn are natural numbers.                  *)
LEMMA InTurnIsASize ==
  ASSUME NEW sizes \in Seq(Nat \ {0}), sizes # <<>>, NEW i \in Nat
  PROVE  InTurn(sizes, i) \in Nat \ {0}
<1>1. Len(sizes) \in Nat \ {0}
  OBVIOUS
<1>2. i % Len(sizes) \in 0 .. Len(sizes) - 1
  BY <1>1
<1>3. (i % Len(sizes)) + 1 \in DOMAIN sizes
  BY <1>1, <1>2
<1>4. QED
  BY <1>3 DEF InTurn

LEMMA NextEntries ==
  ASSUME PlanTypeOK, LandsAtTarget, dataTotal < targetBytes
  PROVE  /\ TextEntry \in PlannedEntry /\ MediaEntry \in PlannedEntry
         /\ dataTotal + MediaEntry.uncompressedSize < targetBytes + MB
<1>1. targetBytes \in Nat /\ {dataTotal, mediaIdx, textIdx} \subseteq Nat
      /\ MB \in Nat \ {0} /\ MEDIA_FOLDERS \in Nat \ {0} /\ TEXT_FOLDERS \in Nat \ {0}
  BY PlanAssumption DEF PlanTypeOK
<1>2. InTurn(MEDIA_SIZES, mediaIdx) \in Nat /\ InTurn(TEXT_SIZES, textIdx) \in Nat
  BY <1>1, InTurnIsASize, PlanAssumption
<1>3. mediaIdx % MEDIA_FOLDERS \in Nat /\ textIdx % TEXT_FOLDERS \in Nat
  BY <1>1
<1>4. /\ MediaSize(targetBytes - dataTotal) \in Nat
      /\ dataTotal + MediaSize(targetBytes - dataTotal) < targetBytes + MB
  BY <1>1, <1>2 DEF MediaSize, AtLeast
<1>5. QED
  BY <1>1, <1>2, <1>3, <1>4 DEF TextEntry, MediaEntry, PlannedEntry

(* The plan of a sample, whatever its target and its tables: its data      *)
(* never exceeds the target by the floor of an entry, and no two of its    *)
(* entries have one name (plan.ts:60-103).                                 *)
THEOREM PlanAlwaysLands == PlanSpec => [](PlanTypeOK /\ LandsAtTarget /\ PlanNamesDiffer)
<1>1. PlanInit => PlanInv
  BY PlanAssumption DEF PlanInit, PlanInv, PlanTypeOK, LandsAtTarget, PlanNamesDiffer, Below
<1>2. PlanInv /\ [PlanNext]_planVars => PlanInv'
  <2> SUFFICES ASSUME PlanInv, [PlanNext]_planVars
               PROVE  PlanInv'
    OBVIOUS
  <2>1. CASE PlanTurn
    <3>1. /\ plan \in Seq(PlannedEntry) /\ mediaIdx \in Nat /\ textIdx \in Nat /\ dataTotal \in Nat
          /\ Below(plan, mediaIdx, textIdx) /\ Differ(plan)
      BY DEF PlanInv, PlanTypeOK, PlanNamesDiffer, Differ
    <3>2. /\ TextEntry \in PlannedEntry /\ MediaEntry \in PlannedEntry
          /\ dataTotal' < targetBytes' + MB /\ dataTotal' \in Nat /\ mediaIdx' = mediaIdx + 1
          /\ targetBytes' = targetBytes
      BY <2>1, <3>1, NextEntries DEF PlanTurn, PlanInv, PlannedEntry
    <3>3. /\ TextEntry.kind = "text" /\ TextEntry.number = textIdx
          /\ MediaEntry.kind = "media" /\ MediaEntry.number = mediaIdx
      BY DEF TextEntry, MediaEntry
    <3> DEFINE texts == IF TextIsDue THEN plan \o <<TextEntry>> ELSE plan
    <3>4. /\ textIdx' \in Nat /\ texts \in Seq(PlannedEntry)
          /\ Below(texts, mediaIdx, textIdx') /\ Differ(texts)
      <4>1. CASE TextIsDue
        <5>1. textIdx' = textIdx + 1 /\ texts = plan \o <<TextEntry>>
          BY <2>1, <4>1 DEF PlanTurn
        <5>2. QED
          BY <5>1, <3>1, <3>2, <3>3, JoinsPlan
      <4>2. CASE ~TextIsDue
        BY <2>1, <4>2, <3>1 DEF PlanTurn
      <4>3. QED
        BY <4>1, <4>2
    <3>5. plan' = texts \o <<MediaEntry>>
      BY <2>1 DEF PlanTurn
    <3> HIDE DEF texts
    <3>6. /\ plan' \in Seq(PlannedEntry)
          /\ Below(plan', mediaIdx', textIdx') /\ Differ(plan')
      BY <3>1, <3>2, <3>3, <3>4, <3>5, JoinsPlan
    <3>7. QED
      BY <3>1, <3>2, <3>4, <3>6
      DEF PlanInv, PlanTypeOK, LandsAtTarget, PlanNamesDiffer, Differ, Below
  <2>2. CASE UNCHANGED planVars
    BY <2>2 DEF planVars, PlanInv, PlanTypeOK, LandsAtTarget, PlanNamesDiffer, Below
  <2>3. QED
    BY <2>1, <2>2 DEF PlanNext
<1>3. PlanInv => PlanTypeOK /\ LandsAtTarget /\ PlanNamesDiffer
  BY DEF PlanInv
<1>4. QED
  BY <1>1, <1>2, <1>3, PTL DEF PlanSpec

\* The running total of a plan: there is one, and all of them end alike.
Sums(total, p) ==
  total = [n \in 0 .. Len(p) |-> IF n = 0 THEN 0 ELSE total[n - 1] + DataOf(p[n])]

SumsTo(p, data) ==
  /\ \E total : Sums(total, p)
  /\ \A total : Sums(total, p) => total[Len(p)] = data

LEMMA SumOfNothing == SumsTo(<<>>, 0)
<1>1. \A total : Sums(total, <<>>) <=> total = [n \in {0} |-> 0]
  BY DEF Sums
<1>2. QED
  BY <1>1 DEF SumsTo

LEMMA SumGrows ==
  ASSUME NEW p \in Seq(PlannedEntry), NEW e \in PlannedEntry, NEW data, SumsTo(p, data)
  PROVE  SumsTo(p \o <<e>>, data + DataOf(e))
<1> DEFINE q == p \o <<e>>
           N == Len(p)
<1>1. N \in Nat /\ Len(q) = N + 1 /\ q[N + 1] = e /\ \A n \in 1 .. N : q[n] = p[n]
  OBVIOUS
<1> HIDE DEF q, N
<1>2. \A total : Sums(total, p) <=>
        total = [n \in 0 .. N |-> IF n = 0 THEN 0 ELSE total[n - 1] + DataOf(p[n])]
  BY DEF Sums, N
<1>3. \A total : Sums(total, q) <=>
        total = [n \in 0 .. N + 1 |-> IF n = 0 THEN 0 ELSE total[n - 1] + DataOf(q[n])]
  BY <1>1 DEF Sums
<1>4. \E total : Sums(total, q)
  <2>1. PICK g : Sums(g, p)
    BY DEF SumsTo
  <2> DEFINE h == [n \in 0 .. N + 1 |-> IF n = N + 1 THEN g[N] + DataOf(e) ELSE g[n]]
  <2>2. \A n \in 0 .. N : g[n] = IF n = 0 THEN 0 ELSE g[n - 1] + DataOf(p[n])
    BY <1>2, <2>1
  <2>3. \A n \in 0 .. N + 1 : h[n] = IF n = 0 THEN 0 ELSE h[n - 1] + DataOf(q[n])
    <3> SUFFICES ASSUME NEW n \in 0 .. N + 1
                 PROVE  h[n] = IF n = 0 THEN 0 ELSE h[n - 1] + DataOf(q[n])
      OBVIOUS
    <3>1. CASE n = 0
      BY <1>1, <2>2, <3>1
    <3>2. CASE n \in 1 .. N
      <4>1. h[n] = g[n] /\ h[n - 1] = g[n - 1] /\ q[n] = p[n]
        BY <1>1, <3>2
      <4>2. QED
        BY <1>1, <2>2, <3>2, <4>1
    <3>3. CASE n = N + 1
      <4>1. h[n] = g[N] + DataOf(e) /\ h[n - 1] = g[N]
        BY <1>1, <3>3
      <4>2. QED
        BY <1>1, <3>3, <4>1
    <3>4. QED
      BY <1>1, <3>1, <3>2, <3>3
  <2>4. h = [n \in 0 .. N + 1 |-> h[n]]
    OBVIOUS
  <2> HIDE DEF h
  <2>5. h = [n \in 0 .. N + 1 |-> IF n = 0 THEN 0 ELSE h[n - 1] + DataOf(q[n])]
    BY <2>3, <2>4
  <2>6. QED
    BY <1>3, <2>5
<1>5. ASSUME NEW h, Sums(h, q) PROVE h[N + 1] = data + DataOf(e)
  <2> DEFINE g == [n \in 0 .. N |-> h[n]]
  <2>1. \A n \in 0 .. N + 1 : h[n] = IF n = 0 THEN 0 ELSE h[n - 1] + DataOf(q[n])
    BY <1>3, <1>5
  <2>2. \A n \in 0 .. N : g[n] = IF n = 0 THEN 0 ELSE g[n - 1] + DataOf(p[n])
    <3> SUFFICES ASSUME NEW n \in 0 .. N
                 PROVE  g[n] = IF n = 0 THEN 0 ELSE g[n - 1] + DataOf(p[n])
      OBVIOUS
    <3>1. CASE n = 0
      BY <1>1, <2>1, <3>1
    <3>2. CASE n \in 1 .. N
      <4>1. g[n] = h[n] /\ g[n - 1] = h[n - 1] /\ q[n] = p[n]
        BY <1>1, <3>2
      <4>2. QED
        BY <1>1, <2>1, <3>2, <4>1
    <3>3. QED
      BY <1>1, <3>1, <3>2
  <2>3. g = [n \in 0 .. N |-> g[n]]
    OBVIOUS
  <2>4. g[N] = h[N]
    BY <1>1
  <2> HIDE DEF g
  <2>5. g = [n \in 0 .. N |-> IF n = 0 THEN 0 ELSE g[n - 1] + DataOf(p[n])]
    BY <2>2, <2>3
  <2>6. g[N] = data
    BY <1>2, <2>5 DEF SumsTo, N
  <2>7. h[N + 1] = h[N] + DataOf(q[N + 1])
    BY <1>1, <2>1
  <2>8. QED
    BY <1>1, <2>4, <2>6, <2>7
<1>6. QED
  BY <1>1, <1>4, <1>5 DEF SumsTo, q

LEMMA CountsWhatItSums == SumsTo(plan, dataTotal) => CountsItsData
BY DEF SumsTo, Sums, CountsItsData

LEMMA NextTurnOf ==
  ASSUME NEW m \in Nat \ {0}, NEW every \in Nat \ {0}
  PROVE  m \div every = IF m % every = 0 THEN ((m - 1) \div every) + 1 ELSE (m - 1) \div every
OBVIOUS

(* One turn adds to the plan's sum what it adds to the counter, and a text *)
(* entry exactly when another TEXT_EVERY media entries are done.           *)
PlanCounts == SumsTo(plan, dataTotal) /\ TextsBetween

LEMMA TurnCounts ==
  ASSUME PlanTypeOK, LandsAtTarget, PlanCounts, PlanTurn
  PROVE  PlanCounts'
<1>1. plan \in Seq(PlannedEntry) /\ mediaIdx \in Nat /\ textIdx \in Nat /\ dataTotal \in Nat
  BY DEF PlanTypeOK
<1>2. TextEntry \in PlannedEntry /\ MediaEntry \in PlannedEntry
  BY NextEntries DEF PlanTurn
<1>3. /\ DataOf(TextEntry) = 0
      /\ DataOf(MediaEntry) = MediaEntry.uncompressedSize
  BY DEF DataOf, TextEntry, MediaEntry
<1>4. PICK text, media : text = TextEntry /\ media = MediaEntry
  OBVIOUS
<1> DEFINE texts == IF TextIsDue THEN plan \o <<text>> ELSE plan
<1>5. texts \in Seq(PlannedEntry) /\ SumsTo(texts, dataTotal)
  <2>1. CASE TextIsDue
    <3>1. SumsTo(plan \o <<text>>, dataTotal + DataOf(text))
      BY <1>1, <1>2, <1>4, SumGrows DEF PlanCounts
    <3>2. dataTotal + DataOf(text) = dataTotal
      BY <1>1, <1>3, <1>4
    <3>3. plan \o <<text>> \in Seq(PlannedEntry)
      BY <1>1, <1>2, <1>4
    <3>4. QED
      BY <2>1, <3>1, <3>2, <3>3
  <2>2. CASE ~TextIsDue
    BY <2>2, <1>1 DEF PlanCounts
  <2>3. QED
    BY <2>1, <2>2
<1>6. plan' = texts \o <<media>> /\ dataTotal' = dataTotal + DataOf(media)
  BY <1>3, <1>4 DEF PlanTurn
<1>7. PICK grown, data : grown = texts /\ data = dataTotal
  OBVIOUS
<1> HIDE DEF texts
<1>8. SumsTo(grown \o <<media>>, data + DataOf(media))
  BY <1>2, <1>4, <1>5, <1>7, SumGrows
<1>9. SumsTo(plan', dataTotal')
  BY <1>6, <1>7, <1>8
<1>10. TextsBetween'
  <2>1. mediaIdx' = mediaIdx + 1 /\ textIdx' = IF TextIsDue THEN textIdx + 1 ELSE textIdx
    BY DEF PlanTurn
  <2>2. TEXT_EVERY \in Nat \ {0}
    BY PlanAssumption
  <2>3. textIdx = IF mediaIdx = 0 THEN 0 ELSE (mediaIdx - 1) \div TEXT_EVERY
    BY DEF PlanCounts, TextsBetween
  <2>4. textIdx' = mediaIdx \div TEXT_EVERY
    <3>1. CASE mediaIdx = 0
      <4>1. 0 \div TEXT_EVERY = 0
        BY <2>2
      <4>2. QED
        BY <3>1, <4>1, <2>1, <2>3 DEF TextIsDue
    <3>2. CASE mediaIdx # 0
      <4>1. mediaIdx \div TEXT_EVERY =
              IF mediaIdx % TEXT_EVERY = 0 THEN ((mediaIdx - 1) \div TEXT_EVERY) + 1
              ELSE (mediaIdx - 1) \div TEXT_EVERY
        BY <1>1, <2>2, <3>2, NextTurnOf
      <4>2. TextIsDue <=> mediaIdx % TEXT_EVERY = 0
        BY <1>1, <3>2 DEF TextIsDue
      <4>3. QED
        BY <3>2, <4>1, <4>2, <2>1, <2>3
    <3>3. QED
      BY <3>1, <3>2
  <2>5. mediaIdx' # 0 /\ mediaIdx' - 1 = mediaIdx
    BY <1>1, <2>1
  <2>6. QED
    BY <2>4, <2>5 DEF TextsBetween
<1>11. QED
  BY <1>9, <1>10 DEF PlanCounts

(* The plan of a sample, whatever its target and its tables: the data it   *)
(* counted is the data of its media entries, just at or above the target,  *)
(* under names that differ, with a text entry after every TEXT_EVERY media *)
(* entries (plan.ts:60-103).                                               *)
THEOREM PlanAlwaysSound == PlanSpec => []PlanIsSound
<1>1. PlanInit => PlanCounts
  BY SumOfNothing DEF PlanInit, PlanCounts, TextsBetween
<1>2. /\ PlanTypeOK /\ LandsAtTarget /\ PlanNamesDiffer
      /\ PlanCounts
      /\ [PlanNext]_planVars
      => PlanCounts'
  <2> SUFFICES ASSUME PlanTypeOK, LandsAtTarget, PlanCounts, [PlanNext]_planVars
               PROVE  PlanCounts'
    OBVIOUS
  <2>1. CASE PlanTurn
    BY <2>1, TurnCounts
  <2>2. CASE UNCHANGED planVars
    <3>1. plan' = plan /\ dataTotal' = dataTotal /\ mediaIdx' = mediaIdx /\ textIdx' = textIdx
      BY <2>2 DEF planVars
    <3>2. SumsTo(plan', dataTotal')
      BY <3>1 DEF PlanCounts
    <3>3. QED
      BY <3>1, <3>2 DEF PlanCounts, TextsBetween
  <2>3. QED
    BY <2>1, <2>2 DEF PlanNext
<1>3. PlanTypeOK /\ LandsAtTarget /\ PlanNamesDiffer /\ PlanCounts => PlanIsSound
  BY CountsWhatItSums DEF PlanCounts, PlanIsSound
<1>4. QED
  BY <1>1, <1>2, <1>3, PlanAlwaysLands, PTL DEF PlanSpec

=============================================================================
