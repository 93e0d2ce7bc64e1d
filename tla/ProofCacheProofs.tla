-------------------------- MODULE ProofCacheProofs --------------------------
(***************************************************************************)
(* Proofs about ProofCache, for any number of requests, claims and         *)
(* generations and any limits.  The first half is about the calls in       *)
(* flight, where all an eviction may do is drop entries; the second half   *)
(* about the LRU list and the byte counter, which is a sum over the keys.  *)
(***************************************************************************)
EXTENDS ProofCache, FiniteSetTheorems, SequenceTheorems, TLAPS

\* The cache starts empty and every request idle.
LEMMA FlightInit == ASSUME Init PROVE FlightInvariant
<1>1. NoValue \in Values /\ 1 \in Generations
  BY GenerationsExist DEF NoValue, Values, Generations
<1>2. QED BY <1>1 DEF Init, FlightInvariant, BorrowedWhileServed, Cached, Leading

\* What insert leaves in the table: the new value, old entries, or nothing.
LEMMA InsertedEntries ==
  ASSUME FlightInvariant, NEW r \in Requests, Insert(r)
  PROVE  /\ entries' \in [Keys -> Values]
         /\ \A k \in Keys : entries'[k] \in {entries[k], NoValue}
                            \/ (k = key[r] /\ entries'[k] = value[r])
<1>1. NoValue \in Values
  BY GenerationsExist DEF NoValue, Values
<1> DEFINE added == [entries EXCEPT ![key[r]] = value[r]]
           order == IF Cached(key[r]) THEN MoveToFront(key[r]) ELSE <<key[r]>> \o lru
           kept == ToSet(SubSeq(order, 1, Kept(added, order, BytesWith(key[r], value[r]))))
<1>2. entries' = [x \in Keys |-> IF x \in kept THEN added[x] ELSE NoValue]
  BY DEF Insert
<1> HIDE DEF kept
<1>3. QED BY <1>1, <1>2 DEF FlightInvariant

\* Every step preserves the invariant of the calls in flight.
LEMMA FlightStep == ASSUME FlightInvariant, [Next]_vars PROVE FlightInvariant'
<1> USE NoRequestIsNoRequest DEF Leading, Cached, BorrowedWhileServed
<1>0. NoValue \in Values /\ ~NoValue.complete
  BY GenerationsExist DEF NoValue, Values
<1>1. CASE Publish
  <2>1. current' \in Generations
    BY <1>1, GenerationsExist DEF Publish, FlightInvariant, Generations
  <2>2. QED BY <1>1, <2>1 DEF Publish, FlightInvariant, cacheVars
<1>2. ASSUME NEW r \in Requests, Cancel(r) PROVE FlightInvariant'
  BY <1>2 DEF Cancel, FlightInvariant, cacheVars
<1>3. ASSUME NEW r \in Requests, NEW c \in Claims, Start(r, c) PROVE FlightInvariant'
  <2>1. KeyOf(current, c) \in Keys /\ KeyOf(current, c).gen = current
    BY DEF KeyOf, Keys, FlightInvariant
  <2>2. \A k \in Keys : calls[k] # r
    BY <1>3 DEF Start, FlightInvariant
  <2>3. QED BY <1>0, <1>3, <2>1, <2>2 DEF Start, FlightInvariant, cacheVars
<1>4. ASSUME NEW r \in Requests, Hit(r) PROVE FlightInvariant'
  BY <1>0, <1>4 DEF Hit, Return, FlightInvariant
<1>5. ASSUME NEW r \in Requests, Join(r) PROVE FlightInvariant'
  BY <1>5 DEF Join, FlightInvariant, cacheVars
<1>6. ASSUME NEW r \in Requests, LookupCancelled(r) PROVE FlightInvariant'
  BY <1>0, <1>6 DEF LookupCancelled, Return, FlightInvariant, cacheVars
<1>7. ASSUME NEW r \in Requests, Lead(r) PROVE FlightInvariant'
  BY <1>7 DEF Lead, FlightInvariant, cacheVars
<1>8. ASSUME NEW r \in Requests, Compute(r) PROVE FlightInvariant'
  <2>1. PICK err \in {"ok", "failed"}, complete \in BOOLEAN, n \in Sizes :
          /\ ~complete /\ err = "ok" => cancelled[r]
          /\ LET end == IF err = "ok" /\ cancelled[r] THEN "cancelled" ELSE err IN
               /\ status' = [status EXCEPT ![r] = end]
               /\ value' = [value EXCEPT ![r] =
                    IF end = "ok" THEN [gen |-> gen[r], complete |-> complete, bytes |-> n] ELSE NoValue]
               /\ pc' = [pc EXCEPT ![r] = IF end = "ok" THEN "storing" ELSE "finishing"]
    BY <1>8 DEF Compute
  <2>2. [gen |-> gen[r], complete |-> complete, bytes |-> n] \in Values
    BY DEF Values, FlightInvariant, Generations
  <2>3. CASE err = "ok" /\ ~cancelled[r]
    BY <1>8, <2>1, <2>2, <2>3 DEF Compute, FlightInvariant, cacheVars
  <2>4. CASE ~(err = "ok" /\ ~cancelled[r])
    BY <1>0, <1>8, <2>1, <2>4 DEF Compute, FlightInvariant, cacheVars
  <2>5. QED BY <2>3, <2>4
<1>9. ASSUME NEW r \in Requests, Insert(r) PROVE FlightInvariant'
  <2>1. /\ entries' \in [Keys -> Values]
        /\ \A k \in Keys : entries'[k] \in {entries[k], NoValue}
                           \/ (k = key[r] /\ entries'[k] = value[r])
    BY <1>9, InsertedEntries
  <2>2. /\ pc[r] = "storing"
        /\ pc' = [pc EXCEPT ![r] = "finishing"]
        /\ UNCHANGED <<current, calls, gen, borrowed, key, cancelled, waitsFor, status, value>>
    BY <1>9 DEF Insert
  <2>3. value[r].complete /\ value[r].gen = key[r].gen
    BY <2>2 DEF FlightInvariant
  <2>4. \A k \in Keys : entries'[k] # NoValue => entries'[k].complete /\ entries'[k].gen = k.gen
    BY <2>1, <2>3 DEF FlightInvariant
  <2>5. \A s \in Requests : pc'[s] \in {"computing", "storing"} => entries'[key[s]] = NoValue
    BY <2>1, <2>2 DEF FlightInvariant
  <2>6. QED BY <2>1, <2>2, <2>4, <2>5 DEF FlightInvariant
<1>10. ASSUME NEW r \in Requests, FinishCall(r) PROVE FlightInvariant'
  BY <1>10 DEF FinishCall, FlightInvariant, cacheVars
<1>11. ASSUME NEW r \in Requests, CloseDone(r) PROVE FlightInvariant'
  <2>1. \A w \in Requests : pc[w] = "waiting" /\ waitsFor[w] = r => gen[w] = gen[r]
    BY DEF FlightInvariant
  <2>2. QED BY <1>11, <2>1 DEF CloseDone, FlightInvariant, cacheVars
<1>12. ASSUME NEW r \in Requests, WaitCancelled(r) PROVE FlightInvariant'
  BY <1>0, <1>12 DEF WaitCancelled, Return, FlightInvariant, cacheVars
<1>13. ASSUME NEW r \in Requests, TakeResult(r) PROVE FlightInvariant'
  BY <1>0, <1>13 DEF TakeResult, Return, FlightInvariant, cacheVars
<1>14. ASSUME NEW r \in Requests, Retry(r) PROVE FlightInvariant'
  BY <1>14 DEF Retry, FlightInvariant, cacheVars
<1>15. CASE UNCHANGED vars
  BY <1>15 DEF vars, FlightInvariant, cacheVars
<1>16. QED
  BY <1>1, <1>2, <1>3, <1>4, <1>5, <1>6, <1>7, <1>8, <1>9, <1>10, <1>11, <1>12,
     <1>13, <1>14, <1>15
  DEF Next, Proceed

\* The invariant of the calls in flight holds in every reachable state.
THEOREM FlightInvariantHolds == Spec => []FlightInvariant
<1>1. QED BY FlightInit, FlightStep, PTL DEF Spec

\* At most one request computes a key, and only while it is not cached.
THEOREM ComputesOnce == Spec => []SingleFlight
<1>1. ASSUME FlightInvariant PROVE SingleFlight
  BY <1>1 DEF FlightInvariant, SingleFlight, Leading
<1>2. QED BY <1>1, FlightInvariantHolds, PTL

\* Every answer is a finished result of the generation the request holds.
THEOREM AnswersSound == Spec => []AnswersAreSound
<1>1. ASSUME FlightInvariant PROVE AnswersAreSound
  BY <1>1 DEF FlightInvariant, AnswersAreSound
<1>2. QED BY <1>1, FlightInvariantHolds, PTL

\* Errors and verdicts of cancelled computations are never cached.
THEOREM CacheIsClean == Spec => []OnlyFinishedResultsCached
<1>1. ASSUME FlightInvariant PROVE OnlyFinishedResultsCached
  BY <1>1 DEF FlightInvariant, OnlyFinishedResultsCached
<1>2. QED BY <1>1, FlightInvariantHolds, PTL

\* A generation is held from the lookup to the return, on every path.
THEOREM BorrowingIsExact == Spec => []BorrowedWhileServed
<1>1. FlightInvariant => BorrowedWhileServed
  BY DEF FlightInvariant
<1>2. QED BY <1>1, FlightInvariantHolds, PTL

\* A request returns in a step of its own, and there is only one kind of
\* step for each way to fail.
LEMMA ReturnStep ==
  ASSUME FlightInvariant, Next, NEW r \in Requests, pc[r] # "idle", pc'[r] = "idle"
  PROVE  /\ status'[r] = "failed" => pc[r] = "closing"
         /\ status'[r] = "cancelled" => cancelled[r]
<1> DEFINE Owned == /\ status'[r] = "failed" => pc[r] = "closing"
                    /\ status'[r] = "cancelled" => cancelled[r]
<1>1. CASE Publish
  BY <1>1 DEF Publish
<1>2. ASSUME NEW s \in Requests, Cancel(s) \/ \E c \in Claims : Start(s, c) PROVE Owned
  BY <1>2 DEF Cancel, Start, FlightInvariant
<1>3. ASSUME NEW s \in Requests, Join(s) \/ Lead(s) \/ Retry(s) \/ FinishCall(s) PROVE Owned
  BY <1>3 DEF Join, Lead, Retry, FinishCall, FlightInvariant
<1>4. ASSUME NEW s \in Requests, Compute(s) \/ Insert(s) PROVE Owned
  <2>1. \E x \in {"storing", "finishing"} : pc' = [pc EXCEPT ![s] = x]
    BY <1>4 DEF Compute, Insert
  <2>2. QED BY <2>1 DEF FlightInvariant
<1>5. ASSUME NEW s \in Requests, Hit(s) \/ TakeResult(s) PROVE Owned
  BY <1>5 DEF Hit, TakeResult, Return, FlightInvariant
<1>6. ASSUME NEW s \in Requests, LookupCancelled(s) \/ WaitCancelled(s) PROVE Owned
  BY <1>6 DEF LookupCancelled, WaitCancelled, Return, FlightInvariant
<1>7. ASSUME NEW s \in Requests, CloseDone(s) PROVE Owned
  <2>1. r = s /\ pc[r] = "closing"
    BY <1>7 DEF CloseDone, FlightInvariant
  <2>2. status'[r] = status[r] /\ value'[r] = value[r]
    BY <1>7, <2>1 DEF CloseDone, FlightInvariant
  <2>3. QED BY <2>1, <2>2 DEF FlightInvariant
<1>8. QED BY <1>1, <1>2, <1>3, <1>4, <1>5, <1>6, <1>7 DEF Next, Proceed

\* No request fails with the error of a leader it waited for.
THEOREM FailuresAreOwn == Spec => OwnErrorsOnly
<1>1. ASSUME FlightInvariant, [Next]_vars
      PROVE  [\A r \in Requests : pc[r] # "idle" /\ pc'[r] = "idle" =>
                /\ status'[r] = "failed" => pc[r] = "closing"
                /\ status'[r] = "cancelled" => cancelled[r]]_vars
  BY <1>1, ReturnStep
<1>2. QED BY <1>1, FlightInvariantHolds, PTL DEF Spec, OwnErrorsOnly

-----------------------------------------------------------------------------
(* Sums over finite sets of keys, the LRU list, and the cache itself *)

\* Induction on the natural numbers, for a set of them.
LEMMA Induction ==
  ASSUME NEW S \in SUBSET Nat, 0 \in S, \A n \in S : n + 1 \in S
  PROVE  Nat \subseteq S
<1> DEFINE T == Nat \ S
<1>1. SUFFICES ASSUME T # {} PROVE FALSE
  OBVIOUS
<1>2. PICK m \in T : \A n \in T : ~(<<n, m>> \in OpToRel(<, Nat))
  <2> HIDE DEF T
  <2>1. T \subseteq Nat BY DEF T
  <2>2. QED BY <1>1, <2>1, NatLessThanWellFounded, WFMin
<1>3. \A n \in T : ~(n < m)
  BY <1>2 DEF OpToRel
<1>4. m # 0 /\ m - 1 \in Nat /\ m - 1 \notin T
  BY <1>3
<1>5. m \in S
  <2>1. m - 1 \in S BY <1>4
  <2>2. (m - 1) + 1 \in S BY <2>1
  <2>3. QED BY <2>2
<1>6. QED BY <1>5

\* The element the sum takes out of a set first.
Pick(s) == CHOOSE x \in s : TRUE

\* Induction on a finite set: what holds of a subset whenever it holds of the
\* subset without any one of its elements holds of every subset.
LEMMA SubsetInduction ==
  ASSUME NEW S, IsFiniteSet(S), NEW Q \in SUBSET SUBSET S,
         \A T \in SUBSET S : (\A x \in T : T \ {x} \in Q) => T \in Q
  PROVE  Q = SUBSET S
<1> DEFINE N == {n \in Nat : \A T \in SUBSET S : Cardinality(T) = n => T \in Q}
<1>1. \A T \in SUBSET S : IsFiniteSet(T) /\ Cardinality(T) \in Nat
  BY FS_Subset, FS_CardinalityType
<1>2. 0 \in N
  BY <1>1, FS_EmptySet
<1>3. ASSUME NEW n \in N PROVE n + 1 \in N
  <2>1. SUFFICES ASSUME NEW T \in SUBSET S, Cardinality(T) = n + 1, NEW x \in T PROVE T \ {x} \in Q
    OBVIOUS
  <2>2. IsFiniteSet(T) /\ Cardinality(T) - 1 = n
    BY <1>1, <2>1
  <2>3. Cardinality(T \ {x}) = n
    BY <2>2, FS_RemoveElement
  <2>4. QED BY <2>3
<1>4. Nat \subseteq N
  <2> HIDE DEF N
  <2>1. N \in SUBSET Nat BY DEF N
  <2>2. QED BY <1>2, <1>3, <2>1, Induction
<1>5. QED BY <1>1, <1>4

\* it is the sum of the weights w over each subset of S.
Sums(it, w, S) ==
  \A s \in SUBSET S : it[s] = IF s = {} THEN 0 ELSE w[Pick(s)] + it[s \ {Pick(s)}]

\* There is such a sum: it is built for the subsets of ever more elements.
LEMMA SumsExist ==
  ASSUME NEW S, IsFiniteSet(S), NEW w \in [S -> Nat]
  PROVE  \E it \in [SUBSET S -> Nat] : Sums(it, w, S)
<1> DEFINE D(n) == {s \in SUBSET S : Cardinality(s) <= n}
           Step(f, s) == IF s = {} THEN 0 ELSE w[Pick(s)] + f[s \ {Pick(s)}]
           Good(n) == \E f \in [D(n) -> Nat] : \A s \in D(n) : f[s] = Step(f, s)
           N == {n \in Nat : Good(n)}
<1>1. \A s \in SUBSET S : IsFiniteSet(s) /\ Cardinality(s) \in Nat /\ Cardinality(s) <= Cardinality(S)
  BY FS_Subset, FS_CardinalityType
<1>2. ASSUME NEW s \in SUBSET S, s # {}
      PROVE  Pick(s) \in S /\ s \ {Pick(s)} \in SUBSET S /\ Cardinality(s \ {Pick(s)}) = Cardinality(s) - 1
  <2>1. Pick(s) \in s
    BY <1>2 DEF Pick
  <2>2. QED BY <1>1, <2>1, FS_RemoveElement
<1>3. 0 \in N
  <2>1. \A s \in D(0) : s = {}
    BY <1>1, FS_EmptySet
  <2>2. [s \in D(0) |-> 0] \in [D(0) -> Nat]
    OBVIOUS
  <2>3. QED BY <2>1, <2>2
<1>4. ASSUME NEW n \in N PROVE n + 1 \in N
  <2>1. PICK f \in [D(n) -> Nat] : \A s \in D(n) : f[s] = Step(f, s)
    OBVIOUS
  <2> DEFINE g == [s \in D(n + 1) |-> Step(f, s)]
  <2>2. \A s \in D(n + 1) : s # {} => s \ {Pick(s)} \in D(n)
    BY <1>1, <1>2
  <2>3. g \in [D(n + 1) -> Nat]
    BY <2>2, <1>2
  <2>4. \A s \in D(n) : s \in D(n + 1) /\ g[s] = f[s]
    BY <2>1, <1>1
  <2>5. \A s \in D(n + 1) : g[s] = Step(g, s)
    BY <2>2, <2>4
  <2>6. Good(n + 1)
    <3> HIDE DEF g
    <3>1. QED BY <2>3, <2>5
  <2>7. QED
    <3> HIDE DEF Good
    <3>1. QED BY <2>6
<1>5. Cardinality(S) \in N
  <2> HIDE DEF N
  <2>1. N \in SUBSET Nat BY DEF N
  <2>2. QED BY <1>1, <1>3, <1>4, <2>1, Induction
<1>6. D(Cardinality(S)) = SUBSET S
  BY <1>1
<1>7. PICK f \in [SUBSET S -> Nat] : \A s \in SUBSET S : f[s] = Step(f, s)
  BY <1>5, <1>6
<1>8. QED BY <1>7 DEF Sums

\* A sum may be taken apart at any element.
AnyOrder(it, w, S) == \A T \in SUBSET S : \A x \in T : it[T] = w[x] + it[T \ {x}]

\* The order in which elements are taken away does not matter.
LEMMA SumsAnyOrder ==
  ASSUME NEW S, IsFiniteSet(S), NEW w \in [S -> Nat], NEW it \in [SUBSET S -> Nat], Sums(it, w, S)
  PROVE  AnyOrder(it, w, S)
<1> DEFINE Splits(T) == \A y \in T : it[T] = w[y] + it[T \ {y}]
           Q == {T \in SUBSET S : Splits(T)}
<1>1. ASSUME NEW T \in SUBSET S, \A x \in T : T \ {x} \in Q, NEW y \in T
      PROVE  it[T] = w[y] + it[T \ {y}]
  <2>1. PICK c \in T : it[T] = w[c] + it[T \ {c}]
    BY DEF Pick, Sums
  <2>2. CASE c # y
    <3> DEFINE R == (T \ {c}) \ {y}
    <3>1. it[T \ {c}] = w[y] + it[R]
      BY <1>1, <2>2
    <3>2. it[T \ {y}] = w[c] + it[(T \ {y}) \ {c}]
      BY <1>1, <2>2
    <3>3. (T \ {y}) \ {c} = R /\ R \in SUBSET S
      OBVIOUS
    <3> HIDE DEF R
    <3>4. it[R] \in Nat /\ w[c] \in Nat /\ w[y] \in Nat
      BY <3>3
    <3>5. it[T] = w[c] + (w[y] + it[R])
      BY <2>1, <3>1
    <3>6. it[T \ {y}] = w[c] + it[R]
      BY <3>2, <3>3
    <3>7. QED BY <3>4, <3>5, <3>6
  <2>3. QED BY <2>1, <2>2
<1>2. QED
  <2>1. Q = SUBSET S
    <3>1. \A T \in SUBSET S : (\A x \in T : T \ {x} \in Q) => T \in Q
      BY <1>1
    <3>2. Q \in SUBSET SUBSET S
      OBVIOUS
    <3> HIDE DEF Q
    <3>3. QED BY <3>1, <3>2, SubsetInduction
  <2>2. QED BY <2>1 DEF AnyOrder

\* it sums the bytes of e over the subsets of S, in any order.
IsSum(it, e, S) ==
  /\ it \in [SUBSET S -> Nat] /\ it[{}] = 0
  /\ \A T \in SUBSET S : \A x \in T : it[T] = e[x].bytes + it[T \ {x}]

\* BytesOf is such a sum.
LEMMA BytesOfIsSum ==
  ASSUME NEW e, NEW S, IsFiniteSet(S), \A k \in S : e[k].bytes \in Nat
  PROVE  \E it : IsSum(it, e, S) /\ BytesOf(e, S) = it[S]
<1> DEFINE w == [k \in S |-> e[k].bytes]
           Def(it) == it = [s \in SUBSET S |-> IF s = {} THEN 0
                              ELSE LET x == CHOOSE x \in s : TRUE IN e[x].bytes + it[s \ {x}]]
           sum == CHOOSE it : Def(it)
<1>1. w \in [S -> Nat]
  OBVIOUS
<1>2. PICK it \in [SUBSET S -> Nat] : Sums(it, w, S)
  <2> HIDE DEF w
  <2>1. QED BY <1>1, SumsExist
<1>3. \A s \in SUBSET S : s # {} => Pick(s) \in S
  BY DEF Pick
<1>4. Def(it)
  BY <1>2, <1>3 DEF Sums, Pick
<1>5. Def(sum)
  <2> HIDE DEF Def
  <2>1. QED BY <1>4
<1>6. BytesOf(e, S) = sum[S]
  BY DEF BytesOf, MapThenSumSet, MapThenFoldSet
<1>7. ASSUME NEW s \in SUBSET S PROVE sum[s] = it[s]
  <2> DEFINE Q == {t \in SUBSET S : sum[t] = it[t]}
  <2>1. ASSUME NEW t \in SUBSET S, \A x \in t : t \ {x} \in Q PROVE t \in Q
    <3>1. CASE t = {}
      BY <1>4, <1>5, <3>1
    <3>2. CASE t # {}
      <4>1. Pick(t) \in t BY <3>2 DEF Pick
      <4> DEFINE r == t \ {Pick(t)}
      <4>2. sum[t] = e[Pick(t)].bytes + sum[r]
        BY <1>5, <3>2 DEF Pick
      <4>3. it[t] = e[Pick(t)].bytes + it[r]
        BY <1>4, <3>2 DEF Pick
      <4>4. sum[r] = it[r]
        BY <2>1, <4>1
      <4>5. QED BY <4>2, <4>3, <4>4
    <3>3. QED BY <3>1, <3>2
  <2>2. Q \in SUBSET SUBSET S
    OBVIOUS
  <2>3. Q = SUBSET S
    <3> HIDE DEF Q
    <3>1. QED BY <2>1, <2>2, SubsetInduction
  <2>4. QED BY <2>3
<1>8. it[{}] = 0
  BY <1>2 DEF Sums
<1>9. \A T \in SUBSET S : \A x \in T : it[T] = w[x] + it[T \ {x}]
  <2>1. AnyOrder(it, w, S)
    <3> HIDE DEF w
    <3>1. QED BY <1>1, <1>2, SumsAnyOrder
  <2>2. QED BY <2>1 DEF AnyOrder
<1>10. IsSum(it, e, S)
  BY <1>2, <1>8, <1>9 DEF IsSum
<1>11. QED
  BY <1>6, <1>7, <1>10

\* Two sums agree on the sets where their weights do.
LEMMA SumsAgree ==
  ASSUME NEW d, NEW e, NEW S, IsFiniteSet(S), NEW T, IsFiniteSet(T), NEW f, NEW g, IsSum(f, d, S), IsSum(g, e, T),
         NEW U, U \subseteq S, U \subseteq T, \A k \in U : d[k].bytes = e[k].bytes
  PROVE  f[U] = g[U]
<1> DEFINE Q == {R \in SUBSET U : f[R] = g[R]}
<1>1. ASSUME NEW R \in SUBSET U, \A x \in R : R \ {x} \in Q PROVE R \in Q
  <2>1. CASE R = {}
    BY <2>1 DEF IsSum
  <2>2. CASE R # {}
    <3>1. PICK x \in R : TRUE
      BY <2>2
    <3>2. f[R] = d[x].bytes + f[R \ {x}]
      BY DEF IsSum
    <3>3. g[R] = e[x].bytes + g[R \ {x}]
      BY DEF IsSum
    <3>4. f[R \ {x}] = g[R \ {x}] /\ d[x].bytes = e[x].bytes
      BY <1>1, <3>1
    <3>5. QED BY <3>2, <3>3, <3>4
  <2>3. QED BY <2>1, <2>2
<1>2. IsFiniteSet(U) /\ Q \in SUBSET SUBSET U
  BY FS_Subset
<1>3. QED
  <2> HIDE DEF Q
  <2>1. Q = SUBSET U BY <1>1, <1>2, SubsetInduction
  <2>2. QED BY <2>1 DEF Q

\* The sum over a union of disjoint sets.
AddsUp(f, A, B) == f[A \cup B] = f[A] + f[B]

\* A sum over a union of disjoint sets adds up.
LEMMA SumsOfUnions ==
  ASSUME NEW e, NEW S, IsFiniteSet(S), NEW f, IsSum(f, e, S), \A k \in S : e[k].bytes \in Nat,
         NEW A \in SUBSET S, NEW B \in SUBSET S, A \cap B = {}
  PROVE  AddsUp(f, A, B)
<1> DEFINE Q == {R \in SUBSET B : f[A \cup R] = f[A] + f[R]}
<1>1. ASSUME NEW R \in SUBSET B, \A x \in R : R \ {x} \in Q PROVE R \in Q
  <2>0. f[A] \in Nat
    BY DEF IsSum
  <2>1. CASE R = {}
    BY <2>0, <2>1 DEF IsSum
  <2>2. CASE R # {}
    <3>1. PICK x \in R : TRUE
      BY <2>2
    <3>2. f[R] = e[x].bytes + f[R \ {x}]
      BY DEF IsSum
    <3>3. A \cup R \in SUBSET S /\ x \in A \cup R
      OBVIOUS
    <3>4. f[A \cup R] = e[x].bytes + f[(A \cup R) \ {x}]
      BY <3>3 DEF IsSum
    <3>5. (A \cup R) \ {x} = A \cup (R \ {x})
      OBVIOUS
    <3>6. f[A \cup (R \ {x})] = f[A] + f[R \ {x}]
      BY <1>1, <3>1
    <3>7. f[R \ {x}] \in Nat /\ e[x].bytes \in Nat
      BY DEF IsSum
    <3>8. f[A \cup R] = e[x].bytes + (f[A] + f[R \ {x}])
      BY <3>4, <3>5, <3>6
    <3>9. f[A \cup R] = f[A] + f[R]
      BY <2>0, <3>2, <3>7, <3>8
    <3>10. QED BY <3>9
  <2>3. QED BY <2>1, <2>2
<1>2. IsFiniteSet(B) /\ Q \in SUBSET SUBSET B
  BY FS_Subset
<1>3. QED
  <2> HIDE DEF Q
  <2>1. Q = SUBSET B BY <1>1, <1>2, SubsetInduction
  <2>2. QED BY <2>1 DEF Q, AddsUp

\* Only the bytes of the keys counted matter.
LEMMA BytesOfSame ==
  ASSUME NEW d, NEW e, NEW S, IsFiniteSet(S), \A k \in S : d[k].bytes \in Nat /\ e[k].bytes = d[k].bytes
  PROVE  BytesOf(d, S) = BytesOf(e, S)
<1>1. PICK f : IsSum(f, d, S) /\ BytesOf(d, S) = f[S]
  BY BytesOfIsSum
<1>2. PICK g : IsSum(g, e, S) /\ BytesOf(e, S) = g[S]
  BY BytesOfIsSum
<1>3. QED BY <1>1, <1>2, SumsAgree

\* The bytes of disjoint sets of keys add up, and are natural.
LEMMA BytesOfUnion ==
  ASSUME NEW e, NEW A, IsFiniteSet(A), NEW B, IsFiniteSet(B), A \cap B = {},
         \A k \in A \cup B : e[k].bytes \in Nat
  PROVE  /\ BytesOf(e, A) \in Nat /\ BytesOf(e, B) \in Nat
         /\ BytesOf(e, A \cup B) = BytesOf(e, A) + BytesOf(e, B)
<1> DEFINE C == A \cup B
<1>0. IsFiniteSet(C) /\ A \subseteq C /\ B \subseteq C /\ \A k \in C : e[k].bytes \in Nat
  BY FS_Union
<1> HIDE DEF C
<1>1. PICK f : IsSum(f, e, A) /\ BytesOf(e, A) = f[A]
  BY <1>0, BytesOfIsSum
<1>2. PICK g : IsSum(g, e, B) /\ BytesOf(e, B) = g[B]
  BY <1>0, BytesOfIsSum
<1>3. PICK h : IsSum(h, e, C) /\ BytesOf(e, C) = h[C]
  BY <1>0, BytesOfIsSum
<1>4. h[A] = f[A] /\ h[B] = g[B]
  BY <1>0, <1>1, <1>2, <1>3, SumsAgree
<1>5. h[A \cup B] = h[A] + h[B]
  <2>1. A \in SUBSET C /\ B \in SUBSET C /\ A \cap B = {} /\ IsSum(h, e, C)
    BY <1>0, <1>3
  <2>2. AddsUp(h, A, B) BY <1>0, <2>1, SumsOfUnions
  <2>3. QED BY <2>2 DEF AddsUp
<1>6. f[A] \in Nat /\ g[B] \in Nat
  BY <1>1, <1>2 DEF IsSum
<1>7. QED BY <1>1, <1>2, <1>3, <1>4, <1>5, <1>6 DEF C

\* The bytes of one key.
LEMMA BytesOfSingleton ==
  ASSUME NEW e, NEW x, e[x].bytes \in Nat
  PROVE  BytesOf(e, {x}) = e[x].bytes
<1>1. IsFiniteSet({x})
  BY FS_Singleton
<1>2. PICK f : IsSum(f, e, {x}) /\ BytesOf(e, {x}) = f[{x}]
  BY <1>1, BytesOfIsSum
<1>3. f[{x}] = e[x].bytes + f[{x} \ {x}] /\ {x} \ {x} = {}
  BY <1>2 DEF IsSum
<1>4. QED BY <1>2, <1>3 DEF IsSum

\* No keys, no bytes.
LEMMA BytesOfNone == \A e : BytesOf(e, {}) = 0
<1>1. TAKE e
<1>2. PICK f : IsSum(f, e, {}) /\ BytesOf(e, {}) = f[{}]
  BY BytesOfIsSum, FS_EmptySet
<1>3. QED BY <1>2 DEF IsSum

\* What RemoveAt leaves of a sequence.
LEMMA Removed ==
  ASSUME NEW S, NEW s \in Seq(S), NEW i \in 1..Len(s)
  PROVE  /\ RemoveAt(s, i) \in Seq(S)
         /\ Len(RemoveAt(s, i)) = Len(s) - 1
         /\ \A j \in 1..Len(s) - 1 : RemoveAt(s, i)[j] = s[IF j < i THEN j ELSE j + 1]
<1> DEFINE f == SubSeq(s, 1, i - 1)
           b == SubSeq(s, i + 1, Len(s))
<1>1. /\ f \in Seq(S) /\ Len(f) = i - 1
      /\ \A j \in 1..i - 1 : f[j] = s[j]
  <2>1. \A j \in 1..i - 1 : s[j] \in S
    OBVIOUS
  <2>2. 1 \in Int /\ i - 1 \in Int
    OBVIOUS
  <2>3. QED BY <2>1, <2>2, SubSeqProperties
<1>2. /\ b \in Seq(S) /\ Len(b) = Len(s) - i
      /\ \A j \in 1..Len(s) - i : b[j] = s[i + j]
  <2>1. \A j \in i + 1..Len(s) : s[j] \in S
    OBVIOUS
  <2>2. i + 1 \in Int /\ Len(s) \in Int
    OBVIOUS
  <2>3. b \in Seq(S)
    BY <2>1, <2>2, SubSeqProperties
  <2>4. Len(b) = IF i + 1 <= Len(s) THEN Len(s) - (i + 1) + 1 ELSE 0
    BY <2>1, <2>2, SubSeqProperties
  <2>5. \A j \in 1..Len(s) - (i + 1) + 1 : b[j] = s[(i + 1) + j - 1]
    BY <2>1, <2>2, SubSeqProperties
  <2> HIDE DEF b
  <2>6. Len(b) = Len(s) - i
    BY <2>4
  <2>7. ASSUME NEW j \in 1..Len(s) - i PROVE b[j] = s[i + j]
    <3>1. j \in 1..Len(s) - (i + 1) + 1 /\ (i + 1) + j - 1 = i + j
      OBVIOUS
    <3>2. QED BY <2>5, <3>1
  <2>8. QED BY <2>3, <2>6, <2>7
<1>3. RemoveAt(s, i) = f \o b
  BY DEF RemoveAt
<1> HIDE DEF f, b
<1>4. /\ f \o b \in Seq(S) /\ Len(f \o b) = Len(f) + Len(b)
      /\ \A j \in 1..Len(f) + Len(b) : (f \o b)[j] = IF j <= Len(f) THEN f[j] ELSE b[j - Len(f)]
  BY <1>1, <1>2, ConcatProperties
<1>5. Len(f \o b) = Len(s) - 1
  BY <1>1, <1>2, <1>4
<1>6. ASSUME NEW j \in 1..Len(s) - 1
      PROVE  (f \o b)[j] = s[IF j < i THEN j ELSE j + 1]
  <2>1. j \in 1..Len(f) + Len(b)
    BY <1>1, <1>2
  <2>2. CASE j < i
    BY <1>1, <1>4, <2>1, <2>2
  <2>3. CASE ~(j < i)
    <3>1. (f \o b)[j] = b[j - (i - 1)]
      BY <1>1, <1>4, <2>1, <2>3
    <3>2. j - (i - 1) \in 1..Len(s) - i /\ i + (j - (i - 1)) = j + 1
      BY <2>3
    <3>3. QED BY <1>2, <2>3, <3>1, <3>2
  <2>4. QED BY <2>2, <2>3
<1>7. QED BY <1>3, <1>4, <1>5, <1>6

\* A list of keys, each listed once.
Listed(s) == s \in Seq(Keys) /\ IsInjective(s)

\* A new key in front of a list.
LEMMA Pushed ==
  ASSUME NEW s, Listed(s), NEW k \in Keys, k \notin ToSet(s)
  PROVE  /\ Listed(<<k>> \o s)
         /\ ToSet(<<k>> \o s) = ToSet(s) \cup {k}
         /\ Len(<<k>> \o s) = Len(s) + 1
<1> DEFINE t == <<k>> \o s
<1>1. <<k>> \in Seq(Keys) /\ Len(<<k>>) = 1 /\ <<k>>[1] = k
  OBVIOUS
<1>2. s \in Seq(Keys) /\ DOMAIN s = 1..Len(s) /\ Len(s) \in Nat
  BY LenProperties DEF Listed
<1>3. /\ t \in Seq(Keys) /\ Len(t) = Len(s) + 1
      /\ \A j \in 1..Len(<<k>>) + Len(s) : t[j] = IF j <= Len(<<k>>) THEN <<k>>[j] ELSE s[j - Len(<<k>>)]
  BY <1>1, <1>2, ConcatProperties
<1> HIDE DEF t
<1>4. t[1] = k
  BY <1>1, <1>2, <1>3
<1>5. \A j \in 1..Len(s) : t[j + 1] = s[j]
  BY <1>1, <1>2, <1>3
<1>6. DOMAIN t = 1..Len(s) + 1
  BY <1>3, LenProperties
<1>7. \A j \in 1..Len(s) + 1 : j = 1 \/ (j - 1 \in 1..Len(s) /\ t[j] = s[j - 1])
  <2>1. TAKE j \in 1..Len(s) + 1
  <2>2. CASE j # 1
    <3>1. j - 1 \in 1..Len(s) /\ (j - 1) + 1 = j
      BY <1>2, <2>2
    <3>2. QED BY <1>5, <3>1
  <2>3. QED BY <2>2
<1>8. IsInjective(t)
  <2>1. SUFFICES ASSUME NEW a \in 1..Len(s) + 1, NEW b \in 1..Len(s) + 1, t[a] = t[b] PROVE a = b
    BY <1>6 DEF IsInjective
  <2>2. \A j \in 1..Len(s) : s[j] # k
    BY <1>2 DEF ToSet
  <2>3. \A x, y \in 1..Len(s) : s[x] = s[y] => x = y
    BY <1>2 DEF Listed, IsInjective
  <2>4. CASE a = 1 \/ b = 1
    BY <1>4, <1>7, <2>1, <2>2, <2>4
  <2>5. CASE a # 1 /\ b # 1
    <3>1. a - 1 = b - 1
      BY <1>7, <2>1, <2>3, <2>5
    <3>2. QED BY <3>1
  <2>6. QED BY <2>4, <2>5
<1>9. ToSet(t) \subseteq ToSet(s) \cup {k}
  BY <1>2, <1>4, <1>6, <1>7 DEF ToSet
<1>10. ToSet(s) \cup {k} \subseteq ToSet(t)
  <2>1. 1 \in 1..Len(s) + 1 /\ \A j \in 1..Len(s) : j + 1 \in 1..Len(s) + 1
    BY <1>2
  <2>2. k \in ToSet(t)
    BY <1>4, <1>6, <2>1 DEF ToSet
  <2>3. ToSet(s) \subseteq ToSet(t)
    BY <1>2, <1>5, <1>6, <2>1 DEF ToSet
  <2>4. QED BY <2>2, <2>3
<1>11. QED BY <1>3, <1>8, <1>9, <1>10 DEF t, Listed

\* A key taken out of a list.
LEMMA Dropped ==
  ASSUME NEW s, Listed(s), NEW i \in 1..Len(s)
  PROVE  /\ Listed(RemoveAt(s, i))
         /\ ToSet(RemoveAt(s, i)) = ToSet(s) \ {s[i]}
         /\ Len(RemoveAt(s, i)) = Len(s) - 1
<1> DEFINE t == RemoveAt(s, i)
           Old(j) == IF j < i THEN j ELSE j + 1
<1>1. s \in Seq(Keys) /\ DOMAIN s = 1..Len(s) /\ Len(s) \in Nat
  BY LenProperties DEF Listed
<1>2. /\ t \in Seq(Keys) /\ Len(t) = Len(s) - 1
      /\ \A j \in 1..Len(s) - 1 : t[j] = s[Old(j)]
  BY <1>1, Removed
<1> HIDE DEF t
<1>3. DOMAIN t = 1..Len(s) - 1
  BY <1>2, LenProperties
<1>4. \A j \in 1..Len(s) - 1 : Old(j) \in 1..Len(s) \ {i}
  BY <1>1
<1>5. \A x, y \in 1..Len(s) : s[x] = s[y] => x = y
  BY <1>1 DEF Listed, IsInjective
<1>6. IsInjective(t)
  <2>1. SUFFICES ASSUME NEW a \in 1..Len(s) - 1, NEW b \in 1..Len(s) - 1, t[a] = t[b] PROVE a = b
    BY <1>3 DEF IsInjective
  <2>2. Old(a) = Old(b)
    <3>1. Old(a) \in 1..Len(s) /\ Old(b) \in 1..Len(s) /\ s[Old(a)] = s[Old(b)]
      BY <1>2, <1>4, <2>1
    <3> HIDE DEF Old
    <3>2. QED BY <1>5, <3>1
  <2>3. QED BY <2>2
<1>7. ToSet(t) \subseteq ToSet(s) \ {s[i]}
  <2>1. SUFFICES ASSUME NEW j \in 1..Len(s) - 1 PROVE t[j] \in ToSet(s) \ {s[i]}
    BY <1>3 DEF ToSet
  <2>2. t[j] = s[Old(j)] /\ Old(j) \in 1..Len(s) \ {i}
    BY <1>2, <1>4
  <2> HIDE DEF Old
  <2>3. QED BY <1>1, <1>5, <2>2 DEF ToSet
<1>8. ToSet(s) \ {s[i]} \subseteq ToSet(t)
  <2>1. SUFFICES ASSUME NEW x \in 1..Len(s), x # i PROVE s[x] \in ToSet(t)
    BY <1>1 DEF ToSet
  <2>2. PICK j \in 1..Len(s) - 1 : Old(j) = x
    <3>1. CASE x < i
      <4>1. x \in 1..Len(s) - 1 /\ Old(x) = x
        BY <1>1, <3>1
      <4>2. QED BY <4>1
    <3>2. CASE ~(x < i)
      <4>1. x - 1 \in 1..Len(s) - 1 /\ Old(x - 1) = x
        BY <1>1, <2>1, <3>2
      <4>2. QED BY <4>1
    <3>3. QED BY <3>1, <3>2
  <2> HIDE DEF Old
  <2>3. QED BY <1>2, <1>3, <2>2 DEF ToSet
<1>9. QED BY <1>2, <1>6, <1>7, <1>8 DEF t, Listed

\* Moving a listed key to the front lists the same keys.
LEMMA Moved ==
  ASSUME Listed(lru), NEW k \in Keys, k \in ToSet(lru)
  PROVE  /\ Listed(MoveToFront(k))
         /\ ToSet(MoveToFront(k)) = ToSet(lru)
         /\ Len(MoveToFront(k)) = Len(lru)
<1> DEFINE place == CHOOSE i \in DOMAIN lru : lru[i] = k
           rest == RemoveAt(lru, place)
<1>1. place \in DOMAIN lru /\ lru[place] = k
  BY DEF ToSet
<1>2. DOMAIN lru = 1..Len(lru) /\ Len(lru) \in Nat
  BY LenProperties DEF Listed
<1>3. MoveToFront(k) = <<k>> \o rest
  BY DEF MoveToFront
<1> HIDE DEF place
<1>4. Listed(rest) /\ ToSet(rest) = ToSet(lru) \ {k} /\ Len(rest) = Len(lru) - 1
  BY <1>1, <1>2, Dropped
<1> HIDE DEF rest
<1>5. k \notin ToSet(rest) /\ ToSet(rest) \cup {k} = ToSet(lru)
  BY <1>4
<1>6. /\ Listed(<<k>> \o rest)
      /\ ToSet(<<k>> \o rest) = ToSet(rest) \cup {k}
      /\ Len(<<k>> \o rest) = Len(rest) + 1
  BY <1>4, <1>5, Pushed
<1>7. Len(MoveToFront(k)) = Len(lru)
  <2>1. Len(MoveToFront(k)) = (Len(lru) - 1) + 1
    BY <1>3, <1>4, <1>6
  <2>2. QED BY <1>2, <2>1
<1>8. QED BY <1>3, <1>5, <1>6, <1>7, Zenon

\* The first n keys of a list.
LEMMA FrontPart ==
  ASSUME NEW s, Listed(s), NEW n \in 0..Len(s)
  PROVE  /\ Listed(SubSeq(s, 1, n))
         /\ Len(SubSeq(s, 1, n)) = n
         /\ ToSet(SubSeq(s, 1, n)) = {s[i] : i \in 1..n}
<1> DEFINE t == SubSeq(s, 1, n)
<1>1. s \in Seq(Keys) /\ DOMAIN s = 1..Len(s) /\ Len(s) \in Nat
  BY LenProperties DEF Listed
<1>2. t \in Seq(Keys) /\ Len(t) = n /\ \A j \in 1..n : t[j] = s[j]
  <2>1. \A j \in 1..n : s[j] \in Keys
    BY <1>1
  <2>2. 1 \in Int /\ n \in Int
    BY <1>1
  <2>3. QED BY <2>1, <2>2, <1>1, SubSeqProperties
<1> HIDE DEF t
<1>3. DOMAIN t = 1..n
  BY <1>2, LenProperties
<1>4. IsInjective(t)
  BY <1>1, <1>2, <1>3 DEF Listed, IsInjective
<1>5. ToSet(t) = {s[i] : i \in 1..n}
  BY <1>2, <1>3 DEF ToSet
<1>6. QED BY <1>2, <1>4, <1>5 DEF t, Listed

\* The first n keys and the keys behind them share out the list.
LEMMA Split ==
  ASSUME NEW s, Listed(s), NEW n \in 0..Len(s)
  PROVE  /\ ToSet(SubSeq(s, 1, n)) \cup Behind(s, n) = ToSet(s)
         /\ ToSet(SubSeq(s, 1, n)) \cap Behind(s, n) = {}
         /\ IsFiniteSet(ToSet(s))
         /\ IsFiniteSet(ToSet(SubSeq(s, 1, n))) /\ IsFiniteSet(Behind(s, n))
<1>1. s \in Seq(Keys) /\ DOMAIN s = 1..Len(s) /\ Len(s) \in Nat
  BY LenProperties DEF Listed
<1>2. ToSet(SubSeq(s, 1, n)) = {s[i] : i \in 1..n}
  BY FrontPart
<1>3. ToSet(s) = {s[i] : i \in 1..Len(s)}
  BY <1>1 DEF ToSet
<1>4. \A i \in 1..Len(s) : i \in 1..n \/ i \in n + 1..Len(s)
  BY <1>1
<1>5. \A i \in 1..n : i \in 1..Len(s) /\ i \notin n + 1..Len(s)
  BY <1>1
<1>6. \A i \in n + 1..Len(s) : i \in 1..Len(s)
  BY <1>1
<1>7. ToSet(SubSeq(s, 1, n)) \cup Behind(s, n) = ToSet(s)
  BY <1>2, <1>3, <1>4, <1>5, <1>6 DEF Behind
<1>8. ToSet(SubSeq(s, 1, n)) \cap Behind(s, n) = {}
  BY <1>1, <1>2, <1>5, <1>6 DEF Behind, Listed, IsInjective
<1>9. IsFiniteSet(ToSet(s))
  <2>1. IsFiniteSet(1..Len(s))
    BY <1>1, FS_Interval
  <2> DEFINE I == 1..Len(s)
             f == [i \in I |-> s[i]]
             R == {s[i] : i \in I}
  <2>2. R = {f[i] : i \in I}
    OBVIOUS
  <2>3. f \in Surjection(I, R)
    BY DEF Surjection
  <2> HIDE DEF f, R
  <2>4. IsFiniteSet(R)
    BY <2>1, <2>3, FS_Surjection
  <2>5. QED BY <1>3, <2>4 DEF R
<1>10. QED BY <1>7, <1>8, <1>9, FS_Subset

\* The number of keys insert keeps exists, and fits both limits or is 0.
LEMMA KeptFits ==
  ASSUME NEW e, NEW s, Listed(s), NEW total
  PROVE  /\ Kept(e, s, total) \in 0..Len(s)
         /\ Kept(e, s, total) = 0 \/
              /\ Kept(e, s, total) <= MaxEntries
              /\ total - BytesOf(e, Behind(s, Kept(e, s, total))) <= MaxBytes
<1> DEFINE Fits(n) == n = 0 \/ (n <= MaxEntries /\ total - BytesOf(e, Behind(s, n)) <= MaxBytes)
           Largest(n) == Fits(n) /\ \A m \in n + 1..Len(s) : ~Fits(m)
           From == {d \in 0..Len(s) : Fits(Len(s) - d)}
<1>1. Len(s) \in Nat
  BY LenProperties DEF Listed
<1>2. \E n \in 0..Len(s) : Largest(n)
  <2>1. From \subseteq Nat /\ Len(s) \in From
    BY <1>1
  <2>2. PICK d \in From : \A c \in From : ~(<<c, d>> \in OpToRel(<, Nat))
    <3> HIDE DEF From
    <3>1. QED BY <2>1, NatLessThanWellFounded, WFMin
  <2>3. \A c \in From : ~(c < d)
    BY <2>1, <2>2 DEF OpToRel
  <2>4. ASSUME NEW m \in (Len(s) - d) + 1..Len(s) PROVE ~Fits(m)
    <3> HIDE DEF Fits
    <3>1. Len(s) - m \in 0..Len(s) /\ Len(s) - m < d /\ Len(s) - (Len(s) - m) = m
      BY <1>1, <2>1
    <3>2. QED BY <2>3, <3>1
  <2>5. Len(s) - d \in 0..Len(s) /\ Fits(Len(s) - d)
    <3> HIDE DEF Fits
    <3>1. QED BY <1>1
  <2>6. Largest(Len(s) - d)
    BY <2>4, <2>5
  <2> HIDE DEF Largest
  <2>7. QED BY <2>5, <2>6
<1>3. Kept(e, s, total) = CHOOSE n \in 0..Len(s) : Largest(n)
  BY DEF Kept
<1>4. Kept(e, s, total) \in 0..Len(s) /\ Largest(Kept(e, s, total))
  <2> HIDE DEF Largest
  <2>1. QED BY <1>2, <1>3
<1>5. QED BY <1>4

\* The inductive invariant of the cache itself, next to that of the calls.
CacheListed == lru \in Seq(Keys) /\ CacheConsistent

\* Sizes are natural numbers.
LEMMA EntrySizes ==
  ASSUME NEW e \in [Keys -> Values]
  PROVE  \A k \in Keys : e[k].bytes \in Nat
<1>1. TAKE k \in Keys
<1>2. e[k].bytes \in Sizes \cup {0}
  BY DEF Values
<1>3. \A n \in Sizes : n \in Nat
  BY SizesPositive
<1>4. QED BY <1>2, <1>3

\* Insert keeps list, table and counter in step and both limits.
LEMMA InsertConsistent ==
  ASSUME FlightInvariant, CacheListed, NEW r \in Requests, Insert(r)
  PROVE  CacheListed'
<1> DEFINE k == key[r]
           v == value[r]
           added == [entries EXCEPT ![k] = v]
           order == <<k>> \o lru
           total == BytesWith(k, v)
           n == Kept(added, order, total)
           front == SubSeq(order, 1, n)
<1>1. pc[r] = "storing" /\ k \in Keys /\ entries[k] = NoValue /\ v.complete /\ v \in Values
  BY DEF Insert, FlightInvariant, Cached
<1>2. /\ lru' = front
      /\ entries' = [x \in Keys |-> IF x \in ToSet(front) THEN added[x] ELSE NoValue]
      /\ bytes' = total - BytesOf(added, Behind(order, n))
  BY <1>1 DEF Insert, Cached
<1>3. Listed(lru) /\ k \notin ToSet(lru)
  BY <1>1 DEF CacheListed, CacheConsistent, Listed, Cached
<1>4. Listed(order) /\ ToSet(order) = ToSet(lru) \cup {k}
  BY <1>1, <1>3, Pushed
<1>5. added \in [Keys -> Values] /\ entries \in [Keys -> Values] /\ added[k] = v
      /\ \A x \in ToSet(lru) : x \in Keys /\ added[x] = entries[x]
  <2>1. \A x \in ToSet(lru) : x \in Keys /\ x # k
    BY <1>3 DEF CacheListed, CacheConsistent
  <2>2. QED BY <1>1, <2>1 DEF FlightInvariant
<1>6. \A x \in Keys : added[x].bytes \in Nat /\ entries[x].bytes \in Nat
  BY <1>5, EntrySizes
<1>7. IsFiniteSet(ToSet(lru))
  <2>1. 0 \in 0..Len(lru)
    BY <1>3, LenProperties DEF Listed
  <2>2. QED BY <1>3, <2>1, Split
<1>8. total = BytesOf(added, ToSet(order)) /\ total \in Nat
  <2> HIDE DEF added
  <2>1. BytesOf(entries, ToSet(lru)) = BytesOf(added, ToSet(lru))
    BY <1>5, <1>6, <1>7, BytesOfSame
  <2>2. BytesOf(added, {k}) = v.bytes
    BY <1>1, <1>5, <1>6, BytesOfSingleton
  <2>3. IsFiniteSet({k}) /\ ToSet(lru) \cap {k} = {} /\ \A x \in ToSet(lru) \cup {k} : added[x].bytes \in Nat
    BY <1>1, <1>3, <1>5, <1>6, FS_Singleton
  <2>4. /\ BytesOf(added, ToSet(lru)) \in Nat /\ BytesOf(added, {k}) \in Nat
        /\ BytesOf(added, ToSet(lru) \cup {k}) = BytesOf(added, ToSet(lru)) + BytesOf(added, {k})
    BY <1>7, <2>3, BytesOfUnion
  <2>5. bytes = BytesOf(added, ToSet(lru))
    BY <2>1 DEF CacheListed, CacheConsistent
  <2>6. total = (bytes - 0) + v.bytes
    BY <1>1 DEF BytesWith, NoValue
  <2>7. QED BY <1>4, <2>2, <2>4, <2>5, <2>6
<1> HIDE DEF total
<1>9. /\ n \in 0..Len(order)
      /\ n = 0 \/ (n <= MaxEntries /\ total - BytesOf(added, Behind(order, n)) <= MaxBytes)
  BY <1>4, KeptFits
<1> HIDE DEF n
<1>10. Listed(front) /\ Len(front) = n /\ ToSet(front) = {order[i] : i \in 1..n}
  BY <1>4, <1>9, FrontPart
<1>11. /\ ToSet(front) \cup Behind(order, n) = ToSet(order)
       /\ ToSet(front) \cap Behind(order, n) = {}
       /\ IsFiniteSet(ToSet(front)) /\ IsFiniteSet(Behind(order, n))
  BY <1>4, <1>9, Split
<1>12. \A x \in ToSet(order) : x \in Keys /\ added[x].bytes \in Nat
  BY <1>1, <1>4, <1>5, <1>6
<1> HIDE DEF front, order, added
<1>13. bytes' = BytesOf(added, ToSet(front)) /\ bytes' \in Nat
  <2>1. /\ BytesOf(added, ToSet(front)) \in Nat /\ BytesOf(added, Behind(order, n)) \in Nat
        /\ BytesOf(added, ToSet(front) \cup Behind(order, n))
             = BytesOf(added, ToSet(front)) + BytesOf(added, Behind(order, n))
    BY <1>11, <1>12, BytesOfUnion
  <2>2. total = BytesOf(added, ToSet(front)) + BytesOf(added, Behind(order, n))
    BY <1>8, <1>11, <2>1
  <2>3. QED BY <1>2, <2>1, <2>2
<1>14. bytes' = BytesOf(entries', ToSet(front))
  <2>1. \A x \in ToSet(front) : added[x].bytes \in Nat /\ entries'[x].bytes = added[x].bytes
    BY <1>2, <1>11, <1>12
  <2>2. BytesOf(added, ToSet(front)) = BytesOf(entries', ToSet(front))
    BY <1>11, <2>1, BytesOfSame
  <2>3. QED BY <1>13, <2>2
<1>15. ToSet(front) = {x \in Keys : entries'[x] # NoValue}
  <2>1. \A x \in ToSet(order) : added[x] # NoValue
    <3>1. v # NoValue
      BY <1>1 DEF NoValue
    <3>2. \A x \in ToSet(lru) : added[x] # NoValue
      BY <1>5 DEF CacheListed, CacheConsistent, Cached
    <3>3. QED BY <1>4, <1>5, <3>1, <3>2
  <2>2. QED BY <1>2, <1>11, <1>12, <2>1
<1>16. n <= MaxEntries /\ bytes' <= MaxBytes
  <2>1. CASE n = 0
    <3>1. ToSet(front) = {}
      BY <1>10, <2>1
    <3>2. bytes' = 0
      BY <1>13, <3>1, BytesOfNone
    <3>3. QED BY <2>1, <3>2, LimitsNatural
  <2>2. CASE n # 0
    BY <1>2, <1>9, <2>2
  <2>3. QED BY <2>1, <2>2
<1>17. /\ lru' \in Seq(Keys) /\ IsInjective(lru') /\ Len(lru') <= MaxEntries
       /\ ToSet(lru') = {x \in Keys : entries'[x] # NoValue}
       /\ bytes' = BytesOf(entries', ToSet(lru'))
  BY <1>2, <1>10, <1>14, <1>15, <1>16 DEF Listed
<1>18. QED BY <1>16, <1>17 DEF CacheListed, CacheConsistent, Cached

\* A hit reorders the list and nothing else.
LEMMA HitConsistent ==
  ASSUME FlightInvariant, CacheListed, NEW r \in Requests, Hit(r)
  PROVE  CacheListed'
<1>1. Listed(lru) /\ key[r] \in Keys /\ key[r] \in ToSet(lru)
  BY DEF Hit, FlightInvariant, CacheListed, CacheConsistent, Listed
<1>2. lru' = MoveToFront(key[r]) /\ UNCHANGED <<entries, bytes>>
  BY DEF Hit
<1>3. Listed(lru') /\ ToSet(lru') = ToSet(lru) /\ Len(lru') = Len(lru)
  BY <1>1, <1>2, Moved
<1>4. QED BY <1>2, <1>3 DEF CacheListed, CacheConsistent, Listed, Cached

\* Every step preserves the invariant of the cache.
LEMMA CacheStep == ASSUME FlightInvariant, CacheListed, [Next]_vars PROVE CacheListed'
<1>1. ASSUME UNCHANGED cacheVars PROVE CacheListed'
  BY <1>1 DEF cacheVars, CacheListed, CacheConsistent, Cached
<1>2. ASSUME NEW r \in Requests, Proceed(r) PROVE UNCHANGED cacheVars \/ Hit(r) \/ Insert(r)
  BY <1>2 DEF Proceed, Join, LookupCancelled, Lead, Compute, FinishCall, CloseDone, TakeResult,
              Retry, WaitCancelled
<1>3. CASE UNCHANGED vars \/ Publish \/ \E r \in Requests : Cancel(r) \/ \E c \in Claims : Start(r, c)
  BY <1>1, <1>3 DEF vars, Publish, Cancel, Start
<1>4. QED BY <1>1, <1>2, <1>3, HitConsistent, InsertConsistent DEF Next

\* The empty cache is consistent.
LEMMA CacheInit == ASSUME Init PROVE CacheListed
<1>1. lru = <<>> /\ bytes = 0 /\ entries = [k \in Keys |-> NoValue]
  BY DEF Init
<1>2. ToSet(lru) = {} /\ IsInjective(lru) /\ lru \in Seq(Keys) /\ Len(lru) = 0
  BY <1>1 DEF ToSet, IsInjective
<1>3. {k \in Keys : Cached(k)} = {}
  BY <1>1 DEF Cached
<1>4. bytes = BytesOf(entries, ToSet(lru))
  BY <1>1, <1>2, BytesOfNone
<1>5. QED BY <1>1, <1>2, <1>3, <1>4, LimitsNatural DEF CacheListed, CacheConsistent

\* Every variable keeps its type; the byte counter never goes below 0.
THEOREM TypesHold == Spec => []TypeOK
<1>1. ASSUME FlightInvariant, CacheListed PROVE TypeOK
  <2>1. bytes \in Nat
    <3>1. bytes = BytesOf(entries, ToSet(lru)) /\ Listed(lru)
      BY <1>1 DEF CacheListed, CacheConsistent, Listed
    <3>2. \A k \in ToSet(lru) : entries[k].bytes \in Nat
      BY <1>1, EntrySizes DEF CacheListed, CacheConsistent, FlightInvariant
    <3>3. 0 \in 0..Len(lru)
      BY <3>1, LenProperties DEF Listed
    <3>4. IsFiniteSet(ToSet(lru)) /\ IsFiniteSet({}) /\ ToSet(lru) \cap {} = {} /\ ToSet(lru) \cup {} = ToSet(lru)
      BY <3>1, <3>3, Split, FS_EmptySet
    <3>5. BytesOf(entries, ToSet(lru)) \in Nat
      BY <3>2, <3>4, BytesOfUnion
    <3>6. QED BY <3>1, <3>5
  <2>2. QED BY <1>1, <2>1 DEF FlightInvariant, CacheListed, TypeOK
<1>2. QED BY <1>1, CacheInit, CacheStep, FlightInvariantHolds, PTL DEF Spec

\* The list, the table and the byte counter always describe the same cache,
\* within both limits, however large a result is.
THEOREM CacheStaysConsistent == Spec => []CacheConsistent
<1>1. CacheListed => CacheConsistent
  BY DEF CacheListed
<1>2. QED BY <1>1, CacheInit, CacheStep, FlightInit, FlightStep, PTL DEF Spec
=============================================================================
