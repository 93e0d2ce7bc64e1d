---------------------------- MODULE SequentialProofs ----------------------------
(***************************************************************************)
(* Proofs about the components of Sequential, for every value of their     *)
(* constants.  The stores keep exactly what was recorded last; the ring of *)
(* queries forgets exactly the oldest; thoughts hold in the graph they     *)
(* were made from; a finished build's graph is well formed; what the       *)
(* native reasoner entails follows from the graph, and the engine's from   *)
(* its edges, whatever its limits cut off; a registry built from packs     *)
(* coheres in whatever order they are named.  The conditional reasoner is  *)
(* in RuleProofs, with the lemmas on saturation.                           *)
(***************************************************************************)
EXTENDS RuleProofs

-----------------------------------------------------------------------------
(* The stores *)

Facts == [key : Keys, confidence : Confidences]

StoresInvariant ==
  /\ questions \in Seq(Keys) /\ facts \in Seq(Facts)
  /\ index = [k \in DOMAIN index |-> index[k]]
  /\ FactsAreLatest

\* A full sequence loses its first element to make room for one at the end.
LEMMA Shifted ==
  ASSUME NEW S, NEW s \in Seq(S), s # <<>>, NEW x \in S
  PROVE  LET t == Append(Tail(s), x) IN
         /\ t \in Seq(S) /\ Len(t) = Len(s) /\ t[Len(s)] = x
         /\ \A i \in 1..(Len(s) - 1) : t[i] = s[i + 1]
<1>1. Len(s) \in Nat \ {0} /\ Tail(s) \in Seq(S) /\ Len(Tail(s)) = Len(s) - 1
  OBVIOUS
<1>2. \A i \in 1..(Len(s) - 1) : Tail(s)[i] = s[i + 1]
  OBVIOUS
<1> QED  BY <1>1, <1>2

LEMMA InitStores ==
  ASSUME Init
  PROVE  StoresInvariant
<1> USE LimitIsPositive
<1>1. questions \in Seq(Keys) /\ facts \in Seq(Facts) /\ Len(questions) = 0 /\ Len(facts) = 0
  BY DEF Init
<1>2. DOMAIN index = {} /\ index = [k \in DOMAIN index |-> index[k]]
  BY DEF Init
<1>3. DOMAIN questions = {} /\ DOMAIN facts = {}
  BY <1>1
<1>4. IndexExact /\ LatestKept
  BY <1>2, <1>3 DEF IndexExact, LatestKept
<1>5. WithinLimits /\ AskedExact
  BY <1>1, <1>3 DEF Init, WithinLimits, AskedExact
<1> QED  BY <1>1, <1>2, <1>4, <1>5 DEF StoresInvariant, FactsAreLatest

\* A question is asked once as long as it is kept.
LEMMA EmitStep ==
  ASSUME StoresInvariant, NEW key \in Keys, Emit(key)
  PROVE  StoresInvariant'
<1> USE LimitIsPositive
<1> USE DEF StoresInvariant, FactsAreLatest
<1>1. UNCHANGED <<facts, index, latest>>
  BY DEF Emit, factVars
<1>2. facts' \in Seq(Facts) /\ index' = [k \in DOMAIN index' |-> index'[k]]
  BY <1>1
<1>3. IndexExact' /\ LatestKept'
  BY <1>1 DEF IndexExact, LatestKept
<1>4. questions' \in Seq(Keys) /\ Len(questions') <= Limit /\ AskedExact'
  <2>1. CASE UNCHANGED <<questions, asked>>
    <3>1. Len(questions) <= Limit
      BY DEF WithinLimits
    <3>2. AskedExact'
      BY <2>1 DEF AskedExact
    <3> QED  BY <2>1, <3>1, <3>2
  <2>2. CASE key \notin asked /\ Len(questions) < Limit
             /\ questions' = Append(questions, key) /\ asked' = asked \cup {key}
    <3>1. questions' \in Seq(Keys) /\ Len(questions') = Len(questions) + 1
      BY <2>2
    <3>2. questions'[Len(questions) + 1] = key /\ \A i \in 1..Len(questions) : questions'[i] = questions[i]
      BY <2>2
    <3>3. DOMAIN questions = 1..Len(questions) /\ DOMAIN questions' = 1..(Len(questions) + 1)
      BY <3>1
    <3>4. \A i \in 1..Len(questions) : questions[i] # key
      BY <2>2, <3>3 DEF AskedExact
    <3>5. asked' = {questions'[i] : i \in DOMAIN questions'}
      BY <2>2, <3>1, <3>2, <3>3 DEF AskedExact
    <3>6. ASSUME NEW i \in DOMAIN questions', NEW j \in DOMAIN questions', questions'[i] = questions'[j]
          PROVE  i = j
      BY <3>1, <3>2, <3>3, <3>4, <3>6 DEF AskedExact
    <3>7. AskedExact'
      BY <3>5, <3>6 DEF AskedExact
    <3>8. Len(questions) \in Nat /\ Len(questions') <= Limit
      BY <2>2, <3>1
    <3> QED  BY <3>1, <3>7, <3>8
  <2>3. CASE key \notin asked /\ ~(Len(questions) < Limit)
             /\ questions' = Append(Tail(questions), key)
             /\ asked' = (asked \cup {key}) \ {Head(questions)}
    <3> DEFINE n == Len(questions)
    <3>1. n = Limit /\ n \in Nat \ {0} /\ questions # <<>>
      BY <2>3 DEF WithinLimits
    <3>2. /\ questions' \in Seq(Keys) /\ Len(questions') = n /\ questions'[n] = key
          /\ \A i \in 1..(n - 1) : questions'[i] = questions[i + 1]
      BY <2>3, <3>1, Shifted
    <3>3. DOMAIN questions = 1..n /\ DOMAIN questions' = 1..n /\ Head(questions) = questions[1]
      BY <3>1, <3>2
    <3>4. \A i \in 1..n : questions[i] # key
      BY <2>3, <3>3 DEF AskedExact
    <3>5. \A i, j \in 1..n : questions[i] = questions[j] => i = j
      BY <3>3 DEF AskedExact
    <3>6. asked' = {questions'[i] : i \in DOMAIN questions'}
      <4>1. ASSUME NEW q \in asked' PROVE \E i \in 1..n : q = questions'[i]
        <5>1. CASE q = key
          BY <3>1, <3>2, <5>1
        <5>2. CASE q # key
          <6>1. PICK i \in 1..n : q = questions[i]
            BY <2>3, <3>3, <4>1, <5>2 DEF AskedExact
          <6>2. i # 1
            BY <2>3, <3>3, <4>1, <6>1
          <6>3. i - 1 \in 1..(n - 1) /\ (i - 1) + 1 = i
            BY <3>1, <6>1, <6>2
          <6> QED  BY <3>1, <3>2, <6>1, <6>3
        <5> QED  BY <5>1, <5>2
      <4>2. ASSUME NEW i \in 1..n PROVE questions'[i] \in asked'
        <5>1. CASE i = n
          BY <2>3, <3>1, <3>2, <3>3, <3>4, <5>1
        <5>2. CASE i # n
          <6>1. i \in 1..(n - 1) /\ i + 1 \in 1..n /\ 1 \in 1..n /\ i + 1 # 1
            BY <3>1, <5>2
          <6>2. questions[i + 1] \in asked /\ questions[i + 1] # questions[1]
            BY <3>3, <3>5, <6>1 DEF AskedExact
          <6> QED  BY <2>3, <3>2, <3>3, <6>1, <6>2
        <5> QED  BY <5>1, <5>2
      <4> QED  BY <3>3, <4>1, <4>2
    <3>7. ASSUME NEW i \in 1..n, NEW j \in 1..n, questions'[i] = questions'[j]
          PROVE  i = j
      <4>1. CASE i = n /\ j # n
        <5>1. j \in 1..(n - 1) /\ j + 1 \in 1..n
          BY <3>1, <4>1
        <5> QED  BY <3>2, <3>4, <3>7, <4>1, <5>1
      <4>2. CASE i # n /\ j = n
        <5>1. i \in 1..(n - 1) /\ i + 1 \in 1..n
          BY <3>1, <4>2
        <5> QED  BY <3>2, <3>4, <3>7, <4>2, <5>1
      <4>3. CASE i # n /\ j # n
        <5>1. i \in 1..(n - 1) /\ j \in 1..(n - 1) /\ i + 1 \in 1..n /\ j + 1 \in 1..n
          BY <3>1, <4>3
        <5>2. i + 1 = j + 1
          BY <3>2, <3>5, <3>7, <5>1
        <5> QED  BY <3>1, <5>2
      <4> QED  BY <4>1, <4>2, <4>3
    <3> QED  BY <3>1, <3>2, <3>3, <3>6, <3>7 DEF AskedExact
  <2> QED  BY <2>1, <2>2, <2>3 DEF Emit, questionVars
<1> QED  BY <1>1, <1>2, <1>3, <1>4 DEF WithinLimits

\* The facts as the table of places knows them.
LEMMA PlaceOf ==
  ASSUME StoresInvariant
  PROVE  /\ DOMAIN facts = 1..Len(facts) /\ Len(facts) \in Nat
         /\ \A k \in DOMAIN index : index[k] \in 1..Len(facts) /\ facts[index[k]].key = k
         /\ \A i \in 1..Len(facts) :
              /\ facts[i] \in Facts /\ facts[i].key \in DOMAIN index
              /\ index[facts[i].key] = i
<1>1. DOMAIN facts = 1..Len(facts) /\ Len(facts) \in Nat
  BY DEF StoresInvariant
<1>2. \A i \in 1..Len(facts) : facts[i] \in Facts
  BY DEF StoresInvariant
<1>3. IndexExact
  BY DEF StoresInvariant, FactsAreLatest
<1> QED  BY <1>1, <1>2, <1>3 DEF IndexExact

\* A fact for a claim that has none is put at the end, in a table of places
\* that fits, and the latest of every claim is kept.
LEMMA Placed ==
  ASSUME StoresInvariant, NEW key \in Keys, NEW confidence \in Confidences,
         facts' \in Seq(Facts), Len(facts') \in Nat \ {0}, Len(facts') <= Limit,
         NEW shift \in Nat, Len(facts') = Len(facts) + 1 - shift,
         key \notin DOMAIN index,
         facts'[Len(facts')] = Fact(key, confidence),
         \A i \in 1..(Len(facts') - 1) : facts'[i] = facts[i + shift],
         DOMAIN index' = {facts[i + shift].key : i \in 1..(Len(facts') - 1)} \cup {key},
         index'[key] = Len(facts'),
         \A i \in 1..(Len(facts') - 1) : index'[facts[i + shift].key] = i,
         index' = [k \in DOMAIN index' |-> index'[k]],
         latest' = With(latest, key, confidence),
         UNCHANGED <<questions, asked>>
  PROVE  StoresInvariant'
<1> DEFINE n == Len(facts')
<1>1. DOMAIN facts' = 1..n /\ n \in 1..n /\ (\A i \in 1..n : i = n \/ i \in 1..(n - 1))
      /\ \A i \in 1..(n - 1) : i \in 1..n /\ i + shift \in 1..Len(facts)
  BY PlaceOf
<1>2. facts'[n].key = key /\ facts'[n].confidence = confidence
  BY DEF Fact
<1>3. \A i \in 1..(n - 1) : facts'[i].key = facts[i + shift].key /\ facts'[i].key # key
  BY <1>1, PlaceOf
<1>4. IndexExact'
  <2>1. DOMAIN index' = {facts'[i].key : i \in 1..n}
    <3>1. \A k \in DOMAIN index' : \E i \in 1..n : k = facts'[i].key
      BY <1>1, <1>2, <1>3
    <3>2. \A i \in 1..n : facts'[i].key \in DOMAIN index'
      <4>1. TAKE i \in 1..n
      <4>2. CASE i = n
        BY <1>2, <4>2
      <4>3. CASE i \in 1..(n - 1)
        BY <1>3, <4>3
      <4> QED  BY <1>1, <4>2, <4>3
    <3>3. DOMAIN index' \subseteq {facts'[i].key : i \in 1..n}
      BY <3>1
    <3>4. {facts'[i].key : i \in 1..n} \subseteq DOMAIN index'
      BY <3>2
    <3> QED  BY <3>3, <3>4
  <2>2. \A i \in 1..n : index'[facts'[i].key] = i
    BY <1>1, <1>2, <1>3
  <2> QED  BY <1>1, <2>1, <2>2 DEF IndexExact
<1>5. LatestKept'
  <2>1. /\ DOMAIN latest' = DOMAIN latest \cup {key} /\ latest'[key] = confidence
        /\ \A k \in DOMAIN latest \ {key} : latest'[k] = latest[k]
    BY DEF With
  <2>2. \A i \in 1..Len(facts) : facts[i].key \in DOMAIN latest
                              /\ facts[i].confidence = latest[facts[i].key]
    BY PlaceOf DEF StoresInvariant, FactsAreLatest, LatestKept
  <2>3. ASSUME NEW i \in 1..n
        PROVE  facts'[i].key \in DOMAIN latest' /\ facts'[i].confidence = latest'[facts'[i].key]
    BY <1>1, <1>2, <1>3, <2>1, <2>2
  <2> QED  BY <1>1, <2>3 DEF LatestKept
<1>6. questions' \in Seq(Keys) /\ WithinLimits' /\ AskedExact'
  BY DEF StoresInvariant, FactsAreLatest, WithinLimits, AskedExact
<1> QED  BY <1>4, <1>5, <1>6 DEF StoresInvariant, FactsAreLatest

LEMMA RecordStep ==
  ASSUME StoresInvariant,
         NEW key \in Keys, NEW confidence \in Confidences, Record(key, confidence)
  PROVE  StoresInvariant'
<1> USE LimitIsPositive
<1> DEFINE fact == Fact(key, confidence)
           n == Len(facts)
<1>1. /\ latest' = With(latest, key, confidence) /\ UNCHANGED <<questions, asked>>
      /\ fact \in Facts /\ fact.key = key /\ fact.confidence = confidence
      /\ facts \in Seq(Facts) /\ n \in Nat /\ n <= Limit
  BY DEF Record, questionVars, Fact, Facts, StoresInvariant,
         FactsAreLatest, WithinLimits
<1>2. CASE Replace(key, confidence)
  <2>1. PICK p \in 1..n : p = index[key] /\ facts[p].key = key
    BY <1>2, PlaceOf DEF Replace
  <2>2. facts' = [facts EXCEPT ![p] = fact] /\ UNCHANGED index /\ key \in DOMAIN index
    BY <1>2, <2>1 DEF Replace
  <2>3. /\ facts' \in Seq(Facts) /\ Len(facts') = n /\ DOMAIN facts' = 1..n
        /\ facts'[p] = fact /\ \A i \in 1..n : i # p => facts'[i] = facts[i]
    BY <1>1, <2>1, <2>2, PlaceOf
  <2>4. \A i \in 1..n : facts'[i].key = facts[i].key
    BY <1>1, <2>1, <2>3
  <2>5. IndexExact'
    BY <2>2, <2>3, <2>4, PlaceOf DEF StoresInvariant, FactsAreLatest, IndexExact
  <2>6. LatestKept'
    <3>1. /\ DOMAIN latest' = DOMAIN latest \cup {key} /\ latest'[key] = confidence
          /\ \A k \in DOMAIN latest \ {key} : latest'[k] = latest[k]
      BY <1>1 DEF With
    <3>2. \A i \in 1..n : facts[i].key \in DOMAIN latest
                       /\ facts[i].confidence = latest[facts[i].key]
      BY PlaceOf DEF StoresInvariant, FactsAreLatest, LatestKept
    <3>3. \A i \in 1..n : i # p => facts[i].key # key
      BY <2>1, PlaceOf
    <3>4. ASSUME NEW i \in 1..n
          PROVE  facts'[i].key \in DOMAIN latest' /\ facts'[i].confidence = latest'[facts'[i].key]
      BY <1>1, <2>3, <3>1, <3>2, <3>3
    <3> QED  BY <2>3, <3>4 DEF LatestKept
  <2>7. questions' \in Seq(Keys) /\ WithinLimits' /\ AskedExact'
    BY <1>1, <2>3 DEF StoresInvariant, FactsAreLatest, WithinLimits, AskedExact
  <2>8. index' = [k \in DOMAIN index' |-> index'[k]]
    BY <2>2 DEF StoresInvariant
  <2> QED  BY <2>3, <2>5, <2>6, <2>7, <2>8 DEF StoresInvariant, FactsAreLatest
<1>3. CASE Add(key, confidence)
  <2>1. key \notin DOMAIN index /\ n < Limit /\ facts' = Append(facts, fact)
        /\ index' = With(index, key, n + 1)
    BY <1>3 DEF Add
  <2>2. /\ facts' \in Seq(Facts) /\ Len(facts') = n + 1 /\ facts'[n + 1] = fact
        /\ \A i \in 1..n : facts'[i] = facts[i]
    BY <1>1, <2>1
  <2>3. /\ DOMAIN index' = DOMAIN index \cup {key} /\ index'[key] = n + 1
        /\ \A k \in DOMAIN index \ {key} : index'[k] = index[k]
    BY <2>1 DEF With
  <2>4. index' = [k \in DOMAIN index' |-> index'[k]]
    BY <2>1 DEF With
  <2>5. Len(facts') - 1 = n /\ Len(facts') \in Nat \ {0} /\ Len(facts') <= Limit
        /\ Len(facts') = n + 1 - 0 /\ 0 \in Nat /\ \A i \in 1..n : i + 0 = i
    BY <1>1, <2>1, <2>2
  <2>6. DOMAIN index = {facts[i].key : i \in 1..n}
    BY PlaceOf DEF StoresInvariant, FactsAreLatest, IndexExact
  <2>7. DOMAIN index' = {facts[i + 0].key : i \in 1..(Len(facts') - 1)} \cup {key}
    BY <2>3, <2>5, <2>6
  <2>8. \A i \in 1..(Len(facts') - 1) : index'[facts[i + 0].key] = i /\ facts'[i] = facts[i + 0]
    BY <2>1, <2>2, <2>3, <2>5, PlaceOf
  <2> QED  BY <1>1, <2>1, <2>2, <2>3, <2>4, <2>5, <2>7, <2>8, Placed
<1>4. CASE AddEvicting(key, confidence)
  <2>1. /\ key \notin DOMAIN index /\ n = Limit /\ n \in Nat \ {0} /\ facts # <<>>
        /\ facts' = Append(Tail(facts), fact) /\ Head(facts) = facts[1]
        /\ index' = Places(With(index, key, n + 1), facts[1].key)
    BY <1>1, <1>4 DEF AddEvicting
  <2>2. /\ facts' \in Seq(Facts) /\ Len(facts') = n /\ facts'[n] = fact
        /\ \A i \in 1..(n - 1) : facts'[i] = facts[i + 1]
    BY <1>1, <2>1, Shifted
  <2> DEFINE table == With(index, key, n + 1)
             gone == facts[1].key
  <2>3. /\ DOMAIN table = DOMAIN index \cup {key} /\ table[key] = n + 1
        /\ \A k \in DOMAIN index \ {key} : table[k] = index[k]
    BY DEF With
  <2>4. /\ DOMAIN index' = DOMAIN table \ {gone}
        /\ \A k \in DOMAIN table \ {gone} : index'[k] = table[k] - 1
        /\ index' = [k \in DOMAIN index' |-> index'[k]]
    BY <2>1 DEF Places
  <2>5. 1 \in 1..n /\ \A i \in 1..(n - 1) : i + 1 \in 1..n /\ i + 1 # 1 /\ (i + 1) - 1 = i
    BY <2>1
  <2>6. gone \in DOMAIN index /\ gone # key /\ index[gone] = 1
    BY <2>1, <2>5, PlaceOf
  <2>7. index'[key] = n
    BY <2>1, <2>3, <2>4, <2>6
  <2>8. \A i \in 1..(n - 1) : index'[facts[i + 1].key] = i /\ facts[i + 1].key \in DOMAIN index'
    <3>1. TAKE i \in 1..(n - 1)
    <3>2. i + 1 \in 1..n /\ i + 1 # 1
      BY <2>5
    <3>3. facts[i + 1].key \in DOMAIN index /\ index[facts[i + 1].key] = i + 1
      BY <3>2, PlaceOf
    <3>4. facts[i + 1].key # gone /\ facts[i + 1].key # key
      BY <2>1, <2>6, <3>2, <3>3
    <3> QED  BY <2>3, <2>4, <2>5, <3>3, <3>4
  <2>9. DOMAIN index' = {facts[i + 1].key : i \in 1..(n - 1)} \cup {key}
    <3>1. ASSUME NEW k \in DOMAIN index', k # key PROVE \E i \in 1..(n - 1) : k = facts[i + 1].key
      <4>1. k \in DOMAIN index /\ k # gone
        BY <2>3, <2>4, <3>1
      <4>2. index[k] \in 1..n /\ facts[index[k]].key = k /\ index[k] # 1
        BY <4>1, PlaceOf
      <4>3. index[k] - 1 \in 1..(n - 1) /\ (index[k] - 1) + 1 = index[k]
        BY <2>1, <4>2
      <4> QED  BY <4>2, <4>3
    <3>2. key \in DOMAIN index'
      BY <2>3, <2>4, <2>6
    <3> QED  BY <2>8, <3>1, <3>2
  <2>10. Len(facts') \in Nat \ {0} /\ Len(facts') <= Limit /\ 1 \in Nat /\ Len(facts') = n + 1 - 1
    BY <2>1, <2>2
  <2>11. Len(facts') - 1 = n - 1
         /\ DOMAIN index' = {facts[i + 1].key : i \in 1..(Len(facts') - 1)} \cup {key}
    BY <2>2, <2>9
  <2>12. \A i \in 1..(Len(facts') - 1) : index'[facts[i + 1].key] = i /\ facts'[i] = facts[i + 1]
    BY <2>2, <2>8
  <2> QED  BY <1>1, <2>1, <2>2, <2>4, <2>7, <2>10, <2>11, <2>12, Placed
<1> QED  BY <1>2, <1>3, <1>4 DEF Record

LEMMA StepStores ==
  ASSUME StoresInvariant, [Next]_vars
  PROVE  StoresInvariant'
<1>1. CASE UNCHANGED vars
  BY <1>1 DEF vars, StoresInvariant, FactsAreLatest, IndexExact,
              LatestKept, WithinLimits, AskedExact
<1>2. CASE Next
  <2>1. PICK key \in Keys :
          \/ Emit(key)
          \/ \E confidence \in Confidences : Record(key, confidence)
    BY <1>2 DEF Next, Hunt, Test, Bridge
  <2> QED  BY <2>1, EmitStep, RecordStep
<1> QED  BY <1>1, <1>2

\* What awaits confirmation is the latest of each claim, in a table of places
\* that survives every eviction, whatever the limit of the stores
\* (cognition_store.go:205-219).
THEOREM StoresAreExact == SeqSpec => []FactsAreLatest
<1>1. SeqInit => StoresInvariant
  BY InitStores DEF SeqInit
<1>2. ASSUME StoresInvariant, [SeqNext]_allVars PROVE StoresInvariant'
  <2>1. [Next]_vars
    BY <1>2 DEF SeqNext, Store, Select, Think, Reason, BuildGraph, Answer, allVars
  <2>2. QED BY <1>2, <2>1, StepStores
<1>3. StoresInvariant => FactsAreLatest
  BY DEF StoresInvariant
<1> QED  BY <1>1, <1>2, <1>3, PTL DEF SeqSpec

-----------------------------------------------------------------------------
(* The ring of recent queries *)

Verdicts == {"", "derived", "unsupported", "contradicted"} \cup UNION {Answers[q[1]] : q \in Queries}
Events == [claim : {q[1] : q \in Queries}, method : {q[2] : q \in Queries},
           generation : {q[3] : q \in Queries}, verdict : Verdicts]

\* The slot of the ring in which the i-th of the retained events is: the oldest
\* are those from next on, the youngest those before.
Slot(i) == IF i <= Len(events) - next + 1 THEN next + i - 1 ELSE i - (Len(events) - next + 1)

RingTold ==
  /\ events \in Seq(Events) /\ lastEvents \in Seq(Events)
  /\ Len(lastEvents) = Len(events) /\ Len(events) <= RingLimit
  /\ next \in 1..RingLimit
  /\ Len(events) < RingLimit => next = 1
  /\ \A i \in 1..Len(events) : lastEvents[i] = events[Slot(i)]

LEMMA RecordKeepsRing ==
  ASSUME RingTold, NEW event \in Events, Selector!Record(event)
  PROVE  RingTold'
<1> USE RingIsPositive
<1> DEFINE n == Len(events)
           all == Append(lastEvents, event)
<1>1. /\ n \in Nat /\ n <= RingLimit /\ Len(lastEvents) = n /\ next \in 1..RingLimit
      /\ events \in Seq(Events) /\ lastEvents \in Seq(Events)
  BY DEF RingTold
<1>2. /\ all \in Seq(Events) /\ Len(all) = n + 1 /\ all[n + 1] = event
      /\ \A i \in 1..n : all[i] = lastEvents[i]
  BY <1>1
<1>3. CASE n < RingLimit
  <2>1. events' = Append(events, event) /\ next' = 1 /\ next = 1 /\ lastEvents' = all
    BY <1>1, <1>2, <1>3 DEF Selector!Record, RingTold
  <2>2. /\ events' \in Seq(Events) /\ Len(events') = n + 1 /\ events'[n + 1] = event
        /\ \A i \in 1..n : events'[i] = events[i]
    BY <1>1, <2>1
  <2>3. \A i \in 1..n : lastEvents[i] = events[i]
    BY <1>1, <2>1 DEF RingTold, Slot
  <2>4. ASSUME NEW i \in 1..(n + 1) PROVE lastEvents'[i] = events'[i] /\ Slot(i)' = i
    BY <1>1, <1>2, <2>1, <2>2, <2>3 DEF Slot
  <2> QED  BY <1>1, <1>2, <1>3, <2>1, <2>2, <2>4 DEF RingTold
<1>4. CASE n = RingLimit
  <2>1. /\ events' = [events EXCEPT ![next] = event] /\ next' = Selector!Wrap(next)
        /\ lastEvents' = Tail(all)
    BY <1>1, <1>2, <1>4 DEF Selector!Record
  <2>2. /\ events' \in Seq(Events) /\ Len(events') = n /\ events'[next] = event
        /\ \A i \in 1..n : i # next => events'[i] = events[i]
    BY <1>1, <1>4, <2>1
  <2>3. /\ lastEvents' \in Seq(Events) /\ Len(lastEvents') = n
        /\ \A i \in 1..n : lastEvents'[i] = all[i + 1]
    BY <1>1, <1>2, <1>4, <2>1
  <2>4. lastEvents'[n] = event /\ \A i \in 1..(n - 1) : lastEvents'[i] = lastEvents[i + 1]
    BY <1>1, <1>2, <1>4, <2>3
  <2>5. next' = IF next = RingLimit THEN 1 ELSE next + 1
    <3>1. CASE next = RingLimit
      BY <1>1, <2>1, <3>1 DEF Selector!Wrap
    <3>2. CASE next # RingLimit
      <4>1. next \in 0..(RingLimit - 1)
        BY <1>1, <3>2
      <4>2. next % RingLimit = next
        BY <4>1
      <4> QED  BY <2>1, <3>2, <4>2 DEF Selector!Wrap
    <3> QED  BY <3>1, <3>2
  <2>6. \A i \in 1..n : lastEvents[i] = events[Slot(i)]
    BY DEF RingTold
  <2>7. ASSUME NEW i \in 1..n PROVE lastEvents'[i] = events'[Slot(i)']
    <3>1. Slot(i)' = IF i <= n - next' + 1 THEN next' + i - 1 ELSE i - (n - next' + 1)
      BY <2>2 DEF Slot
    <3>2. CASE i = n
      <4>1. Slot(i)' = next
        BY <1>1, <1>4, <2>5, <3>1, <3>2
      <4> QED  BY <2>2, <2>4, <3>2, <4>1
    <3>3. CASE i # n
      <4>1. i \in 1..(n - 1) /\ i + 1 \in 1..n
        BY <1>1, <3>3
      <4>2. Slot(i)' = Slot(i + 1) /\ Slot(i + 1) \in 1..n /\ Slot(i + 1) # next
        BY <1>1, <1>4, <2>5, <3>1, <4>1 DEF Slot
      <4> QED  BY <2>2, <2>4, <2>6, <4>1, <4>2
    <3> QED  BY <3>2, <3>3
  <2> QED  BY <1>1, <1>4, <2>2, <2>3, <2>5, <2>7 DEF RingTold
<1> QED  BY <1>1, <1>3, <1>4

LEMMA RingStep ==
  ASSUME RingTold, [Selector!Next]_(Selector!vars)
  PROVE  RingTold'
<1>1. CASE UNCHANGED <<events, next, lastEvents>>
  BY <1>1 DEF RingTold, Slot
<1>2. ASSUME NEW q \in Queries, NEW reply \in Answers[q[1]], Selector!Query(q[1], q[2], q[3], reply)
      PROVE  RingTold'
  <2>1. Selector!Verdict(q[2], reply) \in Verdicts
    BY DEF Selector!Verdict, Verdicts
  <2>2. [claim |-> q[1], method |-> q[2], generation |-> q[3],
         verdict |-> Selector!Verdict(q[2], reply)] \in Events
    BY <2>1 DEF Events
  <2> QED  BY <1>2, <2>2, RecordKeepsRing DEF Selector!Query
<1>3. CASE Selector!Next
  BY <1>1, <1>2, <1>3
  DEF Selector!Next, Selector!Pick, Selector!Ask, Selector!AskHot, Selector!AskUnresolved,
      Selector!AskGraph, Selector!CtxEnds, Selector!ring
<1>4. CASE UNCHANGED Selector!vars
  BY <1>1, <1>4 DEF Selector!vars, Selector!ring
<1> QED  BY <1>3, <1>4

\* What a reader of the ring puts together is the last queries in their order.
LEMMA RetainedAreLast ==
  ASSUME RingTold
  PROVE  Selector!Retained = lastEvents
<1> USE RingIsPositive
<1> DEFINE n == Len(events)
           old == SubSeq(events, next, n)
           young == SubSeq(events, 1, next - 1)
<1>1. /\ n \in Nat /\ n <= RingLimit /\ Len(lastEvents) = n /\ next \in 1..RingLimit
      /\ events \in Seq(Events) /\ lastEvents \in Seq(Events) /\ (n < RingLimit => next = 1)
  BY DEF RingTold
<1>2. /\ old \in Seq(Events) /\ Len(old) = n - next + 1
      /\ \A i \in 1..(n - next + 1) : old[i] = events[next + i - 1]
  BY <1>1
<1>3. /\ young \in Seq(Events) /\ Len(young) = next - 1
      /\ \A i \in 1..(next - 1) : young[i] = events[i]
  BY <1>1
<1>4. Selector!Retained = old \o young
  BY DEF Selector!Retained
<1> HIDE DEF old, young
<1>5. /\ old \o young \in Seq(Events) /\ Len(old \o young) = Len(old) + Len(young)
      /\ \A i \in 1..(Len(old) + Len(young)) :
           (old \o young)[i] = IF i <= Len(old) THEN old[i] ELSE young[i - Len(old)]
  BY <1>2, <1>3, ConcatProperties
<1>6. Len(old) + Len(young) = n
  BY <1>1, <1>2, <1>3
<1>7. ASSUME NEW i \in 1..n PROVE (old \o young)[i] = lastEvents[i]
  <2>1. (old \o young)[i] = IF i <= n - next + 1 THEN old[i] ELSE young[i - (n - next + 1)]
    BY <1>2, <1>5, <1>6
  <2>2. CASE i <= n - next + 1
    <3>1. i \in 1..(n - next + 1)
      BY <1>1, <2>2
    <3>2. (old \o young)[i] = events[next + i - 1]
      BY <1>2, <2>1, <2>2, <3>1
    <3> QED  BY <2>2, <3>2 DEF RingTold, Slot
  <2>3. CASE ~(i <= n - next + 1)
    <3>1. i - (n - next + 1) \in 1..(next - 1)
      BY <1>1, <2>3
    <3>2. (old \o young)[i] = events[i - (n - next + 1)]
      BY <1>3, <2>1, <2>3, <3>1
    <3> QED  BY <2>3, <3>2 DEF RingTold, Slot
  <2> QED  BY <2>2, <2>3
<1>8. old \o young = lastEvents
  BY <1>1, <1>5, <1>6, <1>7, SeqEqual
<1> QED  BY <1>4, <1>8

\* The ring forgets exactly the oldest query, whatever its capacity and however
\* often it wrapped (telemetry.go:278-287, 438-450).
THEOREM RingIsLastQueries == SeqSpec => [](Selector!Retained = lastEvents)
<1>1. SeqInit => RingTold
  BY RingIsPositive DEF SeqInit, Selector!Init, RingTold
<1>2. ASSUME RingTold, [SeqNext]_allVars PROVE RingTold'
  <2>1. [Selector!Next]_(Selector!vars)
    BY <1>2 DEF SeqNext, Store, Select, Think, Reason, BuildGraph, Answer, allVars, selectorVars, Selector!vars,
                Selector!ring
  <2>2. QED BY <1>2, <2>1, RingStep
<1>3. RingTold => Selector!Retained = lastEvents
  BY RetainedAreLast
<1> QED  BY <1>1, <1>2, <1>3, PTL DEF SeqSpec

-----------------------------------------------------------------------------
(* The sources that look for thoughts in the graph *)

\* A call in progress is one of the three sources', a bridge's in a role; the
\* last thought holds in the graph it was made from.
ThoughtsHold ==
  /\ served \in ServedGraphs
  /\ call # None => \/ call = [source |-> "random", seeds |-> call.seeds]
                    \/ /\ call = [source |-> "bridge", role |-> call.role, seed |-> call.seed]
                       /\ call.role \in Thoughts!Roles
                    \/ call = [source |-> "semantic", keys |-> call.keys]
  /\ Thoughts!ThoughtsAreGrounded

\* The cardinality the sources count with.
LEMMA ThoughtsCardinality == \A S : Thoughts!Cardinality(S) = Cardinality(S)
BY DEF Thoughts!Cardinality, Cardinality

\* What a query returns under a limit is among the rows, and all of them when
\* they are no more than it.
LEMMA LimitedRows ==
  ASSUME NEW rows, NEW limit, NEW R \in Thoughts!Limited(rows, limit)
  PROVE  /\ R \subseteq rows
         /\ IsFiniteSet(rows) /\ limit \in Nat /\ Cardinality(rows) <= limit => R = rows
<1>1. R \in SUBSET rows /\ Cardinality(R) = Thoughts!Fewest(rows, limit)
  BY ThoughtsCardinality DEF Thoughts!Limited, Thoughts!kSubset
<1>2. ASSUME IsFiniteSet(rows), limit \in Nat, Cardinality(rows) <= limit PROVE R = rows
  <2>1. Cardinality(rows) \in Nat
    BY <1>2, FS_CardinalityType
  <2>2. Cardinality(R) = Cardinality(rows)
    BY <1>1, <1>2, <2>1, ThoughtsCardinality DEF Thoughts!Fewest
  <2>3. QED BY <1>1, <1>2, <2>2, FS_Subset
<1>3. QED BY <1>1, <1>2

\* A random thought is a link that is missing.
LEMMA RandomStep ==
  ASSUME ThoughtsHold, Thoughts!RandomTries
  PROVE  ThoughtsHold'
<1>1. call # None /\ call = [source |-> "random", seeds |-> call.seeds] /\ UNCHANGED served
  <2>1. call # None /\ call.source = "random" /\ UNCHANGED served
    BY DEF Thoughts!RandomTries
  <2>2. QED BY <2>1 DEF ThoughtsHold
<1>2. CASE Thoughts!Nothing
  BY <1>1, <1>2 DEF Thoughts!Nothing, ThoughtsHold, Thoughts!ThoughtsAreGrounded
<1>3. ASSUME NEW seed, Thoughts!GoOn([call EXCEPT !.seeds = @ \ {seed}])
      PROVE  ThoughtsHold'
  BY <1>1, <1>3 DEF Thoughts!GoOn, ThoughtsHold, Thoughts!ThoughtsAreGrounded
<1>4. ASSUME NEW seed, NEW oneHop \in Thoughts!Limited(Thoughts!Incident("head", seed), RowLimit),
             NEW twoHop \in Thoughts!Limited(Thoughts!TwoHops(seed), RowLimit),
             NEW p \in {Predicate[e[2]] : e \in oneHop},
             NEW o \in Thoughts!Missing(seed, oneHop, twoHop),
             Thoughts!Offer("random", seed, p, o)
      PROVE  ThoughtsHold'
  <2> DEFINE links == {e \in served : e[1] = seed}
             t == [source |-> "random", s |-> seed, p |-> p, o |-> o, graph |-> served]
  <2>1. Thoughts!Incident("head", seed) = links
    BY DEF Thoughts!Incident
  <2>2. oneHop \subseteq links /\ twoHop \subseteq Thoughts!TwoHops(seed)
    BY <2>1, LimitedRows
  <2>3. \E e \in links : Predicate[e[2]] = p
    BY <2>2
  <2>4. \E e \in links, f \in served : f[1] = e[3] /\ f[3] = o
    BY <2>2 DEF Thoughts!Missing, Thoughts!TwoHops
  <2>5. LowerKey[o] # LowerKey[seed] /\ \A e \in oneHop : LowerKey[e[3]] # LowerKey[o]
    BY DEF Thoughts!Missing
  <2>6. Cardinality(links) <= RowLimit => oneHop = links
    <3>1. IsFiniteSet(links)
      BY ServedGraphsAreFinite, FS_Subset DEF ThoughtsHold
    <3>2. QED BY <2>1, <3>1, LimitedRows, RowLimitIsNatural
  <2>7. Thoughts!MissingLink(t)
    BY <2>3, <2>4, <2>5, <2>6, ThoughtsCardinality DEF Thoughts!MissingLink
  <2>8. thought' = t /\ call' = None
    BY <1>4 DEF Thoughts!Offer
  <2>9. t.source = "random"
    OBVIOUS
  <2> HIDE DEF t
  <2>10. QED BY <1>1, <2>7, <2>8, <2>9 DEF ThoughtsHold, Thoughts!ThoughtsAreGrounded, Thoughts!MissingLink
<1>5. QED BY <1>2, <1>3, <1>4 DEF Thoughts!RandomTries

\* A bridge is strong enough, and nothing that could be proposed is stronger:
\* what the query left out is no stronger than what it returned.
LEMMA BridgeStep ==
  ASSUME ThoughtsHold, Thoughts!BridgeTries
  PROVE  ThoughtsHold'
<1> DEFINE seed == call.seed
           role == call.role
           strength(label, name) == Thoughts!Cardinality(Thoughts!SharedBy(served, role, seed, name, label))
           shared == [p \in Thoughts!Pairs(role, seed) |-> strength(p[1], p[2])]
<1>1. /\ call # None /\ role \in Thoughts!Roles /\ UNCHANGED served
      /\ call = [source |-> "bridge", role |-> role, seed |-> seed]
  <2>1. call # None /\ call.source = "bridge" /\ UNCHANGED served
    BY DEF Thoughts!BridgeTries
  <2>2. QED BY <2>1 DEF ThoughtsHold
<1>2. CASE Thoughts!Nothing
  BY <1>1, <1>2 DEF Thoughts!Nothing, ThoughtsHold, Thoughts!ThoughtsAreGrounded
<1>3. ASSUME NEW rows \in Thoughts!Greatest(DOMAIN shared, shared, PairLimit), seed \in PlausibleNames,
             NEW p \in rows, Thoughts!Proposable(p, seed), shared[p] >= MinShared,
             \A q \in rows : Thoughts!Proposable(q, seed) /\ shared[q] >= MinShared => shared[q] <= shared[p],
             Thoughts!Offer(role, seed, Predicate[p[1]], p[2])
      PROVE  ThoughtsHold'
  <2> DEFINE t == [source |-> role, s |-> seed, p |-> Predicate[p[1]], o |-> p[2], graph |-> served]
  <2>1. /\ rows \subseteq Thoughts!Pairs(role, seed)
        /\ \A x \in rows, y \in Thoughts!Pairs(role, seed) \ rows : shared[x] >= shared[y]
    <3>1. DOMAIN shared = Thoughts!Pairs(role, seed)
      OBVIOUS
    <3> HIDE DEF shared
    <3>2. rows \subseteq DOMAIN shared
      BY LimitedRows DEF Thoughts!Greatest
    <3>3. QED BY <3>1, <3>2 DEF Thoughts!Greatest
  <2>2. \A x \in Thoughts!Pairs(role, seed) : shared[x] = strength(x[1], x[2])
    OBVIOUS
  <2>3. ASSUME NEW x \in (DOMAIN Predicate) \X (EntityNames \ {seed})
        PROVE  strength(x[1], x[2]) > strength(p[1], p[2]) => ~Thoughts!Proposable(x, seed)
    <3>1. SUFFICES ASSUME strength(x[1], x[2]) > strength(p[1], p[2]), Thoughts!Proposable(x, seed)
                   PROVE  FALSE
      OBVIOUS
    <3>2. \A label, name : strength(label, name) \in Nat
      <4>1. TAKE label, name
      <4>2. Thoughts!SharedBy(served, role, seed, name, label) \subseteq EntityNames
        BY DEF Thoughts!SharedBy
      <4>3. QED BY <4>2, EntityNamesAreFinite, FS_Subset, FS_CardinalityType, ThoughtsCardinality
    <3>3. x \in Thoughts!Pairs(role, seed)
      <4>1. Thoughts!SharedBy(served, role, seed, x[2], x[1]) # {}
        <5>1. strength(x[1], x[2]) # 0
          <6> HIDE DEF strength
          <6>1. QED BY <3>1, <3>2
        <5>2. QED BY <5>1, FS_EmptySet, ThoughtsCardinality
      <4>2. QED BY <4>1 DEF Thoughts!Pairs
    <3>4. /\ shared[x] = strength(x[1], x[2]) /\ shared[p] = strength(p[1], p[2])
          /\ shared[x] \in Nat /\ shared[p] \in Nat
      <4>1. p \in Thoughts!Pairs(role, seed)
        BY <2>1
      <4>2. shared[x] = strength(x[1], x[2]) /\ shared[p] = strength(p[1], p[2])
        BY <2>2, <3>3, <4>1
      <4> HIDE DEF strength, shared
      <4>3. QED BY <3>2, <4>2
    <3> HIDE DEF strength, shared
    <3>5. CASE x \in rows
      BY <1>3, <3>1, <3>4, <3>5, MinSharedIsNatural
    <3>6. CASE x \notin rows
      BY <2>1, <3>1, <3>3, <3>4, <3>6
    <3>7. QED BY <3>5, <3>6
  <2>4. Thoughts!Bridge(t)
    <3>1. p \in Thoughts!Pairs(role, seed)
      BY <2>1
    <3>2. p \in (DOMAIN Predicate) \X (EntityNames \ {seed})
      BY <3>1 DEF Thoughts!Pairs
    <3>3. {seed, p[2]} \subseteq PlausibleNames /\ LowerKey[p[2]] # LowerKey[seed]
      BY <1>3 DEF Thoughts!Proposable
    <3>4. strength(p[1], p[2]) >= MinShared
      BY <1>3, <2>2, <3>1
    <3>5. p[1] \in DOMAIN Predicate /\ Predicate[p[1]] = Predicate[p[1]]
      BY <3>2
    <3>6. QED BY <2>3, <3>3, <3>4, <3>5 DEF Thoughts!Bridge
  <2>5. thought' = t /\ call' = None
    BY <1>3 DEF Thoughts!Offer
  <2>6. t.source \in {"head", "tail"}
    BY <1>1 DEF Thoughts!Roles
  <2> HIDE DEF t
  <2>7. Thoughts!ThoughtsAreGrounded'
    BY <2>4, <2>5, <2>6 DEF Thoughts!ThoughtsAreGrounded, Thoughts!Bridge
  <2>8. QED BY <1>1, <2>5, <2>7 DEF ThoughtsHold
<1>4. QED BY <1>1, <1>2, <1>3 DEF Thoughts!BridgeTries

\* A step that begins or ends a call and offers nothing.
LEMMA QuietStep ==
  ASSUME ThoughtsHold, served' \in ServedGraphs, thought' = None,
         \/ call' = None
         \/ \E s : call' = [source |-> "random", seeds |-> s]
         \/ \E s : \E r \in Thoughts!Roles : call' = [source |-> "bridge", role |-> r, seed |-> s]
         \/ \E k : call' = [source |-> "semantic", keys |-> k]
  PROVE  ThoughtsHold'
<1>1. Thoughts!ThoughtsAreGrounded'
  BY DEF Thoughts!ThoughtsAreGrounded
<1>2. call' # None => \/ call' = [source |-> "random", seeds |-> call'.seeds]
                      \/ /\ call' = [source |-> "bridge", role |-> call'.role, seed |-> call'.seed]
                         /\ call'.role \in Thoughts!Roles
                      \/ call' = [source |-> "semantic", keys |-> call'.keys]
  OBVIOUS
<1>3. QED BY <1>1, <1>2 DEF ThoughtsHold, Thoughts!Roles

LEMMA BridgeBeginsStep ==
  ASSUME ThoughtsHold, Thoughts!BridgeBegins \/ Thoughts!BridgeFails
  PROVE  ThoughtsHold'
<1>1. UNCHANGED served /\ Thoughts!Role \in Thoughts!Roles
  BY DEF Thoughts!BridgeBegins, Thoughts!BridgeFails, Thoughts!Role, Thoughts!Roles
<1>2. Thoughts!Nothing \/ \E known : Thoughts!Seeded(known)
  BY DEF Thoughts!BridgeBegins, Thoughts!BridgeFails
<1>3. thought' = None /\ (call' = None \/
        \E s : call' = [source |-> "bridge", role |-> Thoughts!Role, seed |-> s])
  BY <1>2 DEF Thoughts!Seeded, Thoughts!Nothing, Thoughts!GoOn
<1>4. served' \in ServedGraphs
  BY <1>1 DEF ThoughtsHold
<1>5. CASE call' = None
  BY <1>3, <1>4, <1>5, QuietStep
<1>6. ASSUME NEW s, call' = [source |-> "bridge", role |-> Thoughts!Role, seed |-> s]
      PROVE  ThoughtsHold'
  <2>1. \E seed : \E role \in Thoughts!Roles : call' = [source |-> "bridge", role |-> role, seed |-> seed]
    <3> DEFINE role == Thoughts!Role
    <3>1. role \in Thoughts!Roles /\ call' = [source |-> "bridge", role |-> role, seed |-> s]
      BY <1>1, <1>6
    <3> HIDE DEF role
    <3>2. QED BY <3>1
  <2>2. QED BY <1>3, <1>4, <2>1, QuietStep
<1>7. QED BY <1>3, <1>5, <1>6

\* A semantic thought is about two entities.
LEMMA SemanticStep ==
  ASSUME ThoughtsHold, Thoughts!SemanticTries
  PROVE  ThoughtsHold'
<1>1. call # None /\ call = [source |-> "semantic", keys |-> call.keys] /\ UNCHANGED served
  <2>1. call # None /\ call.source = "semantic" /\ UNCHANGED served
    BY DEF Thoughts!SemanticTries
  <2>2. QED BY <2>1 DEF ThoughtsHold
<1>2. served' \in ServedGraphs
  BY <1>1 DEF ThoughtsHold
<1>3. CASE Thoughts!Nothing
  BY <1>2, <1>3, QuietStep DEF Thoughts!Nothing
<1>4. CASE Thoughts!GoOn([call EXCEPT !.keys = Tail(@)])
  <2>1. call' = [source |-> "semantic", keys |-> Tail(call.keys)] /\ thought' = None
    <3> DEFINE rest == Tail(call.keys)
               keys == call.keys
    <3>1. call = [source |-> "semantic", keys |-> keys]
      BY <1>1
    <3>2. call' = [call EXCEPT !.keys = rest] /\ thought' = None
      BY <1>4 DEF Thoughts!GoOn
    <3> HIDE DEF rest, keys
    <3>3. call' = [source |-> "semantic", keys |-> rest]
      BY <3>1, <3>2
    <3>4. QED BY <3>2, <3>3 DEF rest
  <2>2. QED BY <1>2, <2>1, QuietStep
<1>5. ASSUME NEW s, NEW p, NEW o, LowerKey[o] # LowerKey[s], Thoughts!Offer("semantic", s, p, o)
      PROVE  ThoughtsHold'
  <2> DEFINE t == [source |-> "semantic", s |-> s, p |-> p, o |-> o, graph |-> served]
  <2>1. thought' = t /\ call' = None
    BY <1>5 DEF Thoughts!Offer
  <2>2. t.source = "semantic" /\ LowerKey[t.o] # LowerKey[t.s]
    BY <1>5
  <2> HIDE DEF t
  <2>3. Thoughts!ThoughtsAreGrounded'
    BY <2>1, <2>2 DEF Thoughts!ThoughtsAreGrounded
  <2>4. QED BY <1>2, <2>1, <2>3 DEF ThoughtsHold
<1>6. QED
  <2>1. \/ Thoughts!Nothing \/ Thoughts!GoOn([call EXCEPT !.keys = Tail(@)])
        \/ \E s, p, o : LowerKey[o] # LowerKey[s] /\ Thoughts!Offer("semantic", s, p, o)
    BY DEF Thoughts!SemanticTries
  <2>2. QED BY <1>3, <1>4, <1>5, <2>1

LEMMA ThoughtsStep ==
  ASSUME ThoughtsHold, [Thoughts!Next]_(Thoughts!vars)
  PROVE  ThoughtsHold'
<1>1. served \in ServedGraphs
  BY DEF ThoughtsHold
<1>2. CASE UNCHANGED Thoughts!vars
  BY <1>2 DEF Thoughts!vars, Thoughts!kept, ThoughtsHold, Thoughts!ThoughtsAreGrounded
<1>3. CASE Thoughts!RandomBegins
  BY <1>1, <1>3, QuietStep DEF Thoughts!RandomBegins, Thoughts!GoOn
<1>4. CASE Thoughts!RandomTries
  BY <1>4, RandomStep
<1>5. CASE Thoughts!BridgeBegins \/ Thoughts!BridgeFails
  BY <1>5, BridgeBeginsStep
<1>6. CASE Thoughts!BridgeTries
  BY <1>6, BridgeStep
<1>7. CASE Thoughts!SemanticBegins
  <2>1. UNCHANGED served /\ \E keys : Thoughts!GoOn([source |-> "semantic", keys |-> keys])
    BY <1>7 DEF Thoughts!SemanticBegins
  <2>2. QED BY <1>1, <2>1, QuietStep DEF Thoughts!GoOn
<1>8. CASE Thoughts!SemanticTries
  BY <1>8, SemanticStep
<1>9. CASE Thoughts!Fails
  BY <1>1, <1>9, QuietStep DEF Thoughts!Fails, Thoughts!Nothing
<1>10. CASE Thoughts!Swap \/ Thoughts!Expire
  <2>1. UNCHANGED <<call, thought>> /\ served' \in ServedGraphs
    BY <1>1, <1>10 DEF Thoughts!Swap, Thoughts!Expire
  <2>2. Thoughts!ThoughtsAreGrounded'
    BY <2>1 DEF ThoughtsHold, Thoughts!ThoughtsAreGrounded
  <2>3. QED BY <2>1, <2>2 DEF ThoughtsHold
<1>11. QED BY <1>2, <1>3, <1>4, <1>5, <1>6, <1>7, <1>8, <1>9, <1>10 DEF Thoughts!Next

\* What the sources propose holds in the graph their last helper saw, for any
\* graphs served, any samples, and any limits of the queries
\* (topic_selector.go:417-802).
THEOREM ThoughtsHoldInTheirGraph == SeqSpec => []ThoughtsAreGrounded
<1> DEFINE Inv == kind = "thoughts" => ThoughtsHold
<1>1. SeqInit => Inv
  BY DEF SeqInit, Thoughts!Init, ThoughtsHold, Thoughts!ThoughtsAreGrounded
<1>2. ASSUME Inv, [SeqNext]_allVars PROVE Inv'
  <2>1. SUFFICES ASSUME kind' = "thoughts" PROVE ThoughtsHold'
    OBVIOUS
  <2>2. kind = "thoughts" /\ [Thoughts!Next]_(Thoughts!vars)
    BY <1>2, <2>1 DEF SeqNext, Store, Select, Think, Reason, BuildGraph, Answer, allVars, thoughtVars,
                      Thoughts!vars, Thoughts!kept
  <2>3. QED BY <1>2, <2>2, ThoughtsStep
<1>3. Inv => ThoughtsAreGrounded
  BY DEF ThoughtsAreGrounded, ThoughtsHold
<1>4. QED BY <1>1, <1>2, <1>3, PTL DEF SeqSpec

-----------------------------------------------------------------------------
(* Builds: what the operators compute *)

\* Upwards adds to a set all that edges lead to from it.
LEMMA UpwardsIsClosed ==
  ASSUME NEW E, IsFiniteSet(E), NEW S, IsFiniteSet(S)
  PROVE  /\ S \subseteq Build!Upwards(E, S)
         /\ \A e \in E : e[1] \in Build!Upwards(E, S) => e[2] \in Build!Upwards(E, S)
<1> DEFINE U == S \cup {e[2] : e \in E}
           f == [T \in SUBSET U |-> {e[2] : e \in {e \in E : e[1] \in T}}]
           Def(c) == c = [T \in SUBSET U |->
                            IF {e[2] : e \in {e \in E : e[1] \in T}} \subseteq T THEN T
                            ELSE c[T \cup {e[2] : e \in {e \in E : e[1] \in T}}]]
<1>1. IsFiniteSet(U)
  <2> DEFINE h == [e \in E |-> e[2]]
  <2>1. h \in Surjection(E, {e[2] : e \in E})
    BY DEF Surjection
  <2> HIDE DEF h
  <2>2. IsFiniteSet({e[2] : e \in E})
    BY <2>1, FS_Surjection
  <2>3. QED BY <2>2, FS_Union
<1>2. f \in [SUBSET U -> SUBSET U]
  OBVIOUS
<1>3. Monotone(f, U)
  BY DEF Monotone
<1>4. \A c : Def(c) <=> Saturates(c, f, U)
  BY DEF Saturates
<1>5. \E c : Saturates(c, f, U)
  <2> HIDE DEF f
  <2>1. QED BY <1>2, <1>3, SaturationExists
<1> DEFINE up == CHOOSE c : Def(c)
<1>6. Build!Upwards(E, S) = up[S]
  BY DEF Build!Upwards
<1>7. Saturates(up, f, U)
  <2> HIDE DEF Def, f
  <2>1. Def(up)
    BY <1>4, <1>5
  <2>2. QED BY <1>4, <2>1
<1>8. Least(up[S], S, f, U)
  <2> HIDE DEF f, up
  <2>1. S \in SUBSET U
    OBVIOUS
  <2> HIDE DEF U
  <2>2. QED BY <1>1, <1>2, <1>3, <1>7, <2>1, SaturationIsLeast
<1>9. up[S] \in SUBSET U /\ S \subseteq up[S] /\ f[up[S]] \subseteq up[S]
  BY <1>8 DEF Least
<1> HIDE DEF up
<1>10. QED BY <1>6, <1>9

\* A direction that is derived is derived again, and not the other one.
LEMMA OrientIsStable ==
  ASSUME NEW x, NEW y, NEW d \in Build!Orient(x, y)
  PROVE  /\ d \in {<<x, y>>, <<y, x>>}
         /\ Build!Orient(d[1], d[2]) = {d}
<1> DEFINE up(s, t) == Build!IsAncestor(t, s)
<1>1. x # y
  BY DEF Build!Orient
<1>2. CASE Build!DeriveOntology(x, y) # {}
  <2>1. d \in Build!DeriveOntology(x, y)
    BY <1>1, <1>2 DEF Build!Orient
  <2>2. d \in {<<x, y>>, <<y, x>>} /\ Build!DeriveOntology(d[1], d[2]) = {d}
    BY <2>1 DEF Build!DeriveOntology
  <2>3. QED BY <1>1, <2>2 DEF Build!Orient
<1>3. CASE Build!DeriveOntology(x, y) = {}
  <2>1. Lexical /\ d \in Build!DeriveLexical(x, y)
    BY <1>1, <1>3 DEF Build!Orient
  <2>2. Build!DeriveOntology(y, x) = {}
    BY <1>3 DEF Build!DeriveOntology
  <2>3. d \in {<<x, y>>, <<y, x>>} /\ Build!DeriveLexical(d[1], d[2]) = {d}
    BY <2>1 DEF Build!DeriveLexical
  <2>4. QED BY <1>1, <1>3, <2>1, <2>2, <2>3 DEF Build!Orient
<1>4. QED BY <1>2, <1>3

Inheritable == Build!InheritablePredicates

LEMMA InheritablesMirrored ==
  ASSUME NEW p \in Inheritable
  PROVE  /\ p \in DOMAIN Supers /\ p \notin Build!TaxonomicPredicates
         /\ Domain[p] # {} /\ Codomain[p] # {} =>
              /\ p \in DOMAIN InverseOf /\ InverseOf[p] \in DOMAIN InverseOf \cap DOMAIN Supers
              /\ InverseOf[InverseOf[p]] = p /\ Canon[InverseOf[p]] = InverseOf[p]
              /\ Domain[InverseOf[p]] = Codomain[p] /\ Codomain[InverseOf[p]] = Domain[p]
<1>1. PICK c \in {Compositions[i] : i \in DOMAIN Compositions} : c[1] = "is_a" /\ c[2] = c[3] /\ p = c[2]
  BY DEF Inheritable, Build!InheritablePredicates, Build!Elements
<1>2. p \in DOMAIN Supers
  BY <1>1, RegistryIsValidated
<1>3. \A q \in DOMAIN InverseOf : InverseOf[q] \in DOMAIN Supers /\ Canon[InverseOf[q]] = InverseOf[q]
  BY RegistryIsValidated, SpellingsAreUnambiguous
<1>4. p # "is_a" /\ ("is_a" \in DOMAIN InverseOf => p # InverseOf["is_a"])
  BY <1>1, InheritablesAreDeclared
<1>5. p \notin Build!TaxonomicPredicates
  BY <1>4 DEF Build!TaxonomicPredicates
<1>6. QED BY <1>1, <1>2, <1>3, <1>5, InheritablesAreDeclared

\* The code turns a relation round when its types say so, and only then.
LEMMA NormalizedReadsTypes ==
  ASSUME NEW f, Canon[f[2]] \in Inheritable
  PROVE  Build!Normalized(f) = IF Build!Backwards(f) THEN <<f[3], Canon[f[2]], f[1]>>
                               ELSE <<f[1], Canon[f[2]], f[3]>>
<1> DEFINE p == Canon[f[2]]
           h == Labels[f[1]]
           t == Labels[f[3]]
           oriented == Build!OrientedPredicate(f[2], h, t)
           turned == oriented # f[2] /\ oriented \in DOMAIN InverseOf /\ InverseOf[oriented] = p
<1>1. Build!Normalized(f) = IF turned THEN <<f[3], p, f[1]>> ELSE <<f[1], p, f[3]>>
  BY DEF Build!Normalized
<1>2. Build!Backwards(f) <=> ~Build!Fits(p, h, t) /\ Build!Fits(p, t, h)
  BY DEF Build!Backwards
<1>3. CASE ~Build!Fits(p, h, t) /\ Build!Fits(p, t, h)
  <2>1. Domain[p] # {} /\ Codomain[p] # {}
    BY <1>3 DEF Build!Fits
  <2>2. /\ p \in DOMAIN Supers
        /\ p \in DOMAIN InverseOf /\ InverseOf[p] \in DOMAIN InverseOf \cap DOMAIN Supers
        /\ InverseOf[InverseOf[p]] = p /\ Canon[InverseOf[p]] = InverseOf[p]
        /\ Domain[InverseOf[p]] = Codomain[p] /\ Codomain[InverseOf[p]] = Domain[p]
    BY <2>1, InheritablesMirrored
  <2>3. Build!Fits(InverseOf[p], h, t) /\ Build!Shaped(p) /\ Build!Shaped(InverseOf[p])
    BY <1>3, <2>1, <2>2 DEF Build!Fits, Build!Shaped, Build!Known
  <2>4. oriented = InverseOf[p]
    BY <1>3, <2>2, <2>3 DEF Build!OrientedPredicate
  <2>5. InverseOf[p] # f[2]
    <3>1. SUFFICES ASSUME InverseOf[p] = f[2] PROVE FALSE
      OBVIOUS
    <3>2. p = InverseOf[p]
      BY <2>2, <3>1
    <3>3. Domain[p] = Codomain[p]
      BY <2>2, <3>2
    <3>4. QED BY <1>3, <3>3 DEF Build!Fits
  <2>6. turned
    BY <2>2, <2>4, <2>5
  <2>7. QED BY <1>1, <1>2, <1>3, <2>6
<1>4. CASE ~(~Build!Fits(p, h, t) /\ Build!Fits(p, t, h))
  <2>1. ~turned
    <3>1. SUFFICES ASSUME turned PROVE FALSE
      OBVIOUS
    <3>2. /\ oriented = InverseOf[p] /\ Build!Shaped(p) /\ ~Build!Fits(p, h, t)
          /\ Build!Fits(InverseOf[p], h, t)
      BY <3>1 DEF Build!OrientedPredicate
    <3>3. Domain[InverseOf[p]] = Codomain[p] /\ Codomain[InverseOf[p]] = Domain[p]
      BY <3>2, InheritablesMirrored DEF Build!Shaped
    <3>4. Build!Fits(p, t, h)
      BY <3>2, <3>3 DEF Build!Fits
    <3>5. QED BY <1>4, <3>2, <3>4
  <2>2. QED BY <1>1, <1>2, <1>4, <2>1
<1>5. QED BY <1>3, <1>4

LEMMA DirectRowsAreHeld ==
  /\ Build!DirectRows = Build!Held
  /\ \A f \in Build!Held : /\ f = <<f[1], f[2], f[3]>>
                           /\ f[1] \in job.scope /\ f[2] \in Inheritable
<1> DEFINE read(f) == IF Build!Backwards(f) THEN <<f[3], Canon[f[2]], f[1]>> ELSE <<f[1], Canon[f[2]], f[3]>>
<1>1. Build!Held = {t \in {read(f) : f \in Build!InScope} : t[1] \in job.scope /\ t[2] \in Inheritable}
  BY DEF Build!Held, Inheritable
<1>2. \A f : /\ read(f)[2] = Canon[f[2]]
             /\ read(f) = <<read(f)[1], read(f)[2], read(f)[3]>>
  OBVIOUS
<1>3. \A f : Canon[f[2]] \in Inheritable => Build!Normalized(f) = read(f)
  <2> HIDE DEF read
  <2>1. \A f : Canon[f[2]] \in Inheritable => Build!Normalized(f) = read(f)
    BY NormalizedReadsTypes DEF read
  <2>2. QED BY <2>1
<1> HIDE DEF read
<1>4. Build!DirectRows = {t \in {read(f) : f \in {f \in Build!InScope : Canon[f[2]] \in Inheritable}} : t[1] \in job.scope}
  <2>1. Build!DirectRows = {t \in {Build!Normalized(f) : f \in {f \in Build!InScope : Canon[f[2]] \in Inheritable}} :
                              t[1] \in job.scope}
    BY DEF Build!DirectRows, Inheritable
  <2>2. QED BY <1>3, <2>1
<1>5. QED BY <1>1, <1>2, <1>4
-----------------------------------------------------------------------------
(* Builds: what the steps keep *)

\* What the hierarchy's edges are between, and the edges that are emitted, as
\* they are and without their predicates.
EdgeEnds == {Build!Key(r[1]) : r \in job.hierarchy} \cup {Build!Key(r[2]) : r \in job.hierarchy}
EmittedRows == {e \in Build!Rows : e[2] \in Build!Parents /\ e[1] \in Build!ScopeKeys \cup Build!Parents}
Emitted == {<<e[1], e[2]>> : e \in EmittedRows}

Holders(p, o) == {x \in job.scope : <<x, p, o>> \in Build!Held}
ScopeUnder(k) == {x \in job.scope : k \in Build!Upwards(Emitted, {Build!Key(x)})}
Supporters(r) == {e[1] : e \in {e \in Emitted : e[2] = r.s /\ ScopeUnder(e[1]) \cap Holders(r.p, r.o) # {}}}

\* The hierarchy is between entities that were read, in a direction that stands.
EdgesHold == \A e \in edges :
  /\ e[1] \in EdgeEnds /\ e[2] \in EdgeEnds /\ Canon[e[3]] \in Build!TaxonomicPredicates
  /\ \E x, y : /\ e = <<Build!Key(x), Build!Key(y), e[3]>>
               /\ job.derived => Build!Orient(x, y) = {<<x, y>>}

\* A relation is carried by a node of the derived graph, above all it is from,
\* or by what has no parents: an entity of a scope that is given by names.
CarriedHolds(c) ==
  /\ c.from # {} /\ c.from \subseteq Holders(c.p, c.o) /\ c.p \in Inheritable
  /\ \/ c.key \in Build!ScopeKeys \cup Build!Parents /\ c.from \subseteq ScopeUnder(c.key)
     \/ \A e \in edges : e[1] # c.key

LiftedHolds(r) ==
  /\ r.s \in Build!Parents /\ r.p \in Inheritable
  /\ MinSupport <= r.support /\ r.support <= Cardinality(Supporters(r))
  /\ r.from \subseteq Holders(r.p, r.o) \cap ScopeUnder(r.s)

SharedAreLifted == \A p \in Build!Parents, q \in Inheritable, o \in DOMAIN Labels :
  Cardinality({x \in job.scope : <<Build!Key(x), p>> \in Emitted /\ <<x, q, o>> \in Build!Held}) >= MinSupport
    => \E r \in lifted : r.s = p /\ r.p = q /\ r.o = o

\* The first round offers what the scope holds itself.
FirstRound ==
  /\ carried = {[key |-> Build!Uuid(f[1]), p |-> f[2], o |-> f[3], from |-> {f[1]}] : f \in Build!DirectRows}
  /\ lifted = {}

AllRelations == Build!TaxonomyRelations \cup Build!DirectRelations \cup Build!LiftedRelations
AllKeys == Build!ScopeKeys \cup Build!Parents
             \cup {r[3] : r \in Build!LiftedRelations} \cup {r[3] : r \in Build!DirectRelations}
Assembled ==
  [nodes |-> {[key |-> k, kind |-> Build!Kind(k), depth |-> Build!Depth(k)] : k \in AllKeys},
   relations |-> AllRelations,
   emitted |-> Build!Emit(AllKeys, AllRelations),
   dropped |-> Build!DroppedRelations(AllRelations)]

BuildHolds ==
  /\ job \in Jobs /\ EdgesHold
  /\ phase \in {"reading", "levelling"} => lifted = {}
  /\ phase \in {"lifting", "done"} => \A r \in lifted : LiftedHolds(r)
  /\ phase = "lifting" => /\ \A c \in carried : CarriedHolds(c)
                          /\ round \in Nat
                          /\ \/ round = 1 /\ FirstRound
                             \/ round > 1 /\ (~job.byName => SharedAreLifted)
  /\ phase = "done" => derived = Assembled /\ (~job.byName => SharedAreLifted)

LEMMA BuildCardinality == \A S : Build!Cardinality(S) = Cardinality(S)
BY DEF Build!Cardinality, Cardinality

LEMMA EdgesStay ==
  ASSUME UNCHANGED <<job, edges>>, EdgesHold
  PROVE  EdgesHold'
<1>1. \A k : (Build!Key(k))' = Build!Key(k)
  BY DEF Build!Key
<1>2. EdgeEnds' = EdgeEnds
  BY <1>1 DEF EdgeEnds
<1>3. QED BY <1>1, <1>2 DEF EdgesHold

\* While the hierarchy and its levels stay, all that is computed from them stays.
LEMMA HierarchyStays ==
  ASSUME UNCHANGED <<job, edges, levels>>
  PROVE  /\ Build!Rows' = Build!Rows /\ Build!Parents' = Build!Parents /\ Build!ScopeKeys' = Build!ScopeKeys
         /\ Build!Held' = Build!Held /\ Build!DirectRows' = Build!DirectRows /\ Emitted' = Emitted
         /\ \A k : (Build!Key(k))' = Build!Key(k) /\ (ScopeUnder(k))' = ScopeUnder(k)
         /\ \A p, o : (Holders(p, o))' = Holders(p, o)
         /\ \A c : CarriedHolds(c) => (CarriedHolds(c))'
         /\ \A r : LiftedHolds(r) => (LiftedHolds(r))'
<1>1. \A k : (Build!Component(k))' = Build!Component(k)
  BY DEF Build!Component
<1>2. \A k : (Build!Level(k))' = Build!Level(k)
  BY <1>1 DEF Build!Level
<1>3. Build!Rows' = Build!Rows
  BY <1>1, <1>2 DEF Build!Rows
<1>4. \A p : (Build!Children(p))' = Build!Children(p)
  BY <1>3 DEF Build!Children
<1>5. Build!Parents' = Build!Parents
  BY <1>3, <1>4 DEF Build!Parents
<1>6. \A k : (Build!Key(k))' = Build!Key(k)
  BY DEF Build!Key
<1>7. Build!ScopeKeys' = Build!ScopeKeys
  BY <1>6 DEF Build!ScopeKeys
<1>8. Build!InScope' = Build!InScope
  BY DEF Build!InScope, Build!Stored
<1>9. Build!Held' = Build!Held
  BY <1>8 DEF Build!Held
<1>10. Build!DirectRows' = Build!DirectRows
  BY <1>8 DEF Build!DirectRows
<1>11. Emitted' = Emitted
  BY <1>3, <1>5, <1>7 DEF Emitted, EmittedRows
<1>12. \A k : (ScopeUnder(k))' = ScopeUnder(k)
  BY <1>6, <1>11 DEF ScopeUnder
<1>13. \A p, o : (Holders(p, o))' = Holders(p, o)
  BY <1>9 DEF Holders
<1>14. ASSUME NEW c, CarriedHolds(c) PROVE (CarriedHolds(c))'
  BY <1>5, <1>7, <1>12, <1>13, <1>14 DEF CarriedHolds, Inheritable, Build!InheritablePredicates
<1>15. ASSUME NEW r, LiftedHolds(r) PROVE (LiftedHolds(r))'
  <2>1. (Supporters(r))' = Supporters(r)
    BY <1>11, <1>12, <1>13 DEF Supporters
  <2>2. QED BY <1>5, <1>12, <1>13, <1>15, <2>1 DEF LiftedHolds, Inheritable
<1>16. QED BY <1>3, <1>5, <1>6, <1>7, <1>9, <1>10, <1>11, <1>12, <1>13, <1>14, <1>15

\* The hierarchy that was read is finite, and so is what is emitted of it.
LEMMA EdgesAreFinite ==
  ASSUME job \in Jobs, EdgesHold
  PROVE  /\ IsFiniteSet(EdgeEnds) /\ IsFiniteSet(Emitted)
         /\ EmittedRows \subseteq Build!Rows /\ Build!Rows \subseteq edges
         /\ Emitted \subseteq EdgeEnds \X EdgeEnds
         /\ \A e \in edges : e = <<e[1], e[2], e[3]>>
<1> DEFINE below == {Build!Key(r[1]) : r \in job.hierarchy}
           above == {Build!Key(r[2]) : r \in job.hierarchy}
<1>1. IsFiniteSet(job.hierarchy)
  BY HierarchiesAreFinite
<1>2. IsFiniteSet(below)
  <2> DEFINE h == [r \in job.hierarchy |-> Build!Key(r[1])]
  <2>1. h \in Surjection(job.hierarchy, below)
    BY DEF Surjection
  <2> HIDE DEF h, below
  <2>2. QED BY <1>1, <2>1, FS_Surjection
<1>3. IsFiniteSet(above)
  <2> DEFINE h == [r \in job.hierarchy |-> Build!Key(r[2])]
  <2>1. h \in Surjection(job.hierarchy, above)
    BY DEF Surjection
  <2> HIDE DEF h, above
  <2>2. QED BY <1>1, <2>1, FS_Surjection
<1>4. IsFiniteSet(EdgeEnds)
  <2>1. EdgeEnds = below \cup above
    BY DEF EdgeEnds
  <2> HIDE DEF below, above
  <2>2. QED BY <1>2, <1>3, <2>1, FS_Union
<1>5. \A e \in edges : e[1] \in EdgeEnds /\ e[2] \in EdgeEnds /\ e = <<e[1], e[2], e[3]>>
  BY DEF EdgesHold
<1>6. EmittedRows \subseteq Build!Rows /\ Build!Rows \subseteq edges
  BY DEF EmittedRows, Build!Rows
<1>7. IsFiniteSet(EdgeEnds \X EdgeEnds)
  BY <1>4, FS_Product
<1>8. Emitted \subseteq EdgeEnds \X EdgeEnds
  BY <1>5, <1>6 DEF Emitted
<1>9. QED BY <1>4, <1>5, <1>6, <1>7, <1>8, FS_Subset

\* An entity of the scope is under its own key, and under what is above that.
LEMMA ScopeUnderRises ==
  ASSUME job \in Jobs, EdgesHold
  PROVE  /\ \A x \in job.scope : x \in ScopeUnder(Build!Key(x))
         /\ \A e \in Emitted : ScopeUnder(e[1]) \subseteq ScopeUnder(e[2])
<1>1. IsFiniteSet(Emitted)
  BY EdgesAreFinite
<1>2. ASSUME NEW k
      PROVE  /\ k \in Build!Upwards(Emitted, {k})
             /\ \A e \in Emitted : e[1] \in Build!Upwards(Emitted, {k}) => e[2] \in Build!Upwards(Emitted, {k})
  <2>1. IsFiniteSet({k})
    BY FS_Singleton
  <2>2. QED BY <1>1, <2>1, UpwardsIsClosed
<1>3. QED BY <1>2 DEF ScopeUnder

\* An entity of a scope that is given by names has a uuid that no edge knows.
LEMMA NamesHideUuids ==
  ASSUME EdgesHold, NEW x \in job.scope
  PROVE  IF job.byName THEN \A e \in edges : e[1] # Build!Uuid(x)
         ELSE Build!Uuid(x) = Build!Key(x) /\ Build!Key(x) \in Build!ScopeKeys
<1>1. CASE job.byName
  <2>1. SUFFICES ASSUME NEW e \in edges PROVE e[1] # Build!Uuid(x)
    BY <1>1
  <2>2. PICK y : e[1] = Build!Key(y)
    BY DEF EdgesHold
  <2>3. Build!Key(y) # Build!Uuid(x)
    BY <1>1 DEF Build!Key, Build!Uuid
  <2>4. QED BY <2>2, <2>3
<1>2. CASE ~job.byName
  BY <1>2 DEF Build!Key, Build!ScopeKeys
<1>3. QED BY <1>1, <1>2

\* What the scope holds itself may be carried.
LEMMA FirstRoundHolds ==
  ASSUME job \in Jobs, EdgesHold, NEW f \in Build!DirectRows
  PROVE  CarriedHolds([key |-> Build!Uuid(f[1]), p |-> f[2], o |-> f[3], from |-> {f[1]}])
<1> DEFINE c == [key |-> Build!Uuid(f[1]), p |-> f[2], o |-> f[3], from |-> {f[1]}]
<1>1. f \in Build!Held /\ f = <<f[1], f[2], f[3]>> /\ f[1] \in job.scope /\ f[2] \in Inheritable
  BY DirectRowsAreHeld
<1>2. c.from # {} /\ c.from \subseteq Holders(c.p, c.o) /\ c.p \in Inheritable
  BY <1>1 DEF Holders
<1>3. \/ c.key \in Build!ScopeKeys \cup Build!Parents /\ c.from \subseteq ScopeUnder(c.key)
      \/ \A e \in edges : e[1] # c.key
  <2>1. c.key = Build!Uuid(f[1]) /\ c.from = {f[1]}
    OBVIOUS
  <2>2. f[1] \in ScopeUnder(Build!Key(f[1]))
    BY <1>1, ScopeUnderRises
  <2> HIDE DEF c
  <2>3. QED BY <1>1, <2>1, <2>2, NamesHideUuids
<1> HIDE DEF c
<1>4. CarriedHolds(c)
  BY <1>2, <1>3 DEF CarriedHolds
<1>5. QED BY <1>4 DEF c

\* What is offered to a parent comes over an edge that is emitted.
LEMMA OfferHolds ==
  ASSUME job \in Jobs, EdgesHold, NEW c, CarriedHolds(c),
         NEW e \in Build!Rows, e[1] = c.key, e[2] \in Build!Parents
  PROVE  /\ <<e[1], e[2]>> \in Emitted /\ c.from # {} /\ c.p \in Inheritable
         /\ c.from \subseteq Holders(c.p, c.o) \cap ScopeUnder(e[1]) \cap ScopeUnder(e[2])
<1>1. e \in edges
  BY EdgesAreFinite
<1>2. e[1] \in Build!ScopeKeys \cup Build!Parents /\ c.from \subseteq ScopeUnder(e[1])
  BY <1>1 DEF CarriedHolds
<1>3. e \in EmittedRows
  BY <1>2 DEF EmittedRows
<1> DEFINE d == <<e[1], e[2]>>
<1>4. d \in Emitted /\ d[1] = e[1] /\ d[2] = e[2]
  BY <1>3 DEF Emitted
<1> HIDE DEF d
<1>5. ScopeUnder(e[1]) \subseteq ScopeUnder(e[2])
  BY <1>4, ScopeUnderRises
<1>6. <<e[1], e[2]>> \in Emitted
  BY <1>4 DEF d
<1>7. QED BY <1>2, <1>5, <1>6 DEF CarriedHolds

LEMMA ReadLevelStep ==
  ASSUME BuildHolds, Build!ReadLevel
  PROVE  BuildHolds'
<1> DEFINE rows == {r \in job.hierarchy : /\ Build!Key(r[1]) \in frontier /\ r[1] # r[2]
                                           /\ Canon[r[3]] \in Build!TaxonomicPredicates}
           found == {<<Build!Key(r[1]), Build!Key(r[2]), r[3]>> : r \in Build!ApplyDirection(rows)}
           Held(e) == /\ e[1] \in EdgeEnds /\ e[2] \in EdgeEnds /\ Canon[e[3]] \in Build!TaxonomicPredicates
                      /\ \E x, y : /\ e = <<Build!Key(x), Build!Key(y), e[3]>>
                                   /\ job.derived => Build!Orient(x, y) = {<<x, y>>}
<1>1. UNCHANGED <<job, phase, levels, carried, lifted>> /\ phase = "reading" /\ edges' = edges \cup found
  BY DEF Build!ReadLevel, Build!lifting
<1>2. \A k : (Build!Key(k))' = Build!Key(k)
  BY <1>1 DEF Build!Key
<1>3. EdgeEnds' = EdgeEnds
  BY <1>1, <1>2 DEF EdgeEnds
<1>4. ASSUME NEW r \in Build!ApplyDirection(rows)
      PROVE  Held(<<Build!Key(r[1]), Build!Key(r[2]), r[3]>>)
  <2>1. ASSUME NEW z \in job.hierarchy PROVE Build!Key(z[1]) \in EdgeEnds /\ Build!Key(z[2]) \in EdgeEnds
    BY DEF EdgeEnds
  <2>2. PICK z \in rows : /\ <<r[1], r[2]>> \in {<<z[1], z[2]>>, <<z[2], z[1]>>} /\ r[3] = z[3]
                          /\ job.derived => Build!Orient(r[1], r[2]) = {<<r[1], r[2]>>}
    <3>1. CASE job.derived
      <4>1. PICK z \in rows : \E d \in Build!Orient(z[1], z[2]) : r = <<d[1], d[2], z[3]>>
        BY <3>1 DEF Build!ApplyDirection
      <4>2. PICK d \in Build!Orient(z[1], z[2]) : r = <<d[1], d[2], z[3]>>
        BY <4>1
      <4>3. d \in {<<z[1], z[2]>>, <<z[2], z[1]>>} /\ Build!Orient(d[1], d[2]) = {d}
        BY OrientIsStable
      <4>4. r[1] = d[1] /\ r[2] = d[2] /\ r[3] = z[3] /\ d = <<d[1], d[2]>>
        BY <4>2, <4>3
      <4> HIDE DEF rows
      <4>5. QED BY <4>3, <4>4
    <3>2. CASE ~job.derived
      BY <3>2 DEF Build!ApplyDirection
    <3>3. QED BY <3>1, <3>2
  <2>3. Build!Key(r[1]) \in EdgeEnds /\ Build!Key(r[2]) \in EdgeEnds
    BY <2>1, <2>2
  <2>4. Canon[r[3]] \in Build!TaxonomicPredicates
    BY <2>2
  <2>5. QED BY <2>2, <2>3, <2>4
<1>5. \A e \in edges' : Held(e)
  <2>1. ASSUME NEW e \in edges PROVE Held(e)
    BY DEF BuildHolds, EdgesHold
  <2> HIDE DEF rows, Held
  <2>2. QED BY <1>1, <1>4, <2>1
<1> HIDE DEF found
<1>6. EdgesHold'
  BY <1>1, <1>2, <1>3, <1>5 DEF EdgesHold
<1>7. QED BY <1>1, <1>6 DEF BuildHolds

LEMMA StartLiftingStep ==
  ASSUME BuildHolds, Build!StartLifting
  PROVE  BuildHolds'
<1>1. /\ UNCHANGED <<job, edges, levels, lifted>> /\ phase = "levelling" /\ phase' = "lifting" /\ round' = 1
      /\ carried' = {[key |-> Build!Uuid(f[1]), p |-> f[2], o |-> f[3], from |-> {f[1]}] : f \in Build!DirectRows}
  BY DEF Build!StartLifting, Build!reading
<1>2. job \in Jobs /\ EdgesHold /\ lifted = {}
  BY <1>1 DEF BuildHolds
<1>3. EdgesHold' /\ Build!DirectRows' = Build!DirectRows
  BY <1>1, <1>2, HierarchyStays, EdgesStay
<1>4. FirstRound'
  BY <1>1, <1>2, <1>3 DEF FirstRound, Build!Uuid
<1>5. \A c \in carried' : CarriedHolds(c)
  BY <1>1, <1>2, FirstRoundHolds
<1>6. \A c \in carried' : (CarriedHolds(c))'
  BY <1>1, <1>5, HierarchyStays
<1>7. QED BY <1>1, <1>2, <1>3, <1>4, <1>6 DEF BuildHolds

LEMMA LiftStep ==
  ASSUME BuildHolds, Build!Lift
  PROVE  BuildHolds'
<1> DEFINE offers == {<<ce[1], ce[2][2]>> :
                        ce \in {ce \in carried \X Build!Rows : ce[2][1] = ce[1].key /\ ce[2][2] \in Build!Parents}}
           bucket(p, x) == {c[1] : c \in {c \in offers : c[2] = p /\ c[1].p = x.p /\ c[1].o = x.o}}
           from(p, x) == UNION {c.from : c \in bucket(p, x)}
           keys(p, x) == {c.key : c \in bucket(p, x)}
           support(p, x) == Build!Cardinality(keys(p, x))
           known == {<<r.s, r.p, r.o>> : r \in lifted}
           new(c) == [s |-> c[2], p |-> c[1].p, o |-> c[1].o, support |-> support(c[2], c[1]), from |-> from(c[2], c[1])]
           next_(c) == [key |-> c[2], p |-> c[1].p, o |-> c[1].o, from |-> from(c[2], c[1])]
           wanted == {c \in offers : support(c[2], c[1]) >= MinSupport /\ <<c[2], c[1].p, c[1].o>> \notin known}
           passed == {c \in offers : \E e \in Build!Rows : e[1] = c[2] /\ e[2] \in Build!Parents}
<1>1. /\ phase = "lifting" /\ UNCHANGED <<job, phase, edges, levels, derived>> /\ round' = round + 1
      /\ lifted' = lifted \cup {new(c) : c \in wanted}
      /\ carried' = {next_(c) : c \in passed}
  BY DEF Build!Lift, Build!reading
<1>2. /\ job \in Jobs /\ EdgesHold /\ round \in Nat
      /\ \A c \in carried : CarriedHolds(c)
      /\ \A r \in lifted : LiftedHolds(r)
      /\ \/ round = 1 /\ FirstRound
         \/ round > 1 /\ (~job.byName => SharedAreLifted)
  BY <1>1 DEF BuildHolds
\* What one offer brings.
<1>3. ASSUME NEW c \in offers
      PROVE  /\ c[1] \in carried /\ c[2] \in Build!Parents /\ <<c[1].key, c[2]>> \in Emitted
             /\ c[1].from # {} /\ c[1].p \in Inheritable
             /\ c[1].from \subseteq Holders(c[1].p, c[1].o) \cap ScopeUnder(c[1].key) \cap ScopeUnder(c[2])
  <2>1. PICK x \in carried, e \in Build!Rows : c = <<x, e[2]>> /\ e[1] = x.key /\ e[2] \in Build!Parents
    OBVIOUS
  <2>3. /\ <<e[1], e[2]>> \in Emitted /\ x.from # {} /\ x.p \in Inheritable
        /\ x.from \subseteq Holders(x.p, x.o) \cap ScopeUnder(e[1]) \cap ScopeUnder(e[2])
    BY <1>2, <2>1, OfferHolds
  <2> HIDE DEF offers
  <2>4. QED BY <2>1, <2>3
\* And all offers of one relation to one parent.
<1>4. ASSUME NEW c \in offers
      PROVE  /\ from(c[2], c[1]) # {}
             /\ from(c[2], c[1]) \subseteq Holders(c[1].p, c[1].o) \cap ScopeUnder(c[2])
             /\ keys(c[2], c[1]) \subseteq
                  {e[1] : e \in {e \in Emitted : e[2] = c[2] /\ ScopeUnder(e[1]) \cap Holders(c[1].p, c[1].o) # {}}}
  <2>1. \A x \in bucket(c[2], c[1]) : <<x, c[2]>> \in offers /\ x.p = c[1].p /\ x.o = c[1].o
    BY <1>3
  <2>2. c[1] \in bucket(c[2], c[1])
    OBVIOUS
  <2>3. \A x \in bucket(c[2], c[1]) :
          /\ <<x.key, c[2]>> \in Emitted /\ x.from # {}
          /\ x.from \subseteq Holders(c[1].p, c[1].o) \cap ScopeUnder(x.key) \cap ScopeUnder(c[2])
    <3> HIDE DEF offers, bucket
    <3>1. TAKE x \in bucket(c[2], c[1])
    <3> DEFINE d == <<x, c[2]>>
    <3>2. d \in offers /\ d[1] = x /\ d[2] = c[2] /\ x.p = c[1].p /\ x.o = c[1].o
      BY <2>1
    <3> HIDE DEF d
    <3>3. QED BY <1>3, <3>2
  <2> HIDE DEF offers, bucket
  <2>4. from(c[2], c[1]) # {} /\ from(c[2], c[1]) \subseteq Holders(c[1].p, c[1].o) \cap ScopeUnder(c[2])
    <3>1. from(c[2], c[1]) = UNION {x.from : x \in bucket(c[2], c[1])}
      OBVIOUS
    <3>2. c[1].from \subseteq from(c[2], c[1]) /\ c[1].from # {}
      BY <2>2, <2>3, <3>1
    <3> HIDE DEF from
    <3>3. from(c[2], c[1]) \subseteq Holders(c[1].p, c[1].o) \cap ScopeUnder(c[2])
      BY <2>3, <3>1
    <3>4. QED BY <3>2, <3>3
  <2>5. ASSUME NEW k \in keys(c[2], c[1])
        PROVE  \E e \in Emitted : /\ e[1] = k /\ e[2] = c[2]
                                  /\ ScopeUnder(e[1]) \cap Holders(c[1].p, c[1].o) # {}
    <3>1. PICK x \in bucket(c[2], c[1]) : k = x.key
      OBVIOUS
    <3> DEFINE e == <<x.key, c[2]>>
    <3>2. e[1] = k /\ e[2] = c[2] /\ e \in Emitted
      BY <2>3, <3>1
    <3>3. ScopeUnder(e[1]) \cap Holders(c[1].p, c[1].o) # {}
      BY <2>3, <3>1, <3>2
    <3> HIDE DEF e
    <3>4. QED BY <3>2, <3>3
  <2> HIDE DEF keys, from
  <2>6. QED BY <2>4, <2>5
<1> HIDE DEF offers, bucket, from, keys
<1>5. \A r \in lifted' : LiftedHolds(r)
  <2>1. ASSUME NEW c \in wanted PROVE LiftedHolds(new(c))
    <3> DEFINE r == new(c)
    <3>1. c \in offers /\ support(c[2], c[1]) >= MinSupport
      OBVIOUS
    <3>2. /\ r.s = c[2] /\ r.p = c[1].p /\ r.o = c[1].o
          /\ r.support = Cardinality(keys(c[2], c[1])) /\ r.from = from(c[2], c[1])
      BY BuildCardinality
    <3> HIDE DEF new
    <3>3. keys(c[2], c[1]) \subseteq Supporters(r)
      BY <1>4, <3>1, <3>2 DEF Supporters
    <3>4. IsFiniteSet(Supporters(r))
      <4>1. Supporters(r) \subseteq EdgeEnds /\ IsFiniteSet(EdgeEnds)
        BY <1>2, EdgesAreFinite DEF Supporters
      <4>2. QED BY <4>1, FS_Subset
    <3>5. r.support <= Cardinality(Supporters(r))
      BY <3>2, <3>3, <3>4, FS_Subset
    <3>6. MinSupport <= r.support
      <4>1. r.support \in Nat
        BY <3>2, <3>3, <3>4, FS_Subset, FS_CardinalityType
      <4>2. r.support = support(c[2], c[1])
        BY DEF new
      <4>3. QED BY <3>1, <4>1, <4>2, BuildLimitsArePositive
    <3>7. r.s \in Build!Parents /\ r.p \in Inheritable /\ r.from \subseteq Holders(r.p, r.o) \cap ScopeUnder(r.s)
      BY <1>3, <1>4, <3>1, <3>2
    <3>8. QED BY <3>5, <3>6, <3>7 DEF LiftedHolds
  <2> HIDE DEF wanted, new
  <2>2. QED BY <1>1, <1>2, <2>1
<1>6. \A c \in carried' : CarriedHolds(c)
  <2>1. ASSUME NEW c \in passed PROVE CarriedHolds(next_(c))
    <3> DEFINE x == next_(c)
    <3>1. x.key = c[2] /\ x.p = c[1].p /\ x.o = c[1].o /\ x.from = from(c[2], c[1]) /\ c \in offers
      OBVIOUS
    <3> HIDE DEF x, passed, next_
    <3>2. CarriedHolds(x)
      BY <1>3, <1>4, <3>1 DEF CarriedHolds
    <3>3. QED BY <3>2 DEF x
  <2> HIDE DEF passed, next_
  <2>2. QED BY <1>1, <2>1
\* The first round lifts what is shared in the scope, and nothing is taken back.
<1>7. ASSUME ~job.byName PROVE SharedAreLifted'
  <2>1. SUFFICES ASSUME NEW p \in Build!Parents, NEW q \in Inheritable, NEW o \in DOMAIN Labels,
                        Cardinality({x \in job.scope : <<Build!Key(x), p>> \in Emitted /\ <<x, q, o>> \in Build!Held})
                          >= MinSupport
                 PROVE  \E r \in lifted' : r.s = p /\ r.p = q /\ r.o = o
    BY <1>1, HierarchyStays DEF SharedAreLifted, Inheritable
  <2>2. CASE round > 1
    <3>1. SharedAreLifted
      BY <1>2, <1>7, <2>2
    <3> HIDE DEF new, wanted
    <3>2. QED BY <1>1, <2>1, <3>1 DEF SharedAreLifted
  <2>3. CASE round = 1
    <3> DEFINE shared == {x \in job.scope : <<Build!Key(x), p>> \in Emitted /\ <<x, q, o>> \in Build!Held}
               item(x) == [key |-> Build!Uuid(x), p |-> q, o |-> o, from |-> {x}]
    <3>1. FirstRound
      BY <1>2, <2>3
    <3>2. ASSUME NEW x \in shared
          PROVE  /\ <<item(x), p>> \in offers
                 /\ \A c : c.p = q /\ c.o = o => Build!Uuid(x) \in keys(p, c)
      <4>1. <<x, q, o>> \in Build!DirectRows
        BY DirectRowsAreHeld
      <4>2. item(x) \in carried
        <5> DEFINE f == <<x, q, o>>
        <5>1. item(x) = [key |-> Build!Uuid(f[1]), p |-> f[2], o |-> f[3], from |-> {f[1]}]
          OBVIOUS
        <5> HIDE DEF f, item
        <5>2. QED BY <3>1, <4>1, <5>1 DEF FirstRound, f
      <4>3. Build!Uuid(x) = Build!Key(x)
        BY <1>2, <1>7, NamesHideUuids
      <4>4. PICK e \in Build!Rows : e[1] = Build!Key(x) /\ e[2] = p
        BY DEF Emitted, EmittedRows
      <4>5. item(x).key = e[1] /\ e[2] = p /\ item(x).p = q /\ item(x).o = o /\ item(x).key = Build!Uuid(x)
        BY <4>3, <4>4
      <4> HIDE DEF item
      <4>6. <<item(x), p>> \in offers
        <5> DEFINE ce == <<item(x), e>>
        <5>1. ce \in carried \X Build!Rows /\ ce[1] = item(x) /\ ce[2] = e
          BY <4>2
        <5> HIDE DEF ce
        <5>2. <<ce[1], ce[2][2]>> \in offers
          BY <2>1, <4>5, <5>1 DEF offers
        <5>3. QED BY <4>5, <5>1, <5>2
      <4>7. ASSUME NEW c, c.p = q, c.o = o PROVE Build!Uuid(x) \in keys(p, c)
        <5>1. item(x) \in bucket(p, c)
          BY <4>5, <4>6, <4>7 DEF bucket
        <5>2. QED BY <4>5, <5>1 DEF keys
      <4>8. QED BY <4>6, <4>7
    <3>3. shared # {}
      <4>1. Cardinality(shared) >= MinSupport
        BY <2>1
      <4> HIDE DEF shared
      <4>2. QED BY <4>1, FS_EmptySet, BuildLimitsArePositive
    <3>4. PICK x \in shared : TRUE
      BY <3>3
    <3> DEFINE c == <<item(x), p>>
    <3>5. c[1].p = q /\ c[1].o = o /\ c[2] = p
      OBVIOUS
    <3>6. c \in offers
      BY <3>2
    <3> HIDE DEF c
    <3>7. support(c[2], c[1]) >= MinSupport
      <4> DEFINE h == [y \in shared |-> Build!Uuid(y)]
                 K == keys(c[2], c[1])
      <4>1. h \in Injection(shared, K)
        <5>1. \A y \in shared : Build!Uuid(y) \in K
          BY <3>2, <3>5
        <5>2. \A y, z : Build!Uuid(y) = Build!Uuid(z) => y = z
          BY DEF Build!Uuid
        <5> HIDE DEF K, shared
        <5>3. QED BY <5>1, <5>2 DEF Injection, IsInjective
      <4>2. IsFiniteSet(K)
        <5>1. IsFiniteSet(EdgeEnds) /\ Emitted \subseteq EdgeEnds \X EdgeEnds
          BY <1>2, EdgesAreFinite
        <5>2. K \subseteq EdgeEnds
          BY <1>4, <3>6, <5>1
        <5>3. QED BY <5>1, <5>2, FS_Subset
      <4> HIDE DEF h, K
      <4>3. Cardinality(shared) <= Cardinality(K) /\ IsFiniteSet(shared)
        BY <4>1, <4>2, FS_Injection
      <4>4. Cardinality(shared) \in Nat /\ Cardinality(K) \in Nat
        BY <4>2, <4>3, FS_CardinalityType
      <4>5. Cardinality(shared) >= MinSupport
        BY <2>1
      <4>6. support(c[2], c[1]) = Cardinality(K)
        BY BuildCardinality DEF K
      <4> HIDE DEF support, shared
      <4>7. QED BY <4>3, <4>4, <4>5, <4>6, BuildLimitsArePositive
    <3>8. new(c) \in lifted'
      <4>1. known = {}
        BY <3>1 DEF FirstRound
      <4>2. c \in wanted
        <5> HIDE DEF support
        <5>1. QED BY <3>6, <3>7, <4>1
      <4> HIDE DEF new, wanted
      <4>3. QED BY <1>1, <4>2
    <3>9. new(c).s = p /\ new(c).p = q /\ new(c).o = o
      BY <3>5
    <3> HIDE DEF new
    <3>10. QED BY <3>8, <3>9
  <2>4. QED BY <1>2, <2>2, <2>3
<1> HIDE DEF new, wanted, passed, next_
<1>8. EdgesHold' /\ (\A c \in carried' : (CarriedHolds(c))') /\ (\A r \in lifted' : (LiftedHolds(r))')
  BY <1>1, <1>2, <1>5, <1>6, HierarchyStays, EdgesStay
<1>9. round' \in Nat /\ round' > 1
  BY <1>1, <1>2
<1>10. QED BY <1>1, <1>2, <1>7, <1>8, <1>9 DEF BuildHolds

LEMMA AssembledStays ==
  ASSUME UNCHANGED <<job, edges, levels, lifted>>
  PROVE  Assembled' = Assembled
<1>1. /\ Build!Rows' = Build!Rows /\ Build!Parents' = Build!Parents /\ Build!ScopeKeys' = Build!ScopeKeys
      /\ Build!DirectRows' = Build!DirectRows /\ \A k : (Build!Key(k))' = Build!Key(k)
  BY HierarchyStays
<1>2. \A k : (Build!Component(k))' = Build!Component(k)
  BY DEF Build!Component
<1>3. \A k : (Build!Level(k))' = Build!Level(k)
  BY <1>2 DEF Build!Level
<1>4. \A k : (Build!Kind(k))' = Build!Kind(k) /\ (Build!Depth(k))' = Build!Depth(k)
  BY <1>1, <1>3 DEF Build!Kind, Build!Depth
<1>5. /\ Build!TaxonomyRelations' = Build!TaxonomyRelations
      /\ Build!DirectRelations' = Build!DirectRelations
      /\ Build!LiftedRelations' = Build!LiftedRelations
  BY <1>1 DEF Build!TaxonomyRelations, Build!DirectRelations, Build!LiftedRelations, Build!Uuid
<1>6. AllRelations' = AllRelations /\ AllKeys' = AllKeys
  BY <1>1, <1>5 DEF AllRelations, AllKeys
<1>7. (Build!DroppedRelations(AllRelations))' = Build!DroppedRelations(AllRelations)
  <2>1. Build!InScope' = Build!InScope
    BY DEF Build!InScope, Build!Stored
  <2>2. QED BY <1>6, <2>1 DEF Build!DroppedRelations
<1>8. (Build!Emit(AllKeys, AllRelations))' = Build!Emit(AllKeys, AllRelations)
  BY <1>6 DEF Build!Emit
<1>9. QED BY <1>4, <1>6, <1>7, <1>8 DEF Assembled

LEMMA AssembleStep ==
  ASSUME BuildHolds, Build!Assemble
  PROVE  BuildHolds'
<1>1. /\ phase = "lifting" /\ phase' = "done" /\ UNCHANGED <<job, edges, levels, lifted>>
      /\ round > MaxParentLevel \/ carried = {}
  BY DEF Build!Assemble, Build!reading, Build!lifting
<1>2. derived' = Assembled
  BY DEF Build!Assemble, Assembled, AllRelations, AllKeys
<1>3. /\ Build!Rows' = Build!Rows /\ Build!Parents' = Build!Parents /\ Build!ScopeKeys' = Build!ScopeKeys
      /\ Build!DirectRows' = Build!DirectRows /\ Build!Held' = Build!Held /\ Emitted' = Emitted
      /\ \A k : (Build!Key(k))' = Build!Key(k)
  BY <1>1, HierarchyStays
<1>4. Assembled' = Assembled
  BY <1>1, AssembledStays
<1>5. ASSUME ~job.byName PROVE SharedAreLifted
  <2>1. CASE round = 1 /\ FirstRound
    <3>1. carried = {}
      BY <1>1, <2>1, BuildLimitsArePositive
    <3>2. Build!Held = {}
      <4>1. \A f \in Build!DirectRows :
              [key |-> Build!Uuid(f[1]), p |-> f[2], o |-> f[3], from |-> {f[1]}] \in carried
        BY <2>1 DEF FirstRound
      <4>2. Build!DirectRows = Build!Held
        BY DirectRowsAreHeld
      <4>3. QED BY <3>1, <4>1, <4>2
    <3>3. Cardinality({}) = 0 /\ ~(0 >= MinSupport)
      BY FS_EmptySet, BuildLimitsArePositive
    <3>4. \A p, q, o : {x \in job.scope : <<Build!Key(x), p>> \in Emitted /\ <<x, q, o>> \in Build!Held} = {}
      BY <3>2
    <3>5. QED BY <3>3, <3>4 DEF SharedAreLifted
  <2>2. QED BY <1>1, <1>5, <2>1 DEF BuildHolds
<1>6. ~job.byName => SharedAreLifted'
  BY <1>1, <1>3, <1>5 DEF SharedAreLifted, Inheritable
<1>7. job \in Jobs /\ EdgesHold /\ \A r \in lifted : LiftedHolds(r)
  BY <1>1 DEF BuildHolds
<1>8. EdgesHold' /\ \A r \in lifted' : (LiftedHolds(r))'
  BY <1>1, <1>7, HierarchyStays, EdgesStay
<1>9. QED BY <1>1, <1>2, <1>4, <1>6, <1>7, <1>8 DEF BuildHolds

LEMMA BuildStep ==
  ASSUME BuildHolds, [Build!Next]_(Build!vars)
  PROVE  BuildHolds'
<1>1. CASE UNCHANGED Build!vars
  <2>1. UNCHANGED <<job, phase, round, edges, levels, carried, lifted, derived>>
    BY <1>1 DEF Build!vars
  <2>2. job \in Jobs /\ EdgesHold
    BY DEF BuildHolds
  <2>3. EdgesHold'
    BY <2>1, <2>2, EdgesStay
  <2>4. phase \in {"lifting", "done"} => \A r \in lifted' : (LiftedHolds(r))'
    BY <2>1, HierarchyStays DEF BuildHolds
  <2>5. phase = "lifting" => \A c \in carried' : (CarriedHolds(c))'
    BY <2>1, HierarchyStays DEF BuildHolds
  <2>6. FirstRound => FirstRound'
    BY <2>1, HierarchyStays DEF FirstRound, Build!Uuid
  <2>7. SharedAreLifted => SharedAreLifted'
    BY <2>1, HierarchyStays DEF SharedAreLifted, Inheritable
  <2>8. Assembled' = Assembled
    BY <2>1, AssembledStays
  <2>9. QED BY <2>1, <2>2, <2>3, <2>4, <2>5, <2>6, <2>7, <2>8 DEF BuildHolds
<1>2. CASE Build!ReadLevel
  BY <1>2, ReadLevelStep
<1>3. CASE Build!QueryFails
  <2>1. UNCHANGED <<job, edges, levels, lifted>> /\ phase' = "failed"
    BY <1>3 DEF Build!QueryFails, Build!reading, Build!lifting
  <2>2. QED BY <2>1, EdgesStay DEF BuildHolds
<1>4. CASE Build!StartLevels
  <2>1. UNCHANGED <<job, edges, lifted>> /\ phase = "reading" /\ phase' = "levelling"
    BY <1>4 DEF Build!StartLevels, Build!reading, Build!lifting
  <2>2. QED BY <2>1, EdgesStay DEF BuildHolds
<1>5. CASE Build!Raise
  <2>1. UNCHANGED <<job, edges, lifted>> /\ phase = "levelling" /\ phase' = "levelling"
    BY <1>5 DEF Build!Raise, Build!reading, Build!lifting
  <2>2. QED BY <2>1, EdgesStay DEF BuildHolds
<1>6. CASE Build!StartLifting
  BY <1>6, StartLiftingStep
<1>7. CASE Build!Lift
  BY <1>7, LiftStep
<1>8. CASE Build!Assemble
  BY <1>8, AssembleStep
<1>9. QED BY <1>1, <1>2, <1>3, <1>4, <1>5, <1>6, <1>7, <1>8 DEF Build!Next

\* What a finished build has emitted.
LEMMA DoneHolds ==
  ASSUME BuildHolds, phase = "done"
  PROVE  Build!DerivedGraphIsWellFormed
<1>1. /\ job \in Jobs /\ EdgesHold /\ derived = Assembled
      /\ \A r \in lifted : LiftedHolds(r)
      /\ ~job.byName => SharedAreLifted
  BY DEF BuildHolds
<1>2. derived.relations = AllRelations /\ derived.emitted = Build!Emit(AllKeys, AllRelations)
  BY <1>1 DEF Assembled
<1>3. \A r \in Build!DirectRelations \cup Build!LiftedRelations : r[2] \notin Build!TaxonomicPredicates
  <2>1. \A r \in Build!DirectRelations : r[2] \in Inheritable
    BY DirectRowsAreHeld DEF Build!DirectRelations
  <2>2. \A r \in Build!LiftedRelations : r[2] \in Inheritable
    BY <1>1 DEF Build!LiftedRelations, LiftedHolds
  <2>3. QED BY <2>1, <2>2, InheritablesMirrored
<1>4. \A e \in EmittedRows : e = <<e[1], e[2], e[3]>> /\ e \in Build!Rows /\ e \in edges
  BY <1>1, EdgesAreFinite
<1>5. Build!TaxonomyRelations = {<<e[1], Canon[e[3]], e[2]>> : e \in EmittedRows}
  BY DEF Build!TaxonomyRelations, EmittedRows
<1>6. Build!HierarchyEdges = Emitted
  <2>1. Build!Taxonomy = Build!TaxonomyRelations
    <3>1. \A r \in Build!TaxonomyRelations : r[2] \in Build!TaxonomicPredicates
      BY <1>1, <1>4, <1>5 DEF EdgesHold
    <3>2. QED BY <1>2, <1>3, <3>1 DEF Build!Taxonomy, AllRelations
  <2>2. Build!HierarchyEdges = {<<r[1], r[3]>> : r \in Build!TaxonomyRelations}
    BY <2>1 DEF Build!HierarchyEdges
  <2> DEFINE relation(e) == <<e[1], Canon[e[3]], e[2]>>
  <2>3. \A e : relation(e)[1] = e[1] /\ relation(e)[3] = e[2]
    OBVIOUS
  <2>4. Build!TaxonomyRelations = {relation(e) : e \in EmittedRows}
    BY <1>5
  <2> HIDE DEF relation
  <2>5. QED BY <2>2, <2>3, <2>4 DEF Emitted
<1>7. Build!HierarchyRises
  <2>1. \A k \in AllKeys : Build!NodeDepth(k) = Build!Depth(k)
    <3>1. TAKE k \in AllKeys
    <3> DEFINE node(j) == [key |-> j, kind |-> Build!Kind(j), depth |-> Build!Depth(j)]
               n == CHOOSE n \in derived.nodes : n.key = k
    <3>2. derived.nodes = {node(j) : j \in AllKeys}
      BY <1>1 DEF Assembled
    <3>3. node(k) \in derived.nodes /\ node(k).key = k
      BY <3>2
    <3> HIDE DEF node
    <3>4. n \in derived.nodes /\ n.key = k
      BY <3>3
    <3>5. PICK j \in AllKeys : n = node(j)
      BY <3>2, <3>4
    <3> HIDE DEF n
    <3>6. n.depth = Build!Depth(k)
      BY <3>4, <3>5 DEF node
    <3>7. QED BY <3>6 DEF n, Build!NodeDepth
  <2>2. SUFFICES ASSUME NEW e \in EmittedRows
                 PROVE  /\ Build!NodeDepth(e[2]) > Build!NodeDepth(e[1])
                        /\ job.derived => Build!Orient(Build!EntityOf(e[1]), Build!EntityOf(e[2]))
                                            = {<<Build!EntityOf(e[1]), Build!EntityOf(e[2])>>}
    BY <1>6 DEF Build!HierarchyRises, Emitted
  <2>3. e[1] \in AllKeys /\ e[2] \in AllKeys /\ e[2] \in Build!Parents
    BY DEF EmittedRows, AllKeys
  <2>4. Build!Depth(e[2]) > Build!Depth(e[1])
    <3>1. Build!Level(e[2]) \in 1..MaxParentLevel /\ Build!Level(e[2]) > Build!Level(e[1])
      BY <1>4 DEF Build!Rows
    <3>2. Build!Level(e[2]) > 0
      BY <3>1, BuildLimitsArePositive
    <3>3. QED BY <2>3, <3>1, <3>2 DEF Build!Depth
  <2>5. ASSUME job.derived
        PROVE  Build!Orient(Build!EntityOf(e[1]), Build!EntityOf(e[2]))
                 = {<<Build!EntityOf(e[1]), Build!EntityOf(e[2])>>}
    <3>1. PICK x, y : e = <<Build!Key(x), Build!Key(y), e[3]>> /\ Build!Orient(x, y) = {<<x, y>>}
      BY <1>1, <1>4, <2>5 DEF EdgesHold
    <3>2. \A z : Build!EntityOf(Build!Key(z)) = z
      BY DEF Build!EntityOf, Build!Key, Build!Uuid
    <3>3. Build!EntityOf(e[1]) = x /\ Build!EntityOf(e[2]) = y
      BY <3>1, <3>2
    <3>4. QED BY <3>1, <3>3
  <2>6. QED BY <2>1, <2>3, <2>4, <2>5
<1>8. Build!LiftedIsSupported
  <2>1. \A k : Build!ScopeBelow(k) = ScopeUnder(k)
    BY <1>6 DEF Build!ScopeBelow, ScopeUnder
  <2>2. SUFFICES ASSUME NEW r \in lifted
                 PROVE  LET holders == {e \in job.scope : <<e, r.p, r.o>> \in Build!Held}
                            supporters == {e[1] : e \in {e \in Build!HierarchyEdges :
                                             e[2] = r.s /\ Build!ScopeBelow(e[1]) \cap holders # {}}}
                        IN  /\ MinSupport <= r.support /\ r.support <= Build!Cardinality(supporters)
                            /\ r.from \subseteq holders \cap Build!ScopeBelow(r.s)
    BY DEF Build!LiftedIsSupported
  <2> DEFINE holders == {e \in job.scope : <<e, r.p, r.o>> \in Build!Held}
             supporters == {e[1] : e \in {e \in Build!HierarchyEdges :
                              e[2] = r.s /\ Build!ScopeBelow(e[1]) \cap holders # {}}}
  <2>3. holders = Holders(r.p, r.o)
    BY DEF Holders
  <2>4. supporters = Supporters(r)
    BY <1>6, <2>1, <2>3 DEF Supporters
  <2> HIDE DEF holders, supporters
  <2>5. /\ MinSupport <= r.support /\ r.support <= Build!Cardinality(supporters)
        /\ r.from \subseteq holders \cap Build!ScopeBelow(r.s)
    BY <1>1, <2>1, <2>3, <2>4, BuildCardinality DEF LiftedHolds
  <2>6. QED BY <2>5 DEF holders, supporters
<1>9. Build!NothingIsLost
  <2>1. derived.dropped = Build!DroppedRelations(derived.relations)
    BY <1>1 DEF Assembled
  <2>2. QED BY <2>1 DEF Build!NothingIsLost, Build!DroppedRelations
<1>10. ASSUME ~job.byName PROVE Build!EverythingIsEmitted
  <2>1. SUFFICES ASSUME NEW r \in AllRelations PROVE r[1] \in AllKeys /\ r[3] \in AllKeys
    BY <1>2 DEF Build!EverythingIsEmitted, Build!Emit
  <2>2. CASE r \in Build!TaxonomyRelations
    BY <1>5, <2>2 DEF EmittedRows, AllKeys
  <2>3. CASE r \in Build!DirectRelations
    <3>1. PICK f \in Build!DirectRows : r = <<Build!Uuid(f[1]), f[2], Build!Uuid(f[3])>>
      BY <2>3 DEF Build!DirectRelations
    <3>2. Build!Uuid(f[1]) \in Build!ScopeKeys
      BY <1>1, <1>10, DirectRowsAreHeld, NamesHideUuids
    <3>3. QED BY <2>3, <3>1, <3>2 DEF AllKeys
  <2>4. CASE r \in Build!LiftedRelations
    <3>1. PICK l \in lifted : r = <<l.s, l.p, Build!Uuid(l.o)>>
      BY <2>4 DEF Build!LiftedRelations
    <3>2. l.s \in Build!Parents
      BY <1>1 DEF LiftedHolds
    <3>3. QED BY <2>4, <3>1, <3>2 DEF AllKeys
  <2>5. QED BY <2>1, <2>2, <2>3, <2>4 DEF AllRelations
<1>11. ASSUME ~job.byName PROVE Build!SharedIsLifted
  <2>1. SharedAreLifted
    BY <1>1, <1>11
  <2>2. QED BY <1>6, <2>1, BuildCardinality DEF SharedAreLifted, Build!SharedIsLifted, Inheritable
<1>12. QED BY <1>7, <1>8, <1>9, <1>10, <1>11 DEF Build!DerivedGraphIsWellFormed

\* A finished build hands the emitter a hierarchy without cycles, whose ends (but
\* not its predicates) are in the derived direction, and lifted relations that
\* are supported; for a scope given by uuids, relations between its own nodes and
\* lifted relations that are complete for what enough children in the scope hold.
\* Facts, types, ontology and limits are any; the hierarchy is of any triples
\* under is_a or its inverse, on their cycles too; maps are walked in any order
\* (queries.go:47-595, builder.go:114-456).
THEOREM DerivedGraphsAreWellFormed == SeqSpec => []DerivedGraphIsWellFormed
<1> DEFINE Inv == kind = "build" => BuildHolds
<1>1. SeqInit => Inv
  <2>1. SUFFICES ASSUME Build!Init PROVE BuildHolds
    BY DEF SeqInit
  <2>2. job \in Jobs /\ phase = "reading" /\ edges = {} /\ lifted = {}
    BY <2>1 DEF Build!Init
  <2>3. EdgesHold
    BY <2>2 DEF EdgesHold
  <2>4. QED BY <2>2, <2>3 DEF BuildHolds
<1>2. ASSUME Inv, [SeqNext]_allVars PROVE Inv'
  <2>1. SUFFICES ASSUME kind' = "build" PROVE BuildHolds'
    OBVIOUS
  <2>2. kind = "build" /\ ([Build!Next]_(Build!vars) \/ Answer)
    BY <1>2, <2>1 DEF SeqNext, Store, Select, Think, Reason, BuildGraph, Answer, allVars, buildVars, Build!vars
  <2>3. CASE [Build!Next]_(Build!vars)
    BY <1>2, <2>2, <2>3, BuildStep
  <2>4. CASE Answer
    <3>1. UNCHANGED <<job, edges, levels, lifted>> /\ phase = "asked" /\ phase' = "answered"
      BY <2>4 DEF Answer
    <3>2. job \in Jobs /\ EdgesHold
      BY <1>2, <2>2 DEF BuildHolds
    <3>3. QED BY <3>1, <3>2, EdgesStay DEF BuildHolds
  <2>5. QED BY <2>2, <2>3, <2>4
<1>3. Inv => DerivedGraphIsWellFormed
  <2>1. ASSUME kind = "build", BuildHolds PROVE Build!DerivedGraphIsWellFormed
    <3>1. CASE phase = "done"
      BY <2>1, <3>1, DoneHolds
    <3>2. CASE phase # "done"
      BY <3>2 DEF Build!DerivedGraphIsWellFormed, Build!Done
    <3>3. QED BY <3>1, <3>2
  <2>2. QED BY <2>1 DEF DerivedGraphIsWellFormed
<1>4. QED BY <1>1, <1>2, <1>3, PTL DEF SeqSpec
-----------------------------------------------------------------------------
(* The native reasoner: what follows from edges *)

Preds == DOMAIN Supers

\* All above a predicate, itself included, is in any set around it that the
\* hierarchy does not leave.
LEMMA AboveIsLeast ==
  ASSUME NEW p, NEW W, p \in W, \A q \in W : Native!Elements(Native!SupersOf(q)) \subseteq W
  PROVE  p \in Native!Above(p) /\ Native!Above(p) \subseteq W
<1> DEFINE U == Native!Known \cup {p}
           supers(S) == UNION {Native!Elements(Native!SupersOf(q)) : q \in S}
           f == [S \in SUBSET U |-> supers(S)]
           Def(c) == c = [S \in SUBSET U |-> IF supers(S) \subseteq S THEN S ELSE c[S \cup supers(S)]]
           above == CHOOSE c : Def(c)
<1>1. IsFiniteSet(U)
  BY RegistryIsValidated, FS_AddElement DEF Native!Known
<1>2. \A q : Native!Elements(Native!SupersOf(q)) \subseteq U
  BY RegistryIsValidated DEF Native!Elements, Native!SupersOf, Native!Known
<1>3. f \in [SUBSET U -> SUBSET U]
  <2>1. \A S \in SUBSET U : supers(S) \in SUBSET U
    BY <1>2
  <2> HIDE DEF supers, U
  <2>2. QED BY <2>1
<1>4. Monotone(f, U)
  <2>1. \A S, T \in SUBSET U : S \subseteq T => supers(S) \subseteq supers(T)
    OBVIOUS
  <2> HIDE DEF supers, U
  <2>2. QED BY <2>1 DEF Monotone
<1>5. \A c : Def(c) <=> Saturates(c, f, U)
  <2> HIDE DEF supers, U
  <2>1. QED BY DEF Saturates
<1>6. Native!Above(p) = above[{p}]
  BY DEF Native!Above
<1>7. Saturates(above, f, U)
  <2> HIDE DEF f, U, Def
  <2>1. Def(above)
    BY <1>3, <1>4, <1>5, SaturationExists
  <2>2. QED BY <1>5, <2>1
<1>8. Least(above[{p}], {p}, f, U)
  <2>1. {p} \in SUBSET U
    OBVIOUS
  <2> HIDE DEF f, above, U
  <2>2. QED BY <1>1, <1>3, <1>4, <1>7, <2>1, SaturationIsLeast
<1>9. {p} \subseteq W \cap U /\ W \cap U \in SUBSET U
  OBVIOUS
<1>10. f[W \cap U] \subseteq W \cap U
  <2>1. f[W \cap U] = supers(W \cap U)
    OBVIOUS
  <2>2. supers(W \cap U) \subseteq W \cap U
    BY <1>2
  <2>3. QED BY <2>1, <2>2
<1>11. above[{p}] \subseteq W \cap U
  <2> HIDE DEF above, f, U
  <2>1. QED BY <1>8, <1>9, <1>10 DEF Least
<1>12. p \in above[{p}]
  <2> HIDE DEF above, f, U
  <2>1. QED BY <1>8 DEF Least
<1>13. QED BY <1>6, <1>11, <1>12

\* What follows at once, case by case.
Derived(t, S) ==
  \/ \E u \in S : \E q \in Native!Elements(Native!SupersOf(u[2])) : t = <<u[1], q, u[3]>>
  \/ \E u \in S : u[2] \in DOMAIN InverseOf /\ t = <<u[3], InverseOf[u[2]], u[1]>>
  \/ \E u \in S : \E p \in DOMAIN InverseOf : InverseOf[p] = u[2] /\ t = <<u[3], p, u[1]>>
  \/ \E u, v \in S : /\ u[3] = v[1] /\ u[2] = v[2] /\ u[2] \in Transitive
                     /\ t = <<u[1], u[2], v[3]>>
  \/ \E u, v \in S : \E c \in Native!Elements(Compositions) :
       u[3] = v[1] /\ c[1] = u[2] /\ c[2] = v[2] /\ t = <<u[1], c[3], v[3]>>

LEMMA FollowsIsDerived == \A S, t : t \in Native!Follows(S) <=> Derived(t, S)
<1> TAKE S, t
<1> DEFINE upwards == UNION {{<<u[1], q, u[3]>> : q \in Native!Elements(Native!SupersOf(u[2]))} : u \in S}
           inverses == {<<u[3], InverseOf[u[2]], u[1]>> : u \in {u \in S : u[2] \in DOMAIN InverseOf}}
           declared == UNION {{<<u[3], p, u[1]>> : p \in {p \in DOMAIN InverseOf : InverseOf[p] = u[2]}} : u \in S}
           joined == {tu \in S \X S : tu[1][3] = tu[2][1]}
           chained == {<<tu[1][1], tu[1][2], tu[2][3]>> :
                         tu \in {tu \in joined : tu[1][2] = tu[2][2] /\ tu[1][2] \in Transitive}}
           composed == UNION {{<<tu[1][1], c[3], tu[2][3]>> :
                         c \in {c \in Native!Elements(Compositions) : c[1] = tu[1][2] /\ c[2] = tu[2][2]}} : tu \in joined}
<1>1. Native!Follows(S) = upwards \cup (inverses \cup declared) \cup chained \cup composed
  BY DEF Native!Follows
<1>2. \A tu : tu \in joined <=> \E u, v \in S : tu = <<u, v>> /\ u[3] = v[1]
  OBVIOUS
<1>3. t \in upwards <=> \E u \in S : \E q \in Native!Elements(Native!SupersOf(u[2])) : t = <<u[1], q, u[3]>>
  OBVIOUS
<1>4. t \in inverses <=> \E u \in S : u[2] \in DOMAIN InverseOf /\ t = <<u[3], InverseOf[u[2]], u[1]>>
  OBVIOUS
<1>5. t \in declared <=> \E u \in S : \E p \in DOMAIN InverseOf : InverseOf[p] = u[2] /\ t = <<u[3], p, u[1]>>
  OBVIOUS
<1> HIDE DEF joined
<1>6. t \in chained <=> \E u, v \in S : /\ u[3] = v[1] /\ u[2] = v[2] /\ u[2] \in Transitive
                                        /\ t = <<u[1], u[2], v[3]>>
  <2>1. ASSUME t \in chained
        PROVE  \E u, v \in S : u[3] = v[1] /\ u[2] = v[2] /\ u[2] \in Transitive /\ t = <<u[1], u[2], v[3]>>
    <3>1. PICK tu \in joined : /\ tu[1][2] = tu[2][2] /\ tu[1][2] \in Transitive
                               /\ t = <<tu[1][1], tu[1][2], tu[2][3]>>
      BY <2>1
    <3>2. PICK u \in S, v \in S : tu = <<u, v>> /\ u[3] = v[1]
      BY <1>2
    <3>3. QED BY <3>1, <3>2
  <2>2. ASSUME NEW u \in S, NEW v \in S, u[3] = v[1], u[2] = v[2], u[2] \in Transitive, t = <<u[1], u[2], v[3]>>
        PROVE  t \in chained
    <3> DEFINE tu == <<u, v>>
    <3>1. tu \in joined /\ tu[1] = u /\ tu[2] = v
      BY <1>2, <2>2
    <3> HIDE DEF tu
    <3>2. QED BY <2>2, <3>1
  <2> HIDE DEF chained
  <2>3. QED BY <2>1, <2>2
<1>7. t \in composed <=> \E u, v \in S : \E c \in Native!Elements(Compositions) :
         u[3] = v[1] /\ c[1] = u[2] /\ c[2] = v[2] /\ t = <<u[1], c[3], v[3]>>
  <2>1. ASSUME t \in composed
        PROVE  \E u, v \in S : \E c \in Native!Elements(Compositions) :
                 u[3] = v[1] /\ c[1] = u[2] /\ c[2] = v[2] /\ t = <<u[1], c[3], v[3]>>
    <3>1. PICK tu \in joined, c \in Native!Elements(Compositions) :
            c[1] = tu[1][2] /\ c[2] = tu[2][2] /\ t = <<tu[1][1], c[3], tu[2][3]>>
      BY <2>1
    <3>2. PICK u \in S, v \in S : tu = <<u, v>> /\ u[3] = v[1]
      BY <1>2
    <3>3. c[1] = u[2] /\ c[2] = v[2] /\ t = <<u[1], c[3], v[3]>>
      BY <3>1, <3>2
    <3>4. QED BY <3>2, <3>3
  <2>2. ASSUME NEW u \in S, NEW v \in S, NEW c \in Native!Elements(Compositions),
               u[3] = v[1], c[1] = u[2], c[2] = v[2], t = <<u[1], c[3], v[3]>>
        PROVE  t \in composed
    <3> DEFINE tu == <<u, v>>
    <3>1. tu \in joined /\ tu[1] = u /\ tu[2] = v
      BY <1>2, <2>2
    <3> HIDE DEF tu
    <3>2. QED BY <2>2, <3>1
  <2> HIDE DEF composed
  <2>3. QED BY <2>1, <2>2
<1> HIDE DEF upwards, inverses, declared, chained, composed
<1>8. QED BY <1>1, <1>3, <1>4, <1>5, <1>6, <1>7 DEF Derived

\* All that follows from a finite set contains it, and what follows from it at once.
LEMMA ConsequencesAreClosed ==
  ASSUME NEW S, IsFiniteSet(S)
  PROVE  /\ S \subseteq Native!Consequences(S)
         /\ \A t : Derived(t, Native!Consequences(S)) => t \in Native!Consequences(S)
<1> DEFINE sayable == Native!Sayable(S)
           U == S \cup sayable
           ends == {t[1] : t \in S} \cup {t[3] : t \in S}
           said == {t[2] : t \in S} \cup (UNION {Native!Elements(Supers[p]) : p \in Native!Known}) \cup DOMAIN InverseOf
                     \cup {InverseOf[p] : p \in DOMAIN InverseOf} \cup {c[3] : c \in Native!Elements(Compositions)}
           f == [T \in SUBSET U |-> Native!Follows(T)]
           Def(c) == c = [T \in SUBSET U |-> IF Native!Follows(T) \subseteq T THEN T
                                             ELSE c[T \cup Native!Follows(T)]]
           all == CHOOSE c : Def(c)
<1>1. sayable = ends \X said \X ends
  BY DEF Native!Sayable
<1>2. IsFiniteSet(U)
  <2>1. IsFiniteSet({t[1] : t \in S}) /\ IsFiniteSet({t[2] : t \in S}) /\ IsFiniteSet({t[3] : t \in S})
    <3>1. ASSUME NEW n PROVE IsFiniteSet({t[n] : t \in S})
      <4> DEFINE g == [t \in S |-> t[n]]
      <4>1. DOMAIN g = S /\ {g[t] : t \in DOMAIN g} = {t[n] : t \in S}
        OBVIOUS
      <4> HIDE DEF g
      <4>2. IsFiniteSet({g[t] : t \in DOMAIN g})
        BY <4>1, ImageIsFinite
      <4>3. QED BY <4>1, <4>2
    <3>2. QED BY <3>1
  <2>2. said \subseteq {t[2] : t \in S} \cup Preds
    <3>1. UNION {Native!Elements(Supers[p]) : p \in Native!Known} \subseteq Preds
      BY RegistryIsValidated DEF Native!Elements, Native!Known, Preds
    <3>2. DOMAIN InverseOf \cup {InverseOf[p] : p \in DOMAIN InverseOf} \subseteq Preds
      BY RegistryIsValidated DEF Preds
    <3>3. {c[3] : c \in Native!Elements(Compositions)} \subseteq Preds
      <4>1. \A i \in DOMAIN Compositions : Compositions[i] \in Preds \X Preds \X Preds
        BY RegistryIsValidated DEF Preds
      <4>2. QED BY <4>1 DEF Native!Elements
    <3>4. QED BY <3>1, <3>2, <3>3
  <2>3. IsFiniteSet({t[2] : t \in S} \cup Preds)
    BY <2>1, RegistryIsValidated, FS_Union DEF Preds
  <2>4. IsFiniteSet(ends) /\ IsFiniteSet(said)
    <3>1. IsFiniteSet(ends)
      BY <2>1, FS_Union
    <3> HIDE DEF said
    <3>2. QED BY <2>2, <2>3, <3>1, FS_Subset
  <2> HIDE DEF ends, said
  <2>5. IsFiniteSet(ends \X said \X ends)
    BY <2>4, TriplesAreFinite
  <2>6. QED BY <1>1, <2>5, FS_Union
<1>3. \A t \in U : t[1] \in ends /\ t[2] \in said /\ t[3] \in ends
  <2>1. \A t \in S : t[1] \in ends /\ t[2] \in said /\ t[3] \in ends
    OBVIOUS
  <2> HIDE DEF ends, said
  <2>2. QED BY <1>1, <2>1
<1>4. ASSUME NEW T \in SUBSET U, NEW t, Derived(t, T)
      PROVE  t \in U
  <2>1. /\ \A p : Native!Elements(Native!SupersOf(p)) \subseteq said
        /\ \A p \in DOMAIN InverseOf : p \in said /\ InverseOf[p] \in said
        /\ \A c \in Native!Elements(Compositions) : c[3] \in said
    <3>1. ASSUME NEW p PROVE Native!Elements(Native!SupersOf(p)) \subseteq said
      <4>1. CASE p \in Native!Known
        <5>1. Native!SupersOf(p) = Supers[p]
          BY <4>1 DEF Native!SupersOf
        <5>2. QED BY <4>1, <5>1
      <4>2. CASE p \notin Native!Known
        <5>1. Native!SupersOf(p) = <<>>
          BY <4>2 DEF Native!SupersOf
        <5>2. QED BY <5>1 DEF Native!Elements
      <4>3. QED BY <4>1, <4>2
    <3>2. QED BY <3>1
  <2> HIDE DEF said, ends, U
  <2>2. \E a_1 \in ends, q \in said, b_1 \in ends : t = <<a_1, q, b_1>>
    BY <1>3, <1>4, <2>1 DEF Derived
  <2>3. QED BY <1>1, <2>2 DEF U
<1>5. f \in [SUBSET U -> SUBSET U]
  <2> HIDE DEF U
  <2>1. \A T \in SUBSET U : Native!Follows(T) \in SUBSET U
    BY <1>4, FollowsIsDerived
  <2>2. QED BY <2>1
<1>6. Monotone(f, U)
  <2> HIDE DEF U
  <2>1. \A T, W \in SUBSET U : T \subseteq W => Native!Follows(T) \subseteq Native!Follows(W)
    <3>1. \A T, W \in SUBSET U : \A t : T \subseteq W /\ Derived(t, T) => Derived(t, W)
      BY DEF Derived
    <3>2. QED BY <3>1, FollowsIsDerived
  <2>2. QED BY <2>1 DEF Monotone
<1>7. \A c : Def(c) <=> Saturates(c, f, U)
  <2> HIDE DEF U
  <2>1. QED BY DEF Saturates
<1>8. Native!Consequences(S) = all[S]
  BY DEF Native!Consequences
<1>9. Saturates(all, f, U)
  <2> HIDE DEF f, U, Def
  <2>1. Def(all)
    BY <1>5, <1>6, <1>7, SaturationExists
  <2>2. QED BY <1>7, <2>1
<1>10. Least(all[S], S, f, U)
  <2>1. S \in SUBSET U
    OBVIOUS
  <2> HIDE DEF f, all, U
  <2>2. QED BY <1>2, <1>5, <1>6, <1>9, <2>1, SaturationIsLeast
<1>11. all[S] \in SUBSET U /\ S \subseteq all[S] /\ f[all[S]] \subseteq all[S]
  BY <1>10 DEF Least
<1>12. Native!Follows(all[S]) \subseteq all[S]
  <2> HIDE DEF all, U
  <2>1. QED BY <1>11
<1> HIDE DEF all
<1>13. QED BY <1>8, <1>11, <1>12, FollowsIsDerived
-----------------------------------------------------------------------------
(* The native reasoner: what a path establishes *)

LEMMA MinIsMember == ASSUME NEW S \in SUBSET Nat, S # {} PROVE Native!Min(S) \in S
<1>1. PICK x \in S : \A y \in S : ~(<<y, x>> \in OpToRel(<, Nat))
  BY NatLessThanWellFounded, WFMin
<1>2. \A y \in S : ~(y < x)
  BY <1>1 DEF OpToRel
<1>3. \A y \in S : x <= y
  BY <1>2
<1>4. QED BY <1>3 DEF Native!Min

\* A chain of edges of a graph, from one end to the other.
Chain(w, G, from, to, n) ==
  /\ w \in Seq(G) /\ Len(w) = n
  /\ w[1].s = from /\ w[n].o = to
  /\ \A i \in 1..(n - 1) : w[i + 1].s = w[i].o

LEMMA WalksAreChains ==
  ASSUME NEW from, NEW to, NEW n \in Nat \ {0}, NEW w \in Native!Walks(from, to, n)
  PROVE  Chain(w, graph, from, to, n)
<1> DEFINE end(x) == IF x = <<>> THEN from ELSE x[Len(x)].o
           step(W) == UNION {{Append(x, e) : e \in {e \in graph : e.s = end(x)}} : x \in W}
           Def(f) == f = [m \in Nat |-> IF m = 0 THEN {<<>>} ELSE step(f[m - 1])]
           walk == CHOOSE f : Def(f)
           X == SUBSET Seq(graph)
           g == [z \in Nat \X X |-> step(z[2])]
<1>1. \A W \in X : step(W) \in X
  OBVIOUS
<1>2. g \in [Nat \X X -> X]
  <2> HIDE DEF step, X
  <2>1. QED BY <1>1
<1>3. {<<>>} \in X
  OBVIOUS
<1>4. PICK f \in [Nat -> X] : Iterates(f, {<<>>}, g)
  <2> HIDE DEF g, X
  <2>1. QED BY <1>2, <1>3, IterationExists
<1>5. Def(f)
  <2>1. ASSUME NEW m \in Nat PROVE f[m] = IF m = 0 THEN {<<>>} ELSE step(f[m - 1])
    <3>1. CASE m = 0
      BY <1>4, <3>1 DEF Iterates
    <3>2. CASE m # 0
      <4>1. m - 1 \in Nat /\ (m - 1) + 1 = m
        BY <3>2
      <4>2. f[m] = g[<<m - 1, f[m - 1]>>]
        BY <1>4, <4>1 DEF Iterates
      <4>3. <<m - 1, f[m - 1]>> \in Nat \X X
        BY <1>4, <4>1
      <4> HIDE DEF step, X
      <4>4. QED BY <3>2, <4>2, <4>3
    <3>3. QED BY <3>1, <3>2
  <2> HIDE DEF step, X, g
  <2>2. QED BY <1>4, <2>1
<1>6. Native!Walks(from, to, n) = {x \in walk[n] : end(x) = to}
  BY DEF Native!Walks
<1>7. Def(walk)
  <2> HIDE DEF Def
  <2>1. QED BY <1>5
<1>8. walk[0] = {<<>>} /\ \A m \in Nat : walk[m + 1] = step(walk[m])
  <2> HIDE DEF walk, step
  <2>1. walk[0] = {<<>>}
    BY <1>7
  <2>2. ASSUME NEW m \in Nat PROVE walk[m + 1] = step(walk[m])
    <3>1. m + 1 \in Nat /\ m + 1 # 0 /\ (m + 1) - 1 = m
      OBVIOUS
    <3>2. QED BY <1>7, <3>1
  <2>3. QED BY <2>1, <2>2
<1> HIDE DEF walk
<1> DEFINE Good(x, m) == /\ x \in Seq(graph) /\ Len(x) = m
                         /\ m # 0 => x[1].s = from
                         /\ \A i \in 1..(m - 1) : x[i + 1].s = x[i].o
           N == {m \in Nat : \A x \in walk[m] : Good(x, m)}
<1>9. 0 \in N
  <2>1. Good(<<>>, 0)
    OBVIOUS
  <2> HIDE DEF Good
  <2>2. QED BY <1>8, <2>1
<1>10. ASSUME NEW m \in N PROVE m + 1 \in N
  <2>1. ASSUME NEW x \in walk[m], NEW e \in graph, e.s = end(x)
        PROVE  Good(Append(x, e), m + 1)
    <3>1. Good(x, m)
      OBVIOUS
    <3> DEFINE y == Append(x, e)
    <3>2. /\ y \in Seq(graph) /\ Len(y) = m + 1 /\ y[m + 1] = e
          /\ \A i \in 1..m : y[i] = x[i]
      BY <3>1
    <3>3. x = <<>> <=> m = 0
      BY <3>1
    <3> HIDE DEF y
    <3>4. y[1].s = from
      BY <2>1, <3>1, <3>2, <3>3
    <3>5. ASSUME NEW i \in 1..m PROVE y[i + 1].s = y[i].o
      <4>1. CASE i = m
        BY <2>1, <3>1, <3>2, <3>3, <4>1
      <4>2. CASE i # m
        <5>1. i \in 1..(m - 1) /\ i + 1 \in 1..m
          BY <4>2
        <5>2. x[i + 1].s = x[i].o
          BY <3>1, <5>1
        <5>3. QED BY <3>2, <5>1, <5>2
      <4>3. QED BY <4>1, <4>2
    <3>6. QED BY <3>2, <3>4, <3>5 DEF y
  <2>2. ASSUME NEW z, z \in step(walk[m]) PROVE Good(z, m + 1)
    <3> DEFINE longer(x) == {Append(x, e) : e \in {e \in graph : e.s = end(x)}}
    <3>1. z \in UNION {longer(x) : x \in walk[m]}
      BY <2>2
    <3>2. PICK x \in walk[m] : z \in longer(x)
      <4> HIDE DEF longer
      <4>1. QED BY <3>1
    <3>3. PICK e \in graph : e.s = end(x) /\ z = Append(x, e)
      BY <3>2
    <3> HIDE DEF Good, end
    <3>4. QED BY <2>1, <3>3
  <2>3. walk[m + 1] = step(walk[m]) /\ m + 1 \in Nat
    <3>1. m \in Nat
      OBVIOUS
    <3>2. m + 1 \in Nat
      BY <3>1
    <3> HIDE DEF step, N
    <3>3. QED BY <1>8, <3>1, <3>2
  <2> HIDE DEF step, Good, end
  <2>4. \A z \in walk[m + 1] : Good(z, m + 1)
    <3> DEFINE W == step(walk[m])
    <3>1. \A z : z \in W => Good(z, m + 1)
      BY <2>2
    <3>2. walk[m + 1] = W
      BY <2>3
    <3> HIDE DEF W
    <3>3. QED BY <3>1, <3>2
  <2>5. QED BY <2>3, <2>4
<1>11. Nat \subseteq N
  <2> HIDE DEF N
  <2>1. N \in SUBSET Nat BY DEF N
  <2>2. QED BY <1>9, <1>10, <2>1, Induction
<1>12. w \in walk[n] /\ end(w) = to
  BY <1>6
<1>13. Good(w, n)
  BY <1>11, <1>12
<1>14. QED BY <1>12, <1>13 DEF Chain

\* What composing the predicates of a path one after the other computes.
LEMMA ReduceFolds ==
  ASSUME NEW preds
  PROVE  \E acc : /\ Native!Reduce(preds) = acc[Len(preds)]
                  /\ \A i \in Nat : acc[i] = IF i <= 1 THEN preds[1]
                                             ELSE IF acc[i - 1] = None THEN None
                                             ELSE Native!ComposePredicates(acc[i - 1], preds[i])
<1> DEFINE put(n, x) == IF n + 1 <= 1 THEN preds[1]
                        ELSE IF x = None THEN None ELSE Native!ComposePredicates(x, preds[n + 1])
           Def(f) == f = [i \in Nat |-> IF i <= 1 THEN preds[1]
                                        ELSE IF f[i - 1] = None THEN None
                                        ELSE Native!ComposePredicates(f[i - 1], preds[i])]
           acc == CHOOSE f : Def(f)
           X == {preds[1], None} \cup Preds
<1> DEFINE g == [z \in Nat \X X |-> put(z[1], z[2])]
<1>1. \A x, y : Native!ComposePredicates(x, y) \in Preds \cup {None}
  <2>1. TAKE x, y
  <2> DEFINE found == {i \in DOMAIN Compositions : Compositions[i][1] = x /\ Compositions[i][2] = y}
  <2>2. Compositions \in Seq(Preds \X Preds \X Preds)
    BY RegistryIsValidated DEF Preds
  <2>3. CASE found = {}
    BY <2>3 DEF Native!ComposePredicates
  <2>4. CASE found # {}
    <3>1. found \in SUBSET Nat
      BY <2>2
    <3>2. Native!Min(found) \in DOMAIN Compositions
      <4>1. Native!Min(found) \in found
        <5> HIDE DEF found
        <5>1. QED BY <2>4, <3>1, MinIsMember
      <4>2. QED BY <4>1
    <3>3. Native!ComposePredicates(x, y) = Compositions[Native!Min(found)][3]
      BY <2>4 DEF Native!ComposePredicates
    <3> HIDE DEF found
    <3>4. QED BY <2>2, <3>2, <3>3
  <2>5. QED BY <2>3, <2>4
<1>2. g \in [Nat \X X -> X]
  <2>1. \A n, x : put(n, x) \in X
    BY <1>1
  <2> HIDE DEF put, X
  <2>2. QED BY <2>1
<1>3. PICK f \in [Nat -> X] : Iterates(f, preds[1], g)
  <2>1. preds[1] \in X
    OBVIOUS
  <2> HIDE DEF g, X
  <2>2. QED BY <1>2, <2>1, IterationExists
<1>4. Def(f)
  <2>1. ASSUME NEW i \in Nat
        PROVE  f[i] = IF i <= 1 THEN preds[1] ELSE IF f[i - 1] = None THEN None
                      ELSE Native!ComposePredicates(f[i - 1], preds[i])
    <3>1. CASE i = 0
      BY <1>3, <3>1 DEF Iterates
    <3>2. CASE i # 0
      <4>1. i - 1 \in Nat /\ (i - 1) + 1 = i
        BY <3>2
      <4>2. f[i] = g[<<i - 1, f[i - 1]>>]
        <5> HIDE DEF g, X, put
        <5>1. QED BY <1>3, <4>1 DEF Iterates
      <4>3. <<i - 1, f[i - 1]>> \in Nat \X X
        BY <1>3, <4>1
      <4>4. f[i] = put(i - 1, f[i - 1])
        <5> HIDE DEF put, X
        <5>1. QED BY <4>2, <4>3
      <4>5. QED BY <4>1, <4>4
    <3>3. QED BY <3>1, <3>2
  <2> HIDE DEF X, g
  <2>2. QED BY <1>3, <2>1
<1>5. Native!Reduce(preds) = acc[Len(preds)]
  BY DEF Native!Reduce
<1>6. Def(acc)
  <2> HIDE DEF Def
  <2>1. QED BY <1>4
<1> HIDE DEF acc
<1>7. \A i \in Nat : acc[i] = IF i <= 1 THEN preds[1] ELSE IF acc[i - 1] = None THEN None
                              ELSE Native!ComposePredicates(acc[i - 1], preds[i])
  BY <1>6
<1>8. QED BY <1>5, <1>7

LEMMA NativeCardinality == \A S : Native!Cardinality(S) = Cardinality(S)
BY DEF Native!Cardinality, Cardinality

\* The predicates above one are searched in some order.
LEMMA InOrderIsSequence ==
  ASSUME NEW p
  PROVE  Native!InOrder(p) \in Seq(Preds \cup {p})
<1> DEFINE A == Preds \cup {p}
           X == [queue : Seq(A), seen : Seq(A)]
           x0 == [queue |-> <<p>>, seen |-> <<>>]
           Def(f) == f = [n \in Nat |-> IF n = 0 THEN x0 ELSE Native!Visit(f[n - 1])]
           after == CHOOSE f : Def(f)
           g == [z \in Nat \X X |-> Native!Visit(z[2])]
<1>1. x0 \in X
  OBVIOUS
<1>2. ASSUME NEW x \in X PROVE Native!Visit(x) \in X
  <2> DEFINE q == Head(x.queue)
             rest == Tail(x.queue)
  <2>1. CASE x.queue = <<>>
    BY <2>1 DEF Native!Visit
  <2>2. CASE x.queue # <<>> /\ q \in Native!Elements(x.seen)
    <3>1. rest \in Seq(A)
      BY <2>2
    <3>2. Native!Visit(x) = [x EXCEPT !.queue = rest]
      BY <2>2 DEF Native!Visit
    <3> HIDE DEF rest, A
    <3>3. QED BY <3>1, <3>2
  <2>3. CASE x.queue # <<>> /\ q \notin Native!Elements(x.seen)
    <3>1. rest \in Seq(A) /\ q \in A
      BY <2>3
    <3>2. Native!SupersOf(q) \in Seq(A)
      <4>1. Native!SupersOf(q) \in Seq(Preds)
        <5>1. CASE q \in DOMAIN Supers
          BY <5>1, RegistryIsValidated DEF Native!SupersOf, Native!Known, Preds
        <5>2. CASE q \notin DOMAIN Supers
          <6>1. Native!SupersOf(q) = <<>>
            BY <5>2 DEF Native!SupersOf, Native!Known
          <6>2. <<>> \in Seq(Preds)
            OBVIOUS
          <6> HIDE DEF q
          <6>3. QED BY <6>1, <6>2
        <5>3. QED BY <5>1, <5>2
      <4>2. Preds \subseteq A
        OBVIOUS
      <4> DEFINE above == Native!SupersOf(q)
      <4>3. above \in Seq(Preds)
        BY <4>1
      <4> HIDE DEF A, above
      <4>4. above \in Seq(A)
        BY <4>2, <4>3
      <4>5. QED BY <4>4 DEF above
    <3>3. Native!Visit(x) = [queue |-> rest \o Native!SupersOf(q), seen |-> Append(x.seen, q)]
      BY <2>3 DEF Native!Visit
    <3> DEFINE queue1 == rest \o Native!SupersOf(q)
               seen1 == Append(x.seen, q)
    <3> HIDE DEF A
    <3>4. queue1 \in Seq(A) /\ seen1 \in Seq(A)
      BY <3>1, <3>2, ConcatProperties, AppendProperties
    <3> HIDE DEF queue1, seen1
    <3>5. [queue |-> queue1, seen |-> seen1] \in X
      BY <3>4
    <3>6. QED BY <3>3, <3>5 DEF queue1, seen1
  <2>4. QED BY <2>1, <2>2, <2>3
<1>3. g \in [Nat \X X -> X]
  <2> HIDE DEF X
  <2>1. QED BY <1>2
<1>4. PICK f \in [Nat -> X] : Iterates(f, x0, g)
  <2> HIDE DEF g, X, x0
  <2>1. QED BY <1>1, <1>3, IterationExists
<1>5. Def(f)
  <2>1. ASSUME NEW m \in Nat PROVE f[m] = IF m = 0 THEN x0 ELSE Native!Visit(f[m - 1])
    <3>1. CASE m = 0
      BY <1>4, <3>1 DEF Iterates
    <3>2. CASE m # 0
      <4>1. m - 1 \in Nat /\ (m - 1) + 1 = m
        BY <3>2
      <4> HIDE DEF X
      <4>2. <<m - 1, f[m - 1]>> \in Nat \X X
        BY <1>4, <4>1
      <4>3. g[<<m - 1, f[m - 1]>>] = Native!Visit(f[m - 1])
        BY <4>2
      <4> HIDE DEF g, x0
      <4>4. f[m] = g[<<m - 1, f[m - 1]>>]
        BY <1>4, <4>1 DEF Iterates
      <4>5. QED BY <3>2, <4>3, <4>4
    <3>3. QED BY <3>1, <3>2
  <2> HIDE DEF X, g, x0
  <2>2. QED BY <1>4, <2>1
<1>6. Native!InOrder(p) = after[Native!Turns].seen
  BY DEF Native!InOrder
<1>7. Def(after)
  <2> HIDE DEF Def
  <2>1. QED BY <1>5
<1> DEFINE N == {n \in Nat : after[n] \in X}
<1>8. Nat \subseteq N
  <2> HIDE DEF after, X, x0
  <2>1. 0 \in N
    BY <1>1, <1>7
  <2>2. ASSUME NEW n \in N PROVE n + 1 \in N
    <3>1. n \in Nat /\ n + 1 \in Nat /\ n + 1 # 0 /\ (n + 1) - 1 = n
      OBVIOUS
    <3>2. after[n + 1] = Native!Visit(after[n])
      BY <1>7, <3>1
    <3>3. QED BY <1>2, <3>1, <3>2
  <2>3. N \in SUBSET Nat
    OBVIOUS
  <2> HIDE DEF N
  <2>4. QED BY <2>1, <2>2, <2>3, Induction
<1>9. Native!Turns \in Nat
  <2> DEFINE slots == UNION {{q} \X DOMAIN Supers[q] : q \in Native!Known}
             h == [q \in Preds |-> {q} \X DOMAIN Supers[q]]
  <2>1. \A q \in Preds : IsFiniteSet({q} \X DOMAIN Supers[q])
    <3>1. TAKE q \in Preds
    <3>2. Supers[q] \in Seq(Preds)
      BY RegistryIsValidated DEF Preds
    <3>3. PICK len \in Nat : DOMAIN Supers[q] = 1..len
      BY <3>2, LenProperties
    <3>4. IsFiniteSet(DOMAIN Supers[q])
      <4>1. IsFiniteSet(1..len)
        BY 1 \in Int, len \in Int, FS_Interval
      <4>2. QED BY <3>3, <4>1
    <3>5. IsFiniteSet({q})
      BY FS_Singleton
    <3>6. QED BY <3>4, <3>5, FS_Product
  <2>2. IsFiniteSet({h[q] : q \in DOMAIN h})
    <3>1. IsFiniteSet(DOMAIN h)
      BY RegistryIsValidated DEF Preds
    <3> HIDE DEF h
    <3>2. QED BY <3>1, ImageIsFinite
  <2>3. slots = UNION {h[q] : q \in DOMAIN h}
    BY DEF Native!Known, Preds
  <2>4. \A T \in {h[q] : q \in DOMAIN h} : IsFiniteSet(T)
    BY <2>1
  <2> HIDE DEF h, slots
  <2>5. IsFiniteSet(slots)
    BY <2>2, <2>3, <2>4, FS_UNION
  <2>6. Native!Turns = 1 + Native!Cardinality(slots)
    BY DEF Native!Turns, slots
  <2>8. Native!Turns = 1 + Cardinality(slots)
    BY <2>6, NativeCardinality
  <2>9. Cardinality(slots) \in Nat
    BY <2>5, FS_CardinalityType
  <2> DEFINE all == Cardinality(slots)
  <2> HIDE DEF all
  <2>10. Native!Turns = 1 + all /\ all \in Nat
    BY <2>8, <2>9 DEF all
  <2>11. QED BY <2>10
<1>10. after[Native!Turns] \in X
  <2> HIDE DEF after, X
  <2>1. QED BY <1>8, <1>9
<1>11. QED
  <2> HIDE DEF after
  <2>1. QED BY <1>6, <1>10

\* What holds is closed upwards in the hierarchy.
LEMMA HoldsUpwards ==
  ASSUME NEW C, \A t : Derived(t, C) => t \in C,
         NEW head, NEW tail, NEW p, <<head, p, tail>> \in C, NEW q \in Native!Above(p)
  PROVE  <<head, q, tail>> \in C
<1> DEFINE W == {r \in Native!Above(p) \cup {p} \cup Preds : <<head, r, tail>> \in C}
<1>1. p \in W
  OBVIOUS
<1>2. ASSUME NEW r \in W, NEW r_1 \in Native!Elements(Native!SupersOf(r)) PROVE r_1 \in W
  <2>1. r_1 \in Preds
    BY RegistryIsValidated DEF Native!Elements, Native!SupersOf, Native!Known, Preds
  <2> DEFINE u == <<head, r, tail>>
  <2>2. u \in C /\ u[1] = head /\ u[2] = r /\ u[3] = tail
    OBVIOUS
  <2> HIDE DEF u
  <2>3. Derived(<<u[1], r_1, u[3]>>, C)
    BY <2>2 DEF Derived
  <2>4. QED BY <2>1, <2>2, <2>3
<1>3. Native!Above(p) \subseteq W
  <2> HIDE DEF W
  <2>1. QED BY <1>1, <1>2, AboveIsLeast
<1>4. QED BY <1>3

\* The predicate a path is taken to establish holds between its ends, wherever
\* all that follows from what its steps establish holds.
LEMMA EffectiveHolds ==
  ASSUME NEW C, \A t : Derived(t, C) => t \in C,
         NEW n \in Nat \ {0}, NEW w, \A i \in 1..(n - 1) : w[i + 1].s = w[i].o,
         NEW preds, DOMAIN preds = 1..n, Len(preds) = n,
         \A i \in 1..n : <<w[i].s, preds[i], w[i].o>> \in C,
         Native!EffectivePredicate(preds) # None
  PROVE  <<w[1].s, Native!EffectivePredicate(preds), w[n].o>> \in C
<1> DEFINE e == Native!EffectivePredicate(preds)
           until(i, p) == <<w[1].s, p, w[i].o>>
<1>1. preds # <<>>
  OBVIOUS
<1>2. CASE n = 1
  BY <1>1, <1>2 DEF Native!EffectivePredicate
<1>3. CASE n # 1 /\ Native!Reduce(preds) # None
  <2>1. e = Native!Reduce(preds)
    BY <1>1, <1>3 DEF Native!EffectivePredicate
  <2>2. PICK acc : /\ Native!Reduce(preds) = acc[Len(preds)]
                   /\ \A i \in Nat : acc[i] = IF i <= 1 THEN preds[1]
                                              ELSE IF acc[i - 1] = None THEN None
                                              ELSE Native!ComposePredicates(acc[i - 1], preds[i])
    BY ReduceFolds
  <2> DEFINE N == {i \in Nat : i + 1 <= n /\ acc[i + 1] # None => until(i + 1, acc[i + 1]) \in C}
  <2>3. 0 \in N
    BY <2>2
  <2>4. ASSUME NEW i \in N PROVE i + 1 \in N
    <3>1. SUFFICES ASSUME i + 2 <= n, acc[i + 2] # None PROVE until(i + 2, acc[i + 2]) \in C
      OBVIOUS
    <3>2. i \in Nat /\ i + 1 \in 1..(n - 1) /\ i + 2 \in 1..n /\ (i + 2) - 1 = i + 1 /\ ~(i + 2 <= 1) /\ i + 2 \in Nat
      BY <3>1
    <3> DEFINE a_1 == acc[i + 1]
               b_1 == preds[i + 2]
    <3>3. a_1 # None /\ acc[i + 2] = Native!ComposePredicates(a_1, b_1)
      BY <2>2, <3>1, <3>2
    <3>4. until(i + 1, a_1) \in C
      BY <3>2, <3>3
    <3>5. PICK c \in Native!Elements(Compositions) : c[1] = a_1 /\ c[2] = b_1 /\ c[3] = acc[i + 2]
      <4> DEFINE found == {k \in DOMAIN Compositions : Compositions[k][1] = a_1 /\ Compositions[k][2] = b_1}
      <4>1. found # {} /\ acc[i + 2] = Compositions[Native!Min(found)][3]
        BY <3>1, <3>3 DEF Native!ComposePredicates
      <4>2. found \in SUBSET Nat
        BY RegistryIsValidated
      <4>3. Native!Min(found) \in found
        <5> HIDE DEF found
        <5>1. QED BY <4>1, <4>2, MinIsMember
      <4>4. QED BY <4>1, <4>3 DEF Native!Elements
    <3>6. <<w[i + 2].s, b_1, w[i + 2].o>> \in C /\ w[i + 2].s = w[i + 1].o
      <4>1. (i + 1) + 1 = i + 2
        BY <3>2
      <4>2. QED BY <3>2, <4>1
    <3> DEFINE u == until(i + 1, a_1)
               v == <<w[i + 2].s, b_1, w[i + 2].o>>
    <3>7. /\ u[1] = w[1].s /\ u[2] = a_1 /\ u[3] = w[i + 1].o
          /\ v[1] = w[i + 2].s /\ v[2] = b_1 /\ v[3] = w[i + 2].o /\ u \in C /\ v \in C
      BY <3>4, <3>6
    <3> HIDE DEF u, v, a_1, b_1
    <3>8. Derived(<<u[1], c[3], v[3]>>, C)
      BY <3>5, <3>6, <3>7 DEF Derived
    <3>9. QED BY <3>5, <3>7, <3>8
  <2>5. Nat \subseteq N
    <3>1. N \in SUBSET Nat
      OBVIOUS
    <3> HIDE DEF N
    <3>2. QED BY <2>3, <2>4, <3>1, Induction
  <2>6. n - 1 \in N /\ (n - 1) + 1 = n
    BY <2>5
  <2>7. acc[n] # None /\ e = acc[n]
    BY <1>3, <2>1, <2>2
  <2> HIDE DEF e
  <2>8. until(n, acc[n]) \in C
    BY <2>6, <2>7
  <2>9. QED BY <2>7, <2>8 DEF e
<1>4. CASE n # 1 /\ Native!Reduce(preds) = None
  <2>1. e = Native!CommonTransitiveSuper(preds)
    BY <1>1, <1>4 DEF Native!EffectivePredicate
  <2> DEFINE first == Native!InOrder(preds[1])
             common == {i \in DOMAIN first :
                          first[i] \in Transitive /\ \A j \in DOMAIN preds : Native!PredicateEntails(preds[j], first[i])}
  <2>2. common # {} /\ e = first[Native!Min(common)]
    BY <2>1 DEF Native!CommonTransitiveSuper
  <2>3. common \in SUBSET Nat
    <3>1. first \in Seq(Preds \cup {preds[1]})
      BY InOrderIsSequence
    <3> HIDE DEF first
    <3>2. QED BY <3>1
  <2>4. Native!Min(common) \in common
    <3> HIDE DEF common
    <3>1. QED BY <2>2, <2>3, MinIsMember
  <2>5. e \in Transitive /\ \A j \in 1..n : e \in Native!Above(preds[j])
    BY <2>2, <2>4 DEF Native!PredicateEntails
  <2> HIDE DEF e, first, common
  <2>6. ASSUME NEW j \in 1..n PROVE <<w[j].s, e, w[j].o>> \in C
    <3>1. <<w[j].s, preds[j], w[j].o>> \in C /\ e \in Native!Above(preds[j])
      BY <2>5
    <3>2. QED BY <3>1, HoldsUpwards
  <2> DEFINE N == {i \in Nat : i + 1 <= n => until(i + 1, e) \in C}
  <2>7. 0 \in N
    BY <2>6
  <2>8. ASSUME NEW i \in N PROVE i + 1 \in N
    <3>1. SUFFICES ASSUME i + 2 <= n PROVE until(i + 2, e) \in C
      OBVIOUS
    <3>2. i \in Nat /\ i + 1 \in 1..(n - 1) /\ i + 2 \in 1..n /\ (i + 1) + 1 = i + 2
      BY <3>1
    <3> DEFINE u == until(i + 1, e)
               v == <<w[i + 2].s, e, w[i + 2].o>>
    <3>3. /\ u \in C /\ v \in C /\ u[3] = v[1] /\ u[2] = v[2] /\ u[2] \in Transitive
          /\ <<u[1], u[2], v[3]>> = until(i + 2, e)
      <4>1. u \in C
        BY <3>2
      <4>2. v \in C
        BY <2>6, <3>2
      <4>3. w[i + 2].s = w[i + 1].o
        BY <3>2
      <4>4. QED BY <2>5, <4>1, <4>2, <4>3
    <3> HIDE DEF u, v, until
    <3>4. Derived(<<u[1], u[2], v[3]>>, C)
      BY <3>3 DEF Derived
    <3>5. QED BY <3>3, <3>4
  <2>9. Nat \subseteq N
    <3>1. N \in SUBSET Nat
      OBVIOUS
    <3> HIDE DEF N
    <3>2. QED BY <2>7, <2>8, <3>1, Induction
  <2>10. n - 1 \in N /\ (n - 1) + 1 = n
    BY <2>9
  <2>11. until(n, e) \in C
    BY <2>10
  <2>12. QED BY <2>11 DEF e
<1>5. QED BY <1>2, <1>3, <1>4

-----------------------------------------------------------------------------
(* The native reasoner: what it entails *)

\* What the edges in sight mean is finite, as the graph is.
LEMMA MeantIsFinite == graph \in Graphs => IsFiniteSet(Native!Meant)
<1> SUFFICES ASSUME graph \in Graphs PROVE IsFiniteSet(Native!Meant)
  OBVIOUS
<1> DEFINE h == [e \in Native!Visible |->
                  <<e.s, Canon[Native!OrientedPredicate(e.p, TypesOf[e.s], TypesOf[e.o])], e.o>>]
<1>1. Native!Visible \subseteq graph
  BY DEF Native!Visible
<1>2. IsFiniteSet(Native!Visible)
  BY <1>1, GraphsAreFinite, FS_Subset
<1>3. Native!Meant = {h[e] : e \in DOMAIN h} /\ DOMAIN h = Native!Visible
  BY DEF Native!Meant
<1> HIDE DEF h
<1>4. QED BY <1>2, <1>3, ImageIsFinite

\* A path that was found is a chain of edges in sight.
LEMMA FoundIsChain ==
  ASSUME NEW from, NEW to, NEW path \in Native!FindPaths(from, to), path # <<>>
  PROVE  \E n \in Nat \ {0} : Chain(path, Native!Visible, from, to, n)
<1> DEFINE lengths == {h \in 1..MaxHops : Native!Walks(from, to, h) # {}}
           short == CHOOSE h \in lengths : \A l \in lengths : h <= l
           shortest == IF lengths = {} THEN {} ELSE Native!Walks(from, to, short)
<1>1. path \in shortest /\ Native!Elements(path) \subseteq Native!Visible
  BY DEF Native!FindPaths
<1>2. lengths # {} /\ path \in Native!Walks(from, to, short)
  <2> HIDE DEF lengths, short
  <2>1. QED BY <1>1
<1>3. short \in Nat \ {0}
  <2>1. lengths \in SUBSET Nat /\ \A l \in lengths : l # 0
    OBVIOUS
  <2>2. short = Native!Min(lengths)
    BY DEF Native!Min
  <2> HIDE DEF lengths, short
  <2>3. QED BY <1>2, <2>1, <2>2, MinIsMember
<1> HIDE DEF lengths, short, shortest
<1>4. Chain(path, graph, from, to, short)
  BY <1>2, <1>3, WalksAreChains
<1>5. path \in Seq(graph) /\ Len(path) = short
  BY <1>4 DEF Chain
<1>6. \A i \in 1..Len(path) : path[i] \in Native!Visible
  BY <1>1, <1>5 DEF Native!Elements
<1>7. path \in Seq(Native!Visible)
  BY <1>5, <1>6
<1>8. Chain(path, Native!Visible, from, to, short)
  BY <1>4, <1>5, <1>7 DEF Chain
<1>9. QED BY <1>3, <1>8

\* A path the reasoner accepts, read with the types its ends have, establishes
\* a predicate between the names.
LEMMA AcceptedPathHolds ==
  ASSUME graph \in Graphs, NEW from, NEW to, NEW path \in Native!FindPaths(from, to),
         NEW accepted, None \notin accepted, NEW fails, Native!EntailsDirected(accepted, path, fails),
         \A e \in Native!Nodes(path) : Native!EntityTypes(e, fails) = TypesOf[e]
  PROVE  \E p \in accepted : <<from, p, to>> \in Native!Consequences(Native!Meant)
<1> DEFINE preds == Native!Oriented(path, fails)
           C == Native!Consequences(Native!Meant)
           p == Native!EffectivePredicate(preds)
<1>1. path # <<>> /\ p \in accepted
  BY DEF Native!EntailsDirected, Native!RunEntails
<1>2. PICK n \in Nat \ {0} : Chain(path, Native!Visible, from, to, n)
  BY <1>1, FoundIsChain
<1>3. /\ path \in Seq(Native!Visible) /\ Len(path) = n /\ DOMAIN path = 1..n
      /\ path[1].s = from /\ path[n].o = to
      /\ \A i \in 1..(n - 1) : path[i + 1].s = path[i].o
  BY <1>2 DEF Chain
<1>4. /\ preds = [i \in 1..n |-> Canon[Native!OrientedPredicate(path[i].p, Native!EntityTypes(path[i].s, fails),
                                                              Native!EntityTypes(path[i].o, fails))]]
  BY <1>3 DEF Native!Oriented
<1> HIDE DEF preds, C
<1>5. DOMAIN preds = 1..n /\ Len(preds) = n
  <2>1. DOMAIN preds = 1..n
    BY <1>4
  <2> DEFINE S == {preds[i] : i \in 1..n}
  <2>2. preds \in Seq(S)
    <3>1. preds = [i \in 1..n |-> preds[i]]
      BY <1>4
    <3>2. preds \in [1..n -> S]
      BY <3>1
    <3> HIDE DEF S
    <3>3. QED BY <3>2
  <2>3. QED BY <2>1, <2>2
<1>6. ASSUME NEW i \in 1..n PROVE <<path[i].s, preds[i], path[i].o>> \in C
  <2>1. path[i] \in Native!Visible
    BY <1>3
  <2>2. path[i].s \in Native!Nodes(path) /\ path[i].o \in Native!Nodes(path)
    BY <1>3 DEF Native!Nodes
  <2>3. preds[i] = Canon[Native!OrientedPredicate(path[i].p, TypesOf[path[i].s], TypesOf[path[i].o])]
    BY <1>4, <2>2
  <2>4. <<path[i].s, preds[i], path[i].o>> \in Native!Meant
    BY <2>1, <2>3 DEF Native!Meant
  <2>5. QED BY <2>4, MeantIsFinite, ConsequencesAreClosed DEF C
<1>7. \A t : Derived(t, C) => t \in C
  BY MeantIsFinite, ConsequencesAreClosed DEF C
<1>8. p # None
  BY <1>1
<1>9. <<path[1].s, p, path[n].o>> \in C
  BY <1>3, <1>5, <1>6, <1>7, <1>8, EffectiveHolds
<1>10. QED BY <1>1, <1>3, <1>9 DEF C

\* The predicates accepted for a known one are all known, and entail it.
LEMMA AcceptedEntail ==
  ASSUME NEW C, \A t : Derived(t, C) => t \in C,
         NEW p, Canon[p] = p, NEW q \in Native!AcceptedPredicates(p),
         NEW head, NEW tail, <<head, q, tail>> \in C
  PROVE  <<head, p, tail>> \in C
<1>1. q = p \/ p \in Native!Above(q)
  BY DEF Native!AcceptedPredicates, Native!PredicatesEntailing, Native!PredicateEntails
<1>2. QED BY <1>1, HoldsUpwards

LEMMA AcceptedAreKnown == \A p : Native!AcceptedPredicates(p) \subseteq Preds
BY DEF Native!AcceptedPredicates, Native!PredicatesEntailing, Native!Known, Preds

-----------------------------------------------------------------------------

NativeHolds ==
  /\ graph \in Graphs
  /\ \A e \in DOMAIN types : e \in lost \/ types[e] = TypesOf[e]
  /\ Native!ProofsAreSound

\* What the graph means changes with the graph only.
LEMMA MeaningStays == UNCHANGED graph => /\ Native!Visible' = Native!Visible
                                        /\ Native!Consequences(Native!Meant)' = Native!Consequences(Native!Meant)
<1> SUFFICES ASSUME UNCHANGED graph
             PROVE  /\ Native!Visible' = Native!Visible
                    /\ Native!Consequences(Native!Meant)' = Native!Consequences(Native!Meant)
  OBVIOUS
<1>1. Native!Visible' = Native!Visible
  BY DEF Native!Visible
<1>2. Native!Meant' = Native!Meant
  BY <1>1 DEF Native!Meant
<1>3. QED BY <1>1, <1>2

\* What an answer says stays so: more types may be lost, never fewer.
LEMMA AnswerStays ==
  ASSUME Native!ProofsAreSound, UNCHANGED <<graph, answer>>, lost \subseteq lost'
  PROVE  Native!ProofsAreSound'
<1>1. answer' = answer /\ (answer.steps \cap lost' = {} => answer.steps \cap lost = {})
  OBVIOUS
<1>2. QED BY <1>1, MeaningStays DEF Native!ProofsAreSound

LEMMA ConflictKeeps == ASSUME NativeHolds, NEW claim \in Asked, NEW fails, Native!Conflict(claim, fails)
                       PROVE  NativeHolds'
<1>1. answer'.verdict = "contradicted" /\ UNCHANGED <<graph, types, lost>>
  BY DEF Native!Conflict, Native!Reply
<1>2. Native!ProofsAreSound'
  BY <1>1 DEF Native!ProofsAreSound
<1>3. QED BY <1>1, <1>2 DEF NativeHolds

\* A path whose ends' types are looked up, and none of them lost, is read with
\* the types its ends have.
LEMMA LookedUpIsRead ==
  ASSUME NativeHolds, NEW looked, NEW fails \in BOOLEAN,
         types' = [e \in DOMAIN types \cup looked |-> Native!EntityTypes(e, fails)],
         lost' = IF fails THEN lost \cup (looked \ DOMAIN types) ELSE lost
  PROVE  /\ \A e \in DOMAIN types' : e \in lost' \/ types'[e] = TypesOf[e]
         /\ \A e \in looked : e \in lost' \/ Native!EntityTypes(e, fails) = TypesOf[e]
<1>1. ASSUME NEW e \in DOMAIN types \cup looked, e \notin lost'
      PROVE  Native!EntityTypes(e, fails) = TypesOf[e]
  <2>1. CASE e \in DOMAIN types
    <3>1. e \notin lost
      BY <1>1
    <3>2. QED BY <2>1, <3>1 DEF NativeHolds, Native!EntityTypes
  <2>2. CASE e \notin DOMAIN types
    <3>1. ~fails
      BY <1>1, <2>2
    <3>2. QED BY <2>2, <3>1 DEF Native!EntityTypes
  <2>3. QED BY <2>1, <2>2
<1>2. QED BY <1>1

LEMMA SupportKeeps == ASSUME NativeHolds, NEW claim \in Asked, NEW fails, Native!Support(claim, fails)
                      PROVE  NativeHolds'
<1> DEFINE noEntity == "entity" \in fails
           noTypes == "types" \in fails
           memo1 == Native!Remember(memo, claim[1], noEntity)
           s == Native!ResolveEntity(memo, claim[1], noEntity)
           o == Native!ResolveEntity(memo1, claim[3], noEntity)
           p == Canon[claim[2]]
           accepted == Native!AcceptedPredicates(p)
           inverses == IF p \in DOMAIN InverseOf THEN Native!AcceptedPredicates(InverseOf[p]) ELSE {}
           C == Native!Consequences(Native!Meant)
           direct(path) == Native!EntailsDirected(accepted, path, noTypes)
           looked(path, back) == Native!LooksUp(accepted, path)
                                   \cup (IF direct(path) THEN {} ELSE Native!LooksUp(inverses, back))
<1>1. PICK path \in Native!FindPaths(s, o), back \in Native!FindPaths(o, s) :
        /\ IF direct(path) THEN Native!Reply(claim, <<s, o>>, "entailed", Native!Nodes(path), fails)
           ELSE IF Native!EntailsDirected(inverses, back, noTypes)
           THEN Native!Reply(claim, <<s, o>>, "entailed", Native!Nodes(back), fails)
           ELSE Native!Reply(claim, <<s, o>>, "unsupported", {}, fails)
        /\ types' = [e \in DOMAIN types \cup looked(path, back) |-> Native!EntityTypes(e, noTypes)]
        /\ lost' = IF noTypes THEN lost \cup (looked(path, back) \ DOMAIN types) ELSE lost
  BY DEF Native!Support
<1>2. /\ "contradiction" \in fails \/ ~Native!Contradicts(claim[1], claim[2], claim[3])
      /\ UNCHANGED graph
  BY DEF Native!Support
<1> HIDE DEF s, o, memo1
<1>3. /\ \A e \in DOMAIN types' : e \in lost' \/ types'[e] = TypesOf[e]
      /\ \A e \in looked(path, back) : e \in lost' \/ Native!EntityTypes(e, noTypes) = TypesOf[e]
  <2> DEFINE all == looked(path, back)
  <2>1. /\ types' = [e \in DOMAIN types \cup all |-> Native!EntityTypes(e, noTypes)]
        /\ lost' = IF noTypes THEN lost \cup (all \ DOMAIN types) ELSE lost
    BY <1>1
  <2>2. noTypes \in BOOLEAN
    OBVIOUS
  <2> HIDE DEF all, noTypes
  <2>3. /\ \A e \in DOMAIN types' : e \in lost' \/ types'[e] = TypesOf[e]
        /\ \A e \in all : e \in lost' \/ Native!EntityTypes(e, noTypes) = TypesOf[e]
    BY <2>1, <2>2, LookedUpIsRead
  <2>4. QED BY <2>3 DEF all
<1>4. Canon[p] = p /\ graph \in Graphs
  BY SpellingsAreUnambiguous DEF NativeHolds
<1>5. \A t : Derived(t, C) => t \in C
  BY <1>4, MeantIsFinite, ConsequencesAreClosed
<1>6. None \notin accepted /\ None \notin inverses
  BY AcceptedAreKnown, RegistryIsValidated DEF Preds
<1> HIDE DEF C, accepted, inverses
<1>7. /\ Native!ResolveEntity(memo, claim[1], noEntity) = s
      /\ C' = C
  BY <1>2, MeaningStays DEF s, C
<1>8. ASSUME answer'.verdict = "entailed", answer'.steps \cap lost' = {}
      PROVE  <<s, p, o>> \in C /\ answer'.names = <<s, o>> /\ answer'.claim = claim /\ answer'.fails = fails
  <2>1. CASE direct(path)
    <3>1. answer' = [claim |-> claim, names |-> <<s, o>>, verdict |-> "entailed",
                     steps |-> Native!Nodes(path), fails |-> fails]
      BY <1>1, <2>1 DEF Native!Reply
    <3>2. Native!LooksUp(accepted, path) = Native!Nodes(path)
      BY <2>1 DEF Native!EntailsDirected, Native!LooksUp
    <3>3. \A e \in Native!Nodes(path) : Native!EntityTypes(e, noTypes) = TypesOf[e]
      BY <1>3, <1>8, <3>1, <3>2
    <3>4. PICK q \in accepted : <<s, q, o>> \in C
      BY <1>4, <1>6, <2>1, <3>3, AcceptedPathHolds DEF C
    <3>5. <<s, p, o>> \in C
      BY <1>4, <1>5, <3>4, AcceptedEntail DEF accepted
    <3>6. QED BY <3>1, <3>5
  <2>2. CASE ~direct(path) /\ Native!EntailsDirected(inverses, back, noTypes)
    <3>1. answer' = [claim |-> claim, names |-> <<s, o>>, verdict |-> "entailed",
                     steps |-> Native!Nodes(back), fails |-> fails]
      BY <1>1, <2>2 DEF Native!Reply
    <3>2. Native!LooksUp(inverses, back) = Native!Nodes(back)
      BY <2>2 DEF Native!EntailsDirected, Native!LooksUp
    <3>3. \A e \in Native!Nodes(back) : Native!EntityTypes(e, noTypes) = TypesOf[e]
      BY <1>3, <1>8, <2>2, <3>1, <3>2
    <3>4. PICK q \in inverses : <<o, q, s>> \in C
      BY <1>4, <1>6, <2>2, <3>3, AcceptedPathHolds DEF C
    <3>5. p \in DOMAIN InverseOf /\ q \in Native!AcceptedPredicates(InverseOf[p])
      BY <3>4 DEF inverses
    <3>6. Canon[InverseOf[p]] = InverseOf[p]
      BY <3>5, RegistryIsValidated, SpellingsAreUnambiguous
    <3>7. <<o, InverseOf[p], s>> \in C
      BY <1>5, <3>4, <3>5, <3>6, AcceptedEntail
    <3> DEFINE u == <<o, InverseOf[p], s>>
    <3>8. u \in C /\ u[1] = o /\ u[2] = InverseOf[p] /\ u[3] = s
      BY <3>7
    <3> HIDE DEF u, p
    <3>9. Derived(<<u[3], p, u[1]>>, C)
      BY <3>5, <3>8 DEF Derived
    <3>10. <<s, p, o>> \in C
      BY <1>5, <3>8, <3>9
    <3>11. QED BY <3>1, <3>10
  <2>3. CASE ~direct(path) /\ ~Native!EntailsDirected(inverses, back, noTypes)
    BY <1>1, <1>8, <2>3 DEF Native!Reply
  <2>4. QED BY <2>1, <2>2, <2>3
<1>9. answer'.names = <<s, o>> /\ answer'.claim = claim /\ answer'.fails = fails
  BY <1>1 DEF Native!Reply
<1>10. ASSUME s = claim[1], o = claim[3], "contradiction" \notin fails,
              NEW e \in Native!Visible, e.s = s, e.o = o, e.p \in Native!Conflicting(p)
       PROVE  FALSE
  <2>1. e \in graph
    BY DEF Native!Visible
  <2>2. e.s \in Spelled[claim[1]] /\ e.o \in Spelled[claim[3]]
    BY <1>4, <1>10, <2>1, NamesAreSpellings
  <2>3. Native!Contradicts(claim[1], claim[2], claim[3])
    BY <1>10, <2>2 DEF Native!Contradicts
  <2>4. QED BY <1>2, <1>10, <2>3
<1>11. Native!ProofsAreSound'
  <2>1. C = Native!Consequences(Native!Meant) /\ Native!Visible' = Native!Visible
    BY <1>2, MeaningStays DEF C
  <2>2. Native!Consequences(Native!Meant)' = C
    BY <1>2, MeaningStays DEF C
  <2>3. \A q : Native!Conflicting(q)' = Native!Conflicting(q)
    BY DEF Native!Conflicting
  <2> HIDE DEF p
  <2>4. <<s, o>>[1] = s /\ <<s, o>>[2] = o /\ Canon[claim[2]] = p
    BY DEF p
  <2>5. QED BY <1>8, <1>9, <1>10, <2>1, <2>2, <2>3, <2>4 DEF Native!ProofsAreSound
<1>12. QED BY <1>2, <1>3, <1>4, <1>11 DEF NativeHolds

LEMMA NativeStep == ASSUME NativeHolds, [Native!Next]_(Native!vars) PROVE NativeHolds'
<1>1. CASE UNCHANGED <<graph, types, lost, answer>>
  <2>1. Native!ProofsAreSound'
    BY <1>1, AnswerStays DEF NativeHolds
  <2>2. QED BY <1>1, <2>1 DEF NativeHolds
<1>2. CASE Native!Next
  <2>1. PICK claim \in Asked, fails \in {{}, {"contradiction"}, {"entity"}, {"types"}} :
          Native!Conflict(claim, fails) \/ Native!Support(claim, fails)
    BY <1>2 DEF Native!Next
  <2>2. QED BY <2>1, ConflictKeeps, SupportKeeps
<1>3. QED BY <1>1, <1>2 DEF Native!vars

-----------------------------------------------------------------------------
(* The portable engine *)

\* It reads the registry as the native reasoner does.
LEMMA EngineReadsRegistry ==
  /\ \A p : Engine!Above(p) = Native!Above(p)
  /\ \A preds : Engine!EffectivePredicate(preds) = Native!EffectivePredicate(preds)
  /\ \A S : Engine!Consequences(S) = Native!Consequences(S)
<1>1. \A q : Engine!Elements(q) = Native!Elements(q)
  BY DEF Engine!Elements, Native!Elements
<1>2. \A p : Engine!SupersOf(p) = Native!SupersOf(p)
  BY DEF Engine!SupersOf, Native!SupersOf, Engine!Known, Native!Known
<1>3. Engine!Known = Native!Known
  BY DEF Engine!Known, Native!Known
<1>4. \A p : Engine!Above(p) = Native!Above(p)
  BY DEF Engine!Above, Native!Above, Engine!Elements, Native!Elements, Engine!SupersOf, Native!SupersOf,
         Engine!Known, Native!Known
<1>5. \A S : Engine!Min(S) = Native!Min(S)
  BY DEF Engine!Min, Native!Min
<1>6. \A p, q : Engine!ComposePredicates(p, q) = Native!ComposePredicates(p, q)
  BY <1>5 DEF Engine!ComposePredicates, Native!ComposePredicates
<1>7. \A preds : Engine!Reduce(preds) = Native!Reduce(preds)
  BY <1>6 DEF Engine!Reduce, Native!Reduce
<1>8. \A search : Engine!Visit(search) = Native!Visit(search)
  BY <1>1, <1>2 DEF Engine!Visit, Native!Visit
<1>9. Engine!Turns = Native!Turns
  BY <1>3 DEF Engine!Turns, Native!Turns, Engine!Cardinality, Native!Cardinality
<1>10. \A p : Engine!InOrder(p) = Native!InOrder(p)
  BY <1>8, <1>9 DEF Engine!InOrder, Native!InOrder
<1>11. \A preds : Engine!CommonTransitiveSuper(preds) = Native!CommonTransitiveSuper(preds)
  BY <1>4, <1>5, <1>10 DEF Engine!CommonTransitiveSuper, Native!CommonTransitiveSuper,
                           Engine!PredicateEntails, Native!PredicateEntails
<1>12. \A preds : Engine!EffectivePredicate(preds) = Native!EffectivePredicate(preds)
  BY <1>7, <1>11 DEF Engine!EffectivePredicate, Native!EffectivePredicate
<1>13. \A S : Engine!Follows(S) = Native!Follows(S)
  BY <1>1, <1>2 DEF Engine!Follows, Native!Follows
<1>14. \A S : Engine!Sayable(S) = Native!Sayable(S)
  BY <1>1, <1>3 DEF Engine!Sayable, Native!Sayable
<1>15. \A S : Engine!Consequences(S) = Native!Consequences(S)
  BY <1>13, <1>14 DEF Engine!Consequences, Native!Consequences
<1>16. QED BY <1>4, <1>12, <1>15

\* One more hop on a trail, over an edge it has not used.
TrailEnd(t, from) == IF t = <<>> THEN from ELSE t[Len(t)].o
Onward(stored, t, from) ==
  {e \in Engine!Visible(stored) : TrailEnd(t, from) \in {e.s, e.o} /\ \A i \in DOMAIN t : t[i].edge # e}
Longer(stored, from, T) ==
  UNION {{Append(t, Engine!Hop(e, TrailEnd(t, from))) : e \in Onward(stored, t, from)} : t \in T}

LEMMA TrailsGrow ==
  ASSUME NEW stored, NEW from
  PROVE  /\ Engine!Trails(stored, from, 0) = {<<>>}
         /\ \A n \in Nat : Engine!Trails(stored, from, n + 1) = Longer(stored, from, Engine!Trails(stored, from, n))
<1> DEFINE Hops == UNION {{Engine!Hop(e, e.s), Engine!Hop(e, e.o)} : e \in stored}
           X == SUBSET Seq(Hops)
           step(T) == Longer(stored, from, T)
           Def(f) == f = [m \in Nat |-> IF m = 0 THEN {<<>>} ELSE step(f[m - 1])]
           trails == CHOOSE f : Def(f)
           g == [z \in Nat \X X |-> step(z[2])]
<1>1. \A n : Engine!Trails(stored, from, n) = trails[n]
  BY DEF Engine!Trails, Longer, Onward, TrailEnd
<1>2. ASSUME NEW T \in X PROVE step(T) \in X
  <2>1. ASSUME NEW t \in T, NEW e \in Onward(stored, t, from)
        PROVE  Append(t, Engine!Hop(e, TrailEnd(t, from))) \in Seq(Hops)
    <3>1. e \in stored /\ TrailEnd(t, from) \in {e.s, e.o}
      BY DEF Onward, Engine!Visible
    <3>2. Engine!Hop(e, TrailEnd(t, from)) \in Hops
      BY <3>1
    <3>3. t \in Seq(Hops)
      OBVIOUS
    <3> HIDE DEF Hops
    <3>4. QED BY <3>2, <3>3, AppendProperties
  <2> HIDE DEF Hops
  <2>2. QED BY <2>1 DEF Longer
<1>3. g \in [Nat \X X -> X]
  <2> HIDE DEF step, X
  <2>1. QED BY <1>2
<1>4. {<<>>} \in X
  OBVIOUS
<1>5. PICK f \in [Nat -> X] : Iterates(f, {<<>>}, g)
  <2> HIDE DEF g, X
  <2>1. QED BY <1>3, <1>4, IterationExists
<1>6. Def(f)
  <2>1. ASSUME NEW m \in Nat PROVE f[m] = IF m = 0 THEN {<<>>} ELSE step(f[m - 1])
    <3>1. CASE m = 0
      BY <1>5, <3>1 DEF Iterates
    <3>2. CASE m # 0
      <4>1. m - 1 \in Nat /\ (m - 1) + 1 = m
        BY <3>2
      <4> HIDE DEF step, X
      <4>2. <<m - 1, f[m - 1]>> \in Nat \X X
        BY <1>5, <4>1
      <4>3. g[<<m - 1, f[m - 1]>>] = step(f[m - 1])
        BY <4>2
      <4> HIDE DEF g
      <4>4. f[m] = g[<<m - 1, f[m - 1]>>]
        BY <1>5, <4>1 DEF Iterates
      <4>5. QED BY <3>2, <4>3, <4>4
    <3>3. QED BY <3>1, <3>2
  <2> HIDE DEF step, X, g
  <2>2. QED BY <1>5, <2>1
<1>7. Def(trails)
  <2> HIDE DEF Def
  <2>1. QED BY <1>6
<1> HIDE DEF trails, step
<1>8. trails[0] = {<<>>}
  BY <1>7
<1>9. ASSUME NEW m \in Nat PROVE trails[m + 1] = step(trails[m])
  <2>1. m + 1 \in Nat /\ m + 1 # 0 /\ (m + 1) - 1 = m
    OBVIOUS
  <2>2. QED BY <1>7, <2>1
<1>10. QED BY <1>1, <1>8, <1>9 DEF step

\* A trail is a chain of edges, read in the direction they are walked.
LEMMA TrailsAreChains ==
  ASSUME NEW stored, NEW from, NEW n \in Nat \ {0}, NEW t \in Engine!Trails(stored, from, n)
  PROVE  /\ DOMAIN t = 1..n /\ Len(t) = n /\ t[1].s = from
         /\ \A i \in 1..n : <<t[i].s, Canon[t[i].edge.p], t[i].o>> \in Engine!Undirected(Engine!Visible(stored))
         /\ \A i \in 1..(n - 1) : t[i + 1].s = t[i].o
<1> DEFINE seen == Engine!Visible(stored)
           ends == UNION {{e.s, e.o} : e \in seen}
           Hops == {h \in [edge : seen, s : ends, o : ends] :
                      <<h.s, Canon[h.edge.p], h.o>> \in Engine!Undirected(seen)}
           Good(x, m) == /\ x \in Seq(Hops) /\ Len(x) = m
                         /\ m # 0 => x[1].s = from
                         /\ \A i \in 1..(m - 1) : x[i + 1].s = x[i].o
           trails(m) == Engine!Trails(stored, from, m)
           N == {m \in Nat : \A x \in trails(m) : Good(x, m)}
<1>1. ASSUME NEW e \in seen, NEW x \in {e.s, e.o}
      PROVE  Engine!Hop(e, x) \in Hops
  <2>1. Engine!Hop(e, x) = [edge |-> e, s |-> x, o |-> IF e.s = x THEN e.o ELSE e.s]
    BY DEF Engine!Hop
  <2>2. <<e.s, Canon[e.p], e.o>> \in Engine!Undirected(seen) /\ <<e.o, Canon[e.p], e.s>> \in Engine!Undirected(seen)
    BY DEF Engine!Undirected
  <2> HIDE DEF seen
  <2>3. <<x, Canon[e.p], IF e.s = x THEN e.o ELSE e.s>> \in Engine!Undirected(seen)
    BY <2>2
  <2>4. QED BY <2>1, <2>3
<1> HIDE DEF Hops
<1>2. 0 \in N
  <2>1. Good(<<>>, 0)
    OBVIOUS
  <2> HIDE DEF Good
  <2>2. QED BY <2>1, TrailsGrow
<1>3. ASSUME NEW m \in N PROVE m + 1 \in N
  <2>1. ASSUME NEW x \in trails(m), NEW e \in Onward(stored, x, from)
        PROVE  Good(Append(x, Engine!Hop(e, TrailEnd(x, from))), m + 1)
    <3>1. Good(x, m)
      OBVIOUS
    <3> DEFINE h == Engine!Hop(e, TrailEnd(x, from))
               y == Append(x, h)
    <3>2. h \in Hops /\ h.s = TrailEnd(x, from)
      <4>1. e \in seen /\ TrailEnd(x, from) \in {e.s, e.o}
        BY DEF Onward
      <4>2. h \in Hops
        BY <1>1, <4>1
      <4>3. QED BY <4>2 DEF Engine!Hop
    <3> HIDE DEF h
    <3>3. /\ y \in Seq(Hops) /\ Len(y) = m + 1 /\ y[m + 1] = h
          /\ \A i \in 1..m : y[i] = x[i]
      BY <3>1, <3>2
    <3>4. x = <<>> <=> m = 0
      BY <3>1
    <3> HIDE DEF y
    <3>5. y[1].s = from
      <4>1. CASE m = 0
        BY <3>2, <3>3, <3>4, <4>1 DEF TrailEnd
      <4>2. CASE m # 0
        <5>1. 1 \in 1..m
          BY <4>2
        <5>2. QED BY <3>1, <3>3, <4>2, <5>1
      <4>3. QED BY <4>1, <4>2
    <3>6. ASSUME NEW i \in 1..m PROVE y[i + 1].s = y[i].o
      <4>1. CASE i = m
        BY <3>1, <3>2, <3>3, <3>4, <4>1 DEF TrailEnd
      <4>2. CASE i # m
        <5>1. i \in 1..(m - 1) /\ i + 1 \in 1..m
          BY <4>2
        <5>2. x[i + 1].s = x[i].o
          BY <3>1, <5>1
        <5>3. QED BY <3>3, <5>1, <5>2
      <4>3. QED BY <4>1, <4>2
    <3>7. QED BY <3>3, <3>5, <3>6 DEF y, h
  <2> HIDE DEF Good
  <2>2. ASSUME NEW z \in trails(m + 1) PROVE Good(z, m + 1)
    <3>1. m \in Nat
      OBVIOUS
    <3>2. z \in Longer(stored, from, trails(m))
      BY <3>1, TrailsGrow
    <3>3. PICK x \in trails(m) : z \in {Append(x, Engine!Hop(e, TrailEnd(x, from))) : e \in Onward(stored, x, from)}
      BY <3>2 DEF Longer
    <3>4. QED BY <2>1, <3>3
  <2>3. m \in Nat /\ m + 1 \in Nat
    OBVIOUS
  <2>4. QED BY <2>2, <2>3
<1>4. Nat \subseteq N
  <2>1. N \in SUBSET Nat
    OBVIOUS
  <2> HIDE DEF N
  <2>2. QED BY <1>2, <1>3, <2>1, Induction
<1>5. Good(t, n)
  BY <1>4
<1>6. t \in Seq(Hops) /\ Len(t) = n
  BY <1>5
<1>7. ASSUME NEW i \in 1..n PROVE <<t[i].s, Canon[t[i].edge.p], t[i].o>> \in Engine!Undirected(Engine!Visible(stored))
  <2>1. t[i] \in Hops
    BY <1>6
  <2>2. QED BY <2>1 DEF Hops
<1>8. QED BY <1>5, <1>6, <1>7

\* A trail that establishes a predicate holds in what follows from the edges
\* read both ways, in one direction or the other.
LEMMA EstablishedFollows ==
  ASSUME NEW stored, IsFiniteSet(stored), NEW s, NEW target, NEW o,
         NEW n \in Nat \ {0}, NEW t \in Engine!Trails(stored, s, n), t[Len(t)].o = o, Engine!Establishes(t, target)
  PROVE  {<<s, target, o>>, <<o, target, s>>} \cap Engine!Consequences(Engine!Undirected(Engine!Visible(stored))) # {}
<1> DEFINE C == Native!Consequences(Engine!Undirected(Engine!Visible(stored)))
           preds == Engine!Predicates(t)
           p == Native!EffectivePredicate(preds)
<1>1. IsFiniteSet(Engine!Undirected(Engine!Visible(stored)))
  <2> DEFINE seen == Engine!Visible(stored)
  <2>0. IsFiniteSet(seen)
    BY FS_Subset DEF Engine!Visible
  <2> HIDE DEF seen
  <2> DEFINE there == [e \in seen |-> <<e.s, Canon[e.p], e.o>>]
             back == [e \in seen |-> <<e.o, Canon[e.p], e.s>>]
  <2>1. /\ Engine!Undirected(seen) = {there[e] : e \in DOMAIN there} \cup {back[e] : e \in DOMAIN back}
        /\ DOMAIN there = seen /\ DOMAIN back = seen
    BY DEF Engine!Undirected
  <2> HIDE DEF there, back
  <2>2. IsFiniteSet({there[e] : e \in DOMAIN there}) /\ IsFiniteSet({back[e] : e \in DOMAIN back})
    BY <2>0, <2>1, ImageIsFinite
  <2> DEFINE A == {there[e] : e \in DOMAIN there}
             B == {back[e] : e \in DOMAIN back}
  <2>3. Engine!Undirected(seen) = A \cup B /\ IsFiniteSet(A) /\ IsFiniteSet(B)
    BY <2>1, <2>2
  <2> HIDE DEF A, B
  <2>4. IsFiniteSet(A \cup B)
    BY <2>3, FS_Union
  <2>5. QED BY <2>3, <2>4 DEF seen
<1>2. Engine!Undirected(Engine!Visible(stored)) \subseteq C /\ \A u : Derived(u, C) => u \in C
  BY <1>1, ConsequencesAreClosed
<1>3. /\ DOMAIN t = 1..n /\ Len(t) = n /\ t[1].s = s
      /\ \A i \in 1..n : <<t[i].s, Canon[t[i].edge.p], t[i].o>> \in Engine!Undirected(Engine!Visible(stored))
      /\ \A i \in 1..(n - 1) : t[i + 1].s = t[i].o
  BY TrailsAreChains
<1>4. preds = [i \in 1..n |-> Canon[t[i].edge.p]]
  BY <1>3 DEF Engine!Predicates
<1>5. p # None /\ Engine!ProofEntails(p, target, TRUE)
  BY EngineReadsRegistry DEF Engine!Establishes
<1> HIDE DEF preds
<1>6. DOMAIN preds = 1..n /\ Len(preds) = n
  <2>1. DOMAIN preds = 1..n
    BY <1>4
  <2> DEFINE S == {preds[i] : i \in 1..n}
  <2>2. preds \in Seq(S)
    <3>1. preds = [i \in 1..n |-> preds[i]]
      BY <1>4
    <3>2. preds \in [1..n -> S]
      BY <3>1
    <3> HIDE DEF S
    <3>3. QED BY <3>2
  <2>3. QED BY <2>1, <2>2
<1>7. \A i \in 1..n : <<t[i].s, preds[i], t[i].o>> \in C
  BY <1>2, <1>3, <1>4
<1> HIDE DEF C
<1>8. <<s, p, o>> \in C
  <2>1. <<t[1].s, p, t[n].o>> \in C
    BY <1>2, <1>3, <1>5, <1>6, <1>7, EffectiveHolds
  <2>2. QED BY <1>3, <2>1
<1> HIDE DEF p
<1>9. target \in Native!Above(p) \/ (target \in DOMAIN InverseOf /\ InverseOf[target] \in Native!Above(p))
  BY <1>5, EngineReadsRegistry DEF Engine!ProofEntails, Engine!PredicateEntails
<1>10. CASE target \in Native!Above(p)
  <2>1. <<s, target, o>> \in C
    BY <1>2, <1>8, <1>10, HoldsUpwards
  <2>2. QED BY <2>1, EngineReadsRegistry DEF C
<1>11. CASE target \in DOMAIN InverseOf /\ InverseOf[target] \in Native!Above(p)
  <2> DEFINE u == <<s, InverseOf[target], o>>
  <2>1. u \in C /\ u[1] = s /\ u[2] = InverseOf[target] /\ u[3] = o
    BY <1>2, <1>8, <1>11, HoldsUpwards
  <2> HIDE DEF u
  <2>2. Derived(<<u[3], target, u[1]>>, C)
    BY <1>11, <2>1 DEF Derived
  <2>3. <<o, target, s>> \in C
    BY <1>2, <2>1, <2>2
  <2>4. QED BY <2>3, EngineReadsRegistry DEF C
<1>12. QED BY <1>9, <1>10, <1>11

LEMMA EngineCardinality == \A S : Engine!Cardinality(S) = Cardinality(S)
BY DEF Engine!Cardinality, Cardinality

\* What is left of a set when it is cut off: some of it, and all that certainly
\* comes early enough.
LEMMA CutKeeps ==
  ASSUME NEW S, NEW size, NEW rank, NEW X \in Engine!Cut(S, size, rank)
  PROVE  /\ X \subseteq S
         /\ Cardinality(S) <= size => X = S
         /\ \A x \in S : Cardinality({y \in S : rank[y] <= rank[x]}) <= size => x \in X
         /\ size \in Nat \ {0} /\ S # {} => X # {}
<1>1. CASE Cardinality(S) <= size
  <2>1. X = S
    BY <1>1, EngineCardinality DEF Engine!Cut
  <2>2. QED BY <2>1
<1>2. CASE ~(Cardinality(S) <= size)
  <2> DEFINE early == {x \in S : Cardinality({y \in S : rank[y] <= rank[x]}) <= size}
             tied == {x \in S \ early : Cardinality({y \in S : rank[y] < rank[x]}) < size}
  <2>1. X \in {early \cup more : more \in Engine!kSubset(size - Cardinality(early), tied)}
    BY <1>2, EngineCardinality DEF Engine!Cut
  <2>2. PICK more : X = early \cup more /\ more \subseteq tied /\ Cardinality(more) = size - Cardinality(early)
    <3> HIDE DEF early, tied
    <3>1. QED BY <2>1, EngineCardinality DEF Engine!kSubset
  <2>3. early \subseteq S /\ tied \subseteq S
    OBVIOUS
  <2>4. ASSUME size \in Nat \ {0}, X = {} PROVE FALSE
    <3> HIDE DEF early, tied
    <3>1. early = {} /\ more = {}
      BY <2>2, <2>4
    <3>2. Cardinality({}) = 0
      BY FS_EmptySet
    <3>3. 0 = size - 0
      BY <2>2, <3>1, <3>2
    <3>4. QED BY <2>4, <3>3
  <2>5. X \subseteq S /\ early \subseteq X
    <3> HIDE DEF early, tied
    <3>1. QED BY <2>2, <2>3
  <2> HIDE DEF tied
  <2>6. QED BY <1>2, <2>4, <2>5
<1>3. QED BY <1>1, <1>2

NotLonger(trails, t) == {y \in trails : Len(y) <= Len(t)}
\* No limit hides the trail from the engine, nor is it too doubtful.
Seen(world, trails, t) == Engine!Cost(t) <= MaxCost /\ Cardinality(NotLonger(trails, t)) <= 4 * world.limit

\* Derive returns confident trails of those wanted; and some, when there is one
\* the limit of the rows does not cut off; and below the limits all.
LEMMA DerivedKeeps ==
  ASSUME NEW world, world.limit \in Nat \ {0}, NEW trails, NEW wanted, NEW X \in Engine!Derived(world, trails, wanted)
  PROVE  /\ X \subseteq trails \cap wanted
         /\ \A t \in trails \cap wanted : Seen(world, trails, t) => X # {}
         /\ LET all == {t \in trails \cap wanted : Engine!Cost(t) <= MaxCost}
            IN  Cardinality(trails) <= 4 * world.limit =>
                  /\ X # {} <=> all # {}
                  /\ Cardinality(all) <= world.limit => X = all
<1> DEFINE len == [t \in trails |-> Len(t)]
           proofs(R) == {t \in R \cap wanted : Engine!Cost(t) <= MaxCost}
           cost(P) == [t \in P |-> Engine!Cost(t)]
           all == {t \in trails \cap wanted : Engine!Cost(t) <= MaxCost}
<1>1. PICK rows \in Engine!Cut(trails, 4 * world.limit, len) : X \in Engine!Cut(proofs(rows), world.limit, cost(proofs(rows)))
  BY DEF Engine!Derived, Engine!Rows
<1> HIDE DEF len, cost
<1>2. /\ rows \subseteq trails
      /\ Cardinality(trails) <= 4 * world.limit => rows = trails
      /\ \A t \in trails : Cardinality({y \in trails : len[y] <= len[t]}) <= 4 * world.limit => t \in rows
  BY <1>1, CutKeeps
<1> DEFINE P == proofs(rows)
<1>3. /\ X \subseteq P
      /\ Cardinality(P) <= world.limit => X = P
      /\ P # {} => X # {}
  <2> HIDE DEF P
  <2>1. X \in Engine!Cut(P, world.limit, cost(P))
    BY <1>1 DEF P
  <2>2. QED BY <2>1, CutKeeps
<1>4. P \subseteq trails \cap wanted
  BY <1>2
<1>5. ASSUME NEW t \in trails \cap wanted, Seen(world, trails, t)
      PROVE  X # {}
  <2>1. {y \in trails : len[y] <= len[t]} = NotLonger(trails, t)
    BY DEF len, NotLonger
  <2>2. t \in rows
    BY <1>2, <1>5, <2>1 DEF Seen
  <2>3. t \in P
    BY <1>5, <2>2 DEF Seen
  <2> HIDE DEF P
  <2>4. QED BY <1>3, <2>3
<1>6. Cardinality(trails) <= 4 * world.limit => P = all
  BY <1>2
<1> HIDE DEF P, all
<1>7. QED BY <1>3, <1>4, <1>5, <1>6 DEF all

\* The trails from a name are chains of hops over visible edges.
LEMMA TrailsHaveLength ==
  ASSUME NEW stored, NEW from, NEW t \in Engine!AllTrails(stored, from)
  PROVE  \E n \in Nat \ {0} : t \in Engine!Trails(stored, from, n) /\ Len(t) = n
<1>1. PICK n \in 1..MaxHops : t \in Engine!Trails(stored, from, n)
  BY DEF Engine!AllTrails
<1>2. n \in Nat \ {0}
  BY EngineIsAsked
<1>3. QED BY <1>1, <1>2, TrailsAreChains

\* The engine's verdicts agree with what follows from the edges; and below its
\* limits with those, and with a backend of bare paths whose proofs are filtered.
LEMMA EngineAgreesAlways ==
  ASSUME NEW world, IsFiniteSet(world.edges), world.limit \in Nat \ {0},
         NEW s, NEW pred, NEW o, Canon[pred] # None
  PROVE  Engine!EngineAgrees(world, s, pred, o)
<1> DEFINE stored == world.edges
           target == Canon[pred]
           trails == Engine!AllTrails(stored, s)
           to == Engine!To(trails, o)
           wanted == {t \in to : Engine!Establishes(t, target)}
           verdicts == Engine!Entails(world, s, pred, o)
           constrained == Engine!Constrained(world, s, pred, o)
           sound == {<<s, target, o>>, <<o, target, s>>}
                      \cap Engine!Consequences(Engine!Undirected(Engine!Visible(stored))) # {}
<1>1. /\ Engine!Derive(world, s, pred, o) = Engine!Derived(world, trails, wanted)
      /\ Engine!Paths(world, s, o) = Engine!Derived(world, trails, to)
  BY DEF Engine!Derive, Engine!Paths
<1>2. to \subseteq trails /\ wanted \subseteq trails /\ \A t \in to : t[Len(t)].o = o
  BY DEF Engine!To
<1>3. /\ "entailed" \in verdicts => \E X \in Engine!Derived(world, trails, wanted) : X # {}
      /\ "unsupported" \in verdicts => \E X \in Engine!Derived(world, trails, wanted) : X = {}
      /\ verdicts \subseteq {"contradicted", "entailed", "unsupported"}
  <2> HIDE DEF trails, wanted
  <2>1. QED BY <1>1 DEF Engine!Entails
<1>4. ASSUME NEW u \in constrained
      PROVE  \E P \in Engine!Derived(world, trails, to) :
               u = IF \E t \in P : Engine!Establishes(t, target) THEN "entailed" ELSE "unsupported"
  <2> HIDE DEF trails, to, target
  <2>1. PICK P \in Engine!Paths(world, s, o) :
          u \in IF P = {} THEN {"unsupported"}
                ELSE {IF Engine!Constrain(P, best, target) # {} THEN "entailed" ELSE "unsupported" : best \in P}
    BY DEF Engine!Constrained, target
  <2>2. \A best : Engine!Constrain(P, best, target) # {} <=> \E t \in P : Engine!Establishes(t, target)
    BY DEF Engine!Constrain
  <2>3. QED BY <1>1, <2>1, <2>2
<1>5. ASSUME NEW t \in to, Engine!Establishes(t, target) PROVE sound
  <2>1. PICK n \in Nat \ {0} : t \in Engine!Trails(stored, s, n)
    BY <1>2, TrailsHaveLength
  <2>2. t[Len(t)].o = o
    BY <1>2
  <2>3. QED BY <1>5, <2>1, <2>2, EstablishedFollows
<1> HIDE DEF sound
<1>6. ASSUME "entailed" \in verdicts \cup constrained PROVE sound
  <2>1. CASE "entailed" \in verdicts
    <3>1. PICK X \in Engine!Derived(world, trails, wanted) : X # {}
      BY <1>3, <2>1
    <3>2. X \subseteq trails \cap wanted
      <4> HIDE DEF trails, wanted
      <4>1. QED BY DerivedKeeps
    <3>3. PICK t \in to : Engine!Establishes(t, target)
      BY <3>1, <3>2
    <3>4. QED BY <1>5, <3>3
  <2>2. CASE "entailed" \in constrained
    <3>1. PICK P \in Engine!Derived(world, trails, to) : \E t \in P : Engine!Establishes(t, target)
      BY <1>4, <2>2
    <3>2. P \subseteq trails \cap to
      <4> HIDE DEF trails, to
      <4>1. QED BY DerivedKeeps
    <3>3. QED BY <1>5, <3>1, <3>2
  <2>3. QED BY <1>6, <2>1, <2>2
<1>7. ASSUME NEW e \in Engine!Visible(stored), e.s = s, e.o = o, e.p = pred,
             Engine!Cost(<<Engine!Hop(e, s)>>) <= MaxCost, s # o,
             Cardinality({t \in trails : Len(t) = 1}) <= 4 * world.limit
      PROVE  "unsupported" \notin verdicts
  <2> DEFINE t == <<Engine!Hop(e, s)>>
  <2>1. t \in Engine!Trails(stored, s, 1)
    <3>1. /\ Engine!Trails(stored, s, 0) = {<<>>}
          /\ Engine!Trails(stored, s, 0 + 1) = Longer(stored, s, Engine!Trails(stored, s, 0))
      <4> HIDE DEF stored
      <4>1. QED BY TrailsGrow
    <3>2. Engine!Trails(stored, s, 1) = Longer(stored, s, {<<>>})
      <4>1. 0 + 1 = 1
        OBVIOUS
      <4> HIDE DEF stored
      <4>2. QED BY <3>1, <4>1
    <3>3. e \in Onward(stored, <<>>, s) /\ TrailEnd(<<>>, s) = s
      BY <1>7 DEF Onward, TrailEnd
    <3>4. Append(<<>>, Engine!Hop(e, s)) = t
      OBVIOUS
    <3> HIDE DEF t
    <3>5. t \in {Append(<<>>, Engine!Hop(d, TrailEnd(<<>>, s))) : d \in Onward(stored, <<>>, s)}
      BY <3>3, <3>4
    <3>6. QED BY <3>2, <3>5 DEF Longer
  <2>2. Len(t) = 1 /\ DOMAIN t = {1} /\ t[1].o = o /\ t[1].edge = e /\ Engine!Cost(t) <= MaxCost
    BY <1>7 DEF Engine!Hop
  <2> HIDE DEF t
  <2>3. t \in trails
    <3>1. 1 \in 1..MaxHops
      BY EngineIsAsked
    <3>2. QED BY <1>7, <2>1, <2>2, <3>1 DEF Engine!AllTrails
  <2>4. Engine!Establishes(t, target)
    <3> DEFINE preds == Engine!Predicates(t)
    <3>1. preds = [i \in {1} |-> target]
      BY <1>7, <2>2 DEF Engine!Predicates
    <3>2. preds # <<>> /\ Len(preds) = 1 /\ preds[1] = target
      <4>1. preds = <<target>>
        BY <3>1
      <4> HIDE DEF preds
      <4>2. QED BY <4>1
    <3>3. Engine!EffectivePredicate(preds) = target
      BY <3>2 DEF Engine!EffectivePredicate
    <3>4. target \in Native!Above(target)
      <4> DEFINE W == {target} \cup Preds
      <4>1. target \in W /\ \A q \in W : Native!Elements(Native!SupersOf(q)) \subseteq W
        BY RegistryIsValidated DEF Native!Elements, Native!SupersOf, Native!Known, Preds
      <4> HIDE DEF W
      <4>2. QED BY <4>1, AboveIsLeast
    <3>5. QED BY <3>3, <3>4, EngineReadsRegistry DEF Engine!Establishes, Engine!ProofEntails, Engine!PredicateEntails
  <2>5. t \in trails \cap wanted
    BY <2>2, <2>3, <2>4 DEF Engine!To
  <2>6. NotLonger(trails, t) = {y \in trails : Len(y) = 1}
    <3>1. ASSUME NEW y \in trails PROVE Len(y) <= 1 <=> Len(y) = 1
      <4>1. PICK n \in Nat \ {0} : Len(y) = n
        <5> HIDE DEF stored
        <5>1. QED BY TrailsHaveLength
      <4>2. n <= 1 <=> n = 1
        OBVIOUS
      <4>3. QED BY <4>1, <4>2
    <3> HIDE DEF trails
    <3>2. \A y \in trails : Len(y) <= Len(t) <=> Len(y) = 1
      BY <2>2, <3>1
    <3>3. QED BY <3>2, Zenon DEF NotLonger
  <2>7. \A X \in Engine!Derived(world, trails, wanted) : X # {}
    <3>1. Seen(world, trails, t)
      BY <1>7, <2>2, <2>6 DEF Seen
    <3> HIDE DEF trails, wanted
    <3>2. TAKE X \in Engine!Derived(world, trails, wanted)
    <3>3. QED BY <2>5, <3>1, DerivedKeeps
  <2>8. QED BY <1>3, <2>7
<1>8. ASSUME Cardinality(trails) <= 4 * world.limit,
             Cardinality({t \in to : Engine!Cost(t) <= MaxCost}) <= world.limit,
             NEW u \in verdicts \ {"contradicted"}, NEW v \in constrained
      PROVE  v = u
  <2> DEFINE all == {t \in trails \cap to : Engine!Cost(t) <= MaxCost}
             good == {t \in trails \cap wanted : Engine!Cost(t) <= MaxCost}
  <2>1. good = {t \in all : Engine!Establishes(t, target)}
    OBVIOUS
  <2>2. all = {t \in to : Engine!Cost(t) <= MaxCost}
    BY <1>2
  <2> HIDE DEF trails, wanted, to
  <2>3. \A P \in Engine!Derived(world, trails, to) : P = all
    BY <1>8, <2>2, DerivedKeeps
  <2>4. \A X \in Engine!Derived(world, trails, wanted) : X # {} <=> good # {}
    BY <1>8, DerivedKeeps
  <2> HIDE DEF all, good, target, verdicts, constrained
  <2>5. v = IF good # {} THEN "entailed" ELSE "unsupported"
    BY <1>4, <2>1, <2>3
  <2>6. u = IF good # {} THEN "entailed" ELSE "unsupported"
    BY <1>3, <1>8, <2>4
  <2>7. QED BY <2>5, <2>6
<1>9. QED
  <2> HIDE DEF trails, to, verdicts, constrained
  <2>1. QED BY <1>6, <1>7, <1>8, EngineCardinality DEF Engine!EngineAgrees, trails, to, verdicts, constrained, sound

-----------------------------------------------------------------------------

\* Whatever the native reasoner entails follows from the graph as the types of
\* its ends orient it, and not against a conflicting record it could read, in
\* whatever order claims are asked and queries fail (native.go:83-255,
\* entity_resolve.go:40-81, orientation.go:93-146).  What the portable engine
\* entails follows from the edges it may use, in one direction or the other,
\* whatever its limits on rows and proofs and its floor of confidence cut off;
\* only below the limits does it find every stored edge and agree with a backend
\* of bare paths (cypher.go:16-49, engine.go:44-147,
\* predicate_constrained.go:40-83).
THEOREM EntailedIsSound == SeqSpec => []ProofsAreSound
<1> DEFINE Inv == /\ kind = "native" => NativeHolds
                  /\ kind = "paths" => IF "paths" \in DOMAIN Questions THEN job \in Questions["paths"]
                                       ELSE phase = "asked"
<1>1. SeqInit => Inv
  <2>1. ASSUME Native!Init PROVE NativeHolds
    <3>1. graph \in Graphs /\ DOMAIN types = {} /\ answer = None
      BY <2>1 DEF Native!Init, Native!NoMemo
    <3>2. QED BY <3>1 DEF NativeHolds, Native!ProofsAreSound
  <2>2. ASSUME SeqInit, kind = "paths"
        PROVE  IF "paths" \in DOMAIN Questions THEN job \in Questions["paths"] ELSE phase = "asked"
    BY <2>2 DEF SeqInit
  <2>3. QED BY <2>1, <2>2 DEF SeqInit
<1>2. ASSUME Inv, [SeqNext]_allVars PROVE Inv'
  <2>1. ASSUME kind' = "native" PROVE NativeHolds'
    <3>1. kind = "native" /\ [Native!Next]_(Native!vars)
      BY <1>2, <2>1 DEF SeqNext, Store, Select, Think, Reason, BuildGraph, Answer, allVars, nativeVars, Native!vars
    <3>2. QED BY <1>2, <3>1, NativeStep
  <2>2. ASSUME kind' = "paths"
        PROVE  kind = "paths" /\ job' = job /\ (phase' = phase \/ "paths" \in DOMAIN Questions)
    BY <1>2, <2>2 DEF SeqNext, Store, Select, Think, Reason, BuildGraph, Answer, allVars, buildVars
  <2>3. QED BY <1>2, <2>1, <2>2
<1>3. Inv => ProofsAreSound
  <2>1. SUFFICES ASSUME Inv PROVE ProofsAreSound
    OBVIOUS
  <2>2. ASSUME kind = "paths", phase = "answered", NEW g \in PathGoals PROVE Engine!EngineAgrees(job, g[1], g[2], g[3])
    <3>1. IsFiniteSet(job.edges) /\ job.limit \in Nat \ {0} /\ Canon[g[2]] # None
      BY <2>1, <2>2, EngineIsAsked
    <3>2. QED BY <3>1, EngineAgreesAlways
  <2>3. QED BY <2>1, <2>2 DEF ProofsAreSound, NativeHolds
<1>4. QED BY <1>1, <1>2, <1>3, PTL DEF SeqSpec

-----------------------------------------------------------------------------
(* Packs: tables by keys, and the layers merged one by one *)

KeyNums == {NormKey[s] : s \in Spellings}
AliasRecords == [raw : Spellings, canonical : Spellings]
Tables(V) == UNION {[D -> V] : D \in SUBSET KeyNums}

LEMMA KeysAreFinite == KeyNums \in SUBSET Nat /\ IsFiniteSet(KeyNums)
BY SpellingsHaveKeys, ImageIsFinite DEF KeyNums, Spellings

\* A finite set of numbers has a greatest one.
LEMMA MaxIsGreatest ==
  ASSUME NEW S \in SUBSET Nat, IsFiniteSet(S), S # {}
  PROVE  Packs!Max(S) \in S /\ \A x \in S : x <= Packs!Max(S)
<1> DEFINE Q == {T \in SUBSET S : T = {} \/ \E x \in T : \A y \in T : x >= y}
<1>1. ASSUME NEW T \in SUBSET S, \A x \in T : T \ {x} \in Q
      PROVE  T \in Q
  <2>1. SUFFICES ASSUME NEW x \in T PROVE \E z \in T : \A y \in T : z >= y
    OBVIOUS
  <2>2. T \ {x} \in Q
    BY <1>1
  <2>3. CASE T \ {x} = {}
    <3>1. \A y \in T : x >= y
      BY <2>3
    <3>2. QED BY <3>1
  <2>4. CASE T \ {x} # {}
    <3>1. PICK z \in T \ {x} : \A y \in T \ {x} : z >= y
      BY <2>2, <2>4
    <3>2. CASE z >= x
      BY <3>1, <3>2
    <3>3. CASE x >= z
      <4>1. \A y \in T : x >= y
        BY <3>1, <3>3
      <4>2. QED BY <4>1
    <3>4. QED BY <3>2, <3>3
  <2>5. QED BY <2>3, <2>4
<1>2. Q = SUBSET S
  <2> HIDE DEF Q
  <2>1. Q \in SUBSET SUBSET S BY DEF Q
  <2>2. QED BY <1>1, <2>1, SubsetInduction
<1>3. \E x \in S : \A y \in S : x >= y
  BY <1>2
<1>4. QED BY <1>3 DEF Packs!Max

\* Where the value of a key stands in a list.
Taken(list, keys, k) == Packs!Max({i \in DOMAIN list : k \in keys[i]})
Numbered(list) == DOMAIN list \in SUBSET Nat /\ IsFiniteSet(DOMAIN list)

\* The last value under a key.
LEMMA LastUnderHolds ==
  ASSUME NEW list, Numbered(list), NEW keys, DOMAIN keys = DOMAIN list
  PROVE  /\ DOMAIN Packs!LastUnder(list, keys) = UNION {keys[i] : i \in DOMAIN list}
         /\ \A k \in DOMAIN Packs!LastUnder(list, keys) :
              /\ Taken(list, keys, k) \in DOMAIN list /\ k \in keys[Taken(list, keys, k)]
              /\ Packs!LastUnder(list, keys)[k] = list[Taken(list, keys, k)]
<1>1. DOMAIN Packs!LastUnder(list, keys) = UNION {keys[i] : i \in DOMAIN list}
  BY DEF Packs!LastUnder
<1>2. ASSUME NEW k \in UNION {keys[i] : i \in DOMAIN list}
      PROVE  /\ Taken(list, keys, k) \in DOMAIN list /\ k \in keys[Taken(list, keys, k)]
             /\ Packs!LastUnder(list, keys)[k] = list[Taken(list, keys, k)]
  <2> DEFINE I == {i \in DOMAIN list : k \in keys[i]}
  <2>1. I \in SUBSET Nat /\ IsFiniteSet(I) /\ I # {}
    BY FS_Subset DEF Numbered
  <2>2. Packs!Max(I) \in I
    <3> HIDE DEF I
    <3>1. QED BY <2>1, MaxIsGreatest
  <2>3. Packs!LastUnder(list, keys)[k] = list[Packs!Max(I)]
    BY DEF Packs!LastUnder
  <2>4. Taken(list, keys, k) = Packs!Max(I)
    BY DEF Taken
  <2>5. QED BY <2>2, <2>3, <2>4
<1>3. QED BY <1>1, <1>2

\* One table over another.
LEMMA OverHolds ==
  ASSUME NEW V, NEW f \in Tables(V), NEW g \in Tables(V)
  PROVE  /\ Packs!Over(f, g) \in Tables(V)
         /\ DOMAIN Packs!Over(f, g) = DOMAIN f \cup DOMAIN g
         /\ \A k \in DOMAIN f : Packs!Over(f, g)[k] = f[k]
         /\ \A k \in DOMAIN g \ DOMAIN f : Packs!Over(f, g)[k] = g[k]
<1>1. PICK D \in SUBSET KeyNums : f \in [D -> V]
  BY DEF Tables
<1>2. PICK E \in SUBSET KeyNums : g \in [E -> V]
  BY DEF Tables
<1>3. Packs!Over(f, g) \in [D \cup E -> V]
  BY <1>1, <1>2 DEF Packs!Over
<1>4. D \cup E \in SUBSET KeyNums
  OBVIOUS
<1>5. Packs!Over(f, g) \in Tables(V)
  BY <1>3, <1>4 DEF Tables
<1>6. QED BY <1>5 DEF Packs!Over

\* A predicate is normalized to one.
LEMMA NormalizeHolds ==
  ASSUME NEW meta \in Declarations
  PROVE  /\ Packs!Normalize(meta) \in Declarations
         /\ \A ref \in Packs!Normalize(meta).supers : NormKey[ref] # 0
<1> DEFINE canonical == IF NormKey[meta.canonical] = 0 THEN meta.raw ELSE meta.canonical
           raw == IF NormKey[meta.raw] = 0 THEN canonical ELSE meta.raw
<1>1. canonical \in Spellings /\ raw \in Spellings
  BY DEF Declarations
<1>2. Packs!Normalize(meta) = [meta EXCEPT !.canonical = canonical, !.raw = raw,
        !.supers = Packs!Named(meta.supers), !.domain = Packs!Named(meta.domain), !.range = Packs!Named(meta.range)]
  BY DEF Packs!Normalize, Declarations
<1> HIDE DEF canonical, raw
<1>3. /\ Packs!Named(meta.supers) \in SUBSET Spellings /\ Packs!Named(meta.domain) \in SUBSET Spellings
      /\ Packs!Named(meta.range) \in SUBSET Spellings
  BY DEF Packs!Named, Declarations
<1>4. \A ref \in Packs!Named(meta.supers) : NormKey[ref] # 0
  BY DEF Packs!Named
<1> DEFINE supers == Packs!Named(meta.supers)
           domain == Packs!Named(meta.domain)
           range == Packs!Named(meta.range)
<1> HIDE DEF supers, domain, range
<1>5. Packs!Normalize(meta) = [meta EXCEPT !.canonical = canonical, !.raw = raw,
        !.supers = supers, !.domain = domain, !.range = range]
  BY <1>2 DEF supers, domain, range
<1>6. supers \in SUBSET Spellings /\ domain \in SUBSET Spellings /\ range \in SUBSET Spellings
  BY <1>3 DEF supers, domain, range
<1>7. Packs!Normalize(meta) \in Declarations /\ Packs!Normalize(meta).supers = supers
  BY <1>1, <1>5, <1>6 DEF Declarations
<1>8. QED BY <1>4, <1>7 DEF supers

\* The predicates of a pack.
LEMMA NormalizedHolds ==
  ASSUME NEW pack, IsPack(pack)
  PROVE  /\ Packs!Normalized(pack) \in Seq(Declarations)
         /\ DOMAIN Packs!Normalized(pack) = DOMAIN pack.predicates
         /\ DOMAIN pack.predicates \in SUBSET Nat /\ IsFiniteSet(DOMAIN pack.predicates)
         /\ \A i \in DOMAIN pack.predicates : /\ Packs!Normalized(pack)[i] \in Declarations
                                              /\ \A ref \in Packs!Normalized(pack)[i].supers : NormKey[ref] # 0
<1>1. pack.predicates \in Seq(Declarations) /\ Len(pack.predicates) \in Nat
      /\ DOMAIN pack.predicates = 1..Len(pack.predicates)
  BY DEF IsPack
<1>2. \A i \in DOMAIN pack.predicates : pack.predicates[i] \in Declarations
  BY <1>1
<1>3. \A i \in DOMAIN pack.predicates : /\ Packs!Normalized(pack)[i] \in Declarations
                                        /\ \A ref \in Packs!Normalized(pack)[i].supers : NormKey[ref] # 0
  BY <1>2, NormalizeHolds DEF Packs!Normalized
<1>4. Packs!Normalized(pack) \in [1..Len(pack.predicates) -> Declarations]
  BY <1>1, <1>3 DEF Packs!Normalized
<1>5. DOMAIN pack.predicates \in SUBSET Nat /\ IsFiniteSet(DOMAIN pack.predicates)
  BY <1>1, FS_Interval
<1>6. QED BY <1>1, <1>3, <1>4, <1>5

\* What a pack declares under a key is the last of it.
LEMMA DeclaredHolds ==
  ASSUME NEW pack, IsPack(pack)
  PROVE  LET preds == Packs!Declared(Packs!Normalized(pack)) IN
         /\ preds \in Tables(Declarations)
         /\ DOMAIN preds = {NormKey[Packs!Normalized(pack)[j].canonical] : j \in DOMAIN pack.predicates}
         /\ \A k \in DOMAIN preds :
              LET declaring == {j \in DOMAIN pack.predicates : NormKey[Packs!Normalized(pack)[j].canonical] = k} IN
              /\ Packs!Max(declaring) \in declaring
              /\ preds[k] = Packs!Normalized(pack)[Packs!Max(declaring)]
<1> DEFINE metas == Packs!Normalized(pack)
           keys == [i \in DOMAIN metas |-> {NormKey[metas[i].canonical]}]
           preds == Packs!LastUnder(metas, keys)
           declaring(k) == {j \in DOMAIN pack.predicates : NormKey[metas[j].canonical] = k}
           under(k) == {i \in DOMAIN metas : k \in keys[i]}
<1>1. /\ DOMAIN metas = DOMAIN pack.predicates /\ DOMAIN metas \in SUBSET Nat /\ IsFiniteSet(DOMAIN metas)
      /\ \A i \in DOMAIN metas : metas[i] \in Declarations
  BY NormalizedHolds
<1> HIDE DEF metas
<1>2. /\ DOMAIN preds = UNION {keys[i] : i \in DOMAIN metas}
      /\ \A k \in DOMAIN preds : /\ Packs!Max(under(k)) \in DOMAIN metas /\ k \in keys[Packs!Max(under(k))]
                                 /\ preds[k] = metas[Packs!Max(under(k))]
  <2>1. DOMAIN keys = DOMAIN metas
    OBVIOUS
  <2> HIDE DEF keys
  <2>2. /\ DOMAIN Packs!LastUnder(metas, keys) = UNION {keys[i] : i \in DOMAIN metas}
        /\ \A k \in DOMAIN Packs!LastUnder(metas, keys) :
             /\ Taken(metas, keys, k) \in DOMAIN metas /\ k \in keys[Taken(metas, keys, k)]
             /\ Packs!LastUnder(metas, keys)[k] = metas[Taken(metas, keys, k)]
    BY <1>1, <2>1, LastUnderHolds DEF Numbered
  <2>3. \A k : Taken(metas, keys, k) = Packs!Max(under(k))
    BY DEF Taken
  <2> HIDE DEF under
  <2>4. QED BY <2>2, <2>3
<1>3. \A k : under(k) = declaring(k)
  BY <1>1
<1>4. DOMAIN preds = {NormKey[metas[j].canonical] : j \in DOMAIN pack.predicates}
  <2>1. \A i \in DOMAIN metas : keys[i] = {NormKey[metas[i].canonical]}
    OBVIOUS
  <2> HIDE DEF preds, keys
  <2>2. QED BY <1>1, <1>2, <2>1
<1>5. \A j \in DOMAIN pack.predicates : NormKey[metas[j].canonical] \in KeyNums
  BY <1>1 DEF Declarations, KeyNums
<1>6. \A k \in DOMAIN preds : /\ Packs!Max(declaring(k)) \in declaring(k)
                              /\ preds[k] = metas[Packs!Max(declaring(k))] /\ preds[k] \in Declarations
  <2>1. TAKE k \in DOMAIN preds
  <2>2. Packs!Max(under(k)) \in under(k) /\ preds[k] = metas[Packs!Max(under(k))]
    BY <1>2
  <2> HIDE DEF under, declaring, preds, keys
  <2>3. Packs!Max(declaring(k)) \in declaring(k) /\ preds[k] = metas[Packs!Max(declaring(k))]
    BY <1>3, <2>2
  <2>4. QED BY <1>1, <2>3 DEF declaring
<1>7. preds = [k \in DOMAIN preds |-> preds[k]]
  BY DEF Packs!LastUnder
<1>8. preds \in Tables(Declarations)
  <2>1. DOMAIN preds \in SUBSET KeyNums
    BY <1>4, <1>5
  <2> HIDE DEF preds
  <2>2. preds \in [DOMAIN preds -> Declarations]
    BY <1>6, <1>7
  <2>3. QED BY <2>1, <2>2 DEF Tables
<1>9. Packs!Declared(metas) = preds
  BY DEF Packs!Declared
<1> HIDE DEF preds
<1>10. QED BY <1>4, <1>6, <1>8, <1>9 DEF metas

\* The aliases of a pack, each under its key.
LEMMA GivenHolds ==
  ASSUME NEW pack, IsPack(pack)
  PROVE  LET given == Packs!Given(pack.aliases) IN
         /\ given \in Tables(AliasRecords)
         /\ DOMAIN given = {NormKey[raw] : raw \in DOMAIN pack.aliases}
         /\ \A k \in DOMAIN given : \E raw \in DOMAIN pack.aliases :
              NormKey[raw] = k /\ given[k] = [raw |-> raw, canonical |-> pack.aliases[raw]]
<1> DEFINE given == Packs!Given(pack.aliases)
<1>1. DOMAIN given = {NormKey[raw] : raw \in DOMAIN pack.aliases}
  BY DEF Packs!Given, Packs!KeysOf
<1>2. \A k \in DOMAIN given : \E raw \in DOMAIN pack.aliases :
        NormKey[raw] = k /\ given[k] = [raw |-> raw, canonical |-> pack.aliases[raw]]
  <2>1. TAKE k \in DOMAIN given
  <2> DEFINE r == CHOOSE raw \in DOMAIN pack.aliases : NormKey[raw] = k
  <2>2. r \in DOMAIN pack.aliases /\ NormKey[r] = k
    BY <1>1
  <2>3. given[k] = [raw |-> r, canonical |-> pack.aliases[r]]
    BY <1>1 DEF Packs!Given, Packs!KeysOf
  <2> HIDE DEF r
  <2>4. QED BY <2>2, <2>3
<1>3. \A k \in DOMAIN given : given[k] \in AliasRecords
  <2>1. TAKE k \in DOMAIN given
  <2>2. PICK raw \in DOMAIN pack.aliases : given[k] = [raw |-> raw, canonical |-> pack.aliases[raw]]
    BY <1>2
  <2>3. raw \in Spellings /\ pack.aliases[raw] \in Spellings
    BY DEF IsPack
  <2> HIDE DEF given
  <2>4. QED BY <2>2, <2>3 DEF AliasRecords
<1>4. given = [k \in DOMAIN given |-> given[k]]
  BY DEF Packs!Given
<1>5. DOMAIN given \in SUBSET KeyNums
  BY <1>1 DEF IsPack, KeyNums
<1>6. given \in Tables(AliasRecords)
  <2> HIDE DEF given
  <2>1. given \in [DOMAIN given -> AliasRecords]
    BY <1>3, <1>4
  <2>2. QED BY <1>5, <2>1 DEF Tables
<1>7. QED BY <1>1, <1>2, <1>6

Elems(s) == {s[i] : i \in DOMAIN s}

\* Joining lists joins their elements.
LEMMA UnionHolds ==
  ASSUME NEW A, NEW list \in Seq(A), NEW more \in Seq(A)
  PROVE  /\ Packs!Union(list, more) \in Seq(A)
         /\ Elems(Packs!Union(list, more)) = Elems(list) \cup Elems(more)
<1> DEFINE Step(z, i) == IF more[i] \in Packs!Range(z) THEN z ELSE Append(z, more[i])
           Def(f) == f = [i \in 0..Len(more) |-> IF i = 0 THEN list ELSE Step(f[i - 1], i)]
           joined == CHOOSE f : Def(f)
           X == Seq(A)
           g == [z \in Nat \X X |-> IF z[1] < Len(more) THEN Step(z[2], z[1] + 1) ELSE z[2]]
<1>1. Len(more) \in Nat /\ \A i \in 1..Len(more) : more[i] \in A
  OBVIOUS
<1>2. ASSUME NEW z \in X, NEW i \in 1..Len(more)
      PROVE  Step(z, i) \in X /\ Elems(Step(z, i)) = Elems(z) \cup {more[i]}
  <2>1. Packs!Range(z) = Elems(z)
    BY DEF Packs!Range, Elems
  <2>2. CASE more[i] \in Packs!Range(z)
    BY <2>1, <2>2
  <2>3. CASE more[i] \notin Packs!Range(z)
    <3> DEFINE x == more[i]
    <3>1. x \in A
      BY <1>1
    <3> HIDE DEF x
    <3>2. Append(z, x) \in X /\ Len(Append(z, x)) = Len(z) + 1 /\ Append(z, x)[Len(z) + 1] = x
          /\ \A j \in 1..Len(z) : Append(z, x)[j] = z[j]
      BY <3>1, AppendProperties
    <3>3. DOMAIN z = 1..Len(z) /\ DOMAIN Append(z, x) = 1..(Len(z) + 1) /\ Len(z) \in Nat
      BY <3>2
    <3>4. Elems(Append(z, x)) = Elems(z) \cup {x}
      BY <3>2, <3>3 DEF Elems
    <3>5. Step(z, i) = Append(z, x)
      BY <2>3 DEF x
    <3>6. QED BY <3>2, <3>4, <3>5 DEF x
  <2>4. QED BY <2>2, <2>3
<1>3. g \in [Nat \X X -> X]
  <2>1. \A z \in Nat \X X : g[z] \in X
    <3>1. TAKE z \in Nat \X X
    <3>2. z[1] \in Nat /\ z[2] \in X
      OBVIOUS
    <3>3. CASE z[1] < Len(more)
      <4>1. z[1] + 1 \in 1..Len(more)
        BY <1>1, <3>2, <3>3
      <4> HIDE DEF X, Step
      <4>2. Step(z[2], z[1] + 1) \in X
        BY <1>2, <3>2, <4>1
      <4>3. QED BY <3>3, <4>2
    <3>4. CASE ~(z[1] < Len(more))
      BY <3>2, <3>4
    <3>5. QED BY <3>3, <3>4
  <2> HIDE DEF X, Step
  <2>2. QED BY <2>1
<1>4. PICK f0 \in [Nat -> X] : Iterates(f0, list, g)
  <2>1. list \in X
    OBVIOUS
  <2> HIDE DEF g, X
  <2>2. QED BY <1>3, <2>1, IterationExists
<1>5. Def([i \in 0..Len(more) |-> f0[i]])
  <2> DEFINE f == [i \in 0..Len(more) |-> f0[i]]
  <2>1. \A i \in 0..Len(more) : f0[i] = IF i = 0 THEN list ELSE Step(f[i - 1], i)
    <3>1. TAKE i \in 0..Len(more)
    <3>2. CASE i = 0
      BY <1>4, <3>2 DEF Iterates
    <3>3. CASE i # 0
      <4>1. i - 1 \in Nat /\ i - 1 < Len(more) /\ (i - 1) + 1 = i /\ i - 1 \in 0..Len(more)
        <5> HIDE DEF Step, f, g, X
        <5>1. QED BY <1>1, <3>3
      <4>2. f0[i - 1] \in X
        BY <4>1
      <4>3. f0[i] = g[<<i - 1, f0[i - 1]>>]
        <5> HIDE DEF Step, f, g, X
        <5>1. \A n \in Nat : f0[n + 1] = g[<<n, f0[n]>>]
          BY <1>4 DEF Iterates
        <5>2. f0[(i - 1) + 1] = g[<<i - 1, f0[i - 1]>>]
          BY <4>1, <5>1
        <5>3. QED BY <4>1, <5>2
      <4>4. g[<<i - 1, f0[i - 1]>>] = Step(f0[i - 1], (i - 1) + 1)
        <5>1. <<i - 1, f0[i - 1]>> \in Nat \X X
          BY <4>1, <4>2
        <5> HIDE DEF X, Step
        <5>2. QED BY <4>1, <5>1
      <4>5. f[i - 1] = f0[i - 1]
        BY <4>1
      <4> HIDE DEF Step, f, g
      <4>6. QED BY <3>3, <4>1, <4>3, <4>4, <4>5
    <3>4. QED BY <3>2, <3>3
  <2> HIDE DEF Step
  <2>2. QED BY <2>1
<1>6. Def(joined)
  <2> HIDE DEF Def
  <2>1. QED BY <1>5
<1>7. Packs!Union(list, more) = joined[Len(more)]
  BY DEF Packs!Union
<1> DEFINE N == {n \in Nat : n <= Len(more) => /\ joined[n] \in X
                                               /\ Elems(joined[n]) = Elems(list) \cup {more[i] : i \in 1..n}}
<1>8. 0 \in N
  <2>1. joined[0] = list
    <3> HIDE DEF joined, Step
    <3>1. QED BY <1>1, <1>6
  <2> HIDE DEF joined
  <2>2. QED BY <2>1
<1>9. ASSUME NEW n \in N PROVE n + 1 \in N
  <2> HIDE DEF joined, X, Step
  <2>1. SUFFICES ASSUME n + 1 <= Len(more)
                 PROVE  /\ joined[n + 1] \in X
                        /\ Elems(joined[n + 1]) = Elems(list) \cup {more[i] : i \in 1..(n + 1)}
    OBVIOUS
  <2>2. n \in Nat /\ n + 1 \in 1..Len(more) /\ n + 1 \in 0..Len(more) /\ (n + 1) - 1 = n /\ n + 1 # 0 /\ n <= Len(more)
    BY <1>1, <2>1
  <2>3. joined[n + 1] = Step(joined[n], n + 1)
    BY <1>6, <2>2
  <2>4. joined[n] \in X /\ Elems(joined[n]) = Elems(list) \cup {more[i] : i \in 1..n}
    BY <2>2
  <2>5. joined[n + 1] \in X /\ Elems(joined[n + 1]) = Elems(joined[n]) \cup {more[n + 1]}
    BY <1>2, <2>2, <2>3, <2>4
  <2>6. {more[i] : i \in 1..n} \cup {more[n + 1]} = {more[i] : i \in 1..(n + 1)}
    BY <2>2
  <2>7. QED BY <2>4, <2>5, <2>6
<1>10. Nat \subseteq N
  <2> HIDE DEF N
  <2>1. N \in SUBSET Nat BY DEF N
  <2>2. QED BY <1>8, <1>9, <2>1, Induction
<1>11. joined[Len(more)] \in X /\ Elems(joined[Len(more)]) = Elems(list) \cup {more[i] : i \in 1..Len(more)}
  <2> HIDE DEF joined, X
  <2>1. QED BY <1>1, <1>10
<1>12. {more[i] : i \in 1..Len(more)} = Elems(more)
  <2>1. DOMAIN more = 1..Len(more)
    OBVIOUS
  <2>2. QED BY <2>1 DEF Elems
<1> HIDE DEF joined
<1>13. QED BY <1>7, <1>11, <1>12

\* What a merge is made of.
States == [failed : BOOLEAN, preds : Tables(Declarations), builtin : SUBSET KeyNums,
           aliases : Tables(AliasRecords), builtinAliases : SUBSET KeyNums,
           comps : Seq([1..3 -> KeyNums]), disjoints : Seq(SUBSET KeyNums)]

LEMMA ReferencesHold ==
  ASSUME NEW pack, IsPack(pack)
  PROVE  /\ Packs!CompositionKeys(pack) \in Seq([1..3 -> KeyNums])
         /\ Packs!DisjointKeys(pack) \in Seq(SUBSET KeyNums)
<1>1. /\ pack.comps \in Seq(Spellings \X Spellings \X Spellings)
      /\ pack.disjoints \in Seq(SUBSET Spellings)
  BY DEF IsPack
<1>2. /\ Len(pack.comps) \in Nat /\ DOMAIN pack.comps = 1..Len(pack.comps)
      /\ Len(pack.disjoints) \in Nat /\ DOMAIN pack.disjoints = 1..Len(pack.disjoints)
  BY <1>1
<1>3. \A i \in DOMAIN pack.comps : pack.comps[i] \in Spellings \X Spellings \X Spellings
  BY <1>1
<1>4. \A i \in DOMAIN pack.comps : [j \in 1..3 |-> NormKey[pack.comps[i][j]]] \in [1..3 -> KeyNums]
  <2>1. TAKE i \in DOMAIN pack.comps
  <2>2. PICK x, y, z \in Spellings : pack.comps[i] = <<x, y, z>>
    BY <1>3
  <2>3. \A j \in 1..3 : pack.comps[i][j] \in Spellings
    BY <2>2
  <2>4. \A j \in 1..3 : NormKey[pack.comps[i][j]] \in KeyNums
    BY <2>3 DEF KeyNums
  <2>5. QED BY <2>4
<1>5. \A i \in DOMAIN pack.disjoints : Packs!KeysOf(pack.disjoints[i]) \in SUBSET KeyNums
  <2>1. TAKE i \in DOMAIN pack.disjoints
  <2>2. pack.disjoints[i] \in SUBSET Spellings
    BY <1>1
  <2>3. QED BY <2>2 DEF Packs!KeysOf, KeyNums
<1>6. Packs!CompositionKeys(pack) \in [1..Len(pack.comps) -> [1..3 -> KeyNums]]
  BY <1>2, <1>4 DEF Packs!CompositionKeys
<1>7. Packs!DisjointKeys(pack) \in [1..Len(pack.disjoints) -> SUBSET KeyNums]
  BY <1>2, <1>5 DEF Packs!DisjointKeys
<1>8. QED BY <1>2, <1>6, <1>7

Clashes(m, layer) ==
  \/ Packs!PredicatesClash(m, Packs!Normalized(layer.pack), layer.builtin)
  \/ Packs!AliasesClash(m, layer.pack.aliases, layer.builtin)

\* What a layer adds to a merge.
LEMMA MergeHolds ==
  ASSUME NEW m \in States, NEW layer, IsPack(layer.pack)
  PROVE  LET n == Packs!Merge(m, layer)
             preds == Packs!Declared(Packs!Normalized(layer.pack))
             aliases == Packs!Given(layer.pack.aliases)
         IN  /\ n \in States
             /\ n.failed <=> m.failed \/ Clashes(m, layer)
             /\ ~n.failed =>
                  /\ n.preds = Packs!Over(preds, m.preds) /\ n.aliases = Packs!Over(aliases, m.aliases)
                  /\ layer.builtin => /\ n.builtin = m.builtin \cup DOMAIN preds
                                      /\ n.builtinAliases = m.builtinAliases \cup DOMAIN aliases
                  /\ Elems(n.comps) = Elems(m.comps) \cup Elems(Packs!CompositionKeys(layer.pack))
                  /\ Elems(n.disjoints) = Elems(m.disjoints) \cup Elems(Packs!DisjointKeys(layer.pack))
<1> DEFINE n == Packs!Merge(m, layer)
           preds == Packs!Declared(Packs!Normalized(layer.pack))
           aliases == Packs!Given(layer.pack.aliases)
           comps == Packs!Union(m.comps, Packs!CompositionKeys(layer.pack))
           disjoints == Packs!Union(m.disjoints, Packs!DisjointKeys(layer.pack))
           allPreds == Packs!Over(preds, m.preds)
           allAliases == Packs!Over(aliases, m.aliases)
           builtin == IF layer.builtin THEN m.builtin \cup DOMAIN preds ELSE m.builtin \ DOMAIN preds
           builtinAliases == IF layer.builtin THEN m.builtinAliases \cup DOMAIN aliases
                             ELSE m.builtinAliases \ DOMAIN aliases
<1>1. n = IF m.failed \/ Clashes(m, layer) THEN [m EXCEPT !.failed = TRUE]
          ELSE [failed |-> FALSE, preds |-> allPreds, builtin |-> builtin, aliases |-> allAliases,
                builtinAliases |-> builtinAliases, comps |-> comps, disjoints |-> disjoints]
  BY Zenon DEF Packs!Merge, Clashes
<1>2. preds \in Tables(Declarations) /\ aliases \in Tables(AliasRecords)
  BY DeclaredHolds, GivenHolds
<1>3. \A V : \A f \in Tables(V) : DOMAIN f \in SUBSET KeyNums
  BY DEF Tables
<1>4. m.failed \in BOOLEAN /\ m.preds \in Tables(Declarations) /\ m.aliases \in Tables(AliasRecords)
      /\ m.builtin \in SUBSET KeyNums /\ m.builtinAliases \in SUBSET KeyNums
      /\ m.comps \in Seq([1..3 -> KeyNums]) /\ m.disjoints \in Seq(SUBSET KeyNums)
  BY DEF States
<1>5. allPreds \in Tables(Declarations) /\ allAliases \in Tables(AliasRecords)
  BY <1>2, <1>4, OverHolds
<1>6. /\ comps \in Seq([1..3 -> KeyNums]) /\ disjoints \in Seq(SUBSET KeyNums)
      /\ Elems(comps) = Elems(m.comps) \cup Elems(Packs!CompositionKeys(layer.pack))
      /\ Elems(disjoints) = Elems(m.disjoints) \cup Elems(Packs!DisjointKeys(layer.pack))
  <2> DEFINE A == [1..3 -> KeyNums]
             B == SUBSET KeyNums
  <2>1. Packs!CompositionKeys(layer.pack) \in Seq(A) /\ Packs!DisjointKeys(layer.pack) \in Seq(B)
    BY ReferencesHold
  <2>2. m.comps \in Seq(A) /\ m.disjoints \in Seq(B)
    BY <1>4
  <2> HIDE DEF A, B
  <2>3. comps \in Seq(A) /\ Elems(comps) = Elems(m.comps) \cup Elems(Packs!CompositionKeys(layer.pack))
    BY <2>1, <2>2, UnionHolds
  <2>4. disjoints \in Seq(B) /\ Elems(disjoints) = Elems(m.disjoints) \cup Elems(Packs!DisjointKeys(layer.pack))
    BY <2>1, <2>2, UnionHolds
  <2>5. QED BY <2>3, <2>4 DEF A, B
<1>7. builtin \in SUBSET KeyNums /\ builtinAliases \in SUBSET KeyNums
  BY <1>2, <1>3, <1>4
<1>8. layer.builtin => /\ builtin = m.builtin \cup DOMAIN preds
                       /\ builtinAliases = m.builtinAliases \cup DOMAIN aliases
  OBVIOUS
<1> HIDE DEF n, preds, aliases, comps, disjoints, allPreds, allAliases, builtin, builtinAliases
<1>9. n \in States
  <2>1. CASE m.failed \/ Clashes(m, layer)
    BY <1>1, <2>1 DEF States
  <2>2. CASE ~(m.failed \/ Clashes(m, layer))
    BY <1>1, <1>5, <1>6, <1>7, <2>2 DEF States
  <2>3. QED BY <2>1, <2>2
<1>10. n.failed <=> m.failed \/ Clashes(m, layer)
  <2>1. CASE m.failed \/ Clashes(m, layer)
    <3>1. n.failed = TRUE
      BY <1>1, <2>1 DEF States
    <3>2. QED BY <2>1, <3>1
  <2>2. CASE ~(m.failed \/ Clashes(m, layer))
    <3>1. n.failed = FALSE
      BY <1>1, <2>2
    <3>2. QED BY <2>2, <3>1
  <2>3. QED BY <2>1, <2>2
<1>11. ASSUME ~n.failed
       PROVE  /\ n.preds = allPreds /\ n.aliases = allAliases /\ n.builtin = builtin
              /\ n.builtinAliases = builtinAliases /\ n.comps = comps /\ n.disjoints = disjoints
  BY <1>1, <1>10, <1>11
<1>12. QED BY <1>6, <1>8, <1>9, <1>10, <1>11 DEF n, preds, aliases, allPreds, allAliases

\* A list of layers, and what is merged after each.
Layered(layers) ==
  /\ Len(layers) \in Nat /\ DOMAIN layers = 1..Len(layers)
  /\ \A i \in DOMAIN layers : IsPack(layers[i].pack)
Steps(f, layers) ==
  /\ f[0] = Packs!Unmerged /\ \A n \in 0..Len(layers) : f[n] \in States
  /\ \A n \in 1..Len(layers) : f[n] = Packs!Merge(f[n - 1], layers[n])

LEMMA UnmergedHolds == Packs!Unmerged \in States
<1>1. <<>> \in [{} -> Declarations] /\ <<>> \in [{} -> AliasRecords] /\ {} \in SUBSET KeyNums
  OBVIOUS
<1>2. <<>> \in Tables(Declarations) /\ <<>> \in Tables(AliasRecords)
  BY <1>1 DEF Tables
<1>3. <<>> \in Seq([1..3 -> KeyNums]) /\ <<>> \in Seq(SUBSET KeyNums)
  OBVIOUS
<1>4. QED BY <1>2, <1>3 DEF States, Packs!Unmerged

LEMMA MergedInSteps ==
  ASSUME NEW layers, Layered(layers)
  PROVE  \E f : Steps(f, layers) /\ Packs!Merged(layers) = f[Len(layers)]
<1> DEFINE Step(m, n) == Packs!Merge(m, layers[n])
           Def(f) == f = [n \in 0..Len(layers) |-> IF n = 0 THEN Packs!Unmerged ELSE Step(f[n - 1], n)]
           merged == CHOOSE f : Def(f)
           X == States
           g == [z \in Nat \X X |-> IF z[1] < Len(layers) THEN Step(z[2], z[1] + 1) ELSE z[2]]
<1>1. Len(layers) \in Nat
  BY DEF Layered
<1>2. ASSUME NEW m \in X, NEW n \in 1..Len(layers) PROVE Step(m, n) \in X
  BY MergeHolds DEF Layered
<1> HIDE DEF Step, X
<1>3. g \in [Nat \X X -> X]
  <2>1. \A z \in Nat \X X : g[z] \in X
    <3>1. TAKE z \in Nat \X X
    <3>2. z[1] \in Nat /\ z[2] \in X
      OBVIOUS
    <3>3. CASE z[1] < Len(layers)
      <4>1. z[1] + 1 \in 1..Len(layers)
        BY <1>1, <3>2, <3>3
      <4>2. Step(z[2], z[1] + 1) \in X
        BY <1>2, <3>2, <4>1
      <4>3. QED BY <3>3, <4>2
    <3>4. CASE ~(z[1] < Len(layers))
      BY <3>2, <3>4
    <3>5. QED BY <3>3, <3>4
  <2>2. QED BY <2>1
<1>4. PICK f0 \in [Nat -> X] : Iterates(f0, Packs!Unmerged, g)
  <2>1. Packs!Unmerged \in X
    BY UnmergedHolds DEF X
  <2> HIDE DEF g
  <2>2. QED BY <1>3, <2>1, IterationExists
<1>5. ASSUME NEW n \in 1..Len(layers) PROVE f0[n] = Step(f0[n - 1], n)
  <2>1. n - 1 \in Nat /\ n - 1 < Len(layers) /\ (n - 1) + 1 = n
    BY <1>1
  <2>2. f0[(n - 1) + 1] = g[<<n - 1, f0[n - 1]>>]
    <3> HIDE DEF g
    <3>1. \A k \in Nat : f0[k + 1] = g[<<k, f0[k]>>]
      BY <1>4 DEF Iterates
    <3>2. QED BY <2>1, <3>1
  <2>3. <<n - 1, f0[n - 1]>> \in Nat \X X
    BY <1>4, <2>1
  <2>4. QED BY <2>1, <2>2, <2>3
<1>6. f0[0] = Packs!Unmerged
  BY <1>4 DEF Iterates
<1>7. Def([n \in 0..Len(layers) |-> f0[n]])
  <2>1. \A n \in 0..Len(layers) : n # 0 => n \in 1..Len(layers) /\ n - 1 \in 0..Len(layers)
    BY <1>1
  <2>2. QED BY <1>5, <1>6, <2>1
<1>8. Def(merged)
  <2> HIDE DEF Def
  <2>1. QED BY <1>7
<1>9. Packs!Merged(layers) = merged[Len(layers)]
  BY DEF Packs!Merged, Step
<1> HIDE DEF merged
<1>10. merged[0] = Packs!Unmerged /\ \A n \in 1..Len(layers) : merged[n] = Step(merged[n - 1], n)
  <2>1. 0 \in 0..Len(layers) /\ \A n \in 1..Len(layers) : n \in 0..Len(layers) /\ n # 0
    BY <1>1
  <2>2. QED BY <1>8, <2>1
<1> DEFINE N == {n \in Nat : n <= Len(layers) => merged[n] \in X}
<1>11. 0 \in N
  BY <1>10, UnmergedHolds DEF X
<1>12. ASSUME NEW n \in N PROVE n + 1 \in N
  <2>1. SUFFICES ASSUME n + 1 <= Len(layers) PROVE merged[n + 1] \in X
    OBVIOUS
  <2>2. n + 1 \in 1..Len(layers) /\ (n + 1) - 1 = n /\ n <= Len(layers)
    BY <1>1, <2>1
  <2>3. QED BY <1>2, <1>10, <2>2
<1>13. Nat \subseteq N
  <2> HIDE DEF N
  <2>1. N \in SUBSET Nat BY DEF N
  <2>2. QED BY <1>11, <1>12, <2>1, Induction
<1>14. \A n \in 0..Len(layers) : merged[n] \in States
  BY <1>1, <1>13 DEF X
<1>15. Steps(merged, layers)
  BY <1>10, <1>14 DEF Steps, Step
<1>16. QED BY <1>9, <1>15

PredsOf(layer) == Packs!Declared(Packs!Normalized(layer.pack))
AliasesOf(layer) == Packs!Given(layer.pack.aliases)

LEMMA TablesHold ==
  ASSUME NEW layer, IsPack(layer.pack)
  PROVE  /\ PredsOf(layer) \in Tables(Declarations) /\ AliasesOf(layer) \in Tables(AliasRecords)
         /\ \A k \in DOMAIN PredsOf(layer) :
              /\ PredsOf(layer)[k] \in Declarations /\ NormKey[PredsOf(layer)[k].canonical] = k
              /\ \A ref \in PredsOf(layer)[k].supers : NormKey[ref] # 0
         /\ \A k \in DOMAIN AliasesOf(layer) : \E raw \in DOMAIN layer.pack.aliases :
              NormKey[raw] = k /\ AliasesOf(layer)[k] = [raw |-> raw, canonical |-> layer.pack.aliases[raw]]
<1> DEFINE metas == Packs!Normalized(layer.pack)
           preds == PredsOf(layer)
           declaring(k) == {j \in DOMAIN layer.pack.predicates : NormKey[metas[j].canonical] = k}
<1>1. /\ preds \in Tables(Declarations)
      /\ \A k \in DOMAIN preds : Packs!Max(declaring(k)) \in declaring(k) /\ preds[k] = metas[Packs!Max(declaring(k))]
  BY DeclaredHolds DEF PredsOf
<1>2. \A k \in DOMAIN preds : \E j \in DOMAIN layer.pack.predicates : NormKey[metas[j].canonical] = k /\ preds[k] = metas[j]
  BY <1>1
<1>3. \A j \in DOMAIN layer.pack.predicates :
        metas[j] \in Declarations /\ \A ref \in metas[j].supers : NormKey[ref] # 0
  BY NormalizedHolds
<1>4. /\ AliasesOf(layer) \in Tables(AliasRecords)
      /\ \A k \in DOMAIN AliasesOf(layer) : \E raw \in DOMAIN layer.pack.aliases :
           NormKey[raw] = k /\ AliasesOf(layer)[k] = [raw |-> raw, canonical |-> layer.pack.aliases[raw]]
  BY GivenHolds DEF AliasesOf
<1> HIDE DEF metas, preds
<1>5. \A k \in DOMAIN preds : /\ preds[k] \in Declarations /\ NormKey[preds[k].canonical] = k
                              /\ \A ref \in preds[k].supers : NormKey[ref] # 0
  BY <1>2, <1>3
<1>6. QED BY <1>1, <1>4, <1>5 DEF preds

\* A layer clashes with itself, or a built-in one with what built-in layers
\* said before.
LEMMA ClashesHold ==
  ASSUME NEW m \in States, NEW layer, IsPack(layer.pack)
  PROVE  Clashes(m, layer) <=>
           \/ Clashes(Packs!Unmerged, layer)
           \/ /\ layer.builtin
              /\ \/ DOMAIN PredsOf(layer) \cap m.builtin # {}
                 \/ \E k \in DOMAIN AliasesOf(layer) \cap m.builtinAliases :
                      NormKey[m.aliases[k].canonical] # NormKey[AliasesOf(layer)[k].canonical]
<1> DEFINE metas == Packs!Normalized(layer.pack)
           aliases == layer.pack.aliases
           unsound == \E i \in DOMAIN metas :
                        \/ NormKey[metas[i].canonical] = 0
                        \/ layer.builtin /\ \E j \in 1..(i - 1) : NormKey[metas[j].canonical] = NormKey[metas[i].canonical]
           twice == \E raw \in DOMAIN aliases :
                      NormKey[raw] = 0 \/ \E other \in DOMAIN aliases \ {raw} : NormKey[other] = NormKey[raw]
<1>1. Packs!PredicatesClash(m, metas, layer.builtin) <=>
        unsound \/ (layer.builtin /\ \E i \in DOMAIN metas : NormKey[metas[i].canonical] \in m.builtin)
  <2> DEFINE blank(i) == NormKey[metas[i].canonical] = 0
             again(i) == \E j \in 1..(i - 1) : NormKey[metas[j].canonical] = NormKey[metas[i].canonical]
             known(i) == NormKey[metas[i].canonical] \in m.builtin
             b == layer.builtin
  <2>1. Packs!PredicatesClash(m, metas, layer.builtin) <=> \E i \in DOMAIN metas : blank(i) \/ (b /\ (known(i) \/ again(i)))
    BY Zenon DEF Packs!PredicatesClash
  <2>2. unsound <=> \E i \in DOMAIN metas : blank(i) \/ (b /\ again(i))
    OBVIOUS
  <2> HIDE DEF unsound, blank, again, known, metas, b
  <2>3. (\E i \in DOMAIN metas : blank(i) \/ (b /\ (known(i) \/ again(i))))
        <=> (\E i \in DOMAIN metas : blank(i) \/ (b /\ again(i))) \/ (b /\ \E i \in DOMAIN metas : known(i))
    BY Zenon
  <2>4. QED BY <2>1, <2>2, <2>3, Zenon DEF known, b
<1>2. Packs!PredicatesClash(Packs!Unmerged, metas, layer.builtin) <=> unsound
  BY DEF Packs!PredicatesClash, Packs!Unmerged
<1>3. Packs!AliasesClash(m, aliases, layer.builtin) <=>
        twice \/ (layer.builtin /\ \E raw \in DOMAIN aliases :
          NormKey[raw] \in m.builtinAliases /\ NormKey[m.aliases[NormKey[raw]].canonical] # NormKey[aliases[raw]])
  <2> DEFINE bad(raw) == \/ NormKey[raw] = 0
                         \/ \E other \in DOMAIN aliases \ {raw} : NormKey[other] = NormKey[raw]
             differs(raw) == /\ NormKey[raw] \in m.builtinAliases
                             /\ NormKey[m.aliases[NormKey[raw]].canonical] # NormKey[aliases[raw]]
             b == layer.builtin
  <2>1. Packs!AliasesClash(m, aliases, layer.builtin) <=> \E raw \in DOMAIN aliases : bad(raw) \/ (b /\ differs(raw))
    BY Zenon DEF Packs!AliasesClash
  <2>2. twice <=> \E raw \in DOMAIN aliases : bad(raw)
    OBVIOUS
  <2> HIDE DEF twice, bad, differs, b
  <2>3. (\E raw \in DOMAIN aliases : bad(raw) \/ (b /\ differs(raw)))
        <=> (\E raw \in DOMAIN aliases : bad(raw)) \/ (b /\ \E raw \in DOMAIN aliases : differs(raw))
    BY Zenon
  <2>4. QED BY <2>1, <2>2, <2>3, Zenon DEF differs, b
<1>4. Packs!AliasesClash(Packs!Unmerged, aliases, layer.builtin) <=> twice
  BY DEF Packs!AliasesClash, Packs!Unmerged
<1>5. (\E i \in DOMAIN metas : NormKey[metas[i].canonical] \in m.builtin) <=> DOMAIN PredsOf(layer) \cap m.builtin # {}
  <2>1. DOMAIN PredsOf(layer) = {NormKey[metas[j].canonical] : j \in DOMAIN metas}
    BY DeclaredHolds, NormalizedHolds DEF PredsOf
  <2> HIDE DEF metas
  <2>2. QED BY <2>1
<1>6. DOMAIN AliasesOf(layer) = {NormKey[raw] : raw \in DOMAIN aliases}
  BY GivenHolds DEF AliasesOf
<1>7. \A k \in DOMAIN AliasesOf(layer) : \E raw \in DOMAIN aliases :
        NormKey[raw] = k /\ AliasesOf(layer)[k] = [raw |-> raw, canonical |-> aliases[raw]]
  BY GivenHolds DEF AliasesOf
<1>8. ASSUME ~twice, NEW raw \in DOMAIN aliases
      PROVE  NormKey[raw] \in DOMAIN AliasesOf(layer) /\ AliasesOf(layer)[NormKey[raw]].canonical = aliases[raw]
  <2>1. NormKey[raw] \in DOMAIN AliasesOf(layer)
    BY <1>6
  <2>2. PICK other \in DOMAIN aliases :
          NormKey[other] = NormKey[raw] /\ AliasesOf(layer)[NormKey[raw]] = [raw |-> other, canonical |-> aliases[other]]
    BY <1>7, <2>1
  <2>3. other = raw
    BY <1>8, <2>2
  <2>4. QED BY <2>1, <2>2, <2>3
<1>9. ASSUME ~twice
      PROVE  (\E raw \in DOMAIN aliases :
                NormKey[raw] \in m.builtinAliases /\ NormKey[m.aliases[NormKey[raw]].canonical] # NormKey[aliases[raw]])
             <=> \E k \in DOMAIN AliasesOf(layer) \cap m.builtinAliases :
                   NormKey[m.aliases[k].canonical] # NormKey[AliasesOf(layer)[k].canonical]
  <2> DEFINE disagrees(k) == k \in m.builtinAliases /\ NormKey[m.aliases[k].canonical] # NormKey[AliasesOf(layer)[k].canonical]
  <2>1. \A raw \in DOMAIN aliases :
          disagrees(NormKey[raw]) <=> NormKey[raw] \in m.builtinAliases /\ NormKey[m.aliases[NormKey[raw]].canonical] # NormKey[aliases[raw]]
    BY <1>8, <1>9
  <2> HIDE DEF disagrees
  <2>2. (\E raw \in DOMAIN aliases :
           NormKey[raw] \in m.builtinAliases /\ NormKey[m.aliases[NormKey[raw]].canonical] # NormKey[aliases[raw]])
        <=> \E raw \in DOMAIN aliases : disagrees(NormKey[raw])
    BY <2>1
  <2>3. (\E raw \in DOMAIN aliases : disagrees(NormKey[raw])) <=> \E k \in DOMAIN AliasesOf(layer) : disagrees(k)
    BY <1>6
  <2>4. QED BY <2>2, <2>3 DEF disagrees
<1> DEFINE b == layer.builtin
           knownPreds == \E i \in DOMAIN metas : NormKey[metas[i].canonical] \in m.builtin
           overlap == DOMAIN PredsOf(layer) \cap m.builtin # {}
           differ == \E raw \in DOMAIN aliases :
                       NormKey[raw] \in m.builtinAliases /\ NormKey[m.aliases[NormKey[raw]].canonical] # NormKey[aliases[raw]]
           differs == \E k \in DOMAIN AliasesOf(layer) \cap m.builtinAliases :
                        NormKey[m.aliases[k].canonical] # NormKey[AliasesOf(layer)[k].canonical]
           predsClash == Packs!PredicatesClash(m, metas, layer.builtin)
           aliasesClash == Packs!AliasesClash(m, aliases, layer.builtin)
           ownPreds == Packs!PredicatesClash(Packs!Unmerged, metas, layer.builtin)
           ownAliases == Packs!AliasesClash(Packs!Unmerged, aliases, layer.builtin)
<1>10. /\ predsClash <=> unsound \/ (b /\ knownPreds)
       /\ aliasesClash <=> twice \/ (b /\ differ)
       /\ ownPreds <=> unsound
       /\ ownAliases <=> twice
       /\ knownPreds <=> overlap
       /\ ~twice => (differ <=> differs)
  BY <1>1, <1>2, <1>3, <1>4, <1>5, <1>9, Zenon
<1>11. /\ Clashes(m, layer) <=> predsClash \/ aliasesClash
       /\ Clashes(Packs!Unmerged, layer) <=> ownPreds \/ ownAliases
  BY Zenon DEF Clashes
<1>12. Clashes(m, layer) <=> Clashes(Packs!Unmerged, layer) \/ (b /\ (overlap \/ differs))
  <2> HIDE DEF unsound, twice, b, knownPreds, overlap, differ, differs, predsClash, aliasesClash, ownPreds, ownAliases
  <2>1. QED BY <1>10, <1>11, Zenon
<1>13. QED BY <1>12, Zenon

\* What the first n layers say, all of it and nothing else.
Says(m, layers, n) ==
  /\ DOMAIN m.preds = UNION {DOMAIN PredsOf(layers[i]) : i \in 1..n}
  /\ \A k \in DOMAIN m.preds : \E i \in 1..n :
       /\ k \in DOMAIN PredsOf(layers[i]) /\ m.preds[k] = PredsOf(layers[i])[k]
       /\ \A j \in 1..n : k \in DOMAIN PredsOf(layers[j]) => j <= i
  /\ DOMAIN m.aliases = UNION {DOMAIN AliasesOf(layers[i]) : i \in 1..n}
  /\ \A k \in DOMAIN m.aliases : \E i \in 1..n :
       k \in DOMAIN AliasesOf(layers[i]) /\ m.aliases[k] = AliasesOf(layers[i])[k]
  /\ Elems(m.comps) = UNION {Elems(Packs!CompositionKeys(layers[i].pack)) : i \in 1..n}
  /\ Elems(m.disjoints) = UNION {Elems(Packs!DisjointKeys(layers[i].pack)) : i \in 1..n}

LEMMA MergedSays ==
  ASSUME NEW layers, Layered(layers), NEW f, Steps(f, layers), NEW n \in 0..Len(layers), ~f[n].failed
  PROVE  Says(f[n], layers, n)
<1>1. Len(layers) \in Nat
  BY DEF Layered
<1> DEFINE N == {k \in Nat : k <= Len(layers) => (~f[k].failed => Says(f[k], layers, k))}
<1>2. 0 \in N
  <2>1. f[0] = Packs!Unmerged /\ 1..0 = {}
    BY DEF Steps
  <2>2. Says(Packs!Unmerged, layers, 0)
    BY <2>1 DEF Says, Packs!Unmerged, Elems
  <2>3. QED BY <2>1, <2>2
<1>3. ASSUME NEW k \in N PROVE k + 1 \in N
  <2>1. SUFFICES ASSUME k + 1 <= Len(layers), ~f[k + 1].failed PROVE Says(f[k + 1], layers, k + 1)
    OBVIOUS
  <2> DEFINE l == layers[k + 1]
             m == f[k]
             o == f[k + 1]
             preds == PredsOf(l)
             aliases == AliasesOf(l)
             comps == Packs!CompositionKeys(l.pack)
             disjoints == Packs!DisjointKeys(l.pack)
  <2>2. /\ k \in 0..Len(layers) /\ k + 1 \in 1..Len(layers) /\ (k + 1) - 1 = k /\ k <= Len(layers)
        /\ k + 1 \in 1..(k + 1) /\ \A i \in 1..(k + 1) : i = k + 1 \/ i \in 1..k
        /\ \A i \in 1..k : i \in 1..(k + 1) /\ i <= k + 1
    BY <1>1, <2>1
  <2>3. m \in States /\ o = Packs!Merge(m, l) /\ IsPack(l.pack)
    BY <2>2 DEF Steps, Layered
  <2>4. /\ ~m.failed
        /\ o.preds = Packs!Over(preds, m.preds) /\ o.aliases = Packs!Over(aliases, m.aliases)
        /\ Elems(o.comps) = Elems(m.comps) \cup Elems(comps)
        /\ Elems(o.disjoints) = Elems(m.disjoints) \cup Elems(disjoints)
    <3> HIDE DEF m, o, l
    <3>1. (o.failed <=> m.failed \/ Clashes(m, l)) /\
          (~o.failed => /\ o.preds = Packs!Over(preds, m.preds) /\ o.aliases = Packs!Over(aliases, m.aliases)
                        /\ Elems(o.comps) = Elems(m.comps) \cup Elems(comps)
                        /\ Elems(o.disjoints) = Elems(m.disjoints) \cup Elems(disjoints))
      BY <2>3, MergeHolds DEF PredsOf, AliasesOf
    <3>2. ~o.failed
      BY <2>1 DEF o
    <3>3. QED BY <3>1, <3>2
  <2>5. Says(m, layers, k)
    BY <2>2, <2>4
  <2>6a. preds \in Tables(Declarations) /\ m.preds \in Tables(Declarations)
    BY <2>3, TablesHold DEF States
  <2>6b. aliases \in Tables(AliasRecords) /\ m.aliases \in Tables(AliasRecords)
    BY <2>3, TablesHold DEF States
  <2>7. /\ DOMAIN o.preds = DOMAIN preds \cup DOMAIN m.preds
        /\ \A x \in DOMAIN preds : o.preds[x] = preds[x]
        /\ \A x \in DOMAIN m.preds \ DOMAIN preds : o.preds[x] = m.preds[x]
    <3> HIDE DEF m, o, l, preds, aliases
    <3>1. QED BY <2>4 DEF Packs!Over
  <2>8. /\ DOMAIN o.aliases = DOMAIN aliases \cup DOMAIN m.aliases
        /\ \A x \in DOMAIN aliases : o.aliases[x] = aliases[x]
        /\ \A x \in DOMAIN m.aliases \ DOMAIN aliases : o.aliases[x] = m.aliases[x]
    <3> HIDE DEF m, o, l, preds, aliases
    <3>1. QED BY <2>4 DEF Packs!Over
  <2> HIDE DEF m, o
  <2>9. DOMAIN o.preds = UNION {DOMAIN PredsOf(layers[i]) : i \in 1..(k + 1)}
    BY <2>2, <2>5, <2>7 DEF Says
  <2>10. \A x \in DOMAIN o.preds : \E i \in 1..(k + 1) :
           /\ x \in DOMAIN PredsOf(layers[i]) /\ o.preds[x] = PredsOf(layers[i])[x]
           /\ \A j \in 1..(k + 1) : x \in DOMAIN PredsOf(layers[j]) => j <= i
    <3>1. TAKE x \in DOMAIN o.preds
    <3>2. CASE x \in DOMAIN preds
      <4>1. \A j \in 1..(k + 1) : j <= k + 1
        BY <2>2
      <4>2. QED BY <2>2, <2>7, <3>2, <4>1
    <3>3. CASE x \notin DOMAIN preds
      <4>1. x \in DOMAIN m.preds /\ o.preds[x] = m.preds[x]
        BY <2>7, <3>3
      <4>2. PICK i \in 1..k : /\ x \in DOMAIN PredsOf(layers[i]) /\ m.preds[x] = PredsOf(layers[i])[x]
                              /\ \A j \in 1..k : x \in DOMAIN PredsOf(layers[j]) => j <= i
        BY <2>5, <4>1 DEF Says
      <4>3. QED BY <2>2, <3>3, <4>1, <4>2
    <3>4. QED BY <3>2, <3>3
  <2>11. DOMAIN o.aliases = UNION {DOMAIN AliasesOf(layers[i]) : i \in 1..(k + 1)}
    BY <2>2, <2>5, <2>8 DEF Says
  <2>12. \A x \in DOMAIN o.aliases : \E i \in 1..(k + 1) :
           x \in DOMAIN AliasesOf(layers[i]) /\ o.aliases[x] = AliasesOf(layers[i])[x]
    <3>1. TAKE x \in DOMAIN o.aliases
    <3>2. CASE x \in DOMAIN aliases
      BY <2>2, <2>8, <3>2
    <3>3. CASE x \notin DOMAIN aliases
      <4>1. x \in DOMAIN m.aliases /\ o.aliases[x] = m.aliases[x]
        BY <2>8, <3>3
      <4>2. PICK i \in 1..k : x \in DOMAIN AliasesOf(layers[i]) /\ m.aliases[x] = AliasesOf(layers[i])[x]
        BY <2>5, <4>1 DEF Says
      <4>3. QED BY <2>2, <4>1, <4>2
    <3>4. QED BY <3>2, <3>3
  <2>13. Elems(o.comps) = UNION {Elems(Packs!CompositionKeys(layers[i].pack)) : i \in 1..(k + 1)}
    BY <2>2, <2>4, <2>5 DEF Says
  <2>14. Elems(o.disjoints) = UNION {Elems(Packs!DisjointKeys(layers[i].pack)) : i \in 1..(k + 1)}
    BY <2>2, <2>4, <2>5 DEF Says
  <2>15. Says(o, layers, k + 1)
    BY <2>9, <2>10, <2>11, <2>12, <2>13, <2>14 DEF Says
  <2>16. QED BY <2>15 DEF o
<1>4. Nat \subseteq N
  <2> HIDE DEF N
  <2>1. N \in SUBSET Nat BY DEF N
  <2>2. QED BY <1>2, <1>3, <2>1, Induction
<1>5. n \in N /\ n <= Len(layers)
  BY <1>1, <1>4
<1>6. QED BY <1>5

\* Built-in layers that may be merged, whatever their order.
Compatible(x, y) ==
  /\ DOMAIN PredsOf(x) \cap DOMAIN PredsOf(y) = {}
  /\ \A k \in DOMAIN AliasesOf(x) \cap DOMAIN AliasesOf(y) :
       NormKey[AliasesOf(x)[k].canonical] = NormKey[AliasesOf(y)[k].canonical]
Agree(layers, n) ==
  /\ \A i \in 1..n : ~Clashes(Packs!Unmerged, layers[i])
  /\ \A i, j \in 1..n : i # j => Compatible(layers[i], layers[j])

LEMMA BuiltinsAgree ==
  ASSUME NEW layers, Layered(layers), NEW f, Steps(f, layers), NEW N \in 0..Len(layers),
         \A i \in 1..N : layers[i].builtin
  PROVE  \A n \in 0..N : /\ f[n].failed <=> ~Agree(layers, n)
                         /\ ~f[n].failed => /\ f[n].builtin = DOMAIN f[n].preds
                                            /\ f[n].builtinAliases = DOMAIN f[n].aliases
<1>1. Len(layers) \in Nat /\ N \in Nat /\ N <= Len(layers)
  BY DEF Layered
<1> DEFINE Good(n) == /\ f[n].failed <=> ~Agree(layers, n)
                      /\ ~f[n].failed => /\ f[n].builtin = DOMAIN f[n].preds
                                         /\ f[n].builtinAliases = DOMAIN f[n].aliases
           S == {n \in Nat : n <= N => Good(n)}
<1>2. 0 \in S
  <2>1. f[0] = Packs!Unmerged /\ 1..0 = {}
    BY DEF Steps
  <2>2. Agree(layers, 0)
    BY <2>1 DEF Agree
  <2>3. /\ ~f[0].failed /\ f[0].builtin = {} /\ f[0].builtinAliases = {}
        /\ f[0].preds = <<>> /\ f[0].aliases = <<>>
    BY <2>1 DEF Packs!Unmerged
  <2>4. DOMAIN << >> = {}
    OBVIOUS
  <2>5. Good(0)
    BY <2>2, <2>3, <2>4
  <2>6. QED BY <2>5
<1>3. ASSUME NEW n \in S PROVE n + 1 \in S
  <2>1. SUFFICES ASSUME n + 1 <= N PROVE Good(n + 1)
    OBVIOUS
  <2> DEFINE l == layers[n + 1]
             m == f[n]
             o == f[n + 1]
             preds == PredsOf(l)
             aliases == AliasesOf(l)
  <2>2. /\ n \in 0..Len(layers) /\ n + 1 \in 1..Len(layers) /\ n + 1 \in 1..N /\ (n + 1) - 1 = n /\ n <= N
        /\ n + 1 \in 1..(n + 1) /\ n + 1 \in 0..Len(layers) /\ n + 1 \notin 1..n
        /\ \A i \in 1..(n + 1) : i = n + 1 \/ i \in 1..n
        /\ \A i \in 1..n : i \in 1..(n + 1) /\ i # n + 1
    BY <1>1, <2>1
  <2>3. m \in States /\ o = Packs!Merge(m, l) /\ IsPack(l.pack) /\ l.builtin
    BY <2>2 DEF Steps, Layered
  <2>4. Good(n)
    BY <2>2
  <2>5. /\ o.failed <=> m.failed \/ Clashes(m, l)
        /\ ~o.failed => /\ o.preds = Packs!Over(preds, m.preds) /\ o.aliases = Packs!Over(aliases, m.aliases)
                        /\ o.builtin = m.builtin \cup DOMAIN preds
                        /\ o.builtinAliases = m.builtinAliases \cup DOMAIN aliases
    <3> HIDE DEF m, o, l
    <3>1. QED BY <2>3, MergeHolds DEF PredsOf, AliasesOf
  <2>6a. preds \in Tables(Declarations) /\ m.preds \in Tables(Declarations)
    BY <2>3, TablesHold DEF States
  <2>6b. aliases \in Tables(AliasRecords) /\ m.aliases \in Tables(AliasRecords)
    BY <2>3, TablesHold DEF States
  <2>7. /\ DOMAIN Packs!Over(preds, m.preds) = DOMAIN preds \cup DOMAIN m.preds
        /\ DOMAIN Packs!Over(aliases, m.aliases) = DOMAIN aliases \cup DOMAIN m.aliases
    <3> HIDE DEF m, o, l, preds, aliases
    <3>1. DOMAIN Packs!Over(preds, m.preds) = DOMAIN preds \cup DOMAIN m.preds
      BY DEF Packs!Over
    <3>2. DOMAIN Packs!Over(aliases, m.aliases) = DOMAIN aliases \cup DOMAIN m.aliases
      BY DEF Packs!Over
    <3>3. QED BY <3>1, <3>2
  <2>8. Agree(layers, n + 1) <=> /\ Agree(layers, n) /\ ~Clashes(Packs!Unmerged, l)
                                 /\ \A i \in 1..n : Compatible(layers[i], l)
    <3>1. \A x, y : Compatible(x, y) => Compatible(y, x)
      BY DEF Compatible
    <3>2. QED BY <2>2, <3>1 DEF Agree
  <2>9. CASE m.failed
    <3>1. o.failed /\ ~Agree(layers, n + 1)
      BY <2>4, <2>5, <2>8, <2>9
    <3>2. QED BY <3>1
  <2>10. CASE ~m.failed
    <3>1. Says(m, layers, n) /\ Agree(layers, n) /\ m.builtin = DOMAIN m.preds /\ m.builtinAliases = DOMAIN m.aliases
      BY <2>2, <2>4, <2>10, MergedSays
    <3>2. DOMAIN preds \cap DOMAIN m.preds # {} <=>
            \E i \in 1..n : DOMAIN PredsOf(layers[i]) \cap DOMAIN PredsOf(l) # {}
      BY <3>1 DEF Says
    <3>3. (\E k \in DOMAIN aliases \cap DOMAIN m.aliases : NormKey[m.aliases[k].canonical] # NormKey[aliases[k].canonical])
          <=> \E i \in 1..n : \E k \in DOMAIN AliasesOf(layers[i]) \cap DOMAIN AliasesOf(l) :
                NormKey[AliasesOf(layers[i])[k].canonical] # NormKey[AliasesOf(l)[k].canonical]
      <4>1. ASSUME NEW k \in DOMAIN aliases \cap DOMAIN m.aliases,
                   NormKey[m.aliases[k].canonical] # NormKey[aliases[k].canonical]
            PROVE  \E i \in 1..n : \E x \in DOMAIN AliasesOf(layers[i]) \cap DOMAIN AliasesOf(l) :
                     NormKey[AliasesOf(layers[i])[x].canonical] # NormKey[AliasesOf(l)[x].canonical]
        BY <3>1, <4>1 DEF Says
      <4>2. ASSUME NEW i \in 1..n, NEW k \in DOMAIN AliasesOf(layers[i]) \cap DOMAIN AliasesOf(l),
                   NormKey[AliasesOf(layers[i])[k].canonical] # NormKey[AliasesOf(l)[k].canonical]
            PROVE  /\ k \in DOMAIN aliases \cap DOMAIN m.aliases
                   /\ NormKey[m.aliases[k].canonical] # NormKey[aliases[k].canonical]
        <5>1. k \in DOMAIN m.aliases
          BY <3>1 DEF Says
        <5>2. PICK j \in 1..n : k \in DOMAIN AliasesOf(layers[j]) /\ m.aliases[k] = AliasesOf(layers[j])[k]
          BY <3>1, <5>1 DEF Says
        <5>3. i = j \/ Compatible(layers[i], layers[j])
          BY <3>1 DEF Agree
        <5>4. NormKey[AliasesOf(layers[j])[k].canonical] = NormKey[AliasesOf(layers[i])[k].canonical]
          BY <5>2, <5>3 DEF Compatible
        <5>5. QED BY <4>2, <5>1, <5>2, <5>4
      <4>3. QED BY <4>1, <4>2
    <3>4. Clashes(m, l) <=> \/ Clashes(Packs!Unmerged, l)
                            \/ DOMAIN preds \cap m.builtin # {}
                            \/ \E k \in DOMAIN aliases \cap m.builtinAliases :
                                 NormKey[m.aliases[k].canonical] # NormKey[aliases[k].canonical]
      <4> HIDE DEF m, l
      <4>1. QED BY <2>3, ClashesHold
    <3>5. Clashes(m, l) <=> Clashes(Packs!Unmerged, l) \/ \E i \in 1..n : ~Compatible(layers[i], l)
      BY <3>1, <3>2, <3>3, <3>4 DEF Compatible
    <3>6. o.failed <=> ~Agree(layers, n + 1)
      BY <2>5, <2>8, <2>10, <3>1, <3>5
    <3>7. ~o.failed => o.builtin = DOMAIN o.preds /\ o.builtinAliases = DOMAIN o.aliases
      BY <2>5, <2>7, <3>1
    <3>8. QED BY <3>6, <3>7
  <2>11. QED BY <2>9, <2>10
<1>4. Nat \subseteq S
  <2> HIDE DEF S
  <2>1. S \in SUBSET Nat BY DEF S
  <2>2. QED BY <1>2, <1>3, <2>1, Induction
<1>5. \A n \in 0..N : n \in S /\ n <= N
  BY <1>1, <1>4
<1>6. QED BY <1>5

\* Merges that differ only in how raw spellings and references are ordered.
Mirrors(m, o) ==
  /\ m.failed <=> o.failed
  /\ ~m.failed => /\ m.preds = o.preds
                  /\ DOMAIN m.aliases = DOMAIN o.aliases
                  /\ \A k \in DOMAIN m.aliases : NormKey[m.aliases[k].canonical] = NormKey[o.aliases[k].canonical]
                  /\ Elems(m.comps) = Elems(o.comps) /\ Elems(m.disjoints) = Elems(o.disjoints)

\* Of two lists of layers the first n, all of them built in, are the same in
\* another order.
Relaid(layers, others, n) ==
  /\ Len(others) = Len(layers) /\ \A i \in 1..n : layers[i].builtin
  /\ \E p \in [1..n -> 1..n] :
       /\ \A i, j \in 1..n : p[i] = p[j] => i = j
       /\ \A i \in 1..n : \E j \in 1..n : p[j] = i
       /\ \A i \in 1..n : others[i] = layers[p[i]]

\* Built-in layers say the same in every order.
LEMMA OrderIsImmaterial ==
  ASSUME NEW layers, Layered(layers), NEW f, Steps(f, layers), NEW n \in 0..Len(layers),
         NEW others, Layered(others), NEW g, Steps(g, others), Relaid(layers, others, n)
  PROVE  Mirrors(f[n], g[n])
<1>0. Len(others) = Len(layers) /\ \A i \in 1..n : layers[i].builtin
  BY DEF Relaid
<1>0a. PICK p \in [1..n -> 1..n] :
       /\ \A i, j \in 1..n : p[i] = p[j] => i = j
       /\ \A i \in 1..n : \E j \in 1..n : p[j] = i
       /\ \A i \in 1..n : others[i] = layers[p[i]]
  BY DEF Relaid
<1> USE <1>0, <1>0a
<1> DEFINE m == f[n]
           o == g[n]
<1>1. n \in 0..n /\ n \in 0..Len(others) /\ n \in Nat
  BY DEF Layered
<1>2. (m.failed <=> ~Agree(layers, n)) /\ (o.failed <=> ~Agree(others, n))
  <2>1. \A i \in 1..n : others[i].builtin
    OBVIOUS
  <2>2. m.failed <=> ~Agree(layers, n)
    BY <1>1, BuiltinsAgree
  <2>3. o.failed <=> ~Agree(others, n)
    <3> HIDE DEF m, o
    <3>1. \A k \in 0..n : g[k].failed <=> ~Agree(others, k)
      BY <1>1, <2>1, BuiltinsAgree
    <3>2. QED BY <1>1, <3>1 DEF o
  <2>4. QED BY <2>2, <2>3
<1>3. Agree(others, n) <=> Agree(layers, n)
  <2>1. ASSUME Agree(layers, n) PROVE Agree(others, n)
    <3>1. \A i, j \in 1..n : i # j => p[i] # p[j]
      OBVIOUS
    <3>2. \A i \in 1..n : ~Clashes(Packs!Unmerged, others[i])
      BY <2>1 DEF Agree
    <3>3. ASSUME NEW i \in 1..n, NEW j \in 1..n, i # j PROVE Compatible(others[i], others[j])
      <4>1. p[i] \in 1..n /\ p[j] \in 1..n /\ p[i] # p[j] /\ others[i] = layers[p[i]] /\ others[j] = layers[p[j]]
        BY <3>1, <3>3
      <4>2. Compatible(layers[p[i]], layers[p[j]])
        BY <2>1, <4>1 DEF Agree
      <4>3. QED BY <4>1, <4>2
    <3>4. QED BY <3>2, <3>3 DEF Agree
  <2>2. ASSUME Agree(others, n) PROVE Agree(layers, n)
    <3>1. ASSUME NEW i \in 1..n PROVE ~Clashes(Packs!Unmerged, layers[i])
      <4>1. PICK j \in 1..n : p[j] = i
        OBVIOUS
      <4>2. QED BY <2>2, <4>1 DEF Agree
    <3>2. ASSUME NEW i \in 1..n, NEW j \in 1..n, i # j PROVE Compatible(layers[i], layers[j])
      <4>1. PICK x \in 1..n : p[x] = i
        OBVIOUS
      <4>2. PICK y \in 1..n : p[y] = j
        OBVIOUS
      <4>3. Compatible(others[x], others[y])
        BY <2>2, <3>2, <4>1, <4>2 DEF Agree
      <4>4. QED BY <4>1, <4>2, <4>3
    <3>3. QED BY <3>1, <3>2 DEF Agree
  <2>3. QED BY <2>1, <2>2
<1>4. SUFFICES ASSUME ~m.failed, ~o.failed, Agree(layers, n), Agree(others, n)
               PROVE  /\ m.preds = o.preds
                      /\ DOMAIN m.aliases = DOMAIN o.aliases
                      /\ \A k \in DOMAIN m.aliases : NormKey[m.aliases[k].canonical] = NormKey[o.aliases[k].canonical]
                      /\ Elems(m.comps) = Elems(o.comps) /\ Elems(m.disjoints) = Elems(o.disjoints)
  <2> HIDE DEF m, o
  <2>1. CASE Agree(layers, n)
    <3>1. ~m.failed /\ ~o.failed
      BY <1>2, <1>3, <2>1
    <3>2. /\ m.preds = o.preds
          /\ DOMAIN m.aliases = DOMAIN o.aliases
          /\ \A k \in DOMAIN m.aliases : NormKey[m.aliases[k].canonical] = NormKey[o.aliases[k].canonical]
          /\ Elems(m.comps) = Elems(o.comps) /\ Elems(m.disjoints) = Elems(o.disjoints)
      BY <1>3, <2>1, <3>1
    <3>3. QED BY <3>1, <3>2 DEF Mirrors, m, o
  <2>2. CASE ~Agree(layers, n)
    <3>1. m.failed /\ o.failed
      BY <1>2, <1>3, <2>2
    <3>2. QED BY <3>1 DEF Mirrors, m, o
  <2>3. QED BY <2>1, <2>2
<1>5. Says(m, layers, n)
  BY <1>1, <1>4, MergedSays
<1>6. Says(o, others, n)
  BY <1>1, <1>4, MergedSays
<1>7. m \in States /\ o \in States
  BY <1>1 DEF Steps
<1> HIDE DEF m, o
<1>8. m.preds = o.preds
  <2>1. DOMAIN m.preds = DOMAIN o.preds
    BY <1>5, <1>6 DEF Says
  <2>2. ASSUME NEW k \in DOMAIN m.preds PROVE m.preds[k] = o.preds[k]
    <3>1. PICK i \in 1..n : k \in DOMAIN PredsOf(layers[i]) /\ m.preds[k] = PredsOf(layers[i])[k]
      BY <1>5 DEF Says
    <3>2. PICK j \in 1..n : k \in DOMAIN PredsOf(others[j]) /\ o.preds[k] = PredsOf(others[j])[k]
      BY <1>6, <2>1 DEF Says
    <3>3. p[j] \in 1..n /\ others[j] = layers[p[j]]
      OBVIOUS
    <3>4. i = p[j]
      BY <1>4, <3>1, <3>2, <3>3 DEF Agree, Compatible
    <3>5. QED BY <3>1, <3>2, <3>3, <3>4
  <2>3. \A t \in Tables(Declarations) : t = [k \in DOMAIN t |-> t[k]]
    BY DEF Tables
  <2>4. m.preds \in Tables(Declarations) /\ o.preds \in Tables(Declarations)
    BY <1>7 DEF States
  <2>5. m.preds = [k \in DOMAIN m.preds |-> m.preds[k]] /\ o.preds = [k \in DOMAIN o.preds |-> o.preds[k]]
    BY <2>3, <2>4
  <2>6. QED BY <2>1, <2>2, <2>5
<1>9. DOMAIN m.aliases = DOMAIN o.aliases
  BY <1>5, <1>6 DEF Says
<1>10. ASSUME NEW k \in DOMAIN m.aliases PROVE NormKey[m.aliases[k].canonical] = NormKey[o.aliases[k].canonical]
  <2>1. PICK i \in 1..n : k \in DOMAIN AliasesOf(layers[i]) /\ m.aliases[k] = AliasesOf(layers[i])[k]
    BY <1>5 DEF Says
  <2>2. PICK j \in 1..n : k \in DOMAIN AliasesOf(others[j]) /\ o.aliases[k] = AliasesOf(others[j])[k]
    BY <1>6, <1>9 DEF Says
  <2>3. p[j] \in 1..n /\ others[j] = layers[p[j]]
    OBVIOUS
  <2>4. i = p[j] \/ Compatible(layers[i], layers[p[j]])
    BY <1>4, <2>3 DEF Agree
  <2>5. NormKey[AliasesOf(layers[i])[k].canonical] = NormKey[AliasesOf(layers[p[j]])[k].canonical]
    <3>1. CASE i = p[j]
      BY <3>1
    <3>2. CASE Compatible(layers[i], layers[p[j]])
      BY <2>1, <2>2, <2>3, <3>2 DEF Compatible
    <3>3. QED BY <2>4, <3>1, <3>2
  <2>6. QED BY <2>1, <2>2, <2>3, <2>5
<1>11. Elems(m.comps) = Elems(o.comps) /\ Elems(m.disjoints) = Elems(o.disjoints)
  <2> DEFINE comps(x) == Elems(Packs!CompositionKeys(x.pack))
             disjoints(x) == Elems(Packs!DisjointKeys(x.pack))
  <2>1. /\ Elems(m.comps) = UNION {comps(layers[i]) : i \in 1..n}
        /\ Elems(m.disjoints) = UNION {disjoints(layers[i]) : i \in 1..n}
        /\ Elems(o.comps) = UNION {comps(others[i]) : i \in 1..n}
        /\ Elems(o.disjoints) = UNION {disjoints(others[i]) : i \in 1..n}
    BY <1>5, <1>6 DEF Says
  <2> HIDE DEF comps, disjoints
  <2>2. {comps(layers[i]) : i \in 1..n} = {comps(others[i]) : i \in 1..n}
    <3>1. \A i \in 1..n : \E j \in 1..n : comps(layers[i]) = comps(others[j])
      <4>1. TAKE i \in 1..n
      <4>2. PICK j \in 1..n : p[j] = i
        OBVIOUS
      <4>3. others[j] = layers[i]
        BY <4>2
      <4>4. QED BY <4>3
    <3>2. \A i \in 1..n : p[i] \in 1..n /\ comps(others[i]) = comps(layers[p[i]])
      OBVIOUS
    <3>3. ASSUME NEW i \in 1..n PROVE comps(layers[i]) \in {comps(others[j]) : j \in 1..n}
      BY <3>1
    <3>4. ASSUME NEW i \in 1..n PROVE comps(others[i]) \in {comps(layers[j]) : j \in 1..n}
      BY <3>2
    <3> DEFINE A == {comps(layers[i]) : i \in 1..n}
               B == {comps(others[i]) : i \in 1..n}
    <3>5. \A x \in A : x \in B
      BY <3>3
    <3>6. \A x \in B : x \in A
      BY <3>4
    <3> HIDE DEF A, B
    <3>7. A = B
      BY <3>5, <3>6
    <3>8. QED BY <3>7 DEF A, B
  <2>3. {disjoints(layers[i]) : i \in 1..n} = {disjoints(others[i]) : i \in 1..n}
    <3>1. \A i \in 1..n : \E j \in 1..n : disjoints(layers[i]) = disjoints(others[j])
      <4>1. TAKE i \in 1..n
      <4>2. PICK j \in 1..n : p[j] = i
        OBVIOUS
      <4>3. others[j] = layers[i]
        BY <4>2
      <4>4. QED BY <4>3
    <3>2. \A i \in 1..n : p[i] \in 1..n /\ disjoints(others[i]) = disjoints(layers[p[i]])
      OBVIOUS
    <3>3. ASSUME NEW i \in 1..n PROVE disjoints(layers[i]) \in {disjoints(others[j]) : j \in 1..n}
      BY <3>1
    <3>4. ASSUME NEW i \in 1..n PROVE disjoints(others[i]) \in {disjoints(layers[j]) : j \in 1..n}
      BY <3>2
    <3> DEFINE A == {disjoints(layers[i]) : i \in 1..n}
               B == {disjoints(others[i]) : i \in 1..n}
    <3>5. \A x \in A : x \in B
      BY <3>3
    <3>6. \A x \in B : x \in A
      BY <3>4
    <3> HIDE DEF A, B
    <3>7. A = B
      BY <3>5, <3>6
    <3>8. QED BY <3>7 DEF A, B
  <2>4. QED BY <2>1, <2>2, <2>3
<1>12. QED BY <1>8, <1>9, <1>10, <1>11

\* What a file adds it adds to either.
LEMMA MergesMirror ==
  ASSUME NEW m \in States, NEW o \in States, Mirrors(m, o), NEW layer, IsPack(layer.pack), ~layer.builtin
  PROVE  Mirrors(Packs!Merge(m, layer), Packs!Merge(o, layer))
<1> DEFINE n == Packs!Merge(m, layer)
           q == Packs!Merge(o, layer)
           preds == PredsOf(layer)
           aliases == AliasesOf(layer)
           comps == Elems(Packs!CompositionKeys(layer.pack))
           disjoints == Elems(Packs!DisjointKeys(layer.pack))
<1>1. /\ n.failed <=> m.failed \/ Clashes(m, layer)
      /\ ~n.failed => /\ n.preds = Packs!Over(preds, m.preds) /\ n.aliases = Packs!Over(aliases, m.aliases)
                      /\ Elems(n.comps) = Elems(m.comps) \cup comps
                      /\ Elems(n.disjoints) = Elems(m.disjoints) \cup disjoints
  BY MergeHolds DEF PredsOf, AliasesOf
<1>2. /\ q.failed <=> o.failed \/ Clashes(o, layer)
      /\ ~q.failed => /\ q.preds = Packs!Over(preds, o.preds) /\ q.aliases = Packs!Over(aliases, o.aliases)
                      /\ Elems(q.comps) = Elems(o.comps) \cup comps
                      /\ Elems(q.disjoints) = Elems(o.disjoints) \cup disjoints
  BY MergeHolds DEF PredsOf, AliasesOf
<1>3. Clashes(m, layer) <=> Clashes(o, layer)
  <2>1. Clashes(m, layer) <=> Clashes(Packs!Unmerged, layer)
    BY ClashesHold
  <2>2. Clashes(o, layer) <=> Clashes(Packs!Unmerged, layer)
    BY ClashesHold
  <2>3. QED BY <2>1, <2>2
<1> HIDE DEF n, q, preds, aliases, comps, disjoints
<1>4. n.failed <=> q.failed
  BY <1>1, <1>2, <1>3 DEF Mirrors
<1>5. SUFFICES ASSUME ~n.failed
               PROVE  /\ n.preds = q.preds
                      /\ DOMAIN n.aliases = DOMAIN q.aliases
                      /\ \A k \in DOMAIN n.aliases : NormKey[n.aliases[k].canonical] = NormKey[q.aliases[k].canonical]
                      /\ Elems(n.comps) = Elems(q.comps) /\ Elems(n.disjoints) = Elems(q.disjoints)
  BY <1>4 DEF Mirrors, n, q
<1>6. ~m.failed /\ ~q.failed
  BY <1>1, <1>4, <1>5
<1>7. /\ m.preds = o.preds /\ DOMAIN m.aliases = DOMAIN o.aliases
      /\ \A k \in DOMAIN m.aliases : NormKey[m.aliases[k].canonical] = NormKey[o.aliases[k].canonical]
      /\ Elems(m.comps) = Elems(o.comps) /\ Elems(m.disjoints) = Elems(o.disjoints)
  BY <1>6 DEF Mirrors
<1>8. n.preds = q.preds /\ Elems(n.comps) = Elems(q.comps) /\ Elems(n.disjoints) = Elems(q.disjoints)
  BY <1>1, <1>2, <1>5, <1>6, <1>7
<1>9. n.aliases = Packs!Over(aliases, m.aliases) /\ q.aliases = Packs!Over(aliases, o.aliases)
  BY <1>1, <1>2, <1>5, <1>6
<1>10. /\ DOMAIN n.aliases = DOMAIN aliases \cup DOMAIN m.aliases
       /\ DOMAIN q.aliases = DOMAIN aliases \cup DOMAIN o.aliases
       /\ \A k \in DOMAIN n.aliases : n.aliases[k] = IF k \in DOMAIN aliases THEN aliases[k] ELSE m.aliases[k]
       /\ \A k \in DOMAIN q.aliases : q.aliases[k] = IF k \in DOMAIN aliases THEN aliases[k] ELSE o.aliases[k]
  BY <1>9 DEF Packs!Over
<1>11. QED BY <1>7, <1>8, <1>10

AreKnown(names) == Packs!Range(names) \subseteq DOMAIN Registered \cup {""}
AreLayers(layers, names, extra) ==
  /\ Layered(layers) /\ Len(layers) = 1 + Len(names) + Len(extra)
  /\ layers[1] = [pack |-> Registered["general"], builtin |-> TRUE]
  /\ \A i \in 1..Len(names) : layers[1 + i] = [pack |-> Packs!PackOf(names[i]), builtin |-> TRUE]
  /\ \A i \in 1..Len(extra) : layers[1 + Len(names) + i] = [pack |-> extra[i], builtin |-> FALSE]

\* The layers of a list of names and of what a file adds.
LEMMA LayersHold ==
  ASSUME NEW names \in Seq(STRING), AreKnown(names),
         NEW A, NEW extra \in Seq(A), \A i \in 1..Len(extra) : IsPack(extra[i])
  PROVE  AreLayers(Packs!Layers(names, extra), names, extra)
<1> DEFINE a == <<[pack |-> Registered["general"], builtin |-> TRUE]>>
           b == [i \in DOMAIN names |-> [pack |-> Packs!PackOf(names[i]), builtin |-> TRUE]]
           c == [i \in DOMAIN extra |-> [pack |-> extra[i], builtin |-> FALSE]]
           S == {a[1]} \cup {b[i] : i \in DOMAIN names} \cup {c[i] : i \in DOMAIN extra}
           layers == Packs!Layers(names, extra)
<1>1. layers = a \o b \o c
  BY DEF Packs!Layers
<1>2. /\ Len(names) \in Nat /\ DOMAIN names = 1..Len(names)
      /\ Len(extra) \in Nat /\ DOMAIN extra = 1..Len(extra)
  <2> HIDE DEF a, b, c, S, layers
  <2>1. Len(names) \in Nat /\ DOMAIN names = 1..Len(names)
    OBVIOUS
  <2>2. Len(extra) \in Nat /\ DOMAIN extra = 1..Len(extra)
    OBVIOUS
  <2>3. QED BY <2>1, <2>2
<1>3. \A s \in S : IsPack(s.pack)
  <2>1. IsPack(Registered["general"]) /\ \A x \in DOMAIN Registered : IsPack(Registered[x])
    BY PacksAreRecords
  <2>2. IsPack(Packs!NoPack)
    <3>1. <<>> \in Seq(Declarations) /\ <<>> \in Seq(Spellings \X Spellings \X Spellings) /\ <<>> \in Seq(SUBSET Spellings)
          /\ DOMAIN <<>> = {}
      OBVIOUS
    <3>2. QED BY <3>1 DEF IsPack, Packs!NoPack
  <2>3. ASSUME NEW i \in DOMAIN names PROVE IsPack(Packs!PackOf(names[i]))
    <3>1. names[i] \in DOMAIN Registered \cup {""}
      BY DEF AreKnown, Packs!Range
    <3>2. QED BY <2>1, <2>2, <3>1 DEF Packs!PackOf
  <2> HIDE DEF a, b, c
  <2>4. /\ a[1].pack = Registered["general"]
        /\ \A i \in DOMAIN names : b[i].pack = Packs!PackOf(names[i])
        /\ \A i \in DOMAIN extra : c[i].pack = extra[i]
    BY DEF a, b, c
  <2>5. QED BY <1>2, <2>1, <2>3, <2>4
<1>4. a \in Seq(S) /\ Len(a) = 1 /\ b \in Seq(S) /\ Len(b) = Len(names) /\ c \in Seq(S) /\ Len(c) = Len(extra)
  <2>1. a \in Seq(S) /\ Len(a) = 1
    <3>1. a[1] \in S
      OBVIOUS
    <3> HIDE DEF S
    <3>2. QED BY <3>1
  <2>2. b \in Seq(S) /\ Len(b) = Len(names)
    <3>1. b = [i \in 1..Len(names) |-> b[i]] /\ \A i \in 1..Len(names) : b[i] \in S
      BY <1>2
    <3> HIDE DEF b, S
    <3>2. QED BY <1>2, <3>1
  <2>3. c \in Seq(S) /\ Len(c) = Len(extra)
    <3>1. c = [i \in 1..Len(extra) |-> c[i]] /\ \A i \in 1..Len(extra) : c[i] \in S
      BY <1>2
    <3> HIDE DEF c, S
    <3>2. QED BY <1>2, <3>1
  <2>4. QED BY <2>1, <2>2, <2>3
<1> HIDE DEF S, layers
<1>5. /\ a \o b \in Seq(S) /\ Len(a \o b) = 1 + Len(names)
      /\ (a \o b)[1] = a[1] /\ \A i \in 1..Len(names) : (a \o b)[1 + i] = b[i]
  <2> HIDE DEF a, b
  <2>1. /\ a \o b \in Seq(S) /\ Len(a \o b) = Len(a) + Len(b)
        /\ \A i \in 1..(Len(a) + Len(b)) : (a \o b)[i] = IF i <= Len(a) THEN a[i] ELSE b[i - Len(a)]
    <3>1. a \in Seq(S) /\ b \in Seq(S)
      BY <1>4
    <3> HIDE DEF c
    <3>2. QED BY <3>1, ConcatProperties
  <2>2. 1 \in 1..(Len(a) + Len(b)) /\ 1 <= Len(a)
    BY <1>2, <1>4
  <2>3. ASSUME NEW i \in 1..Len(names) PROVE 1 + i \in 1..(Len(a) + Len(b)) /\ ~(1 + i <= Len(a)) /\ (1 + i) - Len(a) = i
    BY <1>2, <1>4
  <2>4. QED BY <1>4, <2>1, <2>2, <2>3
<1>6. /\ layers \in Seq(S) /\ Len(layers) = 1 + Len(names) + Len(extra)
      /\ \A i \in 1..(1 + Len(names)) : layers[i] = (a \o b)[i]
      /\ \A i \in 1..Len(extra) : layers[1 + Len(names) + i] = c[i]
  <2> DEFINE d == a \o b
  <2>1. d \in Seq(S) /\ Len(d) = 1 + Len(names) /\ layers = d \o c
    BY <1>1, <1>5
  <2> HIDE DEF d, c, a, b
  <2>2. /\ d \o c \in Seq(S) /\ Len(d \o c) = Len(d) + Len(c)
        /\ \A i \in 1..(Len(d) + Len(c)) : (d \o c)[i] = IF i <= Len(d) THEN d[i] ELSE c[i - Len(d)]
    <3>1. d \in Seq(S) /\ c \in Seq(S)
      BY <1>4, <2>1
    <3>2. QED BY <3>1, ConcatProperties
  <2>3. ASSUME NEW i \in 1..(1 + Len(names)) PROVE i \in 1..(Len(d) + Len(c)) /\ i <= Len(d)
    BY <1>2, <1>4, <2>1
  <2>4. ASSUME NEW i \in 1..Len(extra)
        PROVE  /\ 1 + Len(names) + i \in 1..(Len(d) + Len(c)) /\ ~(1 + Len(names) + i <= Len(d))
               /\ (1 + Len(names) + i) - Len(d) = i
    BY <1>2, <1>4, <2>1
  <2>5. layers \in Seq(S) /\ Len(layers) = 1 + Len(names) + Len(extra)
    BY <1>4, <2>1, <2>2
  <2>6. \A i \in 1..(1 + Len(names)) : layers[i] = d[i]
    BY <2>1, <2>2, <2>3
  <2>7. \A i \in 1..Len(extra) : layers[1 + Len(names) + i] = c[i]
    BY <2>1, <2>2, <2>4
  <2>8. QED BY <2>5, <2>6, <2>7 DEF d
<1>7. Layered(layers)
  <2>1. /\ Len(layers) \in Nat /\ DOMAIN layers = 1..Len(layers) /\ \A i \in DOMAIN layers : layers[i] \in S
    BY <1>6
  <2>2. QED BY <1>3, <2>1 DEF Layered
<1>8. layers[1] = [pack |-> Registered["general"], builtin |-> TRUE]
  <2>1. 1 \in 1..(1 + Len(names))
    BY <1>2
  <2>2. QED BY <1>5, <1>6, <2>1
<1>9. \A i \in 1..Len(names) : layers[1 + i] = [pack |-> Packs!PackOf(names[i]), builtin |-> TRUE]
  <2>1. TAKE i \in 1..Len(names)
  <2>2. 1 + i \in 1..(1 + Len(names))
    BY <1>2
  <2>3. layers[1 + i] = b[i]
    BY <1>5, <1>6, <2>2
  <2>4. QED BY <1>2, <2>3
<1>10. \A i \in 1..Len(extra) : layers[1 + Len(names) + i] = [pack |-> extra[i], builtin |-> FALSE]
  BY <1>2, <1>6
<1>11. QED BY <1>6, <1>7, <1>8, <1>9, <1>10 DEF layers, AreLayers

\* The same names in another order.
Permuted(names, again) ==
  /\ Len(again) = Len(names)
  /\ \E q \in [1..Len(names) -> 1..Len(names)] :
       /\ \A i, j \in 1..Len(names) : q[i] = q[j] => i = j
       /\ \A i \in 1..Len(names) : \E j \in 1..Len(names) : q[j] = i
       /\ \A i \in 1..Len(names) : again[i] = names[q[i]]

\* Packs in another order behind the same names.
LEMMA OrdersPermute ==
  ASSUME NEW pre \in Seq(STRING), NEW packs \in Seq(STRING), NEW others \in Packs!Orders(packs)
  PROVE  /\ others \in Seq(STRING) /\ pre \o packs \in Seq(STRING) /\ pre \o others \in Seq(STRING)
         /\ Permuted(pre \o packs, pre \o others)
<1> DEFINE names == pre \o packs
           again == pre \o others
           m == Len(pre)
           n == Len(packs)
<1>1. m \in Nat /\ n \in Nat /\ DOMAIN packs = 1..n
  OBVIOUS
<1>2. PICK turn \in Packs!Bijection(1..n, 1..n) : others = [i \in 1..n |-> packs[turn[i]]]
  BY <1>1 DEF Packs!Orders
<1>3. /\ turn \in [1..n -> 1..n] /\ \A i, j \in 1..n : turn[i] = turn[j] => i = j
      /\ \A i \in 1..n : \E j \in 1..n : turn[j] = i
  BY DEF Packs!Bijection, Packs!Injection, Packs!Surjection, Packs!IsInjective
<1>4. others \in Seq(STRING) /\ Len(others) = n /\ \A i \in 1..n : others[i] = packs[turn[i]]
  <2>1. \A i \in 1..n : packs[turn[i]] \in STRING
    BY <1>1, <1>3
  <2>2. others \in [1..n -> STRING]
    BY <1>2, <2>1
  <2>3. QED BY <1>1, <1>2, <2>2
<1> HIDE DEF m, n
<1>5. /\ names \in Seq(STRING) /\ Len(names) = m + n
      /\ \A i \in 1..(m + n) : names[i] = IF i <= m THEN pre[i] ELSE packs[i - m]
  BY ConcatProperties DEF m, n
<1>6. /\ again \in Seq(STRING) /\ Len(again) = m + n
      /\ \A i \in 1..(m + n) : again[i] = IF i <= m THEN pre[i] ELSE others[i - m]
  <2>1. /\ pre \o others \in Seq(STRING) /\ Len(pre \o others) = Len(pre) + Len(others)
        /\ \A i \in 1..(Len(pre) + Len(others)) :
             (pre \o others)[i] = IF i <= Len(pre) THEN pre[i] ELSE others[i - Len(pre)]
    BY <1>4, ConcatProperties
  <2>2. QED BY <1>4, <2>1 DEF m
<1> DEFINE q == [i \in 1..(m + n) |-> IF i <= m THEN i ELSE m + turn[i - m]]
<1>7. ASSUME NEW i \in 1..(m + n), ~(i <= m)
      PROVE  i - m \in 1..n /\ turn[i - m] \in 1..n /\ m + turn[i - m] \in 1..(m + n) /\ ~(m + turn[i - m] <= m)
             /\ (m + turn[i - m]) - m = turn[i - m]
  <2>1. i - m \in 1..n
    BY <1>1, <1>7
  <2>2. turn[i - m] \in 1..n
    BY <1>3, <2>1
  <2> DEFINE t == turn[i - m]
  <2> HIDE DEF t
  <2>3. t \in 1..n => m + t \in 1..(m + n) /\ ~(m + t <= m) /\ (m + t) - m = t
    BY <1>1
  <2>4. QED BY <2>1, <2>2, <2>3 DEF t
<1>8. q \in [1..(m + n) -> 1..(m + n)]
  BY <1>7
<1>9. ASSUME NEW i \in 1..(m + n), NEW j \in 1..(m + n), q[i] = q[j] PROVE i = j
  <2>1. CASE i <= m /\ j <= m
    BY <1>9, <2>1
  <2>2. CASE i <= m /\ ~(j <= m)
    <3>1. q[i] = i /\ q[j] = m + turn[j - m] /\ ~(m + turn[j - m] <= m)
      BY <1>7, <2>2
    <3> HIDE DEF q
    <3>2. QED BY <1>9, <2>2, <3>1
  <2>3. CASE ~(i <= m) /\ j <= m
    <3>1. q[j] = j /\ q[i] = m + turn[i - m] /\ ~(m + turn[i - m] <= m)
      BY <1>7, <2>3
    <3> HIDE DEF q
    <3>2. QED BY <1>9, <2>3, <3>1
  <2>4. CASE ~(i <= m) /\ ~(j <= m)
    <3>1. q[i] = m + turn[i - m] /\ q[j] = m + turn[j - m]
      BY <2>4
    <3>2. i - m \in 1..n /\ j - m \in 1..n /\ (m + turn[i - m]) - m = turn[i - m] /\ (m + turn[j - m]) - m = turn[j - m]
      BY <1>7, <2>4
    <3> HIDE DEF q
    <3>3. turn[i - m] = turn[j - m]
      BY <1>9, <3>1, <3>2
    <3>4. i - m = j - m
      BY <1>3, <3>2, <3>3
    <3>5. QED BY <1>1, <3>4
  <2>5. QED BY <2>1, <2>2, <2>3, <2>4
<1>10. ASSUME NEW i \in 1..(m + n) PROVE \E j \in 1..(m + n) : q[j] = i
  <2>1. CASE i <= m
    BY <2>1
  <2>2. CASE ~(i <= m)
    <3>1. i - m \in 1..n
      BY <1>7, <2>2
    <3>2. PICK t \in 1..n : turn[t] = i - m
      BY <1>3, <3>1
    <3>3. m + t \in 1..(m + n) /\ ~(m + t <= m) /\ (m + t) - m = t /\ m + (i - m) = i
      BY <1>1
    <3>4. q[m + t] = i
      BY <3>2, <3>3
    <3>5. QED BY <3>3, <3>4
  <2>3. QED BY <2>1, <2>2
<1>11. ASSUME NEW i \in 1..(m + n) PROVE again[i] = names[q[i]]
  <2> HIDE DEF names, again
  <2>1. CASE i <= m
    <3>1. q[i] = i
      BY <2>1
    <3> HIDE DEF q
    <3>2. QED BY <1>5, <1>6, <2>1, <3>1
  <2>2. CASE ~(i <= m)
    <3>1. q[i] = m + turn[i - m]
      BY <2>2
    <3>2. again[i] = packs[turn[i - m]]
      BY <1>4, <1>6, <1>7, <2>2
    <3>3. names[m + turn[i - m]] = packs[turn[i - m]]
      BY <1>5, <1>7, <2>2
    <3>4. QED BY <3>1, <3>2, <3>3
  <2>3. QED BY <2>1, <2>2
<1> HIDE DEF q, names, again
<1>12. \E r \in [1..Len(names) -> 1..Len(names)] :
         /\ \A i, j \in 1..Len(names) : r[i] = r[j] => i = j
         /\ \A i \in 1..Len(names) : \E j \in 1..Len(names) : r[j] = i
         /\ \A i \in 1..Len(names) : again[i] = names[r[i]]
  <2>1. Len(names) = m + n
    BY <1>5
  <2> DEFINE K == 1..(m + n)
  <2>2. /\ q \in [K -> K] /\ \A i, j \in K : q[i] = q[j] => i = j
        /\ \A i \in K : \E j \in K : q[j] = i
        /\ \A i \in K : again[i] = names[q[i]]
    BY <1>8, <1>9, <1>10, <1>11
  <2>3. 1..Len(names) = K
    BY <2>1
  <2>4. /\ q \in [1..Len(names) -> 1..Len(names)]
        /\ \A i, j \in 1..Len(names) : q[i] = q[j] => i = j
        /\ \A i \in 1..Len(names) : \E j \in 1..Len(names) : q[j] = i
        /\ \A i \in 1..Len(names) : again[i] = names[q[i]]
    BY <2>2, <2>3
  <2> HIDE DEF K
  <2>5. QED BY <2>4
<1>13. others \in Seq(STRING) /\ names \in Seq(STRING) /\ again \in Seq(STRING) /\ Len(again) = Len(names)
  BY <1>4, <1>5, <1>6
<1>14. QED BY <1>12, <1>13 DEF names, again, Permuted

LEMMA OrdersAreKnown ==
  ASSUME NEW pre \in Seq(STRING), NEW packs \in Seq(STRING), NEW others \in Packs!Orders(packs)
  PROVE  AreKnown(pre \o packs) <=> AreKnown(pre \o others)
<1> DEFINE names == pre \o packs
           again == pre \o others
<1>1. names \in Seq(STRING) /\ again \in Seq(STRING) /\ Len(again) = Len(names) /\ Permuted(names, again)
  <2>1. names \in Seq(STRING) /\ again \in Seq(STRING) /\ Permuted(names, again)
    BY OrdersPermute
  <2> HIDE DEF names, again
  <2>2. QED BY <2>1 DEF Permuted
<1> HIDE DEF names, again
<1>2. PICK q \in [1..Len(names) -> 1..Len(names)] :
        /\ \A i \in 1..Len(names) : \E j \in 1..Len(names) : q[j] = i
        /\ \A i \in 1..Len(names) : again[i] = names[q[i]]
  BY <1>1 DEF Permuted
<1>3. DOMAIN names = 1..Len(names) /\ DOMAIN again = 1..Len(names)
  BY <1>1
<1>4. \A x \in Packs!Range(names) : x \in Packs!Range(again)
  <2>1. ASSUME NEW i \in 1..Len(names) PROVE \E j \in 1..Len(names) : again[j] = names[i]
    BY <1>2
  <2>2. QED BY <1>3, <2>1 DEF Packs!Range
<1>5. \A x \in Packs!Range(again) : x \in Packs!Range(names)
  <2>1. ASSUME NEW i \in 1..Len(names) PROVE \E j \in 1..Len(names) : names[j] = again[i]
    BY <1>2
  <2>2. QED BY <1>3, <2>1 DEF Packs!Range
<1>6. Packs!Range(names) = Packs!Range(again)
  BY <1>4, <1>5
<1>7. QED BY <1>6 DEF AreKnown, names, again

\* Packs named in any order are merged to the same.
LEMMA OrdersMirror ==
  ASSUME NEW pre \in Seq(STRING), NEW packs \in Seq(STRING), NEW others \in Packs!Orders(packs),
         AreKnown(pre \o packs),
         NEW A, NEW extra \in Seq(A), Len(extra) <= 1, \A i \in 1..Len(extra) : IsPack(extra[i])
  PROVE  Mirrors(Packs!Merged(Packs!Layers(pre \o packs, extra)), Packs!Merged(Packs!Layers(pre \o others, extra)))
<1> DEFINE names == pre \o packs
           again == pre \o others
           layers == Packs!Layers(names, extra)
           relaid == Packs!Layers(again, extra)
           n == 1 + Len(names)
<1>1. names \in Seq(STRING) /\ again \in Seq(STRING) /\ Len(again) = Len(names) /\ Permuted(names, again)
  <2>1. names \in Seq(STRING) /\ again \in Seq(STRING) /\ Permuted(names, again)
    BY OrdersPermute
  <2> HIDE DEF names, again
  <2>2. QED BY <2>1 DEF Permuted
<1>2. AreKnown(names) /\ AreKnown(again)
  BY OrdersAreKnown
<1> HIDE DEF names, again
<1>3. PICK q \in [1..Len(names) -> 1..Len(names)] :
        /\ \A i, j \in 1..Len(names) : q[i] = q[j] => i = j
        /\ \A i \in 1..Len(names) : \E j \in 1..Len(names) : q[j] = i
        /\ \A i \in 1..Len(names) : again[i] = names[q[i]]
  BY <1>1 DEF Permuted
<1>4. Len(names) \in Nat /\ Len(extra) \in Nat /\ (Len(extra) = 0 \/ Len(extra) = 1)
  <2>1. Len(names) \in Nat
    BY <1>1
  <2>2. Len(extra) \in Nat
    OBVIOUS
  <2>3. \A k \in Nat : k <= 1 => k = 0 \/ k = 1
    OBVIOUS
  <2>4. QED BY <2>1, <2>2, <2>3
<1>5. /\ Layered(layers) /\ Len(layers) = n + Len(extra)
      /\ layers[1] = [pack |-> Registered["general"], builtin |-> TRUE]
      /\ \A i \in 1..Len(names) : layers[1 + i] = [pack |-> Packs!PackOf(names[i]), builtin |-> TRUE]
      /\ \A i \in 1..Len(extra) : layers[n + i] = [pack |-> extra[i], builtin |-> FALSE]
  <2>1. AreLayers(layers, names, extra)
    BY <1>1, <1>2, LayersHold
  <2> HIDE DEF layers
  <2>2. QED BY <2>1 DEF AreLayers
<1>6. /\ Layered(relaid) /\ Len(relaid) = n + Len(extra)
      /\ relaid[1] = [pack |-> Registered["general"], builtin |-> TRUE]
      /\ \A i \in 1..Len(names) : relaid[1 + i] = [pack |-> Packs!PackOf(again[i]), builtin |-> TRUE]
      /\ \A i \in 1..Len(extra) : relaid[n + i] = [pack |-> extra[i], builtin |-> FALSE]
  <2>1. AreLayers(relaid, again, extra)
    BY <1>1, <1>2, LayersHold
  <2> HIDE DEF relaid
  <2>2. QED BY <1>1, <2>1 DEF AreLayers
<1> HIDE DEF layers, relaid
<1>7. ASSUME NEW i \in 1..n, i # 1
      PROVE  i - 1 \in 1..Len(names) /\ 1 + (i - 1) = i
  BY <1>4, <1>7
<1> DEFINE p == [i \in 1..n |-> IF i = 1 THEN 1 ELSE 1 + q[i - 1]]
<1>8. /\ 1 \in 1..n /\ p[1] = 1
      /\ \A i \in 1..Len(names) : /\ 1 + i \in 1..n /\ p[1 + i] = 1 + q[i] /\ 1 + q[i] \in 1..n /\ 1 + q[i] # 1
                                  /\ (1 + q[i]) - 1 = q[i] /\ q[i] \in 1..Len(names)
  <2>1. 1 \in 1..n /\ p[1] = 1
    BY <1>4
  <2>2. ASSUME NEW i \in 1..Len(names)
        PROVE  /\ 1 + i \in 1..n /\ p[1 + i] = 1 + q[i] /\ 1 + q[i] \in 1..n /\ 1 + q[i] # 1
               /\ (1 + q[i]) - 1 = q[i] /\ q[i] \in 1..Len(names)
    <3>1. q[i] \in 1..Len(names)
      OBVIOUS
    <3> DEFINE t == q[i]
    <3>2. t \in 1..Len(names)
      BY <3>1
    <3> HIDE DEF t
    <3>3. 1 + t \in 1..n /\ 1 + t # 1 /\ (1 + t) - 1 = t
      BY <1>4, <3>2
    <3>4. 1 + i \in 1..n /\ 1 + i # 1 /\ (1 + i) - 1 = i
      BY <1>4
    <3>5. p[1 + i] = 1 + q[i]
      BY <3>4
    <3>6. QED BY <3>2, <3>3, <3>4, <3>5 DEF t
  <2>3. QED BY <2>1, <2>2
<1>9. \A i \in 1..n : i = 1 \/ \E j \in 1..Len(names) : i = 1 + j
  BY <1>7
<1> HIDE DEF p
<1>10. p \in [1..n -> 1..n]
  <2>1. \A i \in 1..n : p[i] \in 1..n
    BY <1>8, <1>9
  <2>2. p = [i \in 1..n |-> p[i]]
    BY DEF p
  <2>3. QED BY <2>1, <2>2
<1>11. ASSUME NEW i \in 1..n, NEW j \in 1..n, p[i] = p[j] PROVE i = j
  <2>1. CASE i = 1 /\ j = 1
    BY <2>1
  <2>2. CASE i # 1 /\ j = 1
    BY <1>8, <1>9, <1>11, <2>2
  <2>3. CASE i = 1 /\ j # 1
    BY <1>8, <1>9, <1>11, <2>3
  <2>4. CASE i # 1 /\ j # 1
    <3>1. PICK x \in 1..Len(names), y \in 1..Len(names) : i = 1 + x /\ j = 1 + y
      BY <1>9, <2>4
    <3>2. q[x] = q[y]
      BY <1>8, <1>11, <3>1
    <3>3. x = y
      BY <1>3, <3>2
    <3>4. QED BY <3>1, <3>3
  <2>5. QED BY <2>1, <2>2, <2>3, <2>4
<1>12. ASSUME NEW i \in 1..n PROVE \E j \in 1..n : p[j] = i
  <2>1. CASE i = 1
    BY <1>8, <2>1
  <2>2. CASE i # 1
    <3>1. PICK x \in 1..Len(names) : i = 1 + x
      BY <1>9, <2>2
    <3>2. PICK y \in 1..Len(names) : q[y] = x
      BY <1>3
    <3>3. p[1 + y] = i /\ 1 + y \in 1..n
      BY <1>8, <3>1, <3>2
    <3>4. QED BY <3>3
  <2>3. QED BY <2>1, <2>2
<1>13. ASSUME NEW i \in 1..n PROVE relaid[i] = layers[p[i]] /\ layers[i].builtin
  <2>1. CASE i = 1
    BY <1>5, <1>6, <1>8, <2>1
  <2>2. CASE i # 1
    <3>1. PICK x \in 1..Len(names) : i = 1 + x
      BY <1>9, <2>2
    <3>2. relaid[i] = [pack |-> Packs!PackOf(again[x]), builtin |-> TRUE] /\ again[x] = names[q[x]]
      BY <1>3, <1>6, <3>1
    <3>3. p[i] = 1 + q[x] /\ q[x] \in 1..Len(names)
      BY <1>8, <3>1
    <3>4. layers[p[i]] = [pack |-> Packs!PackOf(names[q[x]]), builtin |-> TRUE]
      BY <1>5, <3>3
    <3>5. layers[i].builtin
      <4>1. layers[i] = [pack |-> Packs!PackOf(names[x]), builtin |-> TRUE]
        BY <1>5, <3>1
      <4>2. layers[i].builtin = TRUE
        BY <4>1
      <4>3. QED BY <4>2
    <3>6. QED BY <3>2, <3>4, <3>5
  <2>3. QED BY <2>1, <2>2
<1>14. PICK f : Steps(f, layers) /\ Packs!Merged(layers) = f[Len(layers)]
  BY <1>5, MergedInSteps
<1>15. PICK g : Steps(g, relaid) /\ Packs!Merged(relaid) = g[Len(relaid)]
  BY <1>6, MergedInSteps
<1>16. n \in 0..Len(layers) /\ Len(relaid) = Len(layers)
  BY <1>4, <1>5, <1>6
<1> HIDE DEF n
<1>17. Mirrors(f[n], g[n])
  <2>1. \A i \in 1..n : layers[i].builtin
    BY <1>13
  <2>2. \A i, j \in 1..n : p[i] = p[j] => i = j
    BY <1>11
  <2>3. \A i \in 1..n : \E j \in 1..n : p[j] = i
    BY <1>12
  <2>4. \A i \in 1..n : relaid[i] = layers[p[i]]
    BY <1>13
  <2>5. Layered(layers) /\ Layered(relaid)
    BY <1>5, <1>6
  <2>6. Steps(f, layers) /\ Steps(g, relaid) /\ n \in 0..Len(layers) /\ Len(relaid) = Len(layers) /\ p \in [1..n -> 1..n]
    BY <1>10, <1>14, <1>15, <1>16
  <2>7. Relaid(layers, relaid, n)
    BY <2>1, <2>2, <2>3, <2>4, <2>6 DEF Relaid
  <2>8. QED BY <2>5, <2>6, <2>7, OrderIsImmaterial
<1>18. CASE Len(extra) = 0
  <2>1. Len(layers) = n /\ Len(relaid) = n
    BY <1>4, <1>5, <1>6, <1>18 DEF n
  <2>2. QED BY <1>14, <1>15, <1>17, <2>1 DEF layers, relaid, names, again
<1>19. CASE Len(extra) = 1
  <2>1. /\ Len(layers) = n + 1 /\ Len(relaid) = n + 1 /\ n + 1 \in 1..Len(layers) /\ n + 1 \in 1..Len(relaid)
        /\ (n + 1) - 1 = n /\ n \in 0..Len(relaid) /\ 1 \in 1..Len(extra)
    BY <1>4, <1>5, <1>6, <1>19 DEF n
  <2>2. layers[n + 1] = [pack |-> extra[1], builtin |-> FALSE] /\ relaid[n + 1] = layers[n + 1]
    BY <1>5, <1>6, <2>1
  <2>3. /\ f[n + 1] = Packs!Merge(f[n], layers[n + 1]) /\ g[n + 1] = Packs!Merge(g[n], layers[n + 1])
        /\ f[n] \in States /\ g[n] \in States
    BY <1>14, <1>15, <1>16, <2>1, <2>2 DEF Steps
  <2>4. IsPack(layers[n + 1].pack) /\ ~layers[n + 1].builtin
    BY <2>1, <2>2
  <2>5. Mirrors(f[n + 1], g[n + 1])
    BY <1>17, <2>3, <2>4, MergesMirror
  <2>6. QED BY <1>14, <1>15, <2>1, <2>5 DEF layers, relaid, names, again
<1>20. QED BY <1>4, <1>18, <1>19

\* Every entry of a merge is under its own key.
Fits(m) ==
  /\ \A k \in DOMAIN m.preds : /\ m.preds[k] \in Declarations /\ NormKey[m.preds[k].canonical] = k
                               /\ \A ref \in m.preds[k].supers : NormKey[ref] # 0
  /\ \A k \in DOMAIN m.aliases : m.aliases[k] \in AliasRecords /\ NormKey[m.aliases[k].raw] = k
  /\ DOMAIN m.preds \subseteq KeyNums /\ DOMAIN m.aliases \subseteq KeyNums

LEMMA MergedFits ==
  ASSUME NEW layers, Layered(layers), NEW m \in States, Says(m, layers, Len(layers))
  PROVE  Fits(m)
<1> DEFINE n == Len(layers)
<1>1. \A i \in 1..n : IsPack(layers[i].pack)
  BY DEF Layered
<1>2. ASSUME NEW k \in DOMAIN m.preds
      PROVE  /\ m.preds[k] \in Declarations /\ NormKey[m.preds[k].canonical] = k
             /\ \A ref \in m.preds[k].supers : NormKey[ref] # 0
  <2>1. PICK i \in 1..n : k \in DOMAIN PredsOf(layers[i]) /\ m.preds[k] = PredsOf(layers[i])[k]
    BY DEF Says
  <2>2. QED BY <1>1, <2>1, TablesHold
<1>3. ASSUME NEW k \in DOMAIN m.aliases
      PROVE  m.aliases[k] \in AliasRecords /\ NormKey[m.aliases[k].raw] = k
  <2>1. PICK i \in 1..n : k \in DOMAIN AliasesOf(layers[i]) /\ m.aliases[k] = AliasesOf(layers[i])[k]
    BY DEF Says
  <2>2. PICK raw \in DOMAIN layers[i].pack.aliases :
          NormKey[raw] = k /\ m.aliases[k] = [raw |-> raw, canonical |-> layers[i].pack.aliases[raw]]
    BY <1>1, <2>1, TablesHold
  <2>3. raw \in Spellings /\ layers[i].pack.aliases[raw] \in Spellings
    BY <1>1, <2>2 DEF IsPack
  <2>4. QED BY <2>2, <2>3 DEF AliasRecords
<1>4. DOMAIN m.preds \subseteq KeyNums /\ DOMAIN m.aliases \subseteq KeyNums
  <2>1. \A V : \A t \in Tables(V) : DOMAIN t \subseteq KeyNums
    BY DEF Tables
  <2>2. m.preds \in Tables(Declarations) /\ m.aliases \in Tables(AliasRecords)
    BY DEF States
  <2>3. QED BY <2>1, <2>2
<1>5. QED BY <1>2, <1>3, <1>4 DEF Fits

LEMMA MirrorsAreValid ==
  ASSUME NEW m \in States, NEW o \in States, Mirrors(m, o), ~m.failed
  PROVE  Packs!Valid(m) <=> Packs!Valid(o)
<1>1. /\ m.preds = o.preds /\ DOMAIN m.aliases = DOMAIN o.aliases
      /\ \A k \in DOMAIN m.aliases : NormKey[m.aliases[k].canonical] = NormKey[o.aliases[k].canonical]
      /\ Elems(m.comps) = Elems(o.comps) /\ Elems(m.disjoints) = Elems(o.disjoints)
  BY DEF Mirrors
<1>2. \A key : Packs!Refers(m, key) <=> Packs!Refers(o, key)
  BY <1>1 DEF Packs!Refers
<1> DEFINE Refer(s, keys) == \A key \in keys : key = 0 \/ key \in DOMAIN s.preds
<1>3. (\A k \in DOMAIN m.aliases : NormKey[m.aliases[k].canonical] \in DOMAIN m.preds)
      <=> \A k \in DOMAIN o.aliases : NormKey[o.aliases[k].canonical] \in DOMAIN o.preds
  BY <1>1
<1>4. (\A k \in DOMAIN m.preds :
         \A ref \in {m.preds[k].inverse} \cup m.preds[k].supers : Packs!Refers(m, NormKey[ref]))
      <=> \A k \in DOMAIN o.preds :
            \A ref \in {o.preds[k].inverse} \cup o.preds[k].supers : Packs!Refers(o, NormKey[ref])
  BY <1>1, <1>2
<1>5. (\A i \in DOMAIN m.comps : \A j \in 1..3 : Packs!Refers(m, m.comps[i][j]))
      <=> \A i \in DOMAIN o.comps : \A j \in 1..3 : Packs!Refers(o, o.comps[i][j])
  <2> DEFINE good(c) == \A j \in 1..3 : Packs!Refers(m, c[j])
  <2>1. (\A i \in DOMAIN m.comps : \A j \in 1..3 : Packs!Refers(m, m.comps[i][j])) <=> \A c \in Elems(m.comps) : good(c)
    BY DEF Elems
  <2>2. (\A i \in DOMAIN o.comps : \A j \in 1..3 : Packs!Refers(o, o.comps[i][j])) <=> \A c \in Elems(o.comps) : good(c)
    BY <1>2 DEF Elems
  <2> HIDE DEF good
  <2>3. QED BY <1>1, <2>1, <2>2
<1>6. (\A i \in DOMAIN m.disjoints : \A key \in m.disjoints[i] : Packs!Refers(m, key))
      <=> \A i \in DOMAIN o.disjoints : \A key \in o.disjoints[i] : Packs!Refers(o, key)
  <2> DEFINE good(d) == \A key \in d : Packs!Refers(m, key)
  <2>1. (\A i \in DOMAIN m.disjoints : \A key \in m.disjoints[i] : Packs!Refers(m, key))
        <=> \A d \in Elems(m.disjoints) : good(d)
    BY DEF Elems
  <2>2. (\A i \in DOMAIN o.disjoints : \A key \in o.disjoints[i] : Packs!Refers(o, key))
        <=> \A d \in Elems(o.disjoints) : good(d)
    BY <1>2 DEF Elems
  <2> HIDE DEF good
  <2>3. QED BY <1>1, <2>1, <2>2
<1>7. QED BY <1>3, <1>4, <1>5, <1>6 DEF Packs!Valid

SameMeanings(list, other) ==
  /\ DOMAIN other = DOMAIN list
  /\ \A i \in DOMAIN list : [list[i] EXCEPT !.raw = ""] = [other[i] EXCEPT !.raw = ""]

\* Entries that mean the same under the same keys make tables that do.
LEMMA LastUnderMeans ==
  ASSUME NEW list, Numbered(list), NEW keys, DOMAIN keys = DOMAIN list,
         NEW other, SameMeanings(list, other)
  PROVE  Packs!Meaning(Packs!LastUnder(list, keys)) = Packs!Meaning(Packs!LastUnder(other, keys))
<1> DEFINE a == Packs!LastUnder(list, keys)
           b == Packs!LastUnder(other, keys)
           D == UNION {keys[i] : i \in DOMAIN list}
<1>1. DOMAIN a = D /\ DOMAIN b = D
  BY DEF Packs!LastUnder, SameMeanings
<1>2. ASSUME NEW k \in D PROVE [a[k] EXCEPT !.raw = ""] = [b[k] EXCEPT !.raw = ""]
  <2>1. a[k] = list[Taken(list, keys, k)] /\ Taken(list, keys, k) \in DOMAIN list
    <3>1. \A x \in DOMAIN Packs!LastUnder(list, keys) :
            /\ Taken(list, keys, x) \in DOMAIN list
            /\ Packs!LastUnder(list, keys)[x] = list[Taken(list, keys, x)]
      BY LastUnderHolds
    <3> HIDE DEF D
    <3>2. QED BY <1>1, <3>1
  <2>2. b[k] = other[Taken(list, keys, k)]
    BY DEF Packs!LastUnder, Taken, SameMeanings
  <2> HIDE DEF a, b
  <2>3. QED BY <2>1, <2>2 DEF SameMeanings
<1>3. Packs!Meaning(a) = [k \in D |-> [a[k] EXCEPT !.raw = ""]] /\ Packs!Meaning(b) = [k \in D |-> [b[k] EXCEPT !.raw = ""]]
  BY <1>1 DEF Packs!Meaning
<1> HIDE DEF a, b, D
<1>4. Packs!Meaning(a) = Packs!Meaning(b)
  BY <1>2, <1>3
<1>5. QED BY <1>4 DEF a, b

LEMMA OverMeans ==
  ASSUME NEW f, NEW g
  PROVE  Packs!Meaning(Packs!Over(f, g)) = Packs!Over(Packs!Meaning(f), Packs!Meaning(g))
<1> DEFINE h == Packs!Over(f, g)
<1>1. DOMAIN h = DOMAIN f \cup DOMAIN g /\ \A k \in DOMAIN h : h[k] = IF k \in DOMAIN f THEN f[k] ELSE g[k]
  BY DEF Packs!Over
<1>2. Packs!Meaning(h) = [k \in DOMAIN f \cup DOMAIN g |-> [h[k] EXCEPT !.raw = ""]]
  BY <1>1 DEF Packs!Meaning
<1>3. Packs!Over(Packs!Meaning(f), Packs!Meaning(g)) =
        [k \in DOMAIN f \cup DOMAIN g |-> IF k \in DOMAIN f THEN [f[k] EXCEPT !.raw = ""] ELSE [g[k] EXCEPT !.raw = ""]]
  BY DEF Packs!Over, Packs!Meaning
<1> HIDE DEF h
<1>4. \A k \in DOMAIN f \cup DOMAIN g : [h[k] EXCEPT !.raw = ""] =
        IF k \in DOMAIN f THEN [f[k] EXCEPT !.raw = ""] ELSE [g[k] EXCEPT !.raw = ""]
  BY <1>1
<1>5. Packs!Meaning(h) = Packs!Over(Packs!Meaning(f), Packs!Meaning(g))
  BY <1>2, <1>3, <1>4, Zenon
<1>6. QED BY <1>5 DEF h

\* Each alias is its predicate, under its own key.
AliasFits(m, k) ==
  LET c == NormKey[m.aliases[k].canonical]
      meta == Packs!AliasMetas(m)[k]
  IN  /\ c \in DOMAIN m.preds /\ meta \in Declarations
      /\ NormKey[meta.raw] = k /\ NormKey[meta.canonical] = c
      /\ [meta EXCEPT !.raw = ""] = [m.preds[c] EXCEPT !.raw = ""]
AliasesFit(m) ==
  /\ DOMAIN Packs!AliasMetas(m) = DOMAIN m.aliases
  /\ \A k \in DOMAIN m.aliases : AliasFits(m, k)
  /\ Numbered(m.preds) /\ Numbered(Packs!AliasMetas(m))

LEMMA AliasMetasHold ==
  ASSUME NEW m, Fits(m), Packs!Valid(m)
  PROVE  AliasesFit(m)
<1> DEFINE metas == Packs!AliasMetas(m)
<1>1. DOMAIN metas = DOMAIN m.aliases
      /\ \A k \in DOMAIN m.aliases :
           metas[k] = [m.preds[NormKey[m.aliases[k].canonical]] EXCEPT !.raw = m.aliases[k].raw]
  BY Zenon DEF Packs!AliasMetas
<1>2. ASSUME NEW k \in DOMAIN m.aliases PROVE AliasFits(m, k)
  <2> DEFINE c == NormKey[m.aliases[k].canonical]
             raw == m.aliases[k].raw
             pred == m.preds[c]
  <2>1. c \in DOMAIN m.preds
    BY Zenon DEF Packs!Valid
  <2>2. raw \in Spellings /\ NormKey[raw] = k
    <3>1. m.aliases[k] \in AliasRecords /\ NormKey[m.aliases[k].raw] = k
      BY Zenon DEF Fits
    <3>2. QED BY <3>1 DEF AliasRecords
  <2>3. pred \in Declarations /\ NormKey[pred.canonical] = c
    <3>1. \A x \in DOMAIN m.preds : m.preds[x] \in Declarations /\ NormKey[m.preds[x].canonical] = x
      BY DEF Fits
    <3> HIDE DEF c
    <3>2. QED BY <2>1, <3>1
  <2>4. metas[k] = [pred EXCEPT !.raw = raw]
    BY <1>1, Zenon
  <2> HIDE DEF metas, c, raw, pred
  <2>5. metas[k] \in Declarations /\ metas[k].raw = raw /\ metas[k].canonical = pred.canonical
    BY <2>2, <2>3, <2>4 DEF Declarations
  <2>6. [metas[k] EXCEPT !.raw = ""] = [pred EXCEPT !.raw = ""]
    BY <2>2, <2>3, <2>4, Zenon DEF Declarations
  <2>7. QED BY <2>1, <2>2, <2>3, <2>5, <2>6, Zenon DEF AliasFits, metas, c, pred
<1>3. Numbered(m.preds) /\ Numbered(metas)
  <2>1. DOMAIN m.preds \subseteq KeyNums /\ DOMAIN m.aliases \subseteq KeyNums
    BY DEF Fits
  <2>2. IsFiniteSet(DOMAIN m.preds) /\ IsFiniteSet(DOMAIN m.aliases)
    BY <2>1, KeysAreFinite, FS_Subset
  <2> HIDE DEF metas
  <2>3. QED BY <1>1, <2>1, <2>2, KeysAreFinite DEF Numbered
<1>4. QED BY <1>1, <1>2, <1>3, Zenon DEF AliasesFit

\* Merges that mirror each other have the same tables but for raw spellings.
LEMMA RegistriesAlike ==
  ASSUME NEW m \in States, NEW o \in States, Mirrors(m, o), ~m.failed, Fits(m), Fits(o),
         Packs!Valid(m), Packs!Valid(o), NEW these, NEW those
  PROVE  Packs!Alike(Packs!NewRegistry(m, these), Packs!NewRegistry(o, those))
<1> DEFINE a == Packs!AliasMetas(m)
           b == Packs!AliasMetas(o)
           rawKeys(metas) == [k \in DOMAIN metas |-> Packs!KeysOf({metas[k].raw, metas[k].canonical})]
           canonKeys(metas) == [k \in DOMAIN metas |-> {NormKey[metas[k].canonical]}]
<1>1. AliasesFit(m) /\ AliasesFit(o)
  BY AliasMetasHold
<1>2. /\ m.preds = o.preds /\ DOMAIN m.aliases = DOMAIN o.aliases
      /\ \A k \in DOMAIN m.aliases : NormKey[m.aliases[k].canonical] = NormKey[o.aliases[k].canonical]
      /\ Elems(m.comps) = Elems(o.comps) /\ Elems(m.disjoints) = Elems(o.disjoints)
  BY Zenon DEF Mirrors
<1>3. DOMAIN a = DOMAIN m.aliases /\ DOMAIN b = DOMAIN a /\ Numbered(a)
  <2>1. DOMAIN a = DOMAIN m.aliases /\ DOMAIN b = DOMAIN o.aliases /\ Numbered(a)
    BY <1>1, Zenon DEF AliasesFit
  <2>2. QED BY <1>2, <2>1, Zenon
<1>4. \A k \in DOMAIN a : /\ NormKey[a[k].raw] = NormKey[b[k].raw] /\ NormKey[a[k].canonical] = NormKey[b[k].canonical]
                          /\ [a[k] EXCEPT !.raw = ""] = [b[k] EXCEPT !.raw = ""]
  <2>1. TAKE k \in DOMAIN a
  <2>2. k \in DOMAIN m.aliases /\ k \in DOMAIN o.aliases /\ NormKey[m.aliases[k].canonical] = NormKey[o.aliases[k].canonical]
    BY <1>2, <1>3, Zenon
  <2>3. AliasFits(m, k) /\ AliasFits(o, k)
    BY <1>1, <2>2, Zenon DEF AliasesFit
  <2>4. QED BY <1>2, <2>2, <2>3, Zenon DEF AliasFits
<1> HIDE DEF a, b
<1>5. rawKeys(a) = rawKeys(b) /\ DOMAIN rawKeys(a) = DOMAIN a
  <2>1. \A x, y : Packs!KeysOf({x, y}) = {NormKey[x], NormKey[y]}
    BY DEF Packs!KeysOf
  <2>2. \A k \in DOMAIN a : Packs!KeysOf({a[k].raw, a[k].canonical}) = Packs!KeysOf({b[k].raw, b[k].canonical})
    <3>1. TAKE k \in DOMAIN a
    <3>2. /\ Packs!KeysOf({a[k].raw, a[k].canonical}) = {NormKey[a[k].raw], NormKey[a[k].canonical]}
          /\ Packs!KeysOf({b[k].raw, b[k].canonical}) = {NormKey[b[k].raw], NormKey[b[k].canonical]}
      BY <2>1, Zenon
    <3>3. QED BY <1>4, <3>2
  <2>3. QED BY <1>3, <2>2
<1>6. canonKeys(a) = canonKeys(b) /\ DOMAIN canonKeys(a) = DOMAIN a
  BY <1>3, <1>4
<1>7. SameMeanings(a, b)
  BY <1>3, <1>4 DEF SameMeanings
<1>8. Packs!Meaning(Packs!ByRaw(a)) = Packs!Meaning(Packs!ByRaw(b))
  <2>1. Packs!ByRaw(a) = Packs!LastUnder(a, rawKeys(a)) /\ Packs!ByRaw(b) = Packs!LastUnder(b, rawKeys(b))
    BY DEF Packs!ByRaw
  <2> HIDE DEF rawKeys
  <2>2. QED BY <1>3, <1>5, <1>7, <2>1, LastUnderMeans
<1>9. Packs!Meaning(Packs!ByCanon(a)) = Packs!Meaning(Packs!ByCanon(b))
  <2>1. Packs!ByCanon(a) = Packs!LastUnder(a, canonKeys(a)) /\ Packs!ByCanon(b) = Packs!LastUnder(b, canonKeys(b))
    BY DEF Packs!ByCanon
  <2> HIDE DEF canonKeys
  <2>2. QED BY <1>3, <1>6, <1>7, <2>1, LastUnderMeans
<1> DEFINE r == Packs!NewRegistry(m, these)
           s == Packs!NewRegistry(o, those)
<1>10. /\ r.byRaw = Packs!Over(Packs!ByRaw(a), Packs!ByRaw(m.preds))
       /\ r.byCanon = Packs!Over(Packs!ByCanon(a), Packs!ByCanon(m.preds))
       /\ s.byRaw = Packs!Over(Packs!ByRaw(b), Packs!ByRaw(o.preds))
       /\ s.byCanon = Packs!Over(Packs!ByCanon(b), Packs!ByCanon(o.preds))
  BY DEF Packs!NewRegistry, a, b
<1>11. r.failed = FALSE /\ s.failed = FALSE /\ r.comps = m.comps /\ s.comps = o.comps
       /\ r.disjoints = m.disjoints /\ s.disjoints = o.disjoints
  BY DEF Packs!NewRegistry
<1> HIDE DEF r, s
<1>12. Packs!Meaning(r.byRaw) = Packs!Meaning(s.byRaw) /\ Packs!Meaning(r.byCanon) = Packs!Meaning(s.byCanon)
  BY <1>2, <1>8, <1>9, <1>10, OverMeans
<1>13. Packs!Range(r.comps) = Packs!Range(s.comps) /\ Packs!Range(r.disjoints) = Packs!Range(s.disjoints)
  <2>1. \A x : Packs!Range(x) = Elems(x)
    BY DEF Packs!Range, Elems
  <2>2. QED BY <1>2, <1>11, <2>1
<1>14. Packs!Alike(r, s)
  BY <1>11, <1>12, <1>13 DEF Packs!Alike
<1>15. QED BY <1>14 DEF r, s

\* What is merged from the layers of known names fits.
MergeFits(names, extra) ==
  LET layers == Packs!Layers(names, extra)
      m == Packs!Merged(layers)
  IN  m \in States /\ (~m.failed => Says(m, layers, Len(layers)) /\ Fits(m))

LEMMA MergesFit ==
  ASSUME NEW names \in Seq(STRING), AreKnown(names),
         NEW A, NEW extra \in Seq(A), \A i \in 1..Len(extra) : IsPack(extra[i])
  PROVE  MergeFits(names, extra)
<1> DEFINE layers == Packs!Layers(names, extra)
           m == Packs!Merged(layers)
<1>1. Layered(layers)
  BY LayersHold DEF AreLayers
<1>2. \E f : Steps(f, layers) /\ m = f[Len(layers)]
  <2> HIDE DEF layers
  <2>1. QED BY <1>1, MergedInSteps
<1> HIDE DEF layers, m
<1>3. PICK f : Steps(f, layers) /\ m = f[Len(layers)]
  BY <1>2
<1>4. Len(layers) \in 0..Len(layers)
  BY <1>1 DEF Layered
<1>5. m \in States
  BY <1>3, <1>4 DEF Steps
<1>6. ASSUME ~m.failed PROVE Says(m, layers, Len(layers))
  BY <1>1, <1>3, <1>4, <1>6, MergedSays
<1>7. ASSUME ~m.failed PROVE Fits(m)
  BY <1>1, <1>5, <1>6, <1>7, MergedFits
<1>8. QED BY <1>5, <1>6, <1>7, Zenon DEF MergeFits, layers, m

\* Packs in another order build the same registry, or fail in every order.
LEMMA BuildsAlike ==
  ASSUME NEW pre \in Seq(STRING), NEW packs \in Seq(STRING), NEW others \in Packs!Orders(packs), NEW typed,
         NEW A, NEW extra \in Seq(A), Len(extra) <= 1, \A i \in 1..Len(extra) : IsPack(extra[i])
  PROVE  Packs!Alike(Packs!BuildRegistry(pre \o packs, typed, extra), Packs!BuildRegistry(pre \o others, typed, extra))
<1> DEFINE m == Packs!Merged(Packs!Layers(pre \o packs, extra))
           o == Packs!Merged(Packs!Layers(pre \o others, extra))
           r == Packs!BuildRegistry(pre \o packs, typed, extra)
           s == Packs!BuildRegistry(pre \o others, typed, extra)
<1>1. /\ r = IF Packs!TypesClash(typed) \/ ~AreKnown(pre \o packs) \/ m.failed \/ ~Packs!Valid(m) THEN [failed |-> TRUE]
             ELSE Packs!NewRegistry(m, Packs!BuildTypeRegistry(typed))
      /\ s = IF Packs!TypesClash(typed) \/ ~AreKnown(pre \o others) \/ o.failed \/ ~Packs!Valid(o) THEN [failed |-> TRUE]
             ELSE Packs!NewRegistry(o, Packs!BuildTypeRegistry(typed))
  BY Zenon DEF Packs!BuildRegistry, AreKnown
<1>2. AreKnown(pre \o packs) <=> AreKnown(pre \o others)
  BY OrdersAreKnown
<1> HIDE DEF r, s
<1>3. CASE Packs!TypesClash(typed) \/ ~AreKnown(pre \o packs)
  <2>1. r = [failed |-> TRUE] /\ s = [failed |-> TRUE]
    BY <1>1, <1>2, <1>3
  <2>2. r.failed = s.failed /\ r.failed
    BY <2>1
  <2>3. QED BY <2>2, Zenon DEF Packs!Alike, r, s
<1>4. CASE ~Packs!TypesClash(typed) /\ AreKnown(pre \o packs)
  <2>1. Mirrors(m, o)
    BY <1>4, OrdersMirror
  <2>2. MergeFits(pre \o packs, extra) /\ MergeFits(pre \o others, extra)
    BY <1>2, <1>4, OrdersPermute, MergesFit
  <2>3. m \in States /\ o \in States /\ (~m.failed => Fits(m)) /\ (~o.failed => Fits(o))
    BY <2>2 DEF MergeFits
  <2> HIDE DEF m, o
  <2>4. (m.failed \/ ~Packs!Valid(m)) <=> (o.failed \/ ~Packs!Valid(o))
    <3>1. m.failed <=> o.failed
      BY <2>1 DEF Mirrors
    <3>2. CASE m.failed
      BY <3>1, <3>2
    <3>3. CASE ~m.failed
      BY <2>1, <2>3, <3>1, <3>3, MirrorsAreValid
    <3>4. QED BY <3>2, <3>3
  <2>5. CASE m.failed \/ ~Packs!Valid(m)
    <3>1. r = [failed |-> TRUE] /\ s = [failed |-> TRUE]
      BY <1>1, <2>4, <2>5
    <3>2. r.failed = s.failed /\ r.failed
      BY <3>1
    <3>3. QED BY <3>2, Zenon DEF Packs!Alike, r, s
  <2>6. CASE ~m.failed /\ Packs!Valid(m)
    <3>1. ~o.failed /\ Packs!Valid(o)
      BY <2>4, <2>6
    <3>2. /\ r = Packs!NewRegistry(m, Packs!BuildTypeRegistry(typed))
          /\ s = Packs!NewRegistry(o, Packs!BuildTypeRegistry(typed))
      BY <1>1, <1>2, <1>4, <2>6, <3>1
    <3>3. Packs!Alike(Packs!NewRegistry(m, Packs!BuildTypeRegistry(typed)), Packs!NewRegistry(o, Packs!BuildTypeRegistry(typed)))
      BY <2>1, <2>3, <2>6, <3>1, RegistriesAlike
    <3>4. QED BY <3>2, <3>3 DEF r, s
  <2>7. QED BY <2>5, <2>6
<1>5. QED BY <1>3, <1>4

\* What a layer declares under a key is the last of its predicates with it.
LEMMA PredsHold ==
  ASSUME NEW layer, IsPack(layer.pack)
  PROVE  /\ DOMAIN PredsOf(layer) =
              {NormKey[Packs!Normalized(layer.pack)[j].canonical] : j \in DOMAIN layer.pack.predicates}
         /\ \A x \in DOMAIN PredsOf(layer) :
              /\ Packs!Max(Packs!Declaring(layer, x)) \in Packs!Declaring(layer, x)
              /\ PredsOf(layer)[x] = Packs!Normalized(layer.pack)[Packs!Max(Packs!Declaring(layer, x))]
<1> DEFINE pack == layer.pack
           declaring(x) == {j \in DOMAIN pack.predicates : NormKey[Packs!Normalized(pack)[j].canonical] = x}
<1>1. \A x : Packs!Declaring(layer, x) = declaring(x)
  BY DEF Packs!Declaring
<1>2. PredsOf(layer) = Packs!Declared(Packs!Normalized(pack)) /\ IsPack(pack)
  BY DEF PredsOf
<1> HIDE DEF pack
<1>3. LET preds == Packs!Declared(Packs!Normalized(pack)) IN
      /\ preds \in Tables(Declarations)
      /\ DOMAIN preds = {NormKey[Packs!Normalized(pack)[j].canonical] : j \in DOMAIN pack.predicates}
      /\ \A k \in DOMAIN preds :
           LET declares == {j \in DOMAIN pack.predicates : NormKey[Packs!Normalized(pack)[j].canonical] = k} IN
           /\ Packs!Max(declares) \in declares
           /\ preds[k] = Packs!Normalized(pack)[Packs!Max(declares)]
  BY <1>2, DeclaredHolds, Zenon
<1>4. /\ DOMAIN PredsOf(layer) = {NormKey[Packs!Normalized(pack)[j].canonical] : j \in DOMAIN pack.predicates}
      /\ \A x \in DOMAIN PredsOf(layer) :
           /\ Packs!Max(declaring(x)) \in declaring(x)
           /\ PredsOf(layer)[x] = Packs!Normalized(pack)[Packs!Max(declaring(x))]
  BY <1>2, <1>3, Zenon
<1> HIDE DEF declaring
<1>5. QED BY <1>1, <1>4 DEF pack

\* The predicate a merge has under a key is the last word of the layers on it.
LEMMA PredsAreLastWords ==
  ASSUME NEW layers, Layered(layers), NEW m, Says(m, layers, Len(layers)), NEW k \in DOMAIN m.preds
  PROVE  m.preds[k] = Packs!LastWord(layers, k)
<1> DEFINE S == {i \in DOMAIN layers : Packs!Declaring(layers[i], k) # {}}
<1>1. PICK i \in 1..Len(layers) :
        /\ k \in DOMAIN PredsOf(layers[i]) /\ m.preds[k] = PredsOf(layers[i])[k]
        /\ \A j \in 1..Len(layers) : k \in DOMAIN PredsOf(layers[j]) => j <= i
  BY DEF Says
<1>2. Len(layers) \in Nat /\ DOMAIN layers = 1..Len(layers) /\ \A j \in DOMAIN layers : IsPack(layers[j].pack)
  BY DEF Layered
<1>3. ASSUME NEW j \in DOMAIN layers
      PROVE  /\ k \in DOMAIN PredsOf(layers[j]) <=> Packs!Declaring(layers[j], k) # {}
             /\ k \in DOMAIN PredsOf(layers[j]) =>
                  PredsOf(layers[j])[k] = Packs!Normalized(layers[j].pack)[Packs!Max(Packs!Declaring(layers[j], k))]
  <2>1. IsPack(layers[j].pack)
    BY <1>2
  <2>2. Packs!Declaring(layers[j], k) = {n \in DOMAIN layers[j].pack.predicates :
                                          NormKey[Packs!Normalized(layers[j].pack)[n].canonical] = k}
    BY DEF Packs!Declaring
  <2>3. k \in DOMAIN PredsOf(layers[j]) <=> Packs!Declaring(layers[j], k) # {}
    <3>1. DOMAIN PredsOf(layers[j]) = {NormKey[Packs!Normalized(layers[j].pack)[n].canonical] :
                                         n \in DOMAIN layers[j].pack.predicates}
      BY <2>1, PredsHold
    <3>2. QED BY <2>2, <3>1
  <2>4. QED BY <2>1, <2>3, PredsHold
<1>4. S \in SUBSET Nat /\ IsFiniteSet(S) /\ i \in S
  <2>1. IsFiniteSet(1..Len(layers)) /\ 1..Len(layers) \in SUBSET Nat
    BY <1>2, FS_Interval
  <2>2. S \subseteq 1..Len(layers)
    BY <1>2
  <2>3. i \in S
    BY <1>1, <1>2, <1>3
  <2> HIDE DEF S
  <2>4. QED BY <2>1, <2>2, <2>3, FS_Subset
<1>5. Packs!Max(S) \in S /\ \A x \in S : x <= Packs!Max(S)
  <2> HIDE DEF S
  <2>1. QED BY <1>4, MaxIsGreatest
<1>6. Packs!Max(S) = i
  <2> DEFINE x == Packs!Max(S)
  <2>1. x \in 1..Len(layers) /\ k \in DOMAIN PredsOf(layers[x])
    BY <1>2, <1>3, <1>5
  <2>2. i <= x
    BY <1>4, <1>5
  <2> HIDE DEF x
  <2>3. x <= i
    BY <1>1, <2>1
  <2>4. QED BY <1>2, <2>1, <2>2, <2>3 DEF x
<1>7. Packs!LastWord(layers, k) = Packs!Normalized(layers[i].pack)[Packs!Max(Packs!Declaring(layers[i], k))]
  BY <1>6 DEF Packs!LastWord
<1>8. QED BY <1>1, <1>2, <1>3, <1>7

\* The registry has each predicate under its key.
CanonFits(m, table) ==
  /\ DOMAIN table = DOMAIN m.preds
  /\ \A k \in DOMAIN table : /\ table[k] \in Declarations /\ NormKey[table[k].canonical] = k
                             /\ [table[k] EXCEPT !.raw = ""] = [m.preds[k] EXCEPT !.raw = ""]

LEMMA CanonHolds ==
  ASSUME NEW m, Fits(m), Packs!Valid(m), NEW these
  PROVE  CanonFits(m, Packs!NewRegistry(m, these).byCanon)
<1> DEFINE a == Packs!AliasMetas(m)
           keys(metas) == [k \in DOMAIN metas |-> {NormKey[metas[k].canonical]}]
           upper == Packs!LastUnder(a, keys(a))
           lower == Packs!LastUnder(m.preds, keys(m.preds))
           table == Packs!NewRegistry(m, these).byCanon
<1>1. AliasesFit(m)
  BY AliasMetasHold
<1>2. table = Packs!Over(upper, lower)
  BY DEF Packs!NewRegistry, Packs!ByCanon
<1>3. /\ DOMAIN a = DOMAIN m.aliases /\ Numbered(a) /\ Numbered(m.preds)
      /\ \A k \in DOMAIN a :
           /\ NormKey[a[k].canonical] \in DOMAIN m.preds /\ a[k] \in Declarations
           /\ [a[k] EXCEPT !.raw = ""] = [m.preds[NormKey[a[k].canonical]] EXCEPT !.raw = ""]
  <2>1. /\ DOMAIN a = DOMAIN m.aliases /\ Numbered(a) /\ Numbered(m.preds)
        /\ \A k \in DOMAIN a : AliasFits(m, k)
    BY <1>1, Zenon DEF AliasesFit
  <2>2. QED BY <2>1, Zenon DEF AliasFits
<1>4. \A k \in DOMAIN m.preds : m.preds[k] \in Declarations /\ NormKey[m.preds[k].canonical] = k
  BY DEF Fits
<1> HIDE DEF a, table
<1>5. ASSUME NEW metas, Numbered(metas), NEW k \in DOMAIN Packs!LastUnder(metas, keys(metas))
      PROVE  \E i \in DOMAIN metas : NormKey[metas[i].canonical] = k /\ Packs!LastUnder(metas, keys(metas))[k] = metas[i]
  <2>1. DOMAIN keys(metas) = DOMAIN metas /\ \A i \in DOMAIN metas : keys(metas)[i] = {NormKey[metas[i].canonical]}
    OBVIOUS
  <2> HIDE DEF keys
  <2>2. /\ Taken(metas, keys(metas), k) \in DOMAIN metas /\ k \in keys(metas)[Taken(metas, keys(metas), k)]
        /\ Packs!LastUnder(metas, keys(metas))[k] = metas[Taken(metas, keys(metas), k)]
    BY <1>5, <2>1, LastUnderHolds
  <2>3. QED BY <2>1, <2>2
<1>6. DOMAIN lower = DOMAIN m.preds
  <2>1. DOMAIN lower = UNION {{NormKey[m.preds[k].canonical]} : k \in DOMAIN m.preds}
    BY DEF Packs!LastUnder
  <2> HIDE DEF lower
  <2>2. QED BY <1>4, <2>1
<1>7. \A k \in DOMAIN upper : \E i \in DOMAIN a : NormKey[a[i].canonical] = k /\ upper[k] = a[i]
  BY <1>3, <1>5, Zenon
<1>8. \A k \in DOMAIN lower : \E i \in DOMAIN m.preds : NormKey[m.preds[i].canonical] = k /\ lower[k] = m.preds[i]
  BY <1>3, <1>5, Zenon
<1>9. /\ DOMAIN table = DOMAIN upper \cup DOMAIN lower
      /\ \A k \in DOMAIN table : table[k] = IF k \in DOMAIN upper THEN upper[k] ELSE lower[k]
  BY <1>2 DEF Packs!Over
<1> HIDE DEF upper, lower, keys
<1>10. DOMAIN table = DOMAIN m.preds
  <2>1. ASSUME NEW k \in DOMAIN upper PROVE k \in DOMAIN m.preds
    <3>1. PICK i \in DOMAIN a : NormKey[a[i].canonical] = k /\ upper[k] = a[i]
      BY <1>7
    <3>2. NormKey[a[i].canonical] \in DOMAIN m.preds
      BY <1>3
    <3>3. QED BY <3>1, <3>2
  <2>2. QED BY <1>6, <1>9, <2>1
<1>11. ASSUME NEW k \in DOMAIN table
       PROVE  /\ table[k] \in Declarations /\ NormKey[table[k].canonical] = k
              /\ [table[k] EXCEPT !.raw = ""] = [m.preds[k] EXCEPT !.raw = ""]
  <2>1. CASE k \in DOMAIN upper
    <3>1. PICK i \in DOMAIN a : NormKey[a[i].canonical] = k /\ upper[k] = a[i]
      BY <1>7, <2>1
    <3>2. table[k] = a[i]
      BY <1>9, <2>1, <3>1
    <3>3. QED BY <1>3, <3>1, <3>2
  <2>2. CASE k \notin DOMAIN upper
    <3>1. PICK i \in DOMAIN m.preds : NormKey[m.preds[i].canonical] = k /\ lower[k] = m.preds[i]
      BY <1>8, <1>9, <2>2
    <3>2. table[k] = m.preds[i] /\ i = k
      BY <1>4, <1>9, <2>2, <3>1
    <3>3. QED BY <1>4, <3>2
  <2>3. QED BY <2>1, <2>2
<1>12. QED BY <1>10, <1>11, Zenon DEF CanonFits, table

\* A registry refers only to what it declares, as the last layer says it.
LEMMA LastWordsHold ==
  ASSUME NEW layers, Layered(layers), NEW m, Says(m, layers, Len(layers)), Fits(m), Packs!Valid(m), NEW these
  PROVE  Packs!DeclaresLastWords(Packs!NewRegistry(m, these), layers)
<1> DEFINE r == Packs!NewRegistry(m, these)
<1>1. CanonFits(m, r.byCanon)
  BY CanonHolds
<1> HIDE DEF r
<1>2. ASSUME NEW k \in DOMAIN r.byCanon
      PROVE  /\ Packs!Meaning(r.byCanon)[k] = [Packs!LastWord(layers, k) EXCEPT !.raw = ""]
             /\ \A ref \in r.byCanon[k].supers : NormKey[ref] \in DOMAIN r.byCanon
  <2> DEFINE x == r.byCanon[k]
             y == m.preds[k]
  <2>1. k \in DOMAIN m.preds /\ x \in Declarations /\ [x EXCEPT !.raw = ""] = [y EXCEPT !.raw = ""]
    BY <1>1 DEF CanonFits
  <2>2. y \in Declarations /\ \A ref \in y.supers : NormKey[ref] # 0
    BY <2>1 DEF Fits
  <2>3. Packs!Meaning(r.byCanon)[k] = [x EXCEPT !.raw = ""]
    BY DEF Packs!Meaning
  <2>4. y = Packs!LastWord(layers, k)
    BY <2>1, PredsAreLastWords
  <2>5. x.supers = y.supers
    <3> HIDE DEF x, y
    <3>1. [x EXCEPT !.raw = ""].supers = x.supers /\ [y EXCEPT !.raw = ""].supers = y.supers
      BY <2>1, <2>2 DEF Declarations
    <3>2. QED BY <2>1, <3>1
  <2>6. \A ref \in y.supers : Packs!Refers(m, NormKey[ref])
    BY <2>1 DEF Packs!Valid
  <2>7. DOMAIN r.byCanon = DOMAIN m.preds
    BY <1>1 DEF CanonFits
  <2> HIDE DEF y
  <2>8. \A ref \in y.supers : NormKey[ref] \in DOMAIN r.byCanon
    BY <2>2, <2>6, <2>7 DEF Packs!Refers
  <2>9. QED BY <2>1, <2>3, <2>4, <2>5, <2>8
<1>3. QED BY <1>2 DEF Packs!DeclaresLastWords, r

\* Every spelling leads to a predicate: as its name, as its raw form, or as its alias.
RawFits(m, table) ==
  /\ DOMAIN m.preds \subseteq DOMAIN table
  /\ \A k \in DOMAIN table :
       /\ NormKey[table[k].canonical] \in DOMAIN m.preds
       /\ \/ NormKey[table[k].canonical] = k
          \/ \E p \in DOMAIN m.preds : table[k] = m.preds[p] /\ NormKey[m.preds[p].raw] = k
          \/ k \in DOMAIN m.aliases /\ NormKey[table[k].canonical] = NormKey[m.aliases[k].canonical]

LEMMA RawHolds ==
  ASSUME NEW m, Fits(m), Packs!Valid(m), NEW these
  PROVE  RawFits(m, Packs!NewRegistry(m, these).byRaw)
<1> DEFINE a == Packs!AliasMetas(m)
           keys(metas) == [k \in DOMAIN metas |-> Packs!KeysOf({metas[k].raw, metas[k].canonical})]
           upper == Packs!LastUnder(a, keys(a))
           lower == Packs!LastUnder(m.preds, keys(m.preds))
           table == Packs!NewRegistry(m, these).byRaw
<1>1. AliasesFit(m)
  BY AliasMetasHold
<1>2. table = Packs!Over(upper, lower)
  BY DEF Packs!NewRegistry, Packs!ByRaw
<1>3. /\ DOMAIN a = DOMAIN m.aliases /\ Numbered(a) /\ Numbered(m.preds)
      /\ \A k \in DOMAIN a : /\ NormKey[a[k].canonical] \in DOMAIN m.preds /\ NormKey[a[k].raw] = k
                             /\ NormKey[a[k].canonical] = NormKey[m.aliases[k].canonical]
  <2>1. /\ DOMAIN a = DOMAIN m.aliases /\ Numbered(a) /\ Numbered(m.preds)
        /\ \A k \in DOMAIN a : AliasFits(m, k)
    BY <1>1, Zenon DEF AliasesFit
  <2>2. QED BY <2>1, Zenon DEF AliasFits
<1>4. \A k \in DOMAIN m.preds : NormKey[m.preds[k].canonical] = k
  BY DEF Fits
<1> HIDE DEF a, table
<1>5. \A x, y : Packs!KeysOf({x, y}) = {NormKey[x], NormKey[y]}
  BY DEF Packs!KeysOf
<1>6. ASSUME NEW metas, Numbered(metas), NEW k \in DOMAIN Packs!LastUnder(metas, keys(metas))
      PROVE  \E i \in DOMAIN metas : /\ k = NormKey[metas[i].raw] \/ k = NormKey[metas[i].canonical]
                                     /\ Packs!LastUnder(metas, keys(metas))[k] = metas[i]
  <2>1. DOMAIN keys(metas) = DOMAIN metas
        /\ \A i \in DOMAIN metas : keys(metas)[i] = Packs!KeysOf({metas[i].raw, metas[i].canonical})
    OBVIOUS
  <2> HIDE DEF keys
  <2>2. /\ Taken(metas, keys(metas), k) \in DOMAIN metas /\ k \in keys(metas)[Taken(metas, keys(metas), k)]
        /\ Packs!LastUnder(metas, keys(metas))[k] = metas[Taken(metas, keys(metas), k)]
    BY <1>6, <2>1, LastUnderHolds
  <2> DEFINE i == Taken(metas, keys(metas), k)
  <2>3. keys(metas)[i] = {NormKey[metas[i].raw], NormKey[metas[i].canonical]}
    BY <1>5, <2>1, <2>2, Zenon
  <2>4. i \in DOMAIN metas /\ k \in keys(metas)[i] /\ Packs!LastUnder(metas, keys(metas))[k] = metas[i]
    BY <2>2
  <2> HIDE DEF i
  <2>5. QED BY <2>3, <2>4
<1>7. \A k \in DOMAIN upper : \E i \in DOMAIN a : /\ k = NormKey[a[i].raw] \/ k = NormKey[a[i].canonical]
                                                  /\ upper[k] = a[i]
  <2> HIDE DEF keys
  <2>1. QED BY <1>3, <1>6
<1>8. \A k \in DOMAIN lower : \E i \in DOMAIN m.preds : /\ k = NormKey[m.preds[i].raw] \/ k = NormKey[m.preds[i].canonical]
                                                        /\ lower[k] = m.preds[i]
  <2> DEFINE preds == m.preds
  <2>1. Numbered(preds)
    BY <1>3
  <2> HIDE DEF keys, preds
  <2>2. \A k \in DOMAIN Packs!LastUnder(preds, keys(preds)) : \E i \in DOMAIN preds :
          /\ k = NormKey[preds[i].raw] \/ k = NormKey[preds[i].canonical]
          /\ Packs!LastUnder(preds, keys(preds))[k] = preds[i]
    BY <1>6, <2>1
  <2>3. QED BY <2>2 DEF preds
<1>9. DOMAIN m.preds \subseteq DOMAIN lower
  <2>1. SUFFICES ASSUME NEW k \in DOMAIN m.preds PROVE k \in DOMAIN lower
    OBVIOUS
  <2>2. DOMAIN lower = UNION {keys(m.preds)[i] : i \in DOMAIN m.preds}
    BY DEF Packs!LastUnder
  <2>3. keys(m.preds)[k] = {NormKey[m.preds[k].raw], NormKey[m.preds[k].canonical]}
    BY <1>5
  <2>4. k \in keys(m.preds)[k]
    BY <1>4, <2>3
  <2> HIDE DEF lower, keys
  <2>5. QED BY <2>2, <2>4
<1>10. /\ DOMAIN table = DOMAIN upper \cup DOMAIN lower
       /\ \A k \in DOMAIN table : table[k] = IF k \in DOMAIN upper THEN upper[k] ELSE lower[k]
  BY <1>2 DEF Packs!Over
<1> HIDE DEF upper, lower, keys
<1>11. ASSUME NEW k \in DOMAIN table
       PROVE  /\ NormKey[table[k].canonical] \in DOMAIN m.preds
              /\ \/ NormKey[table[k].canonical] = k
                 \/ \E p \in DOMAIN m.preds : table[k] = m.preds[p] /\ NormKey[m.preds[p].raw] = k
                 \/ k \in DOMAIN m.aliases /\ NormKey[table[k].canonical] = NormKey[m.aliases[k].canonical]
  <2>1. CASE k \in DOMAIN upper
    <3>1. PICK i \in DOMAIN a : (k = NormKey[a[i].raw] \/ k = NormKey[a[i].canonical]) /\ upper[k] = a[i]
      BY <1>7, <2>1
    <3>2. table[k] = a[i]
      BY <1>10, <2>1, <3>1
    <3>3. QED BY <1>3, <3>1, <3>2
  <2>2. CASE k \notin DOMAIN upper
    <3>1. PICK i \in DOMAIN m.preds : (k = NormKey[m.preds[i].raw] \/ k = NormKey[m.preds[i].canonical]) /\ lower[k] = m.preds[i]
      BY <1>8, <1>10, <2>2
    <3>2. table[k] = m.preds[i]
      BY <1>10, <2>2, <3>1
    <3>3. NormKey[m.preds[i].canonical] = i
      BY <1>4
    <3>4. QED BY <3>1, <3>2, <3>3
  <2>3. QED BY <2>1, <2>2
<1>12. DOMAIN m.preds \subseteq DOMAIN table
  BY <1>9, <1>10
<1>13. QED BY <1>11, <1>12, Zenon DEF RawFits, table

\* Where no spelling has two meanings a name leads to its own predicate.
LEMMA NamesLead ==
  ASSUME NEW layers, Layered(layers), NEW m, Says(m, layers, Len(layers)), Fits(m),
         ~Packs!Ambiguous(layers), NEW table, RawFits(m, table), NEW k \in DOMAIN m.preds
  PROVE  k \in DOMAIN table /\ NormKey[table[k].canonical] = k
<1> DEFINE canonicals == UNION {{NormKey[Packs!Normalized(layers[i].pack)[j].canonical] :
                                   j \in DOMAIN layers[i].pack.predicates} : i \in DOMAIN layers}
<1>1. Len(layers) \in Nat /\ DOMAIN layers = 1..Len(layers) /\ \A i \in DOMAIN layers : IsPack(layers[i].pack)
  BY DEF Layered
<1>2. \A i \in DOMAIN layers :
        /\ \A raw \in DOMAIN layers[i].pack.aliases :
             NormKey[raw] \in canonicals => NormKey[raw] = NormKey[layers[i].pack.aliases[raw]]
        /\ \A j \in DOMAIN layers[i].pack.predicates :
             NormKey[Packs!Normalized(layers[i].pack)[j].raw] \in canonicals =>
               NormKey[Packs!Normalized(layers[i].pack)[j].raw] = NormKey[Packs!Normalized(layers[i].pack)[j].canonical]
  BY Zenon DEF Packs!Ambiguous
<1>3. \A i \in DOMAIN layers :
        /\ DOMAIN PredsOf(layers[i]) = {NormKey[Packs!Normalized(layers[i].pack)[j].canonical] :
                                          j \in DOMAIN layers[i].pack.predicates}
        /\ \A x \in DOMAIN PredsOf(layers[i]) : \E j \in DOMAIN layers[i].pack.predicates :
             PredsOf(layers[i])[x] = Packs!Normalized(layers[i].pack)[j]
  <2>1. TAKE i \in DOMAIN layers
  <2>2. IsPack(layers[i].pack)
    BY <1>1
  <2>3. DOMAIN PredsOf(layers[i]) = {NormKey[Packs!Normalized(layers[i].pack)[j].canonical] :
                                       j \in DOMAIN layers[i].pack.predicates}
    BY <2>2, PredsHold
  <2>4. ASSUME NEW x \in DOMAIN PredsOf(layers[i])
        PROVE  \E j \in DOMAIN layers[i].pack.predicates : PredsOf(layers[i])[x] = Packs!Normalized(layers[i].pack)[j]
    <3>1. /\ Packs!Max(Packs!Declaring(layers[i], x)) \in Packs!Declaring(layers[i], x)
          /\ PredsOf(layers[i])[x] = Packs!Normalized(layers[i].pack)[Packs!Max(Packs!Declaring(layers[i], x))]
      BY <2>2, PredsHold
    <3>2. Packs!Declaring(layers[i], x) \subseteq DOMAIN layers[i].pack.predicates
      BY DEF Packs!Declaring
    <3>3. QED BY <3>1, <3>2
  <2>5. QED BY <2>3, <2>4
<1>4. DOMAIN m.preds \subseteq canonicals
  <2>1. DOMAIN m.preds = UNION {DOMAIN PredsOf(layers[i]) : i \in 1..Len(layers)}
    BY DEF Says
  <2>2. SUFFICES ASSUME NEW x \in DOMAIN m.preds PROVE x \in canonicals
    OBVIOUS
  <2>3. PICK i \in DOMAIN layers : x \in DOMAIN PredsOf(layers[i])
    BY <1>1, <2>1
  <2>4. x \in {NormKey[Packs!Normalized(layers[i].pack)[j].canonical] : j \in DOMAIN layers[i].pack.predicates}
    BY <1>3, <2>3
  <2>5. QED BY <2>4
<1> HIDE DEF canonicals
<1>5. k \in DOMAIN table /\ k \in canonicals
  BY <1>4 DEF RawFits
<1>6. CASE NormKey[table[k].canonical] = k
  BY <1>5, <1>6
<1>7. ASSUME NEW p \in DOMAIN m.preds, table[k] = m.preds[p], NormKey[m.preds[p].raw] = k
      PROVE  NormKey[table[k].canonical] = k
  <2>1. PICK i \in 1..Len(layers) : p \in DOMAIN PredsOf(layers[i]) /\ m.preds[p] = PredsOf(layers[i])[p]
    BY DEF Says
  <2>2. PICK j \in DOMAIN layers[i].pack.predicates : PredsOf(layers[i])[p] = Packs!Normalized(layers[i].pack)[j]
    BY <1>1, <1>3, <2>1
  <2> DEFINE meta == Packs!Normalized(layers[i].pack)[j]
  <2>3. meta = m.preds[p]
    BY <2>1, <2>2
  <2>4. NormKey[meta.raw] \in canonicals => NormKey[meta.raw] = NormKey[meta.canonical]
    BY <1>1, <1>2
  <2> HIDE DEF meta
  <2>5. QED BY <1>5, <1>7, <2>3, <2>4
<1>8. ASSUME k \in DOMAIN m.aliases, NormKey[table[k].canonical] = NormKey[m.aliases[k].canonical]
      PROVE  NormKey[table[k].canonical] = k
  <2>1. PICK i \in 1..Len(layers) : k \in DOMAIN AliasesOf(layers[i]) /\ m.aliases[k] = AliasesOf(layers[i])[k]
    BY <1>8 DEF Says
  <2>2. PICK raw \in DOMAIN layers[i].pack.aliases :
          NormKey[raw] = k /\ AliasesOf(layers[i])[k] = [raw |-> raw, canonical |-> layers[i].pack.aliases[raw]]
    BY <1>1, <2>1, TablesHold
  <2>3. NormKey[raw] \in canonicals => NormKey[raw] = NormKey[layers[i].pack.aliases[raw]]
    BY <1>1, <1>2
  <2>4. m.aliases[k].canonical = layers[i].pack.aliases[raw]
    BY <2>1, <2>2
  <2>5. QED BY <1>5, <1>8, <2>2, <2>3, <2>4
<1>9. \/ NormKey[table[k].canonical] = k
      \/ \E p \in DOMAIN m.preds : table[k] = m.preds[p] /\ NormKey[m.preds[p].raw] = k
      \/ k \in DOMAIN m.aliases /\ NormKey[table[k].canonical] = NormKey[m.aliases[k].canonical]
  BY <1>5 DEF RawFits
<1>10. QED BY <1>5, <1>6, <1>7, <1>8, <1>9

\* Unless a spelling has two meanings, normalizing twice changes nothing.
LEMMA OnceIsEnough ==
  ASSUME NEW layers, Layered(layers), NEW m, Says(m, layers, Len(layers)), Fits(m), Packs!Valid(m), NEW these,
         ~Packs!Ambiguous(layers)
  PROVE  Packs!NormalizesOnce(Packs!NewRegistry(m, these))
<1> DEFINE r == Packs!NewRegistry(m, these)
<1>1. CanonFits(m, r.byCanon) /\ RawFits(m, r.byRaw)
  BY CanonHolds, RawHolds
<1> HIDE DEF r
<1>2. \A k \in DOMAIN m.preds : k \in DOMAIN r.byRaw /\ NormKey[r.byRaw[k].canonical] = k
  BY <1>1, NamesLead
<1>3. Packs!Shadows(r) = {}
  BY <1>1, <1>2 DEF Packs!Shadows, CanonFits
<1>4. ASSUME NEW s \in DOMAIN NormKey
      PROVE  NormKey[Packs!Canonical(r, Packs!Canonical(r, s))] = NormKey[Packs!Canonical(r, s)]
  <2>1. CASE NormKey[s] \in DOMAIN r.byRaw
    <3> DEFINE c == r.byRaw[NormKey[s]].canonical
    <3>1. Packs!Canonical(r, s) = c
      BY <2>1 DEF Packs!Canonical
    <3>2. NormKey[c] \in DOMAIN m.preds
      BY <1>1, <2>1 DEF RawFits
    <3> HIDE DEF c
    <3>3. NormKey[c] \in DOMAIN r.byRaw /\ NormKey[r.byRaw[NormKey[c]].canonical] = NormKey[c]
      BY <1>2, <3>2
    <3>4. Packs!Canonical(r, c) = r.byRaw[NormKey[c]].canonical
      BY <3>3 DEF Packs!Canonical
    <3>5. QED BY <3>1, <3>3, <3>4
  <2>2. CASE NormKey[s] \notin DOMAIN r.byRaw
    <3>1. Packs!Canonical(r, s) = s
      BY <2>2 DEF Packs!Canonical
    <3>2. QED BY <3>1
  <2>3. QED BY <2>1, <2>2
<1>5. QED BY <1>3, <1>4 DEF Packs!NormalizesOnce, r

\* One step up from types, among the known ones; and what climbing comes to.
Climbs(typed) == [S \in SUBSET DOMAIN typed |-> (UNION {Packs!SupertypesOf(typed, k) : k \in S}) \cap DOMAIN typed]
Climbed(typed, c) ==
  /\ \A T \in SUBSET DOMAIN typed : Least(c[T], T, Climbs(typed), DOMAIN typed)
  /\ \A child, ancestor :
       Packs!IsA(typed, child, ancestor) <=>
         NormKey[child] \in DOMAIN typed /\ NormKey[ancestor] \in c[{NormKey[child]}]

LEMMA IsAClimbs ==
  ASSUME NEW typed, IsFiniteSet(DOMAIN typed)
  PROVE  \E c : Climbed(typed, c)
<1> DEFINE U == DOMAIN typed
           f == Climbs(typed)
           supers(S) == (UNION {Packs!SupertypesOf(typed, k) : k \in S}) \cap U
           Def(c) == c = [S \in SUBSET U |-> IF supers(S) \subseteq S THEN S ELSE c[S \cup supers(S)]]
           visited == CHOOSE c : Def(c)
<1>1. f \in [SUBSET U -> SUBSET U] /\ \A S \in SUBSET U : f[S] = supers(S)
  <2>1. \A S \in SUBSET U : supers(S) \in SUBSET U
    <3>1. TAKE S \in SUBSET U
    <3>2. \A x : x \in supers(S) => x \in U
      OBVIOUS
    <3> HIDE DEF supers, U
    <3>3. QED BY <3>2
  <2>2. f = [S \in SUBSET U |-> supers(S)]
    BY DEF Climbs
  <2> HIDE DEF f, supers, U
  <2>3. QED BY <2>1, <2>2
<1>2. Monotone(f, U)
  <2>1. \A S, T \in SUBSET U : S \subseteq T => supers(S) \subseteq supers(T)
    OBVIOUS
  <2> HIDE DEF supers, U, f
  <2>2. QED BY <1>1, <2>1 DEF Monotone
<1>3. \A c : Def(c) <=> Saturates(c, f, U)
  <2> HIDE DEF supers, U, f
  <2>1. QED BY <1>1 DEF Saturates
<1>4. Saturates(visited, f, U)
  <2> HIDE DEF f, U, Def
  <2>1. Def(visited)
    BY <1>1, <1>2, <1>3, SaturationExists
  <2>2. QED BY <1>3, <2>1
<1>5. \A T \in SUBSET U : Least(visited[T], T, f, U)
  <2> HIDE DEF f, visited
  <2>1. QED BY <1>1, <1>2, <1>4, SaturationIsLeast
<1>6. \A child, ancestor :
        Packs!IsA(typed, child, ancestor) <=> NormKey[child] \in U /\ NormKey[ancestor] \in visited[{NormKey[child]}]
  BY DEF Packs!IsA
<1>7. Climbed(typed, visited)
  <2> HIDE DEF visited
  <2>1. QED BY <1>5, <1>6 DEF Climbed
<1> HIDE DEF visited
<1>8. QED BY <1>7

\* The subtype of a subtype is a subtype.
LEMMA IsATransitive ==
  ASSUME NEW typed, IsFiniteSet(DOMAIN typed), NEW x, NEW y, NEW z,
         Packs!IsA(typed, x, y), Packs!IsA(typed, y, z)
  PROVE  Packs!IsA(typed, x, z)
<1>1. PICK c : Climbed(typed, c)
  BY IsAClimbs
<1> DEFINE kx == NormKey[x]
           ky == NormKey[y]
           kz == NormKey[z]
<1>2. kx \in DOMAIN typed /\ ky \in c[{kx}] /\ ky \in DOMAIN typed /\ kz \in c[{ky}]
  BY <1>1 DEF Climbed
<1>3. Packs!IsA(typed, x, z) <=> kx \in DOMAIN typed /\ kz \in c[{kx}]
  BY <1>1 DEF Climbed
<1> HIDE DEF kx, ky, kz
<1>4. Least(c[{kx}], {kx}, Climbs(typed), DOMAIN typed) /\ Least(c[{ky}], {ky}, Climbs(typed), DOMAIN typed)
  BY <1>1, <1>2 DEF Climbed
<1>5. c[{ky}] \subseteq c[{kx}]
  BY <1>2, <1>4 DEF Least
<1>6. QED BY <1>2, <1>3, <1>5

\* What passes a check passes as a subtype.
LEMMA SubtypeSatisfies ==
  ASSUME NEW typed, IsFiniteSet(DOMAIN typed), 0 \notin DOMAIN typed, NEW head, NEW sub, NEW allowed,
         Packs!IsA(typed, sub, head), Packs!TypesSatisfy(typed, {head}, allowed)
  PROVE  Packs!TypesSatisfy(typed, {sub}, allowed)
<1>1. CASE allowed = {}
  BY <1>1 DEF Packs!TypesSatisfy
<1>2. CASE allowed # {}
  <2>1. PICK want \in allowed : NormKey[want] # 0 /\ (NormKey[head] = NormKey[want] \/ Packs!IsA(typed, head, want))
    BY <1>2 DEF Packs!TypesSatisfy
  <2>2. NormKey[sub] # 0
    <3>1. PICK c : Climbed(typed, c)
      BY IsAClimbs
    <3>2. NormKey[sub] \in DOMAIN typed
      BY <3>1 DEF Climbed
    <3>3. QED BY <3>2
  <2>3. Packs!IsA(typed, sub, want)
    <3>1. CASE NormKey[head] = NormKey[want]
      BY <3>1 DEF Packs!IsA
    <3>2. CASE Packs!IsA(typed, head, want)
      BY <3>2, IsATransitive
    <3>3. QED BY <2>1, <3>1, <3>2
  <2>4. QED BY <2>1, <2>2, <2>3 DEF Packs!TypesSatisfy
<1>3. QED BY <1>1, <1>2

LEMMA SubtypesHold ==
  ASSUME NEW list \in TypeLists, ~Packs!TypesClash(list), NEW r, r.types = Packs!BuildTypeRegistry(list)
  PROVE  Packs!SubtypesPass(r)
<1> DEFINE typed == r.types
<1>1. DOMAIN typed = {NormKey[list[i].name] : i \in DOMAIN list}
  <2>1. DOMAIN typed = UNION {{NormKey[list[i].name]} : i \in DOMAIN list}
    BY DEF Packs!BuildTypeRegistry, Packs!LastUnder
  <2>2. QED BY <2>1
<1>2. \A i \in DOMAIN list : list[i].name \in Spellings
  <2> DEFINE R == [name : Spellings, supers : SUBSET Spellings]
  <2>1. \A i \in DOMAIN list : list[i] \in R
    <3>1. list \in Seq(R)
      BY DEF TypeLists
    <3> HIDE DEF R
    <3>2. QED BY <3>1
  <2>2. QED BY <2>1
<1>3. DOMAIN typed \in SUBSET KeyNums
  BY <1>1, <1>2 DEF KeyNums
<1>4. IsFiniteSet(DOMAIN typed)
  BY <1>3, KeysAreFinite, FS_Subset
<1>5. 0 \notin DOMAIN typed
  BY <1>1 DEF Packs!TypesClash
<1>6. ASSUME NEW s \in DOMAIN NormKey, NEW head \in DOMAIN NormKey, NEW sub \in DOMAIN NormKey,
             Packs!IsA(r.types, sub, head), Packs!DomainRangeCheck(r, s, {head}, DOMAIN NormKey)
      PROVE  Packs!DomainRangeCheck(r, s, {sub}, DOMAIN NormKey)
  <2>1. ASSUME NEW allowed, Packs!TypesSatisfy(typed, {head}, allowed)
        PROVE  Packs!TypesSatisfy(typed, {sub}, allowed)
    BY <1>4, <1>5, <1>6, <2>1, SubtypeSatisfies
  <2>2. CASE NormKey[s] \in DOMAIN r.byRaw
    <3>1. /\ Packs!TypesSatisfy(typed, {head}, r.byRaw[NormKey[s]].domain)
          /\ Packs!TypesSatisfy(typed, DOMAIN NormKey, r.byRaw[NormKey[s]].range)
      BY <1>6, <2>2 DEF Packs!DomainRangeCheck
    <3>2. Packs!TypesSatisfy(typed, {sub}, r.byRaw[NormKey[s]].domain)
      BY <2>1, <3>1
    <3>3. QED BY <3>1, <3>2 DEF Packs!DomainRangeCheck
  <2>3. CASE NormKey[s] \notin DOMAIN r.byRaw
    BY <2>3 DEF Packs!DomainRangeCheck
  <2>4. QED BY <2>2, <2>3
<1>7. QED BY <1>6, Zenon DEF Packs!SubtypesPass

\* What a registry is built from that is built.
LEMMA BuiltHolds ==
  ASSUME NEW names \in Seq(STRING), NEW typed,
         NEW A, NEW extra \in Seq(A), \A i \in 1..Len(extra) : IsPack(extra[i]),
         ~Packs!BuildRegistry(names, typed, extra).failed
  PROVE  /\ ~Packs!TypesClash(typed) /\ AreKnown(names)
         /\ LET layers == Packs!Layers(names, extra)
                m == Packs!Merged(layers)
            IN  /\ Layered(layers) /\ Says(m, layers, Len(layers)) /\ Fits(m) /\ Packs!Valid(m)
                /\ Packs!BuildRegistry(names, typed, extra) = Packs!NewRegistry(m, Packs!BuildTypeRegistry(typed))
<1> DEFINE layers == Packs!Layers(names, extra)
           m == Packs!Merged(layers)
           r == Packs!BuildRegistry(names, typed, extra)
<1>1. r = IF Packs!TypesClash(typed) \/ ~AreKnown(names) \/ m.failed \/ ~Packs!Valid(m) THEN [failed |-> TRUE]
          ELSE Packs!NewRegistry(m, Packs!BuildTypeRegistry(typed))
  BY Zenon DEF Packs!BuildRegistry, AreKnown
<1> HIDE DEF m
<1>2. ~(Packs!TypesClash(typed) \/ ~AreKnown(names) \/ m.failed \/ ~Packs!Valid(m))
  <2>1. SUFFICES ASSUME Packs!TypesClash(typed) \/ ~AreKnown(names) \/ m.failed \/ ~Packs!Valid(m) PROVE FALSE
    OBVIOUS
  <2>2. r = [failed |-> TRUE]
    BY <1>1, <2>1, Zenon
  <2>3. [failed |-> TRUE].failed
    OBVIOUS
  <2> HIDE DEF r
  <2>4. r.failed
    BY <2>2, <2>3, Zenon
  <2>5. QED BY <2>4, Zenon DEF r
<1>3. r = Packs!NewRegistry(m, Packs!BuildTypeRegistry(typed))
  BY <1>1, <1>2, Zenon
<1>4. AreKnown(names)
  BY <1>2
<1>5. Layered(layers)
  BY <1>4, LayersHold DEF AreLayers
<1>6. Says(m, layers, Len(layers)) /\ Fits(m)
  BY <1>2, <1>4, MergesFit, Zenon DEF MergeFits, m
<1>7. QED BY <1>2, <1>3, <1>5, <1>6, Zenon DEF m

\* A registry that is loaded coheres.
LEMMA RegistryCoheres ==
  ASSUME NEW q, q.packs \in Seq(STRING), q.types \in TypeLists,
         q.file # None => IsPack(q.file) /\ q.file.extends \in Seq(STRING) /\ q.file.types \in TypeLists
  PROVE  Packs!RegistryIsCoherent(q.file, q.packs, q.types)
<1> DEFINE file == q.file
           packs == q.packs
           pre == IF file = None THEN <<>> ELSE file.extends
           typed == IF file = None THEN q.types ELSE q.types \o file.types
           extra == IF file = None THEN <<>> ELSE <<file>>
           r == Packs!BuildRegistry(pre \o packs, typed, extra)
           layers == Packs!Layers(pre \o packs, extra)
<1>1. pre \in Seq(STRING) /\ packs \in Seq(STRING)
  <2>1. CASE file = None
    <3>1. pre = <<>>
      BY <2>1
    <3> HIDE DEF pre
    <3>2. QED BY <3>1
  <2>2. CASE file # None
    <3>1. pre = file.extends /\ file.extends \in Seq(STRING)
      BY <2>2
    <3> HIDE DEF pre
    <3>2. QED BY <3>1
  <2>3. QED BY <2>1, <2>2
<1>2. typed \in TypeLists
  <2> DEFINE R == [name : Spellings, supers : SUBSET Spellings]
  <2>1. TypeLists = Seq(R)
    BY DEF TypeLists
  <2> HIDE DEF R
  <2>2. CASE file = None
    BY <2>2
  <2>3. CASE file # None
    <3>1. q.types \in Seq(R) /\ file.types \in Seq(R)
      BY <2>1, <2>3
    <3>2. q.types \o file.types \in Seq(R)
      <4> HIDE DEF file
      <4>1. QED BY <3>1
    <3>3. QED BY <2>1, <2>3, <3>2
  <2>4. QED BY <2>2, <2>3
<1>3. extra \in Seq({file}) /\ Len(extra) <= 1 /\ \A i \in 1..Len(extra) : IsPack(extra[i])
  <2>1. CASE file = None
    <3>1. extra = <<>>
      BY <2>1
    <3> HIDE DEF extra
    <3>2. QED BY <3>1
  <2>2. CASE file # None
    <3>1. extra = <<file>> /\ IsPack(file)
      BY <2>2
    <3> HIDE DEF extra, file
    <3>2. extra \in Seq({file}) /\ Len(extra) = 1 /\ extra[1] = file
      BY <3>1
    <3>3. QED BY <3>1, <3>2
  <2>3. QED BY <2>1, <2>2
<1>4. ASSUME NEW some \in Seq(STRING)
      PROVE  Packs!Names(file, some) = pre \o some
             /\ Packs!LoadRegistry(file, some, q.types) = Packs!BuildRegistry(pre \o some, typed, extra)
  <2>1. Packs!Names(file, some) = pre \o some
    <3>1. CASE file = None
      <4>1. <<>> \o some = some
        BY ConcatEmptySeq
      <4>2. QED BY <3>1, <4>1, Zenon DEF Packs!Names
    <3>2. CASE file # None
      BY <3>2, Zenon DEF Packs!Names
    <3>3. QED BY <3>1, <3>2
  <2>2. Packs!Extra(file) = extra
    BY Zenon DEF Packs!Extra
  <2>3. QED BY <2>1, <2>2, Zenon DEF Packs!LoadRegistry
<1>5. pre \o packs \in Seq(STRING)
  BY <1>1
<1> HIDE DEF file, packs, pre, typed, extra
<1>6. Packs!LoadRegistry(file, packs, q.types) = r /\ Packs!Layers(Packs!Names(file, packs), Packs!Extra(file)) = layers
  <2>1. Packs!Extra(file) = extra
    BY Zenon DEF Packs!Extra, extra
  <2>2. QED BY <1>1, <1>4, <2>1, Zenon
<1>7. ASSUME NEW others \in Packs!Orders(packs)
      PROVE  Packs!Alike(r, Packs!LoadRegistry(file, others, q.types))
  <2>1. others \in Seq(STRING)
    BY <1>1, OrdersPermute
  <2>2. Packs!LoadRegistry(file, others, q.types) = Packs!BuildRegistry(pre \o others, typed, extra)
    BY <1>4, <2>1
  <2>3. Packs!Alike(r, Packs!BuildRegistry(pre \o others, typed, extra))
    BY <1>1, <1>3, BuildsAlike
  <2>4. QED BY <2>2, <2>3, Zenon
<1>8. ASSUME ~r.failed
      PROVE  /\ Packs!DeclaresLastWords(r, layers) /\ Packs!SubtypesPass(r)
             /\ ~Packs!Ambiguous(layers) => Packs!NormalizesOnce(r)
  <2> DEFINE m == Packs!Merged(layers)
             these == Packs!BuildTypeRegistry(typed)
  <2>1. /\ ~Packs!TypesClash(typed) /\ Layered(layers) /\ Says(m, layers, Len(layers)) /\ Fits(m) /\ Packs!Valid(m)
        /\ r = Packs!NewRegistry(m, these)
    BY <1>3, <1>5, <1>8, BuiltHolds
  <2> HIDE DEF r, layers, m, these
  <2>2. Packs!DeclaresLastWords(r, layers)
    BY <2>1, LastWordsHold
  <2>3. r.types = Packs!BuildTypeRegistry(typed)
    BY <2>1 DEF Packs!NewRegistry, these
  <2>4. Packs!SubtypesPass(r)
    BY <1>2, <2>1, <2>3, SubtypesHold
  <2>5. ASSUME ~Packs!Ambiguous(layers) PROVE Packs!NormalizesOnce(r)
    BY <2>1, <2>5, OnceIsEnough
  <2>6. QED BY <2>2, <2>4, <2>5
<1> HIDE DEF r, layers
<1>9. Packs!RegistryIsCoherent(file, packs, q.types)
  BY <1>6, <1>7, <1>8, Zenon DEF Packs!RegistryIsCoherent
<1>10. QED BY <1>9 DEF file, packs

-----------------------------------------------------------------------------

\* A registry that is built from packs refers only to what it declares, as the
\* last layer says it, whatever the order in which packs are named; a subtype
\* passes where its supertype does; and unless a spelling has two meanings every
\* name normalizes to itself and normalizing twice changes nothing
\* (predicate_packs.go:82-370, predicates.go:63-102, type_packs.go:155-197,
\* domain_range.go:11-55).
THEOREM RegistriesAreCoherent == SeqSpec => []RegistryIsCoherent
<1> DEFINE Inv == kind = "packs" => IF "packs" \in DOMAIN Questions THEN job \in Questions["packs"]
                                    ELSE phase = "asked"
<1>1. SeqInit => Inv
  BY DEF SeqInit
<1>2. ASSUME Inv, [SeqNext]_allVars PROVE Inv'
  <2>1. ASSUME kind' = "packs"
        PROVE  kind = "packs" /\ job' = job /\ (phase' = phase \/ "packs" \in DOMAIN Questions)
    BY <1>2, <2>1 DEF SeqNext, Store, Select, Think, Reason, BuildGraph, Answer, allVars, buildVars
  <2>2. QED BY <1>2, <2>1
<1>3. Inv => RegistryIsCoherent
  <2>1. SUFFICES ASSUME Inv, kind = "packs", phase = "answered"
                 PROVE  Packs!RegistryIsCoherent(job.file, job.packs, job.types)
    BY DEF RegistryIsCoherent
  <2>2. "packs" \in DOMAIN Questions /\ job \in Questions["packs"]
    BY <2>1
  <2>3. /\ job.packs \in Seq(STRING) /\ job.types \in TypeLists
        /\ job.file # None => IsPack(job.file) /\ job.file.extends \in Seq(STRING) /\ job.file.types \in TypeLists
    BY <2>2, PacksAreRecords
  <2>4. QED BY <2>3, RegistryCoheres
<1>4. QED BY <1>1, <1>2, <1>3, PTL DEF SeqSpec
================================================================================
