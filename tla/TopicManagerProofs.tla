-------------------------- MODULE TopicManagerProofs --------------------------
(***************************************************************************)
(* Proofs about TopicManager, for any number of topics, any limit, any     *)
(* requests and any number of entries.                                     *)
(***************************************************************************)
EXTENDS TopicManager, FiniteSetTheorems, TLAPS
LOCAL INSTANCE SequencesExt

(***************************************************************************)
(* The LRU list.                                                           *)
(***************************************************************************)

\* A list of topics without repetition.
IsOrder(order) ==
  /\ order \in Seq(Topics)
  /\ \A i, j \in 1..Len(order) : order[i] = order[j] => i = j

Members(order) == {order[i] : i \in 1..Len(order)}

\* Moving a topic to the front permutes the list.
LEMMA MoveToFrontPermutes ==
  ASSUME NEW order, IsOrder(order), NEW t \in Members(order)
  PROVE  /\ IsOrder(MoveToFront(order, t))
         /\ Len(MoveToFront(order, t)) = Len(order)
         /\ Members(MoveToFront(order, t)) = Members(order)
<1> DEFINE at == CHOOSE i \in 1..Len(order) : order[i] = t
           moved == MoveToFront(order, t)
<1>1. at \in 1..Len(order) /\ order[at] = t
  BY DEF Members
<1>2. moved = [i \in 1..Len(order) |-> IF i = 1 THEN t ELSE IF i <= at THEN order[i - 1] ELSE order[i]]
  BY DEF MoveToFront
<1> HIDE DEF at, moved
<1>3. Len(order) \in Nat /\ \A i \in 1..Len(order) : order[i] \in Topics
  BY DEF IsOrder
<1>4. \A i \in 1..Len(order) : moved[i] \in Topics
  BY <1>1, <1>2, <1>3
<1>5. moved \in Seq(Topics) /\ Len(moved) = Len(order)
  BY <1>2, <1>3, <1>4
<1>6. \A i, j \in 1..Len(order) : moved[i] = moved[j] => i = j
  BY <1>1, <1>2, <1>3 DEF IsOrder
<1>7. Members(moved) = Members(order)
  <2>1. ASSUME NEW i \in 1..Len(order) PROVE moved[i] \in Members(order)
    <3>1. \E j \in 1..Len(order) : moved[i] = order[j]
      BY <1>1, <1>2, <1>3
    <3>2. QED BY <3>1 DEF Members
  <2>2. ASSUME NEW j \in 1..Len(order) PROVE \E i \in 1..Len(order) : moved[i] = order[j]
    <3>1. CASE j = at
      BY <1>1, <1>2, <1>3, <3>1
    <3>2. CASE j < at
      <4>1. j + 1 \in 1..Len(order) /\ moved[j + 1] = order[j]
        BY <1>1, <1>2, <1>3, <3>2
      <4>2. QED BY <4>1
    <3>3. CASE j > at
      BY <1>1, <1>2, <1>3, <3>3
    <3>4. QED BY <1>1, <1>3, <3>1, <3>2, <3>3
  <2>3. QED BY <1>5, <2>1, <2>2 DEF Members
<1>8. QED BY <1>5, <1>6, <1>7 DEF IsOrder, moved

\* Opening a topic puts it in front of what is left of the list, which stays
\* within the limit.
LEMMA OpenedFirstKeeps ==
  ASSUME NEW order, IsOrder(order), NEW t \in Topics, t \notin Members(order)
  PROVE  /\ IsOrder(OpenedFirst(order, t))
         /\ Len(OpenedFirst(order, t)) <= MaxOpen
         /\ t \in Members(OpenedFirst(order, t))
         /\ Members(OpenedFirst(order, t)) \subseteq Members(order) \cup {t}
<1> USE MaxOpenPositive
<1> DEFINE kept == OpenedFirst(order, t)
           n == Room(Len(order) + 1)
<1>1. Len(order) \in Nat /\ \A i \in 1..Len(order) : order[i] \in Topics
  BY DEF IsOrder
<1>2. n \in 1..(Len(order) + 1) /\ n <= MaxOpen
  BY <1>1 DEF Room
<1>3. kept = [i \in 1..n |-> IF i = 1 THEN t ELSE order[i - 1]]
  BY DEF OpenedFirst
<1> HIDE DEF kept, n
<1>4. \A i \in 1..n : kept[i] \in Topics
  BY <1>1, <1>2, <1>3
<1>5. kept \in Seq(Topics) /\ Len(kept) = n
  BY <1>1, <1>2, <1>3, <1>4
<1>6. \A i \in 1..n : i # 1 => kept[i] # t /\ kept[i] \in Members(order)
  BY <1>1, <1>2, <1>3 DEF Members
<1>7. ASSUME NEW i \in 1..n, NEW j \in 1..n, kept[i] = kept[j] PROVE i = j
  <2>1. CASE i = 1 \/ j = 1
    <3>1. kept[1] = t
      BY <1>2, <1>3
    <3>2. QED BY <1>6, <1>7, <2>1, <3>1
  <2>2. CASE i # 1 /\ j # 1
    <3>1. i - 1 \in 1..Len(order) /\ j - 1 \in 1..Len(order)
      BY <1>1, <1>2, <2>2
    <3>2. order[i - 1] = order[j - 1]
      BY <1>3, <1>7, <2>2
    <3>3. i - 1 = j - 1
      BY <3>1, <3>2 DEF IsOrder
    <3>4. QED BY <1>2, <3>3
  <2>3. QED BY <2>1, <2>2
<1>8. kept[1] = t /\ 1 \in 1..n
  BY <1>1, <1>2, <1>3
<1>9. QED BY <1>2, <1>5, <1>6, <1>7, <1>8 DEF IsOrder, Members, kept

(***************************************************************************)
(* The closers.                                                            *)
(***************************************************************************)

LEMMA BackgroundFinite == IsFiniteSet(InBackground) /\ Cardinality(InBackground) \in Nat
  BY EntriesFinite, FS_Subset, FS_CardinalityType DEF InBackground

LEMMA DisjointUnion ==
  ASSUME NEW S, NEW T, IsFiniteSet(S), IsFiniteSet(T), S \cap T = {}
  PROVE  Cardinality(S \cup T) = Cardinality(S) + Cardinality(T)
<1>1. Cardinality(S \cap T) = 0 /\ Cardinality(S) \in Nat /\ Cardinality(T) \in Nat
  BY FS_EmptySet, FS_CardinalityType
<1>2. Cardinality(S \cup T) = Cardinality(S) + Cardinality(T) - Cardinality(S \cap T)
  BY FS_Union
<1>3. QED BY <1>1, <1>2

(***************************************************************************)
(* The table is a function of its list: what the list holds is open.       *)
(***************************************************************************)
LEMMA ListIsTable ==
  ASSUME TypeOK, TableConsistent
  PROVE  IsOrder(lru) /\ Members(lru) = OpenTopics
  BY DEF TypeOK, TableConsistent, IsOrder, Members, OpenTopics

LEMMA ManagerInit == ASSUME Init PROVE ManagerInvariant
<1> USE TopicsExist, MaxOpenPositive, EntriesFinite
<1>1. OpenTopics = {} /\ InBackground = {}
  BY DEF Init, OpenTopics, InBackground
<1>2. lru \in Seq(Topics) /\ Len(lru) = 0
  BY DEF Init
<1>3. TypeOK
  BY <1>2 DEF Init, TypeOK, Topics
<1>4. TableConsistent
  BY <1>1, <1>2 DEF Init, TableConsistent
<1>5. Cardinality(InBackground) = 0
  BY <1>1, FS_EmptySet
<1>6. QED BY <1>1, <1>3, <1>4, <1>5 DEF Init, ManagerInvariant, ClosersCounted, BorrowersSafe, closed

(***************************************************************************)
(* The invariant has a part that only the rotation's own steps touch.      *)
(***************************************************************************)
Managed ==
  /\ open \in [Topics -> Entries \cup {NoEntry}]
  /\ lru \in Seq(Topics)
  /\ state \in [Entries -> {"free", "open", "evicted", "taken", "draining"}]
  /\ closePc \in {"idle", "closing", "waiting", "closed"}
  /\ closing \in Entries \cup {NoEntry}
  /\ held \in [Actors -> Entries \cup {NoEntry}]
  /\ TableConsistent
  /\ ClosersCounted
  /\ BorrowersSafe
  /\ closing # NoEntry => closePc = "closing" /\ state[closing] = "draining"
  /\ closed => OpenTopics = {}
  /\ closePc \in {"waiting", "closed"} => \A e \in Entries : state[e] # "taken"
  /\ closePc = "closed" => closeWG = 0

Rotating ==
  /\ wpc \in {"idle", "scan", "scanSlot", "acquire", "fallback"}
  /\ idx \in 0..NTopics - 1
  /\ offset \in 0..NTopics
  /\ chosen \in Topics
  /\ wpc \in {"scan", "scanSlot"} => offset < NTopics

LEMMA TwoParts == ManagerInvariant <=> Managed /\ Rotating
<1>1. Managed => closeWG \in Nat
  BY BackgroundFinite DEF Managed, ClosersCounted
<1>2. QED BY <1>1 DEF ManagerInvariant, Managed, Rotating, TypeOK

LEMMA ManagedUnchanged ==
  ASSUME Managed, UNCHANGED <<tableVars, state, closeWG, closeVars, held>>
  PROVE  Managed'
  BY DEF Managed, tableVars, closeVars, TableConsistent, ClosersCounted, InBackground, BorrowersSafe,
         OpenTopics, closed

\* Finding a topic open reorders the list and borrows an open entry.
LEMMA AcquireOpenManages ==
  ASSUME Managed, NEW a \in Actors, NEW t \in Topics, AcquireOpen(a, t)
  PROVE  Managed'
<1>1. IsOrder(lru) /\ Members(lru) = OpenTopics
  BY DEF Managed, TableConsistent, IsOrder, Members, OpenTopics
<1>2. t \in Members(lru)
  BY <1>1 DEF AcquireOpen, OpenTopics
<1>3. IsOrder(lru') /\ Len(lru') = Len(lru) /\ Members(lru') = OpenTopics
  BY <1>1, <1>2, MoveToFrontPermutes DEF AcquireOpen
<1>4. UNCHANGED <<open, state, closeWG, closePc, closing>> /\ OpenTopics' = OpenTopics
  BY DEF AcquireOpen, closeVars, OpenTopics
<1>5. TableConsistent'
  <2>1. /\ \A i \in 1..Len(lru') : lru'[i] \in OpenTopics'
        /\ \A x \in OpenTopics' : \E i \in 1..Len(lru') : lru'[i] = x
    BY <1>3, <1>4 DEF Members
  <2>2. Len(lru') <= MaxOpen /\ \A i, j \in 1..Len(lru') : lru'[i] = lru'[j] => i = j
    BY <1>3 DEF Managed, TableConsistent, IsOrder
  <2>3. QED BY <1>4, <2>1, <2>2 DEF Managed, TableConsistent
<1>6. held' \in [Actors -> Entries \cup {NoEntry}] /\ BorrowersSafe'
  BY <1>2, <1>1, <1>4 DEF AcquireOpen, Managed, BorrowersSafe, TableConsistent, OpenTopics
<1>7. QED
  BY <1>3, <1>4, <1>5, <1>6 DEF Managed, IsOrder, ClosersCounted, InBackground, closed

\* Reusing the warm topic borrows the entry at the head of the list.
LEMMA AcquireWarmManages ==
  ASSUME Managed, NEW a \in Actors, AcquireWarm(a)
  PROVE  Managed'
<1>1. lru[1] \in OpenTopics /\ Head(lru) = lru[1]
  BY DEF Managed, TableConsistent, AcquireWarm
<1>2. state[open[Head(lru)]] = "open" /\ open[Head(lru)] \in Entries
  BY <1>1 DEF Managed, TableConsistent, OpenTopics
<1>3. UNCHANGED <<open, lru, state, closeWG, closePc, closing>> /\ OpenTopics' = OpenTopics
  BY DEF AcquireWarm, tableVars, closeVars, OpenTopics
<1>4. held' \in [Actors -> Entries \cup {NoEntry}] /\ BorrowersSafe'
  BY <1>2, <1>3 DEF AcquireWarm, Managed, BorrowersSafe
<1>5. QED
  BY <1>3, <1>4 DEF Managed, TableConsistent, ClosersCounted, InBackground, closed

\* Opening a topic takes a free entry; what no longer fits the list moves to
\* the background closers, who are counted in the same step.
LEMMA AcquireNewManages ==
  ASSUME Managed, NEW a \in Actors, NEW t \in Topics, AcquireNew(a, t)
  PROVE  Managed'
<1> DEFINE kept == OpenedFirst(lru, t)
           evicted == {open[x] : x \in OpenTopics \ ToSet(kept)}
<1>1. PICK e \in Entries :
        /\ state[e] = "free"
        /\ lru' = kept
        /\ open' = [x \in Topics |-> IF x \notin ToSet(kept) THEN NoEntry
                                     ELSE IF x = t THEN e ELSE open[x]]
        /\ state' = [x \in Entries |-> IF x = e THEN "open"
                                       ELSE IF x \in evicted THEN "evicted" ELSE state[x]]
        /\ closeWG' = closeWG + Cardinality(evicted)
        /\ held' = [held EXCEPT ![a] = e]
  BY DEF AcquireNew, CountEvicted
<1>2. /\ closePc = "idle" /\ open[t] = NoEntry
      /\ closePc' = closePc /\ closing' = closing /\ closing = NoEntry
  BY DEF AcquireNew, closed, closeVars, Managed
<1>3. IsOrder(lru) /\ Members(lru) = OpenTopics /\ t \notin Members(lru)
  BY <1>2 DEF Managed, TableConsistent, IsOrder, Members, OpenTopics
<1>4. /\ IsOrder(kept) /\ Len(kept) <= MaxOpen
      /\ t \in Members(kept) /\ Members(kept) \subseteq OpenTopics \cup {t}
  BY <1>3, OpenedFirstKeeps
<1>5. ToSet(kept) = Members(kept)
  BY <1>4 DEF ToSet, Members, IsOrder
<1> HIDE DEF kept
<1>6. evicted \subseteq Entries /\ \A x \in evicted : state[x] = "open"
  BY DEF Managed, TableConsistent, OpenTopics
<1>7. e \notin evicted /\ e # NoEntry
  BY <1>1, <1>6, EntriesFinite
<1>8. \A x \in OpenTopics : open[x] \in Entries /\ open[x] # e /\ state[open[x]] = "open"
  BY <1>1 DEF Managed, TableConsistent, OpenTopics
<1>9. \A x \in OpenTopics : x \in Members(kept) => open[x] \notin evicted
  BY <1>5, <1>8 DEF Managed, TableConsistent
<1>10. OpenTopics' = Members(kept)
  <2>1. \A x \in Topics : open'[x] # NoEntry <=> x \in Members(kept)
    BY <1>1, <1>4, <1>5, <1>7 DEF OpenTopics
  <2>2. Members(kept) \subseteq Topics
    BY <1>4 DEF OpenTopics
  <2>3. QED BY <2>1, <2>2 DEF OpenTopics
<1>11. \A x \in OpenTopics' : open'[x] = (IF x = t THEN e ELSE open[x]) /\ state'[open'[x]] = "open"
  <2> SUFFICES ASSUME NEW x \in Members(kept)
               PROVE  open'[x] = (IF x = t THEN e ELSE open[x]) /\ state'[open'[x]] = "open"
    BY <1>10
  <2>1. CASE x = t
    BY <1>1, <1>5, <2>1 DEF Managed
  <2>2. CASE x # t
    <3>1. x \in OpenTopics /\ open'[x] = open[x]
      BY <1>1, <1>4, <1>5, <2>2 DEF OpenTopics
    <3>2. QED BY <1>1, <1>8, <1>9, <2>2, <3>1 DEF Managed
  <2>3. QED BY <2>1, <2>2
<1>12. /\ \A x, y \in OpenTopics' : open'[x] = open'[y] => x = y
       /\ \A x \in Entries : state'[x] = "open" => \E y \in OpenTopics' : open'[y] = x
  <2>1. \A x \in OpenTopics' : x # t => x \in OpenTopics
    BY <1>4, <1>10
  <2>2. \A x, y \in OpenTopics' : open'[x] = open'[y] => x = y
    BY <1>8, <1>11, <2>1 DEF Managed, TableConsistent
  <2>3. ASSUME NEW x \in Entries, state'[x] = "open" PROVE \E y \in OpenTopics' : open'[y] = x
    <3>1. CASE x = e
      BY <1>4, <1>10, <1>11, <3>1
    <3>2. CASE x # e
      <4>1. x \notin evicted /\ state[x] = "open"
        BY <1>1, <2>3, <3>2
      <4>2. PICK y \in OpenTopics : open[y] = x
        BY <4>1 DEF Managed, TableConsistent
      <4>3. y \in Members(kept) /\ y # t
        BY <1>2, <1>5, <4>1, <4>2 DEF OpenTopics
      <4>4. QED BY <1>10, <1>11, <4>2, <4>3
    <3>3. QED BY <3>1, <3>2
  <2>4. QED BY <2>2, <2>3
<1>13. TableConsistent'
  <2>1. IsOrder(lru') /\ Len(lru') <= MaxOpen /\ Members(lru') = OpenTopics'
    BY <1>1, <1>4, <1>10
  <2>2. /\ \A i \in 1..Len(lru') : lru'[i] \in OpenTopics'
        /\ \A x \in OpenTopics' : \E i \in 1..Len(lru') : lru'[i] = x
    BY <2>1 DEF Members
  <2>3. QED BY <2>1, <2>2, <1>11, <1>12 DEF TableConsistent, IsOrder
<1>14. InBackground' = InBackground \cup evicted /\ InBackground \cap evicted = {}
  <2>1. \A x \in Entries : state'[x] = IF x = e THEN "open" ELSE IF x \in evicted THEN "evicted" ELSE state[x]
    BY <1>1
  <2>2. QED BY <1>1, <1>2, <1>6, <1>7, <2>1 DEF InBackground
<1>15. ClosersCounted'
  <2>1. IsFiniteSet(evicted)
    BY <1>6, EntriesFinite, FS_Subset
  <2>2. Cardinality(InBackground') = Cardinality(InBackground) + Cardinality(evicted)
    BY <1>14, <2>1, BackgroundFinite, DisjointUnion
  <2>3. QED BY <1>1, <2>2 DEF Managed, ClosersCounted
<1>16. BorrowersSafe'
  BY <1>1, <1>6, <1>7 DEF Managed, BorrowersSafe
<1>17. /\ open' \in [Topics -> Entries \cup {NoEntry}]
       /\ state' \in [Entries -> {"free", "open", "evicted", "taken", "draining"}]
       /\ held' \in [Actors -> Entries \cup {NoEntry}]
       /\ lru' \in Seq(Topics)
  BY <1>1, <1>4 DEF Managed, IsOrder
<1>18. QED
  BY <1>2, <1>13, <1>15, <1>16, <1>17 DEF Managed, closed

\* Closing moves an entry from its stage to the next; closeWG follows the
\* entries in the background, and Close leaves nothing it took over behind.
LEMMA CloseStepManages == ASSUME Managed, CloseStep PROVE Managed'
<1> USE EntriesFinite DEF tableVars, closeVars
<1>1. ASSUME NEW e \in Entries, EvictedCloses(e) PROVE Managed'
  <2>1. InBackground' = InBackground
    BY <1>1 DEF EvictedCloses, InBackground, Managed
  <2>2. ClosersCounted'
    BY <1>1, <2>1 DEF EvictedCloses, Managed, ClosersCounted
  <2>3. TableConsistent' /\ BorrowersSafe' /\ OpenTopics' = OpenTopics
    BY <1>1 DEF EvictedCloses, Managed, TableConsistent, BorrowersSafe, OpenTopics
  <2>4. QED BY <1>1, <2>2, <2>3 DEF EvictedCloses, Managed, closed
<1>2. ASSUME NEW e \in Entries, Drained(e) PROVE Managed'
  <2>1. /\ state[e] = "draining" /\ state' = [state EXCEPT ![e] = "free"]
        /\ UNCHANGED <<open, lru, closePc, held>>
    BY <1>2 DEF Drained
  <2>2. OpenTopics' = OpenTopics /\ TableConsistent'
    BY <2>1 DEF Managed, TableConsistent, OpenTopics
  <2>3. BorrowersSafe'
    BY <1>2, <2>1 DEF Drained, Managed, BorrowersSafe
  <2>4. CASE closing = e
    <3>1. closing' = NoEntry /\ closeWG' = closeWG
      BY <1>2, <2>4 DEF Drained
    <3>2. InBackground' = InBackground
      BY <2>1, <2>4, <3>1 DEF InBackground, Managed
    <3>3. ClosersCounted'
      BY <3>1, <3>2 DEF Managed, ClosersCounted
    <3>4. QED BY <2>1, <2>2, <2>3, <3>1, <3>3 DEF Managed, closed
  <2>5. CASE closing # e
    <3>1. closing' = closing /\ closeWG' = closeWG - 1
      BY <1>2, <2>5 DEF Drained
    <3>2. InBackground' = InBackground \ {e} /\ e \in InBackground
      BY <2>1, <2>5, <3>1 DEF InBackground, Managed
    <3>3. Cardinality(InBackground') = Cardinality(InBackground) - 1
      BY <3>2, BackgroundFinite, FS_RemoveElement
    <3>4. ClosersCounted'
      BY <3>1, <3>3 DEF Managed, ClosersCounted
    <3>5. closePc = "closed" => FALSE
      <4>1. Cardinality(InBackground) # 0
        BY <3>2, BackgroundFinite, FS_EmptySet
      <4>2. QED BY <4>1 DEF Managed, ClosersCounted
    <3>6. /\ state' \in [Entries -> {"free", "open", "evicted", "taken", "draining"}]
          /\ closing' # NoEntry => closePc' = "closing" /\ state'[closing'] = "draining"
          /\ closePc' \in {"waiting", "closed"} => \A x \in Entries : state'[x] # "taken"
      BY <2>1, <2>5, <3>1 DEF Managed
    <3>7. QED BY <2>1, <2>2, <2>3, <3>1, <3>4, <3>5, <3>6 DEF Managed, closed
  <2>6. QED BY <2>4, <2>5
<1>3. ASSUME NEW e \in Entries, CloseNext(e) PROVE Managed'
  <2>1. InBackground' = InBackground
    BY <1>3 DEF CloseNext, InBackground, Managed
  <2>2. ClosersCounted'
    BY <1>3, <2>1 DEF CloseNext, Managed, ClosersCounted
  <2>3. TableConsistent' /\ BorrowersSafe' /\ OpenTopics' = OpenTopics
    BY <1>3 DEF CloseNext, Managed, TableConsistent, BorrowersSafe, OpenTopics
  <2>4. QED BY <1>3, <2>2, <2>3 DEF CloseNext, Managed, closed
<1>4. CASE CloseBegin
  <2>1. /\ closePc = "idle" /\ closePc' = "closing" /\ closing = NoEntry
        /\ lru' = <<>> /\ open' = [t \in Topics |-> NoEntry]
        /\ state' = [e \in Entries |-> IF e \in {open[t] : t \in OpenTopics} THEN "taken" ELSE state[e]]
        /\ UNCHANGED <<closeWG, closing, held>>
    BY <1>4 DEF CloseBegin, closed, Managed
  <2>2. \A e \in Entries : e \in {open[t] : t \in OpenTopics} <=> state[e] = "open"
    BY DEF Managed, TableConsistent, OpenTopics
  <2>3. \A e \in Entries : state'[e] = IF state[e] = "open" THEN "taken" ELSE state[e]
    BY <2>1, <2>2
  <2>4. OpenTopics' = {} /\ lru' \in Seq(Topics) /\ Len(lru') = 0
    BY <2>1 DEF OpenTopics
  <2>5. TableConsistent'
    BY <2>3, <2>4, MaxOpenPositive DEF TableConsistent
  <2>6. InBackground' = InBackground
    BY <2>1, <2>3 DEF InBackground
  <2>7. ClosersCounted' /\ BorrowersSafe'
    BY <2>1, <2>3, <2>6 DEF Managed, ClosersCounted, BorrowersSafe
  <2>8. /\ open' \in [Topics -> Entries \cup {NoEntry}]
        /\ state' \in [Entries -> {"free", "open", "evicted", "taken", "draining"}]
    BY <2>1 DEF Managed
  <2>9. QED BY <2>1, <2>4, <2>5, <2>7, <2>8 DEF Managed, closed
<1>5. CASE CloseWait
  BY <1>5 DEF CloseWait, Managed, TableConsistent, ClosersCounted, InBackground, BorrowersSafe, OpenTopics, closed
<1>6. CASE CloseReturn
  BY <1>6 DEF CloseReturn, Managed, TableConsistent, ClosersCounted, InBackground, BorrowersSafe, OpenTopics, closed
<1>7. QED BY <1>1, <1>2, <1>3, <1>4, <1>5, <1>6 DEF CloseStep

(***************************************************************************)
(* Every step.                                                             *)
(***************************************************************************)

\* The rotation's position and its choice stay within the topics.
LEMMA CandidateIsTopic ==
  ASSUME Rotating
  PROVE  Candidate \in Topics /\ (idx + offset + 1) % NTopics \in 0..NTopics - 1
<1>1. \A k \in Nat : k % NTopics \in 0..NTopics - 1
  BY TopicsExist
<1>2. idx + offset \in Nat /\ idx + offset + 1 \in Nat
  BY TopicsExist DEF Rotating
<1>3. (idx + offset) % NTopics \in 0..NTopics - 1 /\ (idx + offset + 1) % NTopics \in 0..NTopics - 1
  BY <1>1, <1>2
<1>4. QED BY <1>3, TopicsExist DEF Candidate, Topics

LEMMA ManagerStep == ASSUME ManagerInvariant, [Next]_vars PROVE ManagerInvariant'
<1> USE TopicsExist
<1>1. Managed /\ Rotating
  BY TwoParts
<1>2. Candidate \in Topics /\ (idx + offset + 1) % NTopics \in 0..NTopics - 1
  BY <1>1, CandidateIsTopic
<1>3. Worker \in Actors /\ Requests \subseteq Actors
  BY DEF Actors
<1>4. ASSUME NEW r \in Requests, NEW t \in Topics, Query(r, t) PROVE ManagerInvariant'
  <2>1. Managed'
    BY <1>1, <1>3, <1>4, AcquireOpenManages, AcquireNewManages DEF Query
  <2>2. Rotating'
    BY <1>1, <1>4 DEF Query, workerVars, Rotating
  <2>3. QED BY <2>1, <2>2, TwoParts, PTL
<1>5. ASSUME NEW a \in Actors, Release(a) PROVE ManagerInvariant'
  <2>1. Managed'
    BY <1>1, <1>5 DEF Release, tableVars, closeVars, Managed, TableConsistent, ClosersCounted,
       InBackground, BorrowersSafe, OpenTopics, closed
  <2>2. Rotating'
    BY <1>1, <1>5 DEF Release, workerVars, Rotating
  <2>3. QED BY <2>1, <2>2, TwoParts, PTL
<1>6. CASE WorkerStep
  <2>1. CASE RotateBegin
    <3>1. Rotating'
      BY <1>1, <2>1 DEF RotateBegin, Rotating
    <3>2. Managed'
      BY <1>1, <2>1, ManagedUnchanged DEF RotateBegin
    <3>3. QED BY <3>1, <3>2, TwoParts, PTL
  <2>2. CASE ReuseWarm
    <3>1. Rotating'
      BY <1>1, <2>2 DEF ReuseWarm, workerVars, Rotating
    <3>2. Managed'
      BY <1>1, <1>3, <2>2, AcquireWarmManages DEF ReuseWarm
    <3>3. QED BY <3>1, <3>2, TwoParts, PTL
  <2>3. CASE ScanOpen
    <3>1. Rotating'
      BY <1>1, <1>2, <2>3 DEF ScanOpen, Choose, Rotating
    <3>2. Managed'
      BY <1>1, <2>3, ManagedUnchanged DEF ScanOpen
    <3>3. QED BY <3>1, <3>2, TwoParts, PTL
  <2>4. CASE ScanSlot
    <3>1. Rotating'
      BY <1>1, <1>2, <2>4 DEF ScanSlot, Choose, Rotating
    <3>2. Managed'
      BY <1>1, <2>4, ManagedUnchanged DEF ScanSlot
    <3>3. QED BY <3>1, <3>2, TwoParts, PTL
  <2>5. CASE RotateAcquire
    <3>1. Rotating'
      BY <1>1, <2>5 DEF RotateAcquire, Rotating, Topics
    <3>2. chosen \in Topics
      BY <1>1 DEF Rotating
    <3>3. Managed'
      BY <1>1, <1>3, <2>5, <3>2, AcquireOpenManages, AcquireNewManages DEF RotateAcquire
    <3>4. QED BY <3>1, <3>3, TwoParts, PTL
  <2>6. CASE RotateFails
    <3>1. Rotating'
      BY <1>1, <2>6 DEF RotateFails, Rotating, Topics
    <3>2. Managed'
      BY <1>1, <2>6, ManagedUnchanged DEF RotateFails
    <3>3. QED BY <3>1, <3>2, TwoParts, PTL
  <2>7. CASE Fallback
    <3>1. Rotating'
      BY <1>1, <2>7 DEF Fallback, Rotating
    <3>2. Managed'
      BY <1>1, <1>3, <2>7, AcquireWarmManages, ManagedUnchanged DEF Fallback
    <3>3. QED BY <3>1, <3>2, TwoParts, PTL
  <2>8. QED BY <1>6, <2>1, <2>2, <2>3, <2>4, <2>5, <2>6, <2>7 DEF WorkerStep
<1>7. CASE CloseStep
  <2>1. Managed'
    BY <1>1, <1>7, CloseStepManages
  <2>2. Rotating'
    <3>1. UNCHANGED workerVars
      BY <1>7 DEF CloseStep, EvictedCloses, Drained, CloseNext, CloseBegin, CloseWait, CloseReturn
    <3>2. QED BY <1>1, <3>1 DEF workerVars, Rotating
  <2>3. QED BY <2>1, <2>2, TwoParts, PTL
<1>8. CASE UNCHANGED vars
  <2>1. Managed'
    BY <1>1, <1>8, ManagedUnchanged DEF vars
  <2>2. Rotating'
    BY <1>1, <1>8 DEF vars, workerVars, Rotating
  <2>3. QED BY <2>1, <2>2, TwoParts, PTL
<1>9. QED BY <1>4, <1>5, <1>6, <1>7, <1>8 DEF Next

(***************************************************************************)
(* The theorems.                                                           *)
(***************************************************************************)

\* The inductive invariant of the manager holds in every reachable state.
THEOREM ManagerInvariantHolds == Spec => []ManagerInvariant
  BY ManagerInit, ManagerStep, PTL DEF Spec

\* Table, LRU list and entries agree, and no more than MaxOpen topics are
\* open (acquireTopic and evictLocked under the manager's mutex).
THEOREM TableStaysConsistent == Spec => []TableConsistent
<1>1. ManagerInvariant => TableConsistent
  BY DEF ManagerInvariant
<1>2. QED BY <1>1, ManagerInvariantHolds, PTL

\* closeWG counts the background closers exactly: it never goes negative, and
\* Close neither returns early nor waits for a closer that does not exist.
THEOREM ClosersAreCounted == Spec => []ClosersCounted
<1>1. ManagerInvariant => ClosersCounted
  BY DEF ManagerInvariant
<1>2. QED BY <1>1, ManagerInvariantHolds, PTL

\* When Close has returned, every entry ever opened is closed, evicted ones
\* included, and nobody borrows; from Close's first step on no topic is open.
THEOREM ClosedIsEmpty == Spec => []ClosedManagerIsEmpty
<1>1. ASSUME ManagerInvariant, closePc = "closed", NEW e \in Entries PROVE state[e] = "free"
  <2>1. Cardinality(InBackground) = 0 /\ closing = NoEntry /\ OpenTopics = {}
    BY <1>1 DEF ManagerInvariant, ClosersCounted, closed
  <2>2. InBackground = {}
    BY <2>1, BackgroundFinite, FS_EmptySet
  <2>3. state[e] \notin {"evicted", "draining", "taken"}
    BY <1>1, <2>1, <2>2, EntriesFinite DEF ManagerInvariant, InBackground
  <2>4. state[e] # "open"
    BY <1>1, <2>1 DEF ManagerInvariant, TableConsistent
  <2>5. QED BY <1>1, <2>3, <2>4 DEF ManagerInvariant, TypeOK
<1>2. ASSUME ManagerInvariant, closePc = "closed", NEW a \in Actors PROVE held[a] = NoEntry
  BY <1>1, <1>2 DEF ManagerInvariant, TypeOK, BorrowersSafe
<1>3. ManagerInvariant => ClosedManagerIsEmpty
  BY <1>1, <1>2 DEF ManagerInvariant, ClosedManagerIsEmpty
<1>4. QED BY <1>3, ManagerInvariantHolds, PTL
=============================================================================
