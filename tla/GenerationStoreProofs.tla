----------------------- MODULE GenerationStoreProofs -----------------------
(***************************************************************************)
(* Proofs about GenerationStore, for any number of generations, clients,   *)
(* swappers and rollback slots.                                            *)
(***************************************************************************)
EXTENDS GenerationStore, FiniteSetTheorems, SequenceTheorems, TLAPS

\* The rollback list with the replaced generation in front is a sequence of
\* generations, one longer than before when something was current, with
\* the old current generation first and the old entries behind it.
LEMMA RetiredList ==
  ASSUME TypeOK
  PROVE  /\ Retired \in Seq(Gens)
         /\ Len(Retired) <= RollbackSlots + 1
         /\ current = NoGen => Retired = rollback
         /\ current # NoGen =>
              /\ Len(Retired) = Len(rollback) + 1
              /\ Retired[1] = current
              /\ \A i \in 1..Len(rollback) : Retired[i + 1] = rollback[i]
<1>1. CASE current = NoGen
  BY <1>1, RollbackSlotsPositive DEF TypeOK, Retired
<1>2. CASE current # NoGen
  <2>1. current \in Gens /\ <<current>> \in Seq(Gens) /\ Len(<<current>>) = 1
    BY <1>2 DEF TypeOK
  <2>2. Retired = <<current>> \o rollback
    BY <1>2 DEF Retired
  <2>3. /\ Retired \in Seq(Gens)
        /\ Len(Retired) = Len(rollback) + 1
        /\ Retired[1] = current
        /\ \A i \in 1..Len(rollback) : Retired[i + 1] = rollback[i]
    BY <2>1, <2>2 DEF TypeOK
  <2>4. QED BY <1>2, <2>3, RollbackSlotsPositive DEF TypeOK
<1>3. QED BY <1>1, <1>2

\* What Swap leaves in the rollback list: a prefix of the list above, whole
\* or without its last entry.
LEMMA CutList ==
  ASSUME NEW s \in Seq(Gens), Len(s) > 0
  PROVE  /\ SubSeq(s, 1, Len(s) - 1) \in Seq(Gens)
         /\ Len(SubSeq(s, 1, Len(s) - 1)) = Len(s) - 1
         /\ \A i \in 1..Len(s) - 1 : SubSeq(s, 1, Len(s) - 1)[i] = s[i]
         /\ s[Len(s)] \in Gens
<1>1. Len(s) \in Nat /\ Len(s) - 1 \in Nat /\ s[Len(s)] \in Gens
  OBVIOUS
<1>2. \A i \in 1..Len(s) - 1 : s[i] \in Gens
  BY <1>1
<1>3. PICK n \in Nat : n = Len(s) - 1
  BY <1>1
<1>4. /\ SubSeq(s, 1, n) \in Seq(Gens)
      /\ Len(SubSeq(s, 1, n)) = IF 1 <= n THEN n - 1 + 1 ELSE 0
      /\ \A i \in 1..(n - 1 + 1) : SubSeq(s, 1, n)[i] = s[1 + i - 1]
  <2>1. 1 \in Int /\ n \in Int /\ \A i \in 1..n : s[i] \in Gens
    BY <1>2, <1>3
  <2>2. QED BY <2>1, SubSeqProperties
<1>5. n - 1 + 1 = n /\ (~(1 <= n) => n = 0) /\ \A i \in 1..n : 1 + i - 1 = i
  OBVIOUS
<1>6. \A i \in 1..n : SubSeq(s, 1, n)[i] = s[i]
  BY <1>4, <1>5
<1>7. QED BY <1>1, <1>3, <1>4, <1>5, <1>6

\* Releasing a reference leaves a family of natural numbers.
LEMMA DropRefType ==
  ASSUME refs \in [Gens -> Nat], NEW g \in Gens, DropRef(g)
  PROVE  /\ refs' \in [Gens -> Nat]
         /\ \A h \in Gens : refs'[h] = IF h = g /\ refs[g] # 0 THEN refs[g] - 1 ELSE refs[h]
BY DEF DropRef

\* The store starts with every variable in its type.
LEMMA TypeInit == ASSUME Init PROVE TypeOK
<1>1. rollback \in Seq(Gens) /\ Len(rollback) <= RollbackSlots
  <2>1. <<>> \in Seq(Gens) /\ Len(<<>>) = 0
    OBVIOUS
  <2>2. QED BY <2>1, RollbackSlotsPositive DEF Init
<1>2. refs \in [Gens -> Nat] /\ pool \in [Gens -> {"absent", "open", "closed"}]
  BY DEF Init
<1>3. QED BY <1>1, <1>2, NoGenIsNoGen DEF Init, TypeOK

\* No action takes a variable out of its type.
LEMMA TypeStep == ASSUME TypeOK, [Next]_vars PROVE TypeOK'
<1> USE NoGenIsNoGen
<1>1. ASSUME NEW c \in Clients, Acquire(c) PROVE TypeOK'
  BY <1>1 DEF TypeOK, Acquire, storeVars, swapVars, closeVars
<1>2. ASSUME NEW c \in Clients, Release(c) PROVE TypeOK'
  <2>1. held[c] \in Gens
    BY <1>2 DEF TypeOK, Release
  <2>2. refs' \in [Gens -> Nat]
    BY <1>2, <2>1, DropRefType DEF TypeOK, Release
  <2>3. QED BY <1>2, <2>1, <2>2 DEF TypeOK, Release, storeVars, swapVars, closeVars
<1>3. ASSUME NEW c \in Clients, ClientDispose(c) PROVE TypeOK'
  BY <1>3 DEF TypeOK, ClientDispose, ClosePool, storeVars, swapVars, closeVars
<1>4. ASSUME NEW s \in Swappers, NEW g \in Gens, Build(s, g) PROVE TypeOK'
  BY <1>4 DEF TypeOK, Build, storeVars, clientVars, closeVars
<1>5. ASSUME NEW s \in Swappers, Reject(s) PROVE TypeOK'
  BY <1>5 DEF TypeOK, Reject, ClosePool, storeVars, clientVars, closeVars
<1>6. ASSUME NEW s \in Swappers, Swap(s) PROVE TypeOK'
  <2>1. cand[s] \in Gens
    BY <1>6 DEF TypeOK, Swap
  <2>2. /\ rollback' \in Seq(Gens)
        /\ Len(rollback') <= RollbackSlots
        /\ cand' \in [Swappers -> Gens \cup {NoGen}]
        /\ swapPc' \in [Swappers -> {"idle", "candidate", "evicting", "disposing"}]
        /\ \A t \in Swappers : swapPc'[t] = "idle" <=> cand'[t] = NoGen
    <3>1. CASE Overflows
      <4>1. Len(Retired) > 0 /\ Retired \in Seq(Gens) /\ Len(Retired) <= RollbackSlots + 1
        BY <3>1, RetiredList, RollbackSlotsPositive DEF Overflows
      <4>2. /\ rollback' = SubSeq(Retired, 1, Len(Retired) - 1)
            /\ swapPc' = [swapPc EXCEPT ![s] = "evicting"]
            /\ cand' = [cand EXCEPT ![s] = Retired[Len(Retired)]]
        BY <1>6, <3>1 DEF Swap
      <4>3. /\ rollback' \in Seq(Gens)
            /\ Len(rollback') <= RollbackSlots
            /\ Retired[Len(Retired)] \in Gens
        BY <4>1, <4>2, CutList, RollbackSlotsPositive
      <4>4. QED BY <4>2, <4>3 DEF TypeOK
    <3>2. CASE ~Overflows
      <4>1. Retired \in Seq(Gens) /\ Len(Retired) <= RollbackSlots
        BY <3>2, RetiredList, RollbackSlotsPositive DEF Overflows
      <4>2. /\ rollback' = Retired
            /\ swapPc' = [swapPc EXCEPT ![s] = "idle"]
            /\ cand' = [cand EXCEPT ![s] = NoGen]
        BY <1>6, <3>2 DEF Swap
      <4>3. QED BY <4>1, <4>2 DEF TypeOK
    <3>3. QED BY <3>1, <3>2
  <2>3. QED BY <1>6, <2>1, <2>2 DEF TypeOK, Swap, clientVars, closeVars
<1>7. ASSUME NEW s \in Swappers, ReleaseEvicted(s) PROVE TypeOK'
  <2>1. cand[s] \in Gens
    BY <1>7 DEF TypeOK, ReleaseEvicted
  <2>2. refs' \in [Gens -> Nat]
    BY <1>7, <2>1, DropRefType DEF TypeOK, ReleaseEvicted
  <2>3. QED BY <1>7, <2>1, <2>2 DEF TypeOK, ReleaseEvicted, storeVars, clientVars, closeVars
<1>8. ASSUME NEW s \in Swappers, SwapperDispose(s) PROVE TypeOK'
  BY <1>8 DEF TypeOK, SwapperDispose, ClosePool, storeVars, clientVars, closeVars
<1>9. CASE Rollback
  BY <1>9 DEF TypeOK, Rollback, clientVars, swapVars, closeVars
<1>10. CASE CloseBegin
  <2>1. Owned \in SUBSET Gens
    BY DEF Owned, RollbackSet, TypeOK
  <2>2. <<>> \in Seq(Gens) /\ Len(<<>>) <= RollbackSlots
    BY RollbackSlotsPositive
  <2>3. rollback' \in Seq(Gens) /\ Len(rollback') <= RollbackSlots
    BY <1>10, <2>2 DEF CloseBegin
  <2>4. closing = NoGen
    BY <1>10 DEF TypeOK, CloseBegin
  <2>5. QED BY <1>10, <2>1, <2>3, <2>4
            DEF TypeOK, CloseBegin, clientVars, swapVars
<1>11. ASSUME NEW g \in Gens, CloseRelease(g) PROVE TypeOK'
  <2>1. refs' \in [Gens -> Nat]
    BY <1>11, DropRefType DEF TypeOK, CloseRelease
  <2>2. QED BY <1>11, <2>1 DEF TypeOK, CloseRelease, storeVars, clientVars, swapVars
<1>12. CASE CloseDispose
  BY <1>12 DEF TypeOK, CloseDispose, ClosePool, storeVars, clientVars, swapVars
<1>13. CASE CloseReturn
  BY <1>13 DEF TypeOK, CloseReturn, storeVars, clientVars, swapVars
<1>14. CASE UNCHANGED vars
  BY <1>14 DEF TypeOK, vars, storeVars, clientVars, swapVars, closeVars
<1>15. QED
  BY <1>1, <1>2, <1>3, <1>4, <1>5, <1>6, <1>7, <1>8, <1>9, <1>10, <1>11,
     <1>12, <1>13, <1>14 DEF Next

\* Every variable keeps the values the code can give it; in particular the
\* rollback list never outgrows its slots.
THEOREM TypeCorrect == Spec => []TypeOK
<1>1. Init => TypeOK
  BY TypeInit
<1>2. TypeOK /\ [Next]_vars => TypeOK'
  BY TypeStep
<1>3. QED BY <1>1, <1>2, PTL DEF Spec

-----------------------------------------------------------------------------
(* Counting the borrowers of a generation *)

\* The borrowers of a generation are finitely many, so their number is a
\* natural number, positive when there is one.
LEMMA HoldersCount ==
  ASSUME NEW g
  PROVE  /\ IsFiniteSet(Holders(g))
         /\ Cardinality(Holders(g)) \in Nat
         /\ Holders(g) = {} <=> Cardinality(Holders(g)) = 0
<1>1. Holders(g) \in SUBSET Clients
  BY DEF Holders
<1>2. IsFiniteSet(Holders(g))
  BY <1>1, ClientsFinite, FS_Subset
<1>3. QED BY <1>2, FS_CardinalityType, FS_EmptySet

\* When the threads that hold a borrow do not change, neither do the counts.
LEMMA SameHolders ==
  ASSUME \A c \in Clients : clientPc[c] = "holding" <=> clientPc'[c] = "holding",
         \A c \in Clients : clientPc[c] = "holding" => held'[c] = held[c]
  PROVE  \A g \in Gens : Holders(g)' = Holders(g)
BY DEF Holders

\* A counted generation is one the store owns or a client holds.
LEMMA CountedIffReachable ==
  ASSUME TypeOK, RefsCountReaders, NEW g \in Gens
  PROVE  /\ StoreOwns(g) => refs[g] > 0
         /\ \A c \in Clients : clientPc[c] = "holding" /\ held[c] = g => refs[g] > 0
         /\ ~StoreOwns(g) /\ Holders(g) = {} => refs[g] = 0
<1>1. /\ Cardinality(Holders(g)) \in Nat
      /\ Holders(g) = {} <=> Cardinality(Holders(g)) = 0
  BY HoldersCount
<1>2. refs[g] = Cardinality(Holders(g)) + (IF StoreOwns(g) THEN 1 ELSE 0)
  BY DEF RefsCountReaders
<1>3. \A c \in Clients : clientPc[c] = "holding" /\ held[c] = g => c \in Holders(g)
  BY DEF Holders
<1>4. QED BY <1>1, <1>2, <1>3

-----------------------------------------------------------------------------
(* What each action does to the set of generations the store owns *)

LEMMA OwnedIsGens == TypeOK => Owned \in SUBSET Gens /\ NoGen \notin Owned
BY NoGenIsNoGen DEF TypeOK, Owned, RollbackSet

\* Rollback only permutes what the store owns.
LEMMA RollbackOwned ==
  ASSUME TypeOK, RollbackDistinct, Rollback
  PROVE  Owned' = Owned /\ RollbackDistinct'
<1>1. /\ current \in Gens /\ current # NoGen
      /\ Len(rollback) \in Nat \ {0} /\ rollback \in Seq(Gens)
      /\ current' = rollback[1]
      /\ rollback' = [rollback EXCEPT ![1] = current]
  BY DEF TypeOK, Rollback
<1>2. /\ Len(rollback') = Len(rollback)
      /\ rollback'[1] = current
      /\ \A i \in 1..Len(rollback) : i # 1 => rollback'[i] = rollback[i]
  BY <1>1
<1>3. current' # NoGen /\ current' \in Gens
  BY <1>1, NoGenIsNoGen
<1>4. RollbackDistinct'
  BY <1>1, <1>2, <1>3 DEF RollbackDistinct, RollbackSet
<1>5. Owned' = Owned
  <2>1. ASSUME NEW x \in Owned PROVE x \in Owned'
    BY <1>1, <1>2, <1>3, <2>1 DEF Owned, RollbackSet
  <2>2. ASSUME NEW x \in Owned' PROVE x \in Owned
    BY <1>1, <1>2, <1>3, <2>2 DEF Owned, RollbackSet
  <2>3. QED BY <2>1, <2>2
<1>6. QED BY <1>4, <1>5

\* The list Swap starts from holds what the store owned, each entry once.
LEMMA RetiredOwned ==
  ASSUME TypeOK, RollbackDistinct
  PROVE  /\ {Retired[i] : i \in 1..Len(Retired)} = Owned
         /\ \A i, j \in 1..Len(Retired) : Retired[i] = Retired[j] => i = j
<1>1. rollback \in Seq(Gens) /\ Len(rollback) \in Nat
  BY DEF TypeOK
<1>2. CASE current = NoGen
  BY <1>1, <1>2, RetiredList DEF RollbackDistinct, Owned, RollbackSet
<1>3. CASE current # NoGen
  <2>1. /\ Len(Retired) = Len(rollback) + 1
        /\ Retired[1] = current
        /\ \A i \in 1..Len(rollback) : Retired[i + 1] = rollback[i]
    BY <1>3, RetiredList
  <2>2. \A i \in 1..Len(Retired) :
          i = 1 \/ (i - 1 \in 1..Len(rollback) /\ Retired[i] = rollback[i - 1])
    <3>1. ASSUME NEW i \in 1..Len(Retired), i # 1
          PROVE  i - 1 \in 1..Len(rollback) /\ Retired[i] = rollback[i - 1]
      <4>1. i - 1 \in 1..Len(rollback) /\ (i - 1) + 1 = i
        BY <1>1, <2>1, <3>1
      <4>2. Retired[(i - 1) + 1] = rollback[i - 1]
        BY <2>1, <4>1
      <4>3. QED BY <4>1, <4>2
    <3>2. QED BY <3>1
  <2>3. \A i \in 1..Len(rollback) : rollback[i] # current
    BY DEF RollbackDistinct, RollbackSet
  <2>4. ASSUME NEW i \in 1..Len(Retired), NEW j \in 1..Len(Retired), Retired[i] = Retired[j]
        PROVE  i = j
    <3>1. CASE i = 1 /\ j # 1
      BY <2>1, <2>2, <2>3, <2>4, <3>1
    <3>2. CASE i # 1 /\ j = 1
      BY <2>1, <2>2, <2>3, <2>4, <3>2
    <3>3. CASE i # 1 /\ j # 1
      <4>1. rollback[i - 1] = rollback[j - 1] /\ i - 1 \in 1..Len(rollback) /\ j - 1 \in 1..Len(rollback)
        BY <2>2, <2>4, <3>3
      <4>2. i - 1 = j - 1
        BY <4>1 DEF RollbackDistinct
      <4>3. QED BY <1>1, <2>1, <4>2
    <3>4. QED BY <3>1, <3>2, <3>3
  <2>5. ASSUME NEW x \in Owned PROVE x \in {Retired[i] : i \in 1..Len(Retired)}
    <3>1. CASE x = current
      BY <1>1, <2>1, <3>1
    <3>2. CASE x # current
      <4>1. PICK i \in 1..Len(rollback) : x = rollback[i]
        BY <2>5, <3>2 DEF Owned, RollbackSet
      <4>2. i + 1 \in 1..Len(Retired) /\ Retired[i + 1] = x
        BY <1>1, <2>1, <4>1
      <4>3. QED BY <4>2
    <3>3. QED BY <3>1, <3>2
  <2>6. ASSUME NEW i \in 1..Len(Retired) PROVE Retired[i] \in Owned
    BY <1>3, <2>1, <2>2, <2>6 DEF Owned, RollbackSet
  <2>7. QED BY <2>4, <2>5, <2>6
<1>4. QED BY <1>2, <1>3

\* Swap adds the candidate to what the store owns; when the rollback list
\* overflows it takes one generation out, which the swapper then answers for.
LEMMA SwapOwned ==
  ASSUME TypeOK, RollbackDistinct, NEW s \in Swappers, Swap(s), cand[s] \notin Owned
  PROVE  /\ RollbackDistinct'
         /\ \/ /\ swapPc' = [swapPc EXCEPT ![s] = "idle"]
               /\ cand' = [cand EXCEPT ![s] = NoGen]
               /\ Owned' = Owned \cup {cand[s]}
            \/ \E e \in Owned :
                 /\ swapPc' = [swapPc EXCEPT ![s] = "evicting"]
                 /\ cand' = [cand EXCEPT ![s] = e]
                 /\ Owned' = (Owned \cup {cand[s]}) \ {e}
<1>1. /\ cand[s] \in Gens /\ cand[s] # NoGen
      /\ current' = cand[s]
  BY NoGenIsNoGen DEF TypeOK, Swap
<1>2. /\ {Retired[i] : i \in 1..Len(Retired)} = Owned
      /\ \A i, j \in 1..Len(Retired) : Retired[i] = Retired[j] => i = j
      /\ Retired \in Seq(Gens)
      /\ Len(Retired) \in Nat
  BY RetiredOwned, RetiredList
<1>3. CASE ~Overflows
  <2>1. /\ rollback' = Retired
        /\ swapPc' = [swapPc EXCEPT ![s] = "idle"]
        /\ cand' = [cand EXCEPT ![s] = NoGen]
    BY <1>3 DEF Swap
  <2>2. RollbackSet' = Owned
    BY <1>2, <2>1 DEF RollbackSet
  <2>3. Owned' = Owned \cup {cand[s]}
    BY <1>1, <2>2 DEF Owned
  <2>4. RollbackDistinct'
    BY <1>1, <1>2, <2>1, <2>2 DEF RollbackDistinct
  <2>5. QED BY <2>1, <2>3, <2>4
<1>4. CASE Overflows
  <2> DEFINE e == Retired[Len(Retired)]
             n == Len(Retired) - 1
  <2>1. /\ rollback' = SubSeq(Retired, 1, n)
        /\ swapPc' = [swapPc EXCEPT ![s] = "evicting"]
        /\ cand' = [cand EXCEPT ![s] = e]
    BY <1>4 DEF Swap
  <2>2. Len(Retired) \in 1..Len(Retired) /\ n \in Nat /\ Len(Retired) > 0
    BY <1>2, <1>4, RollbackSlotsPositive DEF Overflows
  <2>3. /\ Len(rollback') = n
        /\ \A i \in 1..n : rollback'[i] = Retired[i]
    BY <1>2, <2>1, <2>2, CutList
  <2>4. e \in Owned
    BY <1>2, <2>2
  <2>5. \A i \in 1..Len(Retired) : i = Len(Retired) \/ (i \in 1..n /\ Retired[i] # e)
    BY <1>2, <2>2
  <2>6. \A i \in 1..n : i \in 1..Len(Retired) /\ i # Len(Retired)
    BY <1>2, <2>2
  <2>7. RollbackSet' = Owned \ {e}
    <3>1. ASSUME NEW x \in RollbackSet' PROVE x \in Owned \ {e}
      <4>1. PICK i \in 1..n : x = Retired[i]
        BY <2>3, <3>1 DEF RollbackSet
      <4>2. QED BY <1>2, <2>5, <2>6, <4>1
    <3>2. ASSUME NEW x \in Owned \ {e} PROVE x \in RollbackSet'
      <4>1. PICK i \in 1..Len(Retired) : x = Retired[i]
        BY <1>2, <3>2
      <4>2. i \in 1..n /\ rollback'[i] = x
        BY <2>3, <2>5, <3>2, <4>1
      <4>3. QED BY <2>3, <4>2 DEF RollbackSet
    <3>3. QED BY <3>1, <3>2
  <2>8. Owned' = (Owned \cup {cand[s]}) \ {e}
    BY <1>1, <2>4, <2>7 DEF Owned
  <2>9. RollbackDistinct'
    <3>1. current' \notin RollbackSet'
      BY <1>1, <2>7
    <3>2. ASSUME NEW i \in 1..n, NEW j \in 1..n, rollback'[i] = rollback'[j] PROVE i = j
      BY <1>2, <2>3, <2>6, <3>2
    <3>3. QED BY <2>3, <3>1, <3>2 DEF RollbackDistinct
  <2>10. QED BY <2>1, <2>4, <2>8, <2>9
<1>5. QED BY <1>3, <1>4

\* The actions that leave the current and rollback slots alone.
LEMMA SlotsUnchanged ==
  ASSUME UNCHANGED <<current, rollback>>
  PROVE  Owned' = Owned /\ (RollbackDistinct' <=> RollbackDistinct)
BY DEF Owned, RollbackSet, RollbackDistinct

-----------------------------------------------------------------------------
(* The inductive step, one lemma per group of actions *)

LEMMA AcquireStep ==
  ASSUME StoreInvariant, TypeOK', NEW c \in Clients, Acquire(c)
  PROVE  StoreInvariant'
<1> USE DEF storeVars, clientVars, swapVars, closeVars
<1>1. /\ current \in Gens /\ current \in Owned
      /\ refs' = [refs EXCEPT ![current] = @ + 1]
      /\ clientPc' = [clientPc EXCEPT ![c] = "holding"]
      /\ held' = [held EXCEPT ![c] = current]
      /\ UNCHANGED <<storeVars, pool, swapVars, closeVars>>
      /\ clientPc[c] = "idle"
  BY NoGenIsNoGen DEF StoreInvariant, TypeOK, Acquire, Owned
<1>2. Owned' = Owned /\ (RollbackDistinct' <=> RollbackDistinct)
  BY <1>1, SlotsUnchanged
<1>3. \A g \in Gens : StoreOwns(g)' <=> StoreOwns(g)
  BY <1>1, <1>2 DEF StoreOwns
<1>4. refs[current] > 0 /\ pool[current] = "open"
  BY <1>1, CountedIffReachable DEF StoreInvariant, StoreOwns, CountedIsOpen
<1>5. RefsCountReaders'
  <2>1. ASSUME NEW g \in Gens
        PROVE  refs'[g] = Cardinality(Holders(g)') + (IF StoreOwns(g)' THEN 1 ELSE 0)
    <3>1. CASE g = current
      <4>1. Holders(g)' = Holders(g) \cup {c} /\ c \notin Holders(g)
        BY <1>1, <3>1 DEF Holders, StoreInvariant, TypeOK
      <4>2. Cardinality(Holders(g)') = Cardinality(Holders(g)) + 1
        BY <4>1, HoldersCount, FS_AddElement
      <4>3. refs'[g] = refs[g] + 1
        BY <1>1, <3>1 DEF StoreInvariant, TypeOK
      <4>4. Cardinality(Holders(g)) \in Nat
        BY HoldersCount
      <4>5. QED BY <1>3, <4>2, <4>3, <4>4 DEF StoreInvariant, RefsCountReaders
    <3>2. CASE g # current
      <4>1. Holders(g)' = Holders(g)
        BY <1>1, <3>2 DEF Holders, StoreInvariant, TypeOK
      <4>2. refs'[g] = refs[g]
        BY <1>1, <3>2 DEF StoreInvariant, TypeOK
      <4>3. QED BY <1>3, <4>1, <4>2 DEF StoreInvariant, RefsCountReaders
    <3>3. QED BY <3>1, <3>2
  <2>2. QED BY <2>1 DEF RefsCountReaders
<1>6. CountedIsOpen'
  BY <1>1, <1>4 DEF StoreInvariant, TypeOK, CountedIsOpen
<1>7. DisposersUncounted'
  BY <1>1, <1>4 DEF StoreInvariant, TypeOK, DisposersUncounted
<1>8. CandidatesPrivate'
  BY <1>1, <1>2, <1>4 DEF StoreInvariant, TypeOK, CandidatesPrivate, Unpublished
<1>9. OneOwner'
  BY <1>1, <1>2 DEF StoreInvariant, OneOwner
<1>10. QED BY <1>5, <1>6, <1>7, <1>8, <1>9 DEF StoreInvariant

LEMMA ReleaseStep ==
  ASSUME StoreInvariant, TypeOK', NEW c \in Clients, Release(c)
  PROVE  StoreInvariant'
<1> USE DEF storeVars, clientVars, swapVars, closeVars
<1> DEFINE h == held[c]
<1>1. /\ clientPc[c] = "holding" /\ h \in Gens /\ h # NoGen
      /\ refs[h] > 0 /\ pool[h] = "open"
      /\ UNCHANGED <<storeVars, pool, swapVars, closeVars>>
  BY NoGenIsNoGen, CountedIffReachable
     DEF StoreInvariant, TypeOK, Release, CountedIsOpen
<1>2. /\ refs' \in [Gens -> Nat]
      /\ \A g \in Gens : refs'[g] = IF g = h THEN refs[h] - 1 ELSE refs[g]
  BY <1>1, DropRefType DEF StoreInvariant, TypeOK, Release
<1>3. \/ /\ refs[h] = 1
         /\ clientPc' = [clientPc EXCEPT ![c] = "disposing"]
         /\ held' = held
      \/ /\ refs[h] # 1
         /\ clientPc' = [clientPc EXCEPT ![c] = "idle"]
         /\ held' = [held EXCEPT ![c] = NoGen]
  BY DEF Release, LastRef
<1>4. Owned' = Owned /\ (RollbackDistinct' <=> RollbackDistinct)
  BY <1>1, SlotsUnchanged
<1>5. \A g \in Gens : StoreOwns(g)' <=> StoreOwns(g)
  BY <1>1, <1>4 DEF StoreOwns
<1>6. RefsCountReaders'
  <2>1. ASSUME NEW g \in Gens
        PROVE  refs'[g] = Cardinality(Holders(g)') + (IF StoreOwns(g)' THEN 1 ELSE 0)
    <3>1. CASE g = h
      <4>1. Holders(g)' = Holders(g) \ {c} /\ c \in Holders(g)
        BY <1>1, <1>3, <3>1 DEF Holders, StoreInvariant, TypeOK
      <4>2. Cardinality(Holders(g)') = Cardinality(Holders(g)) - 1
        BY <4>1, HoldersCount, FS_RemoveElement
      <4>3. Cardinality(Holders(g)) \in Nat
        BY HoldersCount
      <4>4. refs'[g] = refs[g] - 1
        BY <1>2, <3>1
      <4>5. QED BY <1>5, <4>2, <4>3, <4>4 DEF StoreInvariant, RefsCountReaders
    <3>2. CASE g # h
      <4>1. Holders(g)' = Holders(g)
        BY <1>1, <1>3, <3>2 DEF Holders, StoreInvariant, TypeOK
      <4>2. QED BY <1>2, <1>5, <3>2, <4>1 DEF StoreInvariant, RefsCountReaders
    <3>3. QED BY <3>1, <3>2
  <2>2. QED BY <2>1 DEF RefsCountReaders
<1>7. CountedIsOpen'
  BY <1>1, <1>2 DEF StoreInvariant, TypeOK, CountedIsOpen
<1>8. DisposersUncounted'
  <2>1. \A d \in Clients : clientPc'[d] = "disposing" =>
          /\ held'[d] = held[d]
          /\ clientPc[d] = "disposing" \/ (held[d] = h /\ refs[h] = 1)
    BY <1>1, <1>3 DEF StoreInvariant, TypeOK
  <2>2. ASSUME NEW g \in Gens, refs[g] = 0 \/ (g = h /\ refs[h] = 1) PROVE refs'[g] = 0
    BY <1>1, <1>2, <2>2
  <2>3. QED BY <1>1, <2>1, <2>2 DEF StoreInvariant, DisposersUncounted
<1>9. CandidatesPrivate'
  <2>1. \A g \in Gens : Unpublished(g) => Unpublished(g)'
    BY <1>1, <1>3, <1>4, NoGenIsNoGen DEF StoreInvariant, TypeOK, Unpublished
  <2>2. QED BY <1>1, <2>1 DEF StoreInvariant, CandidatesPrivate
<1>10. OneOwner'
  BY <1>1, <1>4 DEF StoreInvariant, OneOwner
<1>11. QED BY <1>6, <1>7, <1>8, <1>9, <1>10 DEF StoreInvariant

LEMMA ClientDisposeStep ==
  ASSUME StoreInvariant, TypeOK', NEW c \in Clients, ClientDispose(c)
  PROVE  StoreInvariant'
<1> USE DEF storeVars, clientVars, swapVars, closeVars
<1>1. /\ held[c] \in Gens /\ held[c] # NoGen /\ clientPc[c] = "disposing"
      /\ refs[held[c]] = 0
      /\ pool' = [pool EXCEPT ![held[c]] = "closed"]
      /\ clientPc' = [clientPc EXCEPT ![c] = "idle"]
      /\ held' = [held EXCEPT ![c] = NoGen]
      /\ UNCHANGED <<storeVars, refs, swapVars, closeVars>>
  BY NoGenIsNoGen DEF StoreInvariant, TypeOK, DisposersUncounted, ClientDispose, ClosePool
<1>2. Owned' = Owned /\ (RollbackDistinct' <=> RollbackDistinct)
  BY <1>1, SlotsUnchanged
<1>3. \A g \in Gens : (StoreOwns(g)' <=> StoreOwns(g)) /\ Holders(g)' = Holders(g)
  <2>1. \A g \in Gens : StoreOwns(g)' <=> StoreOwns(g)
    BY <1>1, <1>2 DEF StoreOwns
  <2>2. \A g \in Gens : Holders(g)' = Holders(g)
    BY <1>1, SameHolders DEF StoreInvariant, TypeOK
  <2>3. QED BY <2>1, <2>2
<1>4. RefsCountReaders'
  BY <1>1, <1>3 DEF StoreInvariant, RefsCountReaders
<1>5. CountedIsOpen'
  BY <1>1 DEF StoreInvariant, TypeOK, CountedIsOpen
<1>6. DisposersUncounted'
  <2>1. \A d \in Clients : clientPc'[d] = "disposing" =>
          clientPc[d] = "disposing" /\ held'[d] = held[d]
    BY <1>1 DEF StoreInvariant, TypeOK
  <2>2. QED BY <1>1, <2>1 DEF StoreInvariant, DisposersUncounted
<1>7. CandidatesPrivate'
  <2>1. \A g \in Gens : Unpublished(g) => Unpublished(g)'
    BY <1>1, <1>2, NoGenIsNoGen DEF StoreInvariant, TypeOK, Unpublished
  <2>2. /\ ~Unpublished(held[c])
        /\ \A g \in Gens : g # held[c] => pool'[g] = pool[g]
        /\ pool'[held[c]] = "closed"
    BY <1>1 DEF StoreInvariant, TypeOK, Unpublished
  <2>3. QED BY <1>1, <2>1, <2>2 DEF StoreInvariant, CandidatesPrivate
<1>8. OneOwner'
  BY <1>1, <1>2 DEF StoreInvariant, OneOwner
<1>9. QED BY <1>4, <1>5, <1>6, <1>7, <1>8 DEF StoreInvariant

LEMMA BuildStep ==
  ASSUME StoreInvariant, TypeOK', NEW s \in Swappers, NEW x \in Gens, Build(s, x)
  PROVE  StoreInvariant'
<1> USE DEF storeVars, clientVars, swapVars, closeVars
<1>1. /\ swapPc[s] = "idle" /\ pool[x] = "absent" /\ x # NoGen
      /\ pool' = [pool EXCEPT ![x] = "open"]
      /\ swapPc' = [swapPc EXCEPT ![s] = "candidate"]
      /\ cand' = [cand EXCEPT ![s] = x]
      /\ UNCHANGED <<storeVars, refs, clientVars, closeVars>>
  BY NoGenIsNoGen DEF Build
<1>2. Owned' = Owned /\ (RollbackDistinct' <=> RollbackDistinct)
  BY <1>1, SlotsUnchanged
<1>3. \A g \in Gens : StoreOwns(g)' <=> StoreOwns(g)
  BY <1>1, <1>2 DEF StoreInvariant, TypeOK, StoreOwns
<1>4. \A g \in Gens : Holders(g)' = Holders(g)
  BY <1>1, SameHolders
<1>5. RefsCountReaders'
  BY <1>1, <1>3, <1>4 DEF StoreInvariant, RefsCountReaders
<1>6. CountedIsOpen'
  BY <1>1 DEF StoreInvariant, TypeOK, CountedIsOpen
<1>7. DisposersUncounted'
  BY <1>1 DEF StoreInvariant, TypeOK, DisposersUncounted
<1>8. CandidatesPrivate'
  <2>1. \A g \in Gens : Unpublished(g) => Unpublished(g)'
    BY <1>1, <1>2 DEF Unpublished
  <2>2. Unpublished(x) /\ \A t \in Swappers : cand[t] # x
    BY <1>1 DEF StoreInvariant, CandidatesPrivate
  <2>3. /\ \A g \in Gens : g # x => pool'[g] = pool[g]
        /\ pool'[x] = "open"
        /\ \A t \in Swappers : t # s => swapPc'[t] = swapPc[t] /\ cand'[t] = cand[t]
        /\ cand'[s] = x /\ swapPc'[s] = "candidate"
    BY <1>1 DEF StoreInvariant, TypeOK
  <2>4. QED BY <2>1, <2>2, <2>3 DEF StoreInvariant, CandidatesPrivate
<1>9. OneOwner'
  BY <1>1, <1>2 DEF StoreInvariant, TypeOK, OneOwner
<1>10. QED BY <1>5, <1>6, <1>7, <1>8, <1>9 DEF StoreInvariant

LEMMA RejectStep ==
  ASSUME StoreInvariant, TypeOK', NEW s \in Swappers, Reject(s)
  PROVE  StoreInvariant'
<1> USE DEF storeVars, clientVars, swapVars, closeVars
<1>1. /\ swapPc[s] = "candidate" /\ cand[s] \in Gens /\ cand[s] # NoGen
      /\ pool' = [pool EXCEPT ![cand[s]] = "closed"]
      /\ swapPc' = [swapPc EXCEPT ![s] = "idle"]
      /\ cand' = [cand EXCEPT ![s] = NoGen]
      /\ UNCHANGED <<storeVars, refs, clientVars, closeVars>>
  BY NoGenIsNoGen DEF StoreInvariant, TypeOK, Reject, ClosePool
<1>2. Owned' = Owned /\ (RollbackDistinct' <=> RollbackDistinct)
  BY <1>1, SlotsUnchanged
<1>3. \A g \in Gens : StoreOwns(g)' <=> StoreOwns(g)
  BY <1>1, <1>2 DEF StoreInvariant, TypeOK, StoreOwns
<1>4. \A g \in Gens : Holders(g)' = Holders(g)
  BY <1>1, SameHolders
<1>5. refs[cand[s]] = 0
  <2>1. ~StoreOwns(cand[s]) /\ Holders(cand[s]) = {}
    BY <1>1 DEF StoreInvariant, TypeOK, CandidatesPrivate, Unpublished, StoreOwns, Holders
  <2>2. QED BY <1>1, <2>1, CountedIffReachable DEF StoreInvariant
<1>6. RefsCountReaders'
  BY <1>1, <1>3, <1>4 DEF StoreInvariant, RefsCountReaders
<1>7. CountedIsOpen'
  BY <1>1, <1>5 DEF StoreInvariant, TypeOK, CountedIsOpen
<1>8. DisposersUncounted'
  BY <1>1 DEF StoreInvariant, TypeOK, DisposersUncounted
<1>9. CandidatesPrivate'
  <2>1. \A g \in Gens : Unpublished(g) => Unpublished(g)'
    BY <1>1, <1>2 DEF Unpublished
  <2>2. /\ \A g \in Gens : g # cand[s] => pool'[g] = pool[g]
        /\ pool'[cand[s]] = "closed"
        /\ \A t \in Swappers : t # s => swapPc'[t] = swapPc[t] /\ cand'[t] = cand[t]
        /\ cand'[s] = NoGen /\ swapPc'[s] = "idle"
    BY <1>1 DEF StoreInvariant, TypeOK
  <2>3. QED BY <2>1, <2>2, NoGenIsNoGen DEF StoreInvariant, CandidatesPrivate
<1>10. OneOwner'
  BY <1>1, <1>2 DEF StoreInvariant, TypeOK, OneOwner
<1>11. QED BY <1>6, <1>7, <1>8, <1>9, <1>10 DEF StoreInvariant

LEMMA SwapStep ==
  ASSUME StoreInvariant, TypeOK', NEW s \in Swappers, Swap(s)
  PROVE  StoreInvariant'
<1> USE DEF storeVars, clientVars, swapVars, closeVars
<1> DEFINE x == cand[s]
<1>1. /\ swapPc[s] = "candidate" /\ x \in Gens /\ x # NoGen /\ ~closed
      /\ refs' = [refs EXCEPT ![x] = 1]
      /\ UNCHANGED <<closed, pool, clientVars, closeVars>>
  BY NoGenIsNoGen DEF StoreInvariant, TypeOK, Swap
<1>2. /\ pool[x] = "open" /\ Unpublished(x)
      /\ \A t \in Swappers \ {s} : cand[t] # x
  BY <1>1 DEF StoreInvariant, CandidatesPrivate
<1>3. /\ RollbackDistinct'
      /\ \/ /\ swapPc' = [swapPc EXCEPT ![s] = "idle"]
            /\ cand' = [cand EXCEPT ![s] = NoGen]
            /\ Owned' = Owned \cup {x}
         \/ \E e \in Owned :
              /\ swapPc' = [swapPc EXCEPT ![s] = "evicting"]
              /\ cand' = [cand EXCEPT ![s] = e]
              /\ Owned' = (Owned \cup {x}) \ {e}
  BY <1>2, SwapOwned DEF StoreInvariant, OneOwner, Unpublished
<1>4. Owned \in SUBSET Gens /\ NoGen \notin Owned /\ x \notin Owned
  BY <1>2, OwnedIsGens DEF StoreInvariant, Unpublished
<1>5. /\ refs[x] = 0
      /\ ~StoreOwns(x) /\ Holders(x) = {}
  <2>1. ~StoreOwns(x) /\ Holders(x) = {}
    BY <1>1, <1>2 DEF Unpublished, StoreOwns, Holders
  <2>2. QED BY <1>1, <2>1, CountedIffReachable DEF StoreInvariant
<1>6. \A t \in Swappers : t # s => swapPc'[t] = swapPc[t] /\ cand'[t] = cand[t]
  BY <1>3 DEF StoreInvariant, TypeOK
<1>7. \A g \in Gens : StoreOwns(g)' <=> (StoreOwns(g) \/ g = x)
  <2>1. CASE swapPc'[s] = "idle"
    <3>1. cand'[s] = NoGen /\ Owned' = Owned \cup {x}
      BY <1>3, <2>1 DEF StoreInvariant, TypeOK
    <3>2. ASSUME NEW g \in Gens, StoreOwns(g)' PROVE StoreOwns(g) \/ g = x
      BY <1>1, <1>6, <2>1, <3>1, <3>2 DEF StoreOwns
    <3>3. ASSUME NEW g \in Gens, StoreOwns(g) \/ g = x PROVE StoreOwns(g)'
      BY <1>1, <1>6, <2>1, <3>1, <3>3 DEF StoreOwns
    <3>4. QED BY <3>2, <3>3
  <2>2. CASE swapPc'[s] = "evicting"
    <3>1. PICK e \in Owned : cand'[s] = e /\ Owned' = (Owned \cup {x}) \ {e}
      BY <1>3, <2>2 DEF StoreInvariant, TypeOK
    <3>2. ASSUME NEW g \in Gens, StoreOwns(g)' PROVE StoreOwns(g) \/ g = x
      BY <1>1, <1>6, <3>1, <3>2 DEF StoreOwns
    <3>3. ASSUME NEW g \in Gens, StoreOwns(g) \/ g = x PROVE StoreOwns(g)'
      BY <1>1, <1>6, <2>2, <3>1, <3>3 DEF StoreOwns
    <3>4. QED BY <3>2, <3>3
  <2>3. QED BY <1>3, <2>1, <2>2 DEF StoreInvariant, TypeOK
<1>8. \A g \in Gens : Holders(g)' = Holders(g)
  BY <1>1, SameHolders
<1>9. \A g \in Gens : refs'[g] = IF g = x THEN 1 ELSE refs[g]
  BY <1>1 DEF StoreInvariant, TypeOK
<1>10. RefsCountReaders'
  <2>1. ASSUME NEW g \in Gens
        PROVE  refs'[g] = Cardinality(Holders(g)') + (IF StoreOwns(g)' THEN 1 ELSE 0)
    <3>1. CASE g = x
      BY <1>5, <1>7, <1>8, <1>9, <3>1, HoldersCount
    <3>2. CASE g # x
      BY <1>7, <1>8, <1>9, <3>2 DEF StoreInvariant, RefsCountReaders
    <3>3. QED BY <3>1, <3>2
  <2>2. QED BY <2>1 DEF RefsCountReaders
<1>11. CountedIsOpen'
  BY <1>1, <1>2, <1>9 DEF StoreInvariant, CountedIsOpen
<1>12. DisposersUncounted'
  <2>1. swapPc'[s] # "disposing"
    BY <1>3 DEF StoreInvariant, TypeOK
  <2>2. QED BY <1>1, <1>2, <1>6, <1>9, <2>1
            DEF StoreInvariant, DisposersUncounted, Unpublished
<1>13. CandidatesPrivate'
  <2>1. \A g \in Gens : g # x /\ Unpublished(g) => Unpublished(g)' /\ cand'[s] # g
    BY <1>1, <1>3, <1>4 DEF StoreInvariant, TypeOK, Unpublished
  <2>2. swapPc'[s] # "candidate"
    BY <1>3 DEF StoreInvariant, TypeOK
  <2>3. QED BY <1>1, <1>2, <1>6, <2>1, <2>2 DEF StoreInvariant, CandidatesPrivate
<1>14. OneOwner'
  <2>1. draining = {} /\ draining' = {} /\ ~closed'
    BY <1>1 DEF StoreInvariant, OneOwner
  <2>2. ASSUME NEW g \in Gens, NEW t \in Swappers, swapPc'[t] = "evicting", cand'[t] = g
        PROVE  /\ g \notin Owned' \cup draining'
               /\ \A u \in Swappers \ {t} : swapPc'[u] = "evicting" => cand'[u] # g
    <3>1. CASE t = s
      <4>1. g \in Owned /\ g \notin Owned'
        BY <1>3, <2>2, <3>1 DEF StoreInvariant, TypeOK
      <4>2. \A u \in Swappers \ {s} : swapPc[u] = "evicting" => cand[u] # g
        BY <4>1 DEF StoreInvariant, OneOwner
      <4>3. QED BY <1>6, <2>1, <3>1, <4>1, <4>2
    <3>2. CASE t # s
      <4>1. swapPc[t] = "evicting" /\ cand[t] = g
        BY <1>6, <2>2, <3>2
      <4>2. g # x /\ g \notin Owned
        BY <1>2, <3>2, <4>1 DEF StoreInvariant, OneOwner
      <4>3. g \notin Owned'
        BY <1>3, <4>2
      <4>4. \A u \in Swappers \ {t} : swapPc'[u] = "evicting" => cand'[u] # g
        <5>1. ASSUME NEW u \in Swappers \ {t}, swapPc'[u] = "evicting", cand'[u] = g PROVE FALSE
          <6>1. CASE u = s
            BY <1>3, <4>2, <5>1, <6>1 DEF StoreInvariant, TypeOK
          <6>2. CASE u # s
            BY <1>6, <4>1, <5>1, <6>2 DEF StoreInvariant, OneOwner
          <6>3. QED BY <6>1, <6>2
        <5>2. QED BY <5>1
      <4>5. QED BY <2>1, <4>3, <4>4
    <3>3. QED BY <3>1, <3>2
  <2>3. QED BY <1>3, <2>1, <2>2 DEF OneOwner
<1>15. QED BY <1>10, <1>11, <1>12, <1>13, <1>14 DEF StoreInvariant

LEMMA ReleaseEvictedStep ==
  ASSUME StoreInvariant, TypeOK', NEW s \in Swappers, ReleaseEvicted(s)
  PROVE  StoreInvariant'
<1> USE DEF storeVars, clientVars, swapVars, closeVars
<1> DEFINE e == cand[s]
<1>1. /\ swapPc[s] = "evicting" /\ e \in Gens /\ e # NoGen
      /\ StoreOwns(e) /\ refs[e] > 0 /\ pool[e] = "open"
      /\ e \notin Owned \cup draining
      /\ \A t \in Swappers \ {s} : swapPc[t] = "evicting" => cand[t] # e
      /\ UNCHANGED <<storeVars, pool, clientVars, closeVars>>
  <2>1. /\ swapPc[s] = "evicting" /\ e \in Gens /\ e # NoGen
        /\ UNCHANGED <<storeVars, pool, clientVars, closeVars>>
    BY NoGenIsNoGen DEF StoreInvariant, TypeOK, ReleaseEvicted
  <2>2. StoreOwns(e)
    BY <2>1 DEF StoreOwns
  <2>3. refs[e] > 0 /\ pool[e] = "open"
    BY <2>1, <2>2, CountedIffReachable DEF StoreInvariant, CountedIsOpen
  <2>4. QED BY <2>1, <2>2, <2>3 DEF StoreInvariant, OneOwner
<1>2. /\ refs' \in [Gens -> Nat]
      /\ \A g \in Gens : refs'[g] = IF g = e THEN refs[e] - 1 ELSE refs[g]
  BY <1>1, DropRefType DEF StoreInvariant, TypeOK, ReleaseEvicted
<1>3. /\ \A t \in Swappers : t # s => swapPc'[t] = swapPc[t] /\ cand'[t] = cand[t]
      /\ \/ refs[e] = 1 /\ swapPc'[s] = "disposing" /\ cand'[s] = e
         \/ swapPc'[s] = "idle" /\ cand'[s] = NoGen
  BY DEF ReleaseEvicted, LastRef, StoreInvariant, TypeOK
<1>4. Owned' = Owned /\ (RollbackDistinct' <=> RollbackDistinct)
  BY <1>1, SlotsUnchanged
<1>5. \A g \in Gens : StoreOwns(g)' <=> (StoreOwns(g) /\ g # e)
  BY <1>1, <1>3, <1>4 DEF StoreOwns
<1>6. \A g \in Gens : Holders(g)' = Holders(g)
  BY <1>1, SameHolders
<1>7. RefsCountReaders'
  <2>1. ASSUME NEW g \in Gens
        PROVE  refs'[g] = Cardinality(Holders(g)') + (IF StoreOwns(g)' THEN 1 ELSE 0)
    <3>1. CASE g = e
      <4>1. refs[e] = Cardinality(Holders(e)) + 1
        BY <1>1 DEF StoreInvariant, RefsCountReaders
      <4>2. QED BY <1>2, <1>5, <1>6, <3>1, <4>1, HoldersCount
    <3>2. CASE g # e
      BY <1>2, <1>5, <1>6, <3>2 DEF StoreInvariant, RefsCountReaders
    <3>3. QED BY <3>1, <3>2
  <2>2. QED BY <2>1 DEF RefsCountReaders
<1>8. CountedIsOpen'
  BY <1>1, <1>2 DEF StoreInvariant, TypeOK, CountedIsOpen
<1>9. DisposersUncounted'
  <2>1. ASSUME NEW g \in Gens, refs[g] = 0 \/ (g = e /\ refs[e] = 1) PROVE refs'[g] = 0
    BY <1>1, <1>2, <2>1
  <2>2. QED BY <1>1, <1>3, <2>1, NoGenIsNoGen DEF StoreInvariant, DisposersUncounted
<1>10. CandidatesPrivate'
  <2>1. \A g \in Gens : Unpublished(g) => Unpublished(g)'
    BY <1>1, <1>4 DEF Unpublished
  <2>2. \A t \in Swappers : cand'[t] = cand[t] \/ cand'[t] = NoGen
    BY <1>3
  <2>3. QED BY <1>1, <1>3, <2>1, <2>2, NoGenIsNoGen DEF StoreInvariant, CandidatesPrivate
<1>11. OneOwner'
  BY <1>1, <1>3, <1>4 DEF StoreInvariant, OneOwner
<1>12. QED BY <1>7, <1>8, <1>9, <1>10, <1>11 DEF StoreInvariant

LEMMA SwapperDisposeStep ==
  ASSUME StoreInvariant, TypeOK', NEW s \in Swappers, SwapperDispose(s)
  PROVE  StoreInvariant'
<1> USE DEF storeVars, clientVars, swapVars, closeVars
<1>1. /\ cand[s] \in Gens /\ cand[s] # NoGen /\ swapPc[s] = "disposing"
      /\ refs[cand[s]] = 0
      /\ UNCHANGED <<storeVars, refs, clientVars, closeVars>>
  BY NoGenIsNoGen DEF StoreInvariant, TypeOK, DisposersUncounted, SwapperDispose
<1>2. /\ pool'[cand[s]] = "closed"
      /\ \A g \in Gens : g # cand[s] => pool'[g] = pool[g]
      /\ \A t \in Swappers : t # s => swapPc'[t] = swapPc[t] /\ cand'[t] = cand[t]
      /\ swapPc'[s] = "idle" /\ cand'[s] = NoGen
  BY <1>1 DEF SwapperDispose, ClosePool, StoreInvariant, TypeOK
<1>3. Owned' = Owned /\ (RollbackDistinct' <=> RollbackDistinct)
  BY <1>1, SlotsUnchanged
<1>4. \A g \in Gens : StoreOwns(g)' <=> StoreOwns(g)
  BY <1>1, <1>2, <1>3 DEF StoreOwns
<1>5. \A g \in Gens : Holders(g)' = Holders(g)
  BY <1>1, SameHolders
<1>6. RefsCountReaders'
  BY <1>1, <1>4, <1>5 DEF StoreInvariant, RefsCountReaders
<1>7. CountedIsOpen'
  BY <1>1, <1>2 DEF StoreInvariant, CountedIsOpen
<1>8. DisposersUncounted'
  BY <1>1, <1>2 DEF StoreInvariant, DisposersUncounted
<1>9. CandidatesPrivate'
  <2>1. \A g \in Gens : Unpublished(g) => Unpublished(g)'
    BY <1>1, <1>3 DEF Unpublished
  <2>2. \A t \in Swappers : swapPc[t] = "candidate" => cand[t] # cand[s]
    BY <1>1 DEF StoreInvariant, TypeOK, CandidatesPrivate
  <2>3. QED BY <1>1, <1>2, <2>1, <2>2, NoGenIsNoGen DEF StoreInvariant, CandidatesPrivate
<1>10. OneOwner'
  BY <1>1, <1>2, <1>3 DEF StoreInvariant, OneOwner
<1>11. QED BY <1>6, <1>7, <1>8, <1>9, <1>10 DEF StoreInvariant

LEMMA RollbackStep ==
  ASSUME StoreInvariant, TypeOK', Rollback
  PROVE  StoreInvariant'
<1> USE DEF storeVars, clientVars, swapVars, closeVars
<1>1. UNCHANGED <<closed, refs, pool, clientVars, swapVars, closeVars>>
  BY DEF Rollback
<1>2. Owned' = Owned /\ RollbackDistinct'
  BY RollbackOwned DEF StoreInvariant, OneOwner
<1>3. \A g \in Gens : StoreOwns(g)' <=> StoreOwns(g)
  BY <1>1, <1>2 DEF StoreOwns
<1>4. \A g \in Gens : Holders(g)' = Holders(g)
  BY <1>1, SameHolders
<1>5. RefsCountReaders'
  BY <1>1, <1>3, <1>4 DEF StoreInvariant, RefsCountReaders
<1>6. CountedIsOpen' /\ DisposersUncounted'
  BY <1>1 DEF StoreInvariant, CountedIsOpen, DisposersUncounted
<1>7. CandidatesPrivate'
  BY <1>1, <1>2 DEF StoreInvariant, CandidatesPrivate, Unpublished
<1>8. OneOwner'
  BY <1>1, <1>2 DEF StoreInvariant, OneOwner
<1>9. QED BY <1>5, <1>6, <1>7, <1>8 DEF StoreInvariant

LEMMA CloseBeginStep ==
  ASSUME StoreInvariant, TypeOK', CloseBegin
  PROVE  StoreInvariant'
<1> USE DEF storeVars, clientVars, swapVars, closeVars
<1>1. /\ ~closed /\ closed' /\ draining = {} /\ draining' = Owned
      /\ current' = NoGen /\ rollback' = <<>>
      /\ UNCHANGED <<refs, pool, clientVars, swapVars, closing>>
  BY DEF CloseBegin, StoreInvariant, OneOwner
<1>2. Owned' = {} /\ RollbackDistinct'
  <2>1. RollbackSet' = {}
    BY <1>1 DEF RollbackSet
  <2>2. QED BY <1>1, <2>1 DEF Owned, RollbackDistinct
<1>3. \A g \in Gens : StoreOwns(g)' <=> StoreOwns(g)
  BY <1>1, <1>2 DEF StoreOwns
<1>4. \A g \in Gens : Holders(g)' = Holders(g)
  BY <1>1, SameHolders
<1>5. RefsCountReaders'
  BY <1>1, <1>3, <1>4 DEF StoreInvariant, RefsCountReaders
<1>6. CountedIsOpen' /\ DisposersUncounted'
  BY <1>1 DEF StoreInvariant, CountedIsOpen, DisposersUncounted
<1>7. CandidatesPrivate'
  BY <1>1, <1>2 DEF StoreInvariant, CandidatesPrivate, Unpublished
<1>8. OneOwner'
  BY <1>1, <1>2 DEF StoreInvariant, OneOwner
<1>9. QED BY <1>5, <1>6, <1>7, <1>8 DEF StoreInvariant

LEMMA CloseReleaseStep ==
  ASSUME StoreInvariant, TypeOK', NEW x \in Gens, CloseRelease(x)
  PROVE  StoreInvariant'
<1> USE DEF storeVars, clientVars, swapVars, closeVars
<1>1. /\ x \in draining /\ closePc = "releasing" /\ closing = NoGen
      /\ draining' = draining \ {x}
      /\ StoreOwns(x) /\ refs[x] > 0 /\ pool[x] = "open"
      /\ x # NoGen /\ x \notin Owned
      /\ \A s \in Swappers : swapPc[s] = "evicting" => cand[s] # x
      /\ UNCHANGED <<storeVars, pool, clientVars, swapVars, awaited>>
  <2>1. /\ x \in draining /\ closePc = "releasing" /\ closing = NoGen /\ x # NoGen
        /\ draining' = draining \ {x}
        /\ UNCHANGED <<storeVars, pool, clientVars, swapVars, awaited>>
    BY NoGenIsNoGen DEF CloseRelease, StoreInvariant, TypeOK
  <2>2. StoreOwns(x)
    BY <2>1 DEF StoreOwns
  <2>3. refs[x] > 0 /\ pool[x] = "open"
    BY <2>2, CountedIffReachable DEF StoreInvariant, CountedIsOpen
  <2>4. QED BY <2>1, <2>2, <2>3 DEF StoreInvariant, OneOwner
<1>2. /\ refs' \in [Gens -> Nat]
      /\ \A g \in Gens : refs'[g] = IF g = x THEN refs[x] - 1 ELSE refs[g]
  BY <1>1, DropRefType DEF StoreInvariant, TypeOK, CloseRelease
<1>3. \/ refs[x] = 1 /\ closing' = x
      \/ closing' = NoGen
  BY <1>1 DEF CloseRelease, LastRef
<1>4. Owned' = Owned /\ (RollbackDistinct' <=> RollbackDistinct)
  BY <1>1, SlotsUnchanged
<1>5. \A g \in Gens : StoreOwns(g)' <=> (StoreOwns(g) /\ g # x)
  BY <1>1, <1>4 DEF StoreOwns
<1>6. \A g \in Gens : Holders(g)' = Holders(g)
  BY <1>1, SameHolders
<1>7. RefsCountReaders'
  <2>1. ASSUME NEW g \in Gens
        PROVE  refs'[g] = Cardinality(Holders(g)') + (IF StoreOwns(g)' THEN 1 ELSE 0)
    <3>1. CASE g = x
      <4>1. refs[x] = Cardinality(Holders(x)) + 1
        BY <1>1 DEF StoreInvariant, RefsCountReaders
      <4>2. QED BY <1>2, <1>5, <1>6, <3>1, <4>1, HoldersCount
    <3>2. CASE g # x
      BY <1>2, <1>5, <1>6, <3>2 DEF StoreInvariant, RefsCountReaders
    <3>3. QED BY <3>1, <3>2
  <2>2. QED BY <2>1 DEF RefsCountReaders
<1>8. CountedIsOpen'
  BY <1>1, <1>2 DEF StoreInvariant, TypeOK, CountedIsOpen
<1>9. DisposersUncounted'
  <2>1. ASSUME NEW g \in Gens, refs[g] = 0 \/ (g = x /\ refs[x] = 1) PROVE refs'[g] = 0
    BY <1>1, <1>2, <2>1
  <2>2. QED BY <1>1, <1>3, <2>1, NoGenIsNoGen DEF StoreInvariant, DisposersUncounted
<1>10. CandidatesPrivate'
  <2>1. \A g \in Gens : Unpublished(g) => Unpublished(g)'
    BY <1>1, <1>3, <1>4, NoGenIsNoGen DEF Unpublished
  <2>2. QED BY <1>1, <2>1 DEF StoreInvariant, CandidatesPrivate
<1>11. OneOwner'
  BY <1>1, <1>4 DEF StoreInvariant, OneOwner
<1>12. QED BY <1>7, <1>8, <1>9, <1>10, <1>11 DEF StoreInvariant

LEMMA CloseDisposeStep ==
  ASSUME StoreInvariant, TypeOK', CloseDispose
  PROVE  StoreInvariant'
<1> USE DEF storeVars, clientVars, swapVars, closeVars
<1>1. /\ closing \in Gens /\ closing # NoGen /\ refs[closing] = 0
      /\ closing' = NoGen
      /\ UNCHANGED <<storeVars, refs, clientVars, swapVars, draining, awaited>>
  BY NoGenIsNoGen DEF CloseDispose, StoreInvariant, TypeOK, DisposersUncounted
<1>2. /\ pool'[closing] = "closed"
      /\ \A g \in Gens : g # closing => pool'[g] = pool[g]
  BY <1>1 DEF CloseDispose, ClosePool, StoreInvariant, TypeOK
<1>3. Owned' = Owned /\ (RollbackDistinct' <=> RollbackDistinct)
  BY <1>1, SlotsUnchanged
<1>4. \A g \in Gens : StoreOwns(g)' <=> StoreOwns(g)
  BY <1>1, <1>3 DEF StoreOwns
<1>5. \A g \in Gens : Holders(g)' = Holders(g)
  BY <1>1, SameHolders
<1>6. RefsCountReaders'
  BY <1>1, <1>4, <1>5 DEF StoreInvariant, RefsCountReaders
<1>7. CountedIsOpen'
  BY <1>1, <1>2 DEF StoreInvariant, CountedIsOpen
<1>8. DisposersUncounted'
  BY <1>1, NoGenIsNoGen DEF StoreInvariant, DisposersUncounted
<1>9. CandidatesPrivate'
  <2>1. \A g \in Gens : Unpublished(g) => Unpublished(g)' /\ g # closing
    BY <1>1, <1>3, NoGenIsNoGen DEF Unpublished
  <2>2. QED BY <1>1, <1>2, <2>1 DEF StoreInvariant, CandidatesPrivate
<1>10. OneOwner'
  BY <1>1, <1>3 DEF StoreInvariant, OneOwner
<1>11. QED BY <1>6, <1>7, <1>8, <1>9, <1>10 DEF StoreInvariant

\* A step that changes none of the variables the invariant depends on.
LEMMA QuietStep ==
  ASSUME StoreInvariant, TypeOK', CloseReturn \/ UNCHANGED vars
  PROVE  StoreInvariant'
<1> USE DEF storeVars, clientVars, swapVars, closeVars
<1>1. UNCHANGED <<storeVars, refs, pool, clientVars, swapVars, draining, closing>>
  BY DEF CloseReturn, vars
<1>2. Owned' = Owned /\ (RollbackDistinct' <=> RollbackDistinct)
  BY <1>1, SlotsUnchanged
<1>3. \A g \in Gens : StoreOwns(g)' <=> StoreOwns(g)
  BY <1>1, <1>2 DEF StoreOwns
<1>4. \A g \in Gens : Holders(g)' = Holders(g)
  BY <1>1, SameHolders
<1>5. RefsCountReaders'
  BY <1>1, <1>3, <1>4 DEF StoreInvariant, RefsCountReaders
<1>6. CountedIsOpen' /\ DisposersUncounted'
  BY <1>1 DEF StoreInvariant, CountedIsOpen, DisposersUncounted
<1>7. CandidatesPrivate'
  BY <1>1, <1>2 DEF StoreInvariant, CandidatesPrivate, Unpublished
<1>8. OneOwner'
  BY <1>1, <1>2 DEF StoreInvariant, OneOwner
<1>9. QED BY <1>5, <1>6, <1>7, <1>8 DEF StoreInvariant

-----------------------------------------------------------------------------
(* The theorems *)

LEMMA StoreInvariantInit == ASSUME Init PROVE StoreInvariant
<1>1. TypeOK
  BY TypeInit
<1>2. /\ rollback = <<>> /\ ~closed /\ draining = {} /\ closing = NoGen
      /\ \A c \in Clients : clientPc[c] = "idle" /\ held[c] = NoGen
      /\ \A s \in Swappers : swapPc[s] = "idle" /\ cand[s] = NoGen
      /\ \A g \in Gens : refs[g] = IF g = current THEN 1 ELSE 0
      /\ \A g \in Gens : pool[g] = IF g = current THEN "open" ELSE "absent"
  BY DEF Init
<1>3. RollbackSet = {} /\ Owned = {current} \ {NoGen}
  BY <1>2 DEF RollbackSet, Owned
<1>4. \A g \in Gens : StoreOwns(g) <=> g = current
  BY <1>2, <1>3, NoGenIsNoGen DEF StoreOwns
<1>5. \A g \in Gens : Holders(g) = {}
  BY <1>2 DEF Holders
<1>6. RefsCountReaders
  BY <1>2, <1>4, <1>5, HoldersCount DEF RefsCountReaders
<1>7. CountedIsOpen /\ DisposersUncounted
  BY <1>2, NoGenIsNoGen DEF CountedIsOpen, DisposersUncounted
<1>8. CandidatesPrivate
  BY <1>2, <1>3, NoGenIsNoGen DEF CandidatesPrivate, Unpublished
<1>9. OneOwner
  BY <1>2, <1>3 DEF OneOwner, RollbackDistinct
<1>10. QED BY <1>1, <1>6, <1>7, <1>8, <1>9 DEF StoreInvariant

\* The invariant of the whole store: every reference count is exact, in
\* every interleaving of Acquire, release, Swap, Rollback and Close.
THEOREM StoreInvariantHolds == Spec => []StoreInvariant
<1>1. Init => StoreInvariant
  BY StoreInvariantInit
<1>2. StoreInvariant /\ [Next]_vars => StoreInvariant'
  <2> SUFFICES ASSUME StoreInvariant, [Next]_vars PROVE StoreInvariant'
    OBVIOUS
  <2>1. TypeOK'
    BY TypeStep DEF StoreInvariant
  <2>2. QED
    BY <2>1, AcquireStep, ReleaseStep, ClientDisposeStep, BuildStep, RejectStep,
       SwapStep, ReleaseEvictedStep, SwapperDisposeStep, RollbackStep,
       CloseBeginStep, CloseReleaseStep, CloseDisposeStep, QuietStep
    DEF Next
<1>3. QED BY <1>1, <1>2, PTL DEF Spec

\* Counts are exact: no release is lost or doubled.
THEOREM CountsExact == Spec => []RefsCountReaders
<1>1. StoreInvariant => RefsCountReaders
  BY DEF StoreInvariant
<1>2. QED BY <1>1, StoreInvariantHolds, PTL

\* A request never reasons over a generation whose handles are closed.
THEOREM BorrowersAreSafe == Spec => []NoUseAfterClose
<1>1. ASSUME StoreInvariant, NEW c \in Clients, clientPc[c] = "holding"
      PROVE  pool[held[c]] = "open"
  <2>1. held[c] \in Gens
    BY <1>1 DEF StoreInvariant, TypeOK
  <2>2. refs[held[c]] > 0
    BY <1>1, <2>1, CountedIffReachable DEF StoreInvariant
  <2>3. QED BY <1>1, <2>1, <2>2 DEF StoreInvariant, CountedIsOpen
<1>2. StoreInvariant => NoUseAfterClose
  BY <1>1 DEF NoUseAfterClose
<1>3. QED BY <1>2, StoreInvariantHolds, PTL

\* What the store serves, or could roll back to, is open.
THEOREM ServedIsOpen == Spec => []OwnedGenerationsOpen
<1>1. ASSUME StoreInvariant, NEW g \in Owned PROVE pool[g] = "open"
  <2>1. g \in Gens /\ StoreOwns(g)
    BY <1>1, OwnedIsGens DEF StoreInvariant, StoreOwns
  <2>2. QED BY <1>1, <2>1, CountedIffReachable DEF StoreInvariant, CountedIsOpen
<1>2. StoreInvariant => OwnedGenerationsOpen
  BY <1>1 DEF OwnedGenerationsOpen
<1>3. QED BY <1>2, StoreInvariantHolds, PTL

\* When Close has returned, nothing it took over is still in use.
THEOREM CloseIsComplete == Spec => []CloseDrainsReaders
<1> DEFINE Inv == closePc = "returned" => \A g \in awaited : pool[g] = "closed"
<1>1. Init => Inv
  BY DEF Init
<1>2. StoreInvariant /\ Inv /\ [Next]_vars => Inv'
  <2> SUFFICES ASSUME StoreInvariant, Inv, [Next]_vars PROVE Inv'
    OBVIOUS
  <2> USE DEF storeVars, clientVars, swapVars, closeVars
  <2>1. CASE CloseReturn
    BY <2>1 DEF CloseReturn
  <2>2. CASE ~CloseReturn
    <3>1. closePc' = "returned" => closePc = "returned" /\ awaited' = awaited
      BY <2>2 DEF Next, vars, Acquire, Release, ClientDispose, Build, Reject, Swap,
           ReleaseEvicted, SwapperDispose, Rollback, CloseBegin, CloseRelease,
           CloseDispose, StoreInvariant, TypeOK
    <3>2. \A g \in Gens : pool[g] = "closed" => pool'[g] = "closed"
      BY <2>2 DEF Next, vars, Acquire, Release, ClientDispose, Build, Reject, Swap,
           ReleaseEvicted, SwapperDispose, Rollback, CloseBegin, CloseRelease,
           CloseDispose, ClosePool, StoreInvariant, TypeOK
    <3>3. QED BY <3>1, <3>2 DEF StoreInvariant, TypeOK
  <2>3. QED BY <2>1, <2>2
<1>3. ASSUME StoreInvariant, Inv PROVE CloseDrainsReaders
  <2> SUFFICES ASSUME closePc = "returned", NEW g \in awaited
               PROVE  pool[g] = "closed" /\ Holders(g) = {}
    BY DEF CloseDrainsReaders
  <2>1. g \in Gens /\ pool[g] = "closed"
    BY <1>3 DEF StoreInvariant, TypeOK
  <2>2. ~(refs[g] > 0)
    BY <1>3, <2>1 DEF StoreInvariant, CountedIsOpen
  <2>3. Holders(g) = {}
    BY <1>3, <2>1, <2>2, CountedIffReachable DEF Holders, StoreInvariant
  <2>4. QED BY <2>1, <2>3
<1>4. QED BY <1>1, <1>2, <1>3, StoreInvariantHolds, PTL DEF Spec

\* A count that dropped to zero rises again only when the candidate it
\* belongs to is first swapped in.
THEOREM NoResurrectionHolds == Spec => NoResurrection
<1> DEFINE Step == \A g \in Gens : pool[g] # "absent" /\ refs[g] = 0 /\ refs'[g] > 0
                     => \E s \in Swappers : swapPc[s] = "candidate" /\ cand[s] = g
<1>1. StoreInvariant /\ [Next]_vars => [Step]_vars
  <2> SUFFICES ASSUME StoreInvariant, [Next]_vars, NEW g \in Gens,
                      refs[g] = 0, refs'[g] > 0
               PROVE  \E s \in Swappers : swapPc[s] = "candidate" /\ cand[s] = g
    OBVIOUS
  <2> USE DEF storeVars, clientVars, swapVars, closeVars
  <2>1. ASSUME NEW c \in Clients, Acquire(c) PROVE FALSE
    <3>1. current \in Gens /\ StoreOwns(current) /\ refs' = [refs EXCEPT ![current] = @ + 1]
      BY <2>1, NoGenIsNoGen DEF Acquire, StoreInvariant, TypeOK, StoreOwns, Owned
    <3>2. refs[current] > 0
      BY <3>1, CountedIffReachable DEF StoreInvariant
    <3>3. QED BY <3>1, <3>2 DEF StoreInvariant, TypeOK
  <2>2. ASSUME NEW s \in Swappers, Swap(s)
        PROVE  swapPc[s] = "candidate" /\ cand[s] = g
    <3>1. swapPc[s] = "candidate" /\ refs' = [refs EXCEPT ![cand[s]] = 1] /\ cand[s] \in Gens
      BY <2>2 DEF Swap, StoreInvariant, TypeOK
    <3>2. QED BY <3>1 DEF StoreInvariant, TypeOK
  <2>3. ASSUME NEW h \in Gens, DropRef(h) PROVE FALSE
    <3>1. refs'[g] = IF g = h /\ refs[h] # 0 THEN refs[h] - 1 ELSE refs[g]
      BY <2>3, DropRefType DEF StoreInvariant, TypeOK
    <3>2. QED BY <3>1
  <2>4. ASSUME NEW c \in Clients, Release(c) PROVE FALSE
    BY <2>3, <2>4 DEF Release, StoreInvariant, TypeOK
  <2>5. ASSUME NEW s \in Swappers, ReleaseEvicted(s) PROVE FALSE
    BY <2>3, <2>5 DEF ReleaseEvicted, StoreInvariant, TypeOK
  <2>6. ASSUME NEW h \in Gens, CloseRelease(h) PROVE FALSE
    BY <2>3, <2>6 DEF CloseRelease
  <2>7. ASSUME refs' = refs PROVE FALSE
    BY <2>7 DEF StoreInvariant, TypeOK
  <2>8. QED
    BY <2>1, <2>2, <2>4, <2>5, <2>6, <2>7
    DEF Next, vars, ClientDispose, Build, Reject, SwapperDispose, Rollback,
        CloseBegin, CloseDispose, CloseReturn
<1>2. QED BY <1>1, StoreInvariantHolds, PTL DEF Spec, NoResurrection

-----------------------------------------------------------------------------
(* The store implements GenerationService *)

\* What the refinement mapping makes of a client: what it holds.
LEMMA LentIsHeld ==
  ASSUME StoreInvariant, NEW g \in Gens, refs[g] = 0, g \notin Owned
  PROVE  /\ g # current /\ g \notin RollbackSet
         /\ \A c \in Clients : (IF clientPc[c] = "holding" THEN held[c] ELSE NoGen) # g
<1>1. g # current /\ g \notin RollbackSet
  BY NoGenIsNoGen DEF Owned
<1>2. \A c \in Clients : clientPc[c] = "holding" => held[c] # g
  BY CountedIffReachable DEF StoreInvariant
<1>3. QED BY <1>1, <1>2, NoGenIsNoGen

\* Closing the pool of a generation nobody counts is the abstract Dispose.
LEMMA DisposeStep ==
  ASSUME StoreInvariant, NEW g \in Gens, refs[g] = 0, g \notin Owned,
         pool' = [pool EXCEPT ![g] = "closed"],
         UNCHANGED <<current, rollback, closed>>,
         \A c \in Clients : clientPc[c] = "holding" <=> clientPc'[c] = "holding",
         \A c \in Clients : clientPc[c] = "holding" => held'[c] = held[c]
  PROVE  Service!Dispose(g)
<1>1. /\ g # current /\ g \notin RollbackSet
      /\ \A c \in Clients : (IF clientPc[c] = "holding" THEN held[c] ELSE NoGen) # g
  BY LentIsHeld
<1>2. {h \in Gens : pool'[h] = "closed"} = {h \in Gens : pool[h] = "closed"} \cup {g}
  BY DEF StoreInvariant, TypeOK
<1>3. RollbackSet' = RollbackSet
  BY DEF RollbackSet
<1>4. [c \in Clients |-> IF clientPc'[c] = "holding" THEN held'[c] ELSE NoGen]
        = [c \in Clients |-> IF clientPc[c] = "holding" THEN held[c] ELSE NoGen]
  OBVIOUS
<1>5. QED BY <1>1, <1>2, <1>3, <1>4 DEF Service!Dispose

\* The detailed store is an implementation of the abstract service: each of
\* its steps is a step of GenerationService or leaves it unchanged.
THEOREM StoreImplementsService == Spec => ImplementsService
<1> DEFINE lent == [c \in Clients |-> IF clientPc[c] = "holding" THEN held[c] ELSE NoGen]
           disposed == {g \in Gens : pool[g] = "closed"}
<1>1. Init => Service!Init
  <2> SUFFICES ASSUME Init PROVE Service!Init
    OBVIOUS
  <2>1. RollbackSet = {}
    BY DEF Init, RollbackSet
  <2>2. lent = [c \in Clients |-> NoGen]
    BY DEF Init
  <2>3. disposed = {}
    BY DEF Init
  <2>4. QED BY <2>1, <2>2, <2>3 DEF Init, Service!Init
<1>2. StoreInvariant /\ [Next]_vars => [Service!Next]_(Service!vars)
  <2> SUFFICES ASSUME StoreInvariant, [Next]_vars
               PROVE  Service!Next \/ UNCHANGED Service!vars
    OBVIOUS
  <2> USE DEF storeVars, clientVars, swapVars, closeVars
  <2>1. ASSUME NEW c \in Clients, Acquire(c) PROVE Service!Borrow(c)
    <3>1. /\ lent[c] = NoGen /\ current # NoGen
          /\ UNCHANGED <<current, rollback, closed, pool>>
      BY <2>1 DEF Acquire
    <3>2. lent' = [lent EXCEPT ![c] = current]
      BY <2>1 DEF Acquire, StoreInvariant, TypeOK
    <3>3. RollbackSet' = RollbackSet
      BY <3>1 DEF RollbackSet
    <3>4. QED BY <3>1, <3>2, <3>3 DEF Service!Borrow
  <2>2. ASSUME NEW c \in Clients, Release(c) PROVE Service!Return(c)
    <3>1. /\ lent[c] # NoGen
          /\ UNCHANGED <<current, rollback, closed, pool>>
      BY <2>2 DEF Release, StoreInvariant, TypeOK
    <3>2. lent' = [lent EXCEPT ![c] = NoGen]
      BY <2>2 DEF Release, StoreInvariant, TypeOK
    <3>3. RollbackSet' = RollbackSet
      BY <3>1 DEF RollbackSet
    <3>4. QED BY <3>1, <3>2, <3>3 DEF Service!Return
  <2>3. ASSUME NEW c \in Clients, ClientDispose(c) PROVE \E g \in Gens : Service!Dispose(g)
    <3>1. held[c] \in Gens /\ refs[held[c]] = 0
      BY <2>3 DEF ClientDispose, StoreInvariant, TypeOK, DisposersUncounted
    <3>2. held[c] \notin Owned
      BY <3>1, CountedIffReachable DEF StoreInvariant, StoreOwns
    <3>3. PICK g \in Gens : g = held[c]
      BY <3>1
    <3>4. /\ pool' = [pool EXCEPT ![g] = "closed"]
          /\ \A d \in Clients : clientPc[d] = "holding" <=> clientPc'[d] = "holding"
          /\ \A d \in Clients : clientPc[d] = "holding" => held'[d] = held[d]
          /\ UNCHANGED <<current, rollback, closed>>
      BY <2>3, <3>3 DEF ClientDispose, ClosePool, StoreInvariant, TypeOK
    <3>5. Service!Dispose(g)
      BY <3>1, <3>2, <3>3, <3>4, DisposeStep
    <3>6. QED BY <3>5
  <2>4. ASSUME NEW s \in Swappers, NEW g \in Gens, Build(s, g) PROVE UNCHANGED Service!vars
    <3>1. /\ disposed' = disposed /\ lent' = lent
          /\ UNCHANGED <<current, rollback, closed>>
      BY <2>4 DEF Build, StoreInvariant, TypeOK
    <3>2. RollbackSet' = RollbackSet
      BY <3>1 DEF RollbackSet
    <3>3. QED BY <3>1, <3>2 DEF Service!vars
  <2>5. ASSUME NEW s \in Swappers, Reject(s) PROVE \E g \in Gens : Service!Dispose(g)
    <3>1. cand[s] \in Gens /\ Unpublished(cand[s]) /\ swapPc[s] = "candidate"
      BY <2>5, NoGenIsNoGen DEF Reject, StoreInvariant, TypeOK, CandidatesPrivate
    <3>2. ~StoreOwns(cand[s]) /\ Holders(cand[s]) = {}
      BY <3>1 DEF StoreInvariant, TypeOK, CandidatesPrivate, Unpublished, StoreOwns, Holders
    <3>3. refs[cand[s]] = 0 /\ cand[s] \notin Owned
      BY <3>1, <3>2, CountedIffReachable DEF StoreInvariant, Unpublished
    <3>4. PICK g \in Gens : g = cand[s]
      BY <3>1
    <3>5. /\ pool' = [pool EXCEPT ![g] = "closed"]
          /\ UNCHANGED <<current, rollback, closed, clientVars>>
      BY <2>5, <3>4 DEF Reject, ClosePool
    <3>6. Service!Dispose(g)
      BY <3>1, <3>3, <3>4, <3>5, DisposeStep
    <3>7. QED BY <3>6
  <2>6. ASSUME NEW s \in Swappers, Swap(s) PROVE \E g \in Gens : Service!Publish(g)
    <3>1. /\ cand[s] \in Gens /\ cand[s] \notin disposed /\ cand[s] \notin Owned
          /\ ~closed /\ current' = cand[s]
          /\ UNCHANGED <<closed, pool, clientVars>>
      BY <2>6 DEF Swap, StoreInvariant, TypeOK, CandidatesPrivate, Unpublished
    <3>2. RollbackDistinct' /\ Owned' \in SUBSET (Owned \cup {cand[s]})
      BY <2>6, <3>1, SwapOwned DEF StoreInvariant, OneOwner
    <3>3. RollbackSet' \in SUBSET (RollbackSet \cup ({current} \ {NoGen}))
      BY <3>1, <3>2 DEF RollbackDistinct, Owned
    <3>4. lent' = lent /\ disposed' = disposed
      BY <3>1
    <3>5. Service!Publish(cand[s])
      BY <3>1, <3>3, <3>4 DEF Service!Publish
    <3>6. QED BY <3>1, <3>5
  <2>7. ASSUME NEW s \in Swappers, SwapperDispose(s) PROVE \E g \in Gens : Service!Dispose(g)
    <3>1. cand[s] \in Gens /\ refs[cand[s]] = 0
      BY <2>7 DEF SwapperDispose, StoreInvariant, TypeOK, DisposersUncounted
    <3>2. cand[s] \notin Owned
      BY <3>1, CountedIffReachable DEF StoreInvariant, StoreOwns
    <3>3. PICK g \in Gens : g = cand[s]
      BY <3>1
    <3>4. /\ pool' = [pool EXCEPT ![g] = "closed"]
          /\ UNCHANGED <<current, rollback, closed, clientVars>>
      BY <2>7, <3>3 DEF SwapperDispose, ClosePool
    <3>5. Service!Dispose(g)
      BY <3>1, <3>2, <3>3, <3>4, DisposeStep
    <3>6. QED BY <3>5
  <2>8. CASE Rollback
    <3>1. /\ rollback[1] \in RollbackSet /\ current # NoGen /\ current' = rollback[1]
          /\ rollback[1] \in Gens /\ current' # NoGen
          /\ UNCHANGED <<closed, pool, clientVars>>
      BY <2>8, NoGenIsNoGen DEF Rollback, RollbackSet, StoreInvariant, TypeOK
    <3>2. RollbackDistinct /\ RollbackDistinct' /\ Owned' = Owned
      BY <2>8, RollbackOwned DEF StoreInvariant, OneOwner
    <3>3. NoGen \notin RollbackSet /\ NoGen \notin RollbackSet'
      <4>1. TypeOK'
        BY TypeStep DEF StoreInvariant
      <4>2. \A i \in 1..Len(rollback) : rollback[i] # NoGen
        BY NoGenIsNoGen DEF StoreInvariant, TypeOK
      <4>3. \A i \in 1..Len(rollback') : rollback'[i] # NoGen
        BY <4>1, NoGenIsNoGen DEF TypeOK
      <4>4. QED BY <4>2, <4>3 DEF RollbackSet
    <3>4. RollbackSet' = (RollbackSet \ {rollback[1]}) \cup {current}
      BY <3>1, <3>2, <3>3 DEF RollbackDistinct, Owned
    <3>5. lent' = lent /\ disposed' = disposed
      BY <3>1
    <3>6. Service!Revert(rollback[1])
      BY <3>1, <3>4, <3>5 DEF Service!Revert
    <3>7. QED BY <3>1, <3>6 DEF Service!Next
  <2>9. CASE CloseBegin
    <3>1. /\ ~closed /\ closed' /\ closed' \in BOOLEAN /\ current' = NoGen /\ rollback' = <<>>
          /\ UNCHANGED <<pool, clientVars>>
      BY <2>9, TypeStep DEF CloseBegin, StoreInvariant, TypeOK
    <3>2. RollbackSet' = {}
      BY <3>1 DEF RollbackSet
    <3>3. lent' = lent /\ disposed' = disposed
      BY <3>1
    <3>4. Service!Shutdown
      BY <2>9, <3>1, <3>2, <3>3 DEF CloseBegin, Service!Shutdown
    <3>5. QED BY <3>4 DEF Service!Next
  <2>10. CASE CloseDispose
    <3>1. closing \in Gens /\ refs[closing] = 0
      BY <2>10 DEF CloseDispose, StoreInvariant, TypeOK, DisposersUncounted
    <3>2. closing \notin Owned
      BY <3>1, CountedIffReachable DEF StoreInvariant, StoreOwns
    <3>3. PICK g \in Gens : g = closing
      BY <3>1
    <3>4. /\ pool' = [pool EXCEPT ![g] = "closed"]
          /\ UNCHANGED <<current, rollback, closed, clientVars>>
      BY <2>10, <3>3 DEF CloseDispose, ClosePool
    <3>5. Service!Dispose(g)
      BY <3>1, <3>2, <3>3, <3>4, DisposeStep
    <3>6. QED BY <3>5 DEF Service!Next
  <2>11. ASSUME UNCHANGED <<current, rollback, closed, pool, clientVars>>
         PROVE  UNCHANGED Service!vars
    <3>1. lent' = lent /\ disposed' = disposed /\ RollbackSet' = RollbackSet
      BY <2>11 DEF RollbackSet
    <3>2. QED BY <2>11, <3>1 DEF Service!vars
  <2>12. QED
    BY <2>1, <2>2, <2>3, <2>4, <2>5, <2>6, <2>7, <2>8, <2>9, <2>10, <2>11
    DEF Next, vars, Service!Next, ReleaseEvicted, CloseRelease, CloseReturn
<1>3. QED BY <1>1, <1>2, StoreInvariantHolds, PTL DEF Spec, ImplementsService, Service!Spec
=============================================================================
