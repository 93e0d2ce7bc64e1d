----------------------------- MODULE QueryProofs -----------------------------
(***************************************************************************)
(* Proofs about what a query passes on its way: the pool whose handle it   *)
(* takes (HandlePool), for any number of callers and handles; and the load *)
(* tracker that counts it (LoadTracker), for any number of queries and     *)
(* passers, any quiet time and any bound of the clock.                     *)
(***************************************************************************)
EXTENDS HandlePool, LoadTracker, FiniteSetTheorems, TLAPS

-----------------------------------------------------------------------------
(* The pool of handles *)

\* The callers that entered are finitely many.
LEMMA EnteredFinite == IsFiniteSet(Entered)
  BY CallersFinite, FS_Subset DEF Entered

\* A pool that starts satisfies the invariant.
LEMMA InvariantInit == ASSUME PoolInit PROVE PoolInvariant
<1>1. PoolTypeOK
  BY NoHandleIsNoHandle DEF PoolInit, PoolTypeOK
<1>2. Entered = {}
  BY DEF PoolInit, Entered
<1>3. Cardinality(Entered) = 0
  BY <1>2, FS_EmptySet
<1>4. HandlesListed
  BY DEF PoolInit, HandlesListed
<1>5. QED BY <1>1, <1>2, <1>3, <1>4
     DEF PoolInit, PoolInvariant, HandlesConserved

\* Letting a query in adds it to the callers that entered, and to them only.
LEMMA EnterCounts ==
  ASSUME PoolTypeOK, wg = Cardinality(Entered), NEW c \in Callers, Enter(c), ~closed
  PROVE  wg' = Cardinality(Entered)'
<1>1. Entered' = Entered \cup {c} /\ c \notin Entered
  BY DEF Enter, Entered, PoolTypeOK
<1>2. Cardinality(Entered \cup {c}) = Cardinality(Entered) + 1
  BY <1>1, EnteredFinite, FS_AddElement
<1>3. wg' = wg + 1
  BY DEF Enter
<1>4. QED BY <1>1, <1>2, <1>3

\* wg.Done takes one query off the callers that entered.
LEMMA LeaveCounts ==
  ASSUME PoolTypeOK, wg = Cardinality(Entered), NEW c \in Callers, Leave(c)
  PROVE  wg' = Cardinality(Entered)' /\ wg' \in Nat /\ Entered # {}
<1>1. Entered' = Entered \ {c} /\ c \in Entered
  BY DEF Leave, Entered, PoolTypeOK
<1>2. Cardinality(Entered \ {c}) = Cardinality(Entered) - 1
  BY <1>1, EnteredFinite, FS_RemoveElement
<1>3. IsFiniteSet(Entered \ {c})
  BY <1>1, EnteredFinite, FS_RemoveElement
<1>4. Cardinality(Entered \ {c}) \in Nat
  BY <1>3, FS_CardinalityType
<1>5. wg' = wg - 1
  BY DEF Leave
<1>6. QED BY <1>1, <1>2, <1>4, <1>5

\* A step of a caller touches neither the list nor a handle.
LEMMA CallersLeaveTheList ==
  ASSUME HandlesListed, UNCHANGED <<phase, handle, listVars, closePc>>
  PROVE  HandlesListed'
BY DEF HandlesListed, listVars

\* Where callers and idle handles stay as they are, so do the queries entered.
LEMMA CallersStay ==
  ASSUME UNCHANGED callerVars
  PROVE  Entered' = Entered
BY DEF callerVars, Entered

\* Opening, initializing and giving up keep the list of what is open.
LEMMA ConstructStep ==
  ASSUME PoolInvariant, Construct
  PROVE  PoolInvariant'
<1> USE NoHandleIsNoHandle
<1>1. Entered' = Entered /\ UNCHANGED <<pc, holds, wg>>
  BY CallersStay DEF Construct, OpenHandle, InitHandle, OpenFails, InitFails, callerVars
<1>2. ASSUME NEW h \in Handles, OpenHandle(h) PROVE PoolInvariant'
  <2>1. PoolTypeOK'
    BY <1>2 DEF OpenHandle, callerVars, PoolInvariant, PoolTypeOK
  <2>2. HandlesListed'
    BY <1>2 DEF OpenHandle, PoolInvariant, PoolTypeOK, HandlesListed
  <2>3. HandlesConserved'
    BY <1>2 DEF OpenHandle, callerVars, PoolInvariant, HandlesConserved
  <2>4. QED BY <1>1, <1>2, <2>1, <2>2, <2>3 DEF OpenHandle, callerVars, PoolInvariant
<1>3. CASE InitHandle
  <2>1. /\ handles' \in Seq(Handles) /\ Len(handles') = Len(handles) + 1
        /\ \A i \in 1 .. Len(handles) : handles'[i] = handles[i]
        /\ handles'[Len(handles) + 1] = fresh
        /\ Len(handles) \in Nat
        /\ phase = "opening" /\ closePc = "idle" /\ next = 1
    BY <1>3 DEF InitHandle, PoolInvariant, PoolTypeOK, HandlesListed
  <2>2. PoolTypeOK'
    BY <1>3, <2>1 DEF InitHandle, callerVars, PoolInvariant, PoolTypeOK
  <2>3. HandlesListed'
    BY <1>3, <2>1 DEF InitHandle, PoolInvariant, PoolTypeOK, HandlesListed
  <2>4. HandlesConserved'
    <3>1. \A c \in Callers : holds[c] = NoHandle
      BY <2>1 DEF PoolInvariant, PoolTypeOK
    <3>2. \A i \in 1 .. Len(handles) : handles[i] \in available
      BY <3>1 DEF PoolInvariant, PoolTypeOK, HandlesConserved
    <3>3. \A i \in 1 .. Len(handles') : handles'[i] \in available'
      BY <1>3, <2>1, <3>2 DEF InitHandle
    <3>4. QED BY <1>1, <3>1, <3>3 DEF HandlesConserved
  <2>5. \A h \in available' : \E i \in 1 .. Len(handles') : handles'[i] = h
    BY <1>3, <2>1 DEF InitHandle, PoolInvariant
  <2>6. \A c \in Callers : holds'[c] = NoHandle /\ pc'[c] = "idle"
    BY <1>1, <2>1 DEF PoolInvariant, PoolTypeOK
  <2>7. QED BY <1>1, <1>3, <2>1, <2>2, <2>3, <2>4, <2>5, <2>6 DEF InitHandle, PoolInvariant
<1>4. CASE OpenFails \/ InitFails
  <2>1. PoolTypeOK'
    BY <1>4 DEF OpenFails, InitFails, callerVars, listVars, PoolInvariant, PoolTypeOK
  <2>2. HandlesListed'
    <3>1. CASE OpenFails
      BY <3>1 DEF OpenFails, listVars, PoolInvariant, HandlesListed
    <3>2. CASE InitFails
      <4>1. fresh \in Handles /\ phase = "opening" /\ closePc = "idle" /\ next = 1
        BY <3>2 DEF InitFails, PoolInvariant, PoolTypeOK, HandlesListed
      <4>2. \A i \in 1 .. Len(handles) : handles[i] \in Handles \ {fresh}
        BY DEF PoolInvariant, PoolTypeOK, HandlesListed
      <4>3. \A i \in 1 .. Len(handles) : handle'[handles[i]] = handle[handles[i]]
        BY <3>2, <4>2 DEF InitFails, PoolInvariant, PoolTypeOK
      <4>4. \A h \in Handles : handle'[h] = "open" => h # fresh /\ handle[h] = "open"
        BY <3>2, <4>1 DEF InitFails, PoolInvariant, PoolTypeOK
      <4>5. \A i, j \in 1 .. Len(handles) : handles[i] = handles[j] => i = j
        BY DEF PoolInvariant, HandlesListed
      <4>6. \A h \in Handles : handle'[h] = "open" => \E i \in 1 .. Len(handles) : handles[i] = h
        BY <4>4 DEF PoolInvariant, HandlesListed
      <4>7. \A i \in 1 .. Len(handles) : handle'[handles[i]] = IF i < next THEN "closed" ELSE "open"
        BY <4>3 DEF PoolInvariant, HandlesListed
      <4>8. fresh' = NoHandle /\ UNCHANGED <<handles, next>> /\ phase' = "failed" /\ closePc' = "waiting"
        BY <3>2 DEF InitFails
      <4>9. \A i \in 1 .. Len(handles) : handles[i] # fresh'
        BY <4>2, <4>8
      <4>10. QED BY <4>1, <4>5, <4>6, <4>7, <4>8, <4>9 DEF HandlesListed
    <3>3. QED BY <1>4, <3>1, <3>2
  <2>3. HandlesConserved'
    BY <1>4 DEF OpenFails, InitFails, callerVars, listVars, PoolInvariant, HandlesConserved
  <2>4. \A c \in Callers : pc[c] = "idle"
    BY <1>4 DEF OpenFails, InitFails, PoolInvariant, HandlesListed
  <2>5. closePc = "idle" /\ closePc' = "waiting" /\ phase' = "failed"
        /\ UNCHANGED <<available, handles>>
    <3>1. phase = "opening"
      BY <1>4 DEF OpenFails, InitFails, PoolInvariant, HandlesListed
    <3>2. QED BY <1>4, <3>1 DEF OpenFails, InitFails, listVars, PoolInvariant, HandlesListed
  <2>6. QED BY <1>1, <2>1, <2>2, <2>3, <2>4, <2>5 DEF PoolInvariant
<1>5. QED BY <1>2, <1>3, <1>4 DEF Construct

\* A query that takes a handle, runs and gives it back keeps the invariant.
LEMMA CallerKeeps ==
  ASSUME PoolInvariant, NEW c \in Callers, CallerStep(c)
  PROVE  PoolInvariant'
<1> USE NoHandleIsNoHandle
<1>1. HandlesListed' /\ UNCHANGED <<phase, handle, fresh, handles, next, closePc>>
  BY CallersLeaveTheList
  DEF CallerStep, QueryStart, TakeHandle, GiveUp, RefuseWaiter, Enter, ReturnHandle, Leave,
      PoolInvariant, listVars
<1>2. CASE QueryStart(c) \/ GiveUp(c) \/ RefuseWaiter(c)
  <2>1. Entered' = Entered
    BY <1>2 DEF QueryStart, GiveUp, RefuseWaiter, Entered, PoolInvariant, PoolTypeOK
  <2>2. PoolTypeOK'
    <3>1. pc[c] \in {"idle", "selecting"} /\ pc' \in [Callers -> {"idle", "selecting", "holding", "running", "rejected", "leaving"}]
          /\ pc'[c] \in {"idle", "selecting"} /\ \A d \in Callers \ {c} : pc'[d] = pc[d]
      BY <1>2 DEF QueryStart, GiveUp, RefuseWaiter, PoolInvariant, PoolTypeOK
    <3>2. UNCHANGED <<available, holds, wg>>
      BY <1>2 DEF QueryStart, GiveUp, RefuseWaiter
    <3>3. QED BY <1>1, <3>1, <3>2 DEF PoolInvariant, PoolTypeOK
  <2>3. HandlesConserved'
    BY <1>1, <1>2 DEF QueryStart, GiveUp, RefuseWaiter, PoolInvariant, HandlesConserved
  <2>4. QED BY <1>1, <1>2, <2>1, <2>2, <2>3
       DEF QueryStart, GiveUp, RefuseWaiter, PoolInvariant, PoolTypeOK
<1>3. CASE TakeHandle(c)
  <2>1. Entered' = Entered
    BY <1>3 DEF TakeHandle, Entered, PoolInvariant, PoolTypeOK
  <2>2. PICK h \in available : /\ available' = available \ {h}
                               /\ holds' = [holds EXCEPT ![c] = h]
    BY <1>3 DEF TakeHandle
  <2>3. h \in Handles /\ holds[c] = NoHandle
    BY <1>3, <2>2 DEF TakeHandle, PoolInvariant, PoolTypeOK
  <2>4. PoolTypeOK'
    BY <1>1, <1>3, <2>2, <2>3 DEF TakeHandle, PoolInvariant, PoolTypeOK
  <2>5. HandlesConserved'
    BY <1>1, <1>3, <2>2, <2>3 DEF TakeHandle, PoolInvariant, PoolTypeOK, HandlesConserved
  <2>6. QED BY <1>1, <1>3, <2>1, <2>2, <2>3, <2>4, <2>5
       DEF TakeHandle, PoolInvariant, PoolTypeOK
<1>4. CASE Enter(c)
  <2>1. PoolTypeOK' /\ HandlesConserved'
    BY <1>1, <1>4 DEF Enter, PoolInvariant, PoolTypeOK, HandlesConserved
  <2>2. CASE closed
    <3>1. Entered' = Entered
      BY <1>4, <2>2 DEF Enter, Entered, PoolInvariant, PoolTypeOK
    <3>2. QED BY <1>1, <1>4, <2>1, <2>2, <3>1 DEF Enter, PoolInvariant, PoolTypeOK
  <2>3. CASE ~closed
    <3>1. wg' = Cardinality(Entered)'
      BY <1>4, <2>3, EnterCounts DEF PoolInvariant
    <3>2. closePc' = "idle"
      BY <1>4, <2>3 DEF Enter, closed
    <3>3. QED BY <1>1, <1>4, <2>1, <3>1, <3>2 DEF Enter, PoolInvariant, PoolTypeOK
  <2>4. QED BY <2>2, <2>3
<1>5. CASE ReturnHandle(c)
  <2>1. Entered' = Entered
    BY <1>5 DEF ReturnHandle, Entered, PoolInvariant, PoolTypeOK
  <2>2. holds[c] \in Handles
    BY <1>5 DEF ReturnHandle, PoolInvariant, PoolTypeOK
  <2>3. PoolTypeOK'
    BY <1>1, <1>5, <2>2 DEF ReturnHandle, PoolInvariant, PoolTypeOK
  <2>4. HandlesConserved'
    BY <1>1, <1>5, <2>2 DEF ReturnHandle, PoolInvariant, PoolTypeOK, HandlesConserved
  <2>5. QED BY <1>1, <1>5, <2>1, <2>2, <2>3, <2>4
       DEF ReturnHandle, PoolInvariant, PoolTypeOK
<1>6. CASE Leave(c)
  <2>1. wg' = Cardinality(Entered)' /\ wg' \in Nat /\ Entered # {}
    BY <1>6, LeaveCounts DEF PoolInvariant
  <2>2. PoolTypeOK' /\ HandlesConserved'
    BY <1>1, <1>6, <2>1 DEF Leave, PoolInvariant, PoolTypeOK, HandlesConserved
  <2>3. closePc' \notin {"closing", "closed"}
    BY <1>6, <2>1 DEF Leave, PoolInvariant, PoolTypeOK
  <2>4. QED BY <1>1, <1>6, <2>1, <2>2, <2>3 DEF Leave, PoolInvariant, PoolTypeOK
<1>7. QED BY <1>2, <1>3, <1>4, <1>5, <1>6 DEF CallerStep

\* Close closes what is listed, one after the other, once no query runs.
LEMMA CloseKeeps ==
  ASSUME PoolInvariant, CloseStep
  PROVE  PoolInvariant'
<1> USE NoHandleIsNoHandle
<1>1. Entered' = Entered /\ UNCHANGED <<pc, holds, available, wg, phase, fresh, handles>>
  BY CallersStay
  DEF CloseStep, CloseBegin, CloseDrained, CloseHandle, CloseReturn, callerVars, listVars
<1>2. HandlesConserved'
  BY <1>1 DEF PoolInvariant, HandlesConserved
<1>3. CASE CloseBegin
  <2>1. PoolTypeOK' /\ HandlesListed'
    BY <1>1, <1>3 DEF CloseBegin, listVars, PoolInvariant, PoolTypeOK, HandlesListed
  <2>2. QED BY <1>1, <1>2, <1>3, <2>1 DEF CloseBegin, PoolInvariant
<1>4. CASE CloseDrained
  <2>1. PoolTypeOK' /\ HandlesListed'
    BY <1>1, <1>4 DEF CloseDrained, listVars, PoolInvariant, PoolTypeOK, HandlesListed
  <2>2. Entered = {}
    BY <1>4, EnteredFinite, FS_EmptySet DEF CloseDrained, PoolInvariant
  <2>3. QED BY <1>1, <1>2, <1>4, <2>1, <2>2 DEF CloseDrained, PoolInvariant
<1>5. CASE CloseHandle
  <2>1. /\ next \in 1 .. Len(handles) /\ Len(handles) \in Nat
        /\ handles[next] \in Handles
        /\ handle' = [handle EXCEPT ![handles[next]] = "closed"]
    BY <1>5 DEF CloseHandle, PoolInvariant, PoolTypeOK
  <2>2. PoolTypeOK'
    BY <1>1, <1>5, <2>1 DEF CloseHandle, PoolInvariant, PoolTypeOK
  <2>3. phase # "opening" /\ fresh = NoHandle
    BY <1>5 DEF CloseHandle, PoolInvariant, HandlesListed
  <2>4. \A i \in 1 .. Len(handles) :
          handle'[handles[i]] = IF i < next' THEN "closed" ELSE "open"
    BY <1>5, <2>1 DEF CloseHandle, PoolInvariant, PoolTypeOK, HandlesListed
  <2>5. HandlesListed'
    BY <1>1, <1>5, <2>1, <2>3, <2>4 DEF CloseHandle, PoolInvariant, PoolTypeOK, HandlesListed
  <2>6. QED BY <1>1, <1>2, <1>5, <2>2, <2>5 DEF CloseHandle, PoolInvariant
<1>6. CASE CloseReturn
  <2>1. PoolTypeOK' /\ HandlesListed'
    BY <1>1, <1>6 DEF CloseReturn, listVars, PoolInvariant, PoolTypeOK, HandlesListed
  <2>2. QED BY <1>1, <1>2, <1>6, <2>1 DEF CloseReturn, PoolInvariant
<1>7. QED BY <1>3, <1>4, <1>5, <1>6 DEF CloseStep

\* Every step of the pool and of its callers preserves the invariant.
LEMMA InvariantStep ==
  ASSUME PoolInvariant, [PoolNext]_poolVars
  PROVE  PoolInvariant'
<1>1. CASE UNCHANGED poolVars
  <2>1. Entered' = Entered
    BY <1>1, CallersStay DEF poolVars
  <2>2. HandlesListed'
    BY <1>1, CallersLeaveTheList DEF poolVars, PoolInvariant
  <2>3. QED BY <1>1, <2>1, <2>2
       DEF poolVars, callerVars, listVars, PoolInvariant, PoolTypeOK, HandlesConserved
<1>2. QED BY <1>1, ConstructStep, CallerKeeps, CloseKeeps DEF PoolNext

\* The inductive invariant of the pool holds in every reachable state.
THEOREM PoolInvariantHolds == PoolSpec => []PoolInvariant
<1>1. QED BY InvariantInit, InvariantStep, PTL DEF PoolSpec

\* A query that runs, runs on an open handle, however Close interleaves.
THEOREM QueriesUseOpenHandles == PoolSpec => []NoQueryOnClosedHandle
<1>1. ASSUME PoolInvariant PROVE NoQueryOnClosedHandle
  <2>1. SUFFICES ASSUME NEW c \in Callers, pc[c] = "running"
                 PROVE  handle[holds[c]] = "open"
    BY DEF NoQueryOnClosedHandle
  <2>2. c \in Entered
    BY <2>1 DEF Entered
  <2>3. closePc \in {"idle", "waiting"} /\ next = 1
    BY <1>1, <2>2 DEF PoolInvariant, PoolTypeOK, HandlesListed
  <2>4. holds[c] # NoHandle
    BY <1>1, <2>1, NoHandleIsNoHandle DEF PoolInvariant, PoolTypeOK
  <2>5. PICK i \in 1 .. Len(handles) : handles[i] = holds[c]
    BY <1>1, <2>4 DEF PoolInvariant
  <2>6. handle[handles[i]] = "open"
    BY <1>1, <2>3, <2>5 DEF PoolInvariant, HandlesListed
  <2>7. QED BY <2>5, <2>6
<1>2. QED BY <1>1, PoolInvariantHolds, PTL

\* No handle is lost or lent twice, so returnHandle never panics.
THEOREM NoHandleIsLost == PoolSpec => []HandlesConserved
<1>1. PoolInvariant => HandlesConserved
  BY DEF PoolInvariant
<1>2. QED BY <1>1, PoolInvariantHolds, PTL

\* Once Close is past its wait, no query runs and none is let in.
THEOREM DrainingIsFinal == PoolSpec => []DrainedStaysDrained
<1>1. ASSUME PoolInvariant PROVE DrainedStaysDrained
  BY <1>1, FS_EmptySet DEF PoolInvariant, DrainedStaysDrained
<1>2. QED BY <1>1, PoolInvariantHolds, PTL

\* A pool that was closed, or whose construction failed, has no open handle:
\* the loop of Close comes to every handle that was opened and initialized,
\* and one whose initializer failed was closed before.
THEOREM CloseLeaksNothing == PoolSpec => []ClosedPoolLeaksNothing
<1>1. ASSUME PoolInvariant PROVE ClosedPoolLeaksNothing
  <2>1. SUFFICES ASSUME closePc = "closed", NEW h \in Handles, handle[h] = "open"
                 PROVE  FALSE
    BY DEF ClosedPoolLeaksNothing
  <2>2. h # fresh /\ next = Len(handles) + 1
    BY <1>1, <2>1, NoHandleIsNoHandle DEF PoolInvariant, HandlesListed
  <2>3. PICK i \in 1 .. Len(handles) : handles[i] = h
    BY <1>1, <2>1, <2>2 DEF PoolInvariant, HandlesListed
  <2>4. Len(handles) \in Nat
    BY <1>1 DEF PoolInvariant, PoolTypeOK
  <2>5. handle[h] = "closed"
    BY <1>1, <2>2, <2>3, <2>4 DEF PoolInvariant, HandlesListed
  <2>6. QED BY <2>1, <2>5
<1>2. QED BY <1>1, PoolInvariantHolds, PTL

-----------------------------------------------------------------------------
(* The load tracker *)

QueryStates == {"idle", "clear", "grab", "cancel", "running", "count", "stamp", "record"}
PassStates == {"idle", "count", "zero", "load", "working", "yielding", "stopping"}

LEMMA CountedFinite ==
  /\ IsFiniteSet(Counted) /\ Cardinality(Counted) \in Nat
  /\ Cardinality(Counted) = 0 <=> Counted = {}
  BY QueriesFinite, FS_Subset, FS_CardinalityType, FS_EmptySet DEF Counted

LEMMA LoadInit == ASSUME Init PROVE LoadInvariant
<1>1. Counted = {} /\ Cardinality(Counted) = 0
  BY FS_EmptySet DEF Init, Counted
<1>2. TypeOK
  <2>1. stamp \in [Queries -> Nat \ {0}] /\ now \in [Passers -> Nat]
    BY DEF Init
  <2>2. qpc \in [Queries -> QueryStates] /\ ppc \in [Passers -> PassStates]
    BY DEF Init, QueryStates, PassStates
  <2>3. target \in [Queries -> Passers \cup {None}] /\ cancelled \in [Passers -> BOOLEAN]
        /\ poll \in [Passers -> {"off", "watching", "stop", "cancel"}]
    BY DEF Init
  <2>4. /\ clock \in Nat \ {0} /\ inFlight \in Nat /\ zeroSince \in Nat /\ sampled = FALSE
        /\ passMu = None /\ active = None /\ hot = FALSE
    BY DEF Init
  <2>5. QED BY <2>1, <2>2, <2>3, <2>4 DEF TypeOK, QueryStates, PassStates
<1>3. QED
  BY <1>1, <1>2, NoneIsNobody
     DEF Init, LoadInvariant, OnePass, QueriesPreempt, StampNotLost, Undisturbed, Running

\* A query enters the count when it begins and leaves it when it ends.
LEMMA BeginEndCount ==
  ASSUME LoadInvariant, NEW q \in Queries
  PROVE  /\ BeginCount(q) => Counted' = Counted \cup {q} /\ inFlight' = Cardinality(Counted')
         /\ EndCount(q) => q \in Counted /\ Counted' = Counted \ {q} /\ inFlight' = Cardinality(Counted')
<1>1. ASSUME BeginCount(q) PROVE Counted' = Counted \cup {q} /\ inFlight' = Cardinality(Counted')
  <2>1. Counted' = Counted \cup {q} /\ q \notin Counted
    BY <1>1 DEF BeginCount, Counted, LoadInvariant, TypeOK
  <2>2. Cardinality(Counted') = Cardinality(Counted) + 1
    BY <2>1, CountedFinite, FS_AddElement
  <2>3. QED BY <1>1, <2>1, <2>2 DEF BeginCount, LoadInvariant
<1>2. ASSUME EndCount(q) PROVE q \in Counted /\ Counted' = Counted \ {q} /\ inFlight' = Cardinality(Counted')
  <2>1. Counted' = Counted \ {q} /\ q \in Counted
    BY <1>2 DEF EndCount, Counted, LoadInvariant, TypeOK, LastOut
  <2>2. Cardinality(Counted') = Cardinality(Counted) - 1
    BY <2>1, CountedFinite, FS_RemoveElement
  <2>3. QED BY <1>2, <2>1, <2>2 DEF EndCount, LoadInvariant
<1>3. QED BY <1>1, <1>2

\* A query in flight makes the count positive.
LEMMA InFlightPositive ==
  ASSUME LoadInvariant
  PROVE  inFlight > 0 <=> Counted # {}
  BY CountedFinite DEF LoadInvariant, TypeOK

\* Beginning and ending.
LEMMA QuerySteps ==
  ASSUME LoadInvariant, NEW q \in Queries, BeginStep(q) \/ EndStep(q)
  PROVE  LoadInvariant'
<1> USE NoneIsNobody, PollersPass DEF counters, queryVars, passVars
<1>1. CASE BeginCount(q)
  <2>1. Counted' = Counted \cup {q} /\ inFlight' = Cardinality(Counted')
    BY <1>1, BeginEndCount
  <2>2. TypeOK'
    BY <1>1 DEF BeginCount, LoadInvariant, TypeOK
  <2>3. OnePass' /\ StampNotLost'
    BY <1>1 DEF BeginCount, LoadInvariant, TypeOK, OnePass, StampNotLost, Undisturbed, Running
  <2>4. QueriesPreempt'
    BY <1>1, <2>1 DEF BeginCount, LoadInvariant, TypeOK, QueriesPreempt, Undisturbed, Running
  <2>5. QED
    BY <1>1, <2>1, <2>2, <2>3, <2>4 DEF BeginCount, LoadInvariant, TypeOK
<1>2. CASE BeginClear(q)
  <2>1. Counted' = Counted
    BY <1>2 DEF BeginClear, LoadInvariant, TypeOK, Counted
  <2>2. TypeOK'
    BY <1>2 DEF BeginClear, LoadInvariant, TypeOK
  <2>3. OnePass' /\ StampNotLost' /\ QueriesPreempt'
    BY <1>2, <2>1 DEF BeginClear, LoadInvariant, TypeOK, OnePass, StampNotLost, QueriesPreempt, Undisturbed, Running
  <2>4. QED
    BY <1>2, <2>1, <2>2, <2>3 DEF BeginClear, LoadInvariant, TypeOK
<1>3. CASE BeginGrab(q)
  <2>1. Counted' = Counted
    BY <1>3 DEF BeginGrab, LoadInvariant, TypeOK, Counted
  <2>2. TypeOK'
    BY <1>3 DEF BeginGrab, LoadInvariant, TypeOK
  <2>3. OnePass' /\ StampNotLost' /\ QueriesPreempt'
    BY <1>3, <2>1 DEF BeginGrab, LoadInvariant, TypeOK, OnePass, StampNotLost, QueriesPreempt, Undisturbed, Running
  <2>4. QED
    BY <1>3, <2>1, <2>2, <2>3 DEF BeginGrab, LoadInvariant, TypeOK
<1>4. CASE BeginCancel(q)
  <2>1. Counted' = Counted
    BY <1>4 DEF BeginCancel, LoadInvariant, TypeOK, Counted
  <2>2. TypeOK'
    BY <1>4 DEF BeginCancel, LoadInvariant, TypeOK
  <2>3. OnePass' /\ StampNotLost'
    BY <1>4 DEF BeginCancel, LoadInvariant, TypeOK, OnePass, StampNotLost, Undisturbed, Running
  <2>4. QueriesPreempt'
    <3>1. ASSUME NEW p \in Passers, Undisturbed(p) PROVE target[q] = p
      BY <1>4, <3>1 DEF BeginCancel, LoadInvariant, QueriesPreempt, Counted
    <3>2. ASSUME NEW p \in Passers, NEW x \in Counted, Undisturbed(p)'
          PROVE  qpc'[x] \in {"clear", "grab"} \/ (qpc'[x] = "cancel" /\ target'[x] = p)
      <4>1. Undisturbed(p) /\ p # target[q]
        BY <1>4, <3>2 DEF BeginCancel, Undisturbed, Running
      <4>2. QED BY <3>1, <3>2, <4>1
    <3>3. QED BY <1>4, <2>1, <3>2 DEF BeginCancel, QueriesPreempt
  <2>5. QED
    BY <1>4, <2>1, <2>2, <2>3, <2>4 DEF BeginCancel, LoadInvariant, TypeOK
<1>5. CASE EndNow(q)
  <2>1. Counted' = Counted
    BY <1>5 DEF EndNow, LoadInvariant, TypeOK, Counted
  <2>2. TypeOK'
    <3>1. UNCHANGED <<inFlight, zeroSince, sampled, passMu, active, hot, target, ppc, now, cancelled, poll, clock>>
      BY <1>5 DEF EndNow
    <3>2. stamp' \in [Queries -> Nat \ {0}]
      BY <1>5 DEF EndNow, LoadInvariant, TypeOK
    <3>3. QED BY <1>5, <3>1, <3>2 DEF EndNow, LoadInvariant, TypeOK
  <2>3. OnePass' /\ StampNotLost' /\ QueriesPreempt'
    BY <1>5, <2>1 DEF EndNow, LoadInvariant, TypeOK, OnePass, StampNotLost, QueriesPreempt, Undisturbed, Running, Counted
  <2>4. QED
    BY <1>5, <2>1, <2>2, <2>3 DEF EndNow, LoadInvariant, TypeOK
<1>6. CASE EndCount(q)
  <2>1. q \in Counted /\ Counted' = Counted \ {q} /\ inFlight' = Cardinality(Counted')
    BY <1>6, BeginEndCount
  <2>2. inFlight' = inFlight - 1 /\ inFlight > 0
    BY <1>6, <2>1, InFlightPositive DEF EndCount
  <2>3. TypeOK'
    BY <1>6, <2>2 DEF EndCount, LoadInvariant, TypeOK, LastOut
  <2>4. OnePass' /\ QueriesPreempt'
    BY <1>6, <2>1 DEF EndCount, LoadInvariant, TypeOK, OnePass, QueriesPreempt, Undisturbed, Running, Counted
  <2>5. StampNotLost'
    <3>1. CASE inFlight' = 0
      BY <1>6, <2>2, <3>1 DEF EndCount, LoadInvariant, TypeOK, StampNotLost, LastOut
    <3>2. QED BY <3>1 DEF StampNotLost
  <2>6. \A x \in Queries : qpc'[x] = "clear" => inFlight' > 0
    <3>1. ASSUME NEW x \in Queries, qpc'[x] = "clear" PROVE inFlight' > 0
      <4>1. x \in Counted'
        BY <3>1 DEF Counted
      <4>2. IsFiniteSet(Counted')
        BY <2>1, CountedFinite, FS_Subset
      <4>3. Cardinality(Counted') # 0 /\ Cardinality(Counted') \in Nat
        BY <4>1, <4>2, FS_EmptySet, FS_CardinalityType
      <4>4. QED BY <2>1, <4>3
    <3>2. QED BY <3>1
  <2>7. QED
    BY <1>6, <2>1, <2>2, <2>3, <2>4, <2>5, <2>6 DEF EndCount, LoadInvariant, TypeOK, LastOut
<1>7. CASE EndStamp(q)
  <2>1. Counted' = Counted
    BY <1>7 DEF EndStamp, LoadInvariant, TypeOK, Counted
  <2>2. zeroSince' \in Nat /\ zeroSince' # 0
    BY <1>7 DEF EndStamp, LoadInvariant, TypeOK
  <2>3. TypeOK'
    BY <1>7, <2>2 DEF EndStamp, LoadInvariant, TypeOK
  <2>4. OnePass' /\ StampNotLost' /\ QueriesPreempt'
    BY <1>7, <2>1, <2>2 DEF EndStamp, LoadInvariant, TypeOK, OnePass, StampNotLost, QueriesPreempt, Undisturbed, Running, Counted
  <2>5. QED
    BY <1>7, <2>1, <2>3, <2>4 DEF EndStamp, LoadInvariant, TypeOK
<1>8. CASE EndRecord(q)
  <2>1. Counted' = Counted
    BY <1>8 DEF EndRecord, LoadInvariant, TypeOK, Counted
  <2>2. TypeOK'
    BY <1>8 DEF EndRecord, LoadInvariant, TypeOK
  <2>3. OnePass' /\ StampNotLost' /\ QueriesPreempt'
    BY <1>8, <2>1 DEF EndRecord, LoadInvariant, TypeOK, OnePass, StampNotLost, QueriesPreempt, Undisturbed, Running, Counted
  <2>4. QED
    BY <1>8, <2>1, <2>2, <2>3 DEF EndRecord, LoadInvariant, TypeOK
<1>9. QED BY <1>1, <1>2, <1>3, <1>4, <1>5, <1>6, <1>7, <1>8 DEF BeginStep, EndStep

\* Asking Idle and starting a pass: passMu keeps queries from beginning.
LEMMA IdleSteps ==
  ASSUME LoadInvariant, NEW p \in Passers, PassBegin(p) \/ IdleStep(p)
  PROVE  LoadInvariant'
<1> USE NoneIsNobody, PollersPass DEF counters, queryVars, passVars
<1>1. CASE PassBegin(p)
  <2>1. Counted' = Counted
    BY <1>1 DEF PassBegin, Counted
  <2>2. TypeOK'
    BY <1>1 DEF PassBegin, LoadInvariant, TypeOK
  <2>3. OnePass' /\ StampNotLost' /\ QueriesPreempt'
    BY <1>1, <2>1 DEF PassBegin, LoadInvariant, TypeOK, OnePass, StampNotLost, QueriesPreempt, Undisturbed, Running
  <2>4. QED
    BY <1>1, <2>1, <2>2, <2>3 DEF PassBegin, Free, LoadInvariant, TypeOK
<1>2. ASSUME NEW from, NEW ok \in BOOLEAN, NEW to \in {"zero", "load", "idle"},
             from \in {"count", "zero", "load"}, to \in {"zero", "load"} \/ ~ok,
             ok => inFlight = 0, Check(p, from, ok, to)
      PROVE  LoadInvariant'
  <2>1. Counted' = Counted
    BY <1>2 DEF Check, Counted
  <2>2. TypeOK'
    BY <1>2 DEF Check, LoadInvariant, TypeOK
  <2>3. OnePass' /\ StampNotLost' /\ QueriesPreempt'
    BY <1>2, <2>1 DEF Check, LoadInvariant, TypeOK, OnePass, StampNotLost, QueriesPreempt, Undisturbed, Running
  <2>4. QED
    BY <1>2, <2>1, <2>2, <2>3 DEF Check, LoadInvariant, TypeOK
<1>3. CASE IdleCount(p)
  BY <1>2, <1>3 DEF IdleCount
<1>4. CASE IdleZero(p)
  <2>1. inFlight = 0
    BY <1>4 DEF IdleZero, Check, LoadInvariant
  <2>2. QED BY <1>2, <1>4, <2>1 DEF IdleZero
<1>5. CASE IdleRefuses(p)
  BY <1>2, <1>5 DEF IdleRefuses
<1>6. CASE PassStarts(p)
  <2>1. Counted' = Counted /\ Counted = {}
    BY <1>6, InFlightPositive DEF PassStarts, Counted, LoadInvariant
  <2>2. TypeOK'
    BY <1>6 DEF PassStarts, LoadInvariant, TypeOK
  <2>3. OnePass' /\ StampNotLost' /\ QueriesPreempt'
    BY <1>6, <2>1 DEF PassStarts, LoadInvariant, TypeOK, OnePass, StampNotLost, QueriesPreempt, Undisturbed, Running
  <2>4. QED
    BY <1>6, <2>1, <2>2, <2>3 DEF PassStarts, LoadInvariant, TypeOK
<1>7. QED BY <1>1, <1>3, <1>4, <1>5, <1>6 DEF IdleStep

\* The pass itself.
LEMMA PassSteps ==
  ASSUME LoadInvariant, NEW p \in Passers, PassStep(p)
  PROVE  LoadInvariant'
<1> USE NoneIsNobody, PollersPass DEF counters, queryVars, passVars
<1>1. CASE YieldBegin(p) \/ YieldEnd(p) \/ PassReturns(p)
  <2>1. /\ ppc[p] \in {"working", "yielding"}
        /\ \E to \in {"working", "yielding", "stopping"} : ppc' = [ppc EXCEPT ![p] = to]
        /\ UNCHANGED <<clock, counters, passMu, active, hot, queryVars, now, cancelled, poll, sampled>>
    BY <1>1 DEF YieldBegin, YieldEnd, PassReturns, LoadInvariant, TypeOK
  <2>2. Counted' = Counted
    BY <2>1 DEF Counted
  <2>3. TypeOK'
    BY <2>1 DEF LoadInvariant, TypeOK
  <2>4. OnePass' /\ StampNotLost' /\ QueriesPreempt'
    BY <2>1, <2>2 DEF LoadInvariant, TypeOK, OnePass, StampNotLost, QueriesPreempt, Undisturbed, Running
  <2>5. QED BY <2>1, <2>2, <2>3, <2>4 DEF LoadInvariant, TypeOK
<1>2. CASE PollSees(p) \/ PollLeaves(p)
  <2>1. /\ poll[p] = "watching"
        /\ \E to \in {"stop", "off"} : poll' = [poll EXCEPT ![p] = to]
        /\ UNCHANGED <<clock, counters, passMu, active, hot, queryVars, ppc, now, cancelled, sampled>>
    BY <1>2 DEF PollSees, PollLeaves
  <2>2. Counted' = Counted
    BY <2>1 DEF Counted
  <2>3. TypeOK'
    BY <2>1 DEF LoadInvariant, TypeOK
  <2>4. OnePass' /\ StampNotLost' /\ QueriesPreempt'
    BY <2>1, <2>2 DEF LoadInvariant, TypeOK, OnePass, StampNotLost, QueriesPreempt, Undisturbed, Running
  <2>5. QED BY <2>1, <2>2, <2>3, <2>4 DEF LoadInvariant, TypeOK
<1>3. CASE PollStops(p)
  <2>1. Counted' = Counted
    BY <1>3 DEF PollStops, Counted
  <2>2. TypeOK'
    BY <1>3 DEF PollStops, LoadInvariant, TypeOK
  <2>3. OnePass' /\ StampNotLost'
    BY <1>3 DEF PollStops, LoadInvariant, TypeOK, OnePass, StampNotLost, Undisturbed, Running
  <2>4. QueriesPreempt'
    BY <1>3, <2>1 DEF PollStops, LoadInvariant, TypeOK, QueriesPreempt, Undisturbed, Running
  <2>5. QED BY <1>3, <2>1, <2>2, <2>3, <2>4 DEF PollStops, LoadInvariant, TypeOK
<1>4. CASE PollCancels(p)
  <2>1. Counted' = Counted
    BY <1>4 DEF PollCancels, Counted
  <2>2. TypeOK'
    BY <1>4 DEF PollCancels, LoadInvariant, TypeOK
  <2>3. OnePass' /\ StampNotLost' /\ QueriesPreempt'
    BY <1>4, <2>1 DEF PollCancels, LoadInvariant, TypeOK, OnePass, StampNotLost, QueriesPreempt, Undisturbed, Running
  <2>4. QED BY <1>4, <2>1, <2>2, <2>3 DEF PollCancels, LoadInvariant, TypeOK
<1>5. CASE PassStops(p)
  <2>1. Counted' = Counted
    BY <1>5 DEF PassStops, Counted
  <2>2. TypeOK'
    BY <1>5 DEF PassStops, LoadInvariant, TypeOK
  <2>3. OnePass' /\ StampNotLost'
    BY <1>5 DEF PassStops, LoadInvariant, TypeOK, OnePass, StampNotLost, Undisturbed, Running
  <2>4. QueriesPreempt'
    <3>1. ASSUME NEW o \in Passers, Undisturbed(o)' PROVE Undisturbed(o) /\ o # p
      BY <1>5, <3>1 DEF PassStops, LoadInvariant, TypeOK, Undisturbed, Running
    <3>2. ASSUME NEW o \in Passers, o # p, NEW q \in Queries, target[q] = o PROVE target'[q] = o
      BY <1>5, <3>2 DEF PassStops
    <3>3. qpc' = qpc
      BY <1>5 DEF PassStops
    <3>4. QED BY <2>1, <3>1, <3>2, <3>3 DEF LoadInvariant, QueriesPreempt, Counted
  <2>5. QED BY <1>5, <2>1, <2>2, <2>3, <2>4 DEF PassStops, LoadInvariant, TypeOK
<1>6. QED BY <1>1, <1>2, <1>3, <1>4, <1>5 DEF PassStep, PollStep

LEMMA LoadStep == ASSUME LoadInvariant, [Next]_vars PROVE LoadInvariant'
<1>1. ASSUME NEW q \in Queries, BeginStep(q) \/ EndStep(q) PROVE LoadInvariant'
  BY <1>1, QuerySteps
<1>2. ASSUME NEW p \in Passers, PassBegin(p) \/ IdleStep(p) \/ PassStep(p) PROVE LoadInvariant'
  BY <1>2, IdleSteps, PassSteps
<1>3. CASE Tick \/ LoadMoves \/ UNCHANGED vars
  <2>1. /\ UNCHANGED <<inFlight, zeroSince, passMu, active, qpc, target, stamp, ppc, now, cancelled, poll, sampled>>
        /\ clock' \in Nat \ {0} /\ hot' \in BOOLEAN
    BY <1>3 DEF Tick, LoadMoves, vars, counters, queryVars, passVars, LoadInvariant, TypeOK
  <2>2. Counted' = Counted
    BY <2>1 DEF Counted
  <2>3. TypeOK'
    BY <2>1 DEF LoadInvariant, TypeOK
  <2>4. QED
    BY <2>1, <2>2, <2>3 DEF LoadInvariant, OnePass, StampNotLost, QueriesPreempt, Undisturbed, Running
<1>4. QED BY <1>1, <1>2, <1>3 DEF Next

\* The inductive invariant of the load tracker holds in every reachable state.
THEOREM LoadInvariantHolds == Spec => []LoadInvariant
  BY LoadInit, LoadStep, PTL DEF Spec

\* activePassCancel names a running pass, and the only one that nobody has
\* stopped (BeginIdlePass, its stop function and the pollers).
THEOREM PassesExclude == Spec => []OnePass
<1>1. LoadInvariant => OnePass
  BY DEF LoadInvariant
<1>2. QED BY <1>1, LoadInvariantHolds, PTL

\* No query is served beside a pass that nobody cancels (Begin against
\* BeginIdlePass under passMu).
THEOREM QueriesComeFirst == Spec => []QueriesPreempt
<1>1. LoadInvariant => QueriesPreempt
  BY DEF LoadInvariant
<1>2. QED BY <1>1, LoadInvariantHolds, PTL

\* The idle stamp survives every interleaving of beginnings and ends.
THEOREM StampSurvives == Spec => []StampNotLost
<1>1. LoadInvariant => StampNotLost
  BY DEF LoadInvariant
<1>2. QED BY <1>1, LoadInvariantHolds, PTL
==============================================================================
