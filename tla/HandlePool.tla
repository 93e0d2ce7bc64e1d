----------------------------- MODULE HandlePool -----------------------------
(***************************************************************************)
(* The pool of independent read-only graph handles under one generation    *)
(* (pooledGraphQuerier in cmd/pensiero/pool.go), from its construction to  *)
(* its Close, with the goroutines that query it.                           *)
(*                                                                         *)
(* The channel of idle handles is a set: which idle handle a query gets    *)
(* does not matter.  The list of handles is a sequence, since Close walks   *)
(* it: a handle that is open and not in the list is nobody's to close.     *)
(* Close marks the pool closed and closes the done channel in one critical *)
(* section, so one variable stands for both.  Close runs under a           *)
(* sync.Once: a second caller only waits for the first.                    *)
(***************************************************************************)
EXTENDS Naturals, Sequences, FiniteSets

CONSTANTS
  Callers,    \* goroutines that call Query
  Handles,    \* the handles of the pool: its size is their number
  NoHandle    \* the nil handle

ASSUME CallersFinite == IsFiniteSet(Callers)
ASSUME HandlesFinite == IsFiniteSet(Handles)
ASSUME NoHandleIsNoHandle == NoHandle \notin Handles

VARIABLES
  phase,      \* "opening", then "ready" or "failed": newPooledGraphQuerier
  handle,     \* each handle is "unopened", "open" or "closed"
  fresh,      \* the handle just opened, whose initializer has not returned
  handles,    \* the handles that Close will close, in the order of opening
  next,       \* how far the loop of Close has come in that list
  available,  \* the idle handles in the channel
  pc,         \* where each caller is in Query
  holds,      \* the handle a caller took from the channel
  wg,         \* the wait group's counter
  closePc     \* "idle", "waiting" for wg, "closing" handles, "closed"

callerVars == <<pc, holds>>
listVars == <<fresh, handles, next>>
poolVars == <<phase, handle, listVars, available, callerVars, wg, closePc>>

\* pool.closed, and the done channel closed with it
closed == closePc # "idle"

PoolInit ==
  /\ phase = "opening"
  /\ handle = [h \in Handles |-> "unopened"]
  /\ fresh = NoHandle
  /\ handles = <<>>
  /\ next = 1
  /\ available = {}
  /\ pc = [c \in Callers |-> "idle"]
  /\ holds = [c \in Callers |-> NoHandle]
  /\ wg = 0
  /\ closePc = "idle"

-----------------------------------------------------------------------------
(* Construction *)

\* openLadybugGraph returns a handle: it is open, and known to this loop only.
OpenHandle(h) ==
  /\ phase = "opening"
  /\ fresh = NoHandle
  /\ handle[h] = "unopened"
  /\ handle' = [handle EXCEPT ![h] = "open"]
  /\ fresh' = h
  /\ UNCHANGED <<phase, handles, next, available, callerVars, wg, closePc>>

\* It is initialized, and becomes one of the pool's.
InitHandle ==
  /\ fresh # NoHandle
  /\ handles' = Append(handles, fresh)
  /\ available' = available \cup {fresh}
  /\ fresh' = NoHandle
  /\ phase' = IF available' = Handles THEN "ready" ELSE "opening"
  /\ UNCHANGED <<handle, next, callerVars, wg, closePc>>

\* No handle is opened: the pool is closed with those it has so far.
OpenFails ==
  /\ phase = "opening"
  /\ fresh = NoHandle
  /\ phase' = "failed"
  /\ closePc' = "waiting"
  /\ UNCHANGED <<handle, listVars, available, callerVars, wg>>

\* mutant: only the pool is closed, which does not know the new handle yet
InitFailsLeaking ==
  /\ fresh # NoHandle
  /\ fresh' = NoHandle
  /\ phase' = "failed"
  /\ closePc' = "waiting"
  /\ UNCHANGED <<handle, handles, next, available, callerVars, wg>>

\* The initializer fails: that handle is closed, then the pool.
InitFails ==
  /\ fresh # NoHandle
  /\ handle' = [handle EXCEPT ![fresh] = "closed"]
  /\ fresh' = NoHandle
  /\ phase' = "failed"
  /\ closePc' = "waiting"
  /\ UNCHANGED <<handles, next, available, callerVars, wg>>

-----------------------------------------------------------------------------
(* Query *)

\* Query looks at done first, without the lock; a closed pool is refused.
QueryStart(c) ==
  /\ phase = "ready"
  /\ pc[c] = "idle"
  /\ ~closed
  /\ pc' = [pc EXCEPT ![c] = "selecting"]
  /\ UNCHANGED <<phase, handle, listVars, available, holds, wg, closePc>>

\* The select between an idle handle, the context and done; when several are
\* ready Go picks any of them.
TakeHandle(c) ==
  /\ pc[c] = "selecting"
  /\ \E h \in available :
       /\ available' = available \ {h}
       /\ holds' = [holds EXCEPT ![c] = h]
  /\ pc' = [pc EXCEPT ![c] = "holding"]
  /\ UNCHANGED <<phase, handle, listVars, wg, closePc>>

GiveUp(c) ==    \* the context was cancelled
  /\ pc[c] = "selecting"
  /\ pc' = [pc EXCEPT ![c] = "idle"]
  /\ UNCHANGED <<phase, handle, listVars, available, holds, wg, closePc>>

RefuseWaiter(c) ==
  /\ pc[c] = "selecting"
  /\ closed
  /\ pc' = [pc EXCEPT ![c] = "idle"]
  /\ UNCHANGED <<phase, handle, listVars, available, holds, wg, closePc>>

\* mutant: the second look at closed, under the lock, is dropped
EnterUnchecked(c) ==
  /\ pc[c] = "holding"
  /\ pc' = [pc EXCEPT ![c] = "running"]
  /\ wg' = wg + 1
  /\ UNCHANGED <<phase, handle, listVars, available, holds, closePc>>

\* Under the lock: a pool closed meanwhile turns the query away, otherwise
\* the query is counted before the lock is given up.
Enter(c) ==
  /\ pc[c] = "holding"
  /\ IF closed
     THEN pc' = [pc EXCEPT ![c] = "rejected"] /\ UNCHANGED wg
     ELSE pc' = [pc EXCEPT ![c] = "running"] /\ wg' = wg + 1
  /\ UNCHANGED <<phase, handle, listVars, available, holds, closePc>>

\* mutant: a panicking query skips returnHandle
LeaveWithoutReturning(c) ==
  /\ pc[c] \in {"running", "rejected"}
  /\ holds' = [holds EXCEPT ![c] = NoHandle]
  /\ pc' = [pc EXCEPT ![c] = IF pc[c] = "running" THEN "leaving" ELSE "idle"]
  /\ UNCHANGED <<phase, handle, listVars, available, wg, closePc>>

\* returnHandle, deferred: also when the backend query panicked.
ReturnHandle(c) ==
  /\ pc[c] \in {"running", "rejected"}
  /\ available' = available \cup {holds[c]}
  /\ holds' = [holds EXCEPT ![c] = NoHandle]
  /\ pc' = [pc EXCEPT ![c] = IF pc[c] = "running" THEN "leaving" ELSE "idle"]
  /\ UNCHANGED <<phase, handle, listVars, wg, closePc>>

\* mutant: a query that returns does not call wg.Done
LeaveUncounted(c) ==
  /\ pc[c] = "leaving"
  /\ pc' = [pc EXCEPT ![c] = "idle"]
  /\ UNCHANGED <<phase, handle, listVars, available, holds, wg, closePc>>

Leave(c) ==     \* wg.Done, deferred before returnHandle and so run after it
  /\ pc[c] = "leaving"
  /\ wg' = wg - 1
  /\ pc' = [pc EXCEPT ![c] = "idle"]
  /\ UNCHANGED <<phase, handle, listVars, available, holds, closePc>>

-----------------------------------------------------------------------------
(* Close *)

CloseBegin ==
  /\ phase = "ready"
  /\ closePc = "idle"
  /\ closePc' = "waiting"
  /\ UNCHANGED <<phase, handle, listVars, available, callerVars, wg>>

\* wg.Wait returned: no query that entered is still running.
CloseDrained ==
  /\ closePc = "waiting"
  /\ wg = 0
  /\ closePc' = "closing"
  /\ UNCHANGED <<phase, handle, listVars, available, callerVars, wg>>

\* The next handle of the list is closed, whether or not that returns an error.
CloseHandle ==
  /\ closePc = "closing"
  /\ next <= Len(handles)
  /\ handle' = [handle EXCEPT ![handles[next]] = "closed"]
  /\ next' = next + 1
  /\ UNCHANGED <<phase, fresh, handles, available, callerVars, wg, closePc>>

CloseReturn ==
  /\ closePc = "closing"
  /\ next > Len(handles)
  /\ closePc' = "closed"
  /\ UNCHANGED <<phase, handle, listVars, available, callerVars, wg>>

-----------------------------------------------------------------------------
Construct ==
  \/ \E h \in Handles : OpenHandle(h)
  \/ InitHandle \/ OpenFails \/ InitFails

CallerStep(c) ==
  \/ QueryStart(c) \/ TakeHandle(c) \/ GiveUp(c) \/ RefuseWaiter(c)
  \/ Enter(c) \/ ReturnHandle(c) \/ Leave(c)

CloseStep == CloseBegin \/ CloseDrained \/ CloseHandle \/ CloseReturn

PoolNext ==
  \/ Construct
  \/ \E c \in Callers : CallerStep(c)
  \/ CloseStep

PoolSpec == PoolInit /\ [][PoolNext]_poolVars

(***************************************************************************)
(* A running query returns, a closer proceeds, and a goroutine parked in   *)
(* the select is eventually handed one of the handles that keep coming     *)
(* back: Go serves the receivers of a channel first come, first served,    *)
(* hence the strong fairness of TakeHandle.  Nobody is obliged to query,   *)
(* to cancel a context, or to close the pool.                              *)
(***************************************************************************)
PoolFairness ==
  /\ \A c \in Callers :
       /\ SF_poolVars(TakeHandle(c))
       /\ WF_poolVars(RefuseWaiter(c))
       /\ WF_poolVars(Enter(c))
       /\ WF_poolVars(ReturnHandle(c))
       /\ WF_poolVars(Leave(c))
  /\ WF_poolVars(CloseDrained)
  /\ WF_poolVars(CloseHandle)
  /\ WF_poolVars(CloseReturn)

FairPoolSpec == PoolSpec /\ PoolFairness

-----------------------------------------------------------------------------
(* Properties *)

PoolTypeOK ==
  /\ phase \in {"opening", "ready", "failed"}
  /\ handle \in [Handles -> {"unopened", "open", "closed"}]
  /\ fresh \in Handles \cup {NoHandle}
  /\ handles \in Seq(Handles)
  /\ next \in 1 .. Len(handles) + 1
  /\ available \in SUBSET Handles
  /\ pc \in [Callers -> {"idle", "selecting", "holding", "running", "rejected", "leaving"}]
  /\ holds \in [Callers -> Handles \cup {NoHandle}]
  /\ \A c \in Callers : pc[c] \in {"holding", "running", "rejected"} <=> holds[c] # NoHandle
  /\ wg \in Nat
  /\ closePc \in {"idle", "waiting", "closing", "closed"}

Entered == {c \in Callers : pc[c] \in {"running", "leaving"}}

\* A query never runs on a handle that Close has closed, although it took
\* the handle from the channel before it looked at closed.
NoQueryOnClosedHandle ==
  \A c \in Callers : pc[c] = "running" => handle[holds[c]] = "open"

\* A handle serves one query at a time, and none is ever lost: a handle of
\* the pool is idle in the channel or held by exactly one caller, so
\* returnHandle always finds room and never panics.
HandlesConserved ==
  /\ \A c \in Callers : holds[c] # NoHandle => holds[c] \notin available
  /\ \A c, d \in Callers : c # d /\ holds[c] # NoHandle => holds[c] # holds[d]
  /\ \A i \in 1 .. Len(handles) :
       handles[i] \in available \/ \E c \in Callers : holds[c] = handles[i]

\* Once Close is past wg.Wait, the wait group stays at zero and no query
\* that was let in is still running.
DrainedStaysDrained ==
  closePc \in {"closing", "closed"} => wg = 0 /\ Entered = {}

\* A pool that Close has gone through leaves no handle open, also one whose
\* construction failed half-way: the list that Close walks and the handle the
\* failed initializer was given are together all that was ever opened.
ClosedPoolLeaksNothing ==
  closePc = "closed" => \A h \in Handles : handle[h] # "open"

\* The list names each handle once, and what is open is what the loop of
\* Close has still to come to, with the handle that is being initialized.
HandlesListed ==
  /\ \A i, j \in 1 .. Len(handles) : handles[i] = handles[j] => i = j
  /\ \A i \in 1 .. Len(handles) : handles[i] # fresh
  /\ \A i \in 1 .. Len(handles) : handle[handles[i]] = IF i < next THEN "closed" ELSE "open"
  /\ \A h \in Handles : handle[h] = "open" =>
       h = fresh \/ \E i \in 1 .. Len(handles) : handles[i] = h
  /\ fresh # NoHandle => phase = "opening" /\ handle[fresh] = "open"
  /\ phase = "opening" => closePc = "idle"
  /\ closePc \in {"idle", "waiting"} => next = 1
  /\ closePc = "closed" => next = Len(handles) + 1

\* The inductive invariant: the list accounts for what is open, the counter
\* counts the queries that entered, and handles are closed only once the
\* counter stayed at zero.
PoolInvariant ==
  /\ PoolTypeOK
  /\ HandlesListed
  /\ HandlesConserved
  /\ wg = Cardinality(Entered)
  /\ closePc \in {"closing", "closed"} => Entered = {}
  /\ phase # "ready" => \A c \in Callers : pc[c] = "idle"
  /\ \A h \in available : \E i \in 1 .. Len(handles) : handles[i] = h
  /\ \A c \in Callers : holds[c] # NoHandle =>
       \E i \in 1 .. Len(handles) : handles[i] = holds[c]

\* A caller that waits for a handle gets one, or is turned away by Close.
QueriesReturn == \A c \in Callers : (pc[c] # "idle") ~> (pc[c] = "idle")

\* Close waits for running queries only, so it ends.
CloseTerminates == closed ~> (closePc = "closed")
=============================================================================
