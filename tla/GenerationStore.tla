-------------------------- MODULE GenerationStore --------------------------
(***************************************************************************)
(* The reference-counted store of live reasoning generations               *)
(* (cmd/pensiero/generation.go), with the goroutines that use it:          *)
(*                                                                         *)
(*   clients   borrow the current generation for one request and release   *)
(*             it when the request ends (Acquire and the closure it        *)
(*             returns; sync.Once makes later calls of the closure no-ops, *)
(*             so a client releases a borrow exactly once);                *)
(*   swappers  build a candidate, then reject it or Swap it in;            *)
(*   a caller  of Rollback;                                                *)
(*   the closer, the first caller of Close (later callers return at once). *)
(*                                                                         *)
(* Every action is one critical section of the store's mutex, or one call  *)
(* made outside it: release decrements under the lock and closes the pool  *)
(* after unlocking, so a "disposing" thread can be overtaken by anyone.    *)
(***************************************************************************)
EXTENDS Naturals, Sequences, FiniteSets

CONSTANTS
  Gens,           \* the generations that may be built; each is built once
  Clients,        \* goroutines that borrow a generation
  Swappers,       \* goroutines that build and publish generations
  NoGen,          \* the nil generation
  RollbackSlots   \* generationRollbackSlots

ASSUME ClientsFinite == IsFiniteSet(Clients)
ASSUME NoGenIsNoGen == NoGen \notin Gens
ASSUME RollbackSlotsPositive == RollbackSlots \in Nat \ {0}

VARIABLES
  current,    \* generationStore.current
  rollback,   \* generationStore.rollback, newest first
  closed,     \* generationStore.closed
  refs,       \* generationRef.refs of each generation
  pool,       \* "absent" until built, "open", then "closed" for ever
  clientPc,   \* "idle", "holding" a borrow, or "disposing" of the last one
  held,       \* the generation client c borrowed
  swapPc,     \* "idle", "candidate", "evicting" or "disposing"
  cand,       \* the candidate, then the evicted generation, of swapper s
  closePc,    \* "idle", "releasing", "disposing" or "returned"
  draining,   \* the generations Close took over and has yet to release
  awaited,    \* the generations Close waits for
  closing     \* the generation whose pool Close itself must close

storeVars  == <<current, rollback, closed>>
clientVars == <<clientPc, held>>
swapVars   == <<swapPc, cand>>
closeVars  == <<closePc, draining, awaited, closing>>
vars == <<storeVars, refs, pool, clientVars, swapVars, closeVars>>

RollbackSet == {rollback[i] : i \in 1..Len(rollback)}

Init ==
  /\ current \in Gens \cup {NoGen}
  /\ rollback = <<>>
  /\ closed = FALSE
  /\ refs = [g \in Gens |-> IF g = current THEN 1 ELSE 0]
  /\ pool = [g \in Gens |-> IF g = current THEN "open" ELSE "absent"]
  /\ clientPc = [c \in Clients |-> "idle"]
  /\ held = [c \in Clients |-> NoGen]
  /\ swapPc = [s \in Swappers |-> "idle"]
  /\ cand = [s \in Swappers |-> NoGen]
  /\ closePc = "idle"
  /\ draining = {}
  /\ awaited = {}
  /\ closing = NoGen

-----------------------------------------------------------------------------
(* Reference counting *)

\* What release does under the lock: a reference already at zero is left alone.
DropRef(g) ==
  refs' = IF refs[g] = 0 THEN refs ELSE [refs EXCEPT ![g] = @ - 1]

LastRefMutant(g) == refs[g] <= 2    \* mutant: closes one borrower too early

\* shouldClose: this release dropped the last reference.
LastRef(g) == refs[g] = 1

\* generationRef.close: closeOnce makes closing a closed pool a no-op.
ClosePool(g) == pool' = [pool EXCEPT ![g] = "closed"]

-----------------------------------------------------------------------------
(* Clients *)

\* Acquire hands out the current generation; when there is none it changes
\* nothing and its caller gives up with errNoGeneration.
Acquire(c) ==
  /\ clientPc[c] = "idle"
  /\ ~closed
  /\ current # NoGen
  /\ refs' = [refs EXCEPT ![current] = @ + 1]
  /\ clientPc' = [clientPc EXCEPT ![c] = "holding"]
  /\ held' = [held EXCEPT ![c] = current]
  /\ UNCHANGED <<storeVars, pool, swapVars, closeVars>>

\* The release closure: the request ended, by a return, an error or a panic.
Release(c) ==
  /\ clientPc[c] = "holding"
  /\ DropRef(held[c])
  /\ IF LastRef(held[c])
     THEN /\ clientPc' = [clientPc EXCEPT ![c] = "disposing"]
          /\ UNCHANGED held
     ELSE /\ clientPc' = [clientPc EXCEPT ![c] = "idle"]
          /\ held' = [held EXCEPT ![c] = NoGen]
  /\ UNCHANGED <<storeVars, pool, swapVars, closeVars>>

\* The client that dropped the last reference closes the pool, unlocked.
ClientDispose(c) ==
  /\ clientPc[c] = "disposing"
  /\ ClosePool(held[c])
  /\ clientPc' = [clientPc EXCEPT ![c] = "idle"]
  /\ held' = [held EXCEPT ![c] = NoGen]
  /\ UNCHANGED <<storeVars, refs, swapVars, closeVars>>

-----------------------------------------------------------------------------
(* Swappers *)

\* The generation builder opened a pool; nobody else knows the candidate.
Build(s, g) ==
  /\ swapPc[s] = "idle"
  /\ pool[g] = "absent"
  /\ pool' = [pool EXCEPT ![g] = "open"]
  /\ swapPc' = [swapPc EXCEPT ![s] = "candidate"]
  /\ cand' = [cand EXCEPT ![s] = g]
  /\ UNCHANGED <<storeVars, refs, clientVars, closeVars>>

\* The candidate fails validation, or meets a closed store: Swap closes it
\* and returns FALSE, and the reloader's deferred closeGeneration finds it
\* closed already.
Reject(s) ==
  /\ swapPc[s] = "candidate"
  /\ ClosePool(cand[s])
  /\ swapPc' = [swapPc EXCEPT ![s] = "idle"]
  /\ cand' = [cand EXCEPT ![s] = NoGen]
  /\ UNCHANGED <<storeVars, refs, clientVars, closeVars>>

\* The rollback list with the replaced generation in front.
Retired == IF current = NoGen THEN rollback ELSE <<current>> \o rollback

\* Does the list overflow?  The oldest entry is then evicted.
Overflows == Len(Retired) > RollbackSlots

\* mutant: the list is cut without releasing the store's reference
SwapForgetsEvicted(s) ==
  /\ swapPc[s] = "candidate"
  /\ ~closed
  /\ refs' = [refs EXCEPT ![cand[s]] = 1]
  /\ current' = cand[s]
  /\ rollback' = IF Overflows THEN SubSeq(Retired, 1, Len(Retired) - 1) ELSE Retired
  /\ swapPc' = [swapPc EXCEPT ![s] = "idle"]
  /\ cand' = [cand EXCEPT ![s] = NoGen]
  /\ UNCHANGED <<closed, pool, clientVars, closeVars>>

\* Swap, under the lock: the candidate becomes current with the store's own
\* reference, the previous one heads the rollback list, and an entry that no
\* longer fits is left for the swapper to release after unlocking.
Swap(s) ==
  /\ swapPc[s] = "candidate"
  /\ ~closed
  /\ refs' = [refs EXCEPT ![cand[s]] = 1]
  /\ current' = cand[s]
  /\ IF Overflows
     THEN /\ rollback' = SubSeq(Retired, 1, Len(Retired) - 1)
          /\ swapPc' = [swapPc EXCEPT ![s] = "evicting"]
          /\ cand' = [cand EXCEPT ![s] = Retired[Len(Retired)]]
     ELSE /\ rollback' = Retired
          /\ swapPc' = [swapPc EXCEPT ![s] = "idle"]
          /\ cand' = [cand EXCEPT ![s] = NoGen]
  /\ UNCHANGED <<closed, pool, clientVars, closeVars>>

ReleaseEvicted(s) ==
  /\ swapPc[s] = "evicting"
  /\ DropRef(cand[s])
  /\ IF LastRef(cand[s])
     THEN /\ swapPc' = [swapPc EXCEPT ![s] = "disposing"]
          /\ UNCHANGED cand
     ELSE /\ swapPc' = [swapPc EXCEPT ![s] = "idle"]
          /\ cand' = [cand EXCEPT ![s] = NoGen]
  /\ UNCHANGED <<storeVars, pool, clientVars, closeVars>>

SwapperDispose(s) ==
  /\ swapPc[s] = "disposing"
  /\ ClosePool(cand[s])
  /\ swapPc' = [swapPc EXCEPT ![s] = "idle"]
  /\ cand' = [cand EXCEPT ![s] = NoGen]
  /\ UNCHANGED <<storeVars, refs, clientVars, closeVars>>

-----------------------------------------------------------------------------
(* Rollback and Close *)

\* The current generation and the newest rollback entry change places.
Rollback ==
  /\ ~closed
  /\ current # NoGen
  /\ rollback # <<>>
  /\ current' = rollback[1]
  /\ rollback' = [rollback EXCEPT ![1] = current]
  /\ UNCHANGED <<closed, refs, pool, clientVars, swapVars, closeVars>>

\* What the store owns: current first, then the rollback list.
Owned == RollbackSet \cup ({current} \ {NoGen})

\* mutant: Close waits for the rollback generations without releasing them
CloseBeginForgetsRollback ==
  /\ ~closed
  /\ closed' = TRUE
  /\ current' = NoGen
  /\ rollback' = <<>>
  /\ draining' = {current} \ {NoGen}
  /\ awaited' = Owned
  /\ closePc' = "releasing"
  /\ UNCHANGED <<refs, pool, clientVars, swapVars, closing>>

\* The first Close empties the store under the lock; any other Close finds
\* it closed and returns at once, whatever the first is still doing.
CloseBegin ==
  /\ ~closed
  /\ closed' = TRUE
  /\ current' = NoGen
  /\ rollback' = <<>>
  /\ draining' = Owned
  /\ awaited' = Owned
  /\ closePc' = "releasing"
  /\ UNCHANGED <<refs, pool, clientVars, swapVars, closing>>

CloseRelease(g) ==
  /\ closePc = "releasing"
  /\ g \in draining
  /\ draining' = draining \ {g}
  /\ DropRef(g)
  /\ IF LastRef(g)
     THEN closePc' = "disposing" /\ closing' = g
     ELSE UNCHANGED <<closePc, closing>>
  /\ UNCHANGED <<storeVars, pool, clientVars, swapVars, awaited>>

CloseDispose ==
  /\ closePc = "disposing"
  /\ ClosePool(closing)
  /\ closing' = NoGen
  /\ closePc' = "releasing"
  /\ UNCHANGED <<storeVars, refs, clientVars, swapVars, draining, awaited>>

\* <-ref.done for each: the pool of every generation it took is closed.
CloseReturn ==
  /\ closePc = "releasing"
  /\ draining = {}
  /\ \A g \in awaited : pool[g] = "closed"
  /\ closePc' = "returned"
  /\ UNCHANGED <<storeVars, refs, pool, clientVars, swapVars, draining, awaited, closing>>

-----------------------------------------------------------------------------
Next ==
  \/ \E c \in Clients : Acquire(c) \/ Release(c) \/ ClientDispose(c)
  \/ \E s \in Swappers :
       \/ \E g \in Gens : Build(s, g)
       \/ Reject(s) \/ Swap(s) \/ ReleaseEvicted(s) \/ SwapperDispose(s)
  \/ Rollback
  \/ CloseBegin \/ CloseDispose \/ CloseReturn
  \/ \E g \in Gens : CloseRelease(g)

Spec == Init /\ [][Next]_vars

(***************************************************************************)
(* Requests end and goroutines that have work run: a borrower releases     *)
(* (its release is deferred), a swapper decides about its candidate and    *)
(* finishes an eviction, and the closer proceeds.  Nobody is obliged to    *)
(* acquire, build, roll back or close.                                     *)
(***************************************************************************)
Fairness ==
  /\ \A c \in Clients : WF_vars(Release(c)) /\ WF_vars(ClientDispose(c))
  /\ \A s \in Swappers :
       /\ WF_vars(Reject(s) \/ Swap(s))
       /\ WF_vars(ReleaseEvicted(s))
       /\ WF_vars(SwapperDispose(s))
  /\ WF_vars(CloseDispose)
  /\ WF_vars(CloseReturn)
  /\ \A g \in Gens : WF_vars(CloseRelease(g))

FairSpec == Spec /\ Fairness

-----------------------------------------------------------------------------
(* Properties *)

TypeOK ==
  /\ current \in Gens \cup {NoGen}
  /\ rollback \in Seq(Gens)
  /\ Len(rollback) <= RollbackSlots
  /\ closed \in BOOLEAN
  /\ refs \in [Gens -> Nat]
  /\ pool \in [Gens -> {"absent", "open", "closed"}]
  /\ clientPc \in [Clients -> {"idle", "holding", "disposing"}]
  /\ held \in [Clients -> Gens \cup {NoGen}]
  /\ \A c \in Clients : clientPc[c] = "idle" <=> held[c] = NoGen
  /\ swapPc \in [Swappers -> {"idle", "candidate", "evicting", "disposing"}]
  /\ cand \in [Swappers -> Gens \cup {NoGen}]
  /\ \A s \in Swappers : swapPc[s] = "idle" <=> cand[s] = NoGen
  /\ closePc \in {"idle", "releasing", "disposing", "returned"}
  /\ draining \in SUBSET Gens
  /\ awaited \in SUBSET Gens
  /\ closing \in Gens \cup {NoGen}
  /\ closePc = "disposing" <=> closing # NoGen
  /\ closePc = "idle" <=> ~closed

Holders(g) == {c \in Clients : clientPc[c] = "holding" /\ held[c] = g}

\* The goroutines that still owe the store's own reference to g.
StoreOwns(g) ==
  \/ g \in Owned
  \/ g \in draining
  \/ \E s \in Swappers : swapPc[s] = "evicting" /\ cand[s] = g

\* A request never reasons over a generation whose handles are closed,
\* whatever Swap, Rollback, Close and other releases do meanwhile.
NoUseAfterClose ==
  \A c \in Clients : clientPc[c] = "holding" => pool[held[c]] = "open"

\* The store never serves, nor could Rollback reinstate, a closed generation.
OwnedGenerationsOpen == \A g \in Owned : pool[g] = "open"

\* A count is exactly the store's own reference plus one per borrower: no
\* release is lost between Swap's, Rollback's and Close's critical sections.
RefsCountReaders ==
  \A g \in Gens :
    refs[g] = Cardinality(Holders(g)) + (IF StoreOwns(g) THEN 1 ELSE 0)

\* Once Close has returned, a request still running can only hold a
\* generation that was evicted before: nothing Close took is in use.
CloseDrainsReaders ==
  closePc = "returned" =>
    \A g \in awaited : pool[g] = "closed" /\ Holders(g) = {}

\* Why the three above hold, inductively.  A counted generation is open ...
CountedIsOpen == \A g \in Gens : refs[g] > 0 => pool[g] = "open"

\* ... a goroutine that is about to close a pool dropped the last reference ...
DisposersUncounted ==
  \A g \in Gens :
    (\/ \E c \in Clients : clientPc[c] = "disposing" /\ held[c] = g
     \/ \E s \in Swappers : swapPc[s] = "disposing" /\ cand[s] = g
     \/ closing = g) => refs[g] = 0

\* ... nobody but its builder can name a generation before it is swapped in ...
Unpublished(g) ==
  /\ g \notin Owned \cup draining
  /\ g # closing
  /\ \A c \in Clients : held[c] # g

CandidatesPrivate ==
  \A g \in Gens :
    /\ pool[g] = "absent" => Unpublished(g) /\ \A s \in Swappers : cand[s] # g
    /\ \A s \in Swappers : swapPc[s] = "candidate" /\ cand[s] = g =>
         /\ pool[g] = "open"
         /\ Unpublished(g)
         /\ \A t \in Swappers \ {s} : cand[t] # g

\* ... and the store's own reference is in exactly one place.
RollbackDistinct ==
  /\ current \notin RollbackSet
  /\ \A i, j \in 1..Len(rollback) : rollback[i] = rollback[j] => i = j

OneOwner ==
  /\ RollbackDistinct
  /\ ~closed => draining = {}
  /\ closed => Owned = {}
  /\ \A g \in Gens : \A s \in Swappers : swapPc[s] = "evicting" /\ cand[s] = g =>
       /\ g \notin Owned \cup draining
       /\ \A t \in Swappers \ {s} : swapPc[t] = "evicting" => cand[t] # g

\* The inductive invariant of the store: the count of each generation is
\* exact, and only the holder of the last reference ever closes it.
StoreInvariant ==
  /\ TypeOK
  /\ RefsCountReaders
  /\ CountedIsOpen
  /\ DisposersUncounted
  /\ CandidatesPrivate
  /\ OneOwner

\* A reference count that reached zero never rises again: Acquire cannot
\* resurrect a generation that some goroutine is about to close.
NoResurrection ==
  [][\A g \in Gens : pool[g] # "absent" /\ refs[g] = 0 /\ refs'[g] > 0
        => \E s \in Swappers : swapPc[s] = "candidate" /\ cand[s] = g]_vars

\* Every generation that lost its slot is closed in the end, whoever holds the
\* last reference, so no handle leaks; and a Close, which waits for all it took
\* out, returns (generation.go:152-176 and 188-205).
RetiredGenerationsClose ==
  /\ \A g \in Gens : (pool[g] = "open" /\ g \notin Owned) ~> (pool[g] = "closed" \/ g \in Owned)
  /\ (closePc # "idle") ~> (closePc = "returned")

-----------------------------------------------------------------------------
(* The store implements the service it promises. *)

Service == INSTANCE GenerationService WITH
  serving  <- current,
  retained <- RollbackSet,
  lent     <- [c \in Clients |-> IF clientPc[c] = "holding" THEN held[c] ELSE NoGen],
  disposed <- {g \in Gens : pool[g] = "closed"},
  shut     <- closed

\* Readers of the store see the promise of GenerationService: a borrowed
\* generation is disposed of only after it is given back.
ImplementsService == Service!Spec
=============================================================================
