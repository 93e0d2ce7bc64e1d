---------------------------- MODULE TopicManager ----------------------------
(***************************************************************************)
(* The manager of topic graphs (cmd/pensiero/topic_manager.go): at most    *)
(* MaxOpen topics are open, in LRU order; opening one more evicts the      *)
(* least recently acquired, which is closed in the background; queries and *)
(* one cognition worker borrow the generations of open topics.             *)
(*                                                                         *)
(* An entry is one opening of a topic.  Its generation store is modelled   *)
(* by GenerationStore; here closing it means waiting for its borrowers.    *)
(* A critical section of the manager's mutex is one action, the building   *)
(* of a generation under that mutex included.                              *)
(***************************************************************************)
EXTENDS Naturals, Sequences, FiniteSets
LOCAL INSTANCE SequencesExt

CONSTANTS
  NTopics,   \* the topics are 1..NTopics, in the order of their names
  MaxOpen,
  Requests,  \* goroutines that serve queries
  Worker,    \* the goroutine of background cognition
  Entries,   \* bound: openings of topics that exist at once
  NoEntry

ASSUME TopicsExist == NTopics \in Nat \ {0}
ASSUME MaxOpenPositive == MaxOpen \in Nat \ {0}
ASSUME EntriesFinite == IsFiniteSet(Entries) /\ NoEntry \notin Entries
ASSUME WorkerIsNoRequest == Worker \notin Requests

Topics == 1..NTopics
Actors == Requests \cup {Worker}

VARIABLES
  open,      \* the entry of each open topic, or NoEntry
  lru,       \* the open topics, most recently acquired first
  state,     \* of each entry: "free", "open"; "evicted", not yet closing;
             \* "taken" by Close; "draining": waiting for its borrowers
  closeWG,   \* the counter of background closers
  closePc,   \* "idle", "closing" entries, "waiting" for closeWG, "closed"
  closing,   \* the entry that Close is closing
  held,      \* the entry whose generation each actor borrows, or NoEntry
  wpc,       \* where the worker is in rotatingCognitionAcquirer.Acquire
  idx,       \* the rotation's position
  offset,    \* how far the scan for a candidate has come
  chosen     \* the topic it settled on

tableVars == <<open, lru>>
closeVars == <<closePc, closing>>
workerVars == <<wpc, idx, offset, chosen>>
vars == <<tableVars, state, closeWG, closeVars, held, workerVars>>

closed == closePc # "idle"
OpenTopics == {t \in Topics : open[t] # NoEntry}

Init ==
  /\ open = [t \in Topics |-> NoEntry]
  /\ lru = <<>>
  /\ state = [e \in Entries |-> "free"]
  /\ closeWG = 0
  /\ closePc = "idle"
  /\ closing = NoEntry
  /\ held = [a \in Actors |-> NoEntry]
  /\ wpc = "idle"
  /\ idx = 0
  /\ offset = 0
  /\ chosen = 1

-----------------------------------------------------------------------------
(* acquireTopic *)

\* lru.MoveToFront: what was in front of t moves back by one.
MoveToFront(order, t) ==
  LET at == CHOOSE i \in 1..Len(order) : order[i] = t
  IN  [i \in 1..Len(order) |-> IF i = 1 THEN t ELSE IF i <= at THEN order[i - 1] ELSE order[i]]

\* The topic is open: it becomes the most recently acquired.
AcquireOpen(a, t) ==
  /\ ~closed
  /\ open[t] # NoEntry
  /\ lru' = MoveToFront(lru, t)
  /\ held' = [held EXCEPT ![a] = open[t]]
  /\ UNCHANGED <<open, state, closeWG, closeVars>>

\* mutant: eviction leaves one topic too many
RoomMutant(n) == IF n < MaxOpen + 1 THEN n ELSE MaxOpen + 1

\* evictLocked stops when n topics are within the limit.
Room(n) == IF n < MaxOpen THEN n ELSE MaxOpen

\* lru.PushFront and evictLocked: the back of the list is cut off.
OpenedFirst(order, t) ==
  [i \in 1..Room(Len(order) + 1) |-> IF i = 1 THEN t ELSE order[i - 1]]

\* mutant: an eviction is left to run by itself
CountNone(evicted) == closeWG

\* closeWG.Add, still under the mutex.
CountEvicted(evicted) == closeWG + Cardinality(evicted)

\* Entries are interchangeable while free: some free one stands for the next.
Unused == CHOOSE e \in Entries : state[e] = "free"

\* The topic is opened, and whatever exceeds the limit is evicted.
AcquireNew(a, t) ==
  /\ ~closed
  /\ open[t] = NoEntry
  /\ \E e \in Entries :
       /\ state[e] = "free" /\ e = Unused
       /\ LET kept == OpenedFirst(lru, t)
              evicted == {open[x] : x \in OpenTopics \ ToSet(kept)}
          IN  /\ lru' = kept
              /\ open' = [x \in Topics |-> IF x \notin ToSet(kept) THEN NoEntry
                                           ELSE IF x = t THEN e ELSE open[x]]
              /\ state' = [x \in Entries |-> IF x = e THEN "open"
                                             ELSE IF x \in evicted THEN "evicted" ELSE state[x]]
              /\ closeWG' = CountEvicted(evicted)
       /\ held' = [held EXCEPT ![a] = e]
  /\ UNCHANGED closeVars

\* Acquire: the most recently acquired topic, left where it is in the list.
AcquireWarm(a) ==
  /\ ~closed
  /\ lru # <<>>
  /\ held' = [held EXCEPT ![a] = open[Head(lru)]]
  /\ UNCHANGED <<tableVars, state, closeWG, closeVars>>

-----------------------------------------------------------------------------
(* Queries *)

\* AcquireGeneration: the request's topic, resolved from its metadata or text.
Query(r, t) ==
  /\ held[r] = NoEntry
  /\ AcquireOpen(r, t) \/ AcquireNew(r, t)
  /\ UNCHANGED workerVars

Release(a) ==
  /\ held[a] # NoEntry
  /\ held' = [held EXCEPT ![a] = NoEntry]
  /\ UNCHANGED <<tableVars, state, closeWG, closeVars, workerVars>>

-----------------------------------------------------------------------------
(* The cognition worker: rotatingCognitionAcquirer.Acquire *)

\* The rotate period is over, or nothing is warm.
RotateBegin ==
  /\ wpc = "idle"
  /\ held[Worker] = NoEntry
  /\ wpc' = "scan"
  /\ offset' = 0
  /\ UNCHANGED <<tableVars, state, closeWG, closeVars, held, idx, chosen>>

\* Between rotations it reuses what is warm.
ReuseWarm ==
  /\ wpc = "idle"
  /\ held[Worker] = NoEntry
  /\ AcquireWarm(Worker)
  /\ UNCHANGED workerVars

Candidate == ((idx + offset) % NTopics) + 1

Choose ==
  /\ chosen' = Candidate
  /\ idx' = (idx + offset + 1) % NTopics
  /\ wpc' = "acquire"
  /\ offset' = 0

\* isOpen and hasFreeSlot each take and give up the manager's mutex.
ScanOpen ==
  /\ wpc = "scan"
  /\ IF open[Candidate] # NoEntry
     THEN Choose
     ELSE wpc' = "scanSlot" /\ UNCHANGED <<idx, offset, chosen>>
  /\ UNCHANGED <<tableVars, state, closeWG, closeVars, held>>

ScanSlot ==
  /\ wpc = "scanSlot"
  /\ IF Cardinality(OpenTopics) < MaxOpen
     THEN Choose
     ELSE /\ IF offset + 1 = NTopics
             THEN wpc' = "fallback" /\ offset' = 0
             ELSE wpc' = "scan" /\ offset' = offset + 1
          /\ UNCHANGED <<idx, chosen>>
  /\ UNCHANGED <<tableVars, state, closeWG, closeVars, held>>

RotateAcquire ==
  /\ wpc = "acquire"
  /\ AcquireOpen(Worker, chosen) \/ AcquireNew(Worker, chosen)
  /\ wpc' = "idle"
  /\ chosen' = 1
  /\ UNCHANGED <<idx, offset>>

\* acquireTopic fails: the manager is closed, or the graph cannot be opened.
RotateFails ==
  /\ wpc = "acquire"
  /\ closed \/ open[chosen] = NoEntry
  /\ wpc' = "fallback"
  /\ chosen' = 1
  /\ UNCHANGED <<tableVars, state, closeWG, closeVars, held, idx, offset>>

\* Any warm topic, or none.
Fallback ==
  /\ wpc = "fallback"
  /\ \/ AcquireWarm(Worker)
     \/ /\ closed \/ lru = <<>>
        /\ UNCHANGED <<tableVars, state, closeWG, closeVars, held>>
  /\ wpc' = "idle"
  /\ UNCHANGED <<idx, offset, chosen>>

-----------------------------------------------------------------------------
(* Closing *)

\* mutant: an eviction that finds the manager closed leaves the entry to Close
EvictedClosesUnlessClosed(e) ==
  /\ state[e] = "evicted"
  /\ ~closed
  /\ state' = [state EXCEPT ![e] = "draining"]
  /\ UNCHANGED <<tableVars, closeWG, closeVars, held, workerVars>>

\* The background closer of an evicted entry: its reloader is stopped and
\* its store refuses new borrowers.
EvictedCloses(e) ==
  /\ state[e] = "evicted"
  /\ state' = [state EXCEPT ![e] = "draining"]
  /\ UNCHANGED <<tableVars, closeWG, closeVars, held, workerVars>>

\* mutant: the background closer of a drained entry does not call Done
DrainedUncounted(e) ==
  /\ state[e] = "draining"
  /\ \A a \in Actors : held[a] # e
  /\ state' = [state EXCEPT ![e] = "free"]
  /\ closing' = IF closing = e THEN NoEntry ELSE closing
  /\ UNCHANGED <<tableVars, closeWG, closePc, held, workerVars>>

\* The last borrower is gone: the entry is closed, by Close or by a
\* background closer, which leaves closeWG.
Drained(e) ==
  /\ state[e] = "draining"
  /\ \A a \in Actors : held[a] # e
  /\ state' = [state EXCEPT ![e] = "free"]
  /\ IF closing = e
     THEN closing' = NoEntry /\ UNCHANGED closeWG
     ELSE closeWG' = closeWG - 1 /\ UNCHANGED closing
  /\ UNCHANGED <<tableVars, closePc, held, workerVars>>

\* Close, under the mutex: the manager is closed and the table taken over.
CloseBegin ==
  /\ ~closed
  /\ closePc' = "closing"
  /\ state' = [e \in Entries |-> IF e \in {open[t] : t \in OpenTopics} THEN "taken" ELSE state[e]]
  /\ open' = [t \in Topics |-> NoEntry]
  /\ lru' = <<>>
  /\ UNCHANGED <<closeWG, closing, held, workerVars>>

\* The entries are closed one after the other.
CloseNext(e) ==
  /\ closePc = "closing"
  /\ closing = NoEntry
  /\ state[e] = "taken"
  /\ closing' = e
  /\ state' = [state EXCEPT ![e] = "draining"]
  /\ UNCHANGED <<tableVars, closeWG, closePc, held, workerVars>>

CloseWait ==
  /\ closePc = "closing"
  /\ closing = NoEntry
  /\ \A e \in Entries : state[e] # "taken"
  /\ closePc' = "waiting"
  /\ UNCHANGED <<tableVars, state, closeWG, closing, held, workerVars>>

\* Every background closer has finished.
CloseReturn ==
  /\ closePc = "waiting"
  /\ closeWG = 0
  /\ closePc' = "closed"
  /\ UNCHANGED <<tableVars, state, closeWG, closing, held, workerVars>>

-----------------------------------------------------------------------------
WorkerStep ==
  RotateBegin \/ ReuseWarm \/ ScanOpen \/ ScanSlot \/ RotateAcquire \/ RotateFails \/ Fallback

CloseStep ==
  \/ \E e \in Entries : EvictedCloses(e) \/ Drained(e) \/ CloseNext(e)
  \/ CloseBegin \/ CloseWait \/ CloseReturn

Next ==
  \/ \E r \in Requests, t \in Topics : Query(r, t)
  \/ \E a \in Actors : Release(a)
  \/ WorkerStep
  \/ CloseStep

Spec == Init /\ [][Next]_vars

(***************************************************************************)
(* Borrowers release, closers proceed, and the worker keeps thinking; the  *)
(* rotate period ends again and again, hence the strong fairness of        *)
(* RotateBegin.  Nobody is obliged to query or to close the manager.       *)
(***************************************************************************)
Fairness ==
  /\ \A a \in Actors : WF_vars(Release(a))
  /\ SF_vars(RotateBegin)
  /\ WF_vars(ScanOpen) /\ WF_vars(ScanSlot)
  /\ WF_vars(RotateAcquire \/ RotateFails)
  /\ WF_vars(Fallback)
  /\ \A e \in Entries : WF_vars(EvictedCloses(e)) /\ WF_vars(Drained(e)) /\ WF_vars(CloseNext(e))
  /\ WF_vars(CloseWait) /\ WF_vars(CloseReturn)

FairSpec == Spec /\ Fairness

-----------------------------------------------------------------------------
(* Properties *)

TypeOK ==
  /\ open \in [Topics -> Entries \cup {NoEntry}]
  /\ lru \in Seq(Topics)
  /\ state \in [Entries -> {"free", "open", "evicted", "taken", "draining"}]
  /\ closeWG \in Nat
  /\ closePc \in {"idle", "closing", "waiting", "closed"}
  /\ closing \in Entries \cup {NoEntry}
  /\ held \in [Actors -> Entries \cup {NoEntry}]
  /\ wpc \in {"idle", "scan", "scanSlot", "acquire", "fallback"}
  /\ idx \in 0..NTopics - 1
  /\ offset \in 0..NTopics
  /\ chosen \in Topics

\* The LRU list is the table's topics without repetition, within the limit,
\* and the table names exactly the entries that are open, each for one topic:
\* a query that finds a topic in the table never meets a closed store.
TableConsistent ==
  /\ \A i \in 1..Len(lru) : lru[i] \in OpenTopics
  /\ \A t \in OpenTopics : \E i \in 1..Len(lru) : lru[i] = t
  /\ \A i, j \in 1..Len(lru) : lru[i] = lru[j] => i = j
  /\ Len(lru) <= MaxOpen
  /\ \A t \in OpenTopics : state[open[t]] = "open"
  /\ \A t, u \in OpenTopics : open[t] = open[u] => t = u
  /\ \A e \in Entries : state[e] = "open" => \E t \in OpenTopics : open[t] = e

\* The entries some background goroutine has to close.
InBackground == {e \in Entries : state[e] = "evicted" \/ (state[e] = "draining" /\ e # closing)}

\* closeWG counts the background closers exactly, although it is raised
\* before they start and Close may begin at any moment in between.
ClosersCounted == closeWG = Cardinality(InBackground)

\* What is borrowed is an entry that exists.
BorrowersSafe == \A a \in Actors : held[a] # NoEntry => state[held[a]] # "free"

\* When Close returns, every entry ever opened is closed, also one that was
\* evicted before, whose topic may have been opened again since, and that was
\* still borrowed when Close began; nobody borrows, and none is opened
\* afterwards (evictLocked's closeWG.Add, Close's Wait).
ClosedManagerIsEmpty ==
  /\ closed => OpenTopics = {}
  /\ closePc = "closed" =>
       /\ \A e \in Entries : state[e] = "free"
       /\ \A a \in Actors : held[a] = NoEntry

\* The inductive invariant.  The table is empty once the manager is closed,
\* entries are "taken" only while Close works through them, and the one it is
\* at is no background closer's.
ManagerInvariant ==
  /\ TypeOK
  /\ TableConsistent
  /\ ClosersCounted
  /\ BorrowersSafe
  /\ closing # NoEntry => closePc = "closing" /\ state[closing] = "draining"
  /\ closed => OpenTopics = {}
  /\ closePc \in {"waiting", "closed"} => \A e \in Entries : state[e] # "taken"
  /\ closePc = "closed" => closeWG = 0
  /\ wpc \in {"scan", "scanSlot"} => offset < NTopics

\* Evicted topics are closed in the end, and so is the manager.
EvictedTopicsClose == \A e \in Entries : (state[e] = "evicted") ~> (state[e] = "free")
CloseTerminates == closed ~> closePc = "closed"

=============================================================================
