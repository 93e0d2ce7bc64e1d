----------------------------- MODULE LoadTracker -----------------------------
(***************************************************************************)
(* The load tracker (cmd/pensiero/load.go), which lets one background pass *)
(* at a time run while nobody queries: the IGL pass, a window of cognition *)
(* or an inventory refresh.  A query that begins cancels the pass.         *)
(*                                                                         *)
(* inFlight and zeroSince are atomics; only a query's beginning, not its   *)
(* end, holds passMu.  So the code is cut at every access to one of them.  *)
(* The rate and the latency of recent queries are abstracted to "hot":     *)
(* whether one of them is above its limit.                                 *)
(***************************************************************************)
EXTENDS Naturals, FiniteSets

CONSTANTS
  Queries,   \* goroutines that serve one query after the other
  Passers,   \* goroutines that want to run passes
  Pollers,   \* those of them that poll the load while their pass runs
  Quiet,     \* quietFor
  MaxClock,  \* bound: the clock stops here
  None

ASSUME QueriesFinite == IsFiniteSet(Queries)
ASSUME QuietIsTime == Quiet \in Nat /\ MaxClock \in Nat \ {0}
ASSUME NoneIsNobody == None \notin Queries \cup Passers
ASSUME PollersPass == Pollers \subseteq Passers /\ Queries \cap Passers = {}

VARIABLES
  clock,
  inFlight, zeroSince,  \* the atomics; zeroSince = 0: none
  passMu,    \* who holds passMu, or None
  active,    \* whose cancel function is activePassCancel, or None
  hot,       \* qpsEWMA or p95 is above its limit
  qpc,       \* where each query is
  target,    \* the pass whose cancel function a beginning query took
  stamp,     \* the time a query took for its end
  ppc,       \* where each passer is
  now,       \* the time Idle took
  cancelled, \* the pass's context is done
  poll,      \* the poller beside the pass: "off", "watching"; about to "stop"
             \* the pass, that is to give its slot up and then to "cancel" it
  sampled    \* whether any query was recorded

counters == <<inFlight, zeroSince>>
queryVars == <<qpc, target, stamp>>
passVars == <<ppc, now, cancelled, poll>>
vars == <<clock, counters, passMu, active, hot, queryVars, passVars, sampled>>

Init ==
  /\ clock = 1
  /\ inFlight = 0
  /\ zeroSince = 1
  /\ passMu = None
  /\ active = None
  /\ hot = FALSE
  /\ qpc = [q \in Queries |-> "idle"]
  /\ target = [q \in Queries |-> None]
  /\ stamp = [q \in Queries |-> 1]
  /\ ppc = [p \in Passers |-> "idle"]
  /\ now = [p \in Passers |-> 1]
  /\ cancelled = [p \in Passers |-> FALSE]
  /\ poll = [p \in Passers |-> "off"]
  /\ sampled = FALSE

Loaded == inFlight # 0 \/ hot
Running(p) == ppc[p] \in {"working", "yielding", "stopping"}

-----------------------------------------------------------------------------
(* Time *)

Tick ==
  /\ clock < MaxClock
  /\ clock' = clock + 1
  /\ UNCHANGED <<counters, passMu, active, hot, queryVars, passVars, sampled>>

\* The rate decays and samples expire, slow ones and quick ones.
LoadMoves ==
  /\ sampled
  /\ hot' \in BOOLEAN
  /\ UNCHANGED <<clock, counters, passMu, active, queryVars, passVars, sampled>>

-----------------------------------------------------------------------------
(* Begin *)

BeginCount(q) ==
  /\ qpc[q] = "idle"
  /\ passMu = None
  /\ passMu' = q
  /\ inFlight' = inFlight + 1
  /\ qpc' = [qpc EXCEPT ![q] = IF inFlight = 0 THEN "clear" ELSE "grab"]
  /\ UNCHANGED <<clock, zeroSince, active, hot, target, stamp, passVars, sampled>>

BeginClear(q) ==
  /\ qpc[q] = "clear"
  /\ zeroSince' = 0
  /\ qpc' = [qpc EXCEPT ![q] = "grab"]
  /\ UNCHANGED <<clock, inFlight, passMu, active, hot, target, stamp, passVars, sampled>>

BeginGrab(q) ==
  /\ qpc[q] = "grab"
  /\ target' = [target EXCEPT ![q] = active]
  /\ passMu' = None
  /\ qpc' = [qpc EXCEPT ![q] = "cancel"]
  /\ UNCHANGED <<clock, counters, active, hot, stamp, passVars, sampled>>

\* After the unlock: cancelling a pass that is over does nothing.
BeginCancel(q) ==
  /\ qpc[q] = "cancel"
  /\ cancelled' = [p \in Passers |-> cancelled[p] \/ p = target[q]]
  /\ target' = [target EXCEPT ![q] = None]
  /\ qpc' = [qpc EXCEPT ![q] = "running"]
  /\ UNCHANGED <<clock, counters, passMu, active, hot, stamp, ppc, now, poll, sampled>>

-----------------------------------------------------------------------------
(* end *)

EndNow(q) ==
  /\ qpc[q] = "running"
  /\ stamp' = [stamp EXCEPT ![q] = clock]
  /\ qpc' = [qpc EXCEPT ![q] = "count"]
  /\ UNCHANGED <<clock, counters, passMu, active, hot, target, passVars, sampled>>

\* The query that brings the count to zero stamps the time.
LastOut(n) == n <= 0

\* (The repair of a negative count is left out: LoadInvariant excludes it.)
EndCount(q) ==
  /\ qpc[q] = "count"
  /\ inFlight' = inFlight - 1
  /\ qpc' = [qpc EXCEPT ![q] = IF LastOut(inFlight - 1) THEN "stamp" ELSE "record"]
  /\ UNCHANGED <<clock, zeroSince, passMu, active, hot, target, stamp, passVars, sampled>>

\* storeZeroSinceMax: its compare-and-swap loop is one step.
EndStamp(q) ==
  /\ qpc[q] = "stamp"
  /\ zeroSince' = IF zeroSince >= stamp[q] /\ zeroSince # 0 THEN zeroSince ELSE stamp[q]
  /\ qpc' = [qpc EXCEPT ![q] = "record"]
  /\ UNCHANGED <<clock, inFlight, passMu, active, hot, target, stamp, passVars, sampled>>

\* Begin's sync.Once: a query ends once.
EndRecord(q) ==
  /\ qpc[q] = "record"
  /\ hot' \in BOOLEAN
  /\ sampled' = TRUE
  /\ qpc' = [qpc EXCEPT ![q] = "idle"]
  /\ UNCHANGED <<clock, counters, passMu, active, target, stamp, passVars>>

-----------------------------------------------------------------------------
(* BeginIdlePass, which holds passMu while it asks Idle *)

\* mutant: a pass begins beside the active one
FreeMutant(p) == TRUE

Free(p) == active = None

PassBegin(p) ==
  /\ ppc[p] = "idle"
  /\ passMu = None
  /\ Free(p)
  /\ passMu' = p
  /\ now' = [now EXCEPT ![p] = clock]
  /\ ppc' = [ppc EXCEPT ![p] = "count"]
  /\ UNCHANGED <<clock, counters, active, hot, queryVars, cancelled, poll, sampled>>

\* Idle's next check is passed, or no pass begins.
Check(p, from, ok, to) ==
  /\ ppc[p] = from
  /\ ppc' = [ppc EXCEPT ![p] = IF ok THEN to ELSE "idle"]
  /\ passMu' = IF ok THEN passMu ELSE None
  /\ UNCHANGED <<clock, counters, active, hot, queryVars, now, cancelled, poll, sampled>>

\* mutant: Idle does not look at the queries in flight
IdleCountMutant(p) == Check(p, "count", TRUE, "zero")

IdleCount(p) == Check(p, "count", inFlight = 0, "zero")

IdleZero(p) == Check(p, "zero", zeroSince # 0 /\ now[p] >= zeroSince + Quiet, "load")

IdleRefuses(p) == hot /\ Check(p, "load", FALSE, "idle")

PassStarts(p) ==
  /\ ppc[p] = "load"
  /\ ~hot
  /\ active' = p
  /\ cancelled' = [cancelled EXCEPT ![p] = FALSE]
  /\ passMu' = None
  /\ ppc' = [ppc EXCEPT ![p] = "working"]
  /\ poll' = [poll EXCEPT ![p] = IF p \in Pollers THEN "watching" ELSE "off"]
  /\ UNCHANGED <<clock, counters, hot, queryVars, now, sampled>>

-----------------------------------------------------------------------------
(* The pass *)

\* Yield, before a query of the pass to the graph.
YieldBegin(p) ==
  /\ ppc[p] = "working"
  /\ Loaded
  /\ ppc' = [ppc EXCEPT ![p] = "yielding"]
  /\ UNCHANGED <<clock, counters, passMu, active, hot, queryVars, now, cancelled, poll, sampled>>

\* mutant: Yield does not look at its context
YieldEndMutant(p) ==
  /\ ppc[p] = "yielding"
  /\ ~Loaded
  /\ ppc' = [ppc EXCEPT ![p] = "working"]
  /\ UNCHANGED <<clock, counters, passMu, active, hot, queryVars, now, cancelled, poll, sampled>>

YieldEnd(p) ==
  /\ ppc[p] = "yielding"
  /\ cancelled[p] \/ ~Loaded
  /\ ppc' = [ppc EXCEPT ![p] = IF cancelled[p] THEN "stopping" ELSE "working"]
  /\ UNCHANGED <<clock, counters, passMu, active, hot, queryVars, now, cancelled, poll, sampled>>

\* The poller beside the pass: its "cancel" is the stop function of
\* BeginIdlePass, so the slot is free before the pass has returned, and even
\* before its context is cancelled.
PollSees(p) ==
  /\ poll[p] = "watching"
  /\ Loaded
  /\ poll' = [poll EXCEPT ![p] = "stop"]
  /\ UNCHANGED <<clock, counters, passMu, active, hot, queryVars, ppc, now, cancelled, sampled>>

PollStops(p) ==
  /\ poll[p] = "stop"
  /\ passMu = None
  /\ active' = IF active = p THEN None ELSE active
  /\ poll' = [poll EXCEPT ![p] = "cancel"]
  /\ UNCHANGED <<clock, counters, passMu, hot, queryVars, ppc, now, cancelled, sampled>>

PollCancels(p) ==
  /\ poll[p] = "cancel"
  /\ cancelled' = [cancelled EXCEPT ![p] = TRUE]
  /\ poll' = [poll EXCEPT ![p] = "off"]
  /\ UNCHANGED <<clock, counters, passMu, active, hot, queryVars, ppc, now, sampled>>

PollLeaves(p) ==
  /\ poll[p] = "watching"
  /\ cancelled[p]
  /\ poll' = [poll EXCEPT ![p] = "off"]
  /\ UNCHANGED <<clock, counters, passMu, active, hot, queryVars, ppc, now, cancelled, sampled>>

\* The work is done, failed, or noticed its context.
PassReturns(p) ==
  /\ ppc[p] = "working"
  /\ ppc' = [ppc EXCEPT ![p] = "stopping"]
  /\ UNCHANGED <<clock, counters, passMu, active, hot, queryVars, now, cancelled, poll, sampled>>

\* mutant: a finished pass keeps the slot
PassStopsMutant(p) ==
  /\ ppc[p] = "stopping"
  /\ passMu = None
  /\ target' = [q \in Queries |-> IF target[q] = p THEN None ELSE target[q]]
  /\ ppc' = [ppc EXCEPT ![p] = "idle"]
  /\ poll' = [poll EXCEPT ![p] = "off"]
  /\ UNCHANGED <<clock, counters, passMu, active, hot, qpc, stamp, now, cancelled, sampled>>

\* The stop function of BeginIdlePass, deferred.  From here on stopping or
\* cancelling this pass, which a poller or a query may still do, has no
\* effect: the slot's activePassID is another's or the slot is free.
PassStops(p) ==
  /\ ppc[p] = "stopping"
  /\ passMu = None
  /\ active' = IF active = p THEN None ELSE active
  /\ target' = [q \in Queries |-> IF target[q] = p THEN None ELSE target[q]]
  /\ ppc' = [ppc EXCEPT ![p] = "idle"]
  /\ poll' = [poll EXCEPT ![p] = "off"]
  /\ UNCHANGED <<clock, counters, passMu, hot, qpc, stamp, now, cancelled, sampled>>

-----------------------------------------------------------------------------
BeginStep(q) == BeginCount(q) \/ BeginClear(q) \/ BeginGrab(q) \/ BeginCancel(q)
EndStep(q) == EndNow(q) \/ EndCount(q) \/ EndStamp(q) \/ EndRecord(q)
IdleStep(p) == IdleCount(p) \/ IdleZero(p) \/ IdleRefuses(p) \/ PassStarts(p)
PollStep(p) == PollSees(p) \/ PollStops(p) \/ PollCancels(p) \/ PollLeaves(p)
PassStep(p) == YieldBegin(p) \/ YieldEnd(p) \/ PollStep(p) \/ PassReturns(p) \/ PassStops(p)

Next ==
  \/ \E q \in Queries : BeginStep(q) \/ EndStep(q)
  \/ \E p \in Passers : PassBegin(p) \/ IdleStep(p) \/ PassStep(p)
  \/ Tick \/ LoadMoves

Spec == Init /\ [][Next]_vars

(***************************************************************************)
(* What holds passMu proceeds, a beginning or ending query proceeds, pollers *)
(* poll, and work returns once its context is cancelled.  Whoever waits    *)
(* for passMu gets it although others take it again and again: Go's mutex  *)
(* hands itself to a waiter that waited too long.  No query has to come,   *)
(* none has to end, and no pass has to finish by itself.                   *)
(***************************************************************************)
Fairness ==
  /\ \A q \in Queries :
       WF_vars(BeginClear(q) \/ BeginGrab(q) \/ BeginCancel(q)
                 \/ EndCount(q) \/ EndStamp(q) \/ EndRecord(q))
  /\ \A p \in Passers :
       /\ SF_vars(PassBegin(p) \/ IdleStep(p) \/ PassStops(p))
       /\ WF_vars(YieldEnd(p) \/ (PassReturns(p) /\ cancelled[p]))
  /\ \A p \in Pollers : WF_vars(PollSees(p)) /\ SF_vars(PollStops(p) \/ PollCancels(p))

FairSpec == Spec /\ Fairness

-----------------------------------------------------------------------------
(* Properties *)

Counted == {q \in Queries : qpc[q] \in {"clear", "grab", "cancel", "running", "count"}}

TypeOK ==
  /\ clock \in Nat \ {0} /\ inFlight \in Nat /\ zeroSince \in Nat
  /\ passMu \in Queries \cup Passers \cup {None}
  /\ active \in Passers \cup {None}
  /\ hot \in BOOLEAN /\ sampled \in BOOLEAN
  /\ qpc \in [Queries -> {"idle", "clear", "grab", "cancel", "running", "count", "stamp", "record"}]
  /\ target \in [Queries -> Passers \cup {None}]
  /\ stamp \in [Queries -> Nat \ {0}]
  /\ ppc \in [Passers -> {"idle", "count", "zero", "load", "working", "yielding", "stopping"}]
  /\ now \in [Passers -> Nat]
  /\ cancelled \in [Passers -> BOOLEAN]
  /\ poll \in [Passers -> {"off", "watching", "stop", "cancel"}]

\* A pass that nobody has stopped.
Undisturbed(p) == Running(p) /\ ~cancelled[p] /\ poll[p] # "cancel"

\* The slot names a running pass, and it names every pass that nobody has
\* stopped: of IGL passes, cognition's windows and inventory refreshes, no
\* two work on undisturbed.
OnePass == \A p \in Passers : (Undisturbed(p) => active = p) /\ (active = p => Running(p))

\* Queries come first: while a pass works on undisturbed, every query in
\* flight is still in Begin and about to cancel this very pass.  A query can
\* neither slip in between Idle's checks and the start of the pass nor miss a
\* pass that started before it.
QueriesPreempt ==
  \A p \in Passers, q \in Counted : Undisturbed(p) =>
    qpc[q] \in {"clear", "grab"} \/ (qpc[q] = "cancel" /\ target[q] = p)

\* The idle stamp is never lost: when no query is in flight there is one, or
\* a query that ends is about to set it.  Without it no pass would ever begin.
StampNotLost ==
  inFlight = 0 => zeroSince # 0 \/ \E q \in Queries : qpc[q] = "stamp"

\* The count of queries in flight is exact, and passMu has one holder, so
\* the count cannot rise while Idle is asked.
LoadInvariant ==
  /\ TypeOK
  /\ OnePass
  /\ QueriesPreempt
  /\ StampNotLost
  /\ inFlight = Cardinality(Counted)
  /\ \A q \in Queries : qpc[q] \in {"clear", "grab"} <=> passMu = q
  /\ \A p \in Passers : ppc[p] \in {"count", "zero", "load"} <=> passMu = p
  /\ \A p \in Passers : ppc[p] \in {"count", "zero", "load"} => active = None
  /\ \A p \in Passers : ppc[p] \in {"zero", "load"} => inFlight = 0
  /\ \A q \in Queries : qpc[q] = "clear" => inFlight > 0

\* A pass ends once a query is being served, and a polled one does not
\* outlast load that stays although nobody queries.
PassesGiveWay ==
  /\ \A p \in Passers : (Running(p) /\ \E q \in Queries : qpc[q] = "running") ~> ~Running(p)
  /\ \A p \in Pollers : []<>(~Running(p) \/ ~Loaded)

\* When queries stay away and the load stays low, passes begin again and
\* again (the clock's bound aside).
IdleTimeIsUsed ==
  <>[]((\A q \in Queries : qpc[q] = "idle") /\ ~hot /\ clock >= zeroSince + Quiet)
    => []<>(\E p \in Passers : Running(p))

=============================================================================
