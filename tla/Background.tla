------------------------------ MODULE Background ------------------------------
(***************************************************************************)
(* The daemon's background work around its queries: the IGL scheduler      *)
(* (cmd/pensiero/scheduler.go), the cognition worker's windows of thoughts *)
(* (cognition.go) with the status it shows (thinking.go), the inventory's  *)
(* refreshes (inventory.go), and the shutdown that must stop them all      *)
(* (serve.go, serve_grpc.go).                                              *)
(*                                                                         *)
(* All three ask the load tracker for the one pass there may be; its own   *)
(* interleavings are LoadTracker's subject, so here Begin, end and         *)
(* BeginIdlePass are single steps.  Only one query is in flight at a time. *)
(* How long a busy scheduler sleeps is left out: every sleep just ends, at *)
(* a time nobody knows.                                                    *)
(*                                                                         *)
(* The daemon is the one with everything: a source to generalize, and a    *)
(* directory of topics it serves.  There the inventory, too, queries the   *)
(* generations that are served (serve.go:263-265).                         *)
(***************************************************************************)
EXTENDS Naturals

CONSTANTS
  MaxThoughts,  \* thoughts in a window
  MinPublish,   \* MinPublishInterval, in ticks
  None

ASSUME BoundsArePositive == MaxThoughts \in Nat \ {0} /\ MinPublish \in Nat

Passers == {"igl", "cognition", "inventory"}

VARIABLES
  term,       \* the daemon's context is done
  loaded,     \* a query is in flight
  quiet,      \* none has been for QuietFor
  slot,       \* whose cancel function is activePassCancel, or None
  cancelled,  \* passCtx of each pass was cancelled
  byLoad,     \* canceledByLoad of each pass: its poller did it
  at,         \* where each of the three is
  published,  \* the pass has published a snapshot
  lastPublish,  \* ticks since the scheduler's stamp of a publication
  ran, late,  \* thoughts of this window; history: those begun after its end was due
  gated, current, active,  \* what /thinking shows
  runtime,    \* the gRPC runtime: "serving", "draining", "closing", "closed"
  borrowed    \* which of the three hold a generation of the runtime's stores

passVars == <<slot, cancelled, byLoad>>
iglVars == <<published, lastPublish>>
statusVars == <<gated, current, active>>
windowVars == <<ran, late>>
storeVars == <<runtime, borrowed>>
vars == <<term, loaded, quiet, passVars, at, iglVars, windowVars, statusVars, storeVars>>

Init ==
  /\ term = FALSE /\ loaded = FALSE /\ quiet = FALSE
  /\ slot = None
  /\ cancelled = [p \in Passers |-> FALSE] /\ byLoad = [p \in Passers |-> FALSE]
  /\ at = [p \in Passers |-> IF p = "inventory" THEN "waiting" ELSE "top"]
  /\ published = FALSE /\ lastPublish = MinPublish
  /\ ran = 0 /\ late = 0
  /\ gated = FALSE /\ current = FALSE /\ active = TRUE
  /\ runtime = "serving" /\ borrowed = {}

Goto(p, place) == at' = [at EXCEPT ![p] = place]

\* passCtx.Err() # nil: passes are children of the daemon's context.
Done(p) == cancelled[p] \/ term

InPass(p) == at[p] \in {"pass", "window", "selecting", "thinking", "refreshing"}

-----------------------------------------------------------------------------
(* The load tracker *)

\* Begin takes the cancel function of whatever pass holds the slot.
QueryBegins ==
  /\ runtime = "serving" /\ ~loaded
  /\ loaded' = TRUE /\ quiet' = FALSE
  /\ cancelled' = [p \in Passers |-> cancelled[p] \/ p = slot]
  /\ UNCHANGED <<term, slot, byLoad, at, iglVars, windowVars, statusVars, storeVars>>

QueryEnds ==
  /\ loaded /\ loaded' = FALSE
  /\ UNCHANGED <<term, quiet, passVars, at, iglVars, windowVars, statusVars, storeVars>>

Quiets ==
  /\ ~loaded /\ ~quiet /\ quiet' = TRUE
  /\ UNCHANGED <<term, loaded, passVars, at, iglVars, windowVars, statusVars, storeVars>>

\* The poller beside a pass: its cancel is the function that gives the slot up.
\* It may tick once more before it sees that the pass is cancelled already.
Poll(p) ==
  /\ p # "inventory" /\ InPass(p) /\ loaded /\ ~byLoad[p]
  /\ byLoad' = [byLoad EXCEPT ![p] = TRUE]
  /\ cancelled' = [cancelled EXCEPT ![p] = TRUE]
  /\ slot' = IF slot = p THEN None ELSE slot
  /\ UNCHANGED <<term, loaded, quiet, at, iglVars, windowVars, statusVars, storeVars>>

Idle == quiet /\ ~loaded

BeginPass(p) ==
  /\ Idle /\ slot = None
  /\ slot' = p
  /\ cancelled' = [cancelled EXCEPT ![p] = FALSE]
  /\ byLoad' = [byLoad EXCEPT ![p] = FALSE]

\* mutant: the slot is given up only by a pass that was cancelled
EndPassMutant(p) ==
  /\ slot' = IF slot = p /\ Done(p) THEN None ELSE slot
  /\ cancelled' = [cancelled EXCEPT ![p] = FALSE]
  /\ byLoad' = [byLoad EXCEPT ![p] = FALSE]

\* The deferred stop: the slot may by now be somebody else's.  What is local
\* to a pass is reset with it.
EndPass(p) ==
  /\ slot' = IF slot = p THEN None ELSE slot
  /\ cancelled' = [cancelled EXCEPT ![p] = FALSE]
  /\ byLoad' = [byLoad EXCEPT ![p] = FALSE]

-----------------------------------------------------------------------------
(* IGLScheduler.Run *)

Tick ==
  /\ lastPublish < MinPublish
  /\ lastPublish' = lastPublish + 1
  /\ UNCHANGED <<term, loaded, quiet, passVars, at, published, windowVars, statusVars, storeVars>>

\* It leads no scope, the daemon is not idle, another pass runs, or it has
\* published only just now.
IglSleeps ==
  /\ at["igl"] = "top" /\ ~term
  /\ Goto("igl", "asleep")
  /\ UNCHANGED <<term, loaded, quiet, passVars, iglVars, windowVars, statusVars, storeVars>>

IglBegins ==
  /\ at["igl"] = "top" /\ ~term
  /\ lastPublish >= MinPublish
  /\ BeginPass("igl")
  /\ published' = FALSE
  /\ Goto("igl", "pass")
  /\ UNCHANGED <<term, loaded, quiet, lastPublish, windowVars, statusVars, storeVars>>

IglPublishes ==
  /\ at["igl"] = "pass" /\ ~Done("igl") /\ ~published
  /\ published' = TRUE
  /\ UNCHANGED <<term, loaded, quiet, passVars, at, lastPublish, windowVars, statusVars, storeVars>>

\* RunOnce returns, with an error when its context is done and perhaps without;
\* what it published is stamped either way, and the scheduler sleeps, unless
\* the daemon is over.
IglEnds ==
  /\ at["igl"] = "pass"
  /\ lastPublish' = IF published THEN 0 ELSE lastPublish
  /\ published' = FALSE
  /\ EndPass("igl")
  /\ Goto("igl", IF term THEN "returned" ELSE "asleep")
  /\ UNCHANGED <<term, loaded, quiet, windowVars, statusVars, storeVars>>

-----------------------------------------------------------------------------
(* CognitionScheduler.Run and runIdleWindow *)

CogSleeps ==
  /\ at["cognition"] = "top" /\ ~term
  /\ ~Idle \/ slot # None
  /\ gated' = TRUE /\ current' = FALSE
  /\ Goto("cognition", "asleep")
  /\ UNCHANGED <<term, loaded, quiet, passVars, iglVars, windowVars, active, storeVars>>

CogBegins ==
  /\ at["cognition"] = "top" /\ ~term
  /\ BeginPass("cognition")
  /\ gated' = FALSE
  /\ ran' = 0 /\ late' = 0
  /\ Goto("cognition", "window")
  /\ UNCHANGED <<term, loaded, quiet, iglVars, current, active, storeVars>>

\* mutant: a window does not look at its context between two thoughts
GoesOnMutant == ran < MaxThoughts /\ ~loaded
\* The head of the loop and Yield, which waits while the daemon is loaded.
GoesOn == ran < MaxThoughts /\ ~Done("cognition") /\ ~loaded

CogSelects ==
  /\ at["cognition"] = "window" /\ GoesOn
  /\ Goto("cognition", "selecting")
  /\ UNCHANGED <<term, loaded, quiet, passVars, iglVars, windowVars, statusVars, storeVars>>

\* BeginThought; a query may have begun since the context was looked at.
CogThinks ==
  /\ at["cognition"] = "selecting" /\ "cognition" \notin borrowed
  /\ gated' = FALSE /\ current' = TRUE
  /\ late' = late + (IF Done("cognition") THEN 1 ELSE 0)
  /\ Goto("cognition", "thinking")
  /\ UNCHANGED <<term, loaded, quiet, passVars, iglVars, ran, active, storeVars>>

\* The thought is over and counts, whatever else went wrong with it.
CogThought ==
  /\ at["cognition"] = "thinking" /\ "cognition" \notin borrowed
  /\ current' = FALSE
  /\ ran' = ran + 1
  /\ Goto("cognition", "window")
  /\ UNCHANGED <<term, loaded, quiet, passVars, iglVars, late, gated, active, storeVars>>

\* mutant: the status is left as it was when a thought is cancelled
FinishedMutant == current
\* FinishThought runs before the outcome is looked at.
Finished == FALSE

\* The window returns: its context, its deadline or its thoughts' number ended,
\* the selector had nothing or failed, or the thought was cancelled or too slow.
\* "preempted" is what Run makes of the error and of canceledByLoad.
CogWindowEnds(preempted) ==
  /\ EndPass("cognition")
  /\ current' = Finished
  /\ gated' = ((gated \/ preempted) /\ ~term)
  /\ active' = (active /\ ~term)
  /\ ran' = 0 /\ late' = 0
  /\ Goto("cognition", IF term THEN "returned" ELSE "asleep")
  /\ UNCHANGED <<term, loaded, quiet, iglVars, storeVars>>

CogStops ==
  /\ "cognition" \notin borrowed
  /\ \/ \* the head of the loop, or what the selector answers
        /\ at["cognition"] \in {"window", "selecting"}
        /\ \/ Done("cognition") /\ CogWindowEnds(byLoad["cognition"] \/ loaded)
           \/ ~Done("cognition") /\ CogWindowEnds(FALSE)
     \/ \* Yield: its error always counts as the load's
        /\ at["cognition"] = "window" /\ Done("cognition") /\ ran < MaxThoughts
        /\ CogWindowEnds(TRUE)
     \/ \* the executor: cancelled, or over its own time
        /\ at["cognition"] = "thinking"
        /\ CogWindowEnds(Done("cognition"))

-----------------------------------------------------------------------------
(* predicateInventory.run *)

InventoryBegins ==
  /\ at["inventory"] = "waiting"
  /\ BeginPass("inventory")
  /\ Goto("inventory", "refreshing")
  /\ UNCHANGED <<term, loaded, quiet, iglVars, windowVars, statusVars, storeVars>>

InventoryEnds ==
  /\ at["inventory"] = "refreshing" /\ "inventory" \notin borrowed
  /\ EndPass("inventory")
  /\ Goto("inventory", "waiting")
  /\ UNCHANGED <<term, loaded, quiet, iglVars, windowVars, statusVars, storeVars>>

-----------------------------------------------------------------------------
(* Borrowing a generation: a helper of the selector, a call of the thought  *)
(* through the cache, a query of the inventory.  One call follows another.  *)

\* Closed stores lend nothing; a call that gets nothing fails.
Borrow(p) ==
  /\ at[p] \in {"selecting", "thinking", "refreshing"}
  /\ p \notin borrowed
  /\ runtime \in {"serving", "draining"}
  /\ borrowed' = borrowed \cup {p}
  /\ UNCHANGED <<term, loaded, quiet, passVars, at, iglVars, windowVars, statusVars, runtime>>

\* mutant: the store's Close waits with its mutex held, which release needs
GiveBackMutant(p) ==
  /\ p \in borrowed /\ runtime # "closing"
  /\ borrowed' = borrowed \ {p}
  /\ UNCHANGED <<term, loaded, quiet, passVars, at, iglVars, windowVars, statusVars, runtime>>

\* The deferred release, also of a call that was cancelled.
GiveBack(p) ==
  /\ p \in borrowed
  /\ borrowed' = borrowed \ {p}
  /\ UNCHANGED <<term, loaded, quiet, passVars, at, iglVars, windowVars, statusVars, runtime>>

-----------------------------------------------------------------------------
(* Sleeping, and the end of the daemon *)

Wake(p) ==
  /\ at[p] = "asleep" /\ ~term
  /\ Goto(p, "top")
  /\ UNCHANGED <<term, loaded, quiet, passVars, iglVars, windowVars, statusVars, storeVars>>

\* The loops' heads, sleepContext and the inventory's select see the context.
Return(p) ==
  /\ term /\ at[p] \in {"top", "asleep", "waiting"}
  /\ Goto(p, "returned")
  /\ IF p = "cognition" THEN gated' = FALSE /\ current' = FALSE /\ active' = FALSE
     ELSE UNCHANGED statusVars
  /\ UNCHANGED <<term, loaded, quiet, passVars, iglVars, windowVars, storeVars>>

Terminate ==
  /\ ~term /\ term' = TRUE
  /\ UNCHANGED <<loaded, quiet, passVars, at, iglVars, windowVars, statusVars, storeVars>>

\* grpcReasoningRuntime.Close: GracefulStop takes no new call and waits for the
\* old ones, Stop ends them; then the stores lend no more and wait for what
\* they have lent.  Nobody waits for the goroutines that borrow.
Drain ==
  /\ term /\ runtime = "serving" /\ runtime' = "draining"
  /\ UNCHANGED <<term, loaded, quiet, passVars, at, iglVars, windowVars, statusVars, borrowed>>

CloseStores ==
  /\ runtime = "draining" /\ ~loaded /\ runtime' = "closing"
  /\ UNCHANGED <<term, loaded, quiet, passVars, at, iglVars, windowVars, statusVars, borrowed>>

StoresClose ==
  /\ runtime = "closing" /\ borrowed = {}
  /\ runtime' = "closed"
  /\ UNCHANGED <<term, loaded, quiet, passVars, at, iglVars, windowVars, statusVars, borrowed>>

\* runServe returns after the scheduler and the runtime's Close have.
Exited == at["igl"] = "returned" /\ runtime = "closed"

Shutdown == Drain \/ CloseStores \/ StoresClose
IglStep == IglPublishes \/ IglEnds \/ Wake("igl") \/ Return("igl")
CogCallsEnd == CogThinks \/ CogThought \/ CogStops
CogStep == CogSleeps \/ CogSelects \/ CogCallsEnd \/ Wake("cognition") \/ Return("cognition")
InventoryStep == InventoryEnds \/ Return("inventory")

Next ==
  \/ QueryBegins \/ QueryEnds \/ Quiets \/ Tick
  \/ \E p \in Passers : Poll(p)
  \/ IglSleeps \/ IglBegins \/ IglStep
  \/ CogBegins \/ CogStep
  \/ InventoryBegins \/ InventoryStep
  \/ \E p \in Passers : Borrow(p) \/ GiveBack(p)
  \/ Terminate \/ Shutdown

Spec == Init /\ [][Next]_vars

\* Calls, passes, thoughts and sleeps end.  A selection, a thought and a refresh
\* make finitely many calls, so each goes on although its calls come and go.
\* The delays are jittered, so a scheduler does not always wake while another
\* pass holds the slot, nor lose the free slot to another every time it has
\* woken.
FairSpec ==
  /\ Spec
  /\ WF_vars(QueryEnds) /\ WF_vars(Tick) /\ WF_vars(Shutdown)
  /\ WF_vars(IglSleeps \/ IglEnds \/ Wake("igl") \/ Return("igl"))
  /\ WF_vars(CogStep) /\ WF_vars(InventoryStep)
  /\ \A p \in Passers : WF_vars(GiveBack(p))
  /\ SF_vars(CogCallsEnd) /\ SF_vars(InventoryEnds)
  /\ SF_vars(Wake("igl") /\ slot = None) /\ SF_vars(IglBegins)
  /\ SF_vars(Wake("cognition") /\ slot = None) /\ SF_vars(CogBegins)

-----------------------------------------------------------------------------

TypeOK ==
  /\ {term, loaded, quiet, published, gated, current, active} \subseteq BOOLEAN
  /\ slot \in Passers \cup {None}
  /\ lastPublish \in 0..MinPublish
  /\ ran \in 0..MaxThoughts
  /\ runtime \in {"serving", "draining", "closing", "closed"}
  /\ borrowed \subseteq Passers

(***************************************************************************)
(* A query that begins lets at most one more thought begin in the window   *)
(* it cancels: the gap between the window's look at its context            *)
(* (cognition.go:174-184) and BeginThought.                                *)
(***************************************************************************)
PreemptedSoon == late <= 1

(***************************************************************************)
(* /thinking tells the truth: a thought is shown exactly while one is      *)
(* executed, the wait for idleness only while the worker sleeps or looks,  *)
(* and a worker that has returned is shown as inactive, whichever of the   *)
(* ways out of a window (cognition.go:165-214) was taken.                  *)
(***************************************************************************)
StatusIsTrue ==
  /\ current = (at["cognition"] = "thinking")
  /\ gated => at["cognition"] \in {"top", "asleep"}
  /\ active = (at["cognition"] # "returned")

(***************************************************************************)
(* Quiet time is used by both: as long as the daemon is left alone, the    *)
(* IGL scheduler and the cognition worker keep beginning passes, although  *)
(* they, and the inventory, find the one slot taken by each other          *)
(* (load.go:162-167).                                                      *)
(***************************************************************************)
QuietTimeIsShared ==
  <>[](quiet /\ ~term) => []<><<IglBegins>>_vars /\ []<><<CogBegins>>_vars

(***************************************************************************)
(* A daemon that is told to stop does: the scheduler returns from wherever *)
(* it is, the calls in flight are waited for or cut off, and the stores    *)
(* close although the selector, a thought or the inventory may hold a      *)
(* generation of theirs that nobody asked them to give back                *)
(* (serve_grpc.go:286-317, serve.go:248-295).                              *)
(***************************************************************************)
ShutdownTerminates == term ~> Exited
=============================================================================
