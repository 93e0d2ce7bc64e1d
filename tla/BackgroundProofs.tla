--------------------------- MODULE BackgroundProofs ---------------------------
(***************************************************************************)
(* Proofs about what runs beside the queries.  Of the daemon's work        *)
(* (Background): the status of the cognition worker is true, a query       *)
(* preempts its window, and nothing is in flight once the stores close.    *)
(* Of the reloader (SnapshotReload): no reload remembers more than it      *)
(* serves, for any pool size, any number of snapshots and any set of them  *)
(* that validation rejects.                                                *)
(***************************************************************************)
EXTENDS Background, SnapshotReload, TLAPS

-----------------------------------------------------------------------------
(* The daemon's work *)

Places == {"top", "asleep", "pass", "window", "selecting", "thinking", "waiting",
           "refreshing", "returned"}

Types ==
  /\ term \in BOOLEAN /\ loaded \in BOOLEAN /\ quiet \in BOOLEAN /\ published \in BOOLEAN
  /\ gated \in BOOLEAN /\ current \in BOOLEAN /\ active \in BOOLEAN
  /\ slot \in Passers \cup {None}
  /\ cancelled \in [Passers -> BOOLEAN] /\ byLoad \in [Passers -> BOOLEAN]
  /\ at \in [Passers -> Places]
  /\ lastPublish \in 0..MinPublish
  /\ ran \in 0..MaxThoughts
  /\ late \in 0..1
  /\ runtime \in {"serving", "draining", "closing", "closed"}
  /\ borrowed \subseteq Passers

\* A thought is begun only while there is room for it in the window.
ThoughtsFit == at["cognition"] \in {"selecting", "thinking"} => ran < MaxThoughts

\* A thought that began too late knows it: its window's context is done, so
\* the window does not select another.
LateKnows == late = 1 => Done("cognition") /\ at["cognition"] \in {"thinking", "window"}

\* The stores are closed only after the last call, and when they are, none of
\* the goroutines beside the calls holds or gets a generation.
ClosedInOrder ==
  /\ runtime # "serving" => term
  /\ runtime \in {"closing", "closed"} => ~loaded
  /\ runtime = "closed" => borrowed = {}

CognitionInvariant == Types /\ ThoughtsFit /\ LateKnows /\ ClosedInOrder /\ StatusIsTrue

-----------------------------------------------------------------------------

\* The worker starts at the head of its loop, shown as active.
LEMMA InitCognition == Init => CognitionInvariant
<1> SUFFICES ASSUME Init PROVE CognitionInvariant
  OBVIOUS
<1>1. cancelled \in [Passers -> BOOLEAN] /\ byLoad \in [Passers -> BOOLEAN]
  BY DEF Init
<1>2. at \in [Passers -> Places] /\ at["cognition"] = "top"
  BY DEF Init, Passers, Places
<1>3. lastPublish \in 0..MinPublish /\ ran \in 0..MaxThoughts /\ late \in 0..1
  BY BoundsArePositive DEF Init
<1>4. Types
  BY <1>1, <1>2, <1>3 DEF Init, Types
<1>5. ThoughtsFit /\ LateKnows /\ ClosedInOrder
  BY <1>2 DEF Init, ThoughtsFit, LateKnows, ClosedInOrder
<1>6. StatusIsTrue
  BY <1>2 DEF Init, StatusIsTrue
<1> QED  BY <1>4, <1>5, <1>6 DEF CognitionInvariant

-----------------------------------------------------------------------------
(* What the steps leave alone *)

OfWorker == <<at["cognition"], ran, late, statusVars>>

\* Whatever keeps the worker's own state, and neither takes the cancellation of
\* its context nor the end of the daemon back, keeps what is known of it.
LEMMA WorkerUndisturbed ==
  ASSUME CognitionInvariant, UNCHANGED OfWorker,
         Done("cognition") => Done("cognition")'
  PROVE  ThoughtsFit' /\ LateKnows' /\ StatusIsTrue'
<1>1. ThoughtsFit'
  BY DEF CognitionInvariant, OfWorker, ThoughtsFit
<1>2. LateKnows'
  BY DEF CognitionInvariant, OfWorker, LateKnows
<1>3. StatusIsTrue'
  BY DEF CognitionInvariant, OfWorker, statusVars, StatusIsTrue
<1> QED  BY <1>1, <1>2, <1>3

\* A pass begins and ends with its own context only.
LEMMA PassTypes ==
  ASSUME Types, NEW p \in Passers, BeginPass(p) \/ EndPass(p)
  PROVE  /\ slot' \in Passers \cup {None}
         /\ cancelled' \in [Passers -> BOOLEAN] /\ byLoad' \in [Passers -> BOOLEAN]
         /\ p # "cognition" => cancelled'["cognition"] = cancelled["cognition"]
  BY DEF Types, Passers, BeginPass, EndPass

\* Somebody goes somewhere, and the others stay.
LEMMA GotoTypes ==
  ASSUME Types, NEW p \in Passers, NEW place \in Places, Goto(p, place)
  PROVE  /\ at' \in [Passers -> Places]
         /\ at'[p] = place
         /\ p # "cognition" => at'["cognition"] = at["cognition"]
  BY DEF Types, Passers, Goto

-----------------------------------------------------------------------------
(* The steps *)

\* Queries, the poller and the clock.
LEMMA LoadStep ==
  ASSUME CognitionInvariant,
         QueryBegins \/ QueryEnds \/ Quiets \/ Tick \/ \E p \in Passers : Poll(p)
  PROVE  CognitionInvariant'
<1> USE DEF storeVars
<1>1. CASE QueryBegins
  <2>1. cancelled' \in [Passers -> BOOLEAN]
    <3>1. cancelled \in [Passers -> BOOLEAN]
      BY DEF CognitionInvariant, Types
    <3> QED  BY <1>1, <3>1 DEF QueryBegins
  <2>2. cancelled["cognition"] => cancelled'["cognition"]
    BY <1>1 DEF QueryBegins, Passers
  <2>3. Types'
    BY <1>1, <2>1 DEF QueryBegins, CognitionInvariant, Types, iglVars, windowVars, statusVars
  <2>4. UNCHANGED OfWorker /\ (Done("cognition") => Done("cognition")')
    BY <1>1, <2>2 DEF QueryBegins, OfWorker, windowVars, statusVars, Done
  <2>5. ClosedInOrder'
    BY <1>1 DEF QueryBegins, CognitionInvariant, ClosedInOrder
  <2> QED  BY <2>3, <2>4, <2>5, WorkerUndisturbed DEF CognitionInvariant
<1>2. CASE QueryEnds
  <2>1. Types' /\ ClosedInOrder'
    BY <1>2 DEF QueryEnds, CognitionInvariant, Types, ClosedInOrder, passVars, iglVars, windowVars, statusVars
  <2>2. UNCHANGED OfWorker /\ (Done("cognition") => Done("cognition")')
    BY <1>2 DEF QueryEnds, OfWorker, passVars, windowVars, statusVars, Done
  <2> QED  BY <2>1, <2>2, WorkerUndisturbed DEF CognitionInvariant
<1>3. CASE Quiets
  <2>1. Types' /\ ClosedInOrder'
    BY <1>3 DEF Quiets, CognitionInvariant, Types, ClosedInOrder, passVars, iglVars, windowVars, statusVars
  <2>2. UNCHANGED OfWorker /\ (Done("cognition") => Done("cognition")')
    BY <1>3 DEF Quiets, OfWorker, passVars, windowVars, statusVars, Done
  <2> QED  BY <2>1, <2>2, WorkerUndisturbed DEF CognitionInvariant
<1>4. CASE Tick
  <2>1. lastPublish' \in 0..MinPublish
    BY <1>4, BoundsArePositive DEF Tick, CognitionInvariant, Types
  <2>2. Types' /\ ClosedInOrder'
    BY <1>4, <2>1 DEF Tick, CognitionInvariant, Types, ClosedInOrder, passVars, windowVars, statusVars
  <2>3. UNCHANGED OfWorker /\ (Done("cognition") => Done("cognition")')
    BY <1>4 DEF Tick, OfWorker, passVars, windowVars, statusVars, Done
  <2> QED  BY <2>2, <2>3, WorkerUndisturbed DEF CognitionInvariant
<1>5. ASSUME NEW p \in Passers, Poll(p) PROVE CognitionInvariant'
  <2>1. cancelled' \in [Passers -> BOOLEAN] /\ byLoad' \in [Passers -> BOOLEAN]
    BY <1>5 DEF Poll, CognitionInvariant, Types
  <2>2. cancelled["cognition"] => cancelled'["cognition"]
    BY <1>5 DEF Poll, CognitionInvariant, Types, Passers
  <2>3. Types' /\ ClosedInOrder'
    BY <1>5, <2>1 DEF Poll, CognitionInvariant, Types, ClosedInOrder, iglVars, windowVars, statusVars
  <2>4. UNCHANGED OfWorker /\ (Done("cognition") => Done("cognition")')
    BY <1>5, <2>2 DEF Poll, OfWorker, windowVars, statusVars, Done
  <2> QED  BY <2>3, <2>4, WorkerUndisturbed DEF CognitionInvariant
<1> QED  BY <1>1, <1>2, <1>3, <1>4, <1>5

\* The scheduler and the inventory.
LEMMA OthersStep ==
  ASSUME CognitionInvariant,
         IglSleeps \/ IglBegins \/ IglStep \/ InventoryBegins \/ InventoryStep
  PROVE  CognitionInvariant'
<1> USE DEF storeVars
<1> DEFINE Moves(p) == \E place \in Places : Goto(p, place)
<1>1. PICK p \in {"igl", "inventory"} :
         /\ Moves(p) \/ UNCHANGED at
         /\ BeginPass(p) \/ EndPass(p) \/ UNCHANGED passVars
         /\ UNCHANGED <<term, loaded, quiet, windowVars, statusVars, storeVars>>
         /\ published' \in BOOLEAN /\ lastPublish' \in 0..MinPublish
  <2>1. published \in BOOLEAN /\ lastPublish \in 0..MinPublish /\ 0 \in 0..MinPublish
    BY BoundsArePositive DEF CognitionInvariant, Types
  <2>2. CASE IglSleeps
    BY <2>1, <2>2 DEF IglSleeps, iglVars, Places
  <2>3. CASE IglBegins
    BY <2>1, <2>3 DEF IglBegins, Places
  <2>4. CASE IglPublishes
    BY <2>1, <2>4 DEF IglPublishes
  <2>5. CASE IglEnds
    BY <2>1, <2>5 DEF IglEnds, Places
  <2>6. CASE Wake("igl")
    BY <2>1, <2>6 DEF Wake, iglVars, Places
  <2>7. CASE Return("igl")
    BY <2>1, <2>7 DEF Return, iglVars, statusVars, Places
  <2>8. CASE InventoryBegins
    BY <2>1, <2>8 DEF InventoryBegins, iglVars, Places
  <2>9. CASE InventoryEnds
    BY <2>1, <2>9 DEF InventoryEnds, iglVars, Places
  <2>10. CASE Return("inventory")
    BY <2>1, <2>10 DEF Return, iglVars, statusVars, Places
  <2> QED
    BY <2>2, <2>3, <2>4, <2>5, <2>6, <2>7, <2>8, <2>9, <2>10 DEF IglStep, InventoryStep
<1>2. p \in Passers /\ p # "cognition" /\ Types
  BY DEF Passers, CognitionInvariant
<1>3. at' \in [Passers -> Places] /\ at'["cognition"] = at["cognition"]
  <2>1. CASE UNCHANGED at
    BY <1>2, <2>1 DEF Types
  <2>2. CASE Moves(p)
    BY <1>2, <2>2, GotoTypes
  <2> QED  BY <1>1, <2>1, <2>2
<1>4. /\ slot' \in Passers \cup {None}
      /\ cancelled' \in [Passers -> BOOLEAN] /\ byLoad' \in [Passers -> BOOLEAN]
      /\ cancelled'["cognition"] = cancelled["cognition"]
  <2>1. CASE UNCHANGED passVars
    BY <1>2, <2>1 DEF Types, passVars
  <2>2. CASE BeginPass(p) \/ EndPass(p)
    BY <1>2, <2>2, PassTypes
  <2> QED  BY <1>1, <2>1, <2>2
<1>5. Types'
  BY <1>1, <1>2, <1>3, <1>4 DEF Types, windowVars, statusVars
<1>6. UNCHANGED OfWorker /\ (Done("cognition") => Done("cognition")')
  BY <1>1, <1>3, <1>4 DEF OfWorker, windowVars, statusVars, Done
<1>7. ClosedInOrder'
  BY <1>1 DEF CognitionInvariant, ClosedInOrder
<1> QED  BY <1>5, <1>6, <1>7, WorkerUndisturbed DEF CognitionInvariant

\* The worker's own steps.  Only CogThinks can begin a thought too late, and it
\* finds none before it; then the context is done, and GoesOn fails.
LEMMA WorkerStep ==
  ASSUME CognitionInvariant, CogBegins \/ CogStep
  PROVE  CognitionInvariant'
<1> USE DEF Places, storeVars
<1>1. Types /\ "cognition" \in Passers
  BY DEF CognitionInvariant, Passers
<1>2. CASE CogSleeps
  <2>1. at' \in [Passers -> Places] /\ at'["cognition"] = "asleep"
    BY <1>1, <1>2, GotoTypes DEF CogSleeps
  <2>2. Types' /\ ClosedInOrder'
    BY <1>1, <1>2, <2>1
    DEF CogSleeps, CognitionInvariant, Types, ClosedInOrder, passVars, iglVars, windowVars
  <2>3. ThoughtsFit' /\ LateKnows'
    BY <1>1, <1>2, <2>1 DEF CogSleeps, CognitionInvariant, Types, ThoughtsFit, LateKnows, windowVars
  <2>4. StatusIsTrue'
    BY <1>2, <2>1 DEF CogSleeps, CognitionInvariant, StatusIsTrue
  <2> QED  BY <2>2, <2>3, <2>4 DEF CognitionInvariant
<1>3. CASE CogBegins
  <2>1. at' \in [Passers -> Places] /\ at'["cognition"] = "window"
    BY <1>1, <1>3, GotoTypes DEF CogBegins
  <2>2. /\ slot' \in Passers \cup {None}
        /\ cancelled' \in [Passers -> BOOLEAN] /\ byLoad' \in [Passers -> BOOLEAN]
    BY <1>1, <1>3, PassTypes DEF CogBegins
  <2>3. ran' = 0 /\ late' = 0 /\ ran' \in 0..MaxThoughts
    BY <1>3, BoundsArePositive DEF CogBegins
  <2>4. Types'
    <3>1. UNCHANGED <<term, loaded, quiet, published, lastPublish, current, active, storeVars>>
      BY <1>3 DEF CogBegins, iglVars
    <3>2. gated' = FALSE
      BY <1>3 DEF CogBegins
    <3>3. late' \in 0..1
      BY <2>3
    <3> QED  BY <1>1, <2>1, <2>2, <2>3, <3>1, <3>2, <3>3 DEF Types
  <2>7. ClosedInOrder'
    BY <1>3 DEF CogBegins, CognitionInvariant, ClosedInOrder
  <2>5. ThoughtsFit' /\ LateKnows'
    BY <2>1, <2>3 DEF ThoughtsFit, LateKnows
  <2>6. StatusIsTrue'
    BY <1>3, <2>1 DEF CogBegins, CognitionInvariant, StatusIsTrue
  <2> QED  BY <2>4, <2>5, <2>6, <2>7 DEF CognitionInvariant
<1>4. CASE CogSelects
  <2>1. at' \in [Passers -> Places] /\ at'["cognition"] = "selecting"
    BY <1>1, <1>4, GotoTypes DEF CogSelects
  <2>2. Types' /\ ClosedInOrder'
    BY <1>1, <1>4, <2>1
    DEF CogSelects, CognitionInvariant, Types, ClosedInOrder, passVars, iglVars, windowVars, statusVars
  <2>3. ThoughtsFit' /\ LateKnows'
    BY <1>4, <2>1
    DEF CogSelects, GoesOn, CognitionInvariant, Types, ThoughtsFit, LateKnows, windowVars
  <2>4. StatusIsTrue'
    BY <1>4, <2>1 DEF CogSelects, CognitionInvariant, StatusIsTrue, statusVars
  <2> QED  BY <2>2, <2>3, <2>4 DEF CognitionInvariant
<1>5. CASE CogThinks
  <2>1. at' \in [Passers -> Places] /\ at'["cognition"] = "thinking"
    BY <1>1, <1>5, GotoTypes DEF CogThinks
  <2>2. late = 0
    BY <1>5 DEF CogThinks, CognitionInvariant, Types, LateKnows
  <2>3. late' \in 0..1 /\ (late' = 1 => Done("cognition"))
    BY <1>5, <2>2 DEF CogThinks
  <2>4. Types' /\ ClosedInOrder'
    BY <1>1, <1>5, <2>1, <2>3
    DEF CogThinks, CognitionInvariant, Types, ClosedInOrder, passVars, iglVars
  <2>5. Done("cognition") => Done("cognition")'
    BY <1>5 DEF CogThinks, Done, passVars
  <2>6. ThoughtsFit' /\ LateKnows'
    BY <1>5, <2>1, <2>3, <2>5 DEF CogThinks, CognitionInvariant, ThoughtsFit, LateKnows
  <2>7. StatusIsTrue'
    BY <1>5, <2>1 DEF CogThinks, CognitionInvariant, StatusIsTrue
  <2> QED  BY <2>4, <2>6, <2>7 DEF CognitionInvariant
<1>6. CASE CogThought
  <2>1. at' \in [Passers -> Places] /\ at'["cognition"] = "window"
    BY <1>1, <1>6, GotoTypes DEF CogThought
  <2>2. ran' \in 0..MaxThoughts
    BY <1>6, BoundsArePositive DEF CogThought, CognitionInvariant, Types, ThoughtsFit
  <2>3. Types' /\ ClosedInOrder'
    BY <1>1, <1>6, <2>1, <2>2
    DEF CogThought, CognitionInvariant, Types, ClosedInOrder, passVars, iglVars
  <2>4. Done("cognition") => Done("cognition")'
    BY <1>6 DEF CogThought, Done, passVars
  <2>5. ThoughtsFit' /\ LateKnows'
    BY <1>6, <2>1, <2>4 DEF CogThought, CognitionInvariant, ThoughtsFit, LateKnows
  <2>6. StatusIsTrue'
    BY <1>6, <2>1 DEF CogThought, CognitionInvariant, StatusIsTrue
  <2> QED  BY <2>3, <2>5, <2>6 DEF CognitionInvariant
<1>7. ASSUME NEW preempted \in BOOLEAN, CogWindowEnds(preempted),
             at["cognition"] \in {"window", "selecting", "thinking"}
      PROVE  CognitionInvariant'
  <2>1. /\ at' \in [Passers -> Places]
        /\ at'["cognition"] = IF term THEN "returned" ELSE "asleep"
    BY <1>1, <1>7, GotoTypes DEF CogWindowEnds
  <2>2. /\ slot' \in Passers \cup {None}
        /\ cancelled' \in [Passers -> BOOLEAN] /\ byLoad' \in [Passers -> BOOLEAN]
    BY <1>1, <1>7, PassTypes DEF CogWindowEnds
  <2>3. ran' = 0 /\ late' = 0 /\ ran' \in 0..MaxThoughts
    BY <1>7, BoundsArePositive DEF CogWindowEnds
  <2>4. current' = FALSE /\ gated' \in BOOLEAN /\ (term => ~gated')
    BY <1>1, <1>7 DEF CogWindowEnds, Finished, Types
  <2>5. active /\ active' = ~term
    <3>1. active
      BY <1>7 DEF CognitionInvariant, StatusIsTrue
    <3>2. active' = (active /\ ~term)
      BY <1>7 DEF CogWindowEnds
    <3> QED  BY <3>1, <3>2
  <2>6. Types'
    <3>1. UNCHANGED <<term, loaded, quiet, published, lastPublish, storeVars>>
      BY <1>7 DEF CogWindowEnds, iglVars
    <3>2. late' \in 0..1
      BY <2>3
    <3>3. current' \in BOOLEAN
      BY <2>4
    <3>4. active' \in BOOLEAN
      BY <2>5, Zenon
    <3> QED  BY <1>1, <2>1, <2>2, <2>3, <2>4, <3>1, <3>2, <3>3, <3>4 DEF Types
  <2>9. ClosedInOrder'
    BY <1>7 DEF CogWindowEnds, CognitionInvariant, ClosedInOrder
  <2>7. ThoughtsFit' /\ LateKnows'
    BY <2>1, <2>3 DEF ThoughtsFit, LateKnows
  <2>8. StatusIsTrue'
    BY <1>1, <2>1, <2>4, <2>5 DEF Types, StatusIsTrue
  <2> QED  BY <2>6, <2>7, <2>8, <2>9 DEF CognitionInvariant
<1>8. CASE CogStops
  <2>1. byLoad["cognition"] \in BOOLEAN /\ loaded \in BOOLEAN
        /\ cancelled["cognition"] \in BOOLEAN /\ term \in BOOLEAN
    BY <1>1 DEF Types
  <2>2. (byLoad["cognition"] \/ loaded) \in BOOLEAN
    BY <2>1, Zenon
  <2>3. Done("cognition") \in BOOLEAN
    BY <2>1, Zenon DEF Done
  <2> QED  BY <1>7, <1>8, <2>2, <2>3 DEF CogStops
<1>9. CASE Wake("cognition")
  <2>1. at' \in [Passers -> Places] /\ at'["cognition"] = "top"
    BY <1>1, <1>9, GotoTypes DEF Wake
  <2>2. Types' /\ ClosedInOrder'
    BY <1>1, <1>9, <2>1
    DEF Wake, CognitionInvariant, Types, ClosedInOrder, passVars, iglVars, windowVars, statusVars
  <2>3. ThoughtsFit' /\ LateKnows'
    BY <1>9, <2>1 DEF Wake, CognitionInvariant, ThoughtsFit, LateKnows, windowVars
  <2>4. StatusIsTrue'
    BY <1>9, <2>1 DEF Wake, CognitionInvariant, StatusIsTrue, statusVars
  <2> QED  BY <2>2, <2>3, <2>4 DEF CognitionInvariant
<1>10. CASE Return("cognition")
  <2>1. at' \in [Passers -> Places] /\ at'["cognition"] = "returned"
    BY <1>1, <1>10, GotoTypes DEF Return
  <2>2. gated' = FALSE /\ current' = FALSE /\ active' = FALSE
    BY <1>10 DEF Return
  <2>3. Types' /\ ClosedInOrder'
    BY <1>1, <1>10, <2>1, <2>2
    DEF Return, CognitionInvariant, Types, ClosedInOrder, passVars, iglVars, windowVars
  <2>4. ThoughtsFit' /\ LateKnows'
    BY <1>10, <2>1 DEF Return, CognitionInvariant, ThoughtsFit, LateKnows, windowVars
  <2>5. StatusIsTrue'
    BY <2>1, <2>2 DEF StatusIsTrue
  <2> QED  BY <2>3, <2>4, <2>5 DEF CognitionInvariant
<1> QED  BY <1>2, <1>3, <1>4, <1>5, <1>6, <1>8, <1>9, <1>10 DEF CogStep, CogCallsEnd

\* The end of the daemon.
LEMMA EndStep ==
  ASSUME CognitionInvariant, Terminate \/ Shutdown
  PROVE  CognitionInvariant'
<1> USE DEF storeVars
<1>1. /\ UNCHANGED <<loaded, quiet, passVars, at, iglVars, windowVars, statusVars>>
      /\ term => term'
      /\ term' \in BOOLEAN /\ runtime' \in {"serving", "draining", "closing", "closed"}
      /\ UNCHANGED borrowed
  BY DEF Terminate, Shutdown, Drain, CloseStores, StoresClose, CognitionInvariant, Types
<1>2. Types'
  BY <1>1 DEF CognitionInvariant, Types, passVars, iglVars, windowVars, statusVars
<1>3. UNCHANGED OfWorker /\ (Done("cognition") => Done("cognition")')
  BY <1>1 DEF OfWorker, passVars, windowVars, statusVars, Done
<1>4. ClosedInOrder'
  BY DEF Terminate, Shutdown, Drain, CloseStores, StoresClose, CognitionInvariant, ClosedInOrder
<1> QED  BY <1>2, <1>3, <1>4, WorkerUndisturbed DEF CognitionInvariant

\* A call borrows a generation, unless the stores are closed, or gives it back.
LEMMA BorrowStep ==
  ASSUME CognitionInvariant, NEW p \in Passers, Borrow(p) \/ GiveBack(p)
  PROVE  CognitionInvariant'
<1>1. /\ UNCHANGED <<term, loaded, quiet, passVars, at, iglVars, windowVars, statusVars, runtime>>
      /\ borrowed' \subseteq Passers
  BY DEF Borrow, GiveBack, CognitionInvariant, Types
<1>2. Types'
  BY <1>1 DEF CognitionInvariant, Types, passVars, iglVars, windowVars, statusVars
<1>3. UNCHANGED OfWorker /\ (Done("cognition") => Done("cognition")')
  BY <1>1 DEF OfWorker, passVars, windowVars, statusVars, Done
<1>4. ClosedInOrder'
  BY DEF Borrow, GiveBack, CognitionInvariant, ClosedInOrder
<1> QED  BY <1>2, <1>3, <1>4, WorkerUndisturbed DEF CognitionInvariant

LEMMA StepCognition == CognitionInvariant /\ [Next]_vars => CognitionInvariant'
<1> SUFFICES ASSUME CognitionInvariant, [Next]_vars PROVE CognitionInvariant'
  OBVIOUS
<1> USE DEF storeVars
<1>1. CASE UNCHANGED vars
  <2>1. Types' /\ ClosedInOrder'
    BY <1>1
    DEF CognitionInvariant, Types, ClosedInOrder, vars, passVars, iglVars, windowVars, statusVars
  <2>2. UNCHANGED OfWorker /\ (Done("cognition") => Done("cognition")')
    BY <1>1 DEF OfWorker, vars, passVars, windowVars, statusVars, Done
  <2> QED  BY <2>1, <2>2, WorkerUndisturbed DEF CognitionInvariant
<1>2. CASE Next
  BY <1>2, LoadStep, OthersStep, WorkerStep, EndStep, BorrowStep DEF Next
<1> QED  BY <1>1, <1>2

-----------------------------------------------------------------------------

\* The worker's window, its status and the order of the end hold together in
\* every state, however long a window and an interval of publication.
THEOREM CognitionInvariantHolds == Spec => []CognitionInvariant
  BY InitCognition, StepCognition, PTL DEF Spec

\* The variables keep their types (TypeOK).
THEOREM BackgroundTypes == Spec => []TypeOK
<1>1. CognitionInvariant => TypeOK
  BY DEF CognitionInvariant, Types, TypeOK
<1> QED  BY <1>1, CognitionInvariantHolds, PTL

\* What /thinking shows is what the worker does (thinking.go, cognition.go).
THEOREM StatusTold == Spec => []StatusIsTrue
<1>1. CognitionInvariant => StatusIsTrue
  BY DEF CognitionInvariant
<1> QED  BY <1>1, CognitionInvariantHolds, PTL

\* At most one thought begins in a window after its context is done
\* (cognition.go:174-184).
THEOREM WindowPreempted == Spec => []PreemptedSoon
<1>1. CognitionInvariant => PreemptedSoon
  BY DEF CognitionInvariant, Types, PreemptedSoon
<1> QED  BY <1>1, CognitionInvariantHolds, PTL

\* The stores close only when the daemon is over, never under a call, and stay
\* closed to the selector, the thoughts and the inventory, whose goroutines run
\* on (serve_grpc.go:286-317).
THEOREM StoresCloseLast == Spec => []ClosedInOrder
<1>1. CognitionInvariant => ClosedInOrder
  BY DEF CognitionInvariant
<1> QED  BY <1>1, CognitionInvariantHolds, PTL

-----------------------------------------------------------------------------
(* The reloader *)

\* Before the snapshot is opened nothing is built, served or remembered.
LEMMA ReloadInit == ASSUME ReloaderInit PROVE ReloadInvariant
<1>1. /\ Unopened \in [Handles -> 0..LastSnapshot]
      /\ \A h \in Handles : Unopened[h] = 0
  BY SnapshotsExist DEF Unopened
<1>2. 1 \in Snapshots /\ 0 \in 0..LastSnapshot
  BY SnapshotsExist DEF Snapshots
<1>3. ReloaderTypeOK
  BY <1>1, <1>2 DEF ReloaderInit, ReloaderTypeOK
<1>4. QED BY <1>1, <1>3 DEF ReloaderInit, ReloadInvariant

\* Every step of the opening, of the reloader and of the publisher
\* preserves the invariant.
LEMMA ReloadStep == ASSUME ReloadInvariant, [ReloaderNext]_reloadVars PROVE ReloadInvariant'
<1> USE SnapshotsExist DEF Snapshots
<1>1. CASE Publish
  BY <1>1 DEF Publish, ReloadInvariant, ReloaderTypeOK
<1>2. ASSUME NEW h \in Handles, OpenHandle(h) PROVE ReloadInvariant'
  <2>1. /\ BuildSource \in 1..LastSnapshot
        /\ BuildSource <= atPath
        /\ pc = "building" => BuildSource >= fp /\ (linked => BuildSource = fp)
    BY DEF BuildSource, ReloadInvariant, ReloaderTypeOK
  <2>2. QED BY <1>2, <2>1 DEF OpenHandle, ReloadInvariant, ReloaderTypeOK
<1>3. CASE OpenFails
  BY <1>3 DEF OpenFails, Unopened, ReloadInvariant, ReloaderTypeOK
<1>4. CASE OpenBegin
  BY <1>4 DEF OpenBegin, Unopened, ReloadInvariant, ReloaderTypeOK
<1>5. CASE Admit
  BY <1>5 DEF Admit, Accepts, Complete, Unopened, ReloadInvariant, ReloaderTypeOK
<1>6. CASE RejectFirst
  BY <1>6 DEF RejectFirst, Unopened, ReloadInvariant, ReloaderTypeOK
<1>7. CASE StartReloader
  BY <1>7 DEF StartReloader, ReloadInvariant, ReloaderTypeOK
<1>8. CASE PollTick
  BY <1>8 DEF PollTick, Unopened, ReloadInvariant, ReloaderTypeOK
<1>9. CASE Reload
  BY <1>9 DEF Reload, Accepts, Complete, Unopened, ReloadInvariant, ReloaderTypeOK
<1>10. CASE Reject
  BY <1>10 DEF Reject, Unopened, ReloadInvariant, ReloaderTypeOK
<1>11. CASE StopBegin
  BY <1>11 DEF StopBegin, ReloadInvariant, ReloaderTypeOK
<1>12. CASE Stop
  <2>1. /\ Unopened \in [Handles -> 0..LastSnapshot]
        /\ \A h \in Handles : Unopened[h] = 0
    BY DEF Unopened
  <2>2. ReloaderTypeOK'
    <3>1. /\ served' \in [Handles -> 0..LastSnapshot]
          /\ last' \in 0..LastSnapshot
          /\ pc' = "unopened" /\ stopping' = FALSE
          /\ UNCHANGED <<linked, atPath, candidate, fp>>
      BY <1>12, <2>1 DEF Stop
    <3>2. QED BY <3>1 DEF ReloadInvariant, ReloaderTypeOK
  <2>3. \A h \in Handles : served'[h] <= atPath /\ candidate'[h] <= atPath
    BY <1>12, <2>1 DEF Stop, ReloadInvariant, ReloaderTypeOK
  <2>4. QED BY <1>12, <2>2, <2>3 DEF Stop, ReloadInvariant, ReloaderTypeOK
<1>13. CASE UNCHANGED reloadVars
  BY <1>13 DEF reloadVars, ReloadInvariant, ReloaderTypeOK
<1>14. QED
  BY <1>1, <1>2, <1>3, <1>4, <1>5, <1>6, <1>7, <1>8, <1>9, <1>10, <1>11, <1>12, <1>13
  DEF ReloaderNext

\* The invariant of the reloader holds in every reachable state.
THEOREM ReloadInvariantHolds == ReloaderSpec => []ReloadInvariant
<1>1. QED BY ReloadInit, ReloadStep, PTL DEF ReloaderSpec

\* Only an accepted candidate changes what is served or remembered, and it
\* is at least as new as the fingerprint remembered for it.
LEMMA ReloadServes ==
  ASSUME ReloadInvariant, ReloaderNext, IsReload
  PROVE  \A h \in Handles : served'[h] >= last' /\ (linked => served'[h] = last')
<1>1. CASE Reload
  BY <1>1 DEF Reload, Accepts, Complete, IsReload, ReloadInvariant, ReloaderTypeOK
<1>2. CASE ~Reload
  BY <1>2 DEF ReloaderNext, IsReload, Publish, OpenHandle, OpenFails, OpenBegin, Admit,
              RejectFirst, StartReloader, PollTick, Reject, StopBegin, Stop
<1>3. QED BY <1>1, <1>2

\* A reload never remembers more than it serves.
THEOREM ReloadsMissNothing == ReloaderSpec => ReloadsServeTheirFingerprint
<1>1. ASSUME ReloadInvariant, [ReloaderNext]_reloadVars
      PROVE  [IsReload => \A h \in Handles :
                served'[h] >= last' /\ (linked => served'[h] = last')]_reloadVars
  BY <1>1, ReloadServes
<1>2. QED BY <1>1, ReloadInvariantHolds, PTL DEF ReloaderSpec, ReloadsServeTheirFingerprint
===============================================================================
