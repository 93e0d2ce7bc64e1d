------------------------- MODULE GenerationService -------------------------
(***************************************************************************)
(* What the generation store promises to the code that reasons over a      *)
(* snapshot, with no reference counts, locks or goroutines in sight: every *)
(* borrower keeps the generation it was lent until it gives it back, and a *)
(* generation is disposed of only once nobody can reach it any more.       *)
(*                                                                         *)
(* GenerationStore implements this specification.                          *)
(***************************************************************************)
EXTENDS FiniteSets

CONSTANTS
  Gens,      \* the generations that may ever be built
  Clients,   \* the goroutines that borrow a generation
  NoGen      \* "no generation"

VARIABLES
  serving,   \* the generation a new borrower is lent
  retained,  \* the generations kept for rollback
  lent,      \* lent[c]: the generation client c holds
  disposed,  \* the generations whose handles are closed
  shut       \* the service was shut down

vars == <<serving, retained, lent, disposed, shut>>

Init ==
  /\ serving \in Gens \cup {NoGen}
  /\ retained = {}
  /\ lent = [c \in Clients |-> NoGen]
  /\ disposed = {}
  /\ shut = FALSE

\* A client is lent the generation being served at that moment.
Borrow(c) ==
  /\ lent[c] = NoGen
  /\ serving # NoGen
  /\ lent' = [lent EXCEPT ![c] = serving]
  /\ UNCHANGED <<serving, retained, disposed, shut>>

Return(c) ==
  /\ lent[c] # NoGen
  /\ lent' = [lent EXCEPT ![c] = NoGen]
  /\ UNCHANGED <<serving, retained, disposed, shut>>

\* A new generation takes over; the one it replaces may be retained.
Publish(g) ==
  /\ ~shut
  /\ g \notin disposed
  /\ serving' = g
  /\ retained' \in SUBSET (retained \cup ({serving} \ {NoGen}))
  /\ UNCHANGED <<lent, disposed, shut>>

\* The serving generation changes places with a retained one.
Revert(g) ==
  /\ serving # NoGen
  /\ g \in retained
  /\ serving' = g
  /\ retained' = (retained \ {g}) \cup {serving}
  /\ UNCHANGED <<lent, disposed, shut>>

Shutdown ==
  /\ ~shut
  /\ shut' = TRUE
  /\ serving' = NoGen
  /\ retained' = {}
  /\ UNCHANGED <<lent, disposed>>

\* Nobody can reach g: it is not served, not retained, and lent to no one.
Dispose(g) ==
  /\ g # serving
  /\ g \notin retained
  /\ \A c \in Clients : lent[c] # g
  /\ disposed' = disposed \cup {g}
  /\ UNCHANGED <<serving, retained, lent, shut>>

Next ==
  \/ \E c \in Clients : Borrow(c) \/ Return(c)
  \/ \E g \in Gens : Publish(g) \/ Revert(g) \/ Dispose(g)
  \/ Shutdown

Spec == Init /\ [][Next]_vars
=============================================================================
