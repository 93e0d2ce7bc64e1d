--------------------------- MODULE PublishingService ---------------------------
(***************************************************************************)
(* What the daemons that share an output directory promise: each scope has *)
(* at most one leader at a time, only the leader publishes, a published    *)
(* snapshot is replaced by a newer one and by nothing else.                *)
(***************************************************************************)
EXTENDS Naturals

CONSTANTS Daemons, Scopes, Nobody

VARIABLES
  leader,     \* of each scope, or Nobody
  published   \* the number of each scope's published attempt; 0: none

vars == <<leader, published>>

Init ==
  /\ leader = [s \in Scopes |-> Nobody]
  /\ published \in [Scopes -> Nat]

Elect(d, s) ==
  /\ leader[s] = Nobody
  /\ leader' = [leader EXCEPT ![s] = d]
  /\ UNCHANGED published

Publish(d, s) ==
  /\ leader[s] = d
  /\ published' = [published EXCEPT ![s] = published'[s]]
  /\ published'[s] > published[s]
  /\ UNCHANGED leader

\* One scope is released when a daemon leaves, all of them when it crashes.
StepDown(d, scopes) ==
  /\ \A s \in scopes : leader[s] = d
  /\ leader' = [s \in Scopes |-> IF s \in scopes THEN Nobody ELSE leader[s]]
  /\ UNCHANGED published

Next ==
  \E d \in Daemons :
    \/ \E s \in Scopes : Elect(d, s) \/ Publish(d, s)
    \/ \E scopes \in SUBSET Scopes : StepDown(d, scopes)

Spec == Init /\ [][Next]_vars
=============================================================================
