--------------------------- MODULE SnapshotReload ---------------------------
(***************************************************************************)
(* One served snapshot from its first opening to its closing: the opening  *)
(* of its generation (acquireTopic in topic_manager.go, and                *)
(* startGRPCReasoningServer in serve_grpc.go, which do the same), and the  *)
(* reloader that polls the path for a newer snapshot (reloader.go), while  *)
(* a publisher replaces the snapshot at that path.                         *)
(*                                                                         *)
(* Snapshots are numbered in the order they are published.  The path is a  *)
(* plain file, replaced by rename, or a link to an immutable version; both *)
(* occur (publishSnapshot in igl.go).  A fingerprint is the number of the  *)
(* snapshot it was taken of: the publisher gives every snapshot another    *)
(* modification time or target.  The handles of a generation are opened    *)
(* one after the other, so each sees the snapshot of its own moment.       *)
(***************************************************************************)
EXTENDS Naturals

CONSTANTS
  PoolSize,      \* handles per generation
  LastSnapshot,  \* bound: the snapshots are 1..LastSnapshot
  Bad            \* the snapshots that validation rejects

ASSUME PoolSizePositive == PoolSize \in Nat \ {0}
ASSUME SnapshotsExist == LastSnapshot \in Nat \ {0}
ASSUME BadSnapshots == Bad \subseteq 1..LastSnapshot

Handles == 1..PoolSize
Snapshots == 1..LastSnapshot
Unopened == [h \in Handles |-> 0]

VARIABLES
  linked,     \* whether the path is a link to versions; never changes
  atPath,     \* the snapshot at the path
  served,     \* the snapshot of each handle of the current generation
  candidate,  \* the same for the generation being built
  pc,         \* "unopened"; "opening", "admitted": the first generation;
              \* "idle", "building": the reloader's goroutine
  fp,         \* the fingerprint the reloader is loading
  last,       \* the fingerprint it remembers as loaded, 0 if none
  stopping    \* whether the reloader's stop channel is closed

reloadVars == <<linked, atPath, served, candidate, pc, fp, last, stopping>>

ReloaderInit ==
  /\ linked \in BOOLEAN
  /\ atPath = 1
  /\ served = Unopened
  /\ candidate = Unopened
  /\ pc = "unopened"
  /\ fp = 0
  /\ last = 0
  /\ stopping = FALSE

\* rename(2) replaces the file, or the link, in one step.
Publish ==
  /\ atPath < LastSnapshot
  /\ atPath' = atPath + 1
  /\ UNCHANGED <<linked, served, candidate, pc, fp, last, stopping>>

-----------------------------------------------------------------------------
(* Building a generation *)

\* What a handle opened now sees: the first generation is built from the
\* path itself, a reload from the target its fingerprint resolved to.
BuildSource == IF pc = "building" /\ linked THEN fp ELSE atPath

OpenHandle(h) ==
  /\ pc \in {"opening", "building"}
  /\ candidate[h] = 0
  /\ \A g \in Handles : g < h => candidate[g] # 0
  /\ candidate' = [candidate EXCEPT ![h] = BuildSource]
  /\ UNCHANGED <<linked, atPath, served, pc, fp, last, stopping>>

\* A handle cannot be opened: what was built is closed and the old
\* generation, if any, stays.
OpenFails ==
  /\ pc \in {"opening", "building"}
  /\ \E h \in Handles : candidate[h] = 0
  /\ candidate' = Unopened
  /\ pc' = IF pc = "opening" THEN "unopened" ELSE "idle"
  /\ UNCHANGED <<linked, atPath, served, fp, last, stopping>>

Complete == \A h \in Handles : candidate[h] # 0

\* The validator queries some handle of the pool.
Accepts == Complete /\ \E h \in Handles : candidate[h] \notin Bad
Rejects == Complete /\ \E h \in Handles : candidate[h] \in Bad

-----------------------------------------------------------------------------
(* The first generation *)

OpenBegin ==
  /\ pc = "unopened"
  /\ pc' = "opening"
  /\ candidate' = Unopened
  /\ UNCHANGED <<linked, atPath, served, fp, last, stopping>>

Admit ==
  /\ pc = "opening"
  /\ Accepts
  /\ served' = candidate
  /\ candidate' = Unopened
  /\ pc' = "admitted"
  /\ UNCHANGED <<linked, atPath, fp, last, stopping>>

RejectFirst ==
  /\ pc = "opening"
  /\ Rejects
  /\ candidate' = Unopened
  /\ pc' = "unopened"
  /\ UNCHANGED <<linked, atPath, served, fp, last, stopping>>

\* The fingerprint is taken once the generation is built and validated, or
\* not at all when the path cannot be read; then the reloader starts.
StartReloader ==
  /\ pc = "admitted"
  /\ last' \in {atPath, 0}
  /\ pc' = "idle"
  /\ UNCHANGED <<linked, atPath, served, candidate, fp, stopping>>

-----------------------------------------------------------------------------
(* The reloader *)

\* A tick that finds a fingerprint other than the remembered one.
PollTick ==
  /\ pc = "idle"
  /\ last # atPath
  /\ fp' = atPath
  /\ candidate' = Unopened
  /\ pc' = "building"
  /\ UNCHANGED <<linked, atPath, served, last, stopping>>

\* mutant: the fingerprint is taken after the candidate was built
ReloadRecordsLate ==
  /\ pc = "building"
  /\ Accepts
  /\ served' = candidate
  /\ last' = atPath
  /\ candidate' = Unopened
  /\ pc' = "idle"
  /\ UNCHANGED <<linked, atPath, fp, stopping>>

\* The candidate is swapped in and its fingerprint remembered.
Reload ==
  /\ pc = "building"
  /\ Accepts
  /\ served' = candidate
  /\ last' = fp
  /\ candidate' = Unopened
  /\ pc' = "idle"
  /\ UNCHANGED <<linked, atPath, fp, stopping>>

\* mutant: a rejected snapshot is remembered like a loaded one, whichever
\* snapshot the path holds by then
RejectRemembers ==
  /\ pc = "building"
  /\ Rejects
  /\ last' = atPath
  /\ candidate' = Unopened
  /\ pc' = "idle"
  /\ UNCHANGED <<linked, atPath, served, fp, stopping>>

\* A rejected candidate is closed; the next tick finds it changed again.
Reject ==
  /\ pc = "building"
  /\ Rejects
  /\ candidate' = Unopened
  /\ pc' = "idle"
  /\ UNCHANGED <<linked, atPath, served, fp, last, stopping>>

StopBegin ==
  /\ pc \in {"idle", "building"}
  /\ ~stopping
  /\ stopping' = TRUE
  /\ UNCHANGED <<linked, atPath, served, candidate, pc, fp, last>>

\* run leaves its select; Close goes on to close the store.
Stop ==
  /\ pc = "idle"
  /\ stopping
  /\ stopping' = FALSE
  /\ served' = Unopened
  /\ last' = 0
  /\ pc' = "unopened"
  /\ UNCHANGED <<linked, atPath, candidate, fp>>

-----------------------------------------------------------------------------
ReloaderNext ==
  \/ Publish
  \/ \E h \in Handles : OpenHandle(h)
  \/ OpenFails
  \/ OpenBegin \/ Admit \/ RejectFirst \/ StartReloader
  \/ PollTick \/ Reload \/ Reject
  \/ StopBegin \/ Stop

ReloaderSpec == ReloaderInit /\ [][ReloaderNext]_reloadVars

(***************************************************************************)
(* The ticker fires again and again, builds end, and the select of run,    *)
(* offered the stop channel at every turn, takes it in the end.  Nobody is *)
(* obliged to open the snapshot, to publish, or to stop.                   *)
(***************************************************************************)
ReloaderFairness ==
  /\ \A h \in Handles : WF_reloadVars(OpenHandle(h))
  /\ WF_reloadVars(Admit \/ RejectFirst)
  /\ WF_reloadVars(StartReloader)
  /\ WF_reloadVars(PollTick)
  /\ WF_reloadVars(Reload \/ Reject)
  /\ SF_reloadVars(Stop)

FairReloaderSpec == ReloaderSpec /\ ReloaderFairness

-----------------------------------------------------------------------------
(* Properties *)

ReloaderTypeOK ==
  /\ linked \in BOOLEAN
  /\ atPath \in Snapshots
  /\ served \in [Handles -> 0..LastSnapshot]
  /\ candidate \in [Handles -> 0..LastSnapshot]
  /\ pc \in {"unopened", "opening", "admitted", "idle", "building"}
  /\ fp \in 0..LastSnapshot
  /\ last \in 0..LastSnapshot
  /\ stopping \in BOOLEAN

\* The inductive invariant: what is being built is at least as new as the
\* fingerprint it is built for -- exactly that snapshot if there are links
\* -- and nothing is newer than what is published.
ReloadInvariant ==
  /\ ReloaderTypeOK
  /\ fp <= atPath /\ last <= atPath
  /\ \A h \in Handles : candidate[h] <= atPath /\ served[h] <= atPath
  /\ pc = "building" => fp # 0 /\ \A h \in Handles : candidate[h] # 0 =>
       /\ candidate[h] >= fp
       /\ linked => candidate[h] = fp
  /\ pc \in {"admitted", "idle", "building"} => \A h \in Handles : served[h] # 0

IsReload == pc = "building" /\ (served' # served \/ last' # last)

\* A reload never remembers a fingerprint newer than what it serves, so no
\* publish is missed, and a reload of a linked snapshot serves exactly the
\* snapshot whose fingerprint it remembers, although both may be replaced
\* while it builds.
ReloadsServeTheirFingerprint ==
  [][IsReload =>
       \A h \in Handles : served'[h] >= last' /\ (linked => served'[h] = last')]_reloadVars

Serves(v) == \A h \in Handles : served[h] = v

\* A change the reloader has not recorded, made while it waits or while it
\* loads an earlier one, is loaded, unless a newer publish overtakes it,
\* builds keep failing, or the reloader stops.
ChangesAreLoaded ==
  <>[][~OpenFails]_reloadVars =>
    \A v \in Snapshots \ Bad :
      (pc \in {"idle", "building"} /\ atPath = v /\ last # v)
        ~> (Serves(v) \/ atPath # v \/ stopping \/ pc = "unopened")

\* What docs/GRPC_SERVER.md promises of a daemon that serves: it hot-reloads
\* the published snapshot, whenever that was published.
PublishedIsServed ==
  <>[][~OpenFails]_reloadVars =>
    \A v \in Snapshots \ Bad :
      (pc = "idle" /\ atPath = v)
        ~> (Serves(v) \/ atPath # v \/ stopping \/ pc = "unopened")

=============================================================================
