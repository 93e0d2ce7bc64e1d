------------------------------ MODULE Publishing ------------------------------
(***************************************************************************)
(* Daemons that share an output directory elect a leader per scope with    *)
(* flock (cmd/pensiero/leader.go) and let it build and publish the scope's *)
(* snapshots (leader_runner.go, pkg/generalization/igl.go).  The flocks    *)
(* and the directory survive a daemon; its tables do not.                  *)
(*                                                                         *)
(* A snapshot is a file, renamed onto the scope's path, or a directory:    *)
(* it is renamed to its version, and a link to the version is renamed onto *)
(* the path.  A file-system call is one action, and any of them may fail,  *)
(* as may the context between two of them.                                 *)
(***************************************************************************)
EXTENDS Naturals, FiniteSets

CONSTANTS
  Daemons, Scopes,
  Faulty,       \* the scopes whose lock file may be impossible to open
  Directories,  \* the scopes whose snapshots are directories
  Begun,        \* how many snapshots earlier daemons had begun
  Earlier,      \* the one of them each scope's path leads to; 0: none
  MaxAttempts,  \* bound: how many snapshots are begun
  MaxCrashes,   \* bound: how many times a daemon crashes
  Nobody

ASSUME FaultyScopes == Faulty \subseteq Scopes
ASSUME DirectoryScopes == Directories \subseteq Scopes
ASSUME BoundsNatural == MaxAttempts \in Nat /\ MaxCrashes \in Nat /\ Begun \in 0..MaxAttempts
ASSUME EarlierSnapshots ==
  /\ Earlier \in [Scopes -> 0..Begun]
  /\ \A s, t \in Scopes : Earlier[s] = Earlier[t] /\ Earlier[s] # 0 => s = t
ASSUME NobodyIsNoDaemon == Nobody \notin Daemons

Attempts == 1..MaxAttempts

VARIABLES
  flock,     \* the daemon that holds each scope's lock in the kernel
  place,     \* of each attempt's data: "nowhere", "tmp", "snap" or "final"
  progress,  \* of each attempt's data: "none", "partial", "written", "valid"
  link,      \* whether the attempt's temporary link exists
  final,     \* the attempt the scope's path leads to; 0: none
  attempts,  \* how many attempts were begun
  crashes,   \* how many crashes there were
  up,        \* whether the daemon runs
  locks,     \* the scopes in the daemon's table of locks
  pc,        \* where the daemon is
  ask,       \* the scopes it has yet to ask for, or to unlock
  todo,      \* the scopes of this pass that are still to be published
  cur, work  \* the scope and the attempt it is at

diskVars == <<place, progress, link, final, attempts>>
vars == <<flock, diskVars, crashes, up, locks, pc, ask, todo, cur, work>>

Init ==
  /\ flock = [s \in Scopes |-> Nobody]
  /\ place = [i \in Attempts |-> IF \E s \in Directories : Earlier[s] = i THEN "snap"
                                 ELSE IF \E s \in Scopes : Earlier[s] = i THEN "final" ELSE "nowhere"]
  /\ progress = [i \in Attempts |-> IF \E s \in Scopes : Earlier[s] = i THEN "valid" ELSE "none"]
  /\ link = [i \in Attempts |-> FALSE]
  /\ final = Earlier
  /\ attempts = Begun
  /\ crashes = 0
  /\ up = [d \in Daemons |-> TRUE]
  /\ locks = [d \in Daemons |-> {}]
  /\ pc = [d \in Daemons |-> "rest"]
  /\ ask = [d \in Daemons |-> {}]
  /\ todo = [d \in Daemons |-> {}]
  /\ cur \in [Daemons -> Scopes]
  /\ work = [d \in Daemons |-> 0]

Goto(d, label) == pc' = [pc EXCEPT ![d] = label]

-----------------------------------------------------------------------------
(* Leadership *)

\* mutant: a lock that another daemon holds is taken for acquired
TryAcquireMutant(d, s) ==
  /\ flock' = [flock EXCEPT ![s] = d]
  /\ locks' = [locks EXCEPT ![d] = @ \cup {s}]

\* The lock is in the table, or free, or another daemon's.
TryAcquire(d, s) ==
  IF s \notin locks[d] /\ flock[s] = Nobody
  THEN /\ flock' = [flock EXCEPT ![s] = d]
       /\ locks' = [locks EXCEPT ![d] = @ \cup {s}]
  ELSE UNCHANGED <<flock, locks>>

\* The scheduler looks whether it leads any scope.
Wake(d) ==
  /\ up[d] /\ pc[d] = "rest"
  /\ ask' = [ask EXCEPT ![d] = Scopes]
  /\ Goto(d, "lead")
  /\ UNCHANGED <<flock, diskVars, crashes, up, locks, todo, cur, work>>

\* leadsAnyScope and then heldScopes ask scope by scope.
Ask(d, s) ==
  /\ pc[d] \in {"lead", "hold"}
  /\ s \in ask[d]
  /\ TryAcquire(d, s)
  /\ ask' = [ask EXCEPT ![d] = @ \ {s}]
  /\ UNCHANGED <<diskVars, crashes, up, pc, todo, cur, work>>

\* An error is logged by leadsAnyScope; heldScopes gives the pass up.
AskFails(d, s) ==
  /\ s \in ask[d] \cap Faulty
  /\ s \notin locks[d]
  /\ \/ /\ pc[d] = "lead"
        /\ ask' = [ask EXCEPT ![d] = @ \ {s}]
        /\ UNCHANGED pc
     \/ /\ pc[d] = "hold"
        /\ ask' = [ask EXCEPT ![d] = {}]
        /\ Goto(d, "rest")
  /\ UNCHANGED <<flock, diskVars, crashes, up, locks, todo, cur, work>>

\* A pass needs a scope to lead; it may also have to wait for idle time.
LeadDone(d) ==
  /\ pc[d] = "lead"
  /\ ask[d] = {}
  /\ \/ Goto(d, "rest") /\ UNCHANGED ask
     \/ /\ locks[d] # {}
        /\ Goto(d, "hold")
        /\ ask' = [ask EXCEPT ![d] = Scopes]
  /\ UNCHANGED <<flock, diskVars, crashes, up, locks, todo, cur, work>>

HoldDone(d) ==
  /\ pc[d] = "hold"
  /\ ask[d] = {}
  /\ todo' = [todo EXCEPT ![d] = locks[d]]
  /\ Goto(d, "next")
  /\ UNCHANGED <<flock, diskVars, crashes, up, locks, ask, cur, work>>

-----------------------------------------------------------------------------
(* A pass: Loop.runPass and Publisher.Publish *)

\* mutant: a pass is over after its first scope
NextScopeMutant(d, s) ==
  /\ pc[d] = "next"
  /\ s \in todo[d]
  /\ cur' = [cur EXCEPT ![d] = s]
  /\ todo' = [todo EXCEPT ![d] = {}]
  /\ Goto(d, "build")
  /\ UNCHANGED <<flock, diskVars, crashes, up, locks, ask, work>>

\* The scope's generalization is built, without touching the disk.  (The
\* order of the scopes is left open.)
NextScope(d, s) ==
  /\ pc[d] = "next"
  /\ s \in todo[d]
  /\ cur' = [cur EXCEPT ![d] = s]
  /\ todo' = [todo EXCEPT ![d] = @ \ {s}]
  /\ Goto(d, "build")
  /\ UNCHANGED <<flock, diskVars, crashes, up, locks, ask, work>>

\* No scope is left, or the context of the pass is done.
PassEnds(d) ==
  /\ pc[d] = "next"
  /\ todo' = [todo EXCEPT ![d] = {}]
  /\ Goto(d, "rest")
  /\ UNCHANGED <<flock, diskVars, crashes, up, locks, ask, cur, work>>

BuildFails(d) ==
  /\ pc[d] = "build"
  /\ Goto(d, "next")
  /\ UNCHANGED <<flock, diskVars, crashes, up, locks, ask, todo, cur, work>>

\* The temporary path names the process and the time, and so the attempt.
WriteBegin(d) ==
  /\ pc[d] = "build"
  /\ attempts < MaxAttempts
  /\ attempts' = attempts + 1
  /\ work' = [work EXCEPT ![d] = attempts + 1]
  /\ place' = [place EXCEPT ![attempts + 1] = "tmp"]
  /\ progress' = [progress EXCEPT ![attempts + 1] = "partial"]
  /\ Goto(d, "write")
  /\ UNCHANGED <<flock, link, final, crashes, up, locks, ask, todo, cur>>

Advance(d, from, result, to) ==
  /\ pc[d] = from
  /\ progress' = [progress EXCEPT ![work[d]] = result]
  /\ Goto(d, to)
  /\ UNCHANGED <<flock, place, link, final, attempts, crashes, up, locks, ask, todo, cur, work>>

WriteEnd(d) == Advance(d, "write", "written", "validate")
Validate(d) == Advance(d, "validate", "valid", "publish")

Stage(d) ==
  /\ cur[d] \in Directories
  /\ pc[d] = "publish"
  /\ place' = [place EXCEPT ![work[d]] = "snap"]
  /\ Goto(d, "staged")
  /\ UNCHANGED <<flock, progress, link, final, attempts, crashes, up, locks, ask, todo, cur, work>>

Symlink(d) ==
  /\ pc[d] = "staged"
  /\ link' = [link EXCEPT ![work[d]] = TRUE]
  /\ Goto(d, "linked")
  /\ UNCHANGED <<flock, place, progress, final, attempts, crashes, up, locks, ask, todo, cur, work>>

\* mutant: the clean-up runs after a successful publication
PublishLinkUnmarked(d) ==
  /\ pc[d] = "linked"
  /\ link' = [link EXCEPT ![work[d]] = FALSE]
  /\ final' = [final EXCEPT ![cur[d]] = work[d]]
  /\ Goto(d, "cleanSnap")
  /\ UNCHANGED <<flock, place, progress, attempts, crashes, up, locks, ask, todo, cur, work>>

PublishLink(d) ==
  /\ pc[d] = "linked"
  /\ link' = [link EXCEPT ![work[d]] = FALSE]
  /\ final' = [final EXCEPT ![cur[d]] = work[d]]
  /\ Goto(d, "next")
  /\ UNCHANGED <<flock, place, progress, attempts, crashes, up, locks, ask, todo, cur, work>>

\* The file that was there is gone.
PublishFile(d) ==
  /\ cur[d] \notin Directories
  /\ pc[d] = "publish"
  /\ place' = [i \in Attempts |-> IF i = work[d] THEN "final"
                                  ELSE IF i = final[cur[d]] THEN "nowhere" ELSE place[i]]
  /\ final' = [final EXCEPT ![cur[d]] = work[d]]
  /\ Goto(d, "next")
  /\ UNCHANGED <<flock, progress, link, attempts, crashes, up, locks, ask, todo, cur, work>>

\* mutant: a failure after the link was made does not remove the link
FirstCleanupMutant(label) ==
  CASE label \in {"staged", "linked"} -> "cleanSnap"
    [] OTHER -> "cleanTmp"

\* The deferred clean-ups run from the last to the first.
FirstCleanup(label) ==
  CASE label = "linked" -> "cleanLink"
    [] label = "staged" -> "cleanSnap"
    [] OTHER -> "cleanTmp"

\* A step fails, validation rejects, or the context is done.
AttemptFails(d) ==
  /\ pc[d] \in {"write", "validate", "publish", "staged", "linked"}
  /\ Goto(d, FirstCleanup(pc[d]))
  /\ UNCHANGED <<flock, diskVars, crashes, up, locks, ask, todo, cur, work>>

CleanLink(d) ==
  /\ pc[d] = "cleanLink"
  /\ link' = [link EXCEPT ![work[d]] = FALSE]
  /\ Goto(d, "cleanSnap")
  /\ UNCHANGED <<flock, place, progress, final, attempts, crashes, up, locks, ask, todo, cur, work>>

Remove(d, from, to) ==
  /\ place' = [place EXCEPT ![work[d]] = IF @ = from THEN "nowhere" ELSE @]
  /\ Goto(d, to)
  /\ UNCHANGED <<flock, progress, link, final, attempts, crashes, up, locks, ask, todo, cur, work>>

CleanSnap(d) == pc[d] = "cleanSnap" /\ Remove(d, "snap", "cleanTmp")
CleanTmp(d) == pc[d] = "cleanTmp" /\ Remove(d, "tmp", "next")

-----------------------------------------------------------------------------
(* Leaving, crashing, starting *)

\* mutant: the table is emptied, and nothing is left to unlock
CloseBeginMutant(d) ==
  /\ up[d] /\ pc[d] = "rest"
  /\ ask' = [ask EXCEPT ![d] = {}]
  /\ locks' = [locks EXCEPT ![d] = {}]
  /\ Goto(d, "unlock")
  /\ UNCHANGED <<flock, diskVars, crashes, up, todo, cur, work>>

\* leaderElector.Close, once the scheduler returned: the table is emptied
\* first, then one lock after the other is given up.
CloseBegin(d) ==
  /\ up[d] /\ pc[d] = "rest"
  /\ ask' = [ask EXCEPT ![d] = locks[d]]
  /\ locks' = [locks EXCEPT ![d] = {}]
  /\ Goto(d, "unlock")
  /\ UNCHANGED <<flock, diskVars, crashes, up, todo, cur, work>>

Unlock(d, s) ==
  /\ pc[d] = "unlock"
  /\ s \in ask[d]
  /\ flock' = [flock EXCEPT ![s] = Nobody]
  /\ ask' = [ask EXCEPT ![d] = @ \ {s}]
  /\ UNCHANGED <<diskVars, crashes, up, locks, pc, todo, cur, work>>

Exit(d) ==
  /\ pc[d] = "unlock"
  /\ ask[d] = {}
  /\ up' = [up EXCEPT ![d] = FALSE]
  /\ Goto(d, "rest")
  /\ UNCHANGED <<flock, diskVars, crashes, locks, ask, todo, cur, work>>

\* The kernel releases the locks of a process that is gone.
Crash(d) ==
  /\ up[d]
  /\ crashes < MaxCrashes
  /\ crashes' = crashes + 1
  /\ up' = [up EXCEPT ![d] = FALSE]
  /\ flock' = [s \in Scopes |-> IF flock[s] = d THEN Nobody ELSE flock[s]]
  /\ locks' = [locks EXCEPT ![d] = {}]
  /\ ask' = [ask EXCEPT ![d] = {}]
  /\ todo' = [todo EXCEPT ![d] = {}]
  /\ Goto(d, "rest")
  /\ UNCHANGED <<diskVars, cur, work>>

Start(d) ==
  /\ ~up[d]
  /\ up' = [up EXCEPT ![d] = TRUE]
  /\ UNCHANGED <<flock, diskVars, crashes, locks, pc, ask, todo, cur, work>>

-----------------------------------------------------------------------------
Elects(d) ==
  \/ Wake(d) \/ LeadDone(d) \/ HoldDone(d)
  \/ \E s \in Scopes : Ask(d, s) \/ AskFails(d, s)

Publishes(d) ==
  \/ \E s \in Scopes : NextScope(d, s)
  \/ PassEnds(d) \/ BuildFails(d) \/ WriteBegin(d) \/ WriteEnd(d) \/ Validate(d)
  \/ Stage(d) \/ Symlink(d) \/ PublishLink(d) \/ PublishFile(d)
  \/ AttemptFails(d) \/ CleanLink(d) \/ CleanSnap(d) \/ CleanTmp(d)

Leaves(d) ==
  \/ CloseBegin(d) \/ Exit(d) \/ Crash(d) \/ Start(d)
  \/ \E s \in Scopes : Unlock(d, s)

Next == \E d \in Daemons : Elects(d) \/ Publishes(d) \/ Leaves(d)

Spec == Init /\ [][Next]_vars

(***************************************************************************)
(* A daemon that runs keeps running: it wakes up again and again, asks for *)
(* every scope, and finishes what it began.  Whether it gets idle time,    *)
(* what fails, and when it is stopped or crashes is left open.             *)
(***************************************************************************)
Fairness ==
  \A d \in Daemons :
    /\ WF_vars(Wake(d)) /\ WF_vars(LeadDone(d)) /\ WF_vars(HoldDone(d))
    /\ \A s \in Scopes : WF_vars(Ask(d, s) \/ AskFails(d, s)) /\ WF_vars(Unlock(d, s))
    /\ WF_vars(Publishes(d))
    /\ WF_vars(Exit(d))

FairSpec == Spec /\ Fairness

\* A daemon gets idle time, and no pass of it ends before its last scope.
FindsIdleTime(d) == SF_vars(LeadDone(d) /\ pc'[d] = "hold")
Interrupted(d) == PassEnds(d) /\ todo[d] # {}
\* No lock file of a scope it does not lead fails to open any more.
Refused(d) == \E s \in Scopes : AskFails(d, s)

-----------------------------------------------------------------------------
(* Properties *)

Working == {"build", "write", "validate", "publish", "staged", "linked", "cleanLink", "cleanSnap", "cleanTmp"}
Labels == {"rest", "lead", "hold", "next", "unlock"} \cup Working

TypeOK ==
  /\ flock \in [Scopes -> Daemons \cup {Nobody}]
  /\ place \in [Attempts -> {"nowhere", "tmp", "snap", "final"}]
  /\ progress \in [Attempts -> {"none", "partial", "written", "valid"}]
  /\ link \in [Attempts -> BOOLEAN]
  /\ final \in [Scopes -> 0..MaxAttempts]
  /\ attempts \in 0..MaxAttempts
  /\ crashes \in 0..MaxCrashes
  /\ up \in [Daemons -> BOOLEAN]
  /\ locks \in [Daemons -> SUBSET Scopes]
  /\ pc \in [Daemons -> Labels]
  /\ ask \in [Daemons -> SUBSET Scopes]
  /\ todo \in [Daemons -> SUBSET Scopes]
  /\ cur \in [Daemons -> Scopes]
  /\ work \in [Daemons -> 0..MaxAttempts]

\* The attempts some daemon is at.
InHand == {work[d] : d \in {e \in Daemons : pc[e] \in Working \ {"build"}}}

\* Whoever opens a scope's path, at any moment, crashes included, finds
\* nothing or a snapshot that was written to the end and validated.
FinalIsComplete ==
  \A s \in Scopes : final[s] # 0 =>
    /\ progress[final[s]] = "valid"
    /\ place[final[s]] = IF s \in Directories THEN "snap" ELSE "final"

\* No two daemons ever work on the same scope, the clean-up after a failure
\* included: leadership outlasts the work.
OnePublisher ==
  \A d, e \in Daemons : pc[d] \in Working /\ pc[e] \in Working /\ cur[d] = cur[e] => d = e

\* A failure leaves nothing behind: without a crash, what no daemon is at
\* is gone, except published versions (superseded ones are never removed).
FailuresCleanUp ==
  crashes = 0 => \A i \in Attempts \ InHand :
    /\ ~link[i]
    /\ place[i] # "tmp"
    /\ place[i] = "snap" => progress[i] = "valid"

AtAttempt(d) == pc[d] \in Working \ {"build"}

\* The table of locks is what the kernel grants; a daemon that is going down
\* still holds what it has yet to unlock.
LocksGranted ==
  \A d \in Daemons :
    /\ \A s \in locks[d] : flock[s] = d
    /\ pc[d] = "unlock" => locks[d] = {} /\ \A s \in ask[d] : flock[s] = d
    /\ ~up[d] => pc[d] = "rest"

\* Work, begun and still to be done, is on scopes that are led.
WorkIsLed ==
  \A d \in Daemons :
    /\ todo[d] \subseteq locks[d]
    /\ pc[d] \notin Working \cup {"next"} => todo[d] = {}
    /\ pc[d] \in Working => cur[d] \in locks[d]

\* An attempt in hand is newer than what is published, nobody else's, and
\* as far as its daemon is.
AttemptsProgress ==
  /\ \A d \in Daemons : AtAttempt(d) =>
       /\ work[d] \in 1..attempts
       /\ \A s \in Scopes : final[s] # work[d]
       /\ final[cur[d]] < work[d]
       /\ pc[d] \in {"staged", "linked"} => cur[d] \in Directories /\ place[work[d]] = "snap"
       /\ pc[d] \in {"publish", "staged", "linked"} => progress[work[d]] = "valid"
  /\ \A d, e \in Daemons : AtAttempt(d) /\ AtAttempt(e) /\ work[d] = work[e] => d = e

\* Every published attempt is one scope's.
FinalsDistinct ==
  /\ \A s \in Scopes : final[s] <= attempts
  /\ \A s, t \in Scopes : final[s] = final[t] /\ final[s] # 0 => s = t

\* Until a crash, what is under a temporary name is in hand, and its daemon is
\* where it will remove or rename it.
AttemptsTidy ==
  crashes = 0 => \A d \in Daemons : AtAttempt(d) =>
    /\ link[work[d]] => pc[d] \in {"linked", "cleanLink"}
    /\ place[work[d]] = "tmp" => pc[d] \in {"write", "validate", "publish", "cleanTmp"}
    /\ place[work[d]] = "snap" => pc[d] \in {"staged", "linked", "cleanLink", "cleanSnap"}

\* The inductive invariant.
PublishInvariant ==
  /\ TypeOK
  /\ FinalIsComplete
  /\ OnePublisher
  /\ LocksGranted
  /\ WorkIsLed
  /\ AttemptsProgress
  /\ FinalsDistinct

\* The daemons implement the service: one leader per scope, and only the
\* leader publishes, each time something newer.
Service == INSTANCE PublishingService WITH leader <- flock, published <- final
ImplementsService == Service!Spec

\* A scope whose leader left or crashed finds a new one if any daemon stays
\* that can open its lock file: no lock stays with a daemon that is gone or
\* no longer knows of it.
Leads(e, s) == up[e] /\ s \in locks[e] /\ flock[s] = e
LeaderFound ==
  \A d \in Daemons, s \in Scopes :
    (<>[](up[d] /\ pc[d] # "unlock") /\ <>[][~Refused(d)]_vars)
      => []<>(\E e \in Daemons : Leads(e, s))

\* A leader that finds idle time and that nobody interrupts builds each scope
\* it leads again and again (docs/GRPC_SERVER.md: exactly one daemon optimizes
\* and publishes each scope), once the lock files of the other scopes can be
\* opened: as long as one cannot, heldScopes gives every pass up.
LeadersPublish ==
  \A d \in Daemons, s \in Scopes :
    (/\ FindsIdleTime(d)
     /\ <>[][~Interrupted(d)]_vars /\ <>[][~Refused(d)]_vars
     /\ <>[](flock[s] = d /\ pc[d] # "unlock"))
      => []<>(pc[d] = "build" /\ cur[d] = s)
=============================================================================
