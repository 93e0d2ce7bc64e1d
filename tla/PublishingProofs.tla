--------------------------- MODULE PublishingProofs ---------------------------
(***************************************************************************)
(* Proofs about Publishing, for any number of daemons, scopes, attempts    *)
(* and crashes, files and directories alike.                               *)
(***************************************************************************)
EXTENDS Publishing, TLAPS

LEMMA PublishInit == ASSUME Init PROVE PublishInvariant
<1> USE BoundsNatural, EarlierSnapshots, DirectoryScopes, NobodyIsNoDaemon
<1>1. TypeOK
  <2>1. final \in [Scopes -> 0..MaxAttempts] /\ work \in [Daemons -> 0..MaxAttempts] /\ attempts \in 0..MaxAttempts
    BY DEF Init
  <2>2. pc \in [Daemons -> Labels] /\ locks \in [Daemons -> SUBSET Scopes]
    BY DEF Init, Labels
  <2>3. place \in [Attempts -> {"nowhere", "tmp", "snap", "final"}]
        /\ progress \in [Attempts -> {"none", "partial", "written", "valid"}]
        /\ link \in [Attempts -> BOOLEAN]
    BY DEF Init
  <2>4. QED BY <2>1, <2>2, <2>3 DEF Init, TypeOK
<1>2. ASSUME NEW s \in Scopes, final[s] # 0
      PROVE  progress[final[s]] = "valid" /\ place[final[s]] = IF s \in Directories THEN "snap" ELSE "final"
  <2>1. final[s] = Earlier[s] /\ Earlier[s] \in Attempts
    BY <1>2 DEF Init, Attempts
  <2>2. progress[final[s]] = "valid"
    BY <2>1 DEF Init
  <2>3. s \in Directories <=> \E t \in Directories : Earlier[t] = Earlier[s]
    BY <1>2, <2>1
  <2>4. place[final[s]] = IF s \in Directories THEN "snap" ELSE "final"
    BY <2>1, <2>3 DEF Init
  <2>5. QED BY <2>2, <2>4
<1>3. FinalsDistinct
  BY DEF Init, FinalsDistinct
<1>4. QED
  BY <1>1, <1>2, <1>3 DEF Init, PublishInvariant, FinalIsComplete, OnePublisher, LocksGranted, WorkIsLed,
     AttemptsProgress, AtAttempt, Working

\* A step from work to work, or to the end of it, changes nothing about who
\* leads what.
LEMMA WorkLeads ==
  ASSUME PublishInvariant, NEW d \in Daemons, pc[d] \in Working,
         NEW to \in Working \cup {"next"}, pc' = [pc EXCEPT ![d] = to],
         UNCHANGED <<flock, up, locks, ask, todo, cur>>
  PROVE  pc' \in [Daemons -> Labels] /\ OnePublisher' /\ LocksGranted' /\ WorkIsLed'
<1> USE DEF PublishInvariant
<1>1. pc' \in [Daemons -> Labels]
  BY DEF TypeOK, Labels
<1>2. OnePublisher'
  BY DEF TypeOK, OnePublisher
<1>3. LocksGranted' /\ WorkIsLed'
  BY DEF TypeOK, LocksGranted, WorkIsLed, Working
<1>4. QED BY <1>1, <1>2, <1>3

\* An election moves no file, and its labels are no attempt's.
LEMMA ElectionFrame ==
  ASSUME PublishInvariant, NEW d \in Daemons, ~AtAttempt(d),
         NEW to \in {"rest", "lead", "hold", "next"},
         pc' = pc \/ pc' = [pc EXCEPT ![d] = to],
         UNCHANGED <<diskVars, cur, work>>
  PROVE  pc' \in [Daemons -> Labels] /\ FinalIsComplete' /\ FinalsDistinct' /\ AttemptsProgress'
<1> USE DEF PublishInvariant, diskVars
<1>1. pc' \in [Daemons -> Labels]
  BY DEF TypeOK, Labels
<1>2. \A e \in Daemons : AtAttempt(e)' => AtAttempt(e) /\ pc'[e] = pc[e]
  BY DEF TypeOK, AtAttempt, Working
<1>3. FinalIsComplete' /\ FinalsDistinct'
  BY DEF FinalIsComplete, FinalsDistinct
<1>4. AttemptsProgress'
  BY <1>2 DEF AttemptsProgress
<1>5. QED BY <1>1, <1>3, <1>4

\* Asking for leadership moves no file; a lock enters the table as the kernel
\* grants it.
LEMMA ElectionKeeps ==
  ASSUME PublishInvariant, NEW d \in Daemons, Elects(d)
  PROVE  PublishInvariant'
<1> USE NobodyIsNoDaemon DEF Goto, PublishInvariant
<1>1. CASE Wake(d)
  <2>1. pc' \in [Daemons -> Labels] /\ FinalIsComplete' /\ FinalsDistinct' /\ AttemptsProgress'
    BY <1>1, ElectionFrame DEF Wake, AtAttempt, Working
  <2>2. TypeOK'
    BY <1>1, <2>1 DEF Wake, TypeOK, diskVars
  <2>3. OnePublisher' /\ LocksGranted' /\ WorkIsLed'
    BY <1>1 DEF Wake, TypeOK, OnePublisher, LocksGranted, WorkIsLed, Labels, Working, Attempts
  <2>4. QED BY <2>1, <2>2, <2>3
<1>2. ASSUME NEW s \in Scopes, Ask(d, s) PROVE PublishInvariant'
  <2>1. pc' \in [Daemons -> Labels] /\ FinalIsComplete' /\ FinalsDistinct' /\ AttemptsProgress'
    BY <1>2, ElectionFrame DEF Ask, AtAttempt, Working
  <2>2. TypeOK'
    BY <1>2, <2>1 DEF Ask, TryAcquire, TypeOK, diskVars
  <2>3. OnePublisher'
    BY <1>2 DEF Ask, TryAcquire, TypeOK, OnePublisher, LocksGranted, Working
  <2>4. LocksGranted'
    BY <1>2 DEF Ask, TryAcquire, TypeOK, LocksGranted, Working
  <2>5. WorkIsLed'
    BY <1>2 DEF Ask, TryAcquire, TypeOK, WorkIsLed, LocksGranted, Working
  <2>6. QED BY <2>1, <2>2, <2>3, <2>4, <2>5
<1>3. ASSUME NEW s \in Scopes, AskFails(d, s) PROVE PublishInvariant'
  <2>1. pc' \in [Daemons -> Labels] /\ FinalIsComplete' /\ FinalsDistinct' /\ AttemptsProgress'
    BY <1>3, ElectionFrame DEF AskFails, AtAttempt, Working
  <2>2. TypeOK'
    BY <1>3, <2>1 DEF AskFails, TypeOK, diskVars
  <2>3. OnePublisher'
    BY <1>3 DEF AskFails, TypeOK, OnePublisher, LocksGranted, Working
  <2>4. LocksGranted'
    BY <1>3 DEF AskFails, TypeOK, LocksGranted, Working
  <2>5. WorkIsLed'
    BY <1>3 DEF AskFails, TypeOK, WorkIsLed, LocksGranted, Working
  <2>6. QED BY <2>1, <2>2, <2>3, <2>4, <2>5
<1>4. CASE LeadDone(d)
  <2>1. pc' \in [Daemons -> Labels] /\ FinalIsComplete' /\ FinalsDistinct' /\ AttemptsProgress'
    BY <1>4, ElectionFrame DEF LeadDone, AtAttempt, Working
  <2>2. TypeOK'
    BY <1>4, <2>1 DEF LeadDone, TypeOK, diskVars
  <2>3. OnePublisher'
    BY <1>4 DEF LeadDone, TypeOK, OnePublisher, LocksGranted, Working
  <2>4. LocksGranted'
    BY <1>4 DEF LeadDone, TypeOK, LocksGranted, Working
  <2>5. WorkIsLed'
    BY <1>4 DEF LeadDone, TypeOK, WorkIsLed, LocksGranted, Working
  <2>6. QED BY <2>1, <2>2, <2>3, <2>4, <2>5
<1>5. CASE HoldDone(d)
  <2>1. pc' \in [Daemons -> Labels] /\ FinalIsComplete' /\ FinalsDistinct' /\ AttemptsProgress'
    BY <1>5, ElectionFrame DEF HoldDone, AtAttempt, Working
  <2>2. TypeOK'
    BY <1>5, <2>1 DEF HoldDone, TypeOK, diskVars
  <2>3. OnePublisher' /\ LocksGranted' /\ WorkIsLed'
    BY <1>5 DEF HoldDone, TypeOK, OnePublisher, LocksGranted, WorkIsLed, Labels, Working, Attempts
  <2>4. QED BY <2>1, <2>2, <2>3
<1>6. QED BY <1>1, <1>2, <1>3, <1>4, <1>5 DEF Elects

\* A pass works on led scopes, on an attempt of its own, and publishes what is
\* valid.
LEMMA PassKeeps ==
  ASSUME PublishInvariant, NEW d \in Daemons, Publishes(d)
  PROVE  PublishInvariant'
<1> USE BoundsNatural, NobodyIsNoDaemon DEF Goto, diskVars, PublishInvariant
<1>1. ASSUME NEW s \in Scopes, NextScope(d, s) PROVE PublishInvariant'
  <2>1. TypeOK'
    BY <1>1 DEF NextScope, TypeOK, Labels, Working
  <2>2. OnePublisher' /\ LocksGranted' /\ WorkIsLed'
    BY <1>1 DEF NextScope, TypeOK, OnePublisher, LocksGranted, WorkIsLed, Labels, Working, Attempts
  <2>3. FinalIsComplete' /\ FinalsDistinct'
    BY <1>1 DEF NextScope, TypeOK, FinalIsComplete, AttemptsProgress, FinalsDistinct, OnePublisher, WorkIsLed, AtAttempt, Working, Attempts
  <2>4. AttemptsProgress'
    BY <1>1 DEF NextScope, TypeOK, FinalIsComplete, AttemptsProgress, FinalsDistinct, OnePublisher, WorkIsLed, AtAttempt, Working, Attempts
  <2>5. QED BY <2>1, <2>2, <2>3, <2>4
<1>2. CASE PassEnds(d)
  <2>1. TypeOK'
    BY <1>2 DEF PassEnds, TypeOK, Labels, Working
  <2>2. OnePublisher' /\ LocksGranted' /\ WorkIsLed'
    BY <1>2 DEF PassEnds, TypeOK, OnePublisher, LocksGranted, WorkIsLed, Labels, Working, Attempts
  <2>3. FinalIsComplete' /\ FinalsDistinct'
    BY <1>2 DEF PassEnds, TypeOK, FinalIsComplete, AttemptsProgress, FinalsDistinct, OnePublisher, WorkIsLed, AtAttempt, Working, Attempts
  <2>4. AttemptsProgress'
    BY <1>2 DEF PassEnds, TypeOK, FinalIsComplete, AttemptsProgress, FinalsDistinct, OnePublisher, WorkIsLed, AtAttempt, Working, Attempts
  <2>5. QED BY <2>1, <2>2, <2>3, <2>4
<1>3. CASE BuildFails(d)
  <2>1. pc' \in [Daemons -> Labels] /\ OnePublisher' /\ LocksGranted' /\ WorkIsLed'
    BY <1>3, WorkLeads DEF BuildFails, Working
  <2>2. TypeOK'
    BY <1>3, <2>1 DEF BuildFails, TypeOK, Attempts
  <2>3. FinalIsComplete' /\ FinalsDistinct'
    BY <1>3 DEF BuildFails, TypeOK, FinalIsComplete, AttemptsProgress, FinalsDistinct, OnePublisher, WorkIsLed, AtAttempt, Working, Attempts
  <2>4. AttemptsProgress'
    BY <1>3 DEF BuildFails, TypeOK, FinalIsComplete, AttemptsProgress, FinalsDistinct, OnePublisher, WorkIsLed, AtAttempt, Working, Attempts
  <2>5. QED BY <2>1, <2>2, <2>3, <2>4
<1>4. CASE WriteBegin(d)
  <2>1. pc' \in [Daemons -> Labels] /\ OnePublisher' /\ LocksGranted' /\ WorkIsLed'
    BY <1>4, WorkLeads DEF WriteBegin, Working
  <2>2. TypeOK'
    BY <1>4, <2>1 DEF WriteBegin, TypeOK, Attempts
  <2>3. FinalIsComplete' /\ FinalsDistinct'
    BY <1>4 DEF WriteBegin, TypeOK, FinalIsComplete, AttemptsProgress, FinalsDistinct, OnePublisher, WorkIsLed, AtAttempt, Working, Attempts
  <2>4. AttemptsProgress'
    BY <1>4 DEF WriteBegin, TypeOK, FinalIsComplete, AttemptsProgress, FinalsDistinct, OnePublisher, WorkIsLed, AtAttempt, Working, Attempts
  <2>5. QED BY <2>1, <2>2, <2>3, <2>4
<1>5. CASE WriteEnd(d)
  <2>1. pc' \in [Daemons -> Labels] /\ OnePublisher' /\ LocksGranted' /\ WorkIsLed'
    BY <1>5, WorkLeads DEF WriteEnd, Advance, Working
  <2>2. TypeOK'
    BY <1>5, <2>1 DEF WriteEnd, Advance, TypeOK, Attempts
  <2>3. FinalIsComplete' /\ FinalsDistinct'
    BY <1>5 DEF WriteEnd, Advance, TypeOK, FinalIsComplete, AttemptsProgress, FinalsDistinct, OnePublisher, WorkIsLed, AtAttempt, Working, Attempts
  <2>4. AttemptsProgress'
    BY <1>5 DEF WriteEnd, Advance, TypeOK, FinalIsComplete, AttemptsProgress, FinalsDistinct, OnePublisher, WorkIsLed, AtAttempt, Working, Attempts
  <2>5. QED BY <2>1, <2>2, <2>3, <2>4
<1>6. CASE Validate(d)
  <2>1. pc' \in [Daemons -> Labels] /\ OnePublisher' /\ LocksGranted' /\ WorkIsLed'
    BY <1>6, WorkLeads DEF Validate, Advance, Working
  <2>2. TypeOK'
    BY <1>6, <2>1 DEF Validate, Advance, TypeOK, Attempts
  <2>3. FinalIsComplete' /\ FinalsDistinct'
    BY <1>6 DEF Validate, Advance, TypeOK, FinalIsComplete, AttemptsProgress, FinalsDistinct, OnePublisher, WorkIsLed, AtAttempt, Working, Attempts
  <2>4. AttemptsProgress'
    BY <1>6 DEF Validate, Advance, TypeOK, FinalIsComplete, AttemptsProgress, FinalsDistinct, OnePublisher, WorkIsLed, AtAttempt, Working, Attempts
  <2>5. QED BY <2>1, <2>2, <2>3, <2>4
<1>7. CASE Stage(d)
  <2>1. pc' \in [Daemons -> Labels] /\ OnePublisher' /\ LocksGranted' /\ WorkIsLed'
    BY <1>7, WorkLeads DEF Stage, Working
  <2>2. TypeOK'
    BY <1>7, <2>1 DEF Stage, TypeOK, Attempts
  <2>3. FinalIsComplete' /\ FinalsDistinct'
    BY <1>7 DEF Stage, TypeOK, FinalIsComplete, AttemptsProgress, FinalsDistinct, OnePublisher, WorkIsLed, AtAttempt, Working, Attempts
  <2>4. AttemptsProgress'
    BY <1>7 DEF Stage, TypeOK, FinalIsComplete, AttemptsProgress, FinalsDistinct, OnePublisher, WorkIsLed, AtAttempt, Working, Attempts
  <2>5. QED BY <2>1, <2>2, <2>3, <2>4
<1>8. CASE Symlink(d)
  <2>1. pc' \in [Daemons -> Labels] /\ OnePublisher' /\ LocksGranted' /\ WorkIsLed'
    BY <1>8, WorkLeads DEF Symlink, Working
  <2>2. TypeOK'
    BY <1>8, <2>1 DEF Symlink, TypeOK, Attempts
  <2>3. FinalIsComplete' /\ FinalsDistinct'
    BY <1>8 DEF Symlink, TypeOK, FinalIsComplete, AttemptsProgress, FinalsDistinct, OnePublisher, WorkIsLed, AtAttempt, Working, Attempts
  <2>4. AttemptsProgress'
    BY <1>8 DEF Symlink, TypeOK, FinalIsComplete, AttemptsProgress, FinalsDistinct, OnePublisher, WorkIsLed, AtAttempt, Working, Attempts
  <2>5. QED BY <2>1, <2>2, <2>3, <2>4
<1>9. CASE PublishLink(d)
  <2>1. pc' \in [Daemons -> Labels] /\ OnePublisher' /\ LocksGranted' /\ WorkIsLed'
    BY <1>9, WorkLeads DEF PublishLink, Working
  <2>2. TypeOK'
    BY <1>9, <2>1 DEF PublishLink, TypeOK, Attempts, AttemptsProgress, AtAttempt, Working
  <2>3. FinalIsComplete' /\ FinalsDistinct'
    BY <1>9 DEF PublishLink, TypeOK, FinalIsComplete, AttemptsProgress, FinalsDistinct, OnePublisher, WorkIsLed, AtAttempt, Working, Attempts
  <2>4. AttemptsProgress'
    BY <1>9 DEF PublishLink, TypeOK, FinalIsComplete, AttemptsProgress, FinalsDistinct, OnePublisher, WorkIsLed, AtAttempt, Working, Attempts
  <2>5. QED BY <2>1, <2>2, <2>3, <2>4
<1>10. CASE PublishFile(d)
  <2>1. pc' \in [Daemons -> Labels] /\ OnePublisher' /\ LocksGranted' /\ WorkIsLed'
    BY <1>10, WorkLeads DEF PublishFile, Working
  <2>2. TypeOK'
    BY <1>10, <2>1 DEF PublishFile, TypeOK, Attempts, AttemptsProgress, AtAttempt, Working
  <2>3. FinalIsComplete' /\ FinalsDistinct'
    BY <1>10 DEF PublishFile, TypeOK, FinalIsComplete, AttemptsProgress, FinalsDistinct, OnePublisher, WorkIsLed, AtAttempt, Working, Attempts
  <2>4. AttemptsProgress'
    BY <1>10 DEF PublishFile, TypeOK, FinalIsComplete, AttemptsProgress, FinalsDistinct, OnePublisher, WorkIsLed, AtAttempt, Working, Attempts
  <2>5. QED BY <2>1, <2>2, <2>3, <2>4
<1>11. CASE AttemptFails(d)
  <2>1. pc' \in [Daemons -> Labels] /\ OnePublisher' /\ LocksGranted' /\ WorkIsLed'
    BY <1>11, WorkLeads DEF AttemptFails, FirstCleanup, Working
  <2>2. TypeOK'
    BY <1>11, <2>1 DEF AttemptFails, FirstCleanup, TypeOK, Attempts
  <2>3. FinalIsComplete' /\ FinalsDistinct'
    BY <1>11 DEF AttemptFails, FirstCleanup, TypeOK, FinalIsComplete, AttemptsProgress, FinalsDistinct, OnePublisher, WorkIsLed, AtAttempt, Working, Attempts
  <2>4. AttemptsProgress'
    BY <1>11 DEF AttemptFails, FirstCleanup, TypeOK, FinalIsComplete, AttemptsProgress, FinalsDistinct, OnePublisher, WorkIsLed, AtAttempt, Working, Attempts
  <2>5. QED BY <2>1, <2>2, <2>3, <2>4
<1>12. CASE CleanLink(d)
  <2>1. pc' \in [Daemons -> Labels] /\ OnePublisher' /\ LocksGranted' /\ WorkIsLed'
    BY <1>12, WorkLeads DEF CleanLink, Working
  <2>2. TypeOK'
    BY <1>12, <2>1 DEF CleanLink, TypeOK, Attempts
  <2>3. FinalIsComplete' /\ FinalsDistinct'
    BY <1>12 DEF CleanLink, TypeOK, FinalIsComplete, AttemptsProgress, FinalsDistinct, OnePublisher, WorkIsLed, AtAttempt, Working, Attempts
  <2>4. AttemptsProgress'
    BY <1>12 DEF CleanLink, TypeOK, FinalIsComplete, AttemptsProgress, FinalsDistinct, OnePublisher, WorkIsLed, AtAttempt, Working, Attempts
  <2>5. QED BY <2>1, <2>2, <2>3, <2>4
<1>13. CASE CleanSnap(d)
  <2>1. pc' \in [Daemons -> Labels] /\ OnePublisher' /\ LocksGranted' /\ WorkIsLed'
    BY <1>13, WorkLeads DEF CleanSnap, Remove, Working
  <2>2. TypeOK'
    BY <1>13, <2>1 DEF CleanSnap, Remove, TypeOK, Attempts
  <2>3. FinalIsComplete' /\ FinalsDistinct'
    BY <1>13 DEF CleanSnap, Remove, TypeOK, FinalIsComplete, AttemptsProgress, FinalsDistinct, OnePublisher, WorkIsLed, AtAttempt, Working, Attempts
  <2>4. AttemptsProgress'
    BY <1>13 DEF CleanSnap, Remove, TypeOK, FinalIsComplete, AttemptsProgress, FinalsDistinct, OnePublisher, WorkIsLed, AtAttempt, Working, Attempts
  <2>5. QED BY <2>1, <2>2, <2>3, <2>4
<1>14. CASE CleanTmp(d)
  <2>1. pc' \in [Daemons -> Labels] /\ OnePublisher' /\ LocksGranted' /\ WorkIsLed'
    BY <1>14, WorkLeads DEF CleanTmp, Remove, Working
  <2>2. TypeOK'
    BY <1>14, <2>1 DEF CleanTmp, Remove, TypeOK, Attempts
  <2>3. FinalIsComplete' /\ FinalsDistinct'
    BY <1>14 DEF CleanTmp, Remove, TypeOK, FinalIsComplete, AttemptsProgress, FinalsDistinct, OnePublisher, WorkIsLed, AtAttempt, Working, Attempts
  <2>4. AttemptsProgress'
    BY <1>14 DEF CleanTmp, Remove, TypeOK, FinalIsComplete, AttemptsProgress, FinalsDistinct, OnePublisher, WorkIsLed, AtAttempt, Working, Attempts
  <2>5. QED BY <2>1, <2>2, <2>3, <2>4
<1>15. QED BY <1>1, <1>2, <1>3, <1>4, <1>5, <1>6, <1>7, <1>8, <1>9, <1>10, <1>11, <1>12, <1>13, <1>14 DEF Publishes

\* A daemon that leaves has no work in hand, one that crashes loses it all.
LEMMA LeavingKeeps ==
  ASSUME PublishInvariant, NEW d \in Daemons, Leaves(d)
  PROVE  PublishInvariant'
<1> USE BoundsNatural, NobodyIsNoDaemon DEF Goto, diskVars, PublishInvariant
<1>1. CASE CloseBegin(d)
  <2>1. TypeOK'
    BY <1>1 DEF CloseBegin, TypeOK, Labels, Working
  <2>2. OnePublisher' /\ LocksGranted' /\ WorkIsLed'
    BY <1>1 DEF CloseBegin, TypeOK, OnePublisher, LocksGranted, WorkIsLed, Labels, Working, Attempts
  <2>3. FinalIsComplete' /\ FinalsDistinct'
    BY <1>1 DEF CloseBegin, TypeOK, FinalIsComplete, AttemptsProgress, FinalsDistinct, OnePublisher, WorkIsLed, AtAttempt, Working, Attempts
  <2>4. AttemptsProgress'
    BY <1>1 DEF CloseBegin, TypeOK, FinalIsComplete, AttemptsProgress, FinalsDistinct, OnePublisher, WorkIsLed, AtAttempt, Working, Attempts
  <2>5. QED BY <2>1, <2>2, <2>3, <2>4
<1>2. ASSUME NEW s \in Scopes, Unlock(d, s) PROVE PublishInvariant'
  <2>1. TypeOK'
    BY <1>2 DEF Unlock, TypeOK, Labels, Working
  <2>2. OnePublisher' /\ LocksGranted' /\ WorkIsLed'
    BY <1>2 DEF Unlock, TypeOK, OnePublisher, LocksGranted, WorkIsLed, Labels, Working, Attempts
  <2>3. FinalIsComplete' /\ FinalsDistinct'
    BY <1>2 DEF Unlock, TypeOK, FinalIsComplete, AttemptsProgress, FinalsDistinct, OnePublisher, WorkIsLed, AtAttempt, Working, Attempts
  <2>4. AttemptsProgress'
    BY <1>2 DEF Unlock, TypeOK, FinalIsComplete, AttemptsProgress, FinalsDistinct, OnePublisher, WorkIsLed, AtAttempt, Working, Attempts
  <2>5. QED BY <2>1, <2>2, <2>3, <2>4
<1>3. CASE Exit(d)
  <2>1. TypeOK'
    BY <1>3 DEF Exit, TypeOK, Labels, Working
  <2>2. OnePublisher' /\ LocksGranted' /\ WorkIsLed'
    BY <1>3 DEF Exit, TypeOK, OnePublisher, LocksGranted, WorkIsLed, Labels, Working, Attempts
  <2>3. FinalIsComplete' /\ FinalsDistinct'
    BY <1>3 DEF Exit, TypeOK, FinalIsComplete, AttemptsProgress, FinalsDistinct, OnePublisher, WorkIsLed, AtAttempt, Working, Attempts
  <2>4. AttemptsProgress'
    BY <1>3 DEF Exit, TypeOK, FinalIsComplete, AttemptsProgress, FinalsDistinct, OnePublisher, WorkIsLed, AtAttempt, Working, Attempts
  <2>5. QED BY <2>1, <2>2, <2>3, <2>4
<1>4. CASE Crash(d)
  <2>1. TypeOK'
    BY <1>4 DEF Crash, TypeOK, Labels, Working
  <2>2. OnePublisher' /\ LocksGranted' /\ WorkIsLed'
    BY <1>4 DEF Crash, TypeOK, OnePublisher, LocksGranted, WorkIsLed, Labels, Working, Attempts
  <2>3. FinalIsComplete' /\ FinalsDistinct'
    BY <1>4 DEF Crash, TypeOK, FinalIsComplete, AttemptsProgress, FinalsDistinct, OnePublisher, WorkIsLed, AtAttempt, Working, Attempts
  <2>4. AttemptsProgress'
    BY <1>4 DEF Crash, TypeOK, FinalIsComplete, AttemptsProgress, FinalsDistinct, OnePublisher, WorkIsLed, AtAttempt, Working, Attempts
  <2>5. QED BY <2>1, <2>2, <2>3, <2>4
<1>5. CASE Start(d)
  <2>1. TypeOK'
    BY <1>5 DEF Start, TypeOK, Labels, Working
  <2>2. OnePublisher' /\ LocksGranted' /\ WorkIsLed'
    BY <1>5 DEF Start, TypeOK, OnePublisher, LocksGranted, WorkIsLed, Labels, Working, Attempts
  <2>3. FinalIsComplete' /\ FinalsDistinct'
    BY <1>5 DEF Start, TypeOK, FinalIsComplete, AttemptsProgress, FinalsDistinct, OnePublisher, WorkIsLed, AtAttempt, Working, Attempts
  <2>4. AttemptsProgress'
    BY <1>5 DEF Start, TypeOK, FinalIsComplete, AttemptsProgress, FinalsDistinct, OnePublisher, WorkIsLed, AtAttempt, Working, Attempts
  <2>5. QED BY <2>1, <2>2, <2>3, <2>4
<1>6. QED BY <1>1, <1>2, <1>3, <1>4, <1>5 DEF Leaves

LEMMA PublishStep == ASSUME PublishInvariant, [Next]_vars PROVE PublishInvariant'
<1>1. CASE UNCHANGED vars
  BY <1>1 DEF vars, diskVars, PublishInvariant, TypeOK, FinalIsComplete, OnePublisher, LocksGranted, WorkIsLed,
     AttemptsProgress, FinalsDistinct, AtAttempt
<1>2. QED BY <1>1, ElectionKeeps, PassKeeps, LeavingKeeps DEF Next

\* The inductive invariant of publishing holds in every reachable state.
THEOREM PublishInvariantHolds == Spec => []PublishInvariant
  BY PublishInit, PublishStep, PTL DEF Spec

\* The scope's path never leads to a snapshot that is partial, unvalidated or
\* removed (publishSnapshot and the deferred clean-ups).
THEOREM FinalStaysComplete == Spec => []FinalIsComplete
<1>1. PublishInvariant => FinalIsComplete
  BY DEF PublishInvariant
<1>2. QED BY <1>1, PublishInvariantHolds, PTL

\* One daemon at a time works on a scope (leaderElector's flocks).
THEOREM PublishersExclude == Spec => []OnePublisher
<1>1. PublishInvariant => OnePublisher
  BY DEF PublishInvariant
<1>2. QED BY <1>1, PublishInvariantHolds, PTL

-----------------------------------------------------------------------------
(* Failures clean up *)

LEMMA TidyInit == ASSUME Init PROVE FailuresCleanUp /\ AttemptsTidy
<1>1. \A d \in Daemons : ~AtAttempt(d)
  BY DEF Init, AtAttempt, Working
<1>2. \A i \in Attempts : ~link[i] /\ place[i] # "tmp" /\ (place[i] = "snap" => progress[i] = "valid")
  BY DirectoryScopes DEF Init
<1>3. QED BY <1>1, <1>2 DEF FailuresCleanUp, AttemptsTidy

\* A step that moves no file and neither begins nor ends an attempt.
LEMMA TidyFrame ==
  ASSUME FailuresCleanUp, AttemptsTidy, UNCHANGED <<diskVars, work, crashes>>,
         \A e \in Daemons : AtAttempt(e)' = AtAttempt(e) /\ (AtAttempt(e) => pc'[e] = pc[e])
  PROVE  FailuresCleanUp' /\ AttemptsTidy'
<1>1. InHand' = InHand
  BY DEF InHand, AtAttempt
<1>2. FailuresCleanUp'
  BY <1>1 DEF FailuresCleanUp, diskVars
<1>3. AttemptsTidy'
  BY DEF AttemptsTidy, diskVars
<1>4. QED BY <1>2, <1>3

\* A step of a daemon's work touches its own attempt only, and leaves it in
\* hand or done with.
LEMMA TidyWork ==
  ASSUME PublishInvariant, FailuresCleanUp, AttemptsTidy,
         NEW d \in Daemons, NEW i \in Attempts, NEW to \in Working \cup {"next"},
         pc[d] \in Working, pc' = [pc EXCEPT ![d] = to], UNCHANGED crashes,
         work' = [work EXCEPT ![d] = i], AtAttempt(d) => i = work[d], AtAttempt(d) \/ i > attempts,
         to # "build",
         \A j \in Attempts \ {i} :
           /\ link'[j] = link[j] /\ progress'[j] = progress[j]
           /\ place'[j] = place[j] \/ place'[j] = "nowhere",
         crashes = 0 =>
           IF to = "next"
           THEN ~link'[i] /\ place'[i] # "tmp" /\ (place'[i] = "snap" => progress'[i] = "valid")
           ELSE /\ link'[i] => to \in {"linked", "cleanLink"}
                /\ place'[i] = "tmp" => to \in {"write", "validate", "publish", "cleanTmp"}
                /\ place'[i] = "snap" => to \in {"staged", "linked", "cleanLink", "cleanSnap"}
  PROVE  FailuresCleanUp' /\ AttemptsTidy'
<1> USE DEF PublishInvariant
<1>1. /\ pc'[d] = to /\ work'[d] = i
      /\ \A e \in Daemons \ {d} : pc'[e] = pc[e] /\ work'[e] = work[e]
  BY DEF TypeOK
<1>2. /\ AtAttempt(d)' <=> to # "next"
      /\ \A e \in Daemons \ {d} : AtAttempt(e)' <=> AtAttempt(e)
  BY <1>1 DEF AtAttempt, Working
<1>3. \A e \in Daemons \ {d} : AtAttempt(e) => work[e] \in Attempts \ {i}
  BY DEF AttemptsProgress, Attempts, TypeOK
<1>4. AttemptsTidy'
  BY <1>1, <1>2, <1>3 DEF AttemptsTidy
<1>5. ASSUME crashes = 0, NEW j \in Attempts, j \notin InHand', j # i
      PROVE  ~link'[j] /\ place'[j] # "tmp" /\ (place'[j] = "snap" => progress'[j] = "valid")
  <2>1. \A e \in Daemons : AtAttempt(e) => work[e] # j
    BY <1>1, <1>2, <1>5 DEF InHand, AtAttempt
  <2>2. j \notin InHand
    BY <2>1 DEF InHand, AtAttempt
  <2>3. ~link[j] /\ place[j] # "tmp" /\ (place[j] = "snap" => progress[j] = "valid")
    BY <1>5, <2>2 DEF FailuresCleanUp
  <2>4. QED BY <1>5, <2>3
<1>6. to # "next" => i \in InHand'
  BY <1>1, <1>2 DEF InHand, AtAttempt
<1>7. FailuresCleanUp'
  BY <1>5, <1>6 DEF FailuresCleanUp
<1>8. QED BY <1>4, <1>7

LEMMA TidyStep ==
  ASSUME PublishInvariant, FailuresCleanUp, AttemptsTidy, [Next]_vars
  PROVE  FailuresCleanUp' /\ AttemptsTidy'
<1> USE DEF Goto, diskVars
<1>1. CASE UNCHANGED vars
  BY <1>1, TidyFrame DEF vars, AtAttempt
<1>2. ASSUME NEW d \in Daemons,
             \/ Wake(d) \/ LeadDone(d) \/ HoldDone(d) \/ PassEnds(d) \/ BuildFails(d)
             \/ CloseBegin(d) \/ Exit(d) \/ Start(d)
             \/ \E s \in Scopes : Ask(d, s) \/ AskFails(d, s) \/ NextScope(d, s) \/ Unlock(d, s)
      PROVE  FailuresCleanUp' /\ AttemptsTidy'
  <2>1. UNCHANGED <<diskVars, work, crashes>> /\ ~AtAttempt(d)
    BY <1>2 DEF Wake, LeadDone, HoldDone, PassEnds, BuildFails, CloseBegin, Exit, Start, Ask, AskFails,
       NextScope, Unlock, AtAttempt, Working, PublishInvariant, LocksGranted
  <2>2. pc' = pc \/ \E to \in {"rest", "lead", "hold", "next", "build", "unlock"} : pc' = [pc EXCEPT ![d] = to]
    BY <1>2 DEF Wake, LeadDone, HoldDone, PassEnds, BuildFails, CloseBegin, Exit, Start, Ask, AskFails,
       NextScope, Unlock
  <2>3. \A e \in Daemons : AtAttempt(e)' = AtAttempt(e) /\ (AtAttempt(e) => pc'[e] = pc[e])
    BY <2>1, <2>2 DEF AtAttempt, Working, PublishInvariant, TypeOK
  <2>4. QED BY <2>1, <2>3, TidyFrame
<1>3. ASSUME NEW d \in Daemons, Crash(d) PROVE FailuresCleanUp' /\ AttemptsTidy'
  BY <1>3 DEF Crash, FailuresCleanUp, AttemptsTidy, PublishInvariant, TypeOK
<1>4. ASSUME NEW d \in Daemons, WriteBegin(d) PROVE FailuresCleanUp' /\ AttemptsTidy'
  <2> DEFINE i == attempts + 1
  <2>1. i \in Attempts /\ i > attempts /\ i \notin InHand
    BY <1>4, BoundsNatural DEF WriteBegin, Attempts, InHand, PublishInvariant, TypeOK, AttemptsProgress, AtAttempt
  <2>2. crashes = 0 => ~link[i]
    BY <2>1 DEF FailuresCleanUp
  <2>3. pc[d] = "build" /\ ~AtAttempt(d)
    BY <1>4 DEF WriteBegin, AtAttempt
  <2>4. QED
    BY <1>4, <2>1, <2>2, <2>3, TidyWork DEF WriteBegin, Working, PublishInvariant, TypeOK
<1>5. ASSUME NEW d \in Daemons, AtAttempt(d),
             \/ WriteEnd(d) \/ Validate(d) \/ Stage(d) \/ Symlink(d) \/ PublishLink(d) \/ PublishFile(d)
             \/ AttemptFails(d) \/ CleanLink(d) \/ CleanSnap(d) \/ CleanTmp(d)
      PROVE  FailuresCleanUp' /\ AttemptsTidy'
  <2> DEFINE i == work[d]
  <2>1. i \in Attempts /\ pc[d] \in Working
    BY <1>5, BoundsNatural DEF Attempts, PublishInvariant, TypeOK, AttemptsProgress, AtAttempt
  <2>2. work' = [work EXCEPT ![d] = i] /\ UNCHANGED crashes
    BY <1>5 DEF WriteEnd, Validate, Advance, Stage, Symlink, PublishLink, PublishFile, AttemptFails, CleanLink,
       CleanSnap, CleanTmp, Remove, PublishInvariant, TypeOK
  <2>3. /\ crashes = 0 /\ link[i] => pc[d] \in {"linked", "cleanLink"}
        /\ crashes = 0 /\ place[i] = "tmp" => pc[d] \in {"write", "validate", "publish", "cleanTmp"}
        /\ crashes = 0 /\ place[i] = "snap" => pc[d] \in {"staged", "linked", "cleanLink", "cleanSnap"}
    BY <1>5 DEF AttemptsTidy
  <2>4. pc[d] \in {"publish", "staged", "linked"} => progress[i] = "valid"
    BY <1>5 DEF PublishInvariant, AttemptsProgress
  <2>5. place \in [Attempts -> {"nowhere", "tmp", "snap", "final"}] /\ link \in [Attempts -> BOOLEAN]
        /\ progress \in [Attempts -> {"none", "partial", "written", "valid"}]
    BY DEF PublishInvariant, TypeOK
  <2>6. CASE WriteEnd(d)
    BY <1>5, <2>1, <2>2, <2>3, <2>5, <2>6, TidyWork DEF WriteEnd, Advance, Working
  <2>7. CASE Validate(d)
    BY <1>5, <2>1, <2>2, <2>3, <2>5, <2>7, TidyWork DEF Validate, Advance, Working
  <2>8. CASE Stage(d)
    BY <1>5, <2>1, <2>2, <2>3, <2>5, <2>8, TidyWork DEF Stage, Working
  <2>9. CASE Symlink(d)
    BY <1>5, <2>1, <2>2, <2>3, <2>5, <2>9, TidyWork DEF Symlink, Working
  <2>10. CASE PublishLink(d)
    BY <1>5, <2>1, <2>2, <2>3, <2>4, <2>5, <2>10, TidyWork DEF PublishLink, Working
  <2>11. CASE PublishFile(d)
    BY <1>5, <2>1, <2>2, <2>3, <2>5, <2>11, TidyWork DEF PublishFile, Working
  <2>12. CASE AttemptFails(d)
    BY <1>5, <2>1, <2>2, <2>3, <2>5, <2>12, TidyWork DEF AttemptFails, FirstCleanup, Working
  <2>13. CASE CleanLink(d)
    BY <1>5, <2>1, <2>2, <2>3, <2>5, <2>13, TidyWork DEF CleanLink, Working
  <2>14. CASE CleanSnap(d)
    BY <1>5, <2>1, <2>2, <2>3, <2>5, <2>14, TidyWork DEF CleanSnap, Remove, Working
  <2>15. CASE CleanTmp(d)
    BY <1>5, <2>1, <2>2, <2>3, <2>5, <2>15, TidyWork DEF CleanTmp, Remove, Working
  <2>16. QED
    BY <1>5, <2>6, <2>7, <2>8, <2>9, <2>10, <2>11, <2>12, <2>13, <2>14, <2>15
<1>6. ASSUME NEW d \in Daemons,
             \/ WriteEnd(d) \/ Validate(d) \/ Stage(d) \/ Symlink(d) \/ PublishLink(d) \/ PublishFile(d)
             \/ AttemptFails(d) \/ CleanLink(d) \/ CleanSnap(d) \/ CleanTmp(d)
      PROVE  AtAttempt(d)
  BY <1>6 DEF WriteEnd, Validate, Advance, Stage, Symlink, PublishLink, PublishFile, AttemptFails, CleanLink,
     CleanSnap, CleanTmp, Remove, AtAttempt, Working
<1>7. QED
  BY <1>1, <1>2, <1>3, <1>4, <1>5, <1>6 DEF Next, Elects, Publishes, Leaves

\* As long as no daemon crashes, nothing but published versions stays behind,
\* whatever fails (the deferred clean-ups of publishSnapshot and Publish).
THEOREM FailuresLeaveNothing == Spec => []FailuresCleanUp
<1>1. Spec => [](FailuresCleanUp /\ AttemptsTidy)
  BY TidyInit, TidyStep, PublishInvariantHolds, PTL DEF Spec
<1>2. QED BY <1>1, PTL

(***************************************************************************)
(* Refinement.                                                             *)
(***************************************************************************)

\* A step changes a scope's leader or its published snapshot, or neither.
LEMMA StepIsServiceStep ==
  ASSUME PublishInvariant, [Next]_vars
  PROVE  [Service!Next]_(Service!vars)
<1> USE DEF Service!Next, Service!Elect, Service!Publish, Service!StepDown, Service!vars
<1>1. ASSUME NEW d \in Daemons, NEW s \in Scopes, Ask(d, s) PROVE Service!Next \/ UNCHANGED <<flock, final>>
  BY <1>1 DEF Ask, TryAcquire, diskVars
<1>2. ASSUME NEW d \in Daemons, PublishLink(d) \/ PublishFile(d) PROVE Service!Next
  <2>1. /\ final' = [final EXCEPT ![cur[d]] = work[d]] /\ flock' = flock
        /\ pc[d] \in {"linked", "publish"}
    BY <1>2 DEF PublishLink, PublishFile
  <2>2. cur[d] \in Scopes /\ flock[cur[d]] = d /\ final[cur[d]] < work[d]
    BY <2>1 DEF PublishInvariant, TypeOK, LocksGranted, WorkIsLed, AttemptsProgress, AtAttempt, Working
  <2>3. final \in [Scopes -> 0..MaxAttempts]
    BY DEF PublishInvariant, TypeOK
  <2>4. Service!Publish(d, cur[d])
    BY <2>1, <2>2, <2>3, BoundsNatural
  <2>5. QED BY <2>2, <2>4
<1>3. ASSUME NEW d \in Daemons, NEW s \in Scopes, Unlock(d, s) PROVE Service!Next
  <2>1. flock[s] = d /\ flock' = [flock EXCEPT ![s] = Nobody] /\ final' = final
    BY <1>3 DEF Unlock, diskVars, PublishInvariant, LocksGranted
  <2>2. flock' = [t \in Scopes |-> IF t \in {s} THEN Nobody ELSE flock[t]]
    BY <2>1 DEF PublishInvariant, TypeOK
  <2>3. Service!StepDown(d, {s})
    BY <2>1, <2>2
  <2>4. QED BY <2>3
<1>4. ASSUME NEW d \in Daemons, Crash(d) PROVE Service!Next
  <2> DEFINE lost == {s \in Scopes : flock[s] = d}
  <2>1. flock' = [s \in Scopes |-> IF s \in lost THEN Nobody ELSE flock[s]] /\ final' = final
    BY <1>4 DEF Crash, diskVars
  <2>2. Service!StepDown(d, lost)
    BY <2>1
  <2>3. QED BY <2>2
<1>5. ASSUME NEW d \in Daemons,
             \/ Wake(d) \/ LeadDone(d) \/ HoldDone(d) \/ PassEnds(d) \/ BuildFails(d) \/ WriteBegin(d)
             \/ WriteEnd(d) \/ Validate(d) \/ Stage(d) \/ Symlink(d) \/ AttemptFails(d)
             \/ CleanLink(d) \/ CleanSnap(d) \/ CleanTmp(d) \/ CloseBegin(d) \/ Exit(d) \/ Start(d)
             \/ \E s \in Scopes : NextScope(d, s) \/ AskFails(d, s)
      PROVE  UNCHANGED <<flock, final>>
  BY <1>5 DEF Wake, LeadDone, HoldDone, PassEnds, BuildFails, WriteBegin, WriteEnd, Validate, Advance, Stage,
     Symlink, AttemptFails, CleanLink, CleanSnap, CleanTmp, Remove, CloseBegin, Exit, Start, NextScope,
     AskFails, diskVars
<1>6. CASE UNCHANGED vars
  BY <1>6 DEF vars, diskVars
<1>7. QED
  BY <1>1, <1>2, <1>3, <1>4, <1>5, <1>6 DEF Next, Elects, Publishes, Leaves

\* The daemons, their locks and their file-system calls implement the service:
\* one leader per scope, and only the leader publishes, each time newer.
THEOREM PublishingImplementsService == Spec => ImplementsService
<1>1. Init => Service!Init
  BY BoundsNatural, EarlierSnapshots DEF Init, Service!Init
<1>2. QED
  BY <1>1, StepIsServiceStep, PublishInvariantHolds, PTL DEF Spec, ImplementsService, Service!Spec
=============================================================================
