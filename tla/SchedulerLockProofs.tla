-------------------------- MODULE SchedulerLockProofs --------------------------
(***************************************************************************)
(* Theorems of SchedulerLock for any number of replicas and admin jobs: it *)
(* implements the abstract lease, and runs overlap only by lost sessions.  *)
(***************************************************************************)
EXTENDS SchedulerLock, FiniteSetTheorems, TLAPS

(* TypeOK; the holder of a live session is in its run; a job that was never
   started stands nowhere. *)
HolderInv ==
    /\ TypeOK
    /\ holder # None /\ ~zombie => InRun(holder)
    /\ \A j \in Job : record[j] = "none" => pc[j] = "idle"

LEMMA HolderInit == Init => HolderInv
  <1> SUFFICES ASSUME Init PROVE HolderInv
    OBVIOUS
  <1> USE RunnerAssumption DEF Init
  <1>1. /\ holder \in Runner \union {None} /\ zombie \in BOOLEAN /\ status \in Status
        /\ losses \in Nat /\ crashes \in Nat /\ shown \subseteq Runner
        /\ ~(holder # None) /\ ~zombie
    BY DEF Status
  <1>2. /\ pc \in [Runner -> PC] /\ outcome \in [Runner -> Result]
        /\ record \in [Job -> JobStatus]
        /\ \A j \in Job : pc[j] = "idle"
    BY DEF Runner, PC, Result, JobStatus
  <1> QED
    BY <1>1, <1>2 DEF HolderInv, TypeOK

LEMMA HolderStep == HolderInv /\ [Next]_vars => HolderInv'
  <1> SUFFICES ASSUME HolderInv, [Next]_vars PROVE HolderInv'
    OBVIOUS
  <1> USE RunnerAssumption DEF HolderInv, TypeOK, InRun, Goto, bounds
  <1>1. ASSUME NEW t \in Ticker, Tick(t) PROVE HolderInv'
    BY <1>1 DEF Tick, Runner, PC, InRunPC
  <1>2. ASSUME NEW j \in Job, StartJob(j) PROVE HolderInv'
    BY <1>2 DEF StartJob, Runner, PC, InRunPC, JobStatus
  <1>3. ASSUME NEW r \in Runner, TakeLock(r) PROVE HolderInv'
    BY <1>3 DEF TakeLock, PC, InRunPC
  <1>4. ASSUME NEW r \in Runner, LockBusy(r) \/ LockError(r) PROVE HolderInv'
    BY <1>4 DEF Runner, LockBusy, LockError, Finish, PC, InRunPC, JobStatus
  <1>5. ASSUME NEW r \in Runner, MarkSchedulerStarted(r) PROVE HolderInv'
    BY <1>5 DEF MarkSchedulerStarted, PC, InRunPC, Status
  <1>6. ASSUME NEW r \in Runner, Work(r) PROVE HolderInv'
    BY <1>6 DEF Work, PC, InRunPC, Result
  <1>7. ASSUME NEW r \in Runner, MarkSchedulerFinished(r) PROVE HolderInv'
    BY <1>7 DEF MarkSchedulerFinished, PC, InRunPC, Status, Result
  <1>8. ASSUME NEW r \in Runner, Release(r) PROVE HolderInv'
    BY <1>8 DEF Runner, Release, Finish, PC, InRunPC, JobStatus
  <1>9. ASSUME NEW r \in Runner, LoseSession(r) PROVE HolderInv'
    BY <1>9 DEF LoseSession
  <1>10. CASE DropSession
    BY <1>10 DEF DropSession
  <1>11. ASSUME NEW x \in Replica, Crash(x) PROVE HolderInv'
    <2>1. pc' \in [Runner -> PC] /\ record' \in [Job -> JobStatus]
      BY <1>11 DEF Crash, PC, JobStatus
    <2>2. zombie' \in BOOLEAN /\ shown' \subseteq Runner /\ crashes' \in Nat
      BY <1>11 DEF Crash
    <2>3. /\ holder' = holder /\ losses' = losses /\ status' = status /\ outcome' = outcome
          /\ \A r \in Runner : pc'[r] = IF Home[r] = x THEN "idle" ELSE pc[r]
      BY <1>11 DEF Crash
    <2>4. zombie' => holder' # None /\ ~InRun(holder)'
      BY <1>11, <2>3 DEF Crash, InRunPC
    <2>5. holder' # None /\ ~zombie' => InRun(holder)'
      BY <1>11, <2>3 DEF Crash, InRunPC
    <2>6. \A j \in Job : record'[j] = "none" => pc'[j] = "idle"
      BY <1>11, <2>3 DEF Crash, Runner
    <2> QED
      BY <2>1, <2>2, <2>3, <2>4, <2>5, <2>6
  <1>12. CASE UNCHANGED vars
    BY <1>12 DEF vars
  <1> QED
    BY <1>1, <1>2, <1>3, <1>4, <1>5, <1>6, <1>7, <1>8, <1>9, <1>10, <1>11, <1>12
    DEF Next, Advance

LEMMA HolderCorrect == Spec => []HolderInv
  BY HolderInit, HolderStep, PTL DEF Spec

(* Every variable has its type. *)
THEOREM LockTypeCorrect == Spec => []TypeOK
  BY HolderCorrect, PTL DEF HolderInv

-----------------------------------------------------------------------------
(* Every step of the lock's protocol is a step of the abstract lease, or
   leaves it unchanged. *)
LEMMA LeaseStep == HolderInv /\ [Next]_vars => [Lease!Next]_(Lease!vars)
  <1> DEFINE run == IF holder # None /\ ~zombie THEN holder ELSE None
             orphans == {r \in Runner : InRun(r) /\ holder # r}
  <1> SUFFICES ASSUME HolderInv, [Next]_vars
               PROVE  \/ \E r \in Runner : \/ Lease!Begin(r) \/ Lease!End(r)
                                           \/ Lease!Revoke(r) \/ Lease!OrphanEnds(r)
                      \/ \E dead \in SUBSET Runner : Lease!Die(dead)
                      \/ run' = run /\ orphans' = orphans
    BY DEF Lease!Next, Lease!vars
  <1> USE RunnerAssumption DEF HolderInv, TypeOK, InRun, Goto, bounds
  <1>1. ASSUME NEW t \in Ticker, Tick(t) PROVE run' = run /\ orphans' = orphans
    BY <1>1 DEF Tick, Runner, PC, InRunPC
  <1>2. ASSUME NEW j \in Job, StartJob(j) PROVE run' = run /\ orphans' = orphans
    BY <1>2 DEF StartJob, Runner, PC, InRunPC
  <1>3. ASSUME NEW r \in Runner, TakeLock(r) PROVE Lease!Begin(r)
    BY <1>3 DEF TakeLock, Lease!Begin, PC, InRunPC
  <1>4. ASSUME NEW r \in Runner, LockBusy(r) \/ LockError(r)
        PROVE  run' = run /\ orphans' = orphans
    BY <1>4 DEF LockBusy, LockError, Finish, PC, InRunPC
  <1>5. ASSUME NEW r \in Runner, MarkSchedulerStarted(r) \/ Work(r) \/ MarkSchedulerFinished(r)
        PROVE  run' = run /\ orphans' = orphans
    BY <1>5 DEF MarkSchedulerStarted, Work, MarkSchedulerFinished, PC, InRunPC
  <1>6. ASSUME NEW r \in Runner, Release(r) PROVE Lease!End(r) \/ Lease!OrphanEnds(r)
    <2>1. CASE holder = r
      BY <1>6, <2>1 DEF Release, Finish, Lease!End, PC, InRunPC
    <2>2. CASE holder # r
      BY <1>6, <2>2 DEF Release, Finish, Lease!OrphanEnds, PC, InRunPC
    <2> QED BY <2>1, <2>2
  <1>7. ASSUME NEW r \in Runner, LoseSession(r) PROVE Lease!Revoke(r)
    BY <1>7 DEF LoseSession, Lease!Revoke
  <1>8. CASE DropSession
    BY <1>8 DEF DropSession
  <1>9. ASSUME NEW x \in Replica, Crash(x) PROVE \E dead \in SUBSET Runner : Lease!Die(dead)
    <2> WITNESS {r \in Runner : Home[r] = x} \in SUBSET Runner
    <2> QED
      BY <1>9 DEF Crash, Lease!Die, InRunPC
  <1>10. CASE UNCHANGED vars
    BY <1>10 DEF vars
  <1> QED
    BY <1>1, <1>2, <1>3, <1>4, <1>5, <1>6, <1>7, <1>8, <1>9, <1>10 DEF Next, Advance

(* The protocol implements the abstract lease: at most one run holds it, and a
   run that lost it ends by itself. *)
THEOREM LeaseImplemented == Spec => Lease!Safety
  <1>1. Init => Lease!Init
    BY RunnerAssumption DEF Init, Lease!Init, InRun, InRunPC
  <1> QED
    BY <1>1, HolderCorrect, LeaseStep, PTL DEF Spec, Lease!Safety

-----------------------------------------------------------------------------
(* Runs without the lock number at most the sessions lost. *)
Orphans == {r \in Runner : InRun(r) /\ holder # r}

LossInv == Cardinality(Orphans) <= losses

LEMMA OrphansStep ==
  ASSUME HolderInv, [Next]_vars
  PROVE  /\ losses \in Nat /\ losses' \in Nat
         /\ \/ Orphans' \subseteq Orphans /\ losses' = losses
            \/ \E r \in Runner : Orphans' \subseteq Orphans \union {r} /\ losses' = losses + 1
  <1> DEFINE Goal == \/ Orphans' \subseteq Orphans /\ losses' = losses
                     \/ \E r \in Runner : Orphans' \subseteq Orphans \union {r} /\ losses' = losses + 1
  <1> USE RunnerAssumption DEF HolderInv, TypeOK, InRun, Goto, bounds, Orphans
  <1>1. ASSUME NEW t \in Ticker, Tick(t) PROVE Goal
    BY <1>1 DEF Tick, Runner, PC, InRunPC
  <1>2. ASSUME NEW j \in Job, StartJob(j) PROVE Goal
    BY <1>2 DEF StartJob, Runner, PC, InRunPC
  <1>3. ASSUME NEW r \in Runner, TakeLock(r) PROVE Goal
    BY <1>3 DEF TakeLock, PC, InRunPC
  <1>4. ASSUME NEW r \in Runner, LockBusy(r) \/ LockError(r) PROVE Goal
    BY <1>4 DEF LockBusy, LockError, Finish, PC, InRunPC
  <1>5. ASSUME NEW r \in Runner, MarkSchedulerStarted(r) \/ Work(r) \/ MarkSchedulerFinished(r)
        PROVE  Goal
    BY <1>5 DEF MarkSchedulerStarted, Work, MarkSchedulerFinished, PC, InRunPC
  <1>6. ASSUME NEW r \in Runner, Release(r) PROVE Goal
    BY <1>6 DEF Release, Finish, PC, InRunPC
  <1>7. ASSUME NEW r \in Runner, LoseSession(r) PROVE Goal
    BY <1>7 DEF LoseSession
  <1>8. CASE DropSession
    BY <1>8 DEF DropSession
  <1>9. ASSUME NEW x \in Replica, Crash(x) PROVE Goal
    BY <1>9 DEF Crash, PC, InRunPC
  <1>10. CASE UNCHANGED vars
    BY <1>10 DEF vars
  <1>11. Goal
    BY <1>1, <1>2, <1>3, <1>4, <1>5, <1>6, <1>7, <1>8, <1>9, <1>10 DEF Next, Advance
  <1> QED
    BY <1>11

LEMMA LossStep == HolderInv /\ LossInv /\ [Next]_vars => LossInv'
  <1> SUFFICES ASSUME HolderInv, LossInv, [Next]_vars PROVE LossInv'
    OBVIOUS
  <1>1. IsFiniteSet(Orphans) /\ Cardinality(Orphans) \in Nat
    <2>1. IsFiniteSet(Orphans)
      BY RunnerAssumption, FS_Subset DEF Orphans
    <2> QED BY <2>1, FS_CardinalityType
  <1>2. CASE Orphans' \subseteq Orphans /\ losses' = losses
    <2>1. Cardinality(Orphans') <= Cardinality(Orphans) /\ Cardinality(Orphans') \in Nat
      BY <1>1, <1>2, FS_Subset, FS_CardinalityType
    <2> QED BY <1>1, <1>2, <2>1, OrphansStep DEF LossInv
  <1>3. ASSUME NEW r \in Runner, Orphans' \subseteq Orphans \union {r}, losses' = losses + 1
        PROVE  LossInv'
    <2> DEFINE More == Orphans \union {r}
    <2>1. /\ IsFiniteSet(More)
          /\ Cardinality(More) <= Cardinality(Orphans) + 1
          /\ Cardinality(More) \in Nat
      <3>1. IsFiniteSet(More)
        BY <1>1, FS_AddElement
      <3>2. Cardinality(More) = Cardinality(Orphans) \/ Cardinality(More) = Cardinality(Orphans) + 1
        BY <1>1, FS_AddElement
      <3> QED BY <1>1, <3>1, <3>2
    <2>2. Cardinality(Orphans') <= Cardinality(More) /\ Cardinality(Orphans') \in Nat
      BY <1>3, <2>1, FS_Subset, FS_CardinalityType
    <2> QED BY <1>1, <1>3, <2>1, <2>2, OrphansStep DEF LossInv
  <1> QED
    BY <1>2, <1>3, OrphansStep

(* Two runs of a job overlap only after a lock session was lost: the lock
   excludes, whatever becomes of the row and of the replicas. *)
THEOREM OverlapCorrect == Spec => []OverlapNeedsLoss
  <1>1. Init => LossInv
    <2> SUFFICES ASSUME Init PROVE LossInv
      OBVIOUS
    <2>1. Orphans = {}
      BY DEF Init, Orphans, InRun, InRunPC
    <2> QED
      BY <2>1, FS_EmptySet DEF Init, LossInv
  <1>2. HolderInv /\ LossInv => OverlapNeedsLoss
    <2> SUFFICES ASSUME HolderInv, LossInv PROVE OverlapNeedsLoss
      OBVIOUS
    <2> DEFINE Running == {r \in Runner : InRun(r)}
    <2>1. Running \subseteq Orphans \union {holder}
      BY DEF Orphans
    <2>2. IsFiniteSet(Orphans) /\ Cardinality(Orphans) \in Nat
      <3>1. IsFiniteSet(Orphans)
        BY RunnerAssumption, FS_Subset DEF Orphans
      <3> QED BY <3>1, FS_CardinalityType
    <2>3. /\ IsFiniteSet(Orphans \union {holder})
          /\ Cardinality(Orphans \union {holder}) <= Cardinality(Orphans) + 1
          /\ Cardinality(Orphans \union {holder}) \in Nat
      BY <2>2, FS_AddElement, FS_CardinalityType
    <2>4. Cardinality(Running) <= Cardinality(Orphans \union {holder}) /\ Cardinality(Running) \in Nat
      BY <2>1, <2>3, FS_Subset, FS_CardinalityType
    <2> QED
      BY <2>2, <2>3, <2>4 DEF LossInv, OverlapNeedsLoss, HolderInv, TypeOK
  <1> QED
    BY <1>1, <1>2, LossStep, HolderCorrect, PTL DEF Spec

-----------------------------------------------------------------------------
(* As long as no session was lost, a run holds the lock, so nobody else writes
   the row between its two marks. *)
ShownInv ==
    /\ \A r \in shown : pc[r] \in {"work", "finish"}
    /\ losses = 0 => /\ \A r \in Runner : InRun(r) => holder = r
                     /\ \A r \in shown : status = "running"

LEMMA ShownStep == HolderInv /\ ShownInv /\ [Next]_vars => ShownInv'
  <1> SUFFICES ASSUME HolderInv, ShownInv, [Next]_vars PROVE ShownInv'
    OBVIOUS
  <1> USE RunnerAssumption DEF HolderInv, TypeOK, InRun, InRunPC, PC, Goto, bounds, ShownInv
  <1>1. ASSUME NEW t \in Ticker, Tick(t) PROVE ShownInv'
    BY <1>1 DEF Tick, Runner
  <1>2. ASSUME NEW j \in Job, StartJob(j) PROVE ShownInv'
    BY <1>2 DEF StartJob, Runner
  <1>3. ASSUME NEW r \in Runner, TakeLock(r) PROVE ShownInv'
    BY <1>3 DEF TakeLock
  <1>4. ASSUME NEW r \in Runner, LockBusy(r) \/ LockError(r) PROVE ShownInv'
    BY <1>4 DEF LockBusy, LockError, Finish
  <1>5. ASSUME NEW r \in Runner, MarkSchedulerStarted(r) PROVE ShownInv'
    BY <1>5 DEF MarkSchedulerStarted
  <1>6. ASSUME NEW r \in Runner, Work(r) PROVE ShownInv'
    BY <1>6 DEF Work
  <1>7. ASSUME NEW r \in Runner, MarkSchedulerFinished(r) PROVE ShownInv'
    <2>1. losses = 0 => shown \subseteq {r}
      BY <1>7 DEF MarkSchedulerFinished
    <2> QED
      BY <1>7, <2>1 DEF MarkSchedulerFinished
  <1>8. ASSUME NEW r \in Runner, Release(r) PROVE ShownInv'
    BY <1>8 DEF Release, Finish
  <1>9. ASSUME NEW r \in Runner, LoseSession(r) PROVE ShownInv'
    BY <1>9 DEF LoseSession
  <1>10. CASE DropSession
    BY <1>10 DEF DropSession
  <1>11. ASSUME NEW x \in Replica, Crash(x) PROVE ShownInv'
    BY <1>11 DEF Crash
  <1>12. CASE UNCHANGED vars
    BY <1>12 DEF vars
  <1> QED
    BY <1>1, <1>2, <1>3, <1>4, <1>5, <1>6, <1>7, <1>8, <1>9, <1>10, <1>11, <1>12
    DEF Next, Advance

(* The row says running for as long as a run that marked it is at work. *)
THEOREM RunShown == Spec => []RunShowsRunning
  <1>1. Init => ShownInv
    BY DEF Init, ShownInv, InRun, InRunPC
  <1>2. ShownInv => RunShowsRunning
    BY DEF ShownInv, RunShowsRunning
  <1> QED
    BY <1>1, <1>2, ShownStep, HolderCorrect, PTL DEF Spec
=============================================================================
