----------------------------- MODULE SchedulerLock -----------------------------
(***************************************************************************)
(* One background job of catalog-service or user-asset-service (a name in  *)
(* table schedule_state) and everybody who may run it: the ticker of each  *)
(* replica and the jobs that admins start.  A run takes a session-level    *)
(* advisory lock on a connection of its own, marks the job's row started,  *)
(* works, marks the row finished and unlocks.                              *)
(*                                                                         *)
(* The lock belongs to the database session, the run to a goroutine: the   *)
(* server may drop the session while the run goes on, and keeps it for a   *)
(* while after the run or its process is gone.                             *)
(***************************************************************************)
EXTENDS Naturals, FiniteSets

CONSTANTS
    Ticker,      \* one ticker goroutine per replica
    Job,         \* admin jobs, each started at most once
    Replica,
    Home,        \* the replica a ticker or a job runs in
    MaxLosses,   \* bound on the lock sessions dropped under a run
    MaxCrashes,  \* bound on the replicas that die
    None

Runner == Ticker \union Job

ASSUME RunnerAssumption ==
    /\ Ticker \intersect Job = {}
    /\ Home \in [Runner -> Replica]
    /\ IsFiniteSet(Runner)
    /\ None \notin Runner
    /\ MaxLosses \in Nat /\ MaxCrashes \in Nat

VARIABLES
    holder,      \* whose session holds the advisory lock, or None
    zombie,      \* that session outlives its run
    status,      \* schedule_state.status
    pc,          \* where each runner stands
    outcome,     \* the error value its latest run ended with
    record,      \* status of each admin job in the memory of its replica
    losses, crashes,
    \* history, read by the properties only
    shown        \* runners whose current run has marked the row started

vars == <<holder, zombie, status, pc, outcome, record, losses, crashes, shown>>
bounds == <<losses, crashes>>

Status == {"idle", "running", "ok", "error"}
Result == {"ok", "error"}
InRunPC == {"started", "work", "finish", "release"}
PC == InRunPC \union {"idle", "acquire"}
JobStatus == {"none", "running", "completed", "failed", "skipped", "lost"}

InRun(r) == pc[r] \in InRunPC

Goto(r, l) == pc' = [pc EXCEPT ![r] = l]

(* The runner is through: a ticker waits for its next tick, an admin job keeps
   its verdict. *)
Finish(r, verdict) ==
    /\ Goto(r, "idle")
    /\ record' = IF r \in Job THEN [record EXCEPT ![r] = verdict] ELSE record

-----------------------------------------------------------------------------
Tick(t) ==
    /\ pc[t] = "idle"
    /\ Goto(t, "acquire")
    /\ UNCHANGED <<holder, zombie, status, outcome, record, bounds, shown>>

(* POST /admin/jobs/...: the job is recorded as running before it has tried
   the lock. *)
StartJob(j) ==
    /\ record[j] = "none"
    /\ record' = [record EXCEPT ![j] = "running"]
    /\ Goto(j, "acquire")
    /\ UNCHANGED <<holder, zombie, status, outcome, bounds, shown>>

-----------------------------------------------------------------------------
(* Slip: acquired is not looked at. *)
TakeLockUnchecked(r) ==
    /\ pc[r] = "acquire"
    /\ holder' = r
    /\ Goto(r, "started")
    /\ UNCHANGED <<zombie, status, outcome, record, bounds, shown>>

(* AcquireSchedulerLock: pg_try_advisory_lock does not wait. *)
TakeLock(r) ==
    /\ pc[r] = "acquire"
    /\ holder = None
    /\ holder' = r
    /\ Goto(r, "started")
    /\ UNCHANGED <<zombie, status, outcome, record, bounds, shown>>

(* Slip: a runner that finds the lock busy returns without a verdict. *)
LockBusyForgotten(r) ==
    /\ pc[r] = "acquire"
    /\ holder # None
    /\ Goto(r, "idle")
    /\ UNCHANGED <<holder, zombie, status, outcome, record, bounds, shown>>

LockBusy(r) ==
    /\ pc[r] = "acquire"
    /\ holder # None
    /\ Finish(r, "skipped")
    /\ UNCHANGED <<holder, zombie, status, outcome, bounds, shown>>

\* No connection, or the query failed.
LockError(r) ==
    /\ pc[r] = "acquire"
    /\ Finish(r, "failed")
    /\ UNCHANGED <<holder, zombie, status, outcome, bounds, shown>>

(* Slip: the run is given up when the row cannot be written, and the deferred
   unlock is registered only after that. *)
MarkStartedOrReturn(r) ==
    /\ pc[r] = "started"
    /\ \/ status' = "running" /\ shown' = shown \union {r} /\ Goto(r, "work") /\ UNCHANGED record
       \/ UNCHANGED <<status, shown>> /\ Finish(r, "failed")
    /\ UNCHANGED <<holder, zombie, outcome, bounds>>

(* MarkSchedulerStarted; its failure is logged and the run goes on. *)
MarkSchedulerStarted(r) ==
    /\ pc[r] = "started"
    /\ \/ status' = "running" /\ shown' = shown \union {r}
       \/ UNCHANGED <<status, shown>>
    /\ Goto(r, "work")
    /\ UNCHANGED <<holder, zombie, outcome, record, bounds>>

(* Slip: the lock is given back as soon as the work is done. *)
WorkAndUnlock(r) ==
    /\ pc[r] = "work"
    /\ \E res \in Result : outcome' = [outcome EXCEPT ![r] = res]
    /\ holder' = IF holder = r THEN None ELSE holder
    /\ Goto(r, "finish")
    /\ UNCHANGED <<zombie, status, record, bounds, shown>>

(* RunCycle, RunOnce or an import: ends with or without an error. *)
Work(r) ==
    /\ pc[r] = "work"
    /\ \E res \in Result : outcome' = [outcome EXCEPT ![r] = res]
    /\ Goto(r, "finish")
    /\ UNCHANGED <<holder, zombie, status, record, bounds, shown>>

(* Slip: the run ends here, its unlock forgotten. *)
MarkFinishedKeepingLock(r) ==
    /\ pc[r] = "finish"
    /\ \/ status' = outcome[r]
       \/ UNCHANGED status
    /\ shown' = shown \ {r}
    /\ Finish(r, IF outcome[r] = "ok" THEN "completed" ELSE "failed")
    /\ UNCHANGED <<holder, zombie, outcome, bounds>>

(* MarkSchedulerFinished; at shutdown its context is already cancelled, and a
   failure is logged only. *)
MarkSchedulerFinished(r) ==
    /\ pc[r] = "finish"
    /\ \/ status' = outcome[r]
       \/ UNCHANGED status
    /\ shown' = shown \ {r}
    /\ Goto(r, "release")
    /\ UNCHANGED <<holder, zombie, outcome, record, bounds>>

(* The deferred release: unlock and give the connection back.  If the unlock
   does not get through in time the connection is closed instead, and the
   server drops the session when it notices. *)
Release(r) ==
    /\ pc[r] = "release"
    /\ IF holder = r
       THEN \/ holder' = None /\ UNCHANGED zombie
            \/ zombie' = TRUE /\ UNCHANGED holder
       ELSE UNCHANGED <<holder, zombie>>
    /\ Finish(r, IF outcome[r] = "ok" THEN "completed" ELSE "failed")
    /\ UNCHANGED <<status, outcome, bounds, shown>>

-----------------------------------------------------------------------------
(* PostgreSQL drops a session whose client is gone. *)
DropSession ==
    /\ zombie
    /\ holder' = None
    /\ zombie' = FALSE
    /\ UNCHANGED <<status, pc, outcome, record, bounds, shown>>

(* The connection that holds the lock breaks under a run.  Nothing tells the
   run, whose statements use other connections of the pool. *)
LoseSession(r) ==
    /\ losses < MaxLosses
    /\ holder = r
    /\ InRun(r)
    /\ holder' = None
    /\ losses' = losses + 1
    /\ UNCHANGED <<zombie, status, pc, outcome, record, crashes, shown>>

(* A replica dies or is shut down: its goroutines end where they are, its
   admin jobs are forgotten, and it starts again with a ticker that runs at
   once. *)
Crash(x) ==
    /\ crashes < MaxCrashes
    /\ pc' = [r \in Runner |-> IF Home[r] = x THEN "idle" ELSE pc[r]]
    /\ record' = [j \in Job |-> IF Home[j] = x /\ record[j] # "none" THEN "lost" ELSE record[j]]
    /\ zombie' = (zombie \/ (holder # None /\ Home[holder] = x))
    /\ shown' = {r \in shown : Home[r] # x}
    /\ crashes' = crashes + 1
    /\ UNCHANGED <<holder, status, outcome, losses>>

Init ==
    /\ holder = None
    /\ zombie = FALSE
    /\ status = "idle"
    /\ pc = [r \in Runner |-> "idle"]
    /\ outcome = [r \in Runner |-> "ok"]
    /\ record = [j \in Job |-> "none"]
    /\ losses = 0
    /\ crashes = 0
    /\ shown = {}

\* A runner that was set going never stops by itself.
Advance(r) ==
    \/ TakeLock(r) \/ LockBusy(r) \/ LockError(r)
    \/ MarkSchedulerStarted(r) \/ Work(r) \/ MarkSchedulerFinished(r) \/ Release(r)

Next ==
    \/ \E t \in Ticker : Tick(t)
    \/ \E j \in Job : StartJob(j)
    \/ \E r \in Runner : Advance(r) \/ LoseSession(r)
    \/ DropSession
    \/ \E x \in Replica : Crash(x)

(* Goroutines are scheduled, every body of work has a deadline or ends with
   its input, and PostgreSQL does notice a client that is gone. *)
Spec ==
    /\ Init /\ [][Next]_vars
    /\ \A r \in Runner : WF_vars(Advance(r))
    /\ WF_vars(DropSession)

-----------------------------------------------------------------------------
(* Every variable has its type, and a session outlives its run only when the
   runner is not in a run. *)
TypeOK ==
    /\ holder \in Runner \union {None}
    /\ zombie \in BOOLEAN
    /\ status \in Status
    /\ pc \in [Runner -> PC]
    /\ outcome \in [Runner -> Result]
    /\ record \in [Job -> JobStatus]
    /\ losses \in Nat /\ crashes \in Nat
    /\ shown \subseteq Runner
    /\ zombie => holder # None /\ ~InRun(holder)

(* "The lock guarantees mutual exclusion regardless of state row": two runs
   overlap only if a lock session was lost under one of them, and one loss
   accounts for one run too many. *)
OverlapNeedsLoss == Cardinality({r \in Runner : InRun(r)}) <= 1 + losses

(* While a run that has marked the row started is at work, the row says so:
   the end of the run before it, or of one that was refused, does not hide it.
   A lost session voids this as it voids the exclusion. *)
RunShowsRunning == losses = 0 => \A r \in shown : status = "running"

(* The lock never stays taken: neither an error on the way nor the death of a
   replica stops the job for good. *)
LockComesFree == holder # None ~> holder = None

(* An admin who polls a started job sees it end, or learns it is unknown. *)
EveryJobEnds == \A j \in Job : record[j] = "running" ~> record[j] # "running"

(* The lock and its runners implement the abstract lease. *)
Lease == INSTANCE JobLease WITH
    run <- IF holder # None /\ ~zombie THEN holder ELSE None,
    orphans <- {r \in Runner : InRun(r) /\ holder # r}

ImplementsLease == Lease!Spec

(* What the API documents of schedule_state: a job whose row says running
   cannot be triggered, because its lock is busy. *)
RunningMeansBusy == status = "running" => holder # None

=============================================================================
