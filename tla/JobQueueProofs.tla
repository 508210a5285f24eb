--------------------------- MODULE JobQueueProofs ---------------------------
(***************************************************************************)
(* Proofs about JobQueue for every number of workers, jobs and attempts.   *)
(***************************************************************************)
EXTENDS JobQueue, TLAPS

-----------------------------------------------------------------------------
(* The parts of the inductive invariant.                                   *)

\* A worker that executes, or whose watcher runs, has a job.
HasItsJob ==
  \A w \in Workers : /\ Executing(w) => worker[w].job \in Jobs
                     /\ worker[w].watch \in {"asleep", "renewed"} => Executing(w)

\* A row under a claim's lock is still claimable, the library is still there,
\* and nobody else has locked the row.
LockedRows ==
  /\ \A w \in Workers : worker[w].pc = "claiming" =>
       /\ worker[w].job \in Jobs
       /\ Claimable(worker[w].job)
       /\ access.library = "live"
  /\ \A v, w \in Workers :
       v # w /\ worker[v].pc = "claiming" /\ worker[w].pc = "claiming"
         => worker[v].job # worker[w].job

\* While nothing stalls, whoever executes a job holds its current attempt under
\* a lease that has not lapsed, unless somebody else ended the job.
HolderIsCurrent ==
  ~ Stalls => \A w \in Workers : Executing(w) =>
    LET row == jobs[worker[w].job] IN
    \/ row.status = "running" /\ row.lease \in {"live", "old"} /\ row.attempts = worker[w].attempt
    \/ row.status \in Finished \cup {"gone"}

\* While nothing stalls, a watcher that polled has renewed the lease.
PollRenews ==
  ~ Stalls => \A w \in Workers :
    /\ Executing(w) /\ worker[w].watch = "renewed"
    /\ jobs[worker[w].job].status = "running"
    => jobs[worker[w].job].lease = "live"

IInv ==
  /\ TypeOK
  /\ HasItsJob
  /\ LockedRows
  /\ ClaimsAreExclusive
  /\ FailedHonestly
  /\ DeletedIsQuiet
  /\ HolderIsCurrent
  /\ PollRenews
  /\ RunsAlone

-----------------------------------------------------------------------------
(* What one step may do to a row, and to a worker.  Every action is one of *)
(* these kinds, and the invariants follow from the kinds.                  *)

Holds(w, j) == Executing(w) /\ worker[w].job = j /\ worker[w].attempt = jobs[j].attempts

Enters(j) ==
  /\ jobs[j].status \in {"none", "inserting"} /\ jobs'[j].status \in {"inserting", "queued"}
  /\ jobs'[j].attempts = jobs[j].attempts

\* A claim; the row was locked by the worker that commits it.
Taken(j) ==
  /\ Claimable(j)
  /\ \E w \in Workers : worker[w].pc = "claiming" /\ worker[w].job = j
  /\ jobs'[j].status = "running" /\ jobs'[j].lease = "live"
  /\ jobs'[j].attempts = jobs[j].attempts + 1

\* The lease or the cancel request changes.
Touched(j) ==
  /\ jobs[j].status = "running" /\ jobs'[j].status = "running"
  /\ jobs'[j].attempts = jobs[j].attempts
  /\ \/ jobs'[j].lease \in {jobs[j].lease, "live"}
     \/ jobs'[j].lease = "old" /\ \E w \in Workers : Holds(w, j) /\ worker[w].watch = "asleep"
     \/ ~ Stalls => ~ HolderAlive(j)

Ended(j) ==
  /\ jobs[j].status \in Active /\ jobs'[j].status \in Finished
  /\ jobs'[j].attempts = jobs[j].attempts
  /\ jobs'[j].status = "failed" => jobs'[j].permanent \/ jobs[j].attempts = MaxAttempts
  /\ jobs'[j].status = "done" =>
       \E w \in Workers : Holds(w, j) /\ worker'[w] # worker[w]

PutBack(j) ==
  /\ jobs[j].status = "running" /\ jobs'[j].status = "queued"
  /\ jobs'[j].attempts = jobs[j].attempts
  /\ \E w \in Workers : Holds(w, j) /\ worker'[w].pc = "idle"

Purged(j) == jobs'[j].status = "gone" /\ jobs'[j].attempts = 0

RowStep(j) ==
  \/ jobs'[j] = jobs[j]
  \/ Enters(j) \/ Taken(j) \/ Touched(j) \/ Ended(j) \/ PutBack(j) \/ Purged(j)

\* The worker has nothing to do with a job after the step.
Free(w) == worker'[w].pc \in {"idle", "serving", "swept", "down"} /\ worker'[w].watch = "off"

Locks(w) ==
  /\ worker'[w].pc = "claiming" /\ worker'[w].watch = "off"
  /\ worker'[w].job \in Candidates
  /\ \A v \in Workers \ {w} : worker'[v] = worker[v]
  /\ UNCHANGED <<jobs, access>>

Commits(w) ==
  /\ worker[w].pc = "claiming"
  /\ worker'[w].pc = "claimed" /\ worker'[w].watch = "off"
  /\ worker'[w].job = worker[w].job
  /\ worker'[w].attempt = jobs[worker[w].job].attempts + 1
  /\ Taken(worker[w].job)
  /\ \A v \in Workers \ {w} : worker'[v] = worker[v]

Works(w) ==
  /\ Executing(w) /\ Executing(w)'
  /\ worker'[w].job = worker[w].job /\ worker'[w].attempt = worker[w].attempt
  /\ worker'[w].watch = "renewed" =>
       \/ worker[w].watch = "renewed"
       \/ ~ Stalls => jobs'[worker[w].job].lease = "live"

WorkerStep(w) ==
  worker'[w] = worker[w] \/ Free(w) \/ Locks(w) \/ Commits(w) \/ Works(w)

\* Nobody else changes a row while it is locked, or deletes its library.
LocksRespected ==
  \A w \in Workers : worker[w].pc = "claiming" /\ worker'[w] = worker[w] =>
    /\ jobs'[worker[w].job] = jobs[worker[w].job]
    /\ access'.library = "live"

StepKind ==
  /\ \A j \in Jobs : RowStep(j)
  /\ \A w \in Workers : WorkerStep(w)
  /\ LocksRespected
  /\ access.library = "live" /\ access'.library # "live"
       => \A j \in Jobs : jobs'[j].status # "running"

-----------------------------------------------------------------------------
(* Type correctness. *)

\* The worker a step moves keeps its type when the state it moves to has it.
LEMMA MovesType ==
  ASSUME TypeOK, NEW w \in Workers, NEW state \in WorkerState, Moves(w, state)
  PROVE  worker' \in [Workers -> WorkerState]
BY DEF TypeOK, Moves

\* A worker without a job is well typed at each place it can be.
LEMMA AtType ==
  ASSUME NEW pc \in {"idle", "serving", "swept", "claiming", "claimed", "down"}
  PROVE  At(pc) \in WorkerState
BY AttemptsAssumption DEF At, WorkerState, Results, NoJob

\* Replacing one row by a well-typed row keeps the table well typed.
LEMMA RowType ==
  ASSUME TypeOK, NEW j \in Jobs, NEW row \in JobRow, jobs' = [jobs EXCEPT ![j] = row]
  PROVE  jobs' \in [Jobs -> JobRow]
BY DEF TypeOK

\* The initial state is well typed.
LEMMA InitType == Init => TypeOK
<1> SUFFICES ASSUME Init PROVE TypeOK
  OBVIOUS
<1>1. jobs \in [Jobs -> JobRow]
  BY AttemptsAssumption DEF Init, Unqueued, JobRow, Active, Finished
<1>2. worker \in [Workers -> WorkerState]
  BY AtType DEF Init
<1>3. cancel \in [Jobs -> CancelCall] /\ access \in Access
  BY DEF Init, CancelCall, Access
<1>4. spent \in Spent
  BY BoundsAssumption DEF Init, Spent
<1> QED
  BY <1>1, <1>2, <1>3, <1>4 DEF TypeOK

\* The people, and time.
LEMMA PeopleType ==
  ASSUME TypeOK,
         \/ \E j \in Jobs : Enqueue(j) \/ EnqueueCommit(j) \/ ReadForCancel(j)
                            \/ RequestCancel(j) \/ LeaseAges(j) \/ LeaseRunsOut(j) \/ LeaseOutlived(j)
         \/ RevokeGrant \/ GrantAgain \/ DeleteLibrary \/ RestoreLibrary \/ GraceEnds
  PROVE  TypeOK'
<1> USE DEF TypeOK, JobRow, Active, Finished
<1>1. ASSUME NEW j \in Jobs, Enqueue(j) \/ EnqueueCommit(j) PROVE TypeOK'
  BY <1>1 DEF Enqueue, EnqueueCommit
<1>2. ASSUME NEW j \in Jobs, ReadForCancel(j) PROVE TypeOK'
  <2>1. cancel' \in [Jobs -> CancelCall]
    BY <1>2 DEF ReadForCancel, CancelCall
  <2>2. spent' \in Spent
    BY <1>2, BoundsAssumption DEF ReadForCancel, Spent
  <2> QED
    BY <1>2, <2>1, <2>2 DEF ReadForCancel
<1>3. ASSUME NEW j \in Jobs, RequestCancel(j) PROVE TypeOK'
  <2>1. Cancelled(jobs[j]) \in JobRow
    BY DEF Cancelled
  <2>2. jobs' \in [Jobs -> JobRow]
    BY <1>3, <2>1 DEF RequestCancel
  <2>3. cancel' \in [Jobs -> CancelCall]
    BY <1>3 DEF RequestCancel, CancelCall
  <2> QED
    BY <1>3, <2>2, <2>3 DEF RequestCancel
<1>4. ASSUME NEW j \in Jobs, LeaseLapse(j) \/ LeaseAges(j) PROVE TypeOK'
  BY <1>4 DEF LeaseLapse, LeaseAges
<1>5. ASSUME RevokeGrant PROVE TypeOK'
  <2>1. spent' \in Spent
    BY <1>5, BoundsAssumption DEF RevokeGrant, Change, Spent
  <2> QED
    BY <1>5, <2>1 DEF RevokeGrant, Access
<1>6. ASSUME DeleteLibrary PROVE TypeOK'
  <2>0. spent.changes < MaxChanges /\ spent' = Change
    BY <1>6 DEF DeleteLibrary
  <2>1. spent' \in Spent
    BY <2>0, BoundsAssumption DEF Change, Spent
  <2>2. access' \in Access
    BY <1>6 DEF DeleteLibrary, Access
  <2>3. \A j \in Jobs : jobs'[j] \in JobRow
    BY <1>6 DEF DeleteLibrary
  <2>4. jobs' \in [Jobs -> JobRow]
    BY <1>6, <2>3 DEF DeleteLibrary
  <2> QED
    BY <1>6, <2>1, <2>2, <2>4 DEF DeleteLibrary
<1>7. ASSUME GrantAgain \/ RestoreLibrary \/ GraceEnds PROVE TypeOK'
  BY <1>7 DEF GrantAgain, RestoreLibrary, GraceEnds, Access
<1> QED
  BY <1>1, <1>2, <1>3, <1>4, <1>5, <1>6, <1>7 DEF LeaseAges, LeaseRunsOut, LeaseOutlived

\* A worker between jobs.
LEMMA SeekingType ==
  ASSUME TypeOK, NEW w \in Workers,
         \/ Round(w) \/ ServePinned(w) \/ Sweep(w) \/ ClaimLock(w) \/ ClaimNone(w)
         \/ Crash(w) \/ Restart(w)
  PROVE  TypeOK'
<1>1. CASE Round(w)
  <2>1. PICK pc \in {"idle", "serving"} : Moves(w, At(pc))
    BY <1>1 DEF Round
  <2>2. worker' \in [Workers -> WorkerState]
    BY <2>1, AtType, MovesType
  <2>3. access' \in Access
    BY <1>1 DEF Round, Access, TypeOK
  <2>4. jobs' \in [Jobs -> JobRow]
    <3>1. [Unqueued EXCEPT !.status = "gone"] \in JobRow
      <4>1. Unqueued \in JobRow
        BY AttemptsAssumption DEF Unqueued, JobRow, Active, Finished
      <4> QED
        BY <4>1 DEF JobRow
    <3>2. ASSUME NEW j \in Jobs
          PROVE  [jobs[j] EXCEPT !.status = "failed", !.permanent = TRUE, !.lease = "none"]
                   \in JobRow
      BY DEF TypeOK, JobRow, Finished
    <3>3. \A j \in Jobs : jobs'[j] \in JobRow
      BY <1>1, <3>1, <3>2 DEF Round, TypeOK
    <3> QED
      BY <1>1, <3>3 DEF Round
  <2> QED
    BY <1>1, <2>2, <2>3, <2>4 DEF Round, TypeOK
<1>2. CASE ServePinned(w) \/ ClaimNone(w) \/ Restart(w)
  <2>1. PICK pc \in {"idle", "serving"} : Moves(w, At(pc))
    BY <1>2 DEF ServePinned, ClaimNone, Restart
  <2> QED
    BY <1>2, <2>1, AtType, MovesType DEF ServePinned, ClaimNone, Restart, TypeOK
<1>3. CASE Sweep(w)
  <2>1. worker' \in [Workers -> WorkerState]
    BY <1>3, AtType, MovesType DEF Sweep
  <2>2. jobs' \in [Jobs -> JobRow]
    BY <1>3 DEF Sweep, TypeOK, JobRow, Active, Finished
  <2> QED
    BY <1>3, <2>1, <2>2 DEF Sweep, TypeOK
<1>4. CASE ClaimLock(w)
  <2>1. PICK j \in Jobs : Moves(w, [At("claiming") EXCEPT !.job = j])
    BY <1>4 DEF ClaimLock, Candidates
  <2>2. [At("claiming") EXCEPT !.job = j] \in WorkerState
    BY AtType DEF WorkerState
  <2> QED
    BY <1>4, <2>1, <2>2, MovesType DEF ClaimLock, TypeOK
<1>5. CASE Crash(w)
  <2>1. spent' \in Spent
    BY <1>5, BoundsAssumption DEF Crash, Spent, TypeOK
  <2> QED
    BY <1>5, <2>1, AtType, MovesType DEF Crash, TypeOK
<1> QED
  BY <1>1, <1>2, <1>3, <1>4, <1>5

\* A worker with a job.
LEMMA WorkingType ==
  ASSUME TypeOK, HasItsJob, LockedRows, NEW w \in Workers,
         \/ ClaimCommit(w) \/ OpenSource(w)
         \/ \E err \in {"transient", "permanent"} : SourceError(w, err)
         \/ Settle(w) \/ Watch(w) \/ Progress(w) \/ IngestEnds(w)
  PROVE  TypeOK'
<1> DEFINE j == worker[w].job
<1>1. CASE ClaimCommit(w)
  <2>1. j \in Jobs /\ jobs[j].attempts + 1 \in 0 .. MaxAttempts
    BY <1>1, AttemptsAssumption DEF ClaimCommit, LockedRows, Claimable, TypeOK, JobRow
  <2>2. Claimed(jobs[j]) \in JobRow
    BY <2>1 DEF TypeOK, JobRow, Active, Claimed
  <2>3. jobs' \in [Jobs -> JobRow]
    BY <1>1, <2>1, <2>2, RowType DEF ClaimCommit
  <2>4. [At("claimed") EXCEPT !.job = j, !.attempt = jobs[j].attempts + 1] \in WorkerState
    BY <2>1, AtType DEF WorkerState
  <2>5. worker' \in [Workers -> WorkerState]
    BY <1>1, <2>4, MovesType DEF ClaimCommit
  <2> QED
    BY <1>1, <2>3, <2>5 DEF ClaimCommit, TypeOK
<1>2. CASE OpenSource(w) \/ \E err \in {"transient", "permanent"} : SourceError(w, err)
  <2>1. PICK state \in WorkerState : Moves(w, state)
    BY <1>2 DEF OpenSource, SourceError, TypeOK, WorkerState, Results, IngestErrs
  <2> QED
    BY <1>2, <2>1, MovesType DEF OpenSource, SourceError, TypeOK
<1>3. CASE Settle(w)
  <2>1. j \in Jobs /\ jobs[j] \in JobRow
    BY <1>3 DEF Settle, HasItsJob, Executing, TypeOK
  <2>2. Settled(jobs[j], Verdict(w)) \in JobRow
    BY <2>1 DEF Settled, Completed, JobRow, Active, Finished
  <2>3. jobs' \in [Jobs -> JobRow]
    <3>1. CASE jobs' = [jobs EXCEPT ![j] = Settled(@, Verdict(w))]
      BY <2>1, <2>2, <3>1, RowType
    <3>2. CASE UNCHANGED jobs
      BY <3>2 DEF TypeOK
    <3> QED
      BY <1>3, <3>1, <3>2 DEF Settle
  <2>4. PICK pc \in {"idle", "down"} : Moves(w, At(pc))
    BY <1>3 DEF Settle
  <2>5. worker' \in [Workers -> WorkerState]
    BY <2>4, AtType, MovesType
  <2> QED
    BY <1>3, <2>3, <2>5 DEF Settle, TypeOK
<1>4. CASE WatchRenew(w) \/ Progress(w)
  <2>1. j \in Jobs
    BY <1>4 DEF WatchRenew, Progress, HasItsJob, Executing
  <2>2. jobs' \in [Jobs -> JobRow]
    BY <1>4, <2>1 DEF WatchRenew, Progress, TypeOK, JobRow
  <2>3. worker' \in [Workers -> WorkerState]
    <3>1. /\ [worker[w] EXCEPT !.watch = "renewed"] \in WorkerState
          /\ [worker[w] EXCEPT !.watch = "over", !.watched = "lost"] \in WorkerState
      BY DEF TypeOK, WorkerState
    <3> QED
      BY <1>4, <3>1, MovesType DEF WatchRenew, Progress, TypeOK
  <2> QED
    BY <1>4, <2>2, <2>3 DEF WatchRenew, Progress, TypeOK
<1>5. CASE WatchRead(w) \/ WatchStop(w)
  <2>1. \A watch \in {"over", "asleep"}, watched \in {"cancelled", worker[w].watched} :
          [worker[w] EXCEPT !.watched = watched, !.watch = watch] \in WorkerState
    BY DEF TypeOK, WorkerState
  <2>2. [worker[w] EXCEPT !.watch = "over"] \in WorkerState
    BY DEF TypeOK, WorkerState
  <2>3. worker' \in [Workers -> WorkerState]
    BY <1>5, <2>1, <2>2, MovesType DEF WatchRead, WatchStop
  <2> QED
    BY <1>5, <2>3 DEF WatchRead, WatchStop, TypeOK
<1>6. CASE Publish(w) \/ PublishUnacked(w)
  <2>1. j \in Jobs /\ jobs[j] \in JobRow
    BY <1>6 DEF Publish, PublishUnacked, HasItsJob, Executing, TypeOK
  <2>2. Completed(jobs[j]) \in JobRow
    BY <2>1 DEF Completed, JobRow, Finished
  <2>3. jobs' \in [Jobs -> JobRow]
    BY <1>6, <2>1, <2>2, RowType DEF Publish, PublishUnacked
  <2>4. /\ [worker[w] EXCEPT !.pc = "returned", !.err = "published"] \in WorkerState
        /\ [worker[w] EXCEPT !.pc = "unwinding", !.err = "transient"] \in WorkerState
    BY DEF TypeOK, WorkerState, Results, IngestErrs
  <2>5. spent' \in Spent
    BY <1>6, BoundsAssumption DEF Publish, PublishUnacked, TypeOK, Spent
  <2> QED
    BY <1>6, <2>3, <2>4, <2>5, MovesType DEF Publish, PublishUnacked, TypeOK
<1>7. CASE Unchanged(w) \/ (\E err \in IngestErrs : IngestFails(w, err)) \/ Unwind(w)
  <2>1. PICK state \in WorkerState : Moves(w, state)
    BY <1>7 DEF Unchanged, IngestFails, Unwind, TypeOK, WorkerState, Results
  <2> QED
    BY <1>7, <2>1, MovesType DEF Unchanged, IngestFails, Unwind, TypeOK
<1> QED
  BY <1>1, <1>2, <1>3, <1>4, <1>5, <1>6, <1>7 DEF Watch, IngestEnds

-----------------------------------------------------------------------------
(* Every action is of a kind. *)

\* The requester, the administrators and time move no worker.
LEMMA PeopleKind ==
  ASSUME IInv,
         \/ \E j \in Jobs : Enqueue(j) \/ EnqueueCommit(j) \/ ReadForCancel(j)
                            \/ RequestCancel(j) \/ LeaseAges(j) \/ LeaseRunsOut(j) \/ LeaseOutlived(j)
         \/ RevokeGrant \/ GrantAgain \/ DeleteLibrary \/ RestoreLibrary \/ GraceEnds
  PROVE  StepKind
<1> USE DEF IInv, TypeOK
<1>1. ASSUME NEW j \in Jobs, Enqueue(j) \/ EnqueueCommit(j) PROVE StepKind
  <2>1. \A i \in Jobs : RowStep(i)
    BY <1>1 DEF Enqueue, EnqueueCommit, RowStep, Enters, JobRow
  <2>2. LocksRespected
    BY <1>1 DEF Enqueue, EnqueueCommit, LocksRespected, LockedRows, Claimable, Lapsed
  <2> QED
    BY <1>1, <2>1, <2>2 DEF Enqueue, EnqueueCommit, StepKind, WorkerStep
<1>2. ASSUME NEW j \in Jobs, ReadForCancel(j) PROVE StepKind
  BY <1>2 DEF ReadForCancel, StepKind, RowStep, WorkerStep, LocksRespected, LockedRows
<1>3. ASSUME NEW j \in Jobs, RequestCancel(j) PROVE StepKind
  <2>1. RowStep(j)
    BY <1>3 DEF RequestCancel, Cancelled, RowStep, Ended, Touched, JobRow, Active, Finished
  <2>2. \A i \in Jobs \ {j} : RowStep(i)
    BY <1>3 DEF RequestCancel, RowStep
  <2>3. LocksRespected
    BY <1>3 DEF RequestCancel, LocksRespected, LockedRows, Unlocked
  <2> QED
    BY <1>3, <2>1, <2>2, <2>3 DEF RequestCancel, StepKind, WorkerStep
<1>4. ASSUME NEW j \in Jobs, LeaseAges(j) \/ LeaseRunsOut(j) \/ LeaseOutlived(j) PROVE StepKind
  <2>0. ~ Stalls => ~ Overdue(j) \/ jobs[j].status # "running"
    BY DEF Overdue, Holders, PollRenews
  <2>1. \A i \in Jobs : RowStep(i)
    <3>1. CASE LeaseAges(j)
      BY <3>1 DEF LeaseAges, Holders, Holds, RowStep, Touched, JobRow
    <3>2. CASE LeaseRunsOut(j) \/ LeaseOutlived(j)
      BY <2>0, <3>2 DEF LeaseRunsOut, LeaseOutlived, LeaseLapse, RowStep, Touched, JobRow
    <3> QED
      BY <1>4, <3>1, <3>2
  <2>2. LocksRespected
    BY <1>4 DEF LeaseAges, LeaseRunsOut, LeaseOutlived, LeaseLapse, LocksRespected, LockedRows,
                Claimable, Lapsed
  <2> QED
    BY <1>4, <2>1, <2>2 DEF LeaseAges, LeaseRunsOut, LeaseOutlived, LeaseLapse, StepKind, WorkerStep
<1>5. ASSUME RevokeGrant \/ GrantAgain \/ RestoreLibrary \/ GraceEnds PROVE StepKind
  <2>1. jobs' = jobs /\ worker' = worker
    BY <1>5 DEF RevokeGrant, GrantAgain, RestoreLibrary, GraceEnds
  <2>2. access.library = "live" => access'.library = "live"
    BY <1>5 DEF RevokeGrant, GrantAgain, RestoreLibrary, GraceEnds, Access
  <2> QED
    BY <2>1, <2>2 DEF StepKind, RowStep, WorkerStep, LocksRespected, LockedRows
<1>6. ASSUME DeleteLibrary PROVE StepKind
  <2>1. \A i \in Jobs : RowStep(i) /\ jobs'[i].status # "running"
    BY <1>6 DEF DeleteLibrary, RowStep, Ended, JobRow, Active, Finished
  <2>2. LocksRespected
    BY <1>6 DEF DeleteLibrary, LocksRespected, LockedRows, Unlocked, Claimable, Lapsed, Active
  <2> QED
    BY <1>6, <2>1, <2>2 DEF DeleteLibrary, StepKind, WorkerStep
<1> QED
  BY <1>1, <1>2, <1>3, <1>4, <1>5, <1>6

\* The worker a step moves is the only one whose state changes.
LEMMA MovesOne ==
  ASSUME TypeOK, NEW w \in Workers, NEW state, Moves(w, state)
  PROVE  worker'[w] = state /\ \A v \in Workers \ {w} : worker'[v] = worker[v]
BY DEF TypeOK, Moves

\* A worker between jobs: it ends the jobs nobody will finish, or takes a lock.
LEMMA SeekingKind ==
  ASSUME IInv, NEW w \in Workers,
         \/ Round(w) \/ ServePinned(w) \/ Sweep(w) \/ ClaimLock(w) \/ ClaimNone(w)
         \/ Crash(w) \/ Restart(w)
  PROVE  StepKind
<1> USE DEF IInv
<1>1. CASE Round(w)
  <2>1. PICK pc \in {"idle", "serving"} : Moves(w, At(pc))
    BY <1>1 DEF Round
  <2>2. \A v \in Workers : WorkerStep(v)
    BY <2>1, MovesOne DEF At, Free, WorkerStep
  <2>3. \A j \in Jobs : RowStep(j)
    <3> SUFFICES ASSUME NEW j \in Jobs PROVE RowStep(j)
      OBVIOUS
    <3>1. CASE access'.library = "purged" /\ jobs[j].status # "none"
      <4>1. jobs'[j] = [Unqueued EXCEPT !.status = "gone"]
        BY <1>1, <3>1 DEF Round
      <4> QED
        BY <4>1 DEF Unqueued, RowStep, Purged
    <3>2. CASE access'.library # "purged" /\ Unclaimable(j)
      <4>1. jobs'[j] = [jobs[j] EXCEPT !.status = "failed", !.permanent = TRUE, !.lease = "none"]
        BY <1>1, <3>2 DEF Round
      <4> QED
        BY <3>2, <4>1 DEF RowStep, Ended, Unclaimable, Lapsed, TypeOK, JobRow, Active, Finished
    <3>3. CASE /\ ~ (access'.library = "purged" /\ jobs[j].status # "none")
               /\ ~ (access'.library # "purged" /\ Unclaimable(j))
      BY <1>1, <3>3 DEF Round, RowStep
    <3> QED
      BY <3>1, <3>2, <3>3
  <2>4. access.library = "live" => access'.library = "live"
    BY <1>1 DEF Round, TypeOK, Access
  <2>5. LocksRespected
    <3> SUFFICES ASSUME NEW v \in Workers, worker[v].pc = "claiming"
                 PROVE  /\ jobs'[worker[v].job] = jobs[worker[v].job]
                        /\ access'.library = "live"
      BY DEF LocksRespected
    <3>1. worker[v].job \in Jobs /\ access'.library = "live"
      BY <2>4 DEF LockedRows
    <3>2. ~ Unclaimable(worker[v].job)
      BY <1>1, <3>1 DEF Round, Unlocked
    <3> QED
      BY <1>1, <3>1, <3>2 DEF Round
  <2> QED
    BY <2>2, <2>3, <2>4, <2>5 DEF StepKind
<1>2. CASE ServePinned(w) \/ ClaimNone(w) \/ Crash(w) \/ Restart(w)
  <2>1. PICK pc \in {"idle", "serving", "down"} : Moves(w, At(pc))
    BY <1>2 DEF ServePinned, ClaimNone, Crash, Restart
  <2>2. \A v \in Workers : WorkerStep(v)
    BY <2>1, MovesOne DEF At, Free, WorkerStep
  <2>3. jobs' = jobs /\ access' = access
    BY <1>2 DEF ServePinned, ClaimNone, Crash, Restart
  <2> QED
    BY <2>2, <2>3 DEF StepKind, RowStep, LocksRespected, LockedRows
<1>3. CASE Sweep(w)
  <2>1. Moves(w, At("swept"))
    BY <1>3 DEF Sweep
  <2>2. \A v \in Workers : WorkerStep(v)
    BY <2>1, MovesOne DEF At, Free, WorkerStep
  <2>3. \A j \in Jobs : RowStep(j)
    <3> SUFFICES ASSUME NEW j \in Jobs PROVE RowStep(j)
      OBVIOUS
    <3>1. CASE Visible /\ Stranded(j)
      <4>1. jobs'[j] = [jobs[j] EXCEPT
                          !.status = IF jobs[j].cancelReq THEN "cancelled" ELSE "failed",
                          !.lease = "none"]
        BY <1>3, <3>1 DEF Sweep
      <4>2. /\ jobs'[j].status = IF jobs[j].cancelReq THEN "cancelled" ELSE "failed"
            /\ jobs'[j].attempts = jobs[j].attempts
        BY <4>1 DEF TypeOK, JobRow
      <4>3. jobs[j].status = "running"
        BY <3>1 DEF Stranded, Lapsed
      <4>4. ~ jobs[j].cancelReq => jobs[j].attempts = MaxAttempts
        <5>1. jobs[j].attempts \in 0 .. MaxAttempts
          BY DEF TypeOK, JobRow
        <5> QED
          BY <3>1, <5>1, AttemptsAssumption DEF Stranded
      <4> QED
        BY <4>2, <4>3, <4>4 DEF RowStep, Ended, Active, Finished
    <3>2. CASE ~ (Visible /\ Stranded(j))
      BY <1>3, <3>2 DEF Sweep, RowStep
    <3> QED
      BY <3>1, <3>2
  <2>4. LocksRespected
    <3> SUFFICES ASSUME NEW v \in Workers, worker[v].pc = "claiming"
                 PROVE  jobs'[worker[v].job] = jobs[worker[v].job]
      BY <1>3 DEF LocksRespected, LockedRows, Sweep
    <3>1. worker[v].job \in Jobs /\ Claimable(worker[v].job)
      BY DEF LockedRows
    <3>2. ~ Stranded(worker[v].job)
      BY <3>1, AttemptsAssumption DEF Claimable, Stranded, TypeOK, JobRow
    <3> QED
      BY <1>3, <3>1, <3>2 DEF Sweep
  <2> QED
    BY <1>3, <2>2, <2>3, <2>4 DEF Sweep, StepKind
<1>4. CASE ClaimLock(w)
  <2>1. PICK j \in Candidates : Moves(w, [At("claiming") EXCEPT !.job = j])
    BY <1>4 DEF ClaimLock
  <2>2. jobs' = jobs /\ access' = access
    BY <1>4 DEF ClaimLock
  <2>3. Locks(w)
    BY <2>1, <2>2, MovesOne DEF At, Locks
  <2>4. \A v \in Workers : WorkerStep(v)
    BY <2>3 DEF Locks, WorkerStep
  <2> QED
    BY <2>2, <2>4 DEF StepKind, RowStep, LocksRespected, LockedRows
<1> QED
  BY <1>1, <1>2, <1>3, <1>4

\* A worker with a job changes its own row only, and only through the fence.
LEMMA WorkingKind ==
  ASSUME IInv, NEW w \in Workers,
         \/ ClaimCommit(w) \/ OpenSource(w)
         \/ \E err \in {"transient", "permanent"} : SourceError(w, err)
         \/ Settle(w) \/ Watch(w) \/ Progress(w) \/ IngestEnds(w)
  PROVE  StepKind
<1> USE DEF IInv
<1> DEFINE j == worker[w].job
<1>0. ASSUME NEW row, j \in Jobs, jobs' = [jobs EXCEPT ![j] = row], access' = access,
             RowStep(j), \A v \in Workers : WorkerStep(v),
             worker'[w] = worker[w] => worker[w].pc # "claiming",
             \A v \in Workers \ {w} : worker[v].pc = "claiming" => worker[v].job # j
      PROVE  StepKind
  <2>1. \A i \in Jobs \ {j} : jobs'[i] = jobs[i]
    BY <1>0 DEF TypeOK
  <2>2. LocksRespected
    BY <1>0, <2>1 DEF LocksRespected, LockedRows
  <2>3. \A i \in Jobs : RowStep(i)
    BY <1>0, <2>1 DEF RowStep
  <2> QED
    BY <1>0, <2>2, <2>3 DEF StepKind
<1>00. ASSUME jobs' = jobs, access' = access, \A v \in Workers : WorkerStep(v) PROVE StepKind
  BY <1>00 DEF StepKind, RowStep, LocksRespected, LockedRows
<1>1. CASE ClaimCommit(w)
  <2>1. j \in Jobs /\ Claimable(j) /\ worker[w].pc = "claiming"
    BY <1>1 DEF ClaimCommit, LockedRows
  <2>2. jobs' = [jobs EXCEPT ![j] = Claimed(jobs[j])] /\ access' = access
    BY <1>1 DEF ClaimCommit
  <2>3. Taken(j)
    BY <2>1, <2>2 DEF Taken, Claimed, TypeOK, JobRow
  <2>4. /\ worker'[w] = [At("claimed") EXCEPT !.job = j, !.attempt = jobs[j].attempts + 1]
        /\ \A v \in Workers \ {w} : worker'[v] = worker[v]
    BY <1>1, MovesOne DEF ClaimCommit
  <2>5. Commits(w)
    BY <2>1, <2>3, <2>4 DEF Commits, At
  <2>6. \A v \in Workers : WorkerStep(v)
    BY <2>4, <2>5 DEF WorkerStep
  <2>7. worker'[w].pc = "claimed"
    BY <2>5 DEF Commits
  <2> QED
    BY <1>0, <2>1, <2>2, <2>3, <2>6, <2>7 DEF RowStep, LockedRows
<1>2. ASSUME NEW state, Moves(w, state), Executing(w),
             state.pc \in {"claimed", "running", "unwinding", "returned"},
             state.job = worker[w].job, state.attempt = worker[w].attempt,
             state.watch = "renewed" => \/ worker[w].watch = "renewed"
                                        \/ ~ Stalls => jobs'[j].lease = "live"
      PROVE  \A v \in Workers : WorkerStep(v)
  <2>1. Works(w)
    BY <1>2, MovesOne DEF Works, Executing
  <2> QED
    BY <1>2, <2>1, MovesOne DEF WorkerStep
<1>3. CASE \/ OpenSource(w) \/ \E err \in {"transient", "permanent"} : SourceError(w, err)
           \/ Unchanged(w) \/ (\E err \in IngestErrs : IngestFails(w, err)) \/ Unwind(w)
  <2>1. jobs' = jobs /\ access' = access /\ Executing(w)
    BY <1>3 DEF OpenSource, SourceError, Unchanged, IngestFails, Unwind, Executing
  <2>2. worker[w] \in WorkerState
    BY DEF TypeOK
  <2>3. ASSUME OpenSource(w) PROVE \A v \in Workers : WorkerStep(v)
    BY <1>2, <2>1, <2>2, <2>3 DEF OpenSource, WorkerState
  <2>4. ASSUME NEW err, SourceError(w, err) PROVE \A v \in Workers : WorkerStep(v)
    BY <1>2, <2>1, <2>2, <2>4 DEF SourceError, WorkerState
  <2>5. ASSUME Unchanged(w) PROVE \A v \in Workers : WorkerStep(v)
    BY <1>2, <2>1, <2>2, <2>5 DEF Unchanged, WorkerState
  <2>6. ASSUME NEW err, IngestFails(w, err) PROVE \A v \in Workers : WorkerStep(v)
    BY <1>2, <2>1, <2>2, <2>6 DEF IngestFails, WorkerState
  <2>7. ASSUME Unwind(w) PROVE \A v \in Workers : WorkerStep(v)
    BY <1>2, <2>1, <2>2, <2>7 DEF Unwind, WorkerState
  <2> QED
    BY <1>00, <1>3, <2>1, <2>3, <2>4, <2>5, <2>6, <2>7
<1>4. CASE WatchRead(w) \/ WatchStop(w)
  <2>1. PICK watch \in {"asleep", "over"}, watched \in {"cancelled", worker[w].watched} :
          Moves(w, [worker[w] EXCEPT !.watched = watched, !.watch = watch])
    BY <1>4 DEF WatchRead, WatchStop, TypeOK, WorkerState
  <2>2. jobs' = jobs /\ access' = access /\ Executing(w)
    BY <1>4 DEF WatchRead, WatchStop, HasItsJob
  <2>3. \A v \in Workers : WorkerStep(v)
    BY <1>2, <2>1, <2>2 DEF TypeOK, WorkerState, Executing
  <2> QED
    BY <1>00, <2>2, <2>3
<1>5. CASE WatchRenew(w) \/ Progress(w)
  <2>1. Executing(w) /\ j \in Jobs /\ Unlocked(j) /\ access' = access
    BY <1>5 DEF WatchRenew, Progress, HasItsJob, Executing
  <2>2. \A v \in Workers : WorkerStep(v)
    <3>1. CASE Progress(w)
      BY <3>1 DEF Progress, WorkerStep
    <3>2. CASE WatchRenew(w)
      <4>0. worker[w] \in WorkerState
        BY DEF TypeOK
      <4>1. CASE Moves(w, [worker[w] EXCEPT !.watch = "over", !.watched = "lost"])
        BY <1>2, <2>1, <4>0, <4>1 DEF WorkerState, Executing
      <4>2. CASE /\ Moves(w, [worker[w] EXCEPT !.watch = "renewed"])
                 /\ Stalls \/ jobs' = [jobs EXCEPT ![j].lease = "live"]
        <5>1. ~ Stalls => jobs'[j].lease = "live"
          BY <2>1, <4>2 DEF TypeOK, JobRow
        <5> QED
          BY <1>2, <2>1, <4>0, <4>2, <5>1 DEF WorkerState, Executing
      <4> QED
        BY <3>2, <4>1, <4>2, Zenon DEF WatchRenew
    <3> QED
      BY <1>5, <3>1, <3>2
  <2>3. CASE jobs' = jobs
    BY <1>00, <2>1, <2>2, <2>3
  <2>4. CASE Fenced(w) /\ jobs' = [jobs EXCEPT ![j].lease = "live"]
    <3>1. RowStep(j)
      BY <2>1, <2>4 DEF RowStep, Touched, Fenced, TypeOK, JobRow
    <3> QED
      BY <1>0, <2>1, <2>2, <2>4, <3>1 DEF Unlocked, Executing
  <2> QED
    BY <1>5, <2>3, <2>4 DEF WatchRenew, Progress
<1>6. CASE Publish(w) \/ PublishUnacked(w)
  <2>1. Executing(w) /\ j \in Jobs /\ Unlocked(j) /\ Fenced(w) /\ access' = access
    BY <1>6 DEF Publish, PublishUnacked, HasItsJob, Executing
  <2>2. PICK pc \in {"unwinding", "returned"}, err \in {"published", "transient"} :
          Moves(w, [worker[w] EXCEPT !.pc = pc, !.err = err])
    BY <1>6 DEF Publish, PublishUnacked
  <2>3. \A v \in Workers : WorkerStep(v)
    BY <1>2, <2>1, <2>2 DEF TypeOK, WorkerState
  <2>4. worker'[w] # worker[w]
    <3>1. worker[w].pc = "running"
      BY <1>6 DEF Publish, PublishUnacked
    <3>2. worker'[w] = [worker[w] EXCEPT !.pc = pc, !.err = err]
      BY <2>2, MovesOne
    <3>3. worker'[w].pc = pc
      BY <3>2 DEF TypeOK, WorkerState
    <3> QED
      BY <3>1, <3>3
  <2>5. jobs' = [jobs EXCEPT ![j] = Completed(jobs[j])]
    BY <1>6 DEF Publish, PublishUnacked
  <2>6. Ended(j)
    BY <2>1, <2>4, <2>5 DEF Ended, Holds, Completed, Fenced, TypeOK, JobRow, Active, Finished
  <2> QED
    BY <1>0, <2>1, <2>3, <2>5, <2>6 DEF RowStep, Unlocked, Executing
<1>7. CASE Settle(w)
  <2>1. Executing(w) /\ j \in Jobs /\ Unlocked(j) /\ access' = access
    BY <1>7 DEF Settle, HasItsJob, Executing
  <2>2. PICK pc \in {"idle", "down"} : Moves(w, At(pc))
    BY <1>7 DEF Settle
  <2>3. \A v \in Workers : WorkerStep(v)
    BY <2>2, MovesOne DEF At, Free, WorkerStep
  <2>4. CASE jobs' = jobs
    BY <1>00, <2>1, <2>3, <2>4
  <2>5. CASE Verdict(w) = "leave" /\ jobs' = [jobs EXCEPT ![j] = Settled(@, Verdict(w))]
    <3>1. Settled(jobs[j], Verdict(w)) = jobs[j]
      BY <2>5 DEF Settled
    <3>2. jobs' = jobs
      BY <2>1, <2>5, <3>1 DEF TypeOK
    <3> QED
      BY <2>4, <3>2
  <2>6. CASE /\ Fenced(w) /\ Verdict(w) # "leave"
             /\ jobs' = [jobs EXCEPT ![j] = Settled(@, Verdict(w))] /\ Moves(w, At("idle"))
    <3>1. jobs'[j] = Settled(jobs[j], Verdict(w)) /\ jobs[j] \in JobRow
      BY <2>1, <2>6 DEF TypeOK
    <3>2. Holds(w, j) /\ jobs[j].status = "running"
      BY <2>1, <2>6 DEF Holds, Fenced
    <3>3. worker'[w].pc = "idle" /\ worker'[w] # worker[w]
      BY <2>1, <2>6, MovesOne DEF At, Executing
    <3>4. Verdict(w) \in {"complete", "cancel", "failPermanently", "fail", "requeue"}
      BY <2>6 DEF Verdict
    <3>5. Verdict(w) = "fail" => jobs[j].attempts = MaxAttempts
      BY <2>6, AttemptsAssumption, <3>1 DEF Verdict, Fenced, JobRow
    <3>6. ASSUME Verdict(w) = "requeue" PROVE RowStep(j)
      <4>1. jobs'[j].status = "queued" /\ jobs'[j].attempts = jobs[j].attempts
        BY <3>1, <3>6 DEF Settled, JobRow
      <4> QED
        BY <3>2, <3>3, <4>1 DEF RowStep, PutBack
    <3>7. ASSUME Verdict(w) = "complete" PROVE RowStep(j)
      <4>1. jobs'[j].status = "done" /\ jobs'[j].attempts = jobs[j].attempts
        BY <3>1, <3>7 DEF Settled, Completed, JobRow
      <4> QED
        BY <3>2, <3>3, <4>1 DEF RowStep, Ended, Active, Finished
    <3>8. ASSUME Verdict(w) = "cancel" PROVE RowStep(j)
      <4>1. jobs'[j].status = "cancelled" /\ jobs'[j].attempts = jobs[j].attempts
        BY <3>1, <3>8 DEF Settled, JobRow
      <4> QED
        BY <3>2, <4>1 DEF RowStep, Ended, Active, Finished
    <3>9. ASSUME Verdict(w) = "failPermanently" PROVE RowStep(j)
      <4>1. jobs'[j].status = "failed" /\ jobs'[j].attempts = jobs[j].attempts /\ jobs'[j].permanent
        BY <3>1, <3>9 DEF Settled, JobRow
      <4> QED
        BY <3>2, <4>1 DEF RowStep, Ended, Active, Finished
    <3>10. ASSUME Verdict(w) = "fail" PROVE RowStep(j)
      <4>1. jobs'[j].status = "failed" /\ jobs'[j].attempts = jobs[j].attempts
        BY <3>1, <3>10 DEF Settled, JobRow
      <4> QED
        BY <3>2, <3>5, <3>10, <4>1 DEF RowStep, Ended, Active, Finished
    <3>11. RowStep(j)
      BY <3>4, <3>6, <3>7, <3>8, <3>9, <3>10
    <3>12. jobs' = [jobs EXCEPT ![j] = Settled(jobs[j], Verdict(w))]
      BY <2>6
    <3> QED
      BY <1>0, <2>1, <2>3, <3>3, <3>11, <3>12 DEF Unlocked
  <2> QED
    BY <1>7, <2>4, <2>5, <2>6 DEF Settle
<1> QED
  BY <1>1, <1>3, <1>4, <1>5, <1>6, <1>7 DEF Watch, IngestEnds

-----------------------------------------------------------------------------
(* The kinds preserve the invariant. *)

\* The initial state satisfies the inductive invariant: no worker has a job.
LEMMA InitInv == Init => IInv
<1> SUFFICES ASSUME Init PROVE IInv
  OBVIOUS
<1>1. TypeOK
  BY InitType
<1>2. \A w \in Workers : worker[w].pc = "idle" /\ worker[w].watch = "off"
  BY DEF Init, At
<1>3. \A j \in Jobs : jobs[j].status = "none"
  BY DEF Init, Unqueued
<1>4. access.library = "live"
  BY DEF Init
<1> QED
  BY <1>1, <1>2, <1>3, <1>4
     DEF IInv, HasItsJob, LockedRows, ClaimsAreExclusive, FailedHonestly, DeletedIsQuiet,
         HolderIsCurrent, PollRenews, RunsAlone, Executing

\* A worker that executes after a step has just committed its claim, or was
\* executing the same attempt of the same job before.
LEMMA WasExecuting ==
  ASSUME IInv, StepKind, NEW w \in Workers, Executing(w)', ~ Commits(w)
  PROVE  Executing(w) /\ worker'[w].job = worker[w].job /\ worker'[w].attempt = worker[w].attempt
<1>1. WorkerStep(w)
  BY DEF StepKind
<1> QED
  BY <1>1 DEF WorkerStep, Free, Locks, Works, Executing

\* Two workers do not commit claims in one step.
LEMMA OneCommits ==
  ASSUME NEW v \in Workers, NEW w \in Workers, v # w, Commits(w)
  PROVE  ~ Commits(v) /\ worker'[v] = worker[v]
BY DEF Commits

\* A row's attempts only grow, until the row is purged for good.
LEMMA AttemptsGrow ==
  ASSUME TypeOK, NEW j \in Jobs, RowStep(j)
  PROVE  /\ jobs'[j].attempts >= jobs[j].attempts \/ jobs'[j].status = "gone"
         /\ jobs[j].status = "gone" => jobs'[j].status = "gone"
<1>1. jobs[j].attempts \in Nat
  BY AttemptsAssumption DEF TypeOK, JobRow
<1> QED
  BY <1>1 DEF RowStep, Enters, Taken, Touched, Ended, PutBack, Purged, Claimable, Lapsed, Active

\* Every step of a known kind that keeps the types keeps the invariant.
LEMMA KindInv ==
  ASSUME IInv, StepKind, TypeOK'
  PROVE  IInv'
<1> USE DEF IInv
<1>0. /\ \A j \in Jobs : RowStep(j)
      /\ \A w \in Workers : WorkerStep(w)
      /\ LocksRespected
  BY DEF StepKind
<1>1. HasItsJob'
  <2> SUFFICES ASSUME NEW w \in Workers
               PROVE  /\ Executing(w)' => worker'[w].job \in Jobs
                      /\ worker'[w].watch \in {"asleep", "renewed"} => Executing(w)'
    BY DEF HasItsJob
  <2>1. CASE worker'[w] = worker[w]
    BY <2>1 DEF HasItsJob, Executing
  <2>2. CASE Free(w) \/ Locks(w)
    BY <2>2 DEF Free, Locks, Executing
  <2>3. CASE Commits(w)
    BY <2>3 DEF Commits, LockedRows, Executing
  <2>4. CASE Works(w)
    BY <2>4 DEF Works, HasItsJob
  <2> QED
    BY <1>0, <2>1, <2>2, <2>3, <2>4 DEF WorkerStep
<1>2. LockedRows'
  <2>1. ASSUME NEW w \in Workers, worker'[w].pc = "claiming"
        PROVE  worker'[w] = worker[w] \/ Locks(w)
    BY <1>0, <2>1 DEF WorkerStep, Free, Commits, Works, Executing
  <2>2. ASSUME NEW w \in Workers, worker'[w].pc = "claiming"
        PROVE  worker'[w].job \in Jobs /\ Claimable(worker[w].job)' /\ access'.library = "live"
    <3>1. CASE worker'[w] = worker[w]
      <4>1. /\ worker[w].job \in Jobs /\ Claimable(worker[w].job)
            /\ jobs'[worker[w].job] = jobs[worker[w].job] /\ access'.library = "live"
        BY <1>0, <2>2, <3>1 DEF LockedRows, LocksRespected
      <4> QED
        BY <3>1, <4>1 DEF Claimable, Lapsed
    <3>2. CASE Locks(w)
      BY <3>2 DEF Locks, Candidates, Visible, Claimable, Lapsed
    <3> QED
      BY <2>1, <2>2, <3>1, <3>2
  <2>3. ASSUME NEW v \in Workers, NEW w \in Workers, v # w,
               worker'[v].pc = "claiming", worker'[w].pc = "claiming"
        PROVE  worker'[v].job # worker'[w].job
    <3>1. CASE Locks(w)
      BY <2>3, <3>1 DEF Locks, Candidates, Unlocked
    <3>2. CASE Locks(v)
      BY <2>3, <3>2 DEF Locks, Candidates, Unlocked
    <3>3. CASE worker'[v] = worker[v] /\ worker'[w] = worker[w]
      BY <2>3, <3>3 DEF LockedRows
    <3> QED
      BY <2>1, <2>3, <3>1, <3>2, <3>3
  <2> QED
    BY <2>2, <2>3 DEF LockedRows
<1>3. ClaimsAreExclusive'
  <2>1. ASSUME NEW w \in Workers, Commits(w)
        PROVE  /\ worker'[w].attempt = jobs'[worker'[w].job].attempts
               /\ worker'[w].job = worker[w].job /\ worker[w].job \in Jobs
               /\ worker'[w].attempt = jobs[worker[w].job].attempts + 1
               /\ jobs[worker[w].job].status \in Active
    BY <2>1 DEF Commits, Taken, LockedRows, Claimable, Lapsed, Active
  <2>2. ASSUME NEW w \in Workers, Executing(w)'
        PROVE  \/ worker'[w].attempt <= jobs'[worker'[w].job].attempts
               \/ jobs'[worker'[w].job].status = "gone"
    <3>1. CASE Commits(w)
      <4>1. jobs'[worker'[w].job].attempts \in Nat
        BY <2>1, <3>1, AttemptsAssumption DEF TypeOK, JobRow
      <4> QED
        BY <2>1, <3>1, <4>1
    <3>2. CASE ~ Commits(w)
      <4>1. /\ Executing(w) /\ worker'[w].job = worker[w].job
            /\ worker'[w].attempt = worker[w].attempt
        BY <2>2, <3>2, WasExecuting
      <4>2. worker[w].job \in Jobs
        BY <4>1 DEF HasItsJob
      <4>3. /\ worker[w].attempt \in Nat /\ jobs[worker[w].job].attempts \in Nat
            /\ jobs'[worker[w].job].attempts \in Nat
        BY <4>2, AttemptsAssumption DEF TypeOK, JobRow, WorkerState
      <4>4. \/ worker[w].attempt <= jobs[worker[w].job].attempts
            \/ jobs[worker[w].job].status = "gone"
        BY <4>1 DEF ClaimsAreExclusive
      <4> QED
        BY <1>0, <4>1, <4>2, <4>3, <4>4, AttemptsGrow
    <3> QED
      BY <3>1, <3>2
  <2>3. ASSUME NEW v \in Workers, NEW w \in Workers, v # w, Commits(w), Executing(v)',
               worker'[v].job = worker'[w].job
        PROVE  worker'[v].attempt # worker'[w].attempt
    <3>1. Executing(v) /\ worker'[v] = worker[v]
      BY <2>3, OneCommits, WasExecuting
    <3>2. worker[v].attempt <= jobs[worker[w].job].attempts
      BY <2>1, <2>3, <3>1 DEF ClaimsAreExclusive, Active
    <3>3. worker[v].attempt \in Nat /\ jobs[worker[w].job].attempts \in Nat
      BY <2>1, <2>3, AttemptsAssumption DEF TypeOK, JobRow, WorkerState
    <3> QED
      BY <2>1, <2>3, <3>1, <3>2, <3>3
  <2>4. ASSUME NEW v \in Workers, NEW w \in Workers, v # w, Executing(v)', Executing(w)',
               worker'[v].job = worker'[w].job
        PROVE  worker'[v].attempt # worker'[w].attempt
    <3>1. CASE Commits(w)
      BY <2>3, <2>4, <3>1
    <3>2. CASE Commits(v)
      BY <2>3, <2>4, <3>2
    <3>3. CASE ~ Commits(v) /\ ~ Commits(w)
      BY <2>4, <3>3, WasExecuting DEF ClaimsAreExclusive
    <3> QED
      BY <3>1, <3>2, <3>3
  <2> QED
    BY <2>2, <2>4 DEF ClaimsAreExclusive
<1>4. FailedHonestly'
  <2> SUFFICES ASSUME NEW j \in Jobs, jobs'[j].status = "failed", ~ jobs'[j].permanent
               PROVE  jobs'[j].attempts = MaxAttempts
    BY DEF FailedHonestly
  <2> QED
    BY <1>0 DEF FailedHonestly, RowStep, Enters, Taken, Touched, Ended, PutBack, Purged
<1>5. DeletedIsQuiet'
  <2> SUFFICES ASSUME access'.library # "live", NEW j \in Jobs PROVE jobs'[j].status # "running"
    BY DEF DeletedIsQuiet
  <2>1. CASE access.library = "live"
    BY <2>1 DEF StepKind
  <2>2. CASE access.library # "live"
    <3>1. jobs[j].status # "running" /\ ~ Taken(j)
      BY <2>2 DEF DeletedIsQuiet, Taken, LockedRows
    <3> QED
      BY <1>0, <3>1 DEF RowStep, Enters, Touched, Ended, PutBack, Purged, Finished
  <2> QED
    BY <2>1, <2>2
<1>6. HolderIsCurrent'
  <2> DEFINE Good(w) ==
        LET row == jobs'[worker'[w].job] IN
        \/ row.status = "running" /\ row.lease \in {"live", "old"} /\ row.attempts = worker'[w].attempt
        \/ row.status \in Finished \cup {"gone"}
  <2> SUFFICES ASSUME ~ Stalls, NEW w \in Workers, Executing(w)' PROVE Good(w)
    BY DEF HolderIsCurrent
  <2>1. CASE Commits(w)
    BY <2>1 DEF Commits, Taken
  <2>2. CASE ~ Commits(w)
    <3> DEFINE j == worker[w].job
    <3>1. Executing(w) /\ worker'[w].job = j /\ worker'[w].attempt = worker[w].attempt
      BY <2>2, WasExecuting
    <3>2. j \in Jobs /\ RowStep(j)
      BY <1>0, <3>1 DEF HasItsJob
    <3>3. \/ /\ jobs[j].status = "running" /\ jobs[j].lease \in {"live", "old"}
             /\ jobs[j].attempts = worker[w].attempt
          \/ jobs[j].status \in Finished \cup {"gone"}
      BY <3>1 DEF HolderIsCurrent
    <3>4. ~ Enters(j) /\ ~ Taken(j)
      BY <3>3 DEF Enters, Taken, Claimable, Lapsed, Finished
    <3>5. ~ PutBack(j)
      BY <3>1 DEF PutBack, Holds, RunsAlone, Executing
    <3>6. CASE Touched(j)
      BY <3>1, <3>3, <3>6 DEF Touched, HolderAlive, Holders, Finished
    <3>7. CASE jobs'[j] = jobs[j] \/ Ended(j) \/ Purged(j)
      BY <3>1, <3>3, <3>7 DEF Ended, Purged
    <3> QED
      BY <3>2, <3>4, <3>5, <3>6, <3>7 DEF RowStep
  <2> QED
    BY <2>1, <2>2
<1>8. PollRenews'
  <2> SUFFICES ASSUME ~ Stalls, NEW w \in Workers, Executing(w)', worker'[w].watch = "renewed",
                      jobs'[worker'[w].job].status = "running"
               PROVE  jobs'[worker'[w].job].lease = "live"
    BY DEF PollRenews
  <2> DEFINE j == worker[w].job
  <2>1. ~ Commits(w)
    BY DEF Commits
  <2>2. Executing(w) /\ worker'[w].job = j /\ j \in Jobs
    BY <2>1, WasExecuting DEF HasItsJob
  <2>3. worker[w].watch = "renewed" \/ jobs'[j].lease = "live"
    BY <2>1, <2>2 DEF StepKind, WorkerStep, Free, Locks, Works, Executing
  <2>4. CASE worker[w].watch = "renewed"
    <3>1. /\ jobs[j].status \notin Finished \cup {"gone"} => jobs[j].attempts = worker[w].attempt
          /\ jobs[j].status = "running" => jobs[j].lease = "live"
          /\ jobs[j].status \in {"running"} \cup Finished \cup {"gone"}
      BY <2>2, <2>4 DEF HolderIsCurrent, PollRenews
    <3>2. jobs'[j] = jobs[j] \/ Touched(j)
      BY <1>0, <2>2, <3>1 DEF RowStep, Enters, Taken, Claimable, Lapsed, Ended, PutBack, Purged, Finished
    <3>3. CASE jobs'[j] = jobs[j]
      BY <2>2, <3>1, <3>3
    <3>4. CASE Touched(j)
      <4>1. jobs[j].lease = "live" /\ Holds(w, j)
        BY <2>2, <3>1, <3>4 DEF Touched, Holds, Finished
      <4>2. HolderAlive(j)
        BY <4>1 DEF Holds, HolderAlive, Holders
      <4>3. \A v \in Workers : Holds(v, j) => v = w
        BY <4>1 DEF Holds, RunsAlone
      <4> QED
        BY <2>2, <2>4, <3>4, <4>1, <4>2, <4>3 DEF Touched
    <3> QED
      BY <3>2, <3>3, <3>4
  <2> QED
    BY <2>2, <2>3, <2>4
<1>7. RunsAlone'
  <2> SUFFICES ASSUME ~ Stalls, NEW v \in Workers, NEW w \in Workers, v # w,
                      Executing(v)', Executing(w)'
               PROVE  worker'[v].job # worker'[w].job
    BY DEF RunsAlone
  <2>1. ASSUME NEW x \in Workers, NEW y \in Workers, x # y, Commits(x), Executing(y)'
        PROVE  worker'[y].job # worker'[x].job
    <3>1. Executing(y) /\ worker'[y] = worker[y] /\ worker'[x].job = worker[x].job
      BY <2>1, OneCommits, WasExecuting DEF Commits
    <3>2. Claimable(worker[x].job)
      BY <2>1 DEF Commits, Taken
    <3> QED
      BY <3>1, <3>2 DEF HolderIsCurrent, Claimable, Lapsed, Finished
  <2>2. CASE Commits(v) \/ Commits(w)
    BY <2>1, <2>2
  <2>3. CASE ~ Commits(v) /\ ~ Commits(w)
    BY <2>3, WasExecuting DEF RunsAlone
  <2> QED
    BY <2>2, <2>3
<1> QED
  BY <1>1, <1>2, <1>3, <1>4, <1>5, <1>6, <1>7, <1>8

\* Every step of the queue keeps the types and is of a known kind.
LEMMA NextKind ==
  ASSUME IInv, [Next]_vars
  PROVE  TypeOK' /\ StepKind
<1>1. CASE UNCHANGED vars
  BY <1>1 DEF vars, IInv, TypeOK, StepKind, RowStep, WorkerStep, LocksRespected, LockedRows
<1>2. CASE \/ \E j \in Jobs : Enqueue(j) \/ EnqueueCommit(j) \/ ReadForCancel(j)
                            \/ RequestCancel(j) \/ LeaseAges(j) \/ LeaseRunsOut(j) \/ LeaseOutlived(j)
           \/ RevokeGrant \/ GrantAgain \/ DeleteLibrary \/ RestoreLibrary \/ GraceEnds
  BY <1>2, PeopleType, PeopleKind DEF IInv
<1>3. CASE \E w \in Workers : \/ Round(w) \/ ServePinned(w) \/ Sweep(w) \/ ClaimLock(w)
                              \/ ClaimNone(w) \/ Crash(w) \/ Restart(w)
  BY <1>3, SeekingType, SeekingKind DEF IInv
<1>4. CASE \E w \in Workers :
             \/ ClaimCommit(w) \/ OpenSource(w)
             \/ \E err \in {"transient", "permanent"} : SourceError(w, err)
             \/ Settle(w) \/ Watch(w) \/ Progress(w) \/ IngestEnds(w)
  BY <1>4, WorkingType, WorkingKind DEF IInv
<1> QED
  BY <1>1, <1>2, <1>3, <1>4 DEF Next, Serve

-----------------------------------------------------------------------------
(* A job is cancelled because somebody asked.  A grant that is taken away   *)
(* hides the row from CancelRequested, which then reports a cancellation    *)
(* nobody asked for; so this much is for a library whose access does not    *)
(* change.                                                                  *)

\* A request, an answer of the watcher or an ended ingest goes back to a call.
RowAsked(j) == jobs[j].cancelReq \/ jobs[j].status = "cancelled" => cancel[j] # "idle"
WatcherAsked(w) ==
  /\ worker[w].watched = "cancelled" => worker[w].job \in Jobs /\ cancel[worker[w].job] # "idle"
  /\ worker[w].pc = "running" /\ worker[w].watch = "over" => worker[w].watched # "running"
  /\ worker[w].err = "cancelled" => worker[w].watched # "running"

AskedInv ==
  /\ Visible
  /\ \A j \in Jobs : RowAsked(j)
  /\ \A w \in Workers : WatcherAsked(w)

\* Nobody's access changes.
LEMMA StaysVisible ==
  ASSUME MaxChanges = 0, TypeOK, Visible, [Next]_vars
  PROVE  Visible'
<1>0. ~ (spent.changes < MaxChanges)
  BY DEF TypeOK, Spent
<1>1. ~ RevokeGrant /\ ~ DeleteLibrary
  BY <1>0, Zenon DEF RevokeGrant, DeleteLibrary
<1>2. ~ GrantAgain /\ ~ RestoreLibrary /\ ~ GraceEnds
  BY DEF GrantAgain, RestoreLibrary, GraceEnds, Visible
<1>3. ASSUME NEW w \in Workers, Round(w)
      PROVE  access' = access
  <2>1. access' = [access EXCEPT !.library = IF access.library = "expired" THEN "purged" ELSE access.library]
    BY <1>3 DEF Round
  <2>2. access' = [access EXCEPT !.library = access.library]
    BY <2>1 DEF Visible
  <2> QED
    BY <2>2 DEF TypeOK, Access
<1>4. ASSUME ~ \E w \in Workers : Round(w)
      PROVE  access' = access
  BY <1>1, <1>2, <1>4, Zenon DEF Next, Enqueue, EnqueueCommit, ReadForCancel, RequestCancel, LeaseAges, LeaseRunsOut,
    LeaseOutlived, LeaseLapse, Serve, ServePinned, Sweep, ClaimLock, ClaimNone, ClaimCommit,
    OpenSource, SourceError, Settle, Watch, WatchRenew, WatchRead, WatchStop, Progress, IngestEnds,
    Publish, PublishUnacked, Unchanged, IngestFails, Unwind, Crash, Restart, vars
<1> QED
  BY <1>3, <1>4 DEF Visible

\* What was asked stays asked.
LEMMA AskedGrows ==
  ASSUME TypeOK, [Next]_vars
  PROVE  \A j \in Jobs : cancel[j] # "idle" => cancel'[j] # "idle"
<1>1. ASSUME NEW j \in Jobs, ReadForCancel(j)
      PROVE  cancel'[j] # "idle" /\ \A i \in Jobs \ {j} : cancel'[i] = cancel[i]
  BY <1>1 DEF ReadForCancel, TypeOK
<1>2. ASSUME NEW j \in Jobs, RequestCancel(j)
      PROVE  cancel'[j] # "idle" /\ \A i \in Jobs \ {j} : cancel'[i] = cancel[i]
  BY <1>2 DEF RequestCancel, TypeOK
<1>3. ASSUME ~ \E j \in Jobs : ReadForCancel(j) \/ RequestCancel(j)
      PROVE  cancel' = cancel
  BY <1>3, Zenon DEF Next, Enqueue, EnqueueCommit, LeaseAges, LeaseRunsOut, LeaseOutlived, LeaseLapse, RevokeGrant,
    GrantAgain, DeleteLibrary, RestoreLibrary, GraceEnds, Serve, Round, ServePinned, Sweep,
    ClaimLock, ClaimNone, ClaimCommit, OpenSource, SourceError, Settle, Watch, WatchRenew,
    WatchRead, WatchStop, Progress, IngestEnds, Publish, PublishUnacked, Unchanged, IngestFails,
    Unwind, Crash, Restart, vars
<1> QED
  BY <1>1, <1>2, <1>3

\* A row whose request and status the step leaves alone, or that ends otherwise.
KeepsAsked(j) ==
  /\ jobs'[j].cancelReq => jobs[j].cancelReq
  /\ jobs'[j].status = "cancelled" => jobs[j].status = "cancelled" \/ jobs[j].cancelReq

\* The statements of workers that do not settle, and of everybody but the one
\* who asks, bring in no request.
LEMMA RowKeepsAsked ==
  ASSUME IInv, MaxChanges = 0, Visible, [Next]_vars, NEW i \in Jobs,
         ~ RequestCancel(i), ~ \E w \in Workers : Settle(w) /\ worker[w].job = i
  PROVE  KeepsAsked(i)
<1> USE DEF IInv, TypeOK, KeepsAsked
<1>1. CASE jobs'[i] = jobs[i]
  BY <1>1
<1>2. ASSUME NEW j \in Jobs, \/ Enqueue(j) \/ EnqueueCommit(j) \/ LeaseAges(j) \/ LeaseRunsOut(j) \/ LeaseOutlived(j)
                             \/ RequestCancel(j)
      PROVE  KeepsAsked(i)
  <2>1. CASE i # j
    BY <1>2, <2>1 DEF Enqueue, EnqueueCommit, LeaseAges, LeaseRunsOut, LeaseOutlived, LeaseLapse, RequestCancel
  <2>2. CASE i = j
    BY <1>2, <2>2 DEF Enqueue, EnqueueCommit, LeaseAges, LeaseRunsOut, LeaseOutlived, LeaseLapse, JobRow
  <2> QED
    BY <2>1, <2>2
<1>3. ASSUME NEW w \in Workers, Round(w)
      PROVE  KeepsAsked(i)
  <2>1. access'.library # "purged"
    BY <1>3, StaysVisible DEF Visible
  <2>2. ~ Unclaimable(i)
    BY DEF Unclaimable, Visible
  <2>3. jobs'[i] = jobs[i]
    BY <1>3, <2>1, <2>2 DEF Round
  <2> QED
    BY <2>3
<1>4. ASSUME NEW w \in Workers, Sweep(w)
      PROVE  KeepsAsked(i)
  <2>1. CASE Visible /\ Stranded(i)
    <3>1. jobs'[i] = [jobs[i] EXCEPT
                        !.status = IF jobs[i].cancelReq THEN "cancelled" ELSE "failed",
                        !.lease = "none"]
      BY <1>4, <2>1 DEF Sweep
    <3>2. /\ jobs'[i].status = IF jobs[i].cancelReq THEN "cancelled" ELSE "failed"
          /\ jobs'[i].cancelReq = jobs[i].cancelReq
      BY <3>1 DEF JobRow
    <3> QED
      BY <3>2
  <2>2. CASE ~ (Visible /\ Stranded(i))
    BY <1>4, <2>2 DEF Sweep
  <2> QED
    BY <2>1, <2>2
<1>5. ASSUME NEW w \in Workers, ClaimCommit(w)
      PROVE  KeepsAsked(i)
  <2>1. worker[w].job \in Jobs /\ jobs' = [jobs EXCEPT ![worker[w].job] = Claimed(jobs[worker[w].job])]
    BY <1>5 DEF ClaimCommit, LockedRows
  <2>2. CASE i = worker[w].job
    BY <2>1, <2>2 DEF Claimed, JobRow
  <2> QED
    BY <2>1, <2>2
<1>6. ASSUME NEW w \in Workers, Progress(w) \/ WatchRenew(w)
      PROVE  KeepsAsked(i)
  <2>1. worker[w].job \in Jobs /\ jobs' \in {jobs, [jobs EXCEPT ![worker[w].job].lease = "live"]}
    BY <1>6 DEF Progress, WatchRenew, HasItsJob, Executing
  <2> QED
    BY <2>1 DEF JobRow
<1>7. ASSUME NEW w \in Workers, Publish(w) \/ PublishUnacked(w)
      PROVE  KeepsAsked(i)
  <2>1. worker[w].job \in Jobs /\ jobs' = [jobs EXCEPT ![worker[w].job] = Completed(jobs[worker[w].job])]
    BY <1>7 DEF Publish, PublishUnacked, HasItsJob, Executing
  <2>2. CASE i = worker[w].job
    BY <2>1, <2>2 DEF Completed, JobRow
  <2> QED
    BY <2>1, <2>2
<1>8. ASSUME NEW w \in Workers, Settle(w)
      PROVE  KeepsAsked(i)
  <2>1. worker[w].job \in Jobs /\ i # worker[w].job
    BY <1>8 DEF Settle, HasItsJob, Executing
  <2>2. jobs' = jobs \/ jobs' = [jobs EXCEPT ![worker[w].job] = Settled(jobs[worker[w].job], Verdict(w))]
    BY <1>8 DEF Settle
  <2> QED
    BY <2>1, <2>2
<1>9. ~ DeleteLibrary
  <2>1. ~ (spent.changes < MaxChanges)
    BY DEF Spent
  <2> QED
    BY <2>1, Zenon DEF DeleteLibrary
<1>10. ASSUME ~ \E j \in Jobs : \/ Enqueue(j) \/ EnqueueCommit(j) \/ LeaseAges(j) \/ LeaseRunsOut(j) \/ LeaseOutlived(j)
                                \/ RequestCancel(j),
              ~ \E w \in Workers : \/ Round(w) \/ Sweep(w) \/ ClaimCommit(w) \/ Progress(w)
                                   \/ WatchRenew(w) \/ Publish(w) \/ PublishUnacked(w) \/ Settle(w)
       PROVE  jobs' = jobs
  BY <1>9, <1>10, Zenon DEF Next, ReadForCancel, RevokeGrant, GrantAgain, RestoreLibrary, GraceEnds, Serve,
    ServePinned, ClaimLock, ClaimNone, OpenSource, SourceError, Watch, WatchRead, WatchStop,
    IngestEnds, Unchanged, IngestFails, Unwind, Crash, Restart, vars
<1> QED
  BY <1>1, <1>2, <1>3, <1>4, <1>5, <1>6, <1>7, <1>8, <1>10

\* A verdict to cancel is what the watcher read, or an ingest it stopped.
LEMMA SettleAsked ==
  ASSUME IInv, AskedInv, NEW w \in Workers, Settle(w), NEW i \in Jobs, worker[w].job = i
  PROVE  RowAsked(i)'
<1> USE DEF IInv, TypeOK
<1>0. cancel' = cancel /\ RowAsked(i) /\ WatcherAsked(w)
  BY DEF Settle, AskedInv
<1>1. CASE jobs' = jobs
  BY <1>0, <1>1 DEF RowAsked
<1>2. CASE jobs' = [jobs EXCEPT ![i] = Settled(jobs[i], Verdict(w))]
  <2>1. jobs'[i] = Settled(jobs[i], Verdict(w)) /\ jobs[i] \in JobRow
    BY <1>2
  <2>2. ASSUME Verdict(w) = "cancel"
        PROVE  cancel[i] # "idle"
    <3>1. worker[w].watched # "lost" /\ (worker[w].watched = "cancelled" \/ worker[w].err = "cancelled")
      BY <2>2 DEF Verdict
    <3>2. worker[w].watched = "cancelled"
      BY <1>0, <3>1 DEF WatcherAsked, WorkerState
    <3> QED
      BY <1>0, <3>2 DEF WatcherAsked
  <2>3. CASE Verdict(w) = "cancel"
    BY <1>0, <2>2, <2>3 DEF RowAsked
  <2>4. Verdict(w) \in {"leave", "complete", "cancel", "failPermanently", "fail", "requeue"}
    BY DEF Verdict
  <2>5. CASE Verdict(w) = "leave"
    <3>1. jobs'[i] = jobs[i]
      BY <2>1, <2>5 DEF Settled
    <3> QED
      BY <1>0, <3>1 DEF RowAsked
  <2>6. CASE Verdict(w) \in {"complete", "failPermanently", "fail", "requeue"}
    <3>1. jobs'[i].status \in {"done", "failed", "queued"} /\ jobs'[i].cancelReq = jobs[i].cancelReq
      BY <2>1, <2>6 DEF Settled, Completed, JobRow
    <3> QED
      BY <1>0, <3>1 DEF RowAsked
  <2> QED
    BY <2>3, <2>4, <2>5, <2>6
<1> QED
  BY <1>1, <1>2 DEF Settle

\* Every row that is to stop, or has been stopped, was asked to.
LEMMA RowsAsked ==
  ASSUME MaxChanges = 0, IInv, AskedInv, [Next]_vars
  PROVE  \A j \in Jobs : RowAsked(j)'
<1> SUFFICES ASSUME NEW i \in Jobs PROVE RowAsked(i)'
  OBVIOUS
<1>1. CASE RequestCancel(i)
  BY <1>1 DEF RequestCancel, RowAsked, IInv, TypeOK
<1>2. CASE \E w \in Workers : Settle(w) /\ worker[w].job = i
  BY <1>2, SettleAsked
<1>3. CASE ~ RequestCancel(i) /\ ~ \E w \in Workers : Settle(w) /\ worker[w].job = i
  <2>1. KeepsAsked(i)
    BY <1>3, RowKeepsAsked DEF AskedInv
  <2>2. cancel[i] # "idle" => cancel'[i] # "idle"
    BY AskedGrows DEF IInv
  <2> QED
    BY <2>1, <2>2 DEF KeepsAsked, RowAsked, AskedInv
<1> QED
  BY <1>1, <1>2, <1>3

\* A step that only the worker of a job takes, on the state of that worker.
LEMMA WorkersAsked ==
  ASSUME MaxChanges = 0, IInv, AskedInv, [Next]_vars
  PROVE  \A w \in Workers : WatcherAsked(w)'
<1> USE DEF IInv, TypeOK
<1> SUFFICES ASSUME NEW w \in Workers PROVE WatcherAsked(w)'
  OBVIOUS
<1>0. /\ worker[w] \in WorkerState /\ WatcherAsked(w)
      /\ \A j \in Jobs : cancel[j] # "idle" => cancel'[j] # "idle"
  BY AskedGrows DEF AskedInv
<1> DEFINE Kept == worker'[w].watched = worker[w].watched /\ worker'[w].job = worker[w].job
<1>1. CASE worker'[w] = worker[w]
  BY <1>0, <1>1 DEF WatcherAsked
<1>2. ASSUME NEW pc \in {"idle", "serving", "swept", "down"}, Moves(w, At(pc))
      PROVE  WatcherAsked(w)'
  BY <1>2, MovesOne DEF At, WatcherAsked
<1>3. CASE ClaimLock(w) \/ ClaimCommit(w)
  <2>1. CASE ClaimLock(w)
    <3>1. PICK j \in Candidates : Moves(w, [At("claiming") EXCEPT !.job = j])
      BY <2>1 DEF ClaimLock
    <3> QED
      BY <3>1, MovesOne DEF At, WatcherAsked
  <2>2. CASE ClaimCommit(w)
    <3> DEFINE n == jobs[worker[w].job].attempts + 1
    <3>1. Moves(w, [At("claimed") EXCEPT !.job = worker[w].job, !.attempt = n])
      BY <2>2, Zenon DEF ClaimCommit
    <3> HIDE DEF n
    <3>2. worker'[w] = [At("claimed") EXCEPT !.job = worker[w].job, !.attempt = n]
      BY <3>1, MovesOne
    <3>3. worker'[w].watched = "running" /\ worker'[w].pc = "claimed" /\ worker'[w].err = "none"
      BY <3>2 DEF At
    <3> QED
      BY <3>3 DEF WatcherAsked
  <2> QED
    BY <1>3, <2>1, <2>2
<1>4. CASE OpenSource(w)
  <2>1. worker'[w] = [worker[w] EXCEPT !.pc = "running", !.watch = "asleep"]
    BY <1>4, MovesOne DEF OpenSource
  <2>2. Kept /\ worker'[w].watch = "asleep" /\ worker'[w].err = worker[w].err
    BY <1>0, <2>1 DEF WorkerState
  <2> QED
    BY <1>0, <2>2 DEF WatcherAsked
<1>5. ASSUME NEW err \in {"transient", "permanent"}, SourceError(w, err)
      PROVE  WatcherAsked(w)'
  <2>1. worker'[w] = [worker[w] EXCEPT !.pc = "returned", !.err = err, !.watch = "over"]
    BY <1>5, MovesOne DEF SourceError
  <2>2. Kept /\ worker'[w].pc = "returned" /\ worker'[w].err = err
    BY <1>0, <2>1 DEF WorkerState
  <2> QED
    BY <1>0, <2>2 DEF WatcherAsked
<1>6. CASE WatchRenew(w)
  <2>1. \/ worker'[w] = [worker[w] EXCEPT !.watch = "renewed"]
        \/ worker'[w] = [worker[w] EXCEPT !.watch = "over", !.watched = "lost"]
    BY <1>6, MovesOne DEF WatchRenew
  <2>2. CASE worker'[w] = [worker[w] EXCEPT !.watch = "renewed"]
    <3>1. Kept /\ worker'[w].watch = "renewed" /\ worker'[w].err = worker[w].err
      BY <1>0, <2>2 DEF WorkerState
    <3> QED
      BY <1>0, <3>1 DEF WatcherAsked
  <2>3. CASE worker'[w] = [worker[w] EXCEPT !.watch = "over", !.watched = "lost"]
    <3>1. worker'[w].watched = "lost"
      BY <1>0, <2>3 DEF WorkerState
    <3> QED
      BY <3>1 DEF WatcherAsked
  <2> QED
    BY <2>1, <2>2, <2>3
<1>7. CASE WatchRead(w)
  <2>1. worker[w].job \in Jobs
    BY <1>7 DEF WatchRead, HasItsJob
  <2>2. PICK requested \in {FALSE, Visible => jobs[worker[w].job].cancelReq} :
          worker'[w] = [worker[w] EXCEPT
                          !.watched = IF requested THEN "cancelled" ELSE @,
                          !.watch = IF requested \/ worker[w].pc = "returned" THEN "over" ELSE "asleep"]
    BY <1>7, MovesOne DEF WatchRead
  <2>3. requested => cancel[worker[w].job] # "idle"
    BY <2>1, <2>2 DEF AskedInv, RowAsked
  <2>4. CASE requested
    <3>1. worker'[w].watched = "cancelled" /\ worker'[w].job = worker[w].job
      BY <1>0, <2>2, <2>4 DEF WorkerState
    <3> QED
      BY <1>0, <2>1, <2>3, <2>4, <3>1 DEF WatcherAsked
  <2>5. CASE ~ requested
    <3>1. /\ Kept /\ worker'[w].err = worker[w].err /\ worker'[w].pc = worker[w].pc
          /\ worker'[w].watch = IF worker[w].pc = "returned" THEN "over" ELSE "asleep"
      BY <1>0, <2>2, <2>5 DEF WorkerState
    <3> QED
      BY <1>0, <3>1 DEF WatcherAsked
  <2> QED
    BY <2>4, <2>5
<1>8. CASE WatchStop(w) \/ Unwind(w)
  <2>1. \/ worker[w].pc = "returned" /\ worker'[w] = [worker[w] EXCEPT !.watch = "over"]
        \/ worker'[w] = [worker[w] EXCEPT !.pc = "returned"]
    BY <1>8, MovesOne DEF WatchStop, Unwind
  <2>2. Kept /\ worker'[w].pc = "returned" /\ worker'[w].err = worker[w].err
    BY <1>0, <2>1 DEF WorkerState
  <2> QED
    BY <1>0, <2>2 DEF WatcherAsked
<1>9. CASE Publish(w) \/ PublishUnacked(w) \/ Unchanged(w)
  <2>1. PICK pc \in {"returned", "unwinding"}, err \in {"published", "transient", "unchanged"} :
          worker'[w] = [worker[w] EXCEPT !.pc = pc, !.err = err]
    BY <1>9, MovesOne DEF Publish, PublishUnacked, Unchanged
  <2>2. Kept /\ worker'[w].pc = pc /\ worker'[w].err = err
    BY <1>0, <2>1 DEF WorkerState
  <2> QED
    BY <1>0, <2>2 DEF WatcherAsked
<1>10. ASSUME NEW err \in IngestErrs, IngestFails(w, err)
       PROVE  WatcherAsked(w)'
  <2>1. /\ worker'[w] = [worker[w] EXCEPT !.pc = "unwinding", !.err = err]
        /\ worker[w].pc = "running" /\ (err = "cancelled" => worker[w].watch = "over")
    BY <1>10, MovesOne DEF IngestFails
  <2>2. Kept /\ worker'[w].pc = "unwinding" /\ worker'[w].err = err
    BY <1>0, <2>1 DEF WorkerState
  <2> QED
    BY <1>0, <2>1, <2>2 DEF WatcherAsked
<1>11. CASE Round(w) \/ ServePinned(w) \/ Sweep(w) \/ ClaimNone(w) \/ Settle(w) \/ Crash(w) \/ Restart(w)
  <2>1. \E pc \in {"idle", "serving", "swept", "down"} : Moves(w, At(pc))
    BY <1>11 DEF Round, ServePinned, Sweep, ClaimNone, Settle, Crash, Restart
  <2> QED
    BY <1>2, <2>1
<1>12. ASSUME NEW v \in Workers \ {w}, \/ Serve(v) \/ Watch(v) \/ Progress(v) \/ IngestEnds(v)
                                       \/ Crash(v) \/ Restart(v)
       PROVE  worker'[w] = worker[w]
  <2>1. worker' = worker \/ \E state : Moves(v, state)
    BY <1>12, Zenon DEF Serve, Round, ServePinned, Sweep, ClaimLock, ClaimNone, ClaimCommit, OpenSource,
      SourceError, Settle, Watch, WatchRenew, WatchRead, WatchStop, Progress, IngestEnds, Publish,
      PublishUnacked, Unchanged, IngestFails, Unwind, Crash, Restart
  <2> QED
    BY <2>1 DEF Moves
<1>13. ASSUME ~ \E v \in Workers : \/ Serve(v) \/ Watch(v) \/ Progress(v) \/ IngestEnds(v)
                                   \/ Crash(v) \/ Restart(v)
       PROVE  worker' = worker
  BY <1>13, Zenon DEF Next, Enqueue, EnqueueCommit, ReadForCancel, RequestCancel, LeaseAges, LeaseRunsOut, LeaseOutlived,
    LeaseLapse, RevokeGrant, GrantAgain, DeleteLibrary, RestoreLibrary, GraceEnds, vars
<1>14. ASSUME \/ Serve(w) \/ Watch(w) \/ Progress(w) \/ IngestEnds(w) \/ Crash(w) \/ Restart(w)
       PROVE  WatcherAsked(w)'
  BY <1>1, <1>3, <1>4, <1>5, <1>6, <1>7, <1>8, <1>9, <1>10, <1>11, <1>14
  DEF Serve, Watch, IngestEnds, Progress
<1> QED
  BY <1>1, <1>12, <1>13, <1>14

-----------------------------------------------------------------------------
(* What the queue promises, for every number of workers, jobs and attempts. *)

\* IInv holds in every state: each step of the queue preserves it.
THEOREM Invariant == Spec => []IInv
<1>1. IInv /\ [Next]_vars => IInv'
  BY NextKind, KindInv
<1> QED
  BY <1>1, InitInv, PTL DEF Spec

\* The variables of the queue stay well typed; in particular no claim takes
\* attempts past MaxAttempts.
THEOREM TypeCorrect == Spec => []TypeOK
<1>1. IInv => TypeOK
  BY DEF IInv
<1> QED
  BY <1>1, Invariant, PTL

\* No two workers hold the same attempt of a job: the attempt number that every
\* worker write is fenced with is a fencing token.
THEOREM Fencing == Spec => []ClaimsAreExclusive
<1>1. IInv => ClaimsAreExclusive
  BY DEF IInv
<1> QED
  BY <1>1, Invariant, PTL

\* If nothing holds a live worker up past its lease, no two workers execute one
\* job: what the watcher renews at one poll lasts until the next.
THEOREM Exclusion == Spec => []RunsAlone
<1>1. IInv => RunsAlone
  BY DEF IInv
<1> QED
  BY <1>1, Invariant, PTL

\* A failure that is not permanent has spent every attempt.
THEOREM FailsHonestly == Spec => []FailedHonestly
<1>1. IInv => FailedHonestly
  BY DEF IInv
<1> QED
  BY <1>1, Invariant, PTL

\* delete_library and ClaimJob may interleave as they like: no job runs in a
\* deleted library.
THEOREM DeletedQuiet == Spec => []DeletedIsQuiet
<1>1. IInv => DeletedIsQuiet
  BY DEF IInv
<1> QED
  BY <1>1, Invariant, PTL

\* While nobody's access changes, a job is cancelled only because somebody
\* called RequestCancel, whatever its watchers read and its ingests return.
THEOREM CancelledWhenAsked ==
  ASSUME MaxChanges = 0
  PROVE  Spec => []CancelledOnlyWhenAsked
<1>1. Init => AskedInv
  <2> SUFFICES ASSUME Init PROVE AskedInv
    OBVIOUS
  <2>1. Visible
    BY DEF Init, Visible
  <2>2. \A j \in Jobs : RowAsked(j)
    BY DEF Init, Unqueued, RowAsked
  <2>3. \A w \in Workers : WatcherAsked(w)
    BY DEF Init, At, WatcherAsked
  <2> QED
    BY <2>1, <2>2, <2>3 DEF AskedInv
<1>2. IInv /\ AskedInv /\ [Next]_vars => AskedInv'
  <2> SUFFICES ASSUME IInv, AskedInv, [Next]_vars PROVE AskedInv'
    OBVIOUS
  <2>1. Visible'
    BY StaysVisible DEF IInv, AskedInv
  <2> QED
    BY <2>1, RowsAsked, WorkersAsked DEF AskedInv
<1>3. AskedInv => CancelledOnlyWhenAsked
  BY DEF AskedInv, RowAsked, CancelledOnlyWhenAsked
<1> QED
  BY <1>1, <1>2, <1>3, Invariant, PTL DEF Spec

\* A running job is completed or put back only by a step of the worker that
\* holds its current attempt.
THEOREM HolderFinishes == Spec => OnlyTheHolderFinishes
<1> DEFINE A == \A j \in Jobs :
       jobs[j].status = "running" /\ jobs'[j].status \in {"done", "queued"}
         => \E w \in Workers : /\ Executing(w)
                               /\ worker[w].job = j
                               /\ worker[w].attempt = jobs[j].attempts
                               /\ worker'[w] # worker[w]
<1>1. IInv /\ [Next]_vars => A
  <2> SUFFICES ASSUME IInv, [Next]_vars, NEW j \in Jobs,
                      jobs[j].status = "running", jobs'[j].status \in {"done", "queued"}
               PROVE  \E w \in Workers : Holds(w, j) /\ worker'[w] # worker[w]
    BY DEF Holds
  <2>1. RowStep(j)
    BY NextKind DEF StepKind
  <2>2. CASE PutBack(j)
    BY <2>2 DEF PutBack, Holds, Executing
  <2>3. CASE Ended(j)
    BY <2>3 DEF Ended, Finished
  <2> QED
    BY <2>1, <2>2, <2>3 DEF RowStep, Enters, Taken, Touched, Purged
<1>2. IInv /\ [Next]_vars => [A]_vars
  BY <1>1
<1>3. Spec => [][A]_vars
  BY <1>2, Invariant, PTL DEF Spec
<1> QED
  BY <1>3 DEF OnlyTheHolderFinishes

\* A finished job keeps its status until its row is purged.
THEOREM FinishedStays == Spec => FinishedStaysFinished
<1> DEFINE A == \A j \in Jobs : jobs[j].status \in Finished
                  => jobs'[j].status \in {jobs[j].status, "gone"}
<1>1. IInv /\ [Next]_vars => A
  <2> SUFFICES ASSUME IInv, [Next]_vars, NEW j \in Jobs, jobs[j].status \in Finished
               PROVE  jobs'[j].status \in {jobs[j].status, "gone"}
    OBVIOUS
  <2>1. RowStep(j)
    BY NextKind DEF StepKind
  <2> QED
    BY <2>1 DEF RowStep, Enters, Taken, Claimable, Lapsed, Touched, Ended, PutBack, Purged,
                Active, Finished
<1>2. IInv /\ [Next]_vars => [A]_vars
  BY <1>1
<1>3. Spec => [][A]_vars
  BY <1>2, Invariant, PTL DEF Spec
<1> QED
  BY <1>3 DEF FinishedStaysFinished

\* A job that was asked to stop is never claimed again.
THEOREM NeverRestarts == Spec => AskedToStopNeverRestarts
<1> DEFINE A == \A j \in Jobs : jobs[j].cancelReq => jobs'[j].attempts <= jobs[j].attempts
<1>1. IInv /\ [Next]_vars => A
  <2> SUFFICES ASSUME IInv, [Next]_vars, NEW j \in Jobs, jobs[j].cancelReq
               PROVE  jobs'[j].attempts <= jobs[j].attempts
    OBVIOUS
  <2>1. RowStep(j)
    BY NextKind DEF StepKind
  <2>2. jobs[j].attempts \in Nat
    BY AttemptsAssumption DEF IInv, TypeOK, JobRow
  <2> QED
    BY <2>1, <2>2 DEF RowStep, Enters, Taken, Claimable, Touched, Ended, PutBack, Purged
<1>2. IInv /\ [Next]_vars => [A]_vars
  BY <1>1
<1>3. Spec => [][A]_vars
  BY <1>2, Invariant, PTL DEF Spec
<1> QED
  BY <1>3 DEF AskedToStopNeverRestarts

=============================================================================
