------------------------------ MODULE JobQueue ------------------------------
(***************************************************************************)
(* The ingest queue of one library, as its requester, its workers and the  *)
(* people who administer the library change it.                            *)
(*                                                                         *)
(* A job is a row of ingest_jobs.  A worker claims one under a lease,      *)
(* remembers the attempt number it claimed, and fences every later write   *)
(* with that number.  Beside the ingest a watcher goroutine renews the     *)
(* lease and polls for a cancel request.  The requester may ask for a      *)
(* cancellation, an administrator may take the requester's grant away or   *)
(* delete the library, a worker may crash at any step, and a lease may     *)
(* lapse.                                                                  *)
(*                                                                         *)
(* One action is one transaction, or one decision a worker takes between   *)
(* two transactions.  The ingest itself is a black box here that publishes *)
(* or returns an error; module Ingest opens it.                            *)
(***************************************************************************)
EXTENDS Integers, FiniteSets

CONSTANTS
  Workers,      \* docsearch-worker processes
  Pinned,       \* the workers started with --user: they serve this queue only
  MaxJobs,      \* bound: how many jobs are ever queued
  MaxAttempts,  \* worker.Options.MaxAttempts
  Stalls,       \* TRUE: a live worker may be held up, or refused its renewals, past a lease
  MaxCrashes,   \* bound: worker crashes
  MaxUnacked,   \* bound: commits of MarkReady whose answer is lost
  MaxChanges,   \* bound: revocations of the grant and deletions of the library
  MaxCancels    \* bound: calls of RequestCancel

ASSUME WorkersAssumption == Pinned \subseteq Workers
ASSUME JobsAssumption == MaxJobs \in Nat
ASSUME AttemptsAssumption == MaxAttempts \in Nat \ {0}
ASSUME StallsAssumption == Stalls \in BOOLEAN
ASSUME BoundsAssumption == {MaxCrashes, MaxUnacked, MaxChanges, MaxCancels} \subseteq Nat

Jobs == 1 .. MaxJobs
NoJob == 0

VARIABLES
  jobs,    \* jobs[j]: the row of ingest_jobs with id j
  worker,  \* worker[w]: where process w is, and the claim it holds
  cancel,  \* cancel[j]: the latest RequestCancel call on j, and its answer
  access,  \* the requester's grant and the library's deletion
  spent    \* how much of each bound on the environment has been used

vars == <<jobs, worker, cancel, access, spent>>

Finished == {"done", "failed", "cancelled"}
Active == {"queued", "running"}

\* "none" is a row not inserted yet, "inserting" one whose insert has not
\* committed, "gone" one a purge deleted.
JobRow == [status    : Active \cup Finished \cup {"none", "inserting", "gone"},
           attempts  : 0 .. MaxAttempts,
           cancelReq : BOOLEAN,
           permanent : BOOLEAN,
           lease     : {"none", "live", "old", "lapsed"}]

\* What the ingest returned: a published or an unchanged document, or an
\* error of a class that execute tells apart.
IngestErrs == {"lostClaim", "timeout", "cancelled", "permanent", "transient"}
Results == IngestErrs \cup {"none", "published", "unchanged"}

WorkerState ==
  [pc      : {"idle", "serving", "swept", "claiming", "claimed", "running",
              "unwinding", "returned", "down"},
   job     : Jobs \cup {NoJob},
   attempt : 0 .. MaxAttempts,
   err     : Results,
   watch   : {"off", "asleep", "renewed", "over"},
   watched : {"running", "cancelled", "lost"}]

CancelCall == {"idle", "readQueued", "readRunning",
               "cancelled", "cancelling", "finished"}
InFlight == {"readQueued", "readRunning"}

Access == [granted : BOOLEAN,
           library : {"live", "deleted", "expired", "purged"}]

Spent == [crashes : 0 .. MaxCrashes, unacked : 0 .. MaxUnacked,
          changes : 0 .. MaxChanges, cancels : 0 .. MaxCancels]

TypeOK ==
  /\ jobs \in [Jobs -> JobRow]
  /\ worker \in [Workers -> WorkerState]
  /\ cancel \in [Jobs -> CancelCall]
  /\ access \in Access
  /\ spent \in Spent

Unqueued == [status |-> "none", attempts |-> 0, cancelReq |-> FALSE,
             permanent |-> FALSE, lease |-> "none"]

At(pc) == [pc |-> pc, job |-> NoJob, attempt |-> 0, err |-> "none",
           watch |-> "off", watched |-> "running"]

Init ==
  /\ jobs = [j \in Jobs |-> Unqueued]
  /\ worker = [w \in Workers |-> At("idle")]
  /\ cancel = [j \in Jobs |-> "idle"]
  /\ access = [granted |-> TRUE, library |-> "live"]
  /\ spent = [crashes |-> 0, unacked |-> 0, changes |-> 0, cancels |-> 0]

-----------------------------------------------------------------------------
(* What a statement sees. *)

\* Every statement on ingest_jobs runs under the row-level policies: without
\* the editor role, or on a deleted library, it matches no row.
Visible == access.granted /\ access.library = "live"

\* A claim holds the row lock its FOR UPDATE took until it commits.
Unlocked(j) == \A w \in Workers : ~ (worker[w].pc = "claiming" /\ worker[w].job = j)

Lapsed(j) == jobs[j].status = "running" /\ jobs[j].lease = "lapsed"

\* The WHERE clause of ClaimJob.
Claimable(j) ==
  /\ ~ jobs[j].cancelReq
  /\ jobs[j].attempts < MaxAttempts
  /\ jobs[j].status = "queued" \/ Lapsed(j)

\* Faulty: a crash on the last attempt is not swept.
StrandedByCancel(j) == Lapsed(j) /\ jobs[j].cancelReq

\* The WHERE clause of SweepStrandedJobs.
Stranded(j) ==
  /\ Lapsed(j)
  /\ jobs[j].cancelReq \/ jobs[j].attempts >= MaxAttempts

Executing(w) == worker[w].pc \in {"claimed", "running", "unwinding", "returned"}

\* Faulty: the fence does not compare the attempt.
FencedByStatus(w) == Visible /\ jobs[worker[w].job].status = "running"

\* Faulty: the fence does not compare the status.
FencedByAttempt(w) == Visible /\ jobs[worker[w].job].attempts = worker[w].attempt

\* The fence on every write of a worker: the job still runs under the attempt
\* the worker claimed it as.
Fenced(w) ==
  /\ Visible
  /\ jobs[worker[w].job].status = "running"
  /\ jobs[worker[w].job].attempts = worker[w].attempt

\* The workers that execute the attempt the row is at: they renew its lease.
Holders(j) ==
  {w \in Workers : Executing(w) /\ worker[w].job = j /\ worker[w].attempt = jobs[j].attempts}

\* Somebody is alive to renew the lease on j.
HolderAlive(j) == Holders(j) # {}

\* A poll has passed over the lease that was granted before it: nothing renews
\* it before it ends.
Overdue(j) == jobs[j].lease = "old" /\ \E w \in Holders(j) : worker[w].watch = "renewed"

-----------------------------------------------------------------------------
(* The requester. *)

\* Jobs.Add inserts the row; the policies look at the grant and the library as
\* they are now.  Ids are handed out in order: the next is the least unused.
Enqueue(j) ==
  /\ Visible
  /\ jobs[j].status = "none"
  /\ \A i \in Jobs : i < j => jobs[i].status # "none"
  /\ jobs' = [jobs EXCEPT ![j].status = "inserting"]
  /\ UNCHANGED <<worker, cancel, access, spent>>

\* Its transaction counts the queue and commits; nobody else saw the row before,
\* so a library deleted in between did not fail the job.
EnqueueCommit(j) ==
  /\ jobs[j].status = "inserting"
  /\ jobs' = [jobs EXCEPT ![j].status = "queued"]
  /\ UNCHANGED <<worker, cancel, access, spent>>

\* The first transaction of RequestCancel reads the status; a job that already
\* finished is answered from it.
ReadForCancel(j) ==
  /\ Visible
  /\ cancel[j] \notin InFlight
  /\ spent.cancels < MaxCancels
  /\ jobs[j].status \in Active \cup Finished
  /\ cancel' = [cancel EXCEPT ![j] =
                  CASE jobs[j].status = "queued"  -> "readQueued"
                    [] jobs[j].status = "running" -> "readRunning"
                    [] OTHER                      -> "finished"]
  /\ spent' = [spent EXCEPT !.cancels = @ + 1]
  /\ UNCHANGED <<jobs, worker, access>>

\* The row RequestJobCancel leaves.
Cancelled(row) ==
  CASE row.status = "queued"  -> [row EXCEPT !.status = "cancelled", !.cancelReq = FALSE]
    [] row.status = "running" -> [row EXCEPT !.cancelReq = TRUE]
    [] OTHER                  -> row

\* The second transaction updates the row as it is by then, and the caller is
\* answered from the status the first one read.
RequestCancel(j) ==
  /\ cancel[j] \in InFlight
  /\ Unlocked(j)
  /\ jobs' = [jobs EXCEPT ![j] = IF Visible THEN Cancelled(@) ELSE @]
  /\ cancel' = [cancel EXCEPT ![j] = IF @ = "readQueued" THEN "cancelled" ELSE "cancelling"]
  /\ UNCHANGED <<worker, access, spent>>

-----------------------------------------------------------------------------
(* The library's administrators, and time. *)

Change == [spent EXCEPT !.changes = @ + 1]

\* The requester loses the editor role: revoke_library, or leaving a group that
\* has the role, whatever has become of the library.
RevokeGrant ==
  /\ access.granted
  /\ spent.changes < MaxChanges
  /\ access' = [access EXCEPT !.granted = FALSE]
  /\ spent' = Change
  /\ UNCHANGED <<jobs, worker, cancel>>

\* The requester has it again: accept_invitation, or joining such a group.
GrantAgain ==
  /\ ~ access.granted
  /\ access.library # "purged"
  /\ access' = [access EXCEPT !.granted = TRUE]
  /\ UNCHANGED <<jobs, worker, cancel, spent>>

\* Faulty: the running jobs are left to their workers.
DeleteLibraryQueuedOnly ==
  /\ access.library = "live"
  /\ spent.changes < MaxChanges
  /\ access' = [access EXCEPT !.library = "deleted"]
  /\ jobs' = [j \in Jobs |-> IF jobs[j].status = "queued"
                            THEN [jobs[j] EXCEPT !.status = "failed", !.permanent = TRUE]
                            ELSE jobs[j]]
  /\ spent' = Change
  /\ UNCHANGED <<worker, cancel>>

\* delete_library hides the library and fails its active jobs.
DeleteLibrary ==
  /\ access.library = "live"
  /\ spent.changes < MaxChanges
  /\ \A j \in Jobs : jobs[j].status \in Active => Unlocked(j)
  /\ access' = [access EXCEPT !.library = "deleted"]
  /\ jobs' = [j \in Jobs |->
                IF jobs[j].status \in Active
                THEN [jobs[j] EXCEPT !.status = "failed", !.permanent = TRUE, !.lease = "none"]
                ELSE jobs[j]]
  /\ spent' = Change
  /\ UNCHANGED <<worker, cancel>>

RestoreLibrary ==
  /\ access.library = "deleted"
  /\ access' = [access EXCEPT !.library = "live"]
  /\ UNCHANGED <<jobs, worker, cancel, spent>>

\* The grace period of a deleted library runs out; no transaction is open for
\* so long.
GraceEnds ==
  /\ access.library = "deleted"
  /\ \A j \in Jobs : jobs[j].status # "inserting"
  /\ access' = [access EXCEPT !.library = "expired"]
  /\ UNCHANGED <<jobs, worker, cancel, spent>>

\* Time passes between two polls of the watcher.  It matters only where there is
\* another worker to take the job over.
LeaseAges(j) ==
  /\ ~ Stalls
  /\ jobs[j].status = "running"
  /\ jobs[j].lease = "live"
  /\ \E w \in Holders(j) : worker[w].watch = "asleep" /\ Workers # {w}
  /\ jobs' = [jobs EXCEPT ![j].lease = "old"]
  /\ UNCHANGED <<worker, cancel, access, spent>>

\* lease_until passes now() on the database's clock.
LeaseLapse(j) ==
  /\ jobs[j].status = "running"
  /\ jobs[j].lease \in {"live", "old"}
  /\ jobs' = [jobs EXCEPT ![j].lease = "lapsed"]
  /\ UNCHANGED <<worker, cancel, access, spent>>

\* A lease nobody is alive to renew.
LeaseRunsOut(j) == ~ HolderAlive(j) /\ LeaseLapse(j)

\* A lease its holder does not renew in time: after a long pause or with a
\* database out of reach (a stall), or because a poll left it as it was.
LeaseOutlived(j) == HolderAlive(j) /\ (Stalls \/ Overdue(j)) /\ LeaseLapse(j)

-----------------------------------------------------------------------------
(* A worker looks for a job. *)

Moves(w, state) == worker' = [worker EXCEPT ![w] = state]

\* Faulty: a lapsed job of somebody without the role is overlooked.
UnclaimableQueued(j) == ~ access.granted /\ jobs[j].status = "queued"

\* Queued, or left by a dead worker, by somebody who lost the editor role.
Unclaimable(j) ==
  /\ ~ access.granted
  /\ jobs[j].status = "queued" \/ Lapsed(j)

\* Queues.Waiting: purge the libraries past their grace period, fail the jobs
\* nobody can be written as, and list this queue if it has work.  It is three
\* statements; a change between two of them is met in the next round.
Round(w) ==
  /\ worker[w].pc = "idle"
  /\ w \notin Pinned
  /\ \A j \in Jobs : Unclaimable(j) => Unlocked(j)
  /\ access' = [access EXCEPT !.library = IF @ = "expired" THEN "purged" ELSE @]
  /\ jobs' = [j \in Jobs |->
                CASE access'.library = "purged" /\ jobs[j].status # "none" ->
                       [Unqueued EXCEPT !.status = "gone"]
                  [] access'.library # "purged" /\ Unclaimable(j) ->
                       [jobs[j] EXCEPT !.status = "failed", !.permanent = TRUE, !.lease = "none"]
                  [] OTHER -> jobs[j]]
  /\ LET waiting == Visible /\ \E j \in Jobs : jobs[j].status = "queued" \/ Lapsed(j)
     IN  Moves(w, At(IF waiting THEN "serving" ELSE "idle"))
  /\ UNCHANGED <<cancel, spent>>

\* A pinned worker goes straight to its queue.
ServePinned(w) ==
  /\ worker[w].pc = "idle"
  /\ w \in Pinned
  /\ Moves(w, At("serving"))
  /\ UNCHANGED <<jobs, cancel, access, spent>>

\* Claim begins by ending the jobs no worker will ever finish.
Sweep(w) ==
  /\ worker[w].pc = "serving"
  /\ jobs' = [j \in Jobs |->
                IF Visible /\ Stranded(j)
                THEN [jobs[j] EXCEPT
                        !.status = IF jobs[j].cancelReq THEN "cancelled" ELSE "failed",
                        !.lease = "none"]
                ELSE jobs[j]]
  /\ Moves(w, At("swept"))
  /\ UNCHANGED <<cancel, access, spent>>

Candidates == {j \in Jobs : Visible /\ Claimable(j) /\ Unlocked(j)}

\* ClaimJob locks the oldest row nobody else has locked ...
ClaimLock(w) ==
  /\ worker[w].pc = "swept"
  /\ \E j \in Candidates :
       /\ \A i \in Candidates : j <= i
       /\ Moves(w, [At("claiming") EXCEPT !.job = j])
  /\ UNCHANGED <<jobs, cancel, access, spent>>

\* ... or finds none, and the worker goes round again.
ClaimNone(w) ==
  /\ worker[w].pc = "swept"
  /\ Candidates = {}
  /\ Moves(w, At("idle"))
  /\ UNCHANGED <<jobs, cancel, access, spent>>

\* Faulty: attempts is counted up on the first claim only.
ClaimCommitSameAttempt(w) ==
  /\ worker[w].pc = "claiming"
  /\ jobs' = [jobs EXCEPT ![worker[w].job] =
                [@ EXCEPT !.status = "running", !.attempts = 1, !.lease = "live"]]
  /\ Moves(w, [At("claimed") EXCEPT !.job = worker[w].job, !.attempt = 1])
  /\ UNCHANGED <<cancel, access, spent>>

\* The row ClaimJob leaves.
Claimed(row) == [row EXCEPT !.status = "running", !.attempts = @ + 1, !.lease = "live"]

\* The claim commits, and the worker keeps the attempt it was given.
ClaimCommit(w) ==
  /\ worker[w].pc = "claiming"
  /\ jobs' = [jobs EXCEPT ![worker[w].job] = Claimed(@)]
  /\ Moves(w, [At("claimed") EXCEPT !.job = worker[w].job,
                                    !.attempt = jobs[worker[w].job].attempts + 1])
  /\ UNCHANGED <<cancel, access, spent>>

-----------------------------------------------------------------------------
(* A worker executes its job. *)

\* sources.For built the source; the watcher starts beside the ingest.
OpenSource(w) ==
  /\ worker[w].pc = "claimed"
  /\ Moves(w, [worker[w] EXCEPT !.pc = "running", !.watch = "asleep"])
  /\ UNCHANGED <<jobs, cancel, access, spent>>

\* sources.For failed: a missing root is worth a retry, anything else is not.
\* No watcher was started.
SourceError(w, err) ==
  /\ worker[w].pc = "claimed"
  /\ Moves(w, [worker[w] EXCEPT !.pc = "returned", !.err = err, !.watch = "over"])
  /\ UNCHANGED <<jobs, cancel, access, spent>>

\* RecordProgress: a fenced write that renews the lease, its error ignored.
Progress(w) ==
  /\ worker[w].pc = "running"
  /\ Unlocked(worker[w].job)
  /\ Fenced(w)
  /\ jobs' = [jobs EXCEPT ![worker[w].job].lease = "live"]
  /\ UNCHANGED <<worker, cancel, access, spent>>

\* Faulty: the watcher polls for a cancel request and renews nothing.
WatchRenewPollsOnly(w) ==
  /\ worker[w].watch = "asleep"
  /\ Moves(w, [worker[w] EXCEPT !.watch = "renewed"])
  /\ UNCHANGED <<jobs, cancel, access, spent>>

\* The first half of check: RenewLease, which tells the watcher of a lost job; any
\* other error is only logged, and is a stall.  The poll's timer may still win the
\* race with the end of the ingest.
WatchRenew(w) ==
  /\ worker[w].watch = "asleep"
  /\ Unlocked(worker[w].job)
  /\ \/ /\ Fenced(w)
        /\ jobs' = [jobs EXCEPT ![worker[w].job].lease = "live"]
        /\ Moves(w, [worker[w] EXCEPT !.watch = "renewed"])
     \/ /\ ~ Fenced(w)
        /\ Moves(w, [worker[w] EXCEPT !.watch = "over", !.watched = "lost"])
        /\ UNCHANGED jobs
     \/ /\ Stalls
        /\ Moves(w, [worker[w] EXCEPT !.watch = "renewed"])
        /\ UNCHANGED jobs
  /\ UNCHANGED <<cancel, access, spent>>

\* The second half: CancelRequested, which takes a row it cannot see for one
\* nobody is waiting for.  A read that fails is not a cancellation.
WatchRead(w) ==
  /\ worker[w].watch = "renewed"
  /\ \E requested \in {FALSE, Visible => jobs[worker[w].job].cancelReq} :
         Moves(w, [worker[w] EXCEPT
                     !.watched = IF requested THEN "cancelled" ELSE @,
                     !.watch = IF requested \/ worker[w].pc = "returned"
                               THEN "over" ELSE "asleep"])
  /\ UNCHANGED <<jobs, cancel, access, spent>>

\* The ingest ended, and the sleeping watcher is told to stop.
WatchStop(w) ==
  /\ worker[w].pc = "returned"
  /\ worker[w].watch = "asleep"
  /\ Moves(w, [worker[w] EXCEPT !.watch = "over"])
  /\ UNCHANGED <<jobs, cancel, access, spent>>

Completed(row) == [row EXCEPT !.status = "done", !.lease = "none"]

\* MarkReady: the document is published and the job completed in one
\* transaction.
Publish(w) ==
  /\ worker[w].pc = "running"
  /\ Unlocked(worker[w].job)
  /\ Fenced(w)
  /\ jobs' = [jobs EXCEPT ![worker[w].job] = Completed(@)]
  /\ Moves(w, [worker[w] EXCEPT !.pc = "returned", !.err = "published"])
  /\ UNCHANGED <<cancel, access, spent>>

\* The same transaction commits, its answer is lost on the way back, and the
\* ingest cleans up after what it takes for a failure.
PublishUnacked(w) ==
  /\ worker[w].pc = "running"
  /\ spent.unacked < MaxUnacked
  /\ Unlocked(worker[w].job)
  /\ Fenced(w)
  /\ jobs' = [jobs EXCEPT ![worker[w].job] = Completed(@)]
  /\ Moves(w, [worker[w] EXCEPT !.pc = "unwinding", !.err = "transient"])
  /\ spent' = [spent EXCEPT !.unacked = @ + 1]
  /\ UNCHANGED <<cancel, access>>

\* The source's bytes are held already: nothing is written.
Unchanged(w) ==
  /\ worker[w].pc = "running"
  /\ Moves(w, [worker[w] EXCEPT !.pc = "returned", !.err = "unchanged"])
  /\ UNCHANGED <<jobs, cancel, access, spent>>

\* A step of the ingest fails.  MarkReady reports a lost claim when its fence
\* does not match, and only the watcher cancels the ingest's context.
IngestFails(w, err) ==
  /\ worker[w].pc = "running"
  /\ err = "lostClaim" => Unlocked(worker[w].job) /\ ~ Fenced(w)
  /\ err = "cancelled" => worker[w].watch = "over"
  /\ Moves(w, [worker[w] EXCEPT !.pc = "unwinding", !.err = err])
  /\ UNCHANGED <<jobs, cancel, access, spent>>

\* The failed ingest has removed what it wrote, and returns.
Unwind(w) ==
  /\ worker[w].pc = "unwinding"
  /\ Moves(w, [worker[w] EXCEPT !.pc = "returned"])
  /\ UNCHANGED <<jobs, cancel, access, spent>>

\* Faulty: one attempt short.
VerdictEarly(w) ==
  IF worker[w].err \in {"published", "lostClaim"} \/ worker[w].watched = "lost" THEN "leave"
  ELSE IF worker[w].attempt + 1 >= MaxAttempts THEN "fail" ELSE "requeue"

\* Faulty: the cancelled context is looked at before the timeout that caused it.
VerdictTimeoutCancels(w) ==
  IF worker[w].err \in {"published", "lostClaim"} \/ worker[w].watched = "lost" THEN "leave"
  ELSE IF worker[w].watched = "cancelled" \/ worker[w].err \in {"cancelled", "timeout"} THEN "cancel"
  ELSE "failPermanently"

\* The switch at the end of execute, in its order.
Verdict(w) ==
  LET r == worker[w] IN
  IF r.err = "published" THEN "leave"
  ELSE IF r.err = "unchanged" THEN "complete"
  ELSE IF r.watched = "lost" \/ r.err = "lostClaim" THEN "leave"
  ELSE IF r.err = "timeout" THEN "failPermanently"
  ELSE IF r.watched = "cancelled" \/ r.err = "cancelled" THEN "cancel"
  ELSE IF r.err = "permanent" THEN "failPermanently"
  ELSE IF r.attempt >= MaxAttempts THEN "fail"
  ELSE "requeue"

\* The row the verdict's write leaves.
Settled(row, verdict) ==
  CASE verdict = "complete"        -> Completed(row)
    [] verdict = "cancel"          -> [row EXCEPT !.status = "cancelled", !.lease = "none"]
    [] verdict = "failPermanently" -> [row EXCEPT !.status = "failed", !.permanent = TRUE,
                                                  !.lease = "none"]
    [] verdict = "fail"            -> [row EXCEPT !.status = "failed", !.permanent = FALSE,
                                                  !.lease = "none"]
    [] verdict = "requeue"         -> [row EXCEPT !.status = "queued", !.permanent = FALSE,
                                                  !.lease = "none"]
    [] OTHER                       -> row

\* The watcher has been joined and the verdict is written.  A write the fence
\* refuses is an error: a pinned worker exits on it, a rotation only when every
\* queue it served failed.
Settle(w) ==
  /\ worker[w].pc = "returned"
  /\ worker[w].watch = "over"
  /\ Unlocked(worker[w].job)
  /\ \/ /\ Verdict(w) = "leave" \/ Fenced(w)
        /\ jobs' = [jobs EXCEPT ![worker[w].job] = Settled(@, Verdict(w))]
        /\ Moves(w, At("idle"))
     \/ /\ Verdict(w) # "leave" /\ ~ Fenced(w)
        /\ UNCHANGED jobs
        /\ \/ Moves(w, At("down"))
           \/ w \notin Pinned /\ Moves(w, At("idle"))
  /\ UNCHANGED <<cancel, access, spent>>

-----------------------------------------------------------------------------
(* Processes die and are restarted. *)

\* A crash, or a database error that ends the process.  The database releases
\* what it had locked.
Crash(w) ==
  /\ worker[w].pc # "down"
  /\ spent.crashes < MaxCrashes
  /\ Moves(w, At("down"))
  /\ spent' = [spent EXCEPT !.crashes = @ + 1]
  /\ UNCHANGED <<jobs, cancel, access>>

\* The supervisor restarts a worker that exited.
Restart(w) ==
  /\ worker[w].pc = "down"
  /\ Moves(w, At("idle"))
  /\ UNCHANGED <<jobs, cancel, access, spent>>

-----------------------------------------------------------------------------
Serve(w) ==
  \/ Round(w) \/ ServePinned(w) \/ Sweep(w)
  \/ ClaimLock(w) \/ ClaimNone(w) \/ ClaimCommit(w)
  \/ OpenSource(w) \/ \E err \in {"transient", "permanent"} : SourceError(w, err)
  \/ Settle(w)

Watch(w) == WatchRenew(w) \/ WatchRead(w) \/ WatchStop(w)

IngestEnds(w) ==
  \/ Publish(w) \/ PublishUnacked(w) \/ Unchanged(w)
  \/ \E err \in IngestErrs : IngestFails(w, err)
  \/ Unwind(w)

Next ==
  \/ \E j \in Jobs : Enqueue(j) \/ EnqueueCommit(j) \/ ReadForCancel(j)
                     \/ RequestCancel(j) \/ LeaseAges(j) \/ LeaseRunsOut(j) \/ LeaseOutlived(j)
  \/ RevokeGrant \/ GrantAgain \/ DeleteLibrary \/ RestoreLibrary \/ GraceEnds
  \/ \E w \in Workers : Serve(w) \/ Watch(w) \/ Progress(w) \/ IngestEnds(w)
                        \/ Crash(w) \/ Restart(w)

Spec == Init /\ [][Next]_vars

\* A live process takes its steps, an ingest ends because JobTimeout cancels
\* it, the supervisor restarts what exited, a transaction or a call that began
\* is carried out, and time passes.  Nothing obliges a person to act, or a
\* lease to lapse under a live worker.
Fairness ==
  /\ \A w \in Workers : /\ WF_vars(Serve(w)) /\ WF_vars(Watch(w))
                        /\ WF_vars(IngestEnds(w)) /\ WF_vars(Restart(w))
  /\ \A j \in Jobs : /\ WF_vars(EnqueueCommit(j)) /\ WF_vars(RequestCancel(j))
                     /\ WF_vars(LeaseRunsOut(j))
  /\ WF_vars(GraceEnds)

FairSpec == Spec /\ Fairness

-----------------------------------------------------------------------------
(* What the queue promises. *)

\* The attempt number is a fencing token: no two workers ever hold the same
\* attempt of a job, and none holds one the row has not reached.
\* (ClaimJob's FOR UPDATE SKIP LOCKED, and attempts + 1.)
ClaimsAreExclusive ==
  /\ \A w \in Workers : Executing(w) => worker[w].attempt <= jobs[worker[w].job].attempts
                                         \/ jobs[worker[w].job].status = "gone"
  /\ \A v, w \in Workers :
       v # w /\ Executing(v) /\ Executing(w) /\ worker[v].job = worker[w].job
         => worker[v].attempt # worker[w].attempt

\* As long as nothing stalls a worker past its lease, a job is executed by one
\* worker at a time, however long it runs.  (watchForCancel renews the lease
\* beside an extraction that reports nothing.)
RunsAlone ==
  ~ Stalls => \A v, w \in Workers :
                v # w /\ Executing(v) /\ Executing(w) => worker[v].job # worker[w].job

\* A job that failed without being marked permanent spent every attempt.
\* (fail computes "exhausted"; the permanent flag "carries that distinction".)
FailedHonestly ==
  \A j \in Jobs : jobs[j].status = "failed" /\ ~ jobs[j].permanent
                    => jobs[j].attempts = MaxAttempts

\* No job runs in a deleted library, whatever its workers were doing when it was
\* deleted; one whose insert raced the deletion may still wait.
\* (delete_library against ClaimJob.)
DeletedIsQuiet ==
  access.library # "live" => \A j \in Jobs : jobs[j].status # "running"

\* Only somebody's request cancels a job.  ("Only the operator cancels a job",
\* execute.)
CancelledOnlyWhenAsked ==
  \A j \in Jobs : jobs[j].status = "cancelled" => cancel[j] # "idle"

\* A running job is completed or put back only by the worker that holds its
\* current attempt, and by a step of that worker: one that lost its claim
\* changes nothing.  (The fence on every worker write.)
OnlyTheHolderFinishes ==
  [][\A j \in Jobs :
       jobs[j].status = "running" /\ jobs'[j].status \in {"done", "queued"}
         => \E w \in Workers : /\ Executing(w)
                               /\ worker[w].job = j
                               /\ worker[w].attempt = jobs[j].attempts
                               /\ worker'[w] # worker[w]]_vars

\* A finished job keeps the status it finished with, through retries, late
\* cancellations, sweeps, and the library's deletion and restoration.
\* ("A job already finished is left as it ended", RequestJobCancel.)
FinishedStaysFinished ==
  [][\A j \in Jobs : jobs[j].status \in Finished
       => jobs'[j].status \in {jobs[j].status, "gone"}]_vars

\* A job that was asked to stop is never started again, even when its worker
\* fails before it sees the request.  (cancel_req = false in ClaimJob.)
AskedToStopNeverRestarts ==
  [][\A j \in Jobs : jobs[j].cancelReq => jobs'[j].attempts <= jobs[j].attempts]_vars

\* Put back on the queue with its cancel request still set: neither ClaimJob
\* nor SweepStrandedJobs matches it.
Forgotten(j) == jobs[j].status = "queued" /\ jobs[j].cancelReq

\* Every queued job ends, whichever worker dies holding it, unless it is
\* forgotten.  (The lease, the sweep and the attempt ceiling together.)
EveryJobEnds ==
  \A j \in Jobs : jobs[j].status = "queued"
                    ~> (jobs[j].status \in Finished \cup {"gone"} \/ Forgotten(j))

\* A running job that was asked to stop ends.  ("a running one is asked, and
\* its worker stops at the next checkpoint", RequestJobCancel.)
CancelEndsTheJob ==
  \A j \in Jobs : jobs[j].status = "running" /\ jobs[j].cancelReq
                    ~> jobs[j].status \in Finished \cup {"gone"}

=============================================================================
