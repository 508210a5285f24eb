---------------------------- MODULE IngestProofs ----------------------------
(***************************************************************************)
(* Proofs about Ingest: with its documents it is still the queue JobQueue  *)
(* describes, so what is proved of that queue holds of it; with one worker *)
(* a document a search can see is whole; with one worker and no crash no   *)
(* source has two documents and nothing is left of an ingest that failed;  *)
(* and where, besides, no commit goes unheard and nobody changes a         *)
(* library's members meanwhile, the documents a reader sees are those of   *)
(* module LibraryView.                                                     *)
(***************************************************************************)
EXTENDS Ingest, JobQueueProofs

-----------------------------------------------------------------------------
(* The queue under the documents. *)

\* Every step of the ingest is a step of the queue, or none of it.
LEMMA QueueStep ==
  ASSUME [IngestNext]_allVars
  PROVE  [Next]_vars
<1>1. ASSUME NEW w \in Workers,
             \/ StartIngest(w) \/ Acquire(w) \/ Destination(w) \/ Prepare(w) \/ Create(w)
             \/ AddChunks(w) \/ MarkReady(w) \/ Fails(w) \/ CleanUp(w)
      PROVE  \/ OpenSource(w) \/ IngestEnds(w) \/ UNCHANGED vars
  <2>1. \A err \in IngestErrs : IngestFails(w, err) => IngestEnds(w)
    BY Zenon DEF IngestEnds
  <2>2. {"transient", "lostClaim"} \subseteq IngestErrs
    BY DEF IngestErrs
  <2>3. IngestFails(w, "transient") \/ IngestFails(w, "lostClaim") => IngestEnds(w)
    BY <2>1, <2>2
  <2>4. Fails(w) => IngestEnds(w)
    BY <2>1, Zenon DEF Fails
  <2>5. Unchanged(w) \/ Publish(w) \/ PublishUnacked(w) \/ Unwind(w) => IngestEnds(w)
    BY Zenon DEF IngestEnds
  <2>6. Acquire(w) => Unchanged(w) \/ UNCHANGED vars
    BY Zenon DEF Acquire
  <2>7. Create(w) \/ AddChunks(w) => IngestFails(w, "transient") \/ UNCHANGED vars
    BY Zenon DEF Create, AddChunks
  <2>8. MarkReady(w) => Publish(w) \/ PublishUnacked(w) \/ IngestFails(w, "lostClaim")
    BY Zenon DEF MarkReady
  <2> QED
    BY <1>1, <2>3, <2>4, <2>5, <2>6, <2>7, <2>8, Zenon DEF StartIngest, Destination, Prepare, CleanUp
<1>2. ASSUME NEW w \in Workers, SettleDocs(w) \/ SweepDocs(w) \/ RoundDocs(w) \/ CrashIngest(w)
      PROVE  Settle(w) \/ Sweep(w) \/ Round(w) \/ Crash(w)
  BY <1>2, Zenon DEF SettleDocs, SweepDocs, RoundDocs, CrashIngest
<1>3. ASSUME NEW s \in Sources, Edit(s)
      PROVE  UNCHANGED vars
  BY <1>3, Zenon DEF Edit
<1>4. CASE QueueOnly
  BY <1>4, Zenon DEF QueueOnly, Next, Serve
<1>5. UNCHANGED allVars => UNCHANGED vars
  BY Zenon DEF allVars
<1>6. ASSUME NEW w \in Workers,
             OpenSource(w) \/ IngestEnds(w) \/ Settle(w) \/ Sweep(w) \/ Round(w) \/ Crash(w)
      PROVE  Next
  BY <1>6, Zenon DEF Next, Serve
<1> QED
  BY <1>1, <1>2, <1>3, <1>4, <1>5, <1>6, Zenon DEF IngestNext

\* Whatever its ingests write, the queue of Ingest is that of JobQueue: every
\* step of Service.Run and of the worker around it is a step of the queue or
\* leaves the queue alone.
THEOREM IngestIsQueue == IngestSpec => Spec
<1>1. IngestInit => Init
  BY DEF IngestInit
<1>2. [IngestNext]_allVars => [Next]_vars
  BY QueueStep
<1> QED
  BY <1>1, <1>2, PTL DEF IngestSpec, Spec

\* So no two ingests ever hold the same attempt of a job, and a job is
\* completed only by the ingest that holds it.
THEOREM IngestFenced == IngestSpec => []ClaimsAreExclusive /\ OnlyTheHolderFinishes
BY IngestIsQueue, Fencing, HolderFinishes, PTL

-----------------------------------------------------------------------------
(* Whole documents.  Two workers may write under one identifier, so this    *)
(* much is for a single worker: every queue has one unless the operator     *)
(* starts more.                                                             *)

OneWorker == \A v, w \in Workers : v = w

Fields == {"phase", "digest", "source", "replacing", "doc", "batch"}
RunTypeOK == DOMAIN ingest = Workers /\ \A w \in Workers : DOMAIN ingest[w] = Fields

\* The first n batches, as the attempt of w writes them.
ChunksOf(w, n) ==
  [by : {<<worker[w].job, worker[w].attempt>>}, digest : {ingest[w].digest}, batch : 1 .. n]

\* What the ingest of w has written so far is what stands under its identifier,
\* and no search sees it.
Written(w) ==
  StagedID(w) \in DOMAIN docs =>
    /\ docs[StagedID(w)].status = "ingesting"
    /\ docs[StagedID(w)].digest = ingest[w].digest
    /\ docs[StagedID(w)].chunks = ChunksOf(w, ingest[w].batch)
    /\ DOMAIN docs[StagedID(w)] = {"status", "source", "digest", "chunks"}

Filling ==
  \A w \in Workers : worker[w].pc = "running" =>
    IF ingest[w].phase = "fill" THEN ingest[w].batch \in Nat /\ Written(w) ELSE ingest[w].batch = 0

WholeInv == RunTypeOK /\ Filling /\ ReadyIsWhole

\* One more batch.
LEMMA ChunksGrow ==
  ASSUME NEW by, NEW digest, NEW n \in Nat
  PROVE  [by : {by}, digest : {digest}, batch : 1 .. n + 1]
           = [by : {by}, digest : {digest}, batch : 1 .. n]
               \cup {[by |-> by, digest |-> digest, batch |-> n + 1]}
<1> DEFINE More == [by : {by}, digest : {digest}, batch : 1 .. n + 1]
           Less == [by : {by}, digest : {digest}, batch : 1 .. n]
           last == [by |-> by, digest |-> digest, batch |-> n + 1]
<1>1. \A c \in Less : c \in More
  OBVIOUS
<1>2. last \in More
  OBVIOUS
<1>3. ASSUME NEW c \in More
      PROVE  c \in Less \/ c = last
  <2>1. c = [by |-> by, digest |-> digest, batch |-> c.batch] /\ c.batch \in 1 .. n + 1
    OBVIOUS
  <2>2. c.batch \in 1 .. n \/ c.batch = n + 1
    BY <2>1
  <2> QED
    BY <2>1, <2>2
<1> HIDE DEF More, Less, last
<1>4. More = Less \cup {last}
  BY <1>1, <1>2, <1>3
<1> QED
  BY <1>4 DEF More, Less, last

\* Deleting documents tears none.
LEMMA DeletingKeepsWhole ==
  ASSUME ReadyIsWhole, NEW gone, docs' = Without(gone)
  PROVE  ReadyIsWhole'
BY DEF ReadyIsWhole, Without, Ready, Whole

\* Nor does writing under an identifier no search sees.
LEMMA WritingKeepsWhole ==
  ASSUME ReadyIsWhole, NEW d, d \in DOMAIN docs' => docs'[d].status # "ready",
         \A e \in DOMAIN docs' \ {d} : e \in DOMAIN docs /\ docs'[e] = docs[e]
  PROVE  ReadyIsWhole'
<1> SUFFICES ASSUME NEW e \in DOMAIN docs', docs'[e].status = "ready"
             PROVE  Whole(e)'
  BY DEF ReadyIsWhole, Ready
<1>1. e \in DOMAIN docs /\ docs'[e] = docs[e]
  OBVIOUS
<1>2. Whole(e)
  BY <1>1 DEF ReadyIsWhole, Ready
<1> QED
  BY <1>1, <1>2 DEF Whole

\* A step that leaves the documents alone, and each ingest that goes on where
\* it was.
LEMMA WholeFrame ==
  ASSUME WholeInv, UNCHANGED docs, RunTypeOK',
         \A w \in Workers : worker'[w].pc = "running" =>
           \/ /\ ingest'[w].phase # "fill" /\ ingest'[w].batch = 0
           \/ /\ ingest'[w] = ingest[w] /\ worker[w].pc = "running"
              /\ worker'[w].job = worker[w].job /\ worker'[w].attempt = worker[w].attempt
  PROVE  WholeInv'
<1>1. ReadyIsWhole'
  BY DEF WholeInv, ReadyIsWhole, Ready, Whole
<1>2. Filling'
  <2> SUFFICES ASSUME NEW w \in Workers, worker'[w].pc = "running"
               PROVE  IF ingest'[w].phase = "fill" THEN ingest'[w].batch \in Nat /\ Written(w)'
                      ELSE ingest'[w].batch = 0
    BY DEF Filling
  <2>1. CASE ingest'[w].phase # "fill" /\ ingest'[w].batch = 0
    BY <2>1
  <2>2. CASE /\ ingest'[w] = ingest[w] /\ worker[w].pc = "running"
             /\ worker'[w].job = worker[w].job /\ worker'[w].attempt = worker[w].attempt
    <3>1. Written(w) => Written(w)'
      BY <2>2 DEF Written, StagedID, ChunksOf
    <3> QED
      BY <2>2, <3>1 DEF WholeInv, Filling
  <2> QED
    BY <2>1, <2>2
<1> QED
  BY <1>1, <1>2 DEF WholeInv

\* The worker is between the start of an ingest and its verdict.
Busy(w) == worker[w].pc \in {"running", "unwinding", "returned"}

\* The step leaves the ingest of w where it was.
GoesOn(w) ==
  /\ worker'[w].pc = worker[w].pc /\ worker'[w].err = worker[w].err
  /\ worker'[w].job = worker[w].job /\ worker'[w].attempt = worker[w].attempt

\* sources.For failed, and there was no ingest.
NeverStarted(w) ==
  worker[w].pc = "claimed" /\ worker'[w].pc = "returned" /\ worker'[w].err # "unchanged"

\* The steps of the queue that no ingest takes start none and end none.
LEMMA QueueOnlyKeeps ==
  ASSUME IInv, QueueOnly
  PROVE  \A w \in Workers : GoesOn(w) \/ NeverStarted(w) \/ (~ Busy(w) /\ ~ Busy(w)')
<1> USE DEF IInv, TypeOK
<1> SUFFICES ASSUME NEW w \in Workers
             PROVE  GoesOn(w) \/ NeverStarted(w) \/ (~ Busy(w) /\ ~ Busy(w)')
  OBVIOUS
<1>0. worker[w] \in WorkerState
  OBVIOUS
<1>1. ASSUME worker'[w] = worker[w]
      PROVE  GoesOn(w)
  BY <1>1 DEF GoesOn
<1>2. ASSUME NEW v \in Workers, NEW state, Moves(v, state), worker[v].pc \notin {"running", "unwinding", "returned"},
             state.pc \notin {"running", "unwinding", "returned"}
      PROVE  GoesOn(w) \/ (~ Busy(w) /\ ~ Busy(w)')
  <2>1. worker'[v] = state /\ (v # w => worker'[w] = worker[w])
    BY <1>2, MovesOne
  <2> QED
    BY <1>1, <1>2, <2>1 DEF Busy
<1>3. ASSUME NEW v \in Workers, ClaimLock(v)
      PROVE  GoesOn(w) \/ (~ Busy(w) /\ ~ Busy(w)')
  <2>1. PICK j \in Candidates : Moves(v, [At("claiming") EXCEPT !.job = j])
    BY <1>3 DEF ClaimLock
  <2>2. worker[v].pc = "swept" /\ [At("claiming") EXCEPT !.job = j].pc = "claiming"
    BY <1>3 DEF ClaimLock, At
  <2> QED
    BY <1>2, <2>1, <2>2
<1>4. ASSUME NEW v \in Workers, ClaimCommit(v)
      PROVE  GoesOn(w) \/ (~ Busy(w) /\ ~ Busy(w)')
  <2> DEFINE n == jobs[worker[v].job].attempts + 1
  <2>1. Moves(v, [At("claimed") EXCEPT !.job = worker[v].job, !.attempt = n]) /\ worker[v].pc = "claiming"
    BY <1>4, Zenon DEF ClaimCommit
  <2> HIDE DEF n
  <2>2. [At("claimed") EXCEPT !.job = worker[v].job, !.attempt = n].pc = "claimed"
    BY DEF At
  <2> QED
    BY <1>2, <2>1, <2>2
<1>5. ASSUME NEW v \in Workers, NEW err \in {"transient", "permanent"}, SourceError(v, err)
      PROVE  GoesOn(w) \/ NeverStarted(w)
  <2>1. worker'[v] = [worker[v] EXCEPT !.pc = "returned", !.err = err, !.watch = "over"]
        /\ (v # w => worker'[w] = worker[w]) /\ worker[v].pc = "claimed"
    BY <1>5, MovesOne DEF SourceError
  <2>2. worker'[v].pc = "returned" /\ worker'[v].err = err
    BY <2>1 DEF WorkerState
  <2> QED
    BY <1>1, <2>1, <2>2 DEF NeverStarted
<1>6. ASSUME NEW v \in Workers, Watch(v)
      PROVE  GoesOn(w)
  <2>1. PICK watch, watched : Moves(v, [worker[v] EXCEPT !.watch = watch, !.watched = watched])
    <3>1. CASE WatchRenew(v)
      <4>1. \/ Moves(v, [worker[v] EXCEPT !.watch = "renewed"])
            \/ Moves(v, [worker[v] EXCEPT !.watch = "over", !.watched = "lost"])
        BY <3>1 DEF WatchRenew
      <4>2. [worker[v] EXCEPT !.watch = "renewed"]
              = [worker[v] EXCEPT !.watch = "renewed", !.watched = worker[v].watched]
        BY DEF WorkerState
      <4> QED
        BY <4>1, <4>2
    <3>2. CASE WatchRead(v) \/ WatchStop(v)
      <4>1. PICK a \in {"asleep", "over"}, b \in {"cancelled", worker[v].watched} :
              Moves(v, [worker[v] EXCEPT !.watched = b, !.watch = a])
        BY <3>2 DEF WatchRead, WatchStop, WorkerState
      <4>2. [worker[v] EXCEPT !.watched = b, !.watch = a] = [worker[v] EXCEPT !.watch = a, !.watched = b]
        BY DEF WorkerState
      <4>3. Moves(v, [worker[v] EXCEPT !.watch = a, !.watched = b])
        BY <4>1, <4>2
      <4> QED
        BY <4>3, Zenon
    <3> QED
      BY <1>6, <3>1, <3>2 DEF Watch
  <2>2. CASE v = w
    <3>1. worker'[w] = [worker[w] EXCEPT !.watch = watch, !.watched = watched]
      BY <2>1, <2>2, MovesOne
    <3> QED
      BY <1>0, <3>1 DEF WorkerState, GoesOn
  <2>3. CASE v # w
    BY <1>1, <2>1, <2>3, MovesOne
  <2> QED
    BY <2>2, <2>3
<1>7. ASSUME NEW v \in Workers, ServePinned(v) \/ ClaimNone(v) \/ Restart(v)
      PROVE  GoesOn(w) \/ (~ Busy(w) /\ ~ Busy(w)')
  <2>1. PICK pc \in {"idle", "serving"} : Moves(v, At(pc))
    BY <1>7 DEF ServePinned, ClaimNone, Restart
  <2>2. worker[v].pc \in {"idle", "swept", "down"} /\ At(pc).pc = pc
    BY <1>7 DEF ServePinned, ClaimNone, Restart, At
  <2> QED
    BY <1>2, <2>1, <2>2
<1>8. ASSUME NEW v \in Workers, Progress(v)
      PROVE  worker'[w] = worker[w]
  BY <1>8 DEF Progress
<1>9. ASSUME \/ \E j \in Jobs : Enqueue(j) \/ EnqueueCommit(j) \/ ReadForCancel(j)
                                \/ RequestCancel(j) \/ LeaseAges(j) \/ LeaseRunsOut(j) \/ LeaseOutlived(j)
             \/ RevokeGrant \/ GrantAgain \/ DeleteLibrary \/ RestoreLibrary \/ GraceEnds
      PROVE  worker' = worker
  BY <1>9, Zenon DEF Enqueue, EnqueueCommit, ReadForCancel, RequestCancel, LeaseAges, LeaseRunsOut, LeaseOutlived,
    LeaseLapse, RevokeGrant, GrantAgain, DeleteLibrary, RestoreLibrary, GraceEnds
<1> HIDE DEF IInv, TypeOK
<1> QED
  BY <1>1, <1>3, <1>4, <1>5, <1>6, <1>7, <1>8, <1>9 DEF QueueOnly

\* The worker that ends, or fails, is no longer running.
LEMMA EndsRunning ==
  ASSUME TypeOK, NEW w \in Workers,
         \/ Publish(w) \/ PublishUnacked(w) \/ Unchanged(w) \/ Unwind(w) \/ Settle(w) \/ Sweep(w)
         \/ Round(w) \/ Crash(w) \/ \E err \in IngestErrs : IngestFails(w, err)
  PROVE  worker'[w].pc # "running"
<1>0. worker[w] \in WorkerState
  BY DEF TypeOK
<1>1. CASE Settle(w) \/ Sweep(w) \/ Round(w) \/ Crash(w)
  <2>1. \E pc \in {"idle", "down", "swept", "serving"} : Moves(w, At(pc))
    BY <1>1 DEF Settle, Sweep, Round, Crash
  <2> QED
    BY <2>1, MovesOne DEF At
<1>2. CASE Publish(w) \/ PublishUnacked(w) \/ Unchanged(w)
  <2>1. PICK pc \in {"returned", "unwinding"}, err \in {"published", "transient", "unchanged"} :
          worker'[w] = [worker[w] EXCEPT !.pc = pc, !.err = err]
    BY <1>2, MovesOne DEF Publish, PublishUnacked, Unchanged
  <2> QED
    BY <1>0, <2>1 DEF WorkerState
<1>3. CASE Unwind(w)
  <2>1. worker'[w] = [worker[w] EXCEPT !.pc = "returned"]
    BY <1>3, MovesOne DEF Unwind
  <2> QED
    BY <1>0, <2>1 DEF WorkerState
<1>4. ASSUME NEW err \in IngestErrs, IngestFails(w, err)
      PROVE  worker'[w].pc # "running"
  <2>1. worker'[w] = [worker[w] EXCEPT !.pc = "unwinding", !.err = err]
    BY <1>4, MovesOne DEF IngestFails
  <2> QED
    BY <1>0, <2>1 DEF WorkerState
<1> QED
  BY <1>1, <1>2, <1>3, <1>4

\* What an ingest does before it writes.
LEMMA ReadingStep ==
  ASSUME OneWorker, IInv, WholeInv, NEW w \in Workers,
         \/ StartIngest(w) \/ Acquire(w) \/ Destination(w) \/ Prepare(w) \/ Fails(w) \/ CrashIngest(w)
  PROVE  WholeInv'
<1>0. DOMAIN ingest = Workers /\ DOMAIN ingest[w] = Fields /\ TypeOK
  BY DEF WholeInv, RunTypeOK, IInv
<1>1. Workers = {w}
  BY DEF OneWorker
<1>2. ASSUME NEW state, Goes(w, state), DOMAIN state = Fields
      PROVE  RunTypeOK' /\ ingest'[w] = state
  BY <1>0, <1>1, <1>2 DEF Goes, RunTypeOK
<1>3. UNCHANGED docs
  BY Zenon DEF StartIngest, Acquire, Destination, Prepare, Fails, CrashIngest, ingestVars
<1>4. CASE StartIngest(w)
  <2>1. DOMAIN Begin = Fields /\ Begin.phase = "acquire" /\ Begin.batch = 0
    BY DEF Begin, Fields
  <2> QED
    BY <1>1, <1>2, <1>3, <1>4, <2>1, WholeFrame DEF StartIngest
<1>5. ASSUME worker[w].pc = "running", ingest[w].phase # "fill"
      PROVE  ingest[w].batch = 0
  BY <1>5 DEF WholeInv, Filling
<1>6. CASE Acquire(w)
  <2> DEFINE digest == content[SourceOf[worker[w].job]]
             read == [ingest[w] EXCEPT !.digest = digest]
  <2>1. ingest[w].batch = 0 /\ ingest[w].phase = "acquire"
    BY <1>5, <1>6 DEF Acquire, InPhase
  <2>2. \/ Goes(w, [read EXCEPT !.phase = "destination", !.source = SourceOf[worker[w].job]])
        \/ \E d : Goes(w, [read EXCEPT !.doc = d]) /\ Unchanged(w)
        \/ \E d : Goes(w, [read EXCEPT !.phase = "prepare", !.source = docs[d].source, !.replacing = d])
    BY <1>6, Zenon DEF Acquire
  <2>3. DOMAIN read = Fields /\ read.batch = 0 /\ read.phase = "acquire"
    BY <1>0, <2>1 DEF Fields
  <2> HIDE DEF read
  <2>4. CASE Goes(w, [read EXCEPT !.phase = "destination", !.source = SourceOf[worker[w].job]])
    <3> DEFINE state == [read EXCEPT !.phase = "destination", !.source = SourceOf[worker[w].job]]
    <3>1. DOMAIN state = Fields /\ state.batch = 0 /\ state.phase = "destination"
      BY <2>3 DEF Fields
    <3> HIDE DEF state
    <3>2. Goes(w, state)
      BY <2>4 DEF state
    <3> QED
      BY <1>1, <1>2, <1>3, <3>1, <3>2, WholeFrame
  <2>5. ASSUME NEW d, Goes(w, [read EXCEPT !.phase = "prepare", !.source = docs[d].source, !.replacing = d])
        PROVE  WholeInv'
    <3> DEFINE state == [read EXCEPT !.phase = "prepare", !.source = docs[d].source, !.replacing = d]
    <3>1. DOMAIN state = Fields /\ state.batch = 0 /\ state.phase = "prepare"
      BY <2>3 DEF Fields
    <3> HIDE DEF state
    <3>2. Goes(w, state)
      BY <2>5 DEF state
    <3> QED
      BY <1>1, <1>2, <1>3, <3>1, <3>2, WholeFrame
  <2>6. ASSUME NEW d, Goes(w, [read EXCEPT !.doc = d]), Unchanged(w)
        PROVE  WholeInv'
    <3> DEFINE state == [read EXCEPT !.doc = d]
    <3>1. DOMAIN state = Fields /\ Goes(w, state)
      BY <2>3, <2>6
    <3> HIDE DEF state
    <3>2. worker'[w].pc # "running"
      BY <1>0, <2>6, EndsRunning
    <3> QED
      BY <1>1, <1>2, <1>3, <3>1, <3>2, WholeFrame
  <2> QED
    BY <2>2, <2>4, <2>5, <2>6
<1>7. CASE Destination(w) \/ Prepare(w)
  <2>1. ingest[w].batch = 0
    BY <1>5, <1>7 DEF Destination, Prepare, InPhase
  <2>2. \/ \E d : Goes(w, [ingest[w] EXCEPT !.phase = "prepare", !.replacing = d])
        \/ \E d : Goes(w, [ingest[w] EXCEPT !.phase = "create", !.doc = d])
    BY <1>7, Zenon DEF Destination, Prepare
  <2>3. ASSUME NEW d, Goes(w, [ingest[w] EXCEPT !.phase = "prepare", !.replacing = d])
        PROVE  WholeInv'
    <3> DEFINE state == [ingest[w] EXCEPT !.phase = "prepare", !.replacing = d]
    <3>1. DOMAIN state = Fields /\ state.batch = 0 /\ state.phase = "prepare"
      BY <1>0, <2>1 DEF Fields
    <3> HIDE DEF state
    <3>2. Goes(w, state)
      BY <2>3 DEF state
    <3> QED
      BY <1>1, <1>2, <1>3, <3>1, <3>2, WholeFrame
  <2>4. ASSUME NEW d, Goes(w, [ingest[w] EXCEPT !.phase = "create", !.doc = d])
        PROVE  WholeInv'
    <3> DEFINE state == [ingest[w] EXCEPT !.phase = "create", !.doc = d]
    <3>1. DOMAIN state = Fields /\ state.batch = 0 /\ state.phase = "create"
      BY <1>0, <2>1 DEF Fields
    <3> HIDE DEF state
    <3>2. Goes(w, state)
      BY <2>4 DEF state
    <3> QED
      BY <1>1, <1>2, <1>3, <3>1, <3>2, WholeFrame
  <2> QED
    BY <2>2, <2>3, <2>4
<1>8. CASE Fails(w)
  <2>1. UNCHANGED ingest /\ worker'[w].pc # "running"
    BY <1>0, <1>8, EndsRunning DEF Fails, ingestVars
  <2> QED
    BY <1>1, <1>3, <2>1, WholeFrame DEF WholeInv, RunTypeOK
<1>9. CASE CrashIngest(w)
  <2>1. DOMAIN None = Fields
    BY DEF None, Begin, Fields
  <2>2. worker'[w].pc # "running"
    BY <1>0, <1>9, EndsRunning DEF CrashIngest
  <2> QED
    BY <1>1, <1>2, <1>3, <1>9, <2>1, <2>2, WholeFrame DEF CrashIngest
<1> QED
  BY <1>4, <1>6, <1>7, <1>8, <1>9

\* Create starts an empty document no search sees.
LEMMA CreatingStep ==
  ASSUME OneWorker, IInv, WholeInv, NEW w \in Workers, Create(w)
  PROVE  WholeInv'
<1>0. DOMAIN ingest = Workers /\ DOMAIN ingest[w] = Fields /\ TypeOK /\ Workers = {w}
  BY DEF WholeInv, RunTypeOK, IInv, OneWorker
<1>1. worker[w].pc = "running" /\ ingest[w].batch = 0
  BY DEF Create, InPhase, WholeInv, Filling
<1> DEFINE staged == StagedID(w)
           base == IF ingest[w].replacing = NoDoc THEN docs ELSE Without({staged})
           row == [status |-> "ingesting", source |-> ingest[w].source,
                   digest |-> ingest[w].digest, chunks |-> {}]
           state == [ingest[w] EXCEPT !.phase = "fill"]
<1>2. CASE docs' = With(base, staged, row) /\ Goes(w, state) /\ UNCHANGED vars
  <2>1. /\ DOMAIN state = Fields /\ state.phase = "fill" /\ state.batch = 0
        /\ state.doc = ingest[w].doc /\ state.replacing = ingest[w].replacing
        /\ state.digest = ingest[w].digest
    BY <1>0, <1>1 DEF Fields
  <2> HIDE DEF state
  <2>2. RunTypeOK' /\ ingest'[w] = state
    BY <1>0, <1>2, <2>1 DEF Goes, RunTypeOK
  <2>3. \A e \in DOMAIN base : e \in DOMAIN docs /\ base[e] = docs[e]
    BY DEF Without
  <2>4. StagedID(w)' = staged
    BY <2>1, <2>2 DEF StagedID
  <2>5. /\ row.status = "ingesting" /\ row.digest = ingest[w].digest /\ row.chunks = {}
        /\ DOMAIN row = {"status", "source", "digest", "chunks"}
    OBVIOUS
  <2> HIDE DEF staged, base, row
  <2>6. /\ docs'[staged] = row
        /\ \A e \in DOMAIN docs' \ {staged} : e \in DOMAIN docs /\ docs'[e] = docs[e]
    BY <1>2, <2>3 DEF With
  <2>7. ReadyIsWhole'
    BY <2>5, <2>6, WritingKeepsWhole DEF WholeInv
  <2>8. ChunksOf(w, 0)' = {}
    BY DEF ChunksOf
  <2>9. Written(w)'
    BY <2>1, <2>2, <2>4, <2>5, <2>6, <2>8 DEF Written
  <2>10. Filling'
    BY <1>0, <2>1, <2>2, <2>9 DEF Filling
  <2> QED
    BY <2>2, <2>7, <2>10 DEF WholeInv
<1>3. CASE IngestFails(w, "transient") /\ UNCHANGED <<docs, ingest>>
  <2>1. worker'[w].pc # "running"
    BY <1>0, <1>3, EndsRunning DEF IngestErrs
  <2> QED
    BY <1>0, <1>3, <2>1, WholeFrame DEF WholeInv, RunTypeOK
<1> QED
  BY <1>2, <1>3, Zenon DEF Create

\* AddChunks appends the next batch to what the same ingest wrote before.
LEMMA AddingStep ==
  ASSUME OneWorker, IInv, WholeInv, NEW w \in Workers, AddChunks(w)
  PROVE  WholeInv'
<1>0. DOMAIN ingest = Workers /\ DOMAIN ingest[w] = Fields /\ TypeOK /\ Workers = {w}
  BY DEF WholeInv, RunTypeOK, IInv, OneWorker
<1>1. worker[w].pc = "running" /\ ingest[w].phase = "fill" /\ ingest[w].batch \in Nat /\ Written(w)
  BY DEF AddChunks, InPhase, WholeInv, Filling
<1> DEFINE staged == StagedID(w)
           by == <<worker[w].job, worker[w].attempt>>
           n == ingest[w].batch
           chunk == [by |-> by, digest |-> ingest[w].digest, batch |-> n + 1]
           state == [ingest[w] EXCEPT !.batch = n + 1]
<1>2. CASE staged \in Seen /\ docs' = [docs EXCEPT ![staged].chunks = docs[staged].chunks \cup {chunk}]
           /\ Goes(w, state) /\ UNCHANGED vars
  <2>0. n + 1 \in Nat
    BY <1>1
  <2>1. /\ DOMAIN state = Fields /\ state.phase = "fill" /\ state.batch = n + 1
        /\ state.doc = ingest[w].doc /\ state.replacing = ingest[w].replacing
        /\ state.digest = ingest[w].digest
    BY <1>0, <1>1 DEF Fields
  <2>2. RunTypeOK' /\ ingest'[w] = state
    <3> HIDE DEF state
    <3> QED
      BY <1>0, <1>2, <2>1 DEF Goes, RunTypeOK
  <2>3. staged \in DOMAIN docs
    BY <1>2 DEF Seen
  <2>4. StagedID(w)' = staged
    <3> HIDE DEF state
    <3> QED
      BY <2>1, <2>2 DEF StagedID
  <2>5. /\ docs[staged].status = "ingesting" /\ docs[staged].digest = ingest[w].digest
        /\ docs[staged].chunks = ChunksOf(w, n)
        /\ DOMAIN docs[staged] = {"status", "source", "digest", "chunks"}
    BY <1>1, <2>3 DEF Written
  <2>6. \A b, g : \A m \in Nat : [by : {b}, digest : {g}, batch : 1 .. m + 1]
          = [by : {b}, digest : {g}, batch : 1 .. m] \cup {[by |-> b, digest |-> g, batch |-> m + 1]}
    BY ChunksGrow, Zenon
  <2>7. ChunksOf(w, n) \cup {chunk} = [by : {by}, digest : {ingest[w].digest}, batch : 1 .. n + 1]
    <3> HIDE DEF by, n
    <3>1. ChunksOf(w, n) = [by : {by}, digest : {ingest[w].digest}, batch : 1 .. n]
      BY Zenon DEF ChunksOf, by
    <3>2. n \in Nat
      BY <1>1 DEF n
    <3>3. chunk = [by |-> by, digest |-> ingest[w].digest, batch |-> n + 1]
      BY Zenon
    <3> HIDE DEF chunk
    <3>4. [by : {by}, digest : {ingest[w].digest}, batch : 1 .. n + 1]
            = [by : {by}, digest : {ingest[w].digest}, batch : 1 .. n]
                \cup {[by |-> by, digest |-> ingest[w].digest, batch |-> n + 1]}
      BY <2>6, <3>2, Zenon
    <3> QED
      BY <3>1, <3>3, <3>4
  <2> DEFINE all == ChunksOf(w, n) \cup {chunk}
  <2>8. docs' = [docs EXCEPT ![staged].chunks = all]
    BY <1>2, <2>5
  <2>9. ChunksOf(w, ingest[w].batch)' = all
    <3>1. ingest'[w].digest = ingest[w].digest /\ ingest'[w].batch = n + 1 /\ worker' = worker
      BY <1>2, <2>1, <2>2 DEF vars
    <3>2. ChunksOf(w, ingest[w].batch)'
            = [by : {<<worker'[w].job, worker'[w].attempt>>}, digest : {ingest'[w].digest},
               batch : 1 .. ingest'[w].batch]
      BY Zenon DEF ChunksOf
    <3>3. <<worker'[w].job, worker'[w].attempt>> = by
      BY <3>1
    <3> HIDE DEF by, n, chunk
    <3> QED
      BY <2>7, <3>1, <3>2, <3>3, Zenon
  <2> HIDE DEF staged, chunk, all, state, n
  <2>10. /\ docs'[staged].status = "ingesting" /\ docs'[staged].digest = ingest[w].digest
         /\ docs'[staged].chunks = all /\ DOMAIN docs'[staged] = {"status", "source", "digest", "chunks"}
         /\ \A e \in DOMAIN docs' \ {staged} : e \in DOMAIN docs /\ docs'[e] = docs[e]
    BY <2>3, <2>5, <2>8
  <2>11. ReadyIsWhole'
    BY <2>10, WritingKeepsWhole DEF WholeInv
  <2>12. Written(w)'
    BY <2>1, <2>2, <2>4, <2>9, <2>10 DEF Written
  <2>13. Filling'
    BY <1>0, <2>0, <2>1, <2>2, <2>12 DEF Filling
  <2> QED
    BY <2>2, <2>11, <2>13 DEF WholeInv
<1>3. CASE IngestFails(w, "transient") /\ UNCHANGED <<docs, ingest>>
  <2>1. worker'[w].pc # "running"
    BY <1>0, <1>3, EndsRunning DEF IngestErrs
  <2> QED
    BY <1>0, <1>3, <2>1, WholeFrame DEF WholeInv, RunTypeOK
<1> QED
  BY <1>2, <1>3, Zenon DEF AddChunks

\* MarkReady shows searches what has every batch of one attempt.
LEMMA PublishingStep ==
  ASSUME OneWorker, IInv, WholeInv, NEW w \in Workers, MarkReady(w)
  PROVE  WholeInv'
<1>0. DOMAIN ingest = Workers /\ DOMAIN ingest[w] = Fields /\ TypeOK /\ Workers = {w}
  BY DEF WholeInv, RunTypeOK, IInv, OneWorker
<1>1. /\ worker[w].pc = "running" /\ ingest[w].phase = "fill" /\ ingest[w].batch = Batches
      /\ Written(w) /\ UNCHANGED ingest
  BY DEF MarkReady, InPhase, WholeInv, Filling
<1>2. worker'[w].pc # "running"
  BY <1>0, EndsRunning DEF MarkReady, IngestErrs
<1>3. RunTypeOK' /\ Filling'
  BY <1>0, <1>1, <1>2 DEF RunTypeOK, Filling
<1>4. ASSUME docs' = docs
      PROVE  ReadyIsWhole'
  BY <1>4 DEF ReadyIsWhole, Ready, Whole, WholeInv
<1>5. ASSUME docs' = Swapped(w)
      PROVE  ReadyIsWhole'
  <2> DEFINE doc == ingest[w].doc
             staged == StagedID(w)
             base == Without({doc, staged})
             row == [docs[staged] EXCEPT !.status = "ready"]
  <2>1. CASE staged \notin DOMAIN docs
    BY <1>5, <2>1, DeletingKeepsWhole DEF Swapped, WholeInv
  <2>2. CASE staged \in DOMAIN docs
    <3>1. docs' = With(base, doc, row)
      BY <1>5, <2>2 DEF Swapped
    <3>2. /\ docs[staged].status = "ingesting" /\ docs[staged].digest = ingest[w].digest
          /\ docs[staged].chunks = ChunksOf(w, Batches)
          /\ DOMAIN docs[staged] = {"status", "source", "digest", "chunks"}
      BY <1>1, <2>2 DEF Written
    <3>3. row.digest = ingest[w].digest /\ row.chunks = ChunksOf(w, Batches)
      BY <3>2
    <3>4. \A e \in DOMAIN base : e \in DOMAIN docs /\ base[e] = docs[e]
      BY DEF Without
    <3> HIDE DEF row, base, doc, staged
    <3>5. docs'[doc] = row /\ \A e \in DOMAIN docs' \ {doc} : e \in DOMAIN docs /\ docs'[e] = docs[e]
      BY <3>1, <3>4 DEF With
    <3>6. \E b \in {c.by : c \in docs'[doc].chunks} :
            docs'[doc].chunks = [by : {b}, digest : {docs'[doc].digest}, batch : 1 .. Batches]
      <4> DEFINE by == <<worker[w].job, worker[w].attempt>>
                 first == [by |-> by, digest |-> ingest[w].digest, batch |-> 1]
      <4>1. 1 \in 1 .. Batches
        BY SourcesAssumption
      <4>2. first \in ChunksOf(w, Batches) /\ first.by = by
        BY <4>1 DEF ChunksOf
      <4>3. docs'[doc].chunks = [by : {by}, digest : {docs'[doc].digest}, batch : 1 .. Batches]
        BY <3>3, <3>5 DEF ChunksOf
      <4> HIDE DEF first, by
      <4>4. by \in {c.by : c \in docs'[doc].chunks}
        BY <3>3, <3>5, <4>2
      <4> QED
        BY <4>3, <4>4, Zenon
    <3>7. ASSUME NEW e \in DOMAIN docs' \ {doc}, Ready(e)'
          PROVE  Whole(e)'
      <4>1. e \in DOMAIN docs /\ docs'[e] = docs[e] /\ Ready(e)
        BY <3>5, <3>7 DEF Ready
      <4>2. Whole(e)
        BY <4>1 DEF WholeInv, ReadyIsWhole
      <4> QED
        BY <4>1, <4>2 DEF Whole
    <3>8. ASSUME NEW e \in DOMAIN docs', e = doc
          PROVE  Whole(e)'
      BY <3>6, <3>8 DEF Whole
    <3> QED
      BY <3>7, <3>8 DEF ReadyIsWhole
  <2> QED
    BY <2>1, <2>2
<1>6. docs' = docs \/ docs' = Swapped(w)
  BY Zenon DEF MarkReady
<1> QED
  BY <1>3, <1>4, <1>5, <1>6 DEF WholeInv

\* Cleaning up, ending jobs and purging only delete.
LEMMA DroppingStep ==
  ASSUME OneWorker, IInv, WholeInv, NEW w \in Workers,
         CleanUp(w) \/ SettleDocs(w) \/ SweepDocs(w) \/ RoundDocs(w)
  PROVE  WholeInv'
<1>0. DOMAIN ingest = Workers /\ TypeOK /\ Workers = {w}
  BY DEF WholeInv, RunTypeOK, IInv, OneWorker
<1>1. docs' = docs \/ \E gone : docs' = Without(gone)
  BY Zenon DEF CleanUp, SettleDocs, SweepDocs, RoundDocs
<1>2. ReadyIsWhole'
  <2>1. CASE docs' = docs
    BY <2>1 DEF WholeInv, ReadyIsWhole, Ready, Whole
  <2> QED
    BY <1>1, <2>1, DeletingKeepsWhole DEF WholeInv
<1>3. worker'[w].pc # "running"
  BY <1>0, EndsRunning DEF CleanUp, SettleDocs, SweepDocs, RoundDocs
<1>4. ingest' = ingest \/ Goes(w, None)
  BY Zenon DEF CleanUp, SettleDocs, SweepDocs, RoundDocs
<1>5. DOMAIN None = Fields
  BY DEF None, Begin, Fields
<1>6. RunTypeOK'
  BY <1>0, <1>4, <1>5 DEF Goes, WholeInv, RunTypeOK
<1> QED
  BY <1>0, <1>2, <1>3, <1>6 DEF WholeInv, Filling

\* The steps above, together: with one worker every ingest writes what it
\* should under the identifier it should.
LEMMA WholeHolds ==
  ASSUME OneWorker
  PROVE  IngestSpec => [](IInv /\ WholeInv)
<1>1. IngestInit => WholeInv
  <2> SUFFICES ASSUME IngestInit PROVE WholeInv
    OBVIOUS
  <2>1. DOMAIN docs = {} /\ DOMAIN None = Fields
    BY DEF IngestInit, None, Begin, Fields
  <2>2. DOMAIN ingest = Workers /\ \A w \in Workers : ingest[w] = None /\ worker[w].pc = "idle"
    BY DEF IngestInit, Init, At
  <2> QED
    BY <2>1, <2>2 DEF WholeInv, RunTypeOK, Filling, ReadyIsWhole
<1>2. IInv /\ WholeInv /\ [IngestNext]_allVars => WholeInv'
  <2> SUFFICES ASSUME IInv, WholeInv, [IngestNext]_allVars PROVE WholeInv'
    OBVIOUS
  <2>1. CASE QueueOnly
    <3>1. UNCHANGED <<docs, ingest>>
      BY <2>1 DEF QueueOnly, ingestVars
    <3>2. \A w \in Workers : worker'[w].pc = "running" => GoesOn(w)
      BY <2>1, QueueOnlyKeeps DEF NeverStarted, Busy
    <3> QED
      BY <3>1, <3>2, WholeFrame DEF WholeInv, RunTypeOK, GoesOn
  <2>2. CASE UNCHANGED allVars \/ \E s \in Sources : Edit(s)
    <3>1. UNCHANGED <<docs, ingest, worker>>
      BY <2>2 DEF Edit, allVars, ingestVars, vars
    <3> QED
      BY <3>1, WholeFrame DEF WholeInv, RunTypeOK
  <2> QED
    BY <2>1, <2>2, ReadingStep, CreatingStep, AddingStep, PublishingStep, DroppingStep DEF IngestNext
<1>3. IngestSpec => []IInv
  BY IngestIsQueue, Invariant, PTL
<1> QED
  BY <1>1, <1>2, <1>3, PTL DEF IngestSpec

\* With one worker a search never sees a document that is torn, half written
\* or mixed from two attempts, whatever crashes, lapsed leases, lost answers
\* and changes of access its ingests meet, and however its sources change.
THEOREM WholeForReaders ==
  ASSUME OneWorker
  PROVE  IngestSpec => []ReadyIsWhole
<1>1. WholeInv => ReadyIsWhole
  BY DEF WholeInv
<1> QED
  BY <1>1, WholeHolds, PTL

-----------------------------------------------------------------------------
(* The shelf.  One document per source, and nothing half written left: for   *)
(* one worker, none of whose crashes leaves a staging row behind, as long as *)
(* nobody's access changes.                                                  *)

\* A published identifier: a slug, and never a staging identifier.
Proper(d) == DOMAIN d = {"slug", "num", "stage"} /\ d.slug # "" /\ d.stage = 0

\* The ingest of w replaces the document of its source, or the source has none.
HasTarget(w) ==
  IF ingest[w].replacing = NoDoc
  THEN \A d \in DOMAIN docs : Ready(d) => docs[d].source # ingest[w].source
  ELSE Ready(ingest[w].replacing) /\ docs[ingest[w].replacing].source = ingest[w].source

\* What the ingest of w found out holds until it publishes.
Aimed(w) ==
  /\ ingest[w].phase = "destination" => ingest[w].source \in Sources
  /\ ingest[w].phase = "prepare" /\ ingest[w].replacing = NoDoc => ingest[w].source \in Sources
  /\ ingest[w].phase \in {"prepare", "create", "fill"} => HasTarget(w)
  /\ ingest[w].phase \in {"create", "fill"} =>
       Proper(ingest[w].doc) /\ (ingest[w].replacing # NoDoc => ingest[w].doc = ingest[w].replacing)
  /\ ingest[w].phase = "fill" =>
       StagedID(w) \in DOMAIN docs /\ docs[StagedID(w)].source = ingest[w].source

\* Worker w has a document half written, or is about to remove one.
AtWork(w) == worker[w].pc \in {"running", "unwinding"} /\ ingest[w].phase = "fill"

ReadyIsProper == \A d \in DOMAIN docs : Ready(d) => Proper(d)
UnreadyIsInHand == \A d \in DOMAIN docs : ~ Ready(d) => \E w \in Workers : AtWork(w) /\ d = StagedID(w)
SourcesApart ==
  \A d, e \in DOMAIN docs : Ready(d) /\ Ready(e) /\ docs[d].source = docs[e].source => d = e

ShelfInv ==
  /\ ReadyIsProper
  /\ UnreadyIsInHand
  /\ SourcesApart
  /\ \A w \in Workers : worker[w].pc = "running" => Aimed(w)

\* A search finds the same versions of the same documents after the step.
SameShelf ==
  \A d : /\ Ready(d)' <=> Ready(d)
         /\ Ready(d) => docs'[d].digest = docs[d].digest /\ docs'[d].chunks = docs[d].chunks

\* Until the first change, the requester has the library.
AccessInv == spent.changes = 0 => Visible

\* The first change of access is counted; nothing else takes the library away.
LEMMA UntilAChange ==
  ASSUME TypeOK, AccessInv, [Next]_vars, spent'.changes = 0
  PROVE  spent.changes = 0 /\ Visible /\ access' = access
<1>0. spent \in Spent /\ access \in Access /\ BoundsAssumption
  BY BoundsAssumption DEF TypeOK
<1>1. ~ RevokeGrant /\ ~ DeleteLibrary
  <2>1. Change.changes = spent.changes + 1 /\ spent.changes \in Nat
    BY <1>0 DEF Change, Spent
  <2>2. ASSUME spent' = Change
        PROVE  FALSE
    BY <2>1, <2>2
  <2> QED
    BY <2>2, Zenon DEF RevokeGrant, DeleteLibrary
<1>2. \/ spent' = spent \/ spent' = [spent EXCEPT !.cancels = @ + 1]
      \/ spent' = [spent EXCEPT !.unacked = @ + 1] \/ spent' = [spent EXCEPT !.crashes = @ + 1]
  BY <1>1, Zenon DEF Next, Enqueue, EnqueueCommit, ReadForCancel, RequestCancel, LeaseAges, LeaseRunsOut, LeaseOutlived,
    LeaseLapse, GrantAgain, RestoreLibrary, GraceEnds, Serve, Round, ServePinned, Sweep, ClaimLock,
    ClaimNone, ClaimCommit, OpenSource, SourceError, Settle, Watch, WatchRenew, WatchRead, WatchStop,
    Progress, IngestEnds, Publish, PublishUnacked, Unchanged, IngestFails, Unwind, Crash, Restart, vars
<1>3. spent.changes = 0
  BY <1>0, <1>2 DEF Spent
<1>4. Visible
  BY <1>3 DEF AccessInv
<1>5. ~ GrantAgain /\ ~ RestoreLibrary /\ ~ GraceEnds
  BY <1>4 DEF GrantAgain, RestoreLibrary, GraceEnds, Visible
<1>6. ASSUME NEW w \in Workers, Round(w)
      PROVE  access' = access
  <2>1. access' = [access EXCEPT !.library = IF access.library = "expired" THEN "purged" ELSE access.library]
    BY <1>6 DEF Round
  <2>2. access' = [access EXCEPT !.library = access.library]
    BY <1>4, <2>1 DEF Visible
  <2> QED
    BY <1>0, <2>2 DEF Access
<1>7. ASSUME ~ \E w \in Workers : Round(w)
      PROVE  access' = access
  BY <1>1, <1>5, <1>7, Zenon DEF Next, Enqueue, EnqueueCommit, ReadForCancel, RequestCancel, LeaseAges, LeaseRunsOut,
    LeaseOutlived, LeaseLapse, Serve, ServePinned, Sweep, ClaimLock, ClaimNone, ClaimCommit,
    OpenSource, SourceError, Settle, Watch, WatchRenew, WatchRead, WatchStop, Progress, IngestEnds,
    Publish, PublishUnacked, Unchanged, IngestFails, Unwind, Crash, Restart, vars
<1> QED
  BY <1>3, <1>4, <1>6, <1>7

\* A staging identifier is never a published one.
LEMMA StagingApart ==
  ASSUME NEW d, Proper(d)
  PROVE  ~ Proper(Staging(d)) /\ Staging(d) # d /\ d # NoDoc
<1>0. DOMAIN d = {"slug", "num", "stage"} /\ d.stage = 0
  BY DEF Proper
<1>1. Staging(d).stage = 1
  <2>1. Staging(d) = [d EXCEPT !.stage = 1]
    BY <1>0 DEF Staging
  <2> QED
    BY <1>0, <2>1
<1>2. \A e : e.stage = 1 => ~ Proper(e) /\ e # d
  <2>1. 0 # 1
    OBVIOUS
  <2> QED
    BY <1>0, <2>1, Zenon DEF Proper
<1>3. NoDoc.slug = "" /\ d.slug # ""
  BY DEF NoDoc, Proper
<1> QED
  BY <1>1, <1>2, <1>3, Zenon

\* While no ingest has a document in hand, every document is ready.
LEMMA Resting ==
  ASSUME NEW w \in Workers, Workers = {w}, ShelfInv, ~ AtWork(w)
  PROVE  \A d \in DOMAIN docs : Ready(d)
BY DEF ShelfInv, UnreadyIsInHand

\* A step that leaves the documents alone and keeps hold of what is in hand.
LEMMA ShelfFrame ==
  ASSUME NEW w \in Workers, Workers = {w}, ShelfInv, UNCHANGED docs,
         worker'[w].pc = "running" => Aimed(w)',
         AtWork(w) => AtWork(w)' /\ StagedID(w)' = StagedID(w)
  PROVE  ShelfInv'
<1>1. \A d \in DOMAIN docs : Ready(d)' <=> Ready(d)
  BY DEF Ready
<1>2. ReadyIsProper' /\ SourcesApart'
  BY <1>1 DEF ShelfInv, ReadyIsProper, SourcesApart
<1>3. UnreadyIsInHand'
  BY <1>1 DEF ShelfInv, UnreadyIsInHand
<1> QED
  BY <1>2, <1>3 DEF ShelfInv

\* An ingest that stays where it was, among the same documents.
LEMMA AimedFrame ==
  ASSUME NEW w \in Workers, UNCHANGED docs, ingest'[w] = ingest[w]
  PROVE  (Aimed(w) => Aimed(w)') /\ StagedID(w)' = StagedID(w)
<1>1. StagedID(w)' = StagedID(w)
  BY DEF StagedID
<1>2. \A d : Ready(d)' <=> Ready(d)
  BY DEF Ready
<1>3. HasTarget(w)' <=> HasTarget(w)
  BY <1>2 DEF HasTarget
<1> QED
  BY <1>1, <1>3 DEF Aimed

\* An ingest that has written nothing yet finds out where its document goes.
LEMMA FindingStep ==
  ASSUME OneWorker, IInv, WholeInv, Visible, ShelfInv, NEW w \in Workers,
         StartIngest(w) \/ Acquire(w) \/ Destination(w) \/ Prepare(w)
  PROVE  ShelfInv'
<1>0. DOMAIN ingest = Workers /\ DOMAIN ingest[w] = Fields /\ TypeOK /\ Workers = {w}
  BY DEF WholeInv, RunTypeOK, IInv, OneWorker
<1>1. UNCHANGED docs
  BY Zenon DEF StartIngest, Acquire, Destination, Prepare
<1>2. ~ AtWork(w)
  BY DEF AtWork, StartIngest, OpenSource, Acquire, Destination, Prepare, InPhase
<1>3. \A d \in DOMAIN docs : Ready(d) /\ Proper(d) /\ d # NoDoc
  BY <1>0, <1>2, Resting, StagingApart DEF ShelfInv, ReadyIsProper
<1>4. \A d : Ready(d)' <=> Ready(d)
  BY <1>1 DEF Ready
<1>5. ASSUME worker'[w].pc = "running" => Aimed(w)'
      PROVE  ShelfInv'
  BY <1>0, <1>1, <1>2, <1>5, ShelfFrame
<1>6. ASSUME NEW state, Goes(w, state)
      PROVE  ingest'[w] = state
  BY <1>0, <1>6 DEF Goes
<1>7. CASE StartIngest(w)
  <2>1. ingest'[w].phase = "acquire"
    BY <1>6, <1>7 DEF StartIngest, Begin
  <2> QED
    BY <1>5, <2>1 DEF Aimed
<1>8. CASE Acquire(w)
  <2> DEFINE digest == content[SourceOf[worker[w].job]]
             held == {d \in Seen : Ready(d) /\ docs[d].digest = digest}
             read == [ingest[w] EXCEPT !.digest = digest]
  <2>1. \/ Goes(w, [read EXCEPT !.phase = "destination", !.source = SourceOf[worker[w].job]])
        \/ Unchanged(w)
        \/ \E d \in held : Goes(w, [read EXCEPT !.phase = "prepare", !.source = docs[d].source, !.replacing = d])
    BY <1>8, Zenon DEF Acquire
  <2>2. DOMAIN read = Fields
    BY <1>0
  <2> HIDE DEF read
  <2>3. CASE Goes(w, [read EXCEPT !.phase = "destination", !.source = SourceOf[worker[w].job]])
    <3>1. ingest'[w] = [read EXCEPT !.phase = "destination", !.source = SourceOf[worker[w].job]]
      BY <1>6, <2>3
    <3>2. ingest'[w].phase = "destination" /\ ingest'[w].source = SourceOf[worker[w].job]
      BY <2>2, <3>1 DEF Fields
    <3>3. worker[w].job \in Jobs
      BY <1>8 DEF Acquire, InPhase, IInv, HasItsJob, Executing
    <3>4. SourceOf[worker[w].job] \in Sources
      BY <3>3, SourcesAssumption
    <3> QED
      BY <1>5, <3>2, <3>4 DEF Aimed
  <2>4. CASE Unchanged(w)
    BY <1>0, <1>5, <2>4, EndsRunning
  <2>5. ASSUME NEW d \in held,
               Goes(w, [read EXCEPT !.phase = "prepare", !.source = docs[d].source, !.replacing = d])
        PROVE  ShelfInv'
    <3>1. ingest'[w] = [read EXCEPT !.phase = "prepare", !.source = docs[d].source, !.replacing = d]
      BY <1>6, <2>5
    <3>2. ingest'[w].phase = "prepare" /\ ingest'[w].source = docs[d].source /\ ingest'[w].replacing = d
      BY <2>2, <3>1 DEF Fields
    <3>3. d \in DOMAIN docs
      BY DEF Seen
    <3>4. HasTarget(w)'
      BY <1>1, <1>3, <1>4, <3>2, <3>3 DEF HasTarget
    <3> QED
      BY <1>3, <1>5, <3>2, <3>3, <3>4 DEF Aimed
  <2> QED
    BY <2>1, <2>3, <2>4, <2>5
<1>9. CASE Destination(w)
  <2> DEFINE filed == {d \in Seen : docs[d].source = ingest[w].source}
  <2>1. PICK d \in (IF filed = {} THEN {NoDoc} ELSE filed) :
          Goes(w, [ingest[w] EXCEPT !.phase = "prepare", !.replacing = d])
    BY <1>9, Zenon DEF Destination
  <2>2. ingest'[w] = [ingest[w] EXCEPT !.phase = "prepare", !.replacing = d]
    BY <1>6, <2>1
  <2>3. ingest'[w].phase = "prepare" /\ ingest'[w].replacing = d /\ ingest'[w].source = ingest[w].source
    BY <1>0, <2>2 DEF Fields
  <2>4. worker[w].pc = "running" /\ ingest[w].phase = "destination" /\ worker' = worker
    BY <1>9 DEF Destination, InPhase, vars
  <2>5. CASE filed = {}
    <3>1. d = NoDoc
      BY <2>1, <2>5
    <3>2. \A e \in DOMAIN docs : docs[e].source # ingest[w].source
      BY <2>5 DEF Seen
    <3>3. HasTarget(w)'
      BY <1>1, <2>3, <3>1, <3>2 DEF HasTarget
    <3>4. ingest[w].source \in Sources
      <4>1. Aimed(w)
        BY <2>4 DEF ShelfInv
      <4> QED
        BY <2>4, <4>1 DEF Aimed
    <3> QED
      BY <1>5, <2>3, <3>3, <3>4 DEF Aimed
  <2>6. CASE filed # {}
    <3>1. d \in DOMAIN docs /\ docs[d].source = ingest[w].source
      BY <2>1, <2>6 DEF Seen
    <3>2. HasTarget(w)'
      BY <1>1, <1>3, <1>4, <2>3, <3>1 DEF HasTarget
    <3> QED
      BY <1>3, <1>5, <2>3, <3>1, <3>2 DEF Aimed
  <2> QED
    BY <2>5, <2>6
<1>10. CASE Prepare(w)
  <2> DEFINE doc == IF ingest[w].replacing = NoDoc THEN NextFree(SlugOf[ingest[w].source])
                    ELSE ingest[w].replacing
  <2>1. Goes(w, [ingest[w] EXCEPT !.phase = "create", !.doc = doc])
    BY <1>10, Zenon DEF Prepare
  <2>2. worker[w].pc = "running" /\ ingest[w].phase = "prepare"
    BY <1>10 DEF Prepare, InPhase
  <2>3. Aimed(w)
    BY <2>2 DEF ShelfInv
  <2>4. HasTarget(w)
    BY <2>2, <2>3 DEF Aimed
  <2>5. Proper(doc)
    <3>1. CASE ingest[w].replacing = NoDoc
      <4>1. ingest[w].source \in Sources
        BY <2>2, <2>3, <3>1 DEF Aimed
      <4>2. SlugOf[ingest[w].source] # ""
        BY <4>1, SlugAssumption
      <4> DEFINE slug == SlugOf[ingest[w].source]
      <4>3. PICK n : doc = Numbered(slug, n)
        BY <3>1, Zenon DEF NextFree
      <4> HIDE DEF doc, slug
      <4>4. doc = [slug |-> slug, num |-> n, stage |-> 0]
        BY <4>3 DEF Numbered
      <4>5. slug # ""
        BY <4>2 DEF slug
      <4> QED
        BY <4>4, <4>5 DEF Proper
    <3>2. CASE ingest[w].replacing # NoDoc
      <4>1. Ready(ingest[w].replacing)
        BY <2>4, <3>2 DEF HasTarget
      <4> QED
        BY <1>3, <3>2, <4>1 DEF Ready
    <3> QED
      BY <3>1, <3>2
  <2>6. ingest[w].replacing # NoDoc => doc = ingest[w].replacing
    OBVIOUS
  <2> HIDE DEF doc
  <2>7. ingest'[w] = [ingest[w] EXCEPT !.phase = "create", !.doc = doc]
    BY <1>6, <2>1
  <2>8. /\ ingest'[w].phase = "create" /\ ingest'[w].doc = doc
        /\ ingest'[w].replacing = ingest[w].replacing /\ ingest'[w].source = ingest[w].source
    BY <1>0, <2>7 DEF Fields
  <2>9. HasTarget(w)'
    BY <1>1, <1>4, <2>4, <2>8 DEF HasTarget
  <2> QED
    BY <1>5, <2>5, <2>6, <2>8, <2>9 DEF Aimed
<1> QED
  BY <1>7, <1>8, <1>9, <1>10

\* A failed ingest keeps what it has in hand until it has cleaned up.
LEMMA FailingStep ==
  ASSUME OneWorker, IInv, ShelfInv, NEW w \in Workers, NEW err, IngestFails(w, err), UNCHANGED <<docs, ingest>>
  PROVE  ShelfInv' /\ worker[w].pc = "running" /\ worker'[w].pc = "unwinding" /\ worker'[w].err = err
<1>0. TypeOK /\ Workers = {w} /\ worker[w] \in WorkerState
  BY DEF IInv, TypeOK, OneWorker
<1>1. worker'[w] = [worker[w] EXCEPT !.pc = "unwinding", !.err = err] /\ worker[w].pc = "running"
  BY <1>0, MovesOne DEF IngestFails
<1>2. worker'[w].pc = "unwinding" /\ worker'[w].err = err
  BY <1>0, <1>1 DEF WorkerState
<1>3. ShelfInv'
  BY <1>0, <1>2, AimedFrame, ShelfFrame DEF AtWork
<1> QED
  BY <1>1, <1>2, <1>3

\* Create takes a new document in hand.
LEMMA CreatingShelf ==
  ASSUME OneWorker, IInv, WholeInv, Visible, ShelfInv, NEW w \in Workers, Create(w)
  PROVE  ShelfInv' /\ SameShelf
<1>0. DOMAIN ingest = Workers /\ DOMAIN ingest[w] = Fields /\ TypeOK /\ Workers = {w}
  BY DEF WholeInv, RunTypeOK, IInv, OneWorker
<1>1. worker[w].pc = "running" /\ ingest[w].phase = "create"
  BY DEF Create, InPhase
<1>2. Aimed(w) /\ ~ AtWork(w)
  BY <1>1 DEF ShelfInv, AtWork
<1>3. HasTarget(w) /\ Proper(ingest[w].doc) /\ (ingest[w].replacing # NoDoc => ingest[w].doc = ingest[w].replacing)
  BY <1>1, <1>2 DEF Aimed
<1>4. \A d \in DOMAIN docs : Ready(d) /\ Proper(d)
  BY <1>0, <1>2, Resting DEF ShelfInv, ReadyIsProper
<1> DEFINE staged == StagedID(w)
           base == IF ingest[w].replacing = NoDoc THEN docs ELSE Without({staged})
           row == [status |-> "ingesting", source |-> ingest[w].source,
                   digest |-> ingest[w].digest, chunks |-> {}]
<1>5. CASE /\ staged \notin DOMAIN base /\ docs' = With(base, staged, row)
           /\ Goes(w, [ingest[w] EXCEPT !.phase = "fill"]) /\ UNCHANGED vars
  <2>1. staged \notin DOMAIN docs /\ DOMAIN base = DOMAIN docs /\ \A e \in DOMAIN docs : base[e] = docs[e]
    <3>1. CASE ingest[w].replacing = NoDoc
      BY <1>5, <3>1
    <3>2. CASE ingest[w].replacing # NoDoc
      <4>1. ~ Proper(staged)
        BY <1>3, <3>2, StagingApart DEF StagedID
      <4>2. staged \notin DOMAIN docs
        BY <1>4, <4>1
      <4> HIDE DEF staged
      <4> QED
        BY <3>2, <4>2 DEF Without
    <3> QED
      BY <3>1, <3>2
  <2>2. ingest'[w] = [ingest[w] EXCEPT !.phase = "fill"] /\ worker' = worker
    BY <1>0, <1>5 DEF Goes, vars
  <2>3. /\ ingest'[w].phase = "fill" /\ ingest'[w].doc = ingest[w].doc
        /\ ingest'[w].replacing = ingest[w].replacing /\ ingest'[w].source = ingest[w].source
    BY <1>0, <2>2 DEF Fields
  <2>4. StagedID(w)' = staged /\ AtWork(w)'
    BY <1>1, <2>2, <2>3 DEF StagedID, AtWork
  <2>5. row.source = ingest[w].source /\ row.status = "ingesting"
    OBVIOUS
  <2> HIDE DEF staged, row, base
  <2>6. /\ DOMAIN docs' = DOMAIN docs \cup {staged} /\ docs'[staged] = row
        /\ \A e \in DOMAIN docs : docs'[e] = docs[e]
    BY <1>5, <2>1 DEF With
  <2>7. \A d : Ready(d)' <=> Ready(d)
    BY <2>1, <2>5, <2>6 DEF Ready
  <2>8. ReadyIsProper' /\ SourcesApart'
    <3>1. \A d : Ready(d) => d \in DOMAIN docs
      BY DEF Ready
    <3> QED
      BY <2>6, <2>7, <3>1 DEF ShelfInv, ReadyIsProper, SourcesApart
  <2>9. UnreadyIsInHand'
    BY <1>0, <1>4, <2>4, <2>6, <2>7 DEF UnreadyIsInHand
  <2>10. HasTarget(w)'
    <3>1. CASE ingest[w].replacing = NoDoc
      BY <1>3, <2>3, <2>6, <2>7, <3>1 DEF HasTarget, Ready
    <3>2. CASE ingest[w].replacing # NoDoc
      BY <1>3, <2>3, <2>6, <2>7, <3>2 DEF HasTarget, Ready
    <3> QED
      BY <3>1, <3>2
  <2>11. Aimed(w)'
    BY <1>3, <2>3, <2>4, <2>5, <2>6, <2>10 DEF Aimed
  <2>12. SameShelf
    BY <2>6, <2>7 DEF SameShelf, Ready
  <2> QED
    BY <1>0, <2>8, <2>9, <2>11, <2>12 DEF ShelfInv
<1>6. CASE IngestFails(w, "transient") /\ UNCHANGED <<docs, ingest>>
  BY <1>6, FailingStep DEF SameShelf, Ready
<1> QED
  BY <1>5, <1>6, Zenon DEF Create

\* AddChunks goes on filling it.
LEMMA AddingShelf ==
  ASSUME OneWorker, IInv, WholeInv, Visible, ShelfInv, NEW w \in Workers, AddChunks(w)
  PROVE  ShelfInv' /\ SameShelf
<1>0. DOMAIN ingest = Workers /\ DOMAIN ingest[w] = Fields /\ TypeOK /\ Workers = {w}
  BY DEF WholeInv, RunTypeOK, IInv, OneWorker
<1>1. worker[w].pc = "running" /\ ingest[w].phase = "fill"
  BY DEF AddChunks, InPhase
<1>2. Aimed(w) /\ AtWork(w)
  BY <1>1 DEF ShelfInv, AtWork
<1> DEFINE staged == StagedID(w)
           n == ingest[w].batch + 1
<1>3. HasTarget(w) /\ staged \in DOMAIN docs /\ docs[staged].source = ingest[w].source
  BY <1>1, <1>2 DEF Aimed
<1>4. ASSUME NEW chunks, docs' = [docs EXCEPT ![staged].chunks = chunks],
             Goes(w, [ingest[w] EXCEPT !.batch = n]), UNCHANGED vars
      PROVE  ShelfInv' /\ SameShelf
  <2> HIDE DEF n
  <2>1. ingest'[w] = [ingest[w] EXCEPT !.batch = n] /\ worker' = worker
    BY <1>0, <1>4 DEF Goes, vars
  <2>2. /\ ingest'[w].phase = "fill" /\ ingest'[w].doc = ingest[w].doc
        /\ ingest'[w].replacing = ingest[w].replacing /\ ingest'[w].source = ingest[w].source
    BY <1>0, <1>1, <2>1 DEF Fields
  <2>3. StagedID(w)' = staged /\ AtWork(w)'
    BY <1>1, <2>1, <2>2 DEF StagedID, AtWork
  <2>4. DOMAIN docs[staged] = {"status", "source", "digest", "chunks"}
    BY <1>1, <1>3 DEF WholeInv, Filling, Written
  <2> HIDE DEF staged
  <2>5. /\ DOMAIN docs' = DOMAIN docs
        /\ \A e \in DOMAIN docs : docs'[e].source = docs[e].source /\ docs'[e].status = docs[e].status
    BY <1>3, <1>4, <2>4
  <2>6. \A d : Ready(d)' <=> Ready(d)
    BY <2>5 DEF Ready
  <2>7. ReadyIsProper' /\ SourcesApart'
    BY <2>5, <2>6 DEF ShelfInv, ReadyIsProper, SourcesApart
  <2>8. UnreadyIsInHand'
    BY <1>0, <2>3, <2>5, <2>6 DEF ShelfInv, UnreadyIsInHand, staged
  <2>9. HasTarget(w)'
    <3>1. \A d : Ready(d) => d \in DOMAIN docs
      BY DEF Ready
    <3> QED
      BY <1>3, <2>2, <2>5, <2>6, <3>1 DEF HasTarget
  <2>10. Aimed(w)'
    <3>1. Proper(ingest[w].doc) /\ (ingest[w].replacing # NoDoc => ingest[w].doc = ingest[w].replacing)
      BY <1>1, <1>2 DEF Aimed
    <3> QED
      BY <1>3, <2>2, <2>3, <2>5, <2>9, <3>1 DEF Aimed
  <2>11. docs[staged].status = "ingesting"
    BY <1>1, <1>3 DEF WholeInv, Filling, Written, staged
  <2>12. \A e \in DOMAIN docs \ {staged} : docs'[e] = docs[e]
    BY <1>4
  <2>13. SameShelf
    BY <2>6, <2>11, <2>12 DEF SameShelf, Ready
  <2> QED
    BY <1>0, <2>7, <2>8, <2>10, <2>13 DEF ShelfInv
<1>5. CASE IngestFails(w, "transient") /\ UNCHANGED <<docs, ingest>>
  BY <1>5, FailingStep DEF SameShelf, Ready
<1>6. \/ \E chunks : /\ docs' = [docs EXCEPT ![staged].chunks = chunks]
                     /\ Goes(w, [ingest[w] EXCEPT !.batch = n]) /\ UNCHANGED vars
      \/ IngestFails(w, "transient") /\ UNCHANGED <<docs, ingest>>
  BY Zenon DEF AddChunks
<1> QED
  BY <1>4, <1>5, <1>6

\* What swapIn leaves: the new version under its identifier, and no other
\* document touched.
LEMMA SwapResult ==
  ASSUME OneWorker, WholeInv, ShelfInv, NEW w \in Workers, worker[w].pc = "running",
         ingest[w].phase = "fill", docs' = Swapped(w)
  PROVE  /\ Proper(ingest[w].doc) /\ HasTarget(w) /\ StagedID(w) \in DOMAIN docs
         /\ ingest[w].replacing # NoDoc => ingest[w].doc = ingest[w].replacing
         /\ DOMAIN docs' = (DOMAIN docs \ {StagedID(w)}) \cup {ingest[w].doc}
         /\ docs'[ingest[w].doc].status = "ready" /\ docs'[ingest[w].doc].source = ingest[w].source
         /\ docs'[ingest[w].doc].digest = ingest[w].digest
         /\ \A e \in DOMAIN docs' \ {ingest[w].doc} : Ready(e) /\ e \in DOMAIN docs /\ docs'[e] = docs[e]
<1>0. Workers = {w}
  BY DEF OneWorker
<1>1. Aimed(w)
  BY DEF ShelfInv
<1> DEFINE doc == ingest[w].doc
           staged == StagedID(w)
           base == Without({doc, staged})
           row == [docs[staged] EXCEPT !.status = "ready"]
<1>2. /\ Proper(doc) /\ HasTarget(w) /\ (ingest[w].replacing # NoDoc => doc = ingest[w].replacing)
      /\ staged \in DOMAIN docs /\ docs[staged].source = ingest[w].source
  BY <1>1 DEF Aimed
<1>3. DOMAIN docs[staged] = {"status", "source", "digest", "chunks"} /\ docs[staged].digest = ingest[w].digest
  BY <1>2 DEF WholeInv, Filling, Written
<1>4. row.status = "ready" /\ row.source = ingest[w].source /\ row.digest = ingest[w].digest
  BY <1>2, <1>3
<1>5. docs' = With(base, doc, row)
  BY <1>2 DEF Swapped
<1>6. \A d \in DOMAIN docs \ {staged} : Ready(d)
  BY <1>0 DEF ShelfInv, UnreadyIsInHand
<1> HIDE DEF row, doc, staged
<1>7. /\ DOMAIN docs' = (DOMAIN docs \ {staged}) \cup {doc} /\ docs'[doc] = row
      /\ \A e \in DOMAIN docs' \ {doc} : e \in DOMAIN docs \ {staged} /\ docs'[e] = docs[e]
  BY <1>5 DEF With, Without
<1> QED
  BY <1>2, <1>4, <1>6, <1>7 DEF doc, staged

\* MarkReady puts it on the shelf, where its source had none or in the place of
\* the one it had.
LEMMA PublishingShelf ==
  ASSUME OneWorker, IInv, WholeInv, ShelfInv, NEW w \in Workers, MarkReady(w)
  PROVE  ShelfInv'
<1>0. TypeOK /\ Workers = {w} /\ UNCHANGED ingest
  BY DEF IInv, OneWorker, MarkReady
<1>1. worker[w].pc = "running" /\ ingest[w].phase = "fill"
  BY DEF MarkReady, InPhase
<1>2. CASE (Publish(w) \/ PublishUnacked(w)) /\ docs' = Swapped(w)
  <2> DEFINE doc == ingest[w].doc
  <2>1. /\ Proper(doc) /\ HasTarget(w) /\ docs'[doc].status = "ready" /\ docs'[doc].source = ingest[w].source
        /\ ingest[w].replacing # NoDoc => doc = ingest[w].replacing
        /\ DOMAIN docs' = (DOMAIN docs \ {StagedID(w)}) \cup {doc}
        /\ \A e \in DOMAIN docs' \ {doc} : Ready(e) /\ e \in DOMAIN docs /\ docs'[e] = docs[e]
    BY <1>1, <1>2, SwapResult, Zenon
  <2> HIDE DEF doc
  <2>2. \A e \in DOMAIN docs' : Ready(e)' /\ Proper(e)
    BY <2>1 DEF Ready, ShelfInv, ReadyIsProper
  <2>3. ASSUME NEW e \in DOMAIN docs' \ {doc}
        PROVE  docs'[e].source # docs'[doc].source
    <3>1. Ready(e) /\ e \in DOMAIN docs /\ docs'[e] = docs[e]
      BY <2>1
    <3>2. CASE ingest[w].replacing = NoDoc
      BY <2>1, <3>1, <3>2 DEF HasTarget
    <3>3. CASE ingest[w].replacing # NoDoc
      <4>1. Ready(doc) /\ docs[doc].source = ingest[w].source
        BY <2>1, <3>3 DEF HasTarget
      <4> QED
        BY <2>1, <3>1, <4>1 DEF Ready, ShelfInv, SourcesApart
    <3> QED
      BY <3>2, <3>3
  <2>4. SourcesApart'
    <3> SUFFICES ASSUME NEW d \in DOMAIN docs', NEW e \in DOMAIN docs', docs'[d].source = docs'[e].source
                 PROVE  d = e
      BY DEF SourcesApart
    <3>1. CASE d = doc \/ e = doc
      BY <2>3, <3>1
    <3>2. CASE d # doc /\ e # doc
      BY <2>1, <3>2 DEF ShelfInv, SourcesApart
    <3> QED
      BY <3>1, <3>2
  <2>5. worker'[w].pc # "running"
    BY <1>0, <1>2, EndsRunning
  <2> QED
    BY <1>0, <2>2, <2>4, <2>5 DEF ShelfInv, ReadyIsProper, UnreadyIsInHand
<1>3. CASE IngestFails(w, "lostClaim") /\ UNCHANGED docs
  BY <1>0, <1>3, FailingStep
<1> QED
  BY <1>2, <1>3, Zenon DEF MarkReady

\* Deleting leaves a shelf in order, once nothing is in hand.
LEMMA DeletingShelf ==
  ASSUME NEW w \in Workers, Workers = {w}, ShelfInv, NEW gone, docs' = docs \/ docs' = Without(gone),
         \A d \in DOMAIN docs' : Ready(d), worker'[w].pc # "running"
  PROVE  ShelfInv'
<1>1. \A d \in DOMAIN docs' : d \in DOMAIN docs /\ docs'[d] = docs[d]
  BY DEF Without
<1>2. \A d \in DOMAIN docs' : Ready(d)'
  BY <1>1 DEF Ready
<1>3. ReadyIsProper' /\ SourcesApart' /\ UnreadyIsInHand'
  BY <1>1, <1>2 DEF ShelfInv, ReadyIsProper, SourcesApart, UnreadyIsInHand
<1> QED
  BY <1>3 DEF ShelfInv

\* CleanUp lets go of what was in hand, and when jobs are ended nothing is.
LEMMA DroppingShelf ==
  ASSUME OneWorker, IInv, Visible, ShelfInv, NEW w \in Workers,
         CleanUp(w) \/ SettleDocs(w) \/ SweepDocs(w) \/ RoundDocs(w)
  PROVE  ShelfInv'
<1>0. TypeOK /\ Workers = {w}
  BY DEF IInv, OneWorker
<1>1. worker'[w].pc # "running"
  BY <1>0, EndsRunning DEF CleanUp, SettleDocs, SweepDocs, RoundDocs
<1>2. CASE CleanUp(w)
  <2>1. CASE ingest[w].phase = "fill"
    <3>1. docs' = Without({StagedID(w)})
      BY <1>2, <2>1 DEF CleanUp
    <3>2. \A d \in DOMAIN docs' : d \in DOMAIN docs /\ d # StagedID(w)
      BY <3>1 DEF Without
    <3>3. \A d \in DOMAIN docs' : Ready(d)
      BY <1>0, <3>2 DEF ShelfInv, UnreadyIsInHand
    <3> QED
      BY <1>0, <1>1, <3>1, <3>3, DeletingShelf
  <2>2. CASE ingest[w].phase # "fill"
    <3>1. docs' = docs /\ ~ AtWork(w)
      BY <1>2, <2>2 DEF CleanUp, AtWork
    <3> QED
      BY <1>0, <1>1, <3>1, Resting, DeletingShelf
  <2> QED
    BY <2>1, <2>2
<1>3. CASE SettleDocs(w) \/ SweepDocs(w) \/ RoundDocs(w)
  <2>1. worker[w].pc \in {"returned", "serving", "idle"}
    BY <1>3 DEF SettleDocs, SweepDocs, RoundDocs, Settle, Sweep, Round
  <2>2. \A d \in DOMAIN docs : Ready(d)
    BY <1>0, <2>1, Resting DEF AtWork
  <2>3. PICK gone : docs' = docs \/ docs' = Without(gone)
    BY <1>3, Zenon DEF SettleDocs, SweepDocs, RoundDocs
  <2>4. \A d \in DOMAIN docs' : Ready(d)
    BY <2>2, <2>3 DEF Without
  <2> QED
    BY <1>0, <1>1, <2>3, <2>4, DeletingShelf
<1> QED
  BY <1>2, <1>3

\* Every step keeps the shelf in order while no worker crashes.
LEMMA ShelfStep ==
  ASSUME OneWorker, MaxCrashes = 0, IInv, WholeInv, Visible, ShelfInv, [IngestNext]_allVars
  PROVE  ShelfInv'
<1>1. ASSUME NEW w \in Workers, CrashIngest(w)
      PROVE  FALSE
  <2>1. spent.crashes < MaxCrashes /\ spent \in Spent
    BY <1>1 DEF CrashIngest, Crash, IInv, TypeOK
  <2> QED
    BY <2>1 DEF Spent
<1>2. ASSUME NEW w \in Workers, Fails(w)
      PROVE  ShelfInv'
  <2>1. UNCHANGED <<docs, ingest>> /\ \E err : IngestFails(w, err)
    BY <1>2, Zenon DEF Fails, ingestVars
  <2> QED
    BY <2>1, FailingStep
<1>3. ASSUME NEW w \in Workers, UNCHANGED <<docs, ingest>>,
             GoesOn(w) \/ NeverStarted(w) \/ (~ Busy(w) /\ ~ Busy(w)')
      PROVE  ShelfInv'
  <2>1. Workers = {w}
    BY DEF OneWorker
  <2>2. StagedID(w)' = StagedID(w) /\ (Aimed(w) => Aimed(w)')
    BY <1>3, AimedFrame
  <2>3. AtWork(w) => AtWork(w)'
    BY <1>3 DEF AtWork, GoesOn, NeverStarted, Busy
  <2>4. worker'[w].pc = "running" => Aimed(w)'
    BY <1>3, <2>2 DEF GoesOn, NeverStarted, Busy, ShelfInv
  <2> QED
    BY <1>3, <2>1, <2>2, <2>3, <2>4, ShelfFrame
<1>4. CASE QueueOnly
  <2>1. UNCHANGED <<docs, ingest>>
    BY <1>4 DEF QueueOnly, ingestVars
  <2>2. CASE Workers = {}
    BY <2>1, <2>2 DEF ShelfInv, ReadyIsProper, UnreadyIsInHand, SourcesApart, Ready
  <2> QED
    BY <1>3, <1>4, <2>1, <2>2, QueueOnlyKeeps
<1>5. CASE UNCHANGED allVars \/ \E s \in Sources : Edit(s)
  <2>1. UNCHANGED <<docs, ingest, worker>>
    BY <1>5 DEF Edit, allVars, ingestVars, vars
  <2>2. CASE Workers = {}
    BY <2>1, <2>2 DEF ShelfInv, ReadyIsProper, UnreadyIsInHand, SourcesApart, Ready
  <2> QED
    BY <1>3, <2>1, <2>2 DEF GoesOn
<1> QED
  BY <1>1, <1>2, <1>4, <1>5, FindingStep, CreatingShelf, AddingShelf, PublishingShelf, DroppingShelf
    DEF IngestNext

\* What holds of the documents until somebody's access changes.
DocsInv == AccessInv /\ (spent.changes = 0 => ShelfInv)

\* The steps above, together.
LEMMA ShelfHolds ==
  ASSUME OneWorker, MaxCrashes = 0
  PROVE  IngestSpec => []DocsInv
<1>1. IngestInit => DocsInv
  <2> SUFFICES ASSUME IngestInit PROVE Visible /\ ShelfInv
    BY DEF DocsInv, AccessInv
  <2>1. Visible
    BY DEF IngestInit, Init, Visible
  <2>2. DOMAIN docs = {}
    BY DEF IngestInit
  <2>3. \A w \in Workers : worker[w].pc = "idle"
    BY DEF IngestInit, Init, At
  <2> QED
    BY <2>1, <2>2, <2>3 DEF ShelfInv, ReadyIsProper, UnreadyIsInHand, SourcesApart
<1>2. IInv /\ WholeInv /\ DocsInv /\ [IngestNext]_allVars => DocsInv'
  <2> SUFFICES ASSUME IInv, WholeInv, DocsInv, [IngestNext]_allVars, spent'.changes = 0
               PROVE  Visible' /\ ShelfInv'
    BY DEF DocsInv, AccessInv
  <2>1. spent.changes = 0 /\ Visible /\ access' = access
    BY QueueStep, UntilAChange DEF IInv, DocsInv
  <2>2. Visible'
    BY <2>1 DEF Visible
  <2> QED
    BY <2>1, <2>2, ShelfStep DEF DocsInv
<1> QED
  BY <1>1, <1>2, WholeHolds, PTL DEF IngestSpec

\* With one worker that does not crash, a source has one document for as long
\* as the requester kept the library, whatever fails, lapses or is cancelled
\* and however the source changes.
THEOREM SourcesStayApart ==
  ASSUME OneWorker, MaxCrashes = 0
  PROVE  IngestSpec => []OneDocumentPerSource
<1>1. DocsInv => OneDocumentPerSource
  BY DEF DocsInv, ShelfInv, SourcesApart, OneDocumentPerSource
<1> QED
  BY <1>1, ShelfHolds, PTL

\* Under the same conditions nothing half written outlives the ingest that
\* wrote it.
THEOREM NothingStays ==
  ASSUME OneWorker, MaxCrashes = 0
  PROVE  IngestSpec => []NothingLeftBehind
<1>1. DocsInv => NothingLeftBehind
  BY DEF DocsInv, ShelfInv, UnreadyIsInHand, AtWork, Executing, NothingLeftBehind
<1> QED
  BY <1>1, ShelfHolds, PTL

\* Under the same conditions a staging identifier is never published: it takes
\* a crash in a replacement, and a lookup that answers with the row it left.
THEOREM StagingStaysHidden ==
  ASSUME OneWorker, MaxCrashes = 0
  PROVE  IngestSpec => [](spent.changes = 0 => StagingNeverReady)
<1>1. DocsInv => (spent.changes = 0 => StagingNeverReady)
  BY DEF DocsInv, ShelfInv, ReadyIsProper, Proper, StagingNeverReady
<1> QED
  BY <1>1, ShelfHolds, PTL

-----------------------------------------------------------------------------
(* What readers see.  A done job has its document, and the library is the   *)
(* one LibraryView describes: for one worker that does not crash, answers   *)
(* that arrive, and access that does not change.                            *)

Calm == OneWorker /\ MaxCrashes = 0 /\ MaxUnacked = 0 /\ MaxChanges = 0

\* A worker about to confirm a document has it on the shelf, and one about to
\* clean up does not.
AboutToEnd(w) ==
  /\ worker[w].pc = "returned" /\ worker[w].err = "unchanged" => Ready(ingest[w].doc)
  /\ worker[w].pc = "unwinding" => worker[w].err # "unchanged"
  /\ worker[w].pc = "unwinding" /\ ingest[w].phase = "fill" => ~ Ready(StagedID(w))

DoneInv == DOMAIN jobDoc = Jobs /\ DoneHasDocument /\ \A w \in Workers : AboutToEnd(w)

\* The versions ingests read are versions of their sources.
DigestInv ==
  /\ content \in [Sources -> Digests]
  /\ \A w \in Workers :
       worker[w].pc = "running" /\ ingest[w].phase # "acquire" => ingest[w].digest \in Digests

\* What holds in every state of a calm library.
CalmInv == IInv /\ WholeInv /\ Visible /\ ShelfInv /\ DoneInv /\ DigestInv

\* The jobs that read as done are the same after the step.
SameDone == \A j \in Jobs : jobs'[j].status = "done" <=> jobs[j].status = "done"

\* What the sweep, Cancel and Finish delete, no search sees.
LEMMA PartialUnready ==
  ASSUME NEW w \in Workers, Workers = {w}, ShelfInv, ~ AtWork(w), NEW j \in Jobs, NEW d \in Partial(j)
  PROVE  ~ Ready(d)
<1>1. jobDoc[j] \in DOMAIN docs
  BY DEF Partial
<1>2. Ready(jobDoc[j]) /\ Proper(jobDoc[j])
  BY <1>1, Resting DEF ShelfInv, ReadyIsProper
<1>3. d = Staging(jobDoc[j])
  BY <1>1, <1>2 DEF Partial
<1>4. ~ Proper(d)
  BY <1>2, <1>3, StagingApart
<1> QED
  BY <1>4 DEF ShelfInv, ReadyIsProper, Ready

\* Ending jobs and cleaning up show in no search.
LEMMA DroppingSame ==
  ASSUME Calm, CalmInv, access' = access, NEW w \in Workers,
         CleanUp(w) \/ SettleDocs(w) \/ SweepDocs(w) \/ RoundDocs(w)
  PROVE  SameShelf
<1>1. ASSUME NEW gone, docs' = docs \/ docs' = Without(gone), \A d \in gone : ~ Ready(d)
      PROVE  SameShelf
  <2>1. \A d : d \notin gone /\ d \in DOMAIN docs => d \in DOMAIN docs' /\ docs'[d] = docs[d]
    BY <1>1 DEF Without
  <2>2. \A d \in DOMAIN docs' : d \in DOMAIN docs /\ docs'[d] = docs[d]
    BY <1>1 DEF Without
  <2> QED
    BY <1>1, <2>1, <2>2 DEF SameShelf, Ready
<1>2. ASSUME SettleDocs(w) \/ SweepDocs(w)
      PROVE  \A j \in Jobs : \A d \in Partial(j) : ~ Ready(d)
  <2>1. ~ AtWork(w) /\ Workers = {w}
    BY <1>2 DEF SettleDocs, SweepDocs, Settle, Sweep, AtWork, Calm, OneWorker
  <2> QED
    BY <2>1, PartialUnready DEF CalmInv
<1>3. docs' = docs => SameShelf
  BY DEF SameShelf, Ready
<1>4. CASE CleanUp(w)
  <2>1. CASE ingest[w].phase = "fill"
    <3>1. worker[w].pc = "unwinding" /\ docs' = Without({StagedID(w)})
      BY <1>4, <2>1 DEF CleanUp, Unwind, CalmInv
    <3>2. ~ Ready(StagedID(w))
      BY <2>1, <3>1 DEF CalmInv, DoneInv, AboutToEnd
    <3> QED
      BY <1>1, <3>1, <3>2
  <2>2. CASE ingest[w].phase # "fill"
    BY <1>3, <1>4, <2>2 DEF CleanUp
  <2> QED
    BY <2>1, <2>2
<1>5. CASE SettleDocs(w)
  <2>1. docs' = docs \/ docs' = Without(Partial(worker[w].job))
    BY <1>5, Zenon DEF SettleDocs
  <2>2. worker[w].job \in Jobs
    BY <1>5 DEF SettleDocs, Settle, CalmInv, IInv, HasItsJob, Executing
  <2> QED
    BY <1>1, <1>2, <1>5, <2>1, <2>2
<1>6. CASE SweepDocs(w)
  <2> DEFINE gone == UNION {Partial(j) : j \in {i \in Jobs : Visible /\ Stranded(i)}}
  <2>1. docs' = Without(gone)
    BY <1>6, Zenon DEF SweepDocs
  <2>2. \A d \in gone : ~ Ready(d)
    BY <1>2, <1>6
  <2> HIDE DEF gone
  <2> QED
    BY <1>1, <2>1, <2>2
<1>7. CASE RoundDocs(w)
  <2>1. access'.library # "purged"
    BY DEF CalmInv, Visible
  <2> QED
    BY <1>3, <1>7, <2>1 DEF RoundDocs
<1> QED
  BY <1>4, <1>5, <1>6, <1>7

\* Nobody but MarkReady and Complete makes a job done, and none that is done
\* becomes anything else.
LEMMA DoneRows ==
  ASSUME Calm, IInv, Visible, access' = access,
         \/ QueueOnly
         \/ \E w \in Workers : Sweep(w) \/ Round(w) \/ (Settle(w) /\ Verdict(w) # "complete")
         \/ UNCHANGED jobs
  PROVE  SameDone
<1> USE DEF IInv, TypeOK
<1>0. jobs \in [Jobs -> JobRow]
  OBVIOUS
<1>1. ASSUME NEW j, NEW row, jobs' = [jobs EXCEPT ![j] = row],
             j \in Jobs => (row.status = "done" <=> jobs[j].status = "done")
      PROVE  SameDone
  BY <1>0, <1>1 DEF SameDone
<1>2. ASSUME NEW j, NEW lease \in {"live", "old", "lapsed"}, jobs' = [jobs EXCEPT ![j].lease = lease]
      PROVE  SameDone
  BY <1>0, <1>2 DEF SameDone, JobRow
<1>3. CASE UNCHANGED jobs
  BY <1>3 DEF SameDone
<1>4. ASSUME NEW j \in Jobs, Enqueue(j)
      PROVE  SameDone
  BY <1>0, <1>4 DEF Enqueue, SameDone, JobRow
<1>5. ASSUME NEW j \in Jobs, EnqueueCommit(j)
      PROVE  SameDone
  BY <1>0, <1>5 DEF EnqueueCommit, SameDone, JobRow
<1>6. ASSUME NEW j \in Jobs, RequestCancel(j)
      PROVE  SameDone
  <2>1. jobs[j] \in JobRow
    BY <1>0
  <2>2. Cancelled(jobs[j]).status = "done" <=> jobs[j].status = "done"
    BY <2>1 DEF Cancelled, JobRow
  <2>3. jobs' = [jobs EXCEPT ![j] = Cancelled(jobs[j])]
    BY <1>6 DEF RequestCancel
  <2> QED
    BY <1>1, <2>2, <2>3
<1>7. ASSUME NEW j \in Jobs, LeaseAges(j) \/ LeaseRunsOut(j) \/ LeaseOutlived(j)
      PROVE  SameDone
  BY <1>2, <1>7 DEF LeaseAges, LeaseRunsOut, LeaseOutlived, LeaseLapse
<1>8. ~ DeleteLibrary
  <2>1. ~ (spent.changes < MaxChanges)
    BY DEF Calm, Spent
  <2> QED
    BY <2>1, Zenon DEF DeleteLibrary
<1>9. ASSUME NEW w \in Workers, ClaimCommit(w)
      PROVE  SameDone
  <2> DEFINE j == worker[w].job
  <2>1. jobs' = [jobs EXCEPT ![j] = Claimed(jobs[j])] /\ worker[w].pc = "claiming"
    BY <1>9 DEF ClaimCommit
  <2>2. j \in Jobs /\ Claimable(j) /\ jobs[j] \in JobRow
    BY <1>0, <2>1 DEF LockedRows
  <2>3. jobs[j].status # "done"
    BY <2>2 DEF Claimable, Lapsed
  <2>4. Claimed(jobs[j]).status = "running"
    BY <2>2 DEF Claimed, JobRow
  <2> HIDE DEF j
  <2> QED
    BY <1>1, <2>1, <2>3, <2>4
<1>10. ASSUME NEW w \in Workers, Watch(w) \/ Progress(w)
       PROVE  SameDone
  <2>1. jobs' = jobs \/ jobs' = [jobs EXCEPT ![worker[w].job].lease = "live"]
    BY <1>10, Zenon DEF Watch, WatchRenew, WatchRead, WatchStop, Progress
  <2> QED
    BY <1>2, <1>3, <2>1
<1>11. CASE QueueOnly
  <2>1. ASSUME NEW j \in Jobs, ReadForCancel(j)
        PROVE  UNCHANGED jobs
    BY <2>1 DEF ReadForCancel
  <2>2. ASSUME RevokeGrant \/ GrantAgain \/ RestoreLibrary \/ GraceEnds
        PROVE  UNCHANGED jobs
    BY <2>2, Zenon DEF RevokeGrant, GrantAgain, RestoreLibrary, GraceEnds
  <2>3. ASSUME NEW w \in Workers,
               \/ ServePinned(w) \/ ClaimLock(w) \/ ClaimNone(w) \/ Restart(w)
               \/ \E err \in {"transient", "permanent"} : SourceError(w, err)
        PROVE  UNCHANGED jobs
    BY <2>3, Zenon DEF ServePinned, ClaimLock, ClaimNone, Restart, SourceError
  <2> QED
    BY <1>3, <1>4, <1>5, <1>6, <1>7, <1>8, <1>9, <1>10, <1>11, <2>1, <2>2, <2>3 DEF QueueOnly
<1>12. ASSUME NEW w \in Workers, Sweep(w)
       PROVE  SameDone
  <2>1. ASSUME NEW j \in Jobs
        PROVE  jobs'[j].status = "done" <=> jobs[j].status = "done"
    <3>1. jobs[j] \in JobRow
      BY <1>0
    <3>2. CASE Visible /\ Stranded(j)
      <4>1. jobs'[j] = [jobs[j] EXCEPT !.status = IF jobs[j].cancelReq THEN "cancelled" ELSE "failed",
                                       !.lease = "none"]
        BY <1>12, <3>2 DEF Sweep
      <4>2. jobs[j].status = "running"
        BY <3>2 DEF Stranded, Lapsed
      <4>3. jobs'[j].status \in {"cancelled", "failed"}
        BY <3>1, <4>1 DEF JobRow
      <4> QED
        BY <4>2, <4>3
    <3>3. CASE ~ (Visible /\ Stranded(j))
      BY <1>12, <3>3 DEF Sweep
    <3> QED
      BY <3>2, <3>3
  <2> QED
    BY <2>1 DEF SameDone
<1>13. ASSUME NEW w \in Workers, Round(w)
       PROVE  SameDone
  <2>1. ASSUME NEW j \in Jobs
        PROVE  jobs'[j] = jobs[j]
    <3>1. access'.library # "purged" /\ ~ Unclaimable(j)
      BY DEF Visible, Unclaimable
    <3> QED
      BY <1>13, <3>1 DEF Round
  <2> QED
    BY <2>1 DEF SameDone
<1>14. ASSUME NEW w \in Workers, Settle(w), Verdict(w) # "complete"
       PROVE  SameDone
  <2> DEFINE j == worker[w].job
  <2>1. CASE UNCHANGED jobs
    BY <1>3, <2>1
  <2>2. CASE (Verdict(w) = "leave" \/ Fenced(w)) /\ jobs' = [jobs EXCEPT ![j] = Settled(jobs[j], Verdict(w))]
    <3>1. j \in Jobs /\ jobs[j] \in JobRow
      BY <1>0, <1>14 DEF Settle, HasItsJob, Executing
    <3>2. CASE Verdict(w) = "leave"
      <4>1. Settled(jobs[j], Verdict(w)) = jobs[j]
        BY <3>2 DEF Settled
      <4> QED
        BY <1>1, <2>2, <4>1
    <3>3. CASE Verdict(w) # "leave" /\ Fenced(w)
      <4>1. Verdict(w) \in {"cancel", "failPermanently", "fail", "requeue"}
        BY <1>14, <3>3 DEF Verdict
      <4>2. Settled(jobs[j], Verdict(w)).status # "done" /\ jobs[j].status = "running"
        BY <3>1, <3>3, <4>1 DEF Settled, JobRow, Fenced
      <4> QED
        BY <1>1, <2>2, <4>2
    <3> QED
      BY <2>2, <3>2, <3>3
  <2> QED
    BY <1>14, <2>1, <2>2 DEF Settle
<1> HIDE DEF IInv, TypeOK
<1> QED
  BY <1>3, <1>11, <1>12, <1>13, <1>14

\* Job j is the one job that becomes done.
Completes(j) ==
  /\ jobs[j].status # "done" /\ jobs'[j].status = "done"
  /\ \A i \in Jobs \ {j} : jobs'[i].status = "done" <=> jobs[i].status = "done"
  /\ \A i \in Jobs \ {j} : jobDoc'[i] = jobDoc[i]

\* Nothing a reader could tell happens.
Unseen ==
  SameShelf /\ SameDone /\ \A j \in Jobs : jobs[j].status = "done" => jobDoc'[j] = jobDoc[j]

\* The ingest of w publishes what it wrote and completes its job.
Publishes(w) ==
  /\ worker[w].pc = "running" /\ ingest[w].phase = "fill" /\ docs' = Swapped(w)
  /\ worker[w].job \in Jobs /\ Completes(worker[w].job)
  /\ ingest' = ingest /\ jobDoc'[worker[w].job] = ingest[w].doc
  /\ worker'[w].pc = "returned" /\ worker'[w].err = "published"

\* Worker w completes a job whose bytes were held already.
Confirms(w) ==
  /\ worker[w].pc = "returned" /\ worker[w].err = "unchanged" /\ SameShelf
  /\ worker[w].job \in Jobs /\ Completes(worker[w].job)
  /\ jobDoc'[worker[w].job] = ingest[w].doc

\* The row of a job that is completed.
LEMMA CompletesRow ==
  ASSUME IInv, DoneInv, NEW w \in Workers, Executing(w), Fenced(w),
         jobs' = [jobs EXCEPT ![worker[w].job] = Completed(jobs[worker[w].job])],
         jobDoc' = [jobDoc EXCEPT ![worker[w].job] = ingest[w].doc]
  PROVE  /\ worker[w].job \in Jobs /\ Completes(worker[w].job)
         /\ jobDoc'[worker[w].job] = ingest[w].doc
<1> DEFINE j == worker[w].job
<1>1. j \in Jobs /\ jobs \in [Jobs -> JobRow] /\ DOMAIN jobDoc = Jobs
  BY DEF IInv, TypeOK, HasItsJob, DoneInv
<1>2. jobs[j].status = "running" /\ jobs[j] \in JobRow
  BY <1>1 DEF Fenced
<1>3. Completed(jobs[j]).status = "done"
  BY <1>2 DEF Completed, JobRow
<1> HIDE DEF j
<1>4. /\ jobs'[j] = Completed(jobs[j]) /\ jobDoc'[j] = ingest[w].doc
      /\ \A i \in Jobs \ {j} : jobs'[i] = jobs[i] /\ jobDoc'[i] = jobDoc[i]
  BY <1>1 DEF j
<1> QED
  BY <1>1, <1>2, <1>3, <1>4 DEF Completes, j

\* A reader sees a step of the ingest as nothing, or as a job that completes.
LEMMA ReaderSees ==
  ASSUME Calm, CalmInv, access' = access, [IngestNext]_allVars
  PROVE  Unseen \/ \E w \in Workers : Publishes(w) \/ Confirms(w)
<1> USE DEF CalmInv
<1>1. docs' = docs => SameShelf
  BY DEF SameShelf, Ready
<1>2. UNCHANGED jobs => SameDone
  BY DEF SameDone
<1>3. ASSUME NEW w \in Workers, StartIngest(w) \/ Acquire(w) \/ Destination(w) \/ Fails(w)
      PROVE  Unseen
  <2>1. docs' = docs /\ jobDoc' = jobDoc /\ jobs' = jobs
    BY <1>3, Zenon DEF StartIngest, OpenSource, Acquire, Unchanged, Destination, Fails, IngestFails, ingestVars, vars
  <2> QED
    BY <1>1, <1>2, <2>1 DEF Unseen
<1>4. ASSUME NEW w \in Workers, Prepare(w)
      PROVE  Unseen
  <2>1. docs' = docs /\ jobs' = jobs
    BY <1>4, Zenon DEF Prepare, vars
  <2>2. PICK doc : jobDoc' = IF Fenced(w) THEN [jobDoc EXCEPT ![worker[w].job] = doc] ELSE jobDoc
    BY <1>4, Zenon DEF Prepare
  <2>3. \A j \in Jobs : jobs[j].status = "done" => jobDoc'[j] = jobDoc[j]
    BY <2>2 DEF Fenced, DoneInv
  <2> QED
    BY <1>1, <1>2, <2>1, <2>3 DEF Unseen
<1>5. ASSUME NEW w \in Workers, Create(w) \/ AddChunks(w)
      PROVE  Unseen
  <2>1. jobDoc' = jobDoc /\ jobs' = jobs
    BY <1>5, Zenon DEF Create, AddChunks, IngestFails, vars
  <2>2. SameShelf
    BY <1>5, CreatingShelf, AddingShelf DEF Calm
  <2> QED
    BY <1>2, <2>1, <2>2 DEF Unseen
<1>6. ASSUME NEW w \in Workers, MarkReady(w)
      PROVE  Unseen \/ Publishes(w)
  <2>1. ~ PublishUnacked(w)
    <3>1. ~ (spent.unacked < MaxUnacked)
      BY DEF Calm, IInv, TypeOK, Spent
    <3> QED
      BY <3>1, Zenon DEF PublishUnacked
  <2>2. CASE IngestFails(w, "lostClaim") /\ UNCHANGED <<docs, jobDoc>>
    <3>1. jobs' = jobs
      BY <2>2, Zenon DEF IngestFails
    <3> QED
      BY <1>1, <1>2, <2>2, <3>1 DEF Unseen
  <2>3. CASE /\ Publish(w) /\ docs' = Swapped(w)
             /\ jobDoc' = [jobDoc EXCEPT ![worker[w].job] = ingest[w].doc]
    <3>1. worker[w].pc = "running" /\ ingest[w].phase = "fill" /\ ingest' = ingest
      BY <1>6 DEF MarkReady, InPhase
    <3>2. Fenced(w) /\ jobs' = [jobs EXCEPT ![worker[w].job] = Completed(jobs[worker[w].job])]
      BY <2>3 DEF Publish
    <3>3. worker'[w] = [worker[w] EXCEPT !.pc = "returned", !.err = "published"]
      BY <2>3, MovesOne DEF Publish, IInv
    <3>4. worker'[w].pc = "returned" /\ worker'[w].err = "published"
      BY <3>3 DEF IInv, TypeOK, WorkerState
    <3> QED
      BY <2>3, <3>1, <3>2, <3>4, CompletesRow DEF Publishes, Executing
  <2> QED
    BY <1>6, <2>1, <2>2, <2>3, Zenon DEF MarkReady
<1>7. ASSUME NEW w \in Workers, SettleDocs(w)
      PROVE  Unseen \/ Confirms(w)
  <2>1. SameShelf
    BY <1>7, DroppingSame
  <2>2. CASE Verdict(w) = "complete" /\ Fenced(w)
    <3>1. worker[w].pc = "returned" /\ worker[w].err = "unchanged"
      BY <1>7, <2>2 DEF SettleDocs, Settle, Verdict
    <3>2. jobs' = [jobs EXCEPT ![worker[w].job] = Completed(jobs[worker[w].job])]
      BY <1>7, <2>2 DEF SettleDocs, Settle, Settled
    <3>3. jobDoc' = [jobDoc EXCEPT ![worker[w].job] = ingest[w].doc]
      BY <1>7, <2>2 DEF SettleDocs
    <3> QED
      BY <2>1, <2>2, <3>1, <3>2, <3>3, CompletesRow DEF Confirms, Executing
  <2>3. CASE ~ (Verdict(w) = "complete" /\ Fenced(w))
    <3>1. jobDoc' = jobDoc
      BY <1>7, <2>3 DEF SettleDocs
    <3>2. SameDone
      <4>1. Settle(w)
        BY <1>7 DEF SettleDocs
      <4>2. Verdict(w) = "complete" => UNCHANGED jobs
        BY <2>3, <4>1 DEF Settle
      <4> QED
        BY <4>1, <4>2, DoneRows
    <3> QED
      BY <2>1, <3>1, <3>2 DEF Unseen
  <2> QED
    BY <2>2, <2>3
<1>8. ASSUME NEW w \in Workers, CleanUp(w) \/ SweepDocs(w) \/ RoundDocs(w)
      PROVE  Unseen
  <2>1. SameShelf
    BY <1>8, DroppingSame
  <2>2. jobDoc' = jobDoc
    BY <1>8, Zenon DEF CleanUp, SweepDocs, RoundDocs
  <2>3. SameDone
    BY <1>8, DoneRows DEF CleanUp, Unwind, SweepDocs, RoundDocs
  <2> QED
    BY <2>1, <2>2, <2>3 DEF Unseen
<1>9. ASSUME NEW w \in Workers, CrashIngest(w)
      PROVE  FALSE
  <2>1. spent.crashes < MaxCrashes /\ spent \in Spent
    BY <1>9 DEF CrashIngest, Crash, IInv, TypeOK
  <2> QED
    BY <2>1 DEF Spent, Calm
<1>10. CASE QueueOnly
  <2>1. docs' = docs /\ jobDoc' = jobDoc
    BY <1>10 DEF QueueOnly, ingestVars
  <2> QED
    BY <1>1, <1>10, <2>1, DoneRows DEF Unseen
<1>11. CASE UNCHANGED allVars \/ \E s \in Sources : Edit(s)
  <2>1. docs' = docs /\ jobDoc' = jobDoc /\ jobs' = jobs
    BY <1>11 DEF Edit, allVars, ingestVars, vars
  <2> QED
    BY <1>1, <1>2, <2>1 DEF Unseen
<1> HIDE DEF CalmInv
<1> QED
  BY <1>3, <1>4, <1>5, <1>6, <1>7, <1>8, <1>9, <1>10, <1>11 DEF IngestNext

\* A published document outlives every step, and what was published last has
\* the place of what it replaced.
LEMMA ReadyStays ==
  ASSUME Calm, CalmInv, Unseen \/ \E w \in Workers : Publishes(w) \/ Confirms(w)
  PROVE  \A d : Ready(d) => Ready(d)'
<1>1. ASSUME NEW w \in Workers, Publishes(w), NEW d, Ready(d)
      PROVE  Ready(d)'
  <2> DEFINE doc == ingest[w].doc
  <2>1. /\ StagedID(w) \in DOMAIN docs /\ docs'[doc].status = "ready"
        /\ DOMAIN docs' = (DOMAIN docs \ {StagedID(w)}) \cup {doc}
        /\ \A e \in DOMAIN docs' \ {doc} : e \in DOMAIN docs /\ docs'[e] = docs[e]
    BY <1>1, SwapResult, Zenon DEF Publishes, Calm, CalmInv
  <2>2. ~ Ready(StagedID(w))
    BY <1>1, <2>1 DEF Publishes, CalmInv, WholeInv, Filling, Written, Ready
  <2> HIDE DEF doc
  <2> QED
    BY <1>1, <2>1, <2>2 DEF Ready
<1>2. SameShelf => \A d : Ready(d) => Ready(d)'
  BY DEF SameShelf
<1> QED
  BY <1>1, <1>2 DEF Unseen, Confirms

\* A job that reads as done keeps its document.
LEMMA DoneStep ==
  ASSUME Calm, CalmInv, Unseen \/ \E w \in Workers : Publishes(w) \/ Confirms(w)
  PROVE  DoneHasDocument'
<1> SUFFICES ASSUME NEW j \in Jobs, jobs'[j].status = "done"
             PROVE  Ready(jobDoc[j])'
  BY DEF DoneHasDocument
<1>1. \A d : Ready(d) => Ready(d)'
  BY ReadyStays
<1>2. ASSUME jobs[j].status = "done", jobDoc'[j] = jobDoc[j]
      PROVE  Ready(jobDoc[j])'
  <2>1. Ready(jobDoc[j])
    BY <1>2 DEF CalmInv, DoneInv, DoneHasDocument
  <2> QED
    BY <1>1, <1>2, <2>1 DEF Ready
<1>3. CASE Unseen
  BY <1>2, <1>3 DEF Unseen, SameDone
<1>4. ASSUME NEW w \in Workers, Publishes(w)
      PROVE  Ready(jobDoc[j])'
  <2>1. CASE j = worker[w].job
    <3>1. jobDoc'[j] = ingest[w].doc
      BY <1>4, <2>1 DEF Publishes
    <3>2. /\ DOMAIN docs' = (DOMAIN docs \ {StagedID(w)}) \cup {ingest[w].doc}
          /\ docs'[ingest[w].doc].status = "ready"
      BY <1>4, SwapResult, Zenon DEF Publishes, Calm, CalmInv
    <3> QED
      BY <3>1, <3>2 DEF Ready
  <2>2. CASE j # worker[w].job
    BY <1>2, <1>4, <2>2 DEF Publishes, Completes
  <2> QED
    BY <2>1, <2>2
<1>5. ASSUME NEW w \in Workers, Confirms(w)
      PROVE  Ready(jobDoc[j])'
  <2>1. CASE j = worker[w].job
    <3>1. jobDoc'[j] = ingest[w].doc /\ Ready(ingest[w].doc)
      BY <1>5, <2>1 DEF Confirms, CalmInv, DoneInv, AboutToEnd
    <3> QED
      BY <1>1, <3>1 DEF Ready
  <2>2. CASE j # worker[w].job
    BY <1>2, <1>5, <2>2 DEF Confirms, Completes
  <2> QED
    BY <2>1, <2>2
<1> QED
  BY <1>3, <1>4, <1>5

\* What a worker is about to end with is still so after the step.
LEMMA EndingStep ==
  ASSUME Calm, CalmInv, access' = access, [IngestNext]_allVars, NEW w \in Workers
  PROVE  AboutToEnd(w)'
<1>0. TypeOK /\ Workers = {w} /\ worker[w] \in WorkerState /\ DOMAIN ingest = Workers /\ DOMAIN ingest[w] = Fields
  BY DEF Calm, OneWorker, CalmInv, IInv, TypeOK, WholeInv, RunTypeOK
<1>1. ASSUME worker'[w].pc \notin {"returned", "unwinding"}
      PROVE  AboutToEnd(w)'
  BY <1>1 DEF AboutToEnd
<1>2. ASSUME GoesOn(w), ingest'[w] = ingest[w], docs' = docs
      PROVE  AboutToEnd(w)'
  BY <1>2 DEF CalmInv, DoneInv, AboutToEnd, GoesOn, Ready, StagedID
<1>3. ASSUME NEW err \in IngestErrs, IngestFails(w, err), docs' = docs, ingest' = ingest
      PROVE  AboutToEnd(w)'
  <2>1. worker[w].pc = "running" /\ worker'[w].pc = "unwinding" /\ worker'[w].err = err
    BY <1>3, FailingStep DEF Calm, CalmInv
  <2>2. ingest[w].phase = "fill" => ~ Ready(StagedID(w))
    BY <2>1 DEF CalmInv, WholeInv, Filling, Written, Ready
  <2> QED
    BY <1>3, <2>1, <2>2 DEF AboutToEnd, IngestErrs, Ready, StagedID
<1>4. CASE StartIngest(w)
  <2>1. worker'[w] = [worker[w] EXCEPT !.pc = "running", !.watch = "asleep"]
    BY <1>0, <1>4, MovesOne DEF StartIngest, OpenSource
  <2> QED
    BY <1>0, <1>1, <2>1 DEF WorkerState
<1>5. CASE Acquire(w)
  <2> DEFINE digest == content[SourceOf[worker[w].job]]
             held == {d \in Seen : Ready(d) /\ docs[d].digest = digest}
             read == [ingest[w] EXCEPT !.digest = digest]
  <2>1. UNCHANGED vars \/ \E d \in held : Goes(w, [read EXCEPT !.doc = d]) /\ Unchanged(w)
    BY <1>5, Zenon DEF Acquire
  <2>2. worker[w].pc = "running" /\ docs' = docs
    BY <1>5 DEF Acquire, InPhase
  <2>3. CASE UNCHANGED vars
    BY <1>1, <2>2, <2>3 DEF vars
  <2>4. ASSUME NEW d \in held, Goes(w, [read EXCEPT !.doc = d]), Unchanged(w)
        PROVE  AboutToEnd(w)'
    <3>1. DOMAIN read = Fields
      BY <1>0
    <3> HIDE DEF read
    <3>2. ingest'[w].doc = d
      BY <1>0, <2>4, <3>1 DEF Goes, Fields
    <3>3. worker'[w] = [worker[w] EXCEPT !.pc = "returned", !.err = "unchanged"]
      BY <1>0, <2>4, MovesOne DEF Unchanged
    <3>4. worker'[w].pc = "returned"
      BY <1>0, <3>3 DEF WorkerState
    <3> QED
      BY <2>2, <3>2, <3>4 DEF AboutToEnd, Ready
  <2> QED
    BY <2>1, <2>3, <2>4
<1>6. CASE Destination(w) \/ Prepare(w)
  <2>1. worker[w].pc = "running" /\ worker' = worker
    BY <1>6 DEF Destination, Prepare, InPhase, vars
  <2> QED
    BY <1>1, <2>1
<1>7. CASE Create(w) \/ AddChunks(w)
  <2>1. worker[w].pc = "running"
    BY <1>7 DEF Create, AddChunks, InPhase
  <2>2. UNCHANGED vars \/ (IngestFails(w, "transient") /\ UNCHANGED <<docs, ingest>>)
    BY <1>7, Zenon DEF Create, AddChunks
  <2> QED
    BY <1>1, <1>3, <2>1, <2>2 DEF vars, IngestErrs
<1>8. CASE MarkReady(w)
  <2>1. ~ PublishUnacked(w)
    <3>1. ~ (spent.unacked < MaxUnacked)
      BY <1>0 DEF Calm, TypeOK, Spent
    <3> QED
      BY <3>1, Zenon DEF PublishUnacked
  <2>2. Publish(w) \/ (IngestFails(w, "lostClaim") /\ docs' = docs /\ ingest' = ingest)
    BY <1>8, <2>1, Zenon DEF MarkReady
  <2>3. CASE Publish(w)
    <3>1. worker'[w] = [worker[w] EXCEPT !.pc = "returned", !.err = "published"]
      BY <1>0, <2>3, MovesOne DEF Publish
    <3>2. worker'[w].pc = "returned" /\ worker'[w].err = "published"
      BY <1>0, <3>1 DEF WorkerState
    <3> QED
      BY <3>2 DEF AboutToEnd
  <2> QED
    BY <1>3, <2>2, <2>3 DEF IngestErrs
<1>9. CASE Fails(w)
  <2>1. UNCHANGED <<docs, ingest>> /\ \E err \in IngestErrs : IngestFails(w, err)
    BY <1>9, Zenon DEF Fails, ingestVars
  <2> QED
    BY <1>3, <2>1
<1>10. CASE CleanUp(w)
  <2>1. worker'[w] = [worker[w] EXCEPT !.pc = "returned"] /\ worker[w].pc = "unwinding"
    BY <1>0, <1>10, MovesOne DEF CleanUp, Unwind
  <2>2. worker'[w].pc = "returned" /\ worker'[w].err = worker[w].err
    BY <1>0, <2>1 DEF WorkerState
  <2> QED
    BY <2>1, <2>2 DEF AboutToEnd, CalmInv, DoneInv
<1>11. CASE SettleDocs(w) \/ SweepDocs(w) \/ RoundDocs(w) \/ CrashIngest(w)
  <2>1. \E pc \in {"idle", "down", "swept", "serving"} : Moves(w, At(pc))
    BY <1>11 DEF SettleDocs, SweepDocs, RoundDocs, CrashIngest, Settle, Sweep, Round, Crash
  <2> QED
    BY <1>0, <1>1, <2>1, MovesOne DEF At
<1>12. CASE QueueOnly
  <2>1. docs' = docs /\ ingest' = ingest
    BY <1>12 DEF QueueOnly, ingestVars
  <2>2. GoesOn(w) \/ NeverStarted(w) \/ ~ Busy(w)'
    BY <1>12, QueueOnlyKeeps DEF CalmInv
  <2>3. CASE NeverStarted(w)
    BY <2>3 DEF NeverStarted, AboutToEnd
  <2> QED
    BY <1>1, <1>2, <2>1, <2>2, <2>3 DEF Busy
<1>13. CASE UNCHANGED allVars \/ \E s \in Sources : Edit(s)
  <2>1. UNCHANGED <<docs, ingest, worker>>
    BY <1>13 DEF Edit, allVars, ingestVars, vars
  <2> QED
    BY <1>2, <2>1 DEF GoesOn
<1> QED
  BY <1>0, <1>4, <1>5, <1>6, <1>7, <1>8, <1>9, <1>10, <1>11, <1>12, <1>13 DEF IngestNext

\* Ingests go on reading versions of their sources.
LEMMA DigestStep ==
  ASSUME Calm, CalmInv, [IngestNext]_allVars
  PROVE  DigestInv'
<1>0. TypeOK /\ DOMAIN ingest = Workers /\ \A w \in Workers : Workers = {w} /\ DOMAIN ingest[w] = Fields
  BY DEF Calm, OneWorker, CalmInv, IInv, WholeInv, RunTypeOK
<1>1. content' \in [Sources -> Digests]
  <2>1. content \in [Sources -> Digests]
    BY DEF CalmInv, DigestInv
  <2>2. content' = content \/ \E s \in Sources : Edit(s)
    BY Zenon DEF IngestNext, StartIngest, Acquire, Destination, Prepare, Create, AddChunks, MarkReady,
      Fails, CleanUp, SettleDocs, SweepDocs, RoundDocs, CrashIngest, QueueOnly, allVars, ingestVars
  <2>3. ASSUME NEW s \in Sources, Edit(s)
        PROVE  content' \in [Sources -> Digests]
    BY <2>1, <2>3 DEF Edit
  <2> QED
    BY <2>1, <2>2, <2>3
<1>2. ASSUME NEW w \in Workers, worker'[w].pc = "running", ingest'[w].phase # "acquire"
      PROVE  ingest'[w].digest \in Digests
  <2>0. DOMAIN ingest = {w} /\ DOMAIN ingest[w] = Fields
    BY <1>0
  <2>1. ASSUME worker[w].pc = "running", ingest[w].phase # "acquire"
        PROVE  ingest[w].digest \in Digests
    BY <2>1 DEF CalmInv, DigestInv
  <2>2. CASE Acquire(w)
    <3> DEFINE digest == content[SourceOf[worker[w].job]]
               read == [ingest[w] EXCEPT !.digest = digest]
    <3>1. worker[w].job \in Jobs
      BY <2>2 DEF Acquire, InPhase, CalmInv, IInv, HasItsJob, Executing
    <3>2. digest \in Digests
      BY <3>1, SourcesAssumption DEF CalmInv, DigestInv
    <3>3. \/ Goes(w, [read EXCEPT !.phase = "destination", !.source = SourceOf[worker[w].job]])
          \/ \E d : Goes(w, [read EXCEPT !.doc = d])
          \/ \E d : Goes(w, [read EXCEPT !.phase = "prepare", !.source = docs[d].source, !.replacing = d])
      BY <2>2, Zenon DEF Acquire
    <3>4. DOMAIN read = Fields /\ read.digest = digest
      BY <2>0 DEF Fields
    <3> HIDE DEF read, digest
    <3>5. ingest'[w].digest = read.digest
      BY <2>0, <3>3, <3>4 DEF Goes, Fields
    <3> QED
      BY <3>2, <3>4, <3>5
  <2>3. ASSUME Destination(w) \/ Prepare(w) \/ Create(w) \/ AddChunks(w)
        PROVE  /\ worker[w].pc = "running" /\ ingest[w].phase # "acquire"
               /\ ingest'[w].digest = ingest[w].digest
    <3>1. worker[w].pc = "running" /\ ingest[w].phase # "acquire"
      BY <2>3 DEF Destination, Prepare, Create, AddChunks, InPhase
    <3>2. \/ \E d : Goes(w, [ingest[w] EXCEPT !.phase = "prepare", !.replacing = d])
          \/ \E d : Goes(w, [ingest[w] EXCEPT !.phase = "create", !.doc = d])
          \/ Goes(w, [ingest[w] EXCEPT !.phase = "fill"])
          \/ \E n : Goes(w, [ingest[w] EXCEPT !.batch = n])
          \/ ingest' = ingest
      BY <2>3, Zenon DEF Destination, Prepare, Create, AddChunks
    <3> QED
      BY <2>0, <3>1, <3>2 DEF Goes, Fields
  <2>4. ASSUME StartIngest(w)
        PROVE  FALSE
    <3>1. ingest'[w] = Begin
      BY <2>0, <2>4 DEF StartIngest, Goes
    <3> QED
      BY <1>2, <3>1 DEF Begin
  <2>5. ASSUME \/ MarkReady(w) \/ Fails(w) \/ CleanUp(w) \/ SettleDocs(w) \/ SweepDocs(w)
               \/ RoundDocs(w) \/ CrashIngest(w)
        PROVE  FALSE
    <3>1. \/ Publish(w) \/ PublishUnacked(w) \/ Unwind(w) \/ Settle(w) \/ Sweep(w)
          \/ Round(w) \/ Crash(w) \/ IngestFails(w, "lostClaim") \/ \E err \in IngestErrs : IngestFails(w, err)
      BY <2>5, Zenon DEF MarkReady, Fails, CleanUp, SettleDocs, SweepDocs, RoundDocs, CrashIngest
    <3>2. "lostClaim" \in IngestErrs
      BY DEF IngestErrs
    <3> QED
      BY <1>0, <1>2, <3>1, <3>2, EndsRunning
  <2>6. ASSUME QueueOnly \/ UNCHANGED allVars \/ \E s \in Sources : Edit(s)
        PROVE  ingest' = ingest /\ worker[w].pc = "running"
    <3>1. CASE QueueOnly
      BY <1>2, <3>1, QueueOnlyKeeps DEF QueueOnly, ingestVars, CalmInv, GoesOn, NeverStarted, Busy
    <3>2. CASE UNCHANGED allVars \/ \E s \in Sources : Edit(s)
      BY <1>2, <3>2 DEF Edit, allVars, ingestVars, vars
    <3> QED
      BY <2>6, <3>1, <3>2
  <2>7. \/ QueueOnly \/ UNCHANGED allVars \/ \E s \in Sources : Edit(s)
        \/ StartIngest(w) \/ Acquire(w) \/ Destination(w) \/ Prepare(w) \/ Create(w)
        \/ AddChunks(w) \/ MarkReady(w) \/ Fails(w) \/ CleanUp(w)
        \/ SettleDocs(w) \/ SweepDocs(w) \/ RoundDocs(w) \/ CrashIngest(w)
    BY <1>0 DEF IngestNext
  <2>8. CASE QueueOnly \/ UNCHANGED allVars \/ \E s \in Sources : Edit(s)
    BY <1>2, <2>1, <2>6, <2>8
  <2>9. CASE Destination(w) \/ Prepare(w) \/ Create(w) \/ AddChunks(w)
    BY <2>1, <2>3, <2>9
  <2> QED
    BY <2>2, <2>4, <2>5, <2>7, <2>8, <2>9, Zenon
<1> QED
  BY <1>1, <1>2 DEF DigestInv

\* The steps above, together.
LEMMA CalmHolds ==
  ASSUME Calm
  PROVE  IngestSpec => []CalmInv
<1>0. OneWorker /\ MaxCrashes = 0 /\ MaxChanges = 0
  BY DEF Calm
<1> DEFINE Rest == Visible /\ DoneInv /\ DigestInv
<1>1. IngestInit => Rest
  <2> SUFFICES ASSUME IngestInit PROVE Rest
    OBVIOUS
  <2>1. Visible
    BY DEF IngestInit, Init, Visible
  <2>2. \A w \in Workers : worker[w].pc = "idle"
    BY DEF IngestInit, Init, At
  <2>3. DOMAIN jobDoc = Jobs /\ content \in [Sources -> Digests]
    BY DEF IngestInit
  <2>4. \A j \in Jobs : jobs[j].status = "none"
    BY DEF IngestInit, Init, Unqueued
  <2> QED
    BY <2>1, <2>2, <2>3, <2>4 DEF DoneInv, DoneHasDocument, AboutToEnd, DigestInv
<1>2. IInv /\ WholeInv /\ DocsInv /\ Rest /\ [IngestNext]_allVars => Rest'
  <2> SUFFICES ASSUME IInv, WholeInv, DocsInv, Rest, [IngestNext]_allVars
               PROVE  Rest'
    OBVIOUS
  <2>1. spent \in Spent /\ spent' \in Spent
    BY QueueStep, NextKind DEF IInv, TypeOK
  <2>2. spent.changes = 0 /\ spent'.changes = 0
    BY <1>0, <2>1 DEF Spent
  <2>3. access' = access
    BY <2>2, QueueStep, UntilAChange DEF IInv, DocsInv
  <2>4. CalmInv
    BY <2>2 DEF CalmInv, DocsInv
  <2>5. Visible'
    BY <2>3 DEF Visible
  <2>6. DoneHasDocument'
    BY <2>3, <2>4, ReaderSees, DoneStep
  <2>7. \A w \in Workers : AboutToEnd(w)'
    BY <2>3, <2>4, EndingStep
  <2>8. DOMAIN jobDoc' = Jobs
    <3>1. jobDoc' = jobDoc \/ \E j, d : jobDoc' = [jobDoc EXCEPT ![j] = d]
      BY Zenon DEF IngestNext, StartIngest, Acquire, Destination, Prepare, Create, AddChunks, MarkReady,
        Fails, CleanUp, SettleDocs, SweepDocs, RoundDocs, CrashIngest, Edit, QueueOnly, allVars, ingestVars
    <3> QED
      BY <3>1 DEF DoneInv
  <2>9. DigestInv'
    BY <2>4, DigestStep
  <2> QED
    BY <2>5, <2>6, <2>7, <2>8, <2>9 DEF DoneInv
<1>3. IInv /\ WholeInv /\ DocsInv /\ Rest => CalmInv
  <2>1. IInv => spent.changes = 0
    BY <1>0 DEF IInv, TypeOK, Spent
  <2> QED
    BY <2>1 DEF CalmInv, DocsInv
<1> HIDE DEF Rest
<1>4. IngestSpec => [](IInv /\ WholeInv) /\ []DocsInv
  BY <1>0, WholeHolds, ShelfHolds, PTL
<1> QED
  BY <1>1, <1>2, <1>3, <1>4, PTL DEF IngestSpec

\* With one worker that does not crash, answers that arrive and access that
\* does not change, a job that reads as done left a document a search finds,
\* however many jobs replaced it since.
THEOREM DoneKeepsDocument ==
  ASSUME OneWorker, MaxCrashes = 0, MaxUnacked = 0, MaxChanges = 0
  PROVE  IngestSpec => []DoneHasDocument
<1>1. Calm
  BY DEF Calm
<1>2. CalmInv => DoneHasDocument
  BY DEF CalmInv, DoneInv
<1> QED
  BY <1>1, <1>2, CalmHolds, PTL

\* One step of the ingest is one step of the view, or none.
LEMMA ReaderStep ==
  ASSUME Calm, CalmInv, CalmInv', [IngestNext]_allVars
  PROVE  [Reader!Next]_(Reader!view)
<1>0. access' = access
  <2>1. spent \in Spent /\ spent' \in Spent
    BY DEF CalmInv, IInv, TypeOK
  <2>2. spent'.changes = 0
    BY <2>1 DEF Spent, Calm
  <2> QED
    BY <2>2, QueueStep, UntilAChange DEF CalmInv, IInv, AccessInv
<1> DEFINE done == {j \in Jobs : jobs[j].status = "done"}
<1>1. \A d : Ready(d) <=> d \in DOMAIN Shelf
  BY DEF Shelf, Ready
<1>2. \A d : Ready(d)' <=> d \in DOMAIN Shelf'
  BY DEF Shelf, Ready
<1>3. \A d : Ready(d) => Shelf[d] = docs[d].digest
  BY DEF Shelf, Ready, CalmInv, WholeInv, ReadyIsWhole
<1>4. \A d : Ready(d)' => Shelf'[d] = docs'[d].digest
  BY DEF Shelf, Ready, CalmInv, WholeInv, ReadyIsWhole
<1>5. ASSUME SameShelf
      PROVE  Shelf' = Shelf
  <2>1. Shelf = [d \in DOMAIN Shelf |-> Shelf[d]] /\ Shelf' = [d \in DOMAIN Shelf' |-> Shelf'[d]]
    BY DEF Shelf
  <2>2. DOMAIN Shelf' = DOMAIN Shelf /\ \A d \in DOMAIN Shelf : Shelf'[d] = Shelf[d]
    BY <1>1, <1>2, <1>3, <1>4, <1>5 DEF SameShelf
  <2> HIDE DEF Shelf
  <2> QED
    BY <2>1, <2>2
<1>6. ASSUME NEW j \in Jobs, Completes(j)
      PROVE  j \notin done /\ done' = done \cup {j}
  BY <1>6 DEF Completes
<1>7. CASE Unseen
  <2>1. done' = done
    BY <1>7 DEF Unseen, SameDone
  <2> HIDE DEF done
  <2> QED
    BY <1>5, <1>7, <2>1 DEF Unseen, Reader!view, done
<1>8. ASSUME NEW w \in Workers, Publishes(w)
      PROVE  Reader!Next
  <2> DEFINE doc == ingest[w].doc
  <2>0. PICK j \in Jobs : j = worker[w].job
    BY <1>8 DEF Publishes
  <2>1. j \notin done /\ done' = done \cup {j}
    BY <1>6, <1>8, <2>0 DEF Publishes, Completes
  <2>2. /\ docs'[doc].status = "ready" /\ docs'[doc].digest = ingest[w].digest
        /\ StagedID(w) \in DOMAIN docs
        /\ DOMAIN docs' = (DOMAIN docs \ {StagedID(w)}) \cup {doc}
        /\ \A e \in DOMAIN docs' \ {doc} : Ready(e) /\ e \in DOMAIN docs /\ docs'[e] = docs[e]
    BY <1>8, SwapResult, Zenon DEF Publishes, Calm, CalmInv
  <2>3. ~ Ready(StagedID(w))
    BY <1>8, <2>2 DEF Publishes, CalmInv, WholeInv, Filling, Written, Ready
  <2>4. ingest[w].digest \in Digests
    BY <1>8 DEF Publishes, CalmInv, DigestInv
  <2> HIDE DEF done, doc
  <2>5. PICK d : d = doc
    OBVIOUS
  <2>6. Ready(d)' /\ \A e : e # d => (Ready(e)' <=> Ready(e)) /\ (Ready(e) => docs'[e] = docs[e])
    BY <2>2, <2>3, <2>5 DEF Ready
  <2>7. /\ d \in DOMAIN Shelf' /\ DOMAIN Shelf' = DOMAIN Shelf \cup {d} /\ Shelf'[d] \in Digests
        /\ \A e \in DOMAIN Shelf \ {d} : Shelf'[e] = Shelf[e]
    BY <1>1, <1>2, <1>3, <1>4, <2>2, <2>4, <2>5, <2>6
  <2>8. Reader!Publish(j)
    BY <2>1, <2>7 DEF Reader!Publish, done
  <2> QED
    BY <2>8, Zenon DEF Reader!Next
<1>9. ASSUME NEW w \in Workers, Confirms(w)
      PROVE  Reader!Next
  <2>0. PICK j \in Jobs : j = worker[w].job
    BY <1>9 DEF Confirms
  <2>1. j \notin done /\ done' = done \cup {j}
    BY <1>6, <1>9, <2>0 DEF Confirms, Completes
  <2>2. DOMAIN Shelf # {}
    BY <1>1, <1>9 DEF Confirms, CalmInv, DoneInv, AboutToEnd
  <2>3. Shelf' = Shelf
    BY <1>5, <1>9 DEF Confirms
  <2> HIDE DEF done
  <2>4. Reader!Confirm(j)
    BY <2>1, <2>2, <2>3 DEF Reader!Confirm, done
  <2> QED
    BY <2>4, Zenon DEF Reader!Next
<1> QED
  BY <1>0, <1>7, <1>8, <1>9, ReaderSees

\* Under the same conditions readers see the library LibraryView describes,
\* for any number of jobs, sources, versions and attempts: a version appears, whole,
\* in the step that completes the job which read it, and nothing disappears.
THEOREM ReadersView ==
  ASSUME OneWorker, MaxCrashes = 0, MaxUnacked = 0, MaxChanges = 0
  PROVE  IngestSpec => ImplementsLibraryView
<1>0. Calm
  BY DEF Calm
<1>1. IngestInit => Reader!Init
  <2> SUFFICES ASSUME IngestInit PROVE Reader!Init
    OBVIOUS
  <2>1. DOMAIN docs = {} /\ \A j \in Jobs : jobs[j].status = "none"
    BY DEF IngestInit, Init, Unqueued
  <2>2. DOMAIN Shelf = {}
    BY <2>1 DEF Shelf
  <2> QED
    BY <2>1, <2>2 DEF Reader!Init
<1>2. CalmInv /\ CalmInv' /\ [IngestNext]_allVars => [Reader!Next]_(Reader!view)
  BY <1>0, ReaderStep
<1>3. IngestSpec => []CalmInv
  BY <1>0, CalmHolds
<1>4. IngestSpec => Reader!Spec
  BY <1>1, <1>2, <1>3, PTL DEF IngestSpec, Reader!Spec
<1> QED
  BY <1>4 DEF ImplementsLibraryView

=============================================================================
