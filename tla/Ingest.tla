------------------------------- MODULE Ingest -------------------------------
(***************************************************************************)
(* The ingest a worker runs for its job, on top of JobQueue.               *)
(*                                                                         *)
(* A document is a row of documents with the rows of chunks, pages and     *)
(* index_terms under its identifier.  A new document is written under its  *)
(* own identifier with status 'ingesting'; a replacement is written beside *)
(* the version it replaces, under a staging identifier, and MarkReady      *)
(* swaps it in and completes the job in one transaction.  A failed ingest  *)
(* deletes what it wrote, and ending a job drops what it left half         *)
(* written.                                                                *)
(*                                                                         *)
(* Each action below is a step of the ingest service, or a step of         *)
(* JobQueue together with what it does to the documents.                   *)
(***************************************************************************)
EXTENDS JobQueue

CONSTANTS
  Sources,   \* what is ingested: paths and URLs
  SourceOf,  \* SourceOf[j]: the source job j names
  SlugOf,    \* SlugOf[s]: the slug of the title of source s
  Digests,   \* the contents a source may have
  Forced,    \* the jobs that re-read bytes the index already holds
  Batches    \* how many transactions fill a document

ASSUME SourcesAssumption ==
  /\ SourceOf \in [Jobs -> Sources]
  /\ DOMAIN SlugOf = Sources
  /\ Forced \subseteq Jobs
  /\ Batches \in Nat \ {0}

\* A title with nothing a slug can hold becomes "document".
ASSUME SlugAssumption == \A s \in Sources : SlugOf[s] # ""

VARIABLES
  docs,    \* docs[d]: the document filed under identifier d
  jobDoc,  \* jobDoc[j]: ingest_jobs.doc_id
  ingest,  \* ingest[w]: how far the ingest that worker w runs has got
  content  \* content[s]: the bytes at source s now

ingestVars == <<docs, jobDoc, ingest, content>>
allVars == <<vars, ingestVars>>

\* An identifier is a slug, the number nextFree gave it (1 for none), and how
\* often Staging was applied to it.  No slug is empty, and the empty identifier
\* stands for no document.
NoDoc == [slug |-> "", num |-> 0, stage |-> 0]
Staging(d) == [d EXCEPT !.stage = @ + 1]

Ready(d) == d \in DOMAIN docs /\ docs[d].status = "ready"

\* Begin is an ingest that has done nothing; None is a worker without one.
Begin == [phase |-> "acquire", digest |-> "none", source |-> "none",
          replacing |-> NoDoc, doc |-> NoDoc, batch |-> 0]
None == [Begin EXCEPT !.phase = "none"]

IngestInit ==
  /\ Init
  /\ docs = [d \in {} |-> NoDoc]
  /\ jobDoc = [j \in Jobs |-> NoDoc]
  /\ ingest = [w \in Workers |-> None]
  /\ content \in [Sources -> Digests]

-----------------------------------------------------------------------------
(* Documents as the statements read and write them. *)

\* The documents the policies let a statement of this queue see.
Seen == IF Visible THEN DOMAIN docs ELSE {}

Without(gone) == [d \in DOMAIN docs \ gone |-> docs[d]]
With(table, d, row) == [e \in DOMAIN table \cup {d} |-> IF e = d THEN row ELSE table[e]]

\* Faulty: a replacement is written in place.
StagedIDInPlace(w) == ingest[w].doc

\* The identifier the ingest of w writes under.
StagedID(w) == IF ingest[w].replacing = NoDoc THEN ingest[w].doc ELSE Staging(ingest[w].doc)

\* nextFree over DocIDsWithPrefix.
Numbered(slug, n) == [slug |-> slug, num |-> n, stage |-> 0]
NextFree(slug) ==
  LET free == {n \in 1 .. Cardinality(DOMAIN docs) + 1 : Numbered(slug, n) \notin Seen}
  IN  Numbered(slug, CHOOSE n \in free : \A m \in free : n <= m)

\* Faulty: a ready document goes too.
PartialAndReady(j) ==
  IF jobDoc[j] \notin DOMAIN docs THEN {} ELSE {jobDoc[j], Staging(jobDoc[j])}

\* Faulty: the staging identifier is forgotten.
PartialUnstaged(j) ==
  IF jobDoc[j] \in DOMAIN docs /\ ~ Ready(jobDoc[j]) THEN {jobDoc[j]} ELSE {}

\* dropPartial: what job j left half written.
Partial(j) ==
  IF jobDoc[j] \notin DOMAIN docs THEN {}
  ELSE {Staging(jobDoc[j])} \cup (IF Ready(jobDoc[j]) THEN {} ELSE {jobDoc[j]})

-----------------------------------------------------------------------------
(* The steps of Service.Run. *)

InPhase(w, phase) == worker[w].pc = "running" /\ ingest[w].phase = phase

Goes(w, state) == ingest' = [ingest EXCEPT ![w] = state]

\* Acquire reads the source, and ReadyWithDigest finds its bytes or does not.
\* Bytes already held are confirmed; a forced job replaces the document that
\* holds them, under its identity.
Acquire(w) ==
  /\ InPhase(w, "acquire")
  /\ LET digest == content[SourceOf[worker[w].job]]
         held == {d \in Seen : Ready(d) /\ docs[d].digest = digest}
         read == [ingest[w] EXCEPT !.digest = digest]
     IN  \/ /\ held = {}
            /\ Goes(w, [read EXCEPT !.phase = "destination",
                                    !.source = SourceOf[worker[w].job]])
            /\ UNCHANGED vars
         \/ \E d \in held :
              \/ /\ worker[w].job \notin Forced
                 /\ Goes(w, [read EXCEPT !.doc = d])
                 /\ Unchanged(w)
              \/ /\ worker[w].job \in Forced
                 /\ Goes(w, [read EXCEPT !.phase = "prepare", !.source = docs[d].source,
                                         !.replacing = d])
                 /\ UNCHANGED vars
  /\ UNCHANGED <<docs, jobDoc, content>>

\* DocIDForIdentity: some document last read from this source, of any status.
\* The query names no order.
Destination(w) ==
  /\ InPhase(w, "destination")
  /\ LET filed == {d \in Seen : docs[d].source = ingest[w].source}
     IN  \E d \in (IF filed = {} THEN {NoDoc} ELSE filed) :
           Goes(w, [ingest[w] EXCEPT !.phase = "prepare", !.replacing = d])
  /\ UNCHANGED <<vars, docs, jobDoc, content>>

\* Extract, uniqueDocID, and RecordDocID, a fenced write whose error is only
\* logged.
Prepare(w) ==
  /\ InPhase(w, "prepare")
  /\ Unlocked(worker[w].job)
  /\ LET doc == IF ingest[w].replacing = NoDoc THEN NextFree(SlugOf[ingest[w].source])
                ELSE ingest[w].replacing
     IN  /\ Goes(w, [ingest[w] EXCEPT !.phase = "create", !.doc = doc])
         /\ jobDoc' = IF Fenced(w) THEN [jobDoc EXCEPT ![worker[w].job] = doc] ELSE jobDoc
  /\ UNCHANGED <<vars, docs, content>>

\* Create clears the rows a dead replacement left and inserts the document.
\* The insert fails on an identifier that is taken, or without the grant.
Create(w) ==
  /\ InPhase(w, "create")
  /\ LET staged == StagedID(w)
         base == IF ingest[w].replacing = NoDoc THEN docs ELSE Without({staged})
     IN  \/ /\ Visible /\ staged \notin DOMAIN base
            /\ docs' = With(base, staged,
                         [status |-> "ingesting", source |-> ingest[w].source,
                          digest |-> ingest[w].digest, chunks |-> {}])
            /\ Goes(w, [ingest[w] EXCEPT !.phase = "fill"])
            /\ UNCHANGED vars
         \/ /\ ~ Visible \/ staged \in DOMAIN base
            /\ IngestFails(w, "transient")
            /\ UNCHANGED <<docs, ingest>>
  /\ UNCHANGED <<jobDoc, content>>

\* AddChunks writes one batch; the last one stands for AddPagesAndTerms too.
\* The foreign key refuses rows of a document that is not there.
AddChunks(w) ==
  /\ InPhase(w, "fill")
  /\ ingest[w].batch < Batches
  /\ LET staged == StagedID(w)
         chunk == [by |-> <<worker[w].job, worker[w].attempt>>,
                   digest |-> ingest[w].digest, batch |-> ingest[w].batch + 1]
     IN  \/ /\ staged \in Seen
            /\ docs' = [docs EXCEPT ![staged].chunks = @ \cup {chunk}]
            /\ Goes(w, [ingest[w] EXCEPT !.batch = @ + 1])
            /\ UNCHANGED vars
         \/ /\ staged \notin Seen
            /\ IngestFails(w, "transient")
            /\ UNCHANGED <<docs, ingest>>
  /\ UNCHANGED <<jobDoc, content>>

\* Faulty: the old version's chunks are not deleted.
SwappedKeepingChunks(w) ==
  LET doc == ingest[w].doc
      staged == StagedID(w)
      old == IF doc \in DOMAIN docs THEN docs[doc].chunks ELSE {}
  IN  With(Without({doc, staged}), doc,
           [docs[staged] EXCEPT !.status = "ready", !.chunks = @ \cup old])

\* Faulty: the staging row is published where it was written.
SwappedBeside(w) == With(docs, StagedID(w), [docs[StagedID(w)] EXCEPT !.status = "ready"])

\* swapIn and MarkDocumentReady: promote deletes the old version, copies the
\* staging row if there is one, moves its chunks and drops it.
Swapped(w) ==
  LET doc == ingest[w].doc
      staged == StagedID(w)
      base == Without({doc, staged})
  IN  IF staged \in DOMAIN docs
      THEN With(base, doc, [docs[staged] EXCEPT !.status = "ready"])
      ELSE base

\* MarkReady publishes the document and completes the job, or rolls back.
MarkReady(w) ==
  /\ InPhase(w, "fill")
  /\ ingest[w].batch = Batches
  /\ \/ /\ Publish(w) \/ PublishUnacked(w)
        /\ docs' = Swapped(w)
        /\ jobDoc' = [jobDoc EXCEPT ![worker[w].job] = ingest[w].doc]
     \/ /\ IngestFails(w, "lostClaim")
        /\ UNCHANGED <<docs, jobDoc>>
  /\ UNCHANGED <<ingest, content>>

\* Any step may meet a passing failure, the timeout or a cancelled context; a
\* source is refused for good before a row exists.
Fails(w) ==
  /\ \E err \in IngestErrs \ {"lostClaim"} :
       /\ err = "permanent" => ingest[w].phase \in {"acquire", "prepare"}
       /\ IngestFails(w, err)
  /\ UNCHANGED ingestVars

\* write deletes what fill wrote; nothing was written before fill.
CleanUp(w) ==
  /\ Unwind(w)
  /\ docs' = IF ingest[w].phase = "fill" /\ Visible THEN Without({StagedID(w)}) ELSE docs
  /\ UNCHANGED <<jobDoc, ingest, content>>

-----------------------------------------------------------------------------
(* The steps of the queue that touch documents. *)

StartIngest(w) == OpenSource(w) /\ Goes(w, Begin) /\ UNCHANGED <<docs, jobDoc, content>>

\* Cancel and Finish drop the partial document before their fenced write, and
\* are rolled back together with it.
SettleDocs(w) ==
  /\ Settle(w)
  /\ LET wrote == Fenced(w) /\ Verdict(w) # "leave"
         j == worker[w].job
     IN  /\ docs' = IF wrote /\ Verdict(w) # "complete" THEN Without(Partial(j)) ELSE docs
         /\ jobDoc' = IF wrote /\ Verdict(w) = "complete"
                      THEN [jobDoc EXCEPT ![j] = ingest[w].doc] ELSE jobDoc
  /\ Goes(w, None)
  /\ UNCHANGED content

SweepDocs(w) ==
  /\ Sweep(w)
  /\ docs' = Without(UNION {Partial(j) : j \in {i \in Jobs : Visible /\ Stranded(i)}})
  /\ UNCHANGED <<jobDoc, ingest, content>>

RoundDocs(w) ==
  /\ Round(w)
  /\ docs' = IF access'.library = "purged" THEN Without(DOMAIN docs) ELSE docs
  /\ UNCHANGED <<jobDoc, ingest, content>>

CrashIngest(w) == Crash(w) /\ Goes(w, None) /\ UNCHANGED <<docs, jobDoc, content>>

\* The rest of the queue leaves the documents alone.
QueueOnly ==
  /\ \/ \E j \in Jobs : Enqueue(j) \/ EnqueueCommit(j) \/ ReadForCancel(j)
                        \/ RequestCancel(j) \/ LeaseAges(j) \/ LeaseRunsOut(j) \/ LeaseOutlived(j)
     \/ RevokeGrant \/ GrantAgain \/ DeleteLibrary \/ RestoreLibrary \/ GraceEnds
     \/ \E w \in Workers :
          \/ ServePinned(w) \/ ClaimLock(w) \/ ClaimNone(w) \/ ClaimCommit(w)
          \/ \E err \in {"transient", "permanent"} : SourceError(w, err)
          \/ Watch(w) \/ Progress(w) \/ Restart(w)
  /\ UNCHANGED ingestVars

\* Somebody edits the source.
Edit(s) ==
  /\ \E digest \in Digests \ {content[s]} : content' = [content EXCEPT ![s] = digest]
  /\ UNCHANGED <<vars, docs, jobDoc, ingest>>

IngestNext ==
  \/ \E w \in Workers :
       \/ StartIngest(w) \/ Acquire(w) \/ Destination(w) \/ Prepare(w) \/ Create(w)
       \/ AddChunks(w) \/ MarkReady(w) \/ Fails(w) \/ CleanUp(w)
       \/ SettleDocs(w) \/ SweepDocs(w) \/ RoundDocs(w) \/ CrashIngest(w)
  \/ \E s \in Sources : Edit(s)
  \/ QueueOnly

IngestSpec == IngestInit /\ [][IngestNext]_allVars

-----------------------------------------------------------------------------
(* What a reader of the library may count on. *)

\* All the chunks of d come from one attempt of one job, all its batches are
\* there, and they hold the version its row names.
Whole(d) ==
  \E by \in {c.by : c \in docs[d].chunks} :
    docs[d].chunks = [by : {by}, digest : {docs[d].digest}, batch : 1 .. Batches]

\* A document a search can see is whole.  ("The document is invisible to
\* search until the final transaction", Service.Run.)
ReadyIsWhole == \A d \in DOMAIN docs : Ready(d) => Whole(d)

\* A job that reads as done left its document in the library.  ("its document
\* is already published in the transaction that completed the job", execute.)
DoneHasDocument == \A j \in Jobs : jobs[j].status = "done" => Ready(jobDoc[j])

\* No search sees a document under a staging identifier, so that clearing one
\* loses nothing.  ("A replacement writes under its staging identifier, which
\* is never ready; clearing it is always safe", dropPartial.)
StagingNeverReady == \A d \in DOMAIN docs : Ready(d) => d.stage = 0

\* A source has one document, as long as the requester kept the library: the
\* lookup of the document it has finds nothing while they do not see it.  ("a
\* retitled source must replace its own rows rather than ... orphan the
\* originals", destination.)
OneDocumentPerSource ==
  spent.changes = 0 => \A d, e \in DOMAIN docs : Ready(d) /\ Ready(e) /\ docs[d].source = docs[e].source => d = e

\* Once every job has ended and no worker is busy, nothing half written is
\* left, as long as the requester kept the library throughout.  (CleanUp,
\* Cancel, Finish and the sweep.)
NothingLeftBehind ==
  spent.changes = 0 /\ (\A j \in Jobs : jobs[j].status \notin Active \cup {"inserting"})
    /\ (\A w \in Workers : ~ Executing(w))
    => \A d \in DOMAIN docs : Ready(d)

\* What LibraryView calls the shelf: a torn document shows no version.
Shelf == [d \in {e \in DOMAIN docs : Ready(e)} |->
            IF Whole(d) THEN docs[d].digest ELSE "torn"]

Reader == INSTANCE LibraryView
            WITH shelf <- Shelf, completed <- {j \in Jobs : jobs[j].status = "done"}

\* Readers see the library LibraryView describes.
ImplementsLibraryView == Reader!Spec

=============================================================================
