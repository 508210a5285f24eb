# A verification project for docsearch

docsearch keeps libraries of documents in Postgres and answers searches over
them. Documents get in through a queue: somebody queues a source, a worker
claims the job under a lease, reads, cuts and writes the document, and
publishes it in the transaction that completes the job. Around that core stand
the accounts that may use a library, the doors through which documents come,
the crawler that makes a document of a site, and the tools that read. This
project models them in TLA+, checks them with TLC on small instances, and
proves with TLAPS, for every value of the constants, what matters most of the
queue, the ingest, sharing, signing in, accounts, uploads, the sync, the
crawler and the Connect services.

Paths below are relative to the repository root.

## The system's parts

| Part | State | Operations | Hard behaviour | What makes it correct |
| --- | --- | --- | --- | --- |
| Job queue (`internal/repository/postgres/{jobs,queues}.go`, `internal/pgstore/query/{worker,jobs}.sql`, `internal/service/job`) | rows of `ingest_jobs`: status, attempts, `cancel_req`, lease | add, cancel, claim, sweep, renew, record, finish, fail unclaimable | competing claims, lapsed leases, late writes, two-transaction cancel | an attempt has one holder; ends are final; every job ends |
| Worker (`internal/service/worker`) | the claim it holds, the ingest, the watcher goroutine | serve one queue or rotate over all, execute, watch, settle | watcher beside ingest, timeout against cancel, crash, exit and restart | verdict matches what happened; a lost claim writes nothing |
| Ingest service (`internal/service/ingest`, `internal/repository/postgres/postgres.go`, `query/ingest.sql`) | `documents`, `chunks`, `pages`, `index_terms` | acquire, choose destination, prepare, create, fill, publish, clean up | many transactions per document, retries over leftovers, shared identifiers | readers see whole versions; old versions stay until replaced |
| Sharing (`internal/service/sharing`, SQL functions in `internal/schema`) | libraries, grants, invitations, groups | grant, revoke, invite, accept, delete, restore, purge | counts under locks a removal does not take, deletion beside workers | a last admin goes only beside a removal; a deleted library is quiet |
| Row-level security (`internal/pgsession`, policies) | `app.user_id`, `app.library_id` per transaction | scope a transaction | a role changes between two statements | nothing is read or written without the role |
| Documents (`internal/service/document`) and the scopes of a request (`internal/library`) | the same tables | list, read, verify, rename, remove | the role goes between the look and the statement | a change needs the role when it is made |
| Accounts, administrators, passwords (`internal/account`, `internal/resource`, `internal/password`, `internal/service/admin`) | users, identities, lockout counters | first request, sign in, reset, unlock, promote, remove | first requests that race, many guesses at once, concurrent demotion | one account per identity; guesses are bounded |
| OAuth server (`internal/authserver`) | authorization requests, refresh tokens, signing keys | authorize, exchange, refresh, revoke, load keys | two exchanges of one token, an exchange beside a reset or a removal, servers that start at once | one use each; servers accept each other's tokens |
| Uploads (`internal/upload`) | upload links, uploads | mint, redeem, collect | redeeming twice, expiry | one redemption |
| Document sync (`internal/docsync`, `internal/paperless`) | remote listing against library | compare, push, remove | a push that fails half way | converges |
| Site crawler (`internal/site`) | frontier, seen set, response cache | discover, fetch, crawl | redirects, budget, robots | each page once, within bounds |
| Chunking and structure (`internal/domain`) | none (pure) | group, merge, fold, cut, measure, grade | boundaries, rounding, two assessments of one document | the text is kept, within the cap, under its own sections |
| Extraction (`internal/adapter`) | none (pure) | parse PDF, HTML, DOCX, Markdown, text | large inputs | - |
| Search (`internal/pgstore`) and the agent's tools (`internal/mcpserver`) | none of their own | search, context, outline, list | one walk for many documents, ties, caps, a version published between two reads | merging changes no document's answers; what was asked for is shown |
| Connect services (`internal/api/connectapi`) | a call between two transactions | some forty procedures | roles that change meanwhile, refusals of twenty kinds | what is hidden looks absent; lists and actions agree |
| Web and command line | none | render | - | - |
| Settings, configuration, schema migration | settings rows, schema version | resolve, save, migrate | precedence, start-up order | - |

How they interact: servers and the command line call `Jobs.Add` and
`Jobs.RequestCancel`; workers take rows with `ClaimJob` and hand them to
`ingest.Service.Run`, whose `MarkReady` writes documents and completes the job
in one transaction; the watcher goroutine and the ingest share the job row and
a cancellable context; administrators change grants and libraries under the
feet of both, through the policies that every statement is subject to.

## The modules

| Module | Models | Extends |
| --- | --- | --- |
| `JobQueue` | one library's queue: rows, workers, the requester's calls, administrators, crashes, lapsing leases | |
| `Ingest` | the steps of `Service.Run` on documents, in place of the queue's "the ingest ends" | `JobQueue` |
| `LibraryView` | abstract: what a reader of a library may count on; `Ingest` implements it | |
| `Sharing` | grants, invitations, groups and administrators, each function split where it reads before it locks | |
| `SignIn` | a password account: sign-ins, the lock, codes, refresh tokens, resets, removal | |
| `Identity` | the account a request's token stands for, and the servers' signing keys | |
| `Upload` | signed links and the program's door, stored bytes, the job they queue | |
| `DocSync` | passes of docsearch-sync over a changing Paperless | `Upload` |
| `Chunking` | the chunker, as operators | |
| `Grading` | the report made at ingest and the grade made of the stored chunks | `Chunking` |
| `Navigation` | how crawled pages become sections and blocks of one document | |
| `Crawl` | discovery, frontier, robots, redirects, cache and budget over a changing site | |
| `Search` | the tools that read: search, get_context, outline, list_documents | |
| `Messages` | the requests and responses of the Connect services | |
| `Access` | the database functions as operators on a world of rows | `Messages` |
| `Repository` | the Postgres repositories: one function per transaction, refusals named | `Access` |
| `Api` | every Connect procedure, left between its transactions | `Repository` |
| `JobQueueProofs` | the inductive invariant of `JobQueue` and its theorems | `JobQueue` |
| `IngestProofs` | that `Ingest` implements `JobQueue`, that readers see whole documents, and when it implements `LibraryView` | `Ingest`, `JobQueueProofs` |
| `SharingProofs` | how a library loses its last admin and a group its last maintainer | `Sharing` |
| `SignInProofs`, `IdentityProofs` | guesses, refresh tokens, accounts and signing keys | `SignIn`, `Identity` |
| `DocSyncProofs` | links and retirements | `DocSync` |
| `CrawlProofs` | pages, budget and cache of a crawl | `Crawl` |
| `ApiProofs` | what is hidden, listed, named and asked again by the services | `Api` |
| `MC...` | the instances TLC checks; `MCAccounts` and `MCContent` put together modules that share no state, one at a time | |

An operator whose name says what it does wrong (`FencedByStatus`,
`WalkLimited`) is not part of a model: it is a plausible mistake in the
definition that follows it, and `PROJECT.json` says which property notices.

### JobQueue

`jobs[j]` is the row with id `j`. `lease` is `live`, `lapsed` (`lease_until <
now()`) or `none`, and `old` once time has passed while the watcher slept
(`LeaseAges`): a lease (five minutes) lasts over a poll (two seconds) but a
poll that does not renew an `old` one lets it lapse (`Overdue`), so that
`RunsAlone` rests on the watcher and not on a worker being alive. With `Stalls`
a live worker may be held up, or refused its renewals, for longer than that. `worker[w]` is a process: the place it is at, the claim it
remembers (`Jobs.held`), what the ingest returned, and its watcher. `cancel[j]`
is the latest call of `RequestCancel`. `access` is the requester's editor role
and the life of the library. `spent` counts what the environment has used of
its bounds.

One action is one transaction or one decision between two. Two statements are
opened up because what happens inside them matters: `ClaimJob` holds a row lock
between `ClaimLock` and `ClaimCommit`, so that updates of the row wait
(`Unlocked`) and other claims skip it; and `Jobs.Add` inserts in `Enqueue` and
commits in `EnqueueCommit`, so that a deletion in between does not see the row.
`Visible` is the row-level policies: each statement of the queue matches
nothing without the editor role or on a deleted library. `Fenced` is the
condition on every write of a worker. `Verdict` is the switch at the end of
`execute`, in its order; `Settle` writes it, or meets a refused write, after
which a pinned worker exits and a rotating one may go on. `WatchRenew` and
`WatchRead` are the two halves of `check`, each of which may fail.

### Ingest and LibraryView

`docs` is the table of documents with their chunks; an identifier is a slug,
the number `nextFree` gave it, and how often `Staging` was applied. A chunk
carries the job and attempt that wrote it, so that a mixture of two ingests can
be told. The actions are the steps of `Service.Run` in order (`Acquire`,
`Destination`, `Prepare`, `Create`, `AddChunks`, `MarkReady`, `CleanUp`), and
the queue's steps joined with what they do to documents (`SettleDocs` and
`SweepDocs` with `dropPartial`, `RoundDocs` with the purge). `Edit` is the
outside world changing a source. `Forced` stands for both reasons to read held
bytes again, the force flag and an older pipeline version.

In `LibraryView` a search finds under each identifier one whole version or
nothing; a version appears or is replaced in the step that completes a job;
nothing disappears except by the purge. The refinement maps `shelf` to the
ready documents (a document that is not whole shows no version any step may
publish) and `completed` to the jobs that read as done.

### Sharing

One library, one group, three people. The database functions run under READ
COMMITTED, so a function that decides on what it read before its lock, or
writes without one, is two or three actions with its call kept in `call[u]`.
Two row locks are held from one action to the next: the library's, from the
count of `admins_left` to the write of `grant_library` or `revoke_library`, and
the group's around `maintainers_left`. A call keeps whom it counted (`others`).
Removing an account takes neither lock. It is a walk: `RemoveAccount`,
`FindHeir` (the trigger looks for the other admins), `Inherit` when there is
none, `Take` for each table the trigger empties, and `Strip`, where it commits
and the others see it; the rows it deleted are held until then (`Taken`), and
what appears in a table after it was emptied stays. Everything may run beside
everything. Where the database would break a deadlock of two calls, the model
leaves them both waiting; a call that never returns changes nothing.

### SignIn and Identity

A password is the number of the reset that set it. A sign-in is `FindAccount`,
`Begin` (the statement that counts the guess and locks the account),
`Mismatch` or `Match`, and the completion of the authorization request; an
exchange reads its grant and saves or rotates its refresh token in separate
statements; a reset and a removal see the tokens that were there when they
began. `Identity` takes a request through `Protect` (the signature or the
introspection and its cache, audience, scope, required claims) and
`Accounts.Middleware` (find, claim the library from before accounts, create,
find the twin's), and a server through loading or creating its signing keys.

### Upload and DocSync

A request at a door stops between any two statements: a link is opened, read
from, redeemed, the bytes stored, the job queued; each may fail. Queue and
worker are those of `JobQueue`, reduced to the latest job of a key. `DocSync`
reads Paperless, then the library, then the queue, plans, and acts document by
document. It decides by comparing the time a document was ingested with the
time Paperless changed it, so the clock of a document is the number of its
changes. In the run the second link is issued only after the first and while
Paperless rests (`MCSpec`): it is there for two uploads of one file that
overlap.

### Chunking, Grading, Navigation, Crawl

A block's text is a sequence of paragraphs, these of lines; a line is the words
and the space-free characters the estimator counts, and the place it was read,
which lets a property follow it. `Grading` prepares an extraction (the
structure report that may refuse it, chunks, stored report) and verifies what
was stored. Rates are compared by cross multiplication. `Navigation` is the
choice of a tree (sidebar, index page, path), the placement of pages and the
blocks of the document. `Crawl` takes one host through several crawls: a fetch
with its redirects is one step, and the site changes between fetches. Manifests
(one sitemap, one llms.txt) and probes pass through `robots.txt` and the budget
as pages do; a 304 confirms whatever copy is stored, and links are taken from
any answer that succeeded.

### Search

The rows of a library stand in the order its index walks them. `SearchTool`,
`ContextTool`, `OutlineTool` and `ListTool` are the handlers with what they
call: pools from one walk or from a query of their own with its scan, the
boost and the penalty, the merge by rank, spans and their cap. Rows of equal
score come in another order from the walk than from a query of one document,
as `search_test.go:109-111` says they may. A context is read in three
transactions, and the document may be replaced between any two.

### Messages, Access, Repository, Api

`Messages` is the generated messages, a set per message. A world of `Access`
holds a shared library and a group, a personal library for every account, and
a document and a job in each; a function maps a world and an actor to a
SQLSTATE, a world and a result. `Repository` turns a SQLSTATE into an error of
the service, `Api` turns that into a code. A handler that needs several
transactions stops between them, and other calls change the world there. Calls
that only read are no step; the properties put every request to every
reachable world instead. A source is a kind of path: none, one handed in, a
file no adapter reads, a directory with nothing to read, an upload, a path
outside the roots. `UpdateSignIn` carries one change to one stored setting.

## What the runs check

Every passing run explores its instance completely.
The constants of a component are bound in its `MC` module. `MCContent` puts
`MCCrawl`, `MCGrading`, `Navigation` and `MCSearch` side by side, `MCAccounts`
`SignIn`, `MCIdentity` and `Sharing`; `MCDocSync` holds the link beside the sync.

| Run | Instance | Properties |
| --- | --- | --- |
| `queue_liveness` | a rotating and a pinned worker, 1 job, 2 attempts, lapsing leases, a crash, a lost answer, 2 cancel calls | `ClaimsAreExclusive`, `FailedHonestly`, `CancelledOnlyWhenAsked`, `OnlyTheHolderFinishes`, `EveryJobEnds` |
| `queue_revoked` | 2 rotating workers, 1 job, leases that only a watcher keeps, a crash, 2 changes of access, a cancel call | `RunsAlone`, `DeletedIsQuiet`, `FinishedStaysFinished`, `EveryJobEnds` |
| `ingest_crash` | 1 pinned worker, a crash, 2 jobs on one changing source, the second forced, a cancel call | `DoneHasDocument`, `ImplementsLibraryView` |
| `ingest_faults` | 1 rotating worker, a crash, lapsing leases, a lost answer, a change of access, 2 jobs on one source | `NothingLeftBehind`, `OneDocumentPerSource`, `ReadyIsWhole` |
| `accounts` | 2 browsers, 2 clients, a lock after 2 guesses, a reset, 3 tokens; 3 requests of 2 servers; 3 people, 2 of them founders, 3 calls that overlap | `GuessesAreBounded`, `RefreshSpentOnce`, `RemovedNeverRenews`, `OneAccountPerIdentity`, `KeysAgree`, `LastAdminGoesBeside`, `MaintainerGoesWithAccount` |
| `uploads` | 2 links, 2 requests, 2 files; 2 documents in Paperless, 2 changes, a fault | `LinkSpentOnce`, `LibraryMirrors`, `SyncSettles`, `RetirementWaits` |
| `content` | 4 addresses on 5 hosts that differ in pages, redirects, sitemap, llms.txt and dates, 2 crawls, 2 changes; extractions of up to a few blocks of seven shapes, sites of four pages with a two-level navigation, shelves of two libraries with five rows, two orders of ties, a version published meanwhile | `TextIsKept`, `OverCapOnlyUncut`, `SectionsResolve`, `GradesAgree`, `EveryPageIsIndexed`, `MergedIsScoped`, `AnchorSurvives`, `EveryPageAccounted`, `DeclaredNeverCut`, `KeepsWhatIsServed` |
| `api` | 3 people, from no library at all and from 28 worlds with a shared one; 2 interleaved calls, then any request | `HiddenLooksAbsent`, `ListedIsReachable`, `AnswersAreNamed`, `ChangesNeedTheRole` |

What they show, beyond the queue and the ingest:

- **Sharing.** Whoever demotes, revokes or leaves counts the admins under the
  library's lock, and a removal hands over what the account alone administers.
  So a library loses its last admin in two ways only, both beside a removal:
  the admins a call counted are all removed before it writes, or the admin a
  removal found leaves before it commits. The same lock keeps a group's
  maintainers, whom otherwise only a removal takes.
- **Accounts.** A guess is counted before it is checked, so sending many at once
  buys none. A refresh token has one successor. A token saved after a removal
  is never renewed. Racing first requests end in one account, and servers that
  start together sign with a key both know.
- **Uploads.** A link opens once, although two requests saw it open. Once
  Paperless rests, the library holds what it shows and the sync rests too,
  because a document that was read again is stamped again. A retirement waits
  for a queued job.
- **Content.** Chunks hold every line once and in order; they pass the cap only
  as a line or a paragraph that `splitBlock` does not cut; a section is found
  under its own number or below. The report and the grade agree. Every fetched
  page reaches the document. A merged search gives each document answers of
  the scores, and in the order of the scores, that a search of it alone gives,
  and is short only when all are exhausted. A context is a run of one version;
  where that version holds the chunk asked for, the chunk survives the cap, and
  no more is cut than must be.
- **Crawl.** Every page a crawl learned of is held, merged into a page that is
  held, or reported. The budget stops a page only when redirects, probes and
  followed links used up the slack above the declared pages. A 304 confirms
  what is served.
- **Api.** To an account without a part in a library, every answer is the one it
  would get if the library had never been, except to creating one of that
  name. What lists show can be acted on and the other way around. Every
  SQLSTATE has a name and a code, and a call that runs alone is answered as the
  server's fault for two kinds of request only (`Unread`, below). Documents and
  jobs of a library change only by someone who edits it at that moment.

Why the bounds are enough. Two workers are the least that compete; two attempts
the least with a retry and a last attempt; two jobs the least where a document
is replaced, and one job is all it takes for workers, cancellations and changes
of access to meet. One crash reaches every point where a process may die, and a
job that survives it meets the sweep on its second attempt. Two cancel calls
let one overtake a retry. Where a theorem states the property, it removes the
bounds. In
`accounts` two browsers and two clients race, and three tokens are a token, its
successor and one more; browsers are interchangeable, and so are clients, which
the symmetry of the run uses. Its three people are an admin who is removed, one
who leaves or is demoted meanwhile, and one who is given something; three calls
are a removal and two beside it. In `uploads` two changes are one
before and one after a push. The caps of `content` are scaled down so that
texts of one to a dozen words reach every rule; the order of the caps is kept
(`BoundsOrdered`, `SearchBounds`). In a crawl of
`content` the second pass meets the cache
of the first, with changes before and in it. In `api` the initial worlds vary
what takes many calls to build, so that two calls are enough to change any of
it under a third; they leave out a deleted library someone only reads, and put
bob in the group only where the group is granted the library.

### Where the code and its own words disagree

| Run | What TLC finds |
| --- | --- |
| `queue_cancel_forgotten` | `CancelEndsTheJob` fails: a running job is asked to stop, fails transiently before its worker looks, and goes back to `queued` with `cancel_req` set: neither `ClaimJob` nor `SweepStrandedJobs` matches it again. `EveryJobEnds` is therefore stated with the exception `Forgotten` |
| `removed_stays` | `RemovedIsOut` fails: the trigger deletes the account's grants and then, in later statements, its invitations and memberships; a library it creates or an invitation it accepts after the first statement and before the removal commits leaves it a grant |
| `staging_published` | `StagingNeverReady` fails: a replacement crashes and leaves its staging row, which has the same `source_path`; `DocIDForSourcePath` answers with either row, and a retry that is given the staging identifier publishes a document under it, which the next clean-up or replacement of the original clears |
| `sections_collide` | `SectionsAreKeys` fails: a page the navigation leaves out is placed under the number after the count of placed pages; where the navigation has heads without a page, that is the number of a declared chapter, and two pages have one section |

`PROJECT.json` quotes the line each of them contradicts.

The same modules show more when the constants of a passing run are changed, and
these are the limits of what the passing runs say:

- with a change of access, a role revoked between the halves of a poll and given
  back makes `CancelRequested` answer yes for a row it cannot see, and
  `CancelledOnlyWhenAsked` fails;
- what `staging_published` shows reaches further: with a source that changes,
  the document published under a staging identifier is a second one of its
  source, and `OneDocumentPerSource` fails; with a third job the replacement of
  the original clears it, and `DoneHasDocument` and `ImplementsLibraryView`
  fail (the shortest behaviour has about fifty steps). `ingest_crash` therefore
  has two jobs;
- `OneDocumentPerSource` fails too when the role is revoked and given back
  around the lookup, so it is stated for a requester who keeps the library;
- with two workers, one that lost its claim cleans up the identifier the new
  holder published, or the one another source with the same slug is writing,
  and `DoneHasDocument` fails; chunks of one may also land in the document the
  other published;
- when the answer to the commit that publishes a new document is lost, the
  clean-up deletes the document, and `DoneHasDocument` fails;
- a source that changes back while a crashed replacement waits for its retry
  completes the job as unchanged, and the half-written replacement stays;
- two administrators who step down at once each count the other, and
  `AdministratorsRemain` fails;
- "A library always keeps an admin" (`README.md:219`) fails beside a removal: a
  demotion counts the other admin under the lock, that admin is removed before
  the demotion is written, and both are gone. `LastAdminGoesBeside` says that it
  takes this;
- an exchange that read its grant before a password reset saves a refresh token
  after it, and `ResetSignsOut` fails: the token works until it expires;
- with `OrderedInserts = FALSE`, a signing key stamped first and committed last
  is signed with by one server and unknown to another, and `KeysAgree` fails;
- with `Racing = TRUE`, a document that Paperless changes between its download
  and its publication is stamped later than the change, is taken for unchanged,
  and `LibraryMirrors` fails;
- with `Moving = TRUE`, a redirect that moves to an older page on a host that
  compares dates is answered 304, the body of the page it left is kept, and
  `KeepsWhatIsServed` fails;
- a removal whose role or library goes between the look and the deletion matches
  no row and is answered as done: `RemovalIsDone` fails;
- where a document's pool ends in the middle of a tie, which of the tied chunks
  it holds is up to the statement that filled it, and a merged search may give
  other chunks, and after the boost other scores, than "a search of that
  document alone" (`internal/pgstore/search.go`): `MergedIsScoped` leaves such
  pools out (`TieAtEdge`);
- a version published between the look for a chunk and the read around it is
  cut around the old chunk's place, under a note that says "the anchor chunk
  was preserved" (`internal/mcpserver/server.go:633`): `AnchorSurvives` asks for
  the chunk only where the version read still holds it;
- "A target outside the library root, or one no adapter reads, is the caller's
  mistake rather than the server's moment" (`internal/api/connectapi/job.go:134`),
  but a directory with nothing to read is a plain error of `source.go:118-120`
  and is answered as internal; and a file to be read at once that is outside the
  root or is a directory is internal too, because `asConnectError`
  (`connectapi.go:196-208`) knows no such error. `AnswersAreNamed` says that
  these are all;
- a space-free script is rounded piece by piece, and its chunks may pass the
  cap by the rounding: `OverCapOnlyUncut` leaves them out;
- `RequestCancel` reports the status it read one transaction before its update.

`AdministratorsRemain`, `ResetSignsOut` and `RemovalIsDone` are defined beside
the properties the runs check, for whoever changes that code.

## Fairness

`FairSpec` assumes weak fairness of: the steps of a live worker, its watcher
and its ingest (an ingest ends because `JobTimeout` cancels its context);
`Restart`, because the deployment's supervisor restarts a process that exits;
committing an insert and carrying out the second half of a cancel call once
begun; a lease running out when nobody is alive to renew it, and the grace
period of a deleted library, because time passes. Nobody is obliged to queue,
cancel, revoke, grant, delete or restore, and no lease need lapse under a live
worker.

`SyncSpec` assumes weak fairness of the passes of docsearch-sync, which repeats
them on a timer, and of the worker on every key. Changes in Paperless and
faults are bounded, so "once they stop" is reached in every behaviour.

## What is proved

Every theorem holds for all values of the constants that satisfy the named
`ASSUME`s of the module it is about, and TLC evaluates those on the run's
instance. They say that bounds are naturals, that what is given has its type,
that a founder, an attempt or a seed exists. Where a theorem needs more, it
says so itself (`ASSUME ... PROVE`), and the list of limits above says what
happens otherwise.

| Theorem | States | Needs |
| --- | --- | --- |
| `JobQueueProofs!TypeCorrect` | `TypeOK`; with it, no claim exceeds `MaxAttempts` | |
| `Fencing`, `Exclusion` | `ClaimsAreExclusive`, `RunsAlone` | |
| `FailsHonestly`, `DeletedQuiet` | `FailedHonestly`, `DeletedIsQuiet` | |
| `CancelledWhenAsked` | `CancelledOnlyWhenAsked` | `MaxChanges = 0` |
| `HolderFinishes`, `FinishedStays`, `NeverRestarts` | `OnlyTheHolderFinishes`, `FinishedStaysFinished`, `AskedToStopNeverRestarts` | |
| `IngestProofs!IngestIsQueue` | `IngestSpec => Spec` | |
| `IngestFenced` | `ClaimsAreExclusive`, `OnlyTheHolderFinishes` of `IngestSpec` | |
| `WholeForReaders` | `ReadyIsWhole` | `OneWorker` |
| `SourcesStayApart`, `NothingStays` | `OneDocumentPerSource`, `NothingLeftBehind` | `OneWorker`, `MaxCrashes = 0` |
| `StagingStaysHidden` | `StagingNeverReady`, as long as no access has changed | `OneWorker`, `MaxCrashes = 0` |
| `DoneKeepsDocument`, `ReadersView` | `DoneHasDocument`, `ImplementsLibraryView` | `OneWorker`, `MaxCrashes = MaxUnacked = MaxChanges = 0` |
| `SharingProofs!MaintainerKept` | `MaintainerGoesWithAccount` | |
| `AdminKept` | `LastAdminGoesBeside` | |
| `SignInProofs!GuessesBounded`, `RefreshOnce`, `LateNeverRenewed` | `GuessesAreBounded`, `RefreshSpentOnce`, `RemovedNeverRenews` | |
| `IdentityProofs!OneAccount` | `OneAccountPerIdentity` | |
| `KeysKnown` | `KeysAgree` | `OrderedInserts` |
| `DocSyncProofs!LinksSpentOnce`, `RetirementsWait` | `LinkSpentOnce`, `RetirementWaits` | |
| `CrawlProofs!EveryPageAnswered`, `DeclaredFits` | `EveryPageAccounted`, `DeclaredNeverCut` | |
| `KeptIsServed` | `KeepsWhatIsServed` | `~ Moving` |
| `ApiProofs!NobodyLearns`, `ListsAreTrue`, `RefusalsAreNamed` | `HiddenLooksAbsent`, `ListedIsReachable`, `AnswersAreNamed`, from any world | |
| `RolesAreAskedAgain` | `ChangesNeedTheRole`, from any world | |
| `ApiKeepsShape` | `ApiInv` | |

### The queue

The inductive invariant `IInv` adds to the properties: `HasItsJob` (whoever
executes has a job, and a watcher runs only beside an execution), `LockedRows`
(a locked row is still claimable, in a live library, and locked once), and
`HolderIsCurrent` (while nothing stalls, whoever executes a job holds its
current attempt under a lease that has not lapsed, or somebody else ended the
job), and `PollRenews` (a watcher that polled has renewed the lease, so that no
lease is `Overdue`).
`LockedRows` is why a commit that comes after a cancellation, a sweep or a
deletion was tried is still right: all of these wait for the lock or find that
they do not apply. `HolderIsCurrent` is why a claim never meets a live
execution: what is claimable is queued or lapsed, and what is executed is
neither.

The argument has two halves. Each action is shown to be of one of a few kinds
(`RowStep`: a row enters, is taken, touched, ended, put back or purged;
`WorkerStep`: a worker is freed, locks, commits or works on), in `PeopleKind`,
`SeekingKind` and `WorkingKind`. Then `KindInv` shows, once for all actions,
that steps of these kinds preserve each part of the invariant. The action
properties follow from the kinds alone.

`CancelledWhenAsked` has an invariant of its own, `AskedInv`: a row's cancel
request, a watcher's answer and an ingest that ended as cancelled all go back
to a call. It needs that
no access changes, because `CancelRequested` takes a row it cannot see for a
cancelled one.

### The ingest

`QueueStep` shows action by action that a step of `Ingest` is a step of
`JobQueue` or leaves the queue's variables alone; `Ingest` therefore inherits
what is proved of the queue. `WholeInv` says of a worker that is writing that
a document under its identifier, if one is there, is its own, is not ready,
and holds exactly the batches it has added (`Filling`, `Written`), so that the
swap publishes a whole one. Two workers can be given one identifier (see the limits), so this
is stated for one.

`ShelfInv` says what stands on the shelf between two ingests and during one: a
ready document is not under a staging identifier (`ReadyIsProper`), a document
that is not ready is the one the worker is writing or about to remove
(`UnreadyIsInHand`), ready documents differ in source (`SourcesApart`), and a
worker writes under the identifier its source already has, or one nobody has
(`Aimed`). A crash leaves a row in nobody's hands, which is all that breaks
it, and so the theorems about it are stated without one; a job still fails,
lapses, is cancelled, retried and read again as its source changes.

`CalmInv` adds what the refinement needs: a job that reads as done has its
document, a worker about to confirm one has it on the shelf, and one about to
clean up does not (`AboutToEnd`), and versions read are versions of the source
(`DigestInv`). `ReaderSees` then takes every action of `Ingest` for one of
three things a reader may see: nothing, a publication (`Publishes`), or a job
that confirms the version already there (`Confirms`). The hypotheses are the
limits above one by one: without them a crash leaves a staging row, an
unheard commit has its document cleaned up, and a lookup without the role finds
no document to replace. `ingest_crash` shows that the two properties survive a
crash while there are two jobs, which is the part that stays with TLC.

### Sharing

`SharingIInv` says of the calls in flight what their first transactions
established and what the locks have kept since: a lock has one holder
(`OneHolder`), whom a call counted is still an admin or has been removed
(`AdminsCounted`; `MaintainersCounted` for the group), and an account is being
removed by one call, with an heir if nobody else administered (`Removals`).
`GroupInvitations` (whoever is invited to a group is not in it) is why an
acceptance never demotes. Whoever writes under a lock therefore leaves an admin
behind unless all it counted are removed, and a removal does unless it found
another admin and so looked for no heir. Nothing is assumed of what overlaps.

### Signing in, accounts and keys

`SignInIInv` relates the guesses to the row: they are at most the failures
counted since the last release (`CountIsHonest`), which is why comparing after
counting is enough. A spent token is gone from the table (`SpentIsGone`), an
exchange that is under way has read a token that was issued
(`RefreshesIssued`), and a token saved late belongs to an account that is no
longer there and to no exchange under way (`LateIsStranded`), so that nothing
renews it.

`AccountInv` holds that accounts that exist differ in identity
(`AccountsAreUnique`, what the unique index gives), that the owner makes no
account once the one from before accounts is theirs (`OwnerClaims`), and that
a request acts for an account of its own identity (`ActsForItself`). `KeyInv`
holds that stamps differ and that, where keys become visible in their order,
the first key is in the keyring of every server that has loaded one.

### Uploads and the sync

`LinkIsSpent`: a request that got through left its link used; redeeming is one
conditional update, so a second request finds it used. `PlannedIsIdle`: what a
pass still plans to push or retire has no job, because the plan leaves out
what is queued and nothing else queues that key meanwhile.

### The crawler

`CrawlIInv` has two parts of substance. `Accounted`: a page the crawl knows is
queued or answered for, and the answer of an alias is a page that is held.
`Budgeted`: the requests made and the entries queued, with the slack, fit in
the budget and what links, redirects and probes added to it, so the budget can
stop a page only when those have used up the slack. For `KeptIsServed`,
`ServedInv` adds that a copy in the cache is no newer than the page it was read
from, and is that page while their dates agree (`Faithful`); a redirect that moves on a host that compares
dates breaks that.

Redirects and queued links are recursive functions. What they compute is proved
by induction over a set of numbers (`LeastNumber`, `SetInduction`), since the
library's induction theorems take a predicate, which the installed provers do
not instantiate.

### The Connect services

The theorems start from any world: any accounts, roles, invitations, group,
documents and jobs the tables can hold (`World`), whether or not calls lead
there. Every handler is a chain of stages, each of which runs one transaction
at most, and each property is a fact about one stage. It is shown for the
database functions first, then for the handlers of each of the six services,
and is then carried through a call by its stages.

- `HiddenLooksAbsent`. `Outsider` is what an account knows of a library it has
  no part in, spelled out in the terms the functions test; `ButForAtlas` says
  that two worlds differ only in that library. Functions on such worlds are
  `Alike`, stages are `InStep` (both end with the same answer, or both go on to
  the same stage), so whole calls are. Creating a library is left out because
  a name that is taken is refused.
- `ChangesNeedTheRole`. A stage is `Sound` when it leaves a world, goes on at a
  higher `Level`, and leaves the library's document and job alone (`Keeps`),
  unless it deletes the library or ends the call of somebody who holds the
  role in the world of that very transaction. `ApiInv` keeps track of calls in
  flight: each is one of its service's procedures, at a stage that procedure
  has. Since levels rise, a call has at most three transactions, which is
  how far `Answer` follows it.
- `AnswersAreNamed`. `Raises` lists the SQLSTATEs the functions may raise;
  every one has a name in the repositories and every name a code (`Coded`). A
  stage is `Blameless` when it ends so, or leaves the next stage what it needs
  (`Ready`): a role that was read, a document that was found. `UnnamedAre` and
  `UnnamedAnswers` take the requests whose error has no code one by one, which
  makes the property an equivalence.
- `ListedIsReachable`. For each list, the function that fills it and the
  function that guards the calls on its entries are shown to ask the same of
  the same rows (`RolesTell`, `ReadableTells`, `ListsAnswered` on one side,
  `CallsGranted`, `AcceptGranted`, `RestoreGranted`, `ShelvesGranted` on the
  other), and `AnswersAgree` puts them together.

The refusals of the repositories and their codes are tables written with CASE,
and the outcome of a transaction is either `Commit` or `Raise`, so that a proof
about a handler looks at the outcome and never at the function again.

### Only model-checked

- Liveness (`EveryJobEnds`, `LibraryMirrors`, `SyncSettles`): the prover does
  not do fairness.
- `DoneHasDocument` and `ImplementsLibraryView` through a crash, and
  `NothingLeftBehind` and `OneDocumentPerSource` through one: they hold on the
  instances TLC explores and fail on larger ones (see the limits).
- The properties of `Grading`, `Navigation` and `Search`. They speak of what
  folds, sorts and selections on sequences compute, for every sequence: that is
  induction over data, for which the library's theorems take an operator as
  argument.

## What is not modelled

- Extraction, the scores of the full-text index, reading links and titles out
  of HTML, rendering: pure functions of large inputs, taken as given.
- Settings, beyond the one a sign-in reads and `UpdateSignIn` changes; schema
  migration, the command line and the web interface.
- The order in which a rotation visits several queues; one queue is modelled.
- A claim orders by `created_at, id`; the model orders by id.
- Deadlines and clocks: a lease is live or lapsed, a lock or a link has expired
  or not, a timeout may strike at any step of an ingest.
- `Queues.Waiting` is three statements taken as one step; a change between two
  of them is met in the next round.
- A lost answer is modelled for the publishing commit, where the process goes
  on to clean up. Elsewhere it is a crash right after the commit, or an error
  that ends the process.
- The audit logs, beyond whether recording fails; groups a provider states at
  sign-in, beyond the mark they leave on a membership.
- OAuth client registration and the wire protocol, which the provider library
  implements; the hashing of passwords.
- More than one host in a crawl, nested sitemaps, redirects of manifests,
  `Retry-After` and pacing; a crawl that is cut again from its stored responses
  without asking the site.
- In `Api`, a directory with several files, an extraction that fails and a
  structure that is refused; a request of `UpdateSignIn` with several changes.
- Page images, figures in answers, and the tools of the MCP server that write,
  which call what `Api` and `JobQueue` model.

## Plan

What a next revision could add, in this order:

1. The folds of `Search` and `Navigation` restated as recursive functions over
   positions, as was done for redirects in `Crawl`, and theorems about them.
2. Rotation over several queues, with fairness between them.
3. A synchronous ingest as a second kind of actor in `Ingest`, and the removal
   of a document beside an ingest of it.
