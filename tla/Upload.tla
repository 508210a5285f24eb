------------------------------- MODULE Upload -------------------------------
(***************************************************************************)
(* Files that come in over HTTP: the door a signed link opens, the door a  *)
(* program with a token uses, the rows that keep the bytes, and the job    *)
(* each upload queues.                                                     *)
(*                                                                         *)
(* A request is several statements, and requests interleave between them.  *)
(* The queue and the workers are those of JobQueue and Ingest, reduced to  *)
(* the latest job of each key, what it reads, and what the jobs before it  *)
(* that still run have read.  Jobs of one key that wait together read the  *)
(* same and count as one.                                                  *)
(***************************************************************************)
EXTENDS Naturals

CONSTANTS
  Links,      \* the signed links
  Requests,   \* the requests made with links
  Files,      \* the files people send, each with a content hash of its own
  Unreadable, \* the files no adapter reads, or that are too large
  Keys,       \* every key: the files' hashes, and the keys programs name
  NoBytes     \* no file is stored

ASSUME UploadAssumption == Unreadable \subseteq Files /\ Files \subseteq Keys

VARIABLES
  links,    \* links[l]: unissued, open, used or expired
  door,     \* door[r]: how far request r has got, with which link and file
  stored,   \* stored[k]: the bytes under key k
  job,      \* job[k]: the latest job of key k, and the bytes it read; earlier
            \* is what the jobs before it that still run have read
  held      \* held[k]: the document read from key k, and when

uploadVars == <<links, door, stored, job, held>>

NoJob == [status |-> "none", read |-> NoBytes, at |-> 0, earlier |-> {}]
NoDocument == [bytes |-> NoBytes, at |-> 0]
Away == [pc |-> "away", link |-> "none", file |-> "none"]

UploadInit ==
  /\ links = [l \in Links |-> "unissued"]
  /\ door = [r \in Requests |-> Away]
  /\ stored = [k \in Keys |-> NoBytes]
  /\ job = [k \in Keys |-> NoJob]
  /\ held = [k \in Keys |-> NoDocument]

-----------------------------------------------------------------------------
(* Doors.Link: GET shows the page, PUT and POST spend the link. *)

\* The upload_link tool hands out a link.
Issue(l) ==
  /\ links[l] = "unissued"
  /\ links' = [links EXCEPT ![l] = "open"]
  /\ UNCHANGED <<door, stored, job, held>>

LinkExpires(l) ==
  /\ links[l] = "open"
  /\ links' = [links EXCEPT ![l] = "expired"]
  /\ UNCHANGED <<door, stored, job, held>>

\* A closed link is refused before the body is read.
Open(r, l, f) ==
  /\ door[r].pc = "away"
  /\ links[l] = "open"
  /\ door' = [door EXCEPT ![r] = [pc |-> "take", link |-> l, file |-> f]]
  /\ UNCHANGED <<links, stored, job, held>>

\* The whole file is read first, up to the size the server accepts.
Readable(f) == f \notin Unreadable

\* A file no adapter reads leaves the link as it is.
Take(r) ==
  /\ door[r].pc = "take"
  /\ door' = [door EXCEPT ![r] = IF Readable(@.file) THEN [@ EXCEPT !.pc = "redeem"] ELSE Away]
  /\ UNCHANGED <<links, stored, job, held>>

\* Faulty: the link is marked used, but was only checked when it was opened.
RedeemUnchecked(r) ==
  /\ door[r].pc = "redeem"
  /\ links' = [links EXCEPT ![door[r].link] = "used"]
  /\ door' = [door EXCEPT ![r].pc = "put"]
  /\ UNCHANGED <<stored, job, held>>

\* One conditional UPDATE spends it.
Redeem(r) ==
  /\ door[r].pc = "redeem"
  /\ IF links[door[r].link] = "open"
     THEN /\ links' = [links EXCEPT ![door[r].link] = "used"]
          /\ door' = [door EXCEPT ![r].pc = "put"]
     ELSE /\ door' = [door EXCEPT ![r] = Away]
          /\ UNCHANGED links
  /\ UNCHANGED <<stored, job, held>>

\* keep: store the file under its key and queue it, in two transactions.
Put(k, bytes) == stored' = [stored EXCEPT ![k] = bytes]

\* What the jobs of k that run have read.
Reading(k) ==
  job[k].earlier \cup (IF job[k].status = "running" THEN {job[k].read} ELSE {})

\* The listing names a source by its latest job; one that is running goes on.
Enqueue(k) ==
  job' = [job EXCEPT ![k] = [NoJob EXCEPT !.status = "queued", !.earlier = Reading(k)]]

KeepPut(r) ==
  /\ door[r].pc = "put"
  /\ Put(door[r].file, door[r].file)
  /\ door' = [door EXCEPT ![r].pc = "enqueue"]
  /\ UNCHANGED <<links, job, held>>

KeepEnqueue(r) ==
  /\ door[r].pc = "enqueue"
  /\ Enqueue(door[r].file)
  /\ door' = [door EXCEPT ![r] = [@ EXCEPT !.pc = "done"]]
  /\ UNCHANGED <<links, stored, held>>

\* A statement fails: the caller is told, and a spent link stays spent.
DoorFails(r) ==
  /\ door[r].pc \in {"redeem", "put", "enqueue"}
  /\ door' = [door EXCEPT ![r] = Away]
  /\ UNCHANGED <<links, stored, job, held>>

-----------------------------------------------------------------------------
(* The worker, on one key. *)

\* Source.Acquire reads the stored file.  One that is not there fails.
Acquire(k) ==
  /\ job[k].status = "queued"
  /\ job' = [job EXCEPT ![k] = IF stored[k] = NoBytes THEN [@ EXCEPT !.status = "failed"]
                               ELSE [@ EXCEPT !.status = "running", !.read = stored[k]]]
  /\ UNCHANGED <<links, door, stored, held>>

\* Faulty: bytes that are held already are not stamped as read.
FinishUnstamped(k, now) ==
  /\ job[k].status = "running"
  /\ held' = IF held[k].bytes = job[k].read THEN held
             ELSE [held EXCEPT ![k] = [bytes |-> job[k].read, at |-> now]]
  /\ job' = [job EXCEPT ![k].status = "done"]
  /\ UNCHANGED <<links, door, stored>>

\* The document is published, or stamped as read when its bytes are the same.
Finish(k, now) ==
  /\ job[k].status = "running"
  /\ held' = [held EXCEPT ![k] = [bytes |-> job[k].read, at |-> now]]
  /\ job' = [job EXCEPT ![k].status = "done"]
  /\ UNCHANGED <<links, door, stored>>

\* A failure that comes back on every attempt, or attempts that ran out.
Fail(k, permanent, now) ==
  /\ job[k].status = "running"
  /\ job' = [job EXCEPT ![k].status = IF permanent THEN "refused" ELSE "failed", ![k].at = now]
  /\ UNCHANGED <<links, door, stored, held>>

\* A job that is no longer the latest of its key ends like any other.
FinishEarlier(k, now) ==
  /\ \E bytes \in job[k].earlier :
       /\ held' = [held EXCEPT ![k] = [bytes |-> bytes, at |-> now]]
       /\ job' = [job EXCEPT ![k].earlier = @ \ {bytes}]
  /\ UNCHANGED <<links, door, stored>>

FailEarlier(k) ==
  /\ \E bytes \in job[k].earlier : job' = [job EXCEPT ![k].earlier = @ \ {bytes}]
  /\ UNCHANGED <<links, door, stored, held>>

\* Documents.Delete removes the document and the upload it was read from.
Remove(k) ==
  /\ held' = [held EXCEPT ![k] = NoDocument]
  /\ stored' = [stored EXCEPT ![k] = NoBytes]

\* A person removes a document they uploaded.
RemoveUploaded(k) ==
  /\ k \in Files
  /\ held[k] # NoDocument
  /\ Remove(k)
  /\ UNCHANGED <<links, door, job>>

-----------------------------------------------------------------------------
Spend(r) == Take(r) \/ Redeem(r) \/ KeepPut(r) \/ KeepEnqueue(r) \/ DoorFails(r)

DoorNext ==
  \/ \E l \in Links : Issue(l) \/ LinkExpires(l)
  \/ \E r \in Requests, l \in Links, f \in Files : Open(r, l, f)
  \/ \E r \in Requests : Spend(r)
  \/ \E k \in Keys : RemoveUploaded(k)

-----------------------------------------------------------------------------
(* Properties. *)

\* A link works once: of the requests that found it open, however they
\* interleave with each other and with its expiry, one stores a file.
LinkSpentOnce ==
  \A r, s \in Requests :
    /\ door[r].pc \in {"put", "enqueue", "done"} /\ door[s].pc \in {"put", "enqueue", "done"}
    /\ door[r].link = door[s].link
    => r = s

=============================================================================
