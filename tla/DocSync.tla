------------------------------ MODULE DocSync -------------------------------
(***************************************************************************)
(* docsearch-sync: what a Paperless user can see is pushed through the     *)
(* authenticated upload door, and retired when it is no longer shown.      *)
(*                                                                         *)
(* A pass reads Paperless, then the library, then the queue, and acts on   *)
(* each document in turn, while the worker reads what earlier passes       *)
(* pushed.  The sync keeps nothing: it decides by comparing the time a     *)
(* document was read with the time Paperless changed it.  Only that order  *)
(* matters, so the clock of document d is the number of its changes: a     *)
(* read after the n-th change and before the next is stamped n.            *)
(***************************************************************************)
EXTENDS Upload, FiniteSets

CONSTANTS
  Docs,        \* the documents of Paperless; each is its own upload key
  Copies,      \* Copies[d]: whether docsearch reads its original, its archive
  PreferArchive, \* --prefer-archive
  AllowEmpty,  \* --allow-empty
  Racing,      \* whether Paperless may change a document that is on its way
  MaxChanges,  \* how many changes are made in Paperless
  MaxFaults    \* how many requests and jobs fail

ASSUME DocSyncAssumption ==
  /\ Docs \subseteq Keys /\ Docs \cap Files = {} 
  /\ Copies \in [Docs -> [original : BOOLEAN, archive : BOOLEAN]]
  /\ PreferArchive \in BOOLEAN
  /\ AllowEmpty \in BOOLEAN /\ Racing \in BOOLEAN /\ MaxChanges \in Nat /\ MaxFaults \in Nat

VARIABLES
  paperless,  \* paperless[d]: whether d is shown, its changes and its bytes
  changes,    \* how many changes were made
  faults,     \* how many requests and jobs failed
  sync        \* the pass under way: what it has read, and what is left to do

syncVars == <<uploadVars, paperless, changes, faults, sync>>

Asleep == [pc |-> "asleep", shown |-> {}, modified |-> [d \in {} |-> 0],
           held |-> [d \in {} |-> 0], push |-> {}, retire |-> {}, of |-> "none", bytes |-> NoBytes]

SyncInit ==
  /\ UploadInit
  /\ paperless = [d \in Docs |-> [shown |-> TRUE, modified |-> 0, bytes |-> 0]]
  /\ changes = 0
  /\ faults = 0
  /\ sync = Asleep

-----------------------------------------------------------------------------
(* Paperless. *)

Busy(d) == job[d].status \in {"queued", "running"}
OnItsWay(d) == sync.pc # "asleep" \/ Busy(d)

Changes == changes < MaxChanges /\ changes' = changes + 1 /\ UNCHANGED <<uploadVars, faults, sync>>

\* Somebody edits the document, or only what is said about it.
Edit(d) ==
  /\ Changes
  /\ Racing \/ ~ OnItsWay(d)
  /\ \E bytes \in {paperless[d].bytes, changes + 1} :
       paperless' = [paperless EXCEPT ![d].modified = @ + 1, ![d].bytes = bytes]

\* Somebody shares it, or stops.
Share(d) ==
  /\ Changes
  /\ paperless' = [paperless EXCEPT ![d].shown = ~ @]

-----------------------------------------------------------------------------
(* Syncer.Plan: three reads, one after the other. *)

Shown == {d \in Docs : paperless[d].shown}

ReadShown ==
  /\ sync.pc = "asleep"
  /\ sync' = [sync EXCEPT !.pc = "held", !.shown = Shown,
                          !.modified = [d \in Docs |-> paperless[d].modified]]
  /\ UNCHANGED <<uploadVars, paperless, changes, faults>>

ReadHeld ==
  /\ sync.pc = "held"
  /\ sync' = [sync EXCEPT !.pc = "plan", !.held = [d \in Docs |-> held[d]]]
  /\ UNCHANGED <<uploadVars, paperless, changes, faults>>

\* A document docsearch refused is tried again once Paperless changed it.
Refused(d) == job[d].status = "refused" /\ job[d].at >= sync.modified[d]

\* Faulty: a document that was read once is never pushed again.
UnchangedEver(d) == sync.held[d] # NoDocument

Unchanged(d) == sync.held[d] # NoDocument /\ sync.held[d].at >= sync.modified[d]

\* The original where docsearch reads it, otherwise the archive copy.
Choose(d) ==
  IF PreferArchive /\ Copies[d].archive THEN "archive"
  ELSE IF Copies[d].original THEN "original"
  ELSE IF Copies[d].archive THEN "archive"
  ELSE "none"

\* decide: what is pushed.  A document without a readable copy is skipped.
Pushes(d) == ~ Busy(d) /\ ~ Refused(d) /\ ~ Unchanged(d) /\ Choose(d) # "none"

\* Faulty: a document that is being read is retired.
RetiresBusy(d) == d \notin sync.shown /\ sync.held[d] # NoDocument

\* retirements: one that is being read waits for the next pass.
Retires(d) == d \notin sync.shown /\ sync.held[d] # NoDocument /\ ~ Busy(d)

Planned == [sync EXCEPT !.pc = "act", !.push = {d \in sync.shown : Pushes(d)},
                        !.retire = {d \in Docs : Retires(d)}]

\* An empty Paperless is not believed.
Plan ==
  /\ sync.pc = "plan"
  /\ sync' = IF sync.shown = {} /\ Planned.retire # {} /\ ~ AllowEmpty THEN Asleep ELSE Planned
  /\ UNCHANGED <<uploadVars, paperless, changes, faults>>

-----------------------------------------------------------------------------
(* Syncer.Run: the pushes, then the retirements. *)

Rest == sync' = [sync EXCEPT !.pc = "act", !.of = "none", !.bytes = NoBytes]

\* push: the bytes Paperless has now.
Download(d) ==
  /\ sync.pc = "act" /\ d \in sync.push
  /\ sync' = [sync EXCEPT !.pc = "put", !.push = @ \ {d}, !.of = d, !.bytes = paperless[d].bytes]
  /\ UNCHANGED <<uploadVars, paperless, changes, faults>>

\* Doors.direct: the file is stored under the key the sync names.
PutDirect ==
  /\ sync.pc = "put"
  /\ Put(sync.of, sync.bytes)
  /\ sync' = [sync EXCEPT !.pc = "enqueue"]
  /\ UNCHANGED <<links, door, job, held, paperless, changes, faults>>

EnqueueDirect ==
  /\ sync.pc = "enqueue"
  /\ Enqueue(sync.of)
  /\ Rest
  /\ UNCHANGED <<links, door, stored, held, paperless, changes, faults>>

Faulty == faults < MaxFaults /\ faults' = faults + 1

\* One document that fails does not stop the rest.
PushFails ==
  /\ Faulty
  /\ sync.pc \in {"put", "enqueue"}
  /\ Rest
  /\ UNCHANGED <<uploadVars, paperless, changes>>

Retire(d) ==
  /\ sync.pc = "act" /\ sync.push = {} /\ d \in sync.retire
  /\ Remove(d)
  /\ sync' = [sync EXCEPT !.retire = @ \ {d}]
  /\ UNCHANGED <<links, door, job, paperless, changes, faults>>

RetireFails(d) ==
  /\ Faulty
  /\ sync.pc = "act" /\ sync.push = {} /\ d \in sync.retire
  /\ sync' = [sync EXCEPT !.retire = @ \ {d}]
  /\ UNCHANGED <<uploadVars, paperless, changes>>

\* repeat waits for the interval.
PassEnds ==
  /\ sync.pc = "act" /\ sync.push = {} /\ sync.retire = {}
  /\ sync' = Asleep
  /\ UNCHANGED <<uploadVars, paperless, changes, faults>>

-----------------------------------------------------------------------------
Now(k) == IF k \in Docs THEN paperless[k].modified ELSE 0

Work(k) ==
  /\ Acquire(k) \/ Finish(k, Now(k)) \/ FinishEarlier(k, Now(k))
  /\ UNCHANGED <<paperless, changes, faults, sync>>
WorkFails(k) ==
  /\ Faulty
  /\ FailEarlier(k) \/ \E permanent \in BOOLEAN : Fail(k, permanent, Now(k))
  /\ UNCHANGED <<paperless, changes, sync>>

Pass ==
  \/ ReadShown \/ ReadHeld \/ Plan \/ PutDirect \/ EnqueueDirect \/ PassEnds
  \/ \E d \in Docs : Download(d) \/ Retire(d)

PassFails == PushFails \/ \E d \in Docs : RetireFails(d)
Doors == DoorNext /\ UNCHANGED <<paperless, changes, faults, sync>>

SyncNext ==
  \/ Pass \/ PassFails \/ Doors
  \/ \E d \in Docs : Edit(d) \/ Share(d)
  \/ \E k \in Keys : Work(k) \/ WorkFails(k)

\* The daemon repeats its passes, and the worker reads what is queued.
SyncSpec ==
  /\ SyncInit /\ [][SyncNext]_syncVars
  /\ WF_syncVars(Pass)
  /\ \A k \in Keys : WF_syncVars(Work(k))

-----------------------------------------------------------------------------
(* Properties. *)

\* What the library holds of d is what Paperless shows of it, or docsearch
\* refused the bytes Paperless shows.
Mirrored(d) ==
  IF d \notin Shown THEN held[d] = NoDocument
  ELSE \/ held[d].bytes = paperless[d].bytes
       \/ Choose(d) = "none"
       \/ job[d].status = "refused" /\ job[d].at = paperless[d].modified

\* Once Paperless stops changing, the library comes to hold what it shows and
\* nothing else of it, whatever failed on the way; an emptied Paperless is
\* left alone.  docsearch-sync replaces a document in place when Paperless
\* changes it and removes it when Paperless stops showing it.
LibraryMirrors ==
  <>[]((Shown = {} /\ ~ AllowEmpty) \/ \A d \in Docs : Mirrored(d))

\* And then it has nothing left to push: the same document is not sent again
\* on every pass.
SyncSettles == <>[](sync.push = {} /\ sync.retire = {})

\* A retirement never takes the bytes a queued job is about to read.
RetirementWaits ==
  [][\A d \in Docs : stored[d] # NoBytes /\ stored'[d] = NoBytes => ~ Busy(d)]_syncVars

=============================================================================
