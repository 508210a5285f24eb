--------------------------- MODULE DocSyncProofs ----------------------------
(***************************************************************************)
(* Proofs about Upload and DocSync for any links, requests, files and      *)
(* documents, and any number of changes and faults: a link is spent once,  *)
(* and a retirement never takes what a job is about to read.               *)
(***************************************************************************)
EXTENDS DocSync, TLAPS

-----------------------------------------------------------------------------
(* The parts of the inductive invariant. *)

Bytes == {NoBytes} \cup Files \cup Nat
DoorState ==
  [pc : {"away", "take", "redeem", "put", "enqueue", "done"}, link : Links \cup {"none"},
   file : Files \cup {"none"}]
JobRow ==
  [status : {"none", "queued", "running", "done", "failed", "refused"}, read : Bytes, at : Nat,
   earlier : SUBSET Bytes]
PaperRow == [shown : BOOLEAN, modified : Nat, bytes : Nat]

\* The doors: a request that is under way has a link and a file.
DoorTypeOK ==
  /\ links \in [Links -> {"unissued", "open", "used", "expired"}]
  /\ door \in [Requests -> DoorState]
  /\ \A r \in Requests : door[r].pc # "away" => door[r].link \in Links /\ door[r].file \in Files

\* What the doors and the worker keep of each key.
KeyTypeOK ==
  /\ stored \in [Keys -> Bytes]
  /\ job \in [Keys -> JobRow]
  /\ held \in [Keys -> [bytes : Bytes, at : Nat]]

PaperTypeOK ==
  /\ paperless \in [Docs -> PaperRow]
  /\ changes \in Nat

\* What a request has got through with is spent, for good.
GotThrough(r) == door[r].pc \in {"put", "enqueue", "done"}
LinkIsSpent == \A r \in Requests : GotThrough(r) => links[door[r].link] = "used"

LinkInv == DoorTypeOK /\ LinkIsSpent /\ LinkSpentOnce

\* The pass under way, as far as its plan goes.
Outstanding == sync.push \cup sync.retire
PassTypeOK ==
  /\ DOMAIN sync = {"pc", "shown", "modified", "held", "push", "retire", "of", "bytes"}
  /\ sync.pc \in {"asleep", "held", "plan", "act", "put", "enqueue"}
  /\ sync.shown \subseteq Docs /\ sync.push \subseteq Docs /\ sync.retire \subseteq Docs
  /\ sync.push \cap sync.retire = {}
  /\ sync.pc \in {"asleep", "held", "plan"} => Outstanding = {}
  /\ sync.pc \in {"put", "enqueue"} =>
       sync.of \in Docs /\ sync.of \notin Outstanding /\ sync.bytes \in Bytes

\* What is still to be pushed or retired, or is on its way, has no job.
PlannedIsIdle ==
  /\ \A d \in Outstanding : ~ Busy(d)
  /\ sync.pc \in {"put", "enqueue"} => ~ Busy(sync.of)

SyncIInv == LinkInv /\ KeyTypeOK /\ PaperTypeOK /\ PassTypeOK /\ PlannedIsIdle

-----------------------------------------------------------------------------
(* Links. *)

\* A request that goes away, or that has not redeemed its link, keeps LinkInv.
LEMMA DoorMoves ==
  ASSUME LinkInv, NEW r \in Requests, UNCHANGED links, door' \in [Requests -> DoorState],
         \A s \in Requests \ {r} : door'[s] = door[s],
         ~ GotThrough(r)' \/ (GotThrough(r) /\ door'[r].link = door[r].link),
         door'[r].pc # "away" => door'[r].link \in Links /\ door'[r].file \in Files
  PROVE  LinkInv'
BY DEF LinkInv, DoorTypeOK, LinkIsSpent, LinkSpentOnce, GotThrough

\* The conditional UPDATE gives an open link to one request.
LEMMA RedeemKeeps ==
  ASSUME LinkInv, NEW r \in Requests, Redeem(r)
  PROVE  LinkInv'
<1>0. door[r].pc = "redeem" /\ door[r].link \in Links /\ door[r].file \in Files
  BY DEF LinkInv, DoorTypeOK, Redeem
<1>1. CASE links[door[r].link] = "open"
  <2>1. links' = [links EXCEPT ![door[r].link] = "used"] /\ door' = [door EXCEPT ![r].pc = "put"]
    BY <1>1 DEF Redeem
  <2>2. door' \in [Requests -> DoorState]
    BY <2>1 DEF LinkInv, DoorTypeOK, DoorState
  <2>3. /\ door'[r].pc = "put" /\ door'[r].link = door[r].link /\ door'[r].file = door[r].file
        /\ \A s \in Requests \ {r} : door'[s] = door[s]
    BY <2>1 DEF LinkInv, DoorTypeOK, DoorState
  <2>4. /\ links' \in [Links -> {"unissued", "open", "used", "expired"}]
        /\ links'[door[r].link] = "used"
        /\ \A l \in Links \ {door[r].link} : links'[l] = links[l]
    BY <1>0, <2>1 DEF LinkInv, DoorTypeOK
  <2>5. DoorTypeOK'
    BY <1>0, <2>2, <2>3, <2>4 DEF LinkInv, DoorTypeOK
  <2>6. \A s \in Requests : GotThrough(s) => door[s].link \in Links /\ door[s].link # door[r].link
    BY <1>1 DEF LinkInv, DoorTypeOK, LinkIsSpent, GotThrough
  <2>7. LinkIsSpent'
    BY <2>3, <2>4, <2>6 DEF LinkInv, LinkIsSpent, GotThrough
  <2>8. LinkSpentOnce'
    BY <2>3, <2>6 DEF LinkInv, LinkSpentOnce, GotThrough
  <2> QED
    BY <2>5, <2>7, <2>8 DEF LinkInv
<1>2. CASE links[door[r].link] # "open"
  <2>1. UNCHANGED links /\ door' = [door EXCEPT ![r] = Away]
    BY <1>2 DEF Redeem
  <2> QED
    BY <2>1, DoorMoves DEF Away, DoorState, LinkInv, DoorTypeOK, GotThrough
<1> QED
  BY <1>1, <1>2

\* Every step of a door keeps a link to the one request that spent it.
LEMMA DoorStep ==
  ASSUME LinkInv, DoorNext
  PROVE  LinkInv'
<1>1. ASSUME NEW l \in Links, Issue(l) \/ LinkExpires(l)
      PROVE  LinkInv'
  BY <1>1 DEF Issue, LinkExpires, LinkInv, DoorTypeOK, LinkIsSpent, LinkSpentOnce, GotThrough
<1>2. ASSUME NEW r \in Requests, NEW l \in Links, NEW f \in Files, Open(r, l, f)
      PROVE  LinkInv'
  <2>1. UNCHANGED links /\ door' = [door EXCEPT ![r] = [pc |-> "take", link |-> l, file |-> f]]
    BY <1>2 DEF Open
  <2> QED
    BY <2>1, DoorMoves DEF DoorState, LinkInv, DoorTypeOK, GotThrough
<1>3. ASSUME NEW r \in Requests, Take(r)
      PROVE  LinkInv'
  <2>1. /\ UNCHANGED links /\ door[r].pc = "take"
        /\ \/ door' = [door EXCEPT ![r] = Away]
           \/ door' = [door EXCEPT ![r].pc = "redeem"]
    BY <1>3 DEF Take, LinkInv, DoorTypeOK, DoorState
  <2> QED
    BY <2>1, DoorMoves DEF Away, DoorState, LinkInv, DoorTypeOK, GotThrough
<1>4. ASSUME NEW r \in Requests, KeepPut(r) \/ KeepEnqueue(r)
      PROVE  LinkInv'
  <2>1. /\ UNCHANGED links /\ door[r].pc \in {"put", "enqueue"}
        /\ \/ door' = [door EXCEPT ![r].pc = "enqueue"]
           \/ door' = [door EXCEPT ![r].pc = "done"]
    BY <1>4 DEF KeepPut, KeepEnqueue, LinkInv, DoorTypeOK, DoorState
  <2> QED
    BY <2>1, DoorMoves DEF DoorState, LinkInv, DoorTypeOK, GotThrough
<1>5. ASSUME NEW r \in Requests, DoorFails(r)
      PROVE  LinkInv'
  <2>1. UNCHANGED links /\ door' = [door EXCEPT ![r] = Away]
    BY <1>5 DEF DoorFails
  <2> QED
    BY <2>1, DoorMoves DEF Away, DoorState, LinkInv, DoorTypeOK, GotThrough
<1>6. ASSUME NEW k \in Keys, RemoveUploaded(k)
      PROVE  LinkInv'
  BY <1>6 DEF RemoveUploaded, LinkInv, DoorTypeOK, LinkIsSpent, LinkSpentOnce, GotThrough
<1> QED
  BY <1>1, <1>2, <1>3, <1>4, <1>5, <1>6, RedeemKeeps DEF DoorNext, Spend

\* Only the doors touch links and requests.
LEMMA LinkStep ==
  ASSUME LinkInv, [SyncNext]_syncVars
  PROVE  LinkInv'
<1>1. CASE UNCHANGED <<links, door>>
  BY <1>1 DEF LinkInv, DoorTypeOK, LinkIsSpent, LinkSpentOnce, GotThrough
<1>2. CASE Doors
  BY <1>2, DoorStep DEF Doors
<1>3. ASSUME ~ Doors
      PROVE  UNCHANGED <<links, door>>
  BY <1>3, Zenon DEF SyncNext, Pass, PassFails, ReadShown, ReadHeld, Plan, PutDirect, EnqueueDirect, PassEnds,
    Download, Retire, PushFails, RetireFails, Edit, Share, Changes, Work, WorkFails, Acquire, Finish,
    Fail, FinishEarlier, FailEarlier, uploadVars, syncVars
<1> QED
  BY <1>1, <1>2, <1>3

-----------------------------------------------------------------------------
(* Keys and Paperless. *)

\* What a step does to the rows of one key.
LEMMA KeyStep ==
  ASSUME LinkInv, KeyTypeOK, PaperTypeOK, PassTypeOK, [SyncNext]_syncVars
  PROVE  KeyTypeOK'
<1> USE UploadAssumption, DocSyncAssumption
<1> DEFINE Row == [bytes : Bytes, at : Nat]
<1>1. ASSUME NEW k \in Keys, NEW b \in Bytes, Put(k, b), UNCHANGED <<job, held>>
      PROVE  KeyTypeOK'
  BY <1>1 DEF KeyTypeOK, Put
<1>2. ASSUME NEW k \in Keys, Enqueue(k), UNCHANGED <<stored, held>>
      PROVE  KeyTypeOK'
  <2>0. Reading(k) \subseteq Bytes
    BY DEF KeyTypeOK, JobRow, Reading
  <2>1. [NoJob EXCEPT !.status = "queued", !.earlier = Reading(k)] \in JobRow
    BY <2>0 DEF NoJob, JobRow, Bytes
  <2> QED
    BY <1>2, <2>1 DEF KeyTypeOK, Enqueue
<1>3. ASSUME NEW k \in Keys, Remove(k), UNCHANGED job
      PROVE  KeyTypeOK'
  <2>1. NoDocument \in Row /\ NoBytes \in Bytes
    BY DEF NoDocument, Bytes
  <2> QED
    BY <1>3, <2>1 DEF KeyTypeOK, Remove
<1>4. \A k \in Keys : Now(k) \in Nat
  BY DEF Now, PaperTypeOK, PaperRow
<1>5. ASSUME NEW k \in Keys, Acquire(k)
      PROVE  KeyTypeOK'
  <2>1. stored[k] \in Bytes /\ job[k] \in JobRow
    BY DEF KeyTypeOK
  <2>2. [job[k] EXCEPT !.status = "failed"] \in JobRow
    BY <2>1 DEF JobRow
  <2>3. [job[k] EXCEPT !.status = "running", !.read = stored[k]] \in JobRow
    BY <2>1 DEF JobRow
  <2> QED
    BY <1>5, <2>2, <2>3 DEF KeyTypeOK, Acquire
<1>6. ASSUME NEW k \in Keys, Finish(k, Now(k))
      PROVE  KeyTypeOK'
  <2>1. job[k] \in JobRow /\ job[k].read \in Bytes
    BY DEF KeyTypeOK, JobRow
  <2>2. [job[k] EXCEPT !.status = "done"] \in JobRow
    BY <2>1 DEF JobRow
  <2>3. [bytes |-> job[k].read, at |-> Now(k)] \in Row
    BY <1>4, <2>1
  <2> QED
    BY <1>6, <2>2, <2>3 DEF KeyTypeOK, Finish
<1>7. ASSUME NEW k \in Keys, NEW permanent \in BOOLEAN, Fail(k, permanent, Now(k))
      PROVE  KeyTypeOK'
  <2> DEFINE status == IF permanent THEN "refused" ELSE "failed"
  <2>1. job[k] \in JobRow /\ status \in {"refused", "failed"}
    BY DEF KeyTypeOK
  <2>2. job' = [job EXCEPT ![k].status = status, ![k].at = Now(k)]
        /\ UNCHANGED <<stored, held>>
    BY <1>7, Zenon DEF Fail
  <2> HIDE DEF status
  <2>3. [job[k] EXCEPT !.status = status, !.at = Now(k)] \in JobRow
    BY <1>4, <2>1 DEF JobRow
  <2> QED
    BY <2>2, <2>3 DEF KeyTypeOK
<1>15. ASSUME NEW k \in Keys, FinishEarlier(k, Now(k)) \/ FailEarlier(k)
       PROVE  KeyTypeOK'
  <2>1. PICK b \in job[k].earlier :
          /\ \/ held' = [held EXCEPT ![k] = [bytes |-> b, at |-> Now(k)]]
             \/ held' = held
          /\ job' = [job EXCEPT ![k].earlier = job[k].earlier \ {b}]
          /\ UNCHANGED stored
    BY <1>15, Zenon DEF FinishEarlier, FailEarlier
  <2>2. job[k] \in JobRow /\ b \in Bytes
    BY DEF KeyTypeOK, JobRow
  <2>3. [job[k] EXCEPT !.earlier = job[k].earlier \ {b}] \in JobRow
    BY <2>2 DEF JobRow
  <2>4. [bytes |-> b, at |-> Now(k)] \in Row
    BY <1>4, <2>2
  <2> QED
    BY <2>1, <2>3, <2>4 DEF KeyTypeOK
<1>8. CASE UNCHANGED <<stored, job, held>>
  BY <1>8 DEF KeyTypeOK
<1>9. ASSUME NEW r \in Requests, KeepPut(r) \/ KeepEnqueue(r)
      PROVE  KeyTypeOK'
  <2>1. door[r].file \in Files /\ door[r].file \in Keys /\ door[r].file \in Bytes
    BY <1>9 DEF KeepPut, KeepEnqueue, LinkInv, DoorTypeOK, Bytes
  <2> QED
    BY <1>1, <1>2, <1>9, <2>1 DEF KeepPut, KeepEnqueue
<1>10. CASE PutDirect \/ EnqueueDirect
  <2>1. sync.of \in Keys /\ sync.bytes \in Bytes
    BY <1>10 DEF PutDirect, EnqueueDirect, PassTypeOK
  <2> QED
    BY <1>1, <1>2, <1>10, <2>1 DEF PutDirect, EnqueueDirect
<1>11. ASSUME NEW d \in Docs, Retire(d)
       PROVE  KeyTypeOK'
  BY <1>3, <1>11 DEF Retire
<1>12. CASE Doors
  <2>1. ASSUME NEW k \in Keys, RemoveUploaded(k)
        PROVE  KeyTypeOK'
    BY <1>3, <2>1 DEF RemoveUploaded
  <2> QED
    BY <1>8, <1>9, <1>12, <2>1
    DEF Doors, DoorNext, Issue, LinkExpires, Open, Spend, Take, Redeem, DoorFails
<1>13. ASSUME NEW k \in Keys, Work(k) \/ WorkFails(k)
       PROVE  KeyTypeOK'
  BY <1>5, <1>6, <1>7, <1>13, <1>15 DEF Work, WorkFails
<1>14. ASSUME \/ ReadShown \/ ReadHeld \/ Plan \/ PassEnds \/ PassFails \/ UNCHANGED syncVars
              \/ \E d \in Docs : Download(d) \/ Edit(d) \/ Share(d)
       PROVE  UNCHANGED <<stored, job, held>>
  BY <1>14, Zenon DEF ReadShown, ReadHeld, Plan, PassEnds, PassFails, PushFails, RetireFails, Download, Edit,
    Share, Changes, uploadVars, syncVars
<1> QED
  BY <1>8, <1>10, <1>11, <1>12, <1>13, <1>14 DEF SyncNext, Pass

\* Paperless counts its changes.
LEMMA PaperStep ==
  ASSUME PaperTypeOK, [SyncNext]_syncVars
  PROVE  PaperTypeOK'
<1>1. ASSUME NEW d \in Docs, Edit(d)
      PROVE  PaperTypeOK'
  <2>1. PICK b \in {paperless[d].bytes, changes + 1} :
          paperless' = [paperless EXCEPT ![d].modified = @ + 1, ![d].bytes = b]
    BY <1>1 DEF Edit
  <2>2. b \in Nat /\ paperless[d].modified \in Nat /\ changes' \in Nat
    BY <1>1, <2>1 DEF Edit, Changes, PaperTypeOK, PaperRow
  <2> DEFINE n == paperless[d].modified + 1
             edited == [paperless EXCEPT ![d].modified = n]
  <2>3. n \in Nat /\ paperless' = [edited EXCEPT ![d].bytes = b]
    BY <2>1, <2>2
  <2> HIDE DEF n
  <2>4. edited \in [Docs -> PaperRow]
    BY <2>3 DEF PaperTypeOK, PaperRow
  <2> HIDE DEF edited
  <2>5. paperless' \in [Docs -> PaperRow]
    BY <2>2, <2>3, <2>4 DEF PaperRow
  <2> QED
    BY <2>2, <2>5 DEF PaperTypeOK
<1>2. ASSUME NEW d \in Docs, Share(d)
      PROVE  PaperTypeOK'
  <2>1. paperless[d].shown \in BOOLEAN /\ changes' \in Nat
    BY <1>2 DEF Share, Changes, PaperTypeOK, PaperRow
  <2>2. paperless' = [paperless EXCEPT ![d].shown = ~ paperless[d].shown]
    BY <1>2, Zenon DEF Share
  <2> DEFINE b == ~ paperless[d].shown
  <2>3. b \in BOOLEAN
    OBVIOUS
  <2> HIDE DEF b
  <2>4. paperless' = [paperless EXCEPT ![d].shown = b]
    BY <2>2, Zenon DEF b
  <2>5. paperless' \in [Docs -> PaperRow]
    BY <2>3, <2>4 DEF PaperTypeOK, PaperRow
  <2> QED
    BY <2>1, <2>5 DEF PaperTypeOK
<1>3. CASE UNCHANGED <<paperless, changes>>
  BY <1>3 DEF PaperTypeOK
<1>4. ASSUME ~ \E d \in Docs : Edit(d) \/ Share(d)
      PROVE  UNCHANGED <<paperless, changes>>
  BY <1>4, Zenon DEF SyncNext, Pass, PassFails, ReadShown, ReadHeld, Plan, PutDirect, EnqueueDirect, PassEnds,
    Download, Retire, PushFails, RetireFails, Work, WorkFails, Doors, syncVars
<1> QED
  BY <1>1, <1>2, <1>3, <1>4

-----------------------------------------------------------------------------
(* The pass. *)

PassInv == PassTypeOK /\ PlannedIsIdle

\* A document of Paperless gets a job only when the pass queues it: the door
\* of the links queues files, and the worker only finishes what is queued.
LEMMA BusyGrows ==
  ASSUME SyncIInv, [SyncNext]_syncVars, ~ EnqueueDirect, NEW d \in Docs, Busy(d)'
  PROVE  Busy(d)
<1> USE UploadAssumption, DocSyncAssumption
<1>0. d \in Keys /\ d \notin Files /\ job \in [Keys -> JobRow]
  BY DEF SyncIInv, KeyTypeOK
<1>1. CASE UNCHANGED job
  BY <1>1 DEF Busy
<1>8. ASSUME NEW k \in Keys, FinishEarlier(k, Now(k)) \/ FailEarlier(k)
      PROVE  Busy(d)
  BY <1>0, <1>8 DEF Busy, FinishEarlier, FailEarlier, JobRow
<1>2. ASSUME NEW k \in Keys, Acquire(k) \/ Finish(k, Now(k))
      PROVE  Busy(d)
  BY <1>0, <1>2 DEF Busy, Acquire, Finish, JobRow
<1>3. ASSUME NEW k \in Keys, NEW permanent \in BOOLEAN, Fail(k, permanent, Now(k))
      PROVE  Busy(d)
  <2>1. k # d => job'[d] = job[d]
    BY <1>0, <1>3 DEF Fail
  <2>2. k = d => Busy(d)
    BY <1>3 DEF Fail, Busy
  <2> QED
    BY <2>1, <2>2 DEF Busy
<1>4. ASSUME NEW r \in Requests, KeepEnqueue(r)
      PROVE  Busy(d)
  <2>1. door[r].file \in Files
    BY <1>4 DEF KeepEnqueue, SyncIInv, LinkInv, DoorTypeOK
  <2> QED
    BY <1>0, <1>4, <2>1 DEF KeepEnqueue, Enqueue, Busy
<1>5. CASE Doors
  BY <1>1, <1>4, <1>5 DEF Doors, DoorNext, Issue, LinkExpires, Open, Spend, Take, Redeem, KeepPut, DoorFails,
    RemoveUploaded
<1>6. ASSUME NEW k \in Keys, Work(k) \/ WorkFails(k)
      PROVE  Busy(d)
  BY <1>2, <1>3, <1>6, <1>8 DEF Work, WorkFails
<1>7. ASSUME \/ ReadShown \/ ReadHeld \/ Plan \/ PutDirect \/ PassEnds \/ PassFails
             \/ UNCHANGED syncVars
             \/ \E e \in Docs : Download(e) \/ Retire(e) \/ Edit(e) \/ Share(e)
      PROVE  UNCHANGED job
  BY <1>7, Zenon DEF ReadShown, ReadHeld, Plan, PutDirect, PassEnds, PassFails, PushFails, RetireFails,
    Download, Retire, Edit, Share, Changes, uploadVars, syncVars
<1> QED
  BY <1>1, <1>5, <1>6, <1>7 DEF SyncNext, Pass

\* While the pass stands still, what it has planned stays idle.
LEMMA PassFrame ==
  ASSUME SyncIInv, [SyncNext]_syncVars, UNCHANGED sync
  PROVE  PassInv'
<1>1. ~ EnqueueDirect
  BY DEF EnqueueDirect, Rest, SyncIInv, PassTypeOK
<1>2. \A d \in Docs : Busy(d)' => Busy(d)
  BY <1>1, BusyGrows
<1> QED
  BY <1>2 DEF SyncIInv, PassInv, PassTypeOK, PlannedIsIdle, Outstanding

\* The three reads of a pass, and its decision.
LEMMA PlanStep ==
  ASSUME SyncIInv, ReadShown \/ ReadHeld \/ Plan \/ PassEnds
  PROVE  PassInv'
<1> USE DEF SyncIInv, PassInv, PassTypeOK, PlannedIsIdle, Outstanding
<1>1. CASE ReadShown
  BY <1>1 DEF ReadShown, Shown
<1>2. CASE ReadHeld
  BY <1>2 DEF ReadHeld
<1>3. sync' = Asleep => PassInv'
  BY DEF Asleep
<1>4. ASSUME Plan, sync' = Planned
      PROVE  PassInv'
  <2>1. /\ sync'.pc = "act" /\ DOMAIN sync' = DOMAIN sync
        /\ sync'.push = {d \in sync.shown : Pushes(d)}
        /\ sync'.retire = {d \in Docs : Retires(d)}
        /\ sync'.shown = sync.shown
    BY <1>4 DEF Planned
  <2>2. UNCHANGED job
    BY <1>4 DEF Plan, uploadVars
  <2>3. \A d \in sync'.push : d \in sync.shown /\ ~ Busy(d)
    BY <2>1 DEF Pushes
  <2>4. \A d \in sync'.retire : d \in Docs /\ d \notin sync.shown /\ ~ Busy(d)
    BY <2>1 DEF Retires
  <2>5. PassTypeOK'
    BY <2>1, <2>3, <2>4
  <2>6. \A d : Busy(d)' <=> Busy(d)
    BY <2>2 DEF Busy
  <2>7. PlannedIsIdle'
    BY <2>1, <2>3, <2>4, <2>6
  <2> QED
    BY <2>5, <2>7
<1> QED
  BY <1>1, <1>2, <1>3, <1>4 DEF Plan, PassEnds

\* Carrying the plan out: what is taken from it leaves it for good.
LEMMA ActStep ==
  ASSUME SyncIInv, \/ PutDirect \/ EnqueueDirect \/ PassFails
                   \/ \E d \in Docs : Download(d) \/ Retire(d)
  PROVE  PassInv'
<1> USE UploadAssumption, DocSyncAssumption
<1> USE DEF SyncIInv, PassInv, PassTypeOK, PlannedIsIdle, Outstanding
<1>1. ASSUME NEW d \in Docs, Download(d)
      PROVE  PassInv'
  <2>1. /\ sync.pc = "act" /\ d \in sync.push /\ UNCHANGED job
        /\ sync' = [sync EXCEPT !.pc = "put", !.push = @ \ {d}, !.of = d, !.bytes = paperless[d].bytes]
    BY <1>1 DEF Download, uploadVars
  <2>2. paperless[d].bytes \in Bytes
    BY DEF PaperTypeOK, PaperRow, Bytes
  <2>3. /\ DOMAIN sync' = DOMAIN sync /\ sync'.pc = "put" /\ sync'.of = d
        /\ sync'.push = sync.push \ {d} /\ sync'.retire = sync.retire /\ sync'.shown = sync.shown
        /\ sync'.bytes = paperless[d].bytes
    BY <2>1
  <2> QED
    BY <2>1, <2>2, <2>3 DEF Busy
<1>2. CASE PutDirect
  BY <1>2 DEF PutDirect, Busy
<1>3. CASE EnqueueDirect
  <2>1. /\ sync.pc = "enqueue" /\ sync.of \in Docs /\ sync.of \notin Outstanding
        /\ \A d \in Docs \ {sync.of} : job'[d] = job[d]
    BY <1>3 DEF EnqueueDirect, Enqueue, KeyTypeOK
  <2>2. /\ DOMAIN sync' = DOMAIN sync /\ sync'.pc = "act"
        /\ sync'.push = sync.push /\ sync'.retire = sync.retire /\ sync'.shown = sync.shown
    BY <1>3 DEF EnqueueDirect, Rest
  <2> QED
    BY <2>1, <2>2 DEF Busy
<1>4. CASE PushFails
  <2>1. /\ DOMAIN sync' = DOMAIN sync /\ sync'.pc = "act" /\ UNCHANGED job
        /\ sync'.push = sync.push /\ sync'.retire = sync.retire /\ sync'.shown = sync.shown
    BY <1>4 DEF PushFails, Rest, uploadVars
  <2> QED
    BY <2>1 DEF Busy
<1>5. ASSUME NEW d \in Docs, Retire(d) \/ RetireFails(d)
      PROVE  PassInv'
  <2>1. /\ sync.pc = "act" /\ UNCHANGED job
        /\ sync' = [sync EXCEPT !.retire = @ \ {d}]
    BY <1>5 DEF Retire, RetireFails, uploadVars
  <2> QED
    BY <2>1 DEF Busy
<1> QED
  BY <1>1, <1>2, <1>3, <1>4, <1>5 DEF PassFails

\* Every step keeps the plan to documents nobody is reading.
LEMMA PassStep ==
  ASSUME SyncIInv, [SyncNext]_syncVars
  PROVE  PassInv'
<1>1. CASE ReadShown \/ ReadHeld \/ Plan \/ PassEnds
  BY <1>1, PlanStep
<1>2. CASE \/ PutDirect \/ EnqueueDirect \/ PassFails
           \/ \E d \in Docs : Download(d) \/ Retire(d)
  BY <1>2, ActStep
<1>3. ASSUME \/ Doors \/ UNCHANGED syncVars \/ \E d \in Docs : Edit(d) \/ Share(d)
             \/ \E k \in Keys : Work(k) \/ WorkFails(k)
      PROVE  UNCHANGED sync
  BY <1>3, Zenon DEF Doors, Edit, Share, Changes, Work, WorkFails, syncVars
<1> QED
  BY <1>1, <1>2, <1>3, PassFrame DEF SyncNext, Pass

-----------------------------------------------------------------------------
(* Theorems. *)

\* A library nobody has sent anything to, and a pass that has not begun.
LEMMA SyncStart ==
  ASSUME SyncInit
  PROVE  SyncIInv
<1> USE UploadAssumption, DocSyncAssumption
<1>1. LinkInv
  BY DEF SyncInit, UploadInit, Away, LinkInv, DoorTypeOK, DoorState, LinkIsSpent, LinkSpentOnce, GotThrough
<1>2. KeyTypeOK
  BY DEF SyncInit, UploadInit, NoJob, NoDocument, KeyTypeOK, JobRow, Bytes
<1>3. PaperTypeOK
  BY DEF SyncInit, PaperTypeOK, PaperRow
<1>4. PassTypeOK /\ PlannedIsIdle
  BY DEF SyncInit, Asleep, PassTypeOK, PlannedIsIdle, Outstanding
<1> QED
  BY <1>1, <1>2, <1>3, <1>4 DEF SyncIInv

\* The inductive invariant of the doors and the sync.
THEOREM SyncInvariant == SyncSpec => []SyncIInv
<1>1. SyncInit => SyncIInv
  BY SyncStart
<1>2. SyncIInv /\ [SyncNext]_syncVars => SyncIInv'
  <2> SUFFICES ASSUME SyncIInv, [SyncNext]_syncVars PROVE SyncIInv'
    OBVIOUS
  <2>1. LinkInv' /\ KeyTypeOK' /\ PaperTypeOK' /\ PassInv'
    BY LinkStep, KeyStep, PaperStep, PassStep DEF SyncIInv
  <2> QED
    BY <2>1 DEF SyncIInv, PassInv
<1> QED
  BY <1>1, <1>2, PTL DEF SyncSpec

\* The conditional UPDATE of Redeem lets one request store a file with a
\* link, however many found it open and whenever it expires.
THEOREM LinksSpentOnce == SyncSpec => []LinkSpentOnce
BY SyncInvariant, PTL DEF SyncIInv, LinkInv

\* Retirement is decided before it is carried out, while workers read and
\* other files come in; what it deletes has no job all the same.
THEOREM RetirementsWait == SyncSpec => RetirementWaits
<1> DEFINE Waits == \A d \in Docs : stored[d] # NoBytes /\ stored'[d] = NoBytes => ~ Busy(d)
<1>1. SyncIInv /\ [SyncNext]_syncVars => [Waits]_syncVars
  <2> SUFFICES ASSUME SyncIInv, SyncNext, NEW d \in Docs, stored[d] # NoBytes, stored'[d] = NoBytes
               PROVE  ~ Busy(d)
    BY Zenon DEF Waits
  <2> USE UploadAssumption, DocSyncAssumption
  <2>0. d \in Keys /\ d \notin Files /\ stored \in [Keys -> Bytes]
    BY DEF SyncIInv, KeyTypeOK
  <2>1. ASSUME NEW e \in Docs, Retire(e)
        PROVE  ~ Busy(d)
    <3>1. e \in Outstanding /\ stored' = [stored EXCEPT ![e] = NoBytes]
      BY <2>1 DEF Retire, Remove, Outstanding
    <3>2. d = e
      BY <2>0, <3>1
    <3> QED
      BY <3>1, <3>2 DEF SyncIInv, PlannedIsIdle
  <2>2. CASE PutDirect
    <3>1. sync.pc = "put" /\ stored' = [stored EXCEPT ![sync.of] = sync.bytes]
      BY <2>2 DEF PutDirect, Put
    <3>2. d = sync.of
      BY <2>0, <3>1
    <3> QED
      BY <3>1, <3>2 DEF SyncIInv, PlannedIsIdle
  <2>3. ASSUME NEW r \in Requests, KeepPut(r)
        PROVE  FALSE
    <3>1. door[r].file \in Files /\ stored' = [stored EXCEPT ![door[r].file] = door[r].file]
      BY <2>3 DEF KeepPut, Put, SyncIInv, LinkInv, DoorTypeOK
    <3> QED
      BY <2>0, <3>1
  <2>4. ASSUME NEW k \in Keys, RemoveUploaded(k)
        PROVE  FALSE
    BY <2>0, <2>4 DEF RemoveUploaded, Remove
  <2>5. ASSUME NEW k \in Keys, Work(k) \/ WorkFails(k)
        PROVE  FALSE
    BY <2>5 DEF Work, WorkFails, Acquire, Finish, Fail, FinishEarlier, FailEarlier
  <2>6. CASE Doors
    BY <2>3, <2>4, <2>6
    DEF Doors, DoorNext, Issue, LinkExpires, Open, Spend, Take, Redeem, KeepEnqueue, DoorFails
  <2>7. ASSUME \/ ReadShown \/ ReadHeld \/ Plan \/ EnqueueDirect \/ PassEnds \/ PassFails
               \/ \E e \in Docs : Download(e) \/ Edit(e) \/ Share(e)
        PROVE  UNCHANGED stored
    BY <2>7, Zenon DEF ReadShown, ReadHeld, Plan, EnqueueDirect, PassEnds, PassFails, PushFails, RetireFails,
      Download, Edit, Share, Changes, uploadVars
  <2> QED
    BY <2>1, <2>2, <2>5, <2>6, <2>7 DEF SyncNext, Pass
<1> QED
  BY <1>1, SyncInvariant, PTL DEF SyncSpec, RetirementWaits

=============================================================================
