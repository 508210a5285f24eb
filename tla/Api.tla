-------------------------------- MODULE Api --------------------------------
(***************************************************************************)
(* The Connect services: every procedure as its handler runs it, from the  *)
(* request through the repositories of module Repository to the code and   *)
(* the response.                                                           *)
(*                                                                         *)
(* A handler that needs several transactions is left between two of them   *)
(* and other calls come in between: what it carries over is its stage, the *)
(* library it resolved or the role it was told.  A handler takes the world,*)
(* the caller, the request and the stage, and is either done, with a code  *)
(* and a response, or at its next stage.                                   *)
(*                                                                         *)
(* Calls that only read leave the world alone and are no step of Next: the *)
(* properties put every request to every world instead.                    *)
(***************************************************************************)
EXTENDS Repository

CONSTANTS
  GroupCreators,  \* who may create groups: "anyone" or "administrators"
  Passwords,      \* whether accounts sign in with passwords kept here
  MaxCalls        \* bound: calls that change something

ASSUME ApiAssumption ==
  /\ GroupCreators \in {"anyone", "administrators"}
  /\ Passwords \in BOOLEAN
  /\ MaxCalls \in Nat
  /\ Names # {}

VARIABLES
  world,  \* what the database holds
  call,   \* call[u]: the call of u under way, between two transactions
  calls   \* how many calls have been made

vars == <<world, call, calls>>

\* Stages: where a handler is, and what it found out before.
Stage(at, it) == [at |-> at, it |-> it]
Start == Stage("start", "none")

Done(w, code, out) == [done |-> TRUE, w |-> w, code |-> code, out |-> out]
Refuse(w, code) == Done(w, code, "none")
Then(w, at, it) == [done |-> FALSE, w |-> w, stage |-> Stage(at, it)]

sharingCodes(err) ==
  CASE err \in {"ErrNoLibrary", "ErrNoAccount", "ErrNoInvitation", "ErrNoGroup",
               "ErrNoGroupInvitation"} -> "not_found"
    [] err = "ErrTooMany" -> "resource_exhausted"
    [] err \in {"ErrLastMaintainer", "ErrFromProvider", "ErrJoinByForce", "ErrLastAdmin"}
         -> "failed_precondition"
    [] err \in {"ErrGroupTaken", "ErrNameTaken"} -> "already_exists"
    [] err \in {"ErrGroupRole", "ErrGroupName", "ErrInvalid", "ErrLibraryName"}
         -> "invalid_argument"
    [] OTHER -> "internal"

adminCodes(err) ==
  CASE err = "ErrNotAdmin" -> "permission_denied"
    [] err \in {"ErrNoAccount", "ErrNoSuchAccount"} -> "not_found"
    [] err \in {"ErrLastAdmin", "ErrNoPasswords", "ErrSelf", "ErrStranded"}
         -> "failed_precondition"
    [] err = "ErrTaken" -> "already_exists"
    [] err = "ErrUsername" -> "invalid_argument"
    [] OTHER -> "internal"

sharingError(r) == Refuse(r.w, sharingCodes(r.err))
adminError(r) == Refuse(r.w, adminCodes(r.err))

\* A repository's result as the handler's: refused, or answered with out.
Shared(r, out) == IF r.err = "none" THEN Done(r.w, "ok", out) ELSE sharingError(r)
Administered(r, out) == IF r.err = "none" THEN Done(r.w, "ok", out) ELSE adminError(r)

\* The same, answered with what the repository returned, under a field.
Under(field, value) == [f \in {field} |-> value]
SharedAs(r, field) == Shared(r, Under(field, r.out))
AdministeredAs(r, field) == Administered(r, Under(field, r.out))

-----------------------------------------------------------------------------
(* LibraryService *)

LibraryList(w, u) ==
  Shared(LibrariesList(w, u), [libraries |-> LibrariesList(w, u).out,
                               username |-> LibrariesUsername(w, u).out])

LibraryCreate(w, u, q) ==
  IF q.slug = "" \/ q.name = "" THEN Refuse(w, "invalid_argument")
  ELSE SharedAs(LibrariesCreate(w, u, q.slug, q.name), "library")

LibraryMembers(w, u) == SharedAs(LibrariesMembers(w, u), "members")

LibraryGrant(w, u, q) ==
  SharedAs(LibrariesGrant(w, u, q.username, q.role), "invited")

LibraryRevoke(w, u, q) == Shared(LibrariesRevoke(w, u, q.username), "empty")

LibraryEvents(w, u) == Shared(LibrariesEvents(w, u), "empty")

LibraryInvitations(w, u) ==
  SharedAs(LibrariesInvitations(w, u), "invitations")

\* The invitation is accepted; the library is then read again, and failing
\* that named by its slug and the role the invitation offered.
LibraryAccept(w, u, s) ==
  LET accepted(r) == IF r.err = "none" THEN Then(r.w, "find", r.out) ELSE sharingError(r)
      named(r) == IF r.err = "none" THEN r.out
                  ELSE [library |-> "atlas", name |-> "", role |-> s.it]
  IN  IF s.at = "start" THEN accepted(LibrariesAccept(w, u))
      ELSE Done(w, "ok", [library |-> named(find(w, u))])

LibraryDecline(w, u) == Shared(LibrariesDecline(w, u), "empty")

\* Renamed or restored, and read again: a library gone by then is refused.
Reread(w, u, s, r) ==
  IF s.at = "start"
  THEN IF r.err = "none" THEN Then(r.w, "find", "none") ELSE sharingError(r)
  ELSE SharedAs(find(w, u), "library")

LibraryRename(w, u, q, s) == Reread(w, u, s, LibrariesRename(w, u, q.name))
LibraryRestore(w, u, s) == Reread(w, u, s, LibrariesRestore(w, u))

LibraryDelete(w, u) == Shared(LibrariesDelete(w, u), "empty")

LibraryDeleted(w, u) == SharedAs(LibrariesDeleted(w, u), "libraries")

LibraryGrantGroup(w, u, q) == Shared(GroupsGrantLibrary(w, u, q.role), "empty")
LibraryRevokeGroup(w, u) == Shared(GroupsRevokeLibrary(w, u), "empty")
LibraryGroups(w, u) == SharedAs(GroupsOnLibrary(w, u), "groups")

LibraryService(w, u, q, s) ==
  CASE q.rpc = "library.List" -> LibraryList(w, u)
    [] q.rpc = "library.Create" -> LibraryCreate(w, u, q)
    [] q.rpc = "library.Members" -> LibraryMembers(w, u)
    [] q.rpc = "library.Grant" -> LibraryGrant(w, u, q)
    [] q.rpc = "library.Revoke" -> LibraryRevoke(w, u, q)
    [] q.rpc = "library.Events" -> LibraryEvents(w, u)
    [] q.rpc = "library.Invitations" -> LibraryInvitations(w, u)
    [] q.rpc = "library.Accept" -> LibraryAccept(w, u, s)
    [] q.rpc = "library.Decline" -> LibraryDecline(w, u)
    [] q.rpc = "library.Rename" -> LibraryRename(w, u, q, s)
    [] q.rpc = "library.Delete" -> LibraryDelete(w, u)
    [] q.rpc = "library.Restore" -> LibraryRestore(w, u, s)
    [] q.rpc = "library.Deleted" -> LibraryDeleted(w, u)
    [] q.rpc = "library.GrantGroup" -> LibraryGrantGroup(w, u, q)
    [] q.rpc = "library.RevokeGroup" -> LibraryRevokeGroup(w, u)
    [] q.rpc = "library.Groups" -> LibraryGroups(w, u)

-----------------------------------------------------------------------------
(* GroupService *)

mayCreate(w, u) == GroupCreators # "administrators" \/ AdminsMe(w, u).out.admin

GroupList(w, u) ==
  Shared(GroupsAll(w, u), [groups |-> GroupsAll(w, u).out, can_create |-> mayCreate(w, u)])

\* Asked whether the caller may, and created in another transaction.
GroupCreate(w, u, q, s) ==
  IF s.at = "may"
  THEN SharedAs(GroupsCreate(w, u, q.group, q.name), "group")
  ELSE IF q.group = "" \/ q.name = "" THEN Refuse(w, "invalid_argument")
  ELSE IF mayCreate(w, u) THEN Then(w, "may", "none") ELSE Refuse(w, "permission_denied")

GroupRename(w, u, q) == Shared(GroupsRename(w, u, q.name), "empty")
GroupDelete(w, u) == Shared(GroupsDelete(w, u), "empty")

GroupInvite(w, u, q) ==
  IF q.force
  THEN Shared(GroupsForce(w, u, q.username, q.role), [invited |-> FALSE])
  ELSE SharedAs(GroupsInvite(w, u, q.username, q.role), "invited")

GroupAccept(w, u) == SharedAs(GroupsAccept(w, u), "role")
GroupDecline(w, u) == Shared(GroupsDecline(w, u), "empty")
GroupRemove(w, u, q) == Shared(GroupsRemove(w, u, q.username), "empty")
GroupInvitations(w, u) ==
  SharedAs(GroupsInvitations(w, u), "invitations")
GroupMembers(w, u) == SharedAs(GroupsMembers(w, u), "members")
GroupLibraries(w, u) == SharedAs(GroupsLibraries(w, u), "libraries")
GroupEvents(w, u) == Shared(GroupsEvents(w, u), "empty")

GroupService(w, u, q, s) ==
  CASE q.rpc = "group.List" -> GroupList(w, u)
    [] q.rpc = "group.Create" -> GroupCreate(w, u, q, s)
    [] q.rpc = "group.Rename" -> GroupRename(w, u, q)
    [] q.rpc = "group.Delete" -> GroupDelete(w, u)
    [] q.rpc = "group.Invite" -> GroupInvite(w, u, q)
    [] q.rpc = "group.Accept" -> GroupAccept(w, u)
    [] q.rpc = "group.Decline" -> GroupDecline(w, u)
    [] q.rpc = "group.Remove" -> GroupRemove(w, u, q)
    [] q.rpc = "group.Invitations" -> GroupInvitations(w, u)
    [] q.rpc = "group.Members" -> GroupMembers(w, u)
    [] q.rpc = "group.Libraries" -> GroupLibraries(w, u)
    [] q.rpc = "group.Events" -> GroupEvents(w, u)

-----------------------------------------------------------------------------
(* DocumentService, JobService and IngestService: the library a request means
   is settled first, in a transaction of its own. *)

readableOf(w, u) == readable_libraries(w, u)
CanAdd(w, u, p) == p # "atlas" \/ user_library_roles(w, u) \in {"editor", "admin"}

\* The place a label names, or "unknown".
labelled(w, u, label) ==
  IF label = "" THEN u
  ELSE IF \E lib \in readableOf(w, u) : lib.library = label THEN label ELSE "unknown"

\* The place a doc_id is in; one in a library the caller does not read is
\* looked for in their own as it was sent, where nothing has such a name.
holding(w, u, docID) ==
  IF docID = "doc" THEN u
  ELSE IF \E lib \in readableOf(w, u) : lib.library = "atlas" THEN "atlas" ELSE "nowhere"

documentError(r) ==
  Refuse(r.w, IF r.err = "ErrNotFound" THEN "not_found" ELSE "internal")
Documented(r, out) == IF r.err = "none" THEN Done(r.w, "ok", out) ELSE documentError(r)
DocumentedAs(r, field) == Documented(r, Under(field, r.out))

\* To the library a request names, and to where a doc_id is.
InLibrary(w, u, label) ==
  IF labelled(w, u, label) = "unknown" THEN Refuse(w, "not_found")
  ELSE Then(w, "shelf", labelled(w, u, label))
At(w, u, docID) ==
  IF docID = "" THEN Refuse(w, "invalid_argument")
  ELSE Then(w, "shelf", holding(w, u, docID))
editable(w, u, t) ==
  IF t.done \/ CanAdd(w, u, t.stage.it) THEN t ELSE Refuse(w, "permission_denied")

DocumentList(w, u, q, s) ==
  IF s.at = "start" THEN InLibrary(w, u, q.library)
  ELSE DocumentedAs(DocumentsList(w, u, s.it), "documents")

DocumentVerify(w, u, q, s) ==
  IF s.at = "start" THEN At(w, u, q.doc_id)
  ELSE DocumentedAs(DocumentsGet(w, u, s.it), "document")

DocumentInspect(w, u, q) ==
  IF q.target \in {"", "outside"} THEN Refuse(w, "invalid_argument") ELSE Done(w, "ok", "empty")

\* Settled, found, and then deleted.
DocumentRemove(w, u, q, s) ==
  CASE s.at = "start" -> editable(w, u, At(w, u, q.doc_id))
    [] s.at = "shelf" -> LET r == DocumentsGet(w, u, s.it)
                         IN  IF r.err = "none" THEN Then(w, "found", s.it)
                             ELSE documentError(r)
    [] s.at = "found" -> Documented(DocumentsDelete(w, u, s.it), "empty")

DocumentRename(w, u, q, s) ==
  IF s.at = "shelf" THEN Documented(DocumentsRename(w, u, s.it, q.title), "empty")
  ELSE IF q.title \in {"", "long"} THEN Refuse(w, "invalid_argument")
  ELSE editable(w, u, At(w, u, q.doc_id))

\* A run of chunks from an ordinal or a chunk; chunk n is the one at ordinal n.
ReadLimit == 200
DefaultReadLimit == 40
ReadRun(q) ==
  LET limit == IF q.limit <= 0 \/ q.limit > ReadLimit THEN DefaultReadLimit ELSE q.limit
      asked == IF q.at_chunk_id # -1 THEN q.at_chunk_id ELSE q.from_ordinal
      from == IF asked < 0 THEN 0 ELSE asked
  IN  [chunks |-> {c \in ReadChunk : from <= c /\ c <= from + limit - 1},
       from_ordinal |-> from]
DocumentRead(w, u, q, s) ==
  IF s.at = "start" THEN At(w, u, q.doc_id)
  ELSE IF q.at_chunk_id \notin ReadChunk \cup {-1} THEN Refuse(w, "not_found")
  ELSE Documented(DocumentsGet(w, u, s.it), ReadRun(q))

DocumentService(w, u, q, s) ==
  CASE q.rpc = "document.List" -> DocumentList(w, u, q, s)
    [] q.rpc = "document.Verify" -> DocumentVerify(w, u, q, s)
    [] q.rpc = "document.Inspect" -> DocumentInspect(w, u, q)
    [] q.rpc = "document.Remove" -> DocumentRemove(w, u, q, s)
    [] q.rpc = "document.Rename" -> DocumentRename(w, u, q, s)
    [] q.rpc = "document.Read" -> DocumentRead(w, u, q, s)

\* What a target names, before anything is queued: a file is queued whatever
\* it holds, and the error of a directory that holds none has no name.
Targets(source) ==
  CASE source = "outside" -> "ErrOutsideRoot"
    [] source = "empty_dir" -> "unnamed"
    [] OTHER -> "none"
jobError(err) == IF err = "ErrOutsideRoot" THEN "invalid_argument" ELSE "internal"

JobEnqueue(w, u, q, s) ==
  IF s.at = "start"
  THEN IF q.source = "" THEN Refuse(w, "invalid_argument")
       ELSE editable(w, u, InLibrary(w, u, q.library))
  ELSE IF Targets(q.source) # "none" THEN Refuse(w, jobError(Targets(q.source)))
  ELSE DocumentedAs(QueueAdd(w, u, s.it, q.source), "jobs")

ListJobs(w, u, q, s) ==
  IF s.at = "start" THEN InLibrary(w, u, q.library)
  ELSE DocumentedAs(QueueList(w, u, s.it, q.include_completed), "jobs")

CancelJob(w, u, q, s) ==
  CASE s.at = "start" -> IF q.job_id = 0 THEN Refuse(w, "invalid_argument")
                         ELSE editable(w, u, InLibrary(w, u, q.library))
    [] s.at = "shelf" -> LET r == JobStatus(w, u, s.it)
                         IN  IF r.err = "none" /\ r.out = "queued" THEN Then(w, "queued", s.it)
                             ELSE Documented(r, [status |-> r.out])
    [] s.at = "queued" -> DocumentedAs(RequestJobCancel(w, u, s.it), "status")

JobService(w, u, q, s) ==
  CASE q.rpc = "job.Enqueue" -> JobEnqueue(w, u, q, s)
    [] q.rpc = "job.ListJobs" -> ListJobs(w, u, q, s)
    [] q.rpc = "job.CancelJob" -> CancelJob(w, u, q, s)

checkSource(source) ==
  CASE source = "" -> "invalid_argument"
    [] source = "upload" -> "failed_precondition"
    [] OTHER -> "ok"

\* What finding the file comes to.  That it lies outside the roots, or is a
\* directory, has no name here.
Acquire(source) ==
  CASE source = "bare" -> "ErrUnsupportedFormat"
    [] source \in {"outside", "empty_dir"} -> "unnamed"
    [] OTHER -> "none"
asConnectError(err) == IF err = "ErrUnsupportedFormat" THEN "invalid_argument" ELSE "internal"

\* Read into the caller's own library while they wait; module Ingest has the
\* steps.  The file read here always gives the same title.
FileTitle == CHOOSE n \in Names : TRUE
resultMessage(w, u) ==
  [doc_id |-> "doc",
   outcome |-> IF w.docs[u] = "none" THEN "ingested" ELSE "unchanged"]
IngestIngest(w, u, q) ==
  IF checkSource(q.source) # "ok" THEN Refuse(w, checkSource(q.source))
  ELSE IF Acquire(q.source) # "none" THEN Refuse(w, asConnectError(Acquire(q.source)))
  ELSE Done([w EXCEPT !.docs[u] = IF @ = "none" THEN FileTitle ELSE @], "ok",
            resultMessage(w, u))

IngestService(w, u, q, s) == IngestIngest(w, u, q)

-----------------------------------------------------------------------------
(* AccountService and the admin service behind it: who asks is checked, the
   change is made, and the change is recorded, each in its own transaction. *)

admin(w, u) == IF AdminsMe(w, u).out.admin THEN Then(w, "admin", "none")
               ELSE Refuse(w, adminCodes("ErrNotAdmin"))
passwordAdmin(w, u) ==
  IF admin(w, u).done \/ Passwords THEN admin(w, u)
  ELSE Refuse(w, adminCodes("ErrNoPasswords"))

\* The change r, made by an administrator who is asked again for the record.
Recorded(w, u, s, checked, r, out) ==
  CASE s.at = "start" -> checked
    [] s.at = "admin" -> IF r.err = "none" THEN Then(r.w, "record", "none") ELSE adminError(r)
    [] s.at = "record" -> Administered(AdminsRecord(w, u), out)

AccountMe(w, u) == Administered(AdminsMe(w, u), AdminsMe(w, u).out)

AccountList(w, u, s) ==
  IF s.at = "start" THEN admin(w, u)
  ELSE AdministeredAs(AdminsList(w, u), "accounts")

AccountAdd(w, u, q, s) ==
  Recorded(w, u, s, passwordAdmin(w, u), PasswordsAdd(w, u, q.username),
           [password |-> "generated"])
AccountReset(w, u, q, s) ==
  Recorded(w, u, s, passwordAdmin(w, u), PasswordsReset(w, u, q.username),
           [password |-> "generated"])
AccountUnlock(w, u, q, s) ==
  Recorded(w, u, s, passwordAdmin(w, u), PasswordsUnlock(w, u, q.username), "empty")
AccountRemove(w, u, q, s) ==
  Recorded(w, u, s,
    IF passwordAdmin(w, u).done \/ q.username # u THEN passwordAdmin(w, u)
    ELSE Refuse(w, adminCodes("ErrSelf")),
    PasswordsRemove(w, u, q.username), "empty")

AccountSetAdmin(w, u, q, s) ==
  IF s.at = "start" THEN admin(w, u)
  ELSE Administered(AdminsSetAdmin(w, u, q.username, q.admin), "empty")

administering(w, u) == admin(w, u)
AccountSignIn(w, u, s) ==
  IF s.at = "start" THEN administering(w, u)
  ELSE AdministeredAs(SettingsStored(w, u), "stored")

settingsError(err) ==
  CASE err \in {"ErrLocked", "ErrNotEditable"} -> "failed_precondition"
    [] err = "ErrInvalid" -> "invalid_argument"
    [] err = "ErrNotAdmin" -> "permission_denied"
    [] OTHER -> "internal"

\* Checked, and then kept, or written into the file the answer carries.
checkChange(change) ==
  CASE change = "locked" -> "ErrLocked"
    [] change = "not_editable" -> "ErrNotEditable"
    [] change = "invalid" -> "ErrInvalid"
    [] OTHER -> "none"
SettingsUpdate(w, u, change) ==
  IF checkChange(change) # "none" THEN Result_(checkChange(change), w, "none")
  ELSE IF change = "in_file" THEN Result_("none", w, "none")
  ELSE SettingsSet(w, u, change)
AccountUpdateSignIn(w, u, q, s) ==
  LET r == SettingsUpdate(w, u, q.change)
  IN  IF s.at = "start" THEN administering(w, u)
      ELSE IF r.err # "none" THEN Refuse(r.w, settingsError(r.err))
      ELSE Done(r.w, "ok", [file |-> q.change = "in_file", saved |-> q.change # "in_file"])

AccountService(w, u, q, s) ==
  CASE q.rpc = "account.Me" -> AccountMe(w, u)
    [] q.rpc = "account.List" -> AccountList(w, u, s)
    [] q.rpc = "account.Add" -> AccountAdd(w, u, q, s)
    [] q.rpc = "account.Reset" -> AccountReset(w, u, q, s)
    [] q.rpc = "account.Unlock" -> AccountUnlock(w, u, q, s)
    [] q.rpc = "account.Remove" -> AccountRemove(w, u, q, s)
    [] q.rpc = "account.SetAdmin" -> AccountSetAdmin(w, u, q, s)
    [] q.rpc = "account.SignIn" -> AccountSignIn(w, u, s)
    [] q.rpc = "account.UpdateSignIn" -> AccountUpdateSignIn(w, u, q, s)

-----------------------------------------------------------------------------
(* Calls. *)

LibraryRequests ==
  UNION {ListRequest, CreateRequest, MembersRequest, GrantRequest, RevokeRequest,
         EventsRequest, InvitationsRequest, AcceptRequest, DeclineRequest, RenameRequest,
         DeleteRequest, RestoreRequest, DeletedRequest, GrantGroupRequest,
         RevokeGroupRequest, GroupsRequest}
GroupRequests ==
  UNION {ListGroupsRequest, CreateGroupRequest, RenameGroupRequest, DeleteGroupRequest,
         InviteRequest, AcceptGroupRequest, DeclineGroupRequest, RemoveMemberRequest,
         GroupInvitationsRequest, GroupMembersRequest, LibrariesRequest, GroupEventsRequest}
DocumentRequests ==
  UNION {ListDocumentsRequest, VerifyRequest, InspectRequest, RemoveDocumentRequest,
         RenameDocumentRequest, ReadRequest}
JobRequests == UNION {EnqueueRequest, ListJobsRequest, CancelJobRequest}
IngestRequests == IngestRequest
AccountRequests ==
  UNION {MeRequest, ListAccountsRequest, AddRequest, ResetRequest, UnlockRequest,
         RemoveAccountRequest, SetAdminRequest, SignInRequest, UpdateSignInRequest}

\* The stage after a stage, for each service.
Services ==
  {<<LibraryRequests, "library">>, <<GroupRequests, "group">>,
   <<DocumentRequests, "document">>, <<JobRequests, "job">>,
   <<IngestRequests, "ingest">>, <<AccountRequests, "account">>}
Serve(service, w, u, q, s) ==
  CASE service = "library" -> LibraryService(w, u, q, s)
    [] service = "group" -> GroupService(w, u, q, s)
    [] service = "document" -> DocumentService(w, u, q, s)
    [] service = "job" -> JobService(w, u, q, s)
    [] service = "ingest" -> IngestService(w, u, q, s)
    [] service = "account" -> AccountService(w, u, q, s)

\* The procedures that only read.
Reads ==
  {"library.List", "library.Members", "library.Events", "library.Invitations",
   "library.Deleted", "library.Groups", "group.List", "group.Invitations",
   "group.Members", "group.Libraries", "group.Events", "document.List",
   "document.Verify", "document.Inspect", "document.Read", "job.ListJobs",
   "account.Me", "account.List", "account.SignIn"}

\* A call run to its end with nothing in between; none has more than three
\* stages.
Onward(service, u, q, r) == IF r.done THEN r ELSE Serve(service, r.w, u, q, r.stage)
Answer(service, w, u, q) ==
  Onward(service, u, q, Onward(service, u, q, Serve(service, w, u, q, Start)))

Idle == [service |-> "none"]

Init ==
  /\ call = [u \in Users |-> Idle]
  /\ calls = 0

\* What a handler did for u, who asked q of a service.
Took(u, service, q, r) ==
  /\ world' = r.w
  /\ call' = [call EXCEPT ![u] = IF r.done THEN Idle
                                 ELSE [service |-> service, req |-> q, stage |-> r.stage]]

\* An account may call a procedure that changes something, and it did.
Calls(u, q) ==
  /\ calls < MaxCalls
  /\ call[u] = Idle
  /\ q.rpc \notin Reads
Changed == <<world, call>>' # <<world, call>> /\ calls' = calls + 1

CallLibrary == \E u \in world.accounts, q \in LibraryRequests :
  Calls(u, q) /\ Took(u, "library", q, LibraryService(world, u, q, Start)) /\ Changed
CallGroup == \E u \in world.accounts, q \in GroupRequests :
  Calls(u, q) /\ Took(u, "group", q, GroupService(world, u, q, Start)) /\ Changed
CallDocument == \E u \in world.accounts, q \in DocumentRequests :
  Calls(u, q) /\ Took(u, "document", q, DocumentService(world, u, q, Start)) /\ Changed
CallJob == \E u \in world.accounts, q \in JobRequests :
  Calls(u, q) /\ Took(u, "job", q, JobService(world, u, q, Start)) /\ Changed
CallIngest == \E u \in world.accounts, q \in IngestRequests :
  Calls(u, q) /\ Took(u, "ingest", q, IngestService(world, u, q, Start)) /\ Changed
CallAccount == \E u \in world.accounts, q \in AccountRequests :
  Calls(u, q) /\ Took(u, "account", q, AccountService(world, u, q, Start)) /\ Changed

\* A call under way goes on; an account removed meanwhile still has it.
Continue(u) ==
  /\ call[u] # Idle
  /\ Took(u, call[u].service, call[u].req,
          Serve(call[u].service, world, u, call[u].req, call[u].stage))
  /\ UNCHANGED calls

\* The worker ends a queued job, for who asked for it, with a document or not.
Work(p) ==
  /\ world.jobs[p] = "queued"
  /\ \/ world' = [world EXCEPT !.jobs[p] = "done",
                               !.docs[p] = IF @ = "none" THEN FileTitle ELSE @]
     \/ world' = [world EXCEPT !.jobs[p] = "failed"]
  /\ UNCHANGED <<call, calls>>

Next ==
  \/ CallLibrary \/ CallGroup \/ CallDocument \/ CallJob \/ CallIngest \/ CallAccount
  \/ \E u \in Users : Continue(u)
  \/ \E p \in Places : Work(p)

\* From any world the tables can hold.
Spec == Init /\ world \in World /\ [][Next]_vars

-----------------------------------------------------------------------------
(* Properties. *)

Quiet == \A u \in Users : call[u] = Idle

\* Whom nothing lets know of atlas: they do not read it, hold no invitation to
\* it, may not restore it, and maintain no group it is granted to.
KnowsNot(w, u) ==
  /\ u \notin w.administrators
  /\ ~ Holds(w, u, "reader")
  /\ my_invitations(w, u) = {}
  /\ ~ (w.library = "deleted" /\ w.grants[u] = "admin")
  /\ ~ (w.groupRole # "none" /\ w.members[u] = "maintainer")

\* The same world, had atlas never been created.
Without(w) ==
  [w EXCEPT !.library = "none", !.groupRole = "none", !.docs["atlas"] = "none",
            !.jobs["atlas"] = "none", !.grants = [v \in Users |-> "none"],
            !.offers = [v \in Users |-> "none"]]

\* Nobody learns of a library they have no part in: whatever such an account
\* asks of any service but to create a library of that name, it is answered
\* word for word as if the library had never been there (shelf.go, holding:
\* "it answers exactly as a document that does not exist"; pgstore.Resolve:
\* "a probe cannot tell a library someone else holds from one that was never
\* there").
HiddenLooksAbsent ==
  LET same(here, gone) == here.code = gone.code /\ (here.code = "ok" => here.out = gone.out)
      without == Without(world)
  IN  Quiet => \A u \in world.accounts : KnowsNot(world, u) =>
        \A svc \in Services : \A q \in svc[1] : q.rpc # "library.Create" =>
          same(Answer(svc[2], world, u, q), Answer(svc[2], without, u, q))

\* The questions below, each put to its service.
On(rpc) == [rpc |-> rpc, library |-> "atlas"]
Queueing == [rpc |-> "job.Enqueue", source |-> "manual", library |-> "atlas"]
Team == [rpc |-> "group.Libraries", group |-> "crew"]
Joining == [rpc |-> "group.Accept", group |-> "crew"]
Questions ==
  {<<"library", [rpc |-> rpc]>> : rpc \in {"library.List", "library.Invitations", "library.Deleted"}}
  \cup {<<"library", On(rpc)>> :
          rpc \in {"library.Members", "library.Groups", "library.Events", "library.Delete",
                   "library.Accept", "library.Decline", "library.Restore"}}
  \cup {<<"group", [rpc |-> "group.Invitations"]>>, <<"group", Team>>, <<"group", Joining>>,
        <<"document", On("document.List")>>, <<"job", Queueing>>}

\* What the answers say to each other; said has the answer to each question.
Agree(u, said) ==
  LET listed == {lib \in said[<<"library", [rpc |-> "library.List"]>>].out.libraries :
                   lib.library = "atlas"}
      shown(roles) == \E lib \in listed : lib.role \in roles
      invited == said[<<"library", [rpc |-> "library.Invitations"]>>].out.invitations # {}
      deleted == said[<<"library", [rpc |-> "library.Deleted"]>>].out.libraries # {}
      asked == said[<<"group", [rpc |-> "group.Invitations"]>>].out.invitations # {}
      restored == said[<<"library", On("library.Restore")>>]
      team == said[<<"group", Team>>]
      granted(svc, q) == said[<<svc, q>>].code = "ok"
  IN  /\ \A rpc \in {"library.Members", "library.Groups"} :
           granted("library", On(rpc)) <=> listed # {}
      /\ granted("document", On("document.List")) <=> listed # {}
      /\ \A rpc \in {"library.Events", "library.Delete"} :
           granted("library", On(rpc)) <=> shown({"admin"})
      /\ granted("job", Queueing) <=> shown({"editor", "admin"})
      /\ \A rpc \in {"library.Accept", "library.Decline"} :
           granted("library", On(rpc)) <=> invited
      /\ restored.code = "ok" <=> deleted
      /\ deleted => readable_libraries(restored.w, u) # readable_libraries(world, u)
      /\ granted("group", Joining) <=> asked
      /\ (team.code = "ok" /\ team.out.libraries # {} /\ world.members[u] # "none")
           => listed # {}

\* What is listed is what can be used, and the other way around: the lists and
\* the calls that act on an entry decide by functions of their own, and agree
\* for every account (List with Members, Groups and the documents; the role it
\* shows with Events, Delete and Enqueue; Invitations with Accept and Decline;
\* Deleted with Restore, after which the library is listed again; a group's
\* libraries with what its members then read).
ListedIsReachable ==
  Quiet => \A u \in world.accounts :
    Agree(u, [x \in Questions |-> Answer(x[1], world, u, x[2])])

\* What each procedure may answer with.
Proper(rpc, out) ==
  CASE rpc = "library.List" -> out \in ListResponse
    [] rpc = "library.Create" -> out \in CreateResponse
    [] rpc = "library.Grant" -> out \in GrantResponse
    [] rpc = "library.Accept" -> out \in AcceptResponse
    [] rpc = "library.Rename" -> out \in RenameResponse
    [] rpc = "library.Restore" -> out \in RestoreResponse
    [] rpc = "group.Invite" -> out \in InviteResponse
    [] rpc = "group.Accept" -> out \in AcceptGroupResponse
    [] rpc = "group.Create" -> out \in CreateGroupResponse
    [] rpc = "document.Verify" -> out \in VerifyResponse
    [] rpc = "document.Read" -> out \in ReadResponse
    [] rpc = "job.CancelJob" -> out \in CancelJobResponse
    [] rpc = "ingest.Ingest" -> out \in IngestResponse
    [] rpc = "account.Me" -> out \in MeResponse
    [] rpc = "account.SignIn" -> out \in SignInResponse
    [] OTHER -> TRUE

\* The requests whose error no table names: a file to read at once that lies
\* outside the roots or is a directory (connectapi.go, asConnectError), and a
\* directory with nothing to read, queued by one who may (source.go, Targets).
Unnamed(q) ==
  \/ q.rpc = "ingest.Ingest" /\ q.source \in {"outside", "empty_dir"}
  \/ q.rpc = "job.Enqueue" /\ q.source = "empty_dir"
Unread(w, u, q) ==
  /\ Unnamed(q)
  /\ q.rpc = "job.Enqueue" => /\ labelled(w, u, q.library) # "unknown"
                              /\ CanAdd(w, u, labelled(w, u, q.library))

\* A call that runs alone is answered as the server's fault for exactly those
\* requests: every SQLSTATE the database functions can raise for some request
\* in some world has a name in the repository's table and a code in the
\* handler's; and an answer that carries a message carries the procedure's.
AnswersAreNamed ==
  LET named(u, q, a) == /\ a.code = "internal" <=> Unread(world, u, q)
                        /\ a.code = "ok" => Proper(q.rpc, a.out)
  IN  Quiet => \A u \in world.accounts, svc \in Services : \A q \in svc[1] :
        named(u, q, Answer(svc[2], world, u, q))

\* Documents and jobs of the shared library change only by an account that
\* edits it at that moment, whatever it was allowed when its call began
\* (editable() is asked once, the row policies again by every statement), by
\* the worker, or with the deletion of the library.
ChangesNeedTheRole ==
  [][<<world'.docs["atlas"], world'.jobs["atlas"]>>
       # <<world.docs["atlas"], world.jobs["atlas"]>>
     => \/ world.jobs["atlas"] = "queued" /\ world'.jobs["atlas"] \in {"done", "failed"}
        \/ world'.library = "deleted" /\ world.library = "live"
        \/ \E u \in Users : call[u] # Idle /\ call'[u] = Idle /\ Holds(world, u, "editor")]_vars

\* document.Remove: "Remove deletes a document from the index."  A removal
\* answered as done leaves no document behind.  The code does not keep it, and
\* no run claims it: the role or the library may go between the look and the
\* deletion, which then matches no row and is answered as done.
RemovalIsDone ==
  [][\A u \in Users :
       call[u] # Idle /\ call'[u] = Idle
         => (call[u].stage.at = "found" => world'.docs[call[u].stage.it] = "none")]_vars

=============================================================================
