------------------------------ MODULE Messages ------------------------------
(***************************************************************************)
(* The messages of the Connect services: for every procedure the requests  *)
(* it is called with and the responses it may give.  A request carries the *)
(* procedure it is for in its field rpc.  Timestamps, counts and the names *)
(* of those who invited or deleted are left out, a message with no field   *)
(* left is Empty, and a repeated field is a set.                           *)
(***************************************************************************)
EXTENDS Integers

CONSTANTS
  Users,  \* the usernames requests name, with an account or without
  Names   \* what people call a library, a group or a document

\* What else a field may hold: one shared library and one group are named, a
\* role may be a word that is no role, a doc_id is bare or qualified, and
\* "" is the field left empty.  A source is a file an adapter reads, one none
\* reads, a directory with no file one reads, an upload, or a path that lies
\* outside the roots or is not there.
Slugs == {"atlas"}
Labels == {"", "atlas"}
GroupSlugs == {"crew"}
AnyName == Names \cup {"", "unprintable"}
AnyTitle == Names \cup {"", "long"}
Roles == {"reader", "editor", "admin"}
MemberRoles == {"member", "maintainer"}
DocIDs == {"", "doc", "atlas/doc"}
Sources == {"", "manual", "bare", "empty_dir", "upload", "outside"}
Empty == {"empty"}

-----------------------------------------------------------------------------
(* LibraryService *)
Library == [library : {"personal", "atlas"}, name : Names \cup {""}, role : Roles]
Member == [username : Users, role : Roles, invited : BOOLEAN]
Invitation == [library : Slugs, name : Names, role : Roles]
DeletedLibrary == [library : Slugs, name : Names]
GroupGrant == [group : GroupSlugs, name : Names, role : {"reader", "editor"}]

ListRequest == [rpc : {"library.List"}]
ListResponse == [libraries : SUBSET Library, username : Users]
CreateRequest == [rpc : {"library.Create"}, slug : {"", "atlas", "a/b"}, name : AnyName]
CreateResponse == [library : Library]
MembersRequest == [rpc : {"library.Members"}, library : Slugs]
MembersResponse == [members : SUBSET Member]
GrantRequest == [rpc : {"library.Grant"}, library : Slugs, username : Users,
                 role : Roles \cup {"owner"}]
GrantResponse == [invited : BOOLEAN]
RevokeRequest == [rpc : {"library.Revoke"}, library : Slugs, username : Users]
RevokeResponse == Empty
EventsRequest == [rpc : {"library.Events"}, library : Slugs]
EventsResponse == Empty
InvitationsRequest == [rpc : {"library.Invitations"}]
InvitationsResponse == [invitations : SUBSET Invitation]
AcceptRequest == [rpc : {"library.Accept"}, library : Slugs]
AcceptResponse == [library : Library]
DeclineRequest == [rpc : {"library.Decline"}, library : Slugs]
DeclineResponse == Empty
RenameRequest == [rpc : {"library.Rename"}, library : Slugs, name : AnyName]
RenameResponse == [library : Library]
DeleteRequest == [rpc : {"library.Delete"}, library : Slugs]
DeleteResponse == Empty
RestoreRequest == [rpc : {"library.Restore"}, library : Slugs]
RestoreResponse == [library : Library]
GrantGroupRequest == [rpc : {"library.GrantGroup"}, library : Slugs, group : GroupSlugs,
                      role : Roles]
GrantGroupResponse == Empty
RevokeGroupRequest == [rpc : {"library.RevokeGroup"}, library : Slugs, group : GroupSlugs]
RevokeGroupResponse == Empty
GroupsRequest == [rpc : {"library.Groups"}, library : Slugs]
GroupsResponse == [groups : SUBSET GroupGrant]
DeletedRequest == [rpc : {"library.Deleted"}]
DeletedResponse == [libraries : SUBSET DeletedLibrary]

-----------------------------------------------------------------------------
(* GroupService *)
Group == [group : GroupSlugs, name : Names, role : MemberRoles \cup {""}]
GroupMember == [username : Users, role : MemberRoles, from_provider : BOOLEAN,
                invited : BOOLEAN]
GroupInvitation == [group : GroupSlugs, name : Names, role : MemberRoles]
GroupLibrary == [library : Slugs, name : Names, role : {"reader", "editor"}]

ListGroupsRequest == [rpc : {"group.List"}]
ListGroupsResponse == [groups : SUBSET Group, can_create : BOOLEAN]
CreateGroupRequest == [rpc : {"group.Create"}, group : {"", "crew"}, name : AnyName]
CreateGroupResponse == [group : Group]
RenameGroupRequest == [rpc : {"group.Rename"}, group : GroupSlugs, name : AnyName]
RenameGroupResponse == Empty
DeleteGroupRequest == [rpc : {"group.Delete"}, group : GroupSlugs]
DeleteGroupResponse == Empty
InviteRequest == [rpc : {"group.Invite"}, group : GroupSlugs, username : Users,
                  role : MemberRoles \cup {"owner"}, force : BOOLEAN]
InviteResponse == [invited : BOOLEAN]
AcceptGroupRequest == [rpc : {"group.Accept"}, group : GroupSlugs]
AcceptGroupResponse == [role : MemberRoles]
DeclineGroupRequest == [rpc : {"group.Decline"}, group : GroupSlugs]
DeclineGroupResponse == Empty
RemoveMemberRequest == [rpc : {"group.Remove"}, group : GroupSlugs, username : Users]
RemoveMemberResponse == Empty
GroupInvitationsRequest == [rpc : {"group.Invitations"}]
GroupInvitationsResponse == [invitations : SUBSET GroupInvitation]
GroupMembersRequest == [rpc : {"group.Members"}, group : GroupSlugs]
GroupMembersResponse == [members : SUBSET GroupMember]
LibrariesRequest == [rpc : {"group.Libraries"}, group : GroupSlugs]
LibrariesResponse == [libraries : SUBSET GroupLibrary]
GroupEventsRequest == [rpc : {"group.Events"}, group : GroupSlugs]
GroupEventsResponse == Empty

-----------------------------------------------------------------------------
(* DocumentService.  What a report measures is left to module Grading. *)
Document == [doc_id : {"doc", "atlas/doc"}, title : Names]

ListDocumentsRequest == [rpc : {"document.List"}, library : Labels]
ListDocumentsResponse == [documents : SUBSET Document]
VerifyRequest == [rpc : {"document.Verify"}, doc_id : DocIDs]
VerifyResponse == [document : Document]
InspectRequest == [rpc : {"document.Inspect"}, target : {"", "manual", "outside"}]
InspectResponse == Empty
RemoveDocumentRequest == [rpc : {"document.Remove"}, doc_id : DocIDs]
RemoveDocumentResponse == Empty
RenameDocumentRequest == [rpc : {"document.Rename"}, doc_id : DocIDs, title : AnyTitle]
RenameDocumentResponse == Empty
\* at_chunk_id -1 is the field unset; a document has the chunks 0 .. 2.
ReadRequest == [rpc : {"document.Read"}, doc_id : DocIDs, from_ordinal : {-1, 1},
                at_chunk_id : {-1, 2, 9}, limit : {0, 1, 201}]
ReadChunk == 0 .. 2
ReadResponse == [chunks : SUBSET ReadChunk, from_ordinal : 0 .. 2]

-----------------------------------------------------------------------------
(* JobService and IngestService *)
Job == [doc_id : {"", "doc", "atlas/doc"}, status : {"queued", "done", "cancelled", "failed"}]
EnqueueRequest == [rpc : {"job.Enqueue"}, source : Sources, library : Labels]
QueuedJob == {"manual", "bare", "upload"}
EnqueueResponse == [jobs : SUBSET QueuedJob]
ListJobsRequest == [rpc : {"job.ListJobs"}, include_completed : BOOLEAN, library : Labels]
ListJobsResponse == [jobs : SUBSET Job]
CancelJobRequest == [rpc : {"job.CancelJob"}, job_id : 0 .. 1, library : Labels]
CancelJobResponse == [status : {"done", "cancelled", "failed"}]
IngestRequest == [rpc : {"ingest.Ingest"}, source : Sources]
Outcome == {"ingested", "replaced", "unchanged"}
Result == [doc_id : {"doc"}, outcome : Outcome]
IngestResponse == Result

-----------------------------------------------------------------------------
(* AccountService *)
Account == [username : Users, admin : BOOLEAN]
MeRequest == [rpc : {"account.Me"}]
MeResponse == [username : Users, admin : BOOLEAN]
ListAccountsRequest == [rpc : {"account.List"}]
ListAccountsResponse == [accounts : SUBSET Account]
AddRequest == [rpc : {"account.Add"}, username : Users \cup {""}]
AddResponse == [password : {"generated"}]
ResetRequest == [rpc : {"account.Reset"}, username : Users]
ResetResponse == [password : {"generated"}]
UnlockRequest == [rpc : {"account.Unlock"}, username : Users]
UnlockResponse == Empty
RemoveAccountRequest == [rpc : {"account.Remove"}, username : Users]
RemoveAccountResponse == Empty
SetAdminRequest == [rpc : {"account.SetAdmin"}, username : Users, admin : BOOLEAN]
SetAdminResponse == Empty
\* One setting is kept in the database, and changed one at a time: to a value
\* kept there or back to none, in docsearch.yaml where that holds it, or in
\* vain where a stronger place sets it, it is no setting of the UI, or the
\* value is not one it takes.
Stored == {"none", "kept"}
Change == {"kept", "none", "in_file", "locked", "not_editable", "invalid"}
SignInRequest == [rpc : {"account.SignIn"}]
SignInResponse == [stored : Stored]
UpdateSignInRequest == [rpc : {"account.UpdateSignIn"}, change : Change]
UpdateSignInResponse == [file : BOOLEAN, saved : BOOLEAN]

=============================================================================
