----------------------------- MODULE Repository -----------------------------
(***************************************************************************)
(* The Postgres repositories the services are written against, each method *)
(* one transaction: it calls one database function of module Access as the *)
(* user and gives the refusal a name.  A result is [err, w, out] with err  *)
(* "none" when the transaction committed.                                  *)
(***************************************************************************)
EXTENDS Access

Result_(err, w, out) == [err |-> err, w |-> w, out |-> out]

\* Faulty: the table was not extended when the provider's groups came.
refusals_before_providers(sql) ==
  CASE sql = "DSL01" -> "ErrNoLibrary" [] sql = "DSL02" -> "ErrNoAccount"
    [] sql = "DSL03" -> "ErrLastAdmin" [] sql = "DSL04" -> "ErrNameTaken"
    [] sql = "DSL05" -> "ErrNoInvitation" [] sql = "DSL07" -> "ErrLibraryName"
    [] sql = "DSG01" -> "ErrNoGroup" [] sql = "DSG02" -> "ErrGroupRole"
    [] sql = "DSG03" -> "ErrLastMaintainer" [] sql = "DSG04" -> "ErrGroupTaken"
    [] sql = "DSG05" -> "ErrNoGroupInvitation" [] sql = "DSG06" -> "ErrJoinByForce"
    [] sql = "DSG08" -> "ErrGroupName" [] sql = "23505" -> "ErrNameTaken"
    [] sql \in {"23514", "22023"} -> "ErrInvalid" [] OTHER -> "unnamed"

\* The errors the database's refusals mean, by SQLSTATE.
refusals(sql) ==
  CASE sql = "DSL01" -> "ErrNoLibrary" [] sql = "DSL02" -> "ErrNoAccount"
    [] sql = "DSL03" -> "ErrLastAdmin" [] sql = "DSL04" -> "ErrNameTaken"
    [] sql = "DSL05" -> "ErrNoInvitation" [] sql = "DSL06" -> "ErrTooMany"
    [] sql = "DSL07" -> "ErrLibraryName" [] sql = "DSG01" -> "ErrNoGroup"
    [] sql = "DSG02" -> "ErrGroupRole" [] sql = "DSG03" -> "ErrLastMaintainer"
    [] sql = "DSG04" -> "ErrGroupTaken" [] sql = "DSG05" -> "ErrNoGroupInvitation"
    [] sql = "DSG06" -> "ErrJoinByForce" [] sql = "DSG07" -> "ErrFromProvider"
    [] sql = "DSG08" -> "ErrGroupName" [] sql = "23505" -> "ErrNameTaken"
    [] sql \in {"23514", "22023"} -> "ErrInvalid" [] OTHER -> "unnamed"

adminRefusals(sql) ==
  CASE sql = "DSA01" -> "ErrNotAdmin" [] sql = "DSA02" -> "ErrNoAccount"
    [] sql = "DSA03" -> "ErrLastAdmin" [] OTHER -> "unnamed"

\* The outcome of a transaction, with the name its refusal has.
Named(t, name) == Result_(IF t.sql = "00000" THEN "none" ELSE name, t.w, t.out)

run(t) == Named(t, refusals(t.sql))
groupsRun(t) == Named(t, refusals(t.sql))
adminsRun(t) == Named(t, adminRefusals(t.sql))

-----------------------------------------------------------------------------
(* Libraries *)

LibrariesList(w, u) == Result_("none", w, readable_libraries(w, u))
LibrariesUsername(w, u) == Result_("none", w, u)
LibrariesCreate(w, u, slug, name) ==
  LET r == run(create_library(w, u, slug, name))
  IN  Result_(r.err, r.w, [library |-> slug, name |-> name, role |-> "admin"])
LibrariesGrant(w, u, username, role) ==
  LET r == run(grant_library(w, u, username, role)) IN Result_(r.err, r.w, r.out = "invited")
LibrariesInvitations(w, u) == Result_("none", w, my_invitations(w, u))
LibrariesDecline(w, u) == run(decline_invitation(w, u))
LibrariesRevoke(w, u, username) == run(revoke_library(w, u, username))
LibrariesMembers(w, u) == run(library_members(w, u))
LibrariesEvents(w, u) == run(library_events(w, u))
LibrariesDelete(w, u) == run(delete_library(w, u))
LibrariesDeleted(w, u) == Result_("none", w, deleted_libraries(w, u))

\* The three that change the library and then read it again; find is a
\* transaction of its own, and others come between.
LibrariesAccept(w, u) == run(accept_invitation(w, u))
LibrariesRename(w, u, name) == run(rename_library(w, u, name))
LibrariesRestore(w, u) == run(restore_library(w, u))
find(w, u) ==
  LET found == {lib \in LibrariesList(w, u).out : lib.library = "atlas"}
  IN  IF found = {} THEN Result_("ErrNoLibrary", w, "none")
      ELSE Result_("none", w, CHOOSE lib \in found : TRUE)

-----------------------------------------------------------------------------
(* Groups *)

GroupsCreate(w, u, slug, name) ==
  LET r == groupsRun(create_group(w, u, name))
  IN  Result_(r.err, r.w, [group |-> slug, name |-> name, role |-> "maintainer"])
GroupsRename(w, u, name) == groupsRun(rename_group(w, u, name))
GroupsDelete(w, u) == groupsRun(delete_group(w, u))
GroupsInvite(w, u, username, role) ==
  LET r == groupsRun(invite_to_group(w, u, username, role))
  IN  Result_(r.err, r.w, r.out = "invited")
GroupsForce(w, u, username, role) == groupsRun(force_into_group(w, u, username, role))
GroupsAccept(w, u) == groupsRun(accept_group_invitation(w, u))
GroupsDecline(w, u) == groupsRun(decline_group_invitation(w, u))
GroupsRemove(w, u, username) == groupsRun(remove_from_group(w, u, username))
GroupsAll(w, u) == Result_("none", w, all_groups(w, u))
GroupsInvitations(w, u) == Result_("none", w, my_group_invitations(w, u))
GroupsMembers(w, u) == groupsRun(group_members_of(w, u))
GroupsLibraries(w, u) == groupsRun(group_libraries(w, u))
GroupsEvents(w, u) == groupsRun(group_events_of(w, u))
GroupsGrantLibrary(w, u, role) == groupsRun(grant_library_group(w, u, role))
GroupsRevokeLibrary(w, u) == groupsRun(revoke_library_group(w, u))
GroupsOnLibrary(w, u) == groupsRun(library_groups(w, u))

-----------------------------------------------------------------------------
(* Accounts: the administrators' table, and the password accounts. *)

AdminsMe(w, u) == Result_("none", w, [username |-> u, admin |-> u \in w.administrators])
AdminsList(w, u) ==
  Result_("none", w, {[username |-> v, admin |-> v \in w.administrators] : v \in w.accounts})
AdminsSetAdmin(w, u, username, grant) == adminsRun(set_admin(w, u, username, grant))
SettingsStored(w, u) == Result_("none", w, w.setting)
SettingsSet(w, u, value) == adminsRun(set_setting(w, u, value))
\* The log is not modelled; that it is refused to anyone else is.
AdminsRecord(w, u) ==
  adminsRun(IF u \notin w.administrators THEN Raise(w, "DSA01") ELSE Commit(w, "recorded"))

\* The password accounts name one SQLSTATE each, and an account not there.
PasswordsAdd(w, u, username) ==
  LET t == add_password_account(w, u, username)
  IN  IF username = "" THEN Result_("ErrUsername", w, "none")
      ELSE Named(t, IF t.sql = "23505" THEN "ErrTaken" ELSE "unnamed")
PasswordsReset(w, u, username) ==
  LET r == Named(reset_password(w, u, username), "unnamed")
  IN  IF r.err = "none" /\ r.out = "absent" THEN Result_("ErrNoSuchAccount", w, "none") ELSE r
\* The one change no function guards: who asks is checked by the service.
PasswordsUnlock(w, u, username) ==
  Result_(IF username \in w.accounts THEN "none" ELSE "ErrNoSuchAccount", w, "none")
PasswordsRemove(w, u, username) ==
  LET t == remove_password_account(w, u, username)
      r == Named(t, IF t.sql = "DSA04" THEN "ErrStranded" ELSE "unnamed")
  IN  IF r.err = "none" /\ r.out = "absent" THEN Result_("ErrNoSuchAccount", w, "none") ELSE r

-----------------------------------------------------------------------------
(* Documents and jobs of one place, through the row policies.  A place of
   "nowhere" is the user's own library asked for an identifier no document
   can have. *)

Rows(w, u, p, role) == p \in Places /\ RowsOf(w, u, p, role)
Holding(w, u, p, role) == Rows(w, u, p, role) /\ w.docs[p] # "none"
Qualify(u, p) == IF p = u THEN "doc" ELSE "atlas/doc"
DocumentRow(w, u, p) == [doc_id |-> Qualify(u, p), title |-> w.docs[p]]

DocumentsGet(w, u, p) ==
  IF Holding(w, u, p, "reader") THEN Result_("none", w, DocumentRow(w, u, p))
  ELSE Result_("ErrNotFound", w, "none")
DocumentsList(w, u, p) ==
  Result_("none", w, IF Holding(w, u, p, "reader") THEN {DocumentRow(w, u, p)} ELSE {})
\* A DELETE the policy leaves no rows to is not an error.
DocumentsDelete(w, u, p) ==
  Result_("none", IF Holding(w, u, p, "editor") THEN [w EXCEPT !.docs[p] = "none"] ELSE w,
          "none")
\* An UPDATE of no rows is.
DocumentsRename(w, u, p, title) ==
  IF Holding(w, u, p, "editor") THEN Result_("none", [w EXCEPT !.docs[p] = title], "none")
  ELSE Result_("ErrNotFound", w, "none")

\* An INSERT the policy forbids raises 42501, which nothing names.
QueueAdd(w, u, p, source) ==
  IF Rows(w, u, p, "editor") THEN Result_("none", [w EXCEPT !.jobs[p] = "queued"], {source})
  ELSE Result_("unnamed", w, "none")
QueueList(w, u, p, completed) ==
  Result_("none", w,
    IF /\ Rows(w, u, p, "editor") /\ w.jobs[p] # "none"
       /\ completed \/ w.jobs[p] = "queued"
    THEN {[doc_id |-> IF w.jobs[p] = "done" THEN Qualify(u, p) ELSE "",
           status |-> w.jobs[p]]}
    ELSE {})
\* RequestCancel reads the status in one transaction and, for a job still
\* queued then, cancels in another whatever is still queued.
JobStatus(w, u, p) ==
  IF Rows(w, u, p, "editor") /\ w.jobs[p] # "none" THEN Result_("none", w, w.jobs[p])
  ELSE Result_("ErrNotFound", w, "none")
RequestJobCancel(w, u, p) ==
  Result_("none", IF Rows(w, u, p, "editor") /\ w.jobs[p] = "queued"
                  THEN [w EXCEPT !.jobs[p] = "cancelled"] ELSE w, "cancelled")

=============================================================================
