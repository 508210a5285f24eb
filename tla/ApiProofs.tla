------------------------------ MODULE ApiProofs ------------------------------
(***************************************************************************)
(* The four properties of module Api, for every set of accounts and names  *)
(* and from every world: what an outsider is told, what a list promises,   *)
(* which errors are named and which roles a change needs.                  *)
(*                                                                         *)
(* Each is a fact about one stage of one handler, taken through the six    *)
(* services and then through the stages of a call:                         *)
(*   - InStep: an outsider's stage ends the same in two worlds that differ *)
(*     in nothing but atlas, and leaves two such worlds;                   *)
(*   - Sound: a stage leaves a world, goes on at a higher Level, and       *)
(*     changes atlas only for an account that holds the role now;          *)
(*   - Named_: a stage ends with a code its procedure documents, and an    *)
(*     error a transaction raises is one its service translates (Coded);   *)
(*   - Agree: two answers of one world about the same entry.               *)
(* ApiInv is what every reachable state has: tables of their shape, and    *)
(* calls at a stage their handlers have.                                   *)
(***************************************************************************)
EXTENDS Api, TLAPS

-----------------------------------------------------------------------------
(* What an outsider is told. *)

\* What an account knows of a library it has no part in.
Outsider(w, u) ==
  /\ u \notin w.administrators
  /\ \A role \in Roles : ~ Holds(w, u, role)
  /\ ~ invitation_for(w, u)
  /\ ~ (w.library = "deleted" /\ w.grants[u] = "admin")
  /\ ~ (w.groupRole # "none" /\ w.members[u] = "maintainer")
  /\ ~ (w.groupRole # "none" /\ w.library = "live" /\ w.members[u] # "none")

\* Two worlds that differ in nothing but atlas, as far as u is concerned.
ButForAtlas(w, v, u) ==
  /\ w.group = v.group /\ w.groupName = v.groupName /\ w.members = v.members
  /\ w.groupOffers = v.groupOffers /\ w.provided = v.provided
  /\ w.accounts = v.accounts /\ w.administrators = v.administrators /\ w.setting = v.setting
  /\ w.docs[u] = v.docs[u] /\ w.jobs[u] = v.jobs[u]

\* An account that knows nothing of atlas is an outsider to it, and to the
\* world in which it was never created.
LEMMA KnowsNothing ==
  ASSUME NEW w \in World, NEW u \in Users, KnowsNot(w, u)
  PROVE  Outsider(w, u) /\ Outsider(Without(w), u) /\ ButForAtlas(w, Without(w), u)
<1> DEFINE v == Without(w)
<1>1. u # "atlas"
  BY PlacesAssumption
<1>2. ButForAtlas(w, v, u)
  BY <1>1 DEF Without, ButForAtlas, World, Places
<1>3. v.library = "none" /\ v.groupRole = "none" /\ v.grants[u] = "none"
  BY DEF Without, World
<1>4. Outsider(v, u)
  BY <1>2, <1>3 DEF Outsider, KnowsNot, Holds, invitation_for, ButForAtlas
<1>5. w.grants[u] \in {"none", "reader", "editor", "admin"} /\ w.groupRole \in {"none", "reader", "editor", "admin"}
  BY DEF World, Roles
<1>6. \A role \in Roles : ~ Holds(w, u, role)
  BY <1>5 DEF KnowsNot, Holds, Roles, role_rank, user_library_roles
<1>7. ~ invitation_for(w, u)
  BY DEF KnowsNot, my_invitations, invitation_for
<1>8. ~ (w.groupRole # "none" /\ w.library = "live" /\ w.members[u] # "none")
  BY <1>5, <1>6 DEF Holds, Roles, role_rank, user_library_roles
<1> QED
  BY <1>2, <1>4, <1>6, <1>7, <1>8 DEF Outsider, KnowsNot

\* Two outcomes of a database function the caller cannot tell apart.
Alike(t, r) == t.sql = r.sql /\ t.out = r.out

\* What a group keeps when a member changes role does not depend on atlas.
LEMMA LeftAlike ==
  ASSUME NEW w, NEW v, NEW u, ButForAtlas(w, v, u), NEW member, NEW role
  PROVE  maintainers_left(w, member, role) = maintainers_left(v, member, role)
<1>1. {x \in Users \ {member} : w.members[x] = "maintainer"}
        = {x \in Users \ {member} : v.members[x] = "maintainer"}
  BY DEF ButForAtlas
<1> QED
  BY <1>1 DEF maintainers_left

\* Nor does whether an account may act on the group.
LEMMA ForAlike ==
  ASSUME NEW w, NEW v, NEW u, ButForAtlas(w, v, u), NEW need
  PROVE  group_for(w, u, need) <=> group_for(v, u, need)
BY DEF ButForAtlas, group_for

\* No function tells an outsider whether atlas is there.
LEMMA LibrariesAlike ==
  ASSUME NEW w, NEW v, NEW u, Outsider(w, u), Outsider(v, u), NEW member, NEW role, NEW name
  PROVE  /\ Alike(grant_library(w, u, member, role), grant_library(v, u, member, role))
         /\ Alike(revoke_library(w, u, member), revoke_library(v, u, member))
         /\ Alike(library_members(w, u), library_members(v, u))
         /\ Alike(library_events(w, u), library_events(v, u))
         /\ Alike(accept_invitation(w, u), accept_invitation(v, u))
         /\ Alike(decline_invitation(w, u), decline_invitation(v, u))
         /\ Alike(rename_library(w, u, name), rename_library(v, u, name))
         /\ Alike(delete_library(w, u), delete_library(v, u))
         /\ Alike(restore_library(w, u), restore_library(v, u))
         /\ Alike(grant_library_group(w, u, role), grant_library_group(v, u, role))
         /\ Alike(library_groups(w, u), library_groups(v, u))
         /\ Alike(revoke_library_group(w, u), revoke_library_group(v, u))
<1>1. \A x : x = w \/ x = v => ~ Holds(x, u, "reader") /\ ~ Holds(x, u, "admin")
  BY DEF Outsider, Roles
<1>2. Alike(grant_library(w, u, member, role), grant_library(v, u, member, role))
  BY <1>1 DEF Alike, grant_library, Raise
<1>3. Alike(revoke_library(w, u, member), revoke_library(v, u, member))
  BY <1>1 DEF Alike, revoke_library, Raise
<1>4. Alike(library_members(w, u), library_members(v, u))
  BY <1>1 DEF Alike, library_members, Raise
<1>5. Alike(library_events(w, u), library_events(v, u))
  BY <1>1 DEF Alike, library_events, Raise
<1>6. Alike(accept_invitation(w, u), accept_invitation(v, u))
  BY DEF Alike, accept_invitation, Raise, Outsider
<1>7. Alike(decline_invitation(w, u), decline_invitation(v, u))
  BY DEF Alike, decline_invitation, Raise, Outsider
<1>8. Alike(rename_library(w, u, name), rename_library(v, u, name))
  BY <1>1 DEF Alike, rename_library, Raise
<1>9. Alike(delete_library(w, u), delete_library(v, u))
  BY <1>1 DEF Alike, delete_library, Raise
<1>10. Alike(restore_library(w, u), restore_library(v, u))
  BY DEF Alike, restore_library, Raise, Outsider
<1>11. Alike(grant_library_group(w, u, role), grant_library_group(v, u, role))
  BY <1>1 DEF Alike, grant_library_group, Raise
<1>12. Alike(library_groups(w, u), library_groups(v, u))
  BY <1>1 DEF Alike, library_groups, Raise
<1>13. Alike(revoke_library_group(w, u), revoke_library_group(v, u))
  BY <1>1 DEF Alike, revoke_library_group, Raise, Outsider, group_for
<1> QED
  BY <1>2, <1>3, <1>4, <1>5, <1>6, <1>7, <1>8, <1>9, <1>10, <1>11, <1>12, <1>13

\* An outsider's changes to the group, and to who is in it, are answered alike.
LEMMA GroupsAlike ==
  ASSUME NEW w, NEW v, NEW u, Outsider(w, u), Outsider(v, u), ButForAtlas(w, v, u),
         NEW member, NEW role, NEW name
  PROVE  /\ Alike(create_group(w, u, name), create_group(v, u, name))
         /\ Alike(rename_group(w, u, name), rename_group(v, u, name))
         /\ Alike(delete_group(w, u), delete_group(v, u))
         /\ Alike(invite_to_group(w, u, member, role), invite_to_group(v, u, member, role))
         /\ Alike(force_into_group(w, u, member, role), force_into_group(v, u, member, role))
         /\ Alike(accept_group_invitation(w, u), accept_group_invitation(v, u))
         /\ Alike(decline_group_invitation(w, u), decline_group_invitation(v, u))
         /\ Alike(remove_from_group(w, u, member), remove_from_group(v, u, member))
         /\ Alike(group_members_of(w, u), group_members_of(v, u))
         /\ Alike(group_libraries(w, u), group_libraries(v, u))
         /\ Alike(group_events_of(w, u), group_events_of(v, u))
<1>1. \A need : group_for(w, u, need) <=> group_for(v, u, need)
  BY ForAlike
<1>2. \A m, r : maintainers_left(w, m, r) = maintainers_left(v, m, r)
  BY LeftAlike
<1>3. group_invitation_for(w, u) <=> group_invitation_for(v, u)
  BY DEF group_invitation_for, ButForAtlas
<1>4. Alike(create_group(w, u, name), create_group(v, u, name))
  BY DEF Alike, create_group, Raise, Commit, ButForAtlas
<1>5. Alike(rename_group(w, u, name), rename_group(v, u, name))
  BY <1>1 DEF Alike, rename_group, Raise, Commit
<1>6. Alike(delete_group(w, u), delete_group(v, u))
  BY <1>1 DEF Alike, delete_group, Raise, Commit
<1>7. Alike(invite_to_group(w, u, member, role), invite_to_group(v, u, member, role))
  BY <1>1, <1>2 DEF Alike, invite_to_group, Raise, Commit, ButForAtlas
<1>8. Alike(force_into_group(w, u, member, role), force_into_group(v, u, member, role))
  BY DEF Alike, force_into_group, Raise, Outsider
<1>9. Alike(accept_group_invitation(w, u), accept_group_invitation(v, u))
  BY <1>3 DEF Alike, accept_group_invitation, Raise, Commit, ButForAtlas
<1>10. Alike(decline_group_invitation(w, u), decline_group_invitation(v, u))
  BY <1>3 DEF Alike, decline_group_invitation, Raise, Commit
<1>11. Alike(remove_from_group(w, u, member), remove_from_group(v, u, member))
  BY <1>1, <1>2 DEF Alike, remove_from_group, Raise, Commit, ButForAtlas
<1>12. Alike(group_members_of(w, u), group_members_of(v, u))
  <2>1. {x \in w.accounts : w.members[x] # "none"} = {x \in v.accounts : v.members[x] # "none"}
    BY DEF ButForAtlas
  <2>2. {x \in w.accounts : w.groupOffers[x] # "none" /\ group_for(w, u, "maintainer")}
          = {x \in v.accounts : v.groupOffers[x] # "none" /\ group_for(v, u, "maintainer")}
    BY <1>1 DEF ButForAtlas
  <2>3. {[username |-> x, role |-> w.members[x], from_provider |-> x \in w.provided,
          invited |-> FALSE] : x \in {y \in w.accounts : w.members[y] # "none"}}
          = {[username |-> x, role |-> v.members[x], from_provider |-> x \in v.provided,
              invited |-> FALSE] : x \in {y \in v.accounts : v.members[y] # "none"}}
    BY <2>1 DEF ButForAtlas
  <2>4. {[username |-> x, role |-> w.groupOffers[x], from_provider |-> FALSE, invited |-> TRUE] :
            x \in {y \in w.accounts : w.groupOffers[y] # "none" /\ group_for(w, u, "maintainer")}}
          = {[username |-> x, role |-> v.groupOffers[x], from_provider |-> FALSE, invited |-> TRUE] :
              x \in {y \in v.accounts : v.groupOffers[y] # "none" /\ group_for(v, u, "maintainer")}}
    BY <2>2 DEF ButForAtlas
  <2> QED
    BY <1>1, <2>3, <2>4 DEF Alike, group_members_of, Raise, Commit
<1>13. Alike(group_libraries(w, u), group_libraries(v, u))
  BY <1>1 DEF Alike, group_libraries, Raise, Commit, Outsider, group_for
<1>14. Alike(group_events_of(w, u), group_events_of(v, u))
  BY <1>1 DEF Alike, group_events_of, Raise, Commit
<1> QED
  BY <1>4, <1>5, <1>6, <1>7, <1>8, <1>9, <1>10, <1>11, <1>12, <1>13, <1>14

\* An administrator's changes to accounts and administrators are answered alike.
LEMMA AdminsAlike ==
  ASSUME NEW w, NEW v, NEW u, Outsider(w, u), Outsider(v, u), ButForAtlas(w, v, u),
         NEW member, NEW make
  PROVE  /\ Alike(set_admin(w, u, member, make), set_admin(v, u, member, make))
         /\ Alike(add_password_account(w, u, member), add_password_account(v, u, member))
         /\ Alike(reset_password(w, u, member), reset_password(v, u, member))
         /\ Alike(remove_password_account(w, u, member), remove_password_account(v, u, member))
BY DEF Alike, set_admin, add_password_account, reset_password, remove_password_account,
       Raise, Outsider

\* Two answers the caller cannot tell apart, and two handlers that have come
\* to the same place.
SameAnswer(a, b) == a.done /\ b.done /\ a.code = b.code /\ a.out = b.out
InStep(w, v, a, b) ==
  \/ SameAnswer(a, b)
  \/ ~ a.done /\ ~ b.done /\ a.w = w /\ b.w = v /\ a.stage = b.stage

\* The same refusal has the same name and the same code.
LEMMA NamedAlike ==
  ASSUME NEW t, NEW r, Alike(t, r)
  PROVE  /\ run(t).err = run(r).err /\ run(t).out = run(r).out
         /\ groupsRun(t).err = groupsRun(r).err /\ groupsRun(t).out = groupsRun(r).out
         /\ adminsRun(t).err = adminsRun(r).err /\ adminsRun(t).out = adminsRun(r).out
BY DEF Alike, run, groupsRun, adminsRun, Named, Result_

\* Transactions that end alike are put into words alike, by each of the services'
\* translations of an error.
LEMMA SharedAlike ==
  ASSUME NEW r, NEW t, r.err = t.err, NEW x, NEW y, r.err = "none" => x = y
  PROVE  /\ SameAnswer(Shared(r, x), Shared(t, y))
         /\ SameAnswer(Administered(r, x), Administered(t, y))
         /\ SameAnswer(Documented(r, x), Documented(t, y))
BY DEF SameAnswer, Shared, sharingError, Administered, adminError, Documented, documentError,
       Refuse, Done

\* The same where the answer is a field of what the transaction returned.
LEMMA SharedAsAlike ==
  ASSUME NEW r, NEW t, r.err = t.err, r.err = "none" => r.out = t.out, NEW field
  PROVE  /\ SameAnswer(SharedAs(r, field), SharedAs(t, field))
         /\ SameAnswer(AdministeredAs(r, field), AdministeredAs(t, field))
         /\ SameAnswer(DocumentedAs(r, field), DocumentedAs(t, field))
BY SharedAlike DEF SharedAs, AdministeredAs, DocumentedAs, Under

\* Refusals, answers and next stages that do not name atlas are alike.
LEMMA StepsAlike ==
  ASSUME NEW w, NEW v
  PROVE  /\ \A code : InStep(w, v, Refuse(w, code), Refuse(v, code))
         /\ \A code, out : InStep(w, v, Done(w, code, out), Done(v, code, out))
         /\ \A at, it : InStep(w, v, Then(w, at, it), Then(v, at, it))
<1>1. \A x, code, out : Done(x, code, out).done /\ Done(x, code, out).code = code /\ Done(x, code, out).out = out
  BY DEF Done
<1>2. \A x, at, it : ~ Then(x, at, it).done /\ Then(x, at, it).w = x /\ Then(x, at, it).stage = Stage(at, it)
  BY DEF Then
<1> QED
  BY <1>1, <1>2 DEF InStep, SameAnswer, Refuse

\* An outsider's lists hold the same entries.
LEMMA ReadAlike ==
  ASSUME NEW w, NEW v, NEW u, Outsider(w, u), Outsider(v, u)
  PROVE  /\ readable_libraries(w, u) = readable_libraries(v, u)
         /\ my_invitations(w, u) = my_invitations(v, u)
         /\ deleted_libraries(w, u) = deleted_libraries(v, u)
         /\ find(w, u).err = "ErrNoLibrary" /\ find(v, u).err = "ErrNoLibrary"
<1>1. ~ Holds(w, u, "reader") /\ ~ Holds(v, u, "reader")
  BY DEF Outsider, Roles
<1>2. readable_libraries(w, u) = {[library |-> "personal", name |-> "", role |-> "admin"]}
  BY <1>1 DEF readable_libraries
<1>3. readable_libraries(v, u) = {[library |-> "personal", name |-> "", role |-> "admin"]}
  BY <1>1 DEF readable_libraries
<1>4. find(w, u).err = "ErrNoLibrary" /\ find(v, u).err = "ErrNoLibrary"
  <2> DEFINE mine == [library |-> "personal", name |-> "", role |-> "admin"]
             own == {mine}
  <2>1. {lib \in own : lib.library = "atlas"} = {}
    <3>1. mine.library # "atlas"
      OBVIOUS
    <3> HIDE DEF mine
    <3> QED
      BY <3>1
  <2>2. LibrariesList(w, u).out = own /\ LibrariesList(v, u).out = own
    BY <1>2, <1>3 DEF LibrariesList, Result_
  <2> HIDE DEF own
  <2>3. {lib \in LibrariesList(w, u).out : lib.library = "atlas"} = {}
    BY <2>1, <2>2
  <2>4. {lib \in LibrariesList(v, u).out : lib.library = "atlas"} = {}
    BY <2>1, <2>2
  <2> QED
    BY <2>3, <2>4 DEF find, Result_
<1> QED
  BY <1>2, <1>3, <1>4 DEF my_invitations, deleted_libraries, Outsider, invitation_for

\* The handlers of LibraryService, but for creating one, treat an outsider alike.
LEMMA LibraryInStep ==
  ASSUME NEW w, NEW v, NEW u, Outsider(w, u), Outsider(v, u), ButForAtlas(w, v, u),
         NEW q \in LibraryRequests, NEW s, q.rpc # "library.Create"
  PROVE  InStep(w, v, LibraryService(w, u, q, s), LibraryService(v, u, q, s))
<1>a. \A x, name : x = w \/ x = v =>
        /\ run(accept_invitation(x, u)).err = "ErrNoInvitation"
        /\ run(rename_library(x, u, name)).err = "ErrNoLibrary"
        /\ run(restore_library(x, u)).err = "ErrNoLibrary"
  <2> SUFFICES ASSUME NEW x, x = w \/ x = v, NEW name
               PROVE  /\ run(accept_invitation(x, u)).err = "ErrNoInvitation"
                      /\ run(rename_library(x, u, name)).err = "ErrNoLibrary"
                      /\ run(restore_library(x, u)).err = "ErrNoLibrary"
    OBVIOUS
  <2>1. Outsider(x, u)
    OBVIOUS
  <2>2. /\ accept_invitation(x, u) = Raise(x, "DSL05")
        /\ rename_library(x, u, name) = Raise(x, "DSL01")
        /\ restore_library(x, u) = Raise(x, "DSL01")
    BY <2>1 DEF accept_invitation, rename_library, restore_library, Outsider, Roles
  <2>3. /\ run(Raise(x, "DSL05")).err = "ErrNoInvitation"
        /\ run(Raise(x, "DSL01")).err = "ErrNoLibrary"
    BY DEF run, Named, Result_, Raise, refusals
  <2> QED
    BY <2>2, <2>3
<1>1. CASE q \in ListRequest
  <2>1. \A x : LibraryService(x, u, q, s) = LibraryList(x, u)
    BY <1>1 DEF LibraryService, ListRequest
  <2>2. \A x : /\ LibrariesList(x, u).err = "none"
                /\ LibrariesList(x, u).out = readable_libraries(x, u)
                /\ LibrariesUsername(x, u).out = u
    BY DEF LibrariesList, LibrariesUsername, Result_
  <2> QED
    <3> DEFINE said(x) == [libraries |-> LibrariesList(x, u).out,
                           username |-> LibrariesUsername(x, u).out]
    <3>1. said(w) = said(v)
      BY <2>2, ReadAlike
    <3>2. LibraryService(w, u, q, s) = Shared(LibrariesList(w, u), said(w))
      BY <2>1 DEF LibraryList
    <3>3. LibraryService(v, u, q, s) = Shared(LibrariesList(v, u), said(v))
      BY <2>1 DEF LibraryList
    <3> HIDE DEF said
    <3> QED
      BY <2>2, <3>1, <3>2, <3>3, SharedAlike DEF InStep
<1>2. CASE q \in CreateRequest
  <2>1. \A x : LibraryService(x, u, q, s) = LibraryCreate(x, u, q)
    BY <1>2 DEF LibraryService, CreateRequest
  <2> QED
    BY <1>2 DEF CreateRequest
<1>3. CASE q \in MembersRequest
  <2>1. \A x : LibraryService(x, u, q, s) = LibraryMembers(x, u)
    BY <1>3 DEF LibraryService, MembersRequest
  <2> QED
    BY <2>1, LibrariesAlike, NamedAlike, SharedAsAlike DEF InStep, LibraryMembers, LibrariesMembers
<1>4. CASE q \in GrantRequest
  <2>1. \A x : LibraryService(x, u, q, s) = LibraryGrant(x, u, q)
    BY <1>4 DEF LibraryService, GrantRequest
  <2>2. \A x : LET r == LibrariesGrant(x, u, q.username, q.role)
                   t == run(grant_library(x, u, q.username, q.role))
               IN  r.err = t.err /\ r.out = (t.out = "invited")
    BY DEF LibrariesGrant, Result_
  <2>3. /\ LibrariesGrant(w, u, q.username, q.role).err = LibrariesGrant(v, u, q.username, q.role).err
        /\ LibrariesGrant(w, u, q.username, q.role).out = LibrariesGrant(v, u, q.username, q.role).out
    BY <2>2, LibrariesAlike, NamedAlike
  <2> QED
    BY <2>1, <2>3, SharedAsAlike DEF InStep, LibraryGrant
<1>5. CASE q \in RevokeRequest
  <2>1. \A x : LibraryService(x, u, q, s) = LibraryRevoke(x, u, q)
    BY <1>5 DEF LibraryService, RevokeRequest
  <2> QED
    BY <2>1, LibrariesAlike, NamedAlike, SharedAlike DEF InStep, LibraryRevoke, LibrariesRevoke
<1>6. CASE q \in EventsRequest
  <2>1. \A x : LibraryService(x, u, q, s) = LibraryEvents(x, u)
    BY <1>6 DEF LibraryService, EventsRequest
  <2> QED
    BY <2>1, LibrariesAlike, NamedAlike, SharedAlike DEF InStep, LibraryEvents, LibrariesEvents
<1>7. CASE q \in InvitationsRequest
  <2>1. \A x : LibraryService(x, u, q, s) = LibraryInvitations(x, u)
    BY <1>7 DEF LibraryService, InvitationsRequest
  <2>2. \A x : LibrariesInvitations(x, u).err = "none" /\ LibrariesInvitations(x, u).out = my_invitations(x, u)
    BY DEF LibrariesInvitations, Result_
  <2> QED
    BY <2>1, <2>2, ReadAlike, SharedAsAlike DEF InStep, LibraryInvitations
<1>8. CASE q \in AcceptRequest
  <2>1. \A x : LibraryService(x, u, q, s) = LibraryAccept(x, u, s)
    BY <1>8 DEF LibraryService, AcceptRequest
  <2>2. CASE s.at = "start"
    BY <2>1, <2>2, <1>a DEF InStep, LibraryAccept, LibrariesAccept, SameAnswer, Done, sharingError, Refuse
  <2>3. CASE s.at # "start"
    <3> DEFINE said == [library |-> [library |-> "atlas", name |-> "", role |-> s.it]]
    <3>1. \A x : x = w \/ x = v => LibraryService(x, u, q, s) = Done(x, "ok", said)
      BY <2>1, <2>3, ReadAlike DEF LibraryAccept
    <3> HIDE DEF said
    <3> QED
      BY <3>1 DEF InStep, SameAnswer, Done
  <2> QED
    BY <2>2, <2>3
<1>9. CASE q \in DeclineRequest
  <2>1. \A x : LibraryService(x, u, q, s) = LibraryDecline(x, u)
    BY <1>9 DEF LibraryService, DeclineRequest
  <2> QED
    BY <2>1, LibrariesAlike, NamedAlike, SharedAlike DEF InStep, LibraryDecline, LibrariesDecline
<1>10. CASE q \in RenameRequest
  <2>1. \A x : LibraryService(x, u, q, s) = LibraryRename(x, u, q, s)
    BY <1>10 DEF LibraryService, RenameRequest
  <2> QED
    BY <2>1, <1>a, ReadAlike, SharedAsAlike DEF InStep, LibraryRename, Reread, LibrariesRename, SameAnswer, Done, sharingError, Refuse
<1>11. CASE q \in DeleteRequest
  <2>1. \A x : LibraryService(x, u, q, s) = LibraryDelete(x, u)
    BY <1>11 DEF LibraryService, DeleteRequest
  <2> QED
    BY <2>1, LibrariesAlike, NamedAlike, SharedAlike DEF InStep, LibraryDelete, LibrariesDelete
<1>12. CASE q \in RestoreRequest
  <2>1. \A x : LibraryService(x, u, q, s) = LibraryRestore(x, u, s)
    BY <1>12 DEF LibraryService, RestoreRequest
  <2> QED
    BY <2>1, <1>a, ReadAlike, SharedAsAlike DEF InStep, LibraryRestore, Reread, LibrariesRestore, SameAnswer, Done, sharingError, Refuse
<1>13. CASE q \in DeletedRequest
  <2>1. \A x : LibraryService(x, u, q, s) = LibraryDeleted(x, u)
    BY <1>13 DEF LibraryService, DeletedRequest
  <2>2. \A x : LibrariesDeleted(x, u).err = "none" /\ LibrariesDeleted(x, u).out = deleted_libraries(x, u)
    BY DEF LibrariesDeleted, Result_
  <2> QED
    BY <2>1, <2>2, ReadAlike, SharedAsAlike DEF InStep, LibraryDeleted
<1>14. CASE q \in GrantGroupRequest
  <2>1. \A x : LibraryService(x, u, q, s) = LibraryGrantGroup(x, u, q)
    BY <1>14 DEF LibraryService, GrantGroupRequest
  <2> QED
    BY <2>1, LibrariesAlike, NamedAlike, SharedAlike DEF InStep, LibraryGrantGroup, GroupsGrantLibrary
<1>15. CASE q \in RevokeGroupRequest
  <2>1. \A x : LibraryService(x, u, q, s) = LibraryRevokeGroup(x, u)
    BY <1>15 DEF LibraryService, RevokeGroupRequest
  <2> QED
    BY <2>1, LibrariesAlike, NamedAlike, SharedAlike DEF InStep, LibraryRevokeGroup, GroupsRevokeLibrary
<1>16. CASE q \in GroupsRequest
  <2>1. \A x : LibraryService(x, u, q, s) = LibraryGroups(x, u)
    BY <1>16 DEF LibraryService, GroupsRequest
  <2> QED
    BY <2>1, LibrariesAlike, NamedAlike, SharedAsAlike DEF InStep, LibraryGroups, GroupsOnLibrary
<1> QED
  BY <1>1, <1>2, <1>3, <1>4, <1>5, <1>6, <1>7, <1>8, <1>9, <1>10, <1>11, <1>12, <1>13, <1>14, <1>15, <1>16 DEF LibraryRequests

\* The handlers of GroupService treat an outsider alike.
LEMMA GroupInStep ==
  ASSUME NEW w, NEW v, NEW u, Outsider(w, u), Outsider(v, u), ButForAtlas(w, v, u),
         NEW q \in GroupRequests, NEW s
  PROVE  InStep(w, v, GroupService(w, u, q, s), GroupService(v, u, q, s))
<1>a. AdminsMe(w, u).out = AdminsMe(v, u).out
  BY DEF AdminsMe, Result_, ButForAtlas
<1>1. CASE q \in ListGroupsRequest
  <2>1. \A x : GroupService(x, u, q, s) = GroupList(x, u)
    BY <1>1 DEF GroupService, ListGroupsRequest
  <2> DEFINE said(x) == [groups |-> GroupsAll(x, u).out, can_create |-> mayCreate(x, u)]
  <2>2. GroupsAll(w, u).err = "none" /\ GroupsAll(v, u).err = "none"
    BY DEF GroupsAll, Result_
  <2>3. GroupsAll(w, u).out = GroupsAll(v, u).out
    BY DEF GroupsAll, Result_, all_groups, ButForAtlas
  <2>4. mayCreate(w, u) = mayCreate(v, u)
    BY <1>a DEF mayCreate
  <2>5. said(w) = said(v)
    BY <2>3, <2>4
  <2>6. GroupService(w, u, q, s) = Shared(GroupsAll(w, u), said(w))
    BY <2>1 DEF GroupList
  <2>7. GroupService(v, u, q, s) = Shared(GroupsAll(v, u), said(v))
    BY <2>1 DEF GroupList
  <2> HIDE DEF said
  <2> QED
    BY <2>2, <2>5, <2>6, <2>7, SharedAlike DEF InStep
<1>2. CASE q \in CreateGroupRequest
  <2>1. \A x : GroupService(x, u, q, s) = GroupCreate(x, u, q, s)
    BY <1>2 DEF GroupService, CreateGroupRequest
  <2>2. mayCreate(w, u) <=> mayCreate(v, u)
    BY <1>a DEF mayCreate
  <2>3. GroupsCreate(w, u, q.group, q.name).err = GroupsCreate(v, u, q.group, q.name).err
    BY GroupsAlike, NamedAlike DEF GroupsCreate, Result_
  <2>4. GroupsCreate(w, u, q.group, q.name).out = GroupsCreate(v, u, q.group, q.name).out
    BY DEF GroupsCreate, Result_
  <2>5. CASE s.at = "may"
    BY <2>1, <2>3, <2>4, <2>5, SharedAsAlike DEF InStep, GroupCreate
  <2>6. CASE s.at # "may"
    <3>1. CASE q.group = "" \/ q.name = ""
      <4>1. \A x : GroupService(x, u, q, s) = Refuse(x, "invalid_argument")
        BY <2>1, <2>6, <3>1 DEF GroupCreate
      <4> QED
        BY <4>1, StepsAlike
    <3>2. CASE ~ (q.group = "" \/ q.name = "") /\ mayCreate(w, u)
      <4>1. \A x : x = w \/ x = v => GroupService(x, u, q, s) = Then(x, "may", "none")
        BY <2>1, <2>2, <2>6, <3>2 DEF GroupCreate
      <4> QED
        BY <4>1, StepsAlike
    <3>3. CASE ~ (q.group = "" \/ q.name = "") /\ ~ mayCreate(w, u)
      <4>1. \A x : x = w \/ x = v => GroupService(x, u, q, s) = Refuse(x, "permission_denied")
        BY <2>1, <2>2, <2>6, <3>3 DEF GroupCreate
      <4> QED
        BY <4>1, StepsAlike
    <3> QED
      BY <3>1, <3>2, <3>3
  <2> QED
    BY <2>5, <2>6
<1>3. CASE q \in RenameGroupRequest
  <2>1. \A x : GroupService(x, u, q, s) = GroupRename(x, u, q)
    BY <1>3 DEF GroupService, RenameGroupRequest
  <2> QED
    BY <2>1, GroupsAlike, NamedAlike, SharedAlike DEF InStep, GroupRename, GroupsRename
<1>4. CASE q \in DeleteGroupRequest
  <2>1. \A x : GroupService(x, u, q, s) = GroupDelete(x, u)
    BY <1>4 DEF GroupService, DeleteGroupRequest
  <2> QED
    BY <2>1, GroupsAlike, NamedAlike, SharedAlike DEF InStep, GroupDelete, GroupsDelete
<1>5. CASE q \in InviteRequest
  <2>1. \A x : GroupService(x, u, q, s) = GroupInvite(x, u, q)
    BY <1>5 DEF GroupService, InviteRequest
  <2>2. /\ GroupsInvite(w, u, q.username, q.role).err = GroupsInvite(v, u, q.username, q.role).err
        /\ GroupsInvite(w, u, q.username, q.role).out = GroupsInvite(v, u, q.username, q.role).out
    BY GroupsAlike, NamedAlike DEF GroupsInvite, Result_
  <2>3. GroupsForce(w, u, q.username, q.role).err = GroupsForce(v, u, q.username, q.role).err
    BY GroupsAlike, NamedAlike DEF GroupsForce
  <2>4. CASE q.force
    BY <2>1, <2>3, <2>4, SharedAlike DEF InStep, GroupInvite
  <2>5. CASE ~ q.force
    BY <2>1, <2>2, <2>5, SharedAsAlike DEF InStep, GroupInvite
  <2> QED
    BY <2>4, <2>5
<1>6. CASE q \in AcceptGroupRequest
  <2>1. \A x : GroupService(x, u, q, s) = GroupAccept(x, u)
    BY <1>6 DEF GroupService, AcceptGroupRequest
  <2> QED
    BY <2>1, GroupsAlike, NamedAlike, SharedAsAlike DEF InStep, GroupAccept, GroupsAccept
<1>7. CASE q \in DeclineGroupRequest
  <2>1. \A x : GroupService(x, u, q, s) = GroupDecline(x, u)
    BY <1>7 DEF GroupService, DeclineGroupRequest
  <2> QED
    BY <2>1, GroupsAlike, NamedAlike, SharedAlike DEF InStep, GroupDecline, GroupsDecline
<1>8. CASE q \in RemoveMemberRequest
  <2>1. \A x : GroupService(x, u, q, s) = GroupRemove(x, u, q)
    BY <1>8 DEF GroupService, RemoveMemberRequest
  <2> QED
    BY <2>1, GroupsAlike, NamedAlike, SharedAlike DEF InStep, GroupRemove, GroupsRemove
<1>9. CASE q \in GroupInvitationsRequest
  <2>1. \A x : GroupService(x, u, q, s) = GroupInvitations(x, u)
    BY <1>9 DEF GroupService, GroupInvitationsRequest
  <2>2. GroupsInvitations(w, u).err = "none" /\ GroupsInvitations(v, u).err = "none"
    BY DEF GroupsInvitations, Result_
  <2>3. GroupsInvitations(w, u).out = GroupsInvitations(v, u).out
    BY DEF GroupsInvitations, Result_, my_group_invitations, group_invitation_for, ButForAtlas
  <2> QED
    BY <2>1, <2>2, <2>3, SharedAsAlike DEF InStep, GroupInvitations
<1>10. CASE q \in GroupMembersRequest
  <2>1. \A x : GroupService(x, u, q, s) = GroupMembers(x, u)
    BY <1>10 DEF GroupService, GroupMembersRequest
  <2> QED
    BY <2>1, GroupsAlike, NamedAlike, SharedAsAlike DEF InStep, GroupMembers, GroupsMembers
<1>11. CASE q \in LibrariesRequest
  <2>1. \A x : GroupService(x, u, q, s) = GroupLibraries(x, u)
    BY <1>11 DEF GroupService, LibrariesRequest
  <2> QED
    BY <2>1, GroupsAlike, NamedAlike, SharedAsAlike DEF InStep, GroupLibraries, GroupsLibraries
<1>12. CASE q \in GroupEventsRequest
  <2>1. \A x : GroupService(x, u, q, s) = GroupEvents(x, u)
    BY <1>12 DEF GroupService, GroupEventsRequest
  <2> QED
    BY <2>1, GroupsAlike, NamedAlike, SharedAlike DEF InStep, GroupEvents, GroupsEvents
<1> QED
  BY <1>1, <1>2, <1>3, <1>4, <1>5, <1>6, <1>7, <1>8, <1>9, <1>10, <1>11, <1>12 DEF GroupRequests

\* An outsider's label names its own shelf or nothing, and a document it finds is
\* never in atlas.
LEMMA PlacesAlike ==
  ASSUME NEW w, NEW v, NEW u \in Users, Outsider(w, u), Outsider(v, u), ButForAtlas(w, v, u)
  PROVE  /\ \A label \in Labels :
              labelled(w, u, label) = labelled(v, u, label) /\ labelled(w, u, label) \in {u, "unknown"}
         /\ \A docID : holding(w, u, docID) = holding(v, u, docID) /\ holding(w, u, docID) # "atlas"
<1>1. u # "atlas"
  BY PlacesAssumption
<1>2. ~ Holds(w, u, "reader") /\ ~ Holds(v, u, "reader")
  BY DEF Outsider, Roles
<1>3. \A x : x = w \/ x = v => readable_libraries(x, u) = {[library |-> "personal", name |-> "", role |-> "admin"]}
  BY <1>2 DEF readable_libraries
<1>4. \A x : x = w \/ x = v => ~ \E lib \in readable_libraries(x, u) : lib.library = "atlas"
  <2> DEFINE mine == [library |-> "personal", name |-> "", role |-> "admin"]
  <2>1. mine.library # "atlas"
    OBVIOUS
  <2> HIDE DEF mine
  <2> QED
    BY <1>3, <2>1 DEF mine
<1> QED
  BY <1>1, <1>4 DEF labelled, holding, readableOf, Labels

\* What an outsider does to a document or a job is done to its own rows.
LEMMA RowsAlike ==
  ASSUME NEW w, NEW v, NEW u \in Users, Outsider(w, u), Outsider(v, u), ButForAtlas(w, v, u),
         NEW p, NEW title, NEW completed
  PROVE  /\ DocumentsGet(w, u, p).err = DocumentsGet(v, u, p).err
         /\ DocumentsGet(w, u, p).out = DocumentsGet(v, u, p).out
         /\ DocumentsList(w, u, p).err = DocumentsList(v, u, p).err
         /\ DocumentsList(w, u, p).out = DocumentsList(v, u, p).out
         /\ DocumentsDelete(w, u, p).err = DocumentsDelete(v, u, p).err
         /\ DocumentsRename(w, u, p, title).err = DocumentsRename(v, u, p, title).err
         /\ QueueAdd(w, u, p, title).err = QueueAdd(v, u, p, title).err
         /\ QueueAdd(w, u, p, title).out = QueueAdd(v, u, p, title).out
         /\ QueueList(w, u, p, completed).err = QueueList(v, u, p, completed).err
         /\ QueueList(w, u, p, completed).out = QueueList(v, u, p, completed).out
         /\ JobStatus(w, u, p).err = JobStatus(v, u, p).err
         /\ JobStatus(w, u, p).out = JobStatus(v, u, p).out
         /\ RequestJobCancel(w, u, p).err = RequestJobCancel(v, u, p).err
         /\ RequestJobCancel(w, u, p).out = RequestJobCancel(v, u, p).out
<1>1. \A x : x = w \/ x = v =>
        (Rows(x, u, p, "reader") <=> p = u) /\ (Rows(x, u, p, "editor") <=> p = u)
  BY DEF Rows, RowsOf, Outsider, Roles, Places
<1>2. p = u => w.docs[p] = v.docs[p] /\ w.jobs[p] = v.jobs[p]
  BY DEF ButForAtlas
<1>3. /\ Holding(w, u, p, "reader") <=> Holding(v, u, p, "reader")
      /\ Holding(w, u, p, "editor") <=> Holding(v, u, p, "editor")
      /\ Holding(w, u, p, "reader") => DocumentRow(w, u, p) = DocumentRow(v, u, p)
  BY <1>1, <1>2 DEF Holding, DocumentRow
<1>4. DocumentsGet(w, u, p).err = DocumentsGet(v, u, p).err /\ DocumentsGet(w, u, p).out = DocumentsGet(v, u, p).out
  BY <1>3 DEF DocumentsGet, Result_
<1>5. DocumentsList(w, u, p).err = DocumentsList(v, u, p).err /\ DocumentsList(w, u, p).out = DocumentsList(v, u, p).out
  BY <1>3 DEF DocumentsList, Result_
<1>6. /\ DocumentsDelete(w, u, p).err = DocumentsDelete(v, u, p).err
      /\ DocumentsRename(w, u, p, title).err = DocumentsRename(v, u, p, title).err
  BY <1>3 DEF DocumentsDelete, DocumentsRename, Result_
<1>7. /\ QueueAdd(w, u, p, title).err = QueueAdd(v, u, p, title).err
      /\ QueueAdd(w, u, p, title).out = QueueAdd(v, u, p, title).out
  BY <1>1 DEF QueueAdd, Result_
<1>8. /\ QueueList(w, u, p, completed).err = QueueList(v, u, p, completed).err
      /\ QueueList(w, u, p, completed).out = QueueList(v, u, p, completed).out
  BY <1>1, <1>2 DEF QueueList, Result_
<1>9. /\ JobStatus(w, u, p).err = JobStatus(v, u, p).err
      /\ JobStatus(w, u, p).out = JobStatus(v, u, p).out
  BY <1>1, <1>2 DEF JobStatus, Result_
<1>10. /\ RequestJobCancel(w, u, p).err = RequestJobCancel(v, u, p).err
       /\ RequestJobCancel(w, u, p).out = RequestJobCancel(v, u, p).out
  BY DEF RequestJobCancel, Result_
<1> QED
  BY <1>4, <1>5, <1>6, <1>7, <1>8, <1>9, <1>10

\* The stages a handler has, where its code tells more than two apart.
Recording == {"account.Add", "account.Reset", "account.Unlock", "account.Remove"}
KnownStage(q, s) ==
  /\ q.rpc = "group.Create" => s.at \in {"start", "may"} /\ (s.at = "may" => q.name # "")
  /\ q.rpc = "document.Rename" =>
       s.at \in {"start", "shelf"} /\ (s.at = "shelf" => q.title \notin {"", "long"})
  /\ q.rpc = "document.Remove" => s.at \in {"start", "shelf", "found"}
  /\ q.rpc = "job.CancelJob" => s.at \in {"start", "shelf", "queued"}
  /\ q.rpc \in Recording => s.at \in {"start", "admin", "record"}

\* An outsider who names atlas gets no further than one who names a library
\* that is not there, and their own library they may always edit.
LEMMA ShelvesAlike ==
  ASSUME NEW w, NEW v, NEW u \in Users, Outsider(w, u), Outsider(v, u), ButForAtlas(w, v, u)
  PROVE  /\ \A label \in Labels :
              /\ InStep(w, v, InLibrary(w, u, label), InLibrary(v, u, label))
              /\ InStep(w, v, editable(w, u, InLibrary(w, u, label)),
                             editable(v, u, InLibrary(v, u, label)))
         /\ \A docID :
              /\ InStep(w, v, At(w, u, docID), At(v, u, docID))
              /\ InStep(w, v, editable(w, u, At(w, u, docID)), editable(v, u, At(v, u, docID)))
<1>1. u # "atlas" /\ u # "unknown"
  BY PlacesAssumption
<1>2. ASSUME NEW x, x = w \/ x = v
      PROVE  /\ \A code : editable(x, u, Refuse(x, code)) = Refuse(x, code)
             /\ \A p : p # "atlas" => editable(x, u, Then(x, "shelf", p)) = Then(x, "shelf", p)
  <2>1. \A code : Refuse(x, code).done
    BY DEF Refuse, Done
  <2>2. \A p : Then(x, "shelf", p).stage.it = p
    BY DEF Then, Stage
  <2> QED
    BY <2>1, <2>2 DEF editable, CanAdd
<1>3. ASSUME NEW label \in Labels
      PROVE  /\ InStep(w, v, InLibrary(w, u, label), InLibrary(v, u, label))
             /\ InStep(w, v, editable(w, u, InLibrary(w, u, label)),
                            editable(v, u, InLibrary(v, u, label)))
  <2>1. CASE labelled(w, u, label) = "unknown"
    BY <1>2, <2>1, PlacesAlike, StepsAlike DEF InLibrary
  <2>2. CASE labelled(w, u, label) # "unknown"
    <3>1. labelled(w, u, label) = u /\ labelled(v, u, label) = u
      BY <2>2, PlacesAlike
    <3>2. InLibrary(w, u, label) = Then(w, "shelf", u) /\ InLibrary(v, u, label) = Then(v, "shelf", u)
      BY <1>1, <3>1 DEF InLibrary
    <3> QED
      BY <1>1, <1>2, <3>2, StepsAlike
  <2> QED
    BY <2>1, <2>2
<1>4. ASSUME NEW docID
      PROVE  /\ InStep(w, v, At(w, u, docID), At(v, u, docID))
             /\ InStep(w, v, editable(w, u, At(w, u, docID)), editable(v, u, At(v, u, docID)))
  <2>1. CASE docID = ""
    <3>1. \A x : At(x, u, docID) = Refuse(x, "invalid_argument")
      BY <2>1 DEF At
    <3> QED
      BY <1>2, <3>1, StepsAlike
  <2>2. CASE docID # ""
    <3>1. PICK p : p # "atlas" /\ holding(w, u, docID) = p /\ holding(v, u, docID) = p
      BY PlacesAlike
    <3>2. At(w, u, docID) = Then(w, "shelf", p) /\ At(v, u, docID) = Then(v, "shelf", p)
      BY <2>2, <3>1 DEF At
    <3> QED
      BY <1>2, <3>1, <3>2, StepsAlike
  <2> QED
    BY <2>1, <2>2
<1> QED
  BY <1>3, <1>4

\* The handlers of DocumentService treat an outsider alike.
LEMMA DocumentInStep ==
  ASSUME NEW w, NEW v, NEW u \in Users, Outsider(w, u), Outsider(v, u), ButForAtlas(w, v, u),
         NEW q \in DocumentRequests, NEW s, KnownStage(q, s)
  PROVE  InStep(w, v, DocumentService(w, u, q, s), DocumentService(v, u, q, s))
<1>1. CASE q \in ListDocumentsRequest
  <2>1. \A x : DocumentService(x, u, q, s) = DocumentList(x, u, q, s)
    BY <1>1 DEF DocumentService, ListDocumentsRequest
  <2>2. CASE s.at = "start"
    BY <1>1, <2>1, <2>2, ShelvesAlike DEF DocumentList, ListDocumentsRequest
  <2>3. CASE s.at # "start"
    BY <2>1, <2>3, RowsAlike, SharedAsAlike DEF DocumentList, InStep
  <2> QED
    BY <2>2, <2>3
<1>2. CASE q \in VerifyRequest
  <2>1. \A x : DocumentService(x, u, q, s) = DocumentVerify(x, u, q, s)
    BY <1>2 DEF DocumentService, VerifyRequest
  <2>2. CASE s.at = "start"
    BY <1>2, <2>1, <2>2, ShelvesAlike DEF DocumentVerify
  <2>3. CASE s.at # "start"
    BY <2>1, <2>3, RowsAlike, SharedAsAlike DEF DocumentVerify, InStep
  <2> QED
    BY <2>2, <2>3
<1>3. CASE q \in InspectRequest
  <2>1. \A x : DocumentService(x, u, q, s) = DocumentInspect(x, u, q)
    BY <1>3 DEF DocumentService, InspectRequest
  <2> QED
    BY <2>1, StepsAlike DEF DocumentInspect
<1>4. CASE q \in RemoveDocumentRequest
  <2>1. \A x : DocumentService(x, u, q, s) = DocumentRemove(x, u, q, s)
    BY <1>4 DEF DocumentService, RemoveDocumentRequest
  <2>2. s.at \in {"start", "shelf", "found"}
    BY <1>4 DEF KnownStage, RemoveDocumentRequest
  <2>3. CASE s.at = "start"
    BY <2>1, <2>3, ShelvesAlike DEF DocumentRemove
  <2>4. CASE s.at = "shelf"
    <3>1. CASE DocumentsGet(w, u, s.it).err = "none"
      <4>1. \A x : x = w \/ x = v => DocumentService(x, u, q, s) = Then(x, "found", s.it)
        BY <2>1, <2>4, <3>1, RowsAlike DEF DocumentRemove
      <4> QED
        BY <4>1, StepsAlike
    <3>2. CASE DocumentsGet(w, u, s.it).err # "none"
      <4>1. \A x : x = w \/ x = v => DocumentService(x, u, q, s) = Documented(DocumentsGet(x, u, s.it), "none")
        BY <2>1, <2>4, <3>2, RowsAlike DEF DocumentRemove, Documented
      <4> QED
        BY <4>1, RowsAlike, SharedAlike DEF InStep
    <3> QED
      BY <3>1, <3>2
  <2>5. CASE s.at = "found"
    BY <2>1, <2>5, RowsAlike, SharedAlike DEF DocumentRemove, InStep
  <2> QED
    BY <2>2, <2>3, <2>4, <2>5
<1>5. CASE q \in RenameDocumentRequest
  <2>1. \A x : DocumentService(x, u, q, s) = DocumentRename(x, u, q, s)
    BY <1>5 DEF DocumentService, RenameDocumentRequest
  <2>2. CASE s.at = "shelf"
    BY <2>1, <2>2, RowsAlike, SharedAlike DEF DocumentRename, InStep
  <2>3. CASE s.at # "shelf" /\ q.title \in {"", "long"}
    BY <2>1, <2>3, StepsAlike DEF DocumentRename
  <2>4. CASE s.at # "shelf" /\ q.title \notin {"", "long"}
    BY <2>1, <2>4, ShelvesAlike DEF DocumentRename
  <2> QED
    BY <2>2, <2>3, <2>4
<1>6. CASE q \in ReadRequest
  <2>1. \A x : DocumentService(x, u, q, s) = DocumentRead(x, u, q, s)
    BY <1>6 DEF DocumentService, ReadRequest
  <2>2. CASE s.at = "start"
    BY <2>1, <2>2, ShelvesAlike DEF DocumentRead
  <2>3. CASE s.at # "start" /\ q.at_chunk_id \notin ReadChunk \cup {-1}
    BY <2>1, <2>3, StepsAlike DEF DocumentRead
  <2>4. CASE s.at # "start" /\ q.at_chunk_id \in ReadChunk \cup {-1}
    BY <2>1, <2>4, RowsAlike, SharedAlike DEF DocumentRead, InStep
  <2> QED
    BY <2>2, <2>3, <2>4
<1> QED
  BY <1>1, <1>2, <1>3, <1>4, <1>5, <1>6 DEF DocumentRequests

\* The handlers of JobService treat an outsider alike.
LEMMA JobInStep ==
  ASSUME NEW w, NEW v, NEW u \in Users, Outsider(w, u), Outsider(v, u), ButForAtlas(w, v, u),
         NEW q \in JobRequests, NEW s, KnownStage(q, s)
  PROVE  InStep(w, v, JobService(w, u, q, s), JobService(v, u, q, s))
<1>1. CASE q \in EnqueueRequest
  <2>1. \A x : JobService(x, u, q, s) = JobEnqueue(x, u, q, s)
    BY <1>1 DEF JobService, EnqueueRequest
  <2>2. CASE s.at = "start" /\ q.source = ""
    BY <2>1, <2>2, StepsAlike DEF JobEnqueue
  <2>3. CASE s.at = "start" /\ q.source # ""
    <3>1. q.library \in Labels
      BY <1>1 DEF EnqueueRequest
    <3>2. \A x : JobService(x, u, q, s) = editable(x, u, InLibrary(x, u, q.library))
      BY <2>1, <2>3 DEF JobEnqueue
    <3> QED
      BY <3>1, <3>2, ShelvesAlike
  <2>4. CASE s.at # "start" /\ Targets(q.source) # "none"
    BY <2>1, <2>4, StepsAlike DEF JobEnqueue
  <2>5. CASE s.at # "start" /\ Targets(q.source) = "none"
    BY <2>1, <2>5, RowsAlike, SharedAsAlike DEF JobEnqueue, InStep
  <2> QED
    BY <2>2, <2>3, <2>4, <2>5
<1>2. CASE q \in ListJobsRequest
  <2>1. \A x : JobService(x, u, q, s) = ListJobs(x, u, q, s)
    BY <1>2 DEF JobService, ListJobsRequest
  <2>2. CASE s.at = "start"
    BY <1>2, <2>1, <2>2, ShelvesAlike DEF ListJobs, ListJobsRequest
  <2>3. CASE s.at # "start"
    BY <2>1, <2>3, RowsAlike, SharedAsAlike DEF ListJobs, InStep
  <2> QED
    BY <2>2, <2>3
<1>3. CASE q \in CancelJobRequest
  <2>1. \A x : JobService(x, u, q, s) = CancelJob(x, u, q, s)
    BY <1>3 DEF JobService, CancelJobRequest
  <2>2. s.at \in {"start", "shelf", "queued"}
    BY <1>3 DEF KnownStage, CancelJobRequest
  <2>3. CASE s.at = "start" /\ q.job_id = 0
    BY <2>1, <2>3, StepsAlike DEF CancelJob
  <2>4. CASE s.at = "start" /\ q.job_id # 0
    BY <1>3, <2>1, <2>4, ShelvesAlike DEF CancelJob, CancelJobRequest
  <2>5. CASE s.at = "shelf"
    <3>1. /\ JobStatus(w, u, s.it).err = JobStatus(v, u, s.it).err
          /\ JobStatus(w, u, s.it).out = JobStatus(v, u, s.it).out
      BY RowsAlike
    <3>2. CASE JobStatus(w, u, s.it).err = "none" /\ JobStatus(w, u, s.it).out = "queued"
      <4>1. \A x : x = w \/ x = v => JobService(x, u, q, s) = Then(x, "queued", s.it)
        BY <2>1, <2>5, <3>1, <3>2 DEF CancelJob
      <4> QED
        BY <4>1, StepsAlike
    <3>3. CASE ~ (JobStatus(w, u, s.it).err = "none" /\ JobStatus(w, u, s.it).out = "queued")
      <4> DEFINE said(x) == [status |-> JobStatus(x, u, s.it).out]
      <4>1. said(w) = said(v)
        BY <3>1
      <4>2. \A x : x = w \/ x = v => JobService(x, u, q, s) = Documented(JobStatus(x, u, s.it), said(x))
        BY <2>1, <2>5, <3>1, <3>3 DEF CancelJob
      <4> HIDE DEF said
      <4> QED
        BY <3>1, <4>1, <4>2, SharedAlike DEF InStep
    <3> QED
      BY <3>2, <3>3
  <2>6. CASE s.at = "queued"
    BY <2>1, <2>6, RowsAlike, SharedAsAlike DEF CancelJob, InStep
  <2> QED
    BY <2>2, <2>3, <2>4, <2>5, <2>6
<1> QED
  BY <1>1, <1>2, <1>3 DEF JobRequests

\* The handler of IngestService treats an outsider alike.
LEMMA IngestInStep ==
  ASSUME NEW w, NEW v, NEW u, ButForAtlas(w, v, u), NEW q, NEW s
  PROVE  InStep(w, v, IngestService(w, u, q, s), IngestService(v, u, q, s))
<1>1. CASE checkSource(q.source) # "ok" \/ Acquire(q.source) # "none"
  BY <1>1, StepsAlike DEF IngestService, IngestIngest
<1>2. CASE checkSource(q.source) = "ok" /\ Acquire(q.source) = "none"
  <2> DEFINE after(x) == [x EXCEPT !.docs[u] = IF @ = "none" THEN FileTitle ELSE @]
  <2>1. resultMessage(w, u) = resultMessage(v, u)
    BY DEF resultMessage, ButForAtlas
  <2>2. /\ IngestService(w, u, q, s) = Done(after(w), "ok", resultMessage(w, u))
        /\ IngestService(v, u, q, s) = Done(after(v), "ok", resultMessage(v, u))
    BY <1>2 DEF IngestService, IngestIngest
  <2> HIDE DEF after
  <2> QED
    BY <2>1, <2>2 DEF InStep, SameAnswer, Done
<1> QED
  BY <1>1, <1>2

\* The handlers of AccountService treat an outsider alike.
LEMMA AccountInStep ==
  ASSUME NEW w, NEW v, NEW u, Outsider(w, u), Outsider(v, u), ButForAtlas(w, v, u),
         NEW q \in AccountRequests, NEW s, KnownStage(q, s)
  PROVE  InStep(w, v, AccountService(w, u, q, s), AccountService(v, u, q, s))
<1>a. AdminsMe(w, u).out = AdminsMe(v, u).out /\ AdminsMe(w, u).err = AdminsMe(v, u).err
  BY DEF AdminsMe, Result_, ButForAtlas
<1>b. ASSUME NEW x, x = w \/ x = v
      PROVE  /\ admin(x, u) = Refuse(x, adminCodes("ErrNotAdmin"))
             /\ passwordAdmin(x, u) = Refuse(x, adminCodes("ErrNotAdmin"))
             /\ passwordAdmin(x, u).done
             /\ ~ AdminsMe(x, u).out.admin
  <2>1. ~ AdminsMe(x, u).out.admin
    BY <1>b DEF AdminsMe, Result_, Outsider
  <2>2. admin(x, u) = Refuse(x, adminCodes("ErrNotAdmin"))
    BY <2>1 DEF admin
  <2>3. \A code : Refuse(x, code).done
    BY DEF Refuse, Done
  <2> QED
    BY <2>1, <2>2, <2>3 DEF passwordAdmin
<1>d. ASSUME NEW x, x = w \/ x = v
      PROVE  /\ PasswordsAdd(x, u, q.username).err = IF q.username = "" THEN "ErrUsername" ELSE "unnamed"
             /\ PasswordsReset(x, u, q.username).err = "unnamed"
             /\ PasswordsRemove(x, u, q.username).err = "unnamed"
  <2>1. u \notin x.administrators
    BY <1>d DEF Outsider
  <2>2. /\ add_password_account(x, u, q.username) = Raise(x, "DSA01")
        /\ reset_password(x, u, q.username) = Raise(x, "DSA01")
        /\ remove_password_account(x, u, q.username) = Raise(x, "DSA01")
    BY <2>1 DEF add_password_account, reset_password, remove_password_account
  <2> QED
    BY <2>2 DEF PasswordsAdd, PasswordsReset, PasswordsRemove, Named, Result_, Raise
<1>e. AdminsRecord(w, u).err = AdminsRecord(v, u).err
  BY NamedAlike DEF AdminsRecord, Alike, Raise, Outsider
<1>1. CASE q \in MeRequest
  <2>1. \A x : AccountService(x, u, q, s) = AccountMe(x, u)
    BY <1>1 DEF AccountService, MeRequest
  <2> QED
    BY <2>1, <1>a, SharedAlike DEF AccountMe, InStep
<1>2. CASE q \in ListAccountsRequest
  <2>1. \A x : AccountService(x, u, q, s) = AccountList(x, u, s)
    BY <1>2 DEF AccountService, ListAccountsRequest
  <2>2. CASE s.at = "start"
    BY <2>1, <2>2, <1>b, StepsAlike DEF AccountList
  <2>3. CASE s.at # "start"
    <3>1. {[username |-> x, admin |-> x \in w.administrators] : x \in w.accounts}
            = {[username |-> x, admin |-> x \in v.administrators] : x \in v.accounts}
      BY DEF ButForAtlas
    <3>2. AdminsList(w, u).err = AdminsList(v, u).err /\ AdminsList(w, u).out = AdminsList(v, u).out
      BY <3>1 DEF AdminsList, Result_
    <3> QED
      BY <2>1, <2>3, <3>2, SharedAsAlike DEF AccountList, InStep
  <2> QED
    BY <2>2, <2>3
<1>3. CASE q \in AddRequest
  <2>1. \A x : AccountService(x, u, q, s) = AccountAdd(x, u, q, s)
    BY <1>3 DEF AccountService, AddRequest
  <2>2. s.at \in {"start", "admin", "record"}
    BY <1>3 DEF KnownStage, Recording, AddRequest
  <2>3. CASE s.at = "start"
    <3>1. \A x : x = w \/ x = v => AccountService(x, u, q, s) = Refuse(x, adminCodes("ErrNotAdmin"))
      BY <2>1, <2>3, <1>b DEF AccountAdd, Recorded
    <3> QED
      BY <3>1, StepsAlike
  <2>4. CASE s.at = "admin"
    <3>1. \A x : x = w \/ x = v =>
            AccountService(x, u, q, s) = Administered(PasswordsAdd(x, u, q.username), "none")
      BY <2>1, <2>4, <1>d DEF AccountAdd, Recorded, Administered
    <3> QED
      BY <3>1, <1>d, SharedAlike DEF InStep
  <2>5. CASE s.at = "record"
    BY <2>1, <2>5, <1>e, SharedAlike DEF AccountAdd, Recorded, InStep
  <2> QED
    BY <2>2, <2>3, <2>4, <2>5
<1>4. CASE q \in ResetRequest
  <2>1. \A x : AccountService(x, u, q, s) = AccountReset(x, u, q, s)
    BY <1>4 DEF AccountService, ResetRequest
  <2>2. s.at \in {"start", "admin", "record"}
    BY <1>4 DEF KnownStage, Recording, ResetRequest
  <2>3. CASE s.at = "start"
    <3>1. \A x : x = w \/ x = v => AccountService(x, u, q, s) = Refuse(x, adminCodes("ErrNotAdmin"))
      BY <2>1, <2>3, <1>b DEF AccountReset, Recorded
    <3> QED
      BY <3>1, StepsAlike
  <2>4. CASE s.at = "admin"
    <3>1. \A x : x = w \/ x = v =>
            AccountService(x, u, q, s) = Administered(PasswordsReset(x, u, q.username), "none")
      BY <2>1, <2>4, <1>d DEF AccountReset, Recorded, Administered
    <3> QED
      BY <3>1, <1>d, SharedAlike DEF InStep
  <2>5. CASE s.at = "record"
    BY <2>1, <2>5, <1>e, SharedAlike DEF AccountReset, Recorded, InStep
  <2> QED
    BY <2>2, <2>3, <2>4, <2>5
<1>5. CASE q \in UnlockRequest
  <2>1. \A x : AccountService(x, u, q, s) = AccountUnlock(x, u, q, s)
    BY <1>5 DEF AccountService, UnlockRequest
  <2>2. s.at \in {"start", "admin", "record"}
    BY <1>5 DEF KnownStage, Recording, UnlockRequest
  <2>3. CASE s.at = "start"
    <3>1. \A x : x = w \/ x = v => AccountService(x, u, q, s) = Refuse(x, adminCodes("ErrNotAdmin"))
      BY <2>1, <2>3, <1>b DEF AccountUnlock, Recorded
    <3> QED
      BY <3>1, StepsAlike
  <2>4. CASE s.at = "admin"
    <3>1. CASE q.username \in w.accounts
      <4>1. \A x : x = w \/ x = v => /\ PasswordsUnlock(x, u, q.username).err = "none"
                                   /\ PasswordsUnlock(x, u, q.username).w = x
        BY <3>1 DEF PasswordsUnlock, Result_, ButForAtlas
      <4>2. \A x : x = w \/ x = v => AccountService(x, u, q, s) = Then(x, "record", "none")
        BY <2>1, <2>4, <4>1 DEF AccountUnlock, Recorded
      <4> QED
        BY <4>2, StepsAlike
    <3>2. CASE q.username \notin w.accounts
      <4>1. \A x : x = w \/ x = v => PasswordsUnlock(x, u, q.username).err = "ErrNoSuchAccount"
        BY <3>2 DEF PasswordsUnlock, Result_, ButForAtlas
      <4>2. \A x : x = w \/ x = v =>
              AccountService(x, u, q, s) = Administered(PasswordsUnlock(x, u, q.username), "none")
        BY <2>1, <2>4, <4>1 DEF AccountUnlock, Recorded, Administered
      <4> QED
        BY <4>1, <4>2, SharedAlike DEF InStep
    <3> QED
      BY <3>1, <3>2
  <2>5. CASE s.at = "record"
    BY <2>1, <2>5, <1>e, SharedAlike DEF AccountUnlock, Recorded, InStep
  <2> QED
    BY <2>2, <2>3, <2>4, <2>5
<1>6. CASE q \in RemoveAccountRequest
  <2>1. \A x : AccountService(x, u, q, s) = AccountRemove(x, u, q, s)
    BY <1>6 DEF AccountService, RemoveAccountRequest
  <2>2. s.at \in {"start", "admin", "record"}
    BY <1>6 DEF KnownStage, Recording, RemoveAccountRequest
  <2>3. CASE s.at = "start"
    <3>1. \A x : x = w \/ x = v => AccountService(x, u, q, s) = Refuse(x, adminCodes("ErrNotAdmin"))
      BY <2>1, <2>3, <1>b DEF AccountRemove, Recorded
    <3> QED
      BY <3>1, StepsAlike
  <2>4. CASE s.at = "admin"
    <3>1. \A x : x = w \/ x = v =>
            AccountService(x, u, q, s) = Administered(PasswordsRemove(x, u, q.username), "none")
      BY <2>1, <2>4, <1>d DEF AccountRemove, Recorded, Administered
    <3> QED
      BY <3>1, <1>d, SharedAlike DEF InStep
  <2>5. CASE s.at = "record"
    BY <2>1, <2>5, <1>e, SharedAlike DEF AccountRemove, Recorded, InStep
  <2> QED
    BY <2>2, <2>3, <2>4, <2>5
<1>7. CASE q \in SetAdminRequest
  <2>1. \A x : AccountService(x, u, q, s) = AccountSetAdmin(x, u, q, s)
    BY <1>7 DEF AccountService, SetAdminRequest
  <2>2. CASE s.at = "start"
    BY <2>1, <2>2, <1>b, StepsAlike DEF AccountSetAdmin
  <2>3. CASE s.at # "start"
    BY <2>1, <2>3, AdminsAlike, NamedAlike, SharedAlike DEF AccountSetAdmin, AdminsSetAdmin, InStep
  <2> QED
    BY <2>2, <2>3
<1>8. CASE q \in SignInRequest
  <2>1. \A x : AccountService(x, u, q, s) = AccountSignIn(x, u, s)
    BY <1>8 DEF AccountService, SignInRequest
  <2>2. CASE s.at = "start"
    BY <2>1, <2>2, <1>b, StepsAlike DEF AccountSignIn, administering
  <2>3. CASE s.at # "start"
    <3>1. /\ SettingsStored(w, u).err = SettingsStored(v, u).err
          /\ SettingsStored(w, u).out = SettingsStored(v, u).out
      BY DEF SettingsStored, Result_, ButForAtlas
    <3> QED
      BY <2>1, <2>3, <3>1, SharedAsAlike DEF AccountSignIn, InStep
  <2> QED
    BY <2>2, <2>3
<1>9. CASE q \in UpdateSignInRequest
  <2>1. \A x : AccountService(x, u, q, s) = AccountUpdateSignIn(x, u, q, s)
    BY <1>9 DEF AccountService, UpdateSignInRequest
  <2>2. CASE s.at = "start"
    BY <2>1, <2>2, <1>b, StepsAlike DEF AccountUpdateSignIn, administering
  <2>3. CASE s.at # "start"
    <3> DEFINE r(x) == SettingsUpdate(x, u, q.change)
               out == [file |-> q.change = "in_file", saved |-> q.change # "in_file"]
    <3>1. ASSUME NEW x, x = w \/ x = v
          PROVE  set_setting(x, u, q.change) = Raise(x, "DSA01")
      BY <3>1 DEF set_setting, Outsider
    <3>2. r(w).err = r(v).err
      <4>1. \A x : x = w \/ x = v => Raise(x, "DSA01").sql = "DSA01"
        BY DEF Raise
      <4>2. \A x : x = w \/ x = v => SettingsSet(x, u, q.change).err = adminRefusals("DSA01")
        BY <3>1, <4>1 DEF SettingsSet, adminsRun, Named, Result_
      <4>3. \A x : r(x) = IF checkChange(q.change) # "none" THEN Result_(checkChange(q.change), x, "none")
                          ELSE IF q.change = "in_file" THEN Result_("none", x, "none")
                          ELSE SettingsSet(x, u, q.change)
        BY DEF SettingsUpdate
      <4>4. \A err, x : Result_(err, x, "none").err = err
        BY DEF Result_
      <4> HIDE DEF r
      <4>5. CASE checkChange(q.change) # "none" \/ q.change = "in_file"
        BY <4>3, <4>4, <4>5
      <4>6. CASE ~ (checkChange(q.change) # "none" \/ q.change = "in_file")
        BY <4>2, <4>3, <4>6
      <4> QED
        BY <4>5, <4>6
    <3>3. \A x : AccountService(x, u, q, s) = IF r(x).err # "none" THEN Refuse(r(x).w, settingsError(r(x).err))
                                              ELSE Done(r(x).w, "ok", out)
      BY <2>1, <2>3 DEF AccountUpdateSignIn
    <3> HIDE DEF r, out
    <3>4. SameAnswer(AccountService(w, u, q, s), AccountService(v, u, q, s))
      BY <3>2, <3>3 DEF SameAnswer, Refuse, Done
    <3> QED
      BY <3>4 DEF InStep
  <2> QED
    BY <2>2, <2>3
<1> QED
  BY <1>1, <1>2, <1>3, <1>4, <1>5, <1>6, <1>7, <1>8, <1>9 DEF AccountRequests

-----------------------------------------------------------------------------
(* What a transaction leaves. *)

\* A world of the right shape with the same document and job in atlas.
Keeps(w, x) ==
  /\ x \in World
  /\ x.docs["atlas"] = w.docs["atlas"] /\ x.jobs["atlas"] = w.jobs["atlas"]

\* No function on libraries but the one that deletes touches what is in atlas.
LEMMA LibrariesKeep ==
  ASSUME NEW w \in World, NEW u \in Users, NEW member \in Users, NEW role,
         NEW name, name \in AnyName
  PROVE  /\ \A slug : name # "" => Keeps(w, create_library(w, u, slug, name).w)
         /\ Keeps(w, grant_library(w, u, member, role).w)
         /\ Keeps(w, revoke_library(w, u, member).w)
         /\ Keeps(w, library_members(w, u).w)
         /\ Keeps(w, library_events(w, u).w)
         /\ Keeps(w, accept_invitation(w, u).w)
         /\ Keeps(w, decline_invitation(w, u).w)
         /\ Keeps(w, rename_library(w, u, name).w)
         /\ Keeps(w, restore_library(w, u).w)
         /\ role \in Roles => Keeps(w, grant_library_group(w, u, role).w)
         /\ Keeps(w, library_groups(w, u).w)
         /\ Keeps(w, revoke_library_group(w, u).w)
<1>1. Keeps(w, w) /\ \A sql : Raise(w, sql).w = w
  BY DEF Keeps, Raise
<1>2. \A x, out : Commit(x, out).w = x
  BY DEF Commit
<1>3. name # "" /\ name # "unprintable" => name \in Names
  BY DEF AnyName
<1>4. ASSUME NEW slug, name # "" PROVE Keeps(w, create_library(w, u, slug, name).w)
  <2> DEFINE x == [w EXCEPT !.library = "live", !.name = name,
                     !.grants = [v \in Users |-> IF v = u THEN "admin" ELSE "none"]]
  <2>1. name \in Names => Keeps(w, x)
    BY DEF Keeps, World, Roles
  <2> HIDE DEF x
  <2> QED
    BY <1>1, <1>2, <1>3, <1>4, <2>1 DEF create_library, x
<1>5. Keeps(w, grant_library(w, u, member, role).w)
  <2>1. role \in Roles => Keeps(w, [w EXCEPT !.offers[member] = role])
    BY DEF Keeps, World
  <2>2. role \in Roles => Keeps(w, [w EXCEPT !.grants[member] = role])
    BY DEF Keeps, World
  <2> QED
    BY <1>1, <1>2, <2>1, <2>2 DEF grant_library
<1>6. Keeps(w, revoke_library(w, u, member).w)
  <2>1. Keeps(w, [w EXCEPT !.offers[member] = "none"])
    BY DEF Keeps, World
  <2>2. Keeps(w, [w EXCEPT !.grants[member] = "none"])
    BY DEF Keeps, World
  <2> QED
    BY <1>1, <1>2, <2>1, <2>2 DEF revoke_library
<1>7. Keeps(w, library_members(w, u).w) /\ Keeps(w, library_events(w, u).w) /\ Keeps(w, library_groups(w, u).w)
  BY <1>1, <1>2 DEF library_members, library_events, library_groups
<1>8. Keeps(w, accept_invitation(w, u).w)
  <2>1. Keeps(w, [w EXCEPT !.grants[u] = w.offers[u], !.offers[u] = "none"])
    BY DEF Keeps, World
  <2> QED
    BY <1>1, <1>2, <2>1 DEF accept_invitation
<1>9. Keeps(w, decline_invitation(w, u).w)
  <2>1. Keeps(w, [w EXCEPT !.offers[u] = "none"])
    BY DEF Keeps, World
  <2> QED
    BY <1>1, <1>2, <2>1 DEF decline_invitation
<1>10. Keeps(w, rename_library(w, u, name).w)
  <2>1. name \in Names => Keeps(w, [w EXCEPT !.name = name])
    BY DEF Keeps, World
  <2> QED
    BY <1>1, <1>2, <1>3, <2>1 DEF rename_library
<1>11. Keeps(w, restore_library(w, u).w)
  <2>1. Keeps(w, [w EXCEPT !.library = "live"])
    BY DEF Keeps, World
  <2> QED
    BY <1>1, <1>2, <2>1 DEF restore_library
<1>12. role \in Roles => Keeps(w, grant_library_group(w, u, role).w)
  <2>1. role \in Roles => Keeps(w, [w EXCEPT !.groupRole = role])
    BY DEF Keeps, World
  <2> QED
    BY <1>1, <1>2, <2>1 DEF grant_library_group
<1>13. Keeps(w, revoke_library_group(w, u).w)
  <2>1. Keeps(w, [w EXCEPT !.groupRole = "none"])
    BY DEF Keeps, World
  <2> QED
    BY <1>1, <1>2, <2>1 DEF revoke_library_group
<1> QED
  BY <1>4, <1>5, <1>6, <1>7, <1>8, <1>9, <1>10, <1>11, <1>12, <1>13

\* The deletion leaves a deleted library behind.
LEMMA DeletingLeaves ==
  ASSUME NEW w \in World, NEW u \in Users
  PROVE  /\ delete_library(w, u).w \in World
         /\ \/ delete_library(w, u).w = w
            \/ w.library = "live" /\ delete_library(w, u).w.library = "deleted"
<1> DEFINE x == [w EXCEPT !.library = "deleted",
                          !.jobs["atlas"] = IF @ = "queued" THEN "failed" ELSE @]
<1>1. x \in World /\ x.library = "deleted"
  BY DEF World, Places, Slugs
<1> HIDE DEF x
<1>2. CASE Holds(w, u, "admin")
  <2>1. delete_library(w, u).w = x
    BY <1>2 DEF delete_library, Commit, x
  <2>2. w.library = "live"
    BY <1>2 DEF Holds
  <2> QED
    BY <1>1, <2>1, <2>2
<1>3. CASE ~ Holds(w, u, "admin")
  <2>1. delete_library(w, u).w = w
    BY <1>3 DEF delete_library, Raise
  <2> QED
    BY <2>1
<1> QED
  BY <1>2, <1>3

\* No function on groups touches what is in atlas.
LEMMA GroupsKeep ==
  ASSUME NEW w \in World, NEW u \in Users, NEW member \in Users, NEW role,
         NEW name, name \in AnyName
  PROVE  /\ name # "" => Keeps(w, create_group(w, u, name).w)
         /\ Keeps(w, rename_group(w, u, name).w)
         /\ Keeps(w, delete_group(w, u).w)
         /\ Keeps(w, invite_to_group(w, u, member, role).w)
         /\ Keeps(w, force_into_group(w, u, member, role).w)
         /\ Keeps(w, accept_group_invitation(w, u).w)
         /\ Keeps(w, decline_group_invitation(w, u).w)
         /\ Keeps(w, remove_from_group(w, u, member).w)
         /\ Keeps(w, group_members_of(w, u).w)
         /\ Keeps(w, group_libraries(w, u).w)
         /\ Keeps(w, group_events_of(w, u).w)
<1>1. Keeps(w, w) /\ \A sql : Raise(w, sql).w = w
  BY DEF Keeps, Raise
<1>2. \A x, out : Commit(x, out).w = x
  BY DEF Commit
<1>3. name # "" /\ name # "unprintable" => name \in Names
  BY DEF AnyName
<1>4. name # "" => Keeps(w, create_group(w, u, name).w)
  <2>1. name \in Names => Keeps(w, [w EXCEPT !.group = TRUE, !.groupName = name, !.members[u] = "maintainer"])
    BY DEF Keeps, World, MemberRoles
  <2> QED
    BY <1>1, <1>2, <1>3, <2>1 DEF create_group
<1>5. Keeps(w, rename_group(w, u, name).w)
  <2>1. name \in Names => Keeps(w, [w EXCEPT !.groupName = name])
    BY DEF Keeps, World
  <2> QED
    BY <1>1, <1>2, <1>3, <2>1 DEF rename_group
<1>6. Keeps(w, delete_group(w, u).w)
  <2> DEFINE x == [w EXCEPT !.group = FALSE, !.groupRole = "none", !.provided = {},
                     !.members = [v \in Users |-> "none"],
                     !.groupOffers = [v \in Users |-> "none"]]
  <2>1. Keeps(w, x)
    BY DEF Keeps, World
  <2> HIDE DEF x
  <2> QED
    BY <1>1, <1>2, <2>1 DEF delete_group, x
<1>7. Keeps(w, invite_to_group(w, u, member, role).w)
  <2>1. role \in MemberRoles => Keeps(w, [w EXCEPT !.members[member] = role])
    BY DEF Keeps, World
  <2>2. role \in MemberRoles => Keeps(w, [w EXCEPT !.groupOffers[member] = role])
    BY DEF Keeps, World
  <2> QED
    BY <1>1, <1>2, <2>1, <2>2 DEF invite_to_group
<1>8. Keeps(w, force_into_group(w, u, member, role).w)
  <2>1. role \in MemberRoles => Keeps(w, [w EXCEPT !.members[member] = role, !.groupOffers[member] = "none"])
    BY DEF Keeps, World
  <2> QED
    BY <1>1, <1>2, <2>1 DEF force_into_group
<1>9. Keeps(w, accept_group_invitation(w, u).w)
  <2>1. Keeps(w, [w EXCEPT !.members[u] = w.groupOffers[u], !.groupOffers[u] = "none"])
    BY DEF Keeps, World
  <2> QED
    BY <1>1, <1>2, <2>1 DEF accept_group_invitation
<1>10. Keeps(w, decline_group_invitation(w, u).w)
  <2>1. Keeps(w, [w EXCEPT !.groupOffers[u] = "none"])
    BY DEF Keeps, World
  <2> QED
    BY <1>1, <1>2, <2>1 DEF decline_group_invitation
<1>11. Keeps(w, remove_from_group(w, u, member).w)
  <2>1. Keeps(w, [w EXCEPT !.groupOffers[member] = "none"])
    BY DEF Keeps, World
  <2>2. Keeps(w, [w EXCEPT !.members[member] = "none"])
    BY DEF Keeps, World
  <2> QED
    BY <1>1, <1>2, <2>1, <2>2 DEF remove_from_group
<1>12. /\ Keeps(w, group_members_of(w, u).w) /\ Keeps(w, group_libraries(w, u).w)
       /\ Keeps(w, group_events_of(w, u).w)
  BY <1>1, <1>2 DEF group_members_of, group_libraries, group_events_of
<1> QED
  BY <1>4, <1>5, <1>6, <1>7, <1>8, <1>9, <1>10, <1>11, <1>12

\* No function on accounts touches what is in atlas, although a new account
\* starts with an empty library.
LEMMA AdminsKeep ==
  ASSUME NEW w \in World, NEW u \in Users, NEW member \in Users, NEW make
  PROVE  /\ Keeps(w, set_admin(w, u, member, make).w)
         /\ Keeps(w, add_password_account(w, u, member).w)
         /\ Keeps(w, reset_password(w, u, member).w)
         /\ Keeps(w, remove_password_account(w, u, member).w)
<1>1. Keeps(w, w) /\ \A sql : Raise(w, sql).w = w
  BY DEF Keeps, Raise
<1>2. \A x, out : Commit(x, out).w = x
  BY DEF Commit
<1>3. Keeps(w, set_admin(w, u, member, make).w)
  <2>1. Keeps(w, [w EXCEPT !.administrators = IF make THEN @ \cup {member} ELSE @ \ {member}])
    BY DEF Keeps, World
  <2> QED
    BY <1>1, <1>2, <2>1 DEF set_admin
<1>4. Keeps(w, add_password_account(w, u, member).w)
  <2> DEFINE x == [w EXCEPT !.accounts = @ \cup {member}, !.docs[member] = "none", !.jobs[member] = "none"]
  <2>1. member # "atlas" /\ member \in Places /\ "atlas" \in Places
    BY PlacesAssumption DEF Places, Slugs
  <2>2. Keeps(w, x)
    <3> DEFINE d == [w.docs EXCEPT ![member] = "none"]
               j == [w.jobs EXCEPT ![member] = "none"]
               a == w.accounts \cup {member}
    <3>1. /\ d \in [Places -> Names \cup {"none"}] /\ d["atlas"] = w.docs["atlas"]
          /\ j \in [Places -> {"none", "queued", "done", "cancelled", "failed"}]
          /\ j["atlas"] = w.jobs["atlas"] /\ a \in SUBSET Users
      BY <2>1 DEF World
    <3>2. x = [w EXCEPT !.accounts = a, !.docs = d, !.jobs = j]
      BY DEF World
    <3> HIDE DEF a, d, j, x
    <3> QED
      BY <3>1, <3>2 DEF Keeps, World
  <2> HIDE DEF x
  <2> QED
    BY <1>1, <1>2, <2>2 DEF add_password_account, x
<1>5. Keeps(w, reset_password(w, u, member).w)
  BY <1>1, <1>2 DEF reset_password
<1>6. Keeps(w, remove_password_account(w, u, member).w)
  <2> DEFINE x(stranded) == [w EXCEPT
          !.accounts = @ \ {member}, !.administrators = @ \ {member},
          !.provided = @ \ {member},
          !.grants = [v \in Users |-> IF v = member THEN "none"
                                      ELSE IF stranded /\ v = u THEN "admin" ELSE @[v]],
          !.offers = [v \in Users |-> IF v = member \/ (stranded /\ v = u)
                                      THEN "none" ELSE @[v]],
          !.members[member] = "none", !.groupOffers[member] = "none"]
  <2>1. ASSUME NEW stranded \in BOOLEAN PROVE Keeps(w, x(stranded))
    <3> DEFINE g == [v \in Users |-> IF v = member THEN "none"
                                     ELSE IF stranded /\ v = u THEN "admin" ELSE w.grants[v]]
               o == [v \in Users |-> IF v = member \/ (stranded /\ v = u)
                                     THEN "none" ELSE w.offers[v]]
               m == [w.members EXCEPT ![member] = "none"]
               i == [w.groupOffers EXCEPT ![member] = "none"]
               a == w.accounts \ {member}
               b == w.administrators \ {member}
               p == w.provided \ {member}
    <3>1. g \in [Users -> Roles \cup {"none"}] /\ o \in [Users -> Roles \cup {"none"}]
      BY DEF World, Roles
    <3>2. m \in [Users -> MemberRoles \cup {"none"}] /\ i \in [Users -> MemberRoles \cup {"none"}]
      BY DEF World
    <3>3. a \in SUBSET Users /\ b \in SUBSET Users /\ p \in SUBSET Users
      BY DEF World
    <3> DEFINE y == [w EXCEPT !.accounts = a, !.administrators = b, !.provided = p]
               z == [y EXCEPT !.grants = g, !.offers = o, !.members = m, !.groupOffers = i]
    <3>4. x(stranded) = z
      BY DEF World
    <3> HIDE DEF g, o, m, i, a, b, p, x
    <3>5. Keeps(w, y)
      BY <3>3 DEF Keeps, World
    <3> HIDE DEF y
    <3>6. Keeps(y, z)
      BY <3>1, <3>2, <3>5 DEF Keeps, World
    <3> QED
      BY <3>4, <3>5, <3>6 DEF Keeps
  <2>2. Keeps(w, x(w.grants[member] = "admin" /\ admins_left(w, member, "none") = 0))
    BY <2>1
  <2> QED
    BY <1>1, <1>2, <2>2 DEF remove_password_account
<1> QED
  BY <1>3, <1>4, <1>5, <1>6

-----------------------------------------------------------------------------
(* What a stage of a handler leaves. *)

\* How far a handler has come.
Level(at) == CASE at = "start" -> 0 [] at \in {"find", "may", "shelf", "admin"} -> 1 [] OTHER -> 2

\* A stage ends the call or takes it further, and what is in atlas changes
\* only with its deletion or at the end of the call of one who edits it.
Sound(w, u, q, s, r) ==
  /\ r.done \/ (KnownStage(q, r.stage) /\ Level(r.stage.at) > Level(s.at))
  /\ r.w \in World
  /\ \/ Keeps(w, r.w)
     \/ w.library = "live" /\ r.w.library = "deleted"
     \/ r.done /\ s.at # "start" /\ Holds(w, u, "editor")

\* A repository leaves the world its transaction left.
LEMMA RunLeaves ==
  ASSUME NEW t
  PROVE  run(t).w = t.w /\ groupsRun(t).w = t.w /\ adminsRun(t).w = t.w
BY DEF run, groupsRun, adminsRun, Named, Result_

\* A handler that answers leaves the world its repository left.
LEMMA EndLeaves ==
  ASSUME NEW r, NEW out, NEW field
  PROVE  /\ Shared(r, out).done /\ Shared(r, out).w = r.w
         /\ Administered(r, out).done /\ Administered(r, out).w = r.w
         /\ Documented(r, out).done /\ Documented(r, out).w = r.w
         /\ SharedAs(r, field).done /\ SharedAs(r, field).w = r.w
         /\ AdministeredAs(r, field).done /\ AdministeredAs(r, field).w = r.w
         /\ DocumentedAs(r, field).done /\ DocumentedAs(r, field).w = r.w
<1>1. /\ \A o : Shared(r, o).done /\ Shared(r, o).w = r.w
      /\ \A o : Administered(r, o).done /\ Administered(r, o).w = r.w
      /\ \A o : Documented(r, o).done /\ Documented(r, o).w = r.w
  BY DEF Shared, sharingError, Administered, adminError, Documented, documentError, Refuse, Done
<1> QED
  BY <1>1 DEF SharedAs, AdministeredAs, DocumentedAs

\* A handler that ends with a transaction's result leaves what the transaction left.
LEMMA EndSound ==
  ASSUME NEW w, NEW u, NEW q, NEW s, NEW r, Keeps(w, r.w), NEW out, NEW field
  PROVE  /\ Sound(w, u, q, s, Shared(r, out)) /\ Sound(w, u, q, s, SharedAs(r, field))
         /\ Sound(w, u, q, s, Administered(r, out)) /\ Sound(w, u, q, s, AdministeredAs(r, field))
         /\ Sound(w, u, q, s, Documented(r, out)) /\ Sound(w, u, q, s, DocumentedAs(r, field))
BY EndLeaves DEF Sound, Keeps

\* So do a refusal, an answer and a stage of a higher level.
LEMMA StepSound ==
  ASSUME NEW w, NEW u, NEW q, NEW s, NEW x, Keeps(w, x)
  PROVE  /\ \A code : Sound(w, u, q, s, Refuse(x, code))
         /\ \A code, out : Sound(w, u, q, s, Done(x, code, out))
         /\ \A at, it : KnownStage(q, Stage(at, it)) /\ Level(at) > Level(s.at)
              => Sound(w, u, q, s, Then(x, at, it))
<1>1. \A code, out : Done(x, code, out).done /\ Done(x, code, out).w = x
  BY DEF Done
<1>2. \A at, it : /\ Then(x, at, it).w = x /\ Then(x, at, it).stage = Stage(at, it)
                  /\ Stage(at, it).at = at
  BY DEF Then, Stage
<1> QED
  BY <1>1, <1>2 DEF Sound, Keeps, Refuse

\* A table that is only read is kept.
LEMMA ReadsKeep ==
  ASSUME NEW w \in World, NEW u
  PROVE  /\ Keeps(w, w)
         /\ Keeps(w, LibrariesList(w, u).w) /\ Keeps(w, LibrariesInvitations(w, u).w)
         /\ Keeps(w, LibrariesDeleted(w, u).w) /\ Keeps(w, find(w, u).w)
         /\ Keeps(w, GroupsAll(w, u).w) /\ Keeps(w, GroupsInvitations(w, u).w)
         /\ Keeps(w, AdminsMe(w, u).w) /\ Keeps(w, AdminsList(w, u).w)
         /\ Keeps(w, AdminsRecord(w, u).w)
<1>1. Keeps(w, w)
  BY DEF Keeps
<1>2. AdminsRecord(w, u).w = w
  BY RunLeaves DEF AdminsRecord, Raise, Commit
<1>3. \A err, out : Result_(err, w, out).w = w
  BY DEF Result_
<1> QED
  BY <1>1, <1>2, <1>3 DEF LibrariesList, LibrariesInvitations, LibrariesDeleted, find, GroupsAll,
       GroupsInvitations, AdminsMe, AdminsList

\* A handler that leaves the world alone and goes on.
LEMMA GoesOn ==
  ASSUME NEW w \in World, NEW u, NEW q, NEW s, NEW at, NEW it,
         KnownStage(q, Stage(at, it)), Level(at) > Level(s.at)
  PROVE  Sound(w, u, q, s, Then(w, at, it))
<1>1. Keeps(w, w)
  BY ReadsKeep
<1> QED
  BY <1>1, StepSound

\* The handlers of LibraryService: every stage is sound.
LEMMA LibrarySound ==
  ASSUME NEW w \in World, NEW u \in Users, NEW q \in LibraryRequests, NEW s
  PROVE  Sound(w, u, q, s, LibraryService(w, u, q, s))
<1>1. CASE q \in ListRequest
  <2>1. LibraryService(w, u, q, s) = LibraryList(w, u)
    BY <1>1 DEF LibraryService, ListRequest
  <2> QED
    BY <2>1, ReadsKeep, EndSound DEF LibraryList
<1>2. CASE q \in CreateRequest
  <2>1. LibraryService(w, u, q, s) = LibraryCreate(w, u, q)
    BY <1>2 DEF LibraryService, CreateRequest
  <2>2. CASE q.slug = "" \/ q.name = ""
    BY <2>1, <2>2, ReadsKeep, StepSound DEF LibraryCreate
  <2>3. CASE ~ (q.slug = "" \/ q.name = "")
    <3>1. q.name \in AnyName
      BY <1>2 DEF CreateRequest
    <3>2. Keeps(w, create_library(w, u, q.slug, q.name).w)
      BY <2>3, <3>1, LibrariesKeep
    <3>3. Keeps(w, LibrariesCreate(w, u, q.slug, q.name).w)
      BY <3>2, RunLeaves DEF LibrariesCreate, Result_
    <3> QED
      BY <2>1, <2>3, <3>3, EndSound DEF LibraryCreate
  <2> QED
    BY <2>2, <2>3
<1>3. CASE q \in MembersRequest
  <2>1. LibraryService(w, u, q, s) = LibraryMembers(w, u)
    BY <1>3 DEF LibraryService, MembersRequest
  <2>2. Keeps(w, LibrariesMembers(w, u).w)
    BY <1>3, LibrariesKeep, RunLeaves DEF LibrariesMembers, AnyName
  <2> QED
    BY <2>1, <2>2, EndSound DEF LibraryMembers
<1>4. CASE q \in GrantRequest
  <2>1. LibraryService(w, u, q, s) = LibraryGrant(w, u, q)
    BY <1>4 DEF LibraryService, GrantRequest
  <2>2. Keeps(w, grant_library(w, u, q.username, q.role).w)
    BY <1>4, LibrariesKeep DEF GrantRequest, AnyName
  <2>3. Keeps(w, LibrariesGrant(w, u, q.username, q.role).w)
    BY <2>2, RunLeaves DEF LibrariesGrant, Result_
  <2> QED
    BY <2>1, <2>3, EndSound DEF LibraryGrant
<1>5. CASE q \in RevokeRequest
  <2>1. LibraryService(w, u, q, s) = LibraryRevoke(w, u, q)
    BY <1>5 DEF LibraryService, RevokeRequest
  <2>2. Keeps(w, LibrariesRevoke(w, u, q.username).w)
    BY <1>5, LibrariesKeep, RunLeaves DEF LibrariesRevoke, AnyName, RevokeRequest
  <2> QED
    BY <2>1, <2>2, EndSound DEF LibraryRevoke
<1>6. CASE q \in EventsRequest
  <2>1. LibraryService(w, u, q, s) = LibraryEvents(w, u)
    BY <1>6 DEF LibraryService, EventsRequest
  <2>2. Keeps(w, LibrariesEvents(w, u).w)
    BY <1>6, LibrariesKeep, RunLeaves DEF LibrariesEvents, AnyName
  <2> QED
    BY <2>1, <2>2, EndSound DEF LibraryEvents
<1>7. CASE q \in InvitationsRequest
  <2>1. LibraryService(w, u, q, s) = LibraryInvitations(w, u)
    BY <1>7 DEF LibraryService, InvitationsRequest
  <2> QED
    BY <2>1, ReadsKeep, EndSound DEF LibraryInvitations
<1>8. CASE q \in AcceptRequest
  <2>1. LibraryService(w, u, q, s) = LibraryAccept(w, u, s)
    BY <1>8 DEF LibraryService, AcceptRequest
  <2>2. Keeps(w, LibrariesAccept(w, u).w)
    BY <1>8, LibrariesKeep, RunLeaves DEF LibrariesAccept, AnyName, AcceptRequest
  <2>3. CASE s.at # "start"
    BY <2>1, <2>3, ReadsKeep, StepSound DEF LibraryAccept
  <2>4. CASE s.at = "start" /\ LibrariesAccept(w, u).err # "none"
    <3>1. LibraryService(w, u, q, s) = Refuse(LibrariesAccept(w, u).w, sharingCodes(LibrariesAccept(w, u).err))
      BY <2>1, <2>4 DEF LibraryAccept, sharingError
    <3> QED
      BY <2>2, <3>1, StepSound
  <2>5. CASE s.at = "start" /\ LibrariesAccept(w, u).err = "none"
    <3>1. PICK it : LibraryService(w, u, q, s) = Then(LibrariesAccept(w, u).w, "find", it)
      BY <2>1, <2>5 DEF LibraryAccept
    <3>2. KnownStage(q, Stage("find", it)) /\ Level("find") > Level(s.at)
      <4>1. KnownStage(q, Stage("find", it))
        BY <1>8 DEF KnownStage, Recording, AcceptRequest
      <4>2. Level("find") = 1 /\ Level(s.at) = 0
        BY <2>5 DEF Level
      <4> QED
        BY <4>1, <4>2
    <3> QED
      BY <2>2, <3>1, <3>2, StepSound
  <2> QED
    BY <2>3, <2>4, <2>5
<1>9. CASE q \in DeclineRequest
  <2>1. LibraryService(w, u, q, s) = LibraryDecline(w, u)
    BY <1>9 DEF LibraryService, DeclineRequest
  <2>2. Keeps(w, LibrariesDecline(w, u).w)
    BY <1>9, LibrariesKeep, RunLeaves DEF LibrariesDecline, AnyName
  <2> QED
    BY <2>1, <2>2, EndSound DEF LibraryDecline
<1>10. CASE q \in RenameRequest
  <2>1. LibraryService(w, u, q, s) = LibraryRename(w, u, q, s)
    BY <1>10 DEF LibraryService, RenameRequest
  <2>2. Keeps(w, LibrariesRename(w, u, q.name).w)
    <3>1. q.name \in AnyName
      BY <1>10 DEF RenameRequest
    <3>2. Keeps(w, rename_library(w, u, q.name).w)
      BY <3>1, LibrariesKeep
    <3> QED
      BY <3>2, RunLeaves DEF LibrariesRename
  <2>3. CASE s.at # "start"
    BY <2>1, <2>3, ReadsKeep, EndSound DEF LibraryRename, Reread
  <2>4. CASE s.at = "start" /\ LibrariesRename(w, u, q.name).err # "none"
    <3>1. LibraryService(w, u, q, s) = Refuse(LibrariesRename(w, u, q.name).w, sharingCodes(LibrariesRename(w, u, q.name).err))
      BY <2>1, <2>4 DEF LibraryRename, Reread, sharingError
    <3> QED
      BY <2>2, <3>1, StepSound
  <2>5. CASE s.at = "start" /\ LibrariesRename(w, u, q.name).err = "none"
    <3>1. PICK it : LibraryService(w, u, q, s) = Then(LibrariesRename(w, u, q.name).w, "find", it)
      BY <2>1, <2>5 DEF LibraryRename, Reread
    <3>2. KnownStage(q, Stage("find", it)) /\ Level("find") > Level(s.at)
      <4>1. KnownStage(q, Stage("find", it))
        BY <1>10 DEF KnownStage, Recording, RenameRequest
      <4>2. Level("find") = 1 /\ Level(s.at) = 0
        BY <2>5 DEF Level
      <4> QED
        BY <4>1, <4>2
    <3> QED
      BY <2>2, <3>1, <3>2, StepSound
  <2> QED
    BY <2>3, <2>4, <2>5
<1>11. CASE q \in DeleteRequest
  <2>1. LibraryService(w, u, q, s) = LibraryDelete(w, u)
    BY <1>11 DEF LibraryService, DeleteRequest
  <2>2. LibrariesDelete(w, u).w = delete_library(w, u).w
    BY RunLeaves DEF LibrariesDelete
  <2> QED
    BY <2>1, <2>2, DeletingLeaves, ReadsKeep, EndLeaves DEF LibraryDelete, Sound
<1>12. CASE q \in RestoreRequest
  <2>1. LibraryService(w, u, q, s) = LibraryRestore(w, u, s)
    BY <1>12 DEF LibraryService, RestoreRequest
  <2>2. Keeps(w, LibrariesRestore(w, u).w)
    BY <1>12, LibrariesKeep, RunLeaves DEF LibrariesRestore, AnyName, RestoreRequest
  <2>3. CASE s.at # "start"
    BY <2>1, <2>3, ReadsKeep, EndSound DEF LibraryRestore, Reread
  <2>4. CASE s.at = "start" /\ LibrariesRestore(w, u).err # "none"
    <3>1. LibraryService(w, u, q, s) = Refuse(LibrariesRestore(w, u).w, sharingCodes(LibrariesRestore(w, u).err))
      BY <2>1, <2>4 DEF LibraryRestore, Reread, sharingError
    <3> QED
      BY <2>2, <3>1, StepSound
  <2>5. CASE s.at = "start" /\ LibrariesRestore(w, u).err = "none"
    <3>1. PICK it : LibraryService(w, u, q, s) = Then(LibrariesRestore(w, u).w, "find", it)
      BY <2>1, <2>5 DEF LibraryRestore, Reread
    <3>2. KnownStage(q, Stage("find", it)) /\ Level("find") > Level(s.at)
      <4>1. KnownStage(q, Stage("find", it))
        BY <1>12 DEF KnownStage, Recording, RestoreRequest
      <4>2. Level("find") = 1 /\ Level(s.at) = 0
        BY <2>5 DEF Level
      <4> QED
        BY <4>1, <4>2
    <3> QED
      BY <2>2, <3>1, <3>2, StepSound
  <2> QED
    BY <2>3, <2>4, <2>5
<1>13. CASE q \in DeletedRequest
  <2>1. LibraryService(w, u, q, s) = LibraryDeleted(w, u)
    BY <1>13 DEF LibraryService, DeletedRequest
  <2> QED
    BY <2>1, ReadsKeep, EndSound DEF LibraryDeleted
<1>14. CASE q \in GrantGroupRequest
  <2>1. LibraryService(w, u, q, s) = LibraryGrantGroup(w, u, q)
    BY <1>14 DEF LibraryService, GrantGroupRequest
  <2>2. Keeps(w, GroupsGrantLibrary(w, u, q.role).w)
    <3>1. q.role \in Roles /\ "" \in AnyName
      BY <1>14 DEF GrantGroupRequest, AnyName
    <3>2. Keeps(w, grant_library_group(w, u, q.role).w)
      BY <3>1, LibrariesKeep
    <3> QED
      BY <3>2, RunLeaves DEF GroupsGrantLibrary
  <2> QED
    BY <2>1, <2>2, EndSound DEF LibraryGrantGroup
<1>15. CASE q \in RevokeGroupRequest
  <2>1. LibraryService(w, u, q, s) = LibraryRevokeGroup(w, u)
    BY <1>15 DEF LibraryService, RevokeGroupRequest
  <2>2. Keeps(w, GroupsRevokeLibrary(w, u).w)
    BY <1>15, LibrariesKeep, RunLeaves DEF GroupsRevokeLibrary, AnyName
  <2> QED
    BY <2>1, <2>2, EndSound DEF LibraryRevokeGroup
<1>16. CASE q \in GroupsRequest
  <2>1. LibraryService(w, u, q, s) = LibraryGroups(w, u)
    BY <1>16 DEF LibraryService, GroupsRequest
  <2>2. Keeps(w, GroupsOnLibrary(w, u).w)
    BY <1>16, LibrariesKeep, RunLeaves DEF GroupsOnLibrary, AnyName
  <2> QED
    BY <2>1, <2>2, EndSound DEF LibraryGroups
<1> QED
  BY <1>1, <1>2, <1>3, <1>4, <1>5, <1>6, <1>7, <1>8, <1>9, <1>10, <1>11, <1>12, <1>13, <1>14, <1>15, <1>16 DEF LibraryRequests

\* The handlers of GroupService: every stage is sound.
LEMMA GroupSound ==
  ASSUME NEW w \in World, NEW u \in Users, NEW q \in GroupRequests, NEW s, KnownStage(q, s)
  PROVE  Sound(w, u, q, s, GroupService(w, u, q, s))
<1>1. CASE q \in ListGroupsRequest
  <2>1. GroupService(w, u, q, s) = GroupList(w, u)
    BY <1>1 DEF GroupService, ListGroupsRequest
  <2> QED
    BY <2>1, ReadsKeep, EndSound DEF GroupList
<1>2. CASE q \in CreateGroupRequest
  <2>1. GroupService(w, u, q, s) = GroupCreate(w, u, q, s)
    BY <1>2 DEF GroupService, CreateGroupRequest
  <2>2. s.at \in {"start", "may"} /\ (s.at = "may" => q.name # "") /\ q.name \in AnyName
    BY <1>2 DEF KnownStage, CreateGroupRequest
  <2>3. CASE s.at = "may"
    <3>1. Keeps(w, create_group(w, u, q.name).w)
      BY <2>2, <2>3, GroupsKeep
    <3>2. Keeps(w, GroupsCreate(w, u, q.group, q.name).w)
      BY <3>1, RunLeaves DEF GroupsCreate, Result_
    <3> QED
      BY <2>1, <2>3, <3>2, EndSound DEF GroupCreate
  <2>4. CASE s.at = "start" /\ (q.group = "" \/ q.name = "" \/ ~ mayCreate(w, u))
    <3>1. PICK code : GroupService(w, u, q, s) = Refuse(w, code)
      BY <2>1, <2>4 DEF GroupCreate
    <3> QED
      BY <3>1, ReadsKeep, StepSound
  <2>5. CASE s.at = "start" /\ ~ (q.group = "" \/ q.name = "" \/ ~ mayCreate(w, u))
    <3>1. GroupService(w, u, q, s) = Then(w, "may", "none")
      BY <2>1, <2>5 DEF GroupCreate
    <3>2. KnownStage(q, Stage("may", "none"))
      BY <1>2, <2>5 DEF KnownStage, Stage, Recording, CreateGroupRequest
    <3>a. s.at = "start"
      BY <2>5
    <3>3. Level("may") > Level(s.at)
      BY <3>a DEF Level
    <3> QED
      BY <3>1, <3>2, <3>3, GoesOn
  <2> QED
    BY <2>2, <2>3, <2>4, <2>5
<1>3. CASE q \in RenameGroupRequest
  <2>1. GroupService(w, u, q, s) = GroupRename(w, u, q)
    BY <1>3 DEF GroupService, RenameGroupRequest
  <2>2. q.name \in AnyName
    BY <1>3 DEF RenameGroupRequest
  <2>3. Keeps(w, rename_group(w, u, q.name).w)
    BY <2>2, GroupsKeep
  <2>4. Keeps(w, GroupsRename(w, u, q.name).w)
    BY <2>3, RunLeaves DEF GroupsRename
  <2> QED
    BY <2>1, <2>4, EndSound DEF GroupRename
<1>4. CASE q \in DeleteGroupRequest
  <2>1. GroupService(w, u, q, s) = GroupDelete(w, u)
    BY <1>4 DEF GroupService, DeleteGroupRequest
  <2>2. Keeps(w, GroupsDelete(w, u).w)
    BY <1>4, GroupsKeep, RunLeaves DEF GroupsDelete, AnyName
  <2> QED
    BY <2>1, <2>2, EndSound DEF GroupDelete
<1>5. CASE q \in InviteRequest
  <2>1. GroupService(w, u, q, s) = GroupInvite(w, u, q)
    BY <1>5 DEF GroupService, InviteRequest
  <2>2. q.username \in Users /\ "" \in AnyName
    BY <1>5 DEF InviteRequest, AnyName
  <2>3. Keeps(w, invite_to_group(w, u, q.username, q.role).w) /\ Keeps(w, force_into_group(w, u, q.username, q.role).w)
    BY <2>2, GroupsKeep
  <2>4. Keeps(w, GroupsInvite(w, u, q.username, q.role).w) /\ Keeps(w, GroupsForce(w, u, q.username, q.role).w)
    BY <2>3, RunLeaves DEF GroupsInvite, GroupsForce, Result_
  <2> QED
    BY <2>1, <2>4, EndSound DEF GroupInvite
<1>6. CASE q \in AcceptGroupRequest
  <2>1. GroupService(w, u, q, s) = GroupAccept(w, u)
    BY <1>6 DEF GroupService, AcceptGroupRequest
  <2>2. Keeps(w, GroupsAccept(w, u).w)
    BY <1>6, GroupsKeep, RunLeaves DEF GroupsAccept, AnyName
  <2> QED
    BY <2>1, <2>2, EndSound DEF GroupAccept
<1>7. CASE q \in DeclineGroupRequest
  <2>1. GroupService(w, u, q, s) = GroupDecline(w, u)
    BY <1>7 DEF GroupService, DeclineGroupRequest
  <2>2. Keeps(w, GroupsDecline(w, u).w)
    BY <1>7, GroupsKeep, RunLeaves DEF GroupsDecline, AnyName
  <2> QED
    BY <2>1, <2>2, EndSound DEF GroupDecline
<1>8. CASE q \in RemoveMemberRequest
  <2>1. GroupService(w, u, q, s) = GroupRemove(w, u, q)
    BY <1>8 DEF GroupService, RemoveMemberRequest
  <2>2. Keeps(w, GroupsRemove(w, u, q.username).w)
    BY <1>8, GroupsKeep, RunLeaves DEF GroupsRemove, AnyName, RemoveMemberRequest
  <2> QED
    BY <2>1, <2>2, EndSound DEF GroupRemove
<1>9. CASE q \in GroupInvitationsRequest
  <2>1. GroupService(w, u, q, s) = GroupInvitations(w, u)
    BY <1>9 DEF GroupService, GroupInvitationsRequest
  <2> QED
    BY <2>1, ReadsKeep, EndSound DEF GroupInvitations
<1>10. CASE q \in GroupMembersRequest
  <2>1. GroupService(w, u, q, s) = GroupMembers(w, u)
    BY <1>10 DEF GroupService, GroupMembersRequest
  <2>2. Keeps(w, GroupsMembers(w, u).w)
    BY <1>10, GroupsKeep, RunLeaves DEF GroupsMembers, AnyName
  <2> QED
    BY <2>1, <2>2, EndSound DEF GroupMembers
<1>11. CASE q \in LibrariesRequest
  <2>1. GroupService(w, u, q, s) = GroupLibraries(w, u)
    BY <1>11 DEF GroupService, LibrariesRequest
  <2>2. Keeps(w, GroupsLibraries(w, u).w)
    BY <1>11, GroupsKeep, RunLeaves DEF GroupsLibraries, AnyName
  <2> QED
    BY <2>1, <2>2, EndSound DEF GroupLibraries
<1>12. CASE q \in GroupEventsRequest
  <2>1. GroupService(w, u, q, s) = GroupEvents(w, u)
    BY <1>12 DEF GroupService, GroupEventsRequest
  <2>2. Keeps(w, GroupsEvents(w, u).w)
    BY <1>12, GroupsKeep, RunLeaves DEF GroupsEvents, AnyName
  <2> QED
    BY <2>1, <2>2, EndSound DEF GroupEvents
<1> QED
  BY <1>1, <1>2, <1>3, <1>4, <1>5, <1>6, <1>7, <1>8, <1>9, <1>10, <1>11, <1>12 DEF GroupRequests

\* What is in a place changes only by someone whose place it is, or who edits
\* atlas.
LEMMA RowsLeave ==
  ASSUME NEW w \in World, NEW u \in Users, NEW p, NEW title \in Names, NEW source
  PROVE  \A r \in {DocumentsDelete(w, u, p), DocumentsRename(w, u, p, title),
                   QueueAdd(w, u, p, source), RequestJobCancel(w, u, p)} :
           r.w \in World /\ (Keeps(w, r.w) \/ Holds(w, u, "editor"))
<1>1. Keeps(w, w) /\ \A err, x, out : Result_(err, x, out).w = x
  BY DEF Keeps, Result_
<1>2. Rows(w, u, p, "editor") => p \in Places /\ (p = "atlas" => Holds(w, u, "editor"))
  BY PlacesAssumption DEF Rows, RowsOf
<1>3. Holding(w, u, p, "editor") => Rows(w, u, p, "editor")
  BY DEF Holding
<1>4. ASSUME NEW d, d \in Names \cup {"none"}, p \in Places
      PROVE  [w EXCEPT !.docs[p] = d] \in World
             /\ (p # "atlas" => Keeps(w, [w EXCEPT !.docs[p] = d]))
  BY <1>4 DEF Keeps, World, Places, Slugs
<1>5. ASSUME NEW j, j \in {"none", "queued", "done", "cancelled", "failed"}, p \in Places
      PROVE  [w EXCEPT !.jobs[p] = j] \in World
             /\ (p # "atlas" => Keeps(w, [w EXCEPT !.jobs[p] = j]))
  BY <1>5 DEF Keeps, World, Places, Slugs
<1>6. DocumentsDelete(w, u, p).w = IF Holding(w, u, p, "editor") THEN [w EXCEPT !.docs[p] = "none"] ELSE w
  BY <1>1 DEF DocumentsDelete
<1>7. DocumentsRename(w, u, p, title).w = IF Holding(w, u, p, "editor") THEN [w EXCEPT !.docs[p] = title] ELSE w
  BY <1>1 DEF DocumentsRename
<1>8. QueueAdd(w, u, p, source).w = IF Rows(w, u, p, "editor") THEN [w EXCEPT !.jobs[p] = "queued"] ELSE w
  BY <1>1 DEF QueueAdd
<1>9. RequestJobCancel(w, u, p).w = IF Rows(w, u, p, "editor") /\ w.jobs[p] = "queued"
                                    THEN [w EXCEPT !.jobs[p] = "cancelled"] ELSE w
  BY <1>1 DEF RequestJobCancel
<1>10. LET r == DocumentsDelete(w, u, p) IN r.w \in World /\ (Keeps(w, r.w) \/ Holds(w, u, "editor"))
  BY <1>1, <1>2, <1>3, <1>4, <1>6
<1>11. LET r == DocumentsRename(w, u, p, title) IN r.w \in World /\ (Keeps(w, r.w) \/ Holds(w, u, "editor"))
  BY <1>1, <1>2, <1>3, <1>4, <1>7
<1>12. LET r == QueueAdd(w, u, p, source) IN r.w \in World /\ (Keeps(w, r.w) \/ Holds(w, u, "editor"))
  BY <1>1, <1>2, <1>5, <1>8
<1>13. LET r == RequestJobCancel(w, u, p) IN r.w \in World /\ (Keeps(w, r.w) \/ Holds(w, u, "editor"))
  BY <1>1, <1>2, <1>5, <1>9
<1> QED
  BY <1>10, <1>11, <1>12, <1>13

\* A call that ends after it was told a place, with such a change.
LEMMA ShelfEndSound ==
  ASSUME NEW w, NEW u, NEW q, NEW s, s.at # "start", NEW r,
         r.w \in World, Keeps(w, r.w) \/ Holds(w, u, "editor"), NEW out, NEW field
  PROVE  Sound(w, u, q, s, Documented(r, out)) /\ Sound(w, u, q, s, DocumentedAs(r, field))
BY EndLeaves DEF Sound

\* A call that is told a place and goes on there.
LEMMA ShelfSound ==
  ASSUME NEW w \in World, NEW u, NEW q, NEW s, s.at = "start",
         \A it : KnownStage(q, Stage("shelf", it)), NEW label, NEW docID
  PROVE  /\ Sound(w, u, q, s, InLibrary(w, u, label)) /\ Sound(w, u, q, s, At(w, u, docID))
         /\ Sound(w, u, q, s, editable(w, u, InLibrary(w, u, label)))
         /\ Sound(w, u, q, s, editable(w, u, At(w, u, docID)))
<1>1. Level("shelf") > Level(s.at)
  BY DEF Level
<1>2. \A it : Sound(w, u, q, s, Then(w, "shelf", it))
  BY <1>1, GoesOn
<1>3. \A code : Sound(w, u, q, s, Refuse(w, code))
  BY ReadsKeep, StepSound
<1> QED
  BY <1>2, <1>3 DEF InLibrary, At, editable

\* Looking leaves everything as it is.
LEMMA LooksKeep ==
  ASSUME NEW w \in World, NEW u, NEW p, NEW completed
  PROVE  /\ Keeps(w, DocumentsGet(w, u, p).w) /\ Keeps(w, DocumentsList(w, u, p).w)
         /\ Keeps(w, QueueList(w, u, p, completed).w) /\ Keeps(w, JobStatus(w, u, p).w)
BY ReadsKeep DEF DocumentsGet, DocumentsList, QueueList, JobStatus, Result_

\* The handlers of DocumentService: every stage is sound.
LEMMA DocumentSound ==
  ASSUME NEW w \in World, NEW u \in Users, NEW q \in DocumentRequests, NEW s, KnownStage(q, s)
  PROVE  Sound(w, u, q, s, DocumentService(w, u, q, s))
<1>1. CASE q \in ListDocumentsRequest
  <2>1. DocumentService(w, u, q, s) = DocumentList(w, u, q, s)
    BY <1>1 DEF DocumentService, ListDocumentsRequest
  <2>2. \A it : KnownStage(q, Stage("shelf", it))
    BY <1>1 DEF KnownStage, Stage, Recording, ListDocumentsRequest
  <2>3. CASE s.at = "start"
    BY <2>1, <2>2, <2>3, ShelfSound DEF DocumentList
  <2>4. CASE s.at # "start"
    BY <2>1, <2>4, LooksKeep, EndSound DEF DocumentList
  <2> QED
    BY <2>3, <2>4
<1>2. CASE q \in VerifyRequest
  <2>1. DocumentService(w, u, q, s) = DocumentVerify(w, u, q, s)
    BY <1>2 DEF DocumentService, VerifyRequest
  <2>2. \A it : KnownStage(q, Stage("shelf", it))
    BY <1>2 DEF KnownStage, Stage, Recording, VerifyRequest
  <2>3. CASE s.at = "start"
    BY <2>1, <2>2, <2>3, ShelfSound DEF DocumentVerify
  <2>4. CASE s.at # "start"
    BY <2>1, <2>4, LooksKeep, EndSound DEF DocumentVerify
  <2> QED
    BY <2>3, <2>4
<1>3. CASE q \in InspectRequest
  <2>1. DocumentService(w, u, q, s) = DocumentInspect(w, u, q)
    BY <1>3 DEF DocumentService, InspectRequest
  <2> QED
    BY <2>1, ReadsKeep, StepSound DEF DocumentInspect
<1>4. CASE q \in RemoveDocumentRequest
  <2>1. DocumentService(w, u, q, s) = DocumentRemove(w, u, q, s)
    BY <1>4 DEF DocumentService, RemoveDocumentRequest
  <2>2. s.at \in {"start", "shelf", "found"}
    BY <1>4 DEF KnownStage, RemoveDocumentRequest
  <2>3. \A it : KnownStage(q, Stage("shelf", it)) /\ KnownStage(q, Stage("found", it))
    BY <1>4 DEF KnownStage, Stage, Recording, RemoveDocumentRequest
  <2>4. CASE s.at = "start"
    BY <2>1, <2>3, <2>4, ShelfSound DEF DocumentRemove
  <2>5. CASE s.at = "shelf" /\ DocumentsGet(w, u, s.it).err = "none"
    <3>1. DocumentService(w, u, q, s) = Then(w, "found", s.it)
      BY <2>1, <2>5 DEF DocumentRemove
    <3>2. Level("found") > Level(s.at)
      BY <2>5 DEF Level
    <3> QED
      BY <2>3, <3>1, <3>2, GoesOn
  <2>6. CASE s.at = "shelf" /\ DocumentsGet(w, u, s.it).err # "none"
    <3>1. DocumentService(w, u, q, s) = Documented(DocumentsGet(w, u, s.it), "none")
      BY <2>1, <2>6 DEF DocumentRemove, Documented
    <3> QED
      BY <3>1, LooksKeep, EndSound
  <2>7. CASE s.at = "found"
    <3>1. DocumentService(w, u, q, s) = Documented(DocumentsDelete(w, u, s.it), "empty")
      BY <2>1, <2>7 DEF DocumentRemove
    <3>2. PICK title : title \in Names
      BY ApiAssumption
    <3> QED
      BY <2>7, <3>1, <3>2, RowsLeave, ShelfEndSound
  <2> QED
    BY <2>2, <2>4, <2>5, <2>6, <2>7
<1>5. CASE q \in RenameDocumentRequest
  <2>1. DocumentService(w, u, q, s) = DocumentRename(w, u, q, s)
    BY <1>5 DEF DocumentService, RenameDocumentRequest
  <2>2. /\ s.at \in {"start", "shelf"} /\ (s.at = "shelf" => q.title \notin {"", "long"})
        /\ q.title \in AnyTitle
    BY <1>5 DEF KnownStage, RenameDocumentRequest
  <2>3. CASE s.at = "shelf"
    <3>1. q.title \in Names
      BY <2>2, <2>3 DEF AnyTitle
    <3>2. DocumentService(w, u, q, s) = Documented(DocumentsRename(w, u, s.it, q.title), "empty")
      BY <2>1, <2>3 DEF DocumentRename
    <3> QED
      BY <2>3, <3>1, <3>2, RowsLeave, ShelfEndSound
  <2>4. CASE s.at = "start" /\ q.title \in {"", "long"}
    <3>1. DocumentService(w, u, q, s) = Refuse(w, "invalid_argument")
      BY <2>1, <2>4 DEF DocumentRename
    <3> QED
      BY <3>1, ReadsKeep, StepSound
  <2>5. CASE s.at = "start" /\ q.title \notin {"", "long"}
    <3>1. \A it : KnownStage(q, Stage("shelf", it))
      BY <1>5, <2>5 DEF KnownStage, Stage, Recording, RenameDocumentRequest
    <3> QED
      BY <2>1, <2>5, <3>1, ShelfSound DEF DocumentRename
  <2> QED
    BY <2>2, <2>3, <2>4, <2>5
<1>6. CASE q \in ReadRequest
  <2>1. DocumentService(w, u, q, s) = DocumentRead(w, u, q, s)
    BY <1>6 DEF DocumentService, ReadRequest
  <2>2. \A it : KnownStage(q, Stage("shelf", it))
    BY <1>6 DEF KnownStage, Stage, Recording, ReadRequest
  <2>3. CASE s.at = "start"
    BY <2>1, <2>2, <2>3, ShelfSound DEF DocumentRead
  <2>4. CASE s.at # "start"
    BY <2>1, <2>4, ReadsKeep, LooksKeep, EndSound, StepSound DEF DocumentRead
  <2> QED
    BY <2>3, <2>4
<1> QED
  BY <1>1, <1>2, <1>3, <1>4, <1>5, <1>6 DEF DocumentRequests

\* The handlers of JobService: every stage is sound.
LEMMA JobSound ==
  ASSUME NEW w \in World, NEW u \in Users, NEW q \in JobRequests, NEW s, KnownStage(q, s)
  PROVE  Sound(w, u, q, s, JobService(w, u, q, s))
<1>1. CASE q \in EnqueueRequest
  <2>1. JobService(w, u, q, s) = JobEnqueue(w, u, q, s)
    BY <1>1 DEF JobService, EnqueueRequest
  <2>2. \A it : KnownStage(q, Stage("shelf", it))
    BY <1>1 DEF KnownStage, Stage, Recording, EnqueueRequest
  <2>3. CASE s.at = "start"
    BY <2>1, <2>2, <2>3, ShelfSound, ReadsKeep, StepSound DEF JobEnqueue
  <2>4. CASE s.at # "start" /\ Targets(q.source) # "none"
    BY <2>1, <2>4, ReadsKeep, StepSound DEF JobEnqueue
  <2>5. CASE s.at # "start" /\ Targets(q.source) = "none"
    <3>1. JobService(w, u, q, s) = DocumentedAs(QueueAdd(w, u, s.it, q.source), "jobs")
      BY <2>1, <2>5 DEF JobEnqueue
    <3>2. PICK title : title \in Names
      BY ApiAssumption
    <3> QED
      BY <2>5, <3>1, <3>2, RowsLeave, ShelfEndSound
  <2> QED
    BY <2>3, <2>4, <2>5
<1>2. CASE q \in ListJobsRequest
  <2>1. JobService(w, u, q, s) = ListJobs(w, u, q, s)
    BY <1>2 DEF JobService, ListJobsRequest
  <2>2. \A it : KnownStage(q, Stage("shelf", it))
    BY <1>2 DEF KnownStage, Stage, Recording, ListJobsRequest
  <2>3. CASE s.at = "start"
    BY <2>1, <2>2, <2>3, ShelfSound DEF ListJobs
  <2>4. CASE s.at # "start"
    BY <2>1, <2>4, LooksKeep, EndSound DEF ListJobs
  <2> QED
    BY <2>3, <2>4
<1>3. CASE q \in CancelJobRequest
  <2>1. JobService(w, u, q, s) = CancelJob(w, u, q, s)
    BY <1>3 DEF JobService, CancelJobRequest
  <2>2. s.at \in {"start", "shelf", "queued"}
    BY <1>3 DEF KnownStage, CancelJobRequest
  <2>3. \A it : KnownStage(q, Stage("shelf", it)) /\ KnownStage(q, Stage("queued", it))
    BY <1>3 DEF KnownStage, Stage, Recording, CancelJobRequest
  <2>4. CASE s.at = "start"
    BY <2>1, <2>3, <2>4, ShelfSound, ReadsKeep, StepSound DEF CancelJob
  <2>5. CASE s.at = "shelf" /\ JobStatus(w, u, s.it).err = "none" /\ JobStatus(w, u, s.it).out = "queued"
    <3>1. JobService(w, u, q, s) = Then(w, "queued", s.it)
      BY <2>1, <2>5 DEF CancelJob
    <3>2. Level("queued") > Level(s.at)
      BY <2>5 DEF Level
    <3> QED
      BY <2>3, <3>1, <3>2, GoesOn
  <2>6. CASE s.at = "shelf" /\ ~ (JobStatus(w, u, s.it).err = "none" /\ JobStatus(w, u, s.it).out = "queued")
    <3>1. PICK out : JobService(w, u, q, s) = Documented(JobStatus(w, u, s.it), out)
      BY <2>1, <2>6 DEF CancelJob
    <3> QED
      BY <3>1, LooksKeep, EndSound
  <2>7. CASE s.at = "queued"
    <3>1. JobService(w, u, q, s) = DocumentedAs(RequestJobCancel(w, u, s.it), "status")
      BY <2>1, <2>7 DEF CancelJob
    <3>2. PICK title : title \in Names
      BY ApiAssumption
    <3> QED
      BY <2>7, <3>1, <3>2, RowsLeave, ShelfEndSound
  <2> QED
    BY <2>2, <2>4, <2>5, <2>6, <2>7
<1> QED
  BY <1>1, <1>2, <1>3 DEF JobRequests

\* The handler of IngestService: every stage is sound.
LEMMA IngestSound ==
  ASSUME NEW w \in World, NEW u \in Users, NEW q \in IngestRequests, NEW s
  PROVE  Sound(w, u, q, s, IngestService(w, u, q, s))
<1>1. CASE checkSource(q.source) # "ok" \/ Acquire(q.source) # "none"
  <2>1. \E code : IngestService(w, u, q, s) = Refuse(w, code)
    BY <1>1 DEF IngestService, IngestIngest
  <2> QED
    BY <2>1, ReadsKeep, StepSound
<1>2. CASE checkSource(q.source) = "ok" /\ Acquire(q.source) = "none"
  <2> DEFINE d == IF w.docs[u] = "none" THEN FileTitle ELSE w.docs[u]
             x == [w EXCEPT !.docs[u] = d]
  <2>1. IngestService(w, u, q, s) = Done(x, "ok", resultMessage(w, u))
    BY <1>2 DEF IngestService, IngestIngest, World
  <2>2. d \in Names \cup {"none"}
    <3>1. FileTitle \in Names
      BY ApiAssumption DEF FileTitle
    <3> QED
      BY <3>1 DEF World, Places
  <2>3. u # "atlas" /\ u \in Places
    BY PlacesAssumption DEF Places
  <2> HIDE DEF d
  <2>4. Keeps(w, x)
    BY <2>2, <2>3 DEF Keeps, World
  <2> HIDE DEF x
  <2> QED
    BY <2>1, <2>4, StepSound
<1> QED
  BY <1>1, <1>2

\* The handlers of AccountService: every stage is sound.
LEMMA AccountSound ==
  ASSUME NEW w \in World, NEW u \in Users, NEW q \in AccountRequests, NEW s, KnownStage(q, s)
  PROVE  Sound(w, u, q, s, AccountService(w, u, q, s))
<1>a. /\ \E code : admin(w, u) \in {Then(w, "admin", "none"), Refuse(w, code)}
      /\ \E code : passwordAdmin(w, u) \in {Then(w, "admin", "none"), Refuse(w, code)}
  BY DEF admin, passwordAdmin
<1>b. \A t, name : Named(t, name).w = t.w
  BY DEF Named, Result_
<1>c. \A err, out : Result_(err, w, out).w = w
  BY DEF Result_
<1>1. CASE q \in MeRequest
  <2>1. AccountService(w, u, q, s) = AccountMe(w, u)
    BY <1>1 DEF AccountService, MeRequest
  <2> QED
    BY <2>1, ReadsKeep, EndSound DEF AccountMe
<1>2. CASE q \in ListAccountsRequest
  <2>1. AccountService(w, u, q, s) = AccountList(w, u, s)
    BY <1>2 DEF AccountService, ListAccountsRequest
  <2>2. CASE s.at = "start"
    <3>1. KnownStage(q, Stage("admin", "none"))
      BY <1>2 DEF KnownStage, Stage, Recording, ListAccountsRequest
    <3>2. Level("admin") > Level(s.at)
      BY <2>2 DEF Level
    <3>3. AccountService(w, u, q, s) = admin(w, u)
      BY <2>1, <2>2 DEF AccountList
    <3> QED
      BY <1>a, <3>1, <3>2, <3>3, GoesOn, ReadsKeep, StepSound
  <2>3. CASE s.at # "start"
    BY <2>1, <2>3, ReadsKeep, EndSound DEF AccountList
  <2> QED
    BY <2>2, <2>3
<1>3. CASE q \in AddRequest
  <2>1. AccountService(w, u, q, s) = AccountAdd(w, u, q, s)
    BY <1>3 DEF AccountService, AddRequest
  <2>2. s.at \in {"start", "admin", "record"}
    BY <1>3 DEF KnownStage, Recording, AddRequest
  <2>3. \A at : at \in {"admin", "record"} => KnownStage(q, Stage(at, "none"))
    BY <1>3 DEF KnownStage, Stage, Recording, AddRequest
  <2>4. CASE s.at = "start"
    <3>1. AccountService(w, u, q, s) = Then(w, "admin", "none") \/ \E code : AccountService(w, u, q, s) = Refuse(w, code)
      BY <2>1, <2>4, <1>a DEF AccountAdd, Recorded
    <3>2. Level("admin") > Level(s.at)
      BY <2>4 DEF Level
    <3> QED
      BY <2>3, <3>1, <3>2, GoesOn, ReadsKeep, StepSound
  <2>5. CASE s.at = "admin"
    <3> DEFINE r == PasswordsAdd(w, u, q.username)
    <3>1. Keeps(w, r.w)
      <4>1. q.username = "" => r.w = w
        BY DEF PasswordsAdd, Result_
      <4>2. q.username # "" => r.w = add_password_account(w, u, q.username).w
        BY <1>b DEF PasswordsAdd
      <4>3. q.username # "" => q.username \in Users
        BY <1>3 DEF AddRequest
      <4> HIDE DEF r
      <4> QED
        BY <4>1, <4>2, <4>3, AdminsKeep, ReadsKeep
    <3>2. AccountService(w, u, q, s) = IF r.err = "none" THEN Then(r.w, "record", "none") ELSE adminError(r)
      BY <2>1, <2>5 DEF AccountAdd, Recorded
    <3> HIDE DEF r
    <3>3. Level("record") > Level(s.at)
      BY <2>5 DEF Level
    <3>4. Sound(w, u, q, s, Then(r.w, "record", "none"))
      BY <2>3, <3>1, <3>3, StepSound
    <3>5. Sound(w, u, q, s, adminError(r))
      BY <3>1, StepSound DEF adminError
    <3> QED
      BY <3>2, <3>4, <3>5
  <2>6. CASE s.at = "record"
    <3>1. PICK out : AccountService(w, u, q, s) = Administered(AdminsRecord(w, u), out)
      BY <2>1, <2>6 DEF AccountAdd, Recorded
    <3> QED
      BY <3>1, ReadsKeep, EndSound
  <2> QED
    BY <2>2, <2>4, <2>5, <2>6
<1>4. CASE q \in ResetRequest
  <2>1. AccountService(w, u, q, s) = AccountReset(w, u, q, s)
    BY <1>4 DEF AccountService, ResetRequest
  <2>2. s.at \in {"start", "admin", "record"}
    BY <1>4 DEF KnownStage, Recording, ResetRequest
  <2>3. \A at : at \in {"admin", "record"} => KnownStage(q, Stage(at, "none"))
    BY <1>4 DEF KnownStage, Stage, Recording, ResetRequest
  <2>4. CASE s.at = "start"
    <3>1. AccountService(w, u, q, s) = Then(w, "admin", "none") \/ \E code : AccountService(w, u, q, s) = Refuse(w, code)
      BY <2>1, <2>4, <1>a DEF AccountReset, Recorded
    <3>2. Level("admin") > Level(s.at)
      BY <2>4 DEF Level
    <3> QED
      BY <2>3, <3>1, <3>2, GoesOn, ReadsKeep, StepSound
  <2>5. CASE s.at = "admin"
    <3> DEFINE r == PasswordsReset(w, u, q.username)
    <3>1. Keeps(w, r.w)
      <4>1. r.w = w \/ r.w = reset_password(w, u, q.username).w
        BY <1>b, <1>c DEF PasswordsReset
      <4>2. q.username \in Users
        BY <1>4 DEF ResetRequest
      <4> HIDE DEF r
      <4> QED
        BY <4>1, <4>2, AdminsKeep, ReadsKeep
    <3>2. AccountService(w, u, q, s) = IF r.err = "none" THEN Then(r.w, "record", "none") ELSE adminError(r)
      BY <2>1, <2>5 DEF AccountReset, Recorded
    <3> HIDE DEF r
    <3>3. Level("record") > Level(s.at)
      BY <2>5 DEF Level
    <3>4. Sound(w, u, q, s, Then(r.w, "record", "none"))
      BY <2>3, <3>1, <3>3, StepSound
    <3>5. Sound(w, u, q, s, adminError(r))
      BY <3>1, StepSound DEF adminError
    <3> QED
      BY <3>2, <3>4, <3>5
  <2>6. CASE s.at = "record"
    <3>1. PICK out : AccountService(w, u, q, s) = Administered(AdminsRecord(w, u), out)
      BY <2>1, <2>6 DEF AccountReset, Recorded
    <3> QED
      BY <3>1, ReadsKeep, EndSound
  <2> QED
    BY <2>2, <2>4, <2>5, <2>6
<1>5. CASE q \in UnlockRequest
  <2>1. AccountService(w, u, q, s) = AccountUnlock(w, u, q, s)
    BY <1>5 DEF AccountService, UnlockRequest
  <2>2. s.at \in {"start", "admin", "record"}
    BY <1>5 DEF KnownStage, Recording, UnlockRequest
  <2>3. \A at : at \in {"admin", "record"} => KnownStage(q, Stage(at, "none"))
    BY <1>5 DEF KnownStage, Stage, Recording, UnlockRequest
  <2>4. CASE s.at = "start"
    <3>1. AccountService(w, u, q, s) = Then(w, "admin", "none") \/ \E code : AccountService(w, u, q, s) = Refuse(w, code)
      BY <2>1, <2>4, <1>a DEF AccountUnlock, Recorded
    <3>2. Level("admin") > Level(s.at)
      BY <2>4 DEF Level
    <3> QED
      BY <2>3, <3>1, <3>2, GoesOn, ReadsKeep, StepSound
  <2>5. CASE s.at = "admin"
    <3> DEFINE r == PasswordsUnlock(w, u, q.username)
    <3>1. Keeps(w, r.w)
      BY <1>c, ReadsKeep DEF PasswordsUnlock
    <3>2. AccountService(w, u, q, s) = IF r.err = "none" THEN Then(r.w, "record", "none") ELSE adminError(r)
      BY <2>1, <2>5 DEF AccountUnlock, Recorded
    <3> HIDE DEF r
    <3>3. Level("record") > Level(s.at)
      BY <2>5 DEF Level
    <3>4. Sound(w, u, q, s, Then(r.w, "record", "none"))
      BY <2>3, <3>1, <3>3, StepSound
    <3>5. Sound(w, u, q, s, adminError(r))
      BY <3>1, StepSound DEF adminError
    <3> QED
      BY <3>2, <3>4, <3>5
  <2>6. CASE s.at = "record"
    <3>1. PICK out : AccountService(w, u, q, s) = Administered(AdminsRecord(w, u), out)
      BY <2>1, <2>6 DEF AccountUnlock, Recorded
    <3> QED
      BY <3>1, ReadsKeep, EndSound
  <2> QED
    BY <2>2, <2>4, <2>5, <2>6
<1>6. CASE q \in RemoveAccountRequest
  <2>1. AccountService(w, u, q, s) = AccountRemove(w, u, q, s)
    BY <1>6 DEF AccountService, RemoveAccountRequest
  <2>2. s.at \in {"start", "admin", "record"}
    BY <1>6 DEF KnownStage, Recording, RemoveAccountRequest
  <2>3. \A at : at \in {"admin", "record"} => KnownStage(q, Stage(at, "none"))
    BY <1>6 DEF KnownStage, Stage, Recording, RemoveAccountRequest
  <2>4. CASE s.at = "start"
    <3>1. AccountService(w, u, q, s) = Then(w, "admin", "none") \/ \E code : AccountService(w, u, q, s) = Refuse(w, code)
      BY <2>1, <2>4, <1>a DEF AccountRemove, Recorded
    <3>2. Level("admin") > Level(s.at)
      BY <2>4 DEF Level
    <3> QED
      BY <2>3, <3>1, <3>2, GoesOn, ReadsKeep, StepSound
  <2>5. CASE s.at = "admin"
    <3> DEFINE r == PasswordsRemove(w, u, q.username)
    <3>1. Keeps(w, r.w)
      <4>1. r.w = w \/ r.w = remove_password_account(w, u, q.username).w
        BY <1>b, <1>c DEF PasswordsRemove
      <4>2. q.username \in Users
        BY <1>6 DEF RemoveAccountRequest
      <4> HIDE DEF r
      <4> QED
        BY <4>1, <4>2, AdminsKeep, ReadsKeep
    <3>2. AccountService(w, u, q, s) = IF r.err = "none" THEN Then(r.w, "record", "none") ELSE adminError(r)
      BY <2>1, <2>5 DEF AccountRemove, Recorded
    <3> HIDE DEF r
    <3>3. Level("record") > Level(s.at)
      BY <2>5 DEF Level
    <3>4. Sound(w, u, q, s, Then(r.w, "record", "none"))
      BY <2>3, <3>1, <3>3, StepSound
    <3>5. Sound(w, u, q, s, adminError(r))
      BY <3>1, StepSound DEF adminError
    <3> QED
      BY <3>2, <3>4, <3>5
  <2>6. CASE s.at = "record"
    <3>1. PICK out : AccountService(w, u, q, s) = Administered(AdminsRecord(w, u), out)
      BY <2>1, <2>6 DEF AccountRemove, Recorded
    <3> QED
      BY <3>1, ReadsKeep, EndSound
  <2> QED
    BY <2>2, <2>4, <2>5, <2>6
<1>7. CASE q \in SetAdminRequest
  <2>1. AccountService(w, u, q, s) = AccountSetAdmin(w, u, q, s)
    BY <1>7 DEF AccountService, SetAdminRequest
  <2>2. CASE s.at = "start"
    <3>1. KnownStage(q, Stage("admin", "none"))
      BY <1>7 DEF KnownStage, Stage, Recording, SetAdminRequest
    <3>2. Level("admin") > Level(s.at)
      BY <2>2 DEF Level
    <3>3. AccountService(w, u, q, s) = admin(w, u)
      BY <2>1, <2>2 DEF AccountSetAdmin
    <3> QED
      BY <1>a, <3>1, <3>2, <3>3, GoesOn, ReadsKeep, StepSound
  <2>3. CASE s.at # "start"
    <3>1. q.username \in Users
      BY <1>7 DEF SetAdminRequest
    <3>2. Keeps(w, AdminsSetAdmin(w, u, q.username, q.admin).w)
      BY <3>1, AdminsKeep, RunLeaves DEF AdminsSetAdmin
    <3> QED
      BY <2>1, <2>3, <3>2, EndSound DEF AccountSetAdmin
  <2> QED
    BY <2>2, <2>3
<1>8. CASE q \in SignInRequest
  <2>1. AccountService(w, u, q, s) = AccountSignIn(w, u, s)
    BY <1>8 DEF AccountService, SignInRequest
  <2>2. CASE s.at = "start"
    <3>1. KnownStage(q, Stage("admin", "none"))
      BY <1>8 DEF KnownStage, Stage, Recording, SignInRequest
    <3>2. Level("admin") > Level(s.at)
      BY <2>2 DEF Level
    <3>3. AccountService(w, u, q, s) = admin(w, u)
      BY <2>1, <2>2 DEF AccountSignIn, administering
    <3> QED
      BY <1>a, <3>1, <3>2, <3>3, GoesOn, ReadsKeep, StepSound
  <2>3. CASE s.at # "start"
    <3>1. Keeps(w, SettingsStored(w, u).w)
      BY ReadsKeep DEF SettingsStored, Result_
    <3> QED
      BY <2>1, <2>3, <3>1, EndSound DEF AccountSignIn
  <2> QED
    BY <2>2, <2>3
<1>9. CASE q \in UpdateSignInRequest
  <2>1. AccountService(w, u, q, s) = AccountUpdateSignIn(w, u, q, s)
    BY <1>9 DEF AccountService, UpdateSignInRequest
  <2>2. CASE s.at = "start"
    <3>1. KnownStage(q, Stage("admin", "none"))
      BY <1>9 DEF KnownStage, Stage, Recording, UpdateSignInRequest
    <3>2. Level("admin") > Level(s.at)
      BY <2>2 DEF Level
    <3>3. AccountService(w, u, q, s) = admin(w, u)
      BY <2>1, <2>2 DEF AccountUpdateSignIn, administering
    <3> QED
      BY <1>a, <3>1, <3>2, <3>3, GoesOn, ReadsKeep, StepSound
  <2>3. CASE s.at # "start"
    <3> DEFINE r == SettingsUpdate(w, u, q.change)
    <3>1. \E code, out : \/ AccountService(w, u, q, s) = Refuse(r.w, code)
                         \/ AccountService(w, u, q, s) = Done(r.w, "ok", out)
      BY <2>1, <2>3 DEF AccountUpdateSignIn
    <3>2. r.w = w \/ (r.w = [w EXCEPT !.setting = q.change] /\ q.change \in Stored)
      <4>1. CASE q.change \in Stored
        BY <4>1 DEF SettingsUpdate, SettingsSet, adminsRun, Named, set_setting, Raise, Commit, Result_
      <4>2. CASE q.change \notin Stored
        <5>1. q.change \in {"in_file", "locked", "not_editable", "invalid"}
          BY <1>9, <4>2 DEF UpdateSignInRequest, Change, Stored
        <5> QED
          BY <5>1 DEF SettingsUpdate, checkChange, Result_
      <4> QED
        BY <4>1, <4>2
    <3> HIDE DEF r
    <3>3. Keeps(w, r.w)
      <4>1. CASE r.w = w
        BY <4>1, ReadsKeep
      <4>2. CASE r.w = [w EXCEPT !.setting = q.change] /\ q.change \in Stored
        BY <4>2 DEF Keeps, World
      <4> QED
        BY <3>2, <4>1, <4>2
    <3> QED
      BY <3>1, <3>3, StepSound
  <2> QED
    BY <2>2, <2>3
<1> QED
  BY <1>1, <1>2, <1>3, <1>4, <1>5, <1>6, <1>7, <1>8, <1>9 DEF AccountRequests

-----------------------------------------------------------------------------
(* Any call. *)

\* A stage of a call, whatever its service.
LEMMA ServeSound ==
  ASSUME NEW w \in World, NEW u \in Users, NEW svc \in Services, NEW q \in svc[1],
         NEW s, KnownStage(q, s)
  PROVE  Sound(w, u, q, s, Serve(svc[2], w, u, q, s))
<1>1. CASE svc = <<LibraryRequests, "library">>
  <2>1. Serve(svc[2], w, u, q, s) = LibraryService(w, u, q, s)
    BY <1>1 DEF Serve
  <2> QED
    BY <1>1, <2>1, LibrarySound
<1>2. CASE svc = <<GroupRequests, "group">>
  <2>1. Serve(svc[2], w, u, q, s) = GroupService(w, u, q, s)
    BY <1>2 DEF Serve
  <2> QED
    BY <1>2, <2>1, GroupSound
<1>3. CASE svc = <<DocumentRequests, "document">>
  <2>1. Serve(svc[2], w, u, q, s) = DocumentService(w, u, q, s)
    BY <1>3 DEF Serve
  <2> QED
    BY <1>3, <2>1, DocumentSound
<1>4. CASE svc = <<JobRequests, "job">>
  <2>1. Serve(svc[2], w, u, q, s) = JobService(w, u, q, s)
    BY <1>4 DEF Serve
  <2> QED
    BY <1>4, <2>1, JobSound
<1>5. CASE svc = <<IngestRequests, "ingest">>
  <2>1. Serve(svc[2], w, u, q, s) = IngestService(w, u, q, s)
    BY <1>5 DEF Serve
  <2> QED
    BY <1>5, <2>1, IngestSound
<1>6. CASE svc = <<AccountRequests, "account">>
  <2>1. Serve(svc[2], w, u, q, s) = AccountService(w, u, q, s)
    BY <1>6 DEF Serve
  <2> QED
    BY <1>6, <2>1, AccountSound
<1> QED
  BY <1>1, <1>2, <1>3, <1>4, <1>5, <1>6 DEF Services

\* An outsider gets on the same way in both worlds, whatever the service.
LEMMA ServeInStep ==
  ASSUME NEW w, NEW v, NEW u \in Users, Outsider(w, u), Outsider(v, u), ButForAtlas(w, v, u),
         NEW svc \in Services, NEW q \in svc[1], q.rpc # "library.Create",
         NEW s, KnownStage(q, s)
  PROVE  InStep(w, v, Serve(svc[2], w, u, q, s), Serve(svc[2], v, u, q, s))
<1>1. CASE svc = <<LibraryRequests, "library">>
  <2>1. \A x : Serve(svc[2], x, u, q, s) = LibraryService(x, u, q, s)
    BY <1>1 DEF Serve
  <2> QED
    BY <1>1, <2>1, LibraryInStep
<1>2. CASE svc = <<GroupRequests, "group">>
  <2>1. \A x : Serve(svc[2], x, u, q, s) = GroupService(x, u, q, s)
    BY <1>2 DEF Serve
  <2> QED
    BY <1>2, <2>1, GroupInStep
<1>3. CASE svc = <<DocumentRequests, "document">>
  <2>1. \A x : Serve(svc[2], x, u, q, s) = DocumentService(x, u, q, s)
    BY <1>3 DEF Serve
  <2> QED
    BY <1>3, <2>1, DocumentInStep
<1>4. CASE svc = <<JobRequests, "job">>
  <2>1. \A x : Serve(svc[2], x, u, q, s) = JobService(x, u, q, s)
    BY <1>4 DEF Serve
  <2> QED
    BY <1>4, <2>1, JobInStep
<1>5. CASE svc = <<IngestRequests, "ingest">>
  <2>1. \A x : Serve(svc[2], x, u, q, s) = IngestService(x, u, q, s)
    BY <1>5 DEF Serve
  <2> QED
    BY <1>5, <2>1, IngestInStep
<1>6. CASE svc = <<AccountRequests, "account">>
  <2>1. \A x : Serve(svc[2], x, u, q, s) = AccountService(x, u, q, s)
    BY <1>6 DEF Serve
  <2> QED
    BY <1>6, <2>1, AccountInStep
<1> QED
  BY <1>1, <1>2, <1>3, <1>4, <1>5, <1>6 DEF Services

\* Every handler may begin.
LEMMA StartKnown ==
  ASSUME NEW q
  PROVE  KnownStage(q, Start) /\ Level(Start.at) = 0
BY DEF KnownStage, Start, Stage, Level

\* The world in which atlas was never created is one of the worlds.
LEMMA WithoutIsWorld ==
  ASSUME NEW w \in World
  PROVE  Without(w) \in World
BY DEF Without, World, Places, Slugs

\* Run to their ends, the handlers answer an outsider the same in both worlds:
\* they are in step at every stage, and no handler has more than three.
LEMMA AnswersAlike ==
  ASSUME NEW w \in World, NEW v \in World, NEW u \in Users,
         Outsider(w, u), Outsider(v, u), ButForAtlas(w, v, u),
         NEW svc \in Services, NEW q \in svc[1], q.rpc # "library.Create"
  PROVE  SameAnswer(Answer(svc[2], w, u, q), Answer(svc[2], v, u, q))
<1> DEFINE at(x, s) == Serve(svc[2], x, u, q, s)
           a == at(w, Start)
           b == at(v, Start)
           c == Onward(svc[2], u, q, a)
           d == Onward(svc[2], u, q, b)
<1>1. Answer(svc[2], w, u, q) = Onward(svc[2], u, q, c) /\ Answer(svc[2], v, u, q) = Onward(svc[2], u, q, d)
  BY DEF Answer
<1>2. \A r : /\ r.done => Onward(svc[2], u, q, r) = r
             /\ ~ r.done => Onward(svc[2], u, q, r) = at(r.w, r.stage)
  BY DEF Onward
<1>3. \A s : KnownStage(q, s) =>
        /\ Sound(w, u, q, s, at(w, s)) /\ Sound(v, u, q, s, at(v, s))
        /\ InStep(w, v, at(w, s), at(v, s))
  BY ServeSound, ServeInStep
<1> HIDE DEF at
<1>4. InStep(w, v, a, b) /\ Sound(w, u, q, Start, a)
  BY <1>3, StartKnown DEF a, b
<1> HIDE DEF a, b
<1>5. CASE SameAnswer(a, b)
  <2>1. c = a /\ d = b
    BY <1>2, <1>5 DEF SameAnswer
  <2> QED
    BY <1>1, <1>2, <1>5, <2>1 DEF SameAnswer
<1>6. CASE ~ a.done /\ ~ b.done /\ a.w = w /\ b.w = v /\ a.stage = b.stage
  <2>1. c = at(w, a.stage) /\ d = at(v, a.stage)
    BY <1>2, <1>6
  <2>2. KnownStage(q, a.stage) /\ Level(a.stage.at) > 0
    BY <1>4, <1>6, StartKnown DEF Sound
  <2>3. InStep(w, v, c, d) /\ Sound(w, u, q, a.stage, c)
    BY <1>3, <2>1, <2>2
  <2> HIDE DEF c, d
  <2>4. CASE SameAnswer(c, d)
    BY <1>1, <1>2, <2>4 DEF SameAnswer
  <2>5. CASE ~ c.done /\ ~ d.done /\ c.w = w /\ d.w = v /\ c.stage = d.stage
    <3>1. KnownStage(q, c.stage) /\ Level(c.stage.at) > Level(a.stage.at)
      BY <2>3, <2>5 DEF Sound
    <3>2. \A x : Level(x) \in {0, 1, 2}
      BY DEF Level
    <3>3. Level(c.stage.at) = 2
      BY <2>2, <3>1, <3>2
    <3> DEFINE e == at(w, c.stage)
               f == at(v, c.stage)
    <3>4. Sound(w, u, q, c.stage, e) /\ InStep(w, v, e, f)
      BY <1>3, <3>1
    <3>5. Onward(svc[2], u, q, c) = e /\ Onward(svc[2], u, q, d) = f
      BY <1>2, <2>5
    <3> HIDE DEF e, f
    <3>6. e.done
      BY <3>2, <3>3, <3>4 DEF Sound
    <3> QED
      BY <1>1, <3>4, <3>5, <3>6 DEF InStep
  <2> QED
    BY <2>3, <2>4, <2>5 DEF InStep
<1> QED
  BY <1>4, <1>5, <1>6 DEF InStep

-----------------------------------------------------------------------------
(* What a handler that runs alone answers with. *)

\* What the first stages of a handler find out for the later ones, while no
\* other call comes in between.
Ready(w, u, q, s) ==
  /\ q.rpc = "library.Accept" => s.it \in Roles
  /\ q.rpc = "group.Create" => q.group = "crew" /\ q.name # ""
  /\ q.rpc = "job.Enqueue" => Rows(w, u, s.it, "editor")
  /\ q.rpc \in Recording \cup {"account.SetAdmin"} => u \in w.administrators
  /\ q.rpc = "account.Remove" => q.username # u

\* An answer that is not the server's fault, and a stage that ends in one or
\* leaves the next what it needs.
Named_(q, r) == r.done /\ r.code # "internal" /\ (r.code = "ok" => Proper(q.rpc, r.out))
Blameless(u, q, r) == Named_(q, r) \/ (~ r.done /\ Ready(r.w, u, q, r.stage))

\* The SQLSTATEs the repositories of libraries and groups have a name for.
Raises ==
  {"DSL01", "DSL02", "DSL03", "DSL04", "DSL05", "DSL06", "DSL07", "DSG01", "DSG02", "DSG03",
   "DSG04", "DSG05", "DSG06", "DSG07", "DSG08", "23505", "23514", "22023"}

\* A refusal that has a code of its own.
Coded(err) == err = "none" \/ sharingCodes(err) \notin {"internal", "ok"}

\* Every SQLSTATE of the table has a name, and every name a code.
LEMMA RaisesCoded ==
  ASSUME NEW t, t.sql \in Raises \cup {"00000"}
  PROVE  /\ Coded(run(t).err) /\ Coded(groupsRun(t).err)
         /\ run(t).err = "none" => t.sql = "00000"
         /\ groupsRun(t).err = "none" => t.sql = "00000"
<1>1. ASSUME NEW sql \in Raises PROVE refusals(sql) # "none" /\ sharingCodes(refusals(sql)) \notin {"internal", "ok"}
  <2>1. refusals(sql) \in {"ErrNoLibrary", "ErrNoAccount", "ErrLastAdmin", "ErrNameTaken", "ErrNoInvitation",
           "ErrTooMany", "ErrLibraryName", "ErrNoGroup", "ErrGroupRole", "ErrLastMaintainer",
           "ErrGroupTaken", "ErrNoGroupInvitation", "ErrJoinByForce", "ErrFromProvider",
           "ErrGroupName", "ErrInvalid"}
    BY DEF Raises, refusals
  <2> QED
    BY <2>1 DEF sharingCodes
<1>2. run(t).err = (IF t.sql = "00000" THEN "none" ELSE refusals(t.sql))
  BY DEF run, Named, Result_
<1>3. groupsRun(t).err = run(t).err
  BY DEF run, groupsRun
<1> QED
  BY <1>1, <1>2, <1>3 DEF Coded

\* The functions on libraries raise no other.
LEMMA LibrariesRaise ==
  ASSUME NEW w, NEW u, NEW slug, NEW member, NEW role, NEW name
  PROVE  \A t \in {create_library(w, u, slug, name), grant_library(w, u, member, role),
                   revoke_library(w, u, member), library_members(w, u), library_events(w, u),
                   accept_invitation(w, u), decline_invitation(w, u),
                   rename_library(w, u, name), delete_library(w, u), restore_library(w, u),
                   grant_library_group(w, u, role), revoke_library_group(w, u),
                   library_groups(w, u)} :
           t.sql \in Raises \cup {"00000"}
<1>1. /\ \A x, out : Commit(x, out).sql = "00000"
      /\ \A x, sql : Raise(x, sql).sql = sql
  BY DEF Raise, Commit
<1>2. create_library(w, u, slug, name).sql \in Raises \cup {"00000"}
  BY <1>1 DEF create_library, Raises
<1>3. grant_library(w, u, member, role).sql \in Raises \cup {"00000"}
  BY <1>1 DEF grant_library, Raises
<1>4. revoke_library(w, u, member).sql \in Raises \cup {"00000"}
  BY <1>1 DEF revoke_library, Raises
<1>5. library_members(w, u).sql \in Raises \cup {"00000"}
  BY <1>1 DEF library_members, Raises
<1>6. library_events(w, u).sql \in Raises \cup {"00000"}
  BY <1>1 DEF library_events, Raises
<1>7. accept_invitation(w, u).sql \in Raises \cup {"00000"}
  BY <1>1 DEF accept_invitation, Raises
<1>8. decline_invitation(w, u).sql \in Raises \cup {"00000"}
  BY <1>1 DEF decline_invitation, Raises
<1>9. rename_library(w, u, name).sql \in Raises \cup {"00000"}
  <2> DEFINE x == [w EXCEPT !.name = name]
  <2>1. rename_library(w, u, name)
          \in {Raise(w, "DSL01"), Raise(w, "22023"), Raise(w, "DSL07"), Commit(x, "renamed")}
    BY DEF rename_library
  <2> HIDE DEF x
  <2> QED
    BY <1>1, <2>1 DEF Raises
<1>10. delete_library(w, u).sql \in Raises \cup {"00000"}
  BY <1>1 DEF delete_library, Raises
<1>11. restore_library(w, u).sql \in Raises \cup {"00000"}
  BY <1>1 DEF restore_library, Raises
<1>12. grant_library_group(w, u, role).sql \in Raises \cup {"00000"}
  BY <1>1 DEF grant_library_group, Raises
<1>13. revoke_library_group(w, u).sql \in Raises \cup {"00000"}
  BY <1>1 DEF revoke_library_group, Raises
<1>14. library_groups(w, u).sql \in Raises \cup {"00000"}
  BY <1>1 DEF library_groups, Raises
<1> QED
  BY <1>2, <1>3, <1>4, <1>5, <1>6, <1>7, <1>8, <1>9, <1>10, <1>11, <1>12, <1>13, <1>14

\* Nor do the functions on groups.
LEMMA GroupsRaise ==
  ASSUME NEW w, NEW u, NEW member, NEW role, NEW name
  PROVE  \A t \in {create_group(w, u, name), rename_group(w, u, name), delete_group(w, u),
                   invite_to_group(w, u, member, role), force_into_group(w, u, member, role),
                   accept_group_invitation(w, u), decline_group_invitation(w, u),
                   remove_from_group(w, u, member), group_members_of(w, u),
                   group_libraries(w, u), group_events_of(w, u)} :
           t.sql \in Raises \cup {"00000"}
<1>1. /\ \A x, out : Commit(x, out).sql = "00000"
      /\ \A x, sql : Raise(x, sql).sql = sql
  BY DEF Raise, Commit
<1>2. create_group(w, u, name).sql \in Raises \cup {"00000"}
  BY <1>1 DEF create_group, Raises
<1>3. rename_group(w, u, name).sql \in Raises \cup {"00000"}
  <2>1. \/ rename_group(w, u, name) \in {Raise(w, "DSG01"), Raise(w, "DSG08")}
        \/ \E x : rename_group(w, u, name) = Commit(x, "renamed")
    BY DEF rename_group
  <2> QED
    BY <1>1, <2>1 DEF Raises
<1>4. delete_group(w, u).sql \in Raises \cup {"00000"}
  BY <1>1 DEF delete_group, Raises
<1>5. invite_to_group(w, u, member, role).sql \in Raises \cup {"00000"}
  BY <1>1 DEF invite_to_group, Raises
<1>6. force_into_group(w, u, member, role).sql \in Raises \cup {"00000"}
  BY <1>1 DEF force_into_group, Raises
<1>7. accept_group_invitation(w, u).sql \in Raises \cup {"00000"}
  BY <1>1 DEF accept_group_invitation, Raises
<1>8. decline_group_invitation(w, u).sql \in Raises \cup {"00000"}
  BY <1>1 DEF decline_group_invitation, Raises
<1>9. remove_from_group(w, u, member).sql \in Raises \cup {"00000"}
  BY <1>1 DEF remove_from_group, Raises
<1>10. group_members_of(w, u).sql \in Raises \cup {"00000"}
  BY <1>1 DEF group_members_of, Raises
<1>11. group_libraries(w, u).sql \in Raises \cup {"00000"}
  BY <1>1 DEF group_libraries, Raises
<1>12. group_events_of(w, u).sql \in Raises \cup {"00000"}
  BY <1>1 DEF group_events_of, Raises
<1> QED
  BY <1>2, <1>3, <1>4, <1>5, <1>6, <1>7, <1>8, <1>9, <1>10, <1>11, <1>12

\* An answer of a handler whose repository named its refusal.
LEMMA SharedNamed ==
  ASSUME NEW q, NEW r, Coded(r.err), NEW out, r.err = "none" => Proper(q.rpc, out)
  PROVE  Named_(q, Shared(r, out))
BY DEF Named_, Coded, Shared, sharingError, Refuse, Done

\* A field of what a sharing transaction returned, or the code of its refusal.
LEMMA SharedAsNamed ==
  ASSUME NEW q, NEW r, Coded(r.err), NEW field, r.err = "none" => Proper(q.rpc, Under(field, r.out))
  PROVE  Named_(q, SharedAs(r, field))
BY SharedNamed DEF SharedAs

\* A document's answer, or that it is not found.
LEMMA DocumentedNamed ==
  ASSUME NEW q, NEW r, r.err \in {"none", "ErrNotFound"}, NEW out,
         r.err = "none" => Proper(q.rpc, out)
  PROVE  Named_(q, Documented(r, out))
BY DEF Named_, Documented, documentError, Refuse, Done

\* A field of a document's answer, or that it is not found.
LEMMA DocumentedAsNamed ==
  ASSUME NEW q, NEW r, r.err \in {"none", "ErrNotFound"}, NEW field,
         r.err = "none" => Proper(q.rpc, Under(field, r.out))
  PROVE  Named_(q, DocumentedAs(r, field))
BY DocumentedNamed DEF DocumentedAs

\* What a transaction on accounts answers, or the code of its refusal.
LEMMA AdministeredNamed ==
  ASSUME NEW q, NEW r,
         r.err \in {"none", "ErrNotAdmin", "ErrNoAccount", "ErrLastAdmin", "ErrTaken",
                    "ErrUsername", "ErrNoSuchAccount"},
         NEW out, r.err = "none" => Proper(q.rpc, out)
  PROVE  Named_(q, Administered(r, out)) /\ (r.err # "none" => Named_(q, adminError(r)))
<1>1. r.err # "none" => adminCodes(r.err) \notin {"internal", "ok"}
  BY DEF adminCodes
<1> QED
  BY <1>1 DEF Named_, Administered, adminError, Refuse, Done

\* A refusal a handler makes itself has a code of its own.
LEMMA RefusedNamed ==
  ASSUME NEW q, NEW w, NEW code, code \notin {"ok", "internal"}
  PROVE  Named_(q, Refuse(w, code))
BY DEF Named_, Refuse, Done

\* What can be read is a message of the service.
LEMMA ReadableTyped ==
  ASSUME NEW w \in World, NEW u \in Users
  PROVE  /\ readable_libraries(w, u) \in SUBSET Library
         /\ find(w, u).err \in {"none", "ErrNoLibrary"}
         /\ find(w, u).err = "none" => find(w, u).out \in Library
<1> DEFINE own == [library |-> "personal", name |-> "", role |-> "admin"]
           atlas == [library |-> "atlas", name |-> w.name, role |-> user_library_roles(w, u)]
<1>1. own \in Library
  BY DEF Library, Roles
<1>2. Holds(w, u, "reader") => atlas \in Library
  <2>1. w.name \in Names /\ w.grants[u] \in Roles \cup {"none"} /\ w.groupRole \in Roles \cup {"none"}
    BY DEF World
  <2>2. Holds(w, u, "reader") => user_library_roles(w, u) \in Roles
    BY <2>1 DEF Holds, user_library_roles, role_rank, Roles
  <2> QED
    BY <2>1, <2>2 DEF Library
<1>3. readable_libraries(w, u) = {own} \cup (IF Holds(w, u, "reader") THEN {atlas} ELSE {})
  BY DEF readable_libraries
<1> HIDE DEF own, atlas
<1>4. readable_libraries(w, u) \in SUBSET Library
  BY <1>1, <1>2, <1>3
<1> DEFINE found == {lib \in readable_libraries(w, u) : lib.library = "atlas"}
<1>5. find(w, u) = IF found = {} THEN Result_("ErrNoLibrary", w, "none")
                   ELSE Result_("none", w, CHOOSE lib \in found : TRUE)
  BY DEF find, LibrariesList, Result_
<1>6. found # {} => (CHOOSE lib \in found : TRUE) \in Library
  BY <1>4
<1> HIDE DEF found
<1> QED
  BY <1>4, <1>5, <1>6 DEF Result_

\* A message of one field.
LEMMA UnderTyped ==
  ASSUME NEW S, NEW x \in S
  PROVE  /\ Under("library", x) \in [library : S] /\ Under("invited", x) \in [invited : S]
         /\ Under("group", x) \in [group : S] /\ Under("role", x) \in [role : S]
         /\ Under("document", x) \in [document : S] /\ Under("status", x) \in [status : S]
         /\ Under("stored", x) \in [stored : S]
BY DEF Under

\* A stage that goes on to one that is ready.
LEMMA ThenBlameless ==
  ASSUME NEW u, NEW q, NEW w, NEW at, NEW it, Ready(w, u, q, Stage(at, it))
  PROVE  Blameless(u, q, Then(w, at, it))
BY DEF Blameless, Then

\* The handlers of LibraryService: every stage ends in an answer with a code
\* of its own, and a message of the procedure, or leaves the next one ready.
LEMMA LibraryBlameless ==
  ASSUME NEW w \in World, NEW u \in Users, NEW q \in LibraryRequests, NEW s,
         s.at = "start" \/ Ready(w, u, q, s)
  PROVE  Blameless(u, q, LibraryService(w, u, q, s))
<1>1. CASE q \in ListRequest
  <2>1. LibraryService(w, u, q, s) = LibraryList(w, u)
    BY <1>1 DEF LibraryService, ListRequest
  <2> DEFINE out == [libraries |-> LibrariesList(w, u).out, username |-> LibrariesUsername(w, u).out]
  <2>2. LibrariesList(w, u).err = "none" /\ LibrariesList(w, u).out \in SUBSET Library
        /\ LibrariesUsername(w, u).out = u
    BY ReadableTyped DEF LibrariesList, LibrariesUsername, Result_
  <2>3. out \in ListResponse
    BY <2>2 DEF ListResponse
  <2>4. LibraryService(w, u, q, s) = Shared(LibrariesList(w, u), out)
    BY <2>1 DEF LibraryList
  <2> HIDE DEF out
  <2>5. Proper(q.rpc, out)
    BY <1>1, <2>3 DEF Proper, ListRequest
  <2> QED
    BY <2>2, <2>4, <2>5, SharedNamed DEF Coded, Blameless
<1>2. CASE q \in CreateRequest
  <2>1. LibraryService(w, u, q, s) = LibraryCreate(w, u, q)
    BY <1>2 DEF LibraryService, CreateRequest
  <2>2. CASE q.slug = "" \/ q.name = ""
    BY <2>1, <2>2, RefusedNamed DEF LibraryCreate, Blameless
  <2>3. CASE ~ (q.slug = "" \/ q.name = "")
    <3> DEFINE t == create_library(w, u, q.slug, q.name)
               out == [library |-> q.slug, name |-> q.name, role |-> "admin"]
               r == Result_(run(t).err, run(t).w, out)
    <3>1. Coded(run(t).err) /\ (run(t).err = "none" => t.sql = "00000")
      BY LibrariesRaise, RaisesCoded
    <3>2. t.sql = "00000" => q.slug = "atlas" /\ q.name # "unprintable"
      BY DEF create_library, Raise
    <3>3. q.name \in AnyName
      BY <1>2 DEF CreateRequest
    <3>4. run(t).err = "none" => out \in Library
      BY <2>3, <3>1, <3>2, <3>3 DEF Library, Roles, AnyName
    <3>5. LibraryService(w, u, q, s) = SharedAs(r, "library")
      BY <2>1, <2>3 DEF LibraryCreate, LibrariesCreate
    <3> HIDE DEF t, out
    <3>6. r.err = run(t).err /\ r.out = out
      BY DEF Result_
    <3> HIDE DEF r
    <3>7. r.err = "none" => Proper(q.rpc, Under("library", r.out))
      BY <1>2, <3>4, <3>6, UnderTyped DEF Proper, CreateRequest, CreateResponse
    <3> QED
      BY <3>1, <3>5, <3>6, <3>7, SharedAsNamed DEF Blameless
  <2> QED
    BY <2>2, <2>3
<1>3. CASE q \in MembersRequest
  <2>1. LibraryService(w, u, q, s) = LibraryMembers(w, u)
    BY <1>3 DEF LibraryService, MembersRequest
  <2>2. \A out : Proper(q.rpc, out)
    BY <1>3 DEF Proper, MembersRequest
  <2>3. Coded(LibrariesMembers(w, u).err)
    BY LibrariesRaise, RaisesCoded DEF LibrariesMembers
  <2> QED
    BY <2>1, <2>2, <2>3, SharedAsNamed DEF Blameless, LibraryMembers
<1>4. CASE q \in GrantRequest
  <2>1. LibraryService(w, u, q, s) = LibraryGrant(w, u, q)
    BY <1>4 DEF LibraryService, GrantRequest
  <2> DEFINE r == LibrariesGrant(w, u, q.username, q.role)
             t == grant_library(w, u, q.username, q.role)
  <2>2. r.err = run(t).err /\ r.out \in BOOLEAN
    BY DEF LibrariesGrant, Result_
  <2>3. Coded(run(t).err)
    BY LibrariesRaise, RaisesCoded
  <2>4. LibraryService(w, u, q, s) = SharedAs(r, "invited")
    BY <2>1 DEF LibraryGrant
  <2> HIDE DEF r, t
  <2>5. Proper(q.rpc, Under("invited", r.out))
    BY <1>4, <2>2, UnderTyped DEF Proper, GrantRequest, GrantResponse
  <2> QED
    BY <2>2, <2>3, <2>4, <2>5, SharedAsNamed DEF Blameless
<1>5. CASE q \in RevokeRequest
  <2>1. LibraryService(w, u, q, s) = LibraryRevoke(w, u, q)
    BY <1>5 DEF LibraryService, RevokeRequest
  <2>2. \A out : Proper(q.rpc, out)
    BY <1>5 DEF Proper, RevokeRequest
  <2>3. Coded(LibrariesRevoke(w, u, q.username).err)
    BY LibrariesRaise, RaisesCoded DEF LibrariesRevoke
  <2> QED
    BY <2>1, <2>2, <2>3, SharedNamed DEF Blameless, LibraryRevoke
<1>6. CASE q \in EventsRequest
  <2>1. LibraryService(w, u, q, s) = LibraryEvents(w, u)
    BY <1>6 DEF LibraryService, EventsRequest
  <2>2. \A out : Proper(q.rpc, out)
    BY <1>6 DEF Proper, EventsRequest
  <2>3. Coded(LibrariesEvents(w, u).err)
    BY LibrariesRaise, RaisesCoded DEF LibrariesEvents
  <2> QED
    BY <2>1, <2>2, <2>3, SharedNamed DEF Blameless, LibraryEvents
<1>7. CASE q \in InvitationsRequest
  <2>1. LibraryService(w, u, q, s) = LibraryInvitations(w, u)
    BY <1>7 DEF LibraryService, InvitationsRequest
  <2>2. \A out : Proper(q.rpc, out)
    BY <1>7 DEF Proper, InvitationsRequest
  <2>3. Coded(LibrariesInvitations(w, u).err)
    BY DEF Coded, LibrariesInvitations, Result_
  <2> QED
    BY <2>1, <2>2, <2>3, SharedNamed, SharedAsNamed DEF Blameless, LibraryInvitations
<1>8. CASE q \in AcceptRequest
  <2>1. LibraryService(w, u, q, s) = LibraryAccept(w, u, s)
    BY <1>8 DEF LibraryService, AcceptRequest
  <2>2. CASE s.at = "start"
    <3> DEFINE t == accept_invitation(w, u)
               r == run(t)
    <3>1. Coded(r.err) /\ (r.err = "none" => t.sql = "00000")
      BY LibrariesRaise, RaisesCoded
    <3>2. t.sql = "00000" => t.out \in Roles
      <4>1. w.offers[u] \in Roles \cup {"none"}
        BY DEF World
      <4>2. invitation_for(w, u) => t.out = w.offers[u] /\ w.offers[u] # "none"
        BY DEF accept_invitation, Commit, invitation_for
      <4>3. ~ invitation_for(w, u) => t.sql = "DSL05"
        BY DEF accept_invitation, Raise
      <4> QED
        BY <4>1, <4>2, <4>3
    <3>3. r.out = t.out
      BY DEF run, Named, Result_
    <3>4. LibraryService(w, u, q, s) = IF r.err = "none" THEN Then(r.w, "find", r.out) ELSE sharingError(r)
      BY <2>1, <2>2 DEF LibraryAccept, LibrariesAccept
    <3> HIDE DEF r, t
    <3>5. r.err = "none" => Ready(r.w, u, q, Stage("find", r.out))
      BY <1>8, <3>1, <3>2, <3>3 DEF Ready, Recording, AcceptRequest, Stage
    <3> QED
      BY <3>1, <3>4, <3>5, ThenBlameless, RefusedNamed DEF Coded, sharingError, Blameless
  <2>3. CASE s.at # "start"
    <3> DEFINE here == find(w, u)
               gone == [library |-> "atlas", name |-> "", role |-> s.it]
               lib == IF here.err = "none" THEN here.out ELSE gone
    <3>1. s.it \in Roles
      BY <1>8, <2>3 DEF Ready, AcceptRequest
    <3>2. gone \in Library
      BY <3>1 DEF Library
    <3>3. lib \in Library
      BY <3>2, ReadableTyped
    <3>4. LibraryService(w, u, q, s) = Done(w, "ok", [library |-> lib])
      BY <2>1, <2>3 DEF LibraryAccept
    <3> HIDE DEF lib
    <3>5. Proper(q.rpc, [library |-> lib])
      BY <1>8, <3>3 DEF Proper, AcceptRequest, AcceptResponse
    <3> DEFINE out == [library |-> lib]
    <3> HIDE DEF out
    <3> QED
      BY <3>4, <3>5 DEF Blameless, Named_, Done, out
  <2> QED
    BY <2>2, <2>3
<1>9. CASE q \in DeclineRequest
  <2>1. LibraryService(w, u, q, s) = LibraryDecline(w, u)
    BY <1>9 DEF LibraryService, DeclineRequest
  <2>2. \A out : Proper(q.rpc, out)
    BY <1>9 DEF Proper, DeclineRequest
  <2>3. Coded(LibrariesDecline(w, u).err)
    BY LibrariesRaise, RaisesCoded DEF LibrariesDecline
  <2> QED
    BY <2>1, <2>2, <2>3, SharedNamed DEF Blameless, LibraryDecline
<1>10. CASE q \in RenameRequest
  <2>1. LibraryService(w, u, q, s) = LibraryRename(w, u, q, s)
    BY <1>10 DEF LibraryService, RenameRequest
  <2>2. CASE s.at = "start"
    <3> DEFINE r == LibrariesRename(w, u, q.name)
    <3>1. Coded(r.err)
      BY LibrariesRaise, RaisesCoded DEF LibrariesRename
    <3>2. LibraryService(w, u, q, s) = IF r.err = "none" THEN Then(r.w, "find", "none") ELSE sharingError(r)
      BY <2>1, <2>2 DEF LibraryRename, Reread
    <3> HIDE DEF r
    <3>3. Ready(r.w, u, q, Stage("find", "none"))
      BY <1>10 DEF Ready, Recording, RenameRequest
    <3> QED
      BY <3>1, <3>2, <3>3, ThenBlameless, RefusedNamed DEF Coded, sharingError, Blameless
  <2>3. CASE s.at # "start"
    <3> DEFINE r == find(w, u)
    <3>1. LibraryService(w, u, q, s) = SharedAs(r, "library")
      BY <2>1, <2>3 DEF LibraryRename, Reread
    <3>2. Coded(r.err) /\ (r.err = "none" => r.out \in Library)
      BY ReadableTyped DEF Coded, sharingCodes
    <3> HIDE DEF r
    <3>3. r.err = "none" => Proper(q.rpc, Under("library", r.out))
      BY <1>10, <3>2, UnderTyped DEF Proper, RenameRequest, RenameResponse
    <3> QED
      BY <3>1, <3>2, <3>3, SharedAsNamed DEF Blameless
  <2> QED
    BY <2>2, <2>3
<1>11. CASE q \in DeleteRequest
  <2>1. LibraryService(w, u, q, s) = LibraryDelete(w, u)
    BY <1>11 DEF LibraryService, DeleteRequest
  <2>2. \A out : Proper(q.rpc, out)
    BY <1>11 DEF Proper, DeleteRequest
  <2>3. Coded(LibrariesDelete(w, u).err)
    BY LibrariesRaise, RaisesCoded DEF LibrariesDelete
  <2> QED
    BY <2>1, <2>2, <2>3, SharedNamed DEF Blameless, LibraryDelete
<1>12. CASE q \in RestoreRequest
  <2>1. LibraryService(w, u, q, s) = LibraryRestore(w, u, s)
    BY <1>12 DEF LibraryService, RestoreRequest
  <2>2. CASE s.at = "start"
    <3> DEFINE r == LibrariesRestore(w, u)
    <3>1. Coded(r.err)
      BY LibrariesRaise, RaisesCoded DEF LibrariesRestore
    <3>2. LibraryService(w, u, q, s) = IF r.err = "none" THEN Then(r.w, "find", "none") ELSE sharingError(r)
      BY <2>1, <2>2 DEF LibraryRestore, Reread
    <3> HIDE DEF r
    <3>3. Ready(r.w, u, q, Stage("find", "none"))
      BY <1>12 DEF Ready, Recording, RestoreRequest
    <3> QED
      BY <3>1, <3>2, <3>3, ThenBlameless, RefusedNamed DEF Coded, sharingError, Blameless
  <2>3. CASE s.at # "start"
    <3> DEFINE r == find(w, u)
    <3>1. LibraryService(w, u, q, s) = SharedAs(r, "library")
      BY <2>1, <2>3 DEF LibraryRestore, Reread
    <3>2. Coded(r.err) /\ (r.err = "none" => r.out \in Library)
      BY ReadableTyped DEF Coded, sharingCodes
    <3> HIDE DEF r
    <3>3. r.err = "none" => Proper(q.rpc, Under("library", r.out))
      BY <1>12, <3>2, UnderTyped DEF Proper, RestoreRequest, RestoreResponse
    <3> QED
      BY <3>1, <3>2, <3>3, SharedAsNamed DEF Blameless
  <2> QED
    BY <2>2, <2>3
<1>13. CASE q \in DeletedRequest
  <2>1. LibraryService(w, u, q, s) = LibraryDeleted(w, u)
    BY <1>13 DEF LibraryService, DeletedRequest
  <2>2. \A out : Proper(q.rpc, out)
    BY <1>13 DEF Proper, DeletedRequest
  <2>3. Coded(LibrariesDeleted(w, u).err)
    BY DEF Coded, LibrariesDeleted, Result_
  <2> QED
    BY <2>1, <2>2, <2>3, SharedNamed, SharedAsNamed DEF Blameless, LibraryDeleted
<1>14. CASE q \in GrantGroupRequest
  <2>1. LibraryService(w, u, q, s) = LibraryGrantGroup(w, u, q)
    BY <1>14 DEF LibraryService, GrantGroupRequest
  <2>2. \A out : Proper(q.rpc, out)
    BY <1>14 DEF Proper, GrantGroupRequest
  <2>3. Coded(GroupsGrantLibrary(w, u, q.role).err)
    BY LibrariesRaise, RaisesCoded DEF GroupsGrantLibrary
  <2> QED
    BY <2>1, <2>2, <2>3, SharedNamed DEF Blameless, LibraryGrantGroup
<1>15. CASE q \in RevokeGroupRequest
  <2>1. LibraryService(w, u, q, s) = LibraryRevokeGroup(w, u)
    BY <1>15 DEF LibraryService, RevokeGroupRequest
  <2>2. \A out : Proper(q.rpc, out)
    BY <1>15 DEF Proper, RevokeGroupRequest
  <2>3. Coded(GroupsRevokeLibrary(w, u).err)
    BY LibrariesRaise, RaisesCoded DEF GroupsRevokeLibrary
  <2> QED
    BY <2>1, <2>2, <2>3, SharedNamed DEF Blameless, LibraryRevokeGroup
<1>16. CASE q \in GroupsRequest
  <2>1. LibraryService(w, u, q, s) = LibraryGroups(w, u)
    BY <1>16 DEF LibraryService, GroupsRequest
  <2>2. \A out : Proper(q.rpc, out)
    BY <1>16 DEF Proper, GroupsRequest
  <2>3. Coded(GroupsOnLibrary(w, u).err)
    BY LibrariesRaise, RaisesCoded DEF GroupsOnLibrary
  <2> QED
    BY <2>1, <2>2, <2>3, SharedAsNamed DEF Blameless, LibraryGroups
<1> QED
  BY <1>1, <1>2, <1>3, <1>4, <1>5, <1>6, <1>7, <1>8, <1>9, <1>10, <1>11, <1>12, <1>13, <1>14, <1>15, <1>16 DEF LibraryRequests

\* The same of GroupService.
LEMMA GroupBlameless ==
  ASSUME NEW w \in World, NEW u \in Users, NEW q \in GroupRequests, NEW s,
         s.at = "start" \/ Ready(w, u, q, s), KnownStage(q, s)
  PROVE  Blameless(u, q, GroupService(w, u, q, s))
<1>1. CASE q \in ListGroupsRequest
  <2>1. GroupService(w, u, q, s) = GroupList(w, u)
    BY <1>1 DEF GroupService, ListGroupsRequest
  <2>2. \A out : Proper(q.rpc, out)
    BY <1>1 DEF Proper, ListGroupsRequest
  <2>3. Coded(GroupsAll(w, u).err)
    BY DEF Coded, GroupsAll, Result_
  <2> QED
    BY <2>1, <2>2, <2>3, SharedNamed, SharedAsNamed DEF Blameless, GroupList
<1>2. CASE q \in CreateGroupRequest
  <2>1. GroupService(w, u, q, s) = GroupCreate(w, u, q, s)
    BY <1>2 DEF GroupService, CreateGroupRequest
  <2>2. s.at \in {"start", "may"} /\ q.group \in {"", "crew"} /\ q.name \in AnyName
    BY <1>2 DEF KnownStage, CreateGroupRequest
  <2>3. CASE s.at = "may"
    <3> DEFINE t == create_group(w, u, q.name)
               out == [group |-> q.group, name |-> q.name, role |-> "maintainer"]
               r == Result_(groupsRun(t).err, groupsRun(t).w, out)
    <3>1. q.group = "crew" /\ q.name # ""
      BY <1>2, <2>3 DEF Ready, CreateGroupRequest
    <3>2. Coded(groupsRun(t).err) /\ (groupsRun(t).err = "none" => t.sql = "00000")
      BY GroupsRaise, RaisesCoded
    <3>3. t.sql = "00000" => q.name # "unprintable"
      BY DEF create_group, Raise
    <3>4. groupsRun(t).err = "none" => out \in Group
      BY <2>2, <3>1, <3>2, <3>3 DEF Group, GroupSlugs, MemberRoles, AnyName
    <3>5. GroupService(w, u, q, s) = SharedAs(r, "group")
      BY <2>1, <2>3 DEF GroupCreate, GroupsCreate
    <3> HIDE DEF t, out
    <3>6. r.err = groupsRun(t).err /\ r.out = out
      BY DEF Result_
    <3> HIDE DEF r
    <3>7. r.err = "none" => Proper(q.rpc, Under("group", r.out))
      BY <1>2, <3>4, <3>6, UnderTyped DEF Proper, CreateGroupRequest, CreateGroupResponse
    <3> QED
      BY <3>2, <3>5, <3>6, <3>7, SharedAsNamed DEF Blameless
  <2>4. CASE s.at = "start" /\ (q.group = "" \/ q.name = "")
    <3>1. GroupService(w, u, q, s) = Refuse(w, "invalid_argument")
      BY <2>1, <2>4 DEF GroupCreate
    <3> QED
      BY <3>1, RefusedNamed DEF Blameless
  <2>5. CASE s.at = "start" /\ ~ (q.group = "" \/ q.name = "")
    <3>1. GroupService(w, u, q, s) = IF mayCreate(w, u) THEN Then(w, "may", "none") ELSE Refuse(w, "permission_denied")
      BY <2>1, <2>5 DEF GroupCreate
    <3>2. Ready(w, u, q, Stage("may", "none"))
      BY <1>2, <2>2, <2>5 DEF Ready, Recording, CreateGroupRequest
    <3> QED
      BY <3>1, <3>2, ThenBlameless, RefusedNamed DEF Blameless
  <2> QED
    BY <2>2, <2>3, <2>4, <2>5
<1>3. CASE q \in RenameGroupRequest
  <2>1. GroupService(w, u, q, s) = GroupRename(w, u, q)
    BY <1>3 DEF GroupService, RenameGroupRequest
  <2>2. \A out : Proper(q.rpc, out)
    BY <1>3 DEF Proper, RenameGroupRequest
  <2>3. Coded(GroupsRename(w, u, q.name).err)
    BY GroupsRaise, RaisesCoded DEF GroupsRename
  <2> QED
    BY <2>1, <2>2, <2>3, SharedNamed DEF Blameless, GroupRename
<1>4. CASE q \in DeleteGroupRequest
  <2>1. GroupService(w, u, q, s) = GroupDelete(w, u)
    BY <1>4 DEF GroupService, DeleteGroupRequest
  <2>2. \A out : Proper(q.rpc, out)
    BY <1>4 DEF Proper, DeleteGroupRequest
  <2>3. Coded(GroupsDelete(w, u).err)
    BY GroupsRaise, RaisesCoded DEF GroupsDelete
  <2> QED
    BY <2>1, <2>2, <2>3, SharedNamed DEF Blameless, GroupDelete
<1>5. CASE q \in InviteRequest
  <2>1. GroupService(w, u, q, s) = GroupInvite(w, u, q)
    BY <1>5 DEF GroupService, InviteRequest
  <2>2. CASE q.force
    <3> DEFINE r == GroupsForce(w, u, q.username, q.role)
               out == [invited |-> FALSE]
    <3>1. Coded(r.err)
      BY GroupsRaise, RaisesCoded DEF GroupsForce
    <3>2. out \in InviteResponse
      BY DEF InviteResponse
    <3>3. GroupService(w, u, q, s) = Shared(r, out)
      BY <2>1, <2>2 DEF GroupInvite
    <3> HIDE DEF r, out
    <3>4. Proper(q.rpc, out)
      BY <1>5, <3>2 DEF Proper, InviteRequest
    <3> QED
      BY <3>1, <3>3, <3>4, SharedNamed DEF Blameless
  <2>3. CASE ~ q.force
    <3> DEFINE r == GroupsInvite(w, u, q.username, q.role)
               t == invite_to_group(w, u, q.username, q.role)
    <3>1. r.err = groupsRun(t).err /\ r.out \in BOOLEAN
      BY DEF GroupsInvite, Result_
    <3>2. Coded(groupsRun(t).err)
      BY GroupsRaise, RaisesCoded
    <3>3. GroupService(w, u, q, s) = SharedAs(r, "invited")
      BY <2>1, <2>3 DEF GroupInvite
    <3> HIDE DEF r, t
    <3>4. Proper(q.rpc, Under("invited", r.out))
      BY <1>5, <3>1, UnderTyped DEF Proper, InviteRequest, InviteResponse
    <3> QED
      BY <3>1, <3>2, <3>3, <3>4, SharedAsNamed DEF Blameless
  <2> QED
    BY <2>2, <2>3
<1>6. CASE q \in AcceptGroupRequest
  <2>1. GroupService(w, u, q, s) = GroupAccept(w, u)
    BY <1>6 DEF GroupService, AcceptGroupRequest
  <2> DEFINE t == accept_group_invitation(w, u)
             r == groupsRun(t)
  <2>2. Coded(r.err) /\ (r.err = "none" => t.sql = "00000")
    BY GroupsRaise, RaisesCoded
  <2>3. t.sql = "00000" => t.out \in MemberRoles
    <3>1. w.groupOffers[u] \in MemberRoles \cup {"none"}
      BY DEF World
    <3>2. group_invitation_for(w, u) => t.out = w.groupOffers[u] /\ w.groupOffers[u] # "none"
      BY DEF accept_group_invitation, Commit, group_invitation_for
    <3>3. ~ group_invitation_for(w, u) => t.sql = "DSG05"
      BY DEF accept_group_invitation, Raise
    <3> QED
      BY <3>1, <3>2, <3>3
  <2>4. r.out = t.out
    BY DEF groupsRun, Named, Result_
  <2>5. GroupService(w, u, q, s) = SharedAs(r, "role")
    BY <2>1 DEF GroupAccept, GroupsAccept
  <2> HIDE DEF r, t
  <2>6. r.err = "none" => Proper(q.rpc, Under("role", r.out))
    BY <1>6, <2>2, <2>3, <2>4, UnderTyped DEF Proper, AcceptGroupRequest, AcceptGroupResponse
  <2> QED
    BY <2>2, <2>5, <2>6, SharedAsNamed DEF Blameless
<1>7. CASE q \in DeclineGroupRequest
  <2>1. GroupService(w, u, q, s) = GroupDecline(w, u)
    BY <1>7 DEF GroupService, DeclineGroupRequest
  <2>2. \A out : Proper(q.rpc, out)
    BY <1>7 DEF Proper, DeclineGroupRequest
  <2>3. Coded(GroupsDecline(w, u).err)
    BY GroupsRaise, RaisesCoded DEF GroupsDecline
  <2> QED
    BY <2>1, <2>2, <2>3, SharedNamed DEF Blameless, GroupDecline
<1>8. CASE q \in RemoveMemberRequest
  <2>1. GroupService(w, u, q, s) = GroupRemove(w, u, q)
    BY <1>8 DEF GroupService, RemoveMemberRequest
  <2>2. \A out : Proper(q.rpc, out)
    BY <1>8 DEF Proper, RemoveMemberRequest
  <2>3. Coded(GroupsRemove(w, u, q.username).err)
    BY GroupsRaise, RaisesCoded DEF GroupsRemove
  <2> QED
    BY <2>1, <2>2, <2>3, SharedNamed DEF Blameless, GroupRemove
<1>9. CASE q \in GroupInvitationsRequest
  <2>1. GroupService(w, u, q, s) = GroupInvitations(w, u)
    BY <1>9 DEF GroupService, GroupInvitationsRequest
  <2>2. \A out : Proper(q.rpc, out)
    BY <1>9 DEF Proper, GroupInvitationsRequest
  <2>3. Coded(GroupsInvitations(w, u).err)
    BY DEF Coded, GroupsInvitations, Result_
  <2> QED
    BY <2>1, <2>2, <2>3, SharedNamed, SharedAsNamed DEF Blameless, GroupInvitations
<1>10. CASE q \in GroupMembersRequest
  <2>1. GroupService(w, u, q, s) = GroupMembers(w, u)
    BY <1>10 DEF GroupService, GroupMembersRequest
  <2>2. \A out : Proper(q.rpc, out)
    BY <1>10 DEF Proper, GroupMembersRequest
  <2>3. Coded(GroupsMembers(w, u).err)
    BY GroupsRaise, RaisesCoded DEF GroupsMembers
  <2> QED
    BY <2>1, <2>2, <2>3, SharedAsNamed DEF Blameless, GroupMembers
<1>11. CASE q \in LibrariesRequest
  <2>1. GroupService(w, u, q, s) = GroupLibraries(w, u)
    BY <1>11 DEF GroupService, LibrariesRequest
  <2>2. \A out : Proper(q.rpc, out)
    BY <1>11 DEF Proper, LibrariesRequest
  <2>3. Coded(GroupsLibraries(w, u).err)
    BY GroupsRaise, RaisesCoded DEF GroupsLibraries
  <2> QED
    BY <2>1, <2>2, <2>3, SharedAsNamed DEF Blameless, GroupLibraries
<1>12. CASE q \in GroupEventsRequest
  <2>1. GroupService(w, u, q, s) = GroupEvents(w, u)
    BY <1>12 DEF GroupService, GroupEventsRequest
  <2>2. \A out : Proper(q.rpc, out)
    BY <1>12 DEF Proper, GroupEventsRequest
  <2>3. Coded(GroupsEvents(w, u).err)
    BY GroupsRaise, RaisesCoded DEF GroupsEvents
  <2> QED
    BY <2>1, <2>2, <2>3, SharedNamed DEF Blameless, GroupEvents
<1> QED
  BY <1>1, <1>2, <1>3, <1>4, <1>5, <1>6, <1>7, <1>8, <1>9, <1>10, <1>11, <1>12 DEF GroupRequests

\* What is found in a place is a message of the service.
LEMMA LooksTyped ==
  ASSUME NEW w \in World, NEW u \in Users, NEW p
  PROVE  /\ DocumentsGet(w, u, p).err \in {"none", "ErrNotFound"}
         /\ DocumentsGet(w, u, p).err = "none" => DocumentsGet(w, u, p).out \in Document
         /\ DocumentsList(w, u, p).err = "none"
         /\ JobStatus(w, u, p).err \in {"none", "ErrNotFound"}
         /\ JobStatus(w, u, p).err = "none" =>
              JobStatus(w, u, p).out \in {"queued", "done", "cancelled", "failed"}
<1>1. Holding(w, u, p, "reader") => DocumentRow(w, u, p) \in Document
  <2>1. Qualify(u, p) \in {"doc", "atlas/doc"}
    BY DEF Qualify
  <2>2. Holding(w, u, p, "reader") => w.docs[p] \in Names
    BY DEF Holding, Rows, World
  <2> QED
    BY <2>1, <2>2 DEF DocumentRow, Document
<1>2. /\ \A err, x, out : Result_(err, x, out).err = err /\ Result_(err, x, out).out = out
  BY DEF Result_
<1>3. DocumentsGet(w, u, p).err \in {"none", "ErrNotFound"}
      /\ (DocumentsGet(w, u, p).err = "none" => DocumentsGet(w, u, p).out \in Document)
  BY <1>1, <1>2 DEF DocumentsGet
<1>4. DocumentsList(w, u, p).err = "none"
  BY <1>2 DEF DocumentsList
<1>5. JobStatus(w, u, p).err \in {"none", "ErrNotFound"}
      /\ (JobStatus(w, u, p).err = "none" => JobStatus(w, u, p).out \in {"queued", "done", "cancelled", "failed"})
  BY <1>2 DEF JobStatus, Rows, World
<1> QED
  BY <1>3, <1>4, <1>5

\* A call that is told a place goes on or is refused with a code of its own.
LEMMA ShelfBlameless ==
  ASSUME NEW w, NEW u, NEW q, \A x, t : Ready(x, u, q, t), NEW label, NEW docID
  PROVE  /\ Blameless(u, q, InLibrary(w, u, label)) /\ Blameless(u, q, At(w, u, docID))
         /\ Blameless(u, q, editable(w, u, InLibrary(w, u, label)))
         /\ Blameless(u, q, editable(w, u, At(w, u, docID)))
<1>1. \A at, it : Blameless(u, q, Then(w, at, it))
  BY ThenBlameless
<1>2. \A code : code \notin {"ok", "internal"} => Blameless(u, q, Refuse(w, code))
  BY RefusedNamed DEF Blameless
<1> QED
  BY <1>1, <1>2 DEF InLibrary, At, editable

\* The same of DocumentService.
LEMMA DocumentBlameless ==
  ASSUME NEW w \in World, NEW u \in Users, NEW q \in DocumentRequests, NEW s, KnownStage(q, s)
  PROVE  Blameless(u, q, DocumentService(w, u, q, s))
<1>1. CASE q \in ListDocumentsRequest
  <2>1. DocumentService(w, u, q, s) = DocumentList(w, u, q, s)
    BY <1>1 DEF DocumentService, ListDocumentsRequest
  <2>2. \A out : Proper(q.rpc, out)
    BY <1>1 DEF Proper, ListDocumentsRequest
  <2>3. \A x, t : Ready(x, u, q, t)
    BY <1>1 DEF Ready, Recording, ListDocumentsRequest
  <2>4. CASE s.at = "start"
    BY <2>1, <2>3, <2>4, ShelfBlameless DEF DocumentList
  <2>5. CASE s.at # "start"
    BY <2>1, <2>2, <2>5, LooksTyped, DocumentedAsNamed DEF DocumentList, Blameless
  <2> QED
    BY <2>4, <2>5
<1>2. CASE q \in VerifyRequest
  <2>1. DocumentService(w, u, q, s) = DocumentVerify(w, u, q, s)
    BY <1>2 DEF DocumentService, VerifyRequest
  <2>3. \A x, t : Ready(x, u, q, t)
    BY <1>2 DEF Ready, Recording, VerifyRequest
  <2>4. CASE s.at = "start"
    BY <2>1, <2>3, <2>4, ShelfBlameless DEF DocumentVerify
  <2>5. CASE s.at # "start"
    <3> DEFINE r == DocumentsGet(w, u, s.it)
    <3>1. r.err \in {"none", "ErrNotFound"} /\ (r.err = "none" => r.out \in Document)
      BY LooksTyped
    <3>2. DocumentService(w, u, q, s) = DocumentedAs(r, "document")
      BY <2>1, <2>5 DEF DocumentVerify
    <3> HIDE DEF r
    <3>3. r.err = "none" => Proper(q.rpc, Under("document", r.out))
      BY <1>2, <3>1, UnderTyped DEF Proper, VerifyRequest, VerifyResponse
    <3> QED
      BY <3>1, <3>2, <3>3, DocumentedAsNamed DEF Blameless
  <2> QED
    BY <2>4, <2>5
<1>3. CASE q \in InspectRequest
  <2>1. DocumentService(w, u, q, s) = DocumentInspect(w, u, q)
    BY <1>3 DEF DocumentService, InspectRequest
  <2>2. \A out : Proper(q.rpc, out)
    BY <1>3 DEF Proper, InspectRequest
  <2>3. DocumentService(w, u, q, s) \in {Refuse(w, "invalid_argument"), Done(w, "ok", "empty")}
    BY <2>1 DEF DocumentInspect
  <2>4. Blameless(u, q, Done(w, "ok", "empty"))
    BY <2>2 DEF Blameless, Named_, Done
  <2>5. Blameless(u, q, Refuse(w, "invalid_argument"))
    BY RefusedNamed DEF Blameless
  <2> QED
    BY <2>3, <2>4, <2>5
<1>4. CASE q \in RemoveDocumentRequest
  <2>1. DocumentService(w, u, q, s) = DocumentRemove(w, u, q, s)
    BY <1>4 DEF DocumentService, RemoveDocumentRequest
  <2>2. \A out : Proper(q.rpc, out)
    BY <1>4 DEF Proper, RemoveDocumentRequest
  <2>3. \A x, t : Ready(x, u, q, t)
    BY <1>4 DEF Ready, Recording, RemoveDocumentRequest
  <2>4. s.at \in {"start", "shelf", "found"}
    BY <1>4 DEF KnownStage, RemoveDocumentRequest
  <2>5. CASE s.at = "start"
    BY <2>1, <2>3, <2>5, ShelfBlameless DEF DocumentRemove
  <2>6. CASE s.at = "shelf"
    <3>1. CASE DocumentsGet(w, u, s.it).err = "none"
      <4>1. DocumentService(w, u, q, s) = Then(w, "found", s.it)
        BY <2>1, <2>6, <3>1 DEF DocumentRemove
      <4> QED
        BY <2>3, <4>1, ThenBlameless
    <3>2. CASE DocumentsGet(w, u, s.it).err # "none"
      <4>1. DocumentService(w, u, q, s) = Documented(DocumentsGet(w, u, s.it), "none")
        BY <2>1, <2>6, <3>2 DEF DocumentRemove, Documented
      <4> QED
        BY <2>2, <4>1, LooksTyped, DocumentedNamed DEF Blameless
    <3> QED
      BY <3>1, <3>2
  <2>7. CASE s.at = "found"
    <3>1. DocumentService(w, u, q, s) = Documented(DocumentsDelete(w, u, s.it), "empty")
      BY <2>1, <2>7 DEF DocumentRemove
    <3>2. DocumentsDelete(w, u, s.it).err = "none"
      BY DEF DocumentsDelete, Result_
    <3> QED
      BY <2>2, <3>1, <3>2, DocumentedNamed DEF Blameless
  <2> QED
    BY <2>4, <2>5, <2>6, <2>7
<1>5. CASE q \in RenameDocumentRequest
  <2>1. DocumentService(w, u, q, s) = DocumentRename(w, u, q, s)
    BY <1>5 DEF DocumentService, RenameDocumentRequest
  <2>2. \A out : Proper(q.rpc, out)
    BY <1>5 DEF Proper, RenameDocumentRequest
  <2>3. \A x, t : Ready(x, u, q, t)
    BY <1>5 DEF Ready, Recording, RenameDocumentRequest
  <2>4. CASE s.at = "shelf"
    <3>1. DocumentService(w, u, q, s) = Documented(DocumentsRename(w, u, s.it, q.title), "empty")
      BY <2>1, <2>4 DEF DocumentRename
    <3>2. DocumentsRename(w, u, s.it, q.title).err \in {"none", "ErrNotFound"}
      BY DEF DocumentsRename, Result_
    <3> QED
      BY <2>2, <3>1, <3>2, DocumentedNamed DEF Blameless
  <2>5. CASE s.at # "shelf"
    BY <2>1, <2>3, <2>5, ShelfBlameless, RefusedNamed DEF DocumentRename, Blameless
  <2> QED
    BY <2>4, <2>5
<1>6. CASE q \in ReadRequest
  <2>1. DocumentService(w, u, q, s) = DocumentRead(w, u, q, s)
    BY <1>6 DEF DocumentService, ReadRequest
  <2>3. \A x, t : Ready(x, u, q, t)
    BY <1>6 DEF Ready, Recording, ReadRequest
  <2>4. CASE s.at = "start"
    BY <2>1, <2>3, <2>4, ShelfBlameless DEF DocumentRead
  <2>5. CASE s.at # "start" /\ q.at_chunk_id \notin ReadChunk \cup {-1}
    BY <2>1, <2>5, RefusedNamed DEF DocumentRead, Blameless
  <2>6. CASE s.at # "start" /\ q.at_chunk_id \in ReadChunk \cup {-1}
    <3>1. DocumentService(w, u, q, s) = Documented(DocumentsGet(w, u, s.it), ReadRun(q))
      BY <2>1, <2>6 DEF DocumentRead
    <3>2. ReadRun(q) \in ReadResponse
      <4> DEFINE asked == IF q.at_chunk_id # -1 THEN q.at_chunk_id ELSE q.from_ordinal
                 from == IF asked < 0 THEN 0 ELSE asked
                 limit == IF q.limit <= 0 \/ q.limit > ReadLimit THEN DefaultReadLimit ELSE q.limit
                 chunks == {c \in ReadChunk : from <= c /\ c <= from + limit - 1}
      <4>1. q.at_chunk_id \in {-1, 0, 1, 2} /\ q.from_ordinal \in {-1, 1}
        BY <1>6, <2>6 DEF ReadRequest, ReadChunk
      <4>2. from \in 0 .. 2
        BY <4>1
      <4>3. ReadRun(q) = [chunks |-> chunks, from_ordinal |-> from]
        BY DEF ReadRun
      <4> HIDE DEF from, limit, asked
      <4>4. chunks \in SUBSET ReadChunk
        OBVIOUS
      <4> HIDE DEF chunks
      <4> QED
        BY <4>2, <4>3, <4>4 DEF ReadResponse
    <3>3. Proper(q.rpc, ReadRun(q))
      BY <1>6, <3>2 DEF Proper, ReadRequest
    <3> QED
      BY <3>1, <3>3, LooksTyped, DocumentedNamed DEF Blameless
  <2> QED
    BY <2>4, <2>5, <2>6
<1> QED
  BY <1>1, <1>2, <1>3, <1>4, <1>5, <1>6 DEF DocumentRequests

\* A library named and edited is one whose rows can be written.
LEMMA EditedRows ==
  ASSUME NEW w, NEW u \in Users, NEW label \in Labels, labelled(w, u, label) # "unknown",
         CanAdd(w, u, labelled(w, u, label))
  PROVE  Rows(w, u, labelled(w, u, label), "editor")
<1>1. CASE label = ""
  <2>1. labelled(w, u, label) = u
    BY <1>1 DEF labelled
  <2> QED
    BY <2>1 DEF Rows, RowsOf, Places
<1>2. CASE label = "atlas"
  <2>1. labelled(w, u, label) = "atlas" /\ \E lib \in readable_libraries(w, u) : lib.library = "atlas"
    BY <1>2 DEF labelled, readableOf
  <2>2. Holds(w, u, "reader")
    <3>1. [library |-> "personal", name |-> "", role |-> "admin"].library # "atlas"
      OBVIOUS
    <3> QED
      BY <2>1, <3>1 DEF readable_libraries
  <2>3. user_library_roles(w, u) \in {"editor", "admin"}
    BY <2>1 DEF CanAdd
  <2>4. Holds(w, u, "editor")
    BY <2>2, <2>3 DEF Holds, role_rank
  <2> QED
    BY <2>1, <2>4 DEF Rows, RowsOf, Places, Slugs
<1> QED
  BY <1>1, <1>2 DEF Labels

\* The same of JobService.
LEMMA JobBlameless ==
  ASSUME NEW w \in World, NEW u \in Users, NEW q \in JobRequests, NEW s,
         s.at = "start" \/ Ready(w, u, q, s), KnownStage(q, s), ~ Unnamed(q)
  PROVE  Blameless(u, q, JobService(w, u, q, s))
<1>1. CASE q \in EnqueueRequest
  <2>1. JobService(w, u, q, s) = JobEnqueue(w, u, q, s)
    BY <1>1 DEF JobService, EnqueueRequest
  <2>2. \A out : Proper(q.rpc, out)
    BY <1>1 DEF Proper, EnqueueRequest
  <2>3. CASE s.at = "start" /\ q.source = ""
    <3>1. JobService(w, u, q, s) = Refuse(w, "invalid_argument")
      BY <2>1, <2>3 DEF JobEnqueue
    <3> QED
      BY <3>1, RefusedNamed DEF Blameless
  <2>4. CASE s.at = "start" /\ q.source # ""
    <3> DEFINE p == labelled(w, u, q.library)
    <3>1. JobService(w, u, q, s) = editable(w, u, InLibrary(w, u, q.library))
      BY <2>1, <2>4 DEF JobEnqueue
    <3>2. /\ \A code : Refuse(w, code).done
          /\ ~ Then(w, "shelf", p).done /\ Then(w, "shelf", p).stage.it = p
      BY DEF Refuse, Done, Then, Stage
    <3>a. InLibrary(w, u, q.library) = IF p = "unknown" THEN Refuse(w, "not_found")
                                       ELSE Then(w, "shelf", p)
      BY DEF InLibrary
    <3>b. \A t : editable(w, u, t) = IF t.done \/ CanAdd(w, u, t.stage.it) THEN t
                                     ELSE Refuse(w, "permission_denied")
      BY DEF editable
    <3> HIDE DEF p
    <3>3. JobService(w, u, q, s) \in {Refuse(w, "not_found"), Refuse(w, "permission_denied")}
          \/ (JobService(w, u, q, s) = Then(w, "shelf", p) /\ p # "unknown" /\ CanAdd(w, u, p))
      <4>1. CASE p = "unknown"
        BY <3>1, <3>2, <3>a, <3>b, <4>1
      <4>2. CASE p # "unknown"
        BY <3>1, <3>2, <3>a, <3>b, <4>2
      <4> QED
        BY <4>1, <4>2
    <3> USE DEF p
    <3>4. q.library \in Labels
      BY <1>1 DEF EnqueueRequest
    <3>5. p # "unknown" /\ CanAdd(w, u, p) => Rows(w, u, p, "editor")
      BY <3>4, EditedRows
    <3>6. Rows(w, u, p, "editor") => Ready(w, u, q, Stage("shelf", p))
      BY <1>1 DEF Ready, Recording, EnqueueRequest, Stage
    <3> HIDE DEF p
    <3>7. CASE JobService(w, u, q, s) \in {Refuse(w, "not_found"), Refuse(w, "permission_denied")}
      BY <3>7, RefusedNamed DEF Blameless
    <3>8. CASE JobService(w, u, q, s) = Then(w, "shelf", p) /\ p # "unknown" /\ CanAdd(w, u, p)
      BY <3>5, <3>6, <3>8, ThenBlameless
    <3> QED
      BY <3>3, <3>7, <3>8
  <2>5. CASE s.at # "start" /\ Targets(q.source) # "none"
    <3>1. Targets(q.source) = "ErrOutsideRoot"
      BY <1>1, <2>5 DEF Targets, Unnamed, EnqueueRequest
    <3>2. JobService(w, u, q, s) = Refuse(w, "invalid_argument")
      BY <2>1, <2>5, <3>1 DEF JobEnqueue, jobError
    <3> QED
      BY <3>2, RefusedNamed DEF Blameless
  <2>6. CASE s.at # "start" /\ Targets(q.source) = "none"
    <3>1. JobService(w, u, q, s) = DocumentedAs(QueueAdd(w, u, s.it, q.source), "jobs")
      BY <2>1, <2>6 DEF JobEnqueue
    <3>2. Rows(w, u, s.it, "editor")
      BY <1>1, <2>6 DEF Ready, EnqueueRequest
    <3>3. QueueAdd(w, u, s.it, q.source).err = "none"
      BY <3>2 DEF QueueAdd, Result_
    <3> QED
      BY <2>2, <3>1, <3>3, DocumentedAsNamed DEF Blameless
  <2> QED
    BY <2>3, <2>4, <2>5, <2>6
<1>2. CASE q \in ListJobsRequest
  <2>1. JobService(w, u, q, s) = ListJobs(w, u, q, s)
    BY <1>2 DEF JobService, ListJobsRequest
  <2>2. \A out : Proper(q.rpc, out)
    BY <1>2 DEF Proper, ListJobsRequest
  <2>3. \A x, t : Ready(x, u, q, t)
    BY <1>2 DEF Ready, Recording, ListJobsRequest
  <2>4. CASE s.at = "start"
    BY <2>1, <2>3, <2>4, ShelfBlameless DEF ListJobs
  <2>5. CASE s.at # "start"
    <3>1. JobService(w, u, q, s) = DocumentedAs(QueueList(w, u, s.it, q.include_completed), "jobs")
      BY <2>1, <2>5 DEF ListJobs
    <3>2. QueueList(w, u, s.it, q.include_completed).err = "none"
      BY DEF QueueList, Result_
    <3> QED
      BY <2>2, <3>1, <3>2, DocumentedAsNamed DEF Blameless
  <2> QED
    BY <2>4, <2>5
<1>3. CASE q \in CancelJobRequest
  <2>1. JobService(w, u, q, s) = CancelJob(w, u, q, s)
    BY <1>3 DEF JobService, CancelJobRequest
  <2>3. \A x, t : Ready(x, u, q, t)
    BY <1>3 DEF Ready, Recording, CancelJobRequest
  <2>4. s.at \in {"start", "shelf", "queued"}
    BY <1>3 DEF KnownStage, CancelJobRequest
  <2>5. CASE s.at = "start"
    BY <2>1, <2>3, <2>5, ShelfBlameless, RefusedNamed DEF CancelJob, Blameless
  <2>6. CASE s.at = "shelf"
    <3> DEFINE r == JobStatus(w, u, s.it)
               out == [status |-> r.out]
    <3>1. JobService(w, u, q, s) = IF r.err = "none" /\ r.out = "queued" THEN Then(w, "queued", s.it)
                                   ELSE Documented(r, out)
      BY <2>1, <2>6 DEF CancelJob
    <3>2. r.err \in {"none", "ErrNotFound"}
          /\ (r.err = "none" => r.out \in {"queued", "done", "cancelled", "failed"})
      BY LooksTyped
    <3> HIDE DEF r
    <3>3. r.err = "none" /\ r.out # "queued" => Proper(q.rpc, out)
      BY <1>3, <3>2 DEF Proper, CancelJobRequest, CancelJobResponse
    <3> HIDE DEF out
    <3>4. CASE r.err = "none" /\ r.out = "queued"
      BY <2>3, <3>1, <3>4, ThenBlameless
    <3>5. CASE ~ (r.err = "none" /\ r.out = "queued")
      BY <3>1, <3>2, <3>3, <3>5, DocumentedNamed DEF Blameless
    <3> QED
      BY <3>4, <3>5
  <2>7. CASE s.at = "queued"
    <3> DEFINE r == RequestJobCancel(w, u, s.it)
    <3>1. JobService(w, u, q, s) = DocumentedAs(r, "status")
      BY <2>1, <2>7 DEF CancelJob
    <3>2. r.err = "none" /\ r.out = "cancelled"
      BY DEF RequestJobCancel, Result_
    <3> HIDE DEF r
    <3>3. Under("status", r.out) \in CancelJobResponse
      BY <3>2, UnderTyped DEF CancelJobResponse
    <3>4. Proper(q.rpc, Under("status", r.out))
      BY <1>3, <3>3 DEF Proper, CancelJobRequest
    <3> QED
      BY <3>1, <3>2, <3>4, DocumentedAsNamed DEF Blameless
  <2> QED
    BY <2>4, <2>5, <2>6, <2>7
<1> QED
  BY <1>1, <1>2, <1>3 DEF JobRequests

\* The same of IngestService.
LEMMA IngestBlameless ==
  ASSUME NEW w, NEW u, NEW q \in IngestRequests, NEW s, ~ Unnamed(q)
  PROVE  Blameless(u, q, IngestService(w, u, q, s))
<1>0. CASE checkSource(q.source) = "ok" /\ Acquire(q.source) # "none"
  <2>1. Acquire(q.source) = "ErrUnsupportedFormat"
    BY <1>0 DEF Acquire, Unnamed, IngestRequests, IngestRequest
  <2>2. IngestService(w, u, q, s) = Refuse(w, "invalid_argument")
    BY <1>0, <2>1 DEF IngestService, IngestIngest, asConnectError
  <2> QED
    BY <2>2, RefusedNamed DEF Blameless
<1>1. CASE checkSource(q.source) # "ok"
  <2>1. IngestService(w, u, q, s) = Refuse(w, checkSource(q.source))
    BY <1>1 DEF IngestService, IngestIngest
  <2>2. checkSource(q.source) \notin {"ok", "internal"}
    BY <1>1 DEF checkSource
  <2> QED
    BY <2>1, <2>2, RefusedNamed DEF Blameless
<1>2. CASE checkSource(q.source) = "ok" /\ Acquire(q.source) = "none"
  <2>1. PICK x : IngestService(w, u, q, s) = Done(x, "ok", resultMessage(w, u))
    BY <1>2 DEF IngestService, IngestIngest
  <2>2. resultMessage(w, u) \in IngestResponse
    BY DEF resultMessage, IngestResponse, Result, Outcome
  <2>3. Proper(q.rpc, resultMessage(w, u))
    BY <2>2 DEF Proper, IngestRequests, IngestRequest
  <2> QED
    BY <2>1, <2>3 DEF Blameless, Named_, Done
<1> QED
  BY <1>0, <1>1, <1>2

\* The removal of an account leaves the other administrators in place.
LEMMA RemovingLeaves ==
  ASSUME NEW w \in World, NEW u \in Users, u \in w.administrators, NEW member, member # u
  PROVE  u \in remove_password_account(w, u, member).w.administrators
<1> DEFINE x(stranded) == [w EXCEPT
        !.accounts = @ \ {member}, !.administrators = @ \ {member},
        !.provided = @ \ {member},
        !.grants = [v \in Users |-> IF v = member THEN "none"
                                    ELSE IF stranded /\ v = u THEN "admin" ELSE @[v]],
        !.offers = [v \in Users |-> IF v = member \/ (stranded /\ v = u)
                                    THEN "none" ELSE @[v]],
        !.members[member] = "none", !.groupOffers[member] = "none"]
<1>1. \A stranded : x(stranded).administrators = w.administrators \ {member}
  BY DEF World
<1> HIDE DEF x
<1>2. \/ remove_password_account(w, u, member).w = w
      \/ \E stranded : remove_password_account(w, u, member).w = x(stranded)
  <2> DEFINE stranded == w.grants[member] = "admin" /\ admins_left(w, member, "none") = 0
             t == remove_password_account(w, u, member)
  <2>1. t = Commit(w, "absent") \/ t = Commit(x(stranded), "removed")
    BY DEF remove_password_account, x
  <2> HIDE DEF t, stranded
  <2>2. \A y, out : Commit(y, out).w = y
    BY DEF Commit
  <2>3. t.w = w \/ t.w = x(stranded)
    BY <2>1, <2>2
  <2> QED
    BY <2>3 DEF t
<1> QED
  BY <1>1, <1>2

\* The same of AccountService.
LEMMA AccountBlameless ==
  ASSUME NEW w \in World, NEW u \in Users, NEW q \in AccountRequests, NEW s,
         s.at = "start" \/ Ready(w, u, q, s), KnownStage(q, s)
  PROVE  Blameless(u, q, AccountService(w, u, q, s))
<1>a. /\ adminCodes("ErrNotAdmin") \notin {"ok", "internal"}
      /\ adminCodes("ErrNoPasswords") \notin {"ok", "internal"}
      /\ adminCodes("ErrSelf") \notin {"ok", "internal"}
  BY DEF adminCodes
<1>b. AdminsMe(w, u).out.admin <=> u \in w.administrators
  BY DEF AdminsMe, Result_
<1>c. /\ \A x, code : Refuse(x, code).done
      /\ \A x, at, it : ~ Then(x, at, it).done
  BY DEF Refuse, Done, Then
<1>d. /\ \/ admin(w, u) = Refuse(w, adminCodes("ErrNotAdmin"))
         \/ admin(w, u) = Then(w, "admin", "none") /\ u \in w.administrators
      /\ \/ passwordAdmin(w, u) = Refuse(w, adminCodes("ErrNotAdmin"))
         \/ passwordAdmin(w, u) = Refuse(w, adminCodes("ErrNoPasswords"))
         \/ passwordAdmin(w, u) = Then(w, "admin", "none") /\ u \in w.administrators
  <2>1. admin(w, u) = Refuse(w, adminCodes("ErrNotAdmin"))
          \/ (admin(w, u) = Then(w, "admin", "none") /\ u \in w.administrators)
    BY <1>b DEF admin
  <2>2. \/ passwordAdmin(w, u) = admin(w, u)
        \/ passwordAdmin(w, u) = Refuse(w, adminCodes("ErrNoPasswords"))
    BY DEF passwordAdmin
  <2>3. CASE admin(w, u) = Refuse(w, adminCodes("ErrNotAdmin"))
    BY <2>2, <2>3
  <2>4. CASE admin(w, u) = Then(w, "admin", "none") /\ u \in w.administrators
    BY <2>2, <2>4
  <2> QED
    BY <2>1, <2>3, <2>4
<1>e. \A code : code \notin {"ok", "internal"} => Blameless(u, q, Refuse(w, code))
  BY RefusedNamed DEF Blameless
<1>f. /\ \A err, x, out : /\ Result_(err, x, out).err = err /\ Result_(err, x, out).w = x
                          /\ Result_(err, x, out).out = out
      /\ \A t, name : /\ Named(t, name).err = (IF t.sql = "00000" THEN "none" ELSE name)
                      /\ Named(t, name).w = t.w /\ Named(t, name).out = t.out
  BY DEF Result_, Named
<1>g. /\ \A x, sql : Raise(x, sql).sql = sql /\ Raise(x, sql).w = x
      /\ \A x, out : Commit(x, out).sql = "00000" /\ Commit(x, out).w = x
  BY DEF Raise, Commit
<1>1. CASE q \in MeRequest
  <2>1. AccountService(w, u, q, s) = AccountMe(w, u)
    BY <1>1 DEF AccountService, MeRequest
  <2> DEFINE is == u \in w.administrators
             out == [username |-> u, admin |-> is]
             r == AdminsMe(w, u)
  <2>2. r.err = "none" /\ r.out = out
    BY DEF AdminsMe, Result_
  <2>3. is \in BOOLEAN
    OBVIOUS
  <2> HIDE DEF is
  <2>4. out \in MeResponse
    BY <2>3 DEF MeResponse
  <2>5. AccountService(w, u, q, s) = Administered(r, r.out)
    BY <2>1 DEF AccountMe
  <2> HIDE DEF out, r
  <2>6. Proper(q.rpc, out)
    BY <1>1, <2>4 DEF Proper, MeRequest
  <2> QED
    BY <2>2, <2>5, <2>6, AdministeredNamed DEF Blameless
<1>2. CASE q \in ListAccountsRequest
  <2>1. AccountService(w, u, q, s) = AccountList(w, u, s)
    BY <1>2 DEF AccountService, ListAccountsRequest
  <2>2. \A out : Proper(q.rpc, out)
    BY <1>2 DEF Proper, ListAccountsRequest
  <2>3. \A x, t : Ready(x, u, q, t)
    BY <1>2 DEF Ready, Recording, ListAccountsRequest
  <2>4. CASE s.at = "start"
    <3>1. AccountService(w, u, q, s) = admin(w, u)
      BY <2>1, <2>4 DEF AccountList
    <3> QED
      BY <1>a, <1>d, <1>e, <2>3, <3>1, ThenBlameless
  <2>5. CASE s.at # "start"
    <3>1. \E out : AccountService(w, u, q, s) = Administered(AdminsList(w, u), out)
      BY <2>1, <2>5 DEF AccountList, AdministeredAs
    <3>2. AdminsList(w, u).err = "none"
      BY DEF AdminsList, Result_
    <3> QED
      BY <2>2, <3>1, <3>2, AdministeredNamed DEF Blameless
  <2> QED
    BY <2>4, <2>5
<1>3. CASE q \in AddRequest
  <2>1. AccountService(w, u, q, s) = AccountAdd(w, u, q, s)
    BY <1>3 DEF AccountService, AddRequest
  <2>2. \A out : Proper(q.rpc, out)
    BY <1>3 DEF Proper, AddRequest
  <2>3. s.at \in {"start", "admin", "record"}
    BY <1>3 DEF KnownStage, Recording, AddRequest
  <2>4. s.at # "start" => u \in w.administrators
    BY <1>3 DEF Ready, Recording, AddRequest
  <2>5. CASE s.at = "start"
    <3>1. \/ \E err \in {"ErrNotAdmin", "ErrNoPasswords", "ErrSelf"} : AccountService(w, u, q, s) = Refuse(w, adminCodes(err))
          \/ AccountService(w, u, q, s) = Then(w, "admin", "none") /\ u \in w.administrators
      BY <1>c, <1>d, <2>1, <2>5 DEF AccountAdd, Recorded
    <3>2. u \in w.administrators => Ready(w, u, q, Stage("admin", "none"))
      BY <1>3 DEF Ready, Recording, AddRequest
    <3>3. CASE \E err \in {"ErrNotAdmin", "ErrNoPasswords", "ErrSelf"} : AccountService(w, u, q, s) = Refuse(w, adminCodes(err))
      BY <1>a, <1>e, <3>3
    <3>4. CASE AccountService(w, u, q, s) = Then(w, "admin", "none") /\ u \in w.administrators
      BY <3>2, <3>4, ThenBlameless
    <3> QED
      BY <3>1, <3>3, <3>4
  <2>6. CASE s.at = "admin"
    <3> DEFINE r == PasswordsAdd(w, u, q.username)
    <3>1. AccountService(w, u, q, s) = IF r.err = "none" THEN Then(r.w, "record", "none") ELSE adminError(r)
      BY <2>1, <2>6 DEF AccountAdd, Recorded
    <3>2. r.err \in {"none", "ErrTaken", "ErrUsername", "ErrNoSuchAccount"} /\ u \in r.w.administrators
      <4> DEFINE t == add_password_account(w, u, q.username)
                 x == [w EXCEPT !.accounts = @ \cup {q.username}, !.docs[q.username] = "none",
                                !.jobs[q.username] = "none"]
      <4>1. t = Raise(w, "23505") \/ t = Commit(x, "added")
        BY <2>4, <2>6 DEF add_password_account
      <4>2. x.administrators = w.administrators
        BY DEF World
      <4> HIDE DEF x
      <4>3. t.sql \in {"23505", "00000"} /\ u \in t.w.administrators
        BY <1>g, <2>4, <2>6, <4>1, <4>2
      <4> HIDE DEF t
      <4>5. CASE q.username = ""
        <5>1. r = Result_("ErrUsername", w, "none")
          BY <4>5 DEF PasswordsAdd
        <5> HIDE DEF r
        <5> QED
          BY <1>f, <2>4, <2>6, <5>1
      <4>6. CASE q.username # ""
        <5> DEFINE name == IF t.sql = "23505" THEN "ErrTaken" ELSE "unnamed"
        <5>1. r = Named(t, name)
          BY <4>6 DEF PasswordsAdd, t
        <5>2. t.sql # "00000" => name = "ErrTaken"
          BY <4>3
        <5> HIDE DEF r, name
        <5>3. r.err = (IF t.sql = "00000" THEN "none" ELSE name) /\ r.w = t.w
          BY <1>f, <5>1
        <5> QED
          BY <4>3, <5>2, <5>3
      <4> QED
        BY <4>5, <4>6
    <3> HIDE DEF r
    <3>3. Ready(r.w, u, q, Stage("record", "none"))
      BY <1>3, <2>4, <2>6, <3>2 DEF Ready, Recording, AddRequest
    <3>4. CASE r.err = "none"
      BY <3>1, <3>3, <3>4, ThenBlameless
    <3>5. CASE r.err # "none"
      BY <2>2, <3>1, <3>2, <3>5, AdministeredNamed DEF Blameless
    <3> QED
      BY <3>4, <3>5
  <2>7. CASE s.at = "record"
    <3>1. PICK out : AccountService(w, u, q, s) = Administered(AdminsRecord(w, u), out)
      BY <2>1, <2>7 DEF AccountAdd, Recorded
    <3>2. AdminsRecord(w, u).err = "none"
      BY <1>f, <1>g, <2>4, <2>7 DEF AdminsRecord, adminsRun
    <3> QED
      BY <2>2, <3>1, <3>2, AdministeredNamed DEF Blameless
  <2> QED
    BY <2>3, <2>5, <2>6, <2>7
<1>4. CASE q \in ResetRequest
  <2>1. AccountService(w, u, q, s) = AccountReset(w, u, q, s)
    BY <1>4 DEF AccountService, ResetRequest
  <2>2. \A out : Proper(q.rpc, out)
    BY <1>4 DEF Proper, ResetRequest
  <2>3. s.at \in {"start", "admin", "record"}
    BY <1>4 DEF KnownStage, Recording, ResetRequest
  <2>4. s.at # "start" => u \in w.administrators
    BY <1>4 DEF Ready, Recording, ResetRequest
  <2>5. CASE s.at = "start"
    <3>1. \/ \E err \in {"ErrNotAdmin", "ErrNoPasswords", "ErrSelf"} : AccountService(w, u, q, s) = Refuse(w, adminCodes(err))
          \/ AccountService(w, u, q, s) = Then(w, "admin", "none") /\ u \in w.administrators
      BY <1>c, <1>d, <2>1, <2>5 DEF AccountReset, Recorded
    <3>2. u \in w.administrators => Ready(w, u, q, Stage("admin", "none"))
      BY <1>4 DEF Ready, Recording, ResetRequest
    <3>3. CASE \E err \in {"ErrNotAdmin", "ErrNoPasswords", "ErrSelf"} : AccountService(w, u, q, s) = Refuse(w, adminCodes(err))
      BY <1>a, <1>e, <3>3
    <3>4. CASE AccountService(w, u, q, s) = Then(w, "admin", "none") /\ u \in w.administrators
      BY <3>2, <3>4, ThenBlameless
    <3> QED
      BY <3>1, <3>3, <3>4
  <2>6. CASE s.at = "admin"
    <3> DEFINE r == PasswordsReset(w, u, q.username)
    <3>1. AccountService(w, u, q, s) = IF r.err = "none" THEN Then(r.w, "record", "none") ELSE adminError(r)
      BY <2>1, <2>6 DEF AccountReset, Recorded
    <3>2. r.err \in {"none", "ErrTaken", "ErrUsername", "ErrNoSuchAccount"} /\ u \in r.w.administrators
      <4> DEFINE t == reset_password(w, u, q.username)
      <4>1. t.sql = "00000" /\ t.w = w
        BY <1>g, <2>4, <2>6 DEF reset_password
      <4> HIDE DEF t
      <4>2. r = IF Named(t, "unnamed").err = "none" /\ Named(t, "unnamed").out = "absent"
                THEN Result_("ErrNoSuchAccount", w, "none") ELSE Named(t, "unnamed")
        BY DEF PasswordsReset, t
      <4> HIDE DEF r
      <4> QED
        BY <1>f, <2>4, <2>6, <4>1, <4>2
    <3> HIDE DEF r
    <3>3. Ready(r.w, u, q, Stage("record", "none"))
      BY <1>4, <2>4, <2>6, <3>2 DEF Ready, Recording, ResetRequest
    <3>4. CASE r.err = "none"
      BY <3>1, <3>3, <3>4, ThenBlameless
    <3>5. CASE r.err # "none"
      BY <2>2, <3>1, <3>2, <3>5, AdministeredNamed DEF Blameless
    <3> QED
      BY <3>4, <3>5
  <2>7. CASE s.at = "record"
    <3>1. PICK out : AccountService(w, u, q, s) = Administered(AdminsRecord(w, u), out)
      BY <2>1, <2>7 DEF AccountReset, Recorded
    <3>2. AdminsRecord(w, u).err = "none"
      BY <1>f, <1>g, <2>4, <2>7 DEF AdminsRecord, adminsRun
    <3> QED
      BY <2>2, <3>1, <3>2, AdministeredNamed DEF Blameless
  <2> QED
    BY <2>3, <2>5, <2>6, <2>7
<1>5. CASE q \in UnlockRequest
  <2>1. AccountService(w, u, q, s) = AccountUnlock(w, u, q, s)
    BY <1>5 DEF AccountService, UnlockRequest
  <2>2. \A out : Proper(q.rpc, out)
    BY <1>5 DEF Proper, UnlockRequest
  <2>3. s.at \in {"start", "admin", "record"}
    BY <1>5 DEF KnownStage, Recording, UnlockRequest
  <2>4. s.at # "start" => u \in w.administrators
    BY <1>5 DEF Ready, Recording, UnlockRequest
  <2>5. CASE s.at = "start"
    <3>1. \/ \E err \in {"ErrNotAdmin", "ErrNoPasswords", "ErrSelf"} : AccountService(w, u, q, s) = Refuse(w, adminCodes(err))
          \/ AccountService(w, u, q, s) = Then(w, "admin", "none") /\ u \in w.administrators
      BY <1>c, <1>d, <2>1, <2>5 DEF AccountUnlock, Recorded
    <3>2. u \in w.administrators => Ready(w, u, q, Stage("admin", "none"))
      BY <1>5 DEF Ready, Recording, UnlockRequest
    <3>3. CASE \E err \in {"ErrNotAdmin", "ErrNoPasswords", "ErrSelf"} : AccountService(w, u, q, s) = Refuse(w, adminCodes(err))
      BY <1>a, <1>e, <3>3
    <3>4. CASE AccountService(w, u, q, s) = Then(w, "admin", "none") /\ u \in w.administrators
      BY <3>2, <3>4, ThenBlameless
    <3> QED
      BY <3>1, <3>3, <3>4
  <2>6. CASE s.at = "admin"
    <3> DEFINE r == PasswordsUnlock(w, u, q.username)
    <3>1. AccountService(w, u, q, s) = IF r.err = "none" THEN Then(r.w, "record", "none") ELSE adminError(r)
      BY <2>1, <2>6 DEF AccountUnlock, Recorded
    <3>2. r.err \in {"none", "ErrTaken", "ErrUsername", "ErrNoSuchAccount"} /\ u \in r.w.administrators
      BY <1>f, <2>4, <2>6 DEF PasswordsUnlock
    <3> HIDE DEF r
    <3>3. Ready(r.w, u, q, Stage("record", "none"))
      BY <1>5, <2>4, <2>6, <3>2 DEF Ready, Recording, UnlockRequest
    <3>4. CASE r.err = "none"
      BY <3>1, <3>3, <3>4, ThenBlameless
    <3>5. CASE r.err # "none"
      BY <2>2, <3>1, <3>2, <3>5, AdministeredNamed DEF Blameless
    <3> QED
      BY <3>4, <3>5
  <2>7. CASE s.at = "record"
    <3>1. PICK out : AccountService(w, u, q, s) = Administered(AdminsRecord(w, u), out)
      BY <2>1, <2>7 DEF AccountUnlock, Recorded
    <3>2. AdminsRecord(w, u).err = "none"
      BY <1>f, <1>g, <2>4, <2>7 DEF AdminsRecord, adminsRun
    <3> QED
      BY <2>2, <3>1, <3>2, AdministeredNamed DEF Blameless
  <2> QED
    BY <2>3, <2>5, <2>6, <2>7
<1>6. CASE q \in RemoveAccountRequest
  <2>1. AccountService(w, u, q, s) = AccountRemove(w, u, q, s)
    BY <1>6 DEF AccountService, RemoveAccountRequest
  <2>2. \A out : Proper(q.rpc, out)
    BY <1>6 DEF Proper, RemoveAccountRequest
  <2>3. s.at \in {"start", "admin", "record"}
    BY <1>6 DEF KnownStage, Recording, RemoveAccountRequest
  <2>4. s.at # "start" => u \in w.administrators /\ q.username # u
    BY <1>6 DEF Ready, Recording, RemoveAccountRequest
  <2>5. CASE s.at = "start"
    <3>1. \/ \E err \in {"ErrNotAdmin", "ErrNoPasswords", "ErrSelf"} : AccountService(w, u, q, s) = Refuse(w, adminCodes(err))
          \/ AccountService(w, u, q, s) = Then(w, "admin", "none") /\ u \in w.administrators /\ q.username # u
      BY <1>c, <1>d, <2>1, <2>5 DEF AccountRemove, Recorded
    <3>2. u \in w.administrators /\ q.username # u => Ready(w, u, q, Stage("admin", "none"))
      BY <1>6 DEF Ready, Recording, RemoveAccountRequest
    <3>3. CASE \E err \in {"ErrNotAdmin", "ErrNoPasswords", "ErrSelf"} : AccountService(w, u, q, s) = Refuse(w, adminCodes(err))
      BY <1>a, <1>e, <3>3
    <3>4. CASE AccountService(w, u, q, s) = Then(w, "admin", "none") /\ u \in w.administrators /\ q.username # u
      BY <3>2, <3>4, ThenBlameless
    <3> QED
      BY <3>1, <3>3, <3>4
  <2>6. CASE s.at = "admin"
    <3> DEFINE r == PasswordsRemove(w, u, q.username)
    <3>1. AccountService(w, u, q, s) = IF r.err = "none" THEN Then(r.w, "record", "none") ELSE adminError(r)
      BY <2>1, <2>6 DEF AccountRemove, Recorded
    <3>2. r.err \in {"none", "ErrTaken", "ErrUsername", "ErrNoSuchAccount"} /\ u \in r.w.administrators
      <4> DEFINE t == remove_password_account(w, u, q.username)
      <4>1. t.sql = "00000"
        BY <1>g, <2>4, <2>6 DEF remove_password_account
      <4>2. u \in t.w.administrators
        BY <2>4, <2>6, RemovingLeaves
      <4> HIDE DEF t
      <4>3. r = LET n == Named(t, IF t.sql = "DSA04" THEN "ErrStranded" ELSE "unnamed")
                IN  IF n.err = "none" /\ n.out = "absent" THEN Result_("ErrNoSuchAccount", w, "none")
                    ELSE n
        BY DEF PasswordsRemove, t
      <4> HIDE DEF r
      <4> QED
        BY <1>f, <2>4, <2>6, <4>1, <4>2, <4>3
    <3> HIDE DEF r
    <3>3. Ready(r.w, u, q, Stage("record", "none"))
      BY <1>6, <2>4, <2>6, <3>2 DEF Ready, Recording, RemoveAccountRequest
    <3>4. CASE r.err = "none"
      BY <3>1, <3>3, <3>4, ThenBlameless
    <3>5. CASE r.err # "none"
      BY <2>2, <3>1, <3>2, <3>5, AdministeredNamed DEF Blameless
    <3> QED
      BY <3>4, <3>5
  <2>7. CASE s.at = "record"
    <3>1. PICK out : AccountService(w, u, q, s) = Administered(AdminsRecord(w, u), out)
      BY <2>1, <2>7 DEF AccountRemove, Recorded
    <3>2. AdminsRecord(w, u).err = "none"
      BY <1>f, <1>g, <2>4, <2>7 DEF AdminsRecord, adminsRun
    <3> QED
      BY <2>2, <3>1, <3>2, AdministeredNamed DEF Blameless
  <2> QED
    BY <2>3, <2>5, <2>6, <2>7
<1>7. CASE q \in SetAdminRequest
  <2>1. AccountService(w, u, q, s) = AccountSetAdmin(w, u, q, s)
    BY <1>7 DEF AccountService, SetAdminRequest
  <2>2. \A out : Proper(q.rpc, out)
    BY <1>7 DEF Proper, SetAdminRequest
  <2>3. CASE s.at = "start"
    <3>1. AccountService(w, u, q, s) = admin(w, u)
      BY <2>1, <2>3 DEF AccountSetAdmin
    <3>2. u \in w.administrators => Ready(w, u, q, Stage("admin", "none"))
      BY <1>7 DEF Ready, Recording, SetAdminRequest
    <3> QED
      BY <1>a, <1>d, <1>e, <3>1, <3>2, ThenBlameless
  <2>4. CASE s.at # "start"
    <3> DEFINE r == AdminsSetAdmin(w, u, q.username, q.admin)
               t == set_admin(w, u, q.username, q.admin)
    <3>1. t.sql \in {"DSA01", "DSA02", "DSA03", "00000"}
      BY <1>g DEF set_admin
    <3>2. r.err = IF t.sql = "00000" THEN "none" ELSE adminRefusals(t.sql)
      BY <1>f DEF AdminsSetAdmin, adminsRun
    <3>3. AccountService(w, u, q, s) = Administered(r, "empty")
      BY <2>1, <2>4 DEF AccountSetAdmin
    <3> HIDE DEF r, t
    <3>4. r.err \in {"none", "ErrNotAdmin", "ErrNoAccount", "ErrLastAdmin"}
      BY <3>1, <3>2 DEF adminRefusals
    <3> QED
      BY <2>2, <3>3, <3>4, AdministeredNamed DEF Blameless
  <2> QED
    BY <2>3, <2>4
<1>8. CASE q \in SignInRequest
  <2>1. AccountService(w, u, q, s) = AccountSignIn(w, u, s)
    BY <1>8 DEF AccountService, SignInRequest
  <2>2. \A x, t : Ready(x, u, q, t)
    BY <1>8 DEF Ready, Recording, SignInRequest
  <2>3. CASE s.at = "start"
    <3>1. AccountService(w, u, q, s) = admin(w, u)
      BY <2>1, <2>3 DEF AccountSignIn, administering
    <3> QED
      BY <1>a, <1>d, <1>e, <2>2, <3>1, ThenBlameless
  <2>4. CASE s.at # "start"
    <3> DEFINE r == SettingsStored(w, u)
               out == Under("stored", r.out)
    <3>1. AccountService(w, u, q, s) = Administered(r, out)
      BY <2>1, <2>4 DEF AccountSignIn, AdministeredAs
    <3>2. r.err = "none" /\ r.out \in Stored
      BY DEF SettingsStored, Result_, World
    <3> HIDE DEF r
    <3>3. out \in SignInResponse
      BY <3>2, UnderTyped DEF SignInResponse
    <3> HIDE DEF out
    <3>4. Proper(q.rpc, out)
      BY <1>8, <3>3 DEF Proper, SignInRequest
    <3> QED
      BY <3>1, <3>2, <3>4, AdministeredNamed DEF Blameless
  <2> QED
    BY <2>3, <2>4
<1>9. CASE q \in UpdateSignInRequest
  <2>1. AccountService(w, u, q, s) = AccountUpdateSignIn(w, u, q, s)
    BY <1>9 DEF AccountService, UpdateSignInRequest
  <2>2. \A x, t : Ready(x, u, q, t)
    BY <1>9 DEF Ready, Recording, UpdateSignInRequest
  <2>3. \A out : Proper(q.rpc, out)
    BY <1>9 DEF Proper, UpdateSignInRequest
  <2>4. CASE s.at = "start"
    <3>1. AccountService(w, u, q, s) = admin(w, u)
      BY <2>1, <2>4 DEF AccountUpdateSignIn, administering
    <3> QED
      BY <1>a, <1>d, <1>e, <2>2, <3>1, ThenBlameless
  <2>5. CASE s.at # "start"
    <3> DEFINE r == SettingsUpdate(w, u, q.change)
               t == set_setting(w, u, q.change)
    <3>1. t.sql \in {"DSA01", "00000"}
      BY <1>g DEF set_setting
    <3>2. SettingsSet(w, u, q.change).err = IF t.sql = "00000" THEN "none" ELSE adminRefusals(t.sql)
      BY <1>f DEF SettingsSet, adminsRun
    <3>3. SettingsSet(w, u, q.change).err \in {"none", "ErrNotAdmin"}
      <4> HIDE DEF t
      <4> QED
        BY <3>1, <3>2 DEF adminRefusals
    <3>4. r.err \in {"none", "ErrNotAdmin", "ErrLocked", "ErrNotEditable", "ErrInvalid"}
      BY <3>3 DEF SettingsUpdate, checkChange, Result_
    <3>5. \E out : AccountService(w, u, q, s) =
              IF r.err # "none" THEN Refuse(r.w, settingsError(r.err)) ELSE Done(r.w, "ok", out)
      BY <2>1, <2>5 DEF AccountUpdateSignIn
    <3> HIDE DEF r
    <3>6. CASE r.err # "none"
      <4>1. settingsError(r.err) \notin {"ok", "internal"}
        BY <3>4, <3>6 DEF settingsError
      <4> QED
        BY <3>5, <3>6, <4>1, RefusedNamed DEF Blameless
    <3>7. CASE r.err = "none"
      BY <2>3, <3>5, <3>7 DEF Blameless, Named_, Done
    <3> QED
      BY <3>6, <3>7
  <2> QED
    BY <2>4, <2>5
<1> QED
  BY <1>1, <1>2, <1>3, <1>4, <1>5, <1>6, <1>7, <1>8, <1>9 DEF AccountRequests

\* A stage of a handler that runs alone, whatever its service.
LEMMA ServeBlameless ==
  ASSUME NEW w \in World, NEW u \in Users, NEW svc \in Services, NEW q \in svc[1],
         NEW s, KnownStage(q, s), s.at = "start" \/ Ready(w, u, q, s), ~ Unnamed(q)
  PROVE  Blameless(u, q, Serve(svc[2], w, u, q, s))
<1>1. CASE svc = <<LibraryRequests, "library">>
  <2>1. Serve(svc[2], w, u, q, s) = LibraryService(w, u, q, s)
    BY <1>1 DEF Serve
  <2> QED
    BY <1>1, <2>1, LibraryBlameless
<1>2. CASE svc = <<GroupRequests, "group">>
  <2>1. Serve(svc[2], w, u, q, s) = GroupService(w, u, q, s)
    BY <1>2 DEF Serve
  <2> QED
    BY <1>2, <2>1, GroupBlameless
<1>3. CASE svc = <<DocumentRequests, "document">>
  <2>1. Serve(svc[2], w, u, q, s) = DocumentService(w, u, q, s)
    BY <1>3 DEF Serve
  <2> QED
    BY <1>3, <2>1, DocumentBlameless
<1>4. CASE svc = <<JobRequests, "job">>
  <2>1. Serve(svc[2], w, u, q, s) = JobService(w, u, q, s)
    BY <1>4 DEF Serve
  <2> QED
    BY <1>4, <2>1, JobBlameless
<1>5. CASE svc = <<IngestRequests, "ingest">>
  <2>1. Serve(svc[2], w, u, q, s) = IngestService(w, u, q, s)
    BY <1>5 DEF Serve
  <2> QED
    BY <1>5, <2>1, IngestBlameless
<1>6. CASE svc = <<AccountRequests, "account">>
  <2>1. Serve(svc[2], w, u, q, s) = AccountService(w, u, q, s)
    BY <1>6 DEF Serve
  <2> QED
    BY <1>6, <2>1, AccountBlameless
<1> QED
  BY <1>1, <1>2, <1>3, <1>4, <1>5, <1>6 DEF Services

\* A call that runs alone ends within three stages, with an answer that is not
\* the server's fault.
LEMMA AnswersNamed ==
  ASSUME NEW w \in World, NEW u \in Users, NEW svc \in Services, NEW q \in svc[1], ~ Unnamed(q)
  PROVE  Named_(q, Answer(svc[2], w, u, q))
<1> DEFINE at(x, s) == Serve(svc[2], x, u, q, s)
           a == at(w, Start)
           c == Onward(svc[2], u, q, a)
<1>1. Answer(svc[2], w, u, q) = Onward(svc[2], u, q, c)
  BY DEF Answer
<1>2. \A r : /\ r.done => Onward(svc[2], u, q, r) = r
             /\ ~ r.done => Onward(svc[2], u, q, r) = at(r.w, r.stage)
  BY DEF Onward
<1>3. \A x \in World : \A s : KnownStage(q, s) /\ (s.at = "start" \/ Ready(x, u, q, s)) =>
        Sound(x, u, q, s, at(x, s)) /\ Blameless(u, q, at(x, s))
  BY ServeSound, ServeBlameless
<1> HIDE DEF at
<1>4. Sound(w, u, q, Start, a) /\ Blameless(u, q, a)
  <2>1. KnownStage(q, Start) /\ Start.at = "start"
    BY StartKnown DEF Start, Stage
  <2> QED
    BY <1>3, <2>1
<1>5. \A x : Level(x) \in {0, 1, 2}
  BY DEF Level
<1> HIDE DEF a
<1>6. CASE a.done
  <2>1. c = a
    BY <1>2, <1>6
  <2> QED
    BY <1>1, <1>2, <1>4, <1>6, <2>1 DEF Blameless
<1>7. CASE ~ a.done
  <2>1. /\ KnownStage(q, a.stage) /\ Level(a.stage.at) > 0 /\ a.w \in World
        /\ Ready(a.w, u, q, a.stage)
    BY <1>4, <1>7, StartKnown DEF Sound, Blameless, Named_
  <2>2. c = at(a.w, a.stage)
    BY <1>2, <1>7
  <2>3. Sound(a.w, u, q, a.stage, c) /\ Blameless(u, q, c)
    BY <1>3, <2>1, <2>2
  <2> HIDE DEF c
  <2>4. CASE c.done
    BY <1>1, <1>2, <2>3, <2>4 DEF Blameless
  <2>5. CASE ~ c.done
    <3>1. /\ KnownStage(q, c.stage) /\ Level(c.stage.at) > Level(a.stage.at)
          /\ c.w \in World /\ Ready(c.w, u, q, c.stage)
      BY <2>3, <2>5 DEF Sound, Blameless, Named_
    <3>2. Level(c.stage.at) = 2
      BY <1>5, <2>1, <3>1
    <3> DEFINE e == at(c.w, c.stage)
    <3>3. Sound(c.w, u, q, c.stage, e) /\ Blameless(u, q, e)
      BY <1>3, <3>1
    <3>4. Onward(svc[2], u, q, c) = e
      BY <1>2, <2>5
    <3> HIDE DEF e
    <3>5. e.done
      BY <1>5, <3>2, <3>3 DEF Sound
    <3> QED
      BY <1>1, <3>3, <3>4, <3>5 DEF Blameless
  <2> QED
    BY <2>4, <2>5
<1> QED
  BY <1>6, <1>7

\* No request of another service is one of those no table names.
LEMMA UnnamedAre ==
  ASSUME NEW q, Unnamed(q)
  PROVE  q \notin LibraryRequests \cup GroupRequests \cup DocumentRequests \cup AccountRequests
<1>0. q.rpc = "ingest.Ingest" \/ q.rpc = "job.Enqueue"
  BY DEF Unnamed
<1>1. q \notin LibraryRequests
  <2>1. q \notin ListRequest /\ q \notin CreateRequest /\ q \notin MembersRequest
    BY <1>0 DEF ListRequest, CreateRequest, MembersRequest
  <2>2. q \notin GrantRequest /\ q \notin RevokeRequest /\ q \notin EventsRequest
    BY <1>0 DEF GrantRequest, RevokeRequest, EventsRequest
  <2>3. q \notin InvitationsRequest /\ q \notin AcceptRequest /\ q \notin DeclineRequest
    BY <1>0 DEF InvitationsRequest, AcceptRequest, DeclineRequest
  <2>4. q \notin RenameRequest /\ q \notin DeleteRequest /\ q \notin RestoreRequest
    BY <1>0 DEF RenameRequest, DeleteRequest, RestoreRequest
  <2>5. q \notin DeletedRequest /\ q \notin GrantGroupRequest /\ q \notin RevokeGroupRequest
    BY <1>0 DEF DeletedRequest, GrantGroupRequest, RevokeGroupRequest
  <2>6. q \notin GroupsRequest
    BY <1>0 DEF GroupsRequest
  <2> QED
    BY <2>1, <2>2, <2>3, <2>4, <2>5, <2>6 DEF LibraryRequests
<1>2. q \notin GroupRequests
  <2>1. q \notin ListGroupsRequest /\ q \notin CreateGroupRequest /\ q \notin RenameGroupRequest
    BY <1>0 DEF ListGroupsRequest, CreateGroupRequest, RenameGroupRequest
  <2>2. q \notin DeleteGroupRequest /\ q \notin InviteRequest /\ q \notin AcceptGroupRequest
    BY <1>0 DEF DeleteGroupRequest, InviteRequest, AcceptGroupRequest
  <2>3. q \notin DeclineGroupRequest /\ q \notin RemoveMemberRequest /\ q \notin GroupInvitationsRequest
    BY <1>0 DEF DeclineGroupRequest, RemoveMemberRequest, GroupInvitationsRequest
  <2>4. q \notin GroupMembersRequest /\ q \notin LibrariesRequest /\ q \notin GroupEventsRequest
    BY <1>0 DEF GroupMembersRequest, LibrariesRequest, GroupEventsRequest
  <2> QED
    BY <2>1, <2>2, <2>3, <2>4 DEF GroupRequests
<1>3. q \notin DocumentRequests
  <2>1. q \notin ListDocumentsRequest /\ q \notin VerifyRequest /\ q \notin InspectRequest
    BY <1>0 DEF ListDocumentsRequest, VerifyRequest, InspectRequest
  <2>2. q \notin RemoveDocumentRequest /\ q \notin RenameDocumentRequest /\ q \notin ReadRequest
    BY <1>0 DEF RemoveDocumentRequest, RenameDocumentRequest, ReadRequest
  <2> QED
    BY <2>1, <2>2 DEF DocumentRequests
<1>4. q \notin AccountRequests
  <2>1. q \notin MeRequest /\ q \notin ListAccountsRequest /\ q \notin AddRequest
    BY <1>0 DEF MeRequest, ListAccountsRequest, AddRequest
  <2>2. q \notin ResetRequest /\ q \notin UnlockRequest /\ q \notin RemoveAccountRequest
    BY <1>0 DEF ResetRequest, UnlockRequest, RemoveAccountRequest
  <2>3. q \notin SetAdminRequest /\ q \notin SignInRequest /\ q \notin UpdateSignInRequest
    BY <1>0 DEF SetAdminRequest, SignInRequest, UpdateSignInRequest
  <2> QED
    BY <2>1, <2>2, <2>3 DEF AccountRequests
<1> QED
  BY <1>1, <1>2, <1>3, <1>4

\* The file that cannot be found to be read at once, and the directory queued
\* with nothing to read in it by one who may, are the server's fault; queued by
\* anyone else, the directory is not reached.
LEMMA UnnamedAnswers ==
  ASSUME NEW w \in World, NEW u \in Users, NEW svc \in Services, NEW q \in svc[1], Unnamed(q)
  PROVE  /\ Answer(svc[2], w, u, q).code = "internal" <=> Unread(w, u, q)
         /\ Answer(svc[2], w, u, q).code # "ok"
<1> DEFINE at(x, s) == Serve(svc[2], x, u, q, s)
<1>1. \A r : /\ r.done => Onward(svc[2], u, q, r) = r
             /\ ~ r.done => Onward(svc[2], u, q, r) = at(r.w, r.stage)
  BY DEF Onward
<1>2. Answer(svc[2], w, u, q) = Onward(svc[2], u, q, Onward(svc[2], u, q, at(w, Start)))
  BY DEF Answer
<1>3. /\ \A x, code : Refuse(x, code).done /\ Refuse(x, code).code = code
      /\ \A x, it : /\ ~ Then(x, "shelf", it).done /\ Then(x, "shelf", it).w = x
                    /\ Then(x, "shelf", it).stage = Stage("shelf", it)
      /\ \A it : Stage("shelf", it).at = "shelf" /\ Stage("shelf", it).it = it
  BY DEF Refuse, Done, Then, Stage
<1>4. CASE svc = <<IngestRequests, "ingest">>
  <2>1. q.rpc = "ingest.Ingest" /\ q.source \in {"outside", "empty_dir"}
    BY <1>4 DEF IngestRequests, IngestRequest, Unnamed
  <2>2. at(w, Start) = IngestIngest(w, u, q)
    BY <1>4 DEF Serve, IngestService
  <2>3. checkSource(q.source) = "ok" /\ Acquire(q.source) = "unnamed"
    BY <2>1 DEF checkSource, Acquire
  <2>4. at(w, Start) = Refuse(w, "internal")
    BY <2>2, <2>3 DEF IngestIngest, asConnectError
  <2> HIDE DEF at
  <2>5. Answer(svc[2], w, u, q).code = "internal"
    BY <1>1, <1>2, <1>3, <2>4
  <2> QED
    BY <2>1, <2>5 DEF Unread
<1>5. CASE svc = <<JobRequests, "job">>
  <2>1. q \in JobRequests /\ q.rpc = "job.Enqueue" /\ q.source = "empty_dir"
    BY <1>5 DEF JobRequests, EnqueueRequest, ListJobsRequest, CancelJobRequest, Unnamed
  <2>2. \A s : at(w, s) = JobEnqueue(w, u, q, s)
    BY <1>5, <2>1 DEF Serve, JobService
  <2> DEFINE p == labelled(w, u, q.library)
  <2>3. at(w, Start) = editable(w, u, InLibrary(w, u, q.library))
    BY <2>1, <2>2 DEF JobEnqueue, Start, Stage
  <2>4. at(w, Stage("shelf", p)) = Refuse(w, "internal")
    BY <1>3, <2>1, <2>2 DEF JobEnqueue, Targets, jobError
  <2>5. InLibrary(w, u, q.library) = IF p = "unknown" THEN Refuse(w, "not_found") ELSE Then(w, "shelf", p)
    BY DEF InLibrary
  <2>6. \A t : editable(w, u, t) = IF t.done \/ CanAdd(w, u, t.stage.it) THEN t
                                   ELSE Refuse(w, "permission_denied")
    BY DEF editable
  <2>7. Unread(w, u, q) <=> p # "unknown" /\ CanAdd(w, u, p)
    BY <2>1 DEF Unread
  <2> HIDE DEF at, p
  <2>8. CASE p # "unknown" /\ CanAdd(w, u, p)
    <3>1. at(w, Start) = Then(w, "shelf", p)
      BY <1>3, <2>3, <2>5, <2>6, <2>8
    <3>2. Answer(svc[2], w, u, q).code = "internal"
      BY <1>1, <1>2, <1>3, <2>4, <3>1
    <3> QED
      BY <2>7, <2>8, <3>2
  <2>9. CASE ~ (p # "unknown" /\ CanAdd(w, u, p))
    <3>1. at(w, Start) = Refuse(w, "not_found") \/ at(w, Start) = Refuse(w, "permission_denied")
      <4>1. CASE p = "unknown"
        BY <1>3, <2>3, <2>5, <2>6, <4>1
      <4>2. CASE p # "unknown"
        BY <1>3, <2>3, <2>5, <2>6, <2>9, <4>2
      <4> QED
        BY <4>1, <4>2
    <3>2. Answer(svc[2], w, u, q).code \in {"not_found", "permission_denied"}
      BY <1>1, <1>2, <1>3, <3>1
    <3> QED
      BY <2>7, <2>9, <3>2
  <2> QED
    BY <2>8, <2>9
<1>6. svc = <<IngestRequests, "ingest">> \/ svc = <<JobRequests, "job">>
  BY UnnamedAre DEF Services
<1> QED
  BY <1>4, <1>5, <1>6

-----------------------------------------------------------------------------
(* Lists and the calls that act on an entry. *)

\* A call of one stage, and one of two.
LEMMA AnswersEnd ==
  ASSUME NEW service, NEW w, NEW u, NEW q
  PROVE  /\ Serve(service, w, u, q, Start).done =>
              Answer(service, w, u, q) = Serve(service, w, u, q, Start)
         /\ \A a, b : /\ a = Serve(service, w, u, q, Start) /\ ~ a.done
                      /\ b = Serve(service, a.w, u, q, a.stage) /\ b.done
                      => Answer(service, w, u, q) = b
BY DEF Answer, Onward

\* A repository's result is answered with ok if it committed, and only then.
LEMMA OkIsNone ==
  ASSUME NEW r, Coded(r.err), NEW out, NEW field
  PROVE  /\ Shared(r, out).done /\ (Shared(r, out).code = "ok" <=> r.err = "none")
         /\ (r.err = "none" => Shared(r, out).out = out /\ Shared(r, out).w = r.w)
         /\ SharedAs(r, field).done /\ (SharedAs(r, field).code = "ok" <=> r.err = "none")
         /\ (r.err = "none" => SharedAs(r, field).out = Under(field, r.out))
<1>1. \A x : /\ Shared(r, x).done /\ (Shared(r, x).code = "ok" <=> r.err = "none")
             /\ (r.err = "none" => Shared(r, x).out = x /\ Shared(r, x).w = r.w)
  BY DEF Coded, Shared, sharingError, Refuse, Done
<1> QED
  BY <1>1 DEF SharedAs

\* A transaction that raised nothing is one the repository gives no error.
LEMMA NoneIsCommitted ==
  ASSUME NEW t, t.sql \in Raises \cup {"00000"}
  PROVE  /\ Coded(run(t).err) /\ (run(t).err = "none" <=> t.sql = "00000")
         /\ Coded(groupsRun(t).err) /\ (groupsRun(t).err = "none" <=> t.sql = "00000")
         /\ run(t).w = t.w /\ run(t).out = t.out /\ groupsRun(t).out = t.out
<1>1. run(t).w = t.w /\ run(t).out = t.out /\ groupsRun(t).out = t.out
  BY DEF run, groupsRun, Named, Result_
<1>2. t.sql = "00000" => run(t).err = "none" /\ groupsRun(t).err = "none"
  BY DEF run, groupsRun, Named, Result_
<1> QED
  BY <1>1, <1>2, RaisesCoded

\* What an account may do with atlas, by its role.
LEMMA RolesTell ==
  ASSUME NEW w \in World, NEW u \in Users
  PROVE  /\ user_library_roles(w, u) \in Roles \cup {"none"}
         /\ Holds(w, u, "admin") <=> w.library = "live" /\ user_library_roles(w, u) = "admin"
         /\ Holds(w, u, "editor") <=>
              w.library = "live" /\ user_library_roles(w, u) \in {"editor", "admin"}
         /\ Holds(w, u, "reader") <=> w.library = "live" /\ user_library_roles(w, u) # "none"
<1>1. user_library_roles(w, u) \in Roles \cup {"none"}
  BY DEF World, user_library_roles
<1> QED
  BY <1>1 DEF Holds, role_rank, Roles

\* What is listed of atlas is there for its readers, with their role.
LEMMA ReadableTells ==
  ASSUME NEW w, NEW u
  PROVE  LET listed == {lib \in readable_libraries(w, u) : lib.library = "atlas"}
         IN  /\ listed # {} <=> Holds(w, u, "reader")
             /\ \A lib \in listed : lib.role = user_library_roles(w, u)
<1> DEFINE own == [library |-> "personal", name |-> "", role |-> "admin"]
           atlas == [library |-> "atlas", name |-> w.name, role |-> user_library_roles(w, u)]
<1>1. own.library # "atlas" /\ atlas.library = "atlas" /\ atlas.role = user_library_roles(w, u)
  OBVIOUS
<1>2. readable_libraries(w, u) = {own} \cup (IF Holds(w, u, "reader") THEN {atlas} ELSE {})
  BY DEF readable_libraries
<1> HIDE DEF own, atlas
<1> QED
  BY <1>1, <1>2

\* The questions about lists are answered with what the tables list.
LEMMA ListsAnswered ==
  ASSUME NEW w \in World, NEW u \in Users
  PROVE  /\ Answer("library", w, u, [rpc |-> "library.List"]).out.libraries
              = readable_libraries(w, u)
         /\ Answer("library", w, u, [rpc |-> "library.Invitations"]).out.invitations
              = my_invitations(w, u)
         /\ Answer("library", w, u, [rpc |-> "library.Deleted"]).out.libraries
              = deleted_libraries(w, u)
         /\ Answer("group", w, u, [rpc |-> "group.Invitations"]).out.invitations
              = my_group_invitations(w, u)
<1>1. /\ \A out : Under("libraries", out).libraries = out
      /\ \A out : Under("invitations", out).invitations = out
  BY DEF Under
<1>2. Answer("library", w, u, [rpc |-> "library.List"]).out.libraries = readable_libraries(w, u)
  <2> DEFINE q == [rpc |-> "library.List"]
             out == [libraries |-> LibrariesList(w, u).out, username |-> LibrariesUsername(w, u).out]
  <2>1. Serve("library", w, u, q, Start) = Shared(LibrariesList(w, u), out)
    BY DEF Serve, LibraryService, LibraryList
  <2>2. LibrariesList(w, u).err = "none" /\ out.libraries = readable_libraries(w, u)
    BY DEF LibrariesList, Result_
  <2> HIDE DEF q, out
  <2>3. Shared(LibrariesList(w, u), out).done /\ Shared(LibrariesList(w, u), out).out = out
    BY <2>2, OkIsNone DEF Coded
  <2> QED
    BY <2>1, <2>2, <2>3, AnswersEnd DEF q
<1>3. Answer("library", w, u, [rpc |-> "library.Invitations"]).out.invitations = my_invitations(w, u)
  <2> DEFINE q == [rpc |-> "library.Invitations"]
             r == LibrariesInvitations(w, u)
  <2>1. Serve("library", w, u, q, Start) = SharedAs(r, "invitations")
    BY DEF Serve, LibraryService, LibraryInvitations
  <2>2. r.err = "none" /\ r.out = my_invitations(w, u)
    BY DEF LibrariesInvitations, Result_
  <2> HIDE DEF q, r
  <2>3. SharedAs(r, "invitations").done /\ SharedAs(r, "invitations").out = Under("invitations", r.out)
    BY <2>2, OkIsNone DEF Coded
  <2> QED
    BY <1>1, <2>1, <2>2, <2>3, AnswersEnd DEF q
<1>4. Answer("library", w, u, [rpc |-> "library.Deleted"]).out.libraries = deleted_libraries(w, u)
  <2> DEFINE q == [rpc |-> "library.Deleted"]
             r == LibrariesDeleted(w, u)
  <2>1. Serve("library", w, u, q, Start) = SharedAs(r, "libraries")
    BY DEF Serve, LibraryService, LibraryDeleted
  <2>2. r.err = "none" /\ r.out = deleted_libraries(w, u)
    BY DEF LibrariesDeleted, Result_
  <2> HIDE DEF q, r
  <2>3. SharedAs(r, "libraries").done /\ SharedAs(r, "libraries").out = Under("libraries", r.out)
    BY <2>2, OkIsNone DEF Coded
  <2> QED
    BY <1>1, <2>1, <2>2, <2>3, AnswersEnd DEF q
<1>5. Answer("group", w, u, [rpc |-> "group.Invitations"]).out.invitations = my_group_invitations(w, u)
  <2> DEFINE q == [rpc |-> "group.Invitations"]
             r == GroupsInvitations(w, u)
  <2>1. Serve("group", w, u, q, Start) = SharedAs(r, "invitations")
    BY DEF Serve, GroupService, GroupInvitations
  <2>2. r.err = "none" /\ r.out = my_group_invitations(w, u)
    BY DEF GroupsInvitations, Result_
  <2> HIDE DEF q, r
  <2>3. SharedAs(r, "invitations").done /\ SharedAs(r, "invitations").out = Under("invitations", r.out)
    BY <2>2, OkIsNone DEF Coded
  <2> QED
    BY <1>1, <2>1, <2>2, <2>3, AnswersEnd DEF q
<1> QED
  BY <1>2, <1>3, <1>4, <1>5

\* The calls of one transaction are granted as its function decides.
LEMMA CallsGranted ==
  ASSUME NEW w \in World, NEW u \in Users
  PROVE  /\ \A rpc \in {"library.Members", "library.Groups"} :
              Answer("library", w, u, On(rpc)).code = "ok" <=> Holds(w, u, "reader")
         /\ \A rpc \in {"library.Events", "library.Delete"} :
              Answer("library", w, u, On(rpc)).code = "ok" <=> Holds(w, u, "admin")
         /\ Answer("library", w, u, On("library.Decline")).code = "ok" <=> invitation_for(w, u)
         /\ Answer("group", w, u, Joining).code = "ok" <=> group_invitation_for(w, u)
         /\ LET team == Answer("group", w, u, Team)
            IN  team.code = "ok" /\ team.out.libraries # {}
                  => w.groupRole # "none" /\ w.library = "live"
<1>1. Answer("library", w, u, On("library.Members")).code = "ok" <=> Holds(w, u, "reader")
  <2> DEFINE q == On("library.Members")
             t == library_members(w, u)
             r == run(t)
  <2>1. Serve("library", w, u, q, Start) = SharedAs(r, "members")
    BY DEF Serve, LibraryService, LibraryMembers, LibrariesMembers, On
  <2>2. t.sql \in Raises \cup {"00000"}
    BY LibrariesRaise
  <2>3. t.sql = "00000" <=> Holds(w, u, "reader")
    BY DEF library_members, Raise, Commit
  <2> HIDE DEF q, t
  <2>4. Coded(r.err) /\ (r.err = "none" <=> t.sql = "00000")
    BY <2>2, NoneIsCommitted
  <2> HIDE DEF r
  <2>5. SharedAs(r, "members").done /\ (SharedAs(r, "members").code = "ok" <=> r.err = "none")
    BY <2>4, OkIsNone
  <2> QED
    BY <2>1, <2>3, <2>4, <2>5, AnswersEnd DEF q
<1>2. Answer("library", w, u, On("library.Groups")).code = "ok" <=> Holds(w, u, "reader")
  <2> DEFINE q == On("library.Groups")
             t == library_groups(w, u)
             r == groupsRun(t)
  <2>1. Serve("library", w, u, q, Start) = SharedAs(r, "groups")
    BY DEF Serve, LibraryService, LibraryGroups, GroupsOnLibrary, On
  <2>2. t.sql \in Raises \cup {"00000"}
    BY LibrariesRaise
  <2>3. t.sql = "00000" <=> Holds(w, u, "reader")
    BY DEF library_groups, Raise, Commit
  <2> HIDE DEF q, t
  <2>4. Coded(r.err) /\ (r.err = "none" <=> t.sql = "00000")
    BY <2>2, NoneIsCommitted
  <2> HIDE DEF r
  <2>5. SharedAs(r, "groups").done /\ (SharedAs(r, "groups").code = "ok" <=> r.err = "none")
    BY <2>4, OkIsNone
  <2> QED
    BY <2>1, <2>3, <2>4, <2>5, AnswersEnd DEF q
<1>3. Answer("library", w, u, On("library.Events")).code = "ok" <=> Holds(w, u, "admin")
  <2> DEFINE q == On("library.Events")
             t == library_events(w, u)
             r == run(t)
  <2>1. Serve("library", w, u, q, Start) = Shared(r, "empty")
    BY DEF Serve, LibraryService, LibraryEvents, LibrariesEvents, On
  <2>2. t.sql \in Raises \cup {"00000"}
    BY LibrariesRaise
  <2>3. t.sql = "00000" <=> Holds(w, u, "admin")
    BY DEF library_events, Raise, Commit
  <2> HIDE DEF q, t
  <2>4. Coded(r.err) /\ (r.err = "none" <=> t.sql = "00000")
    BY <2>2, NoneIsCommitted
  <2> HIDE DEF r
  <2>5. Shared(r, "empty").done /\ (Shared(r, "empty").code = "ok" <=> r.err = "none")
    BY <2>4, OkIsNone
  <2> QED
    BY <2>1, <2>3, <2>4, <2>5, AnswersEnd DEF q
<1>4. Answer("library", w, u, On("library.Delete")).code = "ok" <=> Holds(w, u, "admin")
  <2> DEFINE q == On("library.Delete")
             t == delete_library(w, u)
             r == run(t)
  <2>1. Serve("library", w, u, q, Start) = Shared(r, "empty")
    BY DEF Serve, LibraryService, LibraryDelete, LibrariesDelete, On
  <2>2. t.sql \in Raises \cup {"00000"}
    BY LibrariesRaise
  <2>3. t.sql = "00000" <=> Holds(w, u, "admin")
    BY DEF delete_library, Raise, Commit
  <2> HIDE DEF q, t
  <2>4. Coded(r.err) /\ (r.err = "none" <=> t.sql = "00000")
    BY <2>2, NoneIsCommitted
  <2> HIDE DEF r
  <2>5. Shared(r, "empty").done /\ (Shared(r, "empty").code = "ok" <=> r.err = "none")
    BY <2>4, OkIsNone
  <2> QED
    BY <2>1, <2>3, <2>4, <2>5, AnswersEnd DEF q
<1>5. Answer("library", w, u, On("library.Decline")).code = "ok" <=> invitation_for(w, u)
  <2> DEFINE q == On("library.Decline")
             t == decline_invitation(w, u)
             r == run(t)
  <2>1. Serve("library", w, u, q, Start) = Shared(r, "empty")
    BY DEF Serve, LibraryService, LibraryDecline, LibrariesDecline, On
  <2>2. t.sql \in Raises \cup {"00000"}
    BY LibrariesRaise
  <2>3. t.sql = "00000" <=> invitation_for(w, u)
    BY DEF decline_invitation, Raise, Commit
  <2> HIDE DEF q, t
  <2>4. Coded(r.err) /\ (r.err = "none" <=> t.sql = "00000")
    BY <2>2, NoneIsCommitted
  <2> HIDE DEF r
  <2>5. Shared(r, "empty").done /\ (Shared(r, "empty").code = "ok" <=> r.err = "none")
    BY <2>4, OkIsNone
  <2> QED
    BY <2>1, <2>3, <2>4, <2>5, AnswersEnd DEF q
<1>6. Answer("group", w, u, Joining).code = "ok" <=> group_invitation_for(w, u)
  <2> DEFINE q == Joining
             t == accept_group_invitation(w, u)
             r == groupsRun(t)
  <2>1. Serve("group", w, u, q, Start) = SharedAs(r, "role")
    BY DEF Serve, GroupService, GroupAccept, GroupsAccept, Joining
  <2>2. t.sql \in Raises \cup {"00000"}
    BY GroupsRaise
  <2>3. t.sql = "00000" <=> group_invitation_for(w, u)
    BY DEF accept_group_invitation, Raise, Commit
  <2> HIDE DEF q, t
  <2>4. Coded(r.err) /\ (r.err = "none" <=> t.sql = "00000")
    BY <2>2, NoneIsCommitted
  <2> HIDE DEF r
  <2>5. SharedAs(r, "role").done /\ (SharedAs(r, "role").code = "ok" <=> r.err = "none")
    BY <2>4, OkIsNone
  <2> QED
    BY <2>1, <2>3, <2>4, <2>5, AnswersEnd DEF q
<1>7. LET team == Answer("group", w, u, Team)
      IN  team.code = "ok" /\ team.out.libraries # {} => w.groupRole # "none" /\ w.library = "live"
  <2> DEFINE t == group_libraries(w, u)
             r == groupsRun(t)
  <2>1. Serve("group", w, u, Team, Start) = SharedAs(r, "libraries")
    BY DEF Serve, GroupService, GroupLibraries, GroupsLibraries, Team
  <2>2. t.sql \in Raises \cup {"00000"}
    BY GroupsRaise
  <2>3. t.sql = "00000" /\ t.out # {} => w.groupRole # "none" /\ w.library = "live"
    BY DEF group_libraries, Raise, Commit
  <2> HIDE DEF t
  <2>4. Coded(r.err) /\ (r.err = "none" <=> t.sql = "00000") /\ r.out = t.out
    BY <2>2, NoneIsCommitted
  <2> HIDE DEF r
  <2>5. /\ SharedAs(r, "libraries").done /\ (SharedAs(r, "libraries").code = "ok" <=> r.err = "none")
        /\ (r.err = "none" => SharedAs(r, "libraries").out = Under("libraries", r.out))
    BY <2>4, OkIsNone
  <2>6. Under("libraries", r.out).libraries = r.out
    BY DEF Under
  <2> QED
    BY <2>1, <2>3, <2>4, <2>5, <2>6, AnswersEnd
<1>8. \A rpc \in {"library.Members", "library.Groups"} :
        Answer("library", w, u, On(rpc)).code = "ok" <=> Holds(w, u, "reader")
  BY <1>1, <1>2
<1>9. \A rpc \in {"library.Events", "library.Delete"} :
        Answer("library", w, u, On(rpc)).code = "ok" <=> Holds(w, u, "admin")
  BY <1>3, <1>4
<1> QED
  BY <1>5, <1>6, <1>7, <1>8, <1>9

\* An accepted invitation is answered with the library, whatever was found of
\* it; one that is not there is refused.
LEMMA AcceptGranted ==
  ASSUME NEW w \in World, NEW u \in Users
  PROVE  Answer("library", w, u, On("library.Accept")).code = "ok" <=> invitation_for(w, u)
<1> DEFINE q == On("library.Accept")
           t == accept_invitation(w, u)
           r == run(t)
           a == Serve("library", w, u, q, Start)
<1>1. a = IF r.err = "none" THEN Then(r.w, "find", r.out) ELSE sharingError(r)
  BY DEF Serve, LibraryService, LibraryAccept, LibrariesAccept, On, Start, Stage
<1>2. t.sql \in Raises \cup {"00000"}
  BY LibrariesRaise
<1>3. t.sql = "00000" <=> invitation_for(w, u)
  BY DEF accept_invitation, Raise, Commit
<1>4. \A x, it : /\ Serve("library", x, u, q, Stage("find", it)).done
                 /\ Serve("library", x, u, q, Stage("find", it)).code = "ok"
  <2>1. ASSUME NEW x, NEW it
        PROVE  \E out : Serve("library", x, u, q, Stage("find", it)) = Done(x, "ok", out)
    <3> DEFINE s == Stage("find", it)
    <3>1. s.at # "start" /\ q.rpc = "library.Accept"
      BY DEF On, Stage
    <3> HIDE DEF s, q
    <3>2. Serve("library", x, u, q, s) = LibraryAccept(x, u, s)
      BY <3>1 DEF Serve, LibraryService
    <3>3. \E out : LibraryAccept(x, u, s) = Done(x, "ok", out)
      BY <3>1 DEF LibraryAccept
    <3> QED
      BY <3>2, <3>3 DEF s
  <2>2. \A x, out : Done(x, "ok", out).done /\ Done(x, "ok", out).code = "ok"
    BY DEF Done
  <2> QED
    BY <2>1, <2>2
<1> HIDE DEF q, t
<1>5. Coded(r.err) /\ (r.err = "none" <=> t.sql = "00000")
  BY <1>2, NoneIsCommitted
<1> HIDE DEF r, a
<1>6. CASE r.err = "none"
  <2> DEFINE b == Serve("library", a.w, u, q, a.stage)
  <2>1. ~ a.done /\ a.stage = Stage("find", r.out)
    BY <1>1, <1>6 DEF Then
  <2>2. b.done /\ b.code = "ok"
    BY <1>4, <2>1
  <2> HIDE DEF b
  <2>3. Answer("library", w, u, q) = b
    BY <2>1, <2>2, AnswersEnd DEF a, b
  <2> QED
    BY <1>3, <1>5, <1>6, <2>2, <2>3 DEF q
<1>7. CASE r.err # "none"
  <2>1. a.done /\ a.code # "ok"
    BY <1>1, <1>5, <1>7 DEF Coded, sharingError, Refuse, Done
  <2>2. Answer("library", w, u, q) = a
    BY <2>1, AnswersEnd DEF a
  <2> QED
    BY <1>3, <1>5, <1>7, <2>1, <2>2 DEF q
<1> QED
  BY <1>6, <1>7

\* A deleted library is restored by whom it is listed for, who reads it then.
LEMMA RestoreGranted ==
  ASSUME NEW w \in World, NEW u \in Users
  PROVE  LET restored == Answer("library", w, u, On("library.Restore"))
             may == w.library = "deleted" /\ w.grants[u] = "admin"
         IN  /\ restored.code = "ok" <=> may
             /\ may => Holds(restored.w, u, "reader")
<1> DEFINE q == On("library.Restore")
           t == restore_library(w, u)
           r == run(t)
           a == Serve("library", w, u, q, Start)
           may == w.library = "deleted" /\ w.grants[u] = "admin"
           x == [w EXCEPT !.library = "live"]
<1>1. a = IF r.err = "none" THEN Then(r.w, "find", "none") ELSE sharingError(r)
  BY DEF Serve, LibraryService, LibraryRestore, LibrariesRestore, Reread, On, Start, Stage
<1>2. t.sql \in Raises \cup {"00000"}
  BY LibrariesRaise
<1>3. (t.sql = "00000" <=> may) /\ (may => t.w = x)
  BY DEF restore_library, Raise, Commit
<1>4. \A y, it : Serve("library", y, u, q, Stage("find", it)) = SharedAs(find(y, u), "library")
  BY DEF Serve, LibraryService, LibraryRestore, Reread, On, Stage
<1>5. may => Holds(x, u, "reader")
  BY DEF Holds, user_library_roles, role_rank, World
<1> HIDE DEF q, t, x, may
<1>6. Coded(r.err) /\ (r.err = "none" <=> t.sql = "00000") /\ r.w = t.w
  BY <1>2, NoneIsCommitted
<1> HIDE DEF r, a
<1>7. CASE r.err = "none"
  <2> DEFINE b == Serve("library", a.w, u, q, a.stage)
  <2>1. ~ a.done /\ a.w = x /\ a.stage = Stage("find", "none")
    BY <1>1, <1>3, <1>6, <1>7 DEF Then
  <2>2. b = SharedAs(find(x, u), "library")
    BY <1>4, <2>1
  <2>3. find(x, u).err = "none" /\ find(x, u).w = x
    <3>1. LibrariesList(x, u).out = readable_libraries(x, u)
      BY DEF LibrariesList, Result_
    <3>2. {lib \in LibrariesList(x, u).out : lib.library = "atlas"} # {}
      BY <1>3, <1>5, <1>6, <1>7, <3>1, ReadableTells
    <3> QED
      BY <3>2 DEF find, Result_
  <2>4. b.done /\ b.code = "ok"
    BY <2>2, <2>3, OkIsNone DEF Coded
  <2>5. b.w = x
    BY <2>2, <2>3, EndLeaves
  <2> HIDE DEF b
  <2>6. Answer("library", w, u, q) = b
    BY <2>1, <2>4, AnswersEnd DEF a, b
  <2> QED
    BY <1>3, <1>5, <1>6, <1>7, <2>4, <2>5, <2>6 DEF q, may
<1>8. CASE r.err # "none"
  <2>1. a.done /\ a.code # "ok"
    BY <1>1, <1>6, <1>8 DEF Coded, sharingError, Refuse, Done
  <2>2. Answer("library", w, u, q) = a
    BY <2>1, AnswersEnd DEF a
  <2> QED
    BY <1>3, <1>6, <1>8, <2>1, <2>2 DEF q, may
<1> QED
  BY <1>7, <1>8

\* The documents of atlas are listed for its readers, and a job is queued there
\* by its editors.
LEMMA ShelvesGranted ==
  ASSUME NEW w \in World, NEW u \in Users
  PROVE  /\ Answer("document", w, u, On("document.List")).code = "ok" <=> Holds(w, u, "reader")
         /\ Answer("job", w, u, Queueing).code = "ok" <=> Holds(w, u, "editor")
<1>a. labelled(w, u, "atlas") = IF Holds(w, u, "reader") THEN "atlas" ELSE "unknown"
  <2>1. (\E lib \in readableOf(w, u) : lib.library = "atlas") <=> Holds(w, u, "reader")
    BY ReadableTells DEF readableOf
  <2> QED
    BY <2>1 DEF labelled
<1>b. InLibrary(w, u, "atlas") = IF Holds(w, u, "reader") THEN Then(w, "shelf", "atlas")
                                 ELSE Refuse(w, "not_found")
  BY <1>a DEF InLibrary
<1>c. /\ \A x, code : Refuse(x, code).done /\ Refuse(x, code).code = code
      /\ \A x, at, it : /\ ~ Then(x, at, it).done /\ Then(x, at, it).w = x
                        /\ Then(x, at, it).stage = Stage(at, it)
      /\ \A at, it : Stage(at, it).at = at /\ Stage(at, it).it = it
      /\ Start.at = "start"
  BY DEF Refuse, Done, Then, Stage, Start
<1>d. \A r, field : r.err = "none" => DocumentedAs(r, field).done /\ DocumentedAs(r, field).code = "ok"
  BY DEF DocumentedAs, Documented, Done
<1>1. Answer("document", w, u, On("document.List")).code = "ok" <=> Holds(w, u, "reader")
  <2> DEFINE q == On("document.List")
             a == Serve("document", w, u, q, Start)
             b == Serve("document", w, u, q, Stage("shelf", "atlas"))
  <2>1. \A s : Serve("document", w, u, q, s) =
                 IF s.at = "start" THEN InLibrary(w, u, "atlas")
                 ELSE DocumentedAs(DocumentsList(w, u, s.it), "documents")
    BY DEF Serve, DocumentService, DocumentList, On
  <2>2. DocumentsList(w, u, "atlas").err = "none"
    BY DEF DocumentsList, Result_
  <2> HIDE DEF q
  <2>3. a = InLibrary(w, u, "atlas") /\ b.done /\ b.code = "ok"
    BY <1>c, <1>d, <2>1, <2>2
  <2> HIDE DEF a, b
  <2>4. CASE Holds(w, u, "reader")
    <3>1. ~ a.done /\ a.w = w /\ a.stage = Stage("shelf", "atlas")
      BY <1>b, <1>c, <2>3, <2>4
    <3>2. Answer("document", w, u, q) = b
      BY <2>3, <3>1, AnswersEnd DEF a, b
    <3> QED
      BY <2>3, <2>4, <3>2 DEF q
  <2>5. CASE ~ Holds(w, u, "reader")
    <3>1. a.done /\ a.code # "ok"
      BY <1>b, <1>c, <2>3, <2>5
    <3>2. Answer("document", w, u, q) = a
      BY <3>1, AnswersEnd DEF a
    <3> QED
      BY <2>5, <3>1, <3>2 DEF q
  <2> QED
    BY <2>4, <2>5
<1>2. Answer("job", w, u, Queueing).code = "ok" <=> Holds(w, u, "editor")
  <2> DEFINE q == Queueing
             a == Serve("job", w, u, q, Start)
             b == Serve("job", w, u, q, Stage("shelf", "atlas"))
  <2>1. \A s : Serve("job", w, u, q, s) =
                 IF s.at = "start" THEN editable(w, u, InLibrary(w, u, "atlas"))
                 ELSE DocumentedAs(QueueAdd(w, u, s.it, "manual"), "jobs")
    BY DEF Serve, JobService, JobEnqueue, Queueing, Targets
  <2>2. Holds(w, u, "editor") => Rows(w, u, "atlas", "editor")
    BY DEF Rows, RowsOf, Places, Slugs
  <2>3. Holds(w, u, "editor") => QueueAdd(w, u, "atlas", "manual").err = "none"
    BY <2>2 DEF QueueAdd, Result_
  <2>4. Holds(w, u, "editor") <=> Holds(w, u, "reader") /\ CanAdd(w, u, "atlas")
    BY RolesTell DEF CanAdd
  <2> HIDE DEF q
  <2>5. a = editable(w, u, InLibrary(w, u, "atlas"))
        /\ (Holds(w, u, "editor") => b.done /\ b.code = "ok")
    BY <1>c, <1>d, <2>1, <2>3
  <2>6. \A t : editable(w, u, t) = IF t.done \/ CanAdd(w, u, t.stage.it) THEN t
                                   ELSE Refuse(w, "permission_denied")
    BY DEF editable
  <2> HIDE DEF a, b
  <2>7. CASE Holds(w, u, "editor")
    <3>1. a = Then(w, "shelf", "atlas")
      BY <1>b, <1>c, <2>4, <2>5, <2>6, <2>7
    <3>2. ~ a.done /\ a.w = w /\ a.stage = Stage("shelf", "atlas")
      BY <1>c, <3>1
    <3>3. Answer("job", w, u, q) = b
      BY <2>5, <2>7, <3>2, AnswersEnd DEF a, b
    <3> QED
      BY <2>5, <2>7, <3>3 DEF q
  <2>8. CASE ~ Holds(w, u, "editor")
    <3>1. a \in {Refuse(w, "not_found"), Refuse(w, "permission_denied")}
      <4>1. CASE Holds(w, u, "reader")
        BY <1>b, <1>c, <2>4, <2>5, <2>6, <2>8, <4>1
      <4>2. CASE ~ Holds(w, u, "reader")
        BY <1>b, <1>c, <2>5, <2>6, <4>2
      <4> QED
        BY <4>1, <4>2
    <3>2. a.done /\ a.code # "ok"
      BY <1>c, <3>1
    <3>3. Answer("job", w, u, q) = a
      BY <3>2, AnswersEnd DEF a
    <3> QED
      BY <2>8, <3>2, <3>3 DEF q
  <2> QED
    BY <2>7, <2>8
<1> QED
  BY <1>1, <1>2

\* Every question is among those asked.
LEMMA QuestionsAsked ==
  ASSUME NEW w, NEW u
  PROVE  LET said == [x \in Questions |-> Answer(x[1], w, u, x[2])]
         IN  /\ \A rpc \in {"library.List", "library.Invitations", "library.Deleted"} :
                  said[<<"library", [rpc |-> rpc]>>] = Answer("library", w, u, [rpc |-> rpc])
             /\ \A rpc \in {"library.Members", "library.Groups", "library.Events",
                            "library.Delete", "library.Accept", "library.Decline",
                            "library.Restore"} :
                  said[<<"library", On(rpc)>>] = Answer("library", w, u, On(rpc))
             /\ said[<<"group", [rpc |-> "group.Invitations"]>>]
                  = Answer("group", w, u, [rpc |-> "group.Invitations"])
             /\ said[<<"group", Team>>] = Answer("group", w, u, Team)
             /\ said[<<"group", Joining>>] = Answer("group", w, u, Joining)
             /\ said[<<"document", On("document.List")>>]
                  = Answer("document", w, u, On("document.List"))
             /\ said[<<"job", Queueing>>] = Answer("job", w, u, Queueing)
<1> DEFINE said == [x \in Questions |-> Answer(x[1], w, u, x[2])]
           asks(q) == [rpc |-> q]
<1>1. \A service, q : <<service, q>> \in Questions => said[<<service, q>>] = Answer(service, w, u, q)
  OBVIOUS
<1>2. \A rpc \in {"library.List", "library.Invitations", "library.Deleted"} : <<"library", asks(rpc)>> \in Questions
  BY DEF Questions
<1>3. \A rpc \in {"library.Members", "library.Groups", "library.Events", "library.Delete",
                  "library.Accept", "library.Decline", "library.Restore"} :
        <<"library", On(rpc)>> \in Questions
  BY DEF Questions
<1>4. /\ <<"group", asks("group.Invitations")>> \in Questions /\ <<"group", Team>> \in Questions
      /\ <<"group", Joining>> \in Questions /\ <<"document", On("document.List")>> \in Questions
      /\ <<"job", Queueing>> \in Questions
  BY DEF Questions
<1> HIDE DEF said
<1>5. \A rpc \in {"library.List", "library.Invitations", "library.Deleted"} :
        said[<<"library", asks(rpc)>>] = Answer("library", w, u, asks(rpc))
  BY <1>1, <1>2
<1>6. said[<<"group", asks("group.Invitations")>>] = Answer("group", w, u, asks("group.Invitations"))
  BY <1>1, <1>4
<1> QED
  BY <1>1, <1>3, <1>4, <1>5, <1>6 DEF said

\* The answers to the questions agree.
LEMMA AnswersAgree ==
  ASSUME world \in World, NEW u \in Users
  PROVE  Agree(u, [x \in Questions |-> Answer(x[1], world, u, x[2])])
<1> DEFINE said == [x \in Questions |-> Answer(x[1], world, u, x[2])]
           listed == {lib \in said[<<"library", [rpc |-> "library.List"]>>].out.libraries :
                        lib.library = "atlas"}
           shown(roles) == \E lib \in listed : lib.role \in roles
           invited == said[<<"library", [rpc |-> "library.Invitations"]>>].out.invitations # {}
           deleted == said[<<"library", [rpc |-> "library.Deleted"]>>].out.libraries # {}
           asked == said[<<"group", [rpc |-> "group.Invitations"]>>].out.invitations # {}
           restored == said[<<"library", On("library.Restore")>>]
           team == said[<<"group", Team>>]
           granted(svc, q) == said[<<svc, q>>].code = "ok"
<1>a. /\ \A rpc \in {"library.List", "library.Invitations", "library.Deleted"} :
           said[<<"library", [rpc |-> rpc]>>] = Answer("library", world, u, [rpc |-> rpc])
      /\ \A rpc \in {"library.Members", "library.Groups", "library.Events",
                     "library.Delete", "library.Accept", "library.Decline",
                     "library.Restore"} :
           said[<<"library", On(rpc)>>] = Answer("library", world, u, On(rpc))
      /\ said[<<"group", [rpc |-> "group.Invitations"]>>]
           = Answer("group", world, u, [rpc |-> "group.Invitations"])
      /\ said[<<"group", Team>>] = Answer("group", world, u, Team)
      /\ said[<<"group", Joining>>] = Answer("group", world, u, Joining)
      /\ said[<<"document", On("document.List")>>] = Answer("document", world, u, On("document.List"))
      /\ said[<<"job", Queueing>>] = Answer("job", world, u, Queueing)
  BY QuestionsAsked
<1> HIDE DEF said
<1>b. /\ said[<<"library", [rpc |-> "library.List"]>>].out.libraries = readable_libraries(world, u)
      /\ said[<<"library", [rpc |-> "library.Invitations"]>>].out.invitations = my_invitations(world, u)
      /\ said[<<"library", [rpc |-> "library.Deleted"]>>].out.libraries = deleted_libraries(world, u)
      /\ said[<<"group", [rpc |-> "group.Invitations"]>>].out.invitations = my_group_invitations(world, u)
  BY <1>a, ListsAnswered
<1>1. listed = {lib \in readable_libraries(world, u) : lib.library = "atlas"}
  BY <1>b
<1>2. invited <=> invitation_for(world, u)
  <2>1. invited <=> my_invitations(world, u) # {}
    BY <1>b
  <2> QED
    BY <2>1 DEF my_invitations, invitation_for
<1>3. deleted <=> world.library = "deleted" /\ world.grants[u] = "admin"
  <2>1. deleted <=> deleted_libraries(world, u) # {}
    BY <1>b
  <2> QED
    BY <2>1 DEF deleted_libraries
<1>4. asked <=> group_invitation_for(world, u)
  <2>1. asked <=> my_group_invitations(world, u) # {}
    BY <1>b
  <2> QED
    BY <2>1 DEF my_group_invitations
<1>5. /\ restored = Answer("library", world, u, On("library.Restore"))
      /\ team = Answer("group", world, u, Team)
  BY <1>a
<1>6. /\ \A rpc \in {"library.Members", "library.Groups"} :
           granted("library", On(rpc)) <=> Holds(world, u, "reader")
      /\ \A rpc \in {"library.Events", "library.Delete"} :
           granted("library", On(rpc)) <=> Holds(world, u, "admin")
      /\ \A rpc \in {"library.Accept", "library.Decline"} :
           granted("library", On(rpc)) <=> invitation_for(world, u)
      /\ granted("group", Joining) <=> group_invitation_for(world, u)
      /\ granted("document", On("document.List")) <=> Holds(world, u, "reader")
      /\ granted("job", Queueing) <=> Holds(world, u, "editor")
  BY <1>a, CallsGranted, AcceptGranted, ShelvesGranted
<1>7. (listed # {} <=> Holds(world, u, "reader")) /\ \A lib \in listed : lib.role = user_library_roles(world, u)
  BY <1>1, ReadableTells
<1> HIDE DEF listed, invited, deleted, asked, restored, team, granted
<1>8. /\ shown({"admin"}) <=> Holds(world, u, "admin")
      /\ shown({"editor", "admin"}) <=> Holds(world, u, "editor")
  BY <1>7, RolesTell
<1> HIDE DEF shown
<1>9. restored.code = "ok" <=> deleted
  BY <1>3, <1>5, RestoreGranted
<1>10. deleted => readable_libraries(restored.w, u) # readable_libraries(world, u)
  <2> SUFFICES ASSUME deleted PROVE readable_libraries(restored.w, u) # readable_libraries(world, u)
    OBVIOUS
  <2>1. Holds(restored.w, u, "reader") /\ ~ Holds(world, u, "reader")
    BY <1>3, <1>5, RestoreGranted DEF Holds
  <2> QED
    BY <2>1, ReadableTells
<1>11. (team.code = "ok" /\ team.out.libraries # {} /\ world.members[u] # "none") => listed # {}
  <2> SUFFICES ASSUME team.code = "ok", team.out.libraries # {}, world.members[u] # "none"
               PROVE  Holds(world, u, "reader")
    BY <1>7
  <2>1. world.groupRole # "none" /\ world.library = "live"
    BY <1>5, CallsGranted
  <2>2. world.groupRole \in Roles \cup {"none"} /\ world.grants[u] \in Roles \cup {"none"}
    BY DEF World
  <2>3. user_library_roles(world, u) # "none"
    BY <2>1, <2>2 DEF user_library_roles, role_rank, Roles
  <2> QED
    BY <2>1, <2>3, RolesTell
<1>12. /\ \A rpc \in {"library.Members", "library.Groups"} : granted("library", On(rpc)) <=> listed # {}
       /\ granted("document", On("document.List")) <=> listed # {}
       /\ \A rpc \in {"library.Events", "library.Delete"} : granted("library", On(rpc)) <=> shown({"admin"})
       /\ granted("job", Queueing) <=> shown({"editor", "admin"})
       /\ \A rpc \in {"library.Accept", "library.Decline"} : granted("library", On(rpc)) <=> invited
       /\ granted("group", Joining) <=> asked
  BY <1>2, <1>4, <1>6, <1>7, <1>8
<1> USE DEF listed, invited, deleted, asked, restored, team, granted, shown
<1>13. Agree(u, said)
  BY <1>9, <1>10, <1>11, <1>12 DEF Agree
<1> QED
  BY <1>13 DEF said

-----------------------------------------------------------------------------
(* Every reachable state. *)

\* The tables have their shape, and a call under way is one of a procedure of
\* its service, at a stage its handler has after the first.
ApiInv ==
  /\ world \in World
  /\ DOMAIN call = Users
  /\ \A u \in Users : call[u] = Idle \/
       \E svc \in Services :
         /\ call[u].service = svc[2] /\ call[u].req \in svc[1]
         /\ KnownStage(call[u].req, call[u].stage) /\ call[u].stage.at # "start"

\* Where atlas stays as it is, or may change.
Allowed(u, w, x) ==
  <<x.docs["atlas"], x.jobs["atlas"]>> # <<w.docs["atlas"], w.jobs["atlas"]>>
    => \/ x.library = "deleted" /\ w.library = "live"
       \/ call[u] # Idle /\ call'[u] = Idle /\ Holds(w, u, "editor")

\* A handler's stage taken as a step: the invariant holds after it, and atlas
\* changes as it may.
LEMMA TookSound ==
  ASSUME ApiInv, NEW u \in Users, NEW svc \in Services, NEW q \in svc[1], NEW s,
         KnownStage(q, s), s.at # "start" => call[u] # Idle,
         Took(u, svc[2], q, Serve(svc[2], world, u, q, s))
  PROVE  ApiInv' /\ Allowed(u, world, world')
<1> DEFINE r == Serve(svc[2], world, u, q, s)
<1>1. Sound(world, u, q, s, r) /\ Took(u, svc[2], q, r)
  BY ServeSound DEF ApiInv
<1> HIDE DEF r
<1>2. world' = r.w /\ world' \in World
  BY <1>1 DEF Took, Sound
<1> DEFINE next == [service |-> svc[2], req |-> q, stage |-> r.stage]
<1>3. DOMAIN call' = Users /\ call'[u] = (IF r.done THEN Idle ELSE next)
      /\ \A v \in Users \ {u} : call'[v] = call[v]
  BY <1>1 DEF Took, ApiInv
<1>4. ~ r.done => KnownStage(q, r.stage) /\ r.stage.at # "start"
  BY <1>1 DEF Sound, Level
<1>5. next.service = svc[2] /\ next.req = q /\ next.stage = r.stage
  OBVIOUS
<1> HIDE DEF next
<1>6. ApiInv'
  <2>1. ASSUME NEW v \in Users, v # u
        PROVE  call'[v] = Idle \/
                 \E x \in Services :
                   /\ call'[v].service = x[2] /\ call'[v].req \in x[1]
                   /\ KnownStage(call'[v].req, call'[v].stage) /\ call'[v].stage.at # "start"
    BY <1>3, <2>1 DEF ApiInv
  <2>2. call'[u] = Idle \/
          \E x \in Services :
            /\ call'[u].service = x[2] /\ call'[u].req \in x[1]
            /\ KnownStage(call'[u].req, call'[u].stage) /\ call'[u].stage.at # "start"
    BY <1>3, <1>4, <1>5
  <2> QED
    BY <1>2, <1>3, <2>1, <2>2 DEF ApiInv
<1>7. Allowed(u, world, world')
  <2>1. CASE Keeps(world, r.w)
    BY <1>2, <2>1 DEF Keeps, Allowed
  <2>2. CASE world.library = "live" /\ r.w.library = "deleted"
    BY <1>2, <2>2 DEF Allowed
  <2>3. CASE r.done /\ s.at # "start" /\ Holds(world, u, "editor")
    BY <1>3, <2>3 DEF Allowed
  <2> QED
    BY <1>1, <2>1, <2>2, <2>3 DEF Sound
<1> QED
  BY <1>6, <1>7

\* The worker's step, too.
LEMMA WorkSound ==
  ASSUME ApiInv, NEW p \in Places, Work(p)
  PROVE  /\ ApiInv'
         /\ <<world'.docs["atlas"], world'.jobs["atlas"]>>
              # <<world.docs["atlas"], world.jobs["atlas"]>>
            => world.jobs["atlas"] = "queued" /\ world'.jobs["atlas"] \in {"done", "failed"}
<1>1. PICK d \in Names \cup {"none"}, ended \in {"done", "failed"} :
        world' = [world EXCEPT !.jobs[p] = ended, !.docs[p] = d] /\ call' = call
  <2>1. FileTitle \in Names /\ world.docs[p] \in Names \cup {"none"}
    BY ApiAssumption DEF FileTitle, ApiInv, World
  <2>2. CASE world' = [world EXCEPT !.jobs[p] = "failed"] /\ call' = call
    <3>1. [world.docs EXCEPT ![p] = world.docs[p]] = world.docs
      BY DEF ApiInv, World
    <3>2. [world EXCEPT !.docs = [world.docs EXCEPT ![p] = world.docs[p]]] = world
      BY <3>1 DEF ApiInv, World
    <3>3. world' = [world EXCEPT !.jobs[p] = "failed", !.docs[p] = world.docs[p]]
      BY <2>2, <3>1 DEF ApiInv, World
    <3> QED
      BY <2>1, <2>2, <3>3
  <2>3. CASE /\ world' = [world EXCEPT !.jobs[p] = "done",
                                      !.docs[p] = IF @ = "none" THEN FileTitle ELSE @]
             /\ call' = call
    <3> DEFINE e == IF world.docs[p] = "none" THEN FileTitle ELSE world.docs[p]
    <3>1. world' = [world EXCEPT !.jobs[p] = "done", !.docs[p] = e]
      BY <2>3 DEF ApiInv, World
    <3>2. e \in Names \cup {"none"}
      BY <2>1
    <3> HIDE DEF e
    <3> QED
      BY <2>3, <3>1, <3>2
  <2> QED
    BY <2>2, <2>3 DEF Work
<1>3. world' \in World
  BY <1>1 DEF ApiInv, World
<1>4. /\ world'.docs = [world.docs EXCEPT ![p] = d]
      /\ world'.jobs = [world.jobs EXCEPT ![p] = ended]
  BY <1>1 DEF ApiInv, World
<1>5. CASE p = "atlas"
  <2>1. world.jobs["atlas"] = "queued" /\ world'.jobs["atlas"] \in {"done", "failed"}
    BY <1>4, <1>5 DEF Work, ApiInv, World
  <2> QED
    BY <1>1, <1>3, <2>1 DEF ApiInv
<1>6. CASE p # "atlas"
  <2>1. world'.docs["atlas"] = world.docs["atlas"] /\ world'.jobs["atlas"] = world.jobs["atlas"]
    BY <1>4, <1>6
  <2> QED
    BY <1>1, <1>3, <2>1 DEF ApiInv
<1> QED
  BY <1>5, <1>6

\* Every step is a stage of some call, or the worker's.
LEMMA StepsSound ==
  ASSUME ApiInv, Next
  PROVE  /\ ApiInv'
         /\ \/ \E u \in Users : Allowed(u, world, world')
            \/ <<world'.docs["atlas"], world'.jobs["atlas"]>>
                  # <<world.docs["atlas"], world.jobs["atlas"]>>
               => world.jobs["atlas"] = "queued" /\ world'.jobs["atlas"] \in {"done", "failed"}
<1>a. world.accounts \subseteq Users
  BY DEF ApiInv, World
<1>b. ASSUME NEW u \in Users, NEW svc \in Services, NEW q \in svc[1],
             Took(u, svc[2], q, Serve(svc[2], world, u, q, Start))
      PROVE  ApiInv' /\ Allowed(u, world, world')
  <2>1. KnownStage(q, Start) /\ Start.at = "start"
    BY StartKnown DEF Start, Stage
  <2> QED
    BY <1>b, <2>1, TookSound
<1>1. CASE CallLibrary
  <2>1. PICK u \in Users, q \in LibraryRequests : Took(u, "library", q, LibraryService(world, u, q, Start))
    BY <1>1, <1>a DEF CallLibrary
  <2> DEFINE svc == <<LibraryRequests, "library">>
  <2>2. svc \in Services /\ q \in svc[1] /\ svc[2] = "library"
    BY DEF Services
  <2>3. Serve(svc[2], world, u, q, Start) = LibraryService(world, u, q, Start)
    BY DEF Serve
  <2> HIDE DEF svc
  <2> QED
    BY <1>b, <2>1, <2>2, <2>3
<1>2. CASE CallGroup
  <2>1. PICK u \in Users, q \in GroupRequests : Took(u, "group", q, GroupService(world, u, q, Start))
    BY <1>2, <1>a DEF CallGroup
  <2> DEFINE svc == <<GroupRequests, "group">>
  <2>2. svc \in Services /\ q \in svc[1] /\ svc[2] = "group"
    BY DEF Services
  <2>3. Serve(svc[2], world, u, q, Start) = GroupService(world, u, q, Start)
    BY DEF Serve
  <2> HIDE DEF svc
  <2> QED
    BY <1>b, <2>1, <2>2, <2>3
<1>3. CASE CallDocument
  <2>1. PICK u \in Users, q \in DocumentRequests : Took(u, "document", q, DocumentService(world, u, q, Start))
    BY <1>3, <1>a DEF CallDocument
  <2> DEFINE svc == <<DocumentRequests, "document">>
  <2>2. svc \in Services /\ q \in svc[1] /\ svc[2] = "document"
    BY DEF Services
  <2>3. Serve(svc[2], world, u, q, Start) = DocumentService(world, u, q, Start)
    BY DEF Serve
  <2> HIDE DEF svc
  <2> QED
    BY <1>b, <2>1, <2>2, <2>3
<1>4. CASE CallJob
  <2>1. PICK u \in Users, q \in JobRequests : Took(u, "job", q, JobService(world, u, q, Start))
    BY <1>4, <1>a DEF CallJob
  <2> DEFINE svc == <<JobRequests, "job">>
  <2>2. svc \in Services /\ q \in svc[1] /\ svc[2] = "job"
    BY DEF Services
  <2>3. Serve(svc[2], world, u, q, Start) = JobService(world, u, q, Start)
    BY DEF Serve
  <2> HIDE DEF svc
  <2> QED
    BY <1>b, <2>1, <2>2, <2>3
<1>5. CASE CallIngest
  <2>1. PICK u \in Users, q \in IngestRequests : Took(u, "ingest", q, IngestService(world, u, q, Start))
    BY <1>5, <1>a DEF CallIngest
  <2> DEFINE svc == <<IngestRequests, "ingest">>
  <2>2. svc \in Services /\ q \in svc[1] /\ svc[2] = "ingest"
    BY DEF Services
  <2>3. Serve(svc[2], world, u, q, Start) = IngestService(world, u, q, Start)
    BY DEF Serve
  <2> HIDE DEF svc
  <2> QED
    BY <1>b, <2>1, <2>2, <2>3
<1>6. CASE CallAccount
  <2>1. PICK u \in Users, q \in AccountRequests : Took(u, "account", q, AccountService(world, u, q, Start))
    BY <1>6, <1>a DEF CallAccount
  <2> DEFINE svc == <<AccountRequests, "account">>
  <2>2. svc \in Services /\ q \in svc[1] /\ svc[2] = "account"
    BY DEF Services
  <2>3. Serve(svc[2], world, u, q, Start) = AccountService(world, u, q, Start)
    BY DEF Serve
  <2> HIDE DEF svc
  <2> QED
    BY <1>b, <2>1, <2>2, <2>3
<1>7. CASE \E u \in Users : Continue(u)
  <2>1. PICK u \in Users : Continue(u)
    BY <1>7
  <2>2. call[u] # Idle
    BY <2>1 DEF Continue
  <2>3. PICK svc \in Services :
          /\ call[u].service = svc[2] /\ call[u].req \in svc[1]
          /\ KnownStage(call[u].req, call[u].stage) /\ call[u].stage.at # "start"
    BY <2>2 DEF ApiInv
  <2>4. Took(u, svc[2], call[u].req, Serve(svc[2], world, u, call[u].req, call[u].stage))
    BY <2>1, <2>3 DEF Continue
  <2> QED
    BY <2>2, <2>3, <2>4, TookSound
<1>8. CASE \E p \in Places : Work(p)
  BY <1>8, WorkSound
<1> QED
  BY <1>1, <1>2, <1>3, <1>4, <1>5, <1>6, <1>7, <1>8 DEF Next

\* The invariant holds from any world the tables can hold.
THEOREM ApiKeepsShape == Spec => []ApiInv
<1>1. Init /\ world \in World => ApiInv
  BY DEF Init, ApiInv
<1>2. ApiInv /\ [Next]_vars => ApiInv'
  <2>1. ApiInv /\ Next => ApiInv'
    BY StepsSound
  <2>2. ApiInv /\ UNCHANGED vars => ApiInv'
    BY DEF ApiInv, vars
  <2> QED
    BY <2>1, <2>2
<1> QED
  BY <1>1, <1>2, PTL DEF Spec

\* Nobody learns of a library they have no part in: an account that holds
\* nothing on atlas is answered by every procedure of every service, but the
\* creation of a library of that name, as if atlas had never been there.
THEOREM NobodyLearns == Spec => []HiddenLooksAbsent
<1>1. ApiInv => HiddenLooksAbsent
  <2> SUFFICES ASSUME world \in World, NEW u \in world.accounts, KnowsNot(world, u),
                      NEW svc \in Services, NEW q \in svc[1], q.rpc # "library.Create"
               PROVE  SameAnswer(Answer(svc[2], world, u, q), Answer(svc[2], Without(world), u, q))
    BY DEF ApiInv, HiddenLooksAbsent, SameAnswer
  <2>1. u \in Users
    BY DEF World
  <2>2. /\ Outsider(world, u) /\ Outsider(Without(world), u)
        /\ ButForAtlas(world, Without(world), u)
    BY <2>1, KnowsNothing
  <2> QED
    BY <2>1, <2>2, WithoutIsWorld, AnswersAlike
<1> QED
  BY <1>1, ApiKeepsShape, PTL

\* What the shared library holds changes only by the worker, with the
\* library's deletion, or by a call of an account that edits it at that very
\* step, whatever it was allowed when the call began.
THEOREM RolesAreAskedAgain == Spec => ChangesNeedTheRole
<1> DEFINE changed == <<world'.docs["atlas"], world'.jobs["atlas"]>>
                        # <<world.docs["atlas"], world.jobs["atlas"]>>
           may == \/ world.jobs["atlas"] = "queued" /\ world'.jobs["atlas"] \in {"done", "failed"}
                  \/ world'.library = "deleted" /\ world.library = "live"
                  \/ \E u \in Users : call[u] # Idle /\ call'[u] = Idle /\ Holds(world, u, "editor")
<1>1. ApiInv /\ [Next]_vars => [changed => may]_vars
  <2>1. ApiInv /\ Next => (changed => may)
    BY StepsSound DEF Allowed
  <2> HIDE DEF changed, may
  <2> QED
    BY <2>1
<1> QED
  BY <1>1, ApiKeepsShape, PTL DEF Spec, ChangesNeedTheRole

\* A call that runs alone is answered as the server's fault exactly when it asks
\* for a file to be read at once that cannot be found, or has a directory with
\* nothing to read queued where it may: whatever the database raises has a name
\* in the repository's table and a code in the handler's, and an answer that
\* carries a message carries the procedure's.
THEOREM RefusalsAreNamed == Spec => []AnswersAreNamed
<1>1. ApiInv => AnswersAreNamed
  <2> SUFFICES ASSUME world \in World, NEW u \in world.accounts, NEW svc \in Services,
                      NEW q \in svc[1]
               PROVE  LET a == Answer(svc[2], world, u, q)
                      IN  /\ a.code = "internal" <=> Unread(world, u, q)
                          /\ a.code = "ok" => Proper(q.rpc, a.out)
    BY DEF ApiInv, AnswersAreNamed
  <2>1. u \in Users
    BY DEF World
  <2>2. CASE Unnamed(q)
    BY <2>1, <2>2, UnnamedAnswers
  <2>3. CASE ~ Unnamed(q)
    <3>1. Named_(q, Answer(svc[2], world, u, q))
      BY <2>1, <2>3, AnswersNamed
    <3>2. ~ Unread(world, u, q)
      BY <2>3 DEF Unread
    <3> QED
      BY <3>1, <3>2 DEF Named_
  <2> QED
    BY <2>2, <2>3
<1> QED
  BY <1>1, ApiKeepsShape, PTL

\* What is listed is what can be used, and the other way around: for every
\* account, the lists of libraries, invitations, deleted libraries and group
\* libraries agree with the calls that act on what they list.
THEOREM ListsAreTrue == Spec => []ListedIsReachable
<1>1. ApiInv => ListedIsReachable
  <2> SUFFICES ASSUME world \in World, NEW u \in world.accounts
               PROVE  Agree(u, [x \in Questions |-> Answer(x[1], world, u, x[2])])
    BY DEF ApiInv, ListedIsReachable
  <2>1. u \in Users
    BY DEF World
  <2> QED
    BY <2>1, AnswersAgree
<1> QED
  BY <1>1, ApiKeepsShape, PTL

=============================================================================
