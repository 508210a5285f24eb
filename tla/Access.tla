------------------------------- MODULE Access -------------------------------
(***************************************************************************)
(* The database functions the services call, as operators from a world (the*)
(* rows they read) and an actor to an outcome: the SQLSTATE raised, the    *)
(* world after the transaction, and what was returned.                     *)
(*                                                                         *)
(* A world holds one shared library, atlas, and one group, crew, besides a *)
(* personal library for every account.  docs[p] and jobs[p] are the        *)
(* document and the job of place p, the shared library or an account's own.*)
(* Each function is one step here; module Sharing splits those whose       *)
(* transactions may interleave.                                            *)
(***************************************************************************)
EXTENDS Messages, FiniteSets

Places == Users \cup Slugs

\* A username is no label, and no answer to where a label or a doc_id leads.
ASSUME PlacesAssumption == \A p \in {"atlas", "unknown", "nowhere"} : p \notin Users

World ==
  [library : {"none", "live", "deleted"}, name : Names,
   grants : [Users -> Roles \cup {"none"}], offers : [Users -> Roles \cup {"none"}],
   group : BOOLEAN, groupName : Names, groupRole : Roles \cup {"none"},
   members : [Users -> MemberRoles \cup {"none"}],
   groupOffers : [Users -> MemberRoles \cup {"none"}],
   provided : SUBSET Users,     \* whose membership came from the provider
   accounts : SUBSET Users, administrators : SUBSET Users,
   setting : Stored,            \* the setting kept for the next start
   docs : [Places -> Names \cup {"none"}],
   jobs : [Places -> {"none", "queued", "done", "cancelled", "failed"}]]

role_rank(role) ==
  CASE role = "admin" -> 3 [] role = "editor" -> 2 [] role = "reader" -> 1 [] OTHER -> 0

\* A function checks its conditions in order and raises at the first that
\* fails, which leaves the world as it was; otherwise it commits.
Raise(w, sql) == [sql |-> sql, w |-> w, out |-> "none"]
Commit(after, out) == [sql |-> "00000", w |-> after, out |-> out]

-----------------------------------------------------------------------------
(* What a user may see and do. *)

\* The best of one's own role and the group's, on any library.
user_library_roles(w, u) ==
  IF role_rank(w.grants[u]) >= role_rank(w.groupRole) \/ w.members[u] = "none"
  THEN w.grants[u] ELSE w.groupRole

\* library_by_slug, app_libraries: a live library, with at least that role.
Holds(w, u, role) ==
  w.library = "live" /\ role_rank(user_library_roles(w, u)) >= role_rank(role)

group_for(w, u, need) ==
  /\ w.group
  /\ \/ need = "see"
     \/ u \in w.administrators
     \/ w.members[u] = "maintainer"
     \/ need = "member" /\ w.members[u] # "none"

invitation_for(w, u) == w.library = "live" /\ w.offers[u] # "none"
group_invitation_for(w, u) == w.group /\ w.groupOffers[u] # "none"

admins_left(w, member, role) ==
  Cardinality({v \in Users \ {member} : w.grants[v] = "admin"})
    + (IF role = "admin" THEN 1 ELSE 0)

maintainers_left(w, member, role) ==
  Cardinality({v \in Users \ {member} : w.members[v] = "maintainer"})
    + (IF role = "maintainer" THEN 1 ELSE 0)

\* Faulty: what the handler resolved is believed.
RowsOfBelieved(w, u, p, role) == p = u \/ p \in Slugs

\* The policies on documents and jobs: the role is asked for again by every
\* statement, whatever was known when the call began.
RowsOf(w, u, p, role) == p = u \/ (p \in Slugs /\ Holds(w, u, role))

-----------------------------------------------------------------------------
(* Libraries. *)

readable_libraries(w, u) ==
  {[library |-> "personal", name |-> "", role |-> "admin"]}
  \cup IF Holds(w, u, "reader")
       THEN {[library |-> "atlas", name |-> w.name, role |-> user_library_roles(w, u)]}
       ELSE {}

create_library(w, u, slug, name) ==
  IF slug = "atlas" /\ w.library # "none" THEN Raise(w, "DSL04") ELSE
  IF slug # "atlas" THEN Raise(w, "23514") ELSE
  IF name = "unprintable" THEN Raise(w, "DSL07") ELSE
  Commit([w EXCEPT !.library = "live", !.name = name,
                   !.grants = [v \in Users |-> IF v = u THEN "admin" ELSE "none"]],
         "created")

grant_library(w, u, member, role) ==
  LET invites == w.grants[member] = "none"
  IN  IF ~ Holds(w, u, "admin") THEN Raise(w, "DSL01") ELSE
      IF member \notin w.accounts THEN Raise(w, "DSL02") ELSE
      IF role \notin Roles THEN Raise(w, "22023") ELSE
      IF ~ invites /\ admins_left(w, member, role) = 0 THEN Raise(w, "DSL03") ELSE
      IF invites THEN Commit([w EXCEPT !.offers[member] = role], "invited")
                 ELSE Commit([w EXCEPT !.grants[member] = role], "granted")

revoke_library(w, u, member) ==
  LET withdraws == w.offers[member] # "none"
  IN  IF ~ Holds(w, u, IF u = member THEN "reader" ELSE "admin") THEN Raise(w, "DSL01") ELSE
      IF member \notin w.accounts THEN Raise(w, "DSL02") ELSE
      IF ~ withdraws /\ admins_left(w, member, "none") = 0 THEN Raise(w, "DSL03") ELSE
      Commit(IF withdraws THEN [w EXCEPT !.offers[member] = "none"]
                          ELSE [w EXCEPT !.grants[member] = "none"], "revoked")

library_members(w, u) ==
  IF ~ Holds(w, u, "reader") THEN Raise(w, "DSL01") ELSE
  Commit(w,
    {[username |-> v, role |-> w.grants[v], invited |-> FALSE] :
        v \in {v \in w.accounts : w.grants[v] # "none"}}
    \cup {[username |-> v, role |-> w.offers[v], invited |-> TRUE] :
        v \in {v \in w.accounts : w.offers[v] # "none" /\ Holds(w, u, "admin")}})

library_events(w, u) ==
  IF ~ Holds(w, u, "admin") THEN Raise(w, "DSL01") ELSE Commit(w, "log")

\* Faulty: the invitation to a deleted library is listed.
my_invitations_ever(w, u) ==
  IF w.library # "none" /\ w.offers[u] # "none"
  THEN {[library |-> "atlas", name |-> w.name, role |-> w.offers[u]]} ELSE {}

my_invitations(w, u) ==
  IF w.library = "live" /\ w.offers[u] # "none"
  THEN {[library |-> "atlas", name |-> w.name, role |-> w.offers[u]]} ELSE {}

accept_invitation(w, u) ==
  IF ~ invitation_for(w, u) THEN Raise(w, "DSL05") ELSE
  Commit([w EXCEPT !.grants[u] = w.offers[u], !.offers[u] = "none"], w.offers[u])

decline_invitation(w, u) ==
  IF ~ invitation_for(w, u) THEN Raise(w, "DSL05") ELSE
  Commit([w EXCEPT !.offers[u] = "none"], "declined")

rename_library(w, u, name) ==
  IF ~ Holds(w, u, "admin") THEN Raise(w, "DSL01") ELSE
  IF name = "" THEN Raise(w, "22023") ELSE
  IF name = "unprintable" THEN Raise(w, "DSL07") ELSE
  Commit([w EXCEPT !.name = name], "renamed")

\* Jobs under way fail with their library.
delete_library(w, u) ==
  IF ~ Holds(w, u, "admin") THEN Raise(w, "DSL01") ELSE
  Commit([w EXCEPT !.library = "deleted",
                   !.jobs["atlas"] = IF @ = "queued" THEN "failed" ELSE @], "deleted")

\* Only by an admin with a grant of their own.
restore_library(w, u) ==
  IF ~ (w.library = "deleted" /\ w.grants[u] = "admin") THEN Raise(w, "DSL01") ELSE
  Commit([w EXCEPT !.library = "live"], "restored")

deleted_libraries(w, u) ==
  IF w.library = "deleted" /\ w.grants[u] = "admin"
  THEN {[library |-> "atlas", name |-> w.name]} ELSE {}

-----------------------------------------------------------------------------
(* Groups. *)

all_groups(w, u) ==
  IF w.group
  THEN {[group |-> "crew", name |-> w.groupName,
         role |-> IF w.members[u] = "none" THEN "" ELSE w.members[u]]}
  ELSE {}

create_group(w, u, name) ==
  IF name = "unprintable" THEN Raise(w, "DSG08") ELSE
  IF w.group THEN Raise(w, "DSG04") ELSE
  Commit([w EXCEPT !.group = TRUE, !.groupName = name, !.members[u] = "maintainer"], "created")

rename_group(w, u, name) ==
  IF ~ group_for(w, u, "maintainer") THEN Raise(w, "DSG01") ELSE
  IF name \in {"", "unprintable"} THEN Raise(w, "DSG08") ELSE
  Commit([w EXCEPT !.groupName = name], "renamed")

\* Members, invitations and the library grant go with the group.
delete_group(w, u) ==
  IF ~ group_for(w, u, "maintainer") THEN Raise(w, "DSG01") ELSE
  Commit([w EXCEPT !.group = FALSE, !.groupRole = "none", !.provided = {},
                   !.members = [v \in Users |-> "none"],
                   !.groupOffers = [v \in Users |-> "none"]], "deleted")

invite_to_group(w, u, member, role) ==
  LET held == w.members[member] # "none"
  IN  IF ~ group_for(w, u, "maintainer") THEN Raise(w, "DSG01") ELSE
      IF member \notin w.accounts THEN Raise(w, "DSL02") ELSE
      IF role \notin MemberRoles THEN Raise(w, "22023") ELSE
      IF held /\ maintainers_left(w, member, role) = 0 THEN Raise(w, "DSG03") ELSE
      IF ~ held /\ member = u THEN Raise(w, "DSG06") ELSE
      IF held THEN Commit([w EXCEPT !.members[member] = role], "changed")
              ELSE Commit([w EXCEPT !.groupOffers[member] = role], "invited")

force_into_group(w, u, member, role) ==
  IF u \notin w.administrators \/ ~ w.group THEN Raise(w, "DSG01") ELSE
  IF member \notin w.accounts THEN Raise(w, "DSL02") ELSE
  IF role \notin MemberRoles THEN Raise(w, "22023") ELSE
  IF w.members[member] # "none" /\ maintainers_left(w, member, role) = 0
    THEN Raise(w, "DSG03") ELSE
  Commit([w EXCEPT !.members[member] = role, !.groupOffers[member] = "none"], "forced")

accept_group_invitation(w, u) ==
  IF ~ group_invitation_for(w, u) THEN Raise(w, "DSG05") ELSE
  Commit([w EXCEPT !.members[u] = w.groupOffers[u], !.groupOffers[u] = "none"], w.groupOffers[u])

decline_group_invitation(w, u) ==
  IF ~ group_invitation_for(w, u) THEN Raise(w, "DSG05") ELSE
  Commit([w EXCEPT !.groupOffers[u] = "none"], "declined")

remove_from_group(w, u, member) ==
  LET withdraws == w.groupOffers[member] # "none"
      leaves == ~ withdraws /\ w.members[member] # "none"
  IN  IF ~ group_for(w, u, IF u = member THEN "member" ELSE "maintainer")
        THEN Raise(w, "DSG01") ELSE
      IF member \notin w.accounts THEN Raise(w, "DSL02") ELSE
      IF leaves /\ member \in w.provided THEN Raise(w, "DSG07") ELSE
      IF leaves /\ maintainers_left(w, member, "none") = 0 THEN Raise(w, "DSG03") ELSE
      Commit(IF withdraws THEN [w EXCEPT !.groupOffers[member] = "none"]
                          ELSE [w EXCEPT !.members[member] = "none"], "removed")

my_group_invitations(w, u) ==
  IF group_invitation_for(w, u)
  THEN {[group |-> "crew", name |-> w.groupName, role |-> w.groupOffers[u]]} ELSE {}

group_members_of(w, u) ==
  IF ~ group_for(w, u, "member") THEN Raise(w, "DSG01") ELSE
  Commit(w,
    {[username |-> v, role |-> w.members[v], from_provider |-> v \in w.provided,
      invited |-> FALSE] : v \in {v \in w.accounts : w.members[v] # "none"}}
    \cup {[username |-> v, role |-> w.groupOffers[v], from_provider |-> FALSE,
           invited |-> TRUE] :
            v \in {v \in w.accounts : /\ w.groupOffers[v] # "none"
                                      /\ group_for(w, u, "maintainer")}})

\* Faulty: a deleted library is listed with the others.
group_libraries_ever(w, u) ==
  IF ~ group_for(w, u, "member") THEN Raise(w, "DSG01") ELSE
  Commit(w,
    IF w.groupRole # "none"
    THEN {[library |-> "atlas", name |-> w.name, role |-> w.groupRole]} ELSE {})

group_libraries(w, u) ==
  IF ~ group_for(w, u, "member") THEN Raise(w, "DSG01") ELSE
  Commit(w,
    IF w.groupRole # "none" /\ w.library = "live"
    THEN {[library |-> "atlas", name |-> w.name, role |-> w.groupRole]} ELSE {})

group_events_of(w, u) ==
  IF ~ group_for(w, u, "maintainer") THEN Raise(w, "DSG01") ELSE Commit(w, "log")

grant_library_group(w, u, role) ==
  IF ~ Holds(w, u, "admin") THEN Raise(w, "DSL01") ELSE
  IF ~ group_for(w, u, "maintainer") THEN Raise(w, "DSG01") ELSE
  IF role \notin {"reader", "editor"} THEN Raise(w, "DSG02") ELSE
  Commit([w EXCEPT !.groupRole = role], "granted")

\* By an admin of the library, or by a maintainer of the group it is granted
\* to, whether the library is deleted or not.
revoke_library_group(w, u) ==
  IF ~ \/ Holds(w, u, "admin") /\ w.group
       \/ group_for(w, u, "maintainer") /\ w.groupRole # "none" THEN Raise(w, "DSL01") ELSE
  Commit([w EXCEPT !.groupRole = "none"], "revoked")

library_groups(w, u) ==
  IF ~ Holds(w, u, "reader") THEN Raise(w, "DSL01") ELSE
  Commit(w,
    IF w.groupRole # "none"
    THEN {[group |-> "crew", name |-> w.groupName, role |-> w.groupRole]} ELSE {})

-----------------------------------------------------------------------------
(* Accounts. *)

set_admin(w, u, member, make) ==
  IF u \notin w.administrators THEN Raise(w, "DSA01") ELSE
  IF member \notin w.accounts THEN Raise(w, "DSA02") ELSE
  IF ~ make /\ w.administrators \ {member} = {} THEN Raise(w, "DSA03") ELSE
  Commit([w EXCEPT !.administrators = IF make THEN @ \cup {member} ELSE @ \ {member}], "set")

set_setting(w, u, value) ==
  IF u \notin w.administrators THEN Raise(w, "DSA01") ELSE
  Commit([w EXCEPT !.setting = value], "set")

\* The unique username refuses a second account; a new one starts empty.
add_password_account(w, u, member) ==
  IF u \notin w.administrators THEN Raise(w, "DSA01") ELSE
  IF member \in w.accounts THEN Raise(w, "23505") ELSE
  Commit([w EXCEPT !.accounts = @ \cup {member}, !.docs[member] = "none",
                   !.jobs[member] = "none"], "added")

reset_password(w, u, member) ==
  IF u \notin w.administrators THEN Raise(w, "DSA01") ELSE
  Commit(w, IF member \in w.accounts THEN "reset" ELSE "absent")

\* remove_password_account and its trigger: a library only the account
\* administered passes to the caller, and everything it held is deleted.
remove_password_account(w, u, member) ==
  LET stranded == w.grants[member] = "admin" /\ admins_left(w, member, "none") = 0
  IN  IF u \notin w.administrators THEN Raise(w, "DSA01") ELSE
      IF member \notin w.accounts THEN Commit(w, "absent") ELSE
      Commit([w EXCEPT
          !.accounts = @ \ {member}, !.administrators = @ \ {member},
          !.provided = @ \ {member},
          !.grants = [v \in Users |-> IF v = member THEN "none"
                                      ELSE IF stranded /\ v = u THEN "admin" ELSE @[v]],
          !.offers = [v \in Users |-> IF v = member \/ (stranded /\ v = u)
                                      THEN "none" ELSE @[v]],
          !.members[member] = "none", !.groupOffers[member] = "none"], "removed")

=============================================================================
