------------------------------ MODULE Sharing -------------------------------
(***************************************************************************)
(* Who may do what: one shared library, one group, and the people who      *)
(* grant, invite, accept, leave and administer.                            *)
(*                                                                         *)
(* Every operation is one transaction of a database function under READ    *)
(* COMMITTED.  A function whose outcome depends on what it read before it  *)
(* took a lock, or before it wrote, is several actions, and the call in    *)
(* flight is kept in call[u]; the others are one action.  Two row locks    *)
(* are held across steps: the library's from admins_left, and the group's, *)
(* until the call writes.  Removing an account takes neither: it walks the *)
(* tables one statement after the other, holds the rows it deletes, and is *)
(* seen by the others when it commits.                                     *)
(***************************************************************************)
EXTENDS Naturals

CONSTANTS
  Users,     \* the people with an account
  Founders,  \* who start as admins, maintainers and administrators
  MaxCalls   \* how many calls are made

ASSUME SharingAssumption ==
  /\ Founders \subseteq Users /\ Founders # {}
  /\ MaxCalls \in Nat

VARIABLES
  library,         \* the library: none, live or deleted
  grants,          \* grants[u]: the role of u in library_grants
  offers,          \* offers[u]: the role offered in library_invitations
  group,           \* whether the group exists
  groupRole,       \* the role of the group in library_group_grants
  members,         \* members[u]: the role of u in group_members
  groupOffers,     \* groupOffers[u]: the role offered in group_invitations
  administrators,  \* the accounts with users.admin
  removed,         \* the accounts that were removed
  call,            \* call[u]: the call u has in flight
  calls            \* how many calls were made

libraryVars == <<library, grants, offers>>
groupVars == <<group, groupRole, members, groupOffers>>
accountVars == <<administrators, removed>>
sharingVars == <<libraryVars, groupVars, accountVars, call, calls>>

Roles == {"reader", "editor", "admin"}
GroupLibraryRoles == {"reader", "editor"}
MemberRoles == {"member", "maintainer"}
role_rank == [none |-> 0, reader |-> 1, editor |-> 2, admin |-> 3]

\* What a removal empties, in this order.
Tables == {"grants", "offers", "members", "groupOffers"}

Idle == [op |-> "idle"]
Call == {Idle}
  \cup [op : {"invite", "regrant"}, who : Users, role : Roles]
  \cup [op : {"setRole"}, who : Users, role : Roles, others : SUBSET Users]
  \cup [op : {"withdraw", "revoke"}, who : Users]
  \cup [op : {"dropGrant"}, who : Users, others : SUBSET Users]
  \cup [op : {"accept"}]
  \cup [op : {"inviteToGroup"}, who : Users, role : MemberRoles]
  \cup [op : {"setGroupRole", "force"}, who : Users, role : MemberRoles, others : SUBSET Users]
  \cup [op : {"removeFromGroup"}, who : Users]
  \cup [op : {"dropMember"}, who : Users, others : SUBSET Users]
  \cup [op : {"setAdmin"}, who : Users, make : BOOLEAN]
  \cup [op : {"removeAccount", "inherit"}, who : Users]
  \cup [op : {"strip"}, who : Users, admins : SUBSET Users, heirs : SUBSET Users,
         at : Tables, taken : SUBSET Tables]

SharingTypeOK ==
  /\ library \in {"none", "live", "deleted"}
  /\ grants \in [Users -> Roles \cup {"none"}]
  /\ offers \in [Users -> Roles \cup {"none"}]
  /\ group \in BOOLEAN
  /\ groupRole \in GroupLibraryRoles \cup {"none"}
  /\ members \in [Users -> MemberRoles \cup {"none"}]
  /\ groupOffers \in [Users -> MemberRoles \cup {"none"}]
  /\ administrators \subseteq Users
  /\ removed \subseteq Users
  /\ call \in [Users -> Call]
  /\ calls \in 0 .. MaxCalls

SharingInit ==
  /\ library = "live"
  /\ grants = [u \in Users |-> IF u \in Founders THEN "admin" ELSE "none"]
  /\ offers = [u \in Users |-> "none"]
  /\ group = TRUE
  /\ groupRole = "none"
  /\ members = [u \in Users |-> IF u \in Founders THEN "maintainer" ELSE "none"]
  /\ groupOffers = [u \in Users |-> "none"]
  /\ administrators = Founders
  /\ removed = {}
  /\ call = [u \in Users |-> Idle]
  /\ calls = 0

-----------------------------------------------------------------------------
(* What the functions ask before they act. *)

\* library_by_slug: one's own role or a group's, on a library that is live.
Holds(u, role) ==
  /\ library = "live"
  /\ \/ role_rank[grants[u]] >= role_rank[role]
     \/ members[u] # "none" /\ role_rank[groupRole] >= role_rank[role]

\* group_for: an administrator, or a member of the role asked for.
Maintains(u) == group /\ (u \in administrators \/ members[u] = "maintainer")
Belongs(u) == group /\ (u \in administrators \/ members[u] # "none")

\* Faulty: the member who steps down is counted.
OtherAdminsAndSelf(m) == {v \in Users : grants[v] = "admin"}

\* Whom admins_left counts once the library's row is locked.
OtherAdmins(m) == {v \in Users \ {m} : grants[v] = "admin"}

\* Faulty: any other member will do.
OtherMembers(m) == {v \in Users \ {m} : members[v] # "none"}

\* Whom maintainers_left counts once the group's row is locked.
OtherMaintainers(m) == {v \in Users \ {m} : members[v] = "maintainer"}

\* A call holds the lock it counted under until it has written.
LibraryLocked == \E v \in Users : call[v].op \in {"setRole", "dropGrant"}
GroupLocked == \E v \in Users : call[v].op \in {"setGroupRole", "force", "dropMember"}

\* A removal holds the rows it deleted and the ones its heir is given; who
\* would write one of them waits for it to commit.
Taken(table, m) ==
  \E v \in Users :
    /\ call[v].op = "strip"
    /\ \/ call[v].who = m /\ table \in call[v].taken
       \/ m \in call[v].heirs /\ table \in {"grants", "offers"}

\* A signed-in person makes a call.  One whose account is gone is refused.
Calls(u) ==
  /\ call[u] = Idle
  /\ u \notin removed
  /\ calls < MaxCalls
  /\ calls' = calls + 1

Pending(u, pending) == Calls(u) /\ call' = [call EXCEPT ![u] = pending]
AtOnce(u) == Calls(u) /\ UNCHANGED call

Continues(u, op) == call[u].op = op /\ UNCHANGED calls
Returns(u) == call' = [call EXCEPT ![u] = Idle]

\* The calls in flight on what was just deleted find no row any more, or break
\* a foreign key: they end and change nothing.
Fail(ops) == call' = [v \in Users |-> IF call[v].op \in ops THEN Idle ELSE call[v]]

-----------------------------------------------------------------------------
(* The library: libraries, library_grants, library_invitations. *)

CreateLibrary(u) ==
  /\ AtOnce(u)
  /\ library = "none"
  /\ library' = "live"
  /\ grants' = [grants EXCEPT ![u] = "admin"]
  /\ UNCHANGED <<offers, groupVars, accountVars>>

\* grant_library decides between an invitation and a change of role by what
\* it reads here.
Grant(u, m, role) ==
  /\ Holds(u, "admin")
  /\ m \notin removed
  /\ Pending(u, [op |-> IF grants[m] = "none" THEN "invite" ELSE "regrant",
                 who |-> m, role |-> role])
  /\ UNCHANGED <<libraryVars, groupVars, accountVars>>

Invite(u) ==
  /\ Continues(u, "invite")
  /\ ~ Taken("offers", call[u].who)
  /\ offers' = [offers EXCEPT ![call[u].who] = call[u].role]
  /\ Returns(u)
  /\ UNCHANGED <<library, grants, groupVars, accountVars>>

\* The library is locked and the admins counted.
Regrant(u) ==
  /\ Continues(u, "regrant")
  /\ ~ LibraryLocked
  /\ LET m == call[u].who
         role == call[u].role
     IN  \/ /\ role = "admin" \/ OtherAdmins(m) # {}
            /\ call' = [call EXCEPT ![u] = [op |-> "setRole", who |-> m, role |-> role,
                                            others |-> OtherAdmins(m)]]
         \/ role # "admin" /\ OtherAdmins(m) = {} /\ Returns(u)
  /\ UNCHANGED <<libraryVars, groupVars, accountVars>>

\* The update matches no row when the member left in between.
SetRole(u) ==
  /\ Continues(u, "setRole")
  /\ LET m == call[u].who
     IN  /\ grants[m] # "none" => ~ Taken("grants", m)
         /\ grants' = IF grants[m] # "none" THEN [grants EXCEPT ![m] = call[u].role]
                      ELSE grants
  /\ Returns(u)
  /\ UNCHANGED <<library, offers, groupVars, accountVars>>

Revoke(u, m) ==
  /\ Holds(u, IF u = m THEN "reader" ELSE "admin")
  /\ m \notin removed
  /\ Pending(u, [op |-> "withdraw", who |-> m])
  /\ UNCHANGED <<libraryVars, groupVars, accountVars>>

\* An invitation is withdrawn, and then the grant is left alone.
Withdraw(u) ==
  /\ Continues(u, "withdraw")
  /\ LET m == call[u].who
     IN  \/ /\ offers[m] # "none" /\ ~ Taken("offers", m)
            /\ offers' = [offers EXCEPT ![m] = "none"]
            /\ Returns(u)
         \/ /\ offers[m] = "none"
            /\ call' = [call EXCEPT ![u] = [op |-> "revoke", who |-> m]]
            /\ UNCHANGED offers
  /\ UNCHANGED <<library, grants, groupVars, accountVars>>

RevokeGrantOf(u) ==
  /\ Continues(u, "revoke")
  /\ ~ LibraryLocked
  /\ LET m == call[u].who
     IN  \/ /\ OtherAdmins(m) # {}
            /\ call' = [call EXCEPT ![u] = [op |-> "dropGrant", who |-> m,
                                            others |-> OtherAdmins(m)]]
         \/ OtherAdmins(m) = {} /\ Returns(u)
  /\ UNCHANGED <<libraryVars, groupVars, accountVars>>

DropGrant(u) ==
  /\ Continues(u, "dropGrant")
  /\ grants[call[u].who] # "none" => ~ Taken("grants", call[u].who)
  /\ grants' = [grants EXCEPT ![call[u].who] = "none"]
  /\ Returns(u)
  /\ UNCHANGED <<library, offers, groupVars, accountVars>>

Accept(u) ==
  /\ library = "live"
  /\ offers[u] # "none"
  /\ Pending(u, [op |-> "accept"])
  /\ UNCHANGED <<libraryVars, groupVars, accountVars>>

\* An invitation that vanished leaves no role to insert, and the call fails.
Join(u) ==
  /\ Continues(u, "accept")
  /\ ~ Taken("offers", u) /\ ~ Taken("grants", u)
  /\ offers' = [offers EXCEPT ![u] = "none"]
  /\ grants' = IF grants[u] = "none" THEN [grants EXCEPT ![u] = offers[u]] ELSE grants
  /\ Returns(u)
  /\ UNCHANGED <<library, groupVars, accountVars>>

Decline(u) ==
  /\ AtOnce(u)
  /\ library = "live"
  /\ offers[u] # "none" /\ ~ Taken("offers", u)
  /\ offers' = [offers EXCEPT ![u] = "none"]
  /\ UNCHANGED <<library, grants, groupVars, accountVars>>

Delete(u) ==
  /\ AtOnce(u)
  /\ Holds(u, "admin") /\ ~ LibraryLocked
  /\ library' = "deleted"
  /\ UNCHANGED <<grants, offers, groupVars, accountVars>>

\* Restoring takes one's own grant; a group never administers.
Restore(u) ==
  /\ AtOnce(u)
  /\ library = "deleted" /\ ~ LibraryLocked
  /\ grants[u] = "admin"
  /\ library' = "live"
  /\ UNCHANGED <<grants, offers, groupVars, accountVars>>

\* The worker purges a library whose grace has run out; the rows that name
\* it go with it, so it waits for whoever holds one.
Purge ==
  /\ library = "deleted"
  /\ ~ LibraryLocked
  /\ \A u \in Users : ~ Taken("grants", u) /\ ~ Taken("offers", u)
  /\ library' = "none"
  /\ grants' = [u \in Users |-> "none"]
  /\ offers' = [u \in Users |-> "none"]
  /\ groupRole' = "none"
  /\ Fail({"invite", "regrant", "withdraw", "revoke", "accept", "inherit"})
  /\ UNCHANGED <<group, members, groupOffers, accountVars, calls>>

-----------------------------------------------------------------------------
(* The group: groups, group_members, group_invitations, and its grant. *)

CreateGroup(u) ==
  /\ AtOnce(u)
  /\ ~ group
  /\ group' = TRUE
  /\ members' = [members EXCEPT ![u] = "maintainer"]
  /\ UNCHANGED <<groupRole, groupOffers, libraryVars, accountVars>>

InviteToGroup(u, m, role) ==
  /\ Maintains(u)
  /\ m \notin removed
  /\ Pending(u, [op |-> "inviteToGroup", who |-> m, role |-> role])
  /\ UNCHANGED <<libraryVars, groupVars, accountVars>>

\* Under the lock on the group: a member is to change role, anyone else but
\* the caller is invited.
Invited(u) ==
  /\ Continues(u, "inviteToGroup")
  /\ ~ GroupLocked
  /\ LET m == call[u].who
         role == call[u].role
         left == role = "maintainer" \/ OtherMaintainers(m) # {}
     IN  \/ /\ members[m] # "none" /\ left
            /\ call' = [call EXCEPT ![u] = [op |-> "setGroupRole", who |-> m, role |-> role,
                                            others |-> OtherMaintainers(m)]]
            /\ UNCHANGED groupOffers
         \/ /\ members[m] = "none" /\ m # u
            /\ ~ Taken("groupOffers", m)
            /\ groupOffers' = [groupOffers EXCEPT ![m] = role]
            /\ Returns(u)
         \/ /\ IF members[m] = "none" THEN m = u ELSE ~ left
            /\ Returns(u)
            /\ UNCHANGED groupOffers
  /\ UNCHANGED <<group, groupRole, members, libraryVars, accountVars>>

SetGroupRole(u) ==
  /\ Continues(u, "setGroupRole")
  /\ LET m == call[u].who
     IN  /\ members[m] # "none" => ~ Taken("members", m)
         /\ members' = IF members[m] # "none" THEN [members EXCEPT ![m] = call[u].role]
                       ELSE members
  /\ Returns(u)
  /\ UNCHANGED <<group, groupRole, groupOffers, libraryVars, accountVars>>

\* An administrator locks the group, reads the member and counts.
ForceIntoGroup(u, m, role) ==
  /\ u \in administrators
  /\ group /\ ~ GroupLocked
  /\ m \notin removed
  /\ members[m] = "none" \/ role = "maintainer" \/ OtherMaintainers(m) # {}
  /\ Pending(u, [op |-> "force", who |-> m, role |-> role, others |-> OtherMaintainers(m)])
  /\ UNCHANGED <<libraryVars, groupVars, accountVars>>

Forced(u) ==
  /\ Continues(u, "force")
  /\ LET m == call[u].who
     IN  /\ ~ Taken("members", m) /\ ~ Taken("groupOffers", m)
         /\ members' = [members EXCEPT ![m] = call[u].role]
         /\ groupOffers' = [groupOffers EXCEPT ![m] = "none"]
  /\ Returns(u)
  /\ UNCHANGED <<group, groupRole, libraryVars, accountVars>>

AcceptGroup(u) ==
  /\ AtOnce(u)
  /\ groupOffers[u] # "none"
  /\ ~ GroupLocked /\ ~ Taken("groupOffers", u) /\ ~ Taken("members", u)
  /\ members' = [members EXCEPT ![u] = groupOffers[u]]
  /\ groupOffers' = [groupOffers EXCEPT ![u] = "none"]
  /\ UNCHANGED <<group, groupRole, libraryVars, accountVars>>

DeclineGroup(u) ==
  /\ AtOnce(u)
  /\ groupOffers[u] # "none" /\ ~ Taken("groupOffers", u)
  /\ groupOffers' = [groupOffers EXCEPT ![u] = "none"]
  /\ UNCHANGED <<group, groupRole, members, libraryVars, accountVars>>

RemoveFromGroup(u, m) ==
  /\ IF u = m THEN Belongs(u) ELSE Maintains(u)
  /\ m \notin removed
  /\ Pending(u, [op |-> "removeFromGroup", who |-> m])
  /\ UNCHANGED <<libraryVars, groupVars, accountVars>>

\* An invitation is withdrawn, and then the membership is left alone.
RemovedFromGroup(u) ==
  /\ Continues(u, "removeFromGroup")
  /\ LET m == call[u].who
     IN  \/ /\ groupOffers[m] # "none" /\ ~ Taken("groupOffers", m)
            /\ groupOffers' = [groupOffers EXCEPT ![m] = "none"]
            /\ Returns(u)
         \/ /\ groupOffers[m] = "none" /\ members[m] # "none"
            /\ ~ GroupLocked
            /\ OtherMaintainers(m) # {}
            /\ call' = [call EXCEPT ![u] = [op |-> "dropMember", who |-> m,
                                            others |-> OtherMaintainers(m)]]
            /\ UNCHANGED groupOffers
         \/ /\ groupOffers[m] = "none"
            /\ members[m] = "none" \/ (~ GroupLocked /\ OtherMaintainers(m) = {})
            /\ Returns(u)
            /\ UNCHANGED groupOffers
  /\ UNCHANGED <<group, groupRole, members, libraryVars, accountVars>>

DropMember(u) ==
  /\ Continues(u, "dropMember")
  /\ members[call[u].who] # "none" => ~ Taken("members", call[u].who)
  /\ members' = [members EXCEPT ![call[u].who] = "none"]
  /\ Returns(u)
  /\ UNCHANGED <<group, groupRole, groupOffers, libraryVars, accountVars>>

\* Members, invitations and the library grant go with the group.
DeleteGroup(u) ==
  /\ Calls(u)
  /\ Maintains(u) /\ ~ GroupLocked
  /\ \A v \in Users : ~ Taken("members", v) /\ ~ Taken("groupOffers", v)
  /\ group' = FALSE
  /\ groupRole' = "none"
  /\ members' = [v \in Users |-> "none"]
  /\ groupOffers' = [v \in Users |-> "none"]
  /\ Fail({"inviteToGroup", "removeFromGroup"})
  /\ UNCHANGED <<libraryVars, accountVars>>

GrantGroup(u) ==
  /\ AtOnce(u)
  /\ Holds(u, "admin")
  /\ Maintains(u) /\ ~ GroupLocked
  /\ groupRole' \in GroupLibraryRoles
  /\ UNCHANGED <<group, members, groupOffers, libraryVars, accountVars>>

\* By an admin of the library, or by a maintainer even when it is deleted.
RevokeGroup(u) ==
  /\ AtOnce(u)
  /\ group
  /\ Holds(u, "admin") \/ (Maintains(u) /\ groupRole # "none")
  /\ groupRole' = "none"
  /\ UNCHANGED <<group, members, groupOffers, libraryVars, accountVars>>

-----------------------------------------------------------------------------
(* Accounts and administrators. *)

\* set_admin counts the other administrators and then writes, under no lock.
SetAdmin(u, m, make) ==
  /\ u \in administrators
  /\ m \notin removed
  /\ make \/ administrators \ {m} # {}
  /\ Pending(u, [op |-> "setAdmin", who |-> m, make |-> make])
  /\ UNCHANGED <<libraryVars, groupVars, accountVars>>

AdminSet(u) ==
  /\ Continues(u, "setAdmin")
  /\ administrators' = IF call[u].make THEN administrators \cup {call[u].who}
                       ELSE administrators \ {call[u].who}
  /\ Returns(u)
  /\ UNCHANGED <<removed, libraryVars, groupVars>>

\* admin.Service.Remove: an administrator removes another account.
RemoveAccount(u, m) ==
  /\ u \in administrators
  /\ u # m /\ m \notin removed
  /\ Pending(u, [op |-> "removeAccount", who |-> m])
  /\ UNCHANGED <<libraryVars, groupVars, accountVars>>

\* The caller is asked for again, two removals of one account queue for its
\* row, and the second finds none.  The trigger looks for the other admins.
FindHeir(u) ==
  /\ Continues(u, "removeAccount")
  /\ LET m == call[u].who
         admins == {v \in Users : grants[v] = "admin"}
     IN  \/ /\ u \in administrators /\ m \notin removed
            /\ \A v \in Users : call[v].op \in {"inherit", "strip"} => call[v].who # m
            /\ call' = [call EXCEPT ![u] =
                          IF admins = {m} THEN [op |-> "inherit", who |-> m]
                          ELSE [op |-> "strip", who |-> m, admins |-> admins, heirs |-> {},
                                at |-> "grants", taken |-> {}]]
         \/ (u \notin administrators \/ m \in removed) /\ Returns(u)
  /\ UNCHANGED <<libraryVars, groupVars, accountVars>>

\* A library only m administers passes to the caller, or to another
\* administrator when the caller is none by now; with neither, nothing is
\* removed.
Inherit(u) ==
  /\ Continues(u, "inherit")
  /\ LET m == call[u].who
         able == administrators \ (removed \cup {m})
     IN  \/ \E heir \in (IF u \in able THEN {u} ELSE able) :
              /\ ~ Taken("grants", heir) /\ ~ Taken("offers", heir)
              /\ call' = [call EXCEPT ![u] =
                            [op |-> "strip", who |-> m, admins |-> {m}, heirs |-> {heir},
                             at |-> "grants", taken |-> {}]]
         \/ able = {} /\ Returns(u)
  /\ UNCHANGED <<libraryVars, groupVars, accountVars>>

\* Whether a statement of the trigger that deletes from a table finds a row
\* of m: what comes after the statement stays.
Finds(table, m) ==
  \/ table = "grants" /\ grants[m] # "none"
  \/ table = "offers" /\ offers[m] # "none"
  \/ table = "members" /\ members[m] # "none"
  \/ table = "groupOffers" /\ groupOffers[m] # "none"

After(table) ==
  IF table = "grants" THEN "offers" ELSE IF table = "offers" THEN "members" ELSE "groupOffers"

\* The rows a removal has deleted once it is past the table it is at.
TakenNow(u) == call[u].taken \cup {table \in {call[u].at} : Finds(table, call[u].who)}

\* One table is emptied of the account; a row someone else holds is waited for.
Take(u) ==
  /\ Continues(u, "strip")
  /\ call[u].at # "groupOffers"
  /\ Finds(call[u].at, call[u].who) => ~ Taken(call[u].at, call[u].who)
  /\ call' = [call EXCEPT ![u] = [call[u] EXCEPT !.at = After(@), !.taken = TakenNow(u)]]
  /\ UNCHANGED <<libraryVars, groupVars, accountVars>>

\* The last table, and the removal commits: the heir takes over, the deleted
\* rows go, and the username is free.
Strip(u) ==
  /\ Continues(u, "strip")
  /\ call[u].at = "groupOffers"
  /\ LET m == call[u].who
         heirs == call[u].heirs
         taken == TakenNow(u)
     IN  /\ grants' = [v \in Users |-> IF v \in heirs THEN "admin"
                                       ELSE IF v = m /\ "grants" \in taken THEN "none"
                                       ELSE grants[v]]
         /\ offers' = [v \in Users |-> IF v \in heirs \/ (v = m /\ "offers" \in taken)
                                       THEN "none" ELSE offers[v]]
         /\ members' = [v \in Users |-> IF v = m /\ "members" \in taken THEN "none"
                                        ELSE members[v]]
         /\ groupOffers' = [v \in Users |-> IF v = m /\ "groupOffers" \in taken THEN "none"
                                            ELSE groupOffers[v]]
         /\ administrators' = administrators \ {m}
         /\ removed' = removed \cup {m}
  /\ Returns(u)
  /\ UNCHANGED <<library, group, groupRole>>

-----------------------------------------------------------------------------
LibraryCalls(u) ==
  \/ CreateLibrary(u) \/ Delete(u) \/ Restore(u)
  \/ \E m \in Users, role \in Roles : Grant(u, m, role)
  \/ \E m \in Users : Revoke(u, m)
  \/ Invite(u) \/ Regrant(u) \/ SetRole(u)
  \/ Withdraw(u) \/ RevokeGrantOf(u) \/ DropGrant(u)
  \/ Accept(u) \/ Join(u) \/ Decline(u)

GroupCalls(u) ==
  \/ CreateGroup(u) \/ DeleteGroup(u) \/ GrantGroup(u) \/ RevokeGroup(u)
  \/ \E m \in Users, role \in MemberRoles : InviteToGroup(u, m, role)
  \/ \E m \in Users, role \in MemberRoles : ForceIntoGroup(u, m, role)
  \/ \E m \in Users : RemoveFromGroup(u, m)
  \/ Invited(u) \/ SetGroupRole(u) \/ Forced(u)
  \/ RemovedFromGroup(u) \/ DropMember(u) \/ AcceptGroup(u) \/ DeclineGroup(u)

AccountCalls(u) ==
  \/ \E m \in Users, make \in BOOLEAN : SetAdmin(u, m, make)
  \/ \E m \in Users : RemoveAccount(u, m)
  \/ AdminSet(u) \/ FindHeir(u) \/ Inherit(u) \/ Take(u) \/ Strip(u)

SharingNext == Purge \/ \E u \in Users : LibraryCalls(u) \/ GroupCalls(u) \/ AccountCalls(u)

SharingSpec == SharingInit /\ [][SharingNext]_sharingVars

-----------------------------------------------------------------------------
(* Properties. *)

Administered == \E u \in Users : grants[u] = "admin"
Maintained == \E u \in Users : members[u] = "maintainer"

\* u writes what the others it counted under a lock allowed, and every one of
\* them has been removed since.
CountedOnRemoved(u) ==
  call'[u] = Idle /\ call[u].others # {} /\ call[u].others \subseteq removed

\* A library loses its last admin in two ways only, and both need a removal
\* beside another call: grant_library or revoke_library takes it when every
\* admin that admins_left counted was removed before the write; and a removal
\* takes it when, as it looked, the account was not the only admin.  However
\* calls overlap, the lock orders the others, and a library that had one
\* admin as the removal looked is handed over.
LastAdminGoesBeside ==
  [][Administered /\ library' # "none" /\ ~ Administered' =>
       \E u \in Users :
         \/ call[u].op \in {"setRole", "dropGrant"} /\ CountedOnRemoved(u)
         \/ /\ call[u].op = "strip" /\ removed' # removed
            /\ call[u].admins # {call[u].who}]_sharingVars

\* invite_to_group, force_into_group and remove_from_group never take a
\* group's last maintainer, also when two run at once, unless everyone they
\* counted under the lock was removed before they wrote; otherwise only the
\* removal of an account does.
MaintainerGoesWithAccount ==
  [][Maintained /\ group' /\ removed' = removed /\ ~ Maintained' =>
       \E u \in Users : /\ call[u].op \in {"setGroupRole", "force", "dropMember"}
                        /\ CountedOnRemoved(u)]_sharingVars

\* "Removing an account takes it out of every shared library": it does not
\* when the account accepts an invitation after library_grants was emptied of
\* it and before library_invitations is.
RemovedIsOut == \A u \in removed : grants[u] = "none"

\* Someone always administers docsearch: "The last administrator cannot step
\* down."  It fails: set_admin counts the others and writes without a lock,
\* so two who step down at once each count the other.
AdministratorsRemain == administrators # {}

=============================================================================
