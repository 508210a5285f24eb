--------------------------- MODULE SharingProofs ----------------------------
(***************************************************************************)
(* Proofs about Sharing for every number of people, founders and calls,    *)
(* whatever overlaps.                                                      *)
(***************************************************************************)
EXTENDS Sharing, TLAPS

-----------------------------------------------------------------------------
(* The parts of the inductive invariant. *)

LibraryLock == {"setRole", "dropGrant"}
GroupLock == {"setGroupRole", "force", "dropMember"}
AboutGroup == {"inviteToGroup", "removeFromGroup"}
Removing == {"inherit", "strip"}

\* An invitation to the group is open to someone who is not in it, and goes
\* with the group.
GroupInvitations ==
  \A u \in Users : groupOffers[u] # "none" => group /\ members[u] = "none"

\* A lock has one holder.
OneHolder ==
  /\ \A u, v \in Users : call[u].op \in LibraryLock /\ call[v].op \in LibraryLock => u = v
  /\ \A u, v \in Users : call[u].op \in GroupLock /\ call[v].op \in GroupLock => u = v

\* The group a call in flight is about is still there.
GroupStays ==
  \A u \in Users : call[u].op \in GroupLock \cup AboutGroup => group

\* Whom a call counted under the library's lock is still an admin or removed.
AdminsCounted ==
  \A u \in Users : call[u].op \in LibraryLock =>
    /\ call[u].who \notin call[u].others
    /\ \A v \in call[u].others : grants[v] = "admin" \/ v \in removed
    /\ call[u].others = {} => call[u].op = "setRole" /\ call[u].role = "admin"

\* Whom a call counted under the group's lock still maintains it or is removed.
MaintainersCounted ==
  \A u \in Users : call[u].op \in GroupLock =>
    /\ call[u].who \notin call[u].others
    /\ \A v \in call[u].others : members[v] = "maintainer" \/ v \in removed
    /\ call[u].others = {} =>
         \/ call[u].op # "dropMember" /\ call[u].role = "maintainer"
         \/ call[u].op = "force" /\ members[call[u].who] = "none"

\* An account is removed once, by one call, and a library that had no other
\* admin has an heir.
Removals ==
  /\ \A u \in Users : call[u].op \in Removing => call[u].who \notin removed
  /\ \A u, v \in Users :
       call[u].op \in Removing /\ call[v].op \in Removing /\ call[u].who = call[v].who => u = v
  /\ \A u \in Users : call[u].op = "strip" =>
       /\ call[u].who \notin call[u].heirs
       /\ call[u].admins = {call[u].who} => call[u].heirs # {}

SharingIInv ==
  /\ SharingTypeOK
  /\ GroupInvitations
  /\ OneHolder
  /\ GroupStays
  /\ AdminsCounted
  /\ MaintainersCounted
  /\ Removals

-----------------------------------------------------------------------------
(* Type correctness. *)

\* What a call in flight carries.
LEMMA CallFields ==
  ASSUME NEW c \in Call
  PROVE  /\ c.op \in {"invite", "regrant"} => c.who \in Users /\ c.role \in Roles
         /\ c.op = "setRole" => c.who \in Users /\ c.role \in Roles /\ c.others \in SUBSET Users
         /\ c.op \in {"withdraw", "revoke", "removeFromGroup", "removeAccount", "inherit"}
              => c.who \in Users
         /\ c.op \in {"dropGrant", "dropMember"} => c.who \in Users /\ c.others \in SUBSET Users
         /\ c.op = "inviteToGroup" => c.who \in Users /\ c.role \in MemberRoles
         /\ c.op \in {"setGroupRole", "force"}
              => c.who \in Users /\ c.role \in MemberRoles /\ c.others \in SUBSET Users
         /\ c.op = "setAdmin" => c.who \in Users /\ c.make \in BOOLEAN
         /\ c.op = "strip" =>
              c \in [op : {"strip"}, who : Users, admins : SUBSET Users, heirs : SUBSET Users,
                     at : Tables, taken : SUBSET Tables]
BY DEF Call, Idle

\* A call that begins is counted, one that is recorded has its type.
LEMMA PendingType ==
  ASSUME SharingTypeOK, NEW u \in Users, NEW pending \in Call, Pending(u, pending)
  PROVE  call' \in [Users -> Call] /\ calls' \in 0 .. MaxCalls
BY SharingAssumption DEF SharingTypeOK, Pending, Calls

\* A call made at once leaves nothing in flight.
LEMMA AtOnceType ==
  ASSUME SharingTypeOK, NEW u \in Users, AtOnce(u)
  PROVE  call' \in [Users -> Call] /\ calls' \in 0 .. MaxCalls
BY SharingAssumption DEF SharingTypeOK, AtOnce, Calls

\* A call that goes on or returns leaves its caller with a call.
LEMMA BecomesType ==
  ASSUME SharingTypeOK, NEW u \in Users, NEW c \in Call, call' = [call EXCEPT ![u] = c]
  PROVE  call' \in [Users -> Call]
BY DEF SharingTypeOK

\* The caller of a call that returns is idle.
LEMMA ReturnsType ==
  ASSUME SharingTypeOK, NEW u \in Users, Returns(u)
  PROVE  call' \in [Users -> Call]
BY DEF SharingTypeOK, Returns, Call

\* Calls that fail leave their callers idle.
LEMMA FailType ==
  ASSUME SharingTypeOK, NEW ops, Fail(ops)
  PROVE  call' \in [Users -> Call]
BY DEF SharingTypeOK, Fail, Call

\* The records a call in flight is turned into are calls.
LEMMA CallRecords ==
  ASSUME NEW m \in Users, NEW others \in SUBSET Users
  PROVE  /\ \A role \in Roles : [op |-> "setRole", who |-> m, role |-> role, others |-> others] \in Call
         /\ [op |-> "dropGrant", who |-> m, others |-> others] \in Call
         /\ \A role \in MemberRoles, op \in {"setGroupRole", "force"} :
              [op |-> op, who |-> m, role |-> role, others |-> others] \in Call
         /\ [op |-> "dropMember", who |-> m, others |-> others] \in Call
         /\ [op |-> "revoke", who |-> m] \in Call
         /\ [op |-> "inherit", who |-> m] \in Call
BY DEF Call

\* Whoever is counted has an account.
LEMMA CountedType ==
  ASSUME NEW m
  PROVE  OtherAdmins(m) \in SUBSET Users /\ OtherMaintainers(m) \in SUBSET Users
BY DEF OtherAdmins, OtherMaintainers

\* The calls on a library keep the types.
LEMMA LibraryCallsType ==
  ASSUME SharingTypeOK, NEW u \in Users, LibraryCalls(u)
  PROVE  SharingTypeOK'
<1> USE DEF libraryVars, groupVars, accountVars, Roles
<1>1. CASE CreateLibrary(u) \/ Delete(u) \/ Restore(u) \/ Decline(u)
  BY <1>1, AtOnceType DEF CreateLibrary, Delete, Restore, Decline, SharingTypeOK
<1>2. ASSUME NEW m \in Users, NEW role \in Roles, Grant(u, m, role)
      PROVE  SharingTypeOK'
  <2>1. [op |-> IF grants[m] = "none" THEN "invite" ELSE "regrant",
         who |-> m, role |-> role] \in Call
    BY <1>2 DEF Call
  <2> QED
    BY <1>2, <2>1, PendingType DEF Grant, SharingTypeOK
<1>3. ASSUME NEW m \in Users, Revoke(u, m)
      PROVE  SharingTypeOK'
  <2>1. [op |-> "withdraw", who |-> m] \in Call
    BY DEF Call
  <2> QED
    BY <1>3, <2>1, PendingType DEF Revoke, SharingTypeOK
<1>4. CASE Invite(u) \/ SetRole(u) \/ DropGrant(u) \/ Join(u)
  <2>1. call' \in [Users -> Call] /\ calls' = calls
    BY <1>4, ReturnsType DEF Invite, SetRole, DropGrant, Join, Continues
  <2> QED
    BY <1>4, <2>1, CallFields DEF Invite, SetRole, DropGrant, Join, Continues, SharingTypeOK
<1>5. CASE Regrant(u) \/ Withdraw(u) \/ RevokeGrantOf(u)
  <2> DEFINE m == call[u].who
  <2>1. m \in Users /\ (call[u].op = "regrant" => call[u].role \in Roles)
    BY <1>5, CallFields DEF Regrant, Withdraw, RevokeGrantOf, Continues, SharingTypeOK
  <2>2. \/ Returns(u)
        \/ \E c \in Call : call' = [call EXCEPT ![u] = c]
    BY <1>5, <2>1, CallRecords, CountedType DEF Regrant, Withdraw, RevokeGrantOf, Continues
  <2>3. call' \in [Users -> Call] /\ calls' = calls
    BY <1>5, <2>2, ReturnsType, BecomesType DEF Regrant, Withdraw, RevokeGrantOf, Continues
  <2> QED
    BY <1>5, <2>1, <2>3 DEF Regrant, Withdraw, RevokeGrantOf, SharingTypeOK
<1>6. CASE Accept(u)
  <2>1. [op |-> "accept"] \in Call
    BY DEF Call
  <2> QED
    BY <1>6, <2>1, PendingType DEF Accept, SharingTypeOK
<1> QED
  BY <1>1, <1>2, <1>3, <1>4, <1>5, <1>6 DEF LibraryCalls

\* So do the calls on a group.
LEMMA GroupCallsType ==
  ASSUME SharingTypeOK, NEW u \in Users, GroupCalls(u)
  PROVE  SharingTypeOK'
<1> USE DEF libraryVars, groupVars, accountVars, MemberRoles
<1>1. CASE CreateGroup(u) \/ GrantGroup(u) \/ RevokeGroup(u) \/ AcceptGroup(u) \/ DeclineGroup(u)
  BY <1>1, AtOnceType
  DEF CreateGroup, GrantGroup, RevokeGroup, AcceptGroup, DeclineGroup, SharingTypeOK
<1>2. CASE DeleteGroup(u)
  <2>1. call' \in [Users -> Call]
    BY <1>2, FailType DEF DeleteGroup
  <2>2. calls' \in 0 .. MaxCalls
    BY <1>2, SharingAssumption DEF DeleteGroup, Calls, SharingTypeOK
  <2> QED
    BY <1>2, <2>1, <2>2 DEF DeleteGroup, SharingTypeOK
<1>3. ASSUME NEW m \in Users, NEW role \in MemberRoles, ForceIntoGroup(u, m, role)
      PROVE  SharingTypeOK'
  <2>1. [op |-> "force", who |-> m, role |-> role, others |-> OtherMaintainers(m)] \in Call
    BY CallRecords, CountedType
  <2> QED
    BY <1>3, <2>1, PendingType DEF ForceIntoGroup, SharingTypeOK
<1>4. ASSUME NEW m \in Users, NEW role \in MemberRoles, InviteToGroup(u, m, role)
      PROVE  SharingTypeOK'
  <2>1. [op |-> "inviteToGroup", who |-> m, role |-> role] \in Call
    BY <1>4 DEF Call
  <2> QED
    BY <1>4, <2>1, PendingType DEF InviteToGroup, SharingTypeOK
<1>5. ASSUME NEW m \in Users, RemoveFromGroup(u, m)
      PROVE  SharingTypeOK'
  <2>1. [op |-> "removeFromGroup", who |-> m] \in Call
    BY DEF Call
  <2> QED
    BY <1>5, <2>1, PendingType DEF RemoveFromGroup, SharingTypeOK
<1>6. CASE Invited(u)
  <2> DEFINE m == call[u].who
             role == call[u].role
  <2>1. m \in Users /\ role \in MemberRoles /\ calls' = calls
    BY <1>6, CallFields DEF Invited, Continues, SharingTypeOK
  <2>2. [op |-> "setGroupRole", who |-> m, role |-> role, others |-> OtherMaintainers(m)] \in Call
    BY <2>1, CallRecords, CountedType
  <2>3. \/ Returns(u)
        \/ call' = [call EXCEPT ![u] = [op |-> "setGroupRole", who |-> m, role |-> role,
                                        others |-> OtherMaintainers(m)]]
    BY <1>6, Zenon DEF Invited
  <2>4. call' \in [Users -> Call]
    BY <2>2, <2>3, ReturnsType, BecomesType
  <2>5. groupOffers' = groupOffers \/ groupOffers' = [groupOffers EXCEPT ![m] = role]
    BY <1>6, Zenon DEF Invited
  <2> QED
    BY <1>6, <2>1, <2>4, <2>5 DEF Invited, SharingTypeOK
<1>7. CASE RemovedFromGroup(u)
  <2> DEFINE m == call[u].who
  <2>1. m \in Users /\ calls' = calls
    BY <1>7, CallFields DEF RemovedFromGroup, Continues, SharingTypeOK
  <2>2. [op |-> "dropMember", who |-> m, others |-> OtherMaintainers(m)] \in Call
    BY <2>1, CallRecords, CountedType
  <2>3. \/ Returns(u)
        \/ call' = [call EXCEPT ![u] = [op |-> "dropMember", who |-> m,
                                        others |-> OtherMaintainers(m)]]
    BY <1>7, Zenon DEF RemovedFromGroup
  <2>4. call' \in [Users -> Call]
    BY <2>2, <2>3, ReturnsType, BecomesType
  <2>5. groupOffers' = groupOffers \/ groupOffers' = [groupOffers EXCEPT ![m] = "none"]
    BY <1>7, Zenon DEF RemovedFromGroup
  <2> QED
    BY <1>7, <2>1, <2>4, <2>5 DEF RemovedFromGroup, SharingTypeOK
<1>8. CASE SetGroupRole(u) \/ Forced(u) \/ DropMember(u)
  <2>1. call' \in [Users -> Call] /\ calls' = calls
    BY <1>8, ReturnsType DEF SetGroupRole, Forced, DropMember, Continues
  <2> QED
    BY <1>8, <2>1, CallFields DEF SetGroupRole, Forced, DropMember, Continues, SharingTypeOK
<1> QED
  BY <1>1, <1>2, <1>3, <1>4, <1>5, <1>6, <1>7, <1>8 DEF GroupCalls

\* What FindHeir turns the call into.
LEMMA FindHeirEffect ==
  ASSUME SharingTypeOK, NEW u \in Users, FindHeir(u)
  PROVE  /\ UNCHANGED <<libraryVars, groupVars, accountVars, calls>>
         /\ call[u].op = "removeAccount" /\ call[u].who \in Users
         /\ \/ Returns(u)
            \/ /\ call[u].who \notin removed
               /\ \A v \in Users : call[v].op \in Removing => call[v].who # call[u].who
               /\ \/ call' = [call EXCEPT ![u] = [op |-> "inherit", who |-> call[u].who]]
                  \/ \E admins \in SUBSET Users :
                       /\ admins # {call[u].who}
                       /\ call' = [call EXCEPT ![u] =
                             [op |-> "strip", who |-> call[u].who, admins |-> admins,
                              heirs |-> {}, at |-> "grants", taken |-> {}]]
<1> DEFINE m == call[u].who
           admins == {v \in Users : grants[v] = "admin"}
<1>1. UNCHANGED <<libraryVars, groupVars, accountVars, calls>> /\ call[u].op = "removeAccount"
  BY Zenon DEF FindHeir, Continues
<1>2. m \in Users
  BY <1>1, CallFields DEF SharingTypeOK
<1>3. \/ Returns(u)
      \/ /\ m \notin removed
         /\ \A v \in Users : call[v].op \in Removing => call[v].who # m
         /\ call' = [call EXCEPT ![u] =
                       IF admins = {m} THEN [op |-> "inherit", who |-> m]
                       ELSE [op |-> "strip", who |-> m, admins |-> admins, heirs |-> {},
                             at |-> "grants", taken |-> {}]]
  BY Zenon DEF FindHeir, Removing
<1>4. admins \in SUBSET Users
  OBVIOUS
<1> HIDE DEF m, admins
<1>5. CASE admins = {m}
  BY <1>1, <1>2, <1>3, <1>5, Zenon DEF m
<1>6. CASE admins # {m}
  BY <1>1, <1>2, <1>3, <1>4, <1>6, Zenon DEF m
<1> QED
  BY <1>5, <1>6

\* What Inherit turns the call into.
LEMMA InheritEffect ==
  ASSUME SharingTypeOK, NEW u \in Users, Inherit(u)
  PROVE  /\ UNCHANGED <<libraryVars, groupVars, accountVars, calls>>
         /\ call[u].op = "inherit" /\ call[u].who \in Users
         /\ \/ Returns(u)
            \/ \E heir \in Users \ {call[u].who} :
                 call' = [call EXCEPT ![u] =
                           [op |-> "strip", who |-> call[u].who, admins |-> {call[u].who},
                            heirs |-> {heir}, at |-> "grants", taken |-> {}]]
<1>1. UNCHANGED <<libraryVars, groupVars, accountVars, calls>> /\ call[u].op = "inherit"
  BY Zenon DEF Inherit, Continues
<1>2. call[u].who \in Users
  BY <1>1, CallFields DEF SharingTypeOK
<1> DEFINE m == call[u].who
           able == administrators \ (removed \cup {m})
<1>3. \/ Returns(u)
      \/ \E heir \in (IF u \in able THEN {u} ELSE able) :
           call' = [call EXCEPT ![u] =
                     [op |-> "strip", who |-> m, admins |-> {m},
                      heirs |-> {heir}, at |-> "grants", taken |-> {}]]
  BY Zenon DEF Inherit
<1>4. (IF u \in able THEN {u} ELSE able) \subseteq Users \ {m}
  BY DEF SharingTypeOK
<1> QED
  BY <1>1, <1>2, <1>3, <1>4, Zenon

\* What Take turns the call into.
LEMMA TakeEffect ==
  ASSUME SharingTypeOK, NEW u \in Users, Take(u)
  PROVE  /\ UNCHANGED <<libraryVars, groupVars, accountVars, calls>>
         /\ call[u].op = "strip"
         /\ \E c \in Call :
              /\ call' = [call EXCEPT ![u] = c]
              /\ c.op = "strip" /\ c.who = call[u].who
              /\ c.admins = call[u].admins /\ c.heirs = call[u].heirs
<1> DEFINE c == [call[u] EXCEPT !.at = After(call[u].at), !.taken = TakenNow(u)]
<1>1. /\ UNCHANGED <<libraryVars, groupVars, accountVars, calls>> /\ call[u].op = "strip"
      /\ call' = [call EXCEPT ![u] = c]
  BY Zenon DEF Take, Continues
<1>2. call[u] \in [op : {"strip"}, who : Users, admins : SUBSET Users, heirs : SUBSET Users,
                   at : Tables, taken : SUBSET Tables]
  BY <1>1, CallFields DEF SharingTypeOK
<1>3. After(call[u].at) \in Tables /\ TakenNow(u) \in SUBSET Tables
  BY <1>2 DEF After, TakenNow, Tables
<1>4. c \in [op : {"strip"}, who : Users, admins : SUBSET Users, heirs : SUBSET Users,
             at : Tables, taken : SUBSET Tables]
  BY <1>2, <1>3
<1>5. c.op = "strip" /\ c.who = call[u].who /\ c.admins = call[u].admins /\ c.heirs = call[u].heirs
  BY <1>2
<1>6. c \in Call
  BY <1>4 DEF Call
<1> QED
  BY <1>1, <1>5, <1>6

\* What Strip does.
LEMMA StripEffect ==
  ASSUME SharingTypeOK, NEW u \in Users, Strip(u)
  PROVE  /\ call[u].op = "strip" /\ call[u].who \in Users /\ call[u].heirs \in SUBSET Users
         /\ grants' \in [Users -> Roles \cup {"none"}]
         /\ offers' \in [Users -> Roles \cup {"none"}]
         /\ members' \in [Users -> MemberRoles \cup {"none"}]
         /\ groupOffers' \in [Users -> MemberRoles \cup {"none"}]
         /\ \A v \in Users \ {call[u].who} :
              /\ grants'[v] = IF v \in call[u].heirs THEN "admin" ELSE grants[v]
              /\ members'[v] = members[v] /\ groupOffers'[v] = groupOffers[v]
         /\ members'[call[u].who] \in {members[call[u].who], "none"}
         /\ groupOffers'[call[u].who] \in {groupOffers[call[u].who], "none"}
         /\ administrators' \subseteq administrators
         /\ removed' = removed \cup {call[u].who}
         /\ UNCHANGED <<library, group, groupRole, calls>>
         /\ Returns(u)
<1> DEFINE m == call[u].who
           heirs == call[u].heirs
           taken == TakenNow(u)
<1>1. /\ call[u].op = "strip"
      /\ grants' = [v \in Users |-> IF v \in heirs THEN "admin"
                                    ELSE IF v = m /\ "grants" \in taken THEN "none"
                                    ELSE grants[v]]
      /\ offers' = [v \in Users |-> IF v \in heirs \/ (v = m /\ "offers" \in taken)
                                    THEN "none" ELSE offers[v]]
      /\ members' = [v \in Users |-> IF v = m /\ "members" \in taken THEN "none"
                                     ELSE members[v]]
      /\ groupOffers' = [v \in Users |-> IF v = m /\ "groupOffers" \in taken THEN "none"
                                         ELSE groupOffers[v]]
      /\ administrators' = administrators \ {m}
      /\ removed' = removed \cup {m}
      /\ UNCHANGED <<library, group, groupRole, calls>>
      /\ Returns(u)
  BY Zenon DEF Strip, Continues
<1>2. m \in Users /\ heirs \in SUBSET Users
  BY <1>1, CallFields DEF SharingTypeOK
<1> HIDE DEF taken
<1> QED
  BY <1>1, <1>2 DEF SharingTypeOK, Roles, MemberRoles

\* And so does what happens to accounts.
LEMMA AccountCallsType ==
  ASSUME SharingTypeOK, NEW u \in Users, AccountCalls(u)
  PROVE  SharingTypeOK'
<1> USE DEF libraryVars, groupVars, accountVars
<1>1. ASSUME NEW m \in Users, NEW make \in BOOLEAN, SetAdmin(u, m, make)
      PROVE  SharingTypeOK'
  <2>1. [op |-> "setAdmin", who |-> m, make |-> make] \in Call
    BY DEF Call
  <2> QED
    BY <1>1, <2>1, PendingType DEF SetAdmin, SharingTypeOK
<1>2. ASSUME NEW m \in Users, RemoveAccount(u, m)
      PROVE  SharingTypeOK'
  <2>1. [op |-> "removeAccount", who |-> m] \in Call
    BY DEF Call
  <2> QED
    BY <1>2, <2>1, PendingType DEF RemoveAccount, SharingTypeOK
<1>3. CASE AdminSet(u)
  <2>1. call' \in [Users -> Call] /\ calls' = calls
    BY <1>3, ReturnsType DEF AdminSet, Continues
  <2> QED
    BY <1>3, <2>1, CallFields DEF AdminSet, Continues, SharingTypeOK
<1>4. CASE FindHeir(u) \/ Inherit(u) \/ Take(u)
  <2>1. Returns(u) \/ \E c \in Call : call' = [call EXCEPT ![u] = c]
    <3>1. \A m \in Users : [op |-> "inherit", who |-> m] \in Call
      BY CallRecords
    <3>2. \A m \in Users, admins, heirs \in SUBSET Users :
            [op |-> "strip", who |-> m, admins |-> admins, heirs |-> heirs,
             at |-> "grants", taken |-> {}] \in Call
      BY DEF Call, Tables
    <3>3. CASE FindHeir(u)
      BY <3>1, <3>2, <3>3, FindHeirEffect
    <3>4. CASE Inherit(u)
      <4>1. \A v \in Users : {v} \in SUBSET Users
        OBVIOUS
      <4> QED
        BY <3>2, <3>4, <4>1, InheritEffect
    <3>5. CASE Take(u)
      BY <3>5, TakeEffect
    <3> QED
      BY <1>4, <3>3, <3>4, <3>5
  <2>2. call' \in [Users -> Call]
    BY <2>1, ReturnsType, BecomesType
  <2>3. UNCHANGED <<libraryVars, groupVars, accountVars, calls>>
    BY <1>4, FindHeirEffect, InheritEffect, TakeEffect
  <2> QED
    BY <2>2, <2>3 DEF SharingTypeOK
<1>5. CASE Strip(u)
  <2>1. call' \in [Users -> Call]
    BY <1>5, StripEffect, ReturnsType
  <2> QED
    BY <1>5, <2>1, StripEffect DEF SharingTypeOK
<1> QED
  BY <1>1, <1>2, <1>3, <1>4, <1>5 DEF AccountCalls

\* Every step keeps the types.
LEMMA SharingTypeStep == SharingTypeOK /\ [SharingNext]_sharingVars => SharingTypeOK'
<1> SUFFICES ASSUME SharingTypeOK, [SharingNext]_sharingVars PROVE SharingTypeOK'
  OBVIOUS
<1>1. CASE Purge
  <2>1. call' \in [Users -> Call]
    BY <1>1, FailType DEF Purge
  <2> QED
    BY <1>1, <2>1 DEF Purge, SharingTypeOK, accountVars
<1>2. CASE UNCHANGED sharingVars
  BY <1>2 DEF SharingTypeOK, sharingVars, libraryVars, groupVars, accountVars
<1> QED
  BY <1>1, <1>2, LibraryCallsType, GroupCallsType, AccountCallsType DEF SharingNext

\* The types hold at the start.
LEMMA SharingInitType == SharingInit => SharingTypeOK
BY SharingAssumption DEF SharingInit, SharingTypeOK, Roles, MemberRoles, Call

\* Every table keeps its columns' types, and no more calls are made than
\* MaxCalls.
THEOREM SharingTypeCorrect == SharingSpec => []SharingTypeOK
BY SharingInitType, SharingTypeStep, PTL DEF SharingSpec

-----------------------------------------------------------------------------
(* What the calls of one kind leave alone. *)

\* The calls about the library leave the group and the accounts alone.
LEMMA LibraryCallsFrame ==
  ASSUME NEW u \in Users, LibraryCalls(u)
  PROVE  UNCHANGED <<groupVars, accountVars>>
BY DEF LibraryCalls, CreateLibrary, Delete, Restore, Grant, Revoke, Invite, Regrant, SetRole,
  Withdraw, RevokeGrantOf, DropGrant, Accept, Join, Decline, groupVars, accountVars, libraryVars

\* The calls about the group leave the library and the accounts alone.
LEMMA GroupCallsFrame ==
  ASSUME NEW u \in Users, GroupCalls(u)
  PROVE  UNCHANGED <<libraryVars, accountVars>>
<1>1. CASE Invited(u) \/ RemovedFromGroup(u)
  BY <1>1, Zenon DEF Invited, RemovedFromGroup
<1> QED
  BY <1>1 DEF GroupCalls, CreateGroup, DeleteGroup, GrantGroup, RevokeGroup, InviteToGroup,
    ForceIntoGroup, RemoveFromGroup, SetGroupRole, Forced, DropMember, AcceptGroup,
    DeclineGroup, libraryVars, accountVars

\* Only Strip touches the library, the group or the removed accounts.
LEMMA AccountCallsFrame ==
  ASSUME SharingTypeOK, NEW u \in Users, AccountCalls(u), ~ Strip(u)
  PROVE  UNCHANGED <<libraryVars, groupVars, removed>>
<1>1. ASSUME NEW m \in Users, NEW make \in BOOLEAN, SetAdmin(u, m, make)
      PROVE  UNCHANGED <<libraryVars, groupVars, removed>>
  BY <1>1, Zenon DEF SetAdmin, accountVars
<1>2. CASE FindHeir(u) \/ Inherit(u) \/ Take(u)
  BY <1>2, FindHeirEffect, InheritEffect, TakeEffect DEF accountVars
<1> QED
  BY <1>1, <1>2 DEF AccountCalls, RemoveAccount, AdminSet, accountVars

-----------------------------------------------------------------------------
(* What one step may do to the calls in flight: it leaves them alone, ends  *)
(* some, begins one that holds nothing, or takes one of them further.       *)

Special == LibraryLock \cup GroupLock \cup Removing \cup AboutGroup

\* No call becomes one that holds something.
Plain == \A v \in Users : call'[v] = call[v] \/ call'[v].op \notin Special

\* Only the call of u changes.
Only(u) == \A v \in Users \ {u} : call'[v] = call[v]

LocksLibrary(u) ==
  LET c == call'[u]
  IN  /\ Only(u)
      /\ ~ LibraryLocked
      /\ UNCHANGED <<grants, members, group, removed>>
      /\ c.op \in LibraryLock /\ c.who \in Users
      /\ c.others = OtherAdmins(c.who)
      /\ c.others = {} => c.op = "setRole" /\ c.role = "admin"

LocksGroup(u) ==
  LET c == call'[u]
  IN  /\ Only(u)
      /\ ~ GroupLocked
      /\ group
      /\ UNCHANGED <<grants, members, group, removed>>
      /\ c.op \in GroupLock /\ c.who \in Users
      /\ c.others = OtherMaintainers(c.who)
      /\ c.others = {} =>
           \/ c.op # "dropMember" /\ c.role = "maintainer"
           \/ c.op = "force" /\ members[c.who] = "none"

Invites(u) ==
  /\ Only(u)
  /\ group
  /\ UNCHANGED <<grants, members, group, removed>>
  /\ call'[u].op \in AboutGroup

Removes(u) ==
  LET c == call'[u]
  IN  /\ Only(u)
      /\ UNCHANGED <<grants, members, group, removed>>
      /\ c.op \in Removing
      /\ c.who \notin removed
      /\ \A v \in Users \ {u} : call[v].op \in Removing => call[v].who # c.who
      /\ c.op = "strip" =>
           /\ c.who \notin c.heirs
           /\ c.admins = {c.who} => c.heirs # {}

CallStep ==
  \/ Plain
  \/ \E u \in Users : LocksLibrary(u) \/ LocksGroup(u) \/ Invites(u) \/ Removes(u)

\* A call that returns holds nothing.
LEMMA ReturnsPlain ==
  ASSUME SharingTypeOK, NEW u \in Users, Returns(u)
  PROVE  Plain
BY DEF Returns, Plain, SharingTypeOK, Idle, Special, LibraryLock, GroupLock, Removing, AboutGroup

\* Nor do calls that fail.
LEMMA FailPlain ==
  ASSUME SharingTypeOK, NEW ops, Fail(ops)
  PROVE  Plain
BY DEF Fail, Plain, SharingTypeOK, Idle, Special, LibraryLock, GroupLock, Removing, AboutGroup

\* A call that becomes c is all that changes.
LEMMA BecomesOnly ==
  ASSUME SharingTypeOK, NEW u \in Users, NEW c, call' = [call EXCEPT ![u] = c]
  PROVE  Only(u) /\ call'[u] = c
BY DEF Only, SharingTypeOK

\* A call about the library takes the calls in flight one of these ways.
LEMMA LibraryCallsStep ==
  ASSUME SharingTypeOK, NEW u \in Users, LibraryCalls(u)
  PROVE  CallStep
<1> USE DEF libraryVars, groupVars, accountVars, CallStep
<1>1. CASE \/ CreateLibrary(u) \/ Delete(u) \/ Restore(u) \/ Decline(u)
  BY <1>1 DEF CreateLibrary, Delete, Restore, Decline, AtOnce, Plain
<1>2. CASE \/ \E m \in Users, role \in Roles : Grant(u, m, role)
           \/ \E m \in Users : Revoke(u, m)
           \/ Accept(u)
  BY <1>2 DEF Grant, Revoke, Accept, Pending, Plain, SharingTypeOK, Special, LibraryLock,
    GroupLock, Removing, AboutGroup
<1>3. CASE Invite(u) \/ SetRole(u) \/ DropGrant(u) \/ Join(u)
  BY <1>3, ReturnsPlain DEF Invite, SetRole, DropGrant, Join
<1>4. CASE Withdraw(u)
  BY <1>4, ReturnsPlain DEF Withdraw, Plain, SharingTypeOK, Special, LibraryLock, GroupLock,
    Removing, AboutGroup
<1>5. CASE Regrant(u)
  <2> DEFINE m == call[u].who
             c == [op |-> "setRole", who |-> m, role |-> call[u].role, others |-> OtherAdmins(m)]
  <2>1. m \in Users /\ ~ LibraryLocked /\ UNCHANGED <<grants, members, group, removed>>
    BY <1>5, CallFields DEF Regrant, Continues, SharingTypeOK
  <2>2. \/ Returns(u)
        \/ /\ call' = [call EXCEPT ![u] = c]
           /\ call[u].role = "admin" \/ OtherAdmins(m) # {}
    BY <1>5, Zenon DEF Regrant
  <2>3. CASE Returns(u)
    BY <2>3, ReturnsPlain
  <2>4. CASE call' = [call EXCEPT ![u] = c] /\ (call[u].role = "admin" \/ OtherAdmins(m) # {})
    <3>1. Only(u) /\ call'[u] = c
      BY <2>4, BecomesOnly
    <3>2. c.op = "setRole" /\ c.who = m /\ c.role = call[u].role /\ c.others = OtherAdmins(m)
      OBVIOUS
    <3> QED
      BY <2>1, <2>4, <3>1, <3>2 DEF LocksLibrary, LibraryLock
  <2> QED
    BY <2>2, <2>3, <2>4
<1>6. CASE RevokeGrantOf(u)
  <2> DEFINE m == call[u].who
             c == [op |-> "dropGrant", who |-> m, others |-> OtherAdmins(m)]
  <2>1. m \in Users /\ ~ LibraryLocked /\ UNCHANGED <<grants, members, group, removed>>
    BY <1>6, CallFields DEF RevokeGrantOf, Continues, SharingTypeOK
  <2>2. \/ Returns(u)
        \/ call' = [call EXCEPT ![u] = c] /\ OtherAdmins(m) # {}
    BY <1>6, Zenon DEF RevokeGrantOf
  <2>3. CASE Returns(u)
    BY <2>3, ReturnsPlain
  <2>4. CASE call' = [call EXCEPT ![u] = c] /\ OtherAdmins(m) # {}
    <3>1. Only(u) /\ call'[u] = c
      BY <2>4, BecomesOnly
    <3>2. c.op = "dropGrant" /\ c.who = m /\ c.others = OtherAdmins(m)
      OBVIOUS
    <3> QED
      BY <2>1, <2>4, <3>1, <3>2 DEF LocksLibrary, LibraryLock
  <2> QED
    BY <2>2, <2>3, <2>4
<1> QED
  BY <1>1, <1>2, <1>3, <1>4, <1>5, <1>6 DEF LibraryCalls

\* So does a call about the group.
LEMMA GroupCallsStep ==
  ASSUME SharingTypeOK, GroupStays, NEW u \in Users, GroupCalls(u)
  PROVE  CallStep
<1> USE DEF libraryVars, groupVars, accountVars, CallStep
<1>1. CASE CreateGroup(u) \/ GrantGroup(u) \/ RevokeGroup(u) \/ AcceptGroup(u) \/ DeclineGroup(u)
  BY <1>1 DEF CreateGroup, GrantGroup, RevokeGroup, AcceptGroup, DeclineGroup, AtOnce, Plain
<1>2. CASE DeleteGroup(u)
  BY <1>2, FailPlain DEF DeleteGroup
<1>3. ASSUME NEW m \in Users, RemoveFromGroup(u, m)
      PROVE  CallStep
  <2> DEFINE c == [op |-> "removeFromGroup", who |-> m]
  <2>1. /\ call' = [call EXCEPT ![u] = c] /\ group
        /\ UNCHANGED <<grants, members, group, removed>>
    BY <1>3 DEF RemoveFromGroup, Pending, Maintains, Belongs
  <2>2. Only(u) /\ call'[u] = c
    BY <2>1, BecomesOnly
  <2>3. c.op = "removeFromGroup"
    OBVIOUS
  <2> QED
    BY <2>1, <2>2, <2>3 DEF Invites, AboutGroup
<1>4. CASE SetGroupRole(u) \/ Forced(u) \/ DropMember(u)
  BY <1>4, ReturnsPlain DEF SetGroupRole, Forced, DropMember
<1>5. ASSUME NEW m \in Users, NEW role \in MemberRoles, InviteToGroup(u, m, role)
      PROVE  CallStep
  <2> DEFINE c == [op |-> "inviteToGroup", who |-> m, role |-> role]
  <2>1. /\ call' = [call EXCEPT ![u] = c] /\ group
        /\ UNCHANGED <<grants, members, group, removed>>
    BY <1>5 DEF InviteToGroup, Pending, Maintains
  <2>2. Only(u) /\ call'[u] = c
    BY <2>1, BecomesOnly
  <2>3. c.op = "inviteToGroup"
    OBVIOUS
  <2> QED
    BY <2>1, <2>2, <2>3 DEF Invites, AboutGroup
<1>6. ASSUME NEW m \in Users, NEW role \in MemberRoles, ForceIntoGroup(u, m, role)
      PROVE  CallStep
  <2> DEFINE c == [op |-> "force", who |-> m, role |-> role, others |-> OtherMaintainers(m)]
  <2>1. /\ call' = [call EXCEPT ![u] = c] /\ group /\ ~ GroupLocked
        /\ UNCHANGED <<grants, members, group, removed>>
        /\ members[m] = "none" \/ role = "maintainer" \/ OtherMaintainers(m) # {}
    BY <1>6 DEF ForceIntoGroup, Pending
  <2>2. Only(u) /\ call'[u] = c
    BY <2>1, BecomesOnly
  <2>3. c.op = "force" /\ c.who = m /\ c.role = role /\ c.others = OtherMaintainers(m)
    OBVIOUS
  <2> HIDE DEF c
  <2> QED
    BY <2>1, <2>2, <2>3 DEF LocksGroup, GroupLock
<1>7. CASE Invited(u)
  <2> DEFINE m == call[u].who
             role == call[u].role
             c == [op |-> "setGroupRole", who |-> m, role |-> role, others |-> OtherMaintainers(m)]
  <2>1. /\ m \in Users /\ ~ GroupLocked /\ group
        /\ UNCHANGED <<grants, members, group, removed>>
    BY <1>7, CallFields DEF Invited, Continues, SharingTypeOK, GroupStays, AboutGroup
  <2>2. \/ Returns(u)
        \/ /\ call' = [call EXCEPT ![u] = c]
           /\ role = "maintainer" \/ OtherMaintainers(m) # {}
    BY <1>7, Zenon DEF Invited
  <2>3. CASE Returns(u)
    BY <2>3, ReturnsPlain
  <2>4. CASE call' = [call EXCEPT ![u] = c] /\ (role = "maintainer" \/ OtherMaintainers(m) # {})
    <3>1. Only(u) /\ call'[u] = c
      BY <2>4, BecomesOnly
    <3>2. /\ c.op = "setGroupRole" /\ c.who = m /\ c.role = role
          /\ c.others = OtherMaintainers(m)
      OBVIOUS
    <3> HIDE DEF c
    <3> QED
      BY <2>1, <2>4, <3>1, <3>2 DEF LocksGroup, GroupLock
  <2> QED
    BY <2>2, <2>3, <2>4
<1>8. CASE RemovedFromGroup(u)
  <2> DEFINE m == call[u].who
             c == [op |-> "dropMember", who |-> m, others |-> OtherMaintainers(m)]
  <2>1. m \in Users /\ group /\ UNCHANGED <<grants, members, group, removed>>
    BY <1>8, CallFields DEF RemovedFromGroup, Continues, SharingTypeOK, GroupStays, AboutGroup
  <2>2. \/ Returns(u)
        \/ /\ call' = [call EXCEPT ![u] = c] /\ ~ GroupLocked
           /\ OtherMaintainers(m) # {}
    BY <1>8, Zenon DEF RemovedFromGroup
  <2>3. CASE Returns(u)
    BY <2>3, ReturnsPlain
  <2>4. CASE call' = [call EXCEPT ![u] = c] /\ ~ GroupLocked /\ OtherMaintainers(m) # {}
    <3>1. Only(u) /\ call'[u] = c
      BY <2>4, BecomesOnly
    <3>2. c.op = "dropMember" /\ c.who = m /\ c.others = OtherMaintainers(m)
      OBVIOUS
    <3> HIDE DEF c
    <3> QED
      BY <2>1, <2>4, <3>1, <3>2 DEF LocksGroup, GroupLock
  <2> QED
    BY <2>2, <2>3, <2>4
<1> QED
  BY <1>1, <1>2, <1>3, <1>4, <1>5, <1>6, <1>7, <1>8 DEF GroupCalls

\* And so does what happens to accounts.
LEMMA AccountCallsStep ==
  ASSUME SharingTypeOK, Removals, NEW u \in Users, AccountCalls(u)
  PROVE  CallStep
<1> USE DEF libraryVars, groupVars, accountVars, CallStep
<1>1. ASSUME NEW m \in Users, NEW make \in BOOLEAN, SetAdmin(u, m, make)
      PROVE  Plain
  <2>1. call' = [call EXCEPT ![u] = [op |-> "setAdmin", who |-> m, make |-> make]]
    BY <1>1, Zenon DEF SetAdmin, Pending
  <2> QED
    BY <2>1 DEF Plain, SharingTypeOK, Special, LibraryLock, GroupLock, Removing, AboutGroup
<1>2. ASSUME NEW m \in Users, RemoveAccount(u, m)
      PROVE  Plain
  BY <1>2 DEF RemoveAccount, Pending, Plain, SharingTypeOK, Special, LibraryLock, GroupLock,
    Removing, AboutGroup
<1>3. CASE AdminSet(u) \/ Strip(u)
  BY <1>3, ReturnsPlain, StripEffect DEF AdminSet
<1>4. CASE FindHeir(u)
  <2> DEFINE m == call[u].who
  <2>1. /\ UNCHANGED <<grants, members, group, removed>>
        /\ \/ Returns(u)
           \/ /\ m \notin removed
              /\ \A v \in Users : call[v].op \in Removing => call[v].who # m
              /\ \/ call' = [call EXCEPT ![u] = [op |-> "inherit", who |-> m]]
                 \/ \E admins \in SUBSET Users :
                      /\ admins # {m}
                      /\ call' = [call EXCEPT ![u] =
                            [op |-> "strip", who |-> m, admins |-> admins,
                             heirs |-> {}, at |-> "grants", taken |-> {}]]
    BY <1>4, FindHeirEffect
  <2>2. CASE Returns(u)
    BY <2>2, ReturnsPlain
  <2>3. ASSUME m \notin removed, \A v \in Users : call[v].op \in Removing => call[v].who # m,
               call' = [call EXCEPT ![u] = [op |-> "inherit", who |-> m]]
        PROVE  Removes(u)
    <3>1. Only(u) /\ call'[u] = [op |-> "inherit", who |-> m]
      BY <2>3, BecomesOnly
    <3>2. call'[u].op = "inherit" /\ call'[u].who = m
      BY <3>1
    <3> QED
      BY <2>1, <2>3, <3>1, <3>2 DEF Removes, Removing
  <2>4. ASSUME m \notin removed, \A v \in Users : call[v].op \in Removing => call[v].who # m,
               NEW admins \in SUBSET Users, admins # {m},
               call' = [call EXCEPT ![u] = [op |-> "strip", who |-> m, admins |-> admins,
                                            heirs |-> {}, at |-> "grants", taken |-> {}]]
        PROVE  Removes(u)
    <3>1. Only(u) /\ call'[u] = [op |-> "strip", who |-> m, admins |-> admins,
                                 heirs |-> {}, at |-> "grants", taken |-> {}]
      BY <2>4, BecomesOnly
    <3>2. /\ call'[u].op = "strip" /\ call'[u].who = m /\ call'[u].admins = admins
          /\ call'[u].heirs = {}
      BY <3>1
    <3> QED
      BY <2>1, <2>4, <3>1, <3>2 DEF Removes, Removing
  <2> QED
    BY <2>1, <2>2, <2>3, <2>4
<1>5. CASE Inherit(u)
  <2> DEFINE m == call[u].who
  <2>1. /\ UNCHANGED <<grants, members, group, removed>> /\ call[u].op = "inherit"
        /\ \/ Returns(u)
           \/ \E heir \in Users \ {m} :
                call' = [call EXCEPT ![u] =
                          [op |-> "strip", who |-> m, admins |-> {m},
                           heirs |-> {heir}, at |-> "grants", taken |-> {}]]
    BY <1>5, InheritEffect
  <2>2. CASE Returns(u)
    BY <2>2, ReturnsPlain
  <2>3. ASSUME NEW heir \in Users \ {m},
               call' = [call EXCEPT ![u] =
                         [op |-> "strip", who |-> m, admins |-> {m},
                          heirs |-> {heir}, at |-> "grants", taken |-> {}]]
        PROVE  Removes(u)
    <3>1. Only(u) /\ call'[u] = [op |-> "strip", who |-> m, admins |-> {m},
                                 heirs |-> {heir}, at |-> "grants", taken |-> {}]
      BY <2>3, BecomesOnly
    <3>2. /\ call'[u].op = "strip" /\ call'[u].who = m /\ call'[u].admins = {m}
          /\ call'[u].heirs = {heir}
      BY <3>1
    <3> QED
      BY <2>1, <2>3, <3>1, <3>2 DEF Removes, Removing, Removals
  <2> QED
    BY <2>1, <2>2, <2>3
<1>6. CASE Take(u)
  <2>1. PICK c \in Call :
          /\ call' = [call EXCEPT ![u] = c]
          /\ c.op = "strip" /\ c.who = call[u].who
          /\ c.admins = call[u].admins /\ c.heirs = call[u].heirs
    BY <1>6, TakeEffect
  <2>2. UNCHANGED <<grants, members, group, removed>> /\ call[u].op = "strip"
    BY <1>6, TakeEffect
  <2>3. Only(u) /\ call'[u] = c
    BY <2>1, BecomesOnly
  <2> QED
    BY <2>1, <2>2, <2>3 DEF Removes, Removing, Removals
<1> QED
  BY <1>1, <1>2, <1>3, <1>4, <1>5, <1>6 DEF AccountCalls

\* Every step takes the calls in flight one of these ways.
LEMMA CallSteps ==
  ASSUME SharingTypeOK, GroupStays, Removals, [SharingNext]_sharingVars
  PROVE  CallStep
<1>1. CASE Purge
  BY <1>1, FailPlain DEF Purge, CallStep
<1>2. CASE UNCHANGED sharingVars
  BY <1>2 DEF sharingVars, CallStep, Plain
<1> QED
  BY <1>1, <1>2, LibraryCallsStep, GroupCallsStep, AccountCallsStep DEF SharingNext

-----------------------------------------------------------------------------
(* The locks and the removals. *)

\* Every step leaves a lock one holder.
LEMMA HolderStep ==
  ASSUME SharingTypeOK, OneHolder, CallStep
  PROVE  OneHolder'
<1> USE DEF OneHolder, Only, Special, LibraryLock, GroupLock, Removing, AboutGroup
<1>1. CASE Plain
  BY <1>1 DEF Plain
<1>2. ASSUME NEW u \in Users, LocksLibrary(u)
      PROVE  OneHolder'
  BY <1>2 DEF LocksLibrary, LibraryLocked
<1>3. ASSUME NEW u \in Users, LocksGroup(u)
      PROVE  OneHolder'
  BY <1>3 DEF LocksGroup, GroupLocked
<1>4. ASSUME NEW u \in Users, Invites(u) \/ Removes(u)
      PROVE  OneHolder'
  BY <1>4 DEF Invites, Removes
<1> QED
  BY <1>1, <1>2, <1>3, <1>4 DEF CallStep

\* No step removes an account twice, or leaves a library without the heir the
\* removal found.
LEMMA RemovalsStep ==
  ASSUME SharingIInv, [SharingNext]_sharingVars
  PROVE  Removals'
<1> USE DEF SharingIInv
<1>1. CallStep
  BY CallSteps
<1>2. ASSUME NEW u \in Users, Removes(u)
      PROVE  Removals'
  BY <1>2 DEF Removes, Only, Removals, Removing
<1>3. ASSUME NEW u \in Users, LocksLibrary(u) \/ LocksGroup(u) \/ Invites(u)
      PROVE  Removals'
  BY <1>3 DEF LocksLibrary, LocksGroup, Invites, Only, Removals, Removing, LibraryLock,
    GroupLock, AboutGroup
<1>4. CASE Plain /\ UNCHANGED removed
  BY <1>4 DEF Plain, Special, Removals, Removing
<1>5. ASSUME NEW u \in Users, Strip(u)
      PROVE  Removals'
  <2>1. /\ removed' = removed \cup {call[u].who} /\ call[u].op = "strip"
        /\ Returns(u)
    BY <1>5, StripEffect
  <2> QED
    BY <2>1 DEF Returns, Idle, Removals, Removing, SharingTypeOK
<1>6. UNCHANGED removed \/ \E u \in Users : Strip(u)
  <2>1. CASE Purge \/ UNCHANGED sharingVars
    BY <2>1 DEF Purge, sharingVars, accountVars
  <2> QED
    BY <2>1, LibraryCallsFrame, GroupCallsFrame, AccountCallsFrame DEF SharingNext, accountVars
<1> QED
  BY <1>1, <1>2, <1>3, <1>4, <1>5, <1>6 DEF CallStep

\* An admin stays one, unless a call that holds the library's lock writes, the
\* account is removed, or the library goes, which nobody holds then.
LEMMA AdminsStay ==
  ASSUME SharingTypeOK, [SharingNext]_sharingVars, NEW v \in Users, grants[v] = "admin"
  PROVE  \/ grants'[v] = "admin"
         \/ v \in removed' /\ \E u \in Users : Strip(u)
         \/ \E u \in Users : (SetRole(u) \/ DropGrant(u)) /\ call[u].who = v
         \/ ~ LibraryLocked /\ library' = "none"
<1> USE DEF libraryVars, groupVars, accountVars
<1>1. CASE Purge
  BY <1>1 DEF Purge
<1>2. CASE UNCHANGED sharingVars
  BY <1>2 DEF sharingVars
<1>3. ASSUME NEW u \in Users, LibraryCalls(u)
      PROVE  grants'[v] = "admin" \/ ((SetRole(u) \/ DropGrant(u)) /\ call[u].who = v)
  <2>1. CASE SetRole(u) \/ DropGrant(u)
    BY <2>1, CallFields DEF SetRole, DropGrant, Continues, Returns, SharingTypeOK, LibraryLock
  <2>2. CASE CreateLibrary(u) \/ Join(u)
    BY <2>2 DEF CreateLibrary, Join, SharingTypeOK
  <2>3. CASE ~ (SetRole(u) \/ DropGrant(u) \/ CreateLibrary(u) \/ Join(u))
    BY <1>3, <2>3 DEF LibraryCalls, Delete, Restore, Grant, Revoke, Invite, Regrant, Withdraw,
      RevokeGrantOf, Accept, Decline
  <2> QED
    BY <2>1, <2>2, <2>3
<1>4. ASSUME NEW u \in Users, GroupCalls(u)
      PROVE  grants'[v] = "admin"
  BY <1>4, GroupCallsFrame
<1>5. ASSUME NEW u \in Users, AccountCalls(u)
      PROVE  grants'[v] = "admin" \/ (v \in removed' /\ Strip(u))
  BY <1>5, StripEffect, AccountCallsFrame
<1> QED
  BY <1>1, <1>2, <1>3, <1>4, <1>5 DEF SharingNext

\* A call that writes under the library's lock held it and returns.
LEMMA LibraryWrites ==
  ASSUME SharingTypeOK, NEW u \in Users, SetRole(u) \/ DropGrant(u)
  PROVE  call[u].op \in LibraryLock /\ call'[u] = Idle
BY DEF SetRole, DropGrant, Continues, Returns, LibraryLock, SharingTypeOK

\* Every step keeps true what a call counted under the library's lock.
LEMMA AdminsCountedStep ==
  ASSUME SharingIInv, SharingTypeOK', [SharingNext]_sharingVars
  PROVE  AdminsCounted'
<1> USE DEF SharingIInv
<1> SUFFICES ASSUME NEW u \in Users, call'[u].op \in LibraryLock
             PROVE  /\ call'[u].who \notin call'[u].others
                    /\ \A v \in call'[u].others : grants'[v] = "admin" \/ v \in removed'
                    /\ call'[u].others = {} => call'[u].op = "setRole" /\ call'[u].role = "admin"
  BY DEF AdminsCounted
<1>1. CallStep
  BY CallSteps
<1>2. CASE LocksLibrary(u)
  BY <1>2 DEF LocksLibrary, OtherAdmins
<1>3. CASE ~ LocksLibrary(u)
  <2>1. call'[u] = call[u]
    BY <1>1, <1>3 DEF CallStep, Plain, Only, LocksLibrary, LocksGroup, Invites, Removes, Special,
      LibraryLock, GroupLock, Removing, AboutGroup
  <2>2. call[u].others \in SUBSET Users /\ LibraryLocked
    BY <2>1, CallFields DEF SharingTypeOK, LibraryLock, LibraryLocked
  <2>3. \A w \in Users : call[w].op \in LibraryLock => call'[w] # Idle
    BY <2>1 DEF OneHolder, Idle, LibraryLock
  <2>4. removed \subseteq removed'
    <3>1. CASE Purge \/ UNCHANGED sharingVars
      BY <3>1 DEF Purge, sharingVars, accountVars
    <3> QED
      BY <3>1, LibraryCallsFrame, GroupCallsFrame, AccountCallsFrame, StripEffect
      DEF SharingNext, accountVars
  <2>5. \A v \in call[u].others : grants'[v] = "admin" \/ v \in removed'
    BY <2>1, <2>2, <2>3, <2>4, AdminsStay, LibraryWrites DEF AdminsCounted
  <2> QED
    BY <2>1, <2>5 DEF AdminsCounted
<1> QED
  BY <1>2, <1>3

\* A maintainer stays one, unless a call that holds the group's lock writes,
\* the account is removed, or the group goes, which nobody holds then.
LEMMA MaintainersStay ==
  ASSUME SharingTypeOK, GroupInvitations, [SharingNext]_sharingVars, NEW v \in Users,
         members[v] = "maintainer"
  PROVE  \/ members'[v] = "maintainer"
         \/ v \in removed' /\ \E u \in Users : Strip(u)
         \/ \E u \in Users : (SetGroupRole(u) \/ Forced(u) \/ DropMember(u)) /\ call[u].who = v
         \/ ~ GroupLocked /\ ~ group'
<1> USE DEF libraryVars, groupVars, accountVars
<1>1. CASE Purge \/ UNCHANGED sharingVars
  BY <1>1 DEF Purge, sharingVars
<1>2. ASSUME NEW u \in Users, LibraryCalls(u)
      PROVE  members'[v] = "maintainer"
  BY <1>2, LibraryCallsFrame
<1>3. ASSUME NEW u \in Users, GroupCalls(u)
      PROVE  \/ members'[v] = "maintainer"
             \/ (SetGroupRole(u) \/ Forced(u) \/ DropMember(u)) /\ call[u].who = v
             \/ ~ GroupLocked /\ ~ group'
  <2>1. CASE SetGroupRole(u) \/ Forced(u) \/ DropMember(u)
    BY <2>1, CallFields DEF SetGroupRole, Forced, DropMember, Continues, Returns, SharingTypeOK,
      GroupLock
  <2>2. CASE CreateGroup(u)
    BY <2>2 DEF CreateGroup, SharingTypeOK
  <2>3. CASE DeleteGroup(u)
    BY <2>3 DEF DeleteGroup
  <2>4. CASE AcceptGroup(u)
    BY <2>4 DEF AcceptGroup, GroupInvitations, SharingTypeOK
  <2>5. CASE Invited(u) \/ RemovedFromGroup(u)
    BY <2>5, Zenon DEF Invited, RemovedFromGroup
  <2>6. CASE \/ GrantGroup(u) \/ RevokeGroup(u) \/ DeclineGroup(u)
             \/ \E m \in Users, role \in MemberRoles : InviteToGroup(u, m, role)
             \/ \E m \in Users, role \in MemberRoles : ForceIntoGroup(u, m, role)
             \/ \E m \in Users : RemoveFromGroup(u, m)
    BY <2>6 DEF GrantGroup, RevokeGroup, DeclineGroup, InviteToGroup, ForceIntoGroup,
      RemoveFromGroup
  <2> QED
    BY <1>3, <2>1, <2>2, <2>3, <2>4, <2>5, <2>6 DEF GroupCalls
<1>4. ASSUME NEW u \in Users, AccountCalls(u)
      PROVE  members'[v] = "maintainer" \/ (v \in removed' /\ Strip(u))
  BY <1>4, StripEffect, AccountCallsFrame
<1> QED
  BY <1>1, <1>2, <1>3, <1>4 DEF SharingNext

\* A call that writes under the group's lock held it and returns.
LEMMA GroupWrites ==
  ASSUME SharingTypeOK, NEW u \in Users, SetGroupRole(u) \/ Forced(u) \/ DropMember(u)
  PROVE  call[u].op \in GroupLock /\ call'[u] = Idle
BY DEF SetGroupRole, Forced, DropMember, Continues, Returns, GroupLock, SharingTypeOK

\* The group goes only while nobody holds its lock, and the calls about it end.
LEMMA GroupGoes ==
  ASSUME SharingTypeOK, [SharingNext]_sharingVars, group, ~ group'
  PROVE  \E u \in Users : DeleteGroup(u)
<1> USE DEF libraryVars, groupVars, accountVars
<1>1. CASE Purge \/ UNCHANGED sharingVars
  BY <1>1 DEF Purge, sharingVars
<1>2. ASSUME NEW u \in Users, GroupCalls(u), ~ DeleteGroup(u)
      PROVE  FALSE
  <2>1. CASE Invited(u) \/ RemovedFromGroup(u)
    BY <2>1, Zenon DEF Invited, RemovedFromGroup
  <2> QED
    BY <1>2, <2>1 DEF GroupCalls, CreateGroup, GrantGroup, RevokeGroup, InviteToGroup,
      ForceIntoGroup, RemoveFromGroup, SetGroupRole, Forced, DropMember, AcceptGroup, DeclineGroup
<1> QED
  BY <1>1, <1>2, LibraryCallsFrame, AccountCallsFrame, StripEffect DEF SharingNext

\* Every step leaves the calls about the group their group.
LEMMA GroupStaysStep ==
  ASSUME SharingTypeOK, GroupStays, CallStep, [SharingNext]_sharingVars
  PROVE  GroupStays'
<1> USE DEF GroupStays, Special, LibraryLock, GroupLock, Removing, AboutGroup
<1>1. CASE group /\ ~ group'
  <2>1. PICK u \in Users : DeleteGroup(u)
    BY <1>1, GroupGoes
  <2>2. \A v \in Users : call'[v].op \notin GroupLock \cup AboutGroup
    BY <2>1 DEF DeleteGroup, Fail, GroupLocked, Idle, SharingTypeOK
  <2> QED
    BY <2>2
<1>2. CASE ~ group \/ group'
  <2>1. CASE Plain
    <3>1. CASE ~ group
      BY <2>1, <3>1 DEF Plain
    <3>2. CASE group'
      BY <3>2
    <3> QED
      BY <1>2, <3>1, <3>2
  <2>2. ASSUME NEW u \in Users, LocksLibrary(u) \/ LocksGroup(u) \/ Invites(u) \/ Removes(u)
        PROVE  GroupStays'
    BY <2>2 DEF LocksLibrary, LocksGroup, Invites, Removes, Only
  <2> QED
    BY <2>1, <2>2 DEF CallStep
<1> QED
  BY <1>1, <1>2

\* Every step leaves invitations to people outside the group, and none to a
\* group that is gone.
LEMMA GroupInvitationsStep ==
  ASSUME SharingTypeOK, GroupInvitations, GroupStays, [SharingNext]_sharingVars
  PROVE  GroupInvitations'
<1> USE DEF GroupInvitations, libraryVars, groupVars, accountVars
<1>1. CASE Purge \/ UNCHANGED sharingVars
  BY <1>1 DEF Purge, sharingVars
<1>2. ASSUME NEW u \in Users, LibraryCalls(u)
      PROVE  GroupInvitations'
  BY <1>2, LibraryCallsFrame
<1>3. ASSUME NEW u \in Users, GroupCalls(u)
      PROVE  GroupInvitations'
  <2>1. CASE CreateGroup(u) \/ AcceptGroup(u) \/ DeclineGroup(u)
    BY <2>1 DEF CreateGroup, AcceptGroup, DeclineGroup, SharingTypeOK
  <2>2. CASE DeleteGroup(u)
    BY <2>2 DEF DeleteGroup, SharingTypeOK
  <2>3. CASE \/ GrantGroup(u) \/ RevokeGroup(u)
             \/ \E m \in Users, role \in MemberRoles : InviteToGroup(u, m, role)
             \/ \E m \in Users, role \in MemberRoles : ForceIntoGroup(u, m, role)
             \/ \E m \in Users : RemoveFromGroup(u, m)
    <3>1. UNCHANGED <<group, members, groupOffers>>
      BY <2>3 DEF GrantGroup, RevokeGroup, InviteToGroup, ForceIntoGroup, RemoveFromGroup
    <3> QED
      BY <3>1
  <2>4. CASE Invited(u)
    <3> DEFINE m == call[u].who
    <3>1. m \in Users /\ group /\ UNCHANGED <<group, members>>
      BY <2>4, CallFields DEF Invited, Continues, SharingTypeOK, GroupStays, AboutGroup
    <3>2. \/ groupOffers' = groupOffers
          \/ members[m] = "none" /\ groupOffers' = [groupOffers EXCEPT ![m] = call[u].role]
      BY <2>4, Zenon DEF Invited
    <3> QED
      BY <3>1, <3>2 DEF SharingTypeOK
  <2>5. CASE RemovedFromGroup(u)
    <3>1. UNCHANGED <<group, members>>
      BY <2>5, Zenon DEF RemovedFromGroup
    <3>2. \/ groupOffers' = groupOffers
          \/ groupOffers' = [groupOffers EXCEPT ![call[u].who] = "none"]
      BY <2>5, Zenon DEF RemovedFromGroup
    <3> QED
      BY <3>1, <3>2 DEF SharingTypeOK
  <2>6. CASE SetGroupRole(u) \/ Forced(u) \/ DropMember(u)
    BY <2>6 DEF SetGroupRole, Forced, DropMember, SharingTypeOK
  <2> QED
    BY <1>3, <2>1, <2>2, <2>3, <2>4, <2>5, <2>6 DEF GroupCalls
<1>4. ASSUME NEW u \in Users, AccountCalls(u)
      PROVE  GroupInvitations'
  BY <1>4, StripEffect, AccountCallsFrame
<1> QED
  BY <1>1, <1>2, <1>3, <1>4 DEF SharingNext

\* Nobody joins a group whose lock a call holds but by that call.
LEMMA NobodyJoins ==
  ASSUME SharingIInv, [SharingNext]_sharingVars, NEW m \in Users, members[m] = "none",
         GroupLocked, \A u \in Users : call[u].op \in GroupLock => call'[u] # Idle
  PROVE  members'[m] = "none"
<1> USE DEF SharingIInv, libraryVars, groupVars, accountVars
<1>1. CASE Purge \/ UNCHANGED sharingVars
  BY <1>1 DEF Purge, sharingVars
<1>2. ASSUME NEW u \in Users, LibraryCalls(u)
      PROVE  members'[m] = "none"
  BY <1>2, LibraryCallsFrame
<1>3. ASSUME NEW u \in Users, GroupCalls(u)
      PROVE  members'[m] = "none"
  <2>1. CASE SetGroupRole(u) \/ Forced(u) \/ DropMember(u)
    BY <2>1 DEF SetGroupRole, Forced, DropMember, Continues, Returns, GroupLock, SharingTypeOK
  <2>2. CASE CreateGroup(u)
    BY <2>2 DEF CreateGroup, GroupStays, GroupLocked, GroupLock
  <2>3. CASE DeleteGroup(u)
    BY <2>3 DEF DeleteGroup
  <2>4. CASE AcceptGroup(u)
    BY <2>4 DEF AcceptGroup
  <2>5. CASE Invited(u) \/ RemovedFromGroup(u)
    BY <2>5, Zenon DEF Invited, RemovedFromGroup
  <2>6. CASE \/ GrantGroup(u) \/ RevokeGroup(u) \/ DeclineGroup(u)
             \/ \E w \in Users, role \in MemberRoles : InviteToGroup(u, w, role)
             \/ \E w \in Users, role \in MemberRoles : ForceIntoGroup(u, w, role)
             \/ \E w \in Users : RemoveFromGroup(u, w)
    BY <2>6 DEF GrantGroup, RevokeGroup, DeclineGroup, InviteToGroup, ForceIntoGroup,
      RemoveFromGroup
  <2> QED
    BY <1>3, <2>1, <2>2, <2>3, <2>4, <2>5, <2>6 DEF GroupCalls
<1>4. ASSUME NEW u \in Users, AccountCalls(u)
      PROVE  members'[m] = "none"
  BY <1>4, StripEffect, AccountCallsFrame
<1> QED
  BY <1>1, <1>2, <1>3, <1>4 DEF SharingNext

\* Every step keeps true what a call counted under the group's lock.
LEMMA MaintainersCountedStep ==
  ASSUME SharingIInv, SharingTypeOK', [SharingNext]_sharingVars
  PROVE  MaintainersCounted'
<1> USE DEF SharingIInv
<1> SUFFICES ASSUME NEW u \in Users, call'[u].op \in GroupLock
             PROVE  /\ call'[u].who \notin call'[u].others
                    /\ \A v \in call'[u].others : members'[v] = "maintainer" \/ v \in removed'
                    /\ call'[u].others = {} =>
                         \/ call'[u].op # "dropMember" /\ call'[u].role = "maintainer"
                         \/ call'[u].op = "force" /\ members'[call'[u].who] = "none"
  BY DEF MaintainersCounted
<1>1. CallStep
  BY CallSteps
<1>2. CASE LocksGroup(u)
  BY <1>2 DEF LocksGroup, OtherMaintainers
<1>3. CASE ~ LocksGroup(u)
  <2>1. call'[u] = call[u]
    BY <1>1, <1>3 DEF CallStep, Plain, Only, LocksLibrary, LocksGroup, Invites, Removes, Special,
      LibraryLock, GroupLock, Removing, AboutGroup
  <2>2. call[u].others \in SUBSET Users /\ call[u].who \in Users /\ GroupLocked
    BY <2>1, CallFields DEF SharingTypeOK, GroupLock, GroupLocked
  <2>3. \A w \in Users : call[w].op \in GroupLock => call'[w] # Idle
    BY <2>1 DEF OneHolder, Idle, GroupLock
  <2>4. removed \subseteq removed'
    <3>1. CASE Purge \/ UNCHANGED sharingVars
      BY <3>1 DEF Purge, sharingVars, accountVars
    <3> QED
      BY <3>1, LibraryCallsFrame, GroupCallsFrame, AccountCallsFrame, StripEffect
      DEF SharingNext, accountVars
  <2>5. \A v \in call[u].others : members'[v] = "maintainer" \/ v \in removed'
    BY <2>1, <2>2, <2>3, <2>4, MaintainersStay, GroupWrites DEF MaintainersCounted
  <2>6. members[call[u].who] = "none" => members'[call[u].who] = "none"
    BY <2>2, <2>3, NobodyJoins
  <2> QED
    BY <2>1, <2>5, <2>6 DEF MaintainersCounted
<1> QED
  BY <1>2, <1>3

\* The invariant is inductive, whatever overlaps.
THEOREM SharingInvariant == SharingSpec => []SharingIInv
<1>1. SharingInit => SharingIInv
  <2> SUFFICES ASSUME SharingInit PROVE SharingIInv
    OBVIOUS
  <2>1. \A u \in Users : call[u].op = "idle"
    BY DEF SharingInit, Idle
  <2>2. OneHolder /\ GroupStays /\ AdminsCounted /\ MaintainersCounted /\ Removals
    BY <2>1 DEF OneHolder, GroupStays, AdminsCounted, MaintainersCounted, Removals, LibraryLock,
      GroupLock, Removing, AboutGroup
  <2>3. GroupInvitations
    BY DEF SharingInit, GroupInvitations
  <2> QED
    BY <2>2, <2>3, SharingInitType DEF SharingIInv
<1>2. SharingIInv /\ [SharingNext]_sharingVars => SharingIInv'
  <2> SUFFICES ASSUME SharingIInv, [SharingNext]_sharingVars PROVE SharingIInv'
    OBVIOUS
  <2>1. SharingTypeOK'
    BY SharingTypeStep DEF SharingIInv
  <2>2. CallStep
    BY CallSteps DEF SharingIInv
  <2> QED
    BY <2>1, <2>2, HolderStep, GroupStaysStep, GroupInvitationsStep, AdminsCountedStep,
      MaintainersCountedStep, RemovalsStep DEF SharingIInv
<1> QED
  BY <1>1, <1>2, PTL DEF SharingSpec

-----------------------------------------------------------------------------
(* The last admin and the last maintainer. *)

\* One step that takes a library's last admin is a write that counted on
\* removed accounts, or a removal that did not find the account alone.
LEMMA LastAdminStep ==
  ASSUME SharingIInv, SharingTypeOK', [SharingNext]_sharingVars,
         Administered, library' # "none", ~ Administered'
  PROVE  \E u \in Users :
           \/ call[u].op \in {"setRole", "dropGrant"} /\ CountedOnRemoved(u)
           \/ call[u].op = "strip" /\ removed' # removed /\ call[u].admins # {call[u].who}
<1> USE DEF SharingIInv
<1>1. PICK v \in Users : grants[v] = "admin"
  BY DEF Administered
<1>2. CASE \E u \in Users : Strip(u)
  <2>1. PICK u \in Users : Strip(u)
    BY <1>2
  <2>2. /\ call[u].op = "strip" /\ removed' = removed \cup {call[u].who}
        /\ call[u].heirs \in SUBSET Users
        /\ \A w \in Users \ {call[u].who} :
             grants'[w] = IF w \in call[u].heirs THEN "admin" ELSE grants[w]
    BY <2>1, StripEffect
  <2>3. call[u].who \notin removed /\ call[u].who \notin call[u].heirs
    BY <2>2 DEF Removals, Removing
  <2>4. call[u].heirs = {}
    BY <2>2, <2>3 DEF Administered
  <2>5. call[u].admins # {call[u].who}
    BY <2>2, <2>4 DEF Removals
  <2> QED
    BY <2>2, <2>3, <2>5
<1>3. CASE ~ \E u \in Users : Strip(u)
  <2>1. PICK u \in Users : (SetRole(u) \/ DropGrant(u)) /\ call[u].who = v
    BY <1>1, <1>3, AdminsStay DEF Administered
  <2>2. call[u].op \in LibraryLock /\ call'[u] = Idle
    BY <2>1, LibraryWrites
  <2>3. call[u].others \in SUBSET Users
    BY <2>2, CallFields DEF LibraryLock, SharingTypeOK
  <2>4. ASSUME NEW w \in call[u].others, w \notin removed
        PROVE  FALSE
    <3>1. w \in Users /\ w # v /\ grants[w] = "admin"
      BY <2>1, <2>2, <2>3, <2>4 DEF AdminsCounted
    <3>2. PICK x \in Users : (SetRole(x) \/ DropGrant(x)) /\ call[x].who = w
      BY <1>3, <3>1, AdminsStay DEF Administered
    <3>3. x = u
      BY <2>2, <3>2, LibraryWrites DEF OneHolder
    <3> QED
      BY <2>1, <3>1, <3>2, <3>3
  <2>5. call[u].others # {}
    <3>1. ASSUME SetRole(u), call[u].role = "admin"
          PROVE  grants'[v] = "admin"
      BY <1>1, <2>1, <3>1 DEF SetRole, SharingTypeOK
    <3>2. DropGrant(u) => call[u].op = "dropGrant"
      BY DEF DropGrant, Continues
    <3> QED
      BY <2>1, <2>2, <3>1, <3>2 DEF AdminsCounted, Administered
  <2> QED
    BY <2>2, <2>4, <2>5 DEF CountedOnRemoved, LibraryLock
<1> QED
  BY <1>2, <1>3

\* However grants, acceptances, demotions, departures and removals of any
\* number of people overlap, a library loses its last admin only to a removal
\* that ran beside another call: admins_left counts under the lock, and
\* password_account_removed hands over what the account alone administered.
THEOREM AdminKept == SharingSpec => LastAdminGoesBeside
<1>1. SharingIInv /\ SharingIInv' /\ [SharingNext]_sharingVars =>
        (Administered /\ library' # "none" /\ ~ Administered' =>
           \E u \in Users :
             \/ call[u].op \in {"setRole", "dropGrant"} /\ CountedOnRemoved(u)
             \/ /\ call[u].op = "strip" /\ removed' # removed
                /\ call[u].admins # {call[u].who})
  BY LastAdminStep DEF SharingIInv
<1> QED
  BY <1>1, SharingInvariant, PTL DEF SharingSpec, LastAdminGoesBeside

\* One step that takes a group's last maintainer and removes nobody is a write
\* that counted on removed accounts.
LEMMA LastMaintainerStep ==
  ASSUME SharingIInv, SharingTypeOK', [SharingNext]_sharingVars,
         Maintained, group', removed' = removed, ~ Maintained'
  PROVE  \E u \in Users : /\ call[u].op \in {"setGroupRole", "force", "dropMember"}
                          /\ CountedOnRemoved(u)
<1> USE DEF SharingIInv
<1>1. PICK v \in Users : members[v] = "maintainer"
  BY DEF Maintained
<1>2. ~ \E u \in Users : Strip(u)
  <2>1. ASSUME NEW u \in Users, Strip(u)
        PROVE  FALSE
    <3>1. removed' = removed \cup {call[u].who} /\ call[u].op = "strip"
      BY <2>1, StripEffect
    <3> QED
      BY <3>1 DEF Removals, Removing
  <2> QED
    BY <2>1
<1>3. PICK u \in Users : (SetGroupRole(u) \/ Forced(u) \/ DropMember(u)) /\ call[u].who = v
  BY <1>1, <1>2, MaintainersStay DEF Maintained
<1>4. call[u].op \in GroupLock /\ call'[u] = Idle
  BY <1>3, GroupWrites
<1>5. call[u].others \in SUBSET Users
  BY <1>4, CallFields DEF GroupLock, SharingTypeOK
<1>6. ASSUME NEW w \in call[u].others, w \notin removed
      PROVE  FALSE
  <2>1. w \in Users /\ w # v /\ members[w] = "maintainer"
    BY <1>3, <1>4, <1>5, <1>6 DEF MaintainersCounted
  <2>2. PICK x \in Users : (SetGroupRole(x) \/ Forced(x) \/ DropMember(x)) /\ call[x].who = w
    BY <1>2, <2>1, MaintainersStay DEF Maintained
  <2>3. x = u
    BY <1>4, <2>2, GroupWrites DEF OneHolder
  <2> QED
    BY <1>3, <2>1, <2>2, <2>3
<1>7. call[u].others # {}
  <2>1. ASSUME SetGroupRole(u) \/ Forced(u), call[u].role = "maintainer"
        PROVE  members'[v] = "maintainer"
    BY <1>1, <1>3, <2>1 DEF SetGroupRole, Forced, SharingTypeOK
  <2>2. DropMember(u) => call[u].op = "dropMember"
    BY DEF DropMember, Continues
  <2> QED
    BY <1>1, <1>3, <1>4, <2>1, <2>2 DEF MaintainersCounted, Maintained
<1> QED
  BY <1>4, <1>6, <1>7 DEF CountedOnRemoved, GroupLock

\* Whatever overlaps, a group loses its last maintainer only when an account
\* is removed, or when everyone a call counted under the lock was removed
\* before it wrote: invite_to_group, force_into_group and remove_from_group
\* count the others, and nobody accepts an invitation to a group they are in.
THEOREM MaintainerKept == SharingSpec => MaintainerGoesWithAccount
<1>1. SharingIInv /\ SharingIInv' /\ [SharingNext]_sharingVars =>
        (Maintained /\ group' /\ removed' = removed /\ ~ Maintained' =>
           \E u \in Users : /\ call[u].op \in {"setGroupRole", "force", "dropMember"}
                            /\ CountedOnRemoved(u))
  BY LastMaintainerStep DEF SharingIInv
<1> QED
  BY <1>1, SharingInvariant, PTL DEF SharingSpec, MaintainerGoesWithAccount

=============================================================================
