--------------------------- MODULE IdentityProofs ---------------------------
(***************************************************************************)
(* Proofs about Identity for every number of requests and servers and      *)
(* whatever their tokens state.                                            *)
(***************************************************************************)
EXTENDS Identity, TLAPS

-----------------------------------------------------------------------------
(* The parts of the inductive invariant. *)

Identities == {"none"} \cup {TokenOf[r].identity : r \in Requests}
Usernames == {"none"} \cup {UsernameOf(TokenOf[r]) : r \in Requests}
UserRow == [identity : Identities, username : Usernames, exists : BOOLEAN]
ResolveState ==
  [pc : {"arrived", "401", "403", "500", "find", "claim", "create", "findTwin", "remember", "served"},
   server : Servers \cup {"none"}, user : Accounts \cup {"none"}]

IdentityTypeOK ==
  /\ users \in [Accounts -> UserRow]
  /\ resolve \in [Requests -> ResolveState]

\* A request past Protect has an identity.
Protected ==
  \A r \in Requests :
    resolve[r].pc \in {"find", "claim", "create", "findTwin", "remember", "served"}
      => TokenOf[r].identity # "none"

\* Only the owner claims the library from before accounts, and goes on to
\* make an account only once it is claimed.
OwnerClaims ==
  /\ users[Builtin].exists
  /\ users[Builtin].identity \in {"none", DefaultOwner}
  /\ \A r \in Requests : resolve[r].pc = "claim" => TokenOf[r].identity = DefaultOwner
  /\ \A r \in Requests :
       resolve[r].pc \in {"create", "findTwin"} /\ TokenOf[r].identity = DefaultOwner
         => users[Builtin].identity = DefaultOwner

\* An account a request made is for the identity of that request, which is
\* not the owner, and no other account is.
AccountsAreUnique ==
  /\ \A r \in Requests : users[r].exists =>
       /\ users[r].identity = TokenOf[r].identity
       /\ users[r].identity # "none"
       /\ users[r].identity # DefaultOwner
  /\ \A r, t \in Requests :
       users[r].exists /\ users[t].exists /\ users[r].identity = users[t].identity => r = t

\* A request acts for the account of its identity.
ActsForItself ==
  \A r \in Requests : Served(r) =>
    /\ resolve[r].user \in Accounts
    /\ users[resolve[r].user].exists
    /\ users[resolve[r].user].identity = TokenOf[r].identity

AccountInv ==
  /\ IdentityTypeOK
  /\ Protected
  /\ OwnerClaims
  /\ AccountsAreUnique
  /\ ActsForItself

\* A stamp is given once.
StampsDiffer ==
  /\ clock \in Nat
  /\ keys \in [Servers -> [stamp : Nat, stored : {0, 1}]]
  /\ \A s \in Servers : keys[s].stamp <= clock /\ (keys[s].stored # 0 => keys[s].stamp # 0)
  /\ \A s, t \in Servers : keys[s].stamp = keys[t].stamp /\ keys[s].stamp # 0 => s = t

\* Whatever is stored is older than whatever is not.
StoredInOrder ==
  \A s \in Stored, t \in Servers \ Stored : keys[t].stamp # 0 => keys[s].stamp < keys[t].stamp

\* The oldest key among K is older than every key that is stored.
HoldsFirst(K) == \E k \in K : \A l \in Stored : keys[k].stamp <= keys[l].stamp

\* A server that loaded its keys has the first one ever stored.
FirstIsHeld ==
  /\ Stored # {} => HoldsFirst(Stored)
  /\ keyring \in [Servers -> SUBSET Servers]
  /\ \A s \in Servers : keyring[s] \subseteq Stored /\ (keyring[s] # {} => HoldsFirst(keyring[s]))

KeyInv == StampsDiffer /\ StoredInOrder /\ FirstIsHeld

-----------------------------------------------------------------------------
(* Keys. *)

\* With inserts that become visible in the order of their stamps, the first
\* key stays the first.
LEMMA KeyStep ==
  ASSUME OrderedInserts, KeyInv, [IdentityNext]_identityVars
  PROVE  KeyInv'
<1> USE DEF KeyInv, StampsDiffer, StoredInOrder, FirstIsHeld, HoldsFirst, Stored
<1>1. ASSUME NEW s \in Servers, LoadKeys(s)
      PROVE  KeyInv'
  <2>1. CASE Stored # {} /\ keyring' = [keyring EXCEPT ![s] = Stored] /\ UNCHANGED <<keys, clock>>
    BY <2>1
  <2>2. CASE Stored = {} /\ clock' = clock + 1 /\ keys' = [keys EXCEPT ![s].stamp = clock + 1]
             /\ UNCHANGED keyring
    BY <1>1, <2>2 DEF LoadKeys, NoKey
  <2> QED
    BY <1>1, <2>1, <2>2 DEF LoadKeys
<1>2. ASSUME NEW s \in Servers, AddKey(s)
      PROVE  KeyInv'
  <2>1. /\ keys[s].stamp # 0 /\ keys[s].stored = 0
        /\ keys' = [keys EXCEPT ![s].stored = 1]
        /\ UNCHANGED <<keyring, clock>>
    BY <1>2 DEF AddKey
  <2>2. \A t \in Servers \ Stored : keys[t].stamp # 0 => keys[s].stamp <= keys[t].stamp
    BY <1>2 DEF AddKey
  <2>3. Stored' = Stored \cup {s} /\ \A t \in Servers : keys'[t].stamp = keys[t].stamp
    BY <2>1
  <2>4. StampsDiffer'
    BY <2>1
  <2>5. StoredInOrder'
    BY <2>1, <2>2, <2>3
  <2>6. \A l \in Stored : keys[l].stamp < keys[s].stamp
    BY <2>1
  <2>7. ASSUME NEW K \in SUBSET Stored, HoldsFirst(K)
        PROVE  HoldsFirst(K)'
    BY <2>3, <2>6, <2>7
  <2>8. HoldsFirst(Stored)'
    BY <2>3, <2>6, <2>1
  <2>9. FirstIsHeld'
    BY <2>1, <2>3, <2>7, <2>8
  <2> QED
    BY <2>4, <2>5, <2>9
<1>3. ASSUME NEW s \in Servers, ReadKeys(s)
      PROVE  KeyInv'
  BY <1>3 DEF ReadKeys
<1>4. CASE UNCHANGED <<keys, keyring, clock>>
  BY <1>4
<1>5. ASSUME ~ \E s \in Servers : LoadKeys(s) \/ AddKey(s) \/ ReadKeys(s)
      PROVE  UNCHANGED <<keys, keyring, clock>>
  BY <1>5, Zenon DEF IdentityNext, Verify, Unchecked, SendAgain, IssuerRevokes, Resolve, Find, ClaimBuiltin,
    Create, FindTwin, ResolveFails, Remember, RefusalForgotten, identityVars
<1> QED
  BY <1>1, <1>2, <1>3, <1>4, <1>5

-----------------------------------------------------------------------------
(* Accounts. *)

\* Moving one request to a state with its type keeps the table's type.
LEMMA GoesType ==
  ASSUME IdentityTypeOK, NEW r \in Requests, NEW pc, Goes(r, pc),
         pc \in {"arrived", "401", "403", "500", "find", "claim", "create", "findTwin", "served"}
  PROVE  /\ resolve' \in [Requests -> ResolveState]
         /\ resolve'[r].pc = pc /\ resolve'[r].user = resolve[r].user
         /\ \A t \in Requests \ {r} : resolve'[t] = resolve[t]
BY DEF IdentityTypeOK, Goes, ResolveState

\* A request that found its account acts for it.
LEMMA ActsType ==
  ASSUME IdentityTypeOK, NEW r \in Requests, NEW u \in Accounts, Acts(r, u)
  PROVE  /\ resolve' \in [Requests -> ResolveState]
         /\ resolve'[r].pc = "remember" /\ resolve'[r].user = u
         /\ \A t \in Requests \ {r} : resolve'[t] = resolve[t]
BY DEF IdentityTypeOK, Acts, ResolveState

\* A step that moves requests without resolving them to an account.
LEMMA UnresolvedStep ==
  ASSUME AccountInv, UNCHANGED users, NEW r \in Requests,
         resolve' \in [Requests -> ResolveState],
         \A t \in Requests \ {r} : resolve'[t] = resolve[t],
         resolve'[r].pc \in {"arrived", "401", "403", "500", "find"},
         resolve'[r].pc = "find" => TokenOf[r].identity # "none"
  PROVE  AccountInv'
BY DEF AccountInv, IdentityTypeOK, Protected, OwnerClaims, AccountsAreUnique, ActsForItself, Served

\* A step that makes a request act for the account of its identity.
LEMMA FoundStep ==
  ASSUME AccountInv, UNCHANGED users, NEW r \in Requests,
         TokenOf[r].identity # "none",
         NEW u \in AccountOf(TokenOf[r].identity), Acts(r, u)
  PROVE  AccountInv'
<1>1. u \in Accounts /\ users[u].exists /\ users[u].identity = TokenOf[r].identity
  BY DEF AccountOf
<1> QED
  BY <1>1, ActsType
  DEF AccountInv, IdentityTypeOK, Protected, OwnerClaims, AccountsAreUnique, ActsForItself, Served

\* Protect and the outcomes without an account.
LEMMA ProtectStep ==
  ASSUME AccountInv, NEW r \in Requests, NEW s \in Servers,
         Verify(r, s) \/ Unchecked(r, s) \/ SendAgain(r) \/ ResolveFails(r)
  PROVE  AccountInv'
<1>1. CASE Verify(r, s)
  <2> DEFINE token == TokenOf[r]
             inactive == token.form = "opaque" /\ r \notin active
             answer == IF inactive \/ r \in refused[s] \/ ~ Checks(token) THEN "401"
                       ELSE IF ~ token.scoped \/ ~ Allowed(token) THEN "403"
                       ELSE "find"
  <2>1. resolve' = [resolve EXCEPT ![r] = [pc |-> answer, server |-> s, user |-> "none"]]
    BY <1>1, Zenon DEF Verify
  <2>2. UNCHANGED users
    BY <1>1 DEF Verify
  <2>3. answer \in {"401", "403", "find"} /\ (answer = "find" => token.identity # "none")
    BY DEF Checks
  <2> HIDE DEF answer
  <2>4. resolve' \in [Requests -> ResolveState]
    BY <2>1, <2>3 DEF AccountInv, IdentityTypeOK, ResolveState
  <2>5. resolve'[r].pc = answer /\ \A t \in Requests \ {r} : resolve'[t] = resolve[t]
    BY <2>1 DEF AccountInv, IdentityTypeOK
  <2> QED
    BY <2>2, <2>3, <2>4, <2>5, UnresolvedStep
<1>2. CASE Unchecked(r, s) \/ SendAgain(r) \/ ResolveFails(r)
  <2>1. UNCHANGED users /\ (Goes(r, "500") \/ Goes(r, "arrived"))
    BY <1>2 DEF Unchecked, SendAgain, ResolveFails
  <2> QED
    BY <2>1, GoesType, UnresolvedStep DEF AccountInv
<1> QED
  BY <1>1, <1>2

\* Finding the account of an identity, or its twin's.
LEMMA FindStep ==
  ASSUME AccountInv, NEW r \in Requests, Find(r) \/ FindTwin(r)
  PROVE  AccountInv'
<1> DEFINE i == TokenOf[r].identity
<1>1. UNCHANGED users /\ i # "none"
  BY DEF Find, FindTwin, AccountInv, Protected
<1>2. CASE \E u \in AccountOf(i) : Acts(r, u)
  BY <1>1, <1>2, FoundStep
<1>3. CASE Goes(r, "403") \/ Goes(r, "500")
  BY <1>1, <1>3, GoesType, UnresolvedStep DEF AccountInv
<1>4. CASE i = DefaultOwner /\ Goes(r, "claim")
  BY <1>1, <1>4, GoesType
  DEF AccountInv, IdentityTypeOK, Protected, OwnerClaims, AccountsAreUnique, ActsForItself, Served
<1>5. CASE i # DefaultOwner /\ Goes(r, "create")
  BY <1>1, <1>5, GoesType
  DEF AccountInv, IdentityTypeOK, Protected, OwnerClaims, AccountsAreUnique, ActsForItself, Served
<1> QED
  BY <1>2, <1>3, <1>4, <1>5 DEF Find, FindTwin

\* claim_builtin gives the library from before accounts to the owner, once.
LEMMA ClaimStep ==
  ASSUME AccountInv, NEW r \in Requests, ClaimBuiltin(r)
  PROVE  AccountInv'
<1> USE IdentityAssumption
<1>0. TokenOf[r].identity = DefaultOwner /\ DefaultOwner # "none" /\ DefaultOwner \in Identities
  BY DEF ClaimBuiltin, AccountInv, OwnerClaims, Protected, Identities
<1>1. CASE /\ users[Builtin].identity = "none"
           /\ users' = [users EXCEPT ![Builtin].identity = TokenOf[r].identity]
           /\ Acts(r, Builtin)
  <2>1. /\ users' \in [Accounts -> UserRow]
        /\ users'[Builtin].identity = DefaultOwner
        /\ users'[Builtin].exists = users[Builtin].exists
        /\ \A u \in Requests : users'[u] = users[u]
    BY <1>0, <1>1 DEF AccountInv, IdentityTypeOK, UserRow, Accounts
  <2>2. /\ resolve' \in [Requests -> ResolveState]
        /\ resolve'[r].pc = "remember" /\ resolve'[r].user = Builtin
        /\ \A t \in Requests \ {r} : resolve'[t] = resolve[t]
    BY <1>1, ActsType DEF AccountInv, Accounts
  <2>3. OwnerClaims'
    BY <2>1, <2>2 DEF AccountInv, OwnerClaims
  <2>4. AccountsAreUnique'
    BY <2>1 DEF AccountInv, AccountsAreUnique
  <2>5. ActsForItself'
    <3> SUFFICES ASSUME NEW t \in Requests, Served(t)'
                 PROVE  /\ resolve'[t].user \in Accounts
                        /\ users'[resolve'[t].user].exists
                        /\ users'[resolve'[t].user].identity = TokenOf[t].identity
      BY DEF ActsForItself
    <3>1. CASE t = r
      BY <1>0, <2>1, <2>2, <3>1 DEF AccountInv, OwnerClaims, Accounts
    <3>2. CASE t # r
      <4>1. Served(t) /\ resolve'[t] = resolve[t] /\ TokenOf[t].identity # "none"
        BY <2>2, <3>2 DEF Served, AccountInv, Protected
      <4>2. /\ resolve[t].user \in Accounts
            /\ users[resolve[t].user].exists
            /\ users[resolve[t].user].identity = TokenOf[t].identity
        BY <4>1 DEF AccountInv, ActsForItself
      <4>3. resolve[t].user # Builtin
        BY <1>1, <4>1, <4>2
      <4>4. users'[resolve[t].user] = users[resolve[t].user]
        BY <2>1, <4>2, <4>3 DEF Accounts
      <4> QED
        BY <4>1, <4>2, <4>4
    <3> QED
      BY <3>1, <3>2
  <2>6. Protected'
    BY <1>0, <2>2 DEF AccountInv, Protected
  <2> QED
    BY <2>1, <2>2, <2>3, <2>4, <2>5, <2>6 DEF AccountInv, IdentityTypeOK
<1>2. CASE users[Builtin].identity # "none" /\ UNCHANGED users /\ Goes(r, "create")
  BY <1>0, <1>2, GoesType
  DEF AccountInv, IdentityTypeOK, Protected, OwnerClaims, AccountsAreUnique, ActsForItself, Served
<1>3. CASE UNCHANGED users /\ Goes(r, "403")
  BY <1>3, GoesType, UnresolvedStep DEF AccountInv
<1> QED
  BY <1>1, <1>2, <1>3 DEF ClaimBuiltin

\* create_account makes an account for an identity that has none.
LEMMA CreateStep ==
  ASSUME AccountInv, NEW r \in Requests, Create(r)
  PROVE  AccountInv'
<1> USE IdentityAssumption
<1> DEFINE i == TokenOf[r].identity
<1>0. i # "none" /\ i \in Identities /\ resolve[r].pc = "create"
  BY DEF Create, AccountInv, Protected, Identities
<1>1. CASE /\ AccountOf(i) = {}
           /\ users' = [users EXCEPT ![r] = [NoUser EXCEPT !.identity = i, !.exists = TRUE]]
           /\ Acts(r, r)
  <2> DEFINE row == [NoUser EXCEPT !.identity = i, !.exists = TRUE]
  <2>a. \A j \in Identities : [NoUser EXCEPT !.identity = j, !.exists = TRUE] \in UserRow
    BY DEF NoUser, UserRow, Usernames
  <2>b. row \in UserRow /\ row.identity = i /\ row.exists
    BY <1>0, <2>a DEF NoUser
  <2>c. users' = [users EXCEPT ![r] = row]
    BY <1>1
  <2> HIDE DEF row
  <2>1. /\ users' \in [Accounts -> UserRow]
        /\ users'[r].identity = i /\ users'[r].exists
        /\ \A u \in Accounts \ {r} : users'[u] = users[u]
    BY <2>b, <2>c DEF AccountInv, IdentityTypeOK, Accounts
  <2>2. /\ resolve' \in [Requests -> ResolveState]
        /\ resolve'[r].pc = "remember" /\ resolve'[r].user = r
        /\ \A t \in Requests \ {r} : resolve'[t] = resolve[t]
    BY <1>1, ActsType DEF AccountInv, Accounts
  <2>3. \A u \in Accounts : ~ (users[u].exists /\ users[u].identity = i)
    BY <1>1 DEF AccountOf
  <2>4. i # DefaultOwner
    BY <1>0, <2>3 DEF AccountInv, OwnerClaims, Accounts
  <2>5. ~ users[r].exists
    BY <2>3 DEF AccountInv, AccountsAreUnique, Accounts
  <2>6. Builtin # r /\ users'[Builtin] = users[Builtin]
    BY <2>1 DEF Accounts
  <2>7. OwnerClaims'
    BY <2>2, <2>6 DEF AccountInv, OwnerClaims
  <2>8. AccountsAreUnique'
    BY <1>0, <2>1, <2>3, <2>4 DEF AccountInv, AccountsAreUnique, Accounts
  <2>9. ActsForItself'
    BY <2>1, <2>2, <2>5 DEF AccountInv, ActsForItself, Served, Accounts
  <2>10. Protected'
    BY <1>0, <2>2 DEF AccountInv, Protected
  <2> QED
    BY <2>1, <2>2, <2>7, <2>8, <2>9, <2>10 DEF AccountInv, IdentityTypeOK
<1>2. CASE UNCHANGED users /\ Goes(r, "findTwin")
  BY <1>0, <1>2, GoesType
  DEF AccountInv, IdentityTypeOK, Protected, OwnerClaims, AccountsAreUnique, ActsForItself, Served
<1> QED
  BY <1>1, <1>2 DEF Create

\* remember changes a username and nothing else.
LEMMA RememberStep ==
  ASSUME AccountInv, NEW r \in Requests, Remember(r)
  PROVE  AccountInv'
<1> DEFINE u == resolve[r].user
           name == UsernameOf(TokenOf[r])
<1>1. /\ u \in Accounts /\ TokenOf[r].identity # "none"
      /\ users[u].exists /\ users[u].identity = TokenOf[r].identity
  BY DEF Remember, AccountInv, Protected, ActsForItself, Served
<1>2. users' = users \/ users' = [users EXCEPT ![u].username = name]
  BY Zenon DEF Remember
<1>3. name \in Usernames
  BY DEF Usernames
<1> HIDE DEF name
<1>4. /\ users' \in [Accounts -> UserRow]
      /\ \A v \in Accounts : users'[v].identity = users[v].identity
                             /\ users'[v].exists = users[v].exists
  BY <1>1, <1>2, <1>3 DEF AccountInv, IdentityTypeOK, UserRow
<1>5. /\ resolve' \in [Requests -> ResolveState]
      /\ resolve'[r].pc = "served" /\ resolve'[r].user = resolve[r].user
      /\ \A t \in Requests \ {r} : resolve'[t] = resolve[t]
  BY GoesType DEF Remember, AccountInv
<1>6. resolve[r].pc = "remember"
  BY DEF Remember
<1> QED
  BY <1>1, <1>4, <1>5, <1>6
  DEF AccountInv, IdentityTypeOK, Protected, OwnerClaims, AccountsAreUnique, ActsForItself, Served,
    Accounts

\* Every step keeps an identity to its account.
LEMMA AccountStep ==
  ASSUME AccountInv, [IdentityNext]_identityVars
  PROVE  AccountInv'
<1>1. CASE UNCHANGED <<users, resolve>>
  BY <1>1
  DEF AccountInv, IdentityTypeOK, Protected, OwnerClaims, AccountsAreUnique, ActsForItself, Served
<1>2. CASE \/ \E r \in Requests : IssuerRevokes(r)
           \/ \E s \in Servers : RefusalForgotten(s) \/ LoadKeys(s) \/ AddKey(s) \/ ReadKeys(s)
           \/ UNCHANGED identityVars
  BY <1>1, <1>2
  DEF IssuerRevokes, RefusalForgotten, LoadKeys, AddKey, ReadKeys, identityVars
<1>3. ASSUME NEW r \in Requests, ResolveFails(r) \/ SendAgain(r)
      PROVE  AccountInv'
  BY <1>3, GoesType, UnresolvedStep DEF ResolveFails, SendAgain, AccountInv
<1> QED
  BY <1>2, <1>3, ProtectStep, FindStep, ClaimStep, CreateStep, RememberStep
  DEF IdentityNext, Resolve

\* No account has an identity and no key is made when the servers start.
LEMMA IdentityStart ==
  ASSUME IdentityInit
  PROVE  AccountInv /\ KeyInv
<1> USE IdentityAssumption
<1>1. IdentityTypeOK
  <2>1. \A b \in BOOLEAN : [NoUser EXCEPT !.exists = b] \in UserRow
    BY DEF NoUser, UserRow, Identities, Usernames
  <2>2. users \in [Accounts -> UserRow]
    BY <2>1 DEF IdentityInit
  <2>3. resolve \in [Requests -> ResolveState]
    BY DEF IdentityInit, ResolveState
  <2> QED
    BY <2>2, <2>3 DEF IdentityTypeOK
<1>2. \A r \in Requests : resolve[r].pc = "arrived"
  BY DEF IdentityInit
<1>3. users[Builtin].exists /\ users[Builtin].identity = "none"
  BY DEF IdentityInit, NoUser, Accounts
<1>4. \A r \in Requests : ~ users[r].exists
  BY DEF IdentityInit, NoUser, Accounts
<1>5. Protected /\ OwnerClaims /\ AccountsAreUnique /\ ActsForItself
  BY <1>2, <1>3, <1>4 DEF Protected, OwnerClaims, AccountsAreUnique, ActsForItself, Served
<1>6. KeyInv
  BY DEF IdentityInit, KeyInv, StampsDiffer, StoredInOrder, FirstIsHeld, HoldsFirst, Stored, NoKey
<1> QED
  BY <1>1, <1>5, <1>6 DEF AccountInv

-----------------------------------------------------------------------------
(* Theorems. *)

\* The inductive invariant of the accounts: whatever the requests, tokens and
\* servers, and however the statements of Accounts.Resolve interleave.
THEOREM IdentityInvariant == IdentitySpec => []AccountInv
<1>1. IdentityInit => AccountInv
  BY IdentityStart
<1>2. AccountInv /\ [IdentityNext]_identityVars => AccountInv'
  BY AccountStep
<1> QED
  BY <1>1, <1>2, PTL DEF IdentitySpec

\* However the first requests of an identity race through Accounts.Resolve,
\* it acts as one account, which is nobody else's, and the owner the policy
\* names gets the library from before accounts.
THEOREM OneAccount == IdentitySpec => []OneAccountPerIdentity
<1>1. AccountInv => OneAccountPerIdentity
  <2> SUFFICES ASSUME AccountInv PROVE OneAccountPerIdentity
    OBVIOUS
  <2> USE IdentityAssumption
  <2>1. ASSUME NEW r \in Requests, NEW t \in Requests, Served(r), Served(t)
        PROVE  resolve[r].user = resolve[t].user <=> TokenOf[r].identity = TokenOf[t].identity
    <3> DEFINE u == resolve[r].user
               v == resolve[t].user
    <3>1. /\ u \in Accounts /\ users[u].exists /\ users[u].identity = TokenOf[r].identity
          /\ v \in Accounts /\ users[v].exists /\ users[v].identity = TokenOf[t].identity
      BY <2>1 DEF AccountInv, ActsForItself
    <3>2. users[u].identity # "none" /\ users[v].identity # "none"
      BY <2>1, <3>1 DEF AccountInv, Protected, Served
    <3>3. users[u].identity = users[v].identity => u = v
      BY <3>1, <3>2 DEF AccountInv, OwnerClaims, AccountsAreUnique, Accounts
    <3> QED
      BY <3>1, <3>3
  <2>2. ASSUME NEW r \in Requests, Served(r), TokenOf[r].identity = DefaultOwner
        PROVE  resolve[r].user = Builtin
    BY <2>2 DEF AccountInv, ActsForItself, AccountsAreUnique, Accounts
  <2> QED
    BY <2>1, <2>2 DEF OneAccountPerIdentity
<1> QED
  BY <1>1, IdentityInvariant, PTL

\* When keys become visible in the order keyring.load stamped them, the key
\* any server signs with is known to every server that has loaded its keys.
THEOREM KeysKnown ==
  ASSUME OrderedInserts
  PROVE  IdentitySpec => []KeysAgree
<1>1. IdentityInit => KeyInv
  BY IdentityStart
<1>2. KeyInv /\ [IdentityNext]_identityVars => KeyInv'
  BY KeyStep
<1>3. KeyInv => KeysAgree
  <2> SUFFICES ASSUME KeyInv, NEW s \in Servers, NEW t \in Servers, keyring[s] # {}, keyring[t] # {}
               PROVE  SigningKey(s) \in keyring[t]
    BY DEF KeysAgree
  <2>1. PICK k \in keyring[s] : \A l \in Stored : keys[k].stamp <= keys[l].stamp
    BY DEF KeyInv, FirstIsHeld, HoldsFirst
  <2>2. PICK m \in keyring[t] : \A l \in Stored : keys[m].stamp <= keys[l].stamp
    BY DEF KeyInv, FirstIsHeld, HoldsFirst
  <2>3. k \in Stored /\ m \in Stored /\ keyring[s] \subseteq Stored
    BY DEF KeyInv, FirstIsHeld
  <2>4. \E j \in keyring[s] : \A l \in keyring[s] : keys[j].stamp <= keys[l].stamp
    BY <2>1, <2>3
  <2> DEFINE j == SigningKey(s)
  <2>5. j \in keyring[s] /\ \A l \in keyring[s] : keys[j].stamp <= keys[l].stamp
    BY <2>4 DEF SigningKey
  <2> HIDE DEF j
  <2>6. /\ j \in Servers /\ m \in Servers /\ k \in Servers /\ keys[j].stamp # 0
        /\ keys[j].stamp \in Nat /\ keys[m].stamp \in Nat /\ keys[k].stamp \in Nat
    BY <2>3, <2>5 DEF Stored, KeyInv, StampsDiffer
  <2>7. keys[j].stamp = keys[m].stamp
    BY <2>1, <2>2, <2>3, <2>5, <2>6
  <2>8. j = m
    BY <2>6, <2>7 DEF KeyInv, StampsDiffer
  <2> QED
    BY <2>8 DEF j
<1> QED
  BY <1>1, <1>2, <1>3, PTL DEF IdentitySpec

=============================================================================
