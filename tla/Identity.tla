------------------------------ MODULE Identity ------------------------------
(***************************************************************************)
(* Who a request acts for, and the keys that sign its token.               *)
(*                                                                         *)
(* A request passes Protect, which asks whether its token was issued for   *)
(* docsearch, and then Accounts.Middleware, which finds or makes the       *)
(* account of its identity, hands the library from before accounts to its  *)
(* owner, and records the username invitations are sent to.  Requests and  *)
(* servers interleave at every statement.                                  *)
(***************************************************************************)
EXTENDS Naturals, FiniteSets

CONSTANTS
  Requests,       \* the requests in flight
  TokenOf,        \* TokenOf[r]: the bearer token of request r
  Servers,        \* the processes that answer them
  DefaultOwner,   \* the identity the built-in library is for
  SignUp,         \* whether the policy makes accounts
  UsernameClaim,  \* the claim a username is taken from, or none
  Required,       \* whether the policy requires a claim of every token
  OrderedInserts  \* whether keys become visible in the order of their stamps

\* What an issuer may state in a token, as far as the checks tell it apart.
Token == [form : {"signed", "opaque"}, issuer : {"ours", "theirs"},
          identity : STRING, forUs : BOOLEAN, scoped : BOOLEAN, claimed : BOOLEAN,
          email : STRING, verified : BOOLEAN, preferred : STRING]

\* The account of the library from before accounts; the account a request
\* makes has its name.
Builtin == "default"
Accounts == Requests \cup {Builtin}

ASSUME IdentityAssumption ==
  /\ TokenOf \in [Requests -> Token]
  /\ Builtin \notin Requests
  /\ SignUp \in BOOLEAN /\ OrderedInserts \in BOOLEAN /\ Required \in BOOLEAN
  /\ UsernameClaim \in {"none", "email", "preferred_username"}

VARIABLES
  active,   \* the opaque tokens the issuer still calls active
  users,    \* users[u]: the row of account u
  resolve,  \* resolve[r]: how far request r has got, where, and as whom
  refused,  \* refused[s]: the tokens server s remembers to be inactive
  named,    \* named[s][u]: the username server s remembers to have recorded
  keys,     \* keys[s]: the key server s made, when it was stamped and stored
  keyring,  \* keyring[s]: the keys server s loaded, once it has
  clock     \* the stamps given to keys

identityVars == <<active, users, resolve, refused, named, keys, keyring, clock>>

NoUser == [identity |-> "none", username |-> "none", exists |-> FALSE]
NoKey == [stamp |-> 0, stored |-> 0]

IdentityInit ==
  /\ active = Requests
  /\ users = [u \in Accounts |-> [NoUser EXCEPT !.exists = (u = Builtin)]]
  /\ resolve = [r \in Requests |-> [pc |-> "arrived", server |-> "none", user |-> "none"]]
  /\ refused = [s \in Servers |-> {}]
  /\ named = [s \in Servers |-> [u \in Accounts |-> "none"]]
  /\ keys = [s \in Servers |-> NoKey]
  /\ keyring = [s \in Servers |-> {}]
  /\ clock = 0

-----------------------------------------------------------------------------
(* Protect: whether the token is good. *)

\* A name the users table would refuse is no name.
NameIn(name) == IF name = "odd" THEN "none" ELSE name

\* The claim the operator names, else a verified email, else the preferred
\* username.
UsernameOf(token) ==
  IF UsernameClaim = "email" THEN NameIn(token.email)
  ELSE IF UsernameClaim = "preferred_username" THEN NameIn(token.preferred)
  ELSE IF token.verified /\ NameIn(token.email) # "none" THEN NameIn(token.email)
  ELSE NameIn(token.preferred)

\* Server.check: the issuer, the subject and the audience.
Checks(token) == token.issuer = "ours" /\ token.identity # "none" /\ token.forUs

\* The one claim the policy asks for.
Allowed(token) == Required => token.claimed

Goes(r, pc) == resolve' = [resolve EXCEPT ![r].pc = pc]

\* Verify at server s.  An opaque token the issuer called inactive before is
\* refused without asking again; a failed introspection says nothing about
\* the token.
Verify(r, s) ==
  /\ resolve[r].pc = "arrived"
  /\ keyring[s] # {}
  /\ LET token == TokenOf[r]
         inactive == token.form = "opaque" /\ r \notin active
         answer == IF inactive \/ r \in refused[s] \/ ~ Checks(token) THEN "401"
                   ELSE IF ~ token.scoped \/ ~ Allowed(token) THEN "403"
                   ELSE "find"
     IN  /\ resolve' = [resolve EXCEPT ![r] = [pc |-> answer, server |-> s, user |-> "none"]]
         /\ refused' = IF inactive THEN [refused EXCEPT ![s] = @ \cup {r}] ELSE refused
  /\ UNCHANGED <<active, users, named, keys, keyring, clock>>

\* The issuer does not answer: 500, and the credential is not called bad.
Unchecked(r, s) ==
  /\ resolve[r].pc = "arrived"
  /\ keyring[s] # {}
  /\ TokenOf[r].form = "opaque" /\ r \notin refused[s]
  /\ Goes(r, "500")
  /\ UNCHANGED <<active, users, refused, named, keys, keyring, clock>>

\* The client sends the same request again, with the same token.
SendAgain(r) ==
  /\ resolve[r].pc \in {"401", "403", "500"}
  /\ Goes(r, "arrived")
  /\ UNCHANGED <<active, users, refused, named, keys, keyring, clock>>

\* The issuer revokes a token, for good.
IssuerRevokes(r) ==
  /\ r \in active
  /\ TokenOf[r].form = "opaque"
  /\ active' = active \ {r}
  /\ UNCHANGED <<users, resolve, refused, named, keys, keyring, clock>>

\* The memory of refused tokens is bounded in size and time.
RefusalForgotten(s) ==
  /\ \E r \in refused[s] : refused' = [refused EXCEPT ![s] = @ \ {r}]
  /\ UNCHANGED <<active, users, resolve, named, keys, keyring, clock>>

-----------------------------------------------------------------------------
(* Accounts.Resolve. *)

AccountOf(i) == {u \in Accounts : users[u].exists /\ users[u].identity = i}

Acts(r, u) == resolve' = [resolve EXCEPT ![r].pc = "remember", ![r].user = u]

Find(r) ==
  /\ resolve[r].pc = "find"
  /\ LET i == TokenOf[r].identity
     IN  IF AccountOf(i) # {} THEN \E u \in AccountOf(i) : Acts(r, u)
         ELSE IF i = DefaultOwner THEN Goes(r, "claim")
         ELSE Goes(r, IF SignUp THEN "create" ELSE "403")
  /\ UNCHANGED <<active, users, refused, named, keys, keyring, clock>>

\* claim_builtin: one conditional UPDATE, so one identity gets it.
ClaimBuiltin(r) ==
  /\ resolve[r].pc = "claim"
  /\ IF users[Builtin].identity = "none"
     THEN /\ users' = [users EXCEPT ![Builtin].identity = TokenOf[r].identity]
          /\ Acts(r, Builtin)
     ELSE /\ Goes(r, IF SignUp THEN "create" ELSE "403")
          /\ UNCHANGED users
  /\ UNCHANGED <<active, refused, named, keys, keyring, clock>>

\* Faulty: no unique index on the identity.
CreateTwice(r) ==
  /\ resolve[r].pc = "create"
  /\ users' = [users EXCEPT ![r] = [NoUser EXCEPT !.identity = TokenOf[r].identity,
                                                  !.exists = TRUE]]
  /\ Acts(r, r)
  /\ UNCHANGED <<active, refused, named, keys, keyring, clock>>

\* create_account: the unique index lets one of two first requests through,
\* and the other looks for the account its twin made.
Create(r) ==
  /\ resolve[r].pc = "create"
  /\ IF AccountOf(TokenOf[r].identity) = {}
     THEN /\ users' = [users EXCEPT ![r] = [NoUser EXCEPT !.identity = TokenOf[r].identity,
                                                          !.exists = TRUE]]
          /\ Acts(r, r)
     ELSE /\ Goes(r, "findTwin")
          /\ UNCHANGED users
  /\ UNCHANGED <<active, refused, named, keys, keyring, clock>>

FindTwin(r) ==
  /\ resolve[r].pc = "findTwin"
  /\ IF AccountOf(TokenOf[r].identity) # {}
     THEN \E u \in AccountOf(TokenOf[r].identity) : Acts(r, u)
     ELSE Goes(r, "500")
  /\ UNCHANGED <<active, users, refused, named, keys, keyring, clock>>

\* A statement of Resolve fails: 500.
ResolveFails(r) ==
  /\ resolve[r].pc \in {"find", "claim", "create", "findTwin"}
  /\ Goes(r, "500")
  /\ UNCHANGED <<active, users, refused, named, keys, keyring, clock>>

\* remember: the name is written when this process has not recorded it, and
\* kept by the account only if no other account has it.
Remember(r) ==
  /\ resolve[r].pc = "remember"
  /\ LET u == resolve[r].user
         s == resolve[r].server
         name == UsernameOf(TokenOf[r])
         free == \A v \in Accounts \ {u} : users[v].username # name
     IN  IF name = "none" \/ named[s][u] = name
         THEN UNCHANGED <<users, named>>
         ELSE \/ /\ users' = IF free THEN [users EXCEPT ![u].username = name] ELSE users
                 /\ named' = [named EXCEPT ![s][u] = name]
              \/ UNCHANGED <<users, named>>  \* the statement fails and is logged
  /\ Goes(r, "served")
  /\ UNCHANGED <<active, refused, keys, keyring, clock>>

-----------------------------------------------------------------------------
(* keyring.load, at the start of a server. *)

Stored == {s \in Servers : keys[s].stored # 0}

\* A server that finds keys keeps them; one that finds none stamps its own.
LoadKeys(s) ==
  /\ keyring[s] = {} /\ keys[s] = NoKey
  /\ \/ Stored # {} /\ keyring' = [keyring EXCEPT ![s] = Stored] /\ UNCHANGED <<keys, clock>>
     \/ /\ Stored = {}
        /\ clock' = clock + 1
        /\ keys' = [keys EXCEPT ![s].stamp = clock + 1]
        /\ UNCHANGED keyring
  /\ UNCHANGED <<active, users, resolve, refused, named>>

\* The INSERT commits.
AddKey(s) ==
  /\ keys[s].stamp # 0 /\ keys[s].stored = 0
  /\ OrderedInserts => \A t \in Servers \ Stored :
                          keys[t].stamp # 0 => keys[s].stamp <= keys[t].stamp
  /\ keys' = [keys EXCEPT ![s].stored = 1]
  /\ UNCHANGED <<active, users, resolve, refused, named, keyring, clock>>

\* And every key is read again.
ReadKeys(s) ==
  /\ keyring[s] = {} /\ keys[s].stored # 0
  /\ keyring' = [keyring EXCEPT ![s] = Stored]
  /\ UNCHANGED <<active, users, resolve, refused, named, keys, clock>>

\* Faulty: the newest key signs.
SigningKeyNewest(s) ==
  CHOOSE k \in keyring[s] : \A l \in keyring[s] : keys[l].stamp <= keys[k].stamp

\* Keys are read oldest first, and the first one signs.
SigningKey(s) ==
  CHOOSE k \in keyring[s] : \A l \in keyring[s] : keys[k].stamp <= keys[l].stamp

-----------------------------------------------------------------------------
Resolve(r) == Find(r) \/ ClaimBuiltin(r) \/ Create(r) \/ FindTwin(r) \/ ResolveFails(r)

IdentityNext ==
  \/ \E r \in Requests, s \in Servers : Verify(r, s) \/ Unchecked(r, s)
  \/ \E r \in Requests : SendAgain(r) \/ IssuerRevokes(r) \/ Resolve(r) \/ Remember(r)
  \/ \E s \in Servers : RefusalForgotten(s) \/ LoadKeys(s) \/ AddKey(s) \/ ReadKeys(s)

IdentitySpec == IdentityInit /\ [][IdentityNext]_identityVars

-----------------------------------------------------------------------------
(* Properties. *)

Served(r) == resolve[r].pc \in {"remember", "served"}

\* However its first requests race, an identity acts as one account, no other
\* identity ever acts as that account, and the owner named by the policy gets
\* the library from before accounts and no second one.
OneAccountPerIdentity ==
  /\ \A r, t \in Requests : Served(r) /\ Served(t) =>
       (resolve[r].user = resolve[t].user <=> TokenOf[r].identity = TokenOf[t].identity)
  /\ \A r \in Requests : Served(r) /\ TokenOf[r].identity = DefaultOwner =>
       resolve[r].user = Builtin

\* The key one server signs with is known to every server that has loaded its
\* keys, so a token issued by one is accepted by the others.
KeysAgree ==
  \A s, t \in Servers : keyring[s] # {} /\ keyring[t] # {} => SigningKey(s) \in keyring[t]

=============================================================================
