---------------------------- MODULE SignInProofs ----------------------------
(***************************************************************************)
(* Proofs about SignIn for every number of browsers, clients, tokens,      *)
(* resets and guesses, and every threshold.                                *)
(***************************************************************************)
EXTENDS SignIn, TLAPS

-----------------------------------------------------------------------------
(* The parts of the inductive invariant. *)

AccountRow ==
  [present : BOOLEAN, hash : Nat, cost : {"earlier", "now"}, failures : Nat,
   lock : {"none", "on", "over"}]

SignInState ==
  [pc : {"idle", "found", "open", "matched"}, secret : Nat, hash : Nat, cost : {"earlier", "now"}]

RequestRow == [state : {"open", "signedIn", "coded", "over"}, password : Nat]

TokenRow ==
  [state : {"unissued", "live", "deleted"}, password : Nat, spent : Nat, late : BOOLEAN]

ExchangeState ==
  [op : {"idle"}, of : {0}, password : Nat]
    \cup [op : {"code", "delete"}, of : Browsers, password : Nat]
    \cup [op : {"refresh"}, of : Tokens, password : Nat]

ChangeState == [op : {"none", "reset", "remove"}, saw : SUBSET Tokens]

SignInTypeOK ==
  /\ account \in AccountRow
  /\ signIn \in [Browsers -> SignInState]
  /\ request \in [Browsers -> RequestRow]
  /\ tokens \in [Tokens -> TokenRow]
  /\ exchange \in [Clients -> ExchangeState]
  /\ change \in ChangeState
  /\ started \in Nat
  /\ guesses \in Nat

\* The row counts every comparison since the count last started again, and is
\* locked from the one that reaches the threshold.
CountIsHonest ==
  /\ guesses <= account.failures
  /\ account.failures <= Threshold
  /\ account.lock = "none" => account.failures < Threshold

\* A token that works was never spent, and one that was spent is gone.
SpentIsGone ==
  \A t \in Tokens : /\ tokens[t].state # "deleted" => tokens[t].spent = 0
                    /\ tokens[t].spent <= 1

\* Whoever refreshes holds a token that was issued.
RefreshesIssued ==
  \A c \in Clients : exchange[c].op = "refresh" => tokens[exchange[c].of].state # "unissued"

\* A token saved after the removal finds no client refreshing it, and no
\* account to begin a refresh with.
LateIsStranded ==
  \A t \in Tokens : tokens[t].late =>
    /\ ~ account.present
    /\ tokens[t].state # "unissued"
    /\ \A c \in Clients : ~ (exchange[c].op = "refresh" /\ exchange[c].of = t)

SignInIInv ==
  /\ SignInTypeOK
  /\ CountIsHonest
  /\ SpentIsGone
  /\ RefreshesIssued
  /\ LateIsStranded
  /\ RemovedNeverRenews

-----------------------------------------------------------------------------
(* Type correctness. *)

\* Taking a token away, exchanged or not, keeps its row's type.
LEMMA TokenTaken ==
  ASSUME NEW row \in TokenRow
  PROVE  /\ [row EXCEPT !.state = "deleted"] \in TokenRow
         /\ [row EXCEPT !.state = "deleted", !.spent = @ + 1] \in TokenRow
<1> DEFINE n == row.spent + 1
<1>1. n \in Nat
  BY DEF TokenRow
<1> HIDE DEF n
<1>2. [row EXCEPT !.state = "deleted", !.spent = n] \in TokenRow
  BY <1>1 DEF TokenRow
<1>3. [row EXCEPT !.state = "deleted"] \in TokenRow
  BY DEF TokenRow
<1> QED
  BY <1>2, <1>3 DEF n

\* What issuing a token writes.
LEMMA IssuedType ==
  ASSUME SignInTypeOK, NEW t \in Tokens, NEW password \in Nat
  PROVE  /\ Issued(t, password) \in [Tokens -> TokenRow]
         /\ \A u \in Tokens \ {t} : Issued(t, password)[u] = tokens[u]
         /\ Issued(t, password)[t].state = "live"
         /\ Issued(t, password)[t].spent = 0
         /\ Issued(t, password)[t].late => ~ account.present
<1> DEFINE gone == ~ account.present
           row == [state |-> "live", password |-> password, spent |-> 0, late |-> gone]
<1>1. gone \in BOOLEAN
  OBVIOUS
<1>2. Issued(t, password) = [tokens EXCEPT ![t] = row]
  BY Zenon DEF Issued
<1> HIDE DEF gone
<1>3. row \in TokenRow /\ row.state = "live" /\ row.spent = 0 /\ row.late = gone
  BY <1>1 DEF TokenRow
<1> HIDE DEF row
<1> QED
  BY <1>2, <1>3 DEF SignInTypeOK, gone

\* The steps of a sign-in keep the types.
LEMMA AuthenticateType ==
  ASSUME SignInTypeOK, NEW b \in Browsers, Authenticate(b)
  PROVE  SignInTypeOK'
<1> USE SignInAssumption DEF SignInTypeOK, SignInState, Resting, Wrong, Passwords
<1>1. CASE FindAccount(b)
  BY <1>1 DEF FindAccount, AccountRow
<1>2. CASE Begin(b)
  <2>1. signIn' \in [Browsers -> SignInState]
    BY <1>2 DEF Begin, Steps, Leaves
  <2>2. account' \in AccountRow /\ guesses' \in Nat
    <3> DEFINE failures == IF account.lock = "none" THEN account.failures + 1 ELSE 1
               lock == IF failures >= Threshold THEN "on" ELSE "none"
    <3>1. failures \in Nat /\ lock \in {"none", "on", "over"}
      BY DEF AccountRow
    <3>2. \/ account' = [account EXCEPT !.failures = failures, !.lock = lock]
          \/ account' = account
      BY <1>2, Zenon DEF Begin
    <3>3. guesses' \in Nat
      BY <1>2 DEF Begin
    <3> HIDE DEF failures, lock
    <3>4. [account EXCEPT !.failures = failures, !.lock = lock] \in AccountRow
      BY <3>1 DEF AccountRow
    <3> QED
      BY <3>2, <3>3, <3>4, Zenon
  <2> QED
    BY <1>2, <2>1, <2>2 DEF Begin
<1>3. CASE Mismatch(b)
  BY <1>3 DEF Mismatch, Leaves
<1>4. CASE Match(b)
  <2>1. signIn' \in [Browsers -> SignInState]
    BY <1>4 DEF Match, Steps, Leaves
  <2>2. account' \in AccountRow /\ guesses' \in Nat
    <3>1. \/ account' = account
          \/ account' = [account EXCEPT !.failures = 0, !.lock = "none"]
          \/ account' = [[account EXCEPT !.failures = 0, !.lock = "none"] EXCEPT
                           !.hash = signIn[b].secret, !.cost = "now"]
      BY <1>4, Zenon DEF Match
    <3>2. signIn[b].secret \in Nat /\ guesses' \in Nat
      BY <1>4 DEF Match
    <3>3. [account EXCEPT !.failures = 0, !.lock = "none"] \in AccountRow
      BY DEF AccountRow
    <3>4. [[account EXCEPT !.failures = 0, !.lock = "none"] EXCEPT
             !.hash = signIn[b].secret, !.cost = "now"] \in AccountRow
      BY <3>2 DEF AccountRow
    <3> QED
      BY <3>1, <3>2, <3>3, <3>4, Zenon
  <2> QED
    BY <1>4, <2>1, <2>2 DEF Match
<1>5. CASE CompleteRequest(b)
  BY <1>5 DEF CompleteRequest, Leaves, RequestRow
<1> QED
  BY <1>1, <1>2, <1>3, <1>4, <1>5 DEF Authenticate

\* The steps of an exchange keep the types.
LEMMA ExchangeType ==
  ASSUME SignInTypeOK, NEW c \in Clients, Exchange(c)
  PROVE  SignInTypeOK'
<1> USE SignInAssumption DEF SignInTypeOK
<1>0. Waiting \in ExchangeState
  BY DEF Waiting, Wrong, ExchangeState
<1>1. CASE AuthRequestByCode(c)
  BY <1>1 DEF AuthRequestByCode, RequestRow, ExchangeState
<1>2. CASE SaveRefresh(c)
  <2>1. exchange[c].password \in Nat
    BY DEF ExchangeState
  <2>2. tokens' \in [Tokens -> TokenRow]
    <3>1. PICK t \in Tokens : tokens' = Issued(t, exchange[c].password)
      BY <1>2, Zenon DEF SaveRefresh
    <3>2. Issued(t, exchange[c].password) \in [Tokens -> TokenRow]
      BY <2>1, IssuedType
    <3> QED
      BY <3>1, <3>2, Zenon
  <2>3. exchange' \in [Clients -> ExchangeState]
    BY <1>2 DEF SaveRefresh, ExchangeState
  <2> QED
    BY <1>2, <2>2, <2>3 DEF SaveRefresh
<1>3. CASE DeleteAuthRequest(c)
  BY <1>0, <1>3 DEF DeleteAuthRequest, ExchangeState, Over, Wrong, RequestRow
<1>4. CASE TokenRequestByRefreshToken(c)
  BY <1>4 DEF TokenRequestByRefreshToken, TokenRow, ExchangeState
<1>5. CASE RotateRefresh(c)
  <2>1. exchange[c].password \in Nat /\ exchange[c].of \in Tokens
    BY <1>5 DEF RotateRefresh, ExchangeState
  <2>2. tokens' \in [Tokens -> TokenRow]
    <3>1. CASE UNCHANGED tokens
      BY <3>1
    <3>2. ASSUME NEW t \in Tokens,
                 tokens' = [Issued(t, exchange[c].password) EXCEPT
                              ![exchange[c].of].state = "deleted",
                              ![exchange[c].of].spent = @ + 1]
          PROVE  tokens' \in [Tokens -> TokenRow]
      <4> DEFINE new == Issued(t, exchange[c].password)
      <4>1. new \in [Tokens -> TokenRow]
        BY <2>1, IssuedType
      <4>2. tokens' = [new EXCEPT ![exchange[c].of].state = "deleted",
                                  ![exchange[c].of].spent = @ + 1]
        BY <3>2
      <4> HIDE DEF new
      <4>3. new[exchange[c].of].spent + 1 \in Nat
        BY <2>1, <4>1 DEF TokenRow
      <4> QED
        BY <2>1, <4>1, <4>2, <4>3 DEF TokenRow
    <3> QED
      BY <1>5, <3>1, <3>2 DEF RotateRefresh
  <2> QED
    BY <1>0, <1>5, <2>2 DEF RotateRefresh
<1> QED
  BY <1>1, <1>2, <1>3, <1>4, <1>5 DEF Exchange

\* Every step keeps the types.
LEMMA SignInTypeStep ==
  ASSUME SignInTypeOK, [SignInNext]_signInVars
  PROVE  SignInTypeOK'
<1> USE SignInAssumption DEF SignInTypeOK
<1>1. ASSUME NEW b \in Browsers, RequestExpires(b) \/ SaveAuthCode(b)
      PROVE  SignInTypeOK'
  BY <1>1 DEF RequestExpires, SaveAuthCode, RequestRow, Over, Wrong
<1>2. CASE LockExpires \/ Unlock
  <2>1. account' \in AccountRow
    <3>1. [account EXCEPT !.lock = "over"] \in AccountRow
      BY DEF AccountRow
    <3>2. [account EXCEPT !.failures = 0, !.lock = "none"] \in AccountRow
      BY DEF AccountRow
    <3> QED
      BY <1>2, <3>1, <3>2, Zenon DEF LockExpires, Unlock
  <2> QED
    BY <1>2, <2>1 DEF LockExpires, Unlock
<1>3. CASE RevokeToken
  BY <1>3 DEF RevokeToken, TokenRow
<1>4. ASSUME NEW op \in {"reset", "remove"}, BeginChange(op)
      PROVE  SignInTypeOK'
  BY <1>4 DEF BeginChange, ChangeState, Live
<1>5. CASE CommitChange
  <2>1. tokens' \in [Tokens -> TokenRow]
    BY <1>5 DEF CommitChange, TokenRow
  <2>2. account' \in AccountRow /\ guesses' \in Nat
    <3>1. \/ account' = [account EXCEPT !.present = FALSE]
          \/ account' = [account EXCEPT !.hash = @ + 1, !.cost = "now", !.failures = 0,
                                        !.lock = "none"]
      BY <1>5, Zenon DEF CommitChange
    <3>2. account.hash + 1 \in Nat
      BY DEF AccountRow
    <3>3. [account EXCEPT !.present = FALSE] \in AccountRow
      BY DEF AccountRow
    <3>4. [account EXCEPT !.hash = @ + 1, !.cost = "now", !.failures = 0, !.lock = "none"]
            \in AccountRow
      BY <3>2 DEF AccountRow
    <3>5. guesses' \in Nat
      BY <1>5 DEF CommitChange
    <3> QED
      BY <3>1, <3>3, <3>4, <3>5, Zenon
  <2> QED
    BY <1>5, <2>1, <2>2 DEF CommitChange, NoChange, ChangeState
<1>6. CASE UNCHANGED signInVars
  BY <1>6 DEF signInVars
<1> QED
  BY <1>1, <1>2, <1>3, <1>4, <1>5, <1>6, AuthenticateType, ExchangeType DEF SignInNext

\* The initial state is well typed.
LEMMA SignInInitType == SignInInit => SignInTypeOK
BY SignInAssumption DEF SignInInit, SignInTypeOK, AccountRow, SignInState, RequestRow, TokenRow,
  ExchangeState, ChangeState, Resting, Unissued, Waiting, NoChange, Wrong

-----------------------------------------------------------------------------
(* The count of guesses. *)

\* An attempt is counted in the row before its password is compared, and a
\* count starts again in the row whenever it starts again at all.
LEMMA CountStep ==
  ASSUME SignInTypeOK, CountIsHonest, [SignInNext]_signInVars
  PROVE  CountIsHonest'
<1> USE SignInAssumption DEF CountIsHonest
<1>1. ASSUME NEW b \in Browsers, Begin(b)
      PROVE  CountIsHonest'
  <2> DEFINE failures == IF account.lock = "none" THEN account.failures + 1 ELSE 1
             lock == IF failures >= Threshold THEN "on" ELSE "none"
  <2>1. \/ /\ account' = [account EXCEPT !.failures = failures, !.lock = lock]
           /\ guesses' = IF account.lock = "none" THEN guesses + 1 ELSE 1
        \/ UNCHANGED <<account, guesses>>
    BY <1>1, Zenon DEF Begin
  <2>2. CASE UNCHANGED <<account, guesses>>
    BY <2>2
  <2>3. CASE /\ account' = [account EXCEPT !.failures = failures, !.lock = lock]
             /\ guesses' = IF account.lock = "none" THEN guesses + 1 ELSE 1
    <3>1. account'.failures = failures /\ account'.lock = lock
      BY <2>3 DEF SignInTypeOK, AccountRow
    <3>2. guesses \in Nat /\ account.failures \in Nat
      BY DEF SignInTypeOK, AccountRow
    <3> QED
      BY <2>3, <3>1, <3>2
  <2> QED
    BY <2>1, <2>2, <2>3
<1>3. ASSUME NEW b \in Browsers, Match(b)
      PROVE  CountIsHonest'
  <2>1. \/ UNCHANGED <<account, guesses>>
        \/ /\ \/ account' = [account EXCEPT !.failures = 0, !.lock = "none"]
              \/ account' = [[account EXCEPT !.failures = 0, !.lock = "none"] EXCEPT
                               !.hash = signIn[b].secret, !.cost = "now"]
           /\ guesses' = 0
    BY <1>3, Zenon DEF Match
  <2>2. CASE UNCHANGED <<account, guesses>>
    BY <2>2
  <2>3. CASE guesses' = 0 /\ account' = [account EXCEPT !.failures = 0, !.lock = "none"]
    BY <2>3 DEF SignInTypeOK, AccountRow
  <2>4. CASE /\ guesses' = 0
             /\ account' = [[account EXCEPT !.failures = 0, !.lock = "none"] EXCEPT
                              !.hash = signIn[b].secret, !.cost = "now"]
    BY <2>4 DEF SignInTypeOK, AccountRow
  <2> QED
    BY <2>1, <2>2, <2>3, <2>4
<1>4. CASE LockExpires
  <2>1. account' = [account EXCEPT !.lock = "over"] /\ guesses' = guesses
    BY <1>4 DEF LockExpires
  <2>2. account'.failures = account.failures /\ account'.lock = "over"
    BY <2>1 DEF SignInTypeOK, AccountRow
  <2> QED
    BY <2>1, <2>2
<1>5. CASE Unlock
  BY <1>5 DEF Unlock, SignInTypeOK, AccountRow
<1>6. CASE CommitChange
  <2>1. CASE change.op = "remove"
    <3>1. account' = [account EXCEPT !.present = FALSE] /\ guesses' = guesses
      BY <1>6, <2>1, Zenon DEF CommitChange
    <3> QED
      BY <3>1 DEF SignInTypeOK, AccountRow
  <2>2. CASE change.op # "remove"
    <3>1. /\ account' = [account EXCEPT !.hash = @ + 1, !.cost = "now", !.failures = 0,
                                        !.lock = "none"]
          /\ guesses' = 0
      BY <1>6, <2>2, Zenon DEF CommitChange
    <3> QED
      BY <3>1 DEF SignInTypeOK, AccountRow
  <2> QED
    BY <2>1, <2>2
<1>7. ASSUME UNCHANGED <<account, guesses>> PROVE CountIsHonest'
  BY <1>7
<1>8. ASSUME NEW b \in Browsers,
             \/ FindAccount(b) \/ Mismatch(b) \/ CompleteRequest(b)
             \/ RequestExpires(b) \/ SaveAuthCode(b)
      PROVE  CountIsHonest'
  BY <1>7, <1>8 DEF FindAccount, Mismatch, CompleteRequest, RequestExpires, SaveAuthCode
<1>9. ASSUME NEW c \in Clients, Exchange(c)
      PROVE  CountIsHonest'
  BY <1>7, <1>9, Zenon DEF Exchange, AuthRequestByCode, SaveRefresh, DeleteAuthRequest,
    TokenRequestByRefreshToken, RotateRefresh
<1>10. CASE RevokeToken \/ (\E op \in {"reset", "remove"} : BeginChange(op)) \/ UNCHANGED signInVars
  BY <1>7, <1>10 DEF RevokeToken, BeginChange, signInVars
<1> QED
  BY <1>1, <1>3, <1>4, <1>5, <1>6, <1>8, <1>9, <1>10 DEF SignInNext, Authenticate

-----------------------------------------------------------------------------
(* The tokens. *)

\* Token t is issued; it is late only if the account is gone.
Issues(t) ==
  /\ tokens[t].state = "unissued"
  /\ tokens'[t].state = "live" /\ tokens'[t].spent = 0
  /\ tokens'[t].late => ~ account.present

\* Token t is deleted: exchanged by a client that had read it, or not.
Takes(t) ==
  /\ tokens[t].state = "live" /\ tokens'[t].state = "deleted"
  /\ tokens'[t].late => tokens[t].late
  /\ \/ tokens'[t].spent = tokens[t].spent
     \/ /\ tokens'[t].spent = tokens[t].spent + 1
        /\ \E c \in Clients : exchange[c].op = "refresh" /\ exchange[c].of = t

TokenStep(t) == tokens'[t] = tokens[t] \/ Issues(t) \/ Takes(t)

\* Client c begins to refresh only a token that works, of an account that is
\* there.
ExchangeStep(c) ==
  \/ exchange'[c] = exchange[c]
  \/ exchange'[c].op # "refresh"
  \/ /\ account.present
     /\ tokens[exchange'[c].of].state = "live"
     /\ UNCHANGED tokens

TokenKinds ==
  /\ \A t \in Tokens : TokenStep(t)
  /\ \A c \in Clients : ExchangeStep(c)
  /\ account'.present => account.present

\* Every step of an exchange treats tokens and clients in one of these ways.
LEMMA ExchangeKinds ==
  ASSUME SignInTypeOK, NEW c \in Clients, Exchange(c)
  PROVE  TokenKinds
<1> USE DEF TokenStep, ExchangeStep, TokenKinds
<1>0. UNCHANGED account
  BY Zenon DEF Exchange, AuthRequestByCode, SaveRefresh, DeleteAuthRequest,
    TokenRequestByRefreshToken, RotateRefresh
<1>1. CASE AuthRequestByCode(c) \/ DeleteAuthRequest(c)
  <2>1. UNCHANGED tokens
    BY <1>1 DEF AuthRequestByCode, DeleteAuthRequest
  <2>2. \A d \in Clients : exchange'[d] = exchange[d] \/ exchange'[d].op # "refresh"
    BY <1>1 DEF AuthRequestByCode, DeleteAuthRequest, Waiting, SignInTypeOK
  <2> QED
    BY <1>0, <2>1, <2>2
<1>2. CASE SaveRefresh(c)
  <2>1. PICK t \in Tokens : Fresh(t) /\ tokens' = Issued(t, exchange[c].password)
    BY <1>2, Zenon DEF SaveRefresh
  <2>2. exchange[c].password \in Nat
    BY DEF SignInTypeOK, ExchangeState
  <2>3. \A u \in Tokens \ {t} : tokens'[u] = tokens[u]
    BY <2>1, <2>2, IssuedType
  <2>5. Issues(t)
    BY <2>1, <2>2, IssuedType DEF Issues, Fresh
  <2>6. \A d \in Clients : exchange'[d] = exchange[d] \/ exchange'[d].op # "refresh"
    BY <1>2 DEF SaveRefresh, SignInTypeOK, ExchangeState
  <2> QED
    BY <1>0, <2>3, <2>5, <2>6
<1>3. CASE TokenRequestByRefreshToken(c)
  <2>1. UNCHANGED tokens /\ account.present
    BY <1>3 DEF TokenRequestByRefreshToken
  <2>2. PICK t \in Tokens :
          /\ tokens[t].state = "live"
          /\ exchange' = [exchange EXCEPT ![c] = [op |-> "refresh", of |-> t,
                                                  password |-> tokens[t].password]]
    BY <1>3 DEF TokenRequestByRefreshToken
  <2>3. \A d \in Clients : exchange'[d] = exchange[d] \/ tokens[exchange'[d].of].state = "live"
    BY <2>2 DEF SignInTypeOK
  <2> QED
    BY <1>0, <2>1, <2>3
<1>4. CASE RotateRefresh(c)
  <2>1. \A d \in Clients : exchange'[d] = exchange[d] \/ exchange'[d].op # "refresh"
    BY <1>4 DEF RotateRefresh, Waiting, SignInTypeOK
  <2>2. CASE UNCHANGED tokens
    BY <1>0, <2>1, <2>2
  <2>3. CASE ~ UNCHANGED tokens
    <3> DEFINE old == exchange[c].of
    <3>1. PICK t \in Tokens :
            /\ Fresh(t)
            /\ tokens' = [Issued(t, exchange[c].password) EXCEPT
                            ![old].state = "deleted", ![old].spent = @ + 1]
      BY <1>4, <2>3, Zenon DEF RotateRefresh
    <3>2. /\ exchange[c].password \in Nat /\ old \in Tokens
          /\ exchange[c].op = "refresh" /\ tokens[old].state = "live"
      BY <1>4, <2>3 DEF RotateRefresh, SignInTypeOK, ExchangeState
    <3>3. tokens[t].state = "unissued" /\ t # old
      BY <3>1, <3>2 DEF Fresh
    <3> DEFINE new == Issued(t, exchange[c].password)
    <3>4. /\ new \in [Tokens -> TokenRow]
          /\ \A u \in Tokens \ {t} : new[u] = tokens[u]
          /\ new[t].state = "live" /\ new[t].spent = 0
          /\ new[t].late => ~ account.present
      BY <3>2, IssuedType
    <3>5. tokens' = [new EXCEPT ![old].state = "deleted", ![old].spent = @ + 1]
      BY <3>1
    <3> HIDE DEF new
    <3>6. \A u \in Tokens \ {t, old} : tokens'[u] = tokens[u]
      BY <3>2, <3>4, <3>5
    <3>7. tokens'[t] = new[t]
      BY <3>2, <3>3, <3>4, <3>5
    <3>8. Issues(t)
      BY <3>3, <3>4, <3>7 DEF Issues
    <3>9. /\ tokens'[old].state = "deleted" /\ tokens'[old].spent = tokens[old].spent + 1
          /\ tokens'[old].late = tokens[old].late
      BY <3>2, <3>3, <3>4, <3>5 DEF TokenRow
    <3>10. Takes(old)
      BY <3>2, <3>9 DEF Takes
    <3> QED
      BY <1>0, <2>1, <3>6, <3>8, <3>10
  <2> QED
    BY <2>2, <2>3
<1> QED
  BY <1>1, <1>2, <1>3, <1>4 DEF Exchange

\* A step of a sign-in leaves tokens and clients alone, and does not bring
\* back an account.
LEMMA AuthenticateKinds ==
  ASSUME SignInTypeOK, NEW b \in Browsers, Authenticate(b)
  PROVE  TokenKinds
<1>1. UNCHANGED <<tokens, exchange>>
  BY Zenon DEF Authenticate, FindAccount, Begin, Mismatch, Match, CompleteRequest
<1>2. account'.present => account.present
  <2>1. CASE UNCHANGED account
    BY <2>1
  <2>2. CASE account.present
    BY <2>2
  <2> QED
    BY <2>1, <2>2, Zenon DEF Authenticate, FindAccount, Begin, Mismatch, Match, CompleteRequest
<1> QED
  BY <1>1, <1>2 DEF TokenKinds, TokenStep, ExchangeStep

\* Every step treats tokens and clients in one of these ways.
LEMMA StepKinds ==
  ASSUME SignInTypeOK, [SignInNext]_signInVars
  PROVE  TokenKinds
<1> USE DEF TokenStep, ExchangeStep, TokenKinds
<1>1. ASSUME NEW b \in Browsers, RequestExpires(b) \/ SaveAuthCode(b)
      PROVE  TokenKinds
  BY <1>1 DEF RequestExpires, SaveAuthCode
<1>2. CASE LockExpires \/ Unlock
  <2>1. UNCHANGED <<tokens, exchange>>
    BY <1>2 DEF LockExpires, Unlock
  <2>2. CASE LockExpires
    <3>1. account' = [account EXCEPT !.lock = "over"]
      BY <2>2 DEF LockExpires
    <3>2. account'.present = account.present
      BY <3>1 DEF SignInTypeOK, AccountRow
    <3> QED
      BY <2>1, <3>2
  <2>3. CASE Unlock
    BY <2>1, <2>3 DEF Unlock
  <2> QED
    BY <1>2, <2>2, <2>3
<1>3. CASE RevokeToken
  <2>1. PICK t \in Tokens :
          tokens[t].state = "live" /\ tokens' = [tokens EXCEPT ![t].state = "deleted"]
    BY <1>3 DEF RevokeToken
  <2>2. /\ tokens'[t].state = "deleted" /\ tokens'[t].spent = tokens[t].spent
        /\ tokens'[t].late = tokens[t].late
    BY <2>1 DEF SignInTypeOK, TokenRow
  <2>3. \A u \in Tokens \ {t} : tokens'[u] = tokens[u]
    BY <2>1 DEF SignInTypeOK
  <2>4. UNCHANGED <<account, exchange>>
    BY <1>3 DEF RevokeToken
  <2> QED
    BY <2>1, <2>2, <2>3, <2>4 DEF Takes
<1>4. ASSUME NEW op \in {"reset", "remove"}, BeginChange(op)
      PROVE  TokenKinds
  BY <1>4 DEF BeginChange
<1>5. CASE CommitChange
  <2>1. ASSUME NEW t \in Tokens
        PROVE  TokenStep(t)
    <3>1. tokens'[t] = IF t \in change.saw /\ tokens[t].state = "live"
                       THEN [tokens[t] EXCEPT !.state = "deleted"] ELSE tokens[t]
      BY <1>5, Zenon DEF CommitChange
    <3>2. CASE tokens[t].state = "live" /\ tokens'[t] = [tokens[t] EXCEPT !.state = "deleted"]
      <4>1. tokens[t] \in TokenRow
        BY DEF SignInTypeOK
      <4>2. /\ tokens'[t].state = "deleted" /\ tokens'[t].spent = tokens[t].spent
            /\ tokens'[t].late = tokens[t].late
        BY <3>2, <4>1 DEF TokenRow
      <4> QED
        BY <3>2, <4>2 DEF Takes
    <3> QED
      BY <3>1, <3>2
  <2>2. UNCHANGED exchange
    BY <1>5 DEF CommitChange
  <2>3. account'.present => account.present
    <3>1. \/ account' = [account EXCEPT !.present = FALSE]
          \/ account' = [account EXCEPT !.hash = @ + 1, !.cost = "now", !.failures = 0,
                                        !.lock = "none"]
      BY <1>5, Zenon DEF CommitChange
    <3>2. CASE account' = [account EXCEPT !.present = FALSE]
      BY <3>2 DEF SignInTypeOK, AccountRow
    <3>3. CASE account' = [account EXCEPT !.hash = @ + 1, !.cost = "now", !.failures = 0,
                                          !.lock = "none"]
      BY <3>3 DEF SignInTypeOK, AccountRow
    <3> QED
      BY <3>1, <3>2, <3>3
  <2> QED
    BY <2>1, <2>2, <2>3
<1>6. CASE UNCHANGED signInVars
  BY <1>6 DEF signInVars
<1> QED
  BY <1>1, <1>2, <1>3, <1>4, <1>5, <1>6, AuthenticateKinds, ExchangeKinds DEF SignInNext

\* Every step keeps the invariant.
LEMMA SignInStep ==
  ASSUME SignInIInv, [SignInNext]_signInVars
  PROVE  SignInIInv'
<1> USE DEF SignInIInv
<1>1. SignInTypeOK'
  BY SignInTypeStep
<1>2. CountIsHonest'
  BY CountStep
<1>3. /\ \A t \in Tokens : TokenStep(t)
      /\ \A c \in Clients : ExchangeStep(c)
      /\ account'.present => account.present
  BY StepKinds DEF TokenKinds
<1>4. SpentIsGone'
  <2> SUFFICES ASSUME NEW t \in Tokens
               PROVE  /\ tokens'[t].state # "deleted" => tokens'[t].spent = 0
                      /\ tokens'[t].spent <= 1
    BY DEF SpentIsGone
  <2>1. tokens[t].spent \in Nat
    BY DEF SignInTypeOK, TokenRow
  <2> QED
    BY <1>3, <2>1 DEF TokenStep, Issues, Takes, SpentIsGone
<1>5. RefreshesIssued'
  <2> SUFFICES ASSUME NEW c \in Clients, exchange'[c].op = "refresh"
               PROVE  tokens'[exchange'[c].of].state # "unissued"
    BY DEF RefreshesIssued
  <2>1. exchange'[c].of \in Tokens
    BY <1>1 DEF SignInTypeOK, ExchangeState
  <2>2. tokens[exchange'[c].of].state # "unissued"
    BY <1>3 DEF ExchangeStep, RefreshesIssued
  <2> QED
    BY <1>3, <2>1, <2>2 DEF TokenStep, Issues, Takes
<1>6. LateIsStranded'
  <2> SUFFICES ASSUME NEW t \in Tokens, tokens'[t].late
               PROVE  /\ ~ account'.present
                      /\ tokens'[t].state # "unissued"
                      /\ \A c \in Clients : ~ (exchange'[c].op = "refresh" /\ exchange'[c].of = t)
    BY DEF LateIsStranded
  <2>1. CASE tokens[t].late
    <3>1. ~ account.present /\ tokens[t].state # "unissued"
      BY <2>1 DEF LateIsStranded
    <3>2. ASSUME NEW c \in Clients
          PROVE  ~ (exchange'[c].op = "refresh" /\ exchange'[c].of = t)
      <4>1. ~ (exchange[c].op = "refresh" /\ exchange[c].of = t)
        BY <2>1 DEF LateIsStranded
      <4> QED
        BY <1>3, <3>1, <4>1 DEF ExchangeStep
    <3> QED
      BY <1>3, <3>1, <3>2 DEF TokenStep, Issues, Takes
  <2>2. CASE ~ tokens[t].late
    <3>1. Issues(t)
      BY <1>3, <2>2 DEF TokenStep, Takes
    <3>2. tokens'[t] # tokens[t]
      BY <3>1 DEF Issues
    <3>3. ASSUME NEW c \in Clients
          PROVE  ~ (exchange'[c].op = "refresh" /\ exchange'[c].of = t)
      <4>1. ~ (exchange[c].op = "refresh" /\ exchange[c].of = t)
        BY <3>1 DEF Issues, RefreshesIssued
      <4> QED
        BY <1>3, <3>2, <4>1 DEF ExchangeStep
    <3> QED
      BY <1>3, <3>1, <3>3 DEF Issues
  <2> QED
    BY <2>1, <2>2
<1>7. RemovedNeverRenews'
  <2> SUFFICES ASSUME NEW t \in Tokens, tokens'[t].late
               PROVE  tokens'[t].spent = 0
    BY DEF RemovedNeverRenews
  <2> QED
    BY <1>3 DEF TokenStep, Issues, Takes, RemovedNeverRenews, LateIsStranded
<1> QED
  BY <1>1, <1>2, <1>4, <1>5, <1>6, <1>7

\* The invariant is inductive.
THEOREM SignInInvariant == SignInSpec => []SignInIInv
<1>1. SignInInit => SignInIInv
  <2> SUFFICES ASSUME SignInInit PROVE SignInIInv
    OBVIOUS
  <2>1. CountIsHonest
    BY SignInAssumption DEF SignInInit, CountIsHonest
  <2>2. \A t \in Tokens : tokens[t].state = "unissued" /\ tokens[t].spent = 0 /\ ~ tokens[t].late
    BY DEF SignInInit, Unissued
  <2>3. RefreshesIssued
    BY DEF SignInInit, RefreshesIssued, Waiting
  <2> QED
    BY <2>1, <2>2, <2>3, SignInInitType
    DEF SignInIInv, SpentIsGone, LateIsStranded, RemovedNeverRenews
<1>2. SignInIInv /\ [SignInNext]_signInVars => SignInIInv'
  BY SignInStep
<1> QED
  BY <1>1, <1>2, PTL DEF SignInSpec

\* However many sign-ins run at once, BeginSignIn lets no more passwords be
\* compared than the threshold before the count starts again.
THEOREM GuessesBounded == SignInSpec => []GuessesAreBounded
<1>1. SignInIInv => GuessesAreBounded
  <2> SUFFICES ASSUME SignInIInv PROVE GuessesAreBounded
    OBVIOUS
  <2>1. guesses \in Nat /\ account.failures \in Nat
    BY DEF SignInIInv, SignInTypeOK, AccountRow
  <2> QED
    BY <2>1, SignInAssumption DEF SignInIInv, CountIsHonest, GuessesAreBounded
<1> QED
  BY <1>1, SignInInvariant, PTL

\* However many exchanges read a refresh token, RotateRefresh gives it one
\* successor.
THEOREM RefreshOnce == SignInSpec => []RefreshSpentOnce
<1>1. SignInIInv => RefreshSpentOnce
  BY DEF SignInIInv, SpentIsGone, RefreshSpentOnce
<1> QED
  BY <1>1, SignInInvariant, PTL

\* A refresh token an exchange in flight saves after the account was removed is
\* never exchanged for another.
THEOREM LateNeverRenewed == SignInSpec => []RemovedNeverRenews
<1>1. SignInIInv => RemovedNeverRenews
  BY DEF SignInIInv
<1> QED
  BY <1>1, SignInInvariant, PTL

=============================================================================
