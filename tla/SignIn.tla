------------------------------- MODULE SignIn -------------------------------
(***************************************************************************)
(* One password account of the authorization server: sign-ins that race,   *)
(* the lock that bounds guessing, codes exchanged for refresh tokens,      *)
(* rotation, and the resets and removals an administrator makes meanwhile. *)
(*                                                                         *)
(* A password is the number of the reset that set it.  Every statement is  *)
(* its own step.  A DELETE sees the tokens that were there when it began,  *)
(* so a reset and a removal are two steps each.  The OAuth provider        *)
(* library calls the storage in the order modelled here.                   *)
(***************************************************************************)
EXTENDS Naturals, FiniteSets

CONSTANTS
  Browsers,   \* who signs in, each with an authorization request of its own
  Clients,    \* who exchanges codes and refresh tokens
  Threshold,  \* LockThreshold
  ConcurrentChecks,     \* concurrentChecks
  MaxResets,  \* how many times the password is reset
  MaxTokens,  \* how many refresh tokens are issued
  MaxGuesses  \* how many sign-ins are started

ASSUME SignInAssumption ==
  /\ Threshold \in Nat \ {0} /\ ConcurrentChecks \in Nat \ {0}
  /\ MaxResets \in Nat /\ MaxTokens \in Nat /\ MaxGuesses \in Nat

VARIABLES
  account,   \* the row of password_accounts
  signIn,    \* signIn[b]: the sign-in of browser b
  request,   \* request[b]: its row of oauth_auth_requests
  tokens,    \* tokens[t]: refresh token t
  exchange,  \* exchange[c]: the exchange client c has in flight
  change,    \* the reset or removal in flight, and the tokens it saw
  started,   \* how many sign-ins were started
  guesses    \* passwords checked since the count last started again

signInVars == <<account, signIn, request, tokens, exchange, change, started, guesses>>

Tokens == 1 .. MaxTokens
Passwords == 0 .. MaxResets
Wrong == MaxResets + 1

Resting == [pc |-> "idle", secret |-> Wrong, hash |-> Wrong, cost |-> "now"]
Over == [state |-> "over", password |-> Wrong]
Unissued == [state |-> "unissued", password |-> Wrong, spent |-> 0, late |-> FALSE]
Waiting == [op |-> "idle", of |-> 0, password |-> Wrong]
NoChange == [op |-> "none", saw |-> {}]

SignInInit ==
  /\ account = [present |-> TRUE, hash |-> 0, cost |-> "earlier", failures |-> 0, lock |-> "none"]
  /\ signIn = [b \in Browsers |-> Resting]
  /\ request = [b \in Browsers |-> [state |-> "open", password |-> Wrong]]
  /\ tokens = [t \in Tokens |-> Unissued]
  /\ exchange = [c \in Clients |-> Waiting]
  /\ change = NoChange
  /\ started = 0
  /\ guesses = 0

\* Tokens are numbered as they are issued.
Fresh(t) == tokens[t].state = "unissued" /\ \A u \in 1 .. t - 1 : tokens[u].state # "unissued"

Steps(b, pc) == signIn' = [signIn EXCEPT ![b].pc = pc]
Leaves(b) == signIn' = [signIn EXCEPT ![b] = Resting]

-----------------------------------------------------------------------------
(* Authenticate. *)

\* checkSignIn wants a request that is still current, takes one of the checks,
\* and Find reads the hash that will be compared.
FindAccount(b) ==
  /\ signIn[b].pc = "idle" /\ started < MaxGuesses
  /\ request[b].state = "open"
  /\ Cardinality({d \in Browsers : signIn[d].pc # "idle"}) < ConcurrentChecks
  /\ account.present
  /\ \E secret \in Passwords \cup {Wrong} :
       /\ secret = Wrong \/ secret <= account.hash
       /\ signIn' = [signIn EXCEPT ![b] = [pc |-> "found", secret |-> secret,
                       hash |-> account.hash, cost |-> account.cost]]
  /\ started' = started + 1
  /\ UNCHANGED <<account, request, tokens, exchange, change, guesses>>

\* Faulty: only a mismatch is counted, once the password was compared.
BeginUncounted(b) ==
  /\ signIn[b].pc = "found"
  /\ IF account.present /\ account.lock # "on"
     THEN Steps(b, "open") /\ guesses' = guesses + 1
     ELSE Leaves(b) /\ UNCHANGED guesses
  /\ UNCHANGED <<account, request, tokens, exchange, change, started>>

\* BeginSignIn counts the attempt before its password is compared, and opens
\* nothing on a locked account.  A lock that has run out starts the count
\* again.
Begin(b) ==
  /\ signIn[b].pc = "found"
  /\ LET failures == IF account.lock = "none" THEN account.failures + 1 ELSE 1
     IN  \/ /\ account.present /\ account.lock # "on"
            /\ account' = [account EXCEPT !.failures = failures,
                             !.lock = IF failures >= Threshold THEN "on" ELSE "none"]
            /\ guesses' = IF account.lock = "none" THEN guesses + 1 ELSE 1
            /\ Steps(b, "open")
         \/ /\ ~ account.present \/ account.lock = "on"
            /\ Leaves(b)
            /\ UNCHANGED <<account, guesses>>
  /\ UNCHANGED <<request, tokens, exchange, change, started>>

\* A mismatch has nothing more to record.
Mismatch(b) ==
  /\ signIn[b].pc = "open"
  /\ signIn[b].secret # signIn[b].hash
  /\ Leaves(b)
  /\ UNCHANGED <<account, request, tokens, exchange, change, guesses, started>>

\* succeeded clears the count.  A hash made under earlier costs is made again
\* from the password in hand, whatever the row holds by now.
Match(b) ==
  /\ signIn[b].pc = "open"
  /\ signIn[b].secret = signIn[b].hash
  /\ LET cleared == [account EXCEPT !.failures = 0, !.lock = "none"]
     IN  \/ /\ ~ account.present
            /\ IF signIn[b].cost = "now" THEN Steps(b, "matched") ELSE Leaves(b)
            /\ UNCHANGED <<account, guesses>>
         \/ /\ account.present
            /\ account' = IF signIn[b].cost = "now" THEN cleared
                          ELSE [cleared EXCEPT !.hash = signIn[b].secret, !.cost = "now"]
            /\ guesses' = 0
            /\ Steps(b, "matched")
  /\ UNCHANGED <<request, tokens, exchange, change, started>>

\* CompleteRequest names the user; it matches no row of a pruned request.
CompleteRequest(b) ==
  /\ signIn[b].pc = "matched"
  /\ Leaves(b)
  /\ request' = IF request[b].state = "open"
                THEN [request EXCEPT ![b] = [state |-> "signedIn", password |-> signIn[b].secret]]
                ELSE request
  /\ UNCHANGED <<account, tokens, exchange, change, guesses, started>>

LockExpires ==
  /\ account.lock = "on"
  /\ account' = [account EXCEPT !.lock = "over"]
  /\ UNCHANGED <<signIn, request, tokens, exchange, change, guesses, started>>

-----------------------------------------------------------------------------
(* Requests and tokens. *)

\* RequestLifetime is over: the request can be neither signed in to nor
\* exchanged, and the next SaveRequest prunes it.
RequestExpires(b) ==
  /\ request[b].state \in {"open", "signedIn", "coded"}
  /\ request' = [request EXCEPT ![b] = Over]
  /\ UNCHANGED <<account, signIn, tokens, exchange, change, guesses, started>>

\* The provider's callback: AuthRequestByID, then SaveAuthCode.
SaveAuthCode(b) ==
  /\ request[b].state = "signedIn"
  /\ request' = [request EXCEPT ![b].state = "coded"]
  /\ UNCHANGED <<account, signIn, tokens, exchange, change, guesses, started>>

AuthRequestByCode(c) ==
  /\ exchange[c].op = "idle"
  /\ \E b \in Browsers :
       /\ request[b].state = "coded"
       /\ exchange' = [exchange EXCEPT ![c] = [op |-> "code", of |-> b,
                                               password |-> request[b].password]]
  /\ UNCHANGED <<account, signIn, request, tokens, change, guesses, started>>

\* late records that the account was gone when the token was saved.
Issued(t, password) ==
  [tokens EXCEPT ![t] = [state |-> "live", password |-> password, spent |-> 0,
                         late |-> ~ account.present]]

\* CreateAccessAndRefreshTokens for a code, and then DeleteAuthRequest.
SaveRefresh(c) ==
  /\ exchange[c].op = "code"
  /\ \E t \in Tokens :
       /\ Fresh(t)
       /\ tokens' = Issued(t, exchange[c].password)
  /\ exchange' = [exchange EXCEPT ![c].op = "delete"]
  /\ UNCHANGED <<account, signIn, request, change, guesses, started>>

DeleteAuthRequest(c) ==
  /\ exchange[c].op = "delete"
  /\ request' = [request EXCEPT ![exchange[c].of] = Over]
  /\ exchange' = [exchange EXCEPT ![c] = Waiting]
  /\ UNCHANGED <<account, signIn, tokens, change, guesses, started>>

\* Faulty: a refresh does not ask whether the account is still there.
TokenRequestUnchecked(c) ==
  /\ exchange[c].op = "idle"
  /\ \E t \in Tokens :
       /\ tokens[t].state = "live"
       /\ exchange' = [exchange EXCEPT ![c] = [op |-> "refresh", of |-> t,
                                               password |-> tokens[t].password]]
  /\ UNCHANGED <<account, signIn, request, tokens, change, guesses, started>>

TokenRequestByRefreshToken(c) ==
  /\ exchange[c].op = "idle"
  /\ account.present
  /\ \E t \in Tokens :
       /\ tokens[t].state = "live"
       /\ exchange' = [exchange EXCEPT ![c] = [op |-> "refresh", of |-> t,
                                               password |-> tokens[t].password]]
  /\ UNCHANGED <<account, signIn, request, tokens, change, guesses, started>>

\* Faulty: the new token is saved whether or not the old one was still there.
RotateRefreshBlindly(c) ==
  /\ exchange[c].op = "refresh"
  /\ \E t \in Tokens :
       /\ Fresh(t)
       /\ tokens' = [Issued(t, exchange[c].password) EXCEPT
                       ![exchange[c].of].state = "deleted", ![exchange[c].of].spent = @ + 1]
  /\ exchange' = [exchange EXCEPT ![c] = Waiting]
  /\ UNCHANGED <<account, signIn, request, change, guesses, started>>

\* One transaction: take the token, and save its successor if it was there.
RotateRefresh(c) ==
  /\ exchange[c].op = "refresh"
  /\ LET old == exchange[c].of
     IN  \/ /\ tokens[old].state = "live"
            /\ \E t \in Tokens :
                 /\ Fresh(t)
                 /\ tokens' = [Issued(t, exchange[c].password) EXCEPT
                                 ![old].state = "deleted", ![old].spent = @ + 1]
         \/ tokens[old].state = "deleted" /\ UNCHANGED tokens
  /\ exchange' = [exchange EXCEPT ![c] = Waiting]
  /\ UNCHANGED <<account, signIn, request, change, guesses, started>>

\* RevokeToken and TerminateSession, and the expiry of a token.
RevokeToken ==
  /\ \E t \in Tokens :
       /\ tokens[t].state = "live"
       /\ tokens' = [tokens EXCEPT ![t].state = "deleted"]
  /\ UNCHANGED <<account, signIn, request, exchange, change, guesses, started>>

-----------------------------------------------------------------------------
(* What an administrator does. *)

Live == {t \in Tokens : tokens[t].state = "live"}

\* The DELETE of reset_password or remove_password_account begins.
BeginChange(op) ==
  /\ change = NoChange
  /\ account.present
  /\ op = "reset" => account.hash < MaxResets
  /\ change' = [op |-> op, saw |-> Live]
  /\ UNCHANGED <<account, signIn, request, tokens, exchange, guesses, started>>

\* The transaction commits.  A token rotated in between is not deleted.
CommitChange ==
  /\ change # NoChange
  /\ tokens' = [t \in Tokens |-> IF t \in change.saw /\ tokens[t].state = "live"
                                 THEN [tokens[t] EXCEPT !.state = "deleted"] ELSE tokens[t]]
  /\ account' = IF change.op = "remove" THEN [account EXCEPT !.present = FALSE]
                ELSE [account EXCEPT !.hash = @ + 1, !.cost = "now", !.failures = 0, !.lock = "none"]
  /\ guesses' = IF change.op = "remove" THEN guesses ELSE 0
  /\ change' = NoChange
  /\ UNCHANGED <<signIn, request, exchange, started>>

Unlock ==
  /\ account.present /\ account.failures > 0
  /\ account' = [account EXCEPT !.failures = 0, !.lock = "none"]
  /\ guesses' = 0
  /\ UNCHANGED <<signIn, request, tokens, exchange, change, started>>

-----------------------------------------------------------------------------
Authenticate(b) == FindAccount(b) \/ Begin(b) \/ Mismatch(b) \/ Match(b) \/ CompleteRequest(b)

Exchange(c) ==
  \/ AuthRequestByCode(c) \/ SaveRefresh(c) \/ DeleteAuthRequest(c)
  \/ TokenRequestByRefreshToken(c) \/ RotateRefresh(c)

SignInNext ==
  \/ \E b \in Browsers : Authenticate(b) \/ RequestExpires(b) \/ SaveAuthCode(b)
  \/ \E c \in Clients : Exchange(c)
  \/ LockExpires \/ RevokeToken \/ Unlock
  \/ \E op \in {"reset", "remove"} : BeginChange(op)
  \/ CommitChange

SignInSpec == SignInInit /\ [][SignInNext]_signInVars

-----------------------------------------------------------------------------
(* Properties. *)

\* However many sign-ins are sent at once, no more passwords are compared than
\* the lock allows before the count starts again with a success, a reset, an
\* unlock or the end of the lock.
GuessesAreBounded == guesses <= Threshold

\* A refresh token works exactly once: of two exchanges that both read it, one
\* gets a successor.
RefreshSpentOnce == \A t \in Tokens : tokens[t].spent <= 1

\* Removing an account stops its tokens: an exchange in flight may still save
\* one, but no token saved after the removal is ever renewed.
RemovedNeverRenews == \A t \in Tokens : tokens[t].late => tokens[t].spent = 0

\* "Resetting a password signs the account out everywhere": no refresh token is
\* left, or issued later, that was earned with another password.  The code does
\* not keep it, and no run claims it: an exchange that read its grant before the
\* reset saves its token after the reset deleted the tokens it saw.
ResetSignsOut == \A t \in Live : tokens[t].password = account.hash

=============================================================================
