----------------------------- MODULE MCAccounts -----------------------------
(* The parts of an account, which share no state here: its password and its *)
(* tokens, the identity a request's token stands for, and what it may do in *)
(* libraries and groups.                                                    *)
EXTENDS SignIn, MCIdentity, Sharing, TLC

VARIABLE part

\* Browsers and clients are told apart by nothing.
Alike == Permutations(Browsers) \cup Permutations(Clients)

AccountsInit ==
  SignInInit /\ IdentityInit /\ SharingInit /\ part \in {"sign-in", "identity", "sharing"}

AccountsNext ==
  \/ part = "sign-in" /\ SignInNext /\ UNCHANGED <<part, identityVars, sharingVars>>
  \/ part = "identity" /\ IdentityNext /\ UNCHANGED <<part, signInVars, sharingVars>>
  \/ part = "sharing" /\ SharingNext /\ UNCHANGED <<part, signInVars, identityVars>>

=============================================================================
