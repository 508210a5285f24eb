----------------------------- MODULE MCIdentity -----------------------------
(* Three requests: two first requests of the owner, one of someone else. *)
EXTENDS Identity

Stated(form, identity, email) ==
  [form |-> form, issuer |-> "ours", identity |-> identity, forUs |-> TRUE, scoped |-> TRUE,
   claimed |-> TRUE, email |-> email, verified |-> TRUE, preferred |-> "ann"]

MCTokenOf ==
  [r1 |-> Stated("opaque", "owner", "ann"), r2 |-> Stated("signed", "owner", "odd"),
   r3 |-> Stated("signed", "other", "ann")]
=============================================================================
