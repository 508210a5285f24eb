------------------------------- MODULE MCApi -------------------------------
(***************************************************************************)
(* Module Api from worlds the services can build up: ann administers the   *)
(* server and, where it exists, atlas; what bob and eve hold varies.       *)
(***************************************************************************)
EXTENDS Api

Nothing == [u \in Users |-> "none"]

\* ann alone, before anything was shared.
Fresh ==
  [library |-> "none", name |-> "Atlas", grants |-> Nothing, offers |-> Nothing,
   group |-> FALSE, groupName |-> "Atlas", groupRole |-> "none", members |-> Nothing,
   groupOffers |-> Nothing, provided |-> {}, accounts |-> Users \ {"eve"},
   administrators |-> {"ann"}, setting |-> "none", docs |-> [p \in Places |-> "none"],
   jobs |-> [p \in Places |-> "none"]]

\* atlas as ann shares it: deleted or not, with a document or a job, granted
\* to crew or not; bob holds a role or an invitation, or is only in crew.
SharedWorlds ==
  {[Fresh EXCEPT
      !.library = l, !.grants = [Nothing EXCEPT !["ann"] = "admin", !["bob"] = g],
      !.offers["bob"] = IF g = "none" THEN o ELSE "none",
      !.group = TRUE, !.groupRole = r,
      !.members = [Nothing EXCEPT !["ann"] = "maintainer", !["bob"] = m],
      !.provided = IF m = "member" THEN {"bob"} ELSE {},
      !.docs["atlas"] = "Atlas", !.jobs["atlas"] = IF l = "live" THEN "queued" ELSE "failed"] :
     <<l, g>> \in ({"live", "deleted"} \X {"none", "reader", "admin"}) \ {<<"deleted", "reader">>},
     o \in {"none", "editor"},
     <<r, m>> \in {<<"none", "none">>} \cup ({"editor"} \X {"none", "member", "maintainer"})}

MCInit == Init /\ world \in {Fresh} \cup SharedWorlds
MCSpec == MCInit /\ [][Next]_vars

=============================================================================
