----------------------------- MODULE MCDocSync ------------------------------
(* One document docsearch reads, and one of which it can read no copy.  The *)
(* second link is there for uploads of one file that overlap: it is bounded *)
(* to a Paperless that does not change.                                     *)
EXTENDS DocSync

MCCopies ==
  [d \in Docs |-> [original |-> FALSE, archive |-> d = "d1"]]

SecondIsOut == links["l2"] # "unissued"

MCNext == SyncNext /\ (SecondIsOut' => links'["l1"] # "unissued" /\ changes' = 0)

MCSpec ==
  /\ SyncInit /\ [][MCNext]_syncVars
  /\ WF_syncVars(Pass)
  /\ \A k \in Keys : WF_syncVars(Work(k))
=============================================================================
