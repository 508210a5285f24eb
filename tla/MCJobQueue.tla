----------------------------- MODULE MCJobQueue -----------------------------
(***************************************************************************)
(* Instances of JobQueue for TLC.                                          *)
(***************************************************************************)
EXTENDS JobQueue, TLC

CONSTANTS w1, w2

TwoWorkers == {w1, w2}
OneWorker == {w1}

\* Workers of one kind are interchangeable; used in safety runs only.
AlikeWorkers == Permutations(TwoWorkers)

=============================================================================
