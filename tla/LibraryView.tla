---------------------------- MODULE LibraryView ----------------------------
(***************************************************************************)
(* What a library promises its readers, whatever happens to the workers.   *)
(*                                                                         *)
(* A search sees, under each document identifier, one whole version or     *)
(* nothing.  A version appears, or takes the place of the one before it,   *)
(* in the single step that completes the job which read it; until then a   *)
(* reader sees no trace of the job, and nothing ever disappears.  Only the *)
(* purge of a deleted library clears the shelf.                            *)
(***************************************************************************)
CONSTANTS
  Jobs,     \* the jobs that may add a document
  Digests   \* the versions a source may have

VARIABLES
  shelf,     \* shelf[d]: the version a search finds under identifier d
  completed  \* the jobs that read as done

view == <<shelf, completed>>

Init == DOMAIN shelf = {} /\ completed = {}

\* Job j completes, and the version it read is what identifier d shows.
Publish(j) ==
  /\ j \notin completed
  /\ completed' = completed \cup {j}
  /\ \E d \in DOMAIN shelf' :
       /\ DOMAIN shelf' = DOMAIN shelf \cup {d}
       /\ shelf'[d] \in Digests
       /\ \A e \in DOMAIN shelf \ {d} : shelf'[e] = shelf[e]

\* Job j completes because the shelf already showed what it read.
Confirm(j) ==
  /\ j \notin completed
  /\ completed' = completed \cup {j}
  /\ DOMAIN shelf # {}
  /\ UNCHANGED shelf

Purge == DOMAIN shelf' = {} /\ completed' = {}

Next == Purge \/ \E j \in Jobs : Publish(j) \/ Confirm(j)

Spec == Init /\ [][Next]_view

=============================================================================
