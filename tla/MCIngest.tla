------------------------------ MODULE MCIngest ------------------------------
(***************************************************************************)
(* Instances of Ingest for TLC.                                            *)
(***************************************************************************)
EXTENDS Ingest

\* Two paths whose titles make the same slug.
TwoSources == {"guide.md", "Guide.pdf"}
OneSource == {"guide.md"}
OneSlug == [s \in Sources |-> "guide"]

\* Every job names the same source, or each its own.
SameSource == [j \in Jobs |-> "guide.md"]
OwnSource == [j \in Jobs |-> IF j = 1 THEN "guide.md" ELSE "Guide.pdf"]

=============================================================================
