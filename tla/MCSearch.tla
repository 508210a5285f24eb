------------------------------ MODULE MCSearch ------------------------------
(* A caller's own library and one shared with them, and what they ask. *)
EXTENDS Search

Libs == <<[id |-> "ann", label |-> "personal"], [id |-> "l1", label |-> "atlas"]>>

Docs ==
  [ann |-> <<[id |-> "a", status |-> "ready"], [id |-> "b", status |-> "ready"],
             [id |-> "c", status |-> "ingesting"]>>,
   l1 |-> <<[id |-> "a", status |-> "ready"]>>]

Headings == <<<<"G">>, <<"G", "x">>, <<"H", "y">>, <<"G", "x", "z">>, <<>>>>

Row(chunk, doc, score, ordinal, tokens, keyword) ==
  [chunk |-> chunk, doc |-> doc, score |-> score, ordinal |-> ordinal, tokens |-> tokens,
   keyword |-> keyword, heading |-> Headings[ordinal], section |-> <<ordinal>>]

\* The scores of a library's five best rows, in the order of the walk.
Scores == {<<-9, -7, -3, -1, -1>>, <<-4, -4, -4, -2, 0>>, <<-6, -1, 0, 0, 0>>}

\* Row i of the walk is the i-th of its document, or the document backwards.
OrdinalIn(f, i, backwards) ==
  LET before == Cardinality({j \in 1..i : f[j] = f[i]})
      total == Cardinality({j \in 1..5 : f[j] = f[i]})
  IN IF backwards THEN total - before + 1 ELSE before

OwnRows(f, s, keyword, tokens, backwards) ==
  [i \in 1..5 |-> Row(i, f[i], s[i], OrdinalIn(f, i, backwards), tokens[i], i = keyword)]

SharedRows == <<Row(11, "a", -8, 1, 1, FALSE), Row(12, "a", -2, 2, 1, TRUE), Row(13, "a", 0, 3, 1, FALSE)>>

\* The orders in which a document's own query may return rows that tie; the
\* walk has them in the order of the rows.
ChunkIds == 1..30
Ties == {[c \in ChunkIds |-> 31 - c], [c \in ChunkIds |-> (c + 2) % 5]}
InOrder == [c \in ChunkIds |-> c]

Shelf(rows, terms, walk, query) ==
  [libs |-> Libs, docs |-> Docs, rows |-> [ann |-> rows, l1 |-> SharedRows],
   terms |-> terms, pages |-> [ann |-> 4, l1 |-> 0], next |-> NoVersion,
   scans |-> [walk |-> walk, query |-> query], ties |-> [walk |-> InOrder, query |-> InOrder]]

Ones == [i \in 1..5 |-> 1]
Term(doc, n) == [lib |-> "ann", doc |-> doc, section |-> <<n>>]

Searches ==
  \E f \in [1..5 -> {"a", "b", "c"}], s \in Scores, keyword \in {0, 1, 2},
     t \in {{}, {Term("a", 2), Term("b", 2)}}, walk, query \in BOOLEAN, tie \in Ties,
     q \in {[k |-> 1, libraries |-> <<"personal">>, filter |-> <<>>],
            [k |-> 2, libraries |-> <<>>, filter |-> <<"G">>],
            [k |-> 2, libraries |-> <<>>, filter |-> <<>>],
            [k |-> 9, libraries |-> <<"atlas", "personal">>, filter |-> <<>>]} :
    /\ shelf = [Shelf(OwnRows(f, s, keyword, Ones, FALSE), t, walk, query) EXCEPT !.ties.query = tie]
    /\ asked = [tool |-> "search", doc |-> <<>>, libraries |-> q.libraries, k |-> q.k,
                filter |-> q.filter, keywords |-> FALSE]

\* Names given twice, names the caller reads no library under, one document.
OtherSearches ==
  \E names \in {<<"atlas", "atlas">>, <<"other">>, <<"atlas">>}, id \in {<<>>, <<"atlas", "a">>, <<"other", "a">>},
     keywords \in BOOLEAN :
    /\ shelf = Shelf(OwnRows([i \in 1..5 |-> "a"], <<-9, -7, -3, -1, -1>>, 1, Ones, FALSE), {},
                     TRUE, TRUE)
    /\ asked = [tool |-> "search", doc |-> id, libraries |-> names, k |-> 0, filter |-> <<>>,
                keywords |-> keywords]

ContextReads ==
  \E tokens \in [1..5 -> {1, 2, 5}], backwards \in BOOLEAN, chunk \in 1..5,
     side \in {<<0, 0>>, <<2, 1>>, <<-1, 3>>, <<9, 9>>} :
    /\ shelf = Shelf(OwnRows([i \in 1..5 |-> "b"], <<-9, -7, -3, -1, -1>>, 0, tokens, backwards), {},
                     TRUE, TRUE)
    /\ asked = [tool |-> "context", doc |-> <<"b">>, chunk |-> chunk, before |-> side[1],
                after |-> side[2], pageStart |-> 0, pageEnd |-> 0]

\* The same while a version of two chunks, or of four, is published, or the
\* document is removed.
Version(n) == [lib |-> "ann", doc |-> "b",
               rows |-> [i \in 1..n |-> Row(20 + i, "b", -1, i, IF i = 2 THEN 5 ELSE 1, FALSE)]]

ReadsMeanwhile ==
  \E tokens \in [1..5 -> {1, 5}], n \in {0, 2, 4}, chunk \in 1..5, side \in {<<0, 0>>, <<2, 1>>, <<9, 9>>} :
    /\ shelf = [Shelf(OwnRows([i \in 1..5 |-> "b"], <<-9, -7, -3, -1, -1>>, 0, tokens, FALSE), {},
                      TRUE, TRUE) EXCEPT !.next = Version(n)]
    /\ asked \in {[tool |-> "context", doc |-> <<"b">>, chunk |-> chunk, before |-> side[1],
                    after |-> side[2], pageStart |-> 0, pageEnd |-> 0],
                   [tool |-> "outline", doc |-> <<"b">>, depth |-> 2],
                   [tool |-> "list", libraries |-> <<>>]}

OtherReads ==
  \E id \in {<<"a">>, <<"b">>, <<"c">>, <<"other", "a">>, <<"atlas", "a">>}, backwards \in BOOLEAN,
     f \in [1..5 -> {"a", "b"}] :
    /\ shelf = Shelf(OwnRows(f, <<-9, -7, -3, -1, -1>>, 0, Ones, backwards), {}, TRUE, TRUE)
    /\ \/ asked = [tool |-> "context", doc |-> id, chunk |-> 1, before |-> 1, after |-> 0,
                   pageStart |-> 0, pageEnd |-> 0]
       \/ \E from \in 1..3, to \in 0..4 :
            asked = [tool |-> "context", doc |-> id, chunk |-> 0, before |-> 0, after |-> 0,
                     pageStart |-> from, pageEnd |-> to]
       \/ \E names \in {<<>>, <<"atlas">>, <<"other">>} :
            asked = [tool |-> "list", libraries |-> names]
       \/ \E depth \in 0..3 : asked = [tool |-> "outline", doc |-> id, depth |-> depth]

SearchInit ==
  /\ answer = NoAnswer /\ stage = Started
  /\ Searches \/ OtherSearches \/ ContextReads \/ ReadsMeanwhile \/ OtherReads

=============================================================================
