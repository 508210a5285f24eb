------------------------------- MODULE Search -------------------------------
(***************************************************************************)
(* What the agent's tools read (internal/mcpserver/server.go over          *)
(* internal/pgstore: search.go, context.go, section.go, store.go,          *)
(* library.go): search, get_context, outline and list_documents.  One      *)
(* request at a time is answered from a shelf: the libraries the caller    *)
(* reads, their own first.  A search is one transaction; the other tools   *)
(* read in several, and an ingest may publish a version, or a removal      *)
(* commit, between two of them.                                            *)
(*                                                                         *)
(* The lower a score the better; the rows that match nothing have score 0  *)
(* and come last.  Rows that tie come back in an order of each statement's *)
(* own, which depends on how deep the top-k search was asked to look.  A   *)
(* heading path and a section number are sequences of their parts.         *)
(* Wording, urls and images are left out.                                  *)
(***************************************************************************)
EXTENDS Integers, Sequences, FiniteSets, SequencesExt

CONSTANTS
  IndexBoost,               \* 2.0
  KeywordReferencePenalty,  \* 6.0
  DefaultK, MaxK, ToolMaxK, \* 8, 200 in the store, 25 in the tool
  PoolFactor,               \* 4: a pool is this many times k
  ContextTokenCap,          \* 6000
  MaxContextSide,           \* 50
  MaxContextPages,          \* 20
  MaxTopHeadings            \* 15

ASSUME SearchBounds ==
  /\ DefaultK \in 1..ToolMaxK /\ ToolMaxK <= MaxK
  /\ PoolFactor >= 1 /\ ContextTokenCap >= 1 /\ MaxContextSide >= 0
  /\ MaxContextPages >= 1 /\ MaxTopHeadings >= 1

VARIABLES
  shelf,   \* [libs, docs, rows, terms, pages, scans, ties, next]: what the
           \* tables hold, how statements read it, what is published next
  asked,   \* the tool's input
  stage,   \* the transaction the call is at, and what it found before
  answer   \* what it answered

searchVars == <<shelf, asked, stage, answer>>

NoAnswer == [tool |-> "none"]
NotFound == [tool |-> "error"]
NoVersion == [lib |-> "none"]
Started == [at |-> "start", found |-> 0]

AtMost(n, s) == SubSeq(s, 1, IF n < Len(s) THEN n ELSE Len(s))
-----------------------------------------------------------------------------
(* Libraries. *)

Own(lib) == lib.label = "personal"

Qualify(lib, doc) == IF Own(lib) THEN <<doc>> ELSE <<lib.label, doc>>

\* Resolve: the library a doc_id names, if the caller reads one of that name.
NamesLibrary(lib, id) == IF Len(id) = 1 THEN Own(lib) ELSE lib.label = id[1]

Readable(id) == \E i \in DOMAIN shelf.libs : NamesLibrary(shelf.libs[i], id)

Resolve(id) ==
  [lib |-> SelectSeq(shelf.libs, LAMBDA l : NamesLibrary(l, id))[1], local |-> Last(id)]

\* chosen: every library, or each of the names given, in that order.
Chosen(names) ==
  IF names = <<>> THEN shelf.libs
  ELSE [i \in DOMAIN names |-> SelectSeq(shelf.libs, LAMBDA l : l.label = names[i])[1]]

AllRead(names) == \A i \in DOMAIN names : \E j \in DOMAIN shelf.libs : shelf.libs[j].label = names[i]

Ready(lib, doc) == \E i \in DOMAIN shelf.docs[lib.id] :
                     shelf.docs[lib.id][i] = [id |-> doc, status |-> "ready"]
-----------------------------------------------------------------------------
(* Ranking. *)

\* Component-wise: chapter 4 covers 4.1 and never 41.
SectionCovers(ref, section) == ref # <<>> /\ section # <<>> /\ IsPrefix(ref, section)
AnySectionCovers(refs, section) == \E ref \in refs : SectionCovers(ref, section)

SectionWithin(filter, row) == filter = <<>> \/ IsPrefix(filter, row.heading)

\* indexSections: where the matching index entries of a document point.
IndexSections(lib, doc) == {t.section : t \in {t \in shelf.terms : t.lib = lib.id /\ t.doc = doc}}

Adjusted(row, sections, keepKeywords) ==
  [row EXCEPT !.score = @
     - (IF AnySectionCovers(sections, row.section) THEN IndexBoost ELSE 0)
     + (IF row.keyword /\ ~keepKeywords THEN KeywordReferencePenalty ELSE 0)]

\* slices.SortStableFunc by score.
StableByScore(s) ==
  LET at == SortSeq([i \in DOMAIN s |-> i],
                    LAMBDA i, j : s[i].score < s[j].score \/ (s[i].score = s[j].score /\ i < j))
  IN [i \in DOMAIN s |-> s[at[i]]]

RankCandidates(pool, k) == AtMost(k, StableByScore(pool))

PoolSize(k) == PoolFactor * k

\* What a statement ordered by score reads: the matches, and where Postgres
\* scans and sorts instead of walking the index, every other row after them.
\* tie[c] is the place of chunk c among the rows it ties with.
Ordered(rows, scans, tie) ==
  SortSeq(IF scans THEN rows ELSE SelectSeq(rows, LAMBDA r : r.score < 0),
          LAMBDA r, s : r.score < s.score \/ (r.score = s.score /\ tie[r.chunk] < tie[s.chunk]))

\* The library's rows as the walk meets them, and as a document's own query.
Walked(lib) == Ordered(shelf.rows[lib.id], shelf.scans.walk, shelf.ties.walk)
Queried(lib) == Ordered(shelf.rows[lib.id], shelf.scans.query, shelf.ties.query)

Within(p, rows) == SelectSeq(rows, LAMBDA r : SectionWithin(p.filter, r))

\* A walk that counts one pool for the whole library, as a LIMIT would.
WalkLimited(lib, p) ==
  AtMost(PoolSize(p.k),
         SelectSeq(Within(p, Walked(lib)), LAMBDA r : Ready(lib, r.doc)))

\* walk: one pass over the library, filling each ready document's pool.
Walk(lib, p) ==
  FoldLeft(LAMBDA kept, r :
             IF Ready(lib, r.doc)
                  /\ Len(SelectSeq(kept, LAMBDA e : e.doc = r.doc)) < PoolSize(p.k)
               THEN Append(kept, r) ELSE kept,
           <<>>, Within(p, Walked(lib)))

\* score, scoredRows.pools: a kept row that matched nothing is dropped here.
Pool(lib, p, doc, kept) ==
  LET own == SelectSeq(kept, LAMBDA r : r.doc = doc /\ r.score < 0)
  IN [i \in DOMAIN own |-> Adjusted(own[i], IndexSections(lib, doc), p.keywords)]

\* rankedPools, in document order.
RankedPools(lib, p) ==
  LET kept == Walk(lib, p)
      docs == SelectSeq(shelf.docs[lib.id], LAMBDA d : Pool(lib, p, d.id, kept) # <<>>)
  IN [i \in DOMAIN docs |-> RankCandidates(Pool(lib, p, docs[i].id, kept), p.k)]

TierAt(perDoc, depth) ==
  LET deep == SelectSeq(perDoc, LAMBDA res : depth <= Len(res))
  IN [i \in DOMAIN deep |-> deep[i][depth]]

\* interleave: every document's best, then every document's second.
InterleaveByRank(perDoc, k) ==
  FoldLeft(LAMBDA out, depth : out \o AtMost(k - Len(out), StableByScore(TierAt(perDoc, depth))),
           <<>>, [d \in 1..k |-> d])

\* oneDocument: the document's own query, LIMIT before the zero scores go.
OneDocument(lib, p, doc) ==
  IF ~Ready(lib, doc) THEN <<>>
  ELSE LET rows == SelectSeq(Within(p, Queried(lib)), LAMBDA r : r.doc = doc)
           found == SelectSeq(AtMost(PoolSize(p.k), rows), LAMBDA r : r.score < 0)
       IN RankCandidates([i \in DOMAIN found |->
                            Adjusted(found[i], IndexSections(lib, doc), p.keywords)], p.k)

Prepared(p) == [p EXCEPT !.k = IF @ <= 0 THEN DefaultK ELSE IF @ > MaxK THEN MaxK ELSE @]

Labelled(lib, results) ==
  [i \in DOMAIN results |-> [id |-> Qualify(lib, results[i].doc), chunk |-> results[i].chunk,
                             score |-> results[i].score]]

\* poolsIn, SearchLibraries.
SearchLibraries(libs, p) ==
  LET inLib(lib, pools) == [i \in DOMAIN pools |-> Labelled(lib, pools[i])]
  IN InterleaveByRank(
       FoldLeft(LAMBDA acc, lib : acc \o inLib(lib, RankedPools(lib, p)), <<>>, libs), p.k)

\* searchIn: a doc_id of a library the caller does not read is looked up in
\* their own, where no identifier holds a slash.
SearchIn(q) ==
  IF q.doc = <<>> THEN SearchLibraries(Chosen(q.libraries), Prepared(q))
  ELSE IF Readable(q.doc)
    THEN LET at == Resolve(q.doc) IN Labelled(at.lib, OneDocument(at.lib, Prepared(q), at.local))
    ELSE <<>>

SearchTool(q) ==
  LET capped == [q EXCEPT !.k = IF @ > ToolMaxK THEN ToolMaxK ELSE @]
      found(results) ==
        [tool |-> "search", results |-> results,
         spans |-> q.doc = <<>> /\ Cardinality({r.id : r \in ToSet(results)}) > 1]
  IN IF q.doc = <<>> /\ ~AllRead(q.libraries) THEN NotFound ELSE found(SearchIn(capped))
-----------------------------------------------------------------------------
(* Reading around a result. *)

ByOrdinal(rows) == SortSeq(rows, LAMBDA r, s : r.ordinal < s.ordinal)
Rows(lib, doc) == ByOrdinal(SelectSeq(shelf.rows[lib.id], LAMBDA r : r.doc = doc))

TokensOf(span) == FoldLeft(LAMBDA t, r : t + r.tokens, 0, span)

\* trimToCap that eats from the front up to and with the chunk asked for.
TrimToCapFront(span, anchor) ==
  FoldLeft(LAMBDA s, i :
             IF TokensOf(s) <= ContextTokenCap \/ Len(s) = 1 THEN s
             ELSE IF s[1].ordinal <= anchor THEN Tail(s) ELSE Front(s),
           span, [i \in DOMAIN span |-> i])

\* trimToCap: from the front while it precedes the anchor, then from the back.
TrimToCap(span, anchor) ==
  FoldLeft(LAMBDA s, i :
             IF TokensOf(s) <= ContextTokenCap \/ Len(s) = 1 THEN s
             ELSE IF s[1].ordinal < anchor THEN Tail(s) ELSE Front(s),
           span, [i \in DOMAIN span |-> i])

Side(n) == IF n < 0 THEN 0 ELSE IF n > MaxContextSide THEN MaxContextSide ELSE n

\* contextSpan: the rows of the document whose ordinal is on either side.
ContextSpan(lib, doc, anchor, before, after) ==
  SelectSeq(Rows(lib, doc), LAMBDA r : r.ordinal \in anchor - before .. anchor + after)

\* The tool asks for one chunk a side when told neither.
Around(q) ==
  LET unsaid == q.before = 0 /\ q.after = 0
  IN [before |-> IF unsaid THEN 1 ELSE Side(q.before), after |-> IF unsaid THEN 1 ELSE Side(q.after)]

\* GetContext, once it knows the ordinal of the chunk asked for.
GetContext(lib, doc, q, anchor) ==
  LET span == ContextSpan(lib, doc, anchor, Around(q).before, Around(q).after)
      kept == TrimToCap(span, anchor)
  IN [tool |-> "context", chunks |-> [i \in DOMAIN kept |-> kept[i].chunk],
      truncated |-> Len(kept) < Len(span)]

\* GetPages: a range that runs backwards is its first page.
GetPages(lib, doc, q) ==
  LET end == IF q.pageEnd < q.pageStart THEN q.pageStart ELSE q.pageEnd
      capped == end - q.pageStart + 1 > MaxContextPages
      last == IF capped THEN q.pageStart + MaxContextPages - 1 ELSE end
  IN [tool |-> "pages", truncated |-> capped,
      pages |-> (q.pageStart .. last) \cap (1..shelf.pages[lib.id])]

\* ancestry: the headings above a row nobody placed before, down to depth;
\* the one that is its own carries the chunk.
Ancestry(row, depth, placed) ==
  SelectSeq([d \in 1..(IF depth < Len(row.heading) THEN depth ELSE Len(row.heading)) |->
               [path |-> SubSeq(row.heading, 1, d),
                chunk |-> IF d = Len(row.heading) THEN row.chunk ELSE 0]],
            LAMBDA e : \A i \in DOMAIN placed : placed[i].path # e.path)

Outline(lib, doc, q) ==
  LET depth == IF q.depth <= 0 THEN 2 ELSE q.depth
  IN [tool |-> "outline",
      entries |-> FoldLeft(LAMBDA out, r : out \o Ancestry(r, depth, out), <<>>, Rows(lib, doc))]

\* topLevelHeadings: each first part of a path once, in document order.
TopLevelHeadings(lib, doc) ==
  AtMost(MaxTopHeadings,
         FoldLeft(LAMBDA out, r :
                    IF r.heading = <<>> \/ r.heading[1] \in ToSet(out) THEN out
                    ELSE Append(out, r.heading[1]),
                  <<>>, Rows(lib, doc)))

\* ListReadyDocuments of every library chosen.
ReadyDocuments(libs) ==
  LET ready(lib) == SelectSeq(shelf.docs[lib.id], LAMBDA d : d.status = "ready")
  IN FoldLeft(LAMBDA acc, lib : acc \o [i \in DOMAIN ready(lib) |->
                                           [lib |-> lib, doc |-> ready(lib)[i].id]], <<>>, libs)
-----------------------------------------------------------------------------
(* The transactions of a call. *)

Asks(tools) == answer = NoAnswer /\ asked.tool \in tools

Answers(a) == answer' = a /\ UNCHANGED <<shelf, asked, stage>>
Found(at, found) == stage' = [at |-> at, found |-> found] /\ UNCHANGED <<shelf, asked, answer>>

Search == Asks({"search"}) /\ Answers(SearchTool(asked))

\* requireReady, of the document the tool was given.
RequireReady ==
  /\ Asks({"context", "outline"}) /\ stage = Started
  /\ LET at == Resolve(asked.doc)
     IN IF Readable(asked.doc) /\ Ready(at.lib, at.local) THEN Found("ready", 0)
        ELSE Answers(NotFound)

\* chunkOrdinal
ChunkOrdinal ==
  /\ Asks({"context"}) /\ asked.pageStart <= 0 /\ stage.at = "ready"
  /\ LET at == Resolve(asked.doc)
         of == SelectSeq(Rows(at.lib, at.local), LAMBDA r : r.chunk = asked.chunk)
     IN IF of = <<>> THEN Answers(NotFound) ELSE Found("anchor", of[1].ordinal)

\* contextSpan, and the cut, which reads nothing more.
ReadContext ==
  /\ Asks({"context"}) /\ stage.at = "anchor"
  /\ LET at == Resolve(asked.doc)
     IN Answers(GetContext(at.lib, at.local, asked, stage.found))

ReadPages ==
  /\ Asks({"context"}) /\ asked.pageStart > 0 /\ stage.at = "ready"
  /\ LET at == Resolve(asked.doc) IN Answers(GetPages(at.lib, at.local, asked))

ReadOutline ==
  /\ Asks({"outline"}) /\ stage.at = "ready"
  /\ LET at == Resolve(asked.doc) IN Answers(Outline(at.lib, at.local, asked))

\* ListDocuments: the documents, then each one's headings.
ListReady ==
  /\ Asks({"list"}) /\ stage = Started
  /\ IF AllRead(asked.libraries) THEN Found("listed", ReadyDocuments(Chosen(asked.libraries)))
     ELSE Answers(NotFound)

ListHeadings ==
  /\ Asks({"list"}) /\ stage.at = "listed"
  /\ Answers([tool |-> "list",
               documents |-> [i \in DOMAIN stage.found |->
                  LET d == stage.found[i]
                  IN [id |-> Qualify(d.lib, d.doc), headings |-> TopLevelHeadings(d.lib, d.doc)]]])

\* An ingest publishes a version of a document, whose chunks are new rows, or
\* the document is removed, and with it its rows.
Publish ==
  /\ shelf.next # NoVersion /\ answer = NoAnswer
  /\ LET v == shelf.next
         others == SelectSeq(shelf.rows[v.lib], LAMBDA r : r.doc # v.doc)
         rest == SelectSeq(shelf.docs[v.lib], LAMBDA d : d.id # v.doc)
     IN shelf' = [shelf EXCEPT !.rows[v.lib] = others \o v.rows,
                               !.docs[v.lib] = IF v.rows = <<>> THEN rest ELSE @,
                               !.next = NoVersion]
  /\ UNCHANGED <<asked, stage, answer>>

SearchNext ==
  \/ Search \/ RequireReady \/ ChunkOrdinal \/ ReadContext \/ ReadPages \/ ReadOutline
  \/ ListReady \/ ListHeadings \/ Publish
-----------------------------------------------------------------------------
(* Properties. *)

\* What a search of one document answers, by the doc_id the merged one gives.
Alone(id) == SearchTool([asked EXCEPT !.doc = id, !.libraries = <<>>]).results

Of(id, results) == SelectSeq(results, LAMBDA r : r.id = id)

ScoresOf(results) == [i \in DOMAIN results |-> results[i].score]

\* Whether rows that tie stand on both sides of the end of a document's pool:
\* which of them the pool holds is then up to the statement that filled it.
TieAtEdge(lib, doc, p) ==
  LET own == SelectSeq(Within(p, Queried(lib)), LAMBDA r : r.doc = doc /\ r.score < 0)
      n == PoolSize(p.k)
  IN Len(own) > n /\ own[n].score = own[n + 1].score

\* A search of many documents is the searches of each, merged by rank ("Each
\* pool is then ranked exactly as a search of that document alone ranks it";
\* "each document's best answer competes with every other document's best
\* answer, its second with their seconds"): although one walk fills all the
\* pools, orders ties its own way and may scan where the other does not, the
\* scores of every document's part are a prefix of those a search of it alone
\* answers, unless its pool ends in the middle of a tie; a document gives its
\* n-th answer only after every other has given its n - 1 first or has no
\* more; and fewer than k come back only when every document is exhausted.
MergedIsScoped ==
  LET p == Prepared([asked EXCEPT !.k = IF @ > ToolMaxK THEN ToolMaxK ELSE @])
      libs == ToSet(Chosen(asked.libraries))
      ids == UNION {{Qualify(lib, d.id) : d \in ToSet(shelf.docs[lib.id])} : lib \in libs}
      blurred(id) == TieAtEdge(Resolve(id).lib, Resolve(id).local, p)
      merged(results, alone) ==
        LET given == [id \in DOMAIN alone |-> Len(Of(id, results))]
        IN /\ Len(results) <= p.k
           /\ \A id \in DOMAIN alone :
                blurred(id) \/ IsPrefix(ScoresOf(Of(id, results)), ScoresOf(alone[id]))
           /\ \A i \in DOMAIN results : results[i].id \in DOMAIN alone
           /\ Len(results) < p.k => \A id \in DOMAIN alone : given[id] = Len(alone[id])
           /\ \A id, other \in DOMAIN alone :
                given[id] <= given[other] + 1 \/ given[other] = Len(alone[other])
  IN answer.tool = "search" /\ asked.doc = <<>> /\ IsInjective(asked.libraries)
       => merged(answer.results, [id \in ids |-> Alone(id)])

\* trimToCap: "so the chunk the caller asked for always survives the cap".
\* Whatever is published between the three transactions, the answer is a run
\* of one version of the document, with the chunk asked for wherever that
\* version still holds it; the run is cut only when it must be and no further
\* than it must: it fits the cap unless one chunk alone does not, and a run
\* that was cut would not fit with the next chunk put back.
AnchorSurvives ==
  answer.tool = "context" =>
    LET at == Resolve(asked.doc)
        rows == Rows(at.lib, at.local)
        place(c) == CHOOSE i \in DOMAIN rows : rows[i].chunk = c
        first == place(answer.chunks[1])
        last == place(Last(answer.chunks))
        wide(i, j) == i < 1 \/ j > Len(rows) \/ TokensOf(SubSeq(rows, i, j)) > ContextTokenCap
    IN /\ (\E i \in DOMAIN rows : rows[i].chunk = asked.chunk) => asked.chunk \in ToSet(answer.chunks)
       /\ answer.chunks # <<>> =>
            /\ ToSet(answer.chunks) \subseteq {rows[i].chunk : i \in DOMAIN rows}
            /\ answer.chunks = [i \in 1..(last - first + 1) |-> rows[first + i - 1].chunk]
            /\ Len(answer.chunks) > 1 => ~wide(first, last)
            /\ answer.truncated => wide(first - 1, last) \/ wide(first, last + 1)
=============================================================================
