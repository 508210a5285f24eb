------------------------------ MODULE Grading -------------------------------
(***************************************************************************)
(* What is made of an extraction: the structure report that may refuse it  *)
(* (internal/domain/structure.go), the chunks and the report a document is *)
(* stored with (internal/service/ingest), and what a verification of the   *)
(* stored document measures and grades again (internal/domain/measure.go,  *)
(* grade.go, internal/service/document).                                   *)
(*                                                                         *)
(* Rates are compared by cross multiplication; the wording of notes and    *)
(* findings is abstracted to a code for each.                              *)
(***************************************************************************)
EXTENDS Chunking

CONSTANTS
  AddressabilityMinChunks,  \* 25
  GradeMinChunks,           \* 25
  FlatMinChunks,            \* 50
  FigureMaxTokens,          \* 40
  BoilerplateMinChunks      \* 8

VARIABLES
  ext,     \* the extraction at hand
  held,    \* the document made of it: its stage, its chunks, its report
  verdict  \* what a verification said

NoSite == [declared |-> 0, fetched |-> 0, unreachable |-> {}, placed |-> {}]
NoKey == "none"        \* a line that could not be page furniture
-----------------------------------------------------------------------------
(* The structure report. *)

MarkedUp(source) == source \in {"atx_headings", "h1_h6_nesting", "heading_styles"}
Validatable(source) == source \in {"front_toc", "sidebar_dom", "index_page"}

\* A site's two sides are what was declared and what arrived.
NewStructureReport(e) ==
  [source |-> e.source, site |-> e.site,
   toc  |-> IF e.site # NoSite THEN e.site.declared ELSE e.toc,
   body |-> IF e.site # NoSite THEN e.site.fetched ELSE e.body,
   missing |-> IF e.site # NoSite THEN {} ELSE e.missing,
   extra   |-> IF e.site # NoSite THEN {} ELSE e.extra,
   twice   |-> IF e.site # NoSite THEN {} ELSE e.twice,
   scattered |-> {}, chunks |-> 0, distinct |-> 0, largest |-> 0,
   largestPath |-> <<>>, headless |-> 0, script |-> 0]

CrossValidated(r) == Validatable(r.source) /\ r.toc > 0 /\ r.body > 0

Incomplete(r) ==
  r.site.declared > 0 /\ 5 * Cardinality(r.site.unreachable) >= r.site.declared

Fatal(r) ==
  \/ Validatable(r.source) /\ r.missing \cup r.extra # {}
  \/ Incomplete(r)

Ordinals(chunks, s) == {chunks[i].ordinal : i \in {j \in DOMAIN chunks : chunks[j].section = s}}

ScatteredSections(chunks) ==
  {s \in {chunks[i].section : i \in DOMAIN chunks} \ {NoSection} :
     LET o == Ordinals(chunks, s) IN Max(o) - Min(o) >= Cardinality(o)}

PerPath(chunks, p) == Cardinality({i \in DOMAIN chunks : chunks[i].path = p})
PathsOf(chunks) == {chunks[i].path : i \in DOMAIN chunks}
LargestSection(chunks) == Max({PerPath(chunks, p) : p \in PathsOf(chunks)})

\* The first in document order of the paths that hold the most.
LargestPath(chunks) ==
  chunks[Min({i \in DOMAIN chunks :
                PerPath(chunks, chunks[i].path) = LargestSection(chunks)})].path

Headless(chunks) == PerPath(chunks, <<>>)

MeasureChunks(r, chunks, script) ==
  [r EXCEPT !.scattered = ScatteredSections(chunks), !.chunks = Len(chunks),
            !.distinct = Cardinality(PathsOf(chunks)),
            !.largest = LargestSection(chunks),
            !.largestPath = LargestPath(chunks),
            !.headless = Headless(chunks), !.script = script]

Undivided(r) == r.chunks >= AddressabilityMinChunks /\ 2 * r.largest >= r.chunks

\* Long sections held against a document whose headings are all marked up.
UnaddressableAnySource(r) ==
  Undivided(r) \/ (r.chunks >= AddressabilityMinChunks /\ 2 * r.distinct < r.chunks)

Unaddressable(r) ==
  \/ Undivided(r)
  \/ /\ r.chunks >= AddressabilityMinChunks
     /\ ~MarkedUp(r.source)
     /\ 2 * r.distinct < r.chunks

MostlyHeadless(r) == r.chunks > 0 /\ 50 * r.headless >= r.chunks

Degraded(r) ==
  \/ r.twice # {}
  \/ r.scattered # {}
  \/ Unaddressable(r)
  \/ MostlyHeadless(r)
  \/ r.script >= 50

Quality(r) == IF Fatal(r) THEN "failed" ELSE IF Degraded(r) THEN "degraded" ELSE "ok"

AddressabilityNote(r) ==
  IF Undivided(r) /\ r.largestPath = <<>> THEN {"no heading path"}
  ELSE IF Undivided(r) THEN {"one heading path"}
  ELSE IF Unaddressable(r) THEN {"few heading paths"}
  ELSE {}

ScaleNotes(r) ==
  {n \in {"headless", "script", "not cross-validated"} :
     \/ n = "headless" /\ r.headless > 0
     \/ n = "script" /\ r.script >= 10
     \/ n = "not cross-validated" /\ Validatable(r.source) /\ ~CrossValidated(r)}

Notes(r) ==
  {n \in {"unreachable", "placed by path"} :
     \/ n = "unreachable" /\ r.site.unreachable # {}
     \/ n = "placed by path" /\ r.site.placed # {}}
    \cup AddressabilityNote(r) \cup ScaleNotes(r)

\* What is persisted, and what a caller reads back of it.
Stored(r) == [quality |-> Quality(r), notes |-> Notes(r), source |-> r.source,
              missing |-> r.missing, extra |-> r.extra, twice |-> r.twice,
              scattered |-> r.scattered]

Summary(s) ==
  s.notes \cup
  {n \in {"missing", "extra", "twice", "scattered"} :
     \/ n = "missing" /\ s.missing # {}
     \/ n = "extra" /\ s.extra # {}
     \/ n = "twice" /\ s.twice # {}
     \/ n = "scattered" /\ s.scattered # {}}
-----------------------------------------------------------------------------
(* Grading: the same document judged from its stored chunks. *)

FigureDominated(c) == c.images > 0 /\ EstimateTokens(c.text) < FigureMaxTokens

Severity(unusable) == IF unusable THEN "unusable" ELSE "degraded"
Finding(code, severity) == [code |-> code, severity |-> severity]

Where(chunks, P(_)) == Cardinality({i \in DOMAIN chunks : P(chunks[i])})

Oversized(chunks) ==
  LET n == Where(chunks, LAMBDA c : EstimateTokens(c.text) > MaxTokens)
  IN IF n = 0 \/ 10 * n < Len(chunks) THEN {}
     ELSE {Finding("oversized", Severity(100 * n >= 35 * Len(chunks)))}

Fragmented(chunks) ==
  LET mergeable == SelectSeq(chunks, LAMBDA c : c.section = NoSection /\ ~FigureDominated(c))
      n == Where(mergeable, LAMBDA c : EstimateTokens(c.text) < MinTokens)
  IN IF Len(mergeable) < GradeMinChunks \/ n = 0 \/ 10 * n < 3 * Len(mergeable) THEN {}
     ELSE {Finding("fragmented", Severity(10 * n >= 6 * Len(mergeable)))}

\* A path without headings is one level deep: splitting "" yields one part.
FlatHierarchy(chunks) ==
  IF Len(chunks) < FlatMinChunks \/ \E i \in DOMAIN chunks : Len(chunks[i].path) > 1
    THEN {} ELSE {Finding("flat_hierarchy", "degraded")}

Figures(chunks) ==
  LET n == Where(chunks, FigureDominated)
  IN IF n = 0 \/ 4 * n < Len(chunks) THEN {} ELSE {Finding("figure_dominated", "degraded")}

UnaddressableFinding(chunks, source) ==
  LET distinct == Cardinality(PathsOf(chunks))
  IN IF /\ 2 * LargestSection(chunks) < Len(chunks)
        /\ MarkedUp(source) \/ 2 * distinct >= Len(chunks)
       THEN {}
       ELSE {Finding("unaddressable", Severity(100 * distinct < 35 * Len(chunks)))}

\* Counted once per chunk, and furniture from a quarter of the chunks on.
Boilerplate(chunks) ==
  LET KeysOf(c) == {c.text[i].key : i \in DOMAIN c.text} \ {NoKey}
      keys      == UNION {KeysOf(chunks[i]) : i \in DOMAIN chunks}
      floor     == Max({BoilerplateMinChunks, Len(chunks) \div 4})
  IN IF \E k \in keys : Where(chunks, LAMBDA c : k \in KeysOf(c)) >= floor
       THEN {Finding("boilerplate", "degraded")} ELSE {}

Grade(chunks, source) ==
  IF Len(chunks) < GradeMinChunks THEN {}
  ELSE Oversized(chunks) \cup Fragmented(chunks) \cup FlatHierarchy(chunks)
         \cup Figures(chunks) \cup UnaddressableFinding(chunks, source)
         \cup Boilerplate(chunks)

GradeVerdict(findings) ==
  IF \E f \in findings : f.severity = "unusable" THEN "unusable"
  ELSE IF findings # {} THEN "degraded" ELSE "good"
-----------------------------------------------------------------------------
(* Measuring, and the verification built on both. *)

CoveredPages(chunks) ==
  UNION {chunks[i].pageStart .. chunks[i].pageEnd :
           i \in {j \in DOMAIN chunks : chunks[j].pageStart # NoPage}}

UncoveredPages(chunks, pageCount) == (1..pageCount) \ CoveredPages(chunks)

OrdinalGaps(chunks) ==
  {i \in 2..Len(chunks) : chunks[i].ordinal # chunks[i - 1].ordinal + 1}

MissingLocator(chunks, pageCount) ==
  pageCount > 0 /\ \E i \in DOMAIN chunks : chunks[i].pageStart = NoPage

\* Matched as a subtree, the way a section filter matches.
SectionHasChunks(chunks, s) ==
  \E i \in DOMAIN chunks : chunks[i].section # NoSection /\ IsPrefix(s, chunks[i].section)

UnjoinableSections(chunks, terms) == {s \in terms : ~SectionHasChunks(chunks, s)}

ProblemsOf(chunks, pageCount, terms) ==
  {p \in {"ordinals", "pages", "locator", "scattered", "unjoinable"} :
     \/ p = "ordinals" /\ OrdinalGaps(chunks) # {}
     \/ p = "pages" /\ UncoveredPages(chunks, pageCount) # {}
     \/ p = "locator" /\ MissingLocator(chunks, pageCount)
     \/ p = "scattered" /\ ScatteredSections(chunks) # {}
     \/ p = "unjoinable" /\ UnjoinableSections(chunks, terms) # {}}
-----------------------------------------------------------------------------
(* A source is read once; the document made of it is verified at any time. *)

Read == [stage |-> "read"]
Unverified == [problems |-> {}, findings |-> {}, verdict |-> "none"]
Refused(why) == [stage |-> "refused", why |-> why]

\* e is what an adapter handed over.
GradingInit(e) ==
  /\ ext = e
  /\ held = Read
  /\ verdict = Unverified

\* Every refusal comes before a row exists.
Prepare ==
  LET StoredAs(report, chunks) ==
        IF Fatal(report) THEN Refused("structure")
        ELSE IF chunks = <<>> THEN Refused("no chunks")
        ELSE [stage |-> "ready", chunks |-> chunks,
              report |-> MeasureChunks(report, chunks, ext.script)]
  IN /\ held = Read
     /\ held' = StoredAs(NewStructureReport(ext), Chunks(ext.blocks))
     /\ UNCHANGED <<ext, verdict>>

Verify ==
  /\ held.stage = "ready"
  /\ verdict = Unverified
  /\ LET findings == Grade(held.chunks, Stored(held.report).source)
     IN verdict' = [problems |-> ProblemsOf(held.chunks, ext.pages, ext.terms),
                    findings |-> findings,
                    verdict  |-> GradeVerdict(findings)]
  /\ UNCHANGED <<ext, held>>

GradingNext == Prepare \/ Verify
-----------------------------------------------------------------------------
IsReady == held.stage = "ready"
Verified == IsReady /\ verdict # Unverified
NonBlank(lines) == SelectSeq(lines, LAMBDA l : HasText(<<l>>))

\* Chunks: whatever grouping, merging, folding and cutting do, the text of a
\* stored document is the text that was extracted, every line once and in
\* order.
TextIsKept ==
  IsReady =>
    Flatten([i \in DOMAIN held.chunks |-> held.chunks[i].text]) = NonBlank(JoinTexts(ext.blocks))

BlockAt(line) == ext.blocks[line.at[1]]

\* capAtBlocks: a chunk passes MaxTokens only where nothing is left to cut:
\* it is one line, or one paragraph of a block of several.  Text in a
\* space-free script is left out: its weight is rounded per piece, and the
\* pieces of a chunk may add up to more than was counted.
OverCapOnlyUncut ==
  IsReady =>
    \A i \in DOMAIN held.chunks :
      LET text == held.chunks[i].text
      IN (EstimateTokens(text) > MaxTokens /\ \A j \in DOMAIN text : text[j].cjk = 0) =>
           \A j, k \in DOMAIN text :
             /\ text[j].at[1] = text[k].at[1] /\ text[j].at[2] = text[k].at[2]
             /\ j # k => Len(BlockAt(text[j]).text) > 1

WithText(s) == {i \in DOMAIN ext.blocks :
                  ext.blocks[i].section = s /\ HasText(TextOf(ext.blocks[i]))}

\* mergeSmall and foldChapterStubs: a section keeps its address.  Its text is
\* found under its number or, folded, under a subsection's; it is scattered
\* only where the document scattered it; and no chunk holds the text of a
\* section that is not its own or one above.
SectionsResolve ==
  IsReady =>
    /\ \A i \in DOMAIN ext.blocks :
         LET s == ext.blocks[i].section
         IN (s # NoSection /\ WithText(s) # {}) => SectionHasChunks(held.chunks, s)
    /\ \A s \in ScatteredSections(held.chunks) :
         \E i \in WithText(s), j \in WithText(s) : \E k \in i..j :
           ext.blocks[k].section # s
    /\ \A i \in DOMAIN held.chunks : \A j \in DOMAIN held.chunks[i].text :
         IsPrefix(BlockAt(held.chunks[i].text[j]).section, held.chunks[i].section)

\* The report made at ingest and the grade made of the stored chunks are
\* computed apart: they agree on whether a section filter can tell the chunks
\* apart, and a report that stored nothing wrong measures sound.
GradesAgree ==
  Verified =>
    /\ (\E f \in verdict.findings : f.code = "unaddressable") <=> Unaddressable(held.report)
    /\ "scattered" \in verdict.problems <=> held.report.scattered # {}
    /\ "ordinals" \notin verdict.problems
=============================================================================
