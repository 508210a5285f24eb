----------------------------- MODULE MCGrading ------------------------------
(* Small documents that reach every rule of the chunker and the graders. *)
EXTENDS Grading

Line(words, cjk) == [words |-> words, cjk |-> cjk]

Shapes ==
  [blank   |-> << <<Line(0, 0)>> >>,
   stub    |-> << <<Line(1, 0)>> >>,
   short   |-> << <<Line(2, 0)>> >>,
   full    |-> << <<Line(3, 0)>> >>,
   lines   |-> << <<Line(3, 0), Line(0, 0), Line(2, 0)>> >>,
   paras   |-> << <<Line(3, 0)>>, <<Line(2, 0), Line(4, 0)>> >>,
   kana    |-> << <<Line(0, 3), Line(0, 3)>> >>]

\* The text of the block at position i, each line marked with where it stood.
Text(shape, i, key) ==
  [p \in DOMAIN Shapes[shape] |->
     [l \in DOMAIN Shapes[shape][p] |->
        [words |-> Shapes[shape][p][l].words, cjk |-> Shapes[shape][p][l].cjk,
         key |-> key, at |-> <<i, p, l>>]]]

Block(i, k) ==
  [section |-> k.section, path |-> k.path, text |-> Text(k.shape, i, k.key),
   sub |-> k.sub, figure |-> k.figure, label |-> IF k.sub THEN "H" ELSE NoName,
   page |-> k.page, pageEnd |-> k.page, images |-> k.images, url |-> "u"]

Kind(section, path, shape, sub) ==
  [section |-> section, path |-> path, shape |-> shape, sub |-> sub, figure |-> FALSE,
   key |-> NoKey, page |-> NoPage, images |-> 0]

Blocks(ks) == [i \in DOMAIN ks |-> Block(i, ks[i])]

Extraction(ks) ==
  [blocks |-> Blocks(ks), source |-> "outline", site |-> NoSite, toc |-> 0, body |-> 0,
   missing |-> {}, extra |-> {}, twice |-> {}, script |-> 0, pages |-> 0,
   terms |-> {<<1>>}]

\* Sections and headings of every small size.
Sectioned ==
  \E s, p, t \in [1..3 -> 1..4] :
    /\ \A i \in 1..3 : s[i] <= 3 /\ p[i] <= 2
    /\ GradingInit(Extraction(
         [i \in 1..3 |-> Kind(<<NoSection, <<1>>, <<1, 1>>>>[s[i]],
                              <<<<"A">>, <<"A", "B">>>>[p[i]],
                              <<"blank", "stub", "full", "lines">>[t[i]], FALSE)]))

\* One section to be cut: subheadings, stranded captions, paragraphs, lines.
Cut ==
  \E b \in [1..3 -> {"text", "heading", "caption"}],
     t \in [1..3 -> {"short", "full", "lines", "paras", "kana"}] :
    GradingInit(Extraction(
      [i \in 1..3 |-> [Kind(<<1>>, <<"A">>, t[i], b[i] # "text")
                         EXCEPT !.figure = b[i] = "caption"]]))

\* Whole documents for the graders: seven sections, in order or scattered,
\* under up to four heading paths; figures, furniture and pages.
Graded ==
  \E s \in {"outline", "heading_styles", "front_toc"}, x \in {0, 10, 50},
     a, b, c \in 0..7, key \in {NoKey, "footer"}, sections \in {2, 7} :
    /\ a <= b /\ b <= c
    /\ LET path(i) == IF i <= a THEN <<>> ELSE IF i <= b THEN <<"Index", "a">>
                      ELSE IF i <= c THEN <<"Index", "b">> ELSE <<"C">>
       IN GradingInit([Extraction([i \in 1..7 |->
                         [Kind(<<i % sections>>, path(i), "full", FALSE)
                            EXCEPT !.key = key, !.page = i % 3, !.images = i \div 6]])
                         EXCEPT !.source = s, !.script = x, !.pages = 2])

\* What the declared structure and the body may disagree on.
Declared ==
  \E t \in {"blank", "full"}, s \in {"outline", "front_toc", "sidebar_dom"},
     m \in {{}, {<<2>>}}, w \in {{}, {<<1>>}}, b \in {0, 1}, u \in SUBSET {"x", "y"},
     d \in {0, 6} :
    GradingInit([Extraction(<<Kind(<<1>>, <<"A">>, t, FALSE)>>) EXCEPT
      !.source = s, !.missing = m, !.twice = w, !.toc = 1, !.body = b,
      !.site = IF d = 0 THEN NoSite
               ELSE [declared |-> d, fetched |-> d - Cardinality(u), unreachable |-> u,
                     placed |-> u]])

MCInit == Sectioned \/ Cut \/ Graded \/ Declared
=============================================================================
