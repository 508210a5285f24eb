----------------------------- MODULE Navigation -----------------------------
(***************************************************************************)
(* How a crawl becomes one document: internal/site/nav places every page   *)
(* in a tree and internal/site turns the placed pages into blocks.         *)
(*                                                                         *)
(* A tree is its nodes in depth-first order, each with the path of numbers *)
(* that leads to it (at) and the page it links to (url), NoUrl where it    *)
(* only names a level.  That is the order and the numbering of flatten.    *)
(***************************************************************************)
EXTENDS Integers, Sequences, FiniteSets, SequencesExt

CONSTANTS
  Segments,        \* the path of a page below the seed, as groups then a name
  NoUrl,
  ChromeMinPages   \* 5: fewer pages repeat nothing

VARIABLES
  site,        \* the crawled pages in order, what the seed page declares, the texts
  hierarchy,   \* the placements, their source, the pages placed by path
  blocks       \* the text of the document, in order

navVars == <<site, hierarchy, blocks>>

NoHierarchy == [source |-> "none", placements |-> <<>>, byPath |-> <<>>]
-----------------------------------------------------------------------------
(* Trees. *)

\* flatten: the first placement of each page.
FlattenTree(tree, prefix) ==
  LET first(i) == /\ tree[i].url # NoUrl
                  /\ \A j \in 1..(i - 1) : tree[j].url # tree[i].url
      kept == SelectSeq([i \in DOMAIN tree |-> i], first)
  IN [k \in DOMAIN kept |->
        [url |-> tree[kept[k]].url, section |-> prefix \o tree[kept[k]].at]]

Before(a, b) ==
  \E i \in 1..Len(b) :
    /\ \A j \in 1..(i - 1) : j <= Len(a) /\ a[j] = b[j]
    /\ i > Len(a) \/ a[i] < b[i]

\* A node hung under the node at path p of a tree, after its other children.
Hang(tree, p, url) ==
  LET children == Cardinality({i \in DOMAIN tree :
                     Len(tree[i].at) = Len(p) + 1 /\ IsPrefix(p, tree[i].at)})
  IN Append(tree, [at |-> Append(p, children + 1), url |-> url])

\* urlPathTree: a group for each folder on the way to a page, made once.
UrlPathTree(urls) ==
  LET group(acc, name) ==
        IF name \in DOMAIN acc.groups THEN acc
        ELSE LET parent == IF Len(name) = 1 THEN <<>> ELSE acc.groups[Front(name)]
                 tree == Hang(acc.tree, parent, NoUrl)
             IN [tree |-> tree, groups |-> [n \in DOMAIN acc.groups \cup {name} |->
                   IF n = name THEN Last(tree).at ELSE acc.groups[n]]]
      add(acc, url) ==
        LET segs == Segments[url]
            names == [k \in 1..(Len(segs) - 1) |-> SubSeq(segs, 1, k)]
            open == FoldLeft(group, acc, names)
            parent == IF names = <<>> THEN <<>> ELSE open.groups[Last(names)]
        IN [open EXCEPT !.tree = Hang(@, parent, url)]
      built == FoldLeft(add, [tree |-> <<>>, groups |-> [n \in {} |-> <<>>]], urls).tree
  IN SortSeq(built, LAMBDA m, n : Before(m.at, n.at))

\* sidebarTree: the candidate with the most links, the first of equals.
SidebarTree(navs) ==
  LET links(i) == Cardinality({k \in DOMAIN navs[i] : navs[i][k].url # NoUrl})
      best == {i \in DOMAIN navs : \A j \in DOMAIN navs :
                 links(j) < links(i) \/ (links(j) = links(i) /\ i <= j)}
  IN IF navs = <<>> \/ \A i \in DOMAIN navs : links(i) = 0 THEN <<>>
     ELSE navs[CHOOSE i \in best : TRUE]

\* indexPageTree: a hub page's links under the headings above them.
IndexPageTree(elements) ==
  LET popped(open, level) == SelectSeq(open, LAMBDA o : o.level < level)
      add(acc, e) ==
        LET open == IF e.level > 0 THEN popped(acc.open, e.level) ELSE acc.open
            parent == IF open = <<>> THEN <<>> ELSE Last(open).at
            tree == Hang(acc.tree, parent, e.url)
        IN IF e.level > 0
             THEN [acc EXCEPT !.tree = tree,
                              !.open = Append(open, [level |-> e.level, at |-> Last(tree).at])]
           ELSE IF e.url \in acc.seen THEN acc
           ELSE [acc EXCEPT !.tree = tree, !.seen = @ \cup {e.url}]
      built == FoldLeft(add, [tree |-> <<>>, open |-> <<>>, seen |-> {}], elements).tree
  IN SortSeq(built, LAMBDA m, n : Before(m.at, n.at))
-----------------------------------------------------------------------------
(* Choosing a source and placing every page. *)

Placed(placements) == {placements[i].url : i \in DOMAIN placements}
Covered(placements) == Cardinality(Placed(placements) \cap ToSet(site.coverage))

\* bestCandidate: the source that places most of the page set.
Sources ==
  IF ~site.seedRead THEN <<>>
  ELSE <<[name |-> "sidebar", placements |-> FlattenTree(SidebarTree(site.navs), <<>>)],
         [name |-> "index", placements |-> FlattenTree(IndexPageTree(site.elements), <<>>)]>>

BestCandidate ==
  FoldLeft(LAMBDA best, s : IF Covered(s.placements) > Covered(best.placements) THEN s ELSE best,
           [name |-> "url path", placements |-> <<>>], Sources)

Named(best) == SelectSeq(best.placements, LAMBDA p : p.url \in ToSet(site.coverage))

\* Leaving out the pages the source does not name.
PlaceDeclared(best) ==
  [source |-> best.name, placements |-> Named(best), byPath |-> <<>>]

\* place: the pages the source names, and the rest by path, numbered under
\* one more than the pages it named.
Place(best) ==
  LET kept == Named(best)
      missing == SelectSeq(site.coverage, LAMBDA u : u \notin Placed(kept))
  IN [source |-> best.name, byPath |-> missing,
      placements |-> kept \o FlattenTree(UrlPathTree(missing), <<Len(kept) + 1>>)]

\* Derive: a source that places less than half of the pages is no map.
Derive ==
  /\ hierarchy = NoHierarchy /\ site.coverage # <<>>
  /\ hierarchy' = IF 2 * Covered(BestCandidate.placements) < Len(site.coverage)
                    THEN [source |-> "url path", byPath |-> site.coverage,
                          placements |-> FlattenTree(UrlPathTree(site.coverage), <<>>)]
                    ELSE Place(BestCandidate)
  /\ UNCHANGED <<site, blocks>>
-----------------------------------------------------------------------------
(* The document. *)

SectionOf(u) ==
  hierarchy.placements[CHOOSE i \in DOMAIN hierarchy.placements :
                         hierarchy.placements[i].url = u].section

\* orderedPages: the placed pages in navigation order, equals as crawled.
OrderedPages ==
  LET placed == SelectSeq(site.coverage, LAMBDA u : u \in Placed(hierarchy.placements))
      at(u) == CHOOSE i \in DOMAIN placed : placed[i] = u
  IN SortSeq(placed, LAMBDA u, v : \/ Before(SectionOf(u), SectionOf(v))
                                   \/ SectionOf(u) = SectionOf(v) /\ at(u) < at(v))

\* chromeTexts: a text on half of the pages, and on ChromeMinPages at least,
\* is furniture.
ChromeTexts(pages) ==
  LET on(t) == Cardinality({i \in DOMAIN pages : t \in ToSet(site.items[pages[i]])})
      threshold == Max({ChromeMinPages, Len(pages) \div 2})
  IN IF Len(pages) < ChromeMinPages THEN {}
     ELSE {t \in UNION {ToSet(site.items[pages[i]]) : i \in DOMAIN pages} : on(t) >= threshold}

\* BuildExtraction: every text of every page but the site's chrome.
BuildExtraction ==
  /\ hierarchy # NoHierarchy /\ blocks = <<>>
  /\ blocks' = LET pages == OrderedPages
                   texts(u) == SelectSeq(site.items[u], LAMBDA t : t \notin ChromeTexts(pages))
               IN FoldLeft(LAMBDA acc, u :
                             acc \o [k \in DOMAIN texts(u) |->
                                       [url |-> u, section |-> SectionOf(u), text |-> texts(u)[k]]],
                           <<>>, pages)
  /\ UNCHANGED <<site, hierarchy>>

NavigationNext == Derive \/ BuildExtraction
-----------------------------------------------------------------------------
\* orderedPages: "nav places every fetched page".  Each page the crawl fetched
\* is placed once, and each of its texts that most of the site does not repeat
\* reaches the document under that page's section, whatever the seed page's
\* navigation leaves out.
EveryPageIsIndexed ==
  hierarchy # NoHierarchy =>
    \A u \in ToSet(site.coverage) :
      /\ Cardinality({i \in DOMAIN hierarchy.placements : hierarchy.placements[i].url = u}) = 1
      /\ blocks # <<>> =>
           \A t \in ToSet(site.items[u]) \ ChromeTexts(site.coverage) :
             [url |-> u, section |-> SectionOf(u), text |-> t] \in ToSet(blocks)

\* "each page becomes an authoritative section keyed by its position in that
\* tree": no two pages of the document have the same section.
SectionsAreKeys ==
  hierarchy # NoHierarchy =>
    \A u, v \in ToSet(site.coverage) : SectionOf(u) = SectionOf(v) => u = v
=============================================================================
