------------------------------ MODULE Chunking ------------------------------
(***************************************************************************)
(* The chunker (internal/domain/chunking.go, tokens.go): how the blocks an *)
(* adapter extracts become the chunks a search returns.  Pure operators;   *)
(* Grading says what a document is made of them.                           *)
(*                                                                         *)
(* A block's text is a sequence of paragraphs, each a sequence of lines; a *)
(* line is what the token estimator sees of it (words, and characters of a *)
(* space-free script), the key page furniture is counted under, and where  *)
(* it was read, which nothing here looks at: it lets a property follow it. *)
(* A section number is the sequence of its parts, <<5, 2, 1>>.             *)
(***************************************************************************)
EXTENDS Integers, Sequences, FiniteSets, SequencesExt

CONSTANTS
  MaxTokens,           \* 1200: a unit over this is cut
  MinTokens,           \* 100: a unit under this absorbs its next sibling
  StubMaxTokens,       \* 30: a chapter's preamble under this joins its child
  ReferenceFamilyMin,  \* 30: the entries of a reference index
  ListingNames,        \* headings that declare their children a listing
  LongNames            \* headings of more than four words

ASSUME BoundsOrdered == StubMaxTokens <= MinTokens /\ MinTokens <= MaxTokens

NoSection == <<>>      \* a block outside any numbered section
NoName == "none"       \* a skipped heading level, "" in a path
NoPage == 0            \* a format without pages

Flatten(ss) == FoldLeft(LAMBDA a, s : a \o s, <<>>, ss)
Total(f(_), s) == FoldLeft(LAMBDA a, x : a + f(x), 0, s)
-----------------------------------------------------------------------------
(* Sizes. *)

\* A character of a space-free script weighs 1/1.3, rounded half to even; ten
\* thirteenths never fall half way.
CountAtoms(lines) ==
  LET cjk == Total(LAMBDA l : l.cjk, lines)
      q   == (10 * cjk) \div 13
  IN Total(LAMBDA l : l.words, lines)
       + (IF 2 * ((10 * cjk) % 13) > 13 THEN q + 1 ELSE q)

TokensFromAtoms(atoms) == (atoms * 13) \div 10

EstimateTokens(lines) == TokensFromAtoms(CountAtoms(lines))

TextOf(b) == Flatten(b.text)
JoinTexts(blocks) == Flatten([i \in DOMAIN blocks |-> TextOf(blocks[i])])
HasText(lines) == \E i \in DOMAIN lines : lines[i].words + lines[i].cjk > 0
AnyText(blocks) == \E i \in DOMAIN blocks : HasText(TextOf(blocks[i]))
-----------------------------------------------------------------------------
(* Units: runs of blocks of one section and heading path. *)

Unit(section, path, blocks) ==
  [section |-> section, path |-> path, blocks |-> blocks]

Tokens(u) == EstimateTokens(JoinTexts(u.blocks))

Parent(path) == IF path = <<>> THEN <<>> ELSE Front(path)
ParentOrSelf(path) == IF Len(path) > 1 THEN Front(path) ELSE path

IsDescendant(child, parent) ==
  child # NoSection /\ parent # NoSection /\ IsStrictPrefix(parent, child)

\* Joins each unit to the last one out where Joins says so, as the loops of
\* mergeSmall and foldChapterStubs do.
Fused(units, Joins(_, _), Join(_, _)) ==
  FoldLeft(LAMBDA out, u : IF out # <<>> /\ Joins(Last(out), u)
                             THEN Append(Front(out), Join(Last(out), u))
                             ELSE Append(out, u),
           <<>>, units)

Group(blocks) ==
  Fused([i \in DOMAIN blocks |->
           Unit(blocks[i].section, blocks[i].path, <<blocks[i]>>)],
        LAMBDA u, v : u.section = v.section /\ u.path = v.path,
        LAMBDA u, v : [u EXCEPT !.blocks = @ \o v.blocks])

Mergeable(cur, next) ==
  next.section = cur.section /\ Parent(cur.path) = Parent(next.path)

\* Merging whatever is small, across sections.
MergeSmallAnywhere(units) ==
  Fused(units,
        LAMBDA u, v : Tokens(u) < MinTokens,
        LAMBDA u, v : Unit(v.section, ParentOrSelf(u.path), u.blocks \o v.blocks))

MergeSmall(units) ==
  Fused(units,
        LAMBDA u, v : Tokens(u) < MinTokens /\ Mergeable(u, v),
        LAMBDA u, v : Unit(u.section, ParentOrSelf(u.path), u.blocks \o v.blocks))

IsStub(cur, next) ==
  /\ cur.section # NoSection
  /\ IsDescendant(next.section, cur.section)
  /\ Tokens(cur) < StubMaxTokens

FoldChapterStubs(units) ==
  Fused(units, IsStub,
        LAMBDA u, v : Unit(v.section, v.path, u.blocks \o v.blocks))
-----------------------------------------------------------------------------
(* Parts: what an oversized unit is cut into. *)

Part(path, blocks) == [path |-> path, blocks |-> blocks]

\* Greedy: a new group starts when the next item, of size atoms[i], would pass
\* the cap.  The groups of the items' indices.
PackByAtoms(atoms) ==
  FoldLeft(LAMBDA gs, i :
             IF gs # <<>> /\ TokensFromAtoms(Total(LAMBDA j : atoms[j], Append(Last(gs), i)))
                               <= MaxTokens
               THEN Append(Front(gs), Append(Last(gs), i))
               ELSE Append(gs, <<i>>),
           <<>>, [i \in DOMAIN atoms |-> i])

BlockAtoms(blocks) == [i \in DOMAIN blocks |-> CountAtoms(TextOf(blocks[i]))]

Pick(items, groups) == [g \in DOMAIN groups |-> [k \in DOMAIN groups[g] |-> items[groups[g][k]]]]
PackBlocks(blocks) == Pick(blocks, PackByAtoms(BlockAtoms(blocks)))

\* A run starts at each subheading the adapter marked; a run without one in
\* front carries no label.
SubheadingRuns(blocks) ==
  FoldLeft(LAMBDA rs, b :
             IF b.sub /\ ~b.figure THEN Append(rs, [label |-> b.label, blocks |-> <<b>>])
             ELSE IF rs # <<>> THEN [rs EXCEPT ![Len(rs)].blocks = Append(@, b)]
             ELSE <<[label |-> NoName, blocks |-> <<b>>]>>,
           <<>>, blocks)

RunBlocks(runs) == Flatten([i \in DOMAIN runs |-> runs[i].blocks])

PackedPath(path, runs) ==
  LET named == SelectSeq(runs, LAMBDA r : r.label # NoName)
  IN IF Len(named) = 1 THEN Append(path, named[1].label) ELSE path

RunAtoms(run) == Total(LAMBDA n : n, BlockAtoms(run.blocks))
PackRuns(runs) == Pick(runs, PackByAtoms([i \in DOMAIN runs |-> RunAtoms(runs[i])]))

RunParts(path, groups) ==
  [i \in DOMAIN groups |-> Part(PackedPath(path, groups[i]), RunBlocks(groups[i]))]

SubdivideAtHeadings(u) ==
  LET Divided(runs) == IF Len(runs) <= 1
                         THEN <<Part(u.path, u.blocks)>>
                         ELSE RunParts(u.path, PackRuns(runs))
  IN Divided(SubheadingRuns(u.blocks))

\* At its paragraphs, or at its lines where it is one paragraph.  Either way
\* the pieces of a group end up in one paragraph, joined by line breaks.
SplitBlock(b) ==
  LET Pack(pieces) == Pick(pieces, PackByAtoms([i \in DOMAIN pieces |-> CountAtoms(pieces[i])]))
      Joined(groups) ==
        [i \in DOMAIN groups |-> [b EXCEPT !.text = <<Flatten(groups[i])>>]]
  IN IF EstimateTokens(TextOf(b)) <= MaxTokens
       THEN <<b>>
       ELSE Joined(Pack(IF Len(b.text) = 1
                          THEN [i \in DOMAIN b.text[1] |-> <<b.text[1][i]>>]
                          ELSE b.text))

BlockParts(path, groups) == [i \in DOMAIN groups |-> Part(path, groups[i])]

\* Cutting only where blocks end.
CapAtBlocksUnsplit(parts) ==
  Flatten([i \in DOMAIN parts |-> BlockParts(parts[i].path, PackBlocks(parts[i].blocks))])

CapAtBlocks(parts) ==
  LET Expanded(bs) == Flatten([i \in DOMAIN bs |-> SplitBlock(bs[i])])
      Cut(p) == IF EstimateTokens(JoinTexts(p.blocks)) <= MaxTokens
                  THEN <<p>>
                  ELSE BlockParts(p.path, PackBlocks(Expanded(p.blocks)))
  IN Flatten([i \in DOMAIN parts |-> Cut(parts[i])])

\* Judging a part by the block it starts with.
UnitPartsByFirstBlock(u) ==
  IF ~HasText(JoinTexts(u.blocks)) THEN <<>>
  ELSE IF Tokens(u) <= MaxTokens THEN <<Part(u.path, u.blocks)>>
  ELSE SelectSeq(CapAtBlocks(SubdivideAtHeadings(u)),
                 LAMBDA p : HasText(TextOf(p.blocks[1])))

UnitParts(u) ==
  IF ~HasText(JoinTexts(u.blocks)) THEN <<>>
  ELSE IF Tokens(u) <= MaxTokens THEN <<Part(u.path, u.blocks)>>
  ELSE SelectSeq(CapAtBlocks(SubdivideAtHeadings(u)), LAMBDA p : AnyText(p.blocks))
-----------------------------------------------------------------------------
(* Chunks. *)

JoinPath(path) == SelectSeq(path, LAMBDA n : n # NoName)

PagesOf(blocks) == {blocks[i].page : i \in DOMAIN blocks} \ {NoPage}
LastPagesOf(blocks) ==
  {blocks[i].pageEnd : i \in {j \in DOMAIN blocks : blocks[j].page # NoPage}}

Emit(ordinal, path, blocks, section) ==
  [ordinal   |-> ordinal,
   path      |-> JoinPath(path),
   text      |-> SelectSeq(JoinTexts(blocks), LAMBDA l : HasText(<<l>>)),
   section   |-> section,
   pageStart |-> IF PagesOf(blocks) = {} THEN NoPage ELSE Min(PagesOf(blocks)),
   pageEnd   |-> IF PagesOf(blocks) = {} THEN NoPage ELSE Max(LastPagesOf(blocks)),
   images    |-> Total(LAMBDA b : b.images, blocks),
   kind      |-> "prose",
   url       |-> blocks[1].url]

\* The shallowest strict ancestor that declares itself a listing.
ReferenceFamily(path) ==
  LET depths == {d \in 1..(Len(path) - 1) : path[d] \in ListingNames}
  IN IF depths = {} THEN <<>> ELSE SubSeq(path, 1, Min(depths))

IsReferenceListing(chunks, members) ==
  /\ Cardinality(members) >= ReferenceFamilyMin
  /\ 10 * Cardinality({i \in members : Last(chunks[i].path) \notin LongNames})
       >= 6 * Cardinality(members)

ClassifyKinds(chunks) ==
  LET Family(i) == {j \in DOMAIN chunks :
                      ReferenceFamily(chunks[j].path) = ReferenceFamily(chunks[i].path)}
  IN [i \in DOMAIN chunks |->
        IF /\ ReferenceFamily(chunks[i].path) # <<>>
           /\ IsReferenceListing(chunks, Family(i))
          THEN [chunks[i] EXCEPT !.kind = "keyword-reference"]
          ELSE chunks[i]]

EmitAll(pieces) ==
  [i \in DOMAIN pieces |-> Emit(i - 1, pieces[i].path, pieces[i].blocks, pieces[i].section)]

Chunks(blocks) ==
  LET Under(section, parts) ==
        [i \in DOMAIN parts |->
           [path |-> parts[i].path, blocks |-> parts[i].blocks, section |-> section]]
      Pieces(units) ==
        Flatten([i \in DOMAIN units |-> Under(units[i].section, UnitParts(units[i]))])
  IN ClassifyKinds(EmitAll(Pieces(FoldChapterStubs(MergeSmall(Group(blocks))))))
=============================================================================
