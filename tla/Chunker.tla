------------------------------ MODULE Chunker -------------------------------
(***************************************************************************)
(* knowledge/markdown_chunker.py: a document becomes sections that carry   *)
(* their headings, a section becomes blocks, and a section over the budget *)
(* is broken into blocks that fit and packed again, with an overlap.  A    *)
(* line is a record [k, lv, n]: what the expressions at lines 48-53 make   *)
(* of it, the level of a heading or the marker of a fence, and its tokens. *)
(* Everything else is told by line numbers.  Each definition named         *)
(* ...Wrong is a mutation of the one that follows it.                      *)
(***************************************************************************)
EXTENDS Integers, Sequences, SequencesExt, FiniteSets

CONSTANTS Documents,                                  \* set of sequences of lines
          MaxTokens, TargetTokens, OverlapTokens

ASSUME ChunkAssumption == MaxTokens \in Nat \ {0} /\ TargetTokens \in Nat /\ OverlapTokens \in Nat

VARIABLES lines,       \* the document
          done,        \* how many of its sections are chunked
          chunks       \* what came of them
chunkVars == <<lines, done, chunks>>

Is(i, k) == lines[i].k = k
Cost(is) == FoldLeft(LAMBDA sum, i : sum + lines[i].n, 0, is)
Join(blocks) == FlattenSeq([b \in DOMAIN blocks |-> blocks[b].lines])
CostOf(blocks) == Cost(Join(blocks))
Block(kind, held, first, last) == [kind |-> kind, lines |-> held, first |-> first, last |-> last]

(* ---- parse_blocks ------------------------------------------------------- *)
\* flush(end): the blank lines at the end of the buffer belong to nothing
Flush(s, end) ==
    LET kept == SelectInSeq(Reverse(s.buf), LAMBDA i : ~Is(i, "blank"))
        size == IF kept = 0 THEN 0 ELSE Len(s.buf) - kept + 1
    IN  [s EXCEPT !.blocks = IF size = 0 THEN @
                             ELSE Append(@, Block(s.kind, SubSeq(s.buf, 1, size), s.start,
                                                  end - (Len(s.buf) - size))),
                  !.buf = <<>>]
From(s, kind, start) == [s EXCEPT !.kind = kind, !.start = start]
KindOf(i) == CASE lines[i].k \in {"row", "sep"} -> "table" [] Is(i, "quote") -> "quote" [] OTHER -> "paragraph"

ReadLine(s, i) ==
    CASE s.fence # 0 ->
            IF Is(i, "fence") /\ lines[i].lv = s.fence
            THEN [blocks |-> Append(s.blocks, Block("fence", Append(s.buf, i), s.start, i)),
                  buf |-> <<>>, kind |-> "paragraph", start |-> i + 1, fence |-> 0]
            ELSE [s EXCEPT !.buf = Append(@, i)]
      [] s.fence = 0 /\ Is(i, "fence") ->
            [Flush(s, i - 1) EXCEPT !.buf = <<i>>, !.start = i, !.fence = lines[i].lv]
      [] s.fence = 0 /\ Is(i, "blank") ->
            IF s.kind \in {"table", "quote"} THEN From(Flush(s, i - 1), "paragraph", i + 1)
            ELSE IF s.buf # <<>> THEN [s EXCEPT !.buf = Append(@, i)]
            ELSE From(s, s.kind, i + 1)
      [] s.fence = 0 /\ Is(i, "rule") -> From(Flush(s, i - 1), "paragraph", i + 1)
      [] OTHER ->
            LET t == IF KindOf(i) # s.kind /\ s.buf # <<>> THEN From(Flush(s, i - 1), s.kind, i) ELSE s
            IN  [t EXCEPT !.kind = KindOf(i), !.buf = Append(@, i)]

ParseBlocksPastEndWrong(first, last) ==
    LET s == FoldLeft(ReadLine, [blocks |-> <<>>, buf |-> <<>>, kind |-> "paragraph", start |-> first, fence |-> 0],
                      [i \in 1..(last - first + 1) |-> first + i - 1])
    IN  IF s.fence # 0 THEN Append(s.blocks, Block("fence", s.buf, s.start, last + 1)) ELSE Flush(s, last).blocks
ParseBlocks(first, last) ==
    LET s == FoldLeft(ReadLine, [blocks |-> <<>>, buf |-> <<>>, kind |-> "paragraph", start |-> first, fence |-> 0],
                      [i \in 1..(last - first + 1) |-> first + i - 1])
    IN  IF s.fence # 0 THEN Append(s.blocks, Block("fence", s.buf, s.start, last)) ELSE Flush(s, last).blocks

(* ---- parse_sections ----------------------------------------------------- *)
\* A section under construction is [heads, start, first]; text before any heading gets a stub.
Close(s, end) == IF s.open = <<>> THEN s.sections
                 ELSE Append(s.sections, [s.open[1] EXCEPT !.blocks = ParseBlocks(s.open[1].first, end)])
Stub(heads, start, first) == <<[heads |-> heads, start |-> start, first |-> first, blocks |-> <<>>]>>
HeadsNotPoppedWrong(heads, i) == SelectSeq(heads, LAMBDA h : lines[h].lv # lines[i].lv)
\* a heading at level N replaces the path from N onwards
Above(heads, i) == SelectSeq(heads, LAMBDA h : lines[h].lv < lines[i].lv)
ReadHeading(s, i) ==
    LET fence == IF ~Is(i, "fence") THEN s.fence ELSE IF s.fence = 0 THEN lines[i].lv
                 ELSE IF lines[i].lv = s.fence THEN 0 ELSE s.fence
    IN  IF Is(i, "head") /\ fence = 0
        THEN LET heads == Append(Above(s.heads, i), i)
             IN  [sections |-> Close(s, i - 1), heads |-> heads, open |-> Stub(heads, i, i + 1), fence |-> 0]
        ELSE [s EXCEPT !.fence = fence, !.open = IF @ = <<>> THEN Stub(<<>>, i, i) ELSE @]
ParseSections ==
    LET s == FoldLeft(ReadHeading, [sections |-> <<>>, heads |-> <<>>, open |-> <<>>, fence |-> 0],
                      [i \in DOMAIN lines |-> i])
    IN  Close(s, Len(lines))

(* ---- breaking what is too large ----------------------------------------- *)
\* _split_table: rows in groups under the repeated header, each with the last row of the group before
SplitTableUncitedWrong(block, budget) ==
    LET size   == IF Len(block.lines) > 1 /\ Is(block.lines[2], "sep") THEN 2 ELSE 1
        header == SubSeq(block.lines, 1, size)
        rows   == SubSeq(block.lines, size + 1, Len(block.lines))
        offset == block.first + size
        Group(s, last) == Append(s.groups, Block("table", header \o s.rows, offset + s.first, offset + last))
        Take(s, k) ==
            IF s.rows # <<>> /\ Cost(header) + Cost(s.rows) + Cost(<<rows[k]>>) > budget
            THEN LET again == IF Cost(<<Last(s.rows)>>) < budget \div 4 THEN <<Last(s.rows)>> ELSE <<>>
                 IN  [groups |-> Group(s, k - 2), first |-> k - 1, rows |-> Append(again, rows[k])]
            ELSE [s EXCEPT !.rows = Append(@, rows[k])]
        end    == FoldLeft(Take, [groups |-> <<>>, first |-> 0, rows |-> <<>>], [k \in DOMAIN rows |-> k])
    IN  IF rows = <<>> THEN <<block>> ELSE Group(end, Len(rows) - 1)
SplitTable(block, budget) ==
    LET size   == IF Len(block.lines) > 1 /\ Is(block.lines[2], "sep") THEN 2 ELSE 1
        header == SubSeq(block.lines, 1, size)
        rows   == SubSeq(block.lines, size + 1, Len(block.lines))
        offset == block.first + size
        Group(s, last) == Append(s.groups, Block("table", header \o s.rows, offset + s.first, offset + last))
        Take(s, k) ==
            IF s.rows # <<>> /\ Cost(header) + Cost(s.rows) + Cost(<<rows[k]>>) > budget
            THEN LET again == IF Cost(<<Last(s.rows)>>) < budget \div 4 THEN <<Last(s.rows)>> ELSE <<>>
                 IN  [groups |-> Group(s, k - 2), first |-> k - 1 - Len(again), rows |-> Append(again, rows[k])]
            ELSE [s EXCEPT !.rows = Append(@, rows[k])]
        end    == FoldLeft(Take, [groups |-> <<>>, first |-> 0, rows |-> <<>>], [k \in DOMAIN rows |-> k])
    IN  IF rows = <<>> THEN <<block>> ELSE Group(end, Len(rows) - 1)

\* _hard_split: anything else breaks between lines
HardSplitLosesTailWrong(block, budget) ==
    LET fits == {k \in DOMAIN block.lines : Cost(SubSeq(block.lines, 1, k)) <= budget}
        k    == Cardinality(fits)
    IN  IF k = 0 THEN <<block>> ELSE <<Block(block.kind, SubSeq(block.lines, 1, k), block.first, block.first + k - 1)>>
HardSplit(block, budget) ==
    LET Cut(s, k) ==
            IF s.lines # <<>> /\ Cost(s.lines) + Cost(<<block.lines[k]>>) > budget
            THEN [out   |-> Append(s.out, Block(block.kind, s.lines, s.start, block.first + k - 2)),
                  lines |-> <<block.lines[k]>>, start |-> block.first + k - 1]
            ELSE [s EXCEPT !.lines = Append(@, block.lines[k])]
        end == FoldLeft(Cut, [out |-> <<>>, lines |-> <<>>, start |-> block.first], [k \in DOMAIN block.lines |-> k])
    IN  Append(end.out, Block(block.kind, end.lines, end.start, block.last))

(* ---- atoms and packing -------------------------------------------------- *)
\* _atomize: a fence goes with the prose before it, else with the prose after it
AtomizeBackOnlyWrong(blocks) ==
    FoldLeft(LAMBDA atoms, k : IF blocks[k].kind = "fence" /\ atoms # <<>> /\ Last(Last(atoms)).kind = "paragraph"
                               THEN Append(Front(atoms), Append(Last(atoms), blocks[k]))
                               ELSE Append(atoms, <<blocks[k]>>), <<>>, [k \in DOMAIN blocks |-> k])
Atomize(blocks) ==
    LET Glue(s, k) ==
            IF s.taken THEN [s EXCEPT !.taken = FALSE]
            ELSE IF blocks[k].kind = "fence" /\ s.atoms # <<>> /\ Last(Last(s.atoms)).kind = "paragraph"
            THEN [s EXCEPT !.atoms = Append(Front(@), Append(Last(@), blocks[k]))]
            ELSE IF blocks[k].kind = "fence" /\ k < Len(blocks) /\ blocks[k + 1].kind = "paragraph"
            THEN [taken |-> TRUE, atoms |-> Append(s.atoms, <<blocks[k], blocks[k + 1]>>)]
            ELSE [s EXCEPT !.atoms = Append(@, <<blocks[k]>>)]
    IN  FoldLeft(Glue, [taken |-> FALSE, atoms |-> <<>>], [k \in DOMAIN blocks |-> k]).atoms

CarryOverAllWrong(group) == group
\* what of a full group is said again in the next: its last atom, if that is short prose
CarryOver(group) == IF CostOf(Last(group)) <= OverlapTokens /\ \A b \in Range(Last(group)) : b.kind = "paragraph"
                THEN <<Last(group)>> ELSE <<>>
Pack(atoms, soft, budget) ==
    LET CostOfGroup(g) == CostOf(FlattenSeq(g))
        Put(s, k) ==
            LET cost == CostOfGroup(s.group) + CostOf(atoms[k])
            IN  IF s.group # <<>> /\ cost > soft /\ cost > budget
                THEN [packed |-> Append(s.packed, s.group), group |-> Append(CarryOver(s.group), atoms[k])]
                ELSE [s EXCEPT !.group = Append(@, atoms[k])]
        end == FoldLeft(Put, [packed |-> <<>>, group |-> <<>>], [k \in DOMAIN atoms |-> k])
    IN  IF end.group = <<>> THEN end.packed ELSE Append(end.packed, end.group)

(* ---- chunk_section ------------------------------------------------------ *)
LargerOf(a, b)  == IF a > b THEN a ELSE b
SmallerOf(a, b) == IF a < b THEN a ELSE b
Sticky(section) == LET other == SelectInSeq(section.blocks, LAMBDA b : b.kind # "quote")
                   IN  SubSeq(section.blocks, 1, IF other = 0 THEN Len(section.blocks) ELSE other - 1)
HeadOf(section) == section.heads \o Join(Sticky(section))
Budget(section) == LargerOf(MaxTokens - Cost(HeadOf(section)), MaxTokens \div 4)
Soft(section)   == LargerOf(SmallerOf(TargetTokens - Cost(HeadOf(section)), Budget(section)), Budget(section) \div 2)
Rest(section)   == SubSeq(section.blocks, Len(Sticky(section)) + 1, Len(section.blocks))
Chunk(section, blocks, first) ==
    [head |-> HeadOf(section), body |-> Join(blocks), first |-> first,
     last |-> FoldLeft(LAMBDA l, b : LargerOf(l, b.last), 0, IF blocks = <<>> THEN Sticky(section) ELSE blocks),
     cost |-> Cost(HeadOf(section)) + CostOf(blocks)]
\* break anything that alone exceeds the budget, then pack
Expanded(section) ==
    FlattenSeq([k \in DOMAIN Rest(section) |->
        LET block == Rest(section)[k] IN
        IF Cost(block.lines) <= Budget(section) THEN <<block>>
        ELSE IF block.kind = "table" THEN SplitTable(block, Budget(section)) ELSE HardSplit(block, Budget(section))])
ChunkSection(section) ==
    IF Rest(section) = <<>>
    THEN IF Sticky(section) = <<>> THEN <<>> ELSE <<Chunk(section, <<>>, section.start)>>
    ELSE IF Cost(HeadOf(section)) + CostOf(Rest(section)) <= MaxTokens
    THEN <<Chunk(section, Rest(section), section.start)>>
    ELSE LET groups == Pack(Atomize(Expanded(section)), Soft(section), Budget(section))
         IN  [g \in DOMAIN groups |->
                 LET flat == FlattenSeq(groups[g])
                 IN  Chunk(section, flat, FoldLeft(LAMBDA f, b : SmallerOf(f, b.first), Len(lines), flat))]

-----------------------------------------------------------------------------
ChunkOf(document) == lines = document /\ done = 0 /\ chunks = <<>>
ChunkInit == \E document \in Documents : ChunkOf(document)
\* chunk_document, one section at a time
ChunkDocument == /\ done < Len(ParseSections)
                 /\ done' = done + 1
                 /\ chunks' = chunks \o ChunkSection(ParseSections[done + 1])
                 /\ UNCHANGED lines
ChunkNext == ChunkDocument
-----------------------------------------------------------------------------
(* What is checked, of documents whose sections are all chunked.           *)

Chunked == done = Len(ParseSections)
\* Every chunk is made of lines of the document and is cited with a range of them.
ChunkTypeOK == /\ done \in 0..Len(ParseSections)
               /\ \A c \in Range(chunks) : /\ c.first \in DOMAIN lines /\ c.last \in c.first..Len(lines)
                                           /\ Range(c.body) \cup Range(c.head) \subseteq DOMAIN lines

\* The marker of the fence that is open after a line, by the rule of markdown.
OpenAfter[i \in 0..Len(lines)] ==
    IF i = 0 THEN 0
    ELSE IF ~Is(i, "fence") THEN OpenAfter[i - 1]
    ELSE IF OpenAfter[i - 1] = 0 THEN lines[i].lv
    ELSE IF OpenAfter[i - 1] = lines[i].lv THEN 0 ELSE OpenAfter[i - 1]
Coded(i)     == Is(i, "fence") \/ OpenAfter[i - 1] # 0
IsHeading(i) == Is(i, "head") /\ ~Coded(i)
IsContent(i) == ~IsHeading(i) /\ ~Is(i, "blank") /\ (Is(i, "rule") => Coded(i))
IsTable(i)   == KindOf(i) = "table" /\ ~Coded(i)
TopOf(i)     == CHOOSE h \in 1..i : /\ \A g \in h..i : IsTable(g)
                                    /\ h > 1 => ~IsTable(h - 1)
Header(i)    == {TopOf(i)} \cup ({TopOf(i) + 1} \cap {s \in 1..i : Is(s, "sep")})

\* However the document is cut, every line of it that says something can be found: no block, and no
\* rest of a block that was too large, is left out.
NoLineIsLost == Chunked => \A i \in DOMAIN lines : IsContent(i) =>
    \E c \in Range(chunks) : i \in Range(c.body) \cup Range(c.head)

\* The lines a chunk is cited with are those it says: nothing between them is missing from it, and
\* its body says nothing else but the header that its rows come under.
CitationIsExact == Chunked => \A c \in Range(chunks) :
    /\ \A i \in c.first..c.last : IsContent(i) => i \in Range(c.body) \cup Range(c.head)
    /\ \A i \in Range(c.body) \ (c.first..c.last) :
          IsTable(i) /\ \E r \in Range(c.body) \cap (c.first..c.last) : IsTable(r) /\ i \in Header(r)

Governs(h, i) == h < i /\ IsHeading(h) /\ \A g \in (h + 1)..i : IsHeading(g) => lines[g].lv > lines[h].lv
Opens(q, i)   == \E h \in 0..(q - 1) : /\ h = 0 \/ IsHeading(h)
                                       /\ \A g \in (h + 1)..i : ~IsHeading(g)
                                       /\ \A g \in (h + 1)..q : lines[g].k \in {"quote", "blank", "rule"}
\* A reader of one chunk knows where its lines stand: it carries the headings they are under and no
\* other, the quotes that their section opens with, and the header of the table its rows come from.
ContextTravels == Chunked => \A c \in Range(chunks) : \A i \in Range(c.body) :
    /\ {h \in DOMAIN lines : Governs(h, i)} = {h \in Range(c.head) : IsHeading(h)}
    /\ \A q \in 1..(i - 1) : Is(q, "quote") /\ Opens(q, i) => q \in Range(c.head)
    /\ Is(i, "row") /\ IsTable(i) => Header(i) \subseteq Range(c.body)

Prose(i) == Is(i, "text") /\ ~Coded(i)
Beside(first, last) == {i \in DOMAIN lines : Prose(i) /\
    \/ i < first /\ \A g \in (i + 1)..(first - 1) : Is(g, "blank")
    \/ i > last  /\ \A g \in (last + 1)..(i - 1) : Is(g, "blank")}
\* A formula that fits is never alone: with prose beside it, it stands in a chunk with some of it.
FormulaKeepsItsProse == Chunked =>
    \A k \in DOMAIN ParseSections : \A b \in Range(Rest(ParseSections[k])) :
       b.kind = "fence" /\ Cost(b.lines) <= Budget(ParseSections[k]) /\ Beside(b.first, b.last) # {} =>
          \E c \in Range(chunks) : Range(b.lines) \subseteq Range(c.body)
                                   /\ Range(c.body) \cap Beside(b.first, b.last) # {}

\* The overlap is one of neighbours: a line is said by two chunks at most, and by one after the other.
OverlapIsOfNeighbours == Chunked => \A i \in DOMAIN lines : \A a, b \in DOMAIN chunks :
    /\ a < b /\ b - a > 1 /\ i \in Range(chunks[a].body) /\ i \in Range(chunks[b].body)
    => IsTable(i) /\ i \in Header(i)

\* A document is cut without loss, each piece with its place, its headings and its context
\* (markdown_chunker.py).
ChunksHold == ChunkTypeOK /\ NoLineIsLost /\ CitationIsExact /\ ContextTravels /\ FormulaKeepsItsProse
              /\ OverlapIsOfNeighbours
=============================================================================
