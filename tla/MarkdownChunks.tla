---------------------------- MODULE MarkdownChunks ----------------------------
(***************************************************************************)
(* How rk_rag.py cuts a markdown document into chunks: the document is     *)
(* divided into blocks (a paragraph, a table, a fenced block), the blocks  *)
(* are grouped under the headings above them, and the blocks of a section  *)
(* are packed into chunks of about ChunkSize characters, each prefixed by  *)
(* its headings.                                                           *)
(*                                                                         *)
(* A text is a sequence of lines.  A line has a kind, its number of        *)
(* characters and whether there is a "|" in it; a heading also has a level,*)
(* its size being that of its title (0 for "## ##"), and a fence the       *)
(* length of its run of marks.  A "sep" is a table's line of dashes.       *)
(***************************************************************************)
EXTENDS Integers, Sequences, FiniteSetsExt, SequencesExt

CONSTANTS
    ChunkSize,  \* --chunk-size
    Samples     \* bound: the texts the chunker is judged on

Blank(line) == line.kind = "blank"
Heading(line) == line.kind = "heading"
Fence(line) == line.kind = "fence"

Positive == Nat \ {0}
Line ==
    [kind : {"blank"}, bar : {FALSE}, size : Nat]
    \cup [kind : {"text"}, bar : BOOLEAN, size : Positive]
    \cup [kind : {"sep"}, bar : {TRUE}, size : Positive]
    \cup [kind : {"heading"}, bar : BOOLEAN, size : Nat, level : 1 .. 6]
    \cup [kind : {"fence"}, bar : BOOLEAN, size : Positive, mark : {"tick", "tilde"}, run : Positive]

\* load_single_markdown strips the text and refuses an empty one.
Document(text) ==
    text \in Seq(Line) /\ text # << >> /\ ~Blank(text[1]) /\ ~Blank(text[Len(text)])

ASSUME ChunksAssumption == ChunkSize \in Positive /\ \A text \in Samples : Document(text)

\* The characters of line i: a heading has its marks and a space before its title,
\* and each line but the last one of the text ends in a newline.
Width(text, i) ==
    text[i].size + (IF Heading(text[i]) THEN text[i].level + 1 ELSE 0)
                 + (IF i < Len(text) THEN 1 ELSE 0)

\* _line_offsets: the characters before line i.
Offset(text, i) ==
    LET cur[k \in 0 .. Len(text)] == IF k = 0 THEN 0 ELSE cur[k - 1] + Width(text, k)
    IN  cur[i - 1]

\* _is_table_start
TableStart(text, i) == i < Len(text) /\ text[i].bar /\ text[i + 1].kind = "sep"

Closes(line, open) == Fence(line) /\ line.mark = open.mark /\ line.run >= open.run

\* The line after the block that begins at line i: a fenced block goes up to the
\* line that closes it, a table up to the first line without a bar, a paragraph
\* up to what begins something else.
BlockEnd(text, i) ==
    LET after == i + 1 .. Len(text)
        stops == CASE Fence(text[i]) -> {k + 1 : k \in {k \in after : Closes(text[k], text[i])}}
                   [] ~Fence(text[i]) /\ TableStart(text, i) ->
                        {k \in after \ {i + 1} : ~text[k].bar}
                   [] OTHER ->
                        {k \in after : \/ Blank(text[k]) \/ Heading(text[k]) \/ Fence(text[k])
                                       \/ TableStart(text, k)}
    IN  Min(stops \cup {Len(text) + 1})

\* Mutant of Under: a heading leaves one of its own level in the path.
UnderPeer(path, h) ==
    LET kept == {n \in 0 .. Len(path) : \A k \in n + 1 .. Len(path) : path[k].level > h.level}
    IN  Append(SubSeq(path, 1, Min(kept)), h)

\* The heading path below heading h: those of its level or deeper are popped.
Under(path, h) ==
    LET kept == {n \in 0 .. Len(path) : \A k \in n + 1 .. Len(path) : path[k].level >= h.level}
    IN  Append(SubSeq(path, 1, Min(kept)), h)

\* flush_section
Flush(acc) ==
    IF acc.blocks = << >> THEN acc
    ELSE [acc EXCEPT !.blocks = << >>,
                     !.sections = Append(@, [path |-> acc.path, blocks |-> acc.blocks])]

\* A round of the loop of parse_markdown_sections; none is left to do after the last line.
Round(text, acc) ==
    LET i == acc.line
    IN  IF i > Len(text) THEN acc
        ELSE IF Heading(text[i])
        THEN [Flush(acc) EXCEPT !.line = i + 1, !.path = Under(@, text[i])]
        ELSE IF Blank(text[i]) THEN [acc EXCEPT !.line = i + 1]
        ELSE [acc EXCEPT !.line = BlockEnd(text, i),
                         !.blocks = Append(@, [first |-> i, end |-> BlockEnd(text, i)])]

\* That loop, of at most as many rounds as there are lines, ...
Walk(text) ==
    LET start == [line |-> 1, path |-> << >>, blocks |-> << >>, sections |-> << >>]
        acc[n \in 0 .. Len(text)] == IF n = 0 THEN start ELSE Round(text, acc[n - 1])
    IN  acc[Len(text)]

\* Mutant of Sections: the last section is not flushed.
SectionsUnflushed(text) == Walk(text).sections

\* ... and its end.
Sections(text) == Flush(Walk(text)).sections

\* The length of the text of a block, stripped of its last newline.
BlockSize(text, block) ==
    Offset(text, block.end) - Offset(text, block.first) - (IF block.end <= Len(text) THEN 1 ELSE 0)

\* The length of _heading_prefix: "## title" for each heading that has one.
PrefixSize(path) ==
    LET titled == {k \in DOMAIN path : path[k].size > 0}
    IN  IF titled = {} THEN 0
        ELSE MapThenSumSet(LAMBDA k : path[k].level + 1 + path[k].size + 1, titled) - 1

FullSize(path, body) == IF PrefixSize(path) = 0 THEN body ELSE PrefixSize(path) + 2 + body

\* A round of the loop of markdown_structured_chunks over the blocks of a section:
\* block b begins a chunk, after one that is full if there is one, or joins it.
Pack(text, path, acc, b) ==
    LET body == acc.body + 2 + BlockSize(text, b)
        begun == [first |-> b.first, end |-> b.end, body |-> BlockSize(text, b), out |-> acc.out]
    IN  IF acc.body = 0 THEN begun
        ELSE IF FullSize(path, body) > ChunkSize
        THEN [begun EXCEPT !.out = Append(@, [path |-> path, first |-> acc.first, end |-> acc.end])]
        ELSE [acc EXCEPT !.end = b.end, !.body = body]

\* The chunks of a section, in lines.
Packed(text, section) ==
    LET none == [first |-> 0, end |-> 0, body |-> 0, out |-> << >>]
        acc[n \in 0 .. Len(section.blocks)] ==
            IF n = 0 THEN none ELSE Pack(text, section.path, acc[n - 1], section.blocks[n])
        last == acc[Len(section.blocks)]
    IN  Append(last.out, [path |-> section.path, first |-> last.first, end |-> last.end])

\* The chunks of all sections, in lines.
AllPacked(text) ==
    LET out[n \in 0 .. Len(Sections(text))] ==
            IF n = 0 THEN << >> ELSE out[n - 1] \o Packed(text, Sections(text)[n])
    IN  out[Len(Sections(text))]

\* markdown_structured_chunks
Chunks(text) ==
    LET all == AllPacked(text)
    IN  [n \in DOMAIN all |-> [path |-> all[n].path, start |-> Offset(text, all[n].first),
                               end |-> Offset(text, all[n].end)]]

-----------------------------------------------------------------------------
(* What a text's chunks should be.                                         *)

In(text, k, chunk) == Offset(text, k) >= chunk.start /\ Offset(text, k) < chunk.end

\* A line that is neither blank nor a heading is in a chunk, and the chunks begin in the
\* order of the text.  A heading is not looked for: the chunks below it have it in their
\* paths (PathsInForce), and one without a line of text below it is in no chunk.
Covered(text) ==
    LET chunks == Chunks(text)
    IN  /\ \A n \in DOMAIN chunks : n > 1 => chunks[n - 1].start < chunks[n].start
        /\ \A k \in DOMAIN text :
            Blank(text[k]) \/ Heading(text[k]) \/ \E n \in DOMAIN chunks : In(text, k, chunks[n])

\* The headings in force at a chunk are those above it and outside every chunk (the
\* others are lines of a block) which no later heading of their level or of a higher
\* one has ended.  Each chunk's path is made of them, in their order.
PathsInForce(text) ==
    LET chunks == Chunks(text)
        headings == {k \in DOMAIN text :
            Heading(text[k]) /\ \A n \in DOMAIN chunks : ~In(text, k, chunks[n])}
        inForce(chunk) ==
            {k \in headings :
                /\ Offset(text, k) < chunk.start
                /\ \A l \in headings :
                    l > k /\ Offset(text, l) < chunk.start => text[l].level > text[k].level}
    IN  \A n \in DOMAIN chunks : \E line \in [DOMAIN chunks[n].path -> DOMAIN text] :
            /\ \A i, j \in DOMAIN chunks[n].path : i < j => line[i] < line[j]
            /\ {line[j] : j \in DOMAIN chunks[n].path} = inForce(chunks[n])
            /\ \A j \in DOMAIN chunks[n].path : chunks[n].path[j] = text[line[j]]

SamplesCovered == \A text \in Samples : Covered(text)
SamplesInForce == \A text \in Samples : PathsInForce(text)
=============================================================================
