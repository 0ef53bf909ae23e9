----------------------------- MODULE MCKnowledge -----------------------------
(***************************************************************************)
(* A small knowledge base, and all short documents, for TLC.               *)
(***************************************************************************)
EXTENDS KnowledgeBase

CONSTANTS manual, notes, small, large, i1, i2, r1  \* model values

Text(kind, bar, size) == [kind |-> kind, bar |-> bar, size |-> size]
Plain(size) == Text("text", FALSE, size)
Empty == Text("blank", FALSE, 0)
Title(level, bar, size) == [kind |-> "heading", bar |-> bar, size |-> size, level |-> level]
Marks(run) == [kind |-> "fence", bar |-> FALSE, size |-> run, mark |-> "tick", run |-> run]

\* A table's rows, titles with a bar in them and without a title, longer and shorter fences.
Lines ==
    {Empty, Plain(3), Text("text", TRUE, 3), Text("sep", TRUE, 3),
     Title(1, FALSE, 1), Title(2, TRUE, 2), Title(2, FALSE, 0), Marks(3), Marks(4)}

MCSamples ==
    {text \in UNION {[1 .. n -> Lines] : n \in 1 .. 5} : ~Blank(text[1]) /\ ~Blank(text[Len(text)])}

\* One chunk; two chunks; headings only.
MCTexts ==
    {<<Plain(3)>>, <<Title(1, FALSE, 1), Plain(5), Empty, Plain(5)>>, <<Title(1, FALSE, 1)>>}

MCModel == [run \in Indexers \cup Readers |-> IF run = i1 THEN large ELSE small]
MCDim == [m \in Models |-> IF m = small THEN 1 ELSE 2]

\* Documents are interchangeable; every property is a safety one.
Symmetric == Permutations(Paths)
=============================================================================
