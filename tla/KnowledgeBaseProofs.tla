------------------------- MODULE KnowledgeBaseProofs -------------------------
(***************************************************************************)
(* What the chunker makes of a text, whatever the text: no line is left    *)
(* out but headings, its chunks are in order, and each is prefixed by the  *)
(* headings in force where it begins.  The loops of the chunker keep invariants (Walking,    *)
(* PackFits, Slices) from which this follows at their ends.                *)
(*                                                                         *)
(* What is committed to a knowledge base is whole, and what its readers    *)
(* show fits together, for any number of documents, index runs, readers    *)
(* and models, wherever a run is killed.                                   *)
(***************************************************************************)
EXTENDS KnowledgeBase, LoopProofs

-----------------------------------------------------------------------------
(* Lines and offsets.                                                      *)

\* The lines of a document.
LEMMA LinesAre ==
  ASSUME NEW text, Document(text)
  PROVE  /\ Len(text) \in Nat /\ Len(text) > 0 /\ DOMAIN text = 1 .. Len(text)
         /\ \A i \in 1 .. Len(text) :
                /\ text[i] \in Line /\ text[i].size \in Nat
                /\ Heading(text[i]) => text[i].level \in 1 .. 6
                /\ ~Blank(text[i]) /\ ~Heading(text[i]) => text[i].size > 0
         /\ ~Blank(text[1]) /\ ~Blank(text[Len(text)])
  <1>1. text \in Seq(Line) /\ text # << >>
    BY DEF Document
  <1>2. Len(text) \in Nat /\ Len(text) > 0 /\ DOMAIN text = 1 .. Len(text)
    BY <1>1
  <1>3. ASSUME NEW l \in Line
        PROVE  /\ l.size \in Nat
               /\ Heading(l) => l.level \in 1 .. 6
               /\ ~Blank(l) /\ ~Heading(l) => l.size > 0
    <2>1. CASE l \in [kind : {"blank"}, bar : {FALSE}, size : Nat]
      BY <2>1 DEF Heading, Blank
    <2>2. CASE l \in [kind : {"text"}, bar : BOOLEAN, size : Positive]
      BY <2>2 DEF Heading, Positive
    <2>3. CASE l \in [kind : {"sep"}, bar : {TRUE}, size : Positive]
      BY <2>3 DEF Heading, Positive
    <2>4. CASE l \in [kind : {"heading"}, bar : BOOLEAN, size : Nat, level : 1 .. 6]
      BY <2>4 DEF Heading
    <2>5. CASE l \in [kind : {"fence"}, bar : BOOLEAN, size : Positive,
                      mark : {"tick", "tilde"}, run : Positive]
      BY <2>5 DEF Heading, Positive
    <2> QED
      BY <2>1, <2>2, <2>3, <2>4, <2>5 DEF Line
  <1>4. \A i \in 1 .. Len(text) : text[i] \in Line
    BY <1>1, <1>2
  <1> QED
    BY <1>2, <1>3, <1>4 DEF Document

\* Every line takes room; one that is no blank more than its newline does.
LEMMA WidthIs ==
  ASSUME NEW text, Document(text), NEW i \in 1 .. Len(text)
  PROVE  /\ Width(text, i) \in Nat /\ Width(text, i) > 0
         /\ ~Blank(text[i]) /\ i < Len(text) => Width(text, i) > 1
  <1> DEFINE l == text[i]
  <1>1. /\ l.size \in Nat /\ Len(text) \in Nat
        /\ Heading(l) => l.level \in 1 .. 6
        /\ ~Blank(l) /\ ~Heading(l) => l.size > 0
        /\ ~Blank(text[Len(text)])
    <2>1. i \in 1 .. Len(text)
      OBVIOUS
    <2> HIDE DEF l
    <2> QED
      BY <2>1, LinesAre DEF l
  <1>0. Blank(l) => i # Len(text) /\ ~Heading(l)
    BY <1>1 DEF Blank, Heading
  <1>2. Width(text, i) = l.size + (IF Heading(l) THEN l.level + 1 ELSE 0)
                                + (IF i < Len(text) THEN 1 ELSE 0)
    BY DEF Width
  <1> HIDE DEF l
  <1>3. CASE Heading(l)
    <2>1. l.size \in Nat /\ l.level \in 1 .. 6 /\ Len(text) \in Nat /\ i \in Nat
      BY <1>1, <1>3
    <2>2. Width(text, i) = l.size + (l.level + 1) + (IF i < Len(text) THEN 1 ELSE 0)
      BY <1>2, <1>3
    <2>3. \A a \in Nat, b \in 1 .. 6 :
              /\ a + (b + 1) + 1 \in Nat /\ a + (b + 1) + 1 > 1
              /\ a + (b + 1) + 0 \in Nat /\ a + (b + 1) + 0 > 0
      OBVIOUS
    <2>4. CASE i < Len(text)
      <3>1. Width(text, i) = l.size + (l.level + 1) + 1
        BY <2>2, <2>4
      <3> QED
        BY <2>1, <2>3, <3>1
    <2>5. CASE ~(i < Len(text))
      BY <2>1, <2>2, <2>3, <2>5
    <2> QED
      BY <2>4, <2>5
  <1>4. CASE ~Heading(l)
    BY <1>1, <1>0, <1>2, <1>4 DEF l
  <1> QED
    BY <1>3, <1>4 DEF l

\* The offsets that _line_offsets adds up.
LEMMA OffsetIs ==
  ASSUME NEW text, Document(text)
  PROVE  /\ \A k \in 1 .. Len(text) + 1 : Offset(text, k) \in Nat
         /\ \A k \in 1 .. Len(text) : Offset(text, k + 1) = Offset(text, k) + Width(text, k)
  <1> DEFINE N == Len(text)
             body(f) == [k \in 0 .. N |-> IF k = 0 THEN 0 ELSE f[k - 1] + Width(text, k)]
             cur == CHOOSE f : f = body(f)
             step == [p \in Nat \X (1 .. N) |-> p[1] + Width(text, p[2])]
  <1>1. \A i : Offset(text, i) = cur[i - 1]
    BY DEF Offset
  <1>2. N \in Nat /\ \A k \in 1 .. N : Width(text, k) \in Nat
    BY LinesAre, WidthIs
  <1> HIDE DEF N
  <1>3. step \in [Nat \X (1 .. N) -> Nat] /\ 0 \in Nat
    BY <1>2
  <1>4. \A n \in Nat, k \in 1 .. N : step[<<n, k>>] = n + Width(text, k)
    BY \A n \in Nat, k \in 1 .. N : <<n, k>> \in Nat \X (1 .. N)
  <1> HIDE DEF step
  <1>5. PICK f \in [0 .. N -> Nat] : Runs(f, N, 0, step)
    BY <1>2, <1>3, LoopExists DEF Loop
  <1>6. f = body(f)
    <2>1. \A k \in 1 .. N : f[k - 1] \in Nat
      BY <1>2
    <2>2. \A k \in 1 .. N : f[k] = f[k - 1] + Width(text, k)
      BY <1>4, <1>5, <2>1 DEF Runs
    <2>3. f[0] = 0
      BY <1>5 DEF Runs
    <2>4. f = [k \in 0 .. N |-> f[k]]
      OBVIOUS
    <2>5. \A k \in 0 .. N : f[k] = IF k = 0 THEN 0 ELSE f[k - 1] + Width(text, k)
      BY <1>2, <2>2, <2>3
    <2> QED
      BY <2>4, <2>5
  <1>7. cur = body(cur)
    <2> HIDE DEF body
    <2> QED
      BY <1>6
  <1> HIDE DEF cur
  <1>8. \A k \in 1 .. N : cur[k] = cur[k - 1] + Width(text, k)
    BY <1>2, <1>7
  <1>9. \A k \in 0 .. N : cur[k] \in Nat
    <2>1. cur[0] \in Nat
      BY <1>2, <1>7
    <2>2. \A k \in 1 .. N : cur[k - 1] \in Nat => cur[k] \in Nat
      BY <1>2, <1>8
    <2> QED
      BY <1>2, <2>1, <2>2, LoopKeeps
  <1>10. ASSUME NEW k \in 1 .. N + 1
         PROVE  Offset(text, k) \in Nat
    <2>1. k - 1 \in 0 .. N
      BY <1>2
    <2> QED
      BY <1>1, <1>9, <2>1
  <1>11. ASSUME NEW k \in 1 .. N
         PROVE  Offset(text, k + 1) = Offset(text, k) + Width(text, k)
    <2>1. k + 1 - 1 = k
      BY <1>2
    <2> QED
      BY <1>1, <1>8, <2>1
  <1> QED
    BY <1>10, <1>11 DEF N

\* Lines and their offsets are in the same order.
LEMMA OffsetGrows ==
  ASSUME NEW text, Document(text), NEW i \in 1 .. Len(text) + 1, NEW j \in 1 .. Len(text) + 1
  PROVE  /\ Offset(text, i) < Offset(text, j) <=> i < j
         /\ Offset(text, i) <= Offset(text, j) <=> i <= j
  <1> DEFINE N == Len(text)
             at(k) == Offset(text, k)
             T == {k \in 0 .. N : \A l \in 1 .. k : at(l) < at(k + 1)}
  <1>1. N \in Nat
    BY LinesAre
  <1>2. \A k \in 1 .. N : at(k) \in Nat /\ at(k + 1) \in Nat /\ at(k) < at(k + 1)
    BY <1>1, OffsetIs, WidthIs
  <1> HIDE DEF at, N
  <1>3. 0 \in T
    BY <1>1
  <1>4. ASSUME NEW k \in 0 .. N - 1, k \in T
        PROVE  k + 1 \in T
    <2>1. k + 1 \in 0 .. N /\ k + 1 \in 1 .. N /\ k + 1 + 1 = k + 2
      BY <1>1
    <2>2. at(k + 1) < at(k + 2) /\ at(k + 1) \in Nat /\ at(k + 2) \in Nat
      BY <1>2, <2>1
    <2>3. ASSUME NEW l \in 1 .. k + 1
          PROVE  at(l) < at(k + 2)
      <3>1. CASE l = k + 1
        BY <2>2, <3>1
      <3>2. CASE l \in 1 .. k
        <4>1. at(l) < at(k + 1) /\ at(l) \in Nat
          BY <1>1, <1>2, <1>4, <3>2
        <4> QED
          BY <2>2, <4>1
      <3> QED
        BY <3>1, <3>2
    <2> QED
      BY <2>1, <2>3
  <1> HIDE DEF T
  <1>5. 0 .. N \subseteq T
    BY <1>1, <1>3, <1>4, UpTo
  <1>6. \A k, l \in 1 .. N + 1 : l < k => at(l) < at(k)
    <2> TAKE k, l \in 1 .. N + 1
    <2> HAVE l < k
    <2>1. k - 1 \in 0 .. N /\ l \in 1 .. k - 1 /\ k - 1 + 1 = k
      BY <1>1
    <2>2. k - 1 \in T
      BY <1>5, <2>1
    <2> QED
      BY <2>1, <2>2 DEF T
  <1>7. at(i) \in Nat /\ at(j) \in Nat /\ i \in 1 .. N + 1 /\ j \in 1 .. N + 1
    BY OffsetIs DEF at, N
  <1>8. (i < j => at(i) < at(j)) /\ (j < i => at(j) < at(i))
    BY <1>6, <1>7
  <1>9. at(i) < at(j) <=> i < j
    BY <1>1, <1>7, <1>8
  <1>10. at(i) <= at(j) <=> i <= j
    BY <1>1, <1>7, <1>8
  <1> QED
    BY <1>9, <1>10 DEF at

-----------------------------------------------------------------------------
(* Blocks.                                                                 *)

\* A set of numbers has a least one.
LEMMA MinIs ==
  ASSUME NEW S \in SUBSET Nat, S # {}
  PROVE  Min(S) \in S /\ \A k \in S : Min(S) <= k
  BY Least DEF Min

\* The loop goes on behind the line it is at.
LEMMA BlockEndIs ==
  ASSUME NEW text, Document(text), NEW i \in 1 .. Len(text)
  PROVE  BlockEnd(text, i) \in i + 1 .. Len(text) + 1
  <1> DEFINE N == Len(text)
             after == i + 1 .. N
             closing == {k + 1 : k \in {k \in after : Closes(text[k], text[i])}}
             noBar == {k \in after \ {i + 1} : ~text[k].bar}
             other == {k \in after : \/ Blank(text[k]) \/ Heading(text[k]) \/ Fence(text[k])
                                     \/ TableStart(text, k)}
  <1>1. N \in Nat
    BY LinesAre
  <1>2. \E S \in {closing, noBar, other} : BlockEnd(text, i) = Min(S \cup {N + 1})
    BY DEF BlockEnd
  <1> HIDE DEF N
  <1>3. closing \subseteq i + 1 .. N + 1 /\ noBar \subseteq i + 1 .. N + 1
        /\ other \subseteq i + 1 .. N + 1
    BY <1>1
  <1> HIDE DEF closing, noBar, other
  <1>4. PICK S \in {closing, noBar, other} : BlockEnd(text, i) = Min(S \cup {N + 1})
    BY <1>2
  <1>5. i \in 1 .. N
    BY DEF N
  <1>6. S \cup {N + 1} \subseteq i + 1 .. N + 1 /\ S \cup {N + 1} \subseteq Nat
    BY <1>1, <1>3, <1>5
  <1>7. Min(S \cup {N + 1}) \in S \cup {N + 1}
    BY <1>6, MinIs
  <1> QED
    BY <1>4, <1>6, <1>7 DEF N

\* A block: lines from one that is neither blank nor a heading.
Block(text) ==
    {b \in [first : 1 .. Len(text), end : 1 .. Len(text) + 1] :
        b.first < b.end /\ ~Blank(text[b.first]) /\ ~Heading(text[b.first])}
Section(text) == [path : Seq(Line), blocks : Seq(Block(text))]

\* The lines from the first block of a section to its last one.
Top(s) == s.blocks[1].first
Bottom(s) == s.blocks[Len(s.blocks)].end
Span(s) == Top(s) .. Bottom(s) - 1

\* What a block is.
LEMMA BlockIs ==
  ASSUME NEW text, Document(text), NEW b \in Block(text)
  PROVE  /\ b.first \in 1 .. Len(text) /\ b.end \in 1 .. Len(text) + 1 /\ b.first < b.end
         /\ ~Blank(text[b.first]) /\ ~Heading(text[b.first])
         /\ b.first \in Nat /\ b.end \in Nat
  BY LinesAre DEF Block

\* The loop makes blocks of what is neither blank nor a heading.
LEMMA BlockBegun ==
  ASSUME NEW text, Document(text), NEW i \in 1 .. Len(text), ~Blank(text[i]), ~Heading(text[i])
  PROVE  [first |-> i, end |-> BlockEnd(text, i)] \in Block(text)
  <1>1. BlockEnd(text, i) \in i + 1 .. Len(text) + 1
    BY BlockEndIs
  <1>2. BlockEnd(text, i) \in 1 .. Len(text) + 1 /\ i < BlockEnd(text, i)
    BY <1>1, LinesAre
  <1> QED
    BY <1>2 DEF Block

\* A block has characters left without its last newline.
LEMMA BlockSizeIs ==
  ASSUME NEW text, Document(text), NEW b \in Block(text)
  PROVE  BlockSize(text, b) \in Nat /\ BlockSize(text, b) > 0
  <1> DEFINE N == Len(text)
             i == b.first
             e == b.end
             at(k) == Offset(text, k)
  <1>1. N \in Nat /\ i \in 1 .. N /\ e \in 1 .. N + 1 /\ i < e /\ ~Blank(text[i])
    BY LinesAre, BlockIs
  <1>2. BlockSize(text, b) = at(e) - at(i) - (IF e <= N THEN 1 ELSE 0)
    BY DEF BlockSize
  <1>3. at(i + 1) = at(i) + Width(text, i) /\ at(i) \in Nat /\ at(e) \in Nat
    BY <1>1, OffsetIs
  <1>4. i + 1 \in 1 .. N + 1
    BY <1>1
  <1>5. at(i + 1) <= at(e)
    BY <1>1, <1>4, OffsetGrows
  <1>6. Width(text, i) \in Nat /\ Width(text, i) > 0 /\ (i < N => Width(text, i) > 1)
    BY <1>1, WidthIs
  <1>7. e <= N => i < N
    BY <1>1
  <1> DEFINE w == Width(text, i)
             size == BlockSize(text, b)
  <1> HIDE DEF N, i, e, at, w, size
  <1>8. w \in Nat /\ at(i) \in Nat /\ at(e) \in Nat /\ at(i) + w <= at(e) /\ w > 0
        /\ (e <= N => w > 1)
    BY <1>3, <1>5, <1>6, <1>7 DEF w
  <1>9. size = at(e) - at(i) - (IF e <= N THEN 1 ELSE 0)
    BY <1>2 DEF size
  <1>10. size \in Nat /\ size > 0
    BY <1>8, <1>9
  <1> QED
    BY <1>10 DEF size

-----------------------------------------------------------------------------
(* Headings.                                                               *)

\* The headings outside the sections S.
Outer(text, S) ==
    {k \in 1 .. Len(text) : Heading(text[k]) /\ \A n \in DOMAIN S : k \notin Span(S[n])}

\* Those of the headings H that are in force at line i.
Ruling(text, H, i) ==
    {k \in H : k < i /\ \A l \in H : k < l /\ l < i => text[l].level > text[k].level}

Enumerates(path, text, H) ==
    \E line \in [DOMAIN path -> DOMAIN text] :
        /\ \A i, j \in DOMAIN path : i < j => line[i] < line[j]
        /\ {line[j] : j \in DOMAIN path} = H
        /\ \A j \in DOMAIN path : path[j] = text[line[j]]

\* Only the headings above a line decide which are in force there.
LEMMA RulingSame ==
  ASSUME NEW text, NEW H \in SUBSET Nat, NEW G \in SUBSET Nat, NEW i \in Nat, NEW j \in Nat,
         \A k \in Nat : k < i => (k \in H <=> k \in G),
         j <= i, \A k \in G : k < j \/ i <= k
  PROVE  Ruling(text, H, i) = Ruling(text, G, j)
  <1>1. \A k \in Nat : k \in H /\ k < i <=> k \in G /\ k < j
    OBVIOUS
  <1>2. ASSUME NEW k \in Nat
        PROVE  k \in Ruling(text, H, i) <=> k \in Ruling(text, G, j)
    BY <1>1, <1>2 DEF Ruling
  <1>3. Ruling(text, H, i) \subseteq Nat /\ Ruling(text, G, j) \subseteq Nat
    BY DEF Ruling
  <1> QED
    BY <1>2, <1>3

\* A path below a heading is a list of lines.
LEMMA UnderTyped ==
  ASSUME NEW path \in Seq(Line), NEW h \in Line
  PROVE  Under(path, h) \in Seq(Line)
  <1> DEFINE N == Len(path)
             kept == {n \in 0 .. N : \A k \in n + 1 .. N : path[k].level >= h.level}
  <1>1. N \in Nat
    OBVIOUS
  <1>2. N \in kept
    BY <1>1
  <1>3. kept \in SUBSET Nat /\ kept \subseteq 0 .. N /\ kept # {}
    BY <1>1, <1>2
  <1>4. Under(path, h) = Append(SubSeq(path, 1, Min(kept)), h)
    BY DEF Under
  <1> HIDE DEF kept
  <1>5. Min(kept) \in kept
    BY <1>3, MinIs
  <1>6. Min(kept) \in 0 .. N
    BY <1>3, <1>5
  <1> DEFINE m == Min(kept)
  <1> HIDE DEF m
  <1>7. m \in 0 .. N
    BY <1>6 DEF m
  <1>8. SubSeq(path, 1, m) \in Seq(Line)
    BY <1>1, <1>7
  <1> QED
    BY <1>4, <1>8 DEF m

\* Below a heading, the path is of the headings in force after it.
LEMMA UnderRuling ==
  ASSUME NEW text, Document(text), NEW H \in SUBSET (1 .. Len(text)),
         \A k \in H : Heading(text[k]),
         NEW i \in H, NEW path \in Seq(Line), Enumerates(path, text, Ruling(text, H, i))
  PROVE  Enumerates(Under(path, text[i]), text, Ruling(text, H, i + 1))
  <1> DEFINE N == Len(path)
             h == text[i]
             kept == {n \in 0 .. N : \A k \in n + 1 .. N : path[k].level >= h.level}
             P == Ruling(text, H, i)
             m == Min(kept)
             below == Under(path, h)
  <1>1. N \in Nat /\ DOMAIN path = 1 .. N
    OBVIOUS
  <1>2. Len(text) \in Nat /\ DOMAIN text = 1 .. Len(text)
        /\ \A k \in H : k \in Nat /\ text[k].level \in 1 .. 6
    BY LinesAre
  <1>3. PICK line \in [DOMAIN path -> DOMAIN text] :
            /\ \A a, b \in DOMAIN path : a < b => line[a] < line[b]
            /\ {line[j] : j \in DOMAIN path} = P
            /\ \A j \in DOMAIN path : path[j] = text[line[j]]
    BY DEF Enumerates
  <1>4. \A j \in 1 .. N : line[j] \in P /\ path[j] = text[line[j]]
    BY <1>1, <1>3
  <1>5. \A k \in P : \E j \in 1 .. N : line[j] = k
    BY <1>1, <1>3
  <1>6. \A k \in P : k \in H /\ k < i /\ \A l \in H : k < l /\ l < i => text[l].level > text[k].level
    BY DEF Ruling
  <1>7. \A a, b \in 1 .. N : a < b => path[a].level < path[b].level
    <2> TAKE a, b \in 1 .. N
    <2> HAVE a < b
    <2>1. line[a] < line[b]
      BY <1>1, <1>3
    <2>2. line[a] \in P /\ line[b] \in P
      BY <1>4
    <2>3. text[line[b]].level > text[line[a]].level
      BY <1>6, <2>1, <2>2
    <2>4. path[a] = text[line[a]] /\ path[b] = text[line[b]]
      BY <1>4
    <2>5. text[line[a]].level \in 1 .. 6 /\ text[line[b]].level \in 1 .. 6
      BY <1>2, <1>6, <2>2
    <2> QED
      BY <2>3, <2>4, <2>5
  <1>8. \A j \in 1 .. N : path[j].level \in 1 .. 6
    BY <1>2, <1>4, <1>6
  <1>9. h.level \in 1 .. 6
    BY <1>2
  <1>25. \A a, b, c \in 1 .. 6 :
            /\ a < b <=> b > a
            /\ ~(a >= b) <=> a < b
            /\ a < b /\ b < c => a < c
    OBVIOUS
  <1>10. below = Append(SubSeq(path, 1, m), h)
    BY DEF Under
  <1>11. N \in kept /\ kept \subseteq 0 .. N /\ kept \in SUBSET Nat
    BY <1>1
  <1>12. m \in kept /\ \A n \in kept : m <= n
    <2> HIDE DEF kept
    <2> QED
      BY <1>11, MinIs
  <1>13. m \in 0 .. N /\ \A k \in m + 1 .. N : path[k].level >= h.level
    BY <1>12
  <1> HIDE DEF N, h, P, below, m
  <1>14. \A k \in 1 .. m : path[k].level < h.level
    <2>1. CASE m = 0
      BY <2>1
    <2>2. CASE m # 0
      <3>1. m - 1 \in 0 .. N /\ m - 1 \notin kept /\ m \in 1 .. N
        <4> HIDE DEF kept
        <4>1. m - 1 \in 0 .. N /\ m \in 1 .. N /\ ~(m <= m - 1)
          BY <1>1, <1>13, <2>2
        <4> QED
          BY <1>12, <4>1
      <3>2. PICK k \in m - 1 + 1 .. N : ~(path[k].level >= h.level)
        BY <3>1
      <3>3. k = m
        BY <1>1, <1>13, <3>1, <3>2
      <3>4. path[m].level < h.level
        BY <1>8, <1>9, <1>25, <3>1, <3>2, <3>3
      <3> TAKE k1 \in 1 .. m
      <3>5. k1 = m \/ path[k1].level < path[m].level
        BY <1>1, <1>7, <1>13, <3>1
      <3>6. k1 \in 1 .. N
        BY <1>1, <3>1
      <3> QED
        BY <1>8, <1>9, <1>25, <3>1, <3>4, <3>5, <3>6
    <2> QED
      BY <2>1, <2>2
  <1>15. DOMAIN below = 1 .. m + 1 /\ below[m + 1] = h /\ \A j \in 1 .. m : below[j] = path[j]
    <2>1. SubSeq(path, 1, m) \in Seq(Line) /\ Len(SubSeq(path, 1, m)) = m
          /\ \A j \in 1 .. m : SubSeq(path, 1, m)[j] = path[j]
      BY <1>1, <1>13 DEF N
    <2> DEFINE head == SubSeq(path, 1, m)
    <2> HIDE DEF head
    <2> QED
      BY <1>10, <1>13, <2>1 DEF head
  <1> DEFINE line2 == [j \in 1 .. m + 1 |-> IF j = m + 1 THEN i ELSE line[j]]
             F == Ruling(text, H, i + 1)
  <1>16. \A j \in 1 .. m : j \in 1 .. N /\ j # m + 1
    BY <1>1, <1>13
  <1>17. line2 \in [DOMAIN below -> DOMAIN text]
    <2>1. i \in DOMAIN text
      BY <1>2
    <2>2. \A j \in 1 .. m : line[j] \in DOMAIN text
      BY <1>1, <1>3, <1>16
    <2> QED
      BY <1>13, <1>15, <2>1, <2>2
  <1>18. \A j \in 1 .. m : line2[j] = line[j] /\ line[j] \in P
    BY <1>4, <1>13, <1>16
  <1>19. line2[m + 1] = i
    BY <1>13
  <1> HIDE DEF line2
  <1>20. ASSUME NEW a \in DOMAIN below, NEW b \in DOMAIN below, a < b
         PROVE  line2[a] < line2[b]
    <2>1. a \in 1 .. m
      BY <1>13, <1>15, <1>20
    <2>2. CASE b = m + 1
      BY <1>6, <1>18, <1>19, <2>1, <2>2
    <2>3. CASE b \in 1 .. m
      BY <1>1, <1>3, <1>16, <1>18, <1>20, <2>1, <2>3
    <2> QED
      BY <1>1, <1>13, <1>15, <1>20, <2>2, <2>3
  <1>21. ASSUME NEW j \in DOMAIN below
         PROVE  below[j] = text[line2[j]] /\ line2[j] \in F
    <2>1. CASE j = m + 1
      <3>1. i \in F
        BY <1>2 DEF Ruling
      <3> QED
        BY <1>15, <1>19, <2>1, <3>1 DEF h
    <2>2. CASE j \in 1 .. m
      <3>1. line[j] \in P /\ line2[j] = line[j] /\ below[j] = path[j] /\ path[j] = text[line[j]]
            /\ path[j].level < h.level
        BY <1>4, <1>14, <1>15, <1>16, <1>18, <2>2
      <3> DEFINE k == line[j]
      <3>2. k \in H /\ k < i /\ k \in Nat /\ i \in Nat
        BY <1>2, <1>6, <3>1
      <3>3. ASSUME NEW l \in H, k < l, l < i + 1
            PROVE  text[l].level > text[k].level
        <4>1. CASE l = i
          <5>1. text[k].level < text[i].level
            BY <3>1 DEF h
          <5>2. text[k].level \in 1 .. 6 /\ text[i].level \in 1 .. 6
            BY <1>2, <3>2
          <5> QED
            BY <4>1, <5>1, <5>2
        <4>2. CASE l < i
          BY <1>6, <3>1, <3>3, <4>2
        <4> QED
          BY <1>2, <3>3, <4>1, <4>2
      <3>4. k < i + 1
        BY <3>2
      <3>5. k \in F
        BY <3>2, <3>3, <3>4 DEF Ruling
      <3> QED
        BY <3>1, <3>5
    <2> QED
      BY <1>13, <1>15, <2>1, <2>2
  <1>22. ASSUME NEW k \in F
         PROVE  \E j \in DOMAIN below : line2[j] = k
    <2>1. k \in H /\ k < i + 1 /\ \A l \in H : k < l /\ l < i + 1 => text[l].level > text[k].level
      BY DEF Ruling
    <2>2. CASE k = i
      BY <1>1, <1>13, <1>15, <1>19, <2>2
    <2>3. CASE k # i
      <3>1. k < i /\ i < i + 1
        BY <1>2, <2>1, <2>3
      <3>2. \A l \in H : k < l /\ l < i => text[l].level > text[k].level
        BY <1>2, <2>1
      <3>3. k \in P
        BY <2>1, <3>1, <3>2 DEF Ruling, P
      <3>4. PICK j \in 1 .. N : line[j] = k
        BY <1>5, <3>3
      <3>5. text[i].level > text[k].level
        BY <2>1, <3>1
      <3>6. ~(path[j].level >= h.level)
        <4>1. path[j].level \in 1 .. 6 /\ path[j] = text[k]
          BY <1>4, <1>8, <3>4
        <4>2. h.level > path[j].level
          BY <3>5, <4>1 DEF h
        <4> QED
          BY <1>9, <1>25, <4>1, <4>2
      <3>7. j \in 1 .. m /\ line2[j] = k
        <4>1. j \in 1 .. m
          BY <1>1, <1>13, <3>6
        <4> QED
          BY <1>18, <3>4, <4>1
      <3>8. j \in 1 .. m + 1
        BY <1>1, <1>13, <3>7
      <3> QED
        BY <1>15, <3>7, <3>8
    <2> QED
      BY <2>2, <2>3
  <1>23. {line2[j] : j \in DOMAIN below} = F
    BY <1>21, <1>22
  <1>24. Enumerates(below, text, F)
    BY <1>17, <1>20, <1>21, <1>23 DEF Enumerates
  <1> QED
    BY <1>24 DEF below, h

-----------------------------------------------------------------------------
(* The sections.                                                           *)

\* The blocks of a section are apart, and what is between them is blank.
Tight(text, s) ==
    /\ s.blocks # << >>
    /\ \A p, q \in DOMAIN s.blocks : p < q => s.blocks[p].end <= s.blocks[q].first
    /\ \A k \in Span(s) :
        \/ Blank(text[k])
        \/ \E p \in DOMAIN s.blocks : k \in s.blocks[p].first .. s.blocks[p].end - 1

\* The sections S of the lines before i follow one another and have all of these that are
\* neither blank nor a heading, each below the headings in force where it begins.
Grouped(text, S, i) ==
    /\ \A n \in DOMAIN S : Tight(text, S[n]) /\ Bottom(S[n]) <= i
    /\ \A m, n \in DOMAIN S : m < n => Bottom(S[m]) <= Top(S[n])
    /\ \A k \in 1 .. Len(text) : k < i =>
        Blank(text[k]) \/ Heading(text[k]) \/ \E n \in DOMAIN S : k \in Span(S[n])
    /\ \A n \in DOMAIN S : Enumerates(S[n].path, text, Ruling(text, Outer(text, S), Top(S[n])))

\* Where the loop of parse_markdown_sections can be: what it has, when it is flushed, is
\* grouped, its path is of the headings in force, and only blank lines came since its last
\* block.
Place(text) ==
    [line : 1 .. Len(text) + 1, path : Seq(Line), blocks : Seq(Block(text)),
     sections : Seq(Section(text))]
Done(acc) == Flush(acc).sections
Walking(text) ==
    {acc \in Place(text) :
        /\ Grouped(text, Done(acc), acc.line)
        /\ Enumerates(acc.path, text, Ruling(text, Outer(text, Done(acc)), acc.line))
        /\ acc.blocks # << >> =>
            \A k \in acc.blocks[Len(acc.blocks)].end .. Len(text) : k < acc.line => Blank(text[k])}

\* flush_section moves the blocks at hand, if there are any, into a section.
LEMMA FlushIs ==
  ASSUME NEW text, NEW acc \in Place(text)
  PROVE  /\ Flush(acc) \in Place(text) /\ Done(acc) \in Seq(Section(text))
         /\ Flush(acc).line = acc.line /\ Flush(acc).path = acc.path /\ Flush(acc).blocks = << >>
         /\ acc.blocks = << >> => Done(acc) = acc.sections
         /\ acc.blocks # << >> =>
                Done(acc) = Append(acc.sections, [path |-> acc.path, blocks |-> acc.blocks])
  <1>1. CASE acc.blocks = << >>
    <2>1. Flush(acc) = acc
      BY <1>1 DEF Flush
    <2> QED
      BY <1>1, <2>1 DEF Place, Done
  <1>2. CASE acc.blocks # << >>
    <2> DEFINE s == [path |-> acc.path, blocks |-> acc.blocks]
    <2>1. s \in Section(text)
      BY DEF Section, Place
    <2>2. Flush(acc) = [acc EXCEPT !.blocks = << >>, !.sections = Append(acc.sections, s)]
      BY <1>2 DEF Flush
    <2> HIDE DEF s
    <2>3. Append(acc.sections, s) \in Seq(Section(text))
      BY <2>1 DEF Place
    <2>4. << >> \in Seq(Block(text))
      OBVIOUS
    <2>5. /\ Flush(acc) \in Place(text)
          /\ Flush(acc).line = acc.line /\ Flush(acc).path = acc.path /\ Flush(acc).blocks = << >>
          /\ Flush(acc).sections = Append(acc.sections, s)
      BY <2>2, <2>3, <2>4 DEF Place
    <2> QED
      BY <1>2, <2>3, <2>5 DEF Done, s
  <1> QED
    BY <1>1, <1>2

\* A section begins with its first block and ends with its last one.
LEMMA SectionIs ==
  ASSUME NEW text, Document(text), NEW s \in Section(text), Tight(text, s)
  PROVE  /\ Len(s.blocks) \in Nat /\ Len(s.blocks) > 0 /\ DOMAIN s.blocks = 1 .. Len(s.blocks)
         /\ Top(s) \in 1 .. Len(text) /\ Bottom(s) \in 1 .. Len(text) + 1 /\ Top(s) < Bottom(s)
         /\ \A p \in DOMAIN s.blocks :
                /\ s.blocks[p] \in Block(text)
                /\ Top(s) <= s.blocks[p].first /\ s.blocks[p].end <= Bottom(s)
  <1> DEFINE B == s.blocks
             M == Len(B)
  <1>1. B \in Seq(Block(text)) /\ B # << >>
    BY DEF Section, Tight
  <1>2. \A p, q \in DOMAIN B : p < q => B[p].end <= B[q].first
    BY DEF Tight
  <1>3. Top(s) = B[1].first /\ Bottom(s) = B[M].end
    BY DEF Top, Bottom
  <1> HIDE DEF B
  <1>4. M \in Nat /\ M > 0 /\ DOMAIN B = 1 .. M
    BY <1>1
  <1>5. \A p \in 1 .. M : B[p] \in Block(text)
    BY <1>1
  <1> HIDE DEF M
  <1>6. \A p \in 1 .. M :
            /\ B[p].first \in 1 .. Len(text) /\ B[p].end \in 1 .. Len(text) + 1
            /\ B[p].first < B[p].end
    BY <1>5, BlockIs
  <1>7. Len(text) \in Nat /\ 1 \in 1 .. M /\ M \in 1 .. M
    BY <1>4, LinesAre
  <1>8. Top(s) \in 1 .. Len(text) /\ Bottom(s) \in 1 .. Len(text) + 1
    BY <1>3, <1>6, <1>7
  <1>9. ASSUME NEW p \in 1 .. M
        PROVE  B[1].first <= B[p].first /\ B[p].end <= B[M].end
    <2>1. p = 1 \/ B[1].end <= B[p].first
      BY <1>2, <1>4, <1>7
    <2>2. p = M \/ B[p].end <= B[M].first
      BY <1>2, <1>4, <1>7
    <2>3. /\ B[1].first \in Nat /\ B[1].end \in Nat /\ B[1].first < B[1].end
          /\ B[p].first \in Nat /\ B[p].end \in Nat /\ B[p].first < B[p].end
          /\ B[M].first \in Nat /\ B[M].end \in Nat /\ B[M].first < B[M].end
      BY <1>6, <1>7
    <2>4. B[1].first <= B[p].first
      BY <2>1, <2>3
    <2>5. B[p].end <= B[M].end
      BY <2>2, <2>3
    <2> QED
      BY <2>4, <2>5
  <1>10. Top(s) < Bottom(s)
    <2>1. B[1].first < B[1].end /\ B[1].end <= B[M].end
      BY <1>6, <1>7, <1>9
    <2>2. B[1].first \in Nat /\ B[1].end \in Nat /\ B[M].end \in Nat
      BY <1>6, <1>7
    <2> QED
      BY <1>3, <2>1, <2>2
  <1>11. \A p \in DOMAIN B :
            B[p] \in Block(text) /\ Top(s) <= B[p].first /\ B[p].end <= Bottom(s)
    BY <1>3, <1>4, <1>5, <1>9
  <1> QED
    BY <1>4, <1>8, <1>10, <1>11 DEF B, M

\* Where the sections and their headings are, so far.
LEMMA WalkingIs ==
  ASSUME NEW text, Document(text), NEW acc \in Walking(text)
  PROVE  /\ acc \in Place(text) /\ acc.line \in 1 .. Len(text) + 1 /\ acc.line \in Nat
         /\ Done(acc) \in Seq(Section(text)) /\ DOMAIN Done(acc) = 1 .. Len(Done(acc))
         /\ \A n \in DOMAIN Done(acc) :
                /\ Done(acc)[n] \in Section(text) /\ Tight(text, Done(acc)[n])
                /\ Top(Done(acc)[n]) \in 1 .. Len(text) /\ Bottom(Done(acc)[n]) \in 1 .. Len(text) + 1
                /\ Top(Done(acc)[n]) < Bottom(Done(acc)[n]) /\ Bottom(Done(acc)[n]) <= acc.line
         /\ Outer(text, Done(acc)) \subseteq 1 .. Len(text)
         /\ \A k \in Outer(text, Done(acc)) : Heading(text[k])
  <1>1. acc \in Place(text) /\ Grouped(text, Done(acc), acc.line)
    BY DEF Walking
  <1>2. acc.line \in 1 .. Len(text) + 1 /\ acc.line \in Nat
    BY <1>1, LinesAre DEF Place
  <1>3. Done(acc) \in Seq(Section(text))
    BY <1>1, FlushIs
  <1>4. DOMAIN Done(acc) = 1 .. Len(Done(acc)) /\ \A n \in DOMAIN Done(acc) : Done(acc)[n] \in Section(text)
    BY <1>3
  <1>5. \A n \in DOMAIN Done(acc) : Tight(text, Done(acc)[n]) /\ Bottom(Done(acc)[n]) <= acc.line
    BY <1>1 DEF Grouped
  <1>6. \A n \in DOMAIN Done(acc) :
            /\ Top(Done(acc)[n]) \in 1 .. Len(text) /\ Bottom(Done(acc)[n]) \in 1 .. Len(text) + 1
            /\ Top(Done(acc)[n]) < Bottom(Done(acc)[n])
    BY <1>4, <1>5, SectionIs
  <1>7. Outer(text, Done(acc)) \subseteq 1 .. Len(text)
        /\ \A k \in Outer(text, Done(acc)) : Heading(text[k])
    BY DEF Outer
  <1> QED
    BY <1>1, <1>2, <1>3, <1>4, <1>5, <1>6, <1>7

\* A blank line is passed over.
LEMMA WalkingBlank ==
  ASSUME NEW text, Document(text), NEW acc \in Walking(text), acc.line <= Len(text),
         Blank(text[acc.line])
  PROVE  [acc EXCEPT !.line = acc.line + 1] \in Walking(text)
  <1> DEFINE i == acc.line
             A == [acc EXCEPT !.line = i + 1]
             S == Done(acc)
             H == Outer(text, S)
  <1>1. /\ acc \in Place(text) /\ i \in 1 .. Len(text) + 1 /\ i \in Nat
        /\ \A n \in DOMAIN S : Bottom(S[n]) \in 1 .. Len(text) + 1 /\ Bottom(S[n]) <= i
        /\ H \subseteq 1 .. Len(text) /\ i \notin H
    BY WalkingIs DEF Outer, Blank, Heading
  <1>2. Len(text) \in Nat
    BY LinesAre
  <1>3. A \in Place(text) /\ A.line = i + 1 /\ A.path = acc.path /\ A.blocks = acc.blocks
        /\ A.sections = acc.sections
    <2>1. i + 1 \in 1 .. Len(text) + 1
      BY <1>1, <1>2
    <2> QED
      BY <1>1, <2>1 DEF Place
  <1>4. Done(A) = S
    <2> HIDE DEF A, i
    <2> QED
      BY <1>1, <1>3, FlushIs
  <1>5. Grouped(text, S, i) /\ Enumerates(acc.path, text, Ruling(text, H, i))
        /\ (acc.blocks # << >> =>
            \A k \in acc.blocks[Len(acc.blocks)].end .. Len(text) : k < i => Blank(text[k]))
    BY DEF Walking
  <1> HIDE DEF A, S, i
  <1>6. Grouped(text, S, i + 1)
    <2>1. \A n \in DOMAIN S : Tight(text, S[n]) /\ Bottom(S[n]) <= i + 1
      BY <1>1, <1>2, <1>5 DEF Grouped
    <2>2. \A k \in 1 .. Len(text) : k < i + 1 => k = i \/ k < i
      BY <1>1
    <2>3. \A k \in 1 .. Len(text) : k < i + 1 =>
              Blank(text[k]) \/ Heading(text[k]) \/ \E n \in DOMAIN S : k \in Span(S[n])
      BY <1>5, <2>2 DEF Grouped, i
    <2>6. \A m, n \in DOMAIN S : m < n => Bottom(S[m]) <= Top(S[n])
      BY <1>5 DEF Grouped
    <2>7. \A n \in DOMAIN S :
              Enumerates(S[n].path, text, Ruling(text, Outer(text, S), Top(S[n])))
      BY <1>5 DEF Grouped
    <2> QED
      BY <2>1, <2>3, <2>6, <2>7 DEF Grouped
  <1>7. Ruling(text, H, i + 1) = Ruling(text, H, i)
    <2>1. \A k \in H : k < i \/ i + 1 <= k
      BY <1>1, <1>2
    <2>2. H \in SUBSET Nat /\ i + 1 \in Nat /\ i <= i + 1
      BY <1>1
    <2> HIDE DEF H
    <2> QED
      BY <1>1, <2>1, <2>2, RulingSame
  <1>8. acc.blocks # << >> =>
            \A k \in acc.blocks[Len(acc.blocks)].end .. Len(text) : k < i + 1 => Blank(text[k])
    <2> SUFFICES ASSUME acc.blocks # << >>, NEW k \in acc.blocks[Len(acc.blocks)].end .. Len(text),
                        k < i + 1
                 PROVE  Blank(text[k])
      OBVIOUS
    <2> DEFINE e == acc.blocks[Len(acc.blocks)].end
    <2>1. e \in Nat
      <3>1. acc.blocks \in Seq(Block(text))
        BY <1>1 DEF Place
      <3>2. acc.blocks[Len(acc.blocks)] \in Block(text)
        BY <3>1
      <3> QED
        BY <3>2, BlockIs
    <2> HIDE DEF e
    <2>2. k = i \/ k < i
      BY <1>1, <1>2, <2>1 DEF e
    <2> QED
      BY <1>5, <2>2 DEF e, i
  <1>9. A \in Walking(text)
    <2> HIDE DEF A, H
    <2>1. Grouped(text, Done(A), A.line)
      BY <1>3, <1>4, <1>6
    <2>2. Enumerates(A.path, text, Ruling(text, Outer(text, Done(A)), A.line))
      BY <1>3, <1>4, <1>5, <1>7 DEF H
    <2>3. A.blocks # << >> =>
            \A k \in A.blocks[Len(A.blocks)].end .. Len(text) : k < A.line => Blank(text[k])
      BY <1>3, <1>8
    <2> QED
      BY <1>3, <2>1, <2>2, <2>3 DEF Walking
  <1> QED
    BY <1>9 DEF A, i

\* A heading ends the section, and is in force behind it.
LEMMA WalkingHeading ==
  ASSUME NEW text, Document(text), NEW acc \in Walking(text), acc.line <= Len(text),
         Heading(text[acc.line])
  PROVE  [Flush(acc) EXCEPT !.line = acc.line + 1, !.path = Under(@, text[acc.line])]
            \in Walking(text)
  <1> DEFINE i == acc.line
             F == Flush(acc)
             A == [F EXCEPT !.line = i + 1, !.path = Under(F.path, text[i])]
             S == Done(acc)
             H == Outer(text, S)
  <1>1. /\ acc \in Place(text) /\ i \in 1 .. Len(text) + 1 /\ i \in Nat
        /\ \A n \in DOMAIN S :
            /\ Top(S[n]) \in 1 .. Len(text) /\ Bottom(S[n]) \in 1 .. Len(text) + 1
            /\ Bottom(S[n]) <= i
        /\ H \subseteq 1 .. Len(text) /\ \A k \in H : Heading(text[k])
    BY WalkingIs
  <1>2. Len(text) \in Nat /\ i \in 1 .. Len(text)
    BY <1>1, LinesAre
  <1>3. text[i] \in Line /\ acc.path \in Seq(Line)
    BY <1>1, <1>2, LinesAre DEF Place
  <1>4. F \in Place(text) /\ F.path = acc.path /\ F.blocks = << >> /\ F.sections = S
    BY <1>1, FlushIs DEF Done
  <1>5. Under(acc.path, text[i]) \in Seq(Line)
    BY <1>3, UnderTyped
  <1>6. Grouped(text, S, i) /\ Enumerates(acc.path, text, Ruling(text, H, i))
    BY DEF Walking
  <1> HIDE DEF F, S, i
  <1>7. A \in Place(text) /\ A.line = i + 1 /\ A.path = Under(acc.path, text[i])
        /\ A.blocks = << >> /\ A.sections = S
    <2>1. i + 1 \in 1 .. Len(text) + 1
      BY <1>1, <1>2
    <2>2. Under(F.path, text[i]) \in Seq(Line) /\ Under(F.path, text[i]) = Under(acc.path, text[i])
      BY <1>4, <1>5
    <2> QED
      BY <1>4, <2>1, <2>2 DEF Place
  <1>8. Done(A) = S
    <2> HIDE DEF A
    <2> QED
      BY <1>7, FlushIs
  <1>9. i \in H
    <2>1. \A n \in DOMAIN S : i \notin Span(S[n])
      BY <1>1, <1>2 DEF Span
    <2>2. Heading(text[i])
      BY DEF i
    <2> QED
      BY <1>2, <2>1, <2>2 DEF Outer
  <1>10. Enumerates(Under(acc.path, text[i]), text, Ruling(text, H, i + 1))
    <2> HIDE DEF H
    <2> QED
      BY <1>1, <1>3, <1>6, <1>9, UnderRuling
  <1>11. Grouped(text, S, i + 1)
    <2>1. \A n \in DOMAIN S : Tight(text, S[n]) /\ Bottom(S[n]) <= i + 1
      BY <1>1, <1>2, <1>6 DEF Grouped
    <2>2. \A k \in 1 .. Len(text) : k < i + 1 => k = i \/ k < i
      BY <1>1
    <2>3. \A k \in 1 .. Len(text) : k < i + 1 =>
              Blank(text[k]) \/ Heading(text[k]) \/ \E n \in DOMAIN S : k \in Span(S[n])
      BY <1>6, <2>2 DEF Grouped, i
    <2>6. \A m, n \in DOMAIN S : m < n => Bottom(S[m]) <= Top(S[n])
      BY <1>6 DEF Grouped
    <2>7. \A n \in DOMAIN S :
              Enumerates(S[n].path, text, Ruling(text, Outer(text, S), Top(S[n])))
      BY <1>6 DEF Grouped
    <2> QED
      BY <2>1, <2>3, <2>6, <2>7 DEF Grouped
  <1>12. A \in Walking(text)
    <2> HIDE DEF A
    <2> QED
      BY <1>7, <1>8, <1>10, <1>11 DEF Walking
  <1> QED
    BY <1>12 DEF A, F, i

\* The blocks of the section at hand, with one more.
LEMMA TightMore ==
  ASSUME NEW text, Document(text), NEW B \in Seq(Block(text)), NEW b \in Block(text), NEW path,
         B # << >> => /\ Tight(text, [path |-> path, blocks |-> B])
                      /\ B[Len(B)].end <= b.first
                      /\ \A k \in B[Len(B)].end .. Len(text) : k < b.first => Blank(text[k]),
         B = << >> \/ [path |-> path, blocks |-> B] \in Section(text)
  PROVE  LET s == [path |-> path, blocks |-> Append(B, b)]
         IN  /\ Tight(text, s) /\ Bottom(s) = b.end
             /\ Top(s) = IF B = << >> THEN b.first ELSE Top([path |-> path, blocks |-> B])
  <1> DEFINE s == [path |-> path, blocks |-> Append(B, b)]
             s1 == [path |-> path, blocks |-> B]
             C == Append(B, b)
             M == Len(B)
             N == Len(text)
  <1>1. M \in Nat /\ DOMAIN B = 1 .. M /\ (B = << >> <=> M = 0) /\ N \in Nat
    BY LinesAre
  <1>2. Len(C) = M + 1 /\ DOMAIN C = 1 .. M + 1 /\ C[M + 1] = b /\ \A p \in 1 .. M : C[p] = B[p]
    BY <1>1
  <1>3. s.blocks = C /\ s1.blocks = B
    OBVIOUS
  <1>4. /\ b.first \in 1 .. N /\ b.end \in 1 .. N + 1 /\ b.first < b.end
        /\ b.first \in Nat /\ b.end \in Nat
    BY BlockIs
  <1>5. M > 0 => /\ Tight(text, s1)
                 /\ B[M].end <= b.first
                 /\ \A k \in B[M].end .. N : k < b.first => Blank(text[k])
                 /\ s1 \in Section(text)
    BY <1>1
  <1>6. Bottom(s) = C[M + 1].end /\ Top(s) = C[1].first
    BY <1>2 DEF Bottom, Top
  <1>7. M > 0 => Bottom(s1) = B[M].end /\ Top(s1) = B[1].first
    BY <1>1 DEF Bottom, Top
  <1> HIDE DEF C, s1, M, s, N
  <1>8. M > 0 => /\ Top(s1) \in 1 .. N /\ Bottom(s1) \in 1 .. N + 1
                 /\ \A p \in 1 .. M : /\ B[p] \in Block(text)
                                      /\ Top(s1) <= B[p].first /\ B[p].end <= Bottom(s1)
    BY <1>1, <1>3, <1>5, SectionIs DEF N
  <1>9. \A p \in 1 .. M : B[p].first \in Nat /\ B[p].end \in Nat
    BY <1>1, <1>8, BlockIs
  <1>10. Bottom(s) = b.end
    BY <1>2, <1>6
  <1>11. Top(s) = IF M = 0 THEN b.first ELSE Top(s1)
    <2>1. CASE M = 0
      BY <1>2, <1>6, <2>1
    <2>2. CASE M # 0
      <3>1. M > 0 /\ 1 \in 1 .. M
        BY <1>1, <2>2
      <3> QED
        BY <1>2, <1>6, <1>7, <2>2, <3>1
    <2> QED
      BY <2>1, <2>2
  <1>12. ASSUME NEW p \in 1 .. M + 1, NEW q \in 1 .. M + 1, p < q
         PROVE  C[p].end <= C[q].first
    <2>1. p \in 1 .. M /\ M > 0
      BY <1>1, <1>12
    <2>2. CASE q \in 1 .. M
      <3>1. B[p].end <= B[q].first
        BY <1>1, <1>3, <1>5, <1>12, <2>1, <2>2 DEF Tight
      <3> QED
        BY <1>2, <2>1, <2>2, <3>1
    <2>3. CASE q = M + 1
      <3>1. B[p].end <= Bottom(s1) /\ Bottom(s1) <= b.first /\ Bottom(s1) \in Nat
        BY <1>1, <1>5, <1>7, <1>8, <2>1
      <3>2. B[p].end <= b.first
        BY <1>4, <1>9, <2>1, <3>1
      <3> QED
        BY <1>2, <2>1, <2>3, <3>2
    <2> QED
      BY <1>1, <2>2, <2>3
  <1>13. ASSUME NEW k \in Span(s)
         PROVE  Blank(text[k]) \/ \E p \in 1 .. M + 1 : k \in C[p].first .. C[p].end - 1
    <2>1. k \in Top(s) .. b.end - 1
      BY <1>10 DEF Span
    <2>2. CASE M = 0
      <3>1. k \in b.first .. b.end - 1
        BY <1>11, <2>1, <2>2
      <3>2. M + 1 \in 1 .. M + 1 /\ C[M + 1] = b
        BY <1>1, <1>2
      <3> QED
        BY <3>1, <3>2
    <2>3. CASE M > 0
      <3>1. k \in Nat /\ Top(s1) <= k /\ k < b.end /\ Top(s1) \in Nat /\ Bottom(s1) \in Nat
        BY <1>4, <1>8, <1>11, <2>1, <2>3
      <3>2. CASE k < Bottom(s1)
        <4>1. k \in Span(s1)
          BY <3>1, <3>2 DEF Span
        <4>2. Blank(text[k]) \/ \E p \in 1 .. M : k \in B[p].first .. B[p].end - 1
          BY <1>1, <1>3, <1>5, <2>3, <4>1 DEF Tight
        <4>3. \A p \in 1 .. M : p \in 1 .. M + 1 /\ C[p] = B[p]
          BY <1>1, <1>2
        <4> QED
          BY <4>2, <4>3
      <3>3. CASE Bottom(s1) <= k /\ k < b.first
        BY <1>1, <1>4, <1>5, <1>7, <2>3, <3>1, <3>3
      <3>4. CASE b.first <= k
        <4>1. k \in b.first .. b.end - 1
          BY <1>4, <3>1, <3>4
        <4>2. M + 1 \in 1 .. M + 1 /\ C[M + 1] = b
          BY <1>1, <1>2
        <4> QED
          BY <4>1, <4>2
      <3> QED
        BY <1>4, <3>1, <3>2, <3>3, <3>4
    <2> QED
      BY <1>1, <2>2, <2>3
  <1>14. C # << >>
    BY <1>1, <1>2
  <1>15. Tight(text, s)
    BY <1>2, <1>3, <1>12, <1>13, <1>14 DEF Tight
  <1> QED
    BY <1>1, <1>10, <1>11, <1>15 DEF s, s1

\* A block joins the section, or begins one.
LEMMA WalkingBlock ==
  ASSUME NEW text, Document(text), NEW acc \in Walking(text), NEW b \in Block(text),
         b.first = acc.line
  PROVE  [acc EXCEPT !.line = b.end, !.blocks = Append(@, b)] \in Walking(text)
  <1> DEFINE i == acc.line
             B == acc.blocks
             A == [acc EXCEPT !.line = b.end, !.blocks = Append(B, b)]
             S == Done(acc)
             Z == Done(A)
             H == Outer(text, S)
             G == Outer(text, Z)
             M == Len(acc.sections)
             s1 == [path |-> acc.path, blocks |-> B]
             s == [path |-> acc.path, blocks |-> Append(B, b)]
             N == Len(text)
  <1>1. /\ acc \in Place(text) /\ i \in 1 .. N + 1 /\ i \in Nat /\ N \in Nat
        /\ S \in Seq(Section(text))
        /\ \A n \in DOMAIN S :
            /\ S[n] \in Section(text) /\ Tight(text, S[n])
            /\ Top(S[n]) \in 1 .. N /\ Bottom(S[n]) \in 1 .. N + 1
            /\ Top(S[n]) < Bottom(S[n]) /\ Bottom(S[n]) <= i
        /\ H \subseteq 1 .. N
    BY WalkingIs, LinesAre
  <1>2. /\ b.first \in 1 .. N /\ b.end \in 1 .. N + 1 /\ b.first < b.end /\ b.end \in Nat
        /\ b.first = i
    BY BlockIs
  <1>3. /\ B \in Seq(Block(text)) /\ acc.sections \in Seq(Section(text)) /\ acc.path \in Seq(Line)
        /\ M \in Nat /\ DOMAIN acc.sections = 1 .. M
    BY <1>1 DEF Place
  <1>4. /\ Grouped(text, S, i) /\ Enumerates(acc.path, text, Ruling(text, H, i))
        /\ B # << >> => \A k \in B[Len(B)].end .. N : k < i => Blank(text[k])
    BY DEF Walking
  <1>5. Append(B, b) \in Seq(Block(text)) /\ Append(B, b) # << >>
    <2> HIDE DEF B
    <2>1. Append(B, b) \in Seq(Block(text)) /\ Len(Append(B, b)) = Len(B) + 1 /\ Len(B) \in Nat
      BY <1>3
    <2> QED
      BY <2>1
  <1>6. /\ A \in Place(text) /\ A.line = b.end /\ A.blocks = Append(B, b) /\ A.path = acc.path
        /\ A.sections = acc.sections
    BY <1>1, <1>2, <1>5 DEF Place
  <1>7. Z = Append(acc.sections, s)
    <2> HIDE DEF A
    <2>1. Done(A) = Append(A.sections, [path |-> A.path, blocks |-> A.blocks])
      <3>1. A \in Place(text) /\ A.blocks # << >>
        BY <1>5, <1>6
      <3> QED
        BY <3>1, FlushIs
    <2> QED
      BY <1>6, <2>1
  <1>8. /\ B = << >> => S = acc.sections
        /\ B # << >> => S = Append(acc.sections, s1)
    BY <1>1, FlushIs
  <1> HIDE DEF A, Z, S, s1, s, N, M
  <1>9. DOMAIN Z = 1 .. M + 1 /\ Z[M + 1] = s /\ \A n \in 1 .. M : Z[n] = acc.sections[n]
    BY <1>3, <1>7 DEF M
  <1>10. /\ \A n \in 1 .. M : n \in DOMAIN S /\ S[n] = acc.sections[n]
         /\ B = << >> => DOMAIN S = 1 .. M
         /\ B # << >> => DOMAIN S = 1 .. M + 1 /\ S[M + 1] = s1 /\ M + 1 \in DOMAIN S
    <2>1. CASE B = << >>
      BY <1>3, <1>8, <2>1
    <2>2. CASE B # << >>
      <3>1. S = Append(acc.sections, s1)
        BY <1>8, <2>2
      <3> QED
        BY <1>3, <2>2, <3>1 DEF M
    <2> QED
      BY <2>1, <2>2
  <1>11. B # << >> => /\ s1 \in Section(text) /\ Tight(text, s1) /\ Bottom(s1) = B[Len(B)].end
                      /\ Top(s1) \in 1 .. N /\ Bottom(s1) \in 1 .. N + 1
                      /\ Top(s1) < Bottom(s1) /\ Bottom(s1) <= i
                      /\ \A k \in 1 .. N : k < i /\ Bottom(s1) <= k => Blank(text[k])
    <2> SUFFICES ASSUME B # << >>
                 PROVE  /\ s1 \in Section(text) /\ Tight(text, s1) /\ Bottom(s1) = B[Len(B)].end
                        /\ Top(s1) \in 1 .. N /\ Bottom(s1) \in 1 .. N + 1
                        /\ Top(s1) < Bottom(s1) /\ Bottom(s1) <= i
                        /\ \A k \in 1 .. N : k < i /\ Bottom(s1) <= k => Blank(text[k])
      OBVIOUS
    <2>1. M + 1 \in DOMAIN S /\ S[M + 1] = s1
      BY <1>10
    <2>2. /\ s1 \in Section(text) /\ Tight(text, s1)
          /\ Top(s1) \in 1 .. N /\ Bottom(s1) \in 1 .. N + 1
          /\ Top(s1) < Bottom(s1) /\ Bottom(s1) <= i
      BY <1>1, <2>1
    <2>3. Bottom(s1) = B[Len(B)].end
      BY DEF Bottom, s1
    <2>4. \A k \in 1 .. N : k < i /\ Bottom(s1) <= k => Blank(text[k])
      BY <1>1, <1>4, <2>2, <2>3
    <2> QED
      BY <2>2, <2>3, <2>4
  <1>12. /\ Tight(text, s) /\ Bottom(s) = b.end
         /\ Top(s) = IF B = << >> THEN i ELSE Top(s1)
    <2>1. B # << >> => /\ Tight(text, [path |-> acc.path, blocks |-> B])
                       /\ B[Len(B)].end <= b.first
                       /\ \A k \in B[Len(B)].end .. Len(text) : k < b.first => Blank(text[k])
      BY <1>2, <1>4, <1>11 DEF s1, N
    <2>2. B = << >> \/ [path |-> acc.path, blocks |-> B] \in Section(text)
      BY <1>11 DEF s1
    <2> DEFINE path == acc.path
    <2>3. /\ Tight(text, [path |-> path, blocks |-> Append(B, b)])
          /\ Bottom([path |-> path, blocks |-> Append(B, b)]) = b.end
          /\ Top([path |-> path, blocks |-> Append(B, b)]) =
                IF B = << >> THEN b.first ELSE Top([path |-> path, blocks |-> B])
      <3>1. B \in Seq(Block(text))
        BY <1>3
      <3> HIDE DEF B
      <3> QED
        BY <2>1, <2>2, <3>1, TightMore
    <2> QED
      BY <1>2, <2>3 DEF s, s1
  <1>13. Top(s) \in 1 .. N /\ Top(s) <= i
    BY <1>1, <1>2, <1>11, <1>12
  <1>14. ASSUME NEW k \in 1 .. N, k < i
         PROVE  /\ k \in H <=> k \in G
                /\ (\E n \in DOMAIN S : k \in Span(S[n])) => \E n \in DOMAIN Z : k \in Span(Z[n])
    <2>1. \A n \in 1 .. M : Z[n] = S[n]
      BY <1>9, <1>10
    <2>2. k \in Span(s) <=> B # << >> /\ Top(s1) <= k
      BY <1>1, <1>2, <1>11, <1>12, <1>14 DEF Span
    <2>3. B # << >> => (k \in Span(s1) <=> Top(s1) <= k /\ k < Bottom(s1))
      BY <1>1, <1>11 DEF Span
    <2>4. B # << >> => (k \in Span(s1) => k \in Span(s))
      BY <2>2, <2>3
    <2>5. k \in Span(s) /\ Heading(text[k]) => B # << >> /\ k \in Span(s1)
      <3>1. Heading(text[k]) => ~Blank(text[k])
        BY DEF Heading, Blank
      <3>2. B # << >> => k < Bottom(s1) \/ Bottom(s1) <= k
        BY <1>1, <1>11
      <3> QED
        BY <1>11, <1>14, <2>2, <2>3, <3>1, <3>2
    <2>6. ASSUME NEW n \in DOMAIN S, k \in Span(S[n])
          PROVE  \E z \in DOMAIN Z : k \in Span(Z[z])
      <3>1. n \in 1 .. M \/ (B # << >> /\ n = M + 1)
        BY <1>3, <1>10
      <3>2. M + 1 \in DOMAIN Z /\ \A z \in 1 .. M : z \in DOMAIN Z
        BY <1>3, <1>9
      <3>3. CASE n \in 1 .. M
        BY <2>1, <2>6, <3>2, <3>3
      <3>4. CASE B # << >> /\ n = M + 1
        BY <1>9, <1>10, <2>4, <2>6, <3>2, <3>4
      <3> QED
        BY <3>1, <3>3, <3>4
    <2>7. ASSUME NEW z \in DOMAIN Z, k \in Span(Z[z]), Heading(text[k])
          PROVE  \E n \in DOMAIN S : k \in Span(S[n])
      <3>1. z \in 1 .. M \/ z = M + 1
        BY <1>3, <1>9
      <3>2. CASE z \in 1 .. M
        BY <1>10, <2>1, <2>7, <3>2
      <3>3. CASE z = M + 1
        BY <1>9, <1>10, <2>5, <2>7, <3>3
      <3> QED
        BY <3>1, <3>2, <3>3
    <2>8. k \in H <=> Heading(text[k]) /\ ~ \E n \in DOMAIN S : k \in Span(S[n])
      BY <1>14 DEF Outer, N
    <2>9. k \in G <=> Heading(text[k]) /\ ~ \E z \in DOMAIN Z : k \in Span(Z[z])
      BY <1>14 DEF Outer, N
    <2> HIDE DEF H, G
    <2> QED
      BY <2>6, <2>7, <2>8, <2>9
  <1>15. G \subseteq 1 .. N
    BY DEF Outer, N
  <1>16. \A k \in 1 .. N : i <= k /\ k < b.end => k \in Span(s)
    BY <1>1, <1>2, <1>12, <1>13 DEF Span
  <1>17. \A k \in G : k < i \/ b.end <= k
    <2>1. M + 1 \in DOMAIN Z
      BY <1>3, <1>9
    <2>2. \A k \in G : k \notin Span(s)
      BY <1>9, <2>1 DEF Outer
    <2> HIDE DEF G
    <2> QED
      BY <1>1, <1>2, <1>15, <1>16, <2>2
  <1>18. ASSUME NEW j \in Nat, j <= i
         PROVE  Ruling(text, G, j) = Ruling(text, H, j)
    <2>1. \A k \in Nat : k < j => (k \in G <=> k \in H)
      <3> SUFFICES ASSUME NEW k \in Nat, k < j
                   PROVE  k \in G <=> k \in H
        OBVIOUS
      <3>1. k < i
        BY <1>1, <1>18
      <3> HIDE DEF G, H
      <3> QED
        BY <1>1, <1>14, <1>15, <3>1
    <2>2. G \in SUBSET Nat /\ H \in SUBSET Nat /\ \A k \in H : k < j \/ j <= k
      <3> HIDE DEF G, H
      <3> QED
        BY <1>1, <1>15
    <2> HIDE DEF G, H
    <2> QED
      BY <2>1, <2>2, RulingSame
  <1>19. Ruling(text, G, b.end) = Ruling(text, H, i)
    <2>1. Ruling(text, G, b.end) = Ruling(text, G, i)
      <3>1. G \in SUBSET Nat /\ i <= b.end /\ i \in Nat /\ b.end \in Nat
        BY <1>1, <1>2, <1>15
      <3>2. \A k \in Nat : k < b.end => (k \in G <=> k \in G)
        OBVIOUS
      <3> HIDE DEF G, i
      <3> QED
        BY <1>17, <3>1, <3>2, RulingSame
    <2> QED
      BY <1>1, <1>18, <2>1
  <1>20. Grouped(text, Z, b.end)
    <2>1. ASSUME NEW n \in DOMAIN Z
          PROVE  /\ Tight(text, Z[n]) /\ Bottom(Z[n]) <= b.end
                 /\ Top(Z[n]) \in Nat /\ Top(Z[n]) <= i
                 /\ Enumerates(Z[n].path, text, Ruling(text, H, Top(Z[n])))
      <3>1. CASE n \in 1 .. M
        <4>1. Z[n] = S[n] /\ n \in DOMAIN S
          BY <1>9, <1>10, <3>1
        <4>2. Enumerates(S[n].path, text, Ruling(text, H, Top(S[n])))
          BY <1>4, <4>1 DEF Grouped
        <4>3. /\ Tight(text, S[n])
              /\ Top(S[n]) \in 1 .. N /\ Bottom(S[n]) \in 1 .. N + 1
              /\ Top(S[n]) < Bottom(S[n]) /\ Bottom(S[n]) <= i
          BY <1>1, <4>1
        <4>4. Top(S[n]) \in Nat /\ Top(S[n]) <= i /\ Bottom(S[n]) <= b.end
          BY <1>1, <1>2, <4>3
        <4> QED
          BY <4>1, <4>2, <4>3, <4>4
      <3>2. CASE n = M + 1
        <4>1. Enumerates(s.path, text, Ruling(text, H, Top(s)))
          <5>1. CASE B = << >>
            BY <1>4, <1>12, <5>1 DEF s
          <5>2. CASE B # << >>
            <6>1. Enumerates(s1.path, text, Ruling(text, H, Top(s1)))
              BY <1>4, <1>10, <5>2 DEF Grouped
            <6> QED
              BY <1>12, <5>2, <6>1 DEF s, s1
          <5> QED
            BY <5>1, <5>2
        <4> QED
          BY <1>2, <1>9, <1>12, <1>13, <3>2, <4>1
      <3> QED
        BY <1>3, <1>9, <3>1, <3>2
    <2>2. ASSUME NEW m \in DOMAIN Z, NEW n \in DOMAIN Z, m < n
          PROVE  Bottom(Z[m]) <= Top(Z[n])
      <3>1. m \in 1 .. M
        BY <1>3, <1>9, <2>2
      <3>2. m \in DOMAIN S /\ Z[m] = S[m]
        BY <1>9, <1>10, <3>1
      <3>3. CASE n \in 1 .. M
        <4>1. n \in DOMAIN S /\ Z[n] = S[n]
          BY <1>9, <1>10, <3>3
        <4> QED
          BY <1>4, <2>2, <3>2, <4>1 DEF Grouped
      <3>4. CASE n = M + 1 /\ B = << >>
        <4>1. Bottom(S[m]) <= i
          BY <1>1, <3>2
        <4> QED
          BY <1>9, <1>12, <3>2, <3>4, <4>1
      <3>5. CASE n = M + 1 /\ B # << >>
        <4>1. n \in DOMAIN S /\ S[n] = s1 /\ Top(s) = Top(s1)
          BY <1>10, <1>12, <3>5
        <4>2. Bottom(S[m]) <= Top(s1)
          BY <1>4, <2>2, <3>2, <4>1 DEF Grouped
        <4> QED
          BY <1>9, <3>2, <3>5, <4>1, <4>2
      <3> QED
        BY <1>3, <1>9, <3>3, <3>4, <3>5
    <2>3. ASSUME NEW k \in 1 .. N, k < b.end
          PROVE  Blank(text[k]) \/ Heading(text[k]) \/ \E n \in DOMAIN Z : k \in Span(Z[n])
      <3>1. CASE k < i
        <4>1. Blank(text[k]) \/ Heading(text[k]) \/ \E n \in DOMAIN S : k \in Span(S[n])
          BY <1>4, <3>1 DEF Grouped, N
        <4> QED
          BY <1>14, <3>1, <4>1
      <3>2. CASE i <= k
        <4>1. k \in Span(s) /\ M + 1 \in DOMAIN Z /\ Z[M + 1] = s
          BY <1>3, <1>9, <1>16, <2>3, <3>2
        <4> QED
          BY <4>1
      <3> QED
        BY <1>1, <3>1, <3>2
    <2>4. \A n \in DOMAIN Z : Enumerates(Z[n].path, text, Ruling(text, G, Top(Z[n])))
      <3> HIDE DEF G, H
      <3> QED
        BY <1>18, <2>1
    <2> QED
      BY <2>1, <2>2, <2>3, <2>4 DEF Grouped, N
  <1>21. Append(B, b)[Len(Append(B, b))] = b
    BY <1>3
  <1>22. A \in Walking(text)
    <2>1. Grouped(text, Done(A), A.line)
      BY <1>6, <1>20 DEF Z
    <2>2. Enumerates(A.path, text, Ruling(text, Outer(text, Done(A)), A.line))
      BY <1>4, <1>6, <1>19 DEF Z
    <2>3. \A k \in A.blocks[Len(A.blocks)].end .. N : k < A.line => Blank(text[k])
      BY <1>1, <1>2, <1>6, <1>21
    <2> QED
      BY <1>6, <2>1, <2>2, <2>3 DEF Walking, N
  <1> QED
    BY <1>22 DEF A

\* Every round keeps this, and goes on while there are lines.
LEMMA RoundKeeps ==
  ASSUME NEW text, Document(text), NEW acc \in Walking(text)
  PROVE  /\ Round(text, acc) \in Walking(text)
         /\ acc.line <= Len(text) => acc.line < Round(text, acc).line
         /\ acc.line > Len(text) => Round(text, acc) = acc
  <1> DEFINE i == acc.line
             R == Round(text, acc)
  <1>1. /\ acc \in Place(text) /\ i \in 1 .. Len(text) + 1 /\ i \in Nat /\ Len(text) \in Nat
        /\ Flush(acc) \in Place(text)
    BY WalkingIs, LinesAre, FlushIs
  <1>2. CASE i > Len(text)
    BY <1>1, <1>2 DEF Round
  <1>3. CASE i <= Len(text) /\ Heading(text[i])
    <2>1. R = [Flush(acc) EXCEPT !.line = i + 1, !.path = Under(@, text[i])]
      BY <1>1, <1>3 DEF Round
    <2>2. R \in Walking(text)
      BY <1>3, <2>1, WalkingHeading
    <2>3. R.line = i + 1
      BY <1>1, <2>1 DEF Place
    <2> QED
      BY <1>1, <1>3, <2>2, <2>3
  <1>4. CASE i <= Len(text) /\ Blank(text[i])
    <2>1. ~Heading(text[i])
      BY <1>4 DEF Blank, Heading
    <2>2. R = [acc EXCEPT !.line = i + 1]
      BY <1>1, <1>4, <2>1 DEF Round
    <2>3. R \in Walking(text)
      BY <1>4, <2>2, WalkingBlank
    <2>4. R.line = i + 1
      BY <1>1, <2>2 DEF Place
    <2> QED
      BY <1>1, <1>4, <2>3, <2>4
  <1>5. CASE i <= Len(text) /\ ~Heading(text[i]) /\ ~Blank(text[i])
    <2> DEFINE b == [first |-> i, end |-> BlockEnd(text, i)]
    <2>1. R = [acc EXCEPT !.line = b.end, !.blocks = Append(@, b)]
      BY <1>1, <1>5 DEF Round
    <2>2. b \in Block(text) /\ b.first = i
      BY <1>1, <1>5, BlockBegun
    <2>3. b.end \in Nat /\ i < b.end
      BY <2>2, BlockIs
    <2> HIDE DEF b
    <2>4. R \in Walking(text)
      BY <2>1, <2>2, WalkingBlock
    <2>5. R.line = b.end
      BY <1>1, <2>1 DEF Place
    <2> QED
      BY <1>1, <1>5, <2>3, <2>4, <2>5
  <1> QED
    BY <1>1, <1>2, <1>3, <1>4, <1>5

\* So the loop ends behind the last line, with all of the text in sections.
LEMMA SectionsAre ==
  ASSUME NEW text, Document(text)
  PROVE  Sections(text) \in Seq(Section(text)) /\ Grouped(text, Sections(text), Len(text) + 1)
  <1> DEFINE N == Len(text)
             start == [line |-> 1, path |-> << >>, blocks |-> << >>, sections |-> << >>]
             body(f) == [n \in 0 .. N |-> IF n = 0 THEN start ELSE Round(text, f[n - 1])]
             cur == CHOOSE f : f = body(f)
             W == Walking(text)
             step == [p \in W \X (1 .. N) |-> Round(text, p[1])]
             T == {n \in 0 .. N : cur[n].line > n}
  <1>1. Walk(text) = cur[N]
    BY DEF Walk
  <1>2. N \in Nat
    BY LinesAre
  <1>3. start \in W
    <2>1. /\ start \in Place(text) /\ start.line = 1 /\ start.path = << >> /\ start.blocks = << >>
          /\ start.sections = << >>
      BY <1>2 DEF Place
    <2> HIDE DEF start
    <2>2. Done(start) = << >>
      BY <2>1, FlushIs
    <2>3. Grouped(text, << >>, 1)
      BY <1>2 DEF Grouped
    <2>4. Ruling(text, Outer(text, << >>), 1) = {}
      BY <1>2 DEF Ruling, Outer
    <2>5. Enumerates(<< >>, text, {})
      <3>1. DOMAIN << >> = {}
        OBVIOUS
      <3>2. [j \in {} |-> 1] \in [{} -> DOMAIN text]
        OBVIOUS
      <3> QED
        BY <3>1, <3>2 DEF Enumerates
    <2> QED
      BY <2>1, <2>2, <2>3, <2>4, <2>5 DEF Walking
  <1> HIDE DEF N, start, W
  <1>4. \A acc \in W : /\ Round(text, acc) \in W /\ acc.line \in Nat
                       /\ acc.line <= N => acc.line < Round(text, acc).line
                       /\ acc.line > N => Round(text, acc) = acc
                       /\ acc.line <= N + 1
    <2> SUFFICES ASSUME NEW acc \in W
                 PROVE  /\ Round(text, acc) \in W /\ acc.line \in Nat
                        /\ acc.line <= N => acc.line < Round(text, acc).line
                        /\ acc.line > N => Round(text, acc) = acc
                        /\ acc.line <= N + 1
      OBVIOUS
    <2>1. acc \in Walking(text)
      BY DEF W
    <2>2. acc.line \in 1 .. N + 1
      BY <2>1, WalkingIs DEF N
    <2>3. acc.line \in Nat /\ acc.line <= N + 1
      BY <1>2, <2>2
    <2> QED
      BY <2>1, <2>3, RoundKeeps DEF W, N
  <1>5. step \in [W \X (1 .. N) -> W]
    BY <1>4
  <1>6. \A acc \in W, n \in 1 .. N : step[<<acc, n>>] = Round(text, acc)
    BY \A acc \in W, n \in 1 .. N : <<acc, n>> \in W \X (1 .. N)
  <1> HIDE DEF step
  <1>7. PICK f \in [0 .. N -> W] : Runs(f, N, start, step)
    BY <1>2, <1>3, <1>5, LoopExists DEF Loop
  <1>8. f = body(f)
    <2>1. \A n \in 1 .. N : f[n - 1] \in W
      BY <1>2
    <2>2. \A n \in 1 .. N : f[n] = Round(text, f[n - 1])
      BY <1>6, <1>7, <2>1 DEF Runs
    <2>3. f[0] = start
      BY <1>7 DEF Runs
    <2>4. f = [n \in 0 .. N |-> f[n]]
      OBVIOUS
    <2>5. \A n \in 0 .. N : f[n] = IF n = 0 THEN start ELSE Round(text, f[n - 1])
      BY <1>2, <2>2, <2>3
    <2> QED
      BY <2>4, <2>5
  <1>9. cur = body(cur)
    <2> HIDE DEF body
    <2> QED
      BY <1>8
  <1> HIDE DEF cur
  <1>10. cur[0] = start /\ \A n \in 1 .. N : cur[n] = Round(text, cur[n - 1])
    BY <1>2, <1>9
  <1>11. \A n \in 0 .. N : cur[n] \in W
    <2>1. cur[0] \in W
      BY <1>3, <1>10
    <2>2. \A n \in 1 .. N : cur[n - 1] \in W => cur[n] \in W
      BY <1>4, <1>10
    <2> QED
      BY <1>2, <2>1, <2>2, LoopKeeps
  <1>12. 0 .. N \subseteq T
    <2>1. 0 \in T
      BY <1>2, <1>10 DEF start
    <2>2. ASSUME NEW n \in 0 .. N - 1, n \in T
          PROVE  n + 1 \in T
      <3> DEFINE acc == cur[n]
                 next == cur[n + 1]
      <3>1. n + 1 \in 1 .. N /\ n + 1 - 1 = n /\ n \in 0 .. N /\ n + 1 \in 0 .. N
        BY <1>2
      <3>2. next = Round(text, acc) /\ acc \in W /\ next \in W
        BY <1>10, <1>11, <3>1
      <3>3. acc.line > n
        BY <2>2
      <3> HIDE DEF acc, next
      <3>4. acc.line \in Nat /\ next.line \in Nat
        BY <1>4, <3>2
      <3>5. CASE acc.line <= N
        <4>1. acc.line < next.line
          BY <1>4, <3>2, <3>5
        <4>2. next.line > n + 1
          BY <3>1, <3>3, <3>4, <4>1
        <4> QED
          BY <3>1, <4>2 DEF next
      <3>6. CASE acc.line > N
        <4>1. next = acc
          BY <1>4, <3>2, <3>6
        <4>2. next.line > n + 1
          BY <1>2, <3>1, <3>4, <3>6, <4>1
        <4> QED
          BY <3>1, <4>2 DEF next
      <3> QED
        BY <1>2, <3>4, <3>5, <3>6
    <2> HIDE DEF T
    <2> QED
      BY <1>2, <2>1, <2>2, UpTo
  <1> DEFINE last == cur[N]
  <1>13. last \in W /\ last.line > N
    BY <1>2, <1>11, <1>12
  <1> HIDE DEF last
  <1>14. last \in Walking(text) /\ last.line = N + 1
    <2>1. last.line \in Nat /\ last.line <= N + 1
      BY <1>4, <1>13
    <2> QED
      BY <1>2, <1>13, <2>1 DEF W
  <1>15. Sections(text) = Done(last)
    BY <1>1 DEF Sections, Done, last
  <1>16. Done(last) \in Seq(Section(text))
    BY <1>14, WalkingIs
  <1>17. Grouped(text, Done(last), N + 1)
    BY <1>14 DEF Walking
  <1> QED
    BY <1>15, <1>16, <1>17 DEF N

-----------------------------------------------------------------------------
(* The chunks of a section.                                                *)

Piece(text, s) == [path : {s.path}, first : 0 .. Len(text) + 1, end : 0 .. Len(text) + 1]
Packing(text, s) ==
    [first : 0 .. Len(text) + 1, end : 0 .. Len(text) + 1, body : Nat, out : Seq(Piece(text, s))]

\* The pieces L are the first n blocks of s in runs, in their order.
Cuts(L, s, n) ==
    /\ \A c \in DOMAIN L :
        /\ L[c].path = s.path
        /\ \E p, q \in 1 .. n :
            p <= q /\ L[c].first = s.blocks[p].first /\ L[c].end = s.blocks[q].end
    /\ \A c, d \in DOMAIN L : c < d => L[c].end <= L[d].first
    /\ \A p \in 1 .. n : \E c \in DOMAIN L :
        L[c].first <= s.blocks[p].first /\ s.blocks[p].end <= L[c].end

LastPiece(acc, s) == [path |-> s.path, first |-> acc.first, end |-> acc.end]

\* After n blocks: the chunk at hand ends with the last of them.
PackFits(acc, s, n) ==
    /\ acc.body > 0 /\ acc.end = s.blocks[n].end
    /\ Cuts(Append(acc.out, LastPiece(acc, s)), s, n)

\* The blocks of a section are in the order of their lines.
LEMMA BlocksInOrder ==
  ASSUME NEW text, Document(text), NEW s \in Section(text), Tight(text, s),
         NEW p \in DOMAIN s.blocks, NEW q \in DOMAIN s.blocks, p <= q
  PROVE  /\ s.blocks[p].first \in Nat /\ s.blocks[p].end \in Nat
         /\ s.blocks[q].first \in Nat /\ s.blocks[q].end \in Nat
         /\ s.blocks[p].first <= s.blocks[q].first /\ s.blocks[p].end <= s.blocks[q].end
         /\ s.blocks[p].first < s.blocks[q].end
         /\ p < q => s.blocks[p].end <= s.blocks[q].first
  <1>1. p \in Nat /\ q \in Nat
    BY SectionIs
  <1>2. s.blocks[p] \in Block(text) /\ s.blocks[q] \in Block(text)
    BY SectionIs
  <1>3. /\ s.blocks[p].first \in Nat /\ s.blocks[p].end \in Nat
        /\ s.blocks[q].first \in Nat /\ s.blocks[q].end \in Nat
        /\ s.blocks[p].first < s.blocks[p].end /\ s.blocks[q].first < s.blocks[q].end
    BY <1>2, BlockIs
  <1>4. p < q => s.blocks[p].end <= s.blocks[q].first
    BY DEF Tight
  <1>5. p = q \/ p < q
    BY <1>1
  <1> QED
    BY <1>3, <1>4, <1>5

\* A round of the packing loop goes from one of its states to another.
LEMMA PackTyped ==
  ASSUME NEW text, Document(text), NEW s \in Section(text), NEW b \in Block(text),
         NEW acc \in Packing(text, s)
  PROVE  Pack(text, s.path, acc, b) \in Packing(text, s)
  <1> DEFINE more == acc.body + 2 + BlockSize(text, b)
             begun == [first |-> b.first, end |-> b.end, body |-> BlockSize(text, b), out |-> acc.out]
             P == LastPiece(acc, s)
  <1>1. b.first \in 0 .. Len(text) + 1 /\ b.end \in 0 .. Len(text) + 1
    BY BlockIs, LinesAre
  <1>2. BlockSize(text, b) \in Nat
    BY BlockSizeIs
  <1>3. begun \in Packing(text, s)
    BY <1>1, <1>2 DEF Packing
  <1>4. Append(acc.out, P) \in Seq(Piece(text, s))
    <2>1. P \in Piece(text, s)
      BY DEF Packing, Piece, LastPiece
    <2> HIDE DEF P
    <2> QED
      BY <2>1 DEF Packing
  <1>5. [begun EXCEPT !.out = Append(acc.out, P)] \in Packing(text, s)
    <2> HIDE DEF begun, P
    <2> QED
      BY <1>3, <1>4 DEF Packing
  <1>6. more \in Nat
    BY <1>2 DEF Packing
  <1>7. [acc EXCEPT !.end = b.end, !.body = more] \in Packing(text, s)
    <2> HIDE DEF more
    <2> QED
      BY <1>1, <1>6 DEF Packing
  <1>8. \/ Pack(text, s.path, acc, b) = begun
        \/ Pack(text, s.path, acc, b) = [begun EXCEPT !.out = Append(acc.out, P)]
        \/ Pack(text, s.path, acc, b) = [acc EXCEPT !.end = b.end, !.body = more]
    BY DEF Pack, LastPiece
  <1> QED
    BY <1>3, <1>5, <1>7, <1>8

\* The next block begins a chunk or is in the one at hand.
LEMMA PackKeeps ==
  ASSUME NEW text, Document(text), NEW s \in Section(text), Tight(text, s),
         NEW n \in 1 .. Len(s.blocks), NEW acc \in Packing(text, s),
         n = 1 => acc.body = 0 /\ acc.out = << >>,
         n > 1 => PackFits(acc, s, n - 1)
  PROVE  PackFits(Pack(text, s.path, acc, s.blocks[n]), s, n)
  <1> DEFINE B == s.blocks
             b == B[n]
             A == Pack(text, s.path, acc, b)
             L == Append(acc.out, LastPiece(acc, s))
             K == Append(A.out, LastPiece(A, s))
             size == BlockSize(text, b)
             begun == [first |-> b.first, end |-> b.end, body |-> size, out |-> acc.out]
             more == acc.body + 2 + size
             M == Len(acc.out)
             new == [path |-> s.path, first |-> b.first, end |-> b.end]
  <1>1. Len(B) \in Nat /\ DOMAIN B = 1 .. Len(B) /\ n \in DOMAIN B /\ b \in Block(text)
    BY SectionIs
  <1>2. b.first \in Nat /\ b.end \in Nat /\ b.first < b.end
    BY <1>1, BlockIs
  <1>3. size \in Nat /\ size > 0
    BY <1>1, BlockSizeIs
  <1>4. acc.body \in Nat /\ acc.out \in Seq(Piece(text, s)) /\ M \in Nat
    BY DEF Packing
  <1>5. DOMAIN L = 1 .. M + 1 /\ L[M + 1] = LastPiece(acc, s) /\ \A c \in 1 .. M : L[c] = acc.out[c]
    BY <1>4
  <1>6. \A p, q \in 1 .. n : p <= q =>
            /\ B[p].first \in Nat /\ B[p].end \in Nat /\ B[q].first \in Nat /\ B[q].end \in Nat
            /\ B[p].first <= B[q].first /\ B[p].end <= B[q].end /\ B[p].first < B[q].end
            /\ p < q => B[p].end <= B[q].first
    <2>1. \A p \in 1 .. n : p \in DOMAIN B
      BY <1>1
    <2> QED
      BY <2>1, BlocksInOrder
  <1> HIDE DEF B, b, A, L, K, size, begun, more, M, new
  <1>7. CASE n = 1
    <2>1. A = [first |-> b.first, end |-> b.end, body |-> size, out |-> << >>]
      BY <1>7 DEF A, Pack, size
    <2>2. A.body = size /\ A.end = b.end /\ A.out = << >> /\ LastPiece(A, s) = new
      BY <2>1 DEF LastPiece, new
    <2>3. DOMAIN K = 1 .. 1 /\ K[1] = new
      BY <2>2 DEF K
    <2>4. new.path = s.path /\ new.first = B[1].first /\ new.end = B[1].end
      BY <1>7 DEF new, b
    <2>5. Cuts(K, s, n)
      <3>1. \A c \in DOMAIN K : K[c] = new /\ c = 1
        BY <2>3
      <3>2. \A p \in 1 .. n : p = 1
        BY <1>7
      <3>3. B[1].first \in Nat /\ B[1].end \in Nat
        BY <1>2, <1>7 DEF b
      <3>4. ASSUME NEW c \in DOMAIN K
            PROVE  /\ K[c].path = s.path
                   /\ \E p, q \in 1 .. n : p <= q /\ K[c].first = B[p].first /\ K[c].end = B[q].end
        <4>1. 1 \in 1 .. n /\ 1 <= 1
          BY <1>7
        <4> QED
          BY <2>4, <3>1, <4>1
      <3>5. \A c, d \in DOMAIN K : c < d => K[c].end <= K[d].first
        BY <3>1
      <3>6. \A p \in 1 .. n : \E c \in DOMAIN K : K[c].first <= B[p].first /\ B[p].end <= K[c].end
        BY <2>3, <2>4, <3>2, <3>3
      <3> QED
        BY <3>4, <3>5, <3>6 DEF Cuts, B
    <2> QED
      BY <1>3, <2>2, <2>5 DEF PackFits, A, B, b, K
  <1>8. CASE n > 1
    <2>1. /\ acc.body > 0 /\ acc.end = B[n - 1].end /\ Cuts(L, s, n - 1)
      BY <1>8 DEF PackFits, L, B
    <2>2. /\ n - 1 \in 1 .. n /\ n \in 1 .. n /\ n \in Nat /\ n - 1 < n
          /\ \A p \in 1 .. n - 1 : p \in 1 .. n /\ p <= n - 1 /\ p < n
          /\ \A p \in 1 .. n : p = n \/ p \in 1 .. n - 1
      BY <1>1, <1>8
    <2>3. \A c \in DOMAIN L :
            /\ L[c].path = s.path
            /\ \E p, q \in 1 .. n - 1 : p <= q /\ L[c].first = B[p].first /\ L[c].end = B[q].end
      BY <2>1 DEF Cuts, B
    <2>4. \A c, d \in DOMAIN L : c < d => L[c].end <= L[d].first
      BY <2>1 DEF Cuts
    <2>5. \A p \in 1 .. n - 1 : \E c \in DOMAIN L : L[c].first <= B[p].first /\ B[p].end <= L[c].end
      BY <2>1 DEF Cuts, B
    <2>6. \A c \in DOMAIN L : L[c].end \in Nat /\ L[c].first \in Nat /\ L[c].end <= b.first
      <3> SUFFICES ASSUME NEW c \in DOMAIN L
                   PROVE  L[c].end \in Nat /\ L[c].first \in Nat /\ L[c].end <= b.first
        OBVIOUS
      <3>1. PICK p, q \in 1 .. n - 1 : L[c].first = B[p].first /\ L[c].end = B[q].end
        BY <2>3
      <3> QED
        BY <1>6, <2>2, <3>1 DEF b
    <2>7. CASE FullSize(s.path, more) > ChunkSize
      <3>1. A = [begun EXCEPT !.out = Append(acc.out, LastPiece(acc, s))]
        BY <1>4, <2>1, <2>7 DEF A, Pack, begun, more, size, LastPiece
      <3>2. A.body = size /\ A.end = b.end /\ A.first = b.first /\ A.out = L
        BY <3>1 DEF begun, L
      <3>3. K = Append(L, new)
        BY <3>2 DEF K, LastPiece, new
      <3>4. L \in Seq(Piece(text, s))
        <4>1. LastPiece(acc, s) \in Piece(text, s)
          BY DEF Packing, Piece, LastPiece
        <4> QED
          BY <1>4, <4>1 DEF L
      <3>5. DOMAIN K = 1 .. M + 2 /\ K[M + 2] = new /\ \A c \in 1 .. M + 1 : K[c] = L[c]
        <4>1. Len(L) = M + 1
          BY <1>4, <1>5, <3>4
        <4> QED
          BY <1>4, <3>3, <3>4, <4>1
      <3>6. \A c \in DOMAIN K : c = M + 2 \/ (c \in DOMAIN L /\ K[c] = L[c])
        BY <1>4, <1>5, <3>5
      <3>7. new.path = s.path /\ new.first = B[n].first /\ new.end = B[n].end
        BY DEF new, b
      <3>8. ASSUME NEW c \in DOMAIN K
            PROVE  /\ K[c].path = s.path
                   /\ \E p, q \in 1 .. n : p <= q /\ K[c].first = B[p].first /\ K[c].end = B[q].end
        <4>1. CASE c = M + 2
          BY <2>2, <3>5, <3>7, <4>1
        <4>2. CASE c \in DOMAIN L /\ K[c] = L[c]
          BY <2>2, <2>3, <4>2
        <4> QED
          BY <3>6, <4>1, <4>2
      <3>9. ASSUME NEW c \in DOMAIN K, NEW d \in DOMAIN K, c < d
            PROVE  K[c].end <= K[d].first
        <4>1. c \in DOMAIN L /\ K[c] = L[c]
          BY <1>4, <1>5, <3>5, <3>9
        <4>2. CASE d = M + 2
          BY <2>6, <3>5, <3>7, <4>1, <4>2 DEF b
        <4>3. CASE d \in DOMAIN L /\ K[d] = L[d]
          BY <2>4, <3>9, <4>1, <4>3
        <4> QED
          BY <3>6, <4>2, <4>3
      <3>10. ASSUME NEW p \in 1 .. n
             PROVE  \E c \in DOMAIN K : K[c].first <= B[p].first /\ B[p].end <= K[c].end
        <4>1. CASE p = n
          <5>1. M + 2 \in DOMAIN K
            BY <1>4, <3>5
          <5> QED
            BY <1>2, <3>5, <3>7, <4>1, <5>1 DEF b
        <4>2. CASE p \in 1 .. n - 1
          <5>1. PICK c \in DOMAIN L : L[c].first <= B[p].first /\ B[p].end <= L[c].end
            BY <2>5, <4>2
          <5>2. c \in DOMAIN K /\ K[c] = L[c]
            BY <1>4, <1>5, <3>5
          <5> QED
            BY <5>1, <5>2
        <4> QED
          BY <2>2, <4>1, <4>2
      <3>11. Cuts(K, s, n)
        BY <3>8, <3>9, <3>10 DEF Cuts, B
      <3> QED
        BY <1>3, <3>2, <3>11 DEF PackFits, A, B, b, K
    <2>8. CASE ~(FullSize(s.path, more) > ChunkSize)
      <3>1. A = [acc EXCEPT !.end = b.end, !.body = more]
        BY <1>4, <2>1, <2>8 DEF A, Pack, more, size
      <3>2. A.body = more /\ A.end = b.end /\ A.first = acc.first /\ A.out = acc.out
        BY <3>1 DEF Packing
      <3>3. more > 0
        BY <1>3, <1>4 DEF more
      <3> DEFINE j == [path |-> s.path, first |-> acc.first, end |-> b.end]
      <3>4. j.path = s.path /\ j.first = L[M + 1].first /\ j.end = B[n].end
        BY <1>5 DEF LastPiece, b
      <3>5. K = Append(acc.out, j)
        BY <3>2 DEF K, LastPiece
      <3> HIDE DEF j
      <3>6. DOMAIN K = 1 .. M + 1 /\ K[M + 1] = j /\ \A c \in 1 .. M : K[c] = L[c]
        BY <1>4, <1>5, <3>5 DEF M
      <3>7. M + 1 \in DOMAIN L /\ DOMAIN K = DOMAIN L
            /\ (\A c \in DOMAIN K : c = M + 1 \/ (c \in 1 .. M /\ K[c] = L[c]))
            /\ \A c \in DOMAIN K : K[c].first = L[c].first
        BY <1>4, <1>5, <3>4, <3>6
      <3>8. ASSUME NEW c \in DOMAIN K
            PROVE  /\ K[c].path = s.path
                   /\ \E p, q \in 1 .. n : p <= q /\ K[c].first = B[p].first /\ K[c].end = B[q].end
        <4>1. CASE c = M + 1
          <5>1. PICK p \in 1 .. n - 1 : L[M + 1].first = B[p].first
            BY <2>3, <3>7
          <5>2. p \in 1 .. n /\ p <= n
            BY <2>2
          <5> QED
            BY <2>2, <3>4, <3>6, <4>1, <5>1, <5>2
        <4>2. CASE c \in 1 .. M /\ K[c] = L[c]
          BY <2>2, <2>3, <3>7, <4>2
        <4> QED
          BY <3>7, <4>1, <4>2
      <3>9. ASSUME NEW c \in DOMAIN K, NEW d \in DOMAIN K, c < d
            PROVE  K[c].end <= K[d].first
        <4>1. c \in 1 .. M /\ K[c] = L[c]
          BY <1>4, <3>6, <3>7, <3>9
        <4> QED
          BY <2>4, <3>7, <3>9, <4>1
      <3>10. ASSUME NEW p \in 1 .. n
             PROVE  \E c \in DOMAIN K : K[c].first <= B[p].first /\ B[p].end <= K[c].end
        <4>1. CASE p = n
          <5>1. PICK p0 \in 1 .. n - 1 : L[M + 1].first = B[p0].first
            BY <2>3, <3>7
          <5>2. B[p0].first <= B[n].first
            BY <1>6, <2>2
          <5>3. K[M + 1].first = B[p0].first /\ K[M + 1].end = B[n].end /\ M + 1 \in DOMAIN K
            BY <3>4, <3>6, <3>7, <5>1
          <5>4. B[n].end <= B[n].end
            BY <1>2 DEF b
          <5> QED
            BY <4>1, <5>2, <5>3, <5>4
        <4>2. CASE p \in 1 .. n - 1
          <5>1. PICK c \in DOMAIN L : L[c].first <= B[p].first /\ B[p].end <= L[c].end
            BY <2>5, <4>2
          <5>2. CASE c = M + 1
            <6>1. B[p].end <= B[n].end
              BY <1>6, <2>2, <4>2
            <6> QED
              BY <3>4, <3>6, <3>7, <5>1, <5>2, <6>1
          <5>3. CASE c \in 1 .. M /\ K[c] = L[c]
            BY <3>7, <5>1, <5>3
          <5> QED
            BY <3>7, <5>2, <5>3
        <4> QED
          BY <2>2, <4>1, <4>2
      <3>11. Cuts(K, s, n)
        BY <3>8, <3>9, <3>10 DEF Cuts, B
      <3> QED
        BY <3>2, <3>3, <3>11 DEF PackFits, A, B, b, K
    <2> QED
      BY <2>7, <2>8
  <1> QED
    BY <1>1, <1>7, <1>8

\* So a section's blocks are in its chunks, in their order.
LEMMA PackedAre ==
  ASSUME NEW text, Document(text), NEW s \in Section(text), Tight(text, s)
  PROVE  Packed(text, s) \in Seq(Piece(text, s)) /\ Cuts(Packed(text, s), s, Len(s.blocks))
  <1> DEFINE N == Len(s.blocks)
             none == [first |-> 0, end |-> 0, body |-> 0, out |-> << >>]
             body(f) ==
                [n \in 0 .. N |-> IF n = 0 THEN none ELSE Pack(text, s.path, f[n - 1], s.blocks[n])]
             cur == CHOOSE f : f = body(f)
             P == Packing(text, s)
             step == [p \in P \X (1 .. N) |-> Pack(text, s.path, p[1], s.blocks[p[2]])]
             T == {n \in 0 .. N : n > 0 => PackFits(cur[n], s, n)}
  <1>1. Packed(text, s) = Append(cur[N].out, LastPiece(cur[N], s))
    BY DEF Packed, LastPiece
  <1>2. N \in Nat /\ N > 0 /\ \A n \in 1 .. N : s.blocks[n] \in Block(text)
    BY SectionIs
  <1>3. none \in P
    BY LinesAre DEF Packing
  <1> HIDE DEF N, none, P
  <1>4. step \in [P \X (1 .. N) -> P]
    BY <1>2, PackTyped DEF P
  <1>5. \A acc \in P, n \in 1 .. N : step[<<acc, n>>] = Pack(text, s.path, acc, s.blocks[n])
    BY \A acc \in P, n \in 1 .. N : <<acc, n>> \in P \X (1 .. N)
  <1> HIDE DEF step
  <1>6. PICK f \in [0 .. N -> P] : Runs(f, N, none, step)
    BY <1>2, <1>3, <1>4, LoopExists DEF Loop
  <1>7. f = body(f)
    <2>1. \A n \in 1 .. N : f[n - 1] \in P
      BY <1>2
    <2>2. \A n \in 1 .. N : f[n] = Pack(text, s.path, f[n - 1], s.blocks[n])
      BY <1>5, <1>6, <2>1 DEF Runs
    <2>3. f[0] = none
      BY <1>6 DEF Runs
    <2>4. f = [n \in 0 .. N |-> f[n]]
      OBVIOUS
    <2>5. \A n \in 0 .. N :
            f[n] = IF n = 0 THEN none ELSE Pack(text, s.path, f[n - 1], s.blocks[n])
      BY <1>2, <2>2, <2>3
    <2> QED
      BY <2>4, <2>5
  <1>8. cur = body(cur)
    <2> HIDE DEF body
    <2> QED
      BY <1>7
  <1> HIDE DEF cur
  <1>9. /\ cur[0] = none
        /\ \A n \in 1 .. N : cur[n] = Pack(text, s.path, cur[n - 1], s.blocks[n])
    BY <1>2, <1>8
  <1>10. \A n \in 0 .. N : cur[n] \in P
    <2>1. cur[0] \in P
      BY <1>3, <1>9
    <2>2. \A n \in 1 .. N : cur[n - 1] \in P => cur[n] \in P
      BY <1>2, <1>9, PackTyped DEF P
    <2> QED
      BY <1>2, <2>1, <2>2, LoopKeeps
  <1>11. 0 .. N \subseteq T
    <2>1. 0 \in T
      BY <1>2
    <2>2. ASSUME NEW n \in 0 .. N - 1, n \in T
          PROVE  n + 1 \in T
      <3>1. n + 1 \in 1 .. N /\ n + 1 - 1 = n /\ n \in 0 .. N /\ n + 1 \in 0 .. N /\ n \in Nat
        BY <1>2
      <3>2. cur[n + 1] = Pack(text, s.path, cur[n], s.blocks[n + 1]) /\ cur[n] \in Packing(text, s)
        BY <1>9, <1>10, <3>1 DEF P
      <3>3. n + 1 = 1 => cur[n].body = 0 /\ cur[n].out = << >>
        BY <1>9, <3>1 DEF none
      <3>4. n + 1 > 1 => PackFits(cur[n], s, n + 1 - 1)
        BY <2>2, <3>1
      <3>5. PackFits(cur[n + 1], s, n + 1)
        BY <3>1, <3>2, <3>3, <3>4, PackKeeps DEF N
      <3> QED
        BY <3>1, <3>5
    <2> HIDE DEF T
    <2> QED
      BY <1>2, <2>1, <2>2, UpTo
  <1>12. PackFits(cur[N], s, N)
    BY <1>2, <1>11
  <1>13. Cuts(Packed(text, s), s, N)
    BY <1>1, <1>12 DEF PackFits
  <1>14. Packed(text, s) \in Seq(Piece(text, s))
    <2>1. cur[N] \in Packing(text, s)
      BY <1>2, <1>10 DEF P
    <2>2. LastPiece(cur[N], s) \in Piece(text, s)
      BY <2>1 DEF Packing, Piece, LastPiece
    <2>3. cur[N].out \in Seq(Piece(text, s))
      BY <2>1 DEF Packing
    <2> QED
      BY <1>1, <2>2, <2>3
  <1> QED
    BY <1>13, <1>14 DEF N

-----------------------------------------------------------------------------
(* The chunks of the text.                                                 *)

Slice(text) == [path : Seq(Line), first : 0 .. Len(text) + 1, end : 0 .. Len(text) + 1]

\* The chunk c is of lines of the section s.
SliceOf(c, s) == c.path = s.path /\ Top(s) <= c.first /\ c.first < c.end /\ c.end <= Bottom(s)
Holds(c, b) == c.first <= b.first /\ b.end <= c.end

\* The chunks L follow one another, each is of one of the first n sections, and they have
\* all blocks of these.
Slices(L, S, n) ==
    /\ \A c \in DOMAIN L : \E m \in 1 .. n : SliceOf(L[c], S[m])
    /\ \A c, d \in DOMAIN L : c < d => L[c].end <= L[d].first
    /\ \A m \in 1 .. n : \A p \in DOMAIN S[m].blocks : \E c \in DOMAIN L : Holds(L[c], S[m].blocks[p])

\* The chunks of a section are of its lines and have all its blocks.
LEMMA PackedSlices ==
  ASSUME NEW text, Document(text), NEW s \in Section(text), Tight(text, s)
  PROVE  LET L == Packed(text, s)
         IN  /\ L \in Seq(Slice(text))
             /\ \A c \in DOMAIN L : SliceOf(L[c], s)
             /\ \A c, d \in DOMAIN L : c < d => L[c].end <= L[d].first
             /\ \A p \in DOMAIN s.blocks : \E c \in DOMAIN L : Holds(L[c], s.blocks[p])
  <1> DEFINE L == Packed(text, s)
             N == Len(s.blocks)
  <1>1. L \in Seq(Piece(text, s)) /\ Cuts(L, s, N)
    BY PackedAre
  <1>2. /\ N \in Nat /\ DOMAIN s.blocks = 1 .. N
        /\ \A p \in 1 .. N :
            /\ Top(s) <= s.blocks[p].first /\ s.blocks[p].end <= Bottom(s)
    BY SectionIs
  <1>3. \A x \in Piece(text, s) : x \in Slice(text)
    BY DEF Piece, Slice, Section
  <1> HIDE DEF L, N
  <1>4. L \in Seq(Slice(text))
    <2>1. Piece(text, s) \subseteq Slice(text)
      BY <1>3
    <2> DEFINE A == Piece(text, s)
               C == Slice(text)
    <2> HIDE DEF A, C
    <2>2. L \in Seq(A) /\ A \subseteq C
      BY <1>1, <2>1 DEF A, C
    <2>3. L \in Seq(C)
      BY <2>2
    <2> QED
      BY <2>3 DEF C
  <1>5. ASSUME NEW c \in DOMAIN L
        PROVE  SliceOf(L[c], s)
    <2>1. PICK p, q \in 1 .. N :
            p <= q /\ L[c].first = s.blocks[p].first /\ L[c].end = s.blocks[q].end
      BY <1>1 DEF Cuts
    <2>2. s.blocks[p].first < s.blocks[q].end
      BY <1>2, <2>1, BlocksInOrder
    <2>3. L[c].path = s.path
      BY <1>1 DEF Cuts
    <2> QED
      BY <1>2, <2>1, <2>2, <2>3 DEF SliceOf
  <1>6. \A c, d \in DOMAIN L : c < d => L[c].end <= L[d].first
    BY <1>1 DEF Cuts
  <1>7. \A p \in DOMAIN s.blocks : \E c \in DOMAIN L : Holds(L[c], s.blocks[p])
    BY <1>1, <1>2 DEF Cuts, Holds
  <1> QED
    BY <1>4, <1>5, <1>6, <1>7 DEF L

\* The chunks of one section more.
LEMMA SlicesMore ==
  ASSUME NEW text, Document(text), NEW S \in Seq(Section(text)),
         Grouped(text, S, Len(text) + 1), NEW n \in 0 .. Len(S) - 1,
         NEW L \in Seq(Slice(text)), Slices(L, S, n)
  PROVE  /\ L \o Packed(text, S[n + 1]) \in Seq(Slice(text))
         /\ Slices(L \o Packed(text, S[n + 1]), S, n + 1)
  <1> DEFINE s == S[n + 1]
             P == Packed(text, s)
             K == L \o P
             a == Len(L)
             b == Len(P)
  <1>1. /\ Len(S) \in Nat /\ DOMAIN S = 1 .. Len(S) /\ n \in Nat /\ n + 1 \in 1 .. Len(S)
        /\ \A m \in DOMAIN S : S[m] \in Section(text)
    OBVIOUS
  <1>2. \A m \in DOMAIN S : Tight(text, S[m])
    BY DEF Grouped
  <1>3. s \in Section(text) /\ Tight(text, s)
    BY <1>1, <1>2
  <1>4. /\ P \in Seq(Slice(text))
        /\ \A c \in DOMAIN P : SliceOf(P[c], s)
        /\ \A c, d \in DOMAIN P : c < d => P[c].end <= P[d].first
        /\ \A p \in DOMAIN s.blocks : \E c \in DOMAIN P : Holds(P[c], s.blocks[p])
    BY <1>3, PackedSlices
  <1> HIDE DEF P
  <1>5. K \in Seq(Slice(text))
    BY <1>4
  <1>6. /\ a \in Nat /\ b \in Nat /\ DOMAIN L = 1 .. a /\ DOMAIN P = 1 .. b /\ DOMAIN K = 1 .. a + b
        /\ \A c \in 1 .. a : K[c] = L[c]
        /\ \A c \in 1 .. b : K[a + c] = P[c]
    BY <1>4
  <1> HIDE DEF K, a, b, s
  <1>7. \A c \in DOMAIN K : c \in DOMAIN L \/ \E d \in DOMAIN P : c = a + d
    <2> SUFFICES ASSUME NEW c \in 1 .. a + b, c \notin 1 .. a
                 PROVE  \E d \in 1 .. b : c = a + d
      BY <1>6
    <2>1. c - a \in 1 .. b /\ c = a + (c - a)
      BY <1>6
    <2> QED
      BY <2>1
  <1>8. \A c \in DOMAIN L : c \in DOMAIN K /\ K[c] = L[c]
    BY <1>6
  <1>9. \A d \in DOMAIN P : a + d \in DOMAIN K /\ K[a + d] = P[d]
    BY <1>6
  <1>10. /\ \A c \in DOMAIN L : \E m \in 1 .. n : SliceOf(L[c], S[m])
         /\ \A c, d \in DOMAIN L : c < d => L[c].end <= L[d].first
         /\ \A m \in 1 .. n : \A p \in DOMAIN S[m].blocks :
                \E c \in DOMAIN L : Holds(L[c], S[m].blocks[p])
    BY DEF Slices
  <1>11. /\ \A m \in 1 .. n : m \in 1 .. n + 1 /\ m \in DOMAIN S /\ m < n + 1
         /\ n + 1 \in 1 .. n + 1 /\ n + 1 \in DOMAIN S
         /\ \A m \in 1 .. n + 1 : m \in 1 .. n \/ m = n + 1
    BY <1>1
  <1>12. \A m \in DOMAIN S : Top(S[m]) \in Nat /\ Bottom(S[m]) \in Nat
    BY <1>1, <1>2, SectionIs, LinesAre
  <1>13. ASSUME NEW c \in DOMAIN K
         PROVE  \E m \in 1 .. n + 1 : SliceOf(K[c], S[m])
    <2>1. CASE c \in DOMAIN L
      BY <1>8, <1>10, <1>11, <2>1
    <2>2. CASE \E d \in DOMAIN P : c = a + d
      BY <1>4, <1>9, <1>11, <2>2 DEF s
    <2> QED
      BY <1>7, <2>1, <2>2
  <1>19. \A x \in Slice(text) : x.first \in Nat /\ x.end \in Nat
    <2>1. Len(text) \in Nat
      BY LinesAre
    <2> QED
      BY <2>1 DEF Slice
  <1>20. (\A c \in DOMAIN L : L[c] \in Slice(text)) /\ \A c \in DOMAIN P : P[c] \in Slice(text)
    BY <1>4
  <1>14. \A c \in DOMAIN L : L[c].first \in Nat /\ L[c].end \in Nat
    BY <1>19, <1>20
  <1>15. \A c \in DOMAIN P : P[c].first \in Nat /\ P[c].end \in Nat
    BY <1>19, <1>20
  <1>16. ASSUME NEW c \in DOMAIN K, NEW d \in DOMAIN K, c < d
         PROVE  K[c].end <= K[d].first
    <2>1. CASE c \in DOMAIN L /\ d \in DOMAIN L
      BY <1>8, <1>10, <1>16, <2>1
    <2>2. CASE c \in DOMAIN L /\ \E y \in DOMAIN P : d = a + y
      <3>1. PICK y \in DOMAIN P : d = a + y
        BY <2>2
      <3>2. PICK m \in 1 .. n : SliceOf(L[c], S[m])
        BY <1>10, <2>2
      <3>3. Bottom(S[m]) <= Top(s)
        BY <1>11 DEF Grouped, s
      <3>4. L[c].end <= Bottom(S[m])
        BY <3>2 DEF SliceOf
      <3>5. Top(s) <= P[y].first
        BY <1>4 DEF SliceOf
      <3>6. Bottom(S[m]) \in Nat /\ Top(s) \in Nat
        BY <1>11, <1>12 DEF s
      <3>7. L[c].end <= P[y].first
        BY <1>14, <1>15, <2>2, <3>3, <3>4, <3>5, <3>6
      <3> QED
        BY <1>8, <1>9, <2>2, <3>1, <3>7
    <2>3. CASE (\E x \in DOMAIN P : c = a + x) /\ \E y \in DOMAIN P : d = a + y
      <3>1. PICK x \in DOMAIN P : c = a + x
        BY <2>3
      <3>2. PICK y \in DOMAIN P : d = a + y
        BY <2>3
      <3>3. x < y
        BY <1>6, <1>16, <3>1, <3>2
      <3>4. P[x].end <= P[y].first
        BY <1>4, <3>3
      <3> QED
        BY <1>9, <3>1, <3>2, <3>4
    <2>4. CASE d \in DOMAIN L /\ \E x \in DOMAIN P : c = a + x
      <3>1. FALSE
        BY <1>6, <1>16, <2>4
      <3> QED
        BY <3>1
    <2> QED
      BY <1>7, <2>1, <2>2, <2>3, <2>4
  <1>17. ASSUME NEW m \in 1 .. n + 1, NEW p \in DOMAIN S[m].blocks
         PROVE  \E c \in DOMAIN K : Holds(K[c], S[m].blocks[p])
    <2>1. CASE m \in 1 .. n
      <3>1. PICK c \in DOMAIN L : Holds(L[c], S[m].blocks[p])
        BY <1>10, <2>1
      <3> QED
        BY <1>8, <3>1
    <2>2. CASE m = n + 1
      <3>1. PICK d \in DOMAIN P : Holds(P[d], S[m].blocks[p])
        BY <1>4, <2>2 DEF s
      <3> QED
        BY <1>9, <3>1
    <2> QED
      BY <1>11, <2>1, <2>2
  <1>18. Slices(K, S, n + 1)
    BY <1>13, <1>16, <1>17 DEF Slices
  <1> QED
    BY <1>5, <1>18 DEF K, P, s

\* So the chunks of all sections have all blocks of the text.
LEMMA AllPackedAre ==
  ASSUME NEW text, Document(text)
  PROVE  /\ AllPacked(text) \in Seq(Slice(text))
         /\ Slices(AllPacked(text), Sections(text), Len(Sections(text)))
  <1> DEFINE S == Sections(text)
             N == Len(S)
             none == << >>
             add(L, n) == L \o Packed(text, S[n])
             body(f) == [n \in 0 .. N |-> IF n = 0 THEN none ELSE add(f[n - 1], n)]
             cur == CHOOSE f : f = body(f)
             Q == Seq(Slice(text))
             step == [p \in Q \X (1 .. N) |-> add(p[1], p[2])]
             T == {n \in 0 .. N : Slices(cur[n], S, n)}
  <1>1. AllPacked(text) = cur[N]
    BY DEF AllPacked
  <1>2. S \in Seq(Section(text)) /\ Grouped(text, S, Len(text) + 1)
    BY SectionsAre
  <1> HIDE DEF S
  <1>3. N \in Nat /\ none \in Q /\ DOMAIN S = 1 .. N
    BY <1>2
  <1>4. \A L \in Q, n \in 1 .. N : add(L, n) \in Q
    <2> SUFFICES ASSUME NEW L \in Q, NEW n \in 1 .. N
                 PROVE  add(L, n) \in Q
      OBVIOUS
    <2>1. S[n] \in Section(text)
      BY <1>2, <1>3
    <2>2. Tight(text, S[n])
      BY <1>2, <1>3 DEF Grouped
    <2>3. Packed(text, S[n]) \in Q
      BY <2>1, <2>2, PackedSlices
    <2> QED
      BY <2>3
  <1> HIDE DEF N, none, Q, add
  <1>5. step \in [Q \X (1 .. N) -> Q]
    BY <1>4
  <1>6. \A L \in Q, n \in 1 .. N : step[<<L, n>>] = add(L, n)
    BY \A L \in Q, n \in 1 .. N : <<L, n>> \in Q \X (1 .. N)
  <1> HIDE DEF step
  <1>7. PICK f \in [0 .. N -> Q] : Runs(f, N, none, step)
    BY <1>3, <1>5, LoopExists DEF Loop
  <1>8. f = body(f)
    <2>1. \A n \in 1 .. N : f[n - 1] \in Q
      BY <1>3
    <2>2. \A n \in 1 .. N : f[n] = add(f[n - 1], n)
      BY <1>6, <1>7, <2>1 DEF Runs
    <2>3. f[0] = none
      BY <1>7 DEF Runs
    <2>4. f = [n \in 0 .. N |-> f[n]]
      OBVIOUS
    <2>5. \A n \in 0 .. N : f[n] = IF n = 0 THEN none ELSE add(f[n - 1], n)
      BY <1>3, <2>2, <2>3
    <2> QED
      BY <2>4, <2>5
  <1>9. cur = body(cur)
    <2> HIDE DEF body
    <2> QED
      BY <1>8
  <1> HIDE DEF cur
  <1>10. cur[0] = none /\ \A n \in 1 .. N : cur[n] = add(cur[n - 1], n)
    BY <1>3, <1>9
  <1>11. \A n \in 0 .. N : cur[n] \in Q
    <2>1. cur[0] \in Q
      BY <1>3, <1>10
    <2>2. \A n \in 1 .. N : cur[n - 1] \in Q => cur[n] \in Q
      BY <1>4, <1>10
    <2> QED
      BY <1>3, <2>1, <2>2, LoopKeeps
  <1>12. 0 .. N \subseteq T
    <2>1. 0 \in T
      <3>1. Slices(<< >>, S, 0)
        BY DEF Slices
      <3> QED
        BY <1>3, <1>10, <3>1 DEF none
    <2>2. ASSUME NEW n \in 0 .. N - 1, n \in T
          PROVE  n + 1 \in T
      <3>1. n + 1 \in 1 .. N /\ n + 1 - 1 = n /\ n \in 0 .. N /\ n + 1 \in 0 .. N
        BY <1>3
      <3>2. cur[n + 1] = cur[n] \o Packed(text, S[n + 1]) /\ cur[n] \in Seq(Slice(text))
        <4>1. cur[n + 1] = add(cur[n], n + 1)
          BY <1>10, <3>1
        <4> QED
          BY <1>11, <3>1, <4>1 DEF Q, add
      <3>3. Slices(cur[n + 1], S, n + 1)
        BY <1>2, <2>2, <3>2, SlicesMore DEF N
      <3> QED
        BY <3>1, <3>3
    <2> HIDE DEF T
    <2> QED
      BY <1>3, <2>1, <2>2, UpTo
  <1>13. cur[N] \in Seq(Slice(text)) /\ Slices(cur[N], S, N)
    BY <1>3, <1>11, <1>12 DEF Q
  <1> QED
    BY <1>1, <1>13 DEF S, N

\* What a chunk says of itself, in lines.
LEMMA ChunksAre ==
  ASSUME NEW text, Document(text)
  PROVE  LET L == AllPacked(text)
             chunks == Chunks(text)
         IN  /\ Len(L) \in Nat /\ DOMAIN L = 1 .. Len(L) /\ DOMAIN chunks = 1 .. Len(L)
             /\ Len(chunks) = Len(L) /\ chunks \in Seq(Range(chunks))
             /\ \A n \in DOMAIN L :
                    /\ L[n].first \in 1 .. Len(text) + 1 /\ L[n].end \in 1 .. Len(text) + 1
                    /\ L[n].first < L[n].end
                    /\ L[n].path \in Seq(Line)
                    /\ chunks[n].path = L[n].path
                    /\ chunks[n].start = Offset(text, L[n].first)
                    /\ chunks[n].end = Offset(text, L[n].end)
                    /\ \E m \in DOMAIN Sections(text) : SliceOf(L[n], Sections(text)[m])
                    /\ \A k \in 1 .. Len(text) :
                        In(text, k, chunks[n]) <=> L[n].first <= k /\ k < L[n].end
  <1> DEFINE L == AllPacked(text)
             S == Sections(text)
             chunks == Chunks(text)
             N == Len(text)
  <1>1. L \in Seq(Slice(text)) /\ Slices(L, S, Len(S))
    BY AllPackedAre
  <1>2. S \in Seq(Section(text)) /\ Grouped(text, S, N + 1)
    BY SectionsAre
  <1>3. chunks = [n \in DOMAIN L |-> [path |-> L[n].path, start |-> Offset(text, L[n].first),
                                      end |-> Offset(text, L[n].end)]]
    BY DEF Chunks
  <1>4. Len(text) \in Nat
    BY LinesAre
  <1> HIDE DEF L, S, chunks
  <1>5. Len(L) \in Nat /\ DOMAIN L = 1 .. Len(L) /\ \A n \in DOMAIN L : L[n] \in Slice(text)
    BY <1>1
  <1>6. DOMAIN chunks = 1 .. Len(L)
    BY <1>3, <1>5
  <1>7. chunks \in Seq(Range(chunks)) /\ Len(chunks) = Len(L)
    <2>1. \A n \in 1 .. Len(L) : chunks[n] \in Range(chunks)
      BY <1>6 DEF Range
    <2>2. chunks = [n \in 1 .. Len(L) |-> chunks[n]]
      BY <1>3, <1>5
    <2> DEFINE R == Range(chunks)
    <2> HIDE DEF R
    <2>3. chunks \in [1 .. Len(L) -> R]
      BY <2>1, <2>2 DEF R
    <2>4. chunks \in Seq(R) /\ Len(chunks) = Len(L)
      BY <1>5, <2>3
    <2> QED
      BY <2>4 DEF R
  <1>8. ASSUME NEW n \in DOMAIN L
        PROVE  /\ L[n].first \in 1 .. N + 1 /\ L[n].end \in 1 .. N + 1
               /\ L[n].first < L[n].end
               /\ L[n].path \in Seq(Line)
               /\ chunks[n].path = L[n].path
               /\ chunks[n].start = Offset(text, L[n].first)
               /\ chunks[n].end = Offset(text, L[n].end)
               /\ \E m \in DOMAIN S : SliceOf(L[n], S[m])
               /\ \A k \in 1 .. N : In(text, k, chunks[n]) <=> L[n].first <= k /\ k < L[n].end
    <2>1. PICK m \in 1 .. Len(S) : SliceOf(L[n], S[m])
      BY <1>1 DEF Slices
    <2>2. m \in DOMAIN S /\ S[m] \in Section(text) /\ Tight(text, S[m])
      BY <1>2 DEF Grouped
    <2>3. Top(S[m]) \in 1 .. N
      BY <2>2, SectionIs
    <2>4. L[n].path \in Seq(Line) /\ L[n].first \in 0 .. N + 1 /\ L[n].end \in 0 .. N + 1
      BY <1>5 DEF Slice
    <2>5. Top(S[m]) <= L[n].first /\ L[n].first < L[n].end
      BY <2>1 DEF SliceOf
    <2> DEFINE f == L[n].first
               e == L[n].end
    <2>6. f \in 1 .. N + 1 /\ e \in 1 .. N + 1
      BY <1>4, <2>3, <2>4, <2>5
    <2>7. chunks[n] = [path |-> L[n].path, start |-> Offset(text, f), end |-> Offset(text, e)]
      BY <1>3
    <2>8. chunks[n].path = L[n].path /\ chunks[n].start = Offset(text, f)
          /\ chunks[n].end = Offset(text, e)
      BY <2>7
    <2> HIDE DEF f, e
    <2>9. ASSUME NEW k \in 1 .. N
          PROVE  In(text, k, chunks[n]) <=> f <= k /\ k < e
      <3>1. k \in 1 .. N + 1
        BY <1>4
      <3>2. Offset(text, f) <= Offset(text, k) <=> f <= k
        BY <2>6, <3>1, OffsetGrows
      <3>3. Offset(text, k) < Offset(text, e) <=> k < e
        BY <2>6, <3>1, OffsetGrows
      <3>4. Offset(text, f) \in Nat /\ Offset(text, k) \in Nat
        BY <2>6, <3>1, OffsetIs
      <3>5. Offset(text, k) >= Offset(text, f) <=> Offset(text, f) <= Offset(text, k)
        BY <3>4
      <3>6. In(text, k, chunks[n]) <=>
                Offset(text, k) >= Offset(text, f) /\ Offset(text, k) < Offset(text, e)
        BY <2>8 DEF In
      <3> QED
        BY <3>2, <3>3, <3>5, <3>6
    <2> QED
      BY <2>1, <2>2, <2>4, <2>5, <2>6, <2>8, <2>9 DEF f, e
  <1> QED
    BY <1>5, <1>6, <1>7, <1>8 DEF L, S, chunks

\* markdown_structured_chunks leaves out nothing of any text but blank lines and headings:
\* every other line is in one of its chunks, which begin in the order of the text.
THEOREM EveryTextCovered ==
  ASSUME NEW text, Document(text)
  PROVE  Covered(text)
  <1> DEFINE L == AllPacked(text)
             S == Sections(text)
             chunks == Chunks(text)
             N == Len(text)
  <1>1. /\ Len(L) \in Nat /\ DOMAIN L = 1 .. Len(L) /\ DOMAIN chunks = 1 .. Len(L)
        /\ \A n \in DOMAIN L :
            /\ L[n].first \in 1 .. N + 1 /\ L[n].end \in 1 .. N + 1
            /\ L[n].first < L[n].end
            /\ chunks[n].start = Offset(text, L[n].first)
            /\ \A k \in 1 .. N : In(text, k, chunks[n]) <=> L[n].first <= k /\ k < L[n].end
    BY ChunksAre
  <1>2. /\ \A c, d \in DOMAIN L : c < d => L[c].end <= L[d].first
        /\ \A m \in 1 .. Len(S) : \A p \in DOMAIN S[m].blocks :
            \E c \in DOMAIN L : Holds(L[c], S[m].blocks[p])
    BY AllPackedAre DEF Slices
  <1>3. S \in Seq(Section(text)) /\ Grouped(text, S, N + 1)
    BY SectionsAre
  <1>4. N \in Nat /\ DOMAIN text = 1 .. N
    BY LinesAre
  <1> HIDE DEF L, S, chunks, N
  <1>5. ASSUME NEW n \in DOMAIN chunks, n > 1
        PROVE  chunks[n - 1].start < chunks[n].start
    <2>1. n \in DOMAIN L /\ n - 1 \in DOMAIN L /\ n - 1 < n
      BY <1>1, <1>5
    <2>2. L[n - 1].first < L[n - 1].end /\ L[n - 1].end <= L[n].first
      BY <1>1, <1>2, <2>1
    <2>3. L[n - 1].first < L[n].first
      BY <1>1, <1>4, <2>1, <2>2
    <2>4. Offset(text, L[n - 1].first) < Offset(text, L[n].first)
      BY <1>1, <2>1, <2>3, OffsetGrows DEF N
    <2> QED
      BY <1>1, <2>1, <2>4
  <1>6. ASSUME NEW k \in DOMAIN text, ~Blank(text[k]), ~Heading(text[k])
        PROVE  \E n \in DOMAIN chunks : In(text, k, chunks[n])
    <2>1. k \in 1 .. Len(text) /\ k < N + 1
      BY <1>4 DEF N
    <2>2. PICK m \in DOMAIN S : k \in Span(S[m])
      BY <1>3, <1>6, <2>1 DEF Grouped
    <2>3. m \in 1 .. Len(S) /\ S[m] \in Section(text) /\ Tight(text, S[m])
      BY <1>3 DEF Grouped
    <2>4. PICK p \in DOMAIN S[m].blocks :
            k \in S[m].blocks[p].first .. S[m].blocks[p].end - 1
      BY <1>6, <2>2, <2>3 DEF Tight
    <2>5. PICK c \in DOMAIN L : Holds(L[c], S[m].blocks[p])
      BY <1>2, <2>3
    <2>6. S[m].blocks[p].first \in Nat /\ S[m].blocks[p].end \in Nat
      BY <2>3, SectionIs, BlockIs
    <2>7. L[c].first \in Nat /\ L[c].end \in Nat /\ k \in Nat
      BY <1>1, <1>4
    <2>8. L[c].first <= k /\ k < L[c].end
      BY <2>4, <2>5, <2>6, <2>7 DEF Holds
    <2> QED
      BY <1>1, <1>4, <2>8
  <1> QED
    BY <1>5, <1>6 DEF Covered, chunks

\* The heading path that markdown_structured_chunks gives a chunk of any text is made of the
\* headings that are in force where the chunk begins.
THEOREM EveryPathInForce ==
  ASSUME NEW text, Document(text)
  PROVE  PathsInForce(text)
  <1> DEFINE L == AllPacked(text)
             S == Sections(text)
             chunks == Chunks(text)
             N == Len(text)
             H == Outer(text, S)
             headings == {k \in DOMAIN text :
                Heading(text[k]) /\ \A n \in DOMAIN chunks : ~In(text, k, chunks[n])}
             inForce(chunk) ==
                {k \in headings :
                    /\ Offset(text, k) < chunk.start
                    /\ \A l \in headings :
                        l > k /\ Offset(text, l) < chunk.start => text[l].level > text[k].level}
  <1>1. /\ Len(L) \in Nat /\ DOMAIN L = 1 .. Len(L) /\ DOMAIN chunks = 1 .. Len(L)
        /\ \A n \in DOMAIN L :
            /\ L[n].first \in 1 .. N + 1 /\ L[n].end \in 1 .. N + 1
            /\ L[n].first < L[n].end
            /\ L[n].path \in Seq(Line)
            /\ chunks[n].path = L[n].path
            /\ chunks[n].start = Offset(text, L[n].first)
            /\ \E m \in DOMAIN S : SliceOf(L[n], S[m])
            /\ \A k \in 1 .. N : In(text, k, chunks[n]) <=> L[n].first <= k /\ k < L[n].end
    BY ChunksAre
  <1>2. \A m \in 1 .. Len(S) : \A p \in DOMAIN S[m].blocks :
            \E c \in DOMAIN L : Holds(L[c], S[m].blocks[p])
    BY AllPackedAre DEF Slices
  <1>3. S \in Seq(Section(text)) /\ Grouped(text, S, N + 1)
    BY SectionsAre
  <1>4. N \in Nat /\ DOMAIN text = 1 .. N
    BY LinesAre
  <1>5. H = {k \in 1 .. N : Heading(text[k]) /\ \A m \in DOMAIN S : k \notin Span(S[m])}
    BY DEF Outer
  <1> HIDE DEF L, S, chunks, N, H
  <1>6. \A m \in DOMAIN S : m \in 1 .. Len(S) /\ S[m] \in Section(text) /\ Tight(text, S[m])
    BY <1>3 DEF Grouped
  <1>7. headings = H
    <2>1. ASSUME NEW k \in 1 .. N, Heading(text[k])
          PROVE  (\E n \in DOMAIN chunks : In(text, k, chunks[n])) <=> \E m \in DOMAIN S : k \in Span(S[m])
      <3>1. ASSUME NEW n \in DOMAIN chunks, In(text, k, chunks[n])
            PROVE  \E m \in DOMAIN S : k \in Span(S[m])
        <4>1. n \in DOMAIN L /\ L[n].first <= k /\ k < L[n].end
          BY <1>1, <3>1
        <4>2. PICK m \in DOMAIN S : SliceOf(L[n], S[m])
          BY <1>1, <4>1
        <4>3. Top(S[m]) \in 1 .. N /\ Bottom(S[m]) \in 1 .. N + 1
          BY <1>6, SectionIs DEF N
        <4>4. Top(S[m]) <= L[n].first /\ L[n].end <= Bottom(S[m])
          BY <4>2 DEF SliceOf
        <4>5. L[n].first \in Nat /\ L[n].end \in Nat /\ Top(S[m]) \in Nat /\ Bottom(S[m]) \in Nat
          BY <1>1, <1>4, <4>1, <4>3
        <4>6. k \in Span(S[m])
          BY <4>1, <4>4, <4>5 DEF Span
        <4> QED
          BY <4>6
      <3>2. ASSUME NEW m \in DOMAIN S, k \in Span(S[m])
            PROVE  \E n \in DOMAIN chunks : In(text, k, chunks[n])
        <4>1. ~Blank(text[k])
          BY <2>1 DEF Blank, Heading
        <4>2. PICK p \in DOMAIN S[m].blocks :
                k \in S[m].blocks[p].first .. S[m].blocks[p].end - 1
          BY <1>6, <3>2, <4>1 DEF Tight
        <4>3. PICK c \in DOMAIN L : Holds(L[c], S[m].blocks[p])
          BY <1>2, <1>6
        <4>4. S[m].blocks[p].first \in Nat /\ S[m].blocks[p].end \in Nat
          BY <1>6, SectionIs, BlockIs
        <4>5. L[c].first \in Nat /\ L[c].end \in Nat
          BY <1>1, <1>4
        <4>6. L[c].first <= k /\ k < L[c].end
          BY <4>2, <4>3, <4>4, <4>5 DEF Holds
        <4> QED
          BY <1>1, <4>6
      <3> QED
        BY <3>1, <3>2
    <2> QED
      BY <1>4, <1>5, <2>1
  <1>8. \A k \in H : k \in 1 .. N /\ \A m \in DOMAIN S : k \notin Span(S[m])
    BY <1>5
  <1> HIDE DEF headings
  <1>9. ASSUME NEW n \in DOMAIN chunks
        PROVE  Enumerates(chunks[n].path, text, inForce(chunks[n]))
    <2> DEFINE f == L[n].first
    <2>1. n \in DOMAIN L /\ f \in 1 .. N + 1 /\ f \in Nat
      BY <1>1, <1>4
    <2>2. PICK m \in DOMAIN S : SliceOf(L[n], S[m])
      BY <1>1, <2>1
    <2>3. Top(S[m]) \in 1 .. N /\ Bottom(S[m]) \in 1 .. N + 1
      BY <1>6, SectionIs DEF N
    <2>4. Top(S[m]) <= f /\ f < L[n].end /\ L[n].end <= Bottom(S[m]) /\ L[n].path = S[m].path
      BY <2>2 DEF SliceOf
    <2>5. Enumerates(L[n].path, text, Ruling(text, H, Top(S[m])))
      BY <1>3, <2>4 DEF Grouped, H
    <2>6. Ruling(text, H, f) = Ruling(text, H, Top(S[m]))
      <3>1. L[n].end \in Nat /\ Top(S[m]) \in Nat /\ Bottom(S[m]) \in Nat
        BY <1>1, <1>4, <2>1, <2>3
      <3>2. \A k \in H : k < Top(S[m]) \/ f <= k
        <4> SUFFICES ASSUME NEW k \in H
                     PROVE  k < Top(S[m]) \/ f <= k
          OBVIOUS
        <4>1. k \in Nat /\ k \notin Span(S[m])
          BY <1>4, <1>8
        <4> QED
          BY <2>1, <2>4, <3>1, <4>1 DEF Span
      <3>3. H \in SUBSET Nat
        BY <1>4, <1>8
      <3>4. \A k \in Nat : k < f => (k \in H <=> k \in H)
        OBVIOUS
      <3> DEFINE t == Top(S[m])
      <3>5. f \in Nat /\ t \in Nat /\ t <= f
        BY <2>1, <2>4, <3>1
      <3>6. \A k \in H : k < t \/ f <= k
        BY <3>2
      <3> HIDE DEF f, t
      <3>7. Ruling(text, H, f) = Ruling(text, H, t)
        BY <3>3, <3>4, <3>5, <3>6, RulingSame
      <3> QED
        BY <3>7 DEF t
    <2>7. inForce(chunks[n]) = Ruling(text, H, f)
      <3>1. chunks[n].start = Offset(text, f)
        BY <1>1, <2>1
      <3> HIDE DEF f
      <3>2. \A k \in H : Offset(text, k) < chunks[n].start <=> k < f
        <4> SUFFICES ASSUME NEW k \in H
                     PROVE  Offset(text, k) < chunks[n].start <=> k < f
          OBVIOUS
        <4>1. k \in 1 .. Len(text) + 1
          BY <1>4, <1>8 DEF N
        <4> QED
          BY <2>1, <3>1, <4>1, OffsetGrows DEF N
      <3>3. \A k, l \in H : l > k <=> k < l
        BY <1>4, <1>8
      <3>4. inForce(chunks[n]) =
                {k \in H : /\ k < f
                           /\ \A l \in H : k < l /\ l < f => text[l].level > text[k].level}
        BY <1>7, <3>2, <3>3
      <3> QED
        BY <3>4 DEF Ruling
    <2>8. chunks[n].path = L[n].path
      BY <1>1, <2>1
    <2> HIDE DEF inForce, f
    <2> QED
      BY <2>5, <2>6, <2>7, <2>8
  <1> QED
    BY <1>9 DEF PathsInForce, Enumerates, headings, chunks

-----------------------------------------------------------------------------
(* The invariant of the base.                                              *)

Preparing == {"file", "documents", "chunks", "index"}
Writing == {"delete", "insert", "commit"}

JobRecord ==
    [pc   : {"idle", "preview", "embed", "upsert"} \cup Preparing \cup Writing,
     path : Paths \cup {None}, text : Texts \cup {None}, vecs : Seq(Nat)]
ViewRecord ==
    [pc : {"idle", "search", "answer", "count", "list"}, docs : Nat, chunks : Nat, rows : SUBSET Row]
Database == [schema : 0 .. 4, docs : Documents, rows : SUBSET Row]

\* A run has the first vectors of its text, and all of them when it writes.
JobFits(r) ==
    /\ r.pc # "idle" => r.path \in Paths /\ r.text \in Texts /\ Parts[r.text] # << >>
    /\ \A n \in DOMAIN r.vecs : r.vecs[n] = n
    /\ r.pc \in {"idle", "preview"} \cup Preparing => r.vecs = << >>
    /\ r.pc = "embed" => Len(r.vecs) < Len(Parts[r.text])
    /\ r.pc \in {"upsert"} \cup Writing => Len(r.vecs) = Len(Parts[r.text])

RowsOf(rows, p) == {row \in rows : row.path = p}
DocRows(p, text, m) ==
    {[path |-> p, index |-> n, text |-> text, vec |-> n, model |-> m] : n \in DOMAIN Parts[text]}

\* The rows of p are those of the text, or there are none.
Whole(rows, p, text) ==
    IF text = None THEN RowsOf(rows, p) = {}
    ELSE \E m \in Models : RowsOf(rows, p) = DocRows(p, text, m)

\* A row is of a chunk that there is.
Indexed(rows) == IsFiniteSet(rows) /\ \A row \in rows : row.index \in DOMAIN Parts[row.text]

DbInv ==
    /\ db \in Database /\ Indexed(db.rows)
    /\ \A p \in Paths :
        /\ Whole(db.rows, p, db.docs[p])
        /\ db.docs[p] # None => Parts[db.docs[p]] # << >>

\* The transaction t of the run r differs from what is committed, d, by the document of r,
\* and is whole there when it is to be committed.
TxFits(t, d, r) ==
    /\ r.pc \in Writing /\ t.docs = [d.docs EXCEPT ![r.path] = r.text]
    /\ \A p \in Paths \ {r.path} : RowsOf(t.rows, p) = RowsOf(d.rows, p)
    /\ r.pc = "insert" => RowsOf(t.rows, r.path) = {}
    /\ r.pc = "commit" => \E m \in Models : RowsOf(t.rows, r.path) = DocRows(r.path, r.text, m)

TxInv ==
    /\ tx # None => tx \in Transaction /\ Indexed(tx.rows) /\ TxFits(tx, db, job[tx.by])
    /\ \A j \in Indexers : job[j].pc \in Writing => tx # None /\ tx.by = j

JobInv == job \in [Indexers -> JobRecord] /\ \A j \in Indexers : JobFits(job[j])

\* What there is a row for.
Documented(docs) == {p \in Paths : docs[p] # None}

\* What a reader has counted is still there, and what it shows fits together.
ViewFits(r, v) ==
    /\ v.pc = "count" => v.docs <= Cardinality(Documented(db.docs))
    /\ v.pc = "list" => v.docs <= v.chunks
    /\ IsFiniteSet(v.rows) /\ Cardinality(v.rows) <= TopK
    /\ \A a, b \in v.rows :
        /\ a.path = b.path => a.text = b.text
        /\ Dim[a.model] = Dim[Model[r]]

ViewInv == view \in [Readers -> ViewRecord] /\ \A r \in Readers : ViewFits(r, view[r])

IInv == preview \in Paths \cup {None} /\ DbInv /\ TxInv /\ JobInv /\ ViewInv

\* A run has made, or found, what it is past: so none that writes has to wait to.
SchemaFits(pc, schema) ==
    /\ pc = "documents" => schema >= 1
    /\ pc = "chunks" => schema >= 2
    /\ pc = "index" => schema >= 3
    /\ pc \in {"embed", "upsert"} \cup Writing => schema = 4

SchemaInv == \A j \in Indexers : SchemaFits(job[j].pc, db.schema)

-----------------------------------------------------------------------------
(* The chunks and their rows.                                              *)

\* The chunks of a text are a list, and it is empty if it has no length.
LEMMA PartsAre ==
  ASSUME NEW text \in Texts
  PROVE  /\ Len(Parts[text]) \in Nat /\ DOMAIN Parts[text] = 1 .. Len(Parts[text])
         /\ Parts[text] # << >> => Len(Parts[text]) > 0
  <1>1. Document(text) /\ Parts[text] = Chunks(text)
    BY KnowledgeAssumption DEF Parts
  <1> DEFINE chunks == Chunks(text)
             R == Range(chunks)
  <1>2. chunks \in Seq(R)
    BY <1>1, ChunksAre
  <1> HIDE DEF chunks, R
  <1>3. /\ Len(chunks) \in Nat /\ DOMAIN chunks = 1 .. Len(chunks)
        /\ chunks # << >> => Len(chunks) > 0
    BY <1>2
  <1> QED
    BY <1>1, <1>3 DEF chunks

\* The documents that are whole have rows, so there are no fewer rows than documents.
LEMMA RowsPerDocument ==
  ASSUME DbInv
  PROVE  /\ IsFiniteSet(Documented(db.docs))
         /\ Cardinality(Documented(db.docs)) \in Nat /\ Cardinality(db.rows) \in Nat
         /\ Cardinality(Documented(db.docs)) <= Cardinality(db.rows)
  <1> DEFINE D == Documented(db.docs)
             R == db.rows
             f == [p \in D |-> CHOOSE row \in R : row.path = p]
  <1>1. \A p \in D : \E row \in R : row.path = p
    <2> SUFFICES ASSUME NEW p \in D PROVE \E row \in R : row.path = p
      OBVIOUS
    <2> DEFINE text == db.docs[p]
    <2>1. p \in Paths /\ text \in Texts /\ text # None /\ Parts[text] # << >>
      BY DEF DbInv, Documented, Database, Documents
    <2>2. 1 \in DOMAIN Parts[text]
      BY <2>1, PartsAre
    <2>3. PICK m \in Models : RowsOf(R, p) = DocRows(p, text, m)
      BY <2>1 DEF DbInv, Whole
    <2>4. [path |-> p, index |-> 1, text |-> text, vec |-> 1, model |-> m] \in DocRows(p, text, m)
      BY <2>2 DEF DocRows
    <2> HIDE DEF text
    <2> QED
      BY <2>3, <2>4 DEF RowsOf
  <1>2. IsFiniteSet(R)
    BY DEF DbInv, Indexed
  <1> HIDE DEF D, R
  <1>3. \A p \in D : f[p] \in R /\ f[p].path = p
    BY <1>1
  <1>4. f \in Injection(D, R)
    <2>1. f \in [D -> R]
      BY <1>3
    <2>2. \A a, b \in D : f[a] = f[b] => a = b
      BY <1>3
    <2> HIDE DEF f
    <2> QED
      BY <2>1, <2>2 DEF Injection, IsInjective
  <1>5. IsFiniteSet(D) /\ Cardinality(D) <= Cardinality(R)
    BY <1>2, <1>4, FS_Injection
  <1>6. Cardinality(D) \in Nat /\ Cardinality(R) \in Nat
    BY <1>2, <1>5, FS_CardinalityType
  <1> QED
    BY <1>5, <1>6 DEF D, R

\* Whole documents have the rows of one text each.
LEMMA OneText ==
  ASSUME DbInv, NEW a \in db.rows, NEW b \in db.rows, a.path = b.path
  PROVE  a.text = b.text
  <1>1. a \in RowsOf(db.rows, a.path) /\ b \in RowsOf(db.rows, a.path) /\ a.path \in Paths
    BY DEF RowsOf, DbInv, Database, Row
  <1>2. Whole(db.rows, a.path, db.docs[a.path])
    BY <1>1 DEF DbInv
  <1>3. PICK m \in Models : RowsOf(db.rows, a.path) = DocRows(a.path, db.docs[a.path], m)
    BY <1>1, <1>2 DEF Whole
  <1>4. \A row \in RowsOf(db.rows, a.path) : row.text = db.docs[a.path]
    BY <1>3 DEF DocRows
  <1> QED
    BY <1>1, <1>4

\* The rows a run inserts are those of its text.
LEMMA NewRows ==
  ASSUME NEW r \in JobRecord, JobFits(r), r.pc = "insert", NEW m \in Models
  PROVE  LET rows == {[path |-> r.path, index |-> n, text |-> r.text, vec |-> r.vecs[n],
                       model |-> m] : n \in DOMAIN r.vecs}
         IN  rows = DocRows(r.path, r.text, m) /\ rows \subseteq Row /\ Indexed(rows)
  <1> DEFINE rows == {[path |-> r.path, index |-> n, text |-> r.text, vec |-> r.vecs[n],
                       model |-> m] : n \in DOMAIN r.vecs}
             D == DOMAIN r.vecs
             f == [n \in D |-> [path |-> r.path, index |-> n, text |-> r.text, vec |-> r.vecs[n],
                                model |-> m]]
  <1>1. /\ r.path \in Paths /\ r.text \in Texts /\ D = DOMAIN Parts[r.text] /\ D \subseteq Nat
        /\ \A n \in D : r.vecs[n] = n
    <2>1. /\ r.path \in Paths /\ r.text \in Texts /\ Len(r.vecs) = Len(Parts[r.text])
          /\ \A n \in D : r.vecs[n] = n
      BY DEF JobFits, Writing
    <2>2. D = 1 .. Len(r.vecs) /\ Len(r.vecs) \in Nat
      BY DEF JobRecord
    <2>3. DOMAIN Parts[r.text] = 1 .. Len(Parts[r.text])
      BY <2>1, PartsAre
    <2> QED
      BY <2>1, <2>2, <2>3
  <1>2. IsFiniteSet(D)
    <2>1. D = 1 .. Len(r.vecs) /\ Len(r.vecs) \in Nat
      BY DEF JobRecord
    <2> QED
      BY <2>1, FS_Interval
  <1> HIDE DEF D
  <1>3. rows = {[path |-> r.path, index |-> n, text |-> r.text, vec |-> r.vecs[n],
                 model |-> m] : n \in D}
    BY DEF D
  <1>4. f \in Surjection(D, rows)
    <2>1. f \in [D -> rows]
      BY <1>3
    <2>2. \A row \in rows : \E n \in D : f[n] = row
      BY <1>3
    <2> HIDE DEF f, rows
    <2> QED
      BY <2>1, <2>2 DEF Surjection
  <1>5. IsFiniteSet(rows)
    BY <1>2, <1>4, FS_Surjection
  <1>6. rows = DocRows(r.path, r.text, m)
    BY <1>1, <1>3 DEF DocRows
  <1>7. \A row \in rows : row \in Row /\ row.index \in DOMAIN Parts[row.text]
    BY <1>1, <1>3 DEF Row
  <1> HIDE DEF rows
  <1>8. rows \subseteq Row /\ Indexed(rows)
    BY <1>5, <1>7 DEF Indexed
  <1> QED
    BY <1>6, <1>8 DEF rows

-----------------------------------------------------------------------------
(* The index runs.                                                         *)

\* A run that does nothing, and a reader.
LEMMA NothingIs ==
  /\ NoJob \in JobRecord /\ NoJob.pc = "idle" /\ JobFits(NoJob)
  /\ NoView \in ViewRecord /\ NoView.pc = "idle" /\ NoView.docs = 0 /\ NoView.chunks = 0
  /\ NoView.rows = {}
  <1>1. NoJob \in JobRecord
    BY DEF NoJob, JobRecord
  <1>2. NoJob.pc = "idle" /\ NoJob.vecs = << >>
    BY DEF NoJob
  <1>3. JobFits(NoJob)
    BY <1>2 DEF JobFits, Writing
  <1>4. NoView \in ViewRecord
    BY DEF NoView, ViewRecord
  <1> QED
    BY <1>1, <1>2, <1>3, <1>4 DEF NoView

\* The statements of ensure_schema, and what comes after each.
LEMMA SchemaIs ==
  /\ Len(Schema) = 4 /\ DOMAIN Schema = 1 .. 4
  /\ Schema[1] = "file" /\ Schema[2] = "documents" /\ Schema[3] = "chunks" /\ Schema[4] = "index"
  BY DEF Schema

LEMMA AfterSchema ==
  ASSUME NEW n \in DOMAIN Schema
  PROVE  LET next == IF n = Len(Schema) THEN "embed" ELSE Schema[n + 1]
         IN  /\ n \in 1 .. 4 /\ Schema[n] \in Preparing /\ next \in {"embed"} \cup Preparing
             /\ \A s \in 0 .. 4 : s >= n => SchemaFits(next, s)
  <1>1. n \in 1 .. 4
    BY SchemaIs
  <1>2. CASE n = 1
    BY <1>2, SchemaIs DEF Preparing, SchemaFits, Writing
  <1>3. CASE n = 2
    BY <1>3, SchemaIs DEF Preparing, SchemaFits, Writing
  <1>4. CASE n = 3
    BY <1>4, SchemaIs DEF Preparing, SchemaFits, Writing
  <1>5. CASE n = 4
    BY <1>5, SchemaIs DEF Preparing, SchemaFits, Writing
  <1> QED
    BY <1>1, <1>2, <1>3, <1>4, <1>5

\* One run moves.
LEMMA JobMoves ==
  ASSUME JobInv, NEW j \in Indexers, NEW r \in JobRecord, JobFits(r),
         job' = [job EXCEPT ![j] = r]
  PROVE  JobInv' /\ job'[j] = r /\ \A x \in Indexers \ {j} : job'[x] = job[x]
  BY DEF JobInv

\* A step that leaves the documents and the rows that are committed.
LEMMA DbStays ==
  ASSUME DbInv, ViewInv, db' \in Database, db'.docs = db.docs, db'.rows = db.rows, view' = view
  PROVE  DbInv' /\ ViewInv'
  <1>1. DbInv'
    BY DEF DbInv
  <1>2. \A r \in Readers : ViewFits(r, view[r])'
    BY DEF ViewInv, ViewFits
  <1> QED
    BY <1>1, <1>2 DEF ViewInv

\* A run outside its transaction leaves the one that is open.
LEMMA TxStays ==
  ASSUME TxInv, tx' = tx, db'.docs = db.docs, db'.rows = db.rows, NEW j \in Indexers,
         \A x \in Indexers \ {j} : job'[x] = job[x], job[j].pc \notin Writing,
         job'[j].pc \notin Writing
  PROVE  TxInv'
  <1>1. ASSUME tx # None
        PROVE  tx' \in Transaction /\ Indexed(tx'.rows) /\ TxFits(tx', db', job'[tx'.by])
    <2>1. tx \in Transaction /\ Indexed(tx.rows) /\ TxFits(tx, db, job[tx.by])
      BY <1>1 DEF TxInv
    <2>2. tx.by \in Indexers \ {j}
      BY <2>1 DEF Transaction, TxFits
    <2>3. TxFits(tx, db', job[tx.by])
      BY <2>1 DEF TxFits
    <2> QED
      BY <2>1, <2>2, <2>3
  <1>2. \A x \in Indexers : job'[x].pc \in Writing => tx' # None /\ tx'.by = x
    BY DEF TxInv
  <1> QED
    BY <1>1, <1>2 DEF TxInv

\* So what such a run does is its own affair.
LEMMA RunMoves ==
  ASSUME IInv, NEW j \in Indexers, NEW r \in JobRecord, JobFits(r), job' = [job EXCEPT ![j] = r],
         job[j].pc \notin Writing, r.pc \notin Writing,
         preview' \in Paths \cup {None}, db' \in Database, db'.docs = db.docs, db'.rows = db.rows,
         tx' = tx, view' = view
  PROVE  IInv'
  <1>1. JobInv' /\ job'[j] = r /\ \A x \in Indexers \ {j} : job'[x] = job[x]
    BY JobMoves DEF IInv
  <1>2. TxInv'
    BY <1>1, TxStays DEF IInv
  <1>3. DbInv' /\ ViewInv'
    BY DbStays DEF IInv
  <1> QED
    BY <1>1, <1>2, <1>3 DEF IInv

\* A run in its transaction goes on with it, as t.
LEMMA TxMoves ==
  ASSUME IInv, NEW j \in Indexers, NEW r \in JobRecord, JobFits(r), job' = [job EXCEPT ![j] = r],
         \A x \in Indexers \ {j} : job[x].pc \notin Writing,
         NEW t \in Transaction, tx' = t, t.by = j, Indexed(t.rows), TxFits(t, db, r),
         UNCHANGED <<preview, db, view>>
  PROVE  IInv'
  <1>1. JobInv' /\ job'[j] = r /\ \A x \in Indexers \ {j} : job'[x] = job[x]
    BY JobMoves DEF IInv
  <1>2. t # None
    BY TransactionAssumption
  <1>3. \A x \in Indexers : job'[x].pc \in Writing => tx' # None /\ tx'.by = x
    BY <1>1, <1>2
  <1>4. TxInv'
    BY <1>1, <1>3 DEF TxInv
  <1>5. DbInv' /\ ViewInv'
    BY DbStays DEF IInv, DbInv
  <1> QED
    BY <1>1, <1>4, <1>5 DEF IInv

\* Up to its transaction a run collects the vectors.
LEMMA BeforeWriting ==
  ASSUME IInv, NEW j \in Indexers,
         \/ \E p \in Paths, text \in Texts : StartIndex(j, p, text)
         \/ WritePreview(j) \/ Embed(j) \/ \E n \in DOMAIN Schema : EnsureSchema(j, n)
  PROVE  IInv'
  <1>1. /\ job[j] \in JobRecord /\ JobFits(job[j]) /\ job \in [Indexers -> JobRecord]
        /\ db \in Database /\ preview \in Paths \cup {None}
    BY DEF IInv, JobInv, DbInv
  <1>2. ASSUME NEW p \in Paths, NEW text \in Texts, StartIndex(j, p, text)
        PROVE  IInv'
    <2> DEFINE r == [pc |-> "preview", path |-> p, text |-> text, vecs |-> << >>]
    <2>1. /\ Parts[text] # << >> /\ job' = [job EXCEPT ![j] = r] /\ job[j].pc = "idle"
          /\ UNCHANGED <<preview, db, tx, view>>
      BY <1>2 DEF StartIndex, At
    <2>2. r \in JobRecord /\ r.pc = "preview"
      BY DEF JobRecord
    <2>3. JobFits(r)
      BY <2>1 DEF JobFits, Preparing, Writing
    <2> HIDE DEF r
    <2> QED
      BY <1>1, <2>1, <2>2, <2>3, RunMoves DEF Writing
  <1>3. CASE WritePreview(j)
    <2> DEFINE r == [job[j] EXCEPT !.pc = "file"]
    <2>1. /\ preview' = job[j].path /\ job' = [job EXCEPT ![j] = r] /\ job[j].pc = "preview"
          /\ UNCHANGED <<db, tx, view>>
      BY <1>1, <1>3, SchemaIs DEF WritePreview, At, Go
    <2>2. r \in JobRecord /\ r.pc = "file"
      BY <1>1 DEF JobRecord, Preparing
    <2>3. JobFits(r) /\ job[j].path \in Paths
      BY <1>1, <2>1 DEF JobFits, JobRecord, Preparing, Writing
    <2> HIDE DEF r
    <2> QED
      BY <1>1, <2>1, <2>2, <2>3, RunMoves DEF Writing
  <1>4. ASSUME NEW n \in DOMAIN Schema, EnsureSchema(j, n)
        PROVE  IInv'
    <2> DEFINE pc == IF n = Len(Schema) THEN "embed" ELSE Schema[n + 1]
               schema == IF db.schema < n THEN n ELSE db.schema
               r == [job[j] EXCEPT !.pc = pc]
    <2>1. /\ db' = [db EXCEPT !.schema = schema] /\ job' = [job EXCEPT ![j] = r]
          /\ job[j].pc = Schema[n] /\ UNCHANGED <<preview, tx, view>>
      BY <1>1, <1>4 DEF EnsureSchema, At, Go
    <2>2. job[j].pc \in Preparing /\ pc \in {"embed"} \cup Preparing /\ n \in 1 .. 4
      BY <2>1, AfterSchema
    <2>3. schema \in 0 .. 4
      BY <1>1, <2>2 DEF Database
    <2> HIDE DEF pc, schema
    <2>4. /\ r \in JobRecord /\ r.pc = pc /\ r.vecs = job[j].vecs
          /\ r.text = job[j].text /\ r.path = job[j].path
      BY <1>1, <2>2 DEF JobRecord
    <2>5. /\ job[j].vecs = << >> /\ job[j].text \in Texts /\ job[j].path \in Paths
          /\ Parts[job[j].text] # << >>
      BY <1>1, <2>2 DEF JobFits, Preparing
    <2>6. Len(Parts[job[j].text]) > 0
      BY <2>5, PartsAre
    <2> HIDE DEF r
    <2>7. JobFits(r)
      BY <2>2, <2>4, <2>5, <2>6 DEF JobFits, Preparing, Writing
    <2>8. db' \in Database /\ db'.docs = db.docs /\ db'.rows = db.rows
      BY <1>1, <2>1, <2>3 DEF Database
    <2>9. job[j].pc \notin Writing /\ r.pc \notin Writing
      BY <2>2, <2>4 DEF Preparing, Writing
    <2> QED
      BY <1>1, <2>1, <2>4, <2>7, <2>8, <2>9, RunMoves
  <1>6. CASE Embed(j)
    <2> DEFINE n == Len(job[j].vecs) + 1
               size == Len(Parts[job[j].text])
               pc == IF n = size THEN "upsert" ELSE "embed"
               vecs == Append(job[j].vecs, n)
               r == [job[j] EXCEPT !.vecs = vecs, !.pc = pc]
    <2>1. job' = [job EXCEPT ![j] = r] /\ job[j].pc = "embed" /\ UNCHANGED <<preview, db, tx, view>>
      BY <1>1, <1>6 DEF Embed, At
    <2>2. /\ job[j].vecs \in Seq(Nat) /\ \A k \in DOMAIN job[j].vecs : job[j].vecs[k] = k
          /\ Len(job[j].vecs) < size /\ job[j].path \in Paths /\ job[j].text \in Texts
          /\ Parts[job[j].text] # << >>
      BY <1>1, <2>1 DEF JobFits, JobRecord
    <2>3. size \in Nat
      BY <2>2, PartsAre
    <2>4. n \in Nat /\ n = Len(job[j].vecs) + 1 /\ n <= size
      BY <2>2, <2>3
    <2>5. /\ vecs \in Seq(Nat) /\ Len(vecs) = n /\ \A k \in DOMAIN vecs : vecs[k] = k
      <3> HIDE DEF n
      <3> QED
        BY <2>2, <2>4
    <2> HIDE DEF n, size, vecs
    <2>6. pc \in {"upsert", "embed"} /\ (pc = "upsert" <=> n = size)
      OBVIOUS
    <2> HIDE DEF pc
    <2>7. /\ r \in JobRecord /\ r.pc = pc /\ r.vecs = vecs
          /\ r.text = job[j].text /\ r.path = job[j].path
      BY <1>1, <2>5, <2>6 DEF JobRecord
    <2> HIDE DEF r
    <2>8. JobFits(r)
      BY <2>2, <2>3, <2>4, <2>5, <2>6, <2>7 DEF JobFits, Preparing, Writing, size
    <2> QED
      BY <1>1, <2>1, <2>6, <2>7, <2>8, RunMoves DEF Writing
  <1> QED
    BY <1>2, <1>3, <1>4, <1>6

\* One run at most is in its transaction, and it is the owner's.
LEMMA OneWriter ==
  ASSUME IInv, NEW j \in Indexers, tx = None \/ job[j].pc \in Writing
  PROVE  \A x \in Indexers \ {j} : job[x].pc \notin Writing
  BY DEF IInv, TxInv

LEMMA Owner ==
  ASSUME IInv, NEW j \in Indexers, job[j].pc \in Writing
  PROVE  /\ tx # None /\ tx.by = j /\ tx \in Transaction /\ Indexed(tx.rows)
         /\ TxFits(tx, db, job[j])
  BY DEF IInv, TxInv

LEMMA Upsert ==
  ASSUME IInv, NEW j \in Indexers, UpsertDocument(j)
  PROVE  IInv'
  <1> DEFINE r == [job[j] EXCEPT !.pc = "delete"]
             docs == [db.docs EXCEPT ![job[j].path] = job[j].text]
             t == [by |-> j, docs |-> docs, rows |-> db.rows]
  <1>1. /\ job[j] \in JobRecord /\ JobFits(job[j]) /\ job \in [Indexers -> JobRecord]
        /\ db \in Database /\ Indexed(db.rows)
    BY DEF IInv, JobInv, DbInv
  <1>2. /\ job[j].pc = "upsert" /\ tx = None /\ tx' = t /\ job' = [job EXCEPT ![j] = r]
        /\ UNCHANGED <<preview, db, view>>
    BY <1>1 DEF UpsertDocument, At, Go
  <1>3. r \in JobRecord /\ r.pc = "delete" /\ r.path = job[j].path /\ r.text = job[j].text
    BY <1>1 DEF JobRecord, Writing
  <1>4. JobFits(r) /\ job[j].path \in Paths /\ job[j].text \in Texts
    BY <1>1, <1>2 DEF JobFits, JobRecord, Preparing, Writing
  <1>5. docs \in Documents
    BY <1>1, <1>4 DEF Database, Documents
  <1> HIDE DEF r, docs
  <1>6. t \in Transaction /\ t.by = j /\ t.rows = db.rows /\ t.docs = docs
    BY <1>1, <1>5 DEF Transaction, Database
  <1> HIDE DEF t
  <1>7. TxFits(t, db, r)
    BY <1>3, <1>6 DEF TxFits, Writing, docs
  <1>8. \A x \in Indexers \ {j} : job[x].pc \notin Writing
    BY <1>2, OneWriter
  <1> QED
    BY <1>1, <1>2, <1>3, <1>4, <1>6, <1>7, <1>8, TxMoves

LEMMA Delete ==
  ASSUME IInv, NEW j \in Indexers, DeleteChunks(j)
  PROVE  IInv'
  <1> DEFINE r == [job[j] EXCEPT !.pc = "insert"]
             rows == {row \in tx.rows : row.path # job[j].path}
             t == [tx EXCEPT !.rows = rows]
  <1>1. /\ job[j] \in JobRecord /\ JobFits(job[j]) /\ job \in [Indexers -> JobRecord]
    BY DEF IInv, JobInv
  <1>2. /\ job[j].pc = "delete" /\ tx' = t /\ job' = [job EXCEPT ![j] = r]
        /\ UNCHANGED <<preview, db, view>>
    BY <1>1 DEF DeleteChunks, At, Go
  <1>3. /\ r \in JobRecord /\ r.pc = "insert" /\ r.path = job[j].path /\ r.text = job[j].text
    BY <1>1 DEF JobRecord, Writing
  <1>4. JobFits(r)
    BY <1>1, <1>2 DEF JobFits, JobRecord, Preparing, Writing
  <1>5. job[j].pc \in Writing
    BY <1>2 DEF Writing
  <1>6. tx.by = j /\ tx \in Transaction /\ Indexed(tx.rows) /\ TxFits(tx, db, job[j])
    BY <1>5, Owner
  <1>7. rows \subseteq tx.rows /\ \A p \in Paths \ {r.path} : RowsOf(rows, p) = RowsOf(tx.rows, p)
    BY <1>3 DEF RowsOf
  <1>8. RowsOf(rows, r.path) = {}
    BY <1>3 DEF RowsOf
  <1> HIDE DEF r, rows
  <1>9. Indexed(rows)
    BY <1>6, <1>7, FS_Subset DEF Indexed
  <1>10. t \in Transaction /\ t.by = j /\ t.rows = rows /\ t.docs = tx.docs
    BY <1>6, <1>7 DEF Transaction
  <1> HIDE DEF t
  <1>11. TxFits(t, db, r)
    BY <1>3, <1>6, <1>7, <1>8, <1>10 DEF TxFits, Writing
  <1>12. \A x \in Indexers \ {j} : job[x].pc \notin Writing
    BY <1>5, OneWriter
  <1> QED
    BY <1>1, <1>2, <1>3, <1>4, <1>9, <1>10, <1>11, <1>12, TxMoves

LEMMA Insert ==
  ASSUME IInv, NEW j \in Indexers, InsertChunks(j)
  PROVE  IInv'
  <1> DEFINE r == [job[j] EXCEPT !.pc = "commit"]
             new == {[path |-> job[j].path, index |-> n, text |-> job[j].text,
                      vec |-> job[j].vecs[n], model |-> Model[j]] : n \in DOMAIN job[j].vecs}
             rows == tx.rows \cup new
             t == [tx EXCEPT !.rows = rows]
  <1>1. /\ job[j] \in JobRecord /\ JobFits(job[j]) /\ job \in [Indexers -> JobRecord]
        /\ Model[j] \in Models
    BY KnowledgeAssumption DEF IInv, JobInv
  <1>2. /\ job[j].pc = "insert" /\ tx' = t /\ job' = [job EXCEPT ![j] = r]
        /\ UNCHANGED <<preview, db, view>>
    BY <1>1 DEF InsertChunks, At, Go
  <1>3. /\ r \in JobRecord /\ r.pc = "commit" /\ r.path = job[j].path /\ r.text = job[j].text
    BY <1>1 DEF JobRecord, Writing
  <1>4. JobFits(r)
    BY <1>1, <1>2 DEF JobFits, JobRecord, Preparing, Writing
  <1>5. job[j].pc \in Writing
    BY <1>2 DEF Writing
  <1>6. tx.by = j /\ tx \in Transaction /\ Indexed(tx.rows) /\ TxFits(tx, db, job[j])
    BY <1>5, Owner
  <1>7. new = DocRows(r.path, r.text, Model[j]) /\ new \subseteq Row /\ Indexed(new)
    BY <1>1, <1>2, <1>3, NewRows
  <1> HIDE DEF r, new
  <1>8. \A row \in new : row.path = r.path
    BY <1>7 DEF DocRows
  <1>9. \A p \in Paths \ {r.path} : RowsOf(rows, p) = RowsOf(tx.rows, p)
    BY <1>8 DEF RowsOf
  <1>10. RowsOf(rows, r.path) = new
    <2>1. RowsOf(tx.rows, r.path) = {}
      BY <1>2, <1>3, <1>6 DEF TxFits
    <2> QED
      BY <1>8, <2>1 DEF RowsOf
  <1>11. Indexed(rows)
    BY <1>6, <1>7, FS_Union DEF Indexed
  <1>12. rows \subseteq Row
    BY <1>6, <1>7 DEF Transaction
  <1> HIDE DEF rows
  <1>13. t \in Transaction /\ t.by = j /\ t.rows = rows /\ t.docs = tx.docs
    BY <1>6, <1>12 DEF Transaction
  <1> HIDE DEF t
  <1>14. TxFits(t, db, r)
    <2>1. /\ tx.docs = [db.docs EXCEPT ![r.path] = r.text]
          /\ \A p \in Paths \ {r.path} : RowsOf(tx.rows, p) = RowsOf(db.rows, p)
      BY <1>3, <1>6 DEF TxFits
    <2>2. RowsOf(t.rows, r.path) = DocRows(r.path, r.text, Model[j])
      BY <1>7, <1>10, <1>13
    <2> QED
      BY <1>1, <1>3, <1>9, <1>13, <2>1, <2>2 DEF TxFits, Writing
  <1>15. \A x \in Indexers \ {j} : job[x].pc \notin Writing
    BY <1>5, OneWriter
  <1> QED
    BY <1>1, <1>2, <1>3, <1>4, <1>11, <1>13, <1>14, <1>15, TxMoves

\* What a run commits is whole.
LEMMA CommitKeeps ==
  ASSUME IInv, NEW j \in Indexers, Commit(j)
  PROVE  IInv'
  <1> DEFINE path == job[j].path
             text == job[j].text
             docs == tx.docs
             rows == tx.rows
  <1>1. /\ job[j] \in JobRecord /\ JobFits(job[j]) /\ DbInv /\ ViewInv
        /\ db \in Database /\ preview \in Paths \cup {None}
    BY DEF IInv, JobInv, DbInv
  <1>2. /\ job[j].pc = "commit" /\ tx' = None /\ job' = [job EXCEPT ![j] = NoJob]
        /\ db' = [db EXCEPT !.docs = docs, !.rows = rows] /\ preview' = preview /\ view' = view
    BY DEF Commit, At
  <1>3. job[j].pc \in Writing
    BY <1>2 DEF Writing
  <1>4. tx \in Transaction /\ Indexed(rows) /\ TxFits(tx, db, job[j])
    BY <1>3, Owner
  <1>5. path \in Paths /\ text \in Texts /\ Parts[text] # << >> /\ text # None
    BY <1>1, <1>2, KnowledgeAssumption DEF JobFits
  <1>6. docs \in Documents /\ rows \in SUBSET Row
    BY <1>4 DEF Transaction
  <1>7. /\ docs = [db.docs EXCEPT ![path] = text] /\ db.docs \in Documents
        /\ \A p \in Paths \ {path} : RowsOf(rows, p) = RowsOf(db.rows, p)
        /\ \E m \in Models : RowsOf(rows, path) = DocRows(path, text, m)
    BY <1>1, <1>2, <1>4 DEF TxFits, Database
  <1> HIDE DEF docs, rows, path, text
  <1>8. db' \in Database /\ db'.docs = docs /\ db'.rows = rows
    BY <1>1, <1>2, <1>6 DEF Database
  <1>9. docs[path] = text /\ \A p \in Paths \ {path} : docs[p] = db.docs[p]
    BY <1>5, <1>7 DEF Documents
  <1>10. ASSUME NEW p \in Paths
         PROVE  Whole(rows, p, docs[p]) /\ (docs[p] # None => Parts[docs[p]] # << >>)
    <2>1. CASE p = path
      BY <1>5, <1>7, <1>9, <2>1 DEF Whole
    <2>2. CASE p # path
      <3>1. Whole(db.rows, p, db.docs[p]) /\ (db.docs[p] # None => Parts[db.docs[p]] # << >>)
        BY <1>1 DEF DbInv
      <3>2. RowsOf(rows, p) = RowsOf(db.rows, p) /\ docs[p] = db.docs[p]
        BY <1>7, <1>9, <2>2
      <3> QED
        BY <3>1, <3>2 DEF Whole
    <2> QED
      BY <2>1, <2>2
  <1>11. DbInv'
    BY <1>4, <1>8, <1>10 DEF DbInv
  <1>12. /\ Cardinality(Documented(db.docs)) <= Cardinality(Documented(docs))
         /\ Cardinality(Documented(db.docs)) \in Nat /\ Cardinality(Documented(docs)) \in Nat
    <2>1. Documented(docs) = Documented(db.docs) \cup {path}
      BY <1>5, <1>9 DEF Documented
    <2>2. IsFiniteSet(Documented(db.docs))
      BY <1>1, RowsPerDocument
    <2>3. IsFiniteSet(Documented(docs))
      BY <2>1, <2>2, FS_AddElement
    <2>4. Documented(db.docs) \subseteq Documented(docs)
      BY <2>1
    <2>5. Cardinality(Documented(db.docs)) <= Cardinality(Documented(docs))
      BY <2>3, <2>4, FS_Subset
    <2> QED
      BY <2>2, <2>3, <2>5, FS_CardinalityType
  <1>13. ViewInv'
    <2>1. view' \in [Readers -> ViewRecord]
      BY <1>1, <1>2 DEF ViewInv
    <2>2. ASSUME NEW r \in Readers
          PROVE  ViewFits(r, view[r])'
      <3>1. ViewFits(r, view[r]) /\ view[r].docs \in Nat
        BY <1>1 DEF ViewInv, ViewRecord
      <3>2. view[r].pc = "count" => view[r].docs <= Cardinality(Documented(docs))
        BY <1>12, <3>1 DEF ViewFits
      <3> QED
        BY <1>2, <1>8, <3>1, <3>2 DEF ViewFits
    <2> QED
      BY <2>1, <2>2 DEF ViewInv
  <1>14. JobInv' /\ job'[j] = NoJob /\ \A x \in Indexers \ {j} : job'[x] = job[x]
    BY <1>2, JobMoves, NothingIs DEF IInv
  <1>15. TxInv'
    <2>1. \A x \in Indexers \ {j} : job[x].pc \notin Writing
      BY <1>3, OneWriter
    <2>2. NoJob.pc \notin Writing
      BY NothingIs DEF Writing
    <2> QED
      BY <1>2, <1>14, <2>1, <2>2 DEF TxInv
  <1> QED
    BY <1>1, <1>2, <1>11, <1>13, <1>14, <1>15 DEF IInv

\* A run that is aborted takes its transaction with it, and no other's.
LEMMA AbortKeeps ==
  ASSUME IInv, NEW j \in Indexers, Abort(j)
  PROVE  IInv'
  <1>1. /\ job' = [job EXCEPT ![j] = NoJob] /\ UNCHANGED <<preview, db, view>>
        /\ tx' = IF tx # None /\ tx.by = j THEN None ELSE tx
    BY DEF Abort
  <1>2. JobInv' /\ job'[j] = NoJob /\ \A x \in Indexers \ {j} : job'[x] = job[x]
    BY <1>1, JobMoves, NothingIs DEF IInv
  <1>3. NoJob.pc \notin Writing
    BY NothingIs DEF Writing
  <1>4. TxInv
    BY DEF IInv
  <1>5. ASSUME NEW x \in Indexers, job'[x].pc \in Writing
        PROVE  tx' # None /\ tx'.by = x
    <2>1. x # j /\ job[x].pc \in Writing
      BY <1>2, <1>3, <1>5
    <2>2. tx # None /\ tx.by = x
      BY <1>4, <2>1 DEF TxInv
    <2> QED
      BY <1>1, <2>1, <2>2
  <1>6. ASSUME tx' # None
        PROVE  tx' \in Transaction /\ Indexed(tx'.rows) /\ TxFits(tx', db', job'[tx'.by])
    <2>1. tx' = tx /\ tx # None /\ tx.by # j
      BY <1>1, <1>6
    <2>2. tx \in Transaction /\ Indexed(tx.rows) /\ TxFits(tx, db, job[tx.by])
      BY <1>4, <2>1 DEF TxInv
    <2>3. tx.by \in Indexers \ {j}
      BY <2>1, <2>2 DEF Transaction
    <2>4. job'[tx.by] = job[tx.by] /\ db' = db
      BY <1>1, <1>2, <2>3
    <2> QED
      BY <2>1, <2>2, <2>4
  <1>7. TxInv'
    BY <1>5, <1>6 DEF TxInv
  <1>8. DbInv' /\ ViewInv'
    BY <1>1, DbStays DEF IInv, DbInv
  <1> QED
    BY <1>1, <1>2, <1>7, <1>8 DEF IInv

-----------------------------------------------------------------------------
(* The readers.                                                            *)

\* A reader moves on to v.
LEMMA ReaderSees ==
  ASSUME IInv, NEW r \in Readers, NEW v \in ViewRecord, ViewFits(r, v), See(r, v)
  PROVE  IInv'
  <1>1. view' = [view EXCEPT ![r] = v] /\ UNCHANGED <<preview, db, tx, job>>
    BY DEF See
  <1>2. /\ view \in [Readers -> ViewRecord] /\ \A x \in Readers : ViewFits(x, view[x])
    BY DEF IInv, ViewInv
  <1>3. view' \in [Readers -> ViewRecord]
    BY <1>1, <1>2
  <1>4. view'[r] = v /\ \A x \in Readers \ {r} : view'[x] = view[x]
    BY <1>1, <1>2
  <1>5. ASSUME NEW x \in Readers
        PROVE  ViewFits(x, view[x])'
    <2>1. ViewFits(x, view'[x])
      BY <1>2, <1>4
    <2> QED
      BY <1>1, <2>1 DEF ViewFits
  <1>6. ViewInv'
    BY <1>3, <1>5 DEF ViewInv
  <1>7. DbInv' /\ JobInv'
    BY <1>1 DEF IInv, DbInv, JobInv
  <1>8. TxInv'
    BY <1>1 DEF IInv, TxInv
  <1> QED
    BY <1>1, <1>6, <1>7, <1>8 DEF IInv

\* A run that shows no rows.
LEMMA NoRows ==
  ASSUME NEW r \in Readers, NEW v \in ViewRecord, v.rows = {}, v.pc \notin {"count", "list"}
  PROVE  ViewFits(r, v)
  <1>1. IsFiniteSet(v.rows) /\ Cardinality(v.rows) = 0
    BY FS_EmptySet
  <1>2. TopK \in Nat
    BY KnowledgeAssumption
  <1> QED
    BY <1>1, <1>2 DEF ViewFits

\* A search keeps TopK rows at most, comparable to its query.
LEMMA Search ==
  ASSUME IInv, NEW r \in Readers, ReadChunks(r)
  PROVE  IInv'
  <1> DEFINE kept == Comparable(db.rows, Model[r])
             best == Min({TopK, Cardinality(kept)})
  <1>1. view[r] \in ViewRecord /\ ViewFits(r, view[r]) /\ DbInv /\ IsFiniteSet(db.rows)
        /\ db.rows \subseteq Row
    BY DEF IInv, ViewInv, DbInv, Indexed, Database
  <1>2. \/ \E recall \in kSubset(best, kept) :
              See(r, [view[r] EXCEPT !.pc = "answer", !.rows = recall])
        \/ See(r, NoView)
    BY DEF ReadChunks
  <1>3. kept \subseteq db.rows /\ \A row \in kept : Dim[row.model] = Dim[Model[r]]
    BY DEF Comparable
  <1>4. best <= TopK
    <2> DEFINE size == Cardinality(kept)
    <2>1. IsFiniteSet(kept)
      BY <1>1, <1>3, FS_Subset
    <2> HIDE DEF kept
    <2>2. size \in Nat /\ TopK \in Nat
      BY <2>1, FS_CardinalityType, KnowledgeAssumption
    <2> HIDE DEF size
    <2> DEFINE S == {TopK, size}
    <2>3. \E x \in S : \A y \in S : x <= y
      BY <2>2
    <2>4. Min(S) \in S /\ \A y \in S : Min(S) <= y
      BY <2>3 DEF Min
    <2>5. Min(S) <= TopK
      BY <2>4
    <2> QED
      BY <2>5 DEF size
  <1> HIDE DEF kept, best
  <1>5. ASSUME NEW recall \in kSubset(best, kept),
               See(r, [view[r] EXCEPT !.pc = "answer", !.rows = recall])
        PROVE  IInv'
    <2> DEFINE v == [view[r] EXCEPT !.pc = "answer", !.rows = recall]
    <2>1. recall \subseteq kept /\ Cardinality(recall) = best
      BY <1>5 DEF kSubset
    <2>2. recall \subseteq db.rows /\ recall \in SUBSET Row
      BY <1>1, <1>3, <2>1
    <2>3. v \in ViewRecord /\ v.pc = "answer" /\ v.rows = recall
      BY <1>1, <2>2 DEF ViewRecord
    <2> HIDE DEF v
    <2>4. IsFiniteSet(recall) /\ Cardinality(recall) <= TopK
      BY <1>1, <1>4, <2>1, <2>2, FS_Subset
    <2>5. ASSUME NEW a \in recall, NEW b \in recall
          PROVE  /\ a.path = b.path => a.text = b.text
                 /\ Dim[a.model] = Dim[Model[r]]
      BY <1>1, <1>3, <2>1, <2>2, OneText
    <2>6. ViewFits(r, v)
      BY <2>3, <2>4, <2>5 DEF ViewFits
    <2> QED
      BY <1>5, <2>3, <2>6, ReaderSees DEF v
  <1>6. CASE See(r, NoView)
    BY <1>6, NothingIs, NoRows, ReaderSees
  <1> QED
    BY <1>2, <1>5, <1>6

\* The other steps of the readers; a count that is shown later is the smaller one.
LEMMA Reading ==
  ASSUME IInv, NEW r \in Readers,
         \/ StartSearch(r) \/ Answer(r) \/ CountDocuments(r) \/ CountChunks(r) \/ ListPaths(r)
  PROVE  IInv'
  <1>1. view[r] \in ViewRecord /\ ViewFits(r, view[r]) /\ DbInv
    BY DEF IInv, ViewInv
  <1>2. /\ Cardinality(Documented(db.docs)) \in Nat /\ Cardinality(db.rows) \in Nat
        /\ Cardinality(Documented(db.docs)) <= Cardinality(db.rows)
    BY <1>1, RowsPerDocument
  <1>3. CASE StartSearch(r)
    <2> DEFINE v == [NoView EXCEPT !.pc = "search"]
    <2>1. v \in ViewRecord /\ v.pc = "search" /\ v.rows = {}
      BY NothingIs DEF ViewRecord
    <2> QED
      BY <1>3, <2>1, NoRows, ReaderSees DEF StartSearch
  <1>4. CASE Answer(r) \/ ListPaths(r)
    <2>1. See(r, NoView)
      BY <1>4 DEF Answer, ListPaths
    <2> QED
      BY <2>1, NothingIs, NoRows, ReaderSees
  <1>5. CASE CountDocuments(r)
    <2> DEFINE size == Cardinality(Documented(db.docs))
               v == [NoView EXCEPT !.pc = "count", !.docs = size]
    <2>1. See(r, v)
      BY <1>5 DEF CountDocuments, Documented
    <2>2. size \in Nat
      BY <1>2
    <2> HIDE DEF size
    <2>3. v \in ViewRecord /\ v.pc = "count" /\ v.docs = size /\ v.rows = {}
      BY <2>2, NothingIs DEF ViewRecord
    <2> HIDE DEF v
    <2>4. IsFiniteSet(v.rows) /\ Cardinality(v.rows) = 0 /\ TopK \in Nat
      BY <2>3, FS_EmptySet, KnowledgeAssumption
    <2>5. v.docs <= Cardinality(Documented(db.docs))
      BY <2>2, <2>3 DEF size
    <2>6. ViewFits(r, v)
      BY <2>3, <2>4, <2>5 DEF ViewFits
    <2> QED
      BY <2>1, <2>3, <2>6, ReaderSees
  <1>6. CASE CountChunks(r)
    <2> DEFINE size == Cardinality(db.rows)
               v == [view[r] EXCEPT !.pc = "list", !.chunks = size]
    <2>1. (See(r, v) \/ See(r, NoView)) /\ view[r].pc = "count"
      BY <1>6 DEF CountChunks
    <2>2. size \in Nat /\ view[r].docs \in Nat /\ view[r].docs <= size
      BY <1>1, <1>2, <2>1 DEF ViewFits, ViewRecord
    <2> HIDE DEF size
    <2>3. /\ v \in ViewRecord /\ v.pc = "list" /\ v.docs = view[r].docs /\ v.chunks = size
          /\ v.rows = view[r].rows
      BY <1>1, <2>2 DEF ViewRecord
    <2> HIDE DEF v
    <2>4. ViewFits(r, v)
      BY <1>1, <2>2, <2>3 DEF ViewFits
    <2>5. CASE See(r, v)
      BY <2>3, <2>4, <2>5, ReaderSees
    <2>6. CASE See(r, NoView)
      BY <2>6, NothingIs, NoRows, ReaderSees
    <2> QED
      BY <2>1, <2>5, <2>6
  <1> QED
    BY <1>3, <1>4, <1>5, <1>6

-----------------------------------------------------------------------------
(* The invariant.                                                          *)

LEMMA InitIInv == Init => IInv
  <1> SUFFICES ASSUME Init PROVE IInv
    OBVIOUS
  <1>1. /\ db = [schema |-> 0, docs |-> [p \in Paths |-> None], rows |-> {}]
        /\ tx = None /\ preview = None
        /\ job = [j \in Indexers |-> NoJob] /\ view = [r \in Readers |-> NoView]
    BY DEF Init
  <1>2. DbInv
    <2>1. db \in Database
      BY <1>1 DEF Database, Documents
    <2>2. Indexed(db.rows)
      BY <1>1, FS_EmptySet DEF Indexed
    <2> QED
      BY <1>1, <2>1, <2>2 DEF DbInv, Whole, RowsOf
  <1>3. JobInv
    BY <1>1, NothingIs DEF JobInv
  <1>4. TxInv
    <2>1. NoJob.pc \notin Writing
      BY NothingIs DEF Writing
    <2> QED
      BY <1>1, <2>1 DEF TxInv
  <1>5. ViewInv
    BY <1>1, NothingIs, NoRows DEF ViewInv
  <1> QED
    BY <1>1, <1>2, <1>3, <1>4, <1>5 DEF IInv

LEMMA NextIInv == IInv /\ [Next]_vars => IInv'
  <1> SUFFICES ASSUME IInv, [Next]_vars PROVE IInv'
    OBVIOUS
  <1>1. CASE UNCHANGED vars
    <2>1. UNCHANGED <<preview, db, tx, job, view>>
      BY <1>1 DEF vars
    <2> QED
      BY <2>1 DEF IInv, DbInv, TxInv, JobInv, ViewInv, ViewFits
  <1>2. ASSUME NEW j \in Indexers,
               \/ \E p \in Paths, text \in Texts : StartIndex(j, p, text)
               \/ WritePreview(j) \/ Embed(j) \/ \E n \in DOMAIN Schema : EnsureSchema(j, n)
        PROVE  IInv'
    BY <1>2, BeforeWriting
  <1>3. ASSUME NEW j \in Indexers,
               \/ UpsertDocument(j) \/ DeleteChunks(j) \/ InsertChunks(j) \/ Commit(j) \/ Abort(j)
        PROVE  IInv'
    BY <1>3, Upsert, Delete, Insert, CommitKeeps, AbortKeeps
  <1>4. ASSUME NEW r \in Readers,
               \/ StartSearch(r) \/ ReadChunks(r) \/ Answer(r)
               \/ CountDocuments(r) \/ CountChunks(r) \/ ListPaths(r)
        PROVE  IInv'
    BY <1>4, Search, Reading
  <1> QED
    BY <1>1, <1>2, <1>3, <1>4 DEF Next

LEMMA IInvHolds == Spec => []IInv
  BY InitIInv, NextIInv, PTL DEF Spec

\* What there is of the schema stays, and a run that goes on has what it needs of it.
LEMMA SchemaStays ==
  ASSUME SchemaInv, NEW j \in Indexers, \A x \in Indexers \ {j} : job'[x] = job[x],
         db.schema \in 0 .. 4, db'.schema \in 0 .. 4, db'.schema >= db.schema,
         SchemaFits(job'[j].pc, db'.schema)
  PROVE  SchemaInv'
  <1>1. ASSUME NEW x \in Indexers \ {j}
        PROVE  SchemaFits(job'[x].pc, db'.schema)
    <2>1. SchemaFits(job[x].pc, db.schema) /\ job'[x].pc = job[x].pc
      BY DEF SchemaInv
    <2> QED
      BY <2>1 DEF SchemaFits
  <1> QED
    BY <1>1 DEF SchemaInv

LEMMA NextSchemaInv == IInv /\ SchemaInv /\ [Next]_vars => SchemaInv'
  <1> SUFFICES ASSUME IInv, SchemaInv, [Next]_vars PROVE SchemaInv'
    OBVIOUS
  <1>1. /\ job \in [Indexers -> JobRecord] /\ db.schema \in 0 .. 4 /\ db \in Database
    BY DEF IInv, DbInv, JobInv, Database
  <1>2. CASE job' = job /\ db' = db
    BY <1>2 DEF SchemaInv
  <1>3. ASSUME NEW j \in Indexers, NEW p \in Paths, NEW text \in Texts, StartIndex(j, p, text)
        PROVE  SchemaInv'
    <2>1. /\ job' = [job EXCEPT ![j] = [pc |-> "preview", path |-> p, text |-> text, vecs |-> << >>]]
          /\ db' = db
      BY <1>3 DEF StartIndex
    <2>2. job'[j].pc = "preview" /\ \A x \in Indexers \ {j} : job'[x] = job[x]
      BY <1>1, <2>1
    <2>3. SchemaFits(job'[j].pc, db'.schema)
      BY <2>2 DEF SchemaFits, Writing
    <2> QED
      BY <1>1, <2>1, <2>2, <2>3, SchemaStays
  <1>4. ASSUME NEW j \in Indexers, WritePreview(j)
        PROVE  SchemaInv'
    <2>1. job' = [job EXCEPT ![j].pc = "file"] /\ db' = db
      BY <1>4, SchemaIs DEF WritePreview, Go
    <2>2. job'[j].pc = "file" /\ \A x \in Indexers \ {j} : job'[x] = job[x]
      BY <1>1, <2>1 DEF JobRecord
    <2>3. SchemaFits(job'[j].pc, db'.schema)
      BY <2>2 DEF SchemaFits, Writing
    <2> QED
      BY <1>1, <2>1, <2>2, <2>3, SchemaStays
  <1>5. ASSUME NEW j \in Indexers, NEW n \in DOMAIN Schema, EnsureSchema(j, n)
        PROVE  SchemaInv'
    <2> DEFINE pc == IF n = Len(Schema) THEN "embed" ELSE Schema[n + 1]
               schema == IF db.schema < n THEN n ELSE db.schema
    <2>1. /\ job' = [job EXCEPT ![j].pc = pc] /\ db' = [db EXCEPT !.schema = schema]
      BY <1>5 DEF EnsureSchema, Go
    <2>2. n \in 1 .. 4 /\ \A s \in 0 .. 4 : s >= n => SchemaFits(pc, s)
      BY AfterSchema
    <2>3. schema \in 0 .. 4 /\ schema >= n /\ schema >= db.schema
      BY <1>1, <2>2
    <2> HIDE DEF pc, schema
    <2>4. job'[j].pc = pc /\ \A x \in Indexers \ {j} : job'[x] = job[x]
      BY <1>1, <2>1 DEF JobRecord
    <2>5. db'.schema = schema
      BY <1>1, <2>1 DEF Database
    <2> QED
      BY <1>1, <2>2, <2>3, <2>4, <2>5, SchemaStays
  <1>6. ASSUME NEW j \in Indexers,
               \/ Embed(j) \/ UpsertDocument(j) \/ DeleteChunks(j) \/ InsertChunks(j) \/ Commit(j)
        PROVE  SchemaInv'
    <2>1. job[j].pc \in {"embed", "upsert"} \cup Writing /\ db'.schema = db.schema
      BY <1>1, <1>6 DEF At, Embed, UpsertDocument, DeleteChunks, InsertChunks, Commit, Writing, Database
    <2>2. db.schema = 4
      BY <2>1 DEF SchemaInv, SchemaFits
    <2>3. SchemaFits(job'[j].pc, 4)
      <3>1. job'[j].pc \in {"idle", "embed", "upsert"} \cup Writing
        BY <1>1, <1>6 DEF At, Go, Embed, UpsertDocument, DeleteChunks, InsertChunks, Commit, NoJob, JobRecord, Writing
      <3> QED
        BY <3>1 DEF SchemaFits, Writing
    <2>4. \A x \in Indexers \ {j} : job'[x] = job[x]
      BY <1>1, <1>6 DEF Go, Embed, UpsertDocument, DeleteChunks, InsertChunks, Commit
    <2> QED
      BY <1>1, <2>1, <2>2, <2>3, <2>4, SchemaStays
  <1>7. ASSUME NEW j \in Indexers, Abort(j)
        PROVE  SchemaInv'
    <2>1. job' = [job EXCEPT ![j] = NoJob] /\ db' = db
      BY <1>7 DEF Abort
    <2>2. job'[j].pc = "idle" /\ \A x \in Indexers \ {j} : job'[x] = job[x]
      BY <1>1, <2>1, NothingIs
    <2>3. SchemaFits(job'[j].pc, db'.schema)
      BY <2>2 DEF SchemaFits, Writing
    <2> QED
      BY <1>1, <2>1, <2>2, <2>3, SchemaStays
  <1>8. ASSUME NEW r \in Readers,
               \/ StartSearch(r) \/ ReadChunks(r) \/ Answer(r)
               \/ CountDocuments(r) \/ CountChunks(r) \/ ListPaths(r)
        PROVE  job' = job /\ db' = db
    BY <1>8 DEF StartSearch, ReadChunks, Answer, CountDocuments, CountChunks, ListPaths, See
  <1> QED
    BY <1>2, <1>3, <1>4, <1>5, <1>6, <1>7, <1>8 DEF Next, vars

LEMMA SchemaInvHolds == Spec => []SchemaInv
  <1>1. Init => SchemaInv
    <2> SUFFICES ASSUME Init PROVE SchemaInv
      OBVIOUS
    <2>1. \A j \in Indexers : job[j].pc = "idle"
      BY NothingIs DEF Init
    <2> QED
      BY <2>1 DEF SchemaInv, SchemaFits, Writing
  <1> QED
    BY <1>1, NextSchemaInv, IInvHolds, PTL DEF Spec

\* The type invariant of the base, for rk_rag.py's tables and its runs: what is open to be
\* committed, too, has rows of chunks there are only, its owner is in the transaction, no
\* run has more vectors than chunks, and a search shows --topk rows at most.
THEOREM TypeCorrect == Spec => []TypeOK
  <1>1. IInv /\ SchemaInv => TypeOK
    <2> SUFFICES ASSUME IInv, SchemaInv PROVE TypeOK
      OBVIOUS
    <2>1. preview \in Paths \cup {None} /\ db.schema \in 0 .. Len(Schema)
      BY SchemaIs DEF IInv, DbInv, Database
    <2>2. ASSUME NEW t \in {db} \cup ({tx} \ {None})
          PROVE  /\ t.docs \in [Paths -> Texts \cup {None}]
                 /\ \A row \in t.rows :
                     row.path \in Paths /\ row.text \in Texts /\ row.index \in DOMAIN Parts[row.text]
      <3>1. t.docs \in Documents /\ t.rows \in SUBSET Row /\ Indexed(t.rows)
        BY DEF IInv, DbInv, TxInv, Database, Transaction
      <3> QED
        BY <3>1 DEF Documents, Row, Indexed
    <2>3. tx # None => job[tx.by].pc \in Writing /\ db.schema = Len(Schema)
      <3>1. tx # None => job[tx.by].pc \in Writing /\ tx.by \in Indexers
        BY DEF IInv, TxInv, TxFits, Transaction
      <3> QED
        BY <3>1, SchemaIs DEF SchemaInv, SchemaFits
    <2>4. ASSUME NEW j \in Indexers, job[j].vecs # << >>
          PROVE  Len(job[j].vecs) <= Len(Parts[job[j].text])
      <3>1. job[j] \in JobRecord /\ JobFits(job[j])
        BY DEF IInv, JobInv
      <3>2. job[j].pc \in {"embed", "upsert"} \cup Writing
        BY <2>4, <3>1 DEF JobFits, JobRecord
      <3>3. job[j].text \in Texts
        BY <3>1, <3>2 DEF JobFits, Writing
      <3>4. Len(Parts[job[j].text]) \in Nat /\ Len(job[j].vecs) \in Nat
        BY <3>1, <3>3, PartsAre DEF JobRecord
      <3> QED
        BY <3>1, <3>2, <3>4 DEF JobFits
    <2>5. \A r \in Readers : Cardinality(view[r].rows) <= TopK
      BY DEF IInv, ViewInv, ViewFits
    <2> QED
      BY <2>1, <2>2, <2>3, <2>4, <2>5 DEF TypeOK, Writing
  <1> QED
    BY <1>1, IInvHolds, SchemaInvHolds, PTL

\* What rk_rag.py has committed of a document is whole, whatever other index runs do and
\* wherever a run was killed.
THEOREM DocWholeHolds == Spec => []DocWhole
  <1>1. IInv => DocWhole
    <2> SUFFICES ASSUME IInv, NEW p \in Paths
                 PROVE  IF db.docs[p] = None THEN RowsOf(db.rows, p) = {}
                        ELSE \E m \in Models : RowsOf(db.rows, p) = DocRows(p, db.docs[p], m)
      BY DEF DocWhole, RowsOf, DocRows
    <2> QED
      BY DEF IInv, DbInv, Whole
  <1> QED
    BY <1>1, IInvHolds, PTL

\* What search_topk recalls and what list_databases shows fits together, though the base
\* has moved on since.
THEOREM ViewsConsistentHolds == Spec => []ViewsConsistent
  <1>1. IInv => ViewsConsistent
    <2> SUFFICES ASSUME IInv, NEW r \in Readers
                 PROVE  /\ \A a, b \in view[r].rows :
                            /\ a.path = b.path => a.text = b.text
                            /\ Dim[a.model] = Dim[Model[r]]
                        /\ view[r].pc = "list" => view[r].chunks >= view[r].docs
      BY DEF ViewsConsistent
    <2>1. view[r] \in ViewRecord /\ ViewFits(r, view[r])
      BY DEF IInv, ViewInv
    <2>2. view[r].chunks \in Nat /\ view[r].docs \in Nat
      BY <2>1 DEF ViewRecord
    <2> QED
      BY <2>1, <2>2 DEF ViewFits
  <1> QED
    BY <1>1, IInvHolds, PTL

\* Nothing of the document that an index run is given is left out of the index but its
\* headings, which are in the paths, and its chunks are in its order.
THEOREM BlocksCoveredHolds == Spec => []BlocksCovered
  <1>1. SamplesCovered
    BY ChunksAssumption, EveryTextCovered DEF SamplesCovered
  <1>2. BlocksCovered
    BY <1>1 DEF BlocksCovered
  <1> QED
    BY <1>2, PTL

\* Every chunk that an index run embeds is prefixed by the headings in force where it begins.
THEOREM PathInForceHolds == Spec => []PathInForce
  <1>1. SamplesInForce
    BY ChunksAssumption, EveryPathInForce DEF SamplesInForce
  <1>2. PathInForce
    BY <1>1 DEF PathInForce
  <1> QED
    BY <1>2, PTL
=============================================================================
