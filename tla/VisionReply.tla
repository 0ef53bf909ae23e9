----------------------------- MODULE VisionReply -----------------------------
(***************************************************************************)
(* How detect_target.py reads the answer of the vision model: the first    *)
(* JSON object in its text, and the matches in that object that are well   *)
(* formed and confident enough.                                            *)
(*                                                                         *)
(* A text is abstracted to the candidates the search tries, in its order:  *)
(* the whole text, the fenced blocks and the balanced brace groups, each   *)
(* None when it does not parse to an object.  An object is a record: kind  *)
(* "matches" has a list of items, "single" is itself an item, "empty" is   *)
(* {}.  An item tells whether it has a description, its box (four numbers, *)
(* in thirds of a pixel; None for what is no finite number) and its score. *)
(***************************************************************************)
EXTENDS Integers, Sequences

CONSTANTS
    MinScore,  \* --min-score
    None       \* Python's None

IsList(s) == s \in Seq({s[i] : i \in DOMAIN s})

Candidates(text) == <<text.whole>> \o text.fenced \o text.braced

\* The texts there are.
IsReply(text) ==
    /\ IsList(text.fenced) /\ IsList(text.braced)
    /\ \A i \in DOMAIN Candidates(text) : LET c == Candidates(text)[i] IN c # None =>
            /\ c.kind \in {"matches", "single", "empty"}
            /\ c.kind = "matches" => IsList(c.items)

\* extract_first_json_object
FirstObject(text) ==
    LET objects == {i \in DOMAIN Candidates(text) : Candidates(text)[i] # None}
    IN  IF objects = {} THEN None
        ELSE Candidates(text)[CHOOSE i \in objects : \A j \in objects : i <= j]

\* int(round(raw)); a third is never half way.
Rounded(thirds) == (thirds + 1) \div 3

\* normalize_bbox accepts the box.
BoxOK(box) ==
    /\ Len(box) = 4 /\ \A i \in 1 .. 4 : box[i] # None
    /\ LET c == [i \in 1 .. 4 |-> Rounded(box[i])]
       IN  c[1] >= 0 /\ c[2] >= 0 /\ c[3] > c[1] /\ c[4] > c[2]

\* normalize_match accepts the item.
MatchOK(item) == item.described /\ BoxOK(item.box) /\ item.score # None

\* Mutant of Matches: a list is kept whole when one of its matches is good.
MatchesAny(object) ==
    IF object = None THEN << >>
    ELSE CASE object.kind = "empty"   -> << >>
           [] object.kind = "single"  -> IF MatchOK(object.item) THEN <<object.item>> ELSE << >>
           [] object.kind = "matches" ->
                IF \E i \in DOMAIN object.items :
                        MatchOK(object.items[i]) /\ object.items[i].score >= MinScore
                THEN SelectSeq(object.items, MatchOK) ELSE << >>

\* normalize_result: the matches that are reported.  An object that is itself a
\* match is reported whatever its score.
Matches(object) ==
    IF object = None THEN << >>
    ELSE CASE object.kind = "empty"   -> << >>
           [] object.kind = "single"  -> IF MatchOK(object.item) THEN <<object.item>> ELSE << >>
           [] object.kind = "matches" ->
                LET items == object.items
                    matches[n \in 0 .. Len(items)] ==
                        IF n = 0 THEN << >>
                        ELSE IF MatchOK(items[n]) /\ items[n].score >= MinScore
                        THEN Append(matches[n - 1], items[n]) ELSE matches[n - 1]
                IN  matches[Len(items)]

\* detect_image, from the text the model has answered.
Detected(text) == Matches(FirstObject(text))
=============================================================================
