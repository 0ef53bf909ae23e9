------------------------------ MODULE MCVision ------------------------------
(***************************************************************************)
(* A small instance of the camera monitor for TLC, and all small images    *)
(* for the decoder.                                                        *)
(***************************************************************************)
EXTENDS VisionWatch, ImageDecoder, TLC

CONSTANTS parcel, cup, s1, s2, m1, m2  \* model values

Text(whole, fenced, braced) == [whole |-> whole, fenced |-> fenced, braced |-> braced]
Item(box, score) == [described |-> TRUE, box |-> box, score |-> score]
Object(kind, field) ==
    IF kind = "empty" THEN [kind |-> kind]
    ELSE IF kind = "single" THEN [kind |-> kind, item |-> field]
    ELSE [kind |-> kind, items |-> field]

Box == <<0, 0, 3, 3>>
Flat == <<0, 0, 1, 3>>  \* its right edge rounds to its left edge

\* A list with a doubtful, a sure and a malformed match; the same in a fenced
\* block after prose; one doubtful match without its list; nothing; prose.
MCReplies ==
    {Text(Object("matches", <<Item(Box, 1), Item(Box, 2), Item(Flat, 2)>>), << >>, << >>),
     Text(None, <<None, Object("matches", <<Item(Box, 2)>>)>>, <<Object("empty", None)>>),
     Text(None, << >>, <<None, Object("single", Item(Box, 1))>>),
     Text(Object("empty", None), << >>, << >>),
     Text(None, <<None>>, << >>)}

MCWidths == 1 .. 9
MCHeights == 1 .. 3
MCStrides == {Unset, 3, 12}
MCSizes == {0, 7, 20, 80}

\* Around the edges of the range, its middle and the levels of black and white.
MCLevels == {0, 1, 15, 16, 17, 80, 127, 128, 129, 180, 234, 235, 240, 254, 255}

\* The two skills share nothing: while the one is explored the other rests.
MonitorRests == \A s \in Shells, m \in Monitors : shell[s] = Idle /\ mon[m] = Unborn

MCNext ==
    \/ args = Unset /\ Next /\ UNCHANGED args
    \/ MonitorRests /\ DecoderNext /\ UNCHANGED vars

MCInit == Init /\ DecoderInit

MCSpec == MCInit /\ [][MCNext]_<<vars, args>>

\* Monitors, invocations and queries are interchangeable; every property is a safety one.
Symmetric == Permutations(Monitors) \cup Permutations(Shells) \cup Permutations(Queries)
=============================================================================
