------------------------------ MODULE MCWatcher ------------------------------
(***************************************************************************)
(* A small instance of the meeting watcher for TLC.                        *)
(***************************************************************************)
EXTENDS MeetingWatcher

CONSTANTS asr, mine, rival, a, b  \* model values

MCServiceOf == [x \in Sessions |-> asr]
MCMine == <<asr, mine>>

\* The keyword comes in two results, or in a result and its new part; a message may
\* say nothing, end one keyword and begin the next, or be longer than the buffer, which
\* then loses the keyword it holds.
MCKeyword == <<a, b>>
MCResults ==
    {[result |-> << >>, fresh |-> << >>], [result |-> <<a>>, fresh |-> << >>],
     [result |-> <<b, a>>, fresh |-> <<a>>], [result |-> <<a>>, fresh |-> <<b>>],
     [result |-> <<a, b, a, a>>, fresh |-> << >>]}
=============================================================================
