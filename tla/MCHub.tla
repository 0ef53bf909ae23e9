------------------------------- MODULE MCHub -------------------------------
(***************************************************************************)
(* Small instances of the hub for TLC.                                     *)
(***************************************************************************)
EXTENDS HubProperties

CONSTANTS
    sa, sb, sc, x1, x2, x3, w1, w2, h1, l1, l2,  \* model values
    Memory  \* bytes of the device, in units

\* Requests: x2 is for sb and x3 for sc in the instances that have them, the
\* others for sa.
MCServiceOf ==
    [x \in Sessions |-> IF x = x2 /\ sb \in Services THEN sb
                       ELSE IF x = x3 /\ sc \in Services THEN sc ELSE sa]

\* Every service takes two units, sc four, and the device reports what the
\* processes that are up leave of Memory.
MCUsage == [v \in Services |-> IF v = sc THEN 4 ELSE 2]
MCFree == [u \in SUBSET Services |-> Memory - MapThenSumSet(LAMBDA v : MCUsage[v], u)]

\* The workers are alike: every property of the run that uses this treats them
\* so, and none of them is a liveness property.
WorkerSymmetry == Permutations(Workers)
=============================================================================
