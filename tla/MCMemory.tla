------------------------------- MODULE MCMemory -------------------------------
(***************************************************************************)
(* A small instance of the routing memory for TLC.                         *)
(***************************************************************************)
EXTENDS RoutingMemory

CONSTANTS prompt, matched, c1, c2, LOCAL_  \* model values

\* The configuration is reloaded with another embedding model.
MCDim == [b \in Banks |-> b]
=============================================================================
