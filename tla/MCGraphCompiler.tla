-------------------------- MODULE MCGraphCompiler --------------------------
(***************************************************************************)
(* Two processors and one link from the first to the second.               *)
(***************************************************************************)
EXTENDS GraphCompiler

CONSTANTS p1, p2, l1

MCSource == [l \in {l1} |-> p1]
MCTarget == [l \in {l1} |-> p2]
=============================================================================
