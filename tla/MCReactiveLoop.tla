--------------------------- MODULE MCReactiveLoop ---------------------------
(***************************************************************************)
(* Two links, into one port or each into a port of its own.                *)
(***************************************************************************)
EXTENDS ReactiveLoop

CONSTANTS l1, l2, p1, p2

\* Both links feed one port; each link feeds a port of its own.
FanIn == [l \in {l1, l2} |-> p1]
Apart == [l \in {l1, l2} |-> IF l = l1 THEN p1 ELSE p2]
=============================================================================
