---------------------------- MODULE MCViewChange ----------------------------
(* Four peers; the primary of view 1 is p2, of view 2 p3, of view 3 p4. *)
EXTENDS ViewChange, TLC
CONSTANTS p1, p2, p3, p4
MCOrdered == <<p1, p2, p3, p4>>

(* Bound: a state is taken when the VIEWCHANGEs sent have been handled *)
StateWhenQuiet ==
    states' # states =>
        \A r \in Live, m \in viewchanges : m.sender \in tally[r][m.view] \/ m.view <= view[r]
=============================================================================
