------------------------------- MODULE MCFeed -------------------------------
(***************************************************************************)
(* Two values, the second so far from the first that the axis is fitted    *)
(* again: 0.5 and 2.1 on an axis from 0 to 1.                              *)
(***************************************************************************)
EXTENDS Feed

CONSTANTS m1, m2

MCValue == [m \in Messages |-> IF m = m1 THEN 500 ELSE 2100]

MCLeastMax == -999000

=============================================================================
