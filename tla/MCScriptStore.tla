--------------------------- MODULE MCScriptStore ---------------------------
(***************************************************************************)
(* Of three nodes two have the same url: the map from urls hides one of    *)
(* them.  The two are interchangeable.                                     *)
(***************************************************************************)
EXTENDS ScriptStore, TLC

CONSTANTS n1, n2, n3, u1, u2

MCUrlOf == [n \in Ids |-> IF n \in {n1, n2} THEN u1 ELSE u2]

NodeSymmetry == Permutations({n1, n2})

=============================================================================
