----------------------------- MODULE MCBifrost -----------------------------
(* Small instances of Bifrost: two nodes that call each other, and a        *)
(* broadcast from A to B and C.                                             *)
EXTENDS Bifrost, TLC

CONSTANTS A, B, C, ab, ba, abc

MCCaller == ab :> A @@ ba :> B @@ abc :> A
MCKind == ab :> "simple" @@ ba :> "simple" @@ abc :> "broadcast"
MCDests == ab :> <<B>> @@ ba :> <<A>> @@ abc :> <<B, C>>

\* Both calls cross, or the broadcast is made.
CrossOrCast == {{ab, ba}, {abc}}

\* One call at a time
OneCall == {{ab}, {abc}}

OnlyCast == {{abc}}
=============================================================================
