------------------------------ MODULE MCBuild ------------------------------
(* A unit with two record types in its interface, and a program with one of    *)
(* its own that uses the unit and a library.                                   *)
EXTENDS Build, TLC

CONSTANTS A, P, L

MCUses == A :> {} @@ P :> {A, L}
MCPublic == A :> 2 @@ P :> 0
MCPrivate == A :> 0 @@ P :> 1
MCMistakes == A :> {"interface", "body"} @@ P :> {"twice", "library", "constant"}
=============================================================================
