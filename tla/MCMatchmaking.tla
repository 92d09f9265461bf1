---------------------------- MODULE MCMatchmaking ----------------------------
(***************************************************************************)
(* Instances of Matchmaking for TLC.                                       *)
(***************************************************************************)
EXTENDS Matchmaking, TLC

CONSTANTS p1, p2, p3

\* Neighbours at the edge of the initial band, and one further away.
Ladder == p1 :> 10 @@ p2 :> 11 @@ p3 :> 13

Interchangeable == Permutations(Calls)
=============================================================================
