---------------------------- MODULE MCGameService ----------------------------
(***************************************************************************)
(* Instances of GameService for TLC.                                       *)
(***************************************************************************)
EXTENDS GameService, TLC

\* Calls and the players other than White are interchangeable.
Interchangeable == Permutations(Calls) \cup Permutations(Others)
=============================================================================
