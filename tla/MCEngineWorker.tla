---------------------------- MODULE MCEngineWorker ----------------------------
(***************************************************************************)
(* Instances of EngineWorker for TLC.                                      *)
(***************************************************************************)
EXTENDS EngineWorker, TLC

CONSTANTS a1, a2, m1, p1, p2

\* Two calls of the analysis pipeline about one position, and one of the play path
\* about another, which the book may have.
Fens == a1 :> p1 @@ a2 :> p1 @@ m1 :> p2
=============================================================================
