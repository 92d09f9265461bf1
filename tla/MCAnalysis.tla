------------------------------ MODULE MCAnalysis ------------------------------
(***************************************************************************)
(* An instance of Analysis for TLC: two workers, two partitions, a game    *)
(* with a record that does not parse behind it, and a game that repeats    *)
(* the first and goes on.                                                  *)
(***************************************************************************)
EXTENDS Analysis, TLC

CONSTANTS p1, p2, g1, g2, bad

MCLog == p1 :> <<g1, bad>> @@ p2 :> <<g2>>

MCLine == g1 :> <<"start", "e4">> @@ g2 :> <<"start", "e4", "e5">>
=============================================================================
