--------------------------- MODULE MCSessionCluster ---------------------------
(***************************************************************************)
(* Instances of SessionCluster for TLC.                                    *)
(***************************************************************************)
EXTENDS SessionCluster, TLC

CONSTANTS n1, n2, c2

Hashes == n1 :> 1 @@ n2 :> 2

\* All calls but c2 are White's.
Sides == [c \in Calls |-> IF c = c2 THEN 1 ELSE 0]
=============================================================================
