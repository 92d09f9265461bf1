------------------------------ MODULE MCLiveBoard ------------------------------
(***************************************************************************)
(* Instances of LiveBoard for TLC.                                         *)
(***************************************************************************)
EXTENDS LiveBoard
=============================================================================
