------------------------------- MODULE MCFanout -------------------------------
(***************************************************************************)
(* Instances of Fanout, with the relays that feed it, for TLC.             *)
(***************************************************************************)
EXTENDS Fanout
=============================================================================
