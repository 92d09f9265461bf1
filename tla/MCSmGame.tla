------------------------------- MODULE MCSmGame -------------------------------
(***************************************************************************)
(* Instances of SmGame for TLC.                                            *)
(***************************************************************************)
EXTENDS SmGame

\* Both players play; White may resign, Black leaves and comes back; a spectator
\* comes and goes, someone asks for the state, and the game-service reports an end.
MixedRequests ==
    {Msg("move", "white"), Msg("move", "black"), Msg("resign", "white"),
     Msg("disconnect", "black"), Msg("join", "black"), Msg("end_game", "black"),
     Msg("snapshot", "none")}
        \cup {Msg(t, p) : t \in {"watch", "unwatch"}, p \in Outsiders}
=============================================================================
