----------------------------- MODULE GameContract -----------------------------
(***************************************************************************)
(* What a live game promises its players, whatever runs underneath: turns  *)
(* alternate, only the side to move burns time, a move must beat the flag  *)
(* and earns the increment, time runs out for the side to move only, and   *)
(* the first result is final.  SmGame is shown to implement this.          *)
(***************************************************************************)
EXTENDS SmClock

CONSTANTS Initial, Increment

VARIABLES turn, status, result, budget

vars == <<turn, status, result, budget>>

Init ==
    /\ turn = "white"
    /\ status = "in_progress"
    /\ result = [winner |-> "none", reason |-> "none"]
    /\ budget = [s \in Side |-> Initial]

Think ==
    /\ status = "in_progress"
    /\ budget' = [budget EXCEPT ![turn] = @ - 1]
    /\ UNCHANGED <<turn, status, result>>

Play ==
    /\ status = "in_progress"
    /\ budget[turn] > 0
    /\ budget' = [budget EXCEPT ![turn] = @ + Increment]
    /\ turn' = Other(turn)
    /\ UNCHANGED <<status, result>>

\* Once a game is settled its clocks no longer count.
Settle(winner, reason) ==
    /\ status = "in_progress"
    /\ status' = "finished"
    /\ result' = [winner |-> winner, reason |-> reason]
    /\ budget' = [s \in Side |-> 0]
    /\ UNCHANGED turn

FlagFall == budget[turn] <= 0 /\ Settle(Other(turn), "flag")

Concede == \E s \in Side : \E r \in {"resignation", "abandonment"} : Settle(s, r)

Adjudicate == \E w \in Side \cup {"none"} : Settle(w, "ended")

Next == Think \/ Play \/ FlagFall \/ Concede \/ Adjudicate

Spec == Init /\ [][Next]_vars
=============================================================================
