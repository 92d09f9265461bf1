------------------------------- MODULE SmClock -------------------------------
(***************************************************************************)
(* The chess clock of services/session-manager/src/sm_clock.erl: pure      *)
(* functions over a clock value.  A clock holds the stored milliseconds of *)
(* each side, the side whose clock is running (or "none") and the instant  *)
(* at which that side's turn began.  As in the code, the current time is   *)
(* an argument of every function.  The Fischer increment is a constant of  *)
(* a game and is passed where it is used.                                  *)
(***************************************************************************)
EXTENDS Integers

Side == {"white", "black"}

Other(s) == IF s = "white" THEN "black" ELSE "white"

\* max(0, N).
AtLeast0(n) == IF n < 0 THEN 0 ELSE n

\* `since' is meaningless while `running' is "none": the code's `undefined'.
Clock == [ms : [Side -> Int], running : Side \cup {"none"}, since : Int]

New(initial) ==
    [ms |-> [s \in Side |-> initial], running |-> "none", since |-> 0]

Start(c, side, now) == [c EXCEPT !.running = side, !.since = now]

\* The live value of a side's clock; negative once the flag is overdue.
TimeLeft(c, side, now) ==
    IF c.running = side THEN c.ms[side] - (now - c.since) ELSE c.ms[side]

\* Mutant: a move at the very instant the clock runs out is accepted.
FlaggedLate(c, now) == c.running # "none" /\ TimeLeft(c, c.running, now) < 0

\* on_move/2 answers {flag, Side} exactly when this holds ...
Flagged(c, now) == c.running # "none" /\ TimeLeft(c, c.running, now) <= 0

\* Mutant: the increment goes to the opponent.
MovedForOpponent(c, inc, now) ==
    [ms      |-> [s \in Side |-> IF s = c.running THEN TimeLeft(c, s, now)
                                                 ELSE c.ms[s] + inc],
     running |-> Other(c.running),
     since   |-> now]

\* ... and {ok, Moved} otherwise.
Moved(c, inc, now) ==
    IF c.running = "none"
    THEN c
    ELSE [ms      |-> [c.ms EXCEPT ![c.running] = TimeLeft(c, c.running, now) + inc],
          running |-> Other(c.running),
          since   |-> now]

Restored(ms, running, now) == [ms |-> ms, running |-> running, since |-> now]
=============================================================================
