-------------------------------- MODULE SmGame --------------------------------
(***************************************************************************)
(* One live game of the session manager: the gen_server of                 *)
(* services/session-manager/src/sm_game.erl, its mailbox, the Erlang       *)
(* timers it arms, its checkpoint in Redis (sm_checkpoint.erl), the loss   *)
(* of the process and its lazy restore (sm_game_sup:ensure_game/1).        *)
(*                                                                         *)
(* Time is discrete.  Requests and expired timers wait in one FIFO         *)
(* mailbox, so time passes, and timers expire, while earlier messages are  *)
(* still unhandled.  A timer that is cancelled before it expires sends     *)
(* nothing; the message of one that has expired stays in the mailbox.      *)
(*                                                                         *)
(* A player is named by the seat it holds; ids of Outsiders hold none.     *)
(***************************************************************************)
EXTENDS SmClock, FiniteSets, Sequences

CONSTANTS
    Initial,        \* initial_ms
    Increment,      \* increment_ms
    Grace,          \* grace_ms
    TTLInProgress,  \* TTL of the checkpoint of a game in progress
    TTLFinished,    \* TTL of the checkpoint of a finished game
    Outsiders,      \* ids that hold no seat (spectators, strangers)
    Requests,       \* the requests clients send in this instance
    \* Bounds of an instance:
    MaxTime,        \* the last instant
    MaxMoves,       \* moves sent to one game
    MaxQueued,      \* mailbox length up to which clients send
    MaxCrashes,     \* process losses
    MaxLostSaves    \* checkpoint writes Redis refuses

Ids == Side \cup Outsiders

Msg(type, who) == [type |-> type, who |-> who, epoch |-> 0]

\* Every request handle_call/3 answers, end_game with its winner in `who'.
AllRequests ==
    {Msg(t, p) : t \in {"move", "resign", "join", "reconnect", "disconnect",
                        "watch", "unwatch"}, p \in Ids}
        \cup {Msg("end_game", w) : w \in Side \cup {"none"}}
        \cup {Msg("snapshot", "none")}

TimerMsgs == [type : {"flag_fired"}, who : Side, epoch : Nat]
                 \cup [type : {"grace_expired"}, who : Side, epoch : {0}]

ASSUME ConstantsAssumption ==
    /\ Initial \in Nat \ {0}
    /\ Increment \in Nat
    /\ Grace \in Nat \ {0}
    /\ TTLInProgress \in Nat \ {0}
    /\ TTLFinished \in Nat \ {0}
    /\ Requests \subseteq AllRequests
    /\ MaxTime \in Nat
    /\ MaxMoves \in Nat
    /\ MaxQueued \in Nat
    /\ MaxCrashes \in Nat
    /\ MaxLostSaves \in Nat

VARIABLES
    now,         \* the clock: monotonic_time and system_time alike
    \* The process.
    up,          \* it is registered and running
    turn, clock, status, result,
    connected,   \* a side never heard of counts as connected, as in the code
    spectators,
    flag,        \* the tag of the flag timer the process believes armed
    epoch,
    mailbox,
    \* The runtime's timers: when each expires, or NoTimer.
    flagAt, graceAt,
    \* Redis.
    cp,
    \* Bounds.
    crashes, lost,
    \* History, read by no action's guard but the bound on moves.
    moves,       \* moves in the game's current line of states
    acked,       \* the value of moves a client was last told of
    inGrace      \* the absence a disconnect began is in its first window

procVars  == <<turn, clock, status, result, connected, spectators, flag, epoch>>
timerVars == <<flagAt, graceAt>>
saveVars  == <<cp, lost>>
histVars  == <<moves, acked, inGrace>>
vars == <<now, up, procVars, mailbox, timerVars, saveVars, crashes, histVars>>

NoTimer == -1
NoFlag == [side |-> "none", epoch |-> 0]
NoGrace == [s \in Side |-> NoTimer]
NoResult == [winner |-> "none", reason |-> "none"]
NoCheckpoint == [status |-> "none", ms |-> [s \in Side |-> 0], turn |-> "white",
                 result |-> NoResult, at |-> 0, moves |-> 0]

Reasons == {"flag", "resignation", "abandonment", "ended"}

Results == [winner : Side \cup {"none"}, reason : Reasons \cup {"none"}]

Checkpoints == [status : {"none", "in_progress", "finished"}, ms : [Side -> Nat],
                turn : Side, at : Nat, moves : Nat, result : Results]

Left(s) == TimeLeft(clock, s, now)

-----------------------------------------------------------------------------
(* Helpers of the process. *)

\* The value checkpoint/1 builds.
Checkpoint(t, c, st, r, m) ==
    [status |-> st,
     ms     |-> [s \in Side |-> AtLeast0(TimeLeft(c, s, now))],
     turn   |-> t,
     result |-> r,
     at     |-> now,
     moves  |-> m]

\* Mutants: only settled games, or only running ones, are checkpointed.
SaveSettledOnly(t, c, st, r, m) ==
    /\ cp' = IF st = "finished" THEN Checkpoint(t, c, st, r, m) ELSE cp
    /\ UNCHANGED lost
SaveRunningOnly(t, c, st, r, m) ==
    /\ cp' = IF st = "finished" THEN cp ELSE Checkpoint(t, c, st, r, m)
    /\ UNCHANGED lost

\* checkpoint/1 and save/1.  A refused write is reported to nobody.
Save(t, c, st, r, m) ==
    \/ cp' = Checkpoint(t, c, st, r, m) /\ UNCHANGED lost
    \/ lost < MaxLostSaves /\ lost' = lost + 1 /\ UNCHANGED cp

\* Mutants: the timer is set to a full clock; it is not set again once the first
\* one has been cancelled.
ArmFlagAfresh(c, e) ==
    /\ flag' = [side |-> c.running, epoch |-> e + 1]
    /\ flagAt' = now + Initial
    /\ epoch' = e + 1
ArmFlagOnce(c, e) ==
    flag' = NoFlag /\ flagAt' = NoTimer /\ epoch' = e

\* arm_flag_timer/1 for clock c, e being the epoch in force.
ArmFlag(c, e) ==
    IF c.running = "none"
    THEN flag' = NoFlag /\ flagAt' = NoTimer /\ epoch' = e
    ELSE /\ flag' = [side |-> c.running, epoch |-> e + 1]
         /\ flagAt' = now + AtLeast0(TimeLeft(c, c.running, now))
         /\ epoch' = e + 1

\* finish/3: cancel every timer, settle, checkpoint.  The clock is not touched.
Finish(winner, reason) ==
    /\ flag' = NoFlag
    /\ flagAt' = NoTimer
    /\ graceAt' = NoGrace
    /\ status' = "finished"
    /\ result' = [winner |-> winner, reason |-> reason]
    /\ Save(turn, clock, status', result', moves)
    /\ UNCHANGED <<turn, clock, connected, spectators, epoch, histVars>>

\* A reply that changes nothing.
Refuse == UNCHANGED <<procVars, timerVars, saveVars, histVars>>

-----------------------------------------------------------------------------
(* Message handlers. *)

\* The opponent's clock starts; the checkpoint is written before the reply.
AcceptMove ==
    /\ clock' = Moved(clock, Increment, now)
    /\ turn' = Other(turn)
    /\ ArmFlag(clock', epoch)
    /\ moves' = moves + 1
    /\ acked' = moves'
    /\ Save(turn', clock', status, result, moves')
    /\ UNCHANGED <<status, result, connected, spectators, graceAt, inGrace>>

Move(m) ==
    LET onTurn == status = "in_progress" /\ m.who = turn
    IN  \/ onTurn /\ Flagged(clock, now) /\ Finish(Other(turn), "flag")
        \/ onTurn /\ ~Flagged(clock, now) /\ AcceptMove
        \/ ~onTurn /\ Refuse

Resign(m) ==
    \/ /\ status = "in_progress" /\ m.who \in Side
       /\ Finish(Other(m.who), "resignation")
    \/ /\ status # "in_progress" \/ m.who \notin Side
       /\ Refuse

EndGame(m) ==
    \/ status = "in_progress" /\ Finish(m.who, "ended")
    \/ status # "in_progress" /\ Refuse

\* join and reconnect are the same handler body, in any status.
Connect(m) ==
    \/ /\ m.who \in Side
       /\ connected' = [connected EXCEPT ![m.who] = TRUE]
       /\ graceAt' = [graceAt EXCEPT ![m.who] = NoTimer]
       /\ inGrace' = [inGrace EXCEPT ![m.who] = FALSE]
       /\ UNCHANGED <<turn, clock, status, result, spectators, flag, epoch,
                      flagAt, saveVars, moves, acked>>
    \/ m.who \notin Side /\ Refuse

Disconnect(m) ==
    \/ /\ status = "in_progress" /\ m.who \in Side
       /\ connected' = [connected EXCEPT ![m.who] = FALSE]
       /\ graceAt' = [graceAt EXCEPT ![m.who] = now + Grace]
       /\ inGrace' = [inGrace EXCEPT ![m.who] = @ \/ connected[m.who]]
       /\ UNCHANGED <<turn, clock, status, result, spectators, flag, epoch,
                      flagAt, saveVars, moves, acked>>
    \/ /\ status # "in_progress" \/ m.who \notin Side
       /\ Refuse

Watch(m) ==
    /\ spectators' = IF m.type = "watch" THEN spectators \cup {m.who}
                                         ELSE spectators \ {m.who}
    /\ UNCHANGED <<turn, clock, status, result, connected, flag, epoch,
                   timerVars, saveVars, histVars>>

\* The two clauses of handle_info({flag_fired, Side, Epoch}, _).
FlagFired(m) ==
    LET current == /\ status = "in_progress"
                   /\ flag = [side |-> m.who, epoch |-> m.epoch]
    IN  \/ current /\ Finish(Other(m.who), "flag")
        \/ ~current /\ Refuse

\* grace_expired carries no epoch: any one of this player's windows sent it.
GraceExpired(m) ==
    LET abandoned == status = "in_progress" /\ ~connected[m.who]
    IN  \/ abandoned /\ Finish(Other(m.who), "abandonment")
        \/ ~abandoned /\ Refuse

\* The process takes the next message of its mailbox.
Handle ==
    /\ up
    /\ mailbox # <<>>
    /\ LET m == Head(mailbox) IN
         CASE m.type = "move" -> Move(m)
           [] m.type = "resign" -> Resign(m)
           [] m.type = "end_game" -> EndGame(m)
           [] m.type \in {"join", "reconnect"} -> Connect(m)
           [] m.type = "disconnect" -> Disconnect(m)
           [] m.type \in {"watch", "unwatch"} -> Watch(m)
           [] m.type = "snapshot" -> Refuse
           [] m.type = "flag_fired" -> FlagFired(m)
           [] m.type = "grace_expired" -> GraceExpired(m)
    /\ mailbox' = Tail(mailbox)
    /\ UNCHANGED <<now, up, crashes>>

-----------------------------------------------------------------------------
(* The environment: clients, the timer wheel, time, failures. *)

QueuedMoves == {i \in DOMAIN mailbox : mailbox[i].type = "move"}

Send(m) ==
    /\ up
    /\ Len(mailbox) < MaxQueued
    /\ m.type = "move" => moves + Cardinality(QueuedMoves) < MaxMoves
    /\ mailbox' = Append(mailbox, m)
    /\ UNCHANGED <<now, up, procVars, timerVars, saveVars, crashes, histVars>>

\* An armed timer expires at its instant or any time later.
FlagTimer ==
    /\ up
    /\ flagAt # NoTimer /\ flagAt <= now
    /\ mailbox' = Append(mailbox, [type |-> "flag_fired", who |-> flag.side,
                                   epoch |-> flag.epoch])
    /\ flagAt' = NoTimer
    /\ UNCHANGED <<now, up, procVars, graceAt, saveVars, crashes, histVars>>

GraceTimer(s) ==
    /\ up
    /\ graceAt[s] # NoTimer /\ graceAt[s] <= now
    /\ mailbox' = Append(mailbox, Msg("grace_expired", s))
    /\ graceAt' = [graceAt EXCEPT ![s] = NoTimer]
    /\ inGrace' = [inGrace EXCEPT ![s] = FALSE]
    /\ UNCHANGED <<now, up, procVars, flagAt, saveVars, crashes, moves, acked>>

Tick ==
    /\ now < MaxTime
    /\ now' = now + 1
    /\ UNCHANGED <<up, procVars, mailbox, timerVars, saveVars, crashes, histVars>>

\* The process or its node dies: mailbox and timers go with it.  The other
\* process variables keep the values the players last saw until a restore.
Crash ==
    /\ up
    /\ crashes < MaxCrashes
    /\ crashes' = crashes + 1
    /\ up' = FALSE
    /\ mailbox' = <<>>
    /\ flagAt' = NoTimer
    /\ graceAt' = NoGrace
    /\ UNCHANGED <<now, procVars, saveVars, histVars>>

\* A later call finds no process and re-homes the game: ensure_game/1, then
\* init/1 and init_restore/2.  Presence and spectators start empty.
Elapsed == AtLeast0(now - cp.at)

\* Mutant: the outage is not charged to the side to move.
Undeducted == cp.ms

Deducted == [cp.ms EXCEPT ![cp.turn] = AtLeast0(@ - Elapsed)]

Restore ==
    /\ ~up
    /\ cp.status # "none"
    /\ up' = TRUE
    /\ turn' = cp.turn
    /\ connected' = [s \in Side |-> TRUE]
    /\ spectators' = {}
    /\ moves' = cp.moves
    /\ inGrace' = [s \in Side |-> FALSE]
    /\ UNCHANGED <<now, mailbox, graceAt, crashes, acked>>
    /\ \/ /\ cp.status = "finished"
          /\ clock' = Restored(cp.ms, "none", now)
          /\ status' = "finished"
          /\ result' = cp.result
          /\ flag' = NoFlag /\ flagAt' = NoTimer /\ epoch' = 0
          /\ UNCHANGED saveVars
       \/ /\ cp.status = "in_progress"
          /\ Deducted[cp.turn] <= 0
          /\ clock' = Restored(Deducted, cp.turn, now)
          /\ status' = "finished"
          /\ result' = [winner |-> Other(cp.turn), reason |-> "flag"]
          /\ flag' = NoFlag /\ flagAt' = NoTimer /\ epoch' = 0
          /\ Save(turn', clock', status', result', moves')
       \/ /\ cp.status = "in_progress"
          /\ Deducted[cp.turn] > 0
          /\ clock' = Restored(Deducted, cp.turn, now)
          /\ status' = "in_progress"
          /\ result' = NoResult
          /\ ArmFlag(clock', 0)
          /\ Save(turn', clock', status', result', moves')

\* Redis drops a checkpoint at the end of its TTL.
TTL(st) == IF st = "finished" THEN TTLFinished ELSE TTLInProgress

Expire ==
    /\ cp.status # "none"
    /\ now - cp.at >= TTL(cp.status)
    /\ cp' = NoCheckpoint
    /\ UNCHANGED <<now, up, procVars, mailbox, timerVars, lost, crashes, histVars>>

-----------------------------------------------------------------------------
\* init_fresh/2: full clocks, White to move, flag armed, first checkpoint.
Init ==
    /\ now = 0
    /\ up = TRUE
    /\ turn = "white"
    /\ clock = Start(New(Initial), "white", 0)
    /\ status = "in_progress"
    /\ result = NoResult
    /\ connected = [s \in Side |-> TRUE]
    /\ spectators = {}
    /\ flag = [side |-> "white", epoch |-> 1]
    /\ epoch = 1
    /\ mailbox = <<>>
    /\ flagAt = Initial
    /\ graceAt = NoGrace
    /\ \/ /\ cp = [NoCheckpoint EXCEPT !.status = "in_progress",
                                         !.ms = [s \in Side |-> Initial]]
          /\ lost = 0
       \/ /\ cp = NoCheckpoint
          /\ lost = 1 /\ MaxLostSaves > 0
    /\ crashes = 0
    /\ moves = 0
    /\ acked = 0
    /\ inGrace = [s \in Side |-> FALSE]

Next ==
    \/ Handle
    \/ \E m \in Requests : Send(m)
    \/ FlagTimer
    \/ \E s \in Side : GraceTimer(s)
    \/ Tick
    \/ Crash
    \/ Restore
    \/ Expire

Spec == Init /\ [][Next]_vars

\* The runtime delivers due timers, the process drains its mailbox and time
\* passes.  Nothing obliges clients to call, so Restore is not fair.
FairSpec ==
    /\ Spec
    /\ WF_vars(Handle)
    /\ WF_vars(FlagTimer)
    /\ \A s \in Side : WF_vars(GraceTimer(s))
    /\ WF_vars(Tick)

-----------------------------------------------------------------------------
(* What the session promises. *)

TypeOK ==
    /\ now \in Nat
    /\ up \in BOOLEAN
    /\ turn \in Side
    /\ clock \in Clock
    /\ status \in {"in_progress", "finished"}
    /\ result \in Results
    /\ connected \in [Side -> BOOLEAN]
    /\ spectators \subseteq Ids
    /\ flag \in [side : Side \cup {"none"}, epoch : Nat]
    /\ epoch \in Nat
    /\ mailbox \in Seq(AllRequests \cup TimerMsgs)
    /\ flagAt \in Nat \cup {NoTimer}
    /\ graceAt \in [Side -> Nat \cup {NoTimer}]
    /\ cp \in Checkpoints
    /\ crashes \in Nat /\ lost \in Nat
    /\ moves \in Nat /\ acked \in Nat
    /\ inGrace \in [Side -> BOOLEAN]

FlagMsg == [type |-> "flag_fired", who |-> flag.side, epoch |-> flag.epoch]

InMailbox(m) == \E i \in DOMAIN mailbox : mailbox[i] = m

\* No move, outage or restore creates or destroys thinking time: what both
\* players have left plus the time since the start is what they were given
\* (sm_clock:on_move/2, and the deduction in sm_game:init_restore/2).
TimeConserved ==
    status = "in_progress" =>
        Left("white") + Left("black") + now = 2 * Initial + Increment * moves

\* A running game always has its flag-fall coming: the flag timer is armed for
\* the exact instant the side to move runs out, or it has expired and its
\* message, with the tag the process expects, is in the mailbox (arm_flag_timer
\* after every move and restore).
FlagArmed ==
    up /\ status = "in_progress" =>
        /\ flag.side = turn
        /\ \/ flagAt = clock.since + clock.ms[turn]
           \/ flagAt = NoTimer /\ InMailbox(FlagMsg)

\* While the game runs every flag_fired in the mailbox is the current one: a
\* move handled after the timer expired is itself flagged by on_move/2, so the
\* epoch comparison never has a stale message to reject.
NoStaleFlag ==
    up /\ status = "in_progress" =>
        \A i \in DOMAIN mailbox :
            mailbox[i].type = "flag_fired" => mailbox[i] = FlagMsg

\* A game lost on time was lost by the side to move with its clock exhausted,
\* whether the flag fell on a move, on the timer or during an outage.
FlagJust ==
    status = "finished" /\ result.reason = "flag" =>
        result.winner = Other(turn) /\ Left(turn) <= 0

\* A disconnected player's grace window is running, or it has elapsed and its
\* message waits: no disconnect is forgotten while the process lives.
GraceArmed ==
    \A s \in Side :
        up /\ status = "in_progress" /\ ~connected[s] =>
            graceAt[s] # NoTimer \/ InMailbox(Msg("grace_expired", s))

\* Whatever was queued, cancelled and armed again on the way, a running game has its
\* flag-fall coming at the right instant, no flag-fall of an earlier turn behind it,
\* and the end of every grace window that has begun (arm_flag_timer/1 and the timers
\* of handle_call({disconnect, _})).
TimersArmed == FlagArmed /\ NoStaleFlag /\ GraceArmed

\* As long as Redis has refused no write, a move a client was told of is never
\* lost, through any number of crashes and restores ("Persist the new
\* clock/turn before acking", sm_game.erl:114).
AckedMovesSurvive == lost = 0 => moves >= acked

\* As long as Redis has refused no write, a decided game keeps its result: no
\* later message, timer, crash or restore reopens or overwrites it.
ResultStable ==
    [][lost' = 0 /\ status = "finished" =>
           status' = "finished" /\ result' = result]_vars

\* A running game whose process stays alive ends: nobody can hold it open by
\* not moving (flag-fall is "timer-driven, even if idle", sm_game.erl:6).
GameEnds == (up /\ status = "in_progress") ~> (~up \/ status = "finished")

\* The session implements the ideal chess clock of GameContract, in which there
\* are no timers, mailboxes, checkpoints or crashes: an outage is invisible but
\* for the time it costs the side to move.  Up to the first write that Redis
\* refuses, every step is one of the contract, or none that shows.
Contract == INSTANCE GameContract WITH
    budget <- [s \in Side |-> IF status = "in_progress" THEN Left(s) ELSE 0]

ImplementsContract ==
    Contract!Init /\ [][lost' = 0 => [Contract!Next]_(Contract!vars)]_vars
=============================================================================
