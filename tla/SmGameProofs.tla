----------------------------- MODULE SmGameProofs -----------------------------
(***************************************************************************)
(* Proofs that SmGame keeps its promises for every time control, grace     *)
(* window, TTL, set of callers and bound: type correctness first, then one *)
(* inductive invariant from which the safety properties of SmGame follow.  *)
(***************************************************************************)
EXTENDS SmGame, TLAPS

-----------------------------------------------------------------------------
(* The inductive invariant. *)

\* The side to move is the side whose clock runs, and both stored times are
\* positive: a stored time is only ever set to what beat the flag.
ClockRuns ==
    status = "in_progress" =>
        clock.running = turn /\ \A s \in Side : clock.ms[s] > 0

\* A flag-fall message in the mailbox of a running game is overdue: this is why
\* no move can be accepted while one is waiting.
FlagOverdue ==
    up /\ status = "in_progress" =>
        \A i \in DOMAIN mailbox : mailbox[i].type = "flag_fired" => Left(turn) <= 0

\* A dead process has no mail.
DownQuiet == ~up => mailbox = <<>>

\* A checkpoint is from the past and conserves time as the live game does.
CheckpointConserved ==
    /\ cp.at <= now
    /\ cp.status = "in_progress" =>
           /\ \A s \in Side : cp.ms[s] > 0
           /\ cp.ms["white"] + cp.ms["black"] + cp.at = 2 * Initial + Increment * cp.moves

\* A checkpointed loss on time is as well founded as a live one.
CheckpointJust ==
    cp.status = "finished" /\ cp.result.reason = "flag" =>
        cp.result.winner = Other(cp.turn) /\ cp.ms[cp.turn] = 0

\* Unless Redis has refused a write, the checkpoint knows every acknowledged
\* move and every result.
CheckpointCurrent ==
    lost = 0 /\ cp.status # "none" =>
        /\ cp.moves >= acked
        /\ status = "finished" => cp.status = "finished" /\ cp.result = result

ClockInv == ClockRuns /\ TimeConserved /\ CheckpointConserved

FlagInv ==
    FlagArmed /\ NoStaleFlag /\ FlagOverdue /\ DownQuiet /\ FlagJust /\ CheckpointJust

DurableInv == AckedMovesSurvive /\ CheckpointCurrent

IInv == TypeOK /\ ClockInv /\ FlagInv /\ GraceArmed /\ DurableInv

-----------------------------------------------------------------------------
(* Facts about messages, mailboxes and checkpoints. *)

Messages == AllRequests \cup TimerMsgs

\* What the type of a message says about its sender or subject.
LEMMA MessageShape ==
    ASSUME NEW m \in Messages
    PROVE  /\ m.type \in {"move", "resign", "join", "reconnect", "disconnect", "watch",
                          "unwatch", "end_game", "snapshot", "flag_fired", "grace_expired"}
           /\ m.epoch \in Nat
           /\ m.type = "end_game" => m.who \in Side \cup {"none"}
           /\ m.type \in {"watch", "unwatch"} => m.who \in Ids
           /\ m.type \in {"flag_fired", "grace_expired"} => m.who \in Side
  BY DEF Messages, AllRequests, TimerMsgs, Msg, Ids, Side

\* Taking the head of a mailbox.
LEMMA MailboxTail ==
    ASSUME NEW q \in Seq(Messages), q # <<>>
    PROVE  /\ Head(q) \in Messages
           /\ Tail(q) \in Seq(Messages)
           /\ \A i \in DOMAIN Tail(q) : i + 1 \in DOMAIN q /\ Tail(q)[i] = q[i + 1]
           /\ \A i \in DOMAIN q : q[i] = Head(q) \/ (i - 1 \in DOMAIN Tail(q) /\ Tail(q)[i - 1] = q[i])
  OBVIOUS

\* Adding a message to one.
LEMMA MailboxAppend ==
    ASSUME NEW q \in Seq(Messages), NEW m \in Messages
    PROVE  /\ Append(q, m) \in Seq(Messages)
           /\ \A i \in DOMAIN q : i \in DOMAIN Append(q, m) /\ Append(q, m)[i] = q[i]
           /\ \A i \in DOMAIN Append(q, m) :
                  Append(q, m)[i] = m \/ (i \in DOMAIN q /\ Append(q, m)[i] = q[i])
           /\ \E i \in DOMAIN Append(q, m) : Append(q, m)[i] = m
  <1>1. Len(q) + 1 \in DOMAIN Append(q, m) /\ Append(q, m)[Len(q) + 1] = m
    OBVIOUS
  <1> QED
    BY <1>1

LEMMA OtherSide ==
    ASSUME NEW s \in Side
    PROVE  /\ Other(s) \in Side
           /\ Other(s) # s
           /\ Other(Other(s)) = s
           /\ \A t \in Side : t = s \/ t = Other(s)
  BY DEF Side, Other

LEMMA Clamp ==
    ASSUME NEW n \in Int
    PROVE  /\ AtLeast0(n) \in Nat
           /\ n >= 0 => AtLeast0(n) = n
           /\ n <= 0 => AtLeast0(n) = 0
  BY DEF AtLeast0

\* What a clock reads, at any instant.
LEMMA ClockReads ==
    ASSUME NEW c \in Clock, NEW t \in Int, NEW s \in Side
    PROVE  /\ TimeLeft(c, s, t) \in Int
           /\ c.running = s => TimeLeft(c, s, t) = c.ms[s] - (t - c.since)
           /\ c.running # s => TimeLeft(c, s, t) = c.ms[s]
  BY DEF Clock, TimeLeft

\* A checkpoint is well formed, and so is Redis after any attempt to save.
LEMMA CheckpointType ==
    ASSUME now \in Nat, NEW t \in Side, NEW c \in Clock,
           NEW st \in {"in_progress", "finished"}, NEW r \in Results, NEW m \in Nat
    PROVE  Checkpoint(t, c, st, r, m) \in Checkpoints
  <1>1. \A s \in Side : AtLeast0(TimeLeft(c, s, now)) \in Nat
    BY ClockReads, Clamp
  <1> QED
    BY <1>1 DEF Checkpoint, Checkpoints

LEMMA SaveType ==
    ASSUME TypeOK, NEW t \in Side, NEW c \in Clock,
           NEW st \in {"in_progress", "finished"}, NEW r \in Results, NEW m \in Nat,
           Save(t, c, st, r, m)
    PROVE  cp' \in Checkpoints /\ lost' \in Nat
  <1>1. Checkpoint(t, c, st, r, m) \in Checkpoints
    BY CheckpointType DEF TypeOK
  <1> QED
    BY <1>1 DEF Save, TypeOK

LEMMA ArmFlagType ==
    ASSUME TypeOK, NEW c \in Clock, NEW e \in Nat, ArmFlag(c, e)
    PROVE  /\ flag' \in [side : Side \cup {"none"}, epoch : Nat]
           /\ flagAt' \in Nat \cup {NoTimer}
           /\ epoch' \in Nat
  <1>1. c.running # "none" => AtLeast0(TimeLeft(c, c.running, now)) \in Nat
    <2> SUFFICES ASSUME c.running # "none"
                 PROVE  AtLeast0(TimeLeft(c, c.running, now)) \in Nat
      OBVIOUS
    <2>1. c.running \in Side /\ now \in Int
      BY DEF TypeOK, Clock
    <2>2. TimeLeft(c, c.running, now) \in Int
      BY <2>1, ClockReads
    <2> QED
      BY <2>2, Clamp
  <1> QED
    BY <1>1, SMTT(20) DEF ArmFlag, TypeOK, Clock, NoFlag

LEMMA MovedType ==
    ASSUME NEW c \in Clock, NEW inc \in Nat, NEW t \in Nat, c.running # "none"
    PROVE  /\ Moved(c, inc, t) \in Clock
           /\ Moved(c, inc, t).running = Other(c.running)
           /\ Moved(c, inc, t).since = t
           /\ Moved(c, inc, t).ms[c.running] = TimeLeft(c, c.running, t) + inc
           /\ Moved(c, inc, t).ms[Other(c.running)] = c.ms[Other(c.running)]
  <1>1. c.running \in Side /\ TimeLeft(c, c.running, t) \in Int
    BY ClockReads DEF Clock
  <1> QED
    BY <1>1, OtherSide DEF Moved, Clock

-----------------------------------------------------------------------------
(* Handling a message has one of four effects. *)

\* The ways a handler settles the game; a loss on time has its two reasons, and
\* only an end that the game-service reports may have no winner.
Settles(m) ==
    \E w \in Side \cup {"none"}, r \in Reasons :
        /\ status = "in_progress"
        /\ Finish(w, r)
        /\ r # "ended" => w \in Side
        /\ r = "flag" /\ FlagArmed => w = Other(turn) /\ (Flagged(clock, now) \/ m = FlagMsg)

\* A change of presence or audience, and of nothing else.  A side that is away
\* afterwards has a timer of its own or had it all along.
Attends ==
    /\ UNCHANGED <<turn, clock, status, result, flag, epoch, flagAt, saveVars, moves, acked>>
    /\ connected' \in [Side -> BOOLEAN]
    /\ spectators' \subseteq Ids
    /\ graceAt' \in [Side -> Nat \cup {NoTimer}]
    /\ inGrace' \in [Side -> BOOLEAN]
    /\ \A s \in Side : ~connected'[s] =>
           graceAt'[s] # NoTimer \/ (~connected[s] /\ graceAt'[s] = graceAt[s])

\* One step of the process: which message it takes and which effect that has.
Takes(m) ==
    /\ up = TRUE /\ mailbox # <<>>
    /\ mailbox \in Seq(Messages)
    /\ m = Head(mailbox) /\ m \in Messages
    /\ mailbox' = Tail(mailbox)
    /\ UNCHANGED <<now, up, crashes>>
    /\ \/ Refuse /\ (m = FlagMsg /\ FlagArmed => status # "in_progress")
                 /\ (m.type = "grace_expired" => status # "in_progress" \/ connected[m.who])
       \/ Settles(m)
       \/ /\ status = "in_progress" /\ ~Flagged(clock, now) /\ AcceptMove
          /\ m.type = "move"
       \/ Attends /\ m.type \notin {"flag_fired", "grace_expired"}

LEMMA HandleTakes ==
    ASSUME TypeOK, Handle
    PROVE  \E m \in Messages : Takes(m)
  <1> DEFINE m == Head(mailbox)
  <1>1. /\ mailbox \in Seq(Messages) /\ mailbox # <<>> /\ up = TRUE
        /\ m \in Messages /\ mailbox' = Tail(mailbox) /\ UNCHANGED <<now, up, crashes>>
    BY MailboxTail DEF Handle, TypeOK, Messages
  <1> HIDE DEF m
  <1> DEFINE Effect ==
        \/ Refuse /\ (m = FlagMsg /\ FlagArmed => status # "in_progress")
                  /\ (m.type = "grace_expired" => status # "in_progress" \/ connected[m.who])
        \/ Settles(m)
        \/ /\ status = "in_progress" /\ ~Flagged(clock, now) /\ AcceptMove
           /\ m.type = "move"
        \/ Attends /\ m.type \notin {"flag_fired", "grace_expired"}
  <1> SUFFICES Effect
    BY <1>1 DEF Takes, m
  <1>2. /\ m.type = "end_game" => m.who \in Side \cup {"none"}
        /\ m.type \in {"watch", "unwatch"} => m.who \in Ids
        /\ m.type \in {"flag_fired", "grace_expired"} => m.who \in Side
    BY <1>1, MessageShape
  <1>3. FlagMsg.type = "flag_fired" /\ turn \in Side /\ Other(turn) \in Side
    BY OtherSide DEF FlagMsg, TypeOK
  <1>4. ASSUME m.type = "move", Move(m) PROVE Effect
    BY <1>3, <1>4 DEF Move, Settles, Reasons
  <1>5. ASSUME m.type = "resign", Resign(m) PROVE Effect
    <2>1. m.who \in Side => Other(m.who) \in Side
      BY OtherSide
    <2> QED
      BY <1>3, <1>5, <2>1 DEF Resign, Settles, Reasons
  <1>6. ASSUME m.type = "end_game", EndGame(m) PROVE Effect
    BY <1>2, <1>3, <1>6 DEF EndGame, Settles, Reasons
  <1>7. ASSUME m.type \in {"join", "reconnect"}, Connect(m) PROVE Effect
    <2>1. CASE m.who \notin Side
      BY <1>3, <1>7, <2>1 DEF Connect
    <2>2. CASE m.who \in Side
      BY <1>7, <2>2 DEF Connect, Attends, TypeOK, saveVars, NoTimer
    <2> QED
      BY <2>1, <2>2
  <1>8. ASSUME m.type = "disconnect", Disconnect(m) PROVE Effect
    <2>1. CASE ~(status = "in_progress" /\ m.who \in Side)
      BY <1>3, <1>8, <2>1 DEF Disconnect
    <2>2. CASE status = "in_progress" /\ m.who \in Side
      <3>1. now + Grace \in Nat /\ now + Grace # NoTimer
        BY ConstantsAssumption DEF TypeOK, NoTimer
      <3> QED
        BY <1>8, <2>2, <3>1 DEF Disconnect, Attends, TypeOK, saveVars
    <2> QED
      BY <2>1, <2>2
  <1>9. ASSUME m.type \in {"watch", "unwatch"}, Watch(m) PROVE Effect
    BY <1>2, <1>9 DEF Watch, Attends, TypeOK, saveVars, timerVars, histVars
  <1>10. ASSUME m.type = "flag_fired", FlagFired(m) PROVE Effect
    <2>1. CASE status = "in_progress" /\ flag = [side |-> m.who, epoch |-> m.epoch]
      <3>1. m = FlagMsg /\ Other(m.who) \in Side
        BY <1>1, <1>2, <1>10, <2>1, OtherSide
        DEF FlagMsg, Messages, AllRequests, TimerMsgs, Msg
      <3>2. FlagArmed => m.who = turn
        BY <1>1, <2>1 DEF FlagArmed
      <3> QED
        BY <1>10, <2>1, <3>1, <3>2 DEF FlagFired, Settles, Reasons
    <2>2. CASE ~(status = "in_progress" /\ flag = [side |-> m.who, epoch |-> m.epoch])
      BY <1>10, <2>2 DEF FlagFired, FlagMsg, TypeOK
    <2> QED
      BY <2>1, <2>2
  <1>11. ASSUME m.type = "grace_expired", GraceExpired(m) PROVE Effect
    <2>1. Other(m.who) \in Side
      BY <1>2, <1>11, OtherSide
    <2> QED
      BY <1>2, <1>3, <1>11, <2>1 DEF GraceExpired, Settles, Reasons
  <1>12. ASSUME m.type = "snapshot", Refuse PROVE Effect
    BY <1>3, <1>12
  <1> QED
    BY <1>1, <1>4, <1>5, <1>6, <1>7, <1>8, <1>9, <1>10, <1>11, <1>12, MessageShape
    DEF Handle, m


-----------------------------------------------------------------------------
(* Type correctness. *)

LEMMA RestoredType ==
    ASSUME TypeOK
    PROVE  /\ Deducted \in [Side -> Nat]
           /\ Restored(Deducted, cp.turn, now) \in Clock
           /\ Restored(cp.ms, "none", now) \in Clock
  <1>1. cp.ms \in [Side -> Nat] /\ cp.turn \in Side /\ cp.at \in Nat /\ now \in Nat
    BY DEF TypeOK, Checkpoints
  <1>2. Elapsed \in Nat
    BY <1>1, Clamp DEF Elapsed
  <1>3. AtLeast0(cp.ms[cp.turn] - Elapsed) \in Nat
    BY <1>1, <1>2, Clamp
  <1> QED
    BY <1>1, <1>3 DEF Deducted, Restored, Clock

\* An armed flag timer is tagged with a side: what its message will carry.
FlagTagged == flagAt # NoTimer => flag.side \in Side

LEMMA InitType == Init => TypeOK /\ FlagTagged
  <1> SUFFICES ASSUME Init PROVE TypeOK /\ FlagTagged
    OBVIOUS
  <1>1. clock \in Clock
    <2>1. clock = [ms |-> [s \in Side |-> Initial], running |-> "white", since |-> 0]
      BY DEF Init, Start, New
    <2>2. "white" \in Side
      BY DEF Side
    <2> QED
      BY <2>1, <2>2, ConstantsAssumption DEF Clock
  <1>2. cp \in Checkpoints /\ lost \in Nat
    <2>1. NoCheckpoint \in Checkpoints
      BY DEF NoCheckpoint, Checkpoints, NoResult, Results, Side
    <2>2. [NoCheckpoint EXCEPT !.status = "in_progress", !.ms = [s \in Side |-> Initial]]
              \in Checkpoints
      BY <2>1, ConstantsAssumption DEF Checkpoints
    <2> QED
      BY <2>1, <2>2 DEF Init
  <1>3. /\ turn \in Side /\ status \in {"in_progress", "finished"} /\ result \in Results
        /\ flag \in [side : Side \cup {"none"}, epoch : Nat] /\ flag.side \in Side
        /\ graceAt \in [Side -> Nat \cup {NoTimer}] /\ flagAt \in Nat \cup {NoTimer}
    BY ConstantsAssumption DEF Init, Side, NoResult, Results, NoGrace
  <1>4. /\ now \in Nat /\ up \in BOOLEAN /\ connected \in [Side -> BOOLEAN]
        /\ spectators \subseteq Ids /\ epoch \in Nat /\ crashes \in Nat
        /\ moves \in Nat /\ acked \in Nat /\ inGrace \in [Side -> BOOLEAN]
    BY DEF Init
  <1>5. mailbox \in Seq(AllRequests \cup TimerMsgs)
    BY DEF Init
  <1> QED
    BY <1>1, <1>2, <1>3, <1>4, <1>5 DEF TypeOK, FlagTagged

LEMMA TypeStep ==
    ASSUME TypeOK, FlagTagged, [Next]_vars
    PROVE  TypeOK'
  <1>0. /\ NoFlag \in [side : Side \cup {"none"}, epoch : Nat]
        /\ NoGrace \in [Side -> Nat \cup {NoTimer}]
        /\ NoResult \in Results
        /\ NoCheckpoint \in Checkpoints
    BY DEF NoFlag, NoGrace, NoResult, NoCheckpoint, Results, Checkpoints, Side
  <1>1. CASE Handle
    <2>1. PICK m \in Messages : Takes(m)
      BY <1>1, HandleTakes
    <2>2. mailbox' \in Seq(AllRequests \cup TimerMsgs) /\ now' \in Nat /\ up' \in BOOLEAN /\ crashes' \in Nat
      BY <2>1, MailboxTail DEF Takes, TypeOK, Messages
    <2>3. CASE Refuse
      BY <2>2, <2>3 DEF Refuse, TypeOK, procVars, timerVars, saveVars, histVars
    <2>4. CASE Settles(m)
      <3>1. PICK w \in Side \cup {"none"}, r \in Reasons : Finish(w, r)
        BY <2>4 DEF Settles
      <3>2. result' \in Results /\ status' \in {"in_progress", "finished"}
        BY <3>1 DEF Finish, Results
      <3>3. cp' \in Checkpoints /\ lost' \in Nat
        BY <3>1, <3>2, SaveType DEF Finish, TypeOK
      <3> QED
        BY <1>0, <2>2, <3>1, <3>2, <3>3 DEF Finish, TypeOK, histVars
    <2>5. CASE /\ status = "in_progress" /\ ~Flagged(clock, now) /\ AcceptMove
      <3>1. clock' \in Clock
        <4>1. CASE clock.running = "none"
          BY <2>5, <4>1 DEF AcceptMove, Moved, TypeOK
        <4>2. CASE clock.running # "none"
          BY <2>5, <4>2, MovedType, ConstantsAssumption DEF AcceptMove, TypeOK
        <4> QED
          BY <4>1, <4>2
      <3>2. turn' \in Side /\ moves' \in Nat /\ acked' \in Nat
        BY <2>5, OtherSide DEF AcceptMove, TypeOK
      <3>3. /\ flag' \in [side : Side \cup {"none"}, epoch : Nat]
            /\ flagAt' \in Nat \cup {NoTimer}
            /\ epoch' \in Nat
        BY <2>5, <3>1, ArmFlagType DEF AcceptMove, TypeOK
      <3>4. cp' \in Checkpoints /\ lost' \in Nat
        BY <2>5, <3>1, <3>2, SaveType DEF AcceptMove, TypeOK
      <3> QED
        BY <2>2, <2>5, <3>1, <3>2, <3>3, <3>4 DEF AcceptMove, TypeOK
    <2>6. CASE Attends
      BY <2>2, <2>6 DEF Attends, TypeOK, saveVars
    <2> QED
      BY <2>1, <2>3, <2>4, <2>5, <2>6 DEF Takes
  <1>2. ASSUME NEW m \in Requests, Send(m) PROVE TypeOK'
    <2>1. m \in Messages /\ mailbox \in Seq(Messages)
      BY ConstantsAssumption DEF Messages, TypeOK
    <2>2. mailbox' \in Seq(AllRequests \cup TimerMsgs)
      BY <1>2, <2>1, MailboxAppend DEF Send, Messages
    <2> QED
      BY <1>2, <2>2 DEF Send, TypeOK, procVars, timerVars, saveVars, histVars
  <1>3. CASE FlagTimer
    <2>1. FlagMsg \in Messages /\ mailbox \in Seq(Messages)
      BY <1>3 DEF FlagTimer, FlagTagged, FlagMsg, TypeOK, Messages, TimerMsgs
    <2>2. mailbox' \in Seq(AllRequests \cup TimerMsgs)
      BY <1>3, <2>1, MailboxAppend DEF FlagTimer, FlagMsg, Messages
    <2> QED
      BY <1>3, <2>2 DEF FlagTimer, TypeOK, procVars, saveVars, histVars
  <1>4. ASSUME NEW s \in Side, GraceTimer(s) PROVE TypeOK'
    <2>1. Msg("grace_expired", s) \in Messages /\ mailbox \in Seq(Messages)
      BY DEF Messages, TypeOK, TimerMsgs, Msg
    <2>2. mailbox' \in Seq(AllRequests \cup TimerMsgs)
      BY <1>4, <2>1, MailboxAppend DEF GraceTimer, Messages
    <2> QED
      BY <1>4, <2>2 DEF GraceTimer, TypeOK, procVars, saveVars
  <1>5. CASE Tick
    BY <1>5 DEF Tick, TypeOK, procVars, timerVars, saveVars, histVars
  <1>6. CASE Crash
    <2>1. <<>> \in Seq(AllRequests \cup TimerMsgs)
      OBVIOUS
    <2>2. up' \in BOOLEAN
      BY <1>6 DEF Crash
    <2>3. mailbox' \in Seq(AllRequests \cup TimerMsgs) /\ crashes' \in Nat
      BY <1>6, <2>1 DEF Crash, TypeOK
    <2> QED
      BY <1>0, <1>6, <2>2, <2>3 DEF Crash, TypeOK, procVars, saveVars, histVars
  <1>7. CASE Restore
    <2>0. cp.turn \in Side /\ cp.result \in Results /\ cp.moves \in Nat /\ 0 \in Nat
      BY DEF TypeOK, Checkpoints
    <2>1. /\ up' \in BOOLEAN /\ turn' \in Side /\ moves' \in Nat
          /\ connected' \in [Side -> BOOLEAN] /\ spectators' \subseteq Ids
          /\ inGrace' \in [Side -> BOOLEAN]
          /\ UNCHANGED <<now, mailbox, graceAt, crashes, acked>>
      BY <1>7, <2>0 DEF Restore
    <2>2. clock' \in Clock
      BY <1>7, RestoredType DEF Restore
    <2>3. status' \in {"in_progress", "finished"} /\ result' \in Results
      BY <1>0, <1>7, <2>0, OtherSide DEF Restore, Results, Reasons
    <2>4. /\ flag' \in [side : Side \cup {"none"}, epoch : Nat]
          /\ flagAt' \in Nat \cup {NoTimer}
          /\ epoch' \in Nat
      BY <1>0, <1>7, <2>0, <2>2, ArmFlagType DEF Restore
    <2>5. cp' \in Checkpoints /\ lost' \in Nat
      BY <1>7, <2>1, <2>2, <2>3, SaveType DEF Restore, TypeOK, saveVars
    <2> QED
      BY <2>1, <2>2, <2>3, <2>4, <2>5 DEF TypeOK
  <1>8. CASE Expire
    BY <1>0, <1>8 DEF Expire, TypeOK, procVars, timerVars, histVars
  <1>9. CASE UNCHANGED vars
    BY <1>9 DEF vars, TypeOK, procVars, timerVars, saveVars, histVars
  <1> QED
    BY <1>1, <1>2, <1>3, <1>4, <1>5, <1>6, <1>7, <1>8, <1>9 DEF Next

LEMMA FlagTaggedStep ==
    ASSUME TypeOK, FlagTagged, [Next]_vars
    PROVE  FlagTagged'
  <1>1. ASSUME NEW c \in Clock, NEW e \in Nat, ArmFlag(c, e) PROVE FlagTagged'
    BY <1>1 DEF ArmFlag, FlagTagged, Clock
  <1>2. CASE Handle
    <2>1. PICK m \in Messages : Takes(m)
      BY <1>2, HandleTakes
    <2>2. CASE AcceptMove
      <3>1. clock' \in Clock /\ epoch \in Nat
        BY <1>2, TypeStep DEF TypeOK, Next
      <3> QED
        BY <1>1, <2>2, <3>1 DEF AcceptMove
    <2> QED
      BY <2>1, <2>2 DEF Takes, Settles, Refuse, Attends, Finish, FlagTagged, procVars, timerVars
  <1>3. CASE Restore
    <2>1. clock' \in Clock
      BY <1>3, TypeStep DEF TypeOK, Next
    <2> QED
      BY <1>1, <1>3, <2>1 DEF Restore, FlagTagged
  <1> QED
    BY <1>2, <1>3 DEF Next, vars, Send, FlagTimer, GraceTimer, Tick, Crash, Expire,
                      FlagTagged, procVars, timerVars

\* Every variable of the session keeps its type, in every instance.
THEOREM TypeCorrect == Spec => []TypeOK
  <1>1. TypeOK /\ FlagTagged /\ [Next]_vars => (TypeOK /\ FlagTagged)'
    BY TypeStep, FlagTaggedStep
  <1> QED
    BY <1>1, InitType, PTL DEF Spec


-----------------------------------------------------------------------------
(* The clocks. *)

\* Sums over the two sides may be taken in either order.
LEMMA BothSides ==
    ASSUME NEW f \in [Side -> Int], NEW s \in Side
    PROVE  f["white"] + f["black"] = f[s] + f[Other(s)]
  <1>1. "white" \in Side /\ "black" \in Side /\ (s = "white" \/ s = "black")
    BY DEF Side
  <1>2. Other("white") = "black" /\ Other("black") = "white"
    BY DEF Other
  <1>3. f["white"] \in Int /\ f["black"] \in Int
    BY <1>1
  <1> QED
    BY <1>1, <1>2, <1>3

\* Charging one addend charges the sum.
LEMMA ChargeSum ==
    ASSUME NEW a \in Int, NEW b \in Int, NEW x \in Int, NEW y \in Int, NEW e \in Int,
           a + b = x + y
    PROVE  x - e + y = a + b - e
  OBVIOUS

\* What both clocks read together while s's clock runs.
LEMMA TotalLeft ==
    ASSUME NEW c \in Clock, NEW t \in Int, NEW s \in Side, c.running = s
    PROVE  TimeLeft(c, "white", t) + TimeLeft(c, "black", t)
               = c.ms["white"] + c.ms["black"] - (t - c.since)
  <1>1. c.ms \in [Side -> Int] /\ c.since \in Int /\ "white" \in Side /\ "black" \in Side
    BY DEF Clock, Side
  <1>2. s = "white" \/ s = "black"
    BY DEF Side
  <1> QED
    BY <1>1, <1>2 DEF TimeLeft

\* A checkpoint taken at the instant a turn begins copies the clock.
LEMMA CheckpointCopies ==
    ASSUME now \in Nat, NEW c \in Clock, c.since = now, \A s \in Side : c.ms[s] > 0,
           NEW t, NEW st, NEW r, NEW m
    PROVE  /\ \A s \in Side : Checkpoint(t, c, st, r, m).ms[s] = c.ms[s]
           /\ Checkpoint(t, c, st, r, m).at = now
           /\ Checkpoint(t, c, st, r, m).status = st
           /\ Checkpoint(t, c, st, r, m).moves = m
  <1>1. ASSUME NEW s \in Side PROVE AtLeast0(TimeLeft(c, s, now)) = c.ms[s]
    <2>1. c.ms[s] \in Int /\ c.ms[s] >= 0 /\ c.since \in Int
      BY DEF Clock
    <2>2. TimeLeft(c, s, now) = c.ms[s]
      BY <2>1 DEF TimeLeft
    <2> QED
      BY <2>1, <2>2, Clamp
  <1> QED
    BY <1>1 DEF Checkpoint

\* An accepted move: the mover keeps what it had left plus the increment.
LEMMA AcceptedClock ==
    ASSUME TypeOK, ClockInv, status = "in_progress", ~Flagged(clock, now), AcceptMove
    PROVE  /\ clock' \in Clock /\ clock'.running = turn' /\ turn' = Other(turn)
           /\ clock'.since = now
           /\ \A s \in Side : clock'.ms[s] > 0
           /\ clock'.ms["white"] + clock'.ms["black"] + now
                  = 2 * Initial + Increment * (moves + 1)
           /\ Left(turn) > 0
  <1>1. /\ clock \in Clock /\ turn \in Side /\ now \in Nat /\ now \in Int
        /\ moves \in Nat /\ Increment \in Nat /\ Initial \in Nat
    BY ConstantsAssumption DEF TypeOK
  <1>2. clock.running = turn /\ clock.running # "none"
    BY <1>1 DEF ClockInv, ClockRuns, Side
  <1>3. Left(turn) \in Int /\ Left(turn) > 0
    BY <1>1, <1>2, ClockReads DEF Flagged, Left
  <1>4. /\ clock' \in Clock
        /\ clock'.running = Other(turn)
        /\ clock'.since = now
        /\ clock'.ms[turn] = Left(turn) + Increment
        /\ clock'.ms[Other(turn)] = clock.ms[Other(turn)]
    BY <1>1, <1>2, MovedType DEF AcceptMove, Left
  <1>5. \A s \in Side : clock'.ms[s] > 0
    <2>1. clock.ms[Other(turn)] > 0
      BY <1>1, OtherSide DEF ClockInv, ClockRuns
    <2> QED
      BY <1>1, <1>3, <1>4, <2>1, OtherSide
  <1>6. clock'.ms["white"] + clock'.ms["black"] = Left(turn) + Increment + clock.ms[Other(turn)]
    <2>1. clock'.ms \in [Side -> Int]
      BY <1>4 DEF Clock
    <2> QED
      BY <1>1, <1>4, <2>1, BothSides
  <1>7. Left("white") + Left("black") = Left(turn) + clock.ms[Other(turn)]
    <2>1. clock.ms \in [Side -> Int] /\ clock.since \in Int
      BY <1>1 DEF Clock
    <2>2. Left("white") + Left("black") = clock.ms["white"] + clock.ms["black"] - (now - clock.since)
      BY <1>1, <1>2, TotalLeft DEF Left
    <2>3. clock.ms["white"] + clock.ms["black"] = clock.ms[turn] + clock.ms[Other(turn)]
      BY <1>1, <2>1, BothSides
    <2>4. Left(turn) = clock.ms[turn] - (now - clock.since)
      BY <1>1, <1>2, ClockReads DEF Left
    <2>5. /\ clock.ms[turn] \in Int /\ clock.ms[Other(turn)] \in Int
          /\ clock.ms["white"] \in Int /\ clock.ms["black"] \in Int
      BY <1>1, <2>1, OtherSide DEF Side
    <2> QED
      BY <1>1, <2>1, <2>2, <2>3, <2>4, <2>5
  <1>8. Left("white") + Left("black") + now = 2 * Initial + Increment * moves
    BY DEF ClockInv, TimeConserved
  <1>9. Increment * (moves + 1) = Increment * moves + Increment /\ Increment * moves \in Nat
    BY <1>1
  <1>10. /\ clock.ms[Other(turn)] \in Int
         /\ Left("white") \in Int /\ Left("black") \in Int
         /\ clock'.ms["white"] \in Int /\ clock'.ms["black"] \in Int
    <2>1. "white" \in Side /\ "black" \in Side /\ Other(turn) \in Side
      BY <1>1, OtherSide DEF Side
    <2>2. clock.ms \in [Side -> Int] /\ clock'.ms \in [Side -> Int]
      BY <1>1, <1>4 DEF Clock
    <2> QED
      BY <1>1, <2>1, <2>2, ClockReads DEF Left
  <1>11. clock'.ms["white"] + clock'.ms["black"] + now = 2 * Initial + Increment * (moves + 1)
    <2>1. Left("white") + Left("black") + Increment = clock'.ms["white"] + clock'.ms["black"]
      BY <1>1, <1>3, <1>6, <1>7, <1>10
    <2>2. 2 * Initial \in Int
      BY <1>1
    <2> QED
      BY <1>1, <1>8, <1>9, <1>10, <2>1, <2>2
  <1> QED
    BY <1>3, <1>4, <1>5, <1>11 DEF AcceptMove

\* A game restored in time: the side to move pays for the outage, nobody else.
LEMMA RestoredClock ==
    ASSUME TypeOK, ClockInv, cp.status = "in_progress", Deducted[cp.turn] > 0,
           NEW c, c = Restored(Deducted, cp.turn, now)
    PROVE  /\ c \in Clock /\ c.running = cp.turn /\ c.since = now
           /\ \A s \in Side : c.ms[s] > 0
           /\ c.ms["white"] + c.ms["black"] + now = 2 * Initial + Increment * cp.moves
  <1>1. /\ cp.ms \in [Side -> Nat] /\ cp.turn \in Side /\ cp.at \in Nat /\ now \in Nat
        /\ cp.moves \in Nat /\ Increment \in Nat /\ Initial \in Nat
    BY ConstantsAssumption DEF TypeOK, Checkpoints
  <1>2. /\ \A s \in Side : cp.ms[s] > 0
        /\ cp.ms["white"] + cp.ms["black"] + cp.at = 2 * Initial + Increment * cp.moves
        /\ cp.at <= now
    BY DEF ClockInv, CheckpointConserved
  <1>3. Elapsed = now - cp.at /\ Elapsed \in Nat
    BY <1>1, <1>2, Clamp DEF Elapsed
  <1>4. /\ Deducted[cp.turn] = cp.ms[cp.turn] - Elapsed
        /\ Deducted[Other(cp.turn)] = cp.ms[Other(cp.turn)]
        /\ Deducted \in [Side -> Nat]
    <2>1. Deducted[cp.turn] = AtLeast0(cp.ms[cp.turn] - Elapsed)
      BY <1>1 DEF Deducted
    <2>2. Deducted[Other(cp.turn)] = cp.ms[Other(cp.turn)]
      BY <1>1, OtherSide DEF Deducted
    <2>3. Deducted[cp.turn] = cp.ms[cp.turn] - Elapsed
      BY <1>1, <1>3, <2>1 DEF AtLeast0
    <2> QED
      BY <2>2, <2>3, RestoredType
  <1>5. Deducted["white"] + Deducted["black"] = cp.ms["white"] + cp.ms["black"] - Elapsed
    <2>1. cp.ms \in [Side -> Int] /\ Deducted \in [Side -> Int]
      BY <1>1, <1>4
    <2>2. /\ Deducted["white"] + Deducted["black"] = Deducted[cp.turn] + Deducted[Other(cp.turn)]
          /\ cp.ms["white"] + cp.ms["black"] = cp.ms[cp.turn] + cp.ms[Other(cp.turn)]
      BY <1>1, <2>1, BothSides
    <2>3. /\ cp.ms[cp.turn] \in Int /\ cp.ms[Other(cp.turn)] \in Int
          /\ cp.ms["white"] \in Int /\ cp.ms["black"] \in Int
          /\ Deducted["white"] \in Int /\ Deducted["black"] \in Int
      BY <1>1, <2>1, OtherSide DEF Side
    <2>4. Elapsed \in Int
      BY <1>3
    <2>5. Deducted["white"] + Deducted["black"] = cp.ms[cp.turn] - Elapsed + cp.ms[Other(cp.turn)]
      BY <1>4, <2>2
    <2>6. cp.ms[cp.turn] - Elapsed + cp.ms[Other(cp.turn)] = cp.ms["white"] + cp.ms["black"] - Elapsed
      <3> DEFINE w == cp.ms["white"]  b == cp.ms["black"]
                 x == cp.ms[cp.turn]  y == cp.ms[Other(cp.turn)]  e == Elapsed
      <3>1. w \in Int /\ b \in Int /\ x \in Int /\ y \in Int /\ e \in Int /\ w + b = x + y
        BY <2>2, <2>3, <2>4
      <3> HIDE DEF w, b, x, y, e
      <3>2. x - e + y = w + b - e
        BY <3>1, ChargeSum
      <3> QED
        BY <3>2 DEF w, b, x, y, e
    <2> QED
      BY <2>5, <2>6
  <1>6. \A s \in Side : Deducted[s] > 0
    BY <1>1, <1>2, <1>4, OtherSide
  <1>7. c = [ms |-> Deducted, running |-> cp.turn, since |-> now] /\ c \in Clock
    BY RestoredType DEF Restored
  <1>8. Increment * cp.moves \in Nat /\ cp.ms["white"] \in Nat /\ cp.ms["black"] \in Nat
    BY <1>1 DEF Side
  <1>9. Deducted["white"] + Deducted["black"] + now = 2 * Initial + Increment * cp.moves
    BY <1>1, <1>2, <1>3, <1>5, <1>8
  <1> QED
    BY <1>6, <1>7, <1>9

\* A turn that begins now with conserved time leaves the live game well clocked.
LEMMA TurnBegins ==
    ASSUME now \in Nat, now' = now, turn' \in Side, clock' \in Clock, moves' \in Nat,
           clock'.running = turn', clock'.since = now, \A s \in Side : clock'.ms[s] > 0,
           clock'.ms["white"] + clock'.ms["black"] + now = 2 * Initial + Increment * moves'
    PROVE  ClockRuns' /\ TimeConserved'
  <1>1. TimeLeft(clock', "white", now') + TimeLeft(clock', "black", now')
            = clock'.ms["white"] + clock'.ms["black"] - (now' - clock'.since)
    BY TotalLeft
  <1>2. clock'.ms["white"] \in Int /\ clock'.ms["black"] \in Int
    BY DEF Clock, Side
  <1>3. clock'.ms["white"] + clock'.ms["black"] - (now' - clock'.since)
            = clock'.ms["white"] + clock'.ms["black"]
    BY <1>2
  <1> QED
    BY <1>1, <1>3 DEF ClockRuns, TimeConserved, Left

\* Saving such a game, or any finished one, keeps Redis conserving time.
LEMMA SaveConserves ==
    ASSUME TypeOK, CheckpointConserved, now' = now,
           NEW t, NEW c \in Clock, NEW st, NEW r, NEW m, Save(t, c, st, r, m),
           st = "in_progress" =>
               /\ c.since = now /\ \A s \in Side : c.ms[s] > 0
               /\ c.ms["white"] + c.ms["black"] + now = 2 * Initial + Increment * m
    PROVE  CheckpointConserved'
  <1>1. CASE cp' = cp
    BY <1>1 DEF CheckpointConserved
  <1>2. CASE cp' = Checkpoint(t, c, st, r, m)
    <2>1. cp'.at = now /\ cp'.status = st /\ cp'.moves = m /\ now \in Nat
      BY <1>2 DEF Checkpoint, TypeOK
    <2>2. CASE st = "in_progress"
      <3>1. \A s \in Side : cp'.ms[s] = c.ms[s]
        BY <1>2, <2>1, <2>2, CheckpointCopies
      <3>2. cp'.ms["white"] = c.ms["white"] /\ cp'.ms["black"] = c.ms["black"]
        BY <3>1 DEF Side
      <3> QED
        BY <2>1, <2>2, <3>1, <3>2 DEF CheckpointConserved
    <2> QED
      BY <2>1, <2>2 DEF CheckpointConserved
  <1> QED
    BY <1>1, <1>2 DEF Save

LEMMA ClockInit == Init => ClockInv
  <1> SUFFICES ASSUME Init PROVE ClockInv
    OBVIOUS
  <1>1. /\ clock = [ms |-> [s \in Side |-> Initial], running |-> "white", since |-> 0]
        /\ now = 0 /\ turn = "white" /\ moves = 0 /\ Initial \in Nat \ {0} /\ Increment \in Nat
        /\ "white" \in Side /\ "black" \in Side
    BY ConstantsAssumption DEF Init, Start, New, Side
  <1>2. ClockRuns
    BY <1>1 DEF ClockRuns
  <1>3. TimeConserved
    <2>1. Left("white") = Initial - (0 - 0) /\ Left("black") = Initial
      BY <1>1 DEF Left, TimeLeft
    <2> QED
      BY <1>1, <2>1 DEF TimeConserved
  <1>4. CheckpointConserved
    <2>1. CASE cp = NoCheckpoint
      BY <1>1, <2>1 DEF CheckpointConserved, NoCheckpoint
    <2>2. CASE cp = [NoCheckpoint EXCEPT !.status = "in_progress", !.ms = [s \in Side |-> Initial]]
      <3>1. cp.status = "in_progress" /\ cp.ms = [s \in Side |-> Initial] /\ cp.at = 0 /\ cp.moves = 0
        BY <2>2 DEF NoCheckpoint
      <3> QED
        BY <1>1, <3>1 DEF CheckpointConserved
    <2> QED
      BY <2>1, <2>2 DEF Init
  <1> QED
    BY <1>2, <1>3, <1>4 DEF ClockInv

LEMMA ClockStep ==
    ASSUME TypeOK, TypeOK', ClockInv, [Next]_vars
    PROVE  ClockInv'
  <1>0. /\ now \in Nat /\ turn \in Side /\ clock \in Clock /\ moves \in Nat
        /\ turn' \in Side /\ clock' \in Clock /\ moves' \in Nat
        /\ ClockRuns /\ TimeConserved /\ CheckpointConserved
    BY DEF TypeOK, ClockInv
  <1>1. CASE UNCHANGED <<now, turn, clock, status, cp, moves>>
    BY <1>0, <1>1 DEF ClockInv, ClockRuns, TimeConserved, CheckpointConserved, Left
  <1>2. CASE Handle
    <2>1. PICK m \in Messages : Takes(m)
      BY <1>2, HandleTakes
    <2>2. now' = now
      BY <2>1 DEF Takes
    <2>3. CASE Refuse
      BY <1>1, <2>2, <2>3 DEF Refuse, procVars, saveVars, histVars
    <2>4. CASE Settles(m)
      <3>1. PICK w \in Side \cup {"none"}, r \in Reasons : Finish(w, r)
        BY <2>4 DEF Settles
      <3>2. status' = "finished" /\ Save(turn, clock, status', result', moves)
        BY <3>1 DEF Finish
      <3>3. CheckpointConserved'
        BY <1>0, <2>2, <3>2, SaveConserves
      <3> QED
        BY <3>2, <3>3 DEF ClockInv, ClockRuns, TimeConserved
    <2>5. CASE status = "in_progress" /\ ~Flagged(clock, now) /\ AcceptMove
      <3>1. /\ clock'.running = turn' /\ clock'.since = now
            /\ \A s \in Side : clock'.ms[s] > 0
            /\ clock'.ms["white"] + clock'.ms["black"] + now = 2 * Initial + Increment * (moves + 1)
        BY <2>5, AcceptedClock
      <3>2. moves' = moves + 1 /\ Save(turn', clock', status, result, moves')
        BY <2>5 DEF AcceptMove
      <3>3. ClockRuns' /\ TimeConserved'
        BY <1>0, <2>2, <3>1, <3>2, TurnBegins
      <3>4. CheckpointConserved'
        BY <1>0, <2>2, <3>1, <3>2, SaveConserves
      <3> QED
        BY <3>3, <3>4 DEF ClockInv
    <2>6. CASE Attends
      BY <1>1, <2>2, <2>6 DEF Attends, saveVars
    <2> QED
      BY <2>1, <2>3, <2>4, <2>5, <2>6 DEF Takes
  <1>3. CASE Tick
    <2>1. UNCHANGED <<turn, clock, status, cp, moves>> /\ now' = now + 1
      BY <1>3 DEF Tick, procVars, saveVars, histVars
    <2>2. ClockRuns'
      BY <1>0, <2>1 DEF ClockRuns
    <2>3. TimeConserved'
      <3> SUFFICES ASSUME status = "in_progress"
                   PROVE  TimeLeft(clock, "white", now + 1) + TimeLeft(clock, "black", now + 1)
                              + (now + 1) = 2 * Initial + Increment * moves
        BY <2>1 DEF TimeConserved, Left
      <3>1. clock.running = turn
        BY <1>0 DEF ClockRuns
      <3>2. TimeLeft(clock, "white", now) + TimeLeft(clock, "black", now)
                = clock.ms["white"] + clock.ms["black"] - (now - clock.since)
        BY <1>0, <3>1, TotalLeft
      <3>3. TimeLeft(clock, "white", now + 1) + TimeLeft(clock, "black", now + 1)
                = clock.ms["white"] + clock.ms["black"] - ((now + 1) - clock.since)
        BY <1>0, <3>1, TotalLeft
      <3>4. clock.ms["white"] \in Int /\ clock.ms["black"] \in Int /\ clock.since \in Int
        BY <1>0 DEF Clock, Side
      <3>5. TimeLeft(clock, "white", now) + TimeLeft(clock, "black", now) + now
                = 2 * Initial + Increment * moves
        BY <1>0 DEF TimeConserved, Left
      <3>6. TimeLeft(clock, "white", now + 1) + TimeLeft(clock, "black", now + 1) + (now + 1)
                = TimeLeft(clock, "white", now) + TimeLeft(clock, "black", now) + now
        <4>1. /\ TimeLeft(clock, "white", now) \in Int /\ TimeLeft(clock, "black", now) \in Int
              /\ TimeLeft(clock, "white", now + 1) \in Int
              /\ TimeLeft(clock, "black", now + 1) \in Int
          BY <1>0, ClockReads DEF Side
        <4> QED
          BY <1>0, <3>2, <3>3, <3>4, <4>1
      <3> QED
        BY <3>5, <3>6
    <2>4. CheckpointConserved'
      BY <1>0, <2>1 DEF CheckpointConserved, TypeOK, Checkpoints
    <2> QED
      BY <2>2, <2>3, <2>4 DEF ClockInv
  <1>4. CASE Restore
    <2>1. now' = now /\ turn' = cp.turn /\ moves' = cp.moves
      BY <1>4 DEF Restore
    <2>2. CASE status' = "finished"
      <3>1. cp' = cp \/ Save(turn', clock', status', result', moves')
        BY <1>4 DEF Restore, saveVars
      <3>2. CheckpointConserved'
        <4>1. CASE cp' = cp
          BY <1>0, <2>1, <4>1 DEF CheckpointConserved
        <4>2. CASE Save(turn', clock', status', result', moves')
          BY <1>0, <2>1, <2>2, <4>2, SaveConserves
        <4> QED
          BY <3>1, <4>1, <4>2
      <3> QED
        BY <2>2, <3>2 DEF ClockInv, ClockRuns, TimeConserved
    <2>3. CASE status' # "finished"
      <3>1. /\ cp.status = "in_progress" /\ Deducted[cp.turn] > 0
            /\ clock' = Restored(Deducted, cp.turn, now)
            /\ Save(turn', clock', status', result', moves')
        BY <1>4, <2>3 DEF Restore
      <3>2. /\ clock'.running = turn' /\ clock'.since = now
            /\ \A s \in Side : clock'.ms[s] > 0
            /\ clock'.ms["white"] + clock'.ms["black"] + now = 2 * Initial + Increment * moves'
        BY <2>1, <3>1, RestoredClock
      <3>3. ClockRuns' /\ TimeConserved'
        BY <1>0, <2>1, <3>2, TurnBegins
      <3>4. CheckpointConserved'
        BY <1>0, <2>1, <3>1, <3>2, SaveConserves
      <3> QED
        BY <3>3, <3>4 DEF ClockInv
    <2> QED
      BY <2>2, <2>3
  <1>5. CASE Expire
    <2>1. UNCHANGED <<now, turn, clock, status, moves>> /\ cp' = NoCheckpoint
      BY <1>5 DEF Expire, procVars, histVars
    <2>2. ClockRuns' /\ TimeConserved'
      BY <1>0, <2>1 DEF ClockRuns, TimeConserved, Left
    <2>3. CheckpointConserved'
      BY <1>0, <2>1 DEF CheckpointConserved, NoCheckpoint
    <2> QED
      BY <2>2, <2>3 DEF ClockInv
  <1> QED
    BY <1>1, <1>2, <1>3, <1>4, <1>5 DEF Next, vars, Send, FlagTimer, GraceTimer, Crash,
                                        procVars, saveVars, histVars

\* Thinking time is conserved in every instance: any time control, any sequence of
\* moves, timers, crashes and restores.
THEOREM TimeIsConserved == Spec => []TimeConserved
  <1>1. TypeOK /\ TypeOK' /\ ClockInv /\ [Next]_vars => ClockInv'
    BY ClockStep
  <1>2. ClockInv => TimeConserved
    BY DEF ClockInv
  <1> QED
    BY <1>1, <1>2, ClockInit, TypeCorrect, PTL DEF Spec

-----------------------------------------------------------------------------
(* The flag. *)

\* Arming for a turn that begins now sets the timer for the end of its time.
LEMMA ArmedFor ==
    ASSUME now \in Nat, NEW c \in Clock, NEW s \in Side, NEW e \in Nat,
           c.running = s, c.since = now, c.ms[s] > 0, ArmFlag(c, e)
    PROVE  flag'.side = s /\ flagAt' = c.since + c.ms[s]
  <1>1. s # "none" /\ c.ms[s] \in Int
    BY DEF Side, Clock
  <1>2. TimeLeft(c, s, now) = c.ms[s]
    BY <1>1 DEF TimeLeft
  <1>3. AtLeast0(TimeLeft(c, s, now)) = c.ms[s]
    BY <1>1, <1>2, Clamp
  <1> QED
    BY <1>1, <1>3 DEF ArmFlag

\* A clock never gains by waiting.
LEMMA Waiting ==
    ASSUME NEW c \in Clock, NEW s \in Side, NEW t \in Int
    PROVE  TimeLeft(c, s, t + 1) <= TimeLeft(c, s, t)
  <1>1. c.ms[s] \in Int /\ c.since \in Int
    BY DEF Clock
  <1> QED
    BY <1>1 DEF TimeLeft

\* Saving keeps Redis just: what is saved as a loss on time is one.
LEMMA SaveJust ==
    ASSUME TypeOK, CheckpointJust, NEW t \in Side, NEW c \in Clock, NEW st, NEW r, NEW m,
           Save(t, c, st, r, m),
           st = "finished" /\ r.reason = "flag" =>
               r.winner = Other(t) /\ TimeLeft(c, t, now) <= 0
    PROVE  CheckpointJust'
  <1>1. CASE cp' = cp
    BY <1>1 DEF CheckpointJust
  <1>2. CASE cp' = Checkpoint(t, c, st, r, m)
    <2>1. cp'.status = st /\ cp'.result = r /\ cp'.turn = t
              /\ cp'.ms[t] = AtLeast0(TimeLeft(c, t, now))
      BY <1>2 DEF Checkpoint
    <2>2. TimeLeft(c, t, now) \in Int
      BY ClockReads DEF TypeOK
    <2>3. TimeLeft(c, t, now) <= 0 => AtLeast0(TimeLeft(c, t, now)) = 0
      BY <2>2, Clamp
    <2> QED
      BY <2>1, <2>3 DEF CheckpointJust
  <1> QED
    BY <1>1, <1>2 DEF Save

\* The parts of FlagInv that speak of the mailbox of a running game.
MailInv == FlagArmed /\ NoStaleFlag /\ FlagOverdue

\* They survive the arrival, and the handling, of any other message.
LEMMA MailKept ==
    ASSUME TypeOK, MailInv, UNCHANGED <<now, up, turn, clock, status, flag, flagAt>>,
           \A i \in DOMAIN mailbox' : mailbox'[i].type = "flag_fired" => InMailbox(mailbox'[i]),
           status = "in_progress" /\ InMailbox(FlagMsg) => InMailbox(FlagMsg)'
    PROVE  MailInv'
  <1>1. FlagArmed'
    BY DEF MailInv, FlagArmed
  <1>2. NoStaleFlag'
    BY DEF MailInv, NoStaleFlag, FlagMsg, InMailbox
  <1>3. FlagOverdue'
    BY DEF MailInv, FlagOverdue, InMailbox, Left
  <1> QED
    BY <1>1, <1>2, <1>3 DEF MailInv

LEMMA FlagInit == Init => FlagInv
  <1> SUFFICES ASSUME Init PROVE FlagInv
    OBVIOUS
  <1>1. /\ clock = [ms |-> [s \in Side |-> Initial], running |-> "white", since |-> 0]
        /\ turn = "white" /\ "white" \in Side /\ mailbox = <<>> /\ status = "in_progress"
        /\ flag.side = "white" /\ flagAt = Initial /\ Initial \in Nat
    BY ConstantsAssumption DEF Init, Start, New, Side
  <1>2. cp.status # "finished"
    <2>1. NoCheckpoint.status = "none"
      BY DEF NoCheckpoint
    <2>2. [NoCheckpoint EXCEPT !.status = "in_progress", !.ms = [s \in Side |-> Initial]].status
              = "in_progress"
      BY DEF NoCheckpoint
    <2> QED
      BY <2>1, <2>2 DEF Init
  <1> QED
    BY <1>1, <1>2 DEF FlagInv, FlagArmed, NoStaleFlag, FlagOverdue, DownQuiet, FlagJust, CheckpointJust

LEMMA FlagStep ==
    ASSUME TypeOK, TypeOK', ClockInv, FlagInv, [Next]_vars
    PROVE  FlagInv'
  <1>0. /\ now \in Nat /\ now \in Int /\ turn \in Side /\ clock \in Clock /\ moves \in Nat
        /\ turn' \in Side /\ clock' \in Clock /\ epoch \in Nat /\ mailbox \in Seq(Messages)
        /\ MailInv /\ DownQuiet /\ FlagJust /\ CheckpointJust
    BY DEF TypeOK, FlagInv, MailInv, Messages
  <1>1. ASSUME UNCHANGED <<now, turn, clock, status, result>> PROVE FlagJust'
    BY <1>0, <1>1 DEF FlagJust, Left
  <1>2. ASSUME cp' = cp PROVE CheckpointJust'
    BY <1>0, <1>2 DEF CheckpointJust
  <1>3. CASE Handle
    <2>1. PICK m \in Messages : Takes(m)
      BY <1>3, HandleTakes
    <2>2. /\ now' = now /\ up' = up /\ up = TRUE /\ mailbox' = Tail(mailbox)
          /\ mailbox # <<>> /\ m = Head(mailbox)
      BY <2>1 DEF Takes
    <2>3. DownQuiet'
      BY <2>2 DEF DownQuiet
    <2>4. \A i \in DOMAIN mailbox' : InMailbox(mailbox'[i])
      BY <1>0, <2>2, MailboxTail DEF InMailbox
    <2>5. ASSUME NEW x, InMailbox(x), x # m PROVE \E i \in DOMAIN mailbox' : mailbox'[i] = x
      <3>1. PICK i \in DOMAIN mailbox : mailbox[i] = x
        BY <2>5 DEF InMailbox
      <3>2. i - 1 \in DOMAIN Tail(mailbox) /\ Tail(mailbox)[i - 1] = mailbox[i]
        BY <1>0, <2>2, <2>5, <3>1, MailboxTail
      <3> QED
        BY <2>2, <3>1, <3>2
    <2>6. CASE /\ UNCHANGED <<turn, clock, status, result, flag, flagAt, cp>>
               /\ m = FlagMsg => status # "in_progress"
      <3>1. status = "in_progress" /\ InMailbox(FlagMsg) => InMailbox(FlagMsg)'
        BY <2>5, <2>6 DEF InMailbox, FlagMsg
      <3>2. MailInv'
        BY <1>0, <2>2, <2>4, <2>6, <3>1, MailKept
      <3> QED
        BY <1>1, <1>2, <2>2, <2>3, <2>6, <3>2 DEF FlagInv, MailInv
    <2>7. CASE Refuse /\ (m = FlagMsg /\ FlagArmed => status # "in_progress")
      BY <1>0, <2>6, <2>7 DEF Refuse, procVars, timerVars, saveVars, histVars, MailInv
    <2>8. CASE Attends /\ m.type \notin {"flag_fired", "grace_expired"}
      BY <2>6, <2>8 DEF Attends, saveVars, FlagMsg
    <2>9. CASE Settles(m)
      <3>1. PICK w \in Side \cup {"none"}, r \in Reasons :
                /\ status = "in_progress" /\ Finish(w, r)
                /\ r = "flag" /\ FlagArmed => w = Other(turn) /\ (Flagged(clock, now) \/ m = FlagMsg)
        BY <2>9 DEF Settles
      <3>2. /\ status' = "finished" /\ result' = [winner |-> w, reason |-> r]
            /\ turn' = turn /\ clock' = clock /\ Save(turn, clock, status', result', moves)
        BY <3>1 DEF Finish
      <3>3. r = "flag" => w = Other(turn) /\ TimeLeft(clock, turn, now) <= 0
        <4>1. Flagged(clock, now) => TimeLeft(clock, turn, now) <= 0
          BY <3>1 DEF Flagged, ClockInv, ClockRuns
        <4>2. m = FlagMsg => TimeLeft(clock, turn, now) <= 0
          <5> SUFFICES ASSUME m = FlagMsg PROVE Left(turn) <= 0
            BY DEF Left
          <5>1. m.type = "flag_fired"
            BY DEF FlagMsg
          <5>2. 1 \in DOMAIN mailbox /\ mailbox[1] = m
            BY <1>0, <2>2
          <5> QED
            BY <1>0, <2>2, <3>1, <5>1, <5>2 DEF MailInv, FlagOverdue
        <4> QED
          BY <1>0, <3>1, <4>1, <4>2 DEF MailInv
      <3>4. FlagJust'
        BY <2>2, <3>2, <3>3 DEF FlagJust, Left
      <3>5. CheckpointJust'
        BY <1>0, <3>2, <3>3, SaveJust
      <3> QED
        BY <2>3, <3>2, <3>4, <3>5 DEF FlagInv, FlagArmed, NoStaleFlag, FlagOverdue
    <2>10. CASE status = "in_progress" /\ ~Flagged(clock, now) /\ AcceptMove
      <3>1. /\ clock'.running = turn' /\ clock'.since = now /\ clock'.ms[turn'] > 0
            /\ Left(turn) > 0
        BY <1>0, <2>10, AcceptedClock
      <3>2. Left(turn) \in Int
        BY <1>0, ClockReads DEF Left
      <3>3. \A i \in DOMAIN mailbox : mailbox[i].type # "flag_fired"
        BY <1>0, <2>2, <2>10, <3>1, <3>2 DEF MailInv, FlagOverdue
      <3>4. \A i \in DOMAIN mailbox' : mailbox'[i].type # "flag_fired"
        BY <2>4, <3>3 DEF InMailbox
      <3>5. flag'.side = turn' /\ flagAt' = clock'.since + clock'.ms[turn']
        BY <1>0, <2>10, <3>1, ArmedFor DEF AcceptMove
      <3>6. status' = "in_progress" /\ Save(turn', clock', status, result, moves')
        BY <2>10 DEF AcceptMove
      <3>7. CheckpointJust'
        BY <1>0, <2>10, <3>6, SaveJust
      <3> QED
        BY <2>3, <3>4, <3>5, <3>6, <3>7
        DEF FlagInv, FlagArmed, NoStaleFlag, FlagOverdue, FlagJust
    <2> QED
      BY <2>1, <2>7, <2>8, <2>9, <2>10 DEF Takes
  <1>4. ASSUME NEW m \in Messages, m.type # "flag_fired", up = TRUE,
               mailbox' = Append(mailbox, m),
               UNCHANGED <<now, up, turn, clock, status, result, flag, flagAt, cp>>
        PROVE  FlagInv'
    <2>1. \A i \in DOMAIN mailbox' : mailbox'[i].type = "flag_fired" => InMailbox(mailbox'[i])
      BY <1>0, <1>4, MailboxAppend DEF InMailbox
    <2>2. InMailbox(FlagMsg) => InMailbox(FlagMsg)'
      BY <1>0, <1>4, MailboxAppend DEF InMailbox, FlagMsg
    <2>3. MailInv'
      BY <1>0, <1>4, <2>1, <2>2, MailKept
    <2> QED
      BY <1>1, <1>2, <1>4, <2>3 DEF FlagInv, MailInv, DownQuiet
  <1>5. ASSUME NEW m \in Requests, Send(m) PROVE FlagInv'
    <2>1. m \in Messages /\ m.type # "flag_fired"
      BY ConstantsAssumption DEF Messages, AllRequests, Msg
    <2>2. up = TRUE
      BY <1>5 DEF Send, TypeOK
    <2> QED
      BY <1>4, <1>5, <2>1, <2>2 DEF Send, procVars, timerVars, saveVars
  <1>6. ASSUME NEW s \in Side, GraceTimer(s) PROVE FlagInv'
    <2>1. Msg("grace_expired", s) \in Messages /\ Msg("grace_expired", s).type # "flag_fired"
      BY DEF Messages, TimerMsgs, Msg
    <2>2. up = TRUE
      BY <1>6 DEF GraceTimer, TypeOK
    <2> QED
      BY <1>4, <1>6, <2>1, <2>2 DEF GraceTimer, procVars, saveVars
  <1>7. CASE FlagTimer
    <2>1. /\ mailbox' = Append(mailbox, FlagMsg) /\ flagAt' = NoTimer
          /\ UNCHANGED <<now, up, turn, clock, status, result, flag, cp>>
          /\ flagAt # NoTimer /\ flagAt <= now
      BY <1>7 DEF FlagTimer, procVars, saveVars, FlagMsg
    <2>2. up = TRUE
      BY <1>7 DEF FlagTimer, TypeOK
    <2>3. FlagMsg \in Messages => InMailbox(FlagMsg)'
      BY <1>0, <2>1, MailboxAppend DEF InMailbox, FlagMsg
    <2>4. ASSUME status = "in_progress" PROVE MailInv'
      <3>1. flag.side = turn /\ flagAt = clock.since + clock.ms[turn]
        BY <1>0, <2>1, <2>2, <2>4 DEF MailInv, FlagArmed
      <3>2. FlagMsg \in Messages /\ FlagMsg' = FlagMsg /\ FlagMsg.type = "flag_fired"
        BY <1>0, <2>1, <3>1 DEF FlagMsg, Messages, TimerMsgs, TypeOK
      <3>3. \A i \in DOMAIN mailbox' : mailbox'[i] = FlagMsg
                \/ (i \in DOMAIN mailbox /\ mailbox'[i] = mailbox[i])
        BY <1>0, <2>1, <3>2, MailboxAppend
      <3>4. FlagArmed'
        BY <2>1, <2>3, <3>1, <3>2 DEF FlagArmed
      <3>5. NoStaleFlag'
        BY <1>0, <2>1, <2>2, <2>4, <3>2, <3>3 DEF NoStaleFlag, MailInv
      <3>6. Left(turn) <= 0
        <4>1. clock.ms[turn] \in Int /\ clock.since \in Int
          BY <1>0 DEF Clock
        <4>2. Left(turn) = clock.ms[turn] - (now - clock.since)
          BY <1>0, <2>4, ClockReads DEF Left, ClockInv, ClockRuns
        <4> QED
          BY <1>0, <2>1, <3>1, <4>1, <4>2
      <3>7. FlagOverdue'
        BY <2>1, <3>6 DEF FlagOverdue, Left
      <3> QED
        BY <3>4, <3>5, <3>7 DEF MailInv
    <2>5. MailInv'
      BY <2>1, <2>4 DEF MailInv, FlagArmed, NoStaleFlag, FlagOverdue
    <2> QED
      BY <1>1, <1>2, <2>1, <2>2, <2>5 DEF FlagInv, MailInv, DownQuiet
  <1>8. CASE Tick
    <2>1. /\ UNCHANGED <<up, mailbox, turn, clock, status, result, flag, flagAt, cp>>
          /\ now' = now + 1
      BY <1>8 DEF Tick, procVars, timerVars, saveVars
    <2>2. TimeLeft(clock, turn, now + 1) <= TimeLeft(clock, turn, now)
      BY <1>0, Waiting
    <2>3. TimeLeft(clock, turn, now + 1) \in Int /\ TimeLeft(clock, turn, now) \in Int
      BY <1>0, ClockReads
    <2>4. Left(turn) <= 0 => Left(turn)' <= 0
      BY <2>1, <2>2, <2>3 DEF Left
    <2>5. FlagArmed' /\ NoStaleFlag'
      BY <1>0, <2>1 DEF MailInv, FlagArmed, NoStaleFlag, FlagMsg, InMailbox
    <2>6. FlagOverdue'
      BY <1>0, <2>1, <2>4 DEF MailInv, FlagOverdue
    <2>7. FlagJust'
      BY <1>0, <2>1, <2>4 DEF FlagJust
    <2>8. DownQuiet'
      BY <1>0, <2>1 DEF DownQuiet
    <2> QED
      BY <1>2, <2>1, <2>5, <2>6, <2>7, <2>8 DEF FlagInv
  <1>9. CASE Crash
    <2>1. ~up' /\ mailbox' = <<>>
      BY <1>9 DEF Crash
    <2>2. UNCHANGED <<now, turn, clock, status, result, cp>>
      BY <1>9 DEF Crash, procVars, saveVars
    <2> QED
      BY <1>1, <1>2, <2>1, <2>2
      DEF FlagInv, FlagArmed, NoStaleFlag, FlagOverdue, DownQuiet
  <1>10. CASE Restore
    <2>1. /\ now' = now /\ turn' = cp.turn /\ moves' = cp.moves /\ up' = TRUE
          /\ cp.turn \in Side
      BY <1>10 DEF Restore, TypeOK, Checkpoints
    <2>2. mailbox' = <<>>
      BY <1>0, <1>10 DEF Restore, DownQuiet
    <2>3. CASE status' = "finished" /\ cp.status = "finished"
      <3>1. clock' = Restored(cp.ms, "none", now) /\ result' = cp.result /\ cp' = cp
        BY <1>10, <2>3 DEF Restore, saveVars
      <3>2. TimeLeft(clock', turn', now') = cp.ms[cp.turn]
        BY <2>1, <3>1 DEF Restored, TimeLeft, Side
      <3>3. FlagJust'
        BY <1>0, <2>1, <2>3, <3>1, <3>2 DEF FlagJust, CheckpointJust, Left
      <3> QED
        BY <1>2, <2>1, <2>2, <2>3, <3>1, <3>3
        DEF FlagInv, FlagArmed, NoStaleFlag, FlagOverdue, DownQuiet
    <2>4. CASE status' = "finished" /\ cp.status # "finished"
      <3>1. /\ clock' = Restored(Deducted, cp.turn, now) /\ Deducted[cp.turn] <= 0
            /\ result' = [winner |-> Other(cp.turn), reason |-> "flag"]
            /\ Save(turn', clock', status', result', moves')
        BY <1>10, <2>4 DEF Restore
      <3>2. TimeLeft(clock', turn', now) = Deducted[cp.turn] - (now - now)
        BY <2>1, <3>1 DEF Restored, TimeLeft
      <3>3. Deducted[cp.turn] \in Nat
        BY <2>1, RestoredType
      <3>4. TimeLeft(clock', turn', now) <= 0
        BY <1>0, <3>1, <3>2, <3>3
      <3>5. FlagJust'
        BY <2>1, <3>1, <3>4 DEF FlagJust, Left
      <3>6. CheckpointJust'
        BY <1>0, <2>1, <3>1, <3>4, SaveJust
      <3> QED
        BY <2>1, <2>2, <2>4, <3>5, <3>6
        DEF FlagInv, FlagArmed, NoStaleFlag, FlagOverdue, DownQuiet
    <2>5. CASE status' # "finished"
      <3>1. /\ cp.status = "in_progress" /\ Deducted[cp.turn] > 0
            /\ clock' = Restored(Deducted, cp.turn, now) /\ ArmFlag(clock', 0)
            /\ Save(turn', clock', status', result', moves')
        BY <1>10, <2>5 DEF Restore
      <3>2. clock'.running = turn' /\ clock'.since = now /\ clock'.ms[turn'] > 0
        BY <2>1, <3>1, RestoredClock
      <3>3. flag'.side = turn' /\ flagAt' = clock'.since + clock'.ms[turn']
        BY <1>0, <3>1, <3>2, ArmedFor
      <3>4. CheckpointJust'
        BY <1>0, <2>5, <3>1, SaveJust
      <3> QED
        BY <2>1, <2>2, <2>5, <3>3, <3>4
        DEF FlagInv, FlagArmed, NoStaleFlag, FlagOverdue, DownQuiet, FlagJust
    <2> QED
      BY <2>3, <2>4, <2>5
  <1>11. CASE Expire
    <2>1. /\ UNCHANGED <<now, up, mailbox, turn, clock, status, result, flag, flagAt>>
          /\ cp' = NoCheckpoint
      BY <1>11 DEF Expire, procVars, timerVars
    <2>2. CheckpointJust'
      BY <2>1 DEF CheckpointJust, NoCheckpoint
    <2>3. MailInv'
      BY <1>0, <2>1 DEF MailInv, FlagArmed, NoStaleFlag, FlagOverdue, FlagMsg, InMailbox, Left
    <2> QED
      BY <1>0, <1>1, <2>1, <2>2, <2>3 DEF FlagInv, MailInv, DownQuiet
  <1>12. CASE UNCHANGED vars
    <2>1. UNCHANGED <<now, up, mailbox, turn, clock, status, result, flag, flagAt, cp>>
      BY <1>12 DEF vars, procVars, timerVars, saveVars
    <2>2. MailInv'
      BY <1>0, <2>1 DEF MailInv, FlagArmed, NoStaleFlag, FlagOverdue, FlagMsg, InMailbox, Left
    <2> QED
      BY <1>0, <1>1, <1>2, <2>1, <2>2 DEF FlagInv, MailInv, DownQuiet
  <1> QED
    BY <1>3, <1>5, <1>6, <1>7, <1>8, <1>9, <1>10, <1>11, <1>12 DEF Next

-----------------------------------------------------------------------------
(* Grace windows. *)

LEMMA GraceInit == Init => GraceArmed
  BY DEF Init, GraceArmed

LEMMA GraceStep ==
    ASSUME TypeOK, GraceArmed, [Next]_vars
    PROVE  GraceArmed'
  <1>0. mailbox \in Seq(Messages) /\ graceAt \in [Side -> Nat \cup {NoTimer}]
    BY DEF TypeOK, Messages
  <1> SUFFICES ASSUME NEW s \in Side, up', status' = "in_progress", ~connected'[s]
               PROVE  \/ graceAt'[s] # NoTimer
                      \/ \E i \in DOMAIN mailbox' : mailbox'[i] = Msg("grace_expired", s)
    BY DEF GraceArmed, InMailbox
  <1> DEFINE x == Msg("grace_expired", s)
  <1>1. x.type = "grace_expired" /\ x.who = s
    BY DEF Msg
  <1> HIDE DEF x
  <1>2. ASSUME up, status = "in_progress", ~connected[s], graceAt'[s] = graceAt[s],
               InMailbox(x) => \E i \in DOMAIN mailbox' : mailbox'[i] = x
        PROVE  \/ graceAt'[s] # NoTimer
               \/ \E i \in DOMAIN mailbox' : mailbox'[i] = x
    BY <1>2 DEF GraceArmed, x
  <1>3. CASE Handle
    <2>1. PICK m \in Messages : Takes(m)
      BY <1>3, HandleTakes
    <2>2. up' = up /\ mailbox' = Tail(mailbox) /\ mailbox # <<>> /\ m = Head(mailbox)
      BY <2>1 DEF Takes
    <2>3. ASSUME InMailbox(x), m # x PROVE \E i \in DOMAIN mailbox' : mailbox'[i] = x
      <3>1. PICK i \in DOMAIN mailbox : mailbox[i] = x
        BY <2>3 DEF InMailbox
      <3>2. i - 1 \in DOMAIN Tail(mailbox) /\ Tail(mailbox)[i - 1] = mailbox[i]
        BY <1>0, <2>2, <2>3, <3>1, MailboxTail
      <3> QED
        BY <2>2, <3>1, <3>2
    <2>4. CASE /\ Refuse
               /\ m.type = "grace_expired" => status # "in_progress" \/ connected[m.who]
      <3>1. UNCHANGED <<status, connected, graceAt>>
        BY <2>4 DEF Refuse, procVars, timerVars
      <3>2. m # x
        BY <1>1, <2>4, <3>1
      <3> QED
        BY <1>2, <2>2, <2>3, <3>1, <3>2 DEF x
    <2>5. CASE Settles(m)
      BY <2>5 DEF Settles, Finish
    <2>6. CASE AcceptMove /\ m.type = "move"
      <3>1. UNCHANGED <<status, connected, graceAt>>
        BY <2>6 DEF AcceptMove
      <3> QED
        BY <1>1, <1>2, <2>2, <2>3, <2>6, <3>1 DEF x
    <2>7. CASE Attends /\ m.type \notin {"flag_fired", "grace_expired"}
      <3>1. status' = status /\ (graceAt'[s] # NoTimer \/ (~connected[s] /\ graceAt'[s] = graceAt[s]))
        BY <2>7 DEF Attends
      <3> QED
        BY <1>1, <1>2, <2>2, <2>3, <2>7, <3>1 DEF x
    <2> QED
      BY <2>1, <2>4, <2>5, <2>6, <2>7 DEF Takes
  <1>4. ASSUME NEW m \in Messages, mailbox' = Append(mailbox, m), InMailbox(x)
        PROVE  \E i \in DOMAIN mailbox' : mailbox'[i] = x
    BY <1>0, <1>4, MailboxAppend DEF InMailbox
  <1>5. ASSUME NEW m \in Requests, Send(m)
        PROVE  graceAt'[s] # NoTimer \/ \E i \in DOMAIN mailbox' : mailbox'[i] = x
    <2>1. m \in Messages
      BY ConstantsAssumption DEF Messages
    <2> QED
      BY <1>2, <1>4, <1>5, <2>1 DEF Send, procVars, timerVars
  <1>6. CASE FlagTimer
    <2>1. /\ UNCHANGED <<up, status, connected, graceAt>>
          /\ mailbox' = Append(mailbox, FlagMsg)
      BY <1>6 DEF FlagTimer, procVars, FlagMsg
    <2>2. InMailbox(x) => \E i \in DOMAIN mailbox' : mailbox'[i] = x
      BY <1>0, <2>1 DEF InMailbox
    <2> QED
      BY <1>2, <2>1, <2>2 DEF x
  <1>7. ASSUME NEW u \in Side, GraceTimer(u)
        PROVE  graceAt'[s] # NoTimer \/ \E i \in DOMAIN mailbox' : mailbox'[i] = x
    <2>1. Msg("grace_expired", u) \in Messages
      BY DEF Messages, TimerMsgs, Msg
    <2>2. /\ UNCHANGED <<up, status, connected>>
          /\ mailbox' = Append(mailbox, Msg("grace_expired", u))
          /\ graceAt' = [graceAt EXCEPT ![u] = NoTimer]
      BY <1>7 DEF GraceTimer, procVars
    <2>3. CASE u = s
      BY <1>0, <2>1, <2>2, <2>3, MailboxAppend DEF x
    <2>4. CASE u # s
      BY <1>0, <1>2, <1>4, <2>1, <2>2, <2>4
    <2> QED
      BY <2>3, <2>4
  <1>8. CASE Crash
    BY <1>8 DEF Crash
  <1>9. CASE Restore
    BY <1>9 DEF Restore
  <1>10. CASE UNCHANGED <<up, status, connected, graceAt, mailbox>>
    BY <1>2, <1>10 DEF InMailbox, x
  <1> QED
    BY <1>3, <1>5, <1>6, <1>7, <1>8, <1>9, <1>10
    DEF Next, vars, Tick, Expire, procVars, timerVars, x

-----------------------------------------------------------------------------
(* What survives a crash. *)

\* Unless this very write is refused, Redis holds what was saved.
LEMMA SaveCurrent ==
    ASSUME TypeOK, NEW t, NEW c, NEW st, NEW r, NEW m, Save(t, c, st, r, m), lost' = 0
    PROVE  lost = 0 /\ cp'.moves = m /\ cp'.status = st /\ cp'.result = r
  <1>1. lost \in Nat
    BY DEF TypeOK
  <1>2. cp' = Checkpoint(t, c, st, r, m) /\ lost = 0
    BY <1>1 DEF Save
  <1> QED
    BY <1>2 DEF Checkpoint

LEMMA DurableInit == Init => DurableInv
  <1> SUFFICES ASSUME Init PROVE DurableInv
    OBVIOUS
  <1>1. NoCheckpoint.moves = 0 /\ NoCheckpoint.status = "none"
    BY DEF NoCheckpoint
  <1>2. [NoCheckpoint EXCEPT !.status = "in_progress", !.ms = [s \in Side |-> Initial]].moves = 0
    BY DEF NoCheckpoint
  <1>3. cp.moves = 0 /\ moves = 0 /\ acked = 0 /\ status = "in_progress"
    BY <1>1, <1>2 DEF Init
  <1> QED
    BY <1>3 DEF DurableInv, AckedMovesSurvive, CheckpointCurrent

LEMMA DurableStep ==
    ASSUME TypeOK, TypeOK', DurableInv, [Next]_vars
    PROVE  DurableInv'
  <1>0. /\ lost \in Nat /\ moves \in Nat /\ acked \in Nat /\ cp.moves \in Nat
        /\ AckedMovesSurvive /\ CheckpointCurrent
    BY DEF TypeOK, Checkpoints, DurableInv
  <1> SUFFICES ASSUME lost' = 0
               PROVE  /\ moves' >= acked'
                      /\ cp'.status # "none" =>
                             /\ cp'.moves >= acked'
                             /\ status' = "finished" => cp'.status = "finished" /\ cp'.result = result'
    BY DEF DurableInv, AckedMovesSurvive, CheckpointCurrent
  <1>1. CASE UNCHANGED <<status, result, cp, lost, moves, acked>>
    BY <1>0, <1>1 DEF AckedMovesSurvive, CheckpointCurrent
  <1>2. CASE Handle
    <2>1. PICK m \in Messages : Takes(m)
      BY <1>2, HandleTakes
    <2>2. CASE Refuse \/ Attends
      BY <1>1, <2>2 DEF Refuse, Attends, procVars, saveVars, histVars
    <2>3. CASE Settles(m)
      <3>1. /\ UNCHANGED <<moves, acked>> /\ status' = "finished"
            /\ Save(turn, clock, status', result', moves)
        BY <2>3 DEF Settles, Finish, histVars
      <3>2. lost = 0 /\ cp'.moves = moves /\ cp'.status = status' /\ cp'.result = result'
        BY <3>1, SaveCurrent
      <3> QED
        BY <1>0, <3>1, <3>2 DEF AckedMovesSurvive
    <2>4. CASE status = "in_progress" /\ AcceptMove
      <3>1. /\ moves' = moves + 1 /\ acked' = moves' /\ status' = status
            /\ Save(turn', clock', status, result, moves')
        BY <2>4 DEF AcceptMove
      <3>2. cp'.moves = moves'
        BY <3>1, SaveCurrent
      <3> QED
        BY <1>0, <2>4, <3>1, <3>2
    <2> QED
      BY <2>1, <2>2, <2>3, <2>4 DEF Takes
  <1>3. CASE Restore
    <2>1. moves' = cp.moves /\ acked' = acked /\ cp.status # "none"
      BY <1>3 DEF Restore
    <2>2. CASE cp.status = "finished"
      <3>1. lost = 0 /\ cp' = cp /\ status' = "finished" /\ result' = cp.result
        BY <1>3, <2>2 DEF Restore, saveVars
      <3> QED
        BY <1>0, <2>1, <2>2, <3>1 DEF CheckpointCurrent
    <2>3. CASE Save(turn', clock', status', result', moves')
      <3>1. lost = 0 /\ cp'.moves = moves' /\ cp'.status = status' /\ cp'.result = result'
        BY <2>3, SaveCurrent
      <3> QED
        BY <1>0, <2>1, <3>1 DEF CheckpointCurrent
    <2> QED
      BY <1>3, <2>2, <2>3 DEF Restore
  <1>4. CASE Expire
    <2>1. UNCHANGED <<status, moves, acked, lost>> /\ cp' = NoCheckpoint
      BY <1>4 DEF Expire, procVars, histVars
    <2>2. cp'.status = "none"
      BY <2>1 DEF NoCheckpoint
    <2> QED
      BY <1>0, <2>1, <2>2 DEF AckedMovesSurvive
  <1> QED
    BY <1>1, <1>2, <1>3, <1>4
    DEF Next, vars, Send, FlagTimer, GraceTimer, Tick, Crash, procVars, saveVars, histVars

-----------------------------------------------------------------------------
(* The safety theorems. *)

LEMMA IInvStep ==
    ASSUME IInv, FlagTagged, [Next]_vars
    PROVE  IInv' /\ FlagTagged'
  <1>1. TypeOK' /\ FlagTagged'
    BY TypeStep, FlagTaggedStep DEF IInv
  <1> QED
    BY <1>1, ClockStep, FlagStep, GraceStep, DurableStep DEF IInv

\* The inductive invariant holds throughout, in every instance.
THEOREM Inductive == Spec => []IInv
  <1>1. Init => IInv /\ FlagTagged
    BY InitType, ClockInit, FlagInit, GraceInit, DurableInit DEF IInv
  <1>2. IInv /\ FlagTagged /\ [Next]_vars => (IInv /\ FlagTagged)'
    BY IInvStep
  <1> QED
    BY <1>1, <1>2, PTL DEF Spec

\* A running game always has its flag-fall coming, at the right instant.
THEOREM FlagAlwaysArmed == Spec => []FlagArmed
  <1>1. IInv => FlagArmed
    BY DEF IInv, FlagInv
  <1> QED
    BY <1>1, Inductive, PTL

\* No stale flag-fall ever waits in the mailbox of a running game.
THEOREM NoFlagIsStale == Spec => []NoStaleFlag
  <1>1. IInv => NoStaleFlag
    BY DEF IInv, FlagInv
  <1> QED
    BY <1>1, Inductive, PTL

\* Only an exhausted clock loses on time, on whichever path the flag falls.
THEOREM FlagIsJust == Spec => []FlagJust
  <1>1. IInv => FlagJust
    BY DEF IInv, FlagInv
  <1> QED
    BY <1>1, Inductive, PTL

\* While the process lives no disconnect is forgotten.
THEOREM GraceAlwaysArmed == Spec => []GraceArmed
  <1>1. IInv => GraceArmed
    BY DEF IInv
  <1> QED
    BY <1>1, Inductive, PTL

\* The three together: every timer a running game depends on is armed or has left
\* its message (arm_flag_timer/1 and handle_call({disconnect, _}) of sm_game.erl).
THEOREM TimersAlwaysArmed == Spec => []TimersArmed
  <1>1. FlagArmed /\ NoStaleFlag /\ GraceArmed => TimersArmed
    BY DEF TimersArmed
  <1> QED
    BY <1>1, FlagAlwaysArmed, NoFlagIsStale, GraceAlwaysArmed, PTL

\* Acknowledged moves survive any number of crashes unless Redis refuses a write.
THEOREM AcknowledgedIsDurable == Spec => []AckedMovesSurvive
  <1>1. IInv => AckedMovesSurvive
    BY DEF IInv, DurableInv
  <1> QED
    BY <1>1, Inductive, PTL

\* A decided game keeps its result through every later step, restores included,
\* unless Redis refuses a write.
THEOREM ResultIsStable == Spec => ResultStable
  <1> DEFINE Keeps == lost' = 0 /\ status = "finished" => status' = "finished" /\ result' = result
  <1>1. ASSUME IInv, [Next]_vars PROVE [Keeps]_vars
    <2> SUFFICES ASSUME lost' = 0, status = "finished"
                 PROVE  status' = "finished" /\ result' = result
      OBVIOUS
    <2>0. TypeOK /\ CheckpointCurrent /\ lost \in Nat
      BY <1>1 DEF IInv, DurableInv, TypeOK
    <2>1. CASE UNCHANGED <<status, result>>
      BY <2>1
    <2>2. CASE Handle
      <3>1. PICK m \in Messages : Takes(m)
        BY <2>0, <2>2, HandleTakes
      <3> QED
        BY <2>1, <3>1 DEF Takes, Settles, Refuse, Attends, procVars
    <2>3. CASE Restore
      <3>1. lost = 0
        BY <2>0, <2>3 DEF Restore, Save, saveVars
      <3>2. cp.status = "finished" /\ cp.result = result
        BY <2>0, <2>3, <3>1 DEF Restore, CheckpointCurrent
      <3> QED
        BY <2>3, <3>2 DEF Restore
    <2> QED
      BY <1>1, <2>1, <2>2, <2>3
      DEF Next, vars, Send, FlagTimer, GraceTimer, Tick, Crash, Expire, procVars
  <1>2. IInv /\ [Next]_vars => [Keeps]_vars
    BY <1>1
  <1> QED
    BY <1>2, Inductive, PTL DEF Spec, ResultStable

-----------------------------------------------------------------------------
(***************************************************************************)
(* SmGame implements GameContract, the ideal chess clock without timers,   *)
(* mailboxes, checkpoints or crashes, for every time control and every     *)
(* bound, as long as Redis refuses no write.                               *)
(***************************************************************************)

\* Unless Redis has refused a write, a checkpoint of a running game is the turn
\* in progress: whose it is, when it began and what both players had then.
Mirrored ==
    lost = 0 /\ cp.status # "none" =>
        /\ cp.turn = turn
        /\ status = "in_progress" =>
               /\ cp.status = "in_progress"
               /\ cp.at = clock.since
               /\ \A s \in Side : cp.ms[s] = clock.ms[s]

\* A running game has no result yet.
Undecided == status = "in_progress" => result = NoResult

\* What a write that Redis accepts leaves there.
LEMMA SaveMirrors ==
    ASSUME TypeOK, NEW t, NEW c \in Clock, NEW st, NEW r, NEW m,
           Save(t, c, st, r, m), lost' = 0,
           st = "in_progress" => c.since = now /\ \A s \in Side : c.ms[s] > 0
    PROVE  /\ lost = 0 /\ cp'.turn = t /\ cp'.status = st
           /\ st = "in_progress" => cp'.at = c.since /\ \A s \in Side : cp'.ms[s] = c.ms[s]
  <1>1. lost \in Nat /\ now \in Nat
    BY DEF TypeOK
  <1>2. cp' = Checkpoint(t, c, st, r, m) /\ lost = 0
    BY <1>1 DEF Save
  <1>3. cp'.turn = t /\ cp'.status = st
    BY <1>2 DEF Checkpoint
  <1>4. st = "in_progress" => cp'.at = c.since /\ \A s \in Side : cp'.ms[s] = c.ms[s]
    BY <1>1, <1>2, CheckpointCopies
  <1> QED
    BY <1>2, <1>3, <1>4

LEMMA MirroredInit == Init => Mirrored
  <1> SUFFICES ASSUME Init, cp.status # "none" PROVE Mirrored
    BY DEF Mirrored
  <1>1. cp = [NoCheckpoint EXCEPT !.status = "in_progress", !.ms = [s \in Side |-> Initial]]
    BY DEF Init, NoCheckpoint
  <1>2. /\ cp.turn = "white" /\ cp.status = "in_progress" /\ cp.at = 0
        /\ cp.ms = [s \in Side |-> Initial]
    BY <1>1 DEF NoCheckpoint
  <1>3. clock = [ms |-> [s \in Side |-> Initial], running |-> "white", since |-> 0]
    BY DEF Init, Start, New
  <1> QED
    BY <1>2, <1>3 DEF Mirrored, Init

\* Restoring a running game reads off the checkpoint what the players had left,
\* the outage included, and changes nothing that they see.
LEMMA RestoredLeft ==
    ASSUME IInv, Mirrored, lost = 0, status = "in_progress", cp.status # "none"
    PROVE  /\ cp.status = "in_progress" /\ cp.turn = turn /\ turn \in Side
           /\ Deducted[turn] = AtLeast0(Left(turn))
           /\ Deducted[Other(turn)] = Left(Other(turn))
           /\ \A s \in Side : Left(s) \in Int
  <1>1. /\ cp.ms \in [Side -> Nat] /\ cp.turn \in Side /\ cp.at \in Nat /\ now \in Nat
        /\ turn \in Side /\ clock \in Clock /\ cp.at <= now
    BY DEF IInv, TypeOK, Checkpoints, ClockInv, CheckpointConserved
  <1>2. /\ cp.status = "in_progress" /\ cp.turn = turn /\ cp.at = clock.since
        /\ \A s \in Side : cp.ms[s] = clock.ms[s]
    BY DEF Mirrored
  <1>3. clock.running = turn
    BY DEF IInv, ClockInv, ClockRuns
  <1>4. Elapsed = now - clock.since
    BY <1>1, <1>2, Clamp DEF Elapsed
  <1>5. /\ Left(turn) = clock.ms[turn] - (now - clock.since)
        /\ Left(Other(turn)) = clock.ms[Other(turn)]
        /\ \A s \in Side : Left(s) \in Int
    BY <1>1, <1>3, ClockReads, OtherSide DEF Left
  <1>6. /\ Deducted[turn] = AtLeast0(cp.ms[turn] - Elapsed)
        /\ Deducted[Other(turn)] = cp.ms[Other(turn)]
    BY <1>1, <1>2, OtherSide DEF Deducted
  <1> QED
    BY <1>1, <1>2, <1>4, <1>5, <1>6, OtherSide

LEMMA MirroredStep ==
    ASSUME IInv, IInv', Mirrored, [Next]_vars
    PROVE  Mirrored'
  <1>0. TypeOK /\ ClockInv /\ CheckpointCurrent /\ lost \in Nat /\ clock \in Clock /\ clock' \in Clock
    BY DEF IInv, DurableInv, TypeOK
  <1> SUFFICES ASSUME lost' = 0, cp'.status # "none" PROVE Mirrored'
    BY DEF Mirrored
  <1>1. CASE UNCHANGED <<turn, clock, status, cp, lost>>
    BY <1>1 DEF Mirrored
  <1>2. CASE Handle
    <2>1. PICK m \in Messages : Takes(m)
      BY <1>0, <1>2, HandleTakes
    <2>2. CASE Refuse \/ Attends
      BY <1>1, <2>2 DEF Refuse, Attends, procVars, saveVars
    <2>3. CASE Settles(m)
      <3>1. /\ status' = "finished" /\ turn' = turn
            /\ Save(turn, clock, status', result', moves)
        BY <2>3 DEF Settles, Finish
      <3>2. cp'.turn = turn
        BY <1>0, <3>1, SaveMirrors
      <3> QED
        BY <3>1, <3>2 DEF Mirrored
    <2>4. CASE status = "in_progress" /\ ~Flagged(clock, now) /\ AcceptMove
      <3>1. /\ status' = status /\ clock'.since = now /\ \A s \in Side : clock'.ms[s] > 0
            /\ Save(turn', clock', status, result, moves')
        BY <1>0, <2>4, AcceptedClock DEF AcceptMove
      <3>2. /\ cp'.turn = turn' /\ cp'.status = status
            /\ cp'.at = clock'.since /\ \A s \in Side : cp'.ms[s] = clock'.ms[s]
        BY <1>0, <2>4, <3>1, SaveMirrors
      <3> QED
        BY <2>4, <3>1, <3>2 DEF Mirrored
    <2> QED
      BY <2>1, <2>2, <2>3, <2>4 DEF Takes
  <1>3. CASE Restore
    <2>1. turn' = cp.turn /\ cp.status # "none"
      BY <1>3 DEF Restore
    <2>5. Deducted[cp.turn] \in Nat
      BY <1>0, RestoredType DEF TypeOK, Checkpoints
    <2>2. CASE cp.status = "finished"
      <3>1. cp' = cp /\ status' = "finished"
        BY <1>3, <2>2 DEF Restore, saveVars
      <3> QED
        BY <2>1, <3>1 DEF Mirrored
    <2>3. CASE cp.status = "in_progress" /\ Deducted[cp.turn] <= 0
      <3>1. status' = "finished" /\ Save(turn', clock', status', result', moves')
        BY <1>3, <2>3, <2>5 DEF Restore
      <3>2. cp'.turn = turn'
        BY <1>0, <3>1, SaveMirrors
      <3> QED
        BY <3>1, <3>2 DEF Mirrored
    <2>4. CASE cp.status = "in_progress" /\ Deducted[cp.turn] > 0
      <3>1. /\ status' = "in_progress" /\ clock' = Restored(Deducted, cp.turn, now)
            /\ Save(turn', clock', status', result', moves')
        BY <1>3, <2>4, <2>5 DEF Restore
      <3>2. clock'.since = now /\ \A s \in Side : clock'.ms[s] > 0
        BY <1>0, <2>4, <3>1, RestoredClock
      <3>3. /\ cp'.turn = turn' /\ cp'.status = status'
            /\ cp'.at = clock'.since /\ \A s \in Side : cp'.ms[s] = clock'.ms[s]
        BY <1>0, <3>1, <3>2, SaveMirrors
      <3> QED
        BY <3>1, <3>3 DEF Mirrored
    <2> QED
      BY <1>3, <2>2, <2>3, <2>4 DEF Restore
  <1>4. CASE Expire
    BY <1>4 DEF Expire, NoCheckpoint
  <1> QED
    BY <1>1, <1>2, <1>3, <1>4
    DEF Next, vars, Send, FlagTimer, GraceTimer, Tick, Crash, procVars, saveVars

LEMMA UndecidedStep ==
    ASSUME TypeOK, Undecided, [Next]_vars
    PROVE  Undecided'
  <1>1. CASE UNCHANGED <<status, result>>
    BY <1>1 DEF Undecided
  <1>2. CASE Handle
    <2>1. PICK m \in Messages : Takes(m)
      BY <1>2, HandleTakes
    <2> QED
      BY <1>1, <2>1
      DEF Takes, Refuse, Attends, Settles, Finish, AcceptMove, Undecided, procVars
  <1>3. CASE Restore
    BY <1>3 DEF Restore, Undecided
  <1> QED
    BY <1>1, <1>2, <1>3
    DEF Next, vars, Send, FlagTimer, GraceTimer, Tick, Crash, Expire, procVars

-----------------------------------------------------------------------------
(* Each step of the session is a step of the contract, or none that shows. *)

\* What the refinement mapping shows of the clocks.
Budget == [s \in Side |-> IF status = "in_progress" THEN Left(s) ELSE 0]

LEMMA InitContract == Init => Contract!Init
  <1> SUFFICES ASSUME Init PROVE Contract!Init
    OBVIOUS
  <1>1. clock = [ms |-> [s \in Side |-> Initial], running |-> "white", since |-> 0] /\ now = 0
    BY DEF Init, Start, New
  <1>2. ASSUME NEW s \in Side PROVE Left(s) = Initial
    BY <1>1, ConstantsAssumption DEF Left, TimeLeft
  <1>3. Budget = [s \in Side |-> Initial]
    BY <1>2 DEF Budget, Init
  <1> QED
    BY <1>3 DEF Contract!Init, Budget, Init, NoResult, Contract!Side, Side

LEMMA StepContract ==
    ASSUME IInv, IInv', Mirrored, Undecided, lost = 0, lost' = 0, [Next]_vars
    PROVE  [Contract!Next]_(Contract!vars)
  <1> USE DEF Contract!Side, Contract!Other
  <1>0. /\ TypeOK /\ ClockInv /\ CheckpointCurrent /\ FlagInv /\ turn \in Side /\ now \in Nat
        /\ clock \in Clock /\ result \in Results /\ status \in {"in_progress", "finished"}
        /\ clock' \in Clock /\ now' \in Nat
    BY DEF IInv, DurableInv, TypeOK
  <1>1. ASSUME status' = status, turn' = turn, result' = result,
               status = "in_progress" => \A s \in Side : Left(s)' = Left(s)
        PROVE  UNCHANGED Contract!vars
    BY <1>1 DEF Contract!vars
  <1>2. ASSUME status = "in_progress", status' = "finished", turn' = turn,
               NEW w, NEW r, result' = [winner |-> w, reason |-> r]
        PROVE  Contract!Settle(w, r)
    BY <1>2 DEF Contract!Settle, Side
  <1>3. CASE UNCHANGED <<now, turn, clock, status, result>>
    BY <1>1, <1>3 DEF Left
  <1>4. CASE Tick
    <2>1. now' = now + 1 /\ UNCHANGED <<turn, clock, status, result>>
      BY <1>4 DEF Tick, procVars
    <2>2. CASE status # "in_progress"
      BY <1>1, <2>1, <2>2
    <2>3. CASE status = "in_progress"
      <3>1. clock.running = turn
        BY <1>0, <2>3 DEF ClockInv, ClockRuns
      <3>2. Left(turn)' = Left(turn) - 1 /\ \A s \in Side \ {turn} : Left(s)' = Left(s)
        BY <1>0, <2>1, <3>1 DEF Left, TimeLeft, Clock
      <3>3. Contract!Think
        BY <1>0, <2>1, <2>3, <3>2 DEF Contract!Think
      <3> QED
        BY <3>3 DEF Contract!Next
    <2> QED
      BY <2>2, <2>3
  <1>5. CASE Handle
    <2>1. PICK m \in Messages : Takes(m)
      BY <1>0, <1>5, HandleTakes
    <2>2. now' = now
      BY <2>1 DEF Takes
    <2>3. CASE Refuse \/ Attends
      BY <1>3, <2>2, <2>3 DEF Refuse, Attends, procVars
    <2>4. CASE Settles(m)
      <3>1. PICK w \in Side \cup {"none"}, r \in Reasons :
                /\ status = "in_progress"
                /\ Finish(w, r)
                /\ r # "ended" => w \in Side
                /\ r = "flag" /\ FlagArmed => w = Other(turn) /\ (Flagged(clock, now) \/ m = FlagMsg)
        BY <2>4 DEF Settles
      <3>2. Contract!Settle(w, r)
        BY <1>2, <3>1 DEF Finish
      <3>3. CASE r = "flag"
        <4>1. w = Other(turn) /\ (Flagged(clock, now) \/ m = FlagMsg)
          BY <1>0, <3>1, <3>3 DEF FlagInv
        <4>2. clock.running = turn
          BY <1>0, <3>1 DEF ClockInv, ClockRuns
        <4>3. m = FlagMsg => Left(turn) <= 0
          BY <1>0, <2>1, <3>1 DEF FlagInv, FlagOverdue, Takes, FlagMsg
        <4>4. Left(turn) <= 0
          BY <4>1, <4>2, <4>3 DEF Flagged, Left
        <4>5. Contract!FlagFall
          BY <1>0, <3>1, <3>2, <3>3, <4>1, <4>4 DEF Contract!FlagFall, Other
        <4> QED
          BY <4>5 DEF Contract!Next
      <3>4. CASE r \in {"resignation", "abandonment"}
        BY <3>1, <3>2, <3>4 DEF Contract!Next, Contract!Concede, Side
      <3>5. CASE r = "ended"
        BY <3>2, <3>5 DEF Contract!Next, Contract!Adjudicate, Side
      <3> QED
        BY <3>3, <3>4, <3>5 DEF Reasons
    <2>5. CASE status = "in_progress" /\ ~Flagged(clock, now) /\ AcceptMove
      <3>1. /\ turn' = Other(turn) /\ clock'.running = turn' /\ clock'.since = now
            /\ Left(turn) > 0 /\ UNCHANGED <<status, result>>
        BY <1>0, <2>5, AcceptedClock DEF AcceptMove
      <3>2. clock.running = turn /\ clock.running # "none"
        BY <1>0, <2>5 DEF ClockInv, ClockRuns, Side
      <3>3. /\ clock'.ms[turn] = Left(turn) + Increment
            /\ clock'.ms[Other(turn)] = clock.ms[Other(turn)]
        BY <1>0, <2>5, <3>2, MovedType, ConstantsAssumption DEF AcceptMove, Left
      <3>4. ASSUME NEW s \in Side
            PROVE  Left(s)' = IF s = turn THEN Left(s) + Increment ELSE Left(s)
        <4>1. Left(s)' = clock'.ms[s]
          BY <1>0, <2>2, <3>1 DEF Left, TimeLeft, Clock
        <4>2. s # turn => Left(s) = clock.ms[s] /\ s = Other(turn)
          BY <1>0, <3>2, ClockReads, OtherSide DEF Left
        <4> QED
          BY <3>3, <4>1, <4>2
      <3>5. Contract!Play
        BY <1>0, <2>5, <3>1, <3>4 DEF Contract!Play, Other
      <3> QED
        BY <3>5 DEF Contract!Next
    <2> QED
      BY <2>1, <2>3, <2>4, <2>5 DEF Takes
  <1>6. CASE Restore
    <2>1. now' = now /\ turn' = cp.turn /\ cp.status # "none" /\ cp.turn = turn
      BY <1>6 DEF Restore, Mirrored
    <2>2. CASE status # "in_progress"
      <3>1. cp.status = "finished" /\ cp.result = result
        BY <1>0, <2>1, <2>2 DEF CheckpointCurrent
      <3>2. status' = status /\ result' = result
        BY <1>0, <1>6, <2>2, <3>1 DEF Restore
      <3> QED
        BY <1>1, <2>1, <2>2, <3>2
    <2>3. CASE status = "in_progress"
      <3>1. /\ cp.status = "in_progress"
            /\ Deducted[turn] = AtLeast0(Left(turn))
            /\ Deducted[Other(turn)] = Left(Other(turn))
            /\ \A s \in Side : Left(s) \in Int
        BY <1>0, <2>1, <2>3, RestoredLeft
      <3>2. CASE Left(turn) <= 0
        <4>1. Deducted[cp.turn] = 0
          BY <1>0, <2>1, <3>1, <3>2, Clamp
        <4>2. status' = "finished" /\ result' = [winner |-> Other(turn), reason |-> "flag"]
          BY <1>6, <2>1, <3>1, <4>1 DEF Restore
        <4>3. Contract!Settle(Other(turn), "flag")
          BY <1>2, <2>1, <2>3, <4>2
        <4>4. Contract!FlagFall
          BY <1>0, <2>3, <3>2, <4>3 DEF Contract!FlagFall, Other
        <4> QED
          BY <4>4 DEF Contract!Next
      <3>3. CASE Left(turn) > 0
        <4>1. Deducted[cp.turn] = Left(turn)
          BY <1>0, <2>1, <3>1, <3>3, Clamp
        <4>2. /\ status' = "in_progress" /\ result' = NoResult
              /\ clock' = [ms |-> Deducted, running |-> cp.turn, since |-> now]
          BY <1>0, <1>6, <2>1, <3>1, <3>3, <4>1 DEF Restore, Restored
        <4>3. ASSUME NEW s \in Side PROVE Left(s)' = Left(s)
          <5>1. Left(s)' = Deducted[s]
            BY <1>0, <2>1, <4>2 DEF Left, TimeLeft, Clock
          <5> QED
            BY <1>0, <2>1, <3>1, <4>1, <5>1, OtherSide
        <4>4. result = NoResult
          BY <2>3 DEF Undecided
        <4> QED
          BY <1>1, <2>1, <2>3, <4>2, <4>3, <4>4
      <3> QED
        BY <1>0, <3>1, <3>2, <3>3
    <2> QED
      BY <2>2, <2>3
  <1> QED
    BY <1>3, <1>4, <1>5, <1>6
    DEF Next, vars, Send, FlagTimer, GraceTimer, Crash, Expire, procVars

\* A refused write stays counted.
LEMMA LostGrows == TypeOK /\ [Next]_vars /\ lost' = 0 => lost = 0
  <1> SUFFICES ASSUME TypeOK, [Next]_vars, lost' = 0 PROVE lost = 0
    OBVIOUS
  <1>1. lost \in Nat
    BY DEF TypeOK
  <1>2. CASE Handle
    <2>1. PICK m \in Messages : Takes(m)
      BY <1>2, HandleTakes
    <2> QED
      BY <1>1, <2>1
      DEF Takes, Refuse, Attends, Settles, Finish, AcceptMove, Save, saveVars
  <1>3. CASE Restore
    BY <1>1, <1>3 DEF Restore, Save, saveVars
  <1> QED
    BY <1>2, <1>3
    DEF Next, vars, Send, FlagTimer, GraceTimer, Tick, Crash, Expire, saveVars

\* What the proof of the refinement is about, along every behaviour.
LEMMA Simulated == Spec => /\ Contract!Init
                           /\ [](IInv /\ Mirrored /\ Undecided)
  <1>1. Init => Contract!Init /\ Mirrored /\ Undecided
    BY InitContract, MirroredInit DEF Init, Undecided
  <1>2. IInv /\ IInv' /\ Mirrored /\ Undecided /\ [Next]_vars => Mirrored' /\ Undecided'
    BY MirroredStep, UndecidedStep DEF IInv
  <1> QED
    BY <1>1, <1>2, Inductive, PTL DEF Spec

\* Until Redis refuses a write the session is the ideal chess clock: crashes,
\* restores, late timers and queued requests show in nothing but the time they
\* cost the side to move (init_restore/2, on_move/2, finish/3).
THEOREM SessionImplementsContract == Spec => ImplementsContract
  <1>1. IInv /\ IInv' /\ Mirrored /\ Undecided /\ [Next]_vars
            => [lost' = 0 => [Contract!Next]_(Contract!vars)]_vars
    BY StepContract, LostGrows DEF IInv
  <1> QED
    BY <1>1, Simulated, PTL DEF Spec, ImplementsContract

\* In every behaviour in which Redis refuses no write, the whole of GameContract's
\* specification holds of the session, as the mapping shows it.
THEOREM ContractWithoutLoss == Spec /\ [](lost = 0) => Contract!Spec
  <1>1. IInv /\ IInv' /\ Mirrored /\ Undecided /\ lost = 0 /\ (lost = 0)' /\ [Next]_vars
            => [Contract!Next]_(Contract!vars)
    BY StepContract
  <1> QED
    BY <1>1, Simulated, PTL DEF Spec, Contract!Spec
=============================================================================
