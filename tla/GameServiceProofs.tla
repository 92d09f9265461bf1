-------------------------- MODULE GameServiceProofs --------------------------
(***************************************************************************)
(* Proofs about the handlers of the game-service, for any number of calls, *)
(* players and moves and however many of the calls fail: the outbox tells  *)
(* the stored moves in order, they are one game, its result is applied     *)
(* once, an end is followed up, and a result reached on the board is not   *)
(* overwritten.                                                            *)
(***************************************************************************)
EXTENDS GameService, FiniteSetTheorems, SequenceTheorems, TLAPS

-----------------------------------------------------------------------------
(* The inductive invariant. *)

Statuses == Finished \cup {"IN_PROGRESS"}

Rows == [kind : AllKinds \cup {None}, rated : BOOLEAN, black : Players \cup {None},
         status : Statuses, reason : {None, "move", "RESIGNATION"},
         line : Seq(Calls), delta : Finished \cup {None}]
Moves == [ply : Nat, line : Seq(Calls), by : Players \cup {"engine"}]
Events == [ply : Nat, line : Seq(Calls), status : Statuses]

\* The steps of a handler that holds the row it has read, the ones after the game's
\* end, and all of them.
Ending == {"rate", "analyse", "archive", "ingest"}
Reading == {"read", "append", "reply", "tell"} \cup Ending
Steps == {"idle", "session", "done"} \cup Reading

CallStates == [op : {"none", "move", "resign"}, who : Players \cup {None}, at : Steps,
               row : Rows, ply : Nat, result : Statuses]

TypeOK ==
    /\ game \in Rows
    /\ moves \subseteq Moves
    /\ outbox \in Seq(Events)
    /\ scored \in Seq(Finished)
    /\ ingested \in Nat
    /\ session \in [status : {"none", "in_progress", "finished"}, turn : {"white", "black"}]
    /\ hooks \subseteq {"analysis", "archive"}
    /\ call \in [Calls -> CallStates]
    /\ failed \in Nat
    /\ torn \in BOOLEAN

\* What a call has read stays true of the game but for a seat that has been taken,
\* its status and its moves.  It was let through to a move because the game went on
\* and the turn was its caller's.
Knows(c) ==
    LET me == call[c] IN
    /\ me.at \in Reading =>
           /\ me.op # "none" /\ me.who \in Players
           /\ game.kind # None /\ me.row.kind = game.kind
           /\ me.row.black \in {None, game.black}
    /\ me.at \in {"append", "reply"} => me.op = "move" /\ MayMove(me.row, me.who)
    /\ me.at = "append" => me.ply \in 1 .. Len(outbox) + 1
    /\ me.at = "reply" => me.row.kind = "engine" /\ me.ply \in 1 .. Len(outbox)
    /\ me.at \in Ending \/ (me.at = "tell" /\ me.op = "resign") => me.result \in Finished

CallsKnow == \A c \in Calls : Knows(c)

\* Before the game is created there is nothing of it.
Uncreated ==
    game.kind = None =>
        /\ moves = {} /\ outbox = <<>> /\ scored = <<>>
        /\ game.status = "IN_PROGRESS" /\ game.black = None

\* The plies of the stored moves are those of the outbox, so that a ply that no
\* stored move has is the next one.
PliesStored == IsFiniteSet(moves) /\ \A i \in DOMAIN outbox : \E m \in moves : m.ply = i

\* The line that led to ply n + 1.
LineAt(n) == IF n = 0 THEN <<>> ELSE outbox[n].line

\* A move about to be stored was computed on the line that its ply follows.
OwnLine(c) ==
    LET me == call[c] IN
    /\ me.at \in {"append", "reply"} => Len(me.row.line) = me.ply - 1
    /\ me.at = "append" => me.row.line = LineAt(me.ply - 1)
    /\ me.at = "reply" => Append(me.row.line, c) = LineAt(me.ply)

LinesFollow == ~torn => \A c \in Calls : OwnLine(c)

\* The row says whether its result was scored.
ScoredIsMarked == game.delta = None <=> scored = <<>>

\* Somebody who has ended the game is at one of these steps.
Coming(steps) == \E c \in Calls : call[c].at \in steps /\ call[c].result \in Finished

\* What follows an end has happened, or somebody is on its way to it.
FollowedUp ==
    failed = 0 /\ game.status \in Finished /\ game.kind # "engine" =>
        /\ moves # {} =>
              /\ "analysis" \in hooks \/ Coming({"tell", "rate", "analyse"})
              /\ "archive" \in hooks \/ Coming({"tell", "rate", "analyse", "archive"})
              /\ ingested = 1 \/ Coming({"tell"} \cup Ending)
        /\ game.rated /\ game.black # None => scored # <<>> \/ Coming({"tell", "rate"})

IInv ==
    /\ TypeOK
    /\ CallsKnow
    /\ Uncreated
    /\ PliesStored
    /\ OutboxInOrder
    /\ LinesFollow
    /\ OneGame
    /\ ScoredIsMarked
    /\ EffectsOnce
    /\ FollowedUp

-----------------------------------------------------------------------------
(* What a step does to the calls. *)

LEMMA IdleTyped == Idle \in CallStates /\ NoGame \in Rows
<1>1. NoGame \in Rows
  BY EmptySeq DEF NoGame, Rows, AllKinds, Statuses
<1>2. QED
  BY <1>1 DEF Idle, CallStates, Steps, Statuses

\* A call keeps what it has read until it replies; the others are left alone.
LEMMA GoToMoves ==
    ASSUME TypeOK, NEW c \in Calls, NEW at \in Steps, GoTo(c, at)
    PROVE  /\ call' \in [Calls -> CallStates]
           /\ \A d \in Calls : d # c => call'[d] = call[d]
           /\ call'[c].at = at
           /\ at # "done" =>
                  /\ call'[c].op = call[c].op /\ call'[c].who = call[c].who
                  /\ call'[c].row = call[c].row /\ call'[c].ply = call[c].ply
                  /\ call'[c].result = call[c].result
<1>1. call[c] \in CallStates
  BY DEF TypeOK
<1>2. [Idle EXCEPT !.at = "done"] \in CallStates
  BY IdleTyped DEF CallStates, Steps
<1>3. [call[c] EXCEPT !.at = at] \in CallStates
  BY <1>1 DEF CallStates
<1>4. [Idle EXCEPT !.at = "done"].at = "done"
  BY DEF Idle
<1>5. CASE at = "done"
  BY <1>2, <1>4, <1>5 DEF GoTo, TypeOK
<1>6. CASE at # "done"
  BY <1>1, <1>3, <1>6 DEF GoTo, TypeOK, CallStates
<1>7. QED
  BY <1>5, <1>6

LEMMA AppendMoveTyped ==
    ASSUME TypeOK, NEW ply \in Nat, NEW line \in Seq(Calls), NEW by \in Players \cup {"engine"},
           NEW result \in Statuses, AppendMove(ply, line, by, result)
    PROVE  game' \in Rows /\ moves' \subseteq Moves /\ outbox' \in Seq(Events)
<1>1. [ply |-> ply, line |-> line, by |-> by] \in Moves
  BY DEF Moves
<1>2. [ply |-> ply, line |-> line, status |-> result] \in Events
  BY DEF Events
<1>3. game' \in Rows
  BY DEF AppendMove, TypeOK, Rows
<1>4. outbox' \in Seq(Events)
  BY <1>2, AppendProperties DEF AppendMove, TypeOK
<1>5. QED
  BY <1>1, <1>3, <1>4 DEF AppendMove, TypeOK

LEMMA TellTyped ==
    ASSUME TypeOK, NEW type, NEW who, Tell(type, who)
    PROVE  /\ session' \in [status : {"none", "in_progress", "finished"}, turn : {"white", "black"}]
           /\ failed' \in Nat
<1> DEFINE m == [type |-> type, who |-> who]
<1>1. Applied(session, m) \in [status : {"none", "in_progress", "finished"}, turn : {"white", "black"}]
  <2> DEFINE T == [status : {"none", "in_progress", "finished"}, turn : {"white", "black"}]
  <2>1. session \in T
    BY DEF TypeOK
  <2>2. [status |-> "in_progress", turn |-> "white"] \in T
    OBVIOUS
  <2>3. [session EXCEPT !.turn = IF @ = "white" THEN "black" ELSE "white"] \in T
    BY <2>1
  <2>4. [session EXCEPT !.status = "finished"] \in T
    BY <2>1
  <2> HIDE DEF T, m
  <2>5. Applied(session, m) \in T
    BY <2>1, <2>2, <2>3, <2>4 DEF Applied
  <2>6. QED
    BY <2>5 DEF T
<1>2. QED
  BY <1>1 DEF Tell, TypeOK

-----------------------------------------------------------------------------
(* Types. *)

LEMMA TypesInit == Init => TypeOK
<1> HAVE Init
<1>1. game \in Rows /\ call \in [Calls -> CallStates]
  BY IdleTyped DEF Init
<1>2. outbox \in Seq(Events) /\ scored \in Seq(Finished)
  BY EmptySeq DEF Init
<1>3. QED
  BY <1>1, <1>2 DEF Init, TypeOK, NoSession

\* What a call that has read the row may write.
LEMMA ReadIsTyped ==
    ASSUME TypeOK, CallsKnow, NEW c \in Calls
    PROVE  /\ call[c] \in CallStates
           /\ call[c].at \in Steps /\ call[c].row \in Rows /\ call[c].ply \in Nat
           /\ call[c].result \in Statuses /\ call[c].row.line \in Seq(Calls)
           /\ call[c].at \in Reading => call[c].who \in Players
           /\ Knows(c)
  BY DEF TypeOK, CallsKnow, Knows, CallStates, Rows

\* The call itself goes to a step it knows.
LEMMA AfterMoveIsStep ==
    ASSUME NEW kind, NEW result
    PROVE  /\ AfterMove(kind, result) \in {"tell", "rate", "reply"}
           /\ AfterMove(kind, result) = "rate" => result \in Finished
           /\ AfterMove(kind, result) = "reply" => kind = "engine"
           /\ kind # "engine" => AfterMove(kind, result) = "tell"
  BY DEF AfterMove

LEMMA RequestTyped ==
    ASSUME TypeOK, NEW hook \in {"analysis", "archive"}, Request(hook)
    PROVE  hooks' \subseteq {"analysis", "archive"} /\ failed' \in Nat
<1>1. hooks \cup {hook} \subseteq {"analysis", "archive"}
  BY DEF TypeOK
<1>2. failed' \in Nat
  BY DEF Request, TypeOK
<1>3. hooks' = hooks \/ hooks' = hooks \cup {hook}
  BY DEF Request
<1>4. QED
  BY <1>1, <1>2, <1>3 DEF TypeOK

LEMMA TypesStep ==
    ASSUME TypeOK, CallsKnow, PliesStored, [Next]_vars
    PROVE  TypeOK'
<1> USE DEF Steps, Reading, Ending
<1>1. CASE UNCHANGED vars
  BY <1>1 DEF vars, TypeOK
<1>2. CASE SessionDecides
  BY <1>2 DEF SessionDecides, tables, TypeOK
<1>3. ASSUME NEW c \in Calls, CreateGame(c) PROVE TypeOK'
  <2>1. game' \in Rows
    <3>1. PICK kind \in Kinds, rated \in Rated, black \in Others :
             game' = [NoGame EXCEPT !.kind = kind, !.rated = rated /\ kind # "engine",
                                    !.black = IF kind = "human" THEN black ELSE None]
      BY <1>3 DEF CreateGame
    <3>2. kind \in AllKinds /\ black \in Players /\ (rated /\ kind # "engine") \in BOOLEAN
      BY ServiceAssumption DEF Players
    <3>3. QED
      BY <3>1, <3>2, IdleTyped DEF Rows
  <2>2. \E at \in Steps : GoTo(c, at)
    BY <1>3 DEF CreateGame
  <2>3. call' \in [Calls -> CallStates]
    BY <2>2, GoToMoves
  <2>4. QED
    BY <1>3, <2>1, <2>3 DEF CreateGame, TypeOK
<1>4. ASSUME NEW c \in Calls, NEW p \in Players, JoinGame(c, p) PROVE TypeOK'
  <2>1. \E at \in Steps : GoTo(c, at)
    BY <1>4 DEF JoinGame
  <2>2. game' \in Rows
    BY <1>4 DEF JoinGame, TypeOK, Rows
  <2>3. call' \in [Calls -> CallStates]
    BY <2>1, GoToMoves
  <2>4. QED
    BY <1>4, <2>2, <2>3 DEF JoinGame, TypeOK
<1>5. ASSUME NEW c \in Calls, CreateSession(c) PROVE TypeOK'
  <2>1. call' \in [Calls -> CallStates]
    BY <1>5, GoToMoves DEF CreateSession
  <2>2. QED
    BY <1>5, <2>1, TellTyped DEF CreateSession, TypeOK, tables
<1>6. ASSUME NEW c \in Calls, NEW op \in {"move", "resign"}, NEW p \in Players, ReadRow(c, op, p)
      PROVE TypeOK'
  <2>1. [Idle EXCEPT !.op = op, !.who = p, !.at = "read", !.row = game] \in CallStates
    BY IdleTyped DEF CallStates, TypeOK
  <2>2. QED
    BY <1>6, <2>1 DEF ReadRow, TypeOK, tables
<1>7. ASSUME NEW c \in Calls, ReadMoves(c) PROVE TypeOK'
  <2>1. CASE GoTo(c, "done") /\ UNCHANGED torn
    <3>1. call' \in [Calls -> CallStates]
      BY <2>1, GoToMoves
    <3>2. QED
      BY <1>7, <2>1, <3>1 DEF ReadMoves, TypeOK, tables
  <2>2. CASE \E r \in Outcomes(Turn(call[c].row.line)) :
               call' = [call EXCEPT ![c].at = "append", ![c].result = r,
                                    ![c].ply = Cardinality(moves) + 1]
    <3>1. PICK r \in Statuses :
             call' = [call EXCEPT ![c].at = "append", ![c].result = r,
                                  ![c].ply = Cardinality(moves) + 1]
      BY <2>2 DEF Outcomes, Statuses, Finished
    <3>2. Cardinality(moves) + 1 \in Nat
      BY FS_CardinalityType DEF PliesStored
    <3>3. call'[c] \in CallStates /\ call' = [call EXCEPT ![c] = call'[c]]
      <4> DEFINE v == [call[c] EXCEPT !.at = "append", !.result = r, !.ply = Cardinality(moves) + 1]
      <4>1. call[c] \in CallStates
        BY DEF TypeOK
      <4>2. v \in CallStates
        BY <3>2, <4>1 DEF CallStates
      <4>3. call' = [call EXCEPT ![c] = v]
        BY <3>1
      <4> HIDE DEF v
      <4> QED
        BY <4>2, <4>3 DEF TypeOK
    <3>4. QED
      BY <1>7, <2>2, <3>3 DEF ReadMoves, TypeOK, tables
  <2>3. QED
    BY <1>7, <2>1, <2>2 DEF ReadMoves
<1>8. ASSUME NEW c \in Calls, SubmitMove(c) PROVE TypeOK'
  <2> DEFINE me == call[c]
             after == Append(me.row.line, c)
  <2>1. call' \in [Calls -> CallStates]
    <3>1. \E at \in Steps : GoTo(c, at)
      BY <1>8, AfterMoveIsStep DEF SubmitMove
    <3>2. QED
      BY <3>1, GoToMoves
  <2>2. me.ply \in Nat /\ me.who \in Players \cup {"engine"} /\ me.result \in Statuses
    BY <1>8, ReadIsTyped DEF SubmitMove
  <2>3. after \in Seq(Calls)
    BY ReadIsTyped, AppendProperties
  <2> HIDE DEF after
  <2>4. game' \in Rows /\ moves' \subseteq Moves /\ outbox' \in Seq(Events)
    <3>1. CASE AppendMove(me.ply, after, me.who, me.result)
      BY <2>2, <2>3, <3>1, AppendMoveTyped
    <3>2. CASE UNCHANGED <<game, moves, outbox>>
      BY <3>2 DEF TypeOK
    <3>3. QED
      BY <1>8, <3>1, <3>2 DEF SubmitMove, after
  <2>5. QED
    BY <1>8, <2>1, <2>4 DEF SubmitMove, TypeOK
<1>9. ASSUME NEW c \in Calls, PlayEngineReply(c) PROVE TypeOK'
  <2> DEFINE me == call[c]
             after == me.row.line \o <<c, c>>
  <2>1. call' \in [Calls -> CallStates]
    BY <1>9, GoToMoves DEF PlayEngineReply
  <2>2. me.ply + 1 \in Nat
    BY <1>9, ReadIsTyped DEF PlayEngineReply
  <2>3. after \in Seq(Calls)
    BY ReadIsTyped, ConcatProperties
  <2> HIDE DEF after
  <2>4. game' \in Rows /\ moves' \subseteq Moves /\ outbox' \in Seq(Events)
    <3>1. ASSUME NEW r \in Outcomes(Turn(Append(me.row.line, c))),
                 AppendMove(me.ply + 1, after, "engine", r)
          PROVE  game' \in Rows /\ moves' \subseteq Moves /\ outbox' \in Seq(Events)
      <4>1. r \in Statuses
        BY DEF Outcomes, Statuses, Finished
      <4>2. QED
        BY <2>2, <2>3, <3>1, <4>1, AppendMoveTyped
    <3>2. CASE UNCHANGED <<game, moves, outbox>>
      BY <3>2 DEF TypeOK
    <3>3. QED
      BY <1>9, <3>1, <3>2 DEF PlayEngineReply, after
  <2>5. QED
    BY <1>9, <2>1, <2>4 DEF PlayEngineReply, TypeOK
<1>10. ASSUME NEW c \in Calls, Resign(c) PROVE TypeOK'
  <2>1. CASE GoTo(c, "done") /\ UNCHANGED game
    <3>1. call' \in [Calls -> CallStates]
      BY <2>1, GoToMoves
    <3>2. QED
      BY <1>10, <2>1, <3>1 DEF Resign, TypeOK
  <2>2. CASE \E winner \in Finished, at \in {"rate", "tell"} :
               /\ game' = [game EXCEPT !.status = winner, !.reason = "RESIGNATION"]
               /\ call' = [call EXCEPT ![c].result = winner, ![c].at = at]
    <3>1. game' \in Rows
      BY <2>2, ZenonT(30) DEF TypeOK, Rows, Statuses
    <3>2. PICK winner \in Finished, at \in {"rate", "tell"} :
             call' = [call EXCEPT ![c].result = winner, ![c].at = at]
      BY <2>2
    <3>3. [call[c] EXCEPT !.result = winner, !.at = at] \in CallStates
      <4>1. call[c] \in CallStates
        BY DEF TypeOK
      <4>2. winner \in Statuses
        BY DEF Statuses
      <4> QED
        BY <4>1, <4>2 DEF CallStates
    <3>4. call' \in [Calls -> CallStates]
      BY <3>2, <3>3 DEF TypeOK
    <3>5. QED
      BY <1>10, <3>1, <3>4 DEF Resign, TypeOK
  <2>3. QED
    BY <1>10, <2>1, <2>2 DEF Resign, Finished
<1>11. ASSUME NEW c \in Calls, TellSession(c) PROVE TypeOK'
  <2>1. call' \in [Calls -> CallStates]
    <3>1. \E at \in Steps : GoTo(c, at)
      BY <1>11 DEF TellSession
    <3>2. QED
      BY <3>1, GoToMoves
  <2>2. \E type, who : Tell(type, who)
    BY <1>11 DEF TellSession
  <2>3. QED
    BY <1>11, <2>1, <2>2, TellTyped DEF TellSession, TypeOK, tables
<1>12. ASSUME NEW c \in Calls, ApplyRatings(c) PROVE TypeOK'
  <2>1. call' \in [Calls -> CallStates]
    BY <1>12, GoToMoves DEF ApplyRatings
  <2>2. call[c].result \in Finished
    BY <1>12, ReadIsTyped DEF ApplyRatings, Knows
  <2>3. game' \in Rows
    BY <1>12, <2>2 DEF ApplyRatings, TypeOK, Rows
  <2>4. scored' \in Seq(Finished)
    <3>1. Append(scored, call[c].result) \in Seq(Finished)
      BY <2>2, AppendProperties DEF TypeOK
    <3>2. QED
      BY <1>12, <3>1 DEF ApplyRatings, TypeOK
  <2>5. failed' \in Nat
    BY <1>12 DEF ApplyRatings, TypeOK
  <2>6. QED
    BY <1>12, <2>1, <2>3, <2>4, <2>5 DEF ApplyRatings, TypeOK
<1>13. ASSUME NEW c \in Calls, RequestAnalysis(c) PROVE TypeOK'
  <2>1. call' \in [Calls -> CallStates]
    BY <1>13, GoToMoves DEF RequestAnalysis
  <2>2. hooks' \subseteq {"analysis", "archive"} /\ failed' \in Nat
    BY <1>13, RequestTyped DEF RequestAnalysis
  <2>3. QED
    BY <1>13, <2>1, <2>2 DEF RequestAnalysis, TypeOK, tables
<1>14. ASSUME NEW c \in Calls, ArchivePGN(c) PROVE TypeOK'
  <2>1. call' \in [Calls -> CallStates]
    BY <1>14, GoToMoves DEF ArchivePGN
  <2>2. hooks' \subseteq {"analysis", "archive"} /\ failed' \in Nat
    BY <1>14, RequestTyped DEF ArchivePGN
  <2>3. QED
    BY <1>14, <2>1, <2>2 DEF ArchivePGN, TypeOK, tables
<1>15. ASSUME NEW c \in Calls, IngestOpening(c) PROVE TypeOK'
  <2>1. call' \in [Calls -> CallStates]
    BY <1>15, GoToMoves DEF IngestOpening
  <2>2. QED
    BY <1>15, <2>1 DEF IngestOpening, TypeOK
<1>16. ASSUME NEW c \in Calls, Fail(c) PROVE TypeOK'
  <2>1. call' \in [Calls -> CallStates]
    BY <1>16, GoToMoves DEF Fail
  <2>2. QED
    BY <1>16, <2>1 DEF Fail, TypeOK, tables
<1>17. QED
  BY <1>1, <1>2, <1>3, <1>4, <1>5, <1>6, <1>7, <1>8, <1>9, <1>10, <1>11, <1>12, <1>13,
     <1>14, <1>15, <1>16 DEF Next, Step

-----------------------------------------------------------------------------
(* What the handlers know of the game. *)

\* A stored move extends the tables, and changes nothing of the row that a handler
\* relies on.
LEMMA AppendMoveExtends ==
    ASSUME TypeOK, NEW ply \in Nat, NEW line \in Seq(Calls), NEW by, NEW result \in Statuses,
           AppendMove(ply, line, by, result)
    PROVE  /\ game'.kind = game.kind /\ game'.black = game.black /\ game'.rated = game.rated
           /\ game'.delta = game.delta /\ game'.line = line /\ game'.status = result
           /\ Len(outbox) \in Nat /\ Len(outbox') = Len(outbox) + 1
           /\ \A i \in DOMAIN outbox : outbox'[i] = outbox[i]
           /\ outbox'[Len(outbox) + 1] = [ply |-> ply, line |-> line, status |-> result]
<1>1. [ply |-> ply, line |-> line, status |-> result] \in Events
  BY DEF Events
<1>2. QED
  BY <1>1, AppendProperties DEF AppendMove, TypeOK, Rows

\* The kind of the game and its Black are written once, and the outbox only grows.
Stable ==
    /\ game.kind # None => game'.kind = game.kind
    /\ game.black # None => game'.black = game.black
    /\ Len(outbox) <= Len(outbox')
    /\ \A i \in DOMAIN outbox : outbox'[i] = outbox[i]

LEMMA SubmitWrites ==
    ASSUME TypeOK, CallsKnow, NEW c \in Calls, SubmitMove(c)
    PROVE  /\ Knows(c) /\ call[c].op = "move" /\ call[c].at = "append"
           /\ call[c].ply \in Nat \ {0} /\ Append(call[c].row.line, c) \in Seq(Calls)
           /\ call[c].who \in Players /\ call[c].result \in Statuses
  BY ReadIsTyped, AppendProperties DEF SubmitMove, Knows, Reading

LEMMA ReplyWrites ==
    ASSUME TypeOK, CallsKnow, NEW c \in Calls, PlayEngineReply(c)
    PROVE  /\ Knows(c) /\ call[c].op = "move" /\ call[c].at = "reply"
           /\ call[c].ply \in Nat \ {0}
           /\ call[c].row.line \o <<c, c>> \in Seq(Calls)
           /\ \A r \in Outcomes(Turn(Append(call[c].row.line, c))) : r \in Statuses
<1>1. call[c].row.line \o <<c, c>> \in Seq(Calls)
  BY ReadIsTyped, ConcatProperties
<1>2. \A r \in Outcomes(Turn(Append(call[c].row.line, c))) : r \in Statuses
  BY DEF Outcomes, Statuses, Finished
<1>3. QED
  BY <1>1, <1>2, ReadIsTyped DEF PlayEngineReply, Knows, Reading

LEMMA StableStep ==
    ASSUME TypeOK, CallsKnow, Uncreated, [Next]_vars
    PROVE  Stable
<1>1. CASE UNCHANGED <<game, outbox>>
  BY <1>1 DEF Stable, TypeOK
<1>2. ASSUME NEW c \in Calls, CreateGame(c) PROVE Stable
  BY <1>2 DEF CreateGame, Uncreated, Stable, TypeOK
<1>3. ASSUME NEW c \in Calls, NEW p \in Players, JoinGame(c, p) PROVE Stable
  BY <1>3 DEF JoinGame, SeatOpen, Stable, TypeOK, Rows
<1>4. ASSUME NEW c \in Calls, SubmitMove(c) PROVE Stable
  <2> DEFINE after == Append(call[c].row.line, c)
  <2>1. after \in Seq(Calls)
    BY <1>4, SubmitWrites
  <2> HIDE DEF after
  <2>2. CASE AppendMove(call[c].ply, after, call[c].who, call[c].result)
    <3>1. call[c].ply \in Nat /\ call[c].result \in Statuses
      BY <1>4, SubmitWrites
    <3>2. QED
      <4>1. /\ game'.kind = game.kind /\ game'.black = game.black
            /\ Len(outbox) \in Nat /\ Len(outbox') = Len(outbox) + 1
            /\ \A i \in DOMAIN outbox : outbox'[i] = outbox[i]
        BY <2>1, <2>2, <3>1, AppendMoveExtends
      <4>2. QED
        BY <4>1 DEF Stable
  <2>3. QED
    BY <1>4, <2>2, <1>1 DEF SubmitMove, after
<1>5. ASSUME NEW c \in Calls, PlayEngineReply(c) PROVE Stable
  <2> DEFINE after == call[c].row.line \o <<c, c>>
  <2>1. after \in Seq(Calls)
    BY <1>5, ReplyWrites
  <2> HIDE DEF after
  <2>2. ASSUME NEW r \in Outcomes(Turn(Append(call[c].row.line, c))),
               AppendMove(call[c].ply + 1, after, "engine", r)
        PROVE  Stable
    <3>1. r \in Statuses /\ call[c].ply + 1 \in Nat
      BY <1>5, ReplyWrites
    <3>2. QED
      <4>1. /\ game'.kind = game.kind /\ game'.black = game.black
            /\ Len(outbox) \in Nat /\ Len(outbox') = Len(outbox) + 1
            /\ \A i \in DOMAIN outbox : outbox'[i] = outbox[i]
        BY <2>1, <2>2, <3>1, AppendMoveExtends
      <4>2. QED
        BY <4>1 DEF Stable
  <2>3. QED
    BY <1>5, <2>2, <1>1 DEF PlayEngineReply, after
<1>6. ASSUME NEW c \in Calls, Resign(c) PROVE Stable
  <2>1. game' = game \/ \E w : game' = [game EXCEPT !.status = w, !.reason = "RESIGNATION"]
    BY <1>6 DEF Resign
  <2>2. game'.kind = game.kind /\ game'.black = game.black
    BY <2>1 DEF TypeOK, Rows
  <2>3. QED
    BY <1>6, <2>2 DEF Resign, Stable, TypeOK
<1>7. ASSUME NEW c \in Calls, ApplyRatings(c) PROVE Stable
  BY <1>7 DEF ApplyRatings, Stable, TypeOK, Rows
<1>8. QED
  BY <1>1, <1>2, <1>3, <1>4, <1>5, <1>6, <1>7
  DEF Next, Step, SessionDecides, CreateSession, ReadRow, ReadMoves, TellSession,
      RequestAnalysis, ArchivePGN, IngestOpening, Fail, vars, tables

LEMMA KnowsStays ==
    ASSUME TypeOK, TypeOK', Stable, NEW d \in Calls, Knows(d), call'[d] = call[d]
    PROVE  Knows(d)'
  BY DEF Knows, Stable, TypeOK, MayMove, Seat

LEMMA DoneKnows ==
    ASSUME NEW c \in Calls, call'[c].at \in {"done", "session"}
    PROVE  Knows(c)'
  BY DEF Knows, Reading, Ending

LEMMA OthersKnow ==
    ASSUME TypeOK, TypeOK', Stable, CallsKnow, NEW c \in Calls,
           \A d \in Calls : d # c => call'[d] = call[d], Knows(c)'
    PROVE  CallsKnow'
  BY KnowsStays DEF CallsKnow

\* A call that goes on from a step where it holds the row.
LEMMA GoesOn ==
    ASSUME TypeOK, TypeOK', Stable, CallsKnow, NEW c \in Calls, call[c].at \in Reading,
           NEW at \in {"tell", "done"} \cup Ending, GoTo(c, at),
           at \in Ending => call[c].result \in Finished,
           at = "tell" => call[c].op = "move"
    PROVE  CallsKnow'
<1>1. /\ \A d \in Calls : d # c => call'[d] = call[d]
      /\ call'[c].at = at
      /\ at # "done" =>
             /\ call'[c].op = call[c].op /\ call'[c].who = call[c].who
             /\ call'[c].row = call[c].row /\ call'[c].result = call[c].result
  BY GoToMoves DEF Steps, Reading
<1>2. CASE at = "done"
  BY <1>1, <1>2, DoneKnows, OthersKnow
<1>3. CASE at # "done"
  <2>1. /\ call[c].op # "none" /\ call[c].who \in Players
        /\ game.kind # None /\ call[c].row.kind = game.kind
        /\ call[c].row.black \in {None, game.black}
    BY DEF CallsKnow, Knows
  <2>2. game'.kind = game.kind /\ call[c].row.black \in {None, game'.black}
    BY <2>1 DEF Stable
  <2>3. Knows(c)'
    BY <1>1, <1>3, <2>1, <2>2 DEF Knows, Reading, Ending
  <2>4. QED
    BY <1>1, <2>3, OthersKnow
<1>4. QED
  BY <1>2, <1>3

LEMMA KnowsStep ==
    ASSUME TypeOK, TypeOK', CallsKnow, Uncreated, PliesStored, OutboxInOrder, [Next]_vars
    PROVE  CallsKnow'
<1> USE StableStep DEF Reading, Ending
<1>1. CASE UNCHANGED call
  BY <1>1, KnowsStays DEF CallsKnow
<1>2. ASSUME NEW c \in Calls, NEW at \in {"session", "done"}, GoTo(c, at) PROVE CallsKnow'
  <2>1. (\A d \in Calls : d # c => call'[d] = call[d]) /\ call'[c].at = at
    BY <1>2, GoToMoves DEF Steps
  <2>2. QED
    BY <1>2, <2>1, DoneKnows, OthersKnow
<1>3. ASSUME NEW c \in Calls, NEW op \in {"move", "resign"}, NEW p \in Players, ReadRow(c, op, p)
      PROVE CallsKnow'
  <2>1. /\ call'[c].op = op /\ call'[c].who = p /\ call'[c].at = "read" /\ call'[c].row = game
        /\ \A d \in Calls : d # c => call'[d] = call[d]
    BY <1>3 DEF ReadRow, TypeOK, Idle
  <2>2. game' = game /\ game.kind # None
    BY <1>3 DEF ReadRow, tables
  <2>3. Knows(c)'
    BY <2>1, <2>2 DEF Knows
  <2>4. QED
    BY <2>1, <2>3, OthersKnow
<1>4. ASSUME NEW c \in Calls, ReadMoves(c) PROVE CallsKnow'
  <2>1. CASE GoTo(c, "done")
    BY <1>2, <2>1
  <2>2. CASE /\ MayMove(call[c].row, call[c].who)
             /\ \E r \in Outcomes(Turn(call[c].row.line)) :
                  call' = [call EXCEPT ![c].at = "append", ![c].result = r,
                                       ![c].ply = Cardinality(moves) + 1]
    <3>1. /\ \A d \in Calls : d # c => call'[d] = call[d]
          /\ call'[c].at = "append" /\ call'[c].op = call[c].op /\ call'[c].who = call[c].who
          /\ call'[c].row = call[c].row /\ call'[c].ply = Len(outbox) + 1
      BY <2>2 DEF TypeOK, CallStates, OutboxInOrder
    <3>2. game' = game /\ outbox' = outbox /\ Len(outbox) \in Nat
      <4>1. UNCHANGED tables
        BY <1>4 DEF ReadMoves
      <4>2. Len(outbox) \in Nat
        BY DEF TypeOK
      <4>3. QED
        BY <4>1, <4>2 DEF tables
    <3>3. Knows(c) /\ call[c].at = "read" /\ call[c].op = "move"
      BY <1>4 DEF CallsKnow, ReadMoves
    <3>4. Knows(c)'
      BY <2>2, <3>1, <3>2, <3>3 DEF Knows, MayMove, Seat
    <3>5. QED
      BY <3>1, <3>4, OthersKnow
  <2>3. QED
    BY <1>4, <2>1, <2>2 DEF ReadMoves
<1>5. ASSUME NEW c \in Calls, SubmitMove(c) PROVE CallsKnow'
  <2> DEFINE after == Append(call[c].row.line, c)
             at == AfterMove(call[c].row.kind, call[c].result)
  <2>1. Knows(c) /\ call[c].op = "move" /\ call[c].at = "append"
    BY <1>5, SubmitWrites
  <2>2. at \in {"tell", "rate", "reply"} /\ (at = "rate" => call[c].result \in Finished)
        /\ (at = "reply" => call[c].row.kind = "engine")
    BY AfterMoveIsStep
  <2>3. after \in Seq(Calls) /\ call[c].ply \in Nat /\ call[c].result \in Statuses
    BY <1>5, SubmitWrites
  <2> HIDE DEF at, after
  <2>4. CASE GoTo(c, "done")
    BY <1>2, <2>4
  <2>5. CASE AppendMove(call[c].ply, after, call[c].who, call[c].result) /\ GoTo(c, at)
    <3>1. CASE at \in {"tell", "rate"}
      BY <2>1, <2>2, <2>5, <3>1, GoesOn
    <3>2. CASE at = "reply"
      <4>1. /\ call' \in [Calls -> CallStates]
            /\ \A d \in Calls : d # c => call'[d] = call[d]
            /\ call'[c].at = "reply"
            /\ call'[c].op = call[c].op /\ call'[c].who = call[c].who
            /\ call'[c].row = call[c].row /\ call'[c].ply = call[c].ply
        BY <2>5, <3>2, GoToMoves DEF Steps
      <4>2. Len(outbox') = Len(outbox) + 1 /\ Len(outbox) \in Nat
        BY <2>3, <2>5, AppendMoveExtends
      <4>3. call[c].ply \in 1 .. Len(outbox')
        BY <2>1, <4>2 DEF Knows
      <4>4. game.kind # None /\ call[c].row.kind = game.kind /\ call[c].row.black \in {None, game.black}
        BY <2>1 DEF Knows
      <4>5. game'.kind = game.kind /\ call[c].row.black \in {None, game'.black}
        BY <4>4 DEF Stable
      <4>6. Knows(c)'
        BY <2>1, <2>2, <3>2, <4>1, <4>3, <4>4, <4>5 DEF Knows, MayMove, Seat
      <4>7. QED
        BY <4>1, <4>6, OthersKnow
    <3>3. QED
      BY <2>2, <3>1, <3>2
  <2>6. QED
    BY <1>5, <2>4, <2>5 DEF SubmitMove, at, after
<1>6. ASSUME NEW c \in Calls, Resign(c) PROVE CallsKnow'
  <2>1. CASE GoTo(c, "done")
    BY <1>2, <2>1
  <2>2. CASE \E winner \in Finished, at \in {"rate", "tell"} :
               call' = [call EXCEPT ![c].result = winner, ![c].at = at]
    <3>1. /\ \A d \in Calls : d # c => call'[d] = call[d]
          /\ call'[c].at \in {"rate", "tell"} /\ call'[c].result \in Finished
          /\ call'[c].op = call[c].op /\ call'[c].who = call[c].who
          /\ call'[c].row = call[c].row
      BY <2>2 DEF TypeOK, CallStates
    <3>2. /\ call[c].op # "none" /\ call[c].who \in Players
          /\ game.kind # None /\ call[c].row.kind = game.kind
          /\ call[c].row.black \in {None, game.black}
      BY <1>6 DEF CallsKnow, Knows, Resign
    <3>3. game'.kind = game.kind /\ call[c].row.black \in {None, game'.black}
      BY <3>2 DEF Stable
    <3>4. Knows(c)'
      BY <3>1, <3>2, <3>3 DEF Knows
    <3>5. QED
      BY <3>1, <3>4, OthersKnow
  <2>3. QED
    BY <1>6, <2>1, <2>2 DEF Resign, Finished
<1>7. ASSUME NEW c \in Calls, TellSession(c) PROVE CallsKnow'
  <2>1. \E at \in {"rate", "done"} : GoTo(c, at) /\ (at = "rate" => call[c].result \in Finished)
    BY <1>7 DEF TellSession
  <2>2. QED
    BY <1>7, <2>1, GoesOn DEF TellSession
<1>8. ASSUME NEW c \in Calls, ApplyRatings(c) \/ RequestAnalysis(c) \/ ArchivePGN(c)
      PROVE CallsKnow'
  <2>1. \E at \in Ending : GoTo(c, at)
    BY <1>8 DEF ApplyRatings, RequestAnalysis, ArchivePGN
  <2>2. call[c].at \in Ending /\ Knows(c)
    BY <1>8 DEF ApplyRatings, RequestAnalysis, ArchivePGN, CallsKnow
  <2>3. call[c].result \in Finished
    BY <2>2 DEF Knows
  <2>4. QED
    BY <2>1, <2>2, <2>3, GoesOn
<1>9. QED
  <2>1. ASSUME NEW c \in Calls, \/ CreateGame(c) \/ CreateSession(c) \/ PlayEngineReply(c)
                                \/ IngestOpening(c) \/ Fail(c)
                                \/ \E p \in Players : JoinGame(c, p)
        PROVE  \E at \in {"session", "done"} : GoTo(c, at)
    BY <2>1 DEF CreateGame, CreateSession, PlayEngineReply, IngestOpening, Fail, JoinGame
  <2>2. SessionDecides \/ UNCHANGED vars => UNCHANGED call
    BY DEF SessionDecides, vars
  <2>3. QED
    BY <1>1, <1>2, <1>3, <1>4, <1>5, <1>6, <1>7, <1>8, <2>1, <2>2 DEF Next, Step

-----------------------------------------------------------------------------
(* The tables before the game is created, and what its result is applied to. *)

LEMMA UncreatedStep ==
    ASSUME TypeOK, TypeOK', CallsKnow, Uncreated, [Next]_vars
    PROVE  Uncreated'
<1> USE DEF Reading, Ending
<1>1. SUFFICES ASSUME game'.kind = None PROVE Uncreated'
  BY DEF Uncreated
<1>2. game.kind = None
  BY <1>1, StableStep DEF Stable
<1>3. \A c \in Calls : call[c].at \in {"idle", "session", "done"}
  <2>1. ASSUME NEW c \in Calls PROVE call[c].at \in {"idle", "session", "done"}
    BY <1>2, ReadIsTyped DEF Knows, Steps
  <2>2. QED
    BY <2>1
<1>4. ASSUME NEW c \in Calls, CreateGame(c) PROVE FALSE
  <2>1. PICK kind \in Kinds : game'.kind = kind
    BY <1>4 DEF CreateGame, NoGame
  <2>2. QED
    BY <1>1, <2>1, ServiceAssumption
<1>5. UNCHANGED <<game, moves, outbox, scored>>
  <2>1. ASSUME NEW c \in Calls, Step(c) PROVE UNCHANGED <<game, moves, outbox, scored>>
    BY <1>2, <1>3, <1>4, <2>1
    DEF Step, JoinGame, SeatOpen, CreateSession, ReadRow, ReadMoves, SubmitMove, PlayEngineReply,
        Resign, TellSession, ApplyRatings, RequestAnalysis, ArchivePGN, IngestOpening, Fail, tables
  <2>2. QED
    BY <2>1 DEF Next, SessionDecides, vars, tables
<1>6. QED
  BY <1>5, <1>2 DEF Uncreated

\* A step writes the row's delta, or the list of what was scored, when it applies
\* the result of a game that has none yet.
LEMMA ScoresStep ==
    ASSUME TypeOK, TypeOK', CallsKnow, Uncreated, ScoredIsMarked, EffectsOnce, [Next]_vars
    PROVE  ScoredIsMarked' /\ EffectsOnce'
<1>1. ASSUME UNCHANGED <<scored, ingested>>, game'.delta = game.delta,
             game'.rated = game.rated, game.black # None => game'.black = game.black
      PROVE  ScoredIsMarked' /\ EffectsOnce'
  BY <1>1 DEF ScoredIsMarked, EffectsOnce
<1>2. ASSUME NEW c \in Calls, CreateGame(c) PROVE ScoredIsMarked' /\ EffectsOnce'
  <2>1. scored = <<>> /\ scored' = scored /\ ingested' = ingested /\ game'.delta = None
    BY <1>2 DEF CreateGame, Uncreated, NoGame
  <2>2. QED
    BY <2>1 DEF ScoredIsMarked, EffectsOnce
<1>3. ASSUME NEW c \in Calls, NEW p \in Players, JoinGame(c, p) PROVE ScoredIsMarked' /\ EffectsOnce'
  <2>1. game'.delta = game.delta /\ game'.rated = game.rated
    BY <1>3 DEF JoinGame, TypeOK, Rows
  <2>2. game.black # None => game'.black = game.black
    BY <1>3 DEF JoinGame, SeatOpen
  <2>3. QED
    BY <1>1, <1>3, <2>1, <2>2 DEF JoinGame
<1>4. ASSUME NEW c \in Calls, SubmitMove(c) \/ PlayEngineReply(c) \/ Resign(c)
      PROVE  ScoredIsMarked' /\ EffectsOnce'
  <2>1. ASSUME NEW ply, NEW line, NEW by, NEW result, AppendMove(ply, line, by, result)
        PROVE  game'.delta = game.delta /\ game'.rated = game.rated /\ game'.black = game.black
    BY <2>1 DEF AppendMove, TypeOK, Rows
  <2>2. game'.delta = game.delta /\ game'.rated = game.rated /\ game'.black = game.black
    <3>1. CASE SubmitMove(c)
      BY <2>1, <3>1 DEF SubmitMove
    <3>2. CASE PlayEngineReply(c)
      BY <2>1, <3>2 DEF PlayEngineReply
    <3>3. CASE Resign(c)
      <4>1. game' = game \/ \E w : game' = [game EXCEPT !.status = w, !.reason = "RESIGNATION"]
        BY <3>3 DEF Resign
      <4>2. QED
        BY <4>1 DEF TypeOK, Rows
    <3>4. QED
      BY <1>4, <3>1, <3>2, <3>3
  <2>3. QED
    BY <1>1, <1>4, <2>2 DEF SubmitMove, PlayEngineReply, Resign
<1>5. ASSUME NEW c \in Calls, ApplyRatings(c) PROVE ScoredIsMarked' /\ EffectsOnce'
  <2>1. CASE game' = game /\ scored' = scored
    BY <1>1, <1>5, <2>1 DEF ApplyRatings
  <2>2. CASE Scorable /\ scored' = Append(scored, call[c].result)
             /\ game' = [game EXCEPT !.delta = call[c].result]
    <3>1. scored = <<>>
      BY <2>2 DEF Scorable, ScoredIsMarked
    <3>2. call[c].result \in Finished
      BY <1>5, ReadIsTyped DEF ApplyRatings, Knows, Ending
    <3>3. scored' = <<call[c].result>>
      BY <2>2, <3>1
    <3>4. game'.delta = call[c].result /\ game'.rated = game.rated /\ game'.black = game.black
      BY <2>2 DEF TypeOK, Rows
    <3>5. Len(scored') = 1 /\ scored'[1] = call[c].result
      BY <3>3
    <3>6. ingested' = ingested
      BY <1>5 DEF ApplyRatings
    <3>7. QED
      BY <2>2, <3>2, <3>4, <3>5, <3>6, ServiceAssumption DEF ScoredIsMarked, EffectsOnce, Scorable
  <2>3. QED
    BY <1>5, <2>1, <2>2 DEF ApplyRatings
<1>6. ASSUME NEW c \in Calls, IngestOpening(c) PROVE ScoredIsMarked' /\ EffectsOnce'
  BY <1>6 DEF IngestOpening, Claimed, ScoredIsMarked, EffectsOnce
<1>7. QED
  <2>1. UNCHANGED <<game, scored, ingested>> => ScoredIsMarked' /\ EffectsOnce'
    BY <1>1
  <2>2. QED
    BY <1>2, <1>3, <1>4, <1>5, <1>6, <2>1
    DEF Next, Step, SessionDecides, CreateSession, ReadRow, ReadMoves, TellSession,
        RequestAnalysis, ArchivePGN, Fail, vars, tables

-----------------------------------------------------------------------------
(* The outbox. *)

\* Of the plies a call may hold, the one that no stored move has is the next.
LEMMA FreePlyIsNext ==
    ASSUME TypeOK, PliesStored, NEW ply \in 1 .. Len(outbox) + 1,
           \A m \in moves : m.ply # ply
    PROVE  ply = Len(outbox) + 1
<1>1. Len(outbox) \in Nat /\ DOMAIN outbox = 1 .. Len(outbox)
  BY DEF TypeOK
<1>2. ply \notin DOMAIN outbox
  BY DEF PliesStored
<1>3. QED
  BY <1>1, <1>2

LEMMA OutboxAppend ==
    ASSUME TypeOK, PliesStored, OutboxInOrder, NEW ply \in 1 .. Len(outbox) + 1,
           NEW line \in Seq(Calls), NEW by, NEW result \in Statuses,
           AppendMove(ply, line, by, result)
    PROVE  PliesStored' /\ OutboxInOrder'
<1> DEFINE row == [ply |-> ply, line |-> line, by |-> by]
<1>1. ply = Len(outbox) + 1 /\ ply \in Nat /\ Len(outbox) \in Nat
  BY FreePlyIsNext DEF AppendMove, TypeOK
<1>2. /\ Len(outbox') = ply /\ DOMAIN outbox = 1 .. ply - 1 /\ DOMAIN outbox' = 1 .. ply
      /\ game'.line = line
      /\ \A i \in DOMAIN outbox : outbox'[i] = outbox[i]
      /\ outbox'[ply] = [ply |-> ply, line |-> line, status |-> result]
  <2>1. [ply |-> ply, line |-> line, status |-> result] \in Events
    BY <1>1 DEF Events
  <2>2. outbox' \in Seq(Events) /\ outbox \in Seq(Events)
    BY <2>1, AppendProperties DEF AppendMove, TypeOK
  <2>3. QED
    BY <1>1, <2>2, AppendMoveExtends
<1>3. moves' = moves \cup {row} /\ row \notin moves /\ row.ply = ply /\ row.line = line
  BY DEF AppendMove
<1>4. IsFiniteSet(moves') /\ Cardinality(moves') = Cardinality(moves) + 1
  BY <1>3, FS_AddElement DEF PliesStored
<1> HIDE DEF row
<1>5. \A i \in DOMAIN outbox' : \E m \in moves' : m.ply = i
  <2>1. ASSUME NEW i \in 1 .. ply PROVE \E m \in moves' : m.ply = i
    <3>1. CASE i = ply
      BY <1>3, <3>1
    <3>2. CASE i # ply
      <4>1. i \in DOMAIN outbox
        BY <1>1, <1>2, <3>2
      <4>2. QED
        BY <1>3, <4>1 DEF PliesStored
    <3>3. QED
      BY <3>1, <3>2
  <2>2. QED
    BY <1>2, <2>1
<1>6. \A i \in DOMAIN outbox' : outbox'[i].ply = i
  BY <1>1, <1>2 DEF OutboxInOrder
<1>7. \A m \in moves' : m.ply \in DOMAIN outbox' /\ outbox'[m.ply].line = m.line
  BY <1>1, <1>2, <1>3 DEF OutboxInOrder
<1>8. Cardinality(moves') = Len(outbox')
  BY <1>1, <1>2, <1>4 DEF OutboxInOrder
<1>9. outbox' # <<>> /\ game'.line = outbox'[Len(outbox')].line
  BY <1>1, <1>2
<1>10. QED
  BY <1>4, <1>5, <1>6, <1>7, <1>8, <1>9 DEF PliesStored, OutboxInOrder

\* A call that stores a move holds a ply that is taken or next.
LEMMA SubmitPly ==
    ASSUME TypeOK, CallsKnow, NEW c \in Calls, SubmitMove(c)
    PROVE  call[c].ply \in 1 .. Len(outbox) + 1
  BY SubmitWrites DEF Knows

LEMMA ReplyPly ==
    ASSUME TypeOK, CallsKnow, NEW c \in Calls, PlayEngineReply(c)
    PROVE  call[c].ply \in 1 .. Len(outbox) /\ call[c].ply + 1 \in 1 .. Len(outbox) + 1
<1>1. Len(outbox) \in Nat
  BY DEF TypeOK
<1>2. QED
  BY <1>1, ReplyWrites DEF Knows

LEMMA OutboxStep ==
    ASSUME TypeOK, TypeOK', CallsKnow, Uncreated, PliesStored, OutboxInOrder, [Next]_vars
    PROVE  PliesStored' /\ OutboxInOrder'
<1>1. ASSUME UNCHANGED <<moves, outbox>>, game'.line = game.line
      PROVE  PliesStored' /\ OutboxInOrder'
  BY <1>1 DEF PliesStored, OutboxInOrder
<1>2. ASSUME NEW c \in Calls, CreateGame(c) PROVE PliesStored' /\ OutboxInOrder'
  <2>1. UNCHANGED <<moves, outbox>> /\ outbox = <<>> /\ game'.line = <<>>
    BY <1>2 DEF CreateGame, Uncreated, NoGame
  <2>2. QED
    BY <2>1, <1>1 DEF OutboxInOrder
<1>3. ASSUME NEW c \in Calls, SubmitMove(c) PROVE PliesStored' /\ OutboxInOrder'
  <2> DEFINE after == Append(call[c].row.line, c)
  <2>1. after \in Seq(Calls) /\ call[c].ply \in 1 .. Len(outbox) + 1 /\ call[c].result \in Statuses
    BY <1>3, SubmitWrites, SubmitPly
  <2> HIDE DEF after
  <2>2. CASE AppendMove(call[c].ply, after, call[c].who, call[c].result)
    BY <2>1, <2>2, OutboxAppend
  <2>3. QED
    BY <1>1, <1>3, <2>2 DEF SubmitMove, after
<1>4. ASSUME NEW c \in Calls, PlayEngineReply(c) PROVE PliesStored' /\ OutboxInOrder'
  <2> DEFINE after == call[c].row.line \o <<c, c>>
             next == call[c].ply + 1
  <2>1. after \in Seq(Calls) /\ next \in 1 .. Len(outbox) + 1
    BY <1>4, ReplyWrites, ReplyPly
  <2> HIDE DEF after, next
  <2>2. ASSUME NEW r \in Statuses, AppendMove(next, after, "engine", r)
        PROVE  PliesStored' /\ OutboxInOrder'
    BY <2>1, <2>2, OutboxAppend
  <2>3. QED
    BY <1>1, <1>4, <2>2, ReplyWrites DEF PlayEngineReply, after, next
<1>5. ASSUME NEW c \in Calls,
             \/ \E p \in Players : JoinGame(c, p)
             \/ Resign(c) \/ ApplyRatings(c)
      PROVE  PliesStored' /\ OutboxInOrder'
  <2>1. UNCHANGED <<moves, outbox>>
    BY <1>5 DEF JoinGame, Resign, ApplyRatings
  <2>2. \/ game' = game
        \/ \E w : game' = [game EXCEPT !.status = w, !.reason = "RESIGNATION"]
        \/ \E p : game' = [game EXCEPT !.black = p]
        \/ \E w : game' = [game EXCEPT !.delta = w]
    BY <1>5 DEF JoinGame, Resign, ApplyRatings
  <2>3. game'.line = game.line
    BY <2>2 DEF TypeOK, Rows
  <2>4. QED
    BY <1>1, <2>1, <2>3
<1>6. QED
  <2>1. UNCHANGED <<game, moves, outbox>> => PliesStored' /\ OutboxInOrder'
    BY <1>1
  <2>2. QED
    BY <1>2, <1>3, <1>4, <1>5, <2>1
    DEF Next, Step, SessionDecides, CreateSession, ReadRow, ReadMoves, TellSession,
        RequestAnalysis, ArchivePGN, IngestOpening, Fail, vars, tables

-----------------------------------------------------------------------------
(* The moves are one game. *)

\* A line without the move added last, or the two, is the line it was added to.
LEMMA AppendSub ==
    ASSUME NEW s \in Seq(Calls), NEW c \in Calls
    PROVE  /\ Len(Append(s, c)) = Len(s) + 1
           /\ SubSeq(Append(s, c), 1, Len(s)) = s
           /\ Len(s \o <<c, c>>) = Len(s) + 2
           /\ SubSeq(s \o <<c, c>>, 1, Len(s) + 1) = Append(s, c)
<1>1. Len(Append(s, c)) = Len(s) + 1 /\ Append(s, c) \in Seq(Calls)
  BY AppendProperties
<1>2. SubSeq(Append(s, c), 1, Len(s)) = s
  OBVIOUS
<1>3. Len(s \o <<c, c>>) = Len(s) + 2 /\ s \o <<c, c>> \in Seq(Calls)
  OBVIOUS
<1>4. SubSeq(s \o <<c, c>>, 1, Len(s) + 1) = Append(s, c)
  OBVIOUS
<1>5. QED
  BY <1>1, <1>2, <1>3, <1>4

\* The line of the game is as long as its outbox.
LEMMA LineIsLong ==
    ASSUME TypeOK, PliesStored, OutboxInOrder, OneGame, ~torn
    PROVE  game.line = LineAt(Len(outbox)) /\ Len(game.line) = Len(outbox)
<1>1. Len(outbox) \in Nat /\ DOMAIN outbox = 1 .. Len(outbox)
  BY DEF TypeOK
<1>2. CASE Len(outbox) = 0
  <2>1. outbox = <<>>
    BY <1>2, EmptySeq DEF TypeOK
  <2>2. QED
    BY <1>2, <2>1 DEF OutboxInOrder, LineAt
<1>3. CASE Len(outbox) # 0
  <2>1. outbox # <<>> /\ Len(outbox) \in DOMAIN outbox
    BY <1>1, <1>3
  <2>2. PICK m \in moves : m.ply = Len(outbox)
    BY <2>1 DEF PliesStored
  <2>3. outbox[Len(outbox)].line = m.line /\ Len(m.line) = m.ply
    BY <2>2 DEF OutboxInOrder, OneGame
  <2>4. QED
    BY <1>3, <2>1, <2>2, <2>3 DEF OutboxInOrder, LineAt
<1>4. QED
  BY <1>2, <1>3

LEMMA TornStays ==
    ASSUME TypeOK, [Next]_vars, ~torn'
    PROVE  ~torn
  BY ZenonT(30) DEF Next, Step, SessionDecides, CreateGame, JoinGame, CreateSession, ReadRow, ReadMoves,
         SubmitMove, PlayEngineReply, Resign, TellSession, ApplyRatings, RequestAnalysis,
         ArchivePGN, IngestOpening, Fail, vars, TypeOK

LEMMA OwnLineStays ==
    ASSUME TypeOK, Stable, NEW d \in Calls, Knows(d), OwnLine(d), call'[d] = call[d]
    PROVE  OwnLine(d)'
<1>1. Len(outbox) \in Nat /\ DOMAIN outbox = 1 .. Len(outbox)
  BY DEF TypeOK
<1>2. ASSUME NEW n \in 0 .. Len(outbox) PROVE LineAt(n)' = LineAt(n)
  BY <1>1, <1>2 DEF LineAt, Stable
<1>3. call[d].at = "append" => call[d].ply - 1 \in 0 .. Len(outbox)
  BY <1>1 DEF Knows
<1>4. call[d].at = "reply" => call[d].ply \in 0 .. Len(outbox)
  BY <1>1 DEF Knows
<1>5. QED
  BY <1>2, <1>3, <1>4 DEF OwnLine

LEMMA LinesStep ==
    ASSUME TypeOK, TypeOK', CallsKnow, Uncreated, PliesStored, OutboxInOrder, LinesFollow,
           OneGame, [Next]_vars
    PROVE  LinesFollow'
<1>1. SUFFICES ASSUME ~torn' PROVE \A c \in Calls : OwnLine(c)'
  BY DEF LinesFollow
<1>2. ~torn /\ \A c \in Calls : OwnLine(c) /\ Knows(c)
  BY <1>1, TornStays DEF LinesFollow, CallsKnow
<1>3. CASE UNCHANGED call
  BY <1>2, <1>3, StableStep, OwnLineStays
<1>4. ASSUME NEW c \in Calls, \A d \in Calls : d # c => call'[d] = call[d], OwnLine(c)'
      PROVE  \A d \in Calls : OwnLine(d)'
  BY <1>2, <1>4, StableStep, OwnLineStays
<1>5. ASSUME NEW c \in Calls, \A d \in Calls : d # c => call'[d] = call[d],
             call'[c].at \notin {"append", "reply"}
      PROVE  \A d \in Calls : OwnLine(d)'
  BY <1>4, <1>5 DEF OwnLine
<1>6. ASSUME NEW c \in Calls, NEW at \in Steps \ {"append", "reply"}, GoTo(c, at)
      PROVE  \A d \in Calls : OwnLine(d)'
  BY <1>5, <1>6, GoToMoves
<1>7. ASSUME NEW c \in Calls, ReadMoves(c) PROVE \A d \in Calls : OwnLine(d)'
  <2>1. CASE GoTo(c, "done")
    BY <1>6, <2>1 DEF Steps
  <2>2. CASE /\ \E r \in Outcomes(Turn(call[c].row.line)) :
                  call' = [call EXCEPT ![c].at = "append", ![c].result = r,
                                       ![c].ply = Cardinality(moves) + 1]
             /\ torn' = (torn \/ game.line # call[c].row.line)
    <3>1. /\ \A d \in Calls : d # c => call'[d] = call[d]
          /\ call'[c].at = "append" /\ call'[c].row = call[c].row
          /\ call'[c].ply = Len(outbox) + 1
      BY <2>2 DEF TypeOK, CallStates, OutboxInOrder
    <3>2. game.line = call[c].row.line
      BY <1>1, <2>2
    <3>3. outbox' = outbox /\ Len(outbox) \in Nat
      <4>1. UNCHANGED tables
        BY <1>7 DEF ReadMoves
      <4>2. QED
        BY <4>1 DEF tables, TypeOK
    <3>4. game.line = LineAt(Len(outbox)) /\ Len(game.line) = Len(outbox)
      BY <1>2, LineIsLong
    <3>5. LineAt(Len(outbox))' = LineAt(Len(outbox))
      BY <3>3 DEF LineAt
    <3>6. call'[c].ply - 1 = Len(outbox)
      BY <3>1, <3>3
    <3>7. OwnLine(c)'
      <4>1. LineAt(call[c].ply - 1)' = game.line
        BY <3>3, <3>4, <3>5, <3>6
      <4>2. QED
        BY <3>1, <3>2, <3>4, <3>6, <4>1 DEF OwnLine
    <3>8. QED
      BY <1>4, <3>1, <3>7
  <2>3. QED
    BY <1>7, <2>1, <2>2 DEF ReadMoves
<1>8. ASSUME NEW c \in Calls, SubmitMove(c) PROVE \A d \in Calls : OwnLine(d)'
  <2> DEFINE after == Append(call[c].row.line, c)
             at == AfterMove(call[c].row.kind, call[c].result)
  <2>1. after \in Seq(Calls) /\ call[c].ply \in 1 .. Len(outbox) + 1 /\ call[c].result \in Statuses
    BY <1>8, SubmitWrites, SubmitPly
  <2>2. at \in {"tell", "rate", "reply"}
    BY AfterMoveIsStep
  <2> HIDE DEF at
  <2>3. CASE GoTo(c, "done")
    BY <1>6, <2>3 DEF Steps
  <2>4. CASE AppendMove(call[c].ply, after, call[c].who, call[c].result) /\ GoTo(c, at)
    <3>1. CASE at \in {"tell", "rate"}
      BY <1>6, <2>4, <3>1 DEF Steps, Reading, Ending
    <3>2. CASE at = "reply"
      <4>1. /\ \A d \in Calls : d # c => call'[d] = call[d]
            /\ call'[c].at = "reply"
            /\ call'[c].row = call[c].row /\ call'[c].ply = call[c].ply
        BY <2>4, <3>2, GoToMoves DEF Steps, Reading
      <4>2. call[c].ply = Len(outbox) + 1 /\ Len(outbox) \in Nat
        <5> HIDE DEF after
        <5>1. \A m \in moves : m.ply # call[c].ply
          BY <2>4 DEF AppendMove
        <5>2. call[c].ply = Len(outbox) + 1
          BY <2>1, <5>1, FreePlyIsNext
        <5>3. QED
          BY <5>2 DEF TypeOK
      <4>3. outbox'[call[c].ply].line = after
        <5> HIDE DEF after
        <5>1. outbox'[Len(outbox) + 1]
                = [ply |-> call[c].ply, line |-> after, status |-> call[c].result]
          <6>1. AppendMove(call[c].ply, after, call[c].who, call[c].result)
            BY <2>4
          <6>2. call[c].ply \in Nat
            BY <4>2
          <6>3. QED
            BY <2>1, <6>1, <6>2, AppendMoveExtends
        <5>2. QED
          BY <4>2, <5>1
      <4>4. LineAt(call[c].ply)' = after
        BY <4>1, <4>2, <4>3, SMTT(20) DEF LineAt
      <4>5. Len(call[c].row.line) = call[c].ply - 1
        BY <1>2, <1>8 DEF OwnLine, SubmitMove
      <4>6. OwnLine(c)'
        BY <4>1, <4>4, <4>5 DEF OwnLine
      <4>7. QED
        BY <1>4, <4>1, <4>6
    <3>3. QED
      BY <2>2, <3>1, <3>2
  <2>5. QED
    BY <1>8, <2>3, <2>4 DEF SubmitMove, at
<1>9. ASSUME NEW c \in Calls, Resign(c) PROVE \A d \in Calls : OwnLine(d)'
  <2>1. CASE GoTo(c, "done")
    BY <1>6, <2>1 DEF Steps
  <2>2. CASE \E winner \in Finished, at \in {"rate", "tell"} :
               call' = [call EXCEPT ![c].result = winner, ![c].at = at]
    <3>1. /\ \A d \in Calls : d # c => call'[d] = call[d]
          /\ call'[c].at \in {"rate", "tell"}
      BY <2>2 DEF TypeOK, CallStates
    <3>2. QED
      BY <1>5, <3>1
  <2>3. QED
    BY <1>9, <2>1, <2>2 DEF Resign, Finished
<1>10. ASSUME NEW c \in Calls, NEW op \in {"move", "resign"}, NEW p \in Players, ReadRow(c, op, p)
       PROVE  \A d \in Calls : OwnLine(d)'
  <2>1. call'[c].at = "read" /\ \A d \in Calls : d # c => call'[d] = call[d]
    BY <1>10 DEF ReadRow, TypeOK, Idle
  <2>2. QED
    BY <1>5, <2>1
<1>11. ASSUME NEW c \in Calls, \/ CreateGame(c) \/ CreateSession(c) \/ PlayEngineReply(c)
                               \/ TellSession(c) \/ ApplyRatings(c) \/ RequestAnalysis(c)
                               \/ ArchivePGN(c) \/ IngestOpening(c) \/ Fail(c)
                               \/ \E p \in Players : JoinGame(c, p)
       PROVE  \A d \in Calls : OwnLine(d)'
  <2>1. \E at \in Steps \ {"append", "reply"} : GoTo(c, at)
    BY <1>11 DEF CreateGame, CreateSession, PlayEngineReply, TellSession, ApplyRatings,
                 RequestAnalysis, ArchivePGN, IngestOpening, Fail, JoinGame, Steps, Reading, Ending
  <2>2. QED
    BY <1>6, <2>1
<1>12. QED
  <2>1. SessionDecides \/ UNCHANGED vars => UNCHANGED call
    BY DEF SessionDecides, vars
  <2>2. QED
    BY <1>3, <1>7, <1>8, <1>9, <1>10, <1>11, <2>1 DEF Next, Step

\* One stored move, as OneGame says it of all of them.
InGame(m) ==
    /\ Len(m.line) = m.ply
    /\ m.ply > 1 => SubSeq(m.line, 1, m.ply - 1) = outbox[m.ply - 1].line
    /\ game.kind # "engine" =>
          m.by = Seat(game, IF m.ply % 2 = 1 THEN "white" ELSE "black")

\* A move that was stored before stays part of the game.
LEMMA InGameStays ==
    ASSUME TypeOK, Stable, OutboxInOrder, Uncreated, NEW m \in moves, InGame(m)
    PROVE  InGame(m)'
<1>1. /\ Len(outbox) \in Nat /\ DOMAIN outbox = 1 .. Len(outbox)
      /\ m.ply \in 1 .. Len(outbox) /\ m.by \in Players \cup {"engine"}
  BY DEF TypeOK, OutboxInOrder, Moves
<1>2. game.kind # None /\ game'.kind = game.kind
  BY DEF Uncreated, Stable
<1>3. m.ply > 1 => outbox'[m.ply - 1] = outbox[m.ply - 1]
  BY <1>1 DEF Stable
<1>4. m.by # None
  BY <1>1, ServiceAssumption DEF AllKinds
<1>5. game.kind # "engine" => m.by = Seat(game', IF m.ply % 2 = 1 THEN "white" ELSE "black")
  BY <1>4 DEF InGame, Seat, Stable
<1>6. QED
  BY <1>2, <1>3, <1>5 DEF InGame

LEMMA OneGameStep ==
    ASSUME TypeOK, TypeOK', CallsKnow, Uncreated, PliesStored, OutboxInOrder, LinesFollow,
           OneGame, [Next]_vars
    PROVE  OneGame'
<1>1. SUFFICES ASSUME ~torn' PROVE \A m \in moves' : InGame(m)'
  BY DEF OneGame, InGame
<1>2. ~torn /\ Stable /\ (\A c \in Calls : OwnLine(c) /\ Knows(c)) /\ \A m \in moves : InGame(m)
  BY <1>1, TornStays, StableStep DEF LinesFollow, CallsKnow, OneGame, InGame
<1>3. \A m \in moves : InGame(m)'
  BY <1>2, InGameStays
<1>4. CASE UNCHANGED moves
  BY <1>3, <1>4
<1>5. ASSUME NEW c \in Calls, SubmitMove(c) PROVE \A m \in moves' : InGame(m)'
  <2> DEFINE me == call[c]
             after == Append(me.row.line, c)
  <2>1. CASE AppendMove(me.ply, after, me.who, me.result)
    <3>1. /\ me.ply \in 1 .. Len(outbox) + 1 /\ Len(outbox) \in Nat
          /\ me.row.line \in Seq(Calls) /\ me.who \in Players
          /\ Len(me.row.line) = me.ply - 1 /\ me.row.line = LineAt(me.ply - 1)
      <4>1. me.at = "append" /\ OwnLine(c) /\ Len(outbox) \in Nat
        BY <1>2, <1>5 DEF SubmitMove, TypeOK
      <4>2. me.row.line \in Seq(Calls) /\ me.who \in Players /\ me.ply \in 1 .. Len(outbox) + 1
        BY <1>5, SubmitWrites, SubmitPly, ReadIsTyped
      <4>3. QED
        BY <4>1, <4>2 DEF OwnLine
    <3>2. Len(after) = me.ply /\ SubSeq(after, 1, me.ply - 1) = me.row.line
      BY <3>1, AppendSub
    <3>3. me.ply > 1 => outbox'[me.ply - 1].line = me.row.line
      <4>1. me.ply > 1 => me.ply - 1 # 0 /\ me.ply - 1 \in DOMAIN outbox
        BY <3>1 DEF TypeOK
      <4>2. QED
        BY <1>2, <3>1, <4>1 DEF Stable, LineAt
    <3>4. game'.kind # "engine" =>
              me.who = Seat(game', IF me.ply % 2 = 1 THEN "white" ELSE "black")
      <4>1. SUFFICES ASSUME game'.kind # "engine"
                     PROVE  me.who = Seat(game', IF me.ply % 2 = 1 THEN "white" ELSE "black")
        OBVIOUS
      <4>2. game.kind # None /\ me.row.kind = game.kind /\ me.row.black \in {None, game.black}
            /\ MayMove(me.row, me.who)
        BY <1>2, <1>5 DEF Knows, SubmitMove, Reading
      <4>3. game'.kind = game.kind /\ me.row.black \in {None, game'.black}
        BY <1>2, <4>2 DEF Stable
      <4>4. me.who = Seat(me.row, Turn(me.row.line)) /\ me.who # None
        BY <3>1, <4>1, <4>2, <4>3, ServiceAssumption DEF MayMove
      <4>5. Turn(me.row.line) = IF me.ply % 2 = 1 THEN "white" ELSE "black"
        BY <3>1, SMTT(20) DEF Turn
      <4>6. QED
        BY <4>3, <4>4, <4>5 DEF Seat
    <3>5. ASSUME NEW m \in moves', m \notin moves
          PROVE  m.line = after /\ m.ply = me.ply /\ m.by = me.who
      BY <2>1, <3>5 DEF AppendMove
    <3> HIDE DEF me, after
    <3>6. ASSUME NEW m \in moves', m \notin moves PROVE InGame(m)'
      BY <3>2, <3>3, <3>4, <3>5, <3>6 DEF InGame
    <3>7. QED
      BY <1>3, <3>6
  <2>2. QED
    BY <1>4, <1>5, <2>1 DEF SubmitMove
<1>6. ASSUME NEW c \in Calls, PlayEngineReply(c) PROVE \A m \in moves' : InGame(m)'
  <2> DEFINE me == call[c]
             after == me.row.line \o <<c, c>>
  <2>1. ASSUME NEW r, AppendMove(me.ply + 1, after, "engine", r)
        PROVE  \A m \in moves' : InGame(m)'
    <3>1. /\ me.ply \in 1 .. Len(outbox) /\ Len(outbox) \in Nat /\ DOMAIN outbox = 1 .. Len(outbox)
          /\ me.row.line \in Seq(Calls) /\ me.row.kind = "engine"
          /\ Len(me.row.line) = me.ply - 1 /\ Append(me.row.line, c) = LineAt(me.ply)
      <4>1. me.at = "reply"
        BY <1>6 DEF PlayEngineReply
      <4>2. Len(outbox) \in Nat /\ DOMAIN outbox = 1 .. Len(outbox)
        BY DEF TypeOK
      <4>3. QED
        BY <1>2, <4>1, <4>2, ReadIsTyped DEF OwnLine, Knows
    <3>2. Len(after) = me.ply + 1 /\ SubSeq(after, 1, me.ply) = Append(me.row.line, c)
      <4>1. /\ Len(after) = Len(me.row.line) + 2
            /\ SubSeq(after, 1, Len(me.row.line) + 1) = Append(me.row.line, c)
        BY <3>1, AppendSub
      <4>2. Len(me.row.line) + 1 = me.ply /\ Len(me.row.line) + 2 = me.ply + 1
        BY <3>1
      <4>3. QED
        BY <4>1, <4>2
    <3>3. outbox'[me.ply].line = Append(me.row.line, c)
      BY <1>2, <3>1 DEF Stable, LineAt
    <3>4. game'.kind = "engine"
      <4>1. game.kind # None /\ me.row.kind = game.kind
        BY <1>2, <1>6 DEF Knows, PlayEngineReply, Reading
      <4>2. QED
        BY <1>2, <3>1, <4>1 DEF Stable
    <3>5. ASSUME NEW m \in moves', m \notin moves
          PROVE  m.line = after /\ m.ply = me.ply + 1
      <4> HIDE DEF after
      <4>1. QED
        BY <2>1, <3>5 DEF AppendMove
    <3>6. me.ply \in Nat
      BY <3>1
    <3> HIDE DEF me, after
    <3>7. ASSUME NEW m \in moves', m \notin moves PROVE InGame(m)'
      <4>1. m.line = after /\ m.ply = me.ply + 1 /\ m.ply - 1 = me.ply
        <5>1. m.line = after /\ m.ply = me.ply + 1
          BY <3>5, <3>7
        <5>2. QED
          BY <3>6, <5>1
      <4>2. Len(m.line) = m.ply /\ SubSeq(m.line, 1, m.ply - 1) = outbox'[m.ply - 1].line
        BY <3>2, <3>3, <4>1
      <4>3. QED
        BY <3>4, <4>2 DEF InGame
    <3>8. QED
      BY <1>3, <3>7
  <2>2. QED
    BY <1>4, <1>6, <2>1 DEF PlayEngineReply
<1>7. QED
  BY <1>4, <1>5, <1>6
  DEF Next, Step, SessionDecides, CreateGame, JoinGame, CreateSession, ReadRow, ReadMoves,
      Resign, TellSession, ApplyRatings, RequestAnalysis, ArchivePGN, IngestOpening, Fail,
      vars, tables

-----------------------------------------------------------------------------
(* An end is followed up. *)

\* A call that another has not overtaken is still on its way.
LEMMA ComingStays ==
    ASSUME TypeOK, NEW c \in Calls, \A d \in Calls : d # c => call'[d] = call[d],
           NEW steps, Coming(steps), call[c].at \notin steps
    PROVE  Coming(steps)'
  BY DEF Coming

\* The steps a call takes on its way, one after the other.
LEMMA ComesCloser ==
    ASSUME TypeOK, NEW c \in Calls, NEW steps, Coming(steps), NEW at \in Steps \ {"done"}, GoTo(c, at),
           call[c].at \in steps => at \in steps
    PROVE  Coming(steps)'
  BY GoToMoves DEF Coming

LEMMA ComesOnly ==
    ASSUME TypeOK, NEW c \in Calls, call'[c].at = "tell", call'[c].result \in Finished,
           NEW steps, "tell" \in steps
    PROVE  Coming(steps)'
  BY DEF Coming

LEMMA FollowStep ==
    ASSUME TypeOK, TypeOK', CallsKnow, Uncreated, ScoredIsMarked, EffectsOnce, FollowedUp,
           [Next]_vars
    PROVE  FollowedUp'
<1> USE DEF Ending, Reading, Steps
<1> DEFINE A == {"tell", "rate", "analyse"}
           B == {"tell", "rate", "analyse", "archive"}
           D == {"tell", "rate", "analyse", "archive", "ingest"}
           R == {"tell", "rate"}
           Ended == game.status \in Finished /\ game.kind # "engine"
           Hooked == moves # {} => /\ "analysis" \in hooks \/ Coming(A)
                                   /\ "archive" \in hooks \/ Coming(B)
                                   /\ ingested = 1 \/ Coming(D)
           Scored == game.rated /\ game.black # None => scored # <<>> \/ Coming(R)
<1>1. FollowedUp <=> (failed = 0 /\ Ended => Hooked /\ Scored)
  BY DEF FollowedUp
<1>2. FollowedUp' <=> (failed' = 0 /\ Ended' => Hooked' /\ Scored')
  BY DEF FollowedUp
<1>3. SUFFICES ASSUME failed' = 0, Ended' PROVE Hooked' /\ Scored'
  BY <1>2
<1>4. failed' = failed /\ failed = 0
  <2>1. failed' = failed \/ failed' = failed + 1
    BY DEF Next, Step, SessionDecides, CreateGame, JoinGame, CreateSession, ReadRow, ReadMoves,
           SubmitMove, PlayEngineReply, Resign, TellSession, ApplyRatings, RequestAnalysis,
           ArchivePGN, IngestOpening, Fail, Tell, Request, vars
  <2>2. QED
    BY <1>3, <2>1 DEF TypeOK
<1>5. Ended => Hooked /\ Scored
  BY <1>1, <1>4
<1> HIDE DEF A, B, D, R
<1>6. ASSUME UNCHANGED <<game, moves, hooks, ingested, scored>>,
             Coming(A) => Coming(A)', Coming(B) => Coming(B)',
             Coming(D) => Coming(D)', Coming(R) => Coming(R)'
      PROVE  Hooked' /\ Scored'
  BY <1>3, <1>5, <1>6
<1>7. ASSUME NEW c \in Calls, call[c].at \notin D, \A d \in Calls : d # c => call'[d] = call[d],
             UNCHANGED <<game, moves, hooks, ingested, scored>>
      PROVE  Hooked' /\ Scored'
  <2>1. call[c].at \notin A /\ call[c].at \notin B /\ call[c].at \notin R
    BY <1>7 DEF A, B, D, R
  <2>2. QED
    BY <1>6, <1>7, <2>1, ComingStays
<1>8. CASE UNCHANGED <<game, moves, hooks, ingested, scored, call>>
  BY <1>6, <1>8 DEF Coming
<1>9. ASSUME NEW c \in Calls, call'[c].at = "tell", call'[c].result \in Finished
      PROVE  Hooked' /\ Scored'
  <2>1. "tell" \in A /\ "tell" \in B /\ "tell" \in D /\ "tell" \in R
    BY DEF A, B, D, R
  <2>2. QED
    BY <1>9, <2>1, ComesOnly
<1>10. ASSUME NEW c \in Calls, CreateGame(c) PROVE FALSE
  <2>1. game'.status = "IN_PROGRESS"
    BY <1>10 DEF CreateGame, NoGame
  <2>2. QED
    BY <1>3, <2>1 DEF Finished
<1>11. ASSUME NEW c \in Calls, NEW p \in Players, JoinGame(c, p) PROVE Hooked' /\ Scored'
  <2>1. CASE SeatOpen(p) /\ game' = [game EXCEPT !.black = p]
    <3>1. game'.status = "IN_PROGRESS"
      BY <2>1 DEF SeatOpen, TypeOK, Rows
    <3>2. QED
      BY <1>3, <3>1 DEF Finished
  <2>2. CASE game' = game
    <3>1. \A d \in Calls : d # c => call'[d] = call[d]
      BY <1>11, GoToMoves DEF JoinGame
    <3>2. QED
      BY <1>7, <1>11, <2>2, <3>1 DEF JoinGame, D
  <2>3. QED
    BY <1>11, <2>1, <2>2 DEF JoinGame
<1>12. ASSUME NEW c \in Calls, CreateSession(c) PROVE Hooked' /\ Scored'
  <2>1. \A d \in Calls : d # c => call'[d] = call[d]
    BY <1>12, GoToMoves DEF CreateSession
  <2>2. QED
    BY <1>7, <1>12, <2>1 DEF CreateSession, D, tables
<1>13. ASSUME NEW c \in Calls, NEW op, NEW p, ReadRow(c, op, p) PROVE Hooked' /\ Scored'
  <2>1. \A d \in Calls : d # c => call'[d] = call[d]
    BY <1>13 DEF ReadRow, TypeOK
  <2>2. QED
    BY <1>7, <1>13, <2>1 DEF ReadRow, D, tables
<1>14. ASSUME NEW c \in Calls, ReadMoves(c) PROVE Hooked' /\ Scored'
  <2>1. UNCHANGED tables /\ UNCHANGED hooks /\ call[c].at = "read"
    BY <1>14 DEF ReadMoves
  <2>2. \A d \in Calls : d # c => call'[d] = call[d]
    <3>1. CASE GoTo(c, "done")
      BY <3>1, GoToMoves
    <3>2. CASE \E r \in Outcomes(Turn(call[c].row.line)) :
                  call' = [call EXCEPT ![c].at = "append", ![c].result = r,
                                       ![c].ply = Cardinality(moves) + 1]
      BY <3>2 DEF TypeOK
    <3>3. QED
      BY <1>14, <3>1, <3>2 DEF ReadMoves
  <2>3. QED
    BY <1>7, <2>1, <2>2 DEF D, tables
<1>15. ASSUME NEW c \in Calls, SubmitMove(c) PROVE Hooked' /\ Scored'
  <2> DEFINE me == call[c]
             after == Append(me.row.line, c)
  <2>1. Knows(c) /\ me.at = "append" /\ UNCHANGED <<hooks, ingested, scored>>
    BY <1>15, SubmitWrites DEF SubmitMove
  <2>2. me.row.kind = game.kind /\ after \in Seq(Calls) /\ me.ply \in Nat /\ me.result \in Statuses
    BY <1>15, <2>1, SubmitWrites DEF Knows
  <2> HIDE DEF after
  <2>3. CASE /\ AppendMove(me.ply, after, me.who, me.result)
             /\ GoTo(c, AfterMove(me.row.kind, me.result))
    <3>1. game'.status = me.result /\ game'.kind = game.kind
      <4>1. AppendMove(me.ply, after, me.who, me.result)
        BY <2>3
      <4>2. game' = [game EXCEPT !.line = after, !.status = me.result,
                                 !.reason = IF me.result \in Finished THEN "move" ELSE @]
        BY <4>1 DEF AppendMove
      <4>3. QED
        BY <4>2 DEF TypeOK, Rows
    <3>2. me.result \in Finished /\ me.row.kind # "engine"
      BY <1>3, <2>2, <3>1
    <3>3. GoTo(c, "tell")
      BY <2>3, <3>2, AfterMoveIsStep
    <3>4. call'[c].at = "tell" /\ call'[c].result = me.result
      BY <3>3, GoToMoves
    <3>5. QED
      BY <1>9, <3>2, <3>4
  <2>4. CASE GoTo(c, "done") /\ UNCHANGED <<game, moves, outbox>>
    <3>1. \A d \in Calls : d # c => call'[d] = call[d]
      BY <2>4, GoToMoves
    <3>2. QED
      BY <1>7, <2>1, <2>4, <3>1 DEF D
  <2>5. QED
    BY <1>15, <2>3, <2>4 DEF SubmitMove, after
<1>16. ASSUME NEW c \in Calls, PlayEngineReply(c) PROVE FALSE
  <2>1. game.kind = "engine" /\ game.kind # None
    BY <1>16, ReplyWrites DEF Knows
  <2>2. game'.kind = game.kind
    BY <2>1, StableStep DEF Stable
  <2>3. QED
    BY <1>3, <2>1, <2>2
<1>17. ASSUME NEW c \in Calls, Resign(c) PROVE Hooked' /\ Scored'
  <2>1. UNCHANGED <<moves, hooks, ingested, scored>> /\ call[c].at = "read"
    BY <1>17 DEF Resign
  <2>2. CASE GoTo(c, "done") /\ UNCHANGED game
    <3>1. \A d \in Calls : d # c => call'[d] = call[d]
      BY <2>2, GoToMoves
    <3>2. QED
      BY <1>7, <2>1, <2>2, <3>1 DEF D
  <2>3. CASE \E winner \in Finished :
               call' = [call EXCEPT ![c].result = winner,
                                    ![c].at = IF call[c].row.kind = "engine" THEN "rate" ELSE "tell"]
    <3>1. call[c].row.kind = game.kind /\ game.kind # None
      BY <2>1 DEF CallsKnow, Knows
    <3>2. game'.kind = game.kind
      BY <3>1, StableStep DEF Stable
    <3>3. call[c].row.kind # "engine"
      BY <1>3, <3>1, <3>2
    <3>4. call'[c].at = "tell" /\ call'[c].result \in Finished
      BY <2>3, <3>3 DEF TypeOK, CallStates
    <3>5. QED
      BY <1>9, <3>4
  <2>4. QED
    BY <1>17, <2>2, <2>3 DEF Resign, Finished
<1>18. ASSUME NEW c \in Calls, TellSession(c) PROVE Hooked' /\ Scored'
  <2>1. UNCHANGED <<game, moves, hooks, ingested, scored>>
    BY <1>18 DEF TellSession, tables
  <2>2. CASE call[c].result \in Finished
    <3>1. GoTo(c, "rate")
      BY <1>18, <2>2 DEF TellSession
    <3>2. "rate" \in A /\ "rate" \in B /\ "rate" \in D /\ "rate" \in R
      BY DEF A, B, D, R
    <3>3. QED
      BY <1>6, <2>1, <3>1, <3>2, ComesCloser
  <2>3. CASE call[c].result \notin Finished
    <3>1. \A d \in Calls : d # c => call'[d] = call[d]
      BY <1>18, <2>3, GoToMoves DEF TellSession
    <3>2. ASSUME NEW steps, Coming(steps) PROVE Coming(steps)'
      BY <2>3, <3>1, <3>2 DEF Coming
    <3>3. QED
      BY <1>6, <2>1, <3>2
  <2>4. QED
    BY <2>2, <2>3
<1>19. ASSUME NEW c \in Calls, ApplyRatings(c) PROVE Hooked' /\ Scored'
  <2>1. UNCHANGED <<moves, hooks, ingested>> /\ GoTo(c, "analyse") /\ call[c].at = "rate"
    BY <1>19 DEF ApplyRatings
  <2>2. "analyse" \in A /\ "analyse" \in B /\ "analyse" \in D
    BY DEF A, B, D
  <2>3. (Coming(A) => Coming(A)') /\ (Coming(B) => Coming(B)') /\ (Coming(D) => Coming(D)')
    BY <2>1, <2>2, ComesCloser
  <2>4. CASE Scorable /\ scored' = Append(scored, call[c].result)
             /\ game' = [game EXCEPT !.delta = call[c].result]
    <3>1. scored = <<>>
      BY <2>4 DEF Scorable, ScoredIsMarked
    <3>2. Len(scored') = 1
      BY <2>4, <3>1
    <3>3. scored' # <<>>
      BY <3>2
    <3>4. Ended
      BY <2>4, <1>3 DEF Scorable, TypeOK, Rows
    <3>5. QED
      BY <1>5, <2>1, <2>3, <3>3, <3>4
  <2>5. CASE ~Scorable /\ UNCHANGED <<game, scored>>
    <3>1. Ended
      BY <1>3, <2>5
    <3>2. game.rated /\ game.black # None => scored # <<>>
      BY <2>5, <3>1 DEF Scorable, ScoredIsMarked
    <3>3. QED
      BY <1>5, <2>1, <2>3, <2>5, <3>1, <3>2
  <2>6. QED
    BY <1>4, <1>19, <2>4, <2>5 DEF ApplyRatings, TypeOK
<1>20. ASSUME NEW c \in Calls, RequestAnalysis(c) PROVE Hooked' /\ Scored'
  <2>1. UNCHANGED <<game, moves, ingested, scored>> /\ GoTo(c, "archive") /\ call[c].at = "analyse"
    BY <1>20 DEF RequestAnalysis, tables
  <2>2. "archive" \in B /\ "archive" \in D /\ call[c].at \notin R
    BY <2>1 DEF B, D, R
  <2>3. \A d \in Calls : d # c => call'[d] = call[d]
    BY <2>1, GoToMoves
  <2>4. (Coming(B) => Coming(B)') /\ (Coming(D) => Coming(D)') /\ (Coming(R) => Coming(R)')
    BY <2>1, <2>2, <2>3, ComesCloser, ComingStays
  <2>5. hooks' = IF moves = {} THEN hooks ELSE hooks \cup {"analysis"}
    BY <1>4, <1>20 DEF RequestAnalysis, Request, TypeOK
  <2>6. QED
    BY <1>3, <1>5, <2>1, <2>4, <2>5
<1>21. ASSUME NEW c \in Calls, ArchivePGN(c) PROVE Hooked' /\ Scored'
  <2>1. UNCHANGED <<game, moves, ingested, scored>> /\ GoTo(c, "ingest") /\ call[c].at = "archive"
    BY <1>21 DEF ArchivePGN, tables
  <2>2. "ingest" \in D /\ call[c].at \notin R /\ call[c].at \notin A
    BY <2>1 DEF A, D, R
  <2>3. \A d \in Calls : d # c => call'[d] = call[d]
    BY <2>1, GoToMoves
  <2>4. (Coming(A) => Coming(A)') /\ (Coming(D) => Coming(D)') /\ (Coming(R) => Coming(R)')
    BY <2>1, <2>2, <2>3, ComesCloser, ComingStays
  <2>5. hooks' = IF moves = {} THEN hooks ELSE hooks \cup {"archive"}
    BY <1>4, <1>21 DEF ArchivePGN, Request, TypeOK
  <2>6. QED
    BY <1>3, <1>5, <2>1, <2>4, <2>5
<1>22. ASSUME NEW c \in Calls, IngestOpening(c) PROVE Hooked' /\ Scored'
  <2>1. UNCHANGED <<game, moves, hooks, scored>> /\ call[c].at = "ingest"
    BY <1>22 DEF IngestOpening
  <2>2. call[c].at \notin A /\ call[c].at \notin B /\ call[c].at \notin R
    BY <2>1 DEF A, B, R
  <2>3. \A d \in Calls : d # c => call'[d] = call[d]
    BY <1>22, GoToMoves DEF IngestOpening
  <2>4. (Coming(A) => Coming(A)') /\ (Coming(B) => Coming(B)') /\ (Coming(R) => Coming(R)')
    BY <2>2, <2>3, ComingStays
  <2>5. moves # {} => ingested' = 1
    BY <1>22 DEF IngestOpening, Claimed, EffectsOnce, TypeOK
  <2>6. QED
    BY <1>3, <1>5, <2>1, <2>4, <2>5
<1>23. ASSUME NEW c \in Calls, Fail(c) PROVE FALSE
  BY <1>4, <1>23 DEF Fail, TypeOK
<1>24. QED
  <2>1. SessionDecides \/ UNCHANGED vars => UNCHANGED <<game, moves, hooks, ingested, scored, call>>
    BY DEF SessionDecides, vars, tables
  <2> HIDE DEF Hooked, Scored
  <2>2. ASSUME NEW c \in Calls, Step(c) PROVE Hooked' /\ Scored'
    BY <2>2, <1>10, <1>11, <1>12, <1>13, <1>14, <1>15, <1>16, <1>17, <1>18, <1>19, <1>20,
       <1>21, <1>22, <1>23 DEF Step
  <2>3. QED
    BY <1>8, <2>1, <2>2 DEF Next

-----------------------------------------------------------------------------
(* The theorems. *)

LEMMA InvInit == Init => IInv
<1> HAVE Init
<1>1. TypeOK
  BY TypesInit
<1>2. CallsKnow /\ LinesFollow
  BY DEF Init, CallsKnow, Knows, LinesFollow, OwnLine, Idle, Reading, Ending
<1>3. PliesStored /\ OutboxInOrder
  BY FS_EmptySet DEF Init, PliesStored, OutboxInOrder, NoGame
<1>4. Uncreated /\ OneGame /\ ScoredIsMarked /\ EffectsOnce /\ FollowedUp
  BY DEF Init, Uncreated, OneGame, ScoredIsMarked, EffectsOnce, FollowedUp, NoGame, Finished
<1>5. QED
  BY <1>1, <1>2, <1>3, <1>4 DEF IInv

LEMMA InvStep ==
    ASSUME IInv, [Next]_vars
    PROVE  IInv'
<1>1. TypeOK'
  BY TypesStep DEF IInv
<1>2. CallsKnow' /\ Uncreated'
  BY <1>1, KnowsStep, UncreatedStep DEF IInv
<1>3. PliesStored' /\ OutboxInOrder'
  BY <1>1, OutboxStep DEF IInv
<1>4. LinesFollow' /\ OneGame'
  BY <1>1, LinesStep, OneGameStep DEF IInv
<1>5. ScoredIsMarked' /\ EffectsOnce' /\ FollowedUp'
  BY <1>1, ScoresStep, FollowStep DEF IInv
<1>6. QED
  BY <1>1, <1>2, <1>3, <1>4, <1>5 DEF IInv

\* The invariant above holds of the handlers and the tables of one game, however the
\* statements of its calls interleave and wherever they fail.
THEOREM ServiceInductive == Spec => []IInv
<1>1. Init => IInv
  BY InvInit
<1>2. IInv /\ [Next]_vars => IInv'
  BY InvStep
<1>3. QED
  BY <1>1, <1>2, PTL DEF Spec

\* The outbox tells the game's moves in ply order, each once and without a gap, and
\* ends where the games row stands, whatever calls to store.AppendMove raced.
THEOREM OutboxIsInOrder == Spec => []OutboxInOrder
<1>1. IInv => OutboxInOrder
  BY DEF IInv
<1>2. QED
  BY <1>1, ServiceInductive, PTL

\* The stored moves are one game, each made in the position the one before it
\* reached and by the player whose ply it is, unless a commit tore a GetGame apart.
THEOREM MovesAreOneGame == Spec => []OneGame
<1>1. IInv => OneGame
  BY DEF IInv
<1>2. QED
  BY <1>1, ServiceInductive, PTL

\* However many calls end the game, ApplyRatings and IngestGameOpening apply its
\* result at most once.
THEOREM EffectsApplyOnce == Spec => []EffectsOnce
<1>1. IInv => EffectsOnce
  BY DEF IInv
<1>2. QED
  BY <1>1, ServiceInductive, PTL

\* Once every call has returned and none failed, all that SubmitMove and Resign do
\* after an end has been done for a game that two people finished.
THEOREM EndsAreFollowedUp == Spec => []EndIsFollowedUp
<1>1. IInv => EndIsFollowedUp
  <2>1. SUFFICES ASSUME IInv, Quiet, failed = 0, game.status \in Finished, game.kind # "engine"
                 PROVE  /\ moves # {} => hooks = {"analysis", "archive"} /\ ingested = 1
                        /\ game.rated /\ game.black # None => scored # <<>>
    BY DEF EndIsFollowedUp
  <2>2. ASSUME NEW steps, "idle" \notin steps, "done" \notin steps PROVE ~Coming(steps)
    BY <2>1, <2>2 DEF Quiet, Coming
  <2>3. ~Coming({"tell", "rate", "analyse"}) /\ ~Coming({"tell", "rate", "analyse", "archive"})
    BY <2>2
  <2>4. ~Coming({"tell"} \cup Ending) /\ ~Coming({"tell", "rate"})
    BY <2>2 DEF Ending
  <2>5. /\ moves # {} => "analysis" \in hooks /\ "archive" \in hooks /\ ingested = 1
        /\ game.rated /\ game.black # None => scored # <<>>
    BY <2>1, <2>3, <2>4 DEF IInv, FollowedUp
  <2>6. hooks \subseteq {"analysis", "archive"}
    BY <2>1 DEF IInv, TypeOK
  <2>7. QED
    BY <2>5, <2>6
<1>2. QED
  BY <1>1, ServiceInductive, PTL

-----------------------------------------------------------------------------
(* The result of a game that ended on the board. *)

OnBoard == game.status \in Finished /\ game.reason # "RESIGNATION"

\* A row that has been read is no longer than the game.
NotAhead(c) == call[c].at = "read" => Len(call[c].row.line) <= Len(outbox)

\* The call can add nothing to the game: what it has read is not where the game
\* stands now, and the ply it holds is taken.
TooLate(c) ==
    LET me == call[c] IN
    /\ me.at = "read" => me.row.status # "IN_PROGRESS" \/ me.row.line # game.line
    /\ me.at = "append" => me.ply # Len(outbox) + 1
    /\ me.at = "reply" => me.ply # Len(outbox)

EndHolds ==
    ~torn => /\ \A c \in Calls : NotAhead(c)
             /\ OnBoard => \A c \in Calls : TooLate(c)

\* A step that stores no move leaves the game where it stands, and only a stored
\* move ends it on the board.
LEMMA NothingStored ==
    ASSUME IInv, [Next]_vars, UNCHANGED outbox
    PROVE  game'.line = game.line /\ (OnBoard' => OnBoard)
<1>1. game \in Rows /\ IsFiniteSet(moves) /\ outbox \in Seq(Events) /\ TypeOK /\ CallsKnow
  BY DEF IInv, TypeOK, PliesStored
<1>2. CASE UNCHANGED game
  BY <1>2 DEF OnBoard
<1>3. ASSUME NEW c \in Calls, CreateGame(c) PROVE game'.line = game.line /\ ~OnBoard'
  <2>1. game.kind = None /\ game'.line = <<>> /\ game'.status = "IN_PROGRESS"
    BY <1>3 DEF CreateGame, NoGame
  <2>2. game.line = <<>>
    BY <2>1 DEF IInv, Uncreated, OutboxInOrder
  <2>3. QED
    BY <2>1, <2>2 DEF OnBoard, Finished
<1>4. ASSUME NEW c \in Calls, \/ \E p \in Players : JoinGame(c, p)
                              \/ ApplyRatings(c)
      PROVE  game'.line = game.line /\ (OnBoard' => OnBoard)
  <2>1. \/ game' = game
        \/ \E p : game' = [game EXCEPT !.black = p]
        \/ \E w : game' = [game EXCEPT !.delta = w]
    BY <1>4 DEF JoinGame, ApplyRatings
  <2>2. /\ game'.line = game.line /\ game'.status = game.status
        /\ game'.reason = game.reason
    BY <1>1, <2>1 DEF Rows
  <2>3. QED
    BY <2>2 DEF OnBoard
<1>5. ASSUME NEW c \in Calls, Resign(c)
      PROVE  game'.line = game.line /\ (OnBoard' => OnBoard)
  <2>1. \/ game' = game
        \/ \E w : game' = [game EXCEPT !.status = w, !.reason = "RESIGNATION"]
    BY <1>5 DEF Resign
  <2>2. game' = game \/ (game'.line = game.line /\ game'.reason = "RESIGNATION")
    BY <1>1, <2>1 DEF Rows
  <2>3. QED
    BY <2>2 DEF OnBoard
<1>6. ASSUME NEW ply \in Nat, NEW line \in Seq(Calls), NEW by, NEW result \in Statuses,
             AppendMove(ply, line, by, result)
      PROVE  FALSE
  <2>1. Len(outbox) \in Nat /\ Len(outbox') = Len(outbox) + 1
    BY <1>1, <1>6, AppendMoveExtends
  <2>2. QED
    BY <2>1
<1>7. ASSUME NEW c \in Calls, SubmitMove(c) PROVE UNCHANGED game
  <2> DEFINE after == Append(call[c].row.line, c)
  <2>1. after \in Seq(Calls) /\ call[c].ply \in Nat /\ call[c].result \in Statuses
    BY <1>1, <1>7, SubmitWrites
  <2> HIDE DEF after
  <2>2. ~AppendMove(call[c].ply, after, call[c].who, call[c].result)
    BY <1>6, <2>1
  <2>3. QED
    BY <1>7, <2>2 DEF SubmitMove, after
<1>8. ASSUME NEW c \in Calls, PlayEngineReply(c) PROVE UNCHANGED game
  <2> DEFINE after == call[c].row.line \o <<c, c>>
             next == call[c].ply + 1
  <2>1. after \in Seq(Calls) /\ next \in Nat
    BY <1>1, <1>8, ReplyWrites
  <2> HIDE DEF after, next
  <2>2. \A r \in Outcomes(Turn(Append(call[c].row.line, c))) : r \in Statuses
    BY <1>1, <1>8, ReplyWrites
  <2>3. \A r \in Outcomes(Turn(Append(call[c].row.line, c))) :
            ~AppendMove(next, after, "engine", r)
    BY <1>6, <2>1, <2>2
  <2>4. QED
    BY <1>8, <2>3 DEF PlayEngineReply, after, next
<1>9. QED
  BY <1>2, <1>3, <1>4, <1>5, <1>7, <1>8
  DEF Next, Step, SessionDecides, CreateSession, ReadRow, ReadMoves, TellSession,
      RequestAnalysis, ArchivePGN, IngestOpening, Fail, vars, tables

\* A stored move leaves every other call too late.
LEMMA StoredLeavesLate ==
    ASSUME IInv, NEW d \in Calls, NotAhead(d), call'[d] = call[d],
           Len(outbox') = Len(outbox) + 1, Len(game'.line) = Len(outbox')
    PROVE  NotAhead(d)' /\ TooLate(d)'
<1>1. Len(outbox) \in Nat /\ call[d] \in CallStates /\ Knows(d)
  BY DEF IInv, TypeOK, CallsKnow
<1>2. Len(call[d].row.line) \in Nat /\ call[d].ply \in Nat
  <2>1. call[d].row \in Rows /\ call[d].ply \in Nat
    BY <1>1 DEF CallStates
  <2>2. call[d].row.line \in Seq(Calls)
    BY <2>1 DEF Rows
  <2>3. QED
    BY <2>1, <2>2
<1>3. NotAhead(d)'
  BY <1>1, <1>2 DEF NotAhead
<1>4. call[d].at = "read" => call[d].row.line # game'.line
  BY <1>1, <1>2 DEF NotAhead
<1>5. call[d].at = "append" => call[d].ply # Len(outbox') + 1
  BY <1>1 DEF Knows
<1>6. call[d].at = "reply" => call[d].ply # Len(outbox')
  BY <1>1 DEF Knows
<1>7. QED
  BY <1>3, <1>4, <1>5, <1>6 DEF TooLate

\* A call that is neither about to check nor about to store.
LEMMA ElsewhereHolds ==
    ASSUME NEW c \in Calls, call'[c].at \notin {"read", "append", "reply"}
    PROVE  NotAhead(c)' /\ TooLate(c)'
  BY DEF NotAhead, TooLate

\* What SubmitMove stores while no GetGame has been torn apart.
LEMMA SubmitStores ==
    ASSUME IInv, ~torn, NEW c \in Calls, SubmitMove(c), outbox' # outbox
    PROVE  /\ Len(outbox') = Len(outbox) + 1 /\ Len(game'.line) = Len(outbox')
           /\ call[c].ply = Len(outbox) + 1 /\ game'.status = call[c].result
           /\ GoTo(c, AfterMove(call[c].row.kind, call[c].result))
<1> DEFINE after == Append(call[c].row.line, c)
<1>1. /\ TypeOK /\ CallsKnow /\ PliesStored /\ OwnLine(c)
      /\ Len(outbox) \in Nat /\ call[c].row.line \in Seq(Calls)
  BY ReadIsTyped DEF IInv, LinesFollow, TypeOK
<1>2. /\ call[c].at = "append" /\ after \in Seq(Calls) /\ call[c].ply \in Nat
      /\ call[c].result \in Statuses
  BY <1>1, SubmitWrites
<1>3. call[c].ply \in 1 .. Len(outbox) + 1
  BY <1>1, SubmitPly
<1>4. Len(after) = Len(call[c].row.line) + 1
  BY <1>1, AppendSub
<1> HIDE DEF after
<1>5. /\ AppendMove(call[c].ply, after, call[c].who, call[c].result)
      /\ GoTo(c, AfterMove(call[c].row.kind, call[c].result))
  BY DEF SubmitMove, after
<1>6. /\ game'.line = after /\ game'.status = call[c].result
      /\ Len(outbox') = Len(outbox) + 1
  BY <1>1, <1>2, <1>5, AppendMoveExtends
<1>7. \A m \in moves : m.ply # call[c].ply
  BY <1>5 DEF AppendMove
<1>8. call[c].ply = Len(outbox) + 1
  BY <1>1, <1>3, <1>7, FreePlyIsNext
<1>9. Len(call[c].row.line) = call[c].ply - 1
  BY <1>1, <1>2 DEF OwnLine
<1>10. Len(after) = Len(outbox) + 1
  BY <1>1, <1>4, <1>8, <1>9
<1>11. QED
  BY <1>5, <1>6, <1>8, <1>10

\* What the engine's reply stores.
LEMMA ReplyStores ==
    ASSUME IInv, ~torn, NEW c \in Calls, PlayEngineReply(c), outbox' # outbox
    PROVE  /\ Len(outbox') = Len(outbox) + 1 /\ Len(game'.line) = Len(outbox')
           /\ call[c].ply = Len(outbox)
<1> DEFINE after == call[c].row.line \o <<c, c>>
           next == call[c].ply + 1
<1>1. /\ TypeOK /\ CallsKnow /\ PliesStored /\ OwnLine(c)
      /\ Len(outbox) \in Nat /\ call[c].row.line \in Seq(Calls)
  BY ReadIsTyped DEF IInv, LinesFollow, TypeOK
<1>2. call[c].at = "reply" /\ after \in Seq(Calls) /\ call[c].ply \in Nat
  BY <1>1, ReplyWrites
<1>3. next \in 1 .. Len(outbox) + 1
  BY <1>1, ReplyPly
<1>4. Len(after) = Len(call[c].row.line) + 2
  BY <1>1, AppendSub
<1>5. \A r \in Outcomes(Turn(Append(call[c].row.line, c))) : r \in Statuses
  BY <1>1, ReplyWrites
<1>6. next \in Nat
  BY <1>2
<1> HIDE DEF after
<1>7. \E r \in Outcomes(Turn(Append(call[c].row.line, c))) :
          AppendMove(next, after, "engine", r)
  BY DEF PlayEngineReply, after
<1> HIDE DEF next
<1>8. PICK r \in Statuses : AppendMove(next, after, "engine", r)
  BY <1>5, <1>7
<1>9. game'.line = after /\ Len(outbox') = Len(outbox) + 1
  BY <1>1, <1>2, <1>6, <1>8, AppendMoveExtends
<1>10. \A m \in moves : m.ply # next
  BY <1>8 DEF AppendMove
<1>11. next = Len(outbox) + 1
  BY <1>1, <1>3, <1>10, FreePlyIsNext
<1>12. call[c].ply = Len(outbox)
  BY <1>1, <1>2, <1>11 DEF next
<1>13. Len(call[c].row.line) = call[c].ply - 1
  BY <1>1, <1>2 DEF OwnLine
<1>14. Len(after) = Len(outbox) + 1
  BY <1>1, <1>4, <1>12, <1>13
<1>15. QED
  BY <1>9, <1>12, <1>14

LEMMA EndStep ==
    ASSUME IInv, EndHolds, [Next]_vars
    PROVE  EndHolds'
<1> SUFFICES ASSUME ~torn'
             PROVE  /\ \A d \in Calls : NotAhead(d)'
                    /\ OnBoard' => \A d \in Calls : TooLate(d)'
  BY DEF EndHolds
<1>1. /\ TypeOK /\ CallsKnow /\ ~torn /\ \A d \in Calls : NotAhead(d)
      /\ OnBoard => \A d \in Calls : TooLate(d)
  BY TornStays DEF IInv, EndHolds
<1>2. Len(outbox) \in Nat /\ Len(game.line) = Len(outbox)
  BY <1>1, LineIsLong DEF IInv, TypeOK
<1> DEFINE Holds(d) == NotAhead(d)' /\ (OnBoard' => TooLate(d)')
<1>3. SUFFICES \A d \in Calls : Holds(d)
  OBVIOUS
<1> HIDE DEF Holds
<1>4. CASE outbox' # outbox
  <2>1. ASSUME NEW c \in Calls, \A d \in Calls : d # c => call'[d] = call[d],
               Len(outbox') = Len(outbox) + 1, Len(game'.line) = Len(outbox'), Holds(c)
        PROVE  \A d \in Calls : Holds(d)
    BY <1>1, <2>1, StoredLeavesLate DEF Holds
  <2>2. ASSUME NEW c \in Calls, SubmitMove(c) PROVE \A d \in Calls : Holds(d)
    <3> DEFINE at == AfterMove(call[c].row.kind, call[c].result)
    <3>1. /\ Len(outbox') = Len(outbox) + 1 /\ Len(game'.line) = Len(outbox')
          /\ game'.status = call[c].result /\ GoTo(c, at)
      BY <1>1, <1>4, <2>2, SubmitStores
    <3>2. at \in {"tell", "rate", "reply"} /\ (at = "reply" => call[c].result \notin Finished)
      <4>1. call[c].row.kind # "engine" => at = "tell"
        BY DEF AfterMove
      <4>2. call[c].row.kind = "engine" => at \in {"rate", "reply"}
        BY DEF AfterMove
      <4>3. call[c].row.kind = "engine" /\ call[c].result \in Finished => at = "rate"
        BY DEF AfterMove
      <4>4. QED
        BY <4>1, <4>2, <4>3
    <3> HIDE DEF at
    <3>3. call'[c].at = at /\ \A d \in Calls : d # c => call'[d] = call[d]
      BY <1>1, <3>1, <3>2, GoToMoves DEF Steps, Reading, Ending
    <3>4. Holds(c)
      <4>1. CASE at = "reply"
        BY <3>1, <3>2, <3>3, <4>1 DEF Holds, NotAhead, OnBoard
      <4>2. CASE at # "reply"
        BY <3>2, <3>3, <4>2, ElsewhereHolds DEF Holds
      <4>3. QED
        BY <4>1, <4>2
    <3>5. QED
      BY <2>1, <3>1, <3>3, <3>4
  <2>3. ASSUME NEW c \in Calls, PlayEngineReply(c) PROVE \A d \in Calls : Holds(d)
    <3>1. Len(outbox') = Len(outbox) + 1 /\ Len(game'.line) = Len(outbox')
      BY <1>1, <1>4, <2>3, ReplyStores
    <3>2. GoTo(c, "done")
      BY <2>3 DEF PlayEngineReply
    <3>3. call'[c].at = "done" /\ \A d \in Calls : d # c => call'[d] = call[d]
      BY <1>1, <3>2, GoToMoves DEF Steps
    <3>4. Holds(c)
      BY <3>3, ElsewhereHolds DEF Holds
    <3>5. QED
      BY <2>1, <3>1, <3>3, <3>4
  <2>4. QED
    BY <1>4, <2>2, <2>3
    DEF Next, Step, SessionDecides, CreateGame, JoinGame, CreateSession, ReadRow, ReadMoves,
        Resign, TellSession, ApplyRatings, RequestAnalysis, ArchivePGN, IngestOpening, Fail,
        vars, tables
<1>5. CASE outbox' = outbox
  <2>1. game'.line = game.line /\ (OnBoard' => OnBoard)
    BY <1>5, NothingStored
  <2>2. ASSUME NEW d \in Calls, call'[d] = call[d] PROVE Holds(d)
    BY <1>1, <1>5, <2>1, <2>2 DEF Holds, NotAhead, TooLate
  <2>3. ASSUME NEW c \in Calls, \A d \in Calls : d # c => call'[d] = call[d], Holds(c)
        PROVE  \A d \in Calls : Holds(d)
    BY <2>2, <2>3
  <2>4. ASSUME NEW c \in Calls, NEW at \in Steps \ {"read", "append", "reply"}, GoTo(c, at)
        PROVE  \A d \in Calls : Holds(d)
    <3>1. call'[c].at = at /\ \A d \in Calls : d # c => call'[d] = call[d]
      BY <1>1, <2>4, GoToMoves
    <3>2. Holds(c)
      BY <2>4, <3>1, ElsewhereHolds DEF Holds
    <3>3. QED
      BY <2>3, <3>1, <3>2
  <2>5. ASSUME NEW c \in Calls, NEW op \in {"move", "resign"}, NEW p \in Players, ReadRow(c, op, p)
        PROVE  \A d \in Calls : Holds(d)
    <3>1. /\ \A d \in Calls : d # c => call'[d] = call[d]
          /\ call'[c].at = "read" /\ call'[c].row = game
      BY <1>1, <2>5 DEF ReadRow, TypeOK, Idle
    <3>2. NotAhead(c)'
      BY <1>2, <1>5, <3>1 DEF NotAhead
    <3>3. OnBoard' => game.status # "IN_PROGRESS"
      BY <2>1, SMT DEF OnBoard, Finished
    <3>4. Holds(c)
      BY <3>1, <3>2, <3>3 DEF Holds, TooLate
    <3>5. QED
      BY <2>3, <3>1, <3>4
  <2>6. ASSUME NEW c \in Calls, ReadMoves(c) PROVE \A d \in Calls : Holds(d)
    <3>1. CASE GoTo(c, "done")
      BY <2>4, <3>1 DEF Steps
    <3>2. CASE /\ MayMove(call[c].row, call[c].who)
               /\ \E r \in Outcomes(Turn(call[c].row.line)) :
                    call' = [call EXCEPT ![c].at = "append", ![c].result = r,
                                         ![c].ply = Cardinality(moves) + 1]
               /\ torn' = (torn \/ game.line # call[c].row.line)
      <4>1. /\ \A d \in Calls : d # c => call'[d] = call[d]
            /\ call'[c].at = "append"
        BY <1>1, <3>2 DEF TypeOK, CallStates
      <4>2. call[c].at = "read" /\ call[c].row.status = "IN_PROGRESS"
        BY <2>6, <3>2 DEF ReadMoves, MayMove
      <4>3. game.line = call[c].row.line
        BY <3>2
      <4>4. ~TooLate(c)
        BY <4>2, <4>3 DEF TooLate
      <4>5. ~OnBoard'
        BY <1>1, <2>1, <4>4
      <4>6. Holds(c)
        BY <4>1, <4>5 DEF Holds, NotAhead
      <4>7. QED
        BY <2>3, <4>1, <4>6
    <3>3. QED
      BY <2>6, <3>1, <3>2 DEF ReadMoves
  <2>7. ASSUME NEW c \in Calls, Resign(c) PROVE \A d \in Calls : Holds(d)
    <3>1. CASE GoTo(c, "done")
      BY <2>4, <3>1 DEF Steps
    <3>2. CASE \E winner \in Finished, at \in {"rate", "tell"} :
                 call' = [call EXCEPT ![c].result = winner, ![c].at = at]
      <4>1. /\ \A d \in Calls : d # c => call'[d] = call[d]
            /\ call'[c].at \in {"rate", "tell"}
        BY <1>1, <3>2 DEF TypeOK, CallStates
      <4>2. Holds(c)
        BY <4>1, ElsewhereHolds DEF Holds
      <4>3. QED
        BY <2>3, <4>1, <4>2
    <3>3. QED
      BY <2>7, <3>1, <3>2 DEF Resign, Finished
  <2>8. ASSUME NEW c \in Calls, SubmitMove(c) PROVE \A d \in Calls : Holds(d)
    <3> DEFINE after == Append(call[c].row.line, c)
    <3>1. after \in Seq(Calls) /\ call[c].ply \in Nat /\ call[c].result \in Statuses
      BY <1>1, <2>8, SubmitWrites
    <3> HIDE DEF after
    <3>2. CASE AppendMove(call[c].ply, after, call[c].who, call[c].result)
      <4>1. Len(outbox') = Len(outbox) + 1
        BY <1>1, <3>1, <3>2, AppendMoveExtends
      <4>2. QED
        BY <1>2, <1>5, <4>1
    <3>3. CASE GoTo(c, "done")
      BY <2>4, <3>3 DEF Steps
    <3>4. QED
      BY <2>8, <3>2, <3>3 DEF SubmitMove, after
  <2>9. ASSUME NEW c \in Calls, \/ CreateGame(c) \/ CreateSession(c) \/ PlayEngineReply(c)
                                \/ TellSession(c) \/ ApplyRatings(c) \/ RequestAnalysis(c)
                                \/ ArchivePGN(c) \/ IngestOpening(c) \/ Fail(c)
                                \/ \E p \in Players : JoinGame(c, p)
        PROVE  \A d \in Calls : Holds(d)
    <3>1. \E at \in Steps \ {"read", "append", "reply"} : GoTo(c, at)
      BY <2>9 DEF CreateGame, CreateSession, PlayEngineReply, TellSession, ApplyRatings,
                  RequestAnalysis, ArchivePGN, IngestOpening, Fail, JoinGame, Steps, Reading, Ending
    <3>2. QED
      BY <2>4, <3>1
  <2>10. CASE SessionDecides \/ UNCHANGED vars
    <3>1. UNCHANGED call
      BY <2>10 DEF SessionDecides, vars
    <3>2. QED
      BY <2>2, <3>1
  <2>11. QED
    BY <2>5, <2>6, <2>7, <2>8, <2>9, <2>10 DEF Next, Step
<1>6. QED
  BY <1>4, <1>5

\* A result reached on the board is never overwritten, however many SubmitMoves were
\* under way when it was stored, unless one of them had its GetGame torn apart.  What
\* store.AppendMove's UPDATE can overwrite is a resignation.
THEOREM BoardResultsStand == Spec => BoardResultStands
<1> DEFINE Stands == ~torn /\ game.status \in Finished /\ game'.status # game.status
                         => game.reason = "RESIGNATION"
<1>1. Init => EndHolds
  BY DEF Init, EndHolds, NotAhead, TooLate, Idle
<1>2. IInv /\ EndHolds /\ [Next]_vars => EndHolds'
  BY EndStep
<1>3. ASSUME IInv, EndHolds, [Next]_vars PROVE [Stands]_vars
  <2>1. SUFFICES ASSUME ~torn, game.status \in Finished, game'.status # game.status, OnBoard
                 PROVE  FALSE
    BY DEF OnBoard
  <2>2. /\ \A c \in Calls : TooLate(c)
        /\ TypeOK /\ CallsKnow /\ game \in Rows /\ game.kind # None
        /\ game.status # "IN_PROGRESS" /\ Len(outbox) \in Nat
    BY <1>3, <2>1 DEF EndHolds, IInv, TypeOK, Uncreated, Finished
  <2>3. ASSUME NEW c \in Calls, SubmitMove(c), outbox' # outbox PROVE FALSE
    <3>1. call[c].at = "append" /\ call[c].ply = Len(outbox) + 1
      BY <1>3, <2>1, <2>3, SubmitStores DEF SubmitMove
    <3>2. QED
      BY <2>2, <3>1 DEF TooLate
  <2>4. ASSUME NEW c \in Calls, PlayEngineReply(c), outbox' # outbox PROVE FALSE
    <3>1. call[c].at = "reply" /\ call[c].ply = Len(outbox)
      BY <1>3, <2>1, <2>4, ReplyStores DEF PlayEngineReply
    <3>2. QED
      BY <2>2, <3>1 DEF TooLate
  <2>5. ASSUME NEW c \in Calls, ApplyRatings(c) PROVE FALSE
    BY <2>1, <2>2, <2>5 DEF ApplyRatings, Rows
  <2>6. CASE outbox' = outbox
    <3>1. ASSUME NEW c \in Calls, SubmitMove(c) \/ PlayEngineReply(c) PROVE FALSE
      <4>1. ASSUME NEW ply \in Nat, NEW line \in Seq(Calls), NEW by, NEW result \in Statuses
            PROVE  ~AppendMove(ply, line, by, result)
        <5> SUFFICES ASSUME AppendMove(ply, line, by, result) PROVE FALSE
          OBVIOUS
        <5>1. Len(outbox') = Len(outbox) + 1
          BY <2>2, AppendMoveExtends
        <5>2. QED
          BY <2>2, <2>6, <5>1
      <4>2. CASE SubmitMove(c)
        <5> DEFINE after == Append(call[c].row.line, c)
        <5>1. after \in Seq(Calls) /\ call[c].ply \in Nat /\ call[c].result \in Statuses
          BY <2>2, <4>2, SubmitWrites
        <5> HIDE DEF after
        <5>2. ~AppendMove(call[c].ply, after, call[c].who, call[c].result)
          BY <4>1, <5>1
        <5>3. QED
          BY <2>1, <4>2, <5>2 DEF SubmitMove, after
      <4>3. CASE PlayEngineReply(c)
        <5> DEFINE after == call[c].row.line \o <<c, c>>
                   next == call[c].ply + 1
        <5>1. after \in Seq(Calls) /\ next \in Nat
          BY <2>2, <4>3, ReplyWrites
        <5> HIDE DEF after, next
        <5>2. \A r \in Outcomes(Turn(Append(call[c].row.line, c))) : r \in Statuses
          BY <2>2, <4>3, ReplyWrites
        <5>3. \A r \in Outcomes(Turn(Append(call[c].row.line, c))) :
                  ~AppendMove(next, after, "engine", r)
          BY <4>1, <5>1, <5>2
        <5>4. QED
          BY <2>1, <4>3, <5>3 DEF PlayEngineReply, after, next
      <4>4. QED
        BY <3>1, <4>2, <4>3
    <3>2. ASSUME NEW c \in Calls, Step(c), ~SubmitMove(c), ~PlayEngineReply(c) PROVE FALSE
      BY <2>1, <2>2, <2>5, <3>2
      DEF Step, CreateGame, JoinGame, SeatOpen, CreateSession, ReadRow, ReadMoves, Resign,
          TellSession, RequestAnalysis, ArchivePGN, IngestOpening, Fail, tables
    <3>3. QED
      BY <1>3, <2>1, <3>1, <3>2 DEF Next, SessionDecides, vars, tables
  <2>7. CASE outbox' # outbox
    BY <1>3, <2>3, <2>4, <2>7
    DEF Next, Step, SessionDecides, CreateGame, JoinGame, CreateSession, ReadRow, ReadMoves,
        Resign, TellSession, ApplyRatings, RequestAnalysis, ArchivePGN, IngestOpening, Fail,
        vars, tables
  <2>8. QED
    BY <2>6, <2>7
<1>4. IInv /\ EndHolds /\ [Next]_vars => [Stands]_vars
  BY <1>3
<1>5. QED
  BY <1>1, <1>2, <1>4, ServiceInductive, PTL DEF Spec, BoardResultStands
=============================================================================
