----------------------------- MODULE GameService -----------------------------
(***************************************************************************)
(* One game of the game-service: the gRPC handlers of                      *)
(* services/game-service/internal/server/server.go, run concurrently by    *)
(* any number of callers, over the Postgres tables of pkg/store and the    *)
(* live session they report to.                                            *)
(*                                                                         *)
(* A statement or a transaction of pkg/store is one step; between two of   *)
(* them any other call may run.  GetGame is two statements.  A call may    *)
(* fail between any two steps (the pod dies, the caller's context ends).   *)
(*                                                                         *)
(* A position is the line of moves that reached it, a move being named by  *)
(* the call that submitted it.  Whether a move is legal, and how it ends   *)
(* the game, is left open.                                                 *)
(***************************************************************************)
EXTENDS Integers, Sequences, FiniteSets

CONSTANTS
    Calls,      \* the calls made in this instance
    White,      \* the player who creates the game
    Others,     \* the other players
    None,       \* SQL NULL
    Kinds,      \* the kinds of game created in this instance,
    Rated,      \* and whether they are asked to be rated
    \* Bounds of an instance:
    MaxFailed   \* calls cut short, and calls to other services that fail

Players == {White} \cup Others

\* Two named players, an open Black seat, or the engine.
AllKinds == {"human", "open", "engine"}
Finished == {"WHITE_WON", "BLACK_WON", "DRAW"}

ASSUME ServiceAssumption ==
    /\ None \notin Players \cup AllKinds \cup Finished
    /\ "engine" \notin Players
    /\ White \notin Others
    /\ Kinds \subseteq AllKinds /\ Rated \subseteq BOOLEAN
    /\ MaxFailed \in Nat

VARIABLES
    \* Postgres.
    game,       \* the row of table games; kind is None until it is inserted
    moves,      \* the rows of table moves, UNIQUE (game_id, ply)
    outbox,     \* the rows of table move_outbox in id order
    scored,     \* outcomes ApplyRatings has added to the players' Elo
    ingested,   \* times the game is counted in the opening statistics
    \* Elsewhere.
    session,    \* the live session
    hooks,      \* what was asked for after the end: "analysis", "archive"
    \* The handlers.
    call,       \* for each call, where it is and what it has read
    failed,     \* calls and calls to other services that have failed
    torn        \* a SubmitMove has read the row and the moves of different moments

vars == <<game, moves, outbox, scored, ingested, session, hooks, call, failed, torn>>
tables == <<game, moves, outbox, scored, ingested>>

NoGame == [kind |-> None, rated |-> FALSE, black |-> None, status |-> "IN_PROGRESS",
           reason |-> None, line |-> <<>>, delta |-> None]

NoSession == [status |-> "none", turn |-> "white"]

Idle == [op |-> "none", who |-> None, at |-> "idle", row |-> NoGame, ply |-> 0,
         result |-> "IN_PROGRESS"]

\* board.Turn of a position, and the seat of its owner.
Turn(line) == IF Len(line) % 2 = 0 THEN "white" ELSE "black"
Seat(row, side) == IF side = "white" THEN White ELSE row.black

\* What OutcomeWithHistory may say after a move of `side'.
Outcomes(side) ==
    {"IN_PROGRESS", "DRAW", IF side = "white" THEN "WHITE_WON" ELSE "BLACK_WON"}

\* Call c goes on to step `at', or replies and is forgotten.
GoTo(c, at) ==
    call' = [call EXCEPT ![c] = IF at = "done" THEN [Idle EXCEPT !.at = "done"]
                                               ELSE [@ EXCEPT !.at = at]]

-----------------------------------------------------------------------------
(* The live session, as the game-service sees it: SmGame says what is behind. *)

Applied(s, m) ==
    CASE m.type = "create" /\ s.status = "none" ->
             [status |-> "in_progress", turn |-> "white"]
      [] m.type = "move" /\ s.status = "in_progress" /\ m.who = Seat(game, s.turn) ->
             [s EXCEPT !.turn = IF @ = "white" THEN "black" ELSE "white"]
      [] m.type \in {"resign", "end"} /\ s.status = "in_progress" ->
             [s EXCEPT !.status = "finished"]
      [] OTHER -> s

\* A call to the session under sessionTimeout.  Its failure is only logged.
Tell(type, who) ==
    \/ session' = Applied(session, [type |-> type, who |-> who]) /\ UNCHANGED failed
    \/ failed < MaxFailed /\ failed' = failed + 1 /\ UNCHANGED session

\* A flag falls, or a player has gone: the game-service is not told.
SessionDecides ==
    /\ session.status = "in_progress"
    /\ session' = [session EXCEPT !.status = "finished"]
    /\ UNCHANGED <<tables, hooks, call, failed, torn>>

-----------------------------------------------------------------------------
(* CreateGame and JoinGame. *)

CreateGame(c) ==
    /\ call[c].at = "idle"
    /\ game.kind = None
    /\ \E kind \in Kinds, rated \in Rated, black \in Others :
         /\ game' = [NoGame EXCEPT !.kind = kind,
                                   !.rated = rated /\ kind # "engine",
                                   !.black = IF kind = "human" THEN black ELSE None]
         /\ GoTo(c, IF kind = "human" THEN "session" ELSE "done")
    /\ UNCHANGED <<moves, outbox, scored, ingested, session, hooks, failed, torn>>

\* The guard of the UPDATE in store.JoinGame.
SeatOpen(p) ==
    /\ game.black = None /\ game.kind # "engine" /\ game.kind # None
    /\ game.status = "IN_PROGRESS"
    /\ p # White

JoinGame(c, p) ==
    /\ call[c].at = "idle"
    /\ \/ SeatOpen(p) /\ game' = [game EXCEPT !.black = p] /\ GoTo(c, "session")
       \/ ~SeatOpen(p) /\ GoTo(c, "done") /\ UNCHANGED game
    /\ UNCHANGED <<moves, outbox, scored, ingested, session, hooks, failed, torn>>

CreateSession(c) ==
    /\ call[c].at = "session"
    /\ Tell("create", None)
    /\ GoTo(c, "done")
    /\ UNCHANGED <<tables, hooks, torn>>

-----------------------------------------------------------------------------
(* SubmitMove. *)

\* The first statement of GetGame, which begins SubmitMove and Resign.
ReadRow(c, op, who) ==
    /\ call[c].at = "idle"
    /\ game.kind # None
    /\ call' = [call EXCEPT ![c] = [Idle EXCEPT !.op = op, !.who = who,
                                               !.at = "read", !.row = game]]
    /\ UNCHANGED <<tables, session, hooks, failed, torn>>

\* Mutant: a finished game is not refused.
MayMoveOn(row, who) == row.kind = "engine" \/ who = Seat(row, Turn(row.line))

\* The checks of SubmitMove on what GetGame returned.
MayMove(row, who) ==
    /\ row.status = "IN_PROGRESS"
    /\ row.kind = "engine" \/ who = Seat(row, Turn(row.line))

\* The second statement of GetGame, and everything up to the transaction.
ReadMoves(c) ==
    /\ call[c].op = "move" /\ call[c].at = "read"
    /\ \/ /\ MayMove(call[c].row, call[c].who)
          /\ \E r \in Outcomes(Turn(call[c].row.line)) :
               call' = [call EXCEPT ![c].at = "append", ![c].result = r,
                                    ![c].ply = Cardinality(moves) + 1]
          /\ torn' = (torn \/ game.line # call[c].row.line)
       \/ GoTo(c, "done") /\ UNCHANGED torn   \* not allowed, or an illegal move
    /\ UNCHANGED <<tables, session, hooks, failed>>

\* Mutants: no UNIQUE (game_id, ply); the ply is counted when the move is stored.
AppendTwice(ply, line, by, result) ==
    /\ moves' = moves \cup {[ply |-> ply, line |-> line, by |-> by]}
    /\ outbox' = Append(outbox, [ply |-> ply, line |-> line, status |-> result])
    /\ game' = [game EXCEPT !.line = line, !.status = result,
                            !.reason = IF result \in Finished THEN "move" ELSE @]
AppendNext(ply, line, by, result) ==
    LET next == Cardinality(moves) + 1 IN
    /\ moves' = moves \cup {[ply |-> next, line |-> line, by |-> by]}
    /\ outbox' = Append(outbox, [ply |-> next, line |-> line, status |-> result])
    /\ game' = [game EXCEPT !.line = line, !.status = result,
                            !.reason = IF result \in Finished THEN "move" ELSE @]

\* The transaction of store.AppendMove; it fails on a ply that is taken.  The
\* UPDATE of the games row has no guard on its status.
AppendMove(ply, line, by, result) ==
    /\ \A m \in moves : m.ply # ply
    /\ moves' = moves \cup {[ply |-> ply, line |-> line, by |-> by]}
    /\ outbox' = Append(outbox, [ply |-> ply, line |-> line, status |-> result])
    /\ game' = [game EXCEPT !.line = line, !.status = result,
                            !.reason = IF result \in Finished THEN "move" ELSE @]

\* Where SubmitMove goes once its move is stored.
AfterMove(kind, result) ==
    CASE kind # "engine" -> "tell"
      [] kind = "engine" /\ result \in Finished -> "rate"
      [] OTHER -> "reply"

SubmitMove(c) ==
    LET me == call[c]  after == Append(me.row.line, c)
    IN  /\ me.op = "move" /\ me.at = "append"
        /\ \/ /\ AppendMove(me.ply, after, me.who, me.result)
              /\ GoTo(c, AfterMove(me.row.kind, me.result))
           \/ /\ \E m \in moves : m.ply = me.ply
              /\ GoTo(c, "done")
              /\ UNCHANGED <<game, moves, outbox>>
        /\ UNCHANGED <<scored, ingested, session, hooks, failed, torn>>

\* playEngineReply: its own transaction, and nothing after it.
PlayEngineReply(c) ==
    LET me == call[c]  after == me.row.line \o <<c, c>>
    IN  /\ me.at = "reply"
        /\ GoTo(c, "done")
        /\ \/ \E r \in Outcomes(Turn(Append(me.row.line, c))) :
                AppendMove(me.ply + 1, after, "engine", r)
           \/ UNCHANGED <<game, moves, outbox>>   \* no answer, or a ply that is taken
        /\ UNCHANGED <<scored, ingested, session, hooks, failed, torn>>

-----------------------------------------------------------------------------
(* Resign. *)

\* store.EndGame.  The move list GetGame also reads is not used.
Resign(c) ==
    LET me == call[c]
        winner == IF me.who = White THEN "BLACK_WON" ELSE "WHITE_WON"
        seated == me.who = White \/ me.who = me.row.black
    IN  /\ me.op = "resign" /\ me.at = "read"
        /\ \/ /\ seated /\ game.status = "IN_PROGRESS"
              /\ game' = [game EXCEPT !.status = winner, !.reason = "RESIGNATION"]
              /\ call' = [call EXCEPT ![c].result = winner,
                                      ![c].at = IF me.row.kind = "engine" THEN "rate" ELSE "tell"]
           \/ /\ ~seated \/ game.status # "IN_PROGRESS"
              /\ GoTo(c, "done")
              /\ UNCHANGED game
        /\ UNCHANGED <<moves, outbox, scored, ingested, session, hooks, failed, torn>>

-----------------------------------------------------------------------------
(* After the game row is written. *)

\* Mutant: the session is the last to hear of an end by a move.
TellSessionLast(c) ==
    LET me == call[c]
    IN  /\ me.at = "tell"
        /\ CASE me.op = "resign" -> Tell("resign", me.who)
             [] me.op = "move" /\ me.result \in Finished -> Tell("end", None)
             [] OTHER -> Tell("move", me.who)
        /\ GoTo(c, IF me.op = "resign" THEN "rate" ELSE "done")
        /\ UNCHANGED <<tables, hooks, torn>>

\* notifySession, endSession, or the call to session.Resign.
TellSession(c) ==
    LET me == call[c]
    IN  /\ me.at = "tell"
        /\ CASE me.op = "resign" -> Tell("resign", me.who)
             [] me.op = "move" /\ me.result \in Finished -> Tell("end", None)
             [] OTHER -> Tell("move", me.who)
        /\ GoTo(c, IF me.result \in Finished THEN "rate" ELSE "done")
        /\ UNCHANGED <<tables, hooks, torn>>

\* Mutant: a game that is already scored is not skipped.
ScorableAgain == game.rated /\ game.status \in Finished /\ game.black # None

\* The guard of the SELECT ... FOR UPDATE in store.ApplyRatings.
Scorable ==
    /\ game.rated
    /\ game.status \in Finished
    /\ game.delta = None
    /\ game.black # None

\* A failure is only logged.
ApplyRatings(c) ==
    /\ call[c].at = "rate"
    /\ \/ /\ Scorable
          /\ scored' = Append(scored, call[c].result)
          /\ game' = [game EXCEPT !.delta = call[c].result]
          /\ UNCHANGED failed
       \/ ~Scorable /\ UNCHANGED <<game, scored, failed>>
       \/ failed < MaxFailed /\ failed' = failed + 1 /\ UNCHANGED <<game, scored>>
    /\ GoTo(c, "analyse")
    /\ UNCHANGED <<moves, outbox, ingested, session, hooks, torn>>

\* requestAnalysis and archivePGN: skipped for a game without moves, their
\* failures only logged.
Request(hook) ==
    \/ /\ hooks' = IF moves = {} THEN hooks ELSE hooks \cup {hook}
       /\ UNCHANGED failed
    \/ failed < MaxFailed /\ failed' = failed + 1 /\ UNCHANGED hooks

RequestAnalysis(c) ==
    /\ call[c].at = "analyse"
    /\ Request("analysis")
    /\ GoTo(c, "archive")
    /\ UNCHANGED <<tables, session, torn>>

ArchivePGN(c) ==
    /\ call[c].at = "archive"
    /\ Request("archive")
    /\ GoTo(c, "ingest")
    /\ UNCHANGED <<tables, session, torn>>

\* INSERT INTO opening_ingested ... ON CONFLICT DO NOTHING.
Claimed == ingested = 0

IngestOpening(c) ==
    /\ call[c].at = "ingest"
    /\ ingested' = IF moves # {} /\ Claimed THEN ingested + 1 ELSE ingested
    /\ GoTo(c, "done")
    /\ UNCHANGED <<game, moves, outbox, scored, session, hooks, failed, torn>>

\* The process dies, the caller goes away, or a statement fails.
Fail(c) ==
    /\ call[c].at \notin {"idle", "done"}
    /\ failed < MaxFailed
    /\ failed' = failed + 1
    /\ GoTo(c, "done")
    /\ UNCHANGED <<tables, session, hooks, torn>>

-----------------------------------------------------------------------------
Init ==
    /\ game = NoGame
    /\ moves = {}
    /\ outbox = <<>>
    /\ scored = <<>>
    /\ ingested = 0
    /\ session = NoSession
    /\ hooks = {}
    /\ call = [c \in Calls |-> Idle]
    /\ failed = 0
    /\ torn = FALSE

Step(c) ==
    \/ CreateGame(c)
    \/ \E p \in Players : JoinGame(c, p)
    \/ CreateSession(c)
    \/ \E op \in {"move", "resign"}, p \in Players : ReadRow(c, op, p)
    \/ ReadMoves(c)
    \/ SubmitMove(c)
    \/ PlayEngineReply(c)
    \/ Resign(c)
    \/ TellSession(c)
    \/ ApplyRatings(c)
    \/ RequestAnalysis(c)
    \/ ArchivePGN(c)
    \/ IngestOpening(c)
    \/ Fail(c)

Next == SessionDecides \/ \E c \in Calls : Step(c)

Spec == Init /\ [][Next]_vars

-----------------------------------------------------------------------------
(* What the service promises. *)

\* The outbox tells the game's moves, each once, in ply order and without a gap,
\* however the calls that wrote them overlapped ("never a move persisted without
\* its event, nor an event without its move", store.go:245; "Ordering by id
\* preserves per-game ply order", outbox.go:23), and ends where the games row says
\* the game stands (store.AppendMove).
OutboxInOrder ==
    /\ \A i \in DOMAIN outbox : outbox[i].ply = i
    /\ \A m \in moves : m.ply \in DOMAIN outbox /\ outbox[m.ply].line = m.line
    /\ Cardinality(moves) = Len(outbox)
    /\ game.line = IF outbox = <<>> THEN <<>> ELSE outbox[Len(outbox)].line

\* The stored moves are one game: each was made in the position that the one before
\* it reached and, between two players, by the one whose ply it is ("only the side
\* to move may move", server.go:164; the seat of JoinGame is taken once), although a
\* SubmitMove checks and computes on what it read before others stored theirs.  The
\* one exception is a call whose GetGame a move tore apart, committing between its
\* two statements.
OneGame ==
    ~torn => \A m \in moves :
        /\ Len(m.line) = m.ply
        /\ m.ply > 1 => SubSeq(m.line, 1, m.ply - 1) = outbox[m.ply - 1].line
        /\ game.kind # "engine" =>
              m.by = Seat(game, IF m.ply % 2 = 1 THEN "white" ELSE "black")

\* However many calls end the game, its result moves the players' Elo and enters
\* the opening statistics at most once, and Elo moves only for a rated game
\* between two players (store.ApplyRatings, store.IngestGameOpening).
EffectsOnce ==
    /\ Len(scored) <= 1 /\ ingested <= 1
    /\ scored # <<>> => game.rated /\ game.black # None /\ game.delta = scored[1]

Quiet == \A c \in Calls : call[c].at \in {"idle", "done"}

\* When every call has returned and none failed, a game that two people finished
\* has had everything done that follows an end, whatever the calls that raced to
\* end it saw (the hooks at the end of SubmitMove and Resign).  A game the engine's
\* reply finishes has not: playEngineReply runs none of them.
EndIsFollowedUp ==
    Quiet /\ failed = 0 /\ game.status \in Finished /\ game.kind # "engine" =>
        /\ moves # {} => hooks = {"analysis", "archive"} /\ ingested = 1
        /\ game.rated /\ game.black # None => scored # <<>>

\* A result reached on the board stands: although AppendMove's UPDATE does not look
\* at the status it overwrites, only a resignation can be overwritten, because a ply
\* counted before the last move was stored is taken and one counted after it follows
\* a row that says the game is over.  Once more but for a GetGame torn apart.
BoardResultStands ==
    [][~torn /\ game.status \in Finished /\ game'.status # game.status =>
          game.reason = "RESIGNATION"]_vars

\* "A repeated or racing request cannot overwrite the original result"
\* (store.go:272): once the row has a result, no request changes it.
ResultStands == [][game.status \in Finished => game'.status = game.status]_vars
=============================================================================
