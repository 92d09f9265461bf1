-------------------------------- MODULE Chess --------------------------------
(***************************************************************************)
(* The rules of the game (pkg/chess): move generation, attacks, castling   *)
(* rights, en passant, the ends of a game, and the SAN a move is shown as; *)
(* and a game played by them, as SubmitMove of the game-service plays it.  *)
(*                                                                         *)
(* Squares are 0 .. 63 as in the code, a1 = 0 and h8 = 63.  A board is the *)
(* six fields of its FEN; `squares' holds the squares that are not empty.  *)
(* The FENs of a game, no two of which have the same side and move number, *)
(* are a set.                                                              *)
(***************************************************************************)
EXTENDS Integers, FiniteSets, TLC, Functions

CONSTANTS
    Starts        \* positions to play on from, each with the plies to play

VARIABLES
    board,
    history,      \* all positions reached
    outcome,
    left          \* bound: plies still to play

vars == <<board, history, outcome, left>>

NoSquare == -1

Sq(f, r) == 8 * r + f
FileOf(s) == s % 8
RankOf(s) == s \div 8
OnBoard(f, r) == f \in 0 .. 7 /\ r \in 0 .. 7

Opposite(c) == IF c = "white" THEN "black" ELSE "white"
Forward(c) == IF c = "white" THEN 1 ELSE -1
Home(c) == IF c = "white" THEN 0 ELSE 7     \* the rank of c's king and rooks

Piece(c, t) == [color |-> c, type |-> t]
Free(b, s) == s \notin DOMAIN b.squares
Holds(b, s, p) == s \in DOMAIN b.squares /\ b.squares[s] = p
Ours(b, s, c) == s \in DOMAIN b.squares /\ b.squares[s].color = c

KnightDeltas == {<<1, 2>>, <<2, 1>>, <<2, -1>>, <<1, -2>>,
                 <<-1, -2>>, <<-2, -1>>, <<-2, 1>>, <<-1, 2>>}
BishopDirs == {-1, 1} \X {-1, 1}
RookDirs == {<<1, 0>>, <<-1, 0>>, <<0, 1>>, <<0, -1>>}
KingDeltas == BishopDirs \cup RookDirs

\* The square k steps from s.
To(s, d, k) ==
    LET f == FileOf(s) + k * d[1]
        r == RankOf(s) + k * d[2]
    IN  IF OnBoard(f, r) THEN Sq(f, r) ELSE NoSquare

Steps(s, deltas) == {To(s, d, 1) : d \in deltas} \ {NoSquare}

\* The squares a slider on s looks at: each ray up to the first piece on it.
Rays(b, s, dirs) ==
    UNION {{To(s, d, k) : k \in {n \in 1 .. 7 : \A j \in 1 .. n - 1 : Free(b, To(s, d, j))}} :
              d \in dirs} \ {NoSquare}

PawnTargets(s, c) == Steps(s, {-1, 1} \X {Forward(c)})

--------------------------------------------------------------------------
\* board.go

KingSquare(b, c) == CHOOSE s \in DOMAIN b.squares : b.squares[s] = Piece(c, "king")

\* Mutant: the pawns are looked for on the wrong side.
AttackedFromBehind(b, s, by) ==
    \/ \E t \in PawnTargets(s, by) : Holds(b, t, Piece(by, "pawn"))
    \/ \E t \in Steps(s, KnightDeltas) : Holds(b, t, Piece(by, "knight"))
    \/ \E t \in Steps(s, KingDeltas) : Holds(b, t, Piece(by, "king"))
    \/ \E t \in Rays(b, s, BishopDirs), p \in {"bishop", "queen"} : Holds(b, t, Piece(by, p))
    \/ \E t \in Rays(b, s, RookDirs), p \in {"rook", "queen"} : Holds(b, t, Piece(by, p))

\* Looks out from s for a piece that would reach it; a pawn reaches it from
\* where a pawn of the other side on s would capture.
IsAttacked(b, s, by) ==
    \/ \E t \in PawnTargets(s, Opposite(by)) : Holds(b, t, Piece(by, "pawn"))
    \/ \E t \in Steps(s, KnightDeltas) : Holds(b, t, Piece(by, "knight"))
    \/ \E t \in Steps(s, KingDeltas) : Holds(b, t, Piece(by, "king"))
    \/ \E t \in Rays(b, s, BishopDirs), p \in {"bishop", "queen"} : Holds(b, t, Piece(by, p))
    \/ \E t \in Rays(b, s, RookDirs), p \in {"rook", "queen"} : Holds(b, t, Piece(by, p))

InCheck(b) == IsAttacked(b, KingSquare(b, b.turn), Opposite(b.turn))

--------------------------------------------------------------------------
\* movegen.go

Move(s, t, promotion) == [from |-> s, to |-> t, promotion |-> promotion]

\* genStep and genSliding: to any of the squares that we do not hold.
Onto(b, s, targets) == {Move(s, t, "none") : t \in {u \in targets : ~Ours(b, u, b.turn)}}

\* addPawnMove: on the last rank, one move for each promotion.
PawnMove(c, s, t) ==
    {Move(s, t, p) : p \in IF RankOf(t) = Home(Opposite(c))
                           THEN {"queen", "rook", "bishop", "knight"} ELSE {"none"}}

GenPawn(b, s) ==
    LET c   == b.turn
        one == To(s, <<0, Forward(c)>>, 1)
        two == To(s, <<0, Forward(c)>>, 2)
    IN  UNION ({PawnMove(c, s, t) : t \in {u \in {one} : Free(b, u)}
                                     \cup {u \in PawnTargets(s, c) : Ours(b, u, Opposite(c))}})
        \cup {Move(s, t, "none") : t \in
                 {u \in {two} : RankOf(s) = Home(c) + Forward(c) /\ Free(b, one) /\ Free(b, u)}
                 \cup {u \in PawnTargets(s, c) : u = b.enPassant /\ Free(b, u)}}

Wings == {"king", "queen"}
RookHome(c, wing) == Sq(IF wing = "king" THEN 7 ELSE 0, Home(c))

\* The king is at home and neither leaves, crosses nor reaches an attacked
\* square; between king and rook nothing stands.
GenCastling(b) ==
    LET c == b.turn
        between(wing) == IF wing = "king" THEN {5, 6} ELSE {1, 2, 3}
        crossed(wing) == IF wing = "king" THEN {4, 5, 6} ELSE {2, 3, 4}
        open(wing) ==
            /\ Holds(b, Sq(4, Home(c)), Piece(c, "king"))
            /\ <<c, wing>> \in b.castling
            /\ \A f \in between(wing) : Free(b, Sq(f, Home(c)))
            /\ \A f \in crossed(wing) : ~IsAttacked(b, Sq(f, Home(c)), Opposite(c))
            /\ Holds(b, RookHome(c, wing), Piece(c, "rook"))
    IN  {Move(Sq(4, Home(c)), Sq(IF wing = "king" THEN 6 ELSE 2, Home(c)), "none") :
            wing \in {w \in Wings : open(w)}}

PseudoLegalMoves(b) ==
    LET from(s) ==
            CASE b.squares[s].type = "pawn"   -> GenPawn(b, s)
              [] b.squares[s].type = "knight" -> Onto(b, s, Steps(s, KnightDeltas))
              [] b.squares[s].type = "bishop" -> Onto(b, s, Rays(b, s, BishopDirs))
              [] b.squares[s].type = "rook"   -> Onto(b, s, Rays(b, s, RookDirs))
              [] b.squares[s].type = "queen"  -> Onto(b, s, Rays(b, s, KingDeltas))
              [] b.squares[s].type = "king"   -> Onto(b, s, Steps(s, KingDeltas)) \cup GenCastling(b)
    IN  UNION {from(s) : s \in {t \in DOMAIN b.squares : Ours(b, t, b.turn)}}

\* Mutant: a rook captured at home leaves its right behind.
RightsOfMovers(b, m) ==
    {right \in b.castling :
        /\ b.squares[m.from] # Piece(right[1], "king")
        /\ RookHome(right[1], right[2]) # m.from}

\* Rights go when the king moves, and when anything leaves or reaches a
\* rook's home.
UpdateCastlingRights(b, m) ==
    {right \in b.castling :
        /\ b.squares[m.from] # Piece(right[1], "king")
        /\ RookHome(right[1], right[2]) \notin {m.from, m.to}}

ApplyMoveUnchecked(b, m) ==
    LET c       == b.turn
        moving  == b.squares[m.from]
        isPawn  == moving.type = "pawn"
        passed  == isPawn /\ m.to = b.enPassant /\ Free(b, m.to)
        castles == moving.type = "king" /\ FileOf(m.from) - FileOf(m.to) \in {-2, 2}
        wing    == IF FileOf(m.to) = 6 THEN "king" ELSE "queen"
        emptied == {m.from} \cup (IF passed THEN {m.to - 8 * Forward(c)} ELSE {})
                            \cup (IF castles THEN {RookHome(c, wing)} ELSE {})
        placed  == m.to :> (IF m.promotion = "none" THEN moving ELSE Piece(c, m.promotion))
        rook    == IF castles THEN Sq(IF wing = "king" THEN 5 ELSE 3, RankOf(m.from))
                                       :> b.squares[RookHome(c, wing)]
                              ELSE <<>>
    IN  [squares   |-> placed @@ rook @@ Restrict(b.squares, DOMAIN b.squares \ emptied),
         turn      |-> Opposite(c),
         castling  |-> UpdateCastlingRights(b, m),
         enPassant |-> IF isPawn /\ RankOf(m.to) - RankOf(m.from) \in {-2, 2}
                       THEN (m.from + m.to) \div 2 ELSE NoSquare,
         halfMove  |-> IF isPawn \/ ~Free(b, m.to) THEN 0 ELSE b.halfMove + 1,
         fullMove  |-> IF c = "black" THEN b.fullMove + 1 ELSE b.fullMove]

LegalMoves(b) ==
    {m \in PseudoLegalMoves(b) :
        LET nb == ApplyMoveUnchecked(b, m)
        IN  ~IsAttacked(nb, KingSquare(nb, b.turn), nb.turn)}

--------------------------------------------------------------------------
\* outcome.go

\* Neither side can mate: bare kings, one minor piece, or two bishops on
\* squares of one colour.
InsufficientMaterial(b) ==
    LET men == {s \in DOMAIN b.squares : b.squares[s].type # "king"}
    IN  /\ \A s \in men : b.squares[s].type \in {"bishop", "knight"}
        /\ \/ Cardinality(men) <= 1
           \/ /\ Cardinality(men) = 2
              /\ \A s, t \in men : b.squares[s].type = "bishop"
                                   /\ (FileOf(s) + RankOf(s)) % 2 = (FileOf(t) + RankOf(t)) % 2

Outcome(b) ==
    CASE LegalMoves(b) = {} -> IF InCheck(b) THEN "checkmate" ELSE "stalemate"
      [] OTHER -> IF InsufficientMaterial(b) THEN "insufficient"
                  ELSE IF b.halfMove >= 100 THEN "fifty" ELSE "ongoing"

\* Mutant: rights to castle do not count.
PlacementKey(b) == <<b.squares, b.turn, b.enPassant>>

\* The position without its counters.
RepetitionKey(b) == <<b.squares, b.turn, b.castling, b.enPassant>>

Threefold(h) ==
    \E b \in h : Cardinality({c \in h : RepetitionKey(c) = RepetitionKey(b)}) >= 3

OutcomeWithHistory(b, h) ==
    LET o == Outcome(b)
    IN  IF o = "ongoing" /\ Threefold(h) THEN "threefold" ELSE o

--------------------------------------------------------------------------
\* san.go, without the check and mate marks

\* Mutant: the file is taken to be enough.
FileOnly(b, legal, m) ==
    LET rivals == {n \in legal : n.to = m.to /\ n.from # m.from
                                 /\ b.squares[n.from] = b.squares[m.from]}
    IN  [file |-> IF rivals # {} THEN {FileOf(m.from)} ELSE {}, rank |-> {}]

\* What tells m from the same piece's other legal ways to its destination:
\* its file if that is enough, or else its rank, or else both.
Disambiguation(b, legal, m) ==
    LET rivals == {n \in legal : n.to = m.to /\ n.from # m.from
                                 /\ b.squares[n.from] = b.squares[m.from]}
        sameFile == \E n \in rivals : FileOf(n.from) = FileOf(m.from)
        sameRank == \E n \in rivals : RankOf(n.from) = RankOf(m.from)
    IN  [file |-> IF rivals # {} /\ (~sameFile \/ sameRank) THEN {FileOf(m.from)} ELSE {},
         rank |-> IF sameFile THEN {RankOf(m.from)} ELSE {}]

SANCapture(b, m) == ~Free(b, m.to) \/ (b.squares[m.from].type = "pawn" /\ m.to = b.enPassant)

\* Castling names only the wing, a pawn only its file and that when it captures.
SAN(b, legal, m) ==
    CASE b.squares[m.from].type = "king" /\ FileOf(m.from) - FileOf(m.to) \in {-2, 2} ->
            <<"O-O", FileOf(m.to) = 2>>
      [] b.squares[m.from].type = "pawn" ->
            <<"pawn", IF SANCapture(b, m) THEN {FileOf(m.from)} ELSE {}, m.to, m.promotion>>
      [] OTHER ->
            <<b.squares[m.from].type, Disambiguation(b, legal, m), SANCapture(b, m), m.to>>

--------------------------------------------------------------------------

Init ==
    \E start \in Starts :
        /\ board = start.board
        /\ history = {start.board}
        /\ outcome = Outcome(start.board)
        /\ left = start.plies

\* SubmitMove on a game in progress, and the engine's reply.
Play(m) ==
    /\ outcome = "ongoing"
    /\ left > 0
    /\ board' = ApplyMoveUnchecked(board, m)
    /\ history' = history \cup {board'}
    /\ outcome' = OutcomeWithHistory(board', history')
    /\ left' = left - 1

Next == \E m \in LegalMoves(board) : Play(m)

Spec == Init /\ [][Next]_vars

--------------------------------------------------------------------------

\* IsAttacked looks out from a square, the generator from the pieces: for every
\* piece on the board they agree on whether the other side may take it.
AttackAgrees ==
    LET targets == [c \in {"white", "black"} |->
            {m.to : m \in PseudoLegalMoves([board EXCEPT !.turn = c, !.enPassant = NoSquare])}]
    IN  \A s \in DOMAIN board.squares :
            LET them == Opposite(board.squares[s].color)
            IN  IsAttacked(board, s, them) <=> s \in targets[them]

\* What the board remembers of the past is still so: a right to castle has its
\* king and its rook at home (not another rook that came there since), and an
\* en-passant target lies between the two empty squares a pawn has just left.
RightsSound ==
    /\ \A right \in board.castling :
        /\ Holds(board, Sq(4, Home(right[1])), Piece(right[1], "king"))
        /\ Holds(board, RookHome(right[1], right[2]), Piece(right[1], "rook"))
    /\ board.enPassant # NoSquare =>
        /\ Free(board, board.enPassant)
        /\ Free(board, board.enPassant + 8 * Forward(board.turn))
        /\ Holds(board, board.enPassant - 8 * Forward(board.turn),
                 Piece(Opposite(board.turn), "pawn"))

\* A move list in SAN is one game: no two legal moves of a position read the
\* same, and a move is written as a capture exactly when a piece disappears.
SANTellsMoves ==
    LET legal == LegalMoves(board)
    IN  /\ Cardinality({SAN(board, legal, m) : m \in legal}) = Cardinality(legal)
        /\ \A m \in legal :
            SANCapture(board, m) <=> Cardinality(DOMAIN ApplyMoveUnchecked(board, m).squares)
                                     < Cardinality(DOMAIN board.squares)

\* threefold looks for any position met three times, the rule means the present
\* one: as a game ends at the first, they are the same, no right was lost since,
\* and nothing irreversible happened.
Occurrences(b) ==
    Cardinality({c \in history : [c EXCEPT !.halfMove = b.halfMove, !.fullMove = b.fullMove] = b})

ThreefoldIsCurrent ==
    outcome = "threefold" =>
        /\ Occurrences(board) = 3
        /\ board.halfMove >= 8
        /\ \A b \in history : Occurrences(b) = 3 =>
                RepetitionKey(b) = RepetitionKey(board)
=============================================================================
