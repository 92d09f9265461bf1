------------------------------- MODULE MCChess -------------------------------
(***************************************************************************)
(* Positions to play on from, chosen for the rules that go wrong: castling *)
(* with rooks that can take each other, en passant with the king in line,  *)
(* promotion by capturing a rook at home, a fortress in which only the     *)
(* kings move and White may once castle, three knights and three queens,   *)
(* the hundredth half-move, and the last pawn.                             *)
(***************************************************************************)
EXTENDS Chess

White(t, squares) == [s \in squares |-> Piece("white", t)]
Black(t, squares) == [s \in squares |-> Piece("black", t)]

Kings(w, b) == White("king", {w}) @@ Black("king", {b})

Start(squares, turn, castling, halfMove, plies) ==
    [board |-> [squares |-> squares, turn |-> turn, castling |-> castling,
                enPassant |-> NoSquare, halfMove |-> halfMove, fullMove |-> 30],
     plies |-> plies]

AllRights == {"white", "black"} \X Wings

\* NewBoard
BackRank == <<"rook", "knight", "bishop", "queen", "king", "bishop", "knight", "rook">>

StartBoard ==
    [s \in 0 .. 7 |-> Piece("white", BackRank[s + 1])] @@ White("pawn", 8 .. 15) @@
    [s \in 56 .. 63 |-> Piece("black", BackRank[s - 55])] @@ Black("pawn", 48 .. 55)

MCStarts == {
    [Start(StartBoard, "white", AllRights, 0, 2) EXCEPT !.board.fullMove = 1],
    \* Ke1 Ra1 Rh1 - ke8 ra8 rh8
    Start(Kings(4, 60) @@ White("rook", {0, 7}) @@ Black("rook", {56, 63}),
          "white", AllRights, 0, 2),
    \* Ka5 Pe5 Pg5 - kh8 rh5 pd7 pf7
    Start(Kings(32, 63) @@ White("pawn", {36, 38}) @@ Black("rook", {39}) @@ Black("pawn", {51, 53}),
          "black", {}, 0, 3),
    \* Kg1 Pb7 - ke8 ra8
    Start(Kings(6, 60) @@ White("pawn", {49}) @@ Black("rook", {56}),
          "white", {<<"black", "queen">>}, 0, 3),
    \* Ke1 Ra1 Bb1 Pa2 Pc2 Pe2 Pg2 Pa6 Pc6 Pe6 Pg6 - ka8 pa3 pc3 pe3 pg3 pa7 pc7 pe7 pg7
    Start(Kings(4, 56) @@ White("rook", {0}) @@ White("bishop", {1})
                       @@ White("pawn", {8, 10, 12, 14, 40, 42, 44, 46})
                       @@ Black("pawn", {16, 18, 20, 22, 48, 50, 52, 54}),
          "white", {<<"white", "queen">>}, 0, 10),
    \* Ka1 Qe4 Qh4 Qh1 - ka7
    Start(Kings(0, 48) @@ White("queen", {28, 31, 7}), "white", {}, 0, 1),
    \* Kh1 Nb1 Nb3 Nf3 - ka8
    Start(Kings(7, 56) @@ White("knight", {1, 17, 21}), "white", {}, 0, 1),
    \* Kb6 Rh1 - ka8, the 99th half-move
    Start(Kings(41, 56) @@ White("rook", {7}), "white", {}, 98, 3),
    \* Kb6 Pa7 - ka8: White to move stalemates, or loses the pawn
    Start(Kings(41, 56) @@ White("pawn", {48}), "white", {}, 0, 2),
    \* Kc1 Bd2 - kb3 pb2: the pawn falls or promotes
    Start(Kings(2, 17) @@ White("bishop", {11}) @@ Black("pawn", {9}), "white", {}, 0, 3)
}
=============================================================================
