------------------------------- MODULE Gobang -------------------------------
(***************************************************************************)
(* The five-in-a-row game: the person plays black, the program white.  The *)
(* one thread of ChessGame::play lets each place a stone in turn and looks *)
(* for a five through the stone just placed.                               *)
(***************************************************************************)
EXTENDS Integers, Sequences

CONSTANTS Sizes,   \* the sizes of board tried (Chess's gradeSize)
          Points   \* bound: [size] the points the person plays at

Empty == 0
Black == 1
White == -1

VARIABLES grateSize,   \* never changes
          chessMap, playerFlag, lastPos,
          at           \* where play() is

vars == <<grateSize, chessMap, playerFlag, lastPos, at>>

Board(n) == (0..(n - 1)) \X (0..(n - 1))
Cells == Board(grateSize)
From(pos, i, d) == <<pos[1] + i * d[1], pos[2] + i * d[2]>>
Stone(pos, kind) == pos \in Cells /\ chessMap[pos] = kind

(***************************************************************************)
(* Chess::checkWin: one of the five lines of five in each direction through *)
(* lastPos is of one colour.                                               *)
(***************************************************************************)
Directions == {<<0, 1>>, <<1, 0>>, <<-1, 1>>, <<1, 1>>}

\* Mutant of CheckWin: the line that starts four before lastPos is left out.
CheckWinButOne ==
  \E d \in Directions, i \in 0..3 :
    LET start == From(lastPos, -i, d)
    IN  /\ start \in Cells /\ From(start, 4, d) \in Cells
        /\ \A k \in 1..4 : chessMap[From(start, k, d)] = chessMap[start]

CheckWin ==
  \E d \in Directions, i \in 0..4 :
    LET start == From(lastPos, -i, d)
    IN  /\ start \in Cells /\ From(start, 4, d) \in Cells
        /\ \A k \in 1..4 : chessMap[From(start, k, d)] = chessMap[start]

(***************************************************************************)
(* AI::calculateScore.  Along a ray from pos: how many stones of kind come *)
(* first (at most 4), and whether an empty point follows.                  *)
(***************************************************************************)
Stones(pos, d, kind) ==
  CHOOSE n \in 0..4 : /\ \A i \in 1..n : Stone(From(pos, i, d), kind)
                      /\ n = 4 \/ ~Stone(From(pos, n + 1, d), kind)
Open(pos, d, kind) ==
  LET n == Stones(pos, d, kind)
  IN  IF n < 4 /\ Stone(From(pos, n + 1, d), Empty) THEN 1 ELSE 0

Back(d) == <<-d[1], -d[2]>>
Num(pos, d, kind) == Stones(pos, d, kind) + Stones(pos, Back(d), kind)
EmptyNum(pos, d, kind) == Open(pos, d, kind) + Open(pos, Back(d), kind)

\* Some of these assign where the others add.
PersonScore(score, num, emptyNum) ==
  CASE num = 1                  -> score + 10
    [] num = 2 /\ emptyNum = 1  -> score + 30
    [] num = 2 /\ emptyNum = 2  -> score + 40
    [] num = 3 /\ emptyNum = 1  -> 60
    [] num = 3 /\ emptyNum = 2  -> 5000
    [] num = 4                  -> 20000
    [] OTHER                    -> score

\* Mutant of AiScore: a five of its own is told apart from a four only if longer.
AiScoreAboveFour(score, num, emptyNum) ==
  score + CASE num = 0                  -> 5
            [] num = 1                  -> 10
            [] num = 2 /\ emptyNum = 1  -> 25
            [] num = 2 /\ emptyNum = 2  -> 50
            [] num = 3 /\ emptyNum = 1  -> 55
            [] num = 3 /\ emptyNum = 2  -> 10000
            [] num > 4                  -> 30000
            [] OTHER                    -> 0

AiScore(score, num, emptyNum) ==
  score + CASE num = 0                  -> 5
            [] num = 1                  -> 10
            [] num = 2 /\ emptyNum = 1  -> 25
            [] num = 2 /\ emptyNum = 2  -> 50
            [] num = 3 /\ emptyNum = 1  -> 55
            [] num = 3 /\ emptyNum = 2  -> 10000
            [] num >= 4                 -> 30000
            [] OTHER                    -> 0

\* The score of pos once one more direction was looked along.
Along(pos, score, d) ==
  AiScore(PersonScore(score, Num(pos, d, Black), EmptyNum(pos, d, Black)),
          Num(pos, d, White), EmptyNum(pos, d, White))

\* for y = -1..0, x = -1..1
ScoredDirections == <<<<-1, -1>>, <<-1, 0>>, <<-1, 1>>, <<0, 1>>>>

Score(pos) ==
  LET after1 == Along(pos, 0, ScoredDirections[1])
      after2 == Along(pos, after1, ScoredDirections[2])
      after3 == Along(pos, after2, ScoredDirections[3])
  IN  Along(pos, after3, ScoredDirections[4])

Vacant == {pos \in Cells : chessMap[pos] = Empty}

\* AI::think: the points it draws lots among
MaxPoints ==
  LET scores == {Score(pos) : pos \in Vacant}
  IN  {pos \in Vacant : LET score == Score(pos) IN \A other \in scores : other <= score}

(***************************************************************************)
(* ChessGame::play                                                         *)
(***************************************************************************)
\* chessDown, updateGameMap: the colour is playerFlag's, whoever asks
ChessDown(pos) ==
  /\ chessMap' = [chessMap EXCEPT ![pos] = IF playerFlag THEN Black ELSE White]
  /\ lastPos' = pos
  /\ playerFlag' = ~playerFlag
  /\ UNCHANGED grateSize

NewGame == /\ chessMap' = [pos \in Cells |-> Empty]
           /\ playerFlag' = TRUE
           /\ UNCHANGED <<grateSize, lastPos>>

ManGo ==
  /\ at = "man"
  /\ \E pos \in Points[grateSize] \cap Vacant : ChessDown(pos)
  /\ at' = "man down"

\* A click past the last line is taken for line grateSize: clickBoard reads
\* outside chessMap.
ClickOutside ==
  /\ at = "man"
  /\ at' = "crashed"
  /\ UNCHANGED <<grateSize, chessMap, playerFlag, lastPos>>

AiGo ==
  /\ at = "ai" /\ Vacant # {}
  /\ \E pos \in MaxPoints : ChessDown(pos)
  /\ at' = "ai down"

\* rand() % maxPoints.size() with no point left
AiNowhere ==
  /\ at = "ai" /\ Vacant = {}
  /\ at' = "crashed"
  /\ UNCHANGED <<grateSize, chessMap, playerFlag, lastPos>>

CheckOver ==
  /\ at \in {"man down", "ai down"}
  /\ IF CheckWin
     THEN NewGame /\ at' = "man"
     ELSE /\ at' = IF at = "man down" THEN "ai" ELSE "man"
          /\ UNCHANGED <<grateSize, chessMap, playerFlag, lastPos>>

Init ==
  /\ grateSize \in Sizes
  /\ chessMap = [pos \in Cells |-> Empty]
  /\ playerFlag = TRUE /\ lastPos = <<0, 0>>
  /\ at = "man"

Next == ManGo \/ ClickOutside \/ AiGo \/ AiNowhere \/ CheckOver

Spec == Init /\ [][Next]_vars

Five(kind) == \E pos \in Cells, d \in Directions :
                \A k \in 0..4 : Stone(From(pos, k, d), kind)

\* A game ends exactly when there is a five on the board, whoever's, and the one
\* who made it is told of his win: nobody is to move on a board with a five, and
\* checkWin, which looks at lastPos only, and checkOver, which looks at
\* playerFlag after the turn has passed, find it and its colour.
WinIsSeen ==
  IF at \in {"man down", "ai down"}
  THEN /\ CheckWin <=> Five(Black) \/ Five(White)
       /\ CheckWin => Five(IF playerFlag THEN White ELSE Black)
  ELSE ~Five(Black) /\ ~Five(White)

\* kind makes a five by playing at pos.
Completes(pos, kind) == \E d \in Directions : Num(pos, d, kind) >= 4

\* calculateScore gives pos the score of that five (it has none for a black line
\* of six or more), and no later direction assigns the score of a black three or
\* four instead.
Counted(pos, kind) ==
  \E i \in 1..4 :
    /\ Num(pos, ScoredDirections[i], kind) >= 4
    /\ kind = Black => Num(pos, ScoredDirections[i], kind) = 4
    /\ \A j \in (i + 1)..4 :
         LET num == Num(pos, ScoredDirections[j], Black)
         IN  num # 4 /\ (num = 3 => EmptyNum(pos, ScoredDirections[j], Black) = 0)

\* The lines through pos in which the program has a three with room on both
\* sides, 10000 points each.
OpenThree(pos, d) ==
  IF Num(pos, d, White) = 3 /\ EmptyNum(pos, d, White) = 2 THEN 1 ELSE 0
OpenThrees(pos) == OpenThree(pos, ScoredDirections[1]) + OpenThree(pos, ScoredDirections[2])
                   + OpenThree(pos, ScoredDirections[3]) + OpenThree(pos, ScoredDirections[4])

\* The program takes a five it can make, and if it can make none plays where the
\* person would make one, unless calculateScore lost the score of every such
\* point on the way (it assigns 60, 5000 or 20000 for black threes and fours
\* where it adds for everything else) or open threes of its own, which it does
\* add, outweigh it at the point it plays: three of them a five of its own, one
\* a five of its own where the person would make one, two the person's five.
AnswersFours ==
  at = "ai" =>
    LET Fives(kind) == {pos \in Vacant : Completes(pos, kind)}
        wins == Fives(White)
        needs == Fives(Black)
    IN  /\ (\E pos \in wins : Counted(pos, White)) =>
             \A pos \in MaxPoints :
               pos \in wins \/ OpenThrees(pos) >= IF pos \in needs THEN 1 ELSE 3
        /\ wins = {} /\ (\E pos \in needs : Counted(pos, Black)) =>
             \A pos \in MaxPoints : pos \in needs \/ OpenThrees(pos) >= 2
=============================================================================
