----------------------------- MODULE MCPrograms -----------------------------
(***************************************************************************)
(* Four parts of the repository that share nothing, checked side by side:  *)
(* subject says which one a behaviour is about.  The others never move.    *)
(***************************************************************************)
EXTENDS MCBuffer, Rpc, Integers, TLC

CONSTANTS Pages, FirstRows, MaxClicks, MaxLost,
          Sizes, Points

ASSUME RowsAssumption == FirstRows \in Nat
ASSUME BoardsAssumption == Sizes \subseteq Nat

VARIABLES subject,
          db, nextId, err, calls, rows, table, clicks, lost,
          added, gone, mayReturn, masked, blame,
          grateSize, chessMap, playerFlag, lastPos, at

Todo == INSTANCE Bubble
Game == INSTANCE Gobang

todoVars == <<db, nextId, err, calls, rows, table, clicks, lost,
              added, gone, mayReturn, masked, blame>>
gameVars == <<grateSize, chessMap, playerFlag, lastPos, at>>
allVars == <<subject, vars, todoVars, rpcVars, gameVars>>

AllInit == /\ subject \in {"buffer", "bubble", "rpc", "gobang"}
           /\ Init /\ Todo!Init /\ RpcInit
           /\ Game!Init /\ (subject # "gobang" => \A n \in Sizes : grateSize <= n)

AllNext ==
  /\ UNCHANGED subject
  /\ \/ subject = "buffer" /\ Next /\ UNCHANGED <<todoVars, rpcVars, gameVars>>
     \/ subject = "bubble" /\ Todo!Next /\ UNCHANGED <<vars, rpcVars, gameVars>>
     \/ subject = "rpc" /\ RpcNext /\ UNCHANGED <<vars, todoVars, gameVars>>
     \/ subject = "gobang" /\ Game!Next /\ UNCHANGED <<vars, todoVars, rpcVars>>

AllSpec == AllInit /\ [][AllNext]_allVars

Symmetry == Permutations(Pages)

\* A board of 1 is full after the first stone, as every board of an odd size is
\* after the person's last.  On one of 5 the person plays in the first row and
\* in four points of the first column, enough to win by a fork.  On one of 6 an
\* open three has room, and from these points the person can make the program
\* prefer one to a five of its own.
MCPoints == 1 :> {<<0, 0>>} @@
            5 :> {p \in (0..4) \X (0..4) : p[1] = 0 \/ (p[2] = 0 /\ p[1] < 4)} @@
            6 :> {<<1, 4>>, <<3, 3>>, <<3, 4>>, <<4, 2>>, <<4, 3>>, <<4, 4>>, <<5, 2>>, <<5, 4>>}

\* The rows of the table were added by somebody and not removed since, but for
\* rows a PUT was writing (Bubble; main.go's PUT handler).
RowsAreAdded == subject = "bubble" => Todo!RowsAreAdded

\* A page whose calls were all answered shows the table, but for the causes
\* Bubble names (app.js: tableData is changed by index, not asked for again).
PageIsCurrent == subject = "bubble" => Todo!PageIsCurrent

\* The game ends exactly when there is a five, and its owner wins (Gobang;
\* Chess::checkWin, checkOver).
WinIsSeen == subject = "gobang" => Game!WinIsSeen

\* The program completes its five or prevents the person's, unless
\* calculateScore lost the score or open threes outweigh it (Gobang; AI::think).
AnswersFours == subject = "gobang" => Game!AnswersFours
=============================================================================
