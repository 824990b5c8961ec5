---------------------------- MODULE MCNetFiles ----------------------------
(* A small disk: each user has a file, a directory and in it a file of the *)
(* same name.  The users are alike, so that they may be exchanged.         *)
EXTENDS NetFiles

CONSTANTS d, f

MCFs == [p \in UNION {{<<u>>, <<u, <<f>>>>, <<u, <<d>>>>, <<u, <<d>>, <<f>>>>} : u \in Users} |->
           IF Len(p) = 1 \/ Last(p) = <<d>> THEN Dir ELSE <<p[1], Len(p)>>]

MCSymmetry == Permutations(Users)
=============================================================================
