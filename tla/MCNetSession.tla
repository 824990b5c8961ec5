---------------------------- MODULE MCNetSession ----------------------------
EXTENDS NetSession, TLC

\* No definition distinguishes the clients, or the users, from each other.
Symmetry == Permutations(Clients) \cup Permutations(Users)
=============================================================================
