------------------------------ MODULE MCBuffer ------------------------------
\* Chunks of distinct bytes, so that a misplaced byte shows.
EXTENDS Buffer

MCChunks == {<<1>>, <<2, 3>>, <<4, 5, 6>>, <<1, 2, 3, 4, 5>>}
=============================================================================
