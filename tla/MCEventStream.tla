--------------------------- MODULE MCEventStream ---------------------------
EXTENDS EventStream
Symmetry == Permutations(Connections)
=============================================================================
