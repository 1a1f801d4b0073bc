--------------------------- MODULE MCWorkerStore ----------------------------
EXTENDS WorkerStore
Symmetry == Permutations(Requests)
=============================================================================
