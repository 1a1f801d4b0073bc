---------------------------- MODULE MCSupervisor ----------------------------
EXTENDS Supervisor, TLC
Symmetry == Permutations(Requests) \cup Permutations(Workers)
=============================================================================
