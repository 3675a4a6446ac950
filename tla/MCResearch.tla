----------------------------- MODULE MCResearch -----------------------------
EXTENDS Research, TLC

Symmetry == Permutations(Papers) \cup Permutations(Workflows \ Planned)
=============================================================================
