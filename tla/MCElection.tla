---------------------------- MODULE MCElection ----------------------------
EXTENDS Election, TLC
Symmetry == Permutations(Node)
=============================================================================
