---------------------------- MODULE MCTourCorpus ----------------------------
EXTENDS TourCorpus, TLC

Symmetry == Permutations(Procs) \cup Permutations(Families \ {Stem})
=============================================================================
