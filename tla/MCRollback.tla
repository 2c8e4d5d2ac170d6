---------------------------- MODULE MCRollback ----------------------------
EXTENDS Rollback, TLC

\* Two equally named files.
MCName == [f \in File |-> "log"]

Symmetry == Permutations(File) \cup Permutations(Content)
=============================================================================
