---------------------------- MODULE MCKeyStore ----------------------------
EXTENDS KeyStore, TLC

Symmetry == Permutations(Key) \cup Permutations(Cli)
=============================================================================
