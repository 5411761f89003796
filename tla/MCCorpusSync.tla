---------------------------- MODULE MCCorpusSync ----------------------------
EXTENDS CorpusSync, TLC

Symmetry == Permutations(Texts)

=============================================================================
