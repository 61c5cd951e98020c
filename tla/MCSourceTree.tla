---------------------------- MODULE MCSourceTree ----------------------------
\* SourceTree for TLC: chunks of one token each, model values for the rest.
EXTENDS SourceTree, TLC

MCTokens == [c \in Chunks |-> 1]
Symmetry == Permutations(Chunks) \cup Permutations(Workers) \cup Permutations(SummaryIds)
=============================================================================
