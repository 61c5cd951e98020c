---------------------------- MODULE MCTreeReset -----------------------------
\* TreeReset for TLC: chunks of one token each, model values for the rest.
EXTENDS TreeReset

MCTokens == [c \in Chunks |-> 1]
=============================================================================
