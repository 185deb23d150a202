--------------------------- MODULE MCTtsSynthesis ---------------------------
EXTENDS TtsSynthesis
=============================================================================
