--------------------------- MODULE MCThreadGroup ---------------------------
EXTENDS ThreadGroup

CONSTANTS m1, m2, m3, c1, c2

MCTask == {m1, m2, m3}
MCClient == {c1, c2}
=============================================================================
