------------------------------ MODULE MCLogger ------------------------------
EXTENDS Logger

CONSTANTS r1, r2, t1, t2

MCRecord == {r1, r2}
MCLine == {t1, t2}
=============================================================================
