----------------------------- MODULE MCHandlePool -----------------------------
EXTENDS HandlePool

CONSTANTS c1, c2, c3, h1, h2

MCCallers == {c1, c2, c3}
MCHandles == {h1, h2}
===============================================================================
