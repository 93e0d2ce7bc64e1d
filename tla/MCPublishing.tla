----------------------------- MODULE MCPublishing -----------------------------
EXTENDS Publishing, TLC

CONSTANTS d1, d2, s1, s2

MCDaemons == {d1, d2}
MCScopes == {s1, s2}
MCOneScope == {s1}
\* One directory and one file are there already.
MCEarlier == (s1 :> 1) @@ (s2 :> 2)
===============================================================================
