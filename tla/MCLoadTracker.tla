---------------------------- MODULE MCLoadTracker ----------------------------
EXTENDS LoadTracker

CONSTANTS q1, q2, igl, inv

MCQueries == {q1, q2}
MCPassers == {igl, inv}
MCPollers == {igl}
==============================================================================
