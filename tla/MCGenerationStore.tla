------------------------- MODULE MCGenerationStore -------------------------
EXTENDS GenerationStore

CONSTANTS c1, c2, s1, s2, g1, g2, g3, g4

MCClients  == {c1, c2}
MCSwappers == {s1, s2}
MCGens     == {g1, g2, g3, g4}
=============================================================================
