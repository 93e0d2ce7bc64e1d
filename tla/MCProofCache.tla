----------------------------- MODULE MCProofCache -----------------------------
EXTENDS ProofCache

CONSTANTS r1, r2, a, b

MCRequests == {r1, r2}
MCClaims == {a, b}
===============================================================================
