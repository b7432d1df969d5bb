--------------------------- MODULE MCReleaseGuard ---------------------------
EXTENDS ReleaseGuard, TLC

CONSTANTS w1, w2

MCSymmetry == Permutations({w1, w2})
=============================================================================
