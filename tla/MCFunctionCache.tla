--------------------------- MODULE MCFunctionCache --------------------------
EXTENDS FunctionCache, TLC

CONSTANTS h1, h2

MCHandle == {h1, h2}
MCSymmetry == Permutations(MCHandle)
=============================================================================
