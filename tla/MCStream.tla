------------------------------ MODULE MCStream ------------------------------
EXTENDS Stream, TLC

CONSTANTS r1, r2

MCReceiver == {r1, r2}
MCSymmetry == Permutations(MCReceiver)
AllCalls == Calls
=============================================================================
