------------------------------- MODULE MCOrder -------------------------------
EXTENDS CilOrder, TLC
MCSymmetry == Permutations(Item)
=============================================================================
