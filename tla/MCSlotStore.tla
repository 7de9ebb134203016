---------------------------- MODULE MCSlotStore ----------------------------
EXTENDS SlotStore, TLC

CONSTANTS operator, hook, ann, v1, v2

MCProcs == {operator, hook}
MCPhones == {ann}
MCValues == {v1}
MCTwoValues == {v1, v2}
MCSymmetry == Permutations(MCProcs)
=============================================================================
