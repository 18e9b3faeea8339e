-------------------------- MODULE MCLiveConversation --------------------------
EXTENDS LiveConversation, TLC

Symmetry == Permutations(Calls)
=============================================================================
