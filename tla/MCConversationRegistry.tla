----------------------- MODULE MCConversationRegistry -----------------------
(* Instances of ConversationRegistry for TLC.                              *)
EXTENDS ConversationRegistry, TLC

Symmetry == Permutations(Ops) \cup Permutations(Sessions)
=============================================================================
