-------------------------- MODULE MCConversationSync --------------------------
(* Instances of ConversationSync for TLC.                                  *)
EXTENDS ConversationSync
=============================================================================
