---------------------------- MODULE MCLifecycle ----------------------------
(* One job run, two browsers and the commands whose segments differ.       *)
EXTENDS Lifecycle

MCCommands == {"history.list", "conversation.open"}

=============================================================================
